---- MODULE SessionProofs ----
(***************************************************************************)
(* Theorems about every market that Session describes, however many        *)
(* accounts, contract types and orders it has.                             *)
(*                                                                         *)
(* IInv is the inductive invariant.  Conserved and ZeroSum say nothing of  *)
(* an open transaction; what the next commit makes of it does, so IInv     *)
(* says of tx what they say of db -- but while resolve() pays, tx does not *)
(* balance: then it counts the winner's units as the stakes, and what has  *)
(* been paid against what is left.  ToldInv is what messages need besides, *)
(* TradeInv what the order of trading does.                                *)
(***************************************************************************)
EXTENDS Session, TablesTheorems

(* The side whose units count while resolve() pays. *)
Ruled == [AllFixed EXCEPT ![ruling.ct] = ruling.side]

(* Committed and uncommitted tables balance. *)
LedgerInv ==
    /\ Ledger(db, Issued)
    /\ stage # "pay" => Ledger(tx, Issued)

(* What resolve() has paid is what it has closed. *)
PayInv ==
    stage = "pay" =>
        /\ TotalAs(tx, Ruled) = Issued
        /\ Net(tx, ruling.ct) + ruling.total = 0
        /\ \A c \in ContractType \ {ruling.ct} : Net(tx, c) = 0

(* An operation is an order or a sweep, and a sweep is in one stage. *)
StageInv ==
    /\ stage # "none" => order.quantity = 0
    /\ stage \in {"none", "pay"} => queue = NoQueue
    /\ stage \in {"before", "clear", "pay"} => ruling.ct \in ContractType
    /\ stage \in {"before", "clear"} => ruling.total = 0

(* The id of an order in progress is fresh, and its candidates are there. *)
IdsInv ==
    /\ \A i \in OfferId : Exists(db, i) \/ Exists(tx, i) => i <= orders
    /\ order.quantity > 0 =>
          /\ orders > 0
          /\ ~ Exists(tx, orders)
          /\ \A i \in rows : Exists(tx, i)

IInv == TypeOK /\ LedgerInv /\ PayInv /\ StageInv /\ IdsInv /\ AssertionsHold

(***************************************************************************)
(* Types.                                                                  *)
(***************************************************************************)
(* The values that stand for nothing have their types. *)
LEMMA NoneTypes ==
    /\ NoOffer \in OfferRow /\ NoOffer.quantity = 0
    /\ NoTally \in Tally
    /\ NoQueue \in [Group -> SUBSET OfferId]
    /\ NoRuling \in [ct : 0..NumTypes, side : Side, total : Int]
    /\ NoRuling.total = 0
<1>1. NoOffer \in OfferRow /\ NoOffer.quantity = 0
  BY NoOfferRow DEF NoOffer
<1>2. NoQueue \in [Group -> SUBSET OfferId]
  BY DEF NoQueue
<1>3. 0 \in 0..NumTypes
  BY TablesAssumption
<1> QED BY <1>1, <1>2, <1>3, NoTallyType DEF NoRuling, Side

(* The queues of a sweep hold offer ids. *)
LEMMA QueueTypes ==
    ASSUME NEW t, NEW when, NEW found \in SUBSET OfferId
    PROVE  /\ FilterQueue(t, when) \in [Group -> SUBSET OfferId]
           /\ CleanupQueue(t, when, found) \in [Group -> SUBSET OfferId]
<1>1. ExpiredIds(t, when) \in SUBSET OfferId /\ MaturedIds(t, when) \in SUBSET OfferId
  BY DEF ExpiredIds, MaturedIds
<1> HIDE DEF ExpiredIds, MaturedIds
<1> QED BY <1>1 DEF FilterQueue, CleanupQueue, Group

(* NOW() is a time. *)
LEMMA ClockType ==
    ASSUME TypeOK
    PROVE  Clock \in Nat
  BY DEF TypeOK, Clock

(* Typed tables are books. *)
LEMMA TypedBooks ==
    ASSUME TypeOK
    PROVE  db \in Books /\ tx \in Books
  BY DatabaseBooks DEF TypeOK

(***************************************************************************)
(* Steps that change no table.                                             *)
(***************************************************************************)
(* get_user's SELECT changes no table. *)
LEMMA LookupUserKeeps == ASSUME IInv, LookupUser PROVE IInv'
<1> USE DEF LookupUser, Quiet, placing, sweeping
<1>1. TypeOK'
  BY DEF IInv, TypeOK
<1>2. LedgerInv' /\ PayInv' /\ StageInv' /\ IdsInv' /\ AssertionsHold'
  BY DEF IInv, LedgerInv, PayInv, Ruled, StageInv, IdsInv, AssertionsHold
<1> QED BY <1>1, <1>2 DEF IInv

(* A lookup that gives up leaves the committed tables and the messages. *)
LEMMA LookupNobodyKeeps == ASSUME IInv, LookupNobody PROVE IInv'
<1> USE DEF LookupNobody, Quiet, placing, sweeping
<1>1. TypeOK'
  BY DEF IInv, TypeOK
<1>2. LedgerInv' /\ PayInv' /\ StageInv' /\ IdsInv' /\ AssertionsHold'
  BY DEF IInv, LedgerInv, PayInv, Ruled, StageInv, IdsInv, AssertionsHold
<1> QED BY <1>1, <1>2 DEF IInv

(* Time passing preserves the invariant. *)
LEMMA TickKeeps == ASSUME IInv, Tick PROVE IInv'
<1> USE DEF Tick, Quiet, connection, placing, sweeping
<1>1. TypeOK'
  BY SessionAssumption DEF IInv, TypeOK
<1>2. LedgerInv' /\ PayInv' /\ StageInv' /\ IdsInv' /\ AssertionsHold'
  BY DEF IInv, LedgerInv, PayInv, Ruled, StageInv, IdsInv, AssertionsHold
<1> QED BY <1>1, <1>2 DEF IInv

(* A new process starts from the committed tables. *)
LEMMA RestartKeeps == ASSUME IInv, Restart PROVE IInv'
<1> USE DEF Restart, ProcessEnds, NoOrder, NoSweep
<1>1. TypeOK'
  BY NoneTypes DEF IInv, TypeOK, Stage
<1>2. LedgerInv' /\ PayInv' /\ StageInv' /\ IdsInv' /\ AssertionsHold'
  BY NoneTypes DEF IInv, LedgerInv, PayInv, Ruled, StageInv, IdsInv, AssertionsHold
<1> QED BY <1>1, <1>2 DEF IInv

(* place() starts with candidates that exist and an id nobody has. *)
LEMMA PlaceOrderKeeps == ASSUME IInv, NEW o \in Trades, PlaceOrder(o) PROVE IInv'
<1> USE DEF PlaceOrder, Quiet, sweeping
<1>1. o \in OfferRow /\ o.quantity > 0
  BY SessionAssumption
<1>2. rows' \subseteq OfferId /\ \A i \in rows' : Exists(tx, i)
  BY DEF Candidates
<1>3. orders \in Nat /\ orders + 1 \in 0..MaxOrders /\ orders + 1 > 0
  BY TablesAssumption DEF IInv, TypeOK
<1>4. TypeOK'
  BY <1>1, <1>2, <1>3, ClockType DEF IInv, TypeOK, OpenTransaction
<1>5. LedgerInv' /\ PayInv' /\ StageInv' /\ AssertionsHold'
  BY DEF IInv, LedgerInv, PayInv, Ruled, StageInv, AssertionsHold
<1>6. IdsInv'
  <2>1. \A i \in OfferId : Exists(db, i) \/ Exists(tx, i) => i <= orders /\ i <= orders + 1
    BY <1>3, Sizes DEF IInv, IdsInv
  <2>2. ~ Exists(tx, orders + 1)
    <3>1. orders + 1 \in OfferId
      BY <1>3 DEF OfferId
    <3> QED BY <1>3, <2>1, <3>1
  <2> QED BY <1>2, <1>3, <2>1, <2>2 DEF IdsInv, Exists
<1> QED BY <1>4, <1>5, <1>6 DEF IInv

(* filter() starts a sweep and changes no table. *)
LEMMA ListOffersKeeps == ASSUME IInv, ListOffers PROVE IInv'
<1> USE DEF ListOffers, Quiet, placing
<1>1. TypeOK'
  BY ClockType, QueueTypes DEF IInv, TypeOK, OpenTransaction, Stage
<1>2. LedgerInv' /\ PayInv' /\ StageInv' /\ IdsInv' /\ AssertionsHold'
  BY DEF IInv, LedgerInv, PayInv, StageInv, IdsInv, AssertionsHold
<1> QED BY <1>1, <1>2 DEF IInv

(* resolve() starts with nothing paid. *)
LEMMA ResolveKeeps ==
    ASSUME IInv, NEW c \in ContractType, NEW side \in Side, Resolve(c, side)
    PROVE  IInv'
<1> USE DEF Resolve, Quiet, placing
<1>1. ruling' \in [ct : 0..NumTypes, side : Side, total : Int] /\ ruling'.ct \in ContractType
      /\ ruling'.total = 0
  BY TablesAssumption DEF ContractType
<1>2. TypeOK'
  BY <1>1, ClockType, QueueTypes DEF IInv, TypeOK, OpenTransaction, Stage
<1>3. LedgerInv' /\ PayInv' /\ StageInv' /\ IdsInv' /\ AssertionsHold'
  BY <1>1 DEF IInv, LedgerInv, PayInv, StageInv, IdsInv, AssertionsHold
<1> QED BY <1>2, <1>3 DEF IInv

(* The daily process starts from the committed tables. *)
LEMMA DailyCleanupKeeps == ASSUME IInv, DailyCleanup PROVE IInv'
<1> USE DEF DailyCleanup, Quiet, placing
<1>1. TypeOK'
  BY NoneTypes, QueueTypes DEF IInv, TypeOK, Stage
<1>2. LedgerInv' /\ PayInv' /\ StageInv' /\ IdsInv' /\ AssertionsHold'
  BY DEF IInv, LedgerInv, PayInv, StageInv, IdsInv, AssertionsHold
<1> QED BY <1>1, <1>2 DEF IInv

(* A skipped candidate changes no table. *)
LEMMA SkipRowKeeps == ASSUME IInv, NEW i \in OfferId, SkipRow(i) PROVE IInv'
<1> USE DEF SkipRow, connection, sweeping
<1>1. TypeOK'
  BY DEF IInv, TypeOK
<1>2. LedgerInv' /\ PayInv' /\ StageInv' /\ IdsInv' /\ AssertionsHold'
  BY DEF IInv, LedgerInv, PayInv, Ruled, StageInv, IdsInv, AssertionsHold
<1> QED BY <1>1, <1>2 DEF IInv

(***************************************************************************)
(* Steps that commit.                                                      *)
(***************************************************************************)
(* Sending the messages changes no offer and no total. *)
LEMMA FlushedKeeps ==
    ASSUME NEW t \in Database, NEW list \in Tally
    PROVE  LET u == Flushed(t, list)
           IN  /\ u \in Database
               /\ Ledger(u, Issued) <=> Ledger(t, Issued)
               /\ \A i \in OfferId : Exists(u, i) <=> Exists(t, i)
<1>1. t \in Books
  BY DatabaseBooks
<1> QED BY <1>1, FlushedEffect, LedgerOfFlushed DEF Exists

(* FlushAndCommit and its like: the flushed tables are committed. *)
LEMMA CommitKeeps ==
    ASSUME NEW t \in Database, NEW list \in Tally,
           tx' = Flushed(t, list), db' = tx', pending' = NoTally,
           Ledger(t, Issued)
    PROVE  /\ db' \in Database /\ tx' \in Database /\ pending' \in Tally
           /\ Ledger(db', Issued) /\ Ledger(tx', Issued)
           /\ \A i \in OfferId : /\ Exists(tx', i) <=> Exists(t, i)
                                 /\ Exists(db', i) <=> Exists(t, i)
  BY FlushedKeeps, NoneTypes

(* Taking units off an offer. *)
LEMMA ReducedKeeps ==
    ASSUME NEW t \in Database, NEW i \in OfferId, NEW n \in Nat,
           n <= t.offer[i].quantity
    PROVE  LET u == ReduceOffer(t, i, n)
           IN  /\ u \in Database
               /\ Ledger(u, Issued) <=> Ledger(t, Issued)
               /\ \A k \in OfferId : Exists(u, k) => Exists(t, k)
               /\ \A k \in OfferId : k # i => (Exists(u, k) <=> Exists(t, k))
               /\ u.position = t.position
<1> DEFINE u == ReduceOffer(t, i, n)
<1>1. t \in Books
  BY DatabaseBooks
<1>2. t.offer[i].quantity \in Nat
  BY DEF Database, OfferRow
<1>3. /\ u.position = t.position
      /\ \A k \in OfferId : k # i => u.offer[k] = t.offer[k]
      /\ u.offer[i].quantity = t.offer[i].quantity - n
  BY <1>1, ReduceOfferEffect, AllFixedType
<1>4. u \in Database /\ (Ledger(u, Issued) <=> Ledger(t, Issued))
  BY <1>1, LedgerOfReduced
<1> HIDE DEF u
<1>5. \A k \in OfferId : Exists(u, k) => Exists(t, k)
  <2> TAKE k \in OfferId
  <2>1. CASE k = i
    BY <1>2, <1>3, <2>1 DEF Exists
  <2>2. CASE k # i
    BY <1>3, <2>2 DEF Exists
  <2> QED BY <2>1, <2>2
<1>6. \A k \in OfferId : k # i => (Exists(u, k) <=> Exists(t, k))
  BY <1>3 DEF Exists
<1> QED BY <1>3, <1>4, <1>5, <1>6 DEF u

(* cancel() commits the refund of a whole offer. *)
LEMMA CancelKeeps == ASSUME IInv, NEW i \in OfferId, Cancel(i) PROVE IInv'
<1> DEFINE n == tx.offer[i].quantity
           t == ReduceOffer(tx, i, n)
<1> USE DEF Cancel, Quiet, placing, sweeping
<1>1. tx \in Database /\ Ledger(tx, Issued) /\ pending \in Tally
  BY DEF IInv, TypeOK, LedgerInv
<1>2. n \in Nat /\ n <= n
  BY <1>1 DEF Database, OfferRow
<1>3. /\ t \in Database /\ Ledger(t, Issued)
      /\ \A k \in OfferId : Exists(t, k) => Exists(tx, k)
  BY <1>1, <1>2, ReducedKeeps
<1>4. /\ tx' = Flushed(t, pending) /\ db' = tx' /\ pending' = NoTally
      /\ status' = "idle" /\ txNow' = 0
  BY DEF FlushAndCommit
<1> HIDE DEF t
<1>5. /\ db' \in Database /\ tx' \in Database /\ pending' \in Tally
      /\ Ledger(db', Issued) /\ Ledger(tx', Issued)
      /\ \A k \in OfferId : /\ Exists(tx', k) <=> Exists(t, k)
                            /\ Exists(db', k) <=> Exists(t, k)
  BY <1>1, <1>3, <1>4, CommitKeeps
<1>6. TypeOK'
  BY <1>4, <1>5 DEF IInv, TypeOK
<1>7. LedgerInv' /\ PayInv' /\ StageInv' /\ AssertionsHold'
  BY <1>5 DEF IInv, LedgerInv, PayInv, StageInv, AssertionsHold
<1>8. IdsInv'
  BY <1>3, <1>5 DEF IInv, IdsInv
<1> QED BY <1>6, <1>7, <1>8 DEF IInv

(* Account.persist and Issue.persist commit what the transaction holds. *)
LEMMA PersistOtherKeeps == ASSUME IInv, PersistOther PROVE IInv'
<1> USE DEF PersistOther, Quiet, placing, sweeping
<1>1. tx \in Database /\ Ledger(tx, Issued) /\ pending \in Tally
  BY DEF IInv, TypeOK, LedgerInv
<1>2. /\ tx' = Flushed(tx, pending) /\ db' = tx' /\ pending' = NoTally
      /\ status' = "idle" /\ txNow' = 0
  BY DEF FlushAndCommit
<1>3. /\ db' \in Database /\ tx' \in Database /\ pending' \in Tally
      /\ Ledger(db', Issued) /\ Ledger(tx', Issued)
      /\ \A k \in OfferId : /\ Exists(tx', k) <=> Exists(tx, k)
                            /\ Exists(db', k) <=> Exists(tx, k)
  BY <1>1, <1>2, CommitKeeps
<1>4. TypeOK'
  BY <1>2, <1>3 DEF IInv, TypeOK
<1>5. LedgerInv' /\ PayInv' /\ StageInv' /\ AssertionsHold'
  BY <1>3 DEF IInv, LedgerInv, PayInv, StageInv, AssertionsHold
<1>6. IdsInv'
  BY <1>3 DEF IInv, IdsInv
<1> QED BY <1>4, <1>5, <1>6 DEF IInv

(* A sweep that is done commits what it has done. *)
LEMMA SweepDoneKeeps == ASSUME IInv, SweepDone PROVE IInv'
<1> USE DEF SweepDone, NoSweep, placing
<1>1. tx \in Database /\ Ledger(tx, Issued) /\ pending \in Tally /\ order.quantity = 0
  BY DEF IInv, TypeOK, LedgerInv, StageInv
<1>2. /\ tx' = Flushed(tx, pending) /\ db' = tx' /\ pending' = NoTally
      /\ status' = "idle" /\ txNow' = 0
  BY DEF FlushAndCommit
<1>3. /\ db' \in Database /\ tx' \in Database /\ pending' \in Tally
      /\ Ledger(db', Issued) /\ Ledger(tx', Issued)
      /\ \A k \in OfferId : /\ Exists(tx', k) <=> Exists(tx, k)
                            /\ Exists(db', k) <=> Exists(tx, k)
  BY <1>1, <1>2, CommitKeeps
<1>4. TypeOK'
  BY <1>2, <1>3, NoneTypes DEF IInv, TypeOK, Stage
<1>5. LedgerInv' /\ PayInv' /\ StageInv' /\ IdsInv' /\ AssertionsHold'
  BY <1>1, <1>3 DEF IInv, LedgerInv, PayInv, StageInv, IdsInv, AssertionsHold
<1> QED BY <1>4, <1>5 DEF IInv

(* _do_expire refunds one offer in the open transaction. *)
LEMMA SweepOneKeeps == ASSUME IInv, NEW i \in OfferId, SweepOne(i) PROVE IInv'
<1> DEFINE n == tx.offer[i].quantity
<1> USE DEF SweepOne, placing
<1>1. stage \notin {"none", "pay"} /\ order.quantity = 0
  BY DEF IInv, StageInv, IsQueued, NoQueue
<1>2. tx \in Database /\ Ledger(tx, Issued) /\ n \in Nat /\ n <= n
  <2>1. tx \in Database /\ Ledger(tx, Issued)
    BY <1>1 DEF IInv, TypeOK, LedgerInv
  <2> QED BY <2>1 DEF Database, OfferRow
<1>3. /\ tx' \in Database /\ Ledger(tx', Issued)
      /\ \A k \in OfferId : Exists(tx', k) => Exists(tx, k)
  BY <1>2, ReducedKeeps
<1>4. queue' \in [Group -> SUBSET OfferId]
  BY DEF IInv, TypeOK, Dequeue
<1>5. TypeOK'
  BY <1>3, <1>4 DEF IInv, TypeOK
<1>6. LedgerInv' /\ PayInv' /\ StageInv' /\ IdsInv' /\ AssertionsHold'
  BY <1>1, <1>3 DEF IInv, LedgerInv, PayInv, StageInv, IdsInv, AssertionsHold, Exists
<1> QED BY <1>5, <1>6 DEF IInv

(* The IndexError leaves a balanced transaction or ends the process. *)
LEMMA SweepRaisesKeeps == ASSUME IInv, NEW i \in OfferId, SweepRaises(i) PROVE IInv'
<1> USE DEF SweepRaises, NoSweep, placing
<1>1. stage \notin {"none", "pay"} /\ order.quantity = 0
  BY DEF IInv, StageInv, IsQueued, NoQueue
<1>2. /\ db' = db
      /\ \/ tx' = db /\ status' = "idle" /\ txNow' = 0 /\ pending' = NoTally
         \/ tx' = tx /\ status' = status /\ txNow' = txNow /\ pending' = pending
      /\ raised' = "IndexError"
  BY DEF ProcessEnds, HandlerRaises, connection
<1>3. TypeOK'
  BY <1>2, NoneTypes DEF IInv, TypeOK, Stage
<1>4. LedgerInv' /\ PayInv' /\ StageInv' /\ IdsInv' /\ AssertionsHold'
  BY <1>1, <1>2 DEF IInv, LedgerInv, PayInv, StageInv, IdsInv, AssertionsHold
<1> QED BY <1>3, <1>4 DEF IInv

(***************************************************************************)
(* The stages of resolve().                                                *)
(***************************************************************************)
(* A commit within resolve() keeps what its transaction held. *)
LEMMA CommitThenKeeps ==
    ASSUME TypeOK, Ledger(tx, Issued),
           NEW next \in Stage, NEW found \in SUBSET OfferId, CommitThen(next, found)
    PROVE  /\ db' \in Database /\ tx' \in Database /\ pending' \in Tally
           /\ Ledger(db', Issued) /\ Ledger(tx', Issued)
           /\ \A k \in OfferId : /\ Exists(tx', k) <=> Exists(tx, k)
                                 /\ Exists(db', k) <=> Exists(tx, k)
           /\ status' = "open" /\ txNow' \in Nat /\ stage' = next
           /\ queue' \in [Group -> SUBSET OfferId]
           /\ next \in {"none", "pay"} => queue' = NoQueue
<1>1. tx \in Database /\ pending \in Tally /\ now \in Nat
  BY DEF TypeOK
<1>2. /\ tx' = Flushed(tx, pending) /\ db' = tx' /\ pending' = NoTally
      /\ status' = "open" /\ txNow' = now /\ stage' = next
  BY DEF CommitThen
<1>3. /\ db' \in Database /\ tx' \in Database /\ pending' \in Tally
      /\ Ledger(db', Issued) /\ Ledger(tx', Issued)
      /\ \A k \in OfferId : /\ Exists(tx', k) <=> Exists(tx, k)
                            /\ Exists(db', k) <=> Exists(tx, k)
  BY <1>1, <1>2, CommitKeeps
<1>4. \/ queue' = CleanupQueue(tx, now, found)
      \/ queue' = FilterQueue(tx, now)
      \/ queue' = NoQueue
  BY DEF CommitThen
<1>5. next \in {"none", "pay"} => queue' = NoQueue
  BY DEF CommitThen
<1>6. queue' \in [Group -> SUBSET OfferId]
  <2>1. FilterQueue(tx, now) \in [Group -> SUBSET OfferId]
    BY QueueTypes
  <2>2. CleanupQueue(tx, now, found) \in [Group -> SUBSET OfferId]
    BY QueueTypes
  <2> QED BY <1>4, <2>1, <2>2, NoneTypes
<1>7. status' = "open" /\ txNow' \in Nat /\ stage' = next
  BY <1>1, <1>2
<1> QED BY <1>3, <1>5, <1>6, <1>7

(* What filter(issue) finds are offer ids. *)
LEMMA PublicIdsType == ASSUME NEW t, NEW c PROVE PublicIds(t, c) \in SUBSET OfferId
  BY DEF PublicIds

(* The winner's units are worth what the FIXED units are, while the two    *)
(* sides still balance.                                                    *)
LEMMA RuledTotal ==
    ASSUME NEW t \in Database, NEW c \in ContractType, NEW side \in Side,
           \A d \in ContractType : Net(t, d) = 0
    PROVE  TotalAs(t, [AllFixed EXCEPT ![c] = side]) = TokenTotal(t)
<1>1. t \in Books
  BY DatabaseBooks
<1>2. [AllFixed EXCEPT ![c] = side] \in [ContractType -> Side]
  BY AllFixedType
<1>3. TotalAs(t, [AllFixed EXCEPT ![c] = side]) = TotalAs(t, AllFixed)
  BY <1>1, <1>2, AllFixedType, EitherSideCounts
<1> QED BY <1>3, TotalOfFixed

(* The stages of resolve() commit and open the next transaction; paying    *)
(* starts from a balanced ledger.                                          *)
LEMMA SweepNextKeeps == ASSUME IInv, SweepNext PROVE IInv'
<1> USE DEF SweepNext, placing
<1>1. TypeOK /\ Ledger(tx, Issued) /\ order.quantity = 0
  BY DEF IInv, LedgerInv, StageInv
<1>2. PICK next \in {"clear", "pay", "final"}, found \in SUBSET OfferId :
        /\ CommitThen(next, found)
        /\ next = "clear" => stage = "before"
        /\ next = "pay" => stage = "clear"
  BY PublicIdsType
<1>3. next \in Stage
  BY DEF Stage
<1>4. /\ db' \in Database /\ tx' \in Database /\ pending' \in Tally
      /\ Ledger(db', Issued) /\ Ledger(tx', Issued)
      /\ \A k \in OfferId : /\ Exists(tx', k) <=> Exists(tx, k)
                            /\ Exists(db', k) <=> Exists(tx, k)
      /\ status' = "open" /\ txNow' \in Nat /\ stage' = next
      /\ queue' \in [Group -> SUBSET OfferId]
      /\ next \in {"none", "pay"} => queue' = NoQueue
  BY <1>1, <1>2, <1>3, CommitThenKeeps
<1>5. TypeOK'
  BY <1>3, <1>4 DEF IInv, TypeOK
<1>6. LedgerInv' /\ StageInv' /\ IdsInv' /\ AssertionsHold'
  BY <1>1, <1>2, <1>4 DEF IInv, LedgerInv, StageInv, IdsInv, AssertionsHold
<1>7. PayInv'
  <2> SUFFICES ASSUME next = "pay" PROVE PayInv'
    BY <1>4 DEF PayInv
  <2>1. ruling.ct \in ContractType /\ ruling.side \in Side /\ ruling.total = 0 /\ ruling' = ruling
    BY <1>2 DEF IInv, StageInv, TypeOK
  <2>2. \A d \in ContractType : Net(tx', d) = 0
    BY <1>4 DEF Ledger
  <2>3. TotalAs(tx', [AllFixed EXCEPT ![ruling.ct] = ruling.side]) = TokenTotal(tx')
    BY <1>4, <2>1, <2>2, RuledTotal
  <2>4. TotalAs(tx', [AllFixed EXCEPT ![ruling.ct] = ruling.side]) = Issued
    BY <1>4, <2>3 DEF Ledger
  <2>5. Net(tx', ruling.ct) + ruling.total = 0
    BY <2>1, <2>2
  <2> QED BY <2>1, <2>2, <2>4, <2>5 DEF PayInv, Ruled
<1> QED BY <1>5, <1>6, <1>7 DEF IInv

(* The end of resolve(), with a transaction left open or not. *)
LEMMA ResolveDoneKeeps == ASSUME IInv, ResolveDone PROVE IInv'
<1> USE DEF ResolveDone, placing
<1>1. TypeOK /\ Ledger(tx, Issued) /\ order.quantity = 0 /\ tx \in Database /\ pending \in Tally
  BY DEF IInv, LedgerInv, StageInv, TypeOK
<1>2. CASE FlushAndCommit(tx) /\ NoSweep
  <2>1. /\ tx' = Flushed(tx, pending) /\ db' = tx' /\ pending' = NoTally
        /\ status' = "idle" /\ txNow' = 0
    BY <1>2 DEF FlushAndCommit
  <2>2. /\ db' \in Database /\ tx' \in Database /\ pending' \in Tally
        /\ Ledger(db', Issued) /\ Ledger(tx', Issued)
        /\ \A k \in OfferId : /\ Exists(tx', k) <=> Exists(tx, k)
                              /\ Exists(db', k) <=> Exists(tx, k)
    BY <1>1, <2>1, CommitKeeps
  <2>3. TypeOK'
    BY <1>2, <2>1, <2>2, NoneTypes DEF IInv, TypeOK, Stage, NoSweep
  <2>4. LedgerInv' /\ PayInv' /\ StageInv' /\ IdsInv' /\ AssertionsHold'
    BY <1>1, <1>2, <2>2 DEF NoSweep, IInv, LedgerInv, PayInv, StageInv, IdsInv, AssertionsHold
  <2> QED BY <2>3, <2>4 DEF IInv
<1>3. CASE CommitThen("none", {}) /\ ruling' = NoRuling
  <2>1. "none" \in Stage /\ {} \in SUBSET OfferId
    BY DEF Stage
  <2>2. /\ db' \in Database /\ tx' \in Database /\ pending' \in Tally
        /\ Ledger(db', Issued) /\ Ledger(tx', Issued)
        /\ \A k \in OfferId : /\ Exists(tx', k) <=> Exists(tx, k)
                              /\ Exists(db', k) <=> Exists(tx, k)
        /\ status' = "open" /\ txNow' \in Nat /\ stage' = "none"
        /\ queue' \in [Group -> SUBSET OfferId]
        /\ queue' = NoQueue
    BY <1>1, <1>3, <2>1, CommitThenKeeps
  <2>3. TypeOK'
    BY <1>3, <2>1, <2>2, NoneTypes DEF IInv, TypeOK
  <2>4. LedgerInv' /\ PayInv' /\ StageInv' /\ IdsInv' /\ AssertionsHold'
    BY <1>1, <2>2 DEF IInv, LedgerInv, PayInv, StageInv, IdsInv, AssertionsHold
  <2> QED BY <2>3, <2>4 DEF IInv
<1> QED BY <1>2, <1>3

(* Paying a position keeps what is paid equal to what is left. *)
LEMMA PayOneKeeps == ASSUME IInv, NEW a \in Account, PayOne(a) PROVE IInv'
<1> DEFINE c == ruling.ct
           side == ruling.side
           winner == [AllFixed EXCEPT ![c] = side]
           q == tx.position[c][a].quantity
<1> USE DEF PayOne, placing
<1>1. /\ stage = "pay" /\ stage' = stage /\ c \in ContractType /\ side \in Side
      /\ order.quantity = 0 /\ tx \in Database /\ tx \in Books
      /\ ruling \in [ct : 0..NumTypes, side : Side, total : Int] /\ pending \in Tally
      /\ queue = NoQueue
  BY TypedBooks DEF IInv, StageInv, TypeOK
<1>2. /\ TotalAs(tx, winner) = Issued
      /\ Net(tx, c) + ruling.total = 0
      /\ \A d \in ContractType \ {c} : Net(tx, d) = 0
  BY <1>1 DEF IInv, PayInv, Ruled
<1>3. winner \in [ContractType -> Side] /\ winner[c] = side
  BY <1>1, AllFixedType
<1>4. tx' = PayPosition(tx, c, a, side) /\ ruling'.total = ruling.total + q
      /\ ruling'.ct = c /\ ruling'.side = side
  BY <1>1
<1> HIDE DEF winner, c, side
<1>5. /\ tx' \in Books /\ tx'.offer = tx.offer
      /\ TotalAs(tx', winner) = TotalAs(tx, winner)
      /\ Net(tx', c) = Net(tx, c) - q
      /\ \A d \in ContractType \ {c} : Net(tx', d) = Net(tx, d)
      /\ tx.balance \in [Account -> Nat] => tx'.balance \in [Account -> Nat]
      /\ q \in Int
  <2>1. tx' = PayPosition(tx, c, a, winner[c])
    BY <1>3, <1>4
  <2> QED BY <1>1, <1>3, <2>1, PayPositionEffect
<1> HIDE DEF q
<1>6. tx' \in Database
  BY <1>1, <1>5, DatabaseBooks
<1>7. NoteResolved(pending, c, a, tx.position[c][a], side) \in Tally
  <2>1. tx.position[c][a] \in Holding
    BY <1>1 DEF Database
  <2> QED BY <1>1, <2>1, NoteResolvedType
<1>8. TypeOK'
  <2>1. pending' \in Tally
    BY <1>7 DEF side, c
  <2>2. ruling' \in [ct : 0..NumTypes, side : Side, total : Int]
    BY <1>1, <1>5 DEF q, c
  <2> QED BY <1>6, <2>1, <2>2 DEF IInv, TypeOK
<1>9. PayInv'
  <2>1. Net(tx, c) \in Int /\ ruling.total \in Int
    BY <1>1, HeldTypes
  <2>2. Net(tx', c) + ruling'.total = 0
    BY <1>2, <1>4, <1>5, <2>1
  <2>3. TotalAs(tx', winner) = Issued
    BY <1>2, <1>5
  <2>4. \A d \in ContractType \ {c} : Net(tx', d) = 0
    BY <1>2, <1>5
  <2> QED BY <1>4, <2>2, <2>3, <2>4 DEF PayInv, Ruled, winner
<1>10. LedgerInv' /\ StageInv' /\ IdsInv' /\ AssertionsHold'
  BY <1>1, <1>4, <1>5 DEF IInv, LedgerInv, StageInv, IdsInv, AssertionsHold, Exists
<1> QED BY <1>8, <1>9, <1>10 DEF IInv

(* "Total is always 0": nothing left, so nothing is missing. *)
LEMMA TotalIsZero ==
    ASSUME IInv, stage = "pay", AllPaid
    PROVE  /\ ruling.total = 0
           /\ Ledger(tx, Issued)
<1>1. /\ TotalAs(tx, Ruled) = Issued
      /\ Net(tx, ruling.ct) + ruling.total = 0
      /\ \A c \in ContractType \ {ruling.ct} : Net(tx, c) = 0
      /\ tx \in Database /\ ruling.total \in Int /\ ruling.side \in Side
      /\ ruling.ct \in ContractType
  BY DEF IInv, PayInv, StageInv, TypeOK
<1>2. Net(tx, ruling.ct) = 0
  <2> DEFINE f == [a \in Account |-> tx.position[ruling.ct][a].quantity]
  <2>1. \A k \in 1..NumAccounts : f[k] = 0
    BY Sizes DEF AllPaid
  <2> HIDE DEF f
  <2>2. SumTo(f, NumAccounts) = 0
    BY <2>1, Sizes, SumToZeros
  <2> QED BY <2>2 DEF f, Net
<1>3. ruling.total = 0
  BY <1>1, <1>2
<1>4. \A d \in ContractType : Net(tx, d) = 0
  BY <1>1, <1>2
<1>5. TotalAs(tx, Ruled) = TokenTotal(tx)
  BY <1>1, <1>4, RuledTotal DEF Ruled
<1> QED BY <1>1, <1>3, <1>4, <1>5 DEF Ledger

(* When nothing is left, the payouts are committed. *)
LEMMA PayDoneKeeps == ASSUME IInv, PayDone PROVE IInv'
<1> USE DEF PayDone, placing
<1>1. TypeOK /\ Ledger(tx, Issued) /\ order.quantity = 0 /\ ruling.total = 0
  BY TotalIsZero DEF IInv, StageInv
<1>2. CommitThen("after", {}) /\ UNCHANGED <<ruling, raised>>
  BY <1>1
<1>3. "after" \in Stage /\ {} \in SUBSET OfferId
  BY DEF Stage
<1>4. /\ db' \in Database /\ tx' \in Database /\ pending' \in Tally
      /\ Ledger(db', Issued) /\ Ledger(tx', Issued)
      /\ \A k \in OfferId : /\ Exists(tx', k) <=> Exists(tx, k)
                            /\ Exists(db', k) <=> Exists(tx, k)
      /\ status' = "open" /\ txNow' \in Nat /\ stage' = "after"
      /\ queue' \in [Group -> SUBSET OfferId]
  BY <1>1, <1>2, <1>3, CommitThenKeeps
<1>5. TypeOK'
  BY <1>2, <1>3, <1>4 DEF IInv, TypeOK
<1>6. LedgerInv' /\ PayInv' /\ StageInv' /\ IdsInv' /\ AssertionsHold'
  BY <1>1, <1>2, <1>4 DEF IInv, LedgerInv, PayInv, StageInv, IdsInv, AssertionsHold
<1> QED BY <1>5, <1>6 DEF IInv

(***************************************************************************)
(* Matching an order.                                                      *)
(***************************************************************************)
(* What FillRow and FillFails know of the row they take. *)
LEMMA FillFacts ==
    ASSUME IInv, NEW i \in OfferId, Fills(i)
    PROVE  /\ stage = "none" /\ order \in OfferRow /\ order.quantity > 0
           /\ tx \in Database /\ Ledger(tx, Issued) /\ pending \in Tally
           /\ i \in rows /\ Exists(tx, i)
           /\ i # orders /\ orders \in Nat /\ orders > 0 /\ ~ Exists(tx, orders)
           /\ order.ct \in ContractType /\ order.price \in Price /\ order.quantity \in Nat
           /\ FixedHolder(i) \in Account /\ UnfixedHolder(i) \in Account
           /\ ContractSize(i) \in Nat /\ ContractSize(i) > 0
           /\ ContractSize(i) <= tx.offer[i].quantity
           /\ ContractSize(i) <= order.quantity
           /\ Reducible(tx, i, ContractSize(i))
<1>1. /\ order \in OfferRow /\ order.quantity > 0 /\ tx \in Database /\ pending \in Tally
      /\ i \in rows /\ orders \in Nat /\ stage = "none" /\ Ledger(tx, Issued)
  BY DEF IInv, TypeOK, Fills, IsNext, StageInv, LedgerInv
<1>2. Exists(tx, i) /\ ~ Exists(tx, orders) /\ orders > 0
  BY <1>1 DEF IInv, IdsInv
<1>3. i # orders
  BY <1>2
<1>4. /\ order.ct \in ContractType /\ order.price \in Price /\ order.quantity \in Nat
      /\ order.account \in Account
  BY <1>1 DEF OfferRow
<1>5. /\ tx.offer[i].account \in Account /\ tx.offer[i].quantity \in Nat
      /\ tx.offer[i].aon \in BOOLEAN
  BY <1>1 DEF Database, OfferRow
<1>6. FixedHolder(i) \in Account /\ UnfixedHolder(i) \in Account
  BY <1>4, <1>5 DEF FixedHolder, UnfixedHolder
<1>7. /\ ContractSize(i) \in Nat /\ ContractSize(i) > 0
      /\ ContractSize(i) <= tx.offer[i].quantity /\ ContractSize(i) <= order.quantity
  BY <1>1, <1>2, <1>4, <1>5 DEF ContractSize, Exists
<1>8. tx.offer[i].aon => ContractSize(i) = tx.offer[i].quantity
  BY <1>4, <1>5 DEF Fills, Skips, ContractSize
<1> QED BY <1>1, <1>2, <1>3, <1>4, <1>6, <1>7, <1>8 DEF Reducible

(* A failed statement falls back to the committed tables. *)
LEMMA StatementFailsKeeps ==
    ASSUME IInv, stage = "none", NoOrder, NEW error \in {"Short", "Late"},
           StatementFails(error), UNCHANGED <<now, orders, sweeping>>
    PROVE  IInv'
<1> USE DEF StatementFails, NoOrder, sweeping
<1>1. TypeOK'
  BY NoneTypes DEF IInv, TypeOK
<1>2. LedgerInv' /\ PayInv' /\ StageInv' /\ IdsInv' /\ AssertionsHold'
  BY NoneTypes DEF IInv, LedgerInv, PayInv, StageInv, IdsInv, AssertionsHold
<1> QED BY <1>1, <1>2 DEF IInv

(* A refused contract loses the whole order. *)
LEMMA FillFailsKeeps == ASSUME IInv, NEW i \in OfferId, FillFails(i) PROVE IInv'
<1>1. stage = "none"
  BY FillFacts DEF FillFails
<1> DEFINE error == Refused(i, ReduceOffer(tx, i, ContractSize(i)))
<1>2. /\ error # "none" /\ StatementFails(error) /\ NoOrder
      /\ UNCHANGED <<now, orders, sweeping>>
  BY DEF FillFails
<1>3. error \in {"Short", "Late"}
  BY <1>2 DEF Refused
<1> HIDE DEF error
<1> QED BY <1>1, <1>2, <1>3, StatementFailsKeeps

(* So does a refused offer. *)
LEMMA RestFailsKeeps == ASSUME IInv, RestFails PROVE IInv'
<1>1. stage = "none"
  BY DEF IInv, StageInv, RestFails, TypeOK, Stage
<1>2. /\ StatementFails("Short") \/ StatementFails("Late")
      /\ NoOrder /\ UNCHANGED <<now, orders, sweeping>>
  BY DEF RestFails
<1> QED BY <1>1, <1>2, StatementFailsKeeps

(* The rest of an order becomes an offer that its owner has paid for. *)
LEMMA RestOrderKeeps == ASSUME IInv, RestOrder PROVE IInv'
<1> DEFINE t == MakeOffer(tx, orders, order)
           a == order.account
<1>1. /\ order \in OfferRow /\ order.quantity > 0 /\ tx \in Database /\ tx \in Books
      /\ pending \in Tally /\ stage = "none" /\ Ledger(tx, Issued)
      /\ orders \in 0..MaxOrders /\ orders > 0 /\ ~ Exists(tx, orders)
      /\ t.balance[a] >= 0
      /\ FlushAndCommit(t) /\ NoOrder /\ UNCHANGED <<now, orders, sweeping, raised>>
  BY TypedBooks DEF RestOrder, IInv, TypeOK, StageInv, LedgerInv, IdsInv
<1>2. orders \in OfferId /\ tx.offer[orders].quantity = 0
  <2>1. orders \in OfferId
    BY <1>1, TablesAssumption DEF OfferId
  <2>2. tx.offer[orders].quantity \in Nat
    BY <1>1, <2>1 DEF Database, OfferRow
  <2> QED BY <1>1, <2>1, <2>2 DEF Exists
<1>3. /\ t \in Books
      /\ t.position = tx.position /\ t.fees = tx.fees
      /\ \A k \in OfferId : k # orders => t.offer[k] = tx.offer[k]
      /\ Balances(t) + Escrows(t) = Balances(tx) + Escrows(tx)
      /\ \A b \in Account : b # a => t.balance[b] = tx.balance[b]
  BY <1>1, <1>2, MakeOfferEffect
<1> HIDE DEF t
<1>4. t \in Database
  <2>1. \A b \in Account : t.balance[b] \in Nat
    <3> TAKE b \in Account
    <3>1. t.balance[b] \in Int /\ tx.balance[b] \in Nat
      BY <1>1, <1>3 DEF Books, Database
    <3>2. CASE b = a
      BY <1>1, <3>1, <3>2
    <3>3. CASE b # a
      BY <1>3, <3>1, <3>3
    <3> QED BY <3>2, <3>3
  <2>2. t.balance \in [Account -> Int]
    BY <1>3 DEF Books
  <2>3. t.balance \in [Account -> Nat]
    BY <2>1, <2>2
  <2> QED BY <1>3, <2>3, DatabaseBooks
<1>5. Ledger(t, Issued)
  BY <1>1, <1>3, LedgerOfTransfer
<1>6. /\ tx' = Flushed(t, pending) /\ db' = tx' /\ pending' = NoTally
      /\ status' = "idle" /\ txNow' = 0
  BY <1>1 DEF FlushAndCommit
<1>7. /\ db' \in Database /\ tx' \in Database /\ pending' \in Tally
      /\ Ledger(db', Issued) /\ Ledger(tx', Issued)
      /\ \A k \in OfferId : /\ Exists(tx', k) <=> Exists(t, k)
                            /\ Exists(db', k) <=> Exists(t, k)
  BY <1>1, <1>4, <1>5, <1>6, CommitKeeps
<1>8. TypeOK'
  BY <1>1, <1>6, <1>7, NoneTypes DEF NoOrder, sweeping, IInv, TypeOK
<1>9. LedgerInv' /\ PayInv' /\ StageInv' /\ AssertionsHold'
  BY <1>1, <1>7, NoneTypes DEF NoOrder, sweeping, IInv, LedgerInv, PayInv, StageInv, AssertionsHold
<1>10. IdsInv'
  <2>1. \A k \in OfferId : Exists(t, k) => k <= orders
    BY <1>1, <1>3, Sizes DEF IInv, IdsInv, Exists
  <2> QED BY <1>1, <1>7, <2>1, NoneTypes DEF NoOrder, IdsInv
<1> QED BY <1>8, <1>9, <1>10 DEF IInv

(* A contract that no statement refuses leaves every balance covered. *)
LEMMA ContractedKeeps ==
    ASSUME IInv, NEW i \in OfferId, Fills(i), NEW t \in Database,
           Refused(i, t) = "none"
    PROVE  /\ Contracted(i, t) \in Database
           /\ Contracted(i, t).offer = t.offer
           /\ Ledger(Contracted(i, t), Issued) <=> Ledger(t, Issued)
<1> DEFINE c == order.ct
           f == FixedHolder(i)
           u == UnfixedHolder(i)
           price == order.price
           n == ContractSize(i)
           v == MakeContract(t, c, f, u, price, n)
           w == FixedCharged(t, c, f, u, price, n)
<1>1. c \in ContractType /\ f \in Account /\ u \in Account /\ price \in Price /\ n \in Nat
  BY FillFacts
<1>2. t \in Books /\ t.balance \in [Account -> Nat]
  BY DatabaseBooks
<1>3. Contracted(i, t) = v
  BY DEF Contracted
<1>4. ~ (w.balance[f] < 0) /\ ~ (v.balance[u] < 0)
  <2>1. ~ FixedShort(i, t) /\ ~ UnfixedShort(i, t)
    BY DEF Refused
  <2> QED BY <2>1, <1>3 DEF FixedShort, UnfixedShort
<1> HIDE DEF c, f, u, price, n
<1>5. /\ v \in Books /\ v.offer = t.offer
      /\ \A b \in Account \ {f, u} : v.balance[b] = t.balance[b]
      /\ u # f => v.balance[f] = w.balance[f]
  BY <1>1, <1>2, MakeContractEffect
<1>6. Ledger(v, Issued) <=> Ledger(t, Issued)
  BY <1>1, <1>2, LedgerOfContract
<1> HIDE DEF v, w
<1>7. v.balance \in [Account -> Nat]
  <2>1. v.balance \in [Account -> Int]
    BY <1>5 DEF Books
  <2>2. \A b \in Account : v.balance[b] \in Nat
    <3> TAKE b \in Account
    <3>1. CASE b = u
      BY <1>4, <2>1, <3>1
    <3>2. CASE b = f /\ b # u
      BY <1>4, <1>5, <2>1, <3>2
    <3>3. CASE b \notin {f, u}
      BY <1>2, <1>5, <3>3
    <3> QED BY <3>1, <3>2, <3>3
  <2> QED BY <2>1, <2>2
<1>8. v \in Database
  BY <1>5, <1>7, DatabaseBooks
<1> QED BY <1>3, <1>5, <1>6, <1>8

(* One candidate becomes a contract, in the open transaction or in the     *)
(* commit that ends the order.                                             *)
LEMMA FillRowKeeps == ASSUME IInv, NEW i \in OfferId, FillRow(i) PROVE IInv'
<1> DEFINE n == ContractSize(i)
           t == ReduceOffer(tx, i, n)
           v == Contracted(i, t)
           list == Note(Note(pending, order.ct, FixedHolder(i), n),
                        order.ct, UnfixedHolder(i), -n)
<1>1. Fills(i) /\ UNCHANGED <<now, orders, sweeping>>
  BY DEF FillRow
<1>2. /\ stage = "none" /\ order \in OfferRow /\ order.quantity > 0
      /\ tx \in Database /\ Ledger(tx, Issued) /\ pending \in Tally
      /\ i \in rows /\ Exists(tx, i)
      /\ i # orders /\ orders \in Nat /\ orders > 0 /\ ~ Exists(tx, orders)
      /\ order.ct \in ContractType /\ order.quantity \in Nat
      /\ FixedHolder(i) \in Account /\ UnfixedHolder(i) \in Account
      /\ n \in Nat /\ n > 0 /\ n <= tx.offer[i].quantity /\ n <= order.quantity
      /\ Reducible(tx, i, n)
  BY <1>1, FillFacts
<1>3. Refused(i, t) = "none" /\ FillWith(i, v) /\ UNCHANGED raised
  BY <1>2 DEF FillRow
<1>4. /\ t \in Database
      /\ Ledger(t, Issued)
      /\ \A k \in OfferId : Exists(t, k) => Exists(tx, k)
      /\ \A k \in OfferId : k # i => (Exists(t, k) <=> Exists(tx, k))
  BY <1>2, ReducedKeeps
<1> HIDE DEF t
<1>5. /\ v \in Database /\ Ledger(v, Issued)
      /\ \A k \in OfferId : Exists(v, k) => Exists(tx, k)
      /\ \A k \in OfferId : k # i => (Exists(v, k) <=> Exists(tx, k))
  <2>1. v \in Database /\ v.offer = t.offer /\ Ledger(v, Issued)
    BY <1>1, <1>3, <1>4, ContractedKeeps
  <2> QED BY <1>4, <2>1 DEF Exists
<1> HIDE DEF v
<1>6. list \in Tally
  <2>1. -n \in Int /\ n \in Int
    BY <1>2
  <2>2. Note(pending, order.ct, FixedHolder(i), n) \in Tally
    BY <1>2, <2>1, NoteType
  <2> QED BY <1>2, <2>1, <2>2, NoteType
<1>7. CASE n = order.quantity
  <2>1. /\ tx' = Flushed(v, list) /\ db' = tx' /\ pending' = NoTally
        /\ status' = "idle" /\ txNow' = 0 /\ NoOrder
    BY <1>3, <1>7 DEF FillWith
  <2> HIDE DEF list
  <2>2. /\ db' \in Database /\ tx' \in Database /\ pending' \in Tally
        /\ Ledger(db', Issued) /\ Ledger(tx', Issued)
        /\ \A k \in OfferId : /\ Exists(tx', k) <=> Exists(v, k)
                              /\ Exists(db', k) <=> Exists(v, k)
    BY <1>5, <1>6, <2>1, CommitKeeps
  <2>3. TypeOK'
    BY <1>1, <1>3, <2>1, <2>2, NoneTypes DEF NoOrder, sweeping, IInv, TypeOK
  <2>4. LedgerInv' /\ PayInv' /\ StageInv' /\ AssertionsHold'
    BY <1>1, <1>2, <1>3, <2>1, <2>2, NoneTypes
       DEF NoOrder, sweeping, IInv, LedgerInv, PayInv, StageInv, AssertionsHold
  <2>5. IdsInv'
    BY <1>1, <1>5, <2>1, <2>2, NoneTypes DEF NoOrder, IInv, IdsInv
  <2> QED BY <2>3, <2>4, <2>5 DEF IInv
<1>8. CASE n # order.quantity
  <2>1. /\ tx' = v /\ pending' = list
        /\ order' = [order EXCEPT !.quantity = order.quantity - n]
        /\ rows' = rows \ {i}
        /\ UNCHANGED <<db, status, txNow>>
    BY <1>3, <1>8 DEF FillWith
  <2> HIDE DEF list
  <2>2. order' \in OfferRow
    BY <1>2, <2>1 DEF OfferRow
  <2>3. TypeOK'
    BY <1>1, <1>3, <1>5, <1>6, <2>1, <2>2 DEF sweeping, IInv, TypeOK
  <2>4. LedgerInv' /\ PayInv' /\ StageInv' /\ AssertionsHold'
    BY <1>1, <1>2, <1>3, <1>5, <2>1
       DEF sweeping, IInv, LedgerInv, PayInv, StageInv, AssertionsHold
  <2>5. IdsInv'
    <3>1. ~ Exists(v, orders) \/ orders \notin OfferId
      BY <1>2, <1>5
    <3>2. orders \in OfferId
      BY <1>1, <1>2, TablesAssumption DEF IInv, TypeOK, OfferId
    <3>3. \A k \in rows \ {i} : Exists(v, k)
      BY <1>2, <1>5 DEF IInv, IdsInv, TypeOK
    <3>4. \A k \in OfferId : Exists(db, k) \/ Exists(v, k) => k <= orders
      BY <1>5 DEF IInv, IdsInv
    <3>5. /\ db' = db /\ tx' = v /\ orders' = orders /\ rows' = rows \ {i}
          /\ orders > 0
      BY <1>1, <1>2, <2>1
    <3> QED BY <3>1, <3>2, <3>3, <3>4, <3>5 DEF IdsInv, Exists
  <2> QED BY <2>3, <2>4, <2>5 DEF IInv
<1> QED BY <1>7, <1>8

(***************************************************************************)
(* The theorems.                                                           *)
(***************************************************************************)
(* The invariant holds at the start. *)
LEMMA InitHolds == ASSUME Init PROVE IInv
<1>1. TypeOK
  BY NoneTypes, EmptyBookEffect, TablesAssumption DEF Init, TypeOK, Stage
<1>2. LedgerInv /\ PayInv /\ StageInv /\ IdsInv /\ AssertionsHold
  BY NoneTypes, EmptyBookEffect
     DEF Init, Issued, LedgerInv, PayInv, StageInv, IdsInv, AssertionsHold
<1> QED BY <1>1, <1>2 DEF IInv

(* A stuttering step changes nothing. *)
LEMMA StutterKeeps == ASSUME IInv, UNCHANGED vars PROVE IInv'
<1>1. TypeOK'
  BY DEF IInv, TypeOK, vars
<1>2. LedgerInv' /\ PayInv' /\ StageInv' /\ IdsInv' /\ AssertionsHold'
  BY DEF IInv, vars, LedgerInv, PayInv, Ruled, StageInv, IdsInv, AssertionsHold
<1> QED BY <1>1, <1>2 DEF IInv

(* Every step preserves the invariant, one case per disjunct of Next. *)
LEMMA StepKeeps == ASSUME IInv, [Next]_vars PROVE IInv'
<1>1. CASE LookupUser BY <1>1, LookupUserKeeps
<1>2. CASE PlaceAny BY <1>2, PlaceOrderKeeps DEF PlaceAny
<1>3. CASE CancelAny BY <1>3, CancelKeeps DEF CancelAny
<1>4. CASE ListOffers BY <1>4, ListOffersKeeps
<1>5. CASE ResolveAny BY <1>5, ResolveKeeps DEF ResolveAny
<1>6. CASE DailyCleanup BY <1>6, DailyCleanupKeeps
<1>7. CASE MatchRow
  <2>1. PICK i \in OfferId : SkipRow(i) \/ FillRow(i) \/ FillFails(i)
    BY <1>7 DEF MatchRow
  <2> QED BY <2>1, SkipRowKeeps, FillRowKeeps, FillFailsKeeps
<1>8. CASE RestOrder BY <1>8, RestOrderKeeps
<1>9. CASE RestFails BY <1>9, RestFailsKeeps
<1>10. CASE Sweep
  <2>1. PICK i \in OfferId : SweepOne(i) \/ SweepRaises(i)
    BY <1>10 DEF Sweep
  <2> QED BY <2>1, SweepOneKeeps, SweepRaisesKeeps
<1>11. CASE SweepNext BY <1>11, SweepNextKeeps
<1>12. CASE SweepDone BY <1>12, SweepDoneKeeps
<1>13. CASE ResolveDone BY <1>13, ResolveDoneKeeps
<1>14. CASE Pay BY <1>14, PayOneKeeps DEF Pay
<1>15. CASE PayDone BY <1>15, PayDoneKeeps
<1>16. CASE Restart BY <1>16, RestartKeeps
<1>17. CASE Tick BY <1>17, TickKeeps
<1>18. CASE LookupNobody BY <1>18, LookupNobodyKeeps
<1>19. CASE PersistOther BY <1>19, PersistOtherKeeps
<1>20. CASE UNCHANGED vars BY <1>20, StutterKeeps
<1> QED BY <1>1, <1>2, <1>3, <1>4, <1>5, <1>6, <1>7, <1>8, <1>9, <1>10, <1>11,
           <1>12, <1>13, <1>14, <1>15, <1>16, <1>17, <1>18, <1>19, <1>20 DEF Next

(* The strengthening holds in every reachable state. *)
THEOREM Invariance == Spec => []IInv
<1>1. Init => IInv
  BY InitHolds
<1>2. IInv /\ [Next]_vars => IInv'
  BY StepKeeps
<1> QED BY <1>1, <1>2, PTL DEF Spec

(* Every variable keeps the type of its column; no committed or open       *)
(* transaction holds a negative balance.                                   *)
THEOREM TypeCorrectness == Spec => []TypeOK
<1>1. IInv => TypeOK
  BY DEF IInv
<1> QED BY <1>1, Invariance, PTL

(* No sequence of operations, failures and restarts creates or loses a     *)
(* token.                                                                  *)
THEOREM Conservation == Spec => []Conserved
<1>1. IInv => Conserved
  BY DEF IInv, LedgerInv, Ledger, Conserved
<1> QED BY <1>1, Invariance, PTL

(* Committed contracts always come in pairs. *)
THEOREM Pairing == Spec => []ZeroSum
<1>1. IInv => ZeroSum
  BY DEF IInv, LedgerInv, Ledger, ZeroSum
<1> QED BY <1>1, Invariance, PTL

(* reduce_offer's checks and resolve's "total is always 0" never fire. *)
THEOREM NoRuntimeError == Spec => []AssertionsHold
<1>1. IInv => AssertionsHold
  BY DEF IInv
<1> QED BY <1>1, Invariance, PTL

(***************************************************************************)
(* What accounts are told.                                                 *)
(***************************************************************************)
(* The message table is written by a flush only; positions that are not    *)
(* committed are those of an order or of a payment in progress; a refused  *)
(* statement ends the operation and leaves the committed tables.           *)
ToldInv ==
    /\ tx.told = db.told
    /\ order.quantity = 0 /\ stage # "pay" => tx.position = db.position
    /\ status = "failed" => tx = db /\ Quiet

(* As many messages get ahead of the tables as before. *)
SameMisled(t, list, u, other) ==
    \A c \in ContractType, a \in Account : Misled(u, other, c, a) = Misled(t, list, c, a)

(* A flush moves the list into the table. *)
LEMMA FlushMisleads ==
    ASSUME NEW t \in Books, NEW list \in Tally
    PROVE  SameMisled(t, list, Flushed(t, list), NoTally)
<1> DEFINE u == Flushed(t, list)
<1>1. /\ u.position = t.position
      /\ \A c \in ContractType, a \in Account : u.told[c][a] = Heard(t.told[c][a], list[c][a])
  BY DEF Flushed, Books
<1>2. \A c \in ContractType, a \in Account :
         /\ t.told[c][a] \in Report /\ list[c][a] \in Report /\ NoTally[c][a] = NoReport
  BY DEF Books, Tally, NoTally
<1>3. \A c \in ContractType, a \in Account :
         Told(u, NoTally, c, a).units = Told(t, list, c, a).units
  <2> SUFFICES ASSUME NEW c \in ContractType, NEW a \in Account
               PROVE  Heard(u.told[c][a], NoReport).units = Heard(t.told[c][a], list[c][a]).units
    BY <1>2 DEF Told
  <2>1. Heard(t.told[c][a], list[c][a]) \in Report
    BY <1>2, HeardType
  <2>2. u.told[c][a] = Heard(t.told[c][a], list[c][a])
    BY <1>1
  <2>3. NoReport \in Report /\ ~ NoReport.closed /\ NoReport.units = 0
    BY DEF NoReport, Report
  <2> DEFINE x == Heard(t.told[c][a], list[c][a])
  <2>4. x \in Report /\ u.told[c][a] = x
    BY <2>1, <2>2
  <2> HIDE DEF x, u
  <2>5. Heard(x, NoReport).units = x.units + 0 /\ x.units \in Int
    BY <2>3, <2>4, HeardType DEF Report
  <2> QED BY <2>4, <2>5 DEF x
<1> QED BY <1>1, <1>3 DEF SameMisled, Misled

(* Tables that differ in offers and balances only mislead nobody more. *)
LEMMA AlikeMisleads ==
    ASSUME NEW t, NEW u, NEW list, u.told = t.told, u.position = t.position
    PROVE  SameMisled(t, list, u, list)
  BY DEF SameMisled, Misled, Told

(* One message about n units goes with a position that moves by n. *)
LEMMA NoteMisleads ==
    ASSUME NEW t \in Books, NEW u \in Books, NEW list \in Tally, NEW c \in ContractType,
           NEW a \in Account, NEW n \in Int,
           u.told = t.told, Moved(t, u, c, a),
           u.position[c][a].quantity = t.position[c][a].quantity + n
    PROVE  SameMisled(t, list, u, Note(list, c, a, n))
<1> DEFINE other == Note(list, c, a, n)
<1>1. \A d \in ContractType, b \in Account :
         /\ t.told[d][b] \in Report /\ list[d][b] \in Report
         /\ t.position[d][b].quantity \in Int
         /\ ~ (d = c /\ b = a) => other[d][b] = list[d][b]
         /\ d = c /\ b = a => other[d][b] = [list[d][b] EXCEPT !.units = list[d][b].units + n]
  BY DEF Books, Tally, Note, Holding
<1>3. \A d \in ContractType, b \in Account :
         /\ Told(t, list, d, b).units \in Int
         /\ Told(u, other, d, b).units =
              IF d = c /\ b = a THEN Told(t, list, d, b).units + n ELSE Told(t, list, d, b).units
  <2> SUFFICES ASSUME NEW d \in ContractType, NEW b \in Account
               PROVE  /\ Told(t, list, d, b).units \in Int
                      /\ Told(u, other, d, b).units =
                           IF d = c /\ b = a THEN Told(t, list, d, b).units + n
                           ELSE Told(t, list, d, b).units
    OBVIOUS
  <2> DEFINE x == t.told[d][b]
             y == list[d][b]
             z == other[d][b]
  <2>1. x \in Report /\ y \in Report
    BY <1>1
  <2>2. z = IF d = c /\ b = a THEN [y EXCEPT !.units = y.units + n] ELSE y
    BY <1>1
  <2>3. Told(t, list, d, b) = Heard(x, y) /\ Told(u, other, d, b) = Heard(x, z)
    BY DEF Told
  <2> HIDE DEF x, y, z, other
  <2>4. z \in Report /\ z.closed = y.closed
        /\ z.units = IF d = c /\ b = a THEN y.units + n ELSE y.units
    BY <2>1, <2>2 DEF Report
  <2>5. /\ Heard(x, y).units = (IF y.closed THEN 0 ELSE x.units) + y.units
        /\ Heard(x, z).units = (IF z.closed THEN 0 ELSE x.units) + z.units
    BY <2>1, <2>4, HeardType
  <2>6. x.units \in Int /\ y.units \in Int
    BY <2>1 DEF Report
  <2> QED BY <2>3, <2>4, <2>5, <2>6
<1>2. \A d \in ContractType, b \in Account :
         u.position[d][b].quantity =
           IF d = c /\ b = a THEN t.position[d][b].quantity + n ELSE t.position[d][b].quantity
  BY DEF Moved, Books
<1> HIDE DEF other
<1>4. SameMisled(t, list, u, other)
  <2> SUFFICES ASSUME NEW d \in ContractType, NEW b \in Account
               PROVE  Misled(u, other, d, b) = Misled(t, list, d, b)
    BY DEF SameMisled
  <2> DEFINE x == Told(t, list, d, b).units
             y == Told(u, other, d, b).units
             p == t.position[d][b].quantity
             q == u.position[d][b].quantity
  <2>1. /\ x \in Int /\ p \in Int
        /\ y = IF d = c /\ b = a THEN x + n ELSE x
        /\ q = IF d = c /\ b = a THEN p + n ELSE p
    BY <1>1, <1>2, <1>3
  <2>2. Misled(u, other, d, b) = y - q /\ Misled(t, list, d, b) = x - p
    BY DEF Misled
  <2> HIDE DEF x, y, p, q
  <2> QED BY <2>1, <2>2
<1> QED BY <1>4 DEF other

(* make_contract moves the units that place() notes for its two holders. *)
LEMMA ContractMisleads ==
    ASSUME NEW t \in Books, NEW list \in Tally, NEW c \in ContractType,
           NEW f \in Account, NEW u \in Account, NEW price \in Price, NEW n \in Nat
    PROVE  SameMisled(t, list, MakeContract(t, c, f, u, price, n),
                      Note(Note(list, c, f, n), c, u, -n))
<1> DEFINE p == FixedPersisted(t, c, f, price, n)
           r == Persisted(t, c, f, u, price, n)
           v == MakeContract(t, c, f, u, price, n)
           one == Note(list, c, f, n)
           m == -n
           other == Unit - price
<1>1. price \in Nat /\ other \in Nat /\ m \in Int /\ n \in Int
  BY DEF Price, Unit
<1>2. /\ p \in Books /\ p.told = t.told /\ Moved(t, p, c, f)
      /\ p.position[c][f].quantity = t.position[c][f].quantity + n
  BY <1>1, PersistEffect DEF FixedPersisted
<1>3. one \in Tally
  BY <1>1, NoteType
<1>4. r = [p EXCEPT !.position[c][u] = PersistSide(p.position[c][u], other, m)]
  BY DEF Persisted
<1>5. v.told = r.told /\ v.position = r.position
  BY DEF MakeContract, FixedCharged, Debit
<1> HIDE DEF p, r, v, one, m, other
<1>6. /\ r \in Books /\ r.told = p.told /\ Moved(p, r, c, u)
      /\ r.position[c][u].quantity = p.position[c][u].quantity + m
  BY <1>1, <1>2, <1>4, PersistEffect
<1>7. SameMisled(t, list, p, one)
  BY <1>1, <1>2, NoteMisleads DEF one
<1>8. SameMisled(p, one, r, Note(one, c, u, m))
  BY <1>1, <1>2, <1>3, <1>6, NoteMisleads
<1>9. SameMisled(t, list, v, Note(one, c, u, m))
  BY <1>5, <1>7, <1>8 DEF SameMisled, Misled, Told
<1> QED BY <1>9 DEF v, one, m

(* A payment closes one position: its holder is told of what it is paid,   *)
(* and nobody else is told of anything.                                    *)
ClosedWith(t, list, u, other, c, a) ==
    /\ u.position[c][a].quantity = 0
    /\ Misled(u, other, c, a) = 0
    /\ u.balance[a] - t.balance[a]
         = Unit * AtLeastZero(Told(u, other, c, a).won - Told(t, list, c, a).won)

LEMMA PaymentMisleads ==
    ASSUME NEW t \in Books, NEW list \in Tally, NEW c \in ContractType, NEW a \in Account,
           NEW side \in Side
    PROVE  LET u == PayPosition(t, c, a, side)
               other == NoteResolved(list, c, a, t.position[c][a], side)
           IN  /\ u.told = t.told
               /\ ClosedWith(t, list, u, other, c, a)
               /\ \A d \in ContractType, b \in Account :
                     d # c \/ b # a => Misled(u, other, d, b) = Misled(t, list, d, b)
<1> DEFINE winner == [AllFixed EXCEPT ![c] = side]
           u == PayPosition(t, c, a, side)
           h == t.position[c][a]
           other == NoteResolved(list, c, a, h, side)
           said == Reported(h, side)
<1>1. winner \in [ContractType -> Side] /\ winner[c] = side
  BY AllFixedType
<1> HIDE DEF winner
<1>2. u \in Books /\ u.told = t.told /\ h \in Holding
  BY <1>1, PayPositionEffect DEF Books
<1>3. t.position \in [ContractType -> [Account -> Holding]] /\ t.balance \in [Account -> Int]
  BY DEF Books
<1>4. Moved(t, u, c, a) /\ u.position[c][a].quantity = 0
  BY <1>3 DEF Moved, PayPosition, Credit, NoHolding
<1>5. u.balance[a] - t.balance[a] = Unit * AtLeastZero(said) /\ said \in Int
  <2> DEFINE n == Abs(h.quantity)
             won == IF Wins(h, side) THEN Payout(n, h.basis) ELSE 0
  <2>1. n \in Nat /\ h.basis \in Nat
    BY <1>2, WinnersPart
  <2>2. /\ Payout(n, h.basis) = Unit * (Payout(n, h.basis) \div Unit)
        /\ Payout(n, h.basis) \div Unit \in Nat
    BY <2>1, PayoutInTokens
  <2>3. u.balance[a] = t.balance[a] + won
    BY <1>3 DEF PayPosition, Credit
  <2>4. said = IF Wins(h, side) THEN Payout(n, h.basis) \div Unit ELSE -n
    BY DEF Reported
  <2> DEFINE p == Payout(n, h.basis)
             k == p \div Unit
  <2>5. t.balance[a] \in Int
    BY <1>3
  <2> HIDE DEF n, p, said, u, h
  <2>6. CASE Wins(h, side)
    <3>1. won = Unit * k /\ said = k /\ k \in Nat
      BY <2>2, <2>4, <2>6 DEF p
    <3> HIDE DEF won, k
    <3> QED BY <2>3, <2>5, <3>1 DEF AtLeastZero, Unit
  <2>7. CASE ~ Wins(h, side)
    <3>1. won = 0 /\ said = -n
      BY <2>4, <2>7
    <3> HIDE DEF won
    <3> QED BY <2>1, <2>3, <2>5, <3>1 DEF AtLeastZero, Unit
  <2> QED BY <2>6, <2>7
<1> HIDE DEF u, h, said
<1>6. /\ \A d \in ContractType, b \in Account : d # c \/ b # a => other[d][b] = list[d][b]
      /\ other[c][a] = [units |-> 0, closed |-> TRUE, won |-> list[c][a].won + said]
      /\ other \in Tally
  BY <1>2, NoteResolvedType DEF NoteResolved, Tally, said
<1>7. list[c][a] \in Report /\ t.told[c][a] \in Report
  BY DEF Tally, Books
<1> HIDE DEF other
<1>8. /\ Told(u, other, c, a).units = 0
      /\ Told(u, other, c, a).won - Told(t, list, c, a).won = said
  <2> DEFINE x == t.told[c][a]
             y == list[c][a]
             z == other[c][a]
  <2>1. /\ x \in Report /\ y \in Report /\ z \in Report
        /\ Told(t, list, c, a) = Heard(x, y) /\ Told(u, other, c, a) = Heard(x, z)
    BY <1>2, <1>6, <1>7 DEF Told, Tally
  <2>2. z.units = 0 /\ z.closed /\ z.won = y.won + said
    BY <1>6
  <2> HIDE DEF x, y, z
  <2>3. /\ Heard(x, y).won = x.won + y.won /\ Heard(x, z).won = x.won + z.won
        /\ Heard(x, z).units = (IF z.closed THEN 0 ELSE x.units) + z.units
    BY <2>1, HeardType
  <2>4. x.won \in Int /\ y.won \in Int
    BY <2>1 DEF Report
  <2> QED BY <1>5, <2>1, <2>2, <2>3, <2>4
<1>9. ClosedWith(t, list, u, other, c, a)
  BY <1>4, <1>5, <1>8 DEF ClosedWith, Misled
<1>10. \A d \in ContractType, b \in Account :
          d # c \/ b # a => Misled(u, other, d, b) = Misled(t, list, d, b)
  <2>1. \A d \in ContractType, b \in Account :
           d # c \/ b # a => u.position[d][b] = t.position[d][b]
    BY <1>2, <1>3, <1>4 DEF Moved, Books
  <2> QED BY <1>2, <1>6, <2>1 DEF Misled, Told
<1> QED BY <1>2, <1>9, <1>10 DEF u, h, other

(* What every step does to tables and list, but for what a refusal or the  *)
(* end of a process does to them.                                          *)
Telling == SameMisled(tx, pending, tx', pending')

(* A payment. *)
Closing ==
    \E a \in Account :
        /\ ClosedWith(tx, pending, tx', pending', ruling.ct, a)
        /\ \A c \in ContractType, b \in Account :
              c # ruling.ct \/ b # a => Misled(tx', pending', c, b) = Misled(tx, pending, c, b)

(* Steps that write nothing, or roll back what they have not written. *)
LEMMA IdleTells ==
    ASSUME IInv, ToldInv,
           LookupUser \/ LookupNobody \/ PlaceAny \/ ListOffers \/ ResolveAny \/ Tick
           \/ \E i \in OfferId : SkipRow(i)
    PROVE  Telling
<1>1. CASE LookupNobody
  <2>1. tx' = db /\ pending' = pending /\ tx.told = db.told /\ tx.position = db.position
    BY <1>1 DEF LookupNobody, Quiet, ToldInv, IInv, TypeOK
  <2> QED BY <2>1, AlikeMisleads DEF Telling
<1>2. CASE LookupUser \/ PlaceAny \/ ListOffers \/ ResolveAny \/ Tick \/ \E i \in OfferId : SkipRow(i)
  <2>1. tx' = tx /\ pending' = pending
    BY <1>2 DEF LookupUser, PlaceAny, PlaceOrder, ListOffers, ResolveAny, Resolve, Tick,
                SkipRow, connection
  <2> QED BY <2>1, AlikeMisleads DEF Telling
<1> QED BY <1>1, <1>2

(* Commits of tables whose positions and messages are those of tx. *)
LEMMA CommitTells ==
    ASSUME IInv, NEW t \in Books, t.told = tx.told, t.position = tx.position,
           tx' = Flushed(t, pending), pending' = NoTally
    PROVE  Telling
<1>1. pending \in Tally
  BY DEF IInv, TypeOK
<1>2. SameMisled(t, pending, Flushed(t, pending), NoTally)
  BY <1>1, FlushMisleads
<1>3. SameMisled(tx, pending, t, pending)
  BY AlikeMisleads
<1> QED BY <1>2, <1>3 DEF Telling, SameMisled

(* Operations that commit, but for an order that is used up. *)
LEMMA OperationsTell ==
    ASSUME IInv, PersistOther \/ CancelAny \/ RestOrder \/ SweepDone \/ SweepNext \/ ResolveDone
    PROVE  Telling
<1>1. tx \in Books /\ tx \in Database
  BY TypedBooks DEF IInv, TypeOK
<1>2. CASE PersistOther \/ SweepDone \/ SweepNext \/ ResolveDone
  <2>1. tx' = Flushed(tx, pending) /\ pending' = NoTally
    BY <1>2 DEF PersistOther, SweepDone, SweepNext, ResolveDone, FlushAndCommit, CommitThen
  <2> QED BY <1>1, <2>1, CommitTells
<1>3. ASSUME NEW i \in OfferId, Cancel(i) PROVE Telling
  <2> DEFINE t == ReduceOffer(tx, i, tx.offer[i].quantity)
  <2>1. tx.offer[i].quantity \in Nat /\ tx.offer[i].quantity <= tx.offer[i].quantity
    BY <1>1 DEF Database, OfferRow
  <2>2. t \in Books /\ t.position = tx.position /\ t.told = tx.told
    BY <1>1, <2>1, AllFixedType, ReduceOfferEffect
  <2>3. tx' = Flushed(t, pending) /\ pending' = NoTally
    BY <1>3 DEF Cancel, FlushAndCommit
  <2> HIDE DEF t
  <2> QED BY <2>2, <2>3, CommitTells
<1>4. CASE RestOrder
  <2> DEFINE t == MakeOffer(tx, orders, order)
  <2>1. order \in OfferRow /\ orders \in OfferId /\ tx.offer[orders].quantity = 0
    <3>1. order \in OfferRow /\ orders \in 0..MaxOrders /\ orders > 0 /\ ~ Exists(tx, orders)
      BY <1>4 DEF RestOrder, IInv, TypeOK, IdsInv
    <3>2. orders \in OfferId
      BY <3>1, TablesAssumption DEF OfferId
    <3>3. tx.offer[orders].quantity \in Nat
      BY <1>1, <3>2 DEF Database, OfferRow
    <3> QED BY <3>1, <3>2, <3>3 DEF Exists
  <2>2. t \in Books /\ t.position = tx.position /\ t.told = tx.told
    BY <1>1, <2>1, MakeOfferEffect
  <2>3. tx' = Flushed(t, pending) /\ pending' = NoTally
    BY <1>4 DEF RestOrder, FlushAndCommit
  <2> HIDE DEF t
  <2> QED BY <2>2, <2>3, CommitTells
<1> QED BY <1>2, <1>3, <1>4 DEF CancelAny

(* A sweep that goes on, or stops where it is. *)
LEMMA SweepTells ==
    ASSUME IInv, NEW i \in OfferId, SweepOne(i) \/ (SweepRaises(i) /\ stage # "daily")
    PROVE  Telling
<1>1. tx \in Books /\ tx \in Database
  BY TypedBooks DEF IInv, TypeOK
<1>2. CASE SweepOne(i)
  <2> DEFINE t == ReduceOffer(tx, i, tx.offer[i].quantity)
  <2>1. tx.offer[i].quantity \in Nat /\ tx.offer[i].quantity <= tx.offer[i].quantity
    BY <1>1 DEF Database, OfferRow
  <2>2. t \in Books /\ t.position = tx.position /\ t.told = tx.told
    BY <1>1, <2>1, AllFixedType, ReduceOfferEffect
  <2>3. tx' = t /\ pending' = pending
    BY <1>2 DEF SweepOne
  <2> HIDE DEF t
  <2> QED BY <2>2, <2>3, AlikeMisleads DEF Telling
<1>3. CASE SweepRaises(i) /\ stage # "daily"
  <2>1. tx' = tx /\ pending' = pending
    BY <1>3 DEF SweepRaises, HandlerRaises, connection
  <2> QED BY <2>1, AlikeMisleads DEF Telling
<1> QED BY <1>2, <1>3

(* resolve() pays one position, or finds that all are paid. *)
LEMMA PayTells ==
    ASSUME IInv, PayDone \/ Pay
    PROVE  Telling \/ Closing
<1>1. tx \in Books /\ pending \in Tally /\ ruling.side \in Side
  BY TypedBooks DEF IInv, TypeOK
<1>2. ASSUME NEW a \in Account, PayOne(a) PROVE Closing
  <2>1. stage = "pay" /\ ruling.ct \in ContractType
    BY <1>2 DEF PayOne, IInv, StageInv
  <2>2. /\ tx' = PayPosition(tx, ruling.ct, a, ruling.side)
        /\ pending' = NoteResolved(pending, ruling.ct, a, tx.position[ruling.ct][a], ruling.side)
    BY <1>2 DEF PayOne
  <2> QED BY <1>1, <2>1, <2>2, PaymentMisleads DEF Closing
<1>3. CASE PayDone
  <2>1. CASE ruling.total = 0
    <3>1. tx' = Flushed(tx, pending) /\ pending' = NoTally
      BY <1>3, <2>1 DEF PayDone, CommitThen
    <3> QED BY <1>1, <3>1, CommitTells
  <2>2. CASE ruling.total # 0
    <3>1. tx' = tx /\ pending' = pending
      BY <1>3, <2>2 DEF PayDone, HandlerRaises, connection
    <3> QED BY <3>1, AlikeMisleads DEF Telling
  <2> QED BY <2>1, <2>2
<1> QED BY <1>2, <1>3 DEF Pay

(* A contract is told to its two holders. *)
LEMMA FillRowTells ==
    ASSUME IInv, NEW i \in OfferId, FillRow(i)
    PROVE  Telling
<1> DEFINE n == ContractSize(i)
           t == ReduceOffer(tx, i, n)
           v == Contracted(i, t)
           list == Note(Note(pending, order.ct, FixedHolder(i), n),
                        order.ct, UnfixedHolder(i), -n)
<1>1. Fills(i)
  BY DEF FillRow
<1>2. /\ tx \in Database /\ pending \in Tally
      /\ order.ct \in ContractType /\ order.price \in Price
      /\ FixedHolder(i) \in Account /\ UnfixedHolder(i) \in Account
      /\ n \in Nat /\ n <= tx.offer[i].quantity
      /\ Reducible(tx, i, n)
  BY <1>1, FillFacts
<1>3. FillWith(i, v)
  BY <1>2 DEF FillRow
<1>4. t \in Books /\ t.position = tx.position /\ t.told = tx.told
  BY <1>2, AllFixedType, DatabaseBooks, ReduceOfferEffect
<1> HIDE DEF t
<1>5. SameMisled(t, pending, v, list) /\ v \in Books /\ list \in Tally
  <2>1. v = MakeContract(t, order.ct, FixedHolder(i), UnfixedHolder(i), order.price, n)
    BY DEF Contracted
  <2>2. n \in Int /\ -n \in Int
    BY <1>2
  <2>3. list \in Tally
    BY <1>2, <2>2, NoteType
  <2> HIDE DEF v, n
  <2> QED BY <1>2, <1>4, <2>1, <2>3, ContractMisleads, MakeContractEffect
<1>6. SameMisled(tx, pending, t, pending)
  BY <1>4, AlikeMisleads
<1>7. SameMisled(tx, pending, v, list)
  BY <1>5, <1>6 DEF SameMisled
<1>8. CASE n = order.quantity
  <2>1. tx' = Flushed(v, list) /\ pending' = NoTally
    BY <1>3, <1>8 DEF FillWith
  <2> HIDE DEF v, list
  <2>2. SameMisled(v, list, tx', pending')
    BY <1>5, <2>1, FlushMisleads
  <2> QED BY <1>7, <2>2 DEF Telling, SameMisled
<1>9. CASE n # order.quantity
  <2>1. tx' = v /\ pending' = list
    BY <1>3, <1>9 DEF FillWith
  <2> HIDE DEF v, list
  <2> QED BY <1>7, <2>1 DEF Telling
<1> QED BY <1>8, <1>9

(* Every step tells what it does, is a refusal, or ends a process. *)
LEMMA EveryStepTells ==
    ASSUME IInv, ToldInv, [Next]_vars
    PROVE  \/ Telling \/ Closing
           \/ status' = "failed" /\ tx' = db /\ db' = db /\ pending' = pending
           \/ tx' = db /\ db' = db /\ pending' = NoTally
<1>1. CASE UNCHANGED vars
  <2>1. tx' = tx /\ pending' = pending
    BY <1>1 DEF vars
  <2> QED BY <2>1, AlikeMisleads DEF Telling
<1>2. CASE LookupUser \/ LookupNobody \/ PlaceAny \/ ListOffers \/ ResolveAny \/ Tick
  BY <1>2, IdleTells
<1>3. CASE PersistOther \/ CancelAny \/ RestOrder \/ SweepDone \/ SweepNext \/ ResolveDone
  BY <1>3, OperationsTell
<1>4. CASE PayDone \/ Pay
  BY <1>4, PayTells
<1>5. CASE DailyCleanup \/ Restart
  BY <1>5 DEF DailyCleanup, Restart, ProcessEnds
<1>6. CASE RestFails
  BY <1>6 DEF RestFails, StatementFails
<1>7. ASSUME NEW i \in OfferId, SkipRow(i) \/ FillRow(i) \/ FillFails(i)
      PROVE  Telling \/ (status' = "failed" /\ tx' = db /\ db' = db /\ pending' = pending)
  <2>1. CASE SkipRow(i)
    BY <2>1, IdleTells
  <2>2. CASE FillRow(i)
    BY <2>2, FillRowTells
  <2>3. CASE FillFails(i)
    BY <2>3 DEF FillFails, StatementFails
  <2> QED BY <1>7, <2>1, <2>2, <2>3
<1>8. ASSUME NEW i \in OfferId, SweepOne(i) \/ SweepRaises(i)
      PROVE  Telling \/ (tx' = db /\ db' = db /\ pending' = NoTally)
  <2>1. CASE SweepOne(i) \/ (SweepRaises(i) /\ stage # "daily")
    BY <2>1, SweepTells
  <2>2. CASE SweepRaises(i) /\ stage = "daily"
    BY <2>2 DEF SweepRaises, ProcessEnds
  <2> QED BY <1>8, <2>1, <2>2
<1> QED BY <1>1, <1>2, <1>3, <1>4, <1>5, <1>6, <1>7, <1>8 DEF Next, MatchRow, Sweep

(* A step that commits tells all there is to tell. *)
LEMMA CommitsTellAll ==
    ASSUME [Next]_vars
    PROVE  db' = db \/ (db' = tx' /\ pending' = NoTally /\ status' \in {"idle", "open"})
<1>1. CASE UNCHANGED vars
  BY <1>1 DEF vars
<1>2. CASE \/ LookupUser \/ LookupNobody \/ PlaceAny \/ ListOffers \/ ResolveAny \/ DailyCleanup
           \/ RestFails \/ Sweep \/ Pay \/ Restart \/ Tick
  BY <1>2 DEF LookupUser, LookupNobody, PlaceAny, PlaceOrder, ListOffers, ResolveAny, Resolve,
              DailyCleanup, RestFails, StatementFails, Sweep, SweepOne, SweepRaises, ProcessEnds,
              HandlerRaises, Pay, PayOne, Restart, Tick
<1>3. CASE PersistOther \/ CancelAny \/ RestOrder \/ SweepDone \/ SweepNext \/ ResolveDone \/ PayDone
  BY <1>3 DEF PersistOther, CancelAny, Cancel, RestOrder, SweepDone, SweepNext, ResolveDone,
              PayDone, FlushAndCommit, CommitThen, HandlerRaises
<1>4. CASE MatchRow
  BY <1>4 DEF MatchRow, SkipRow, FillRow, FillFails, FillWith, HandlerRaises, StatementFails
<1> QED BY <1>1, <1>2, <1>3, <1>4 DEF Next

(* ToldInv holds at the start. *)
LEMMA InitTold == ASSUME Init PROVE ToldInv
  BY DEF Init, ToldInv

(* Every step keeps it. *)
LEMMA StepTold == ASSUME IInv, ToldInv, [Next]_vars PROVE ToldInv'
<1>1. ASSUME db' = tx', status' = "failed" => Quiet'
      PROVE  ToldInv'
  BY <1>1 DEF ToldInv, Quiet
<1>2. ASSUME tx' = tx, db' = db, status' = "failed" => status = "failed" /\ Quiet',
             order'.quantity = 0 /\ stage' # "pay" => order.quantity = 0 /\ stage # "pay"
      PROVE  ToldInv'
  BY <1>2 DEF ToldInv, Quiet
<1>3. CASE UNCHANGED vars
  BY <1>2, <1>3 DEF vars, ToldInv, Quiet
<1>4. CASE LookupUser \/ PlaceAny \/ ListOffers \/ ResolveAny \/ Tick \/ \E i \in OfferId : SkipRow(i)
  BY <1>2, <1>4 DEF LookupUser, PlaceAny, PlaceOrder, ListOffers, ResolveAny, Resolve, Tick,
                    SkipRow, connection, placing, sweeping, Quiet, OpenTransaction, ToldInv
<1>5. CASE LookupNobody \/ DailyCleanup \/ Restart \/ RestFails \/ \E i \in OfferId : FillFails(i)
  <2>1. stage = "none" \/ DailyCleanup \/ Restart
    BY <1>5, FillFacts DEF LookupNobody, Quiet, RestFails, FillFails, IInv, StageInv
  <2> QED
    BY <1>1, <1>5, <2>1, NoneTypes
       DEF LookupNobody, DailyCleanup, Restart, RestFails, FillFails, ProcessEnds,
           StatementFails, NoOrder, sweeping, Quiet
<1>6. CASE PersistOther \/ CancelAny \/ RestOrder \/ SweepDone \/ SweepNext \/ ResolveDone
  BY <1>1, <1>6 DEF PersistOther, CancelAny, Cancel, RestOrder, SweepDone, SweepNext, ResolveDone,
                    FlushAndCommit, CommitThen
<1>7. ASSUME NEW i \in OfferId, FillRow(i) PROVE ToldInv'
  <2> DEFINE n == ContractSize(i)
             t == ReduceOffer(tx, i, n)
             v == Contracted(i, t)
  <2>1. /\ tx \in Database /\ n \in Nat /\ n <= tx.offer[i].quantity /\ Reducible(tx, i, n)
        /\ order.ct \in ContractType /\ order.price \in Price /\ order.quantity \in Nat
        /\ FixedHolder(i) \in Account /\ UnfixedHolder(i) \in Account
        /\ order \in OfferRow
    BY <1>7, FillFacts DEF FillRow
  <2>2. t \in Books /\ t.told = tx.told
    BY <2>1, AllFixedType, DatabaseBooks, ReduceOfferEffect
  <2>3. v.told = tx.told
    <3> HIDE DEF t, n
    <3>1. v = MakeContract(t, order.ct, FixedHolder(i), UnfixedHolder(i), order.price, n)
      BY DEF Contracted, n
    <3> HIDE DEF v
    <3> QED BY <2>1, <2>2, <3>1, MakeContractEffect
  <2>4. FillWith(i, v)
    BY <1>7, <2>1 DEF FillRow
  <2> HIDE DEF t, v
  <2>5. CASE n = order.quantity
    BY <1>1, <2>4, <2>5 DEF FillWith
  <2>6. CASE n # order.quantity
    <3>1. tx' = v /\ db' = db /\ status' = status /\ order' = [order EXCEPT !.quantity = @ - n]
      BY <2>4, <2>6 DEF FillWith
    <3>2. order'.quantity = order.quantity - n /\ order'.quantity # 0
      BY <2>1, <2>6, <3>1 DEF OfferRow
    <3>3. tx.told = db.told
      BY DEF ToldInv
    <3>4. status # "failed"
      BY <1>7, <2>1 DEF ToldInv, Quiet, FillRow, Fills
    <3> QED BY <2>3, <3>1, <3>2, <3>3, <3>4 DEF ToldInv
  <2> QED BY <2>5, <2>6
<1>8. ASSUME NEW i \in OfferId, SweepOne(i) \/ SweepRaises(i) PROVE ToldInv'
  <2>1. stage # "none" /\ order.quantity = 0 /\ tx \in Books /\ tx \in Database
    <3>1. queue # NoQueue
      BY <1>8 DEF SweepOne, SweepRaises, IsQueued, NoQueue
    <3> QED BY <3>1, TypedBooks DEF IInv, StageInv, TypeOK
  <2>2. stage # "pay" /\ status # "failed" /\ tx.told = db.told /\ tx.position = db.position
    <3>1. queue # NoQueue
      BY <1>8 DEF SweepOne, SweepRaises, IsQueued, NoQueue
    <3> QED BY <2>1, <3>1 DEF ToldInv, Quiet, IInv, StageInv
  <2>3. CASE SweepOne(i)
    <3> DEFINE t == ReduceOffer(tx, i, tx.offer[i].quantity)
    <3>1. tx.offer[i].quantity \in Nat /\ tx.offer[i].quantity <= tx.offer[i].quantity
      BY <2>1 DEF Database, OfferRow
    <3>2. t.position = tx.position /\ t.told = tx.told
      BY <2>1, <3>1, AllFixedType, ReduceOfferEffect
    <3>3. tx' = t /\ db' = db /\ status' = status
      BY <2>3 DEF SweepOne
    <3> HIDE DEF t
    <3> QED BY <2>2, <3>2, <3>3 DEF ToldInv
  <2>4. CASE SweepRaises(i)
    <3>1. \/ tx' = db /\ db' = db /\ status' = "idle"
          \/ tx' = tx /\ db' = db /\ status' = status
      BY <2>4 DEF SweepRaises, ProcessEnds, HandlerRaises, connection
    <3>2. CASE tx' = db /\ db' = db /\ status' = "idle"
      BY <1>1, <3>2
    <3>3. CASE tx' = tx /\ db' = db /\ status' = status
      BY <2>2, <3>3 DEF ToldInv
    <3> QED BY <3>1, <3>2, <3>3
  <2> QED BY <1>8, <2>3, <2>4
<1>9. CASE Pay \/ PayDone
  <2>1. stage = "pay" /\ status # "failed" /\ tx.told = db.told
    BY <1>9 DEF Pay, PayOne, PayDone, ToldInv, Quiet
  <2>2. ASSUME NEW a \in Account, PayOne(a) PROVE ToldInv'
    <3>1. /\ tx \in Books /\ pending \in Tally /\ ruling.side \in Side /\ ruling.ct \in ContractType
      BY <2>1, TypedBooks DEF IInv, TypeOK, StageInv
    <3>2. tx' = PayPosition(tx, ruling.ct, a, ruling.side) /\ db' = db /\ UNCHANGED <<stage, status>>
      BY <2>2 DEF PayOne
    <3>3. tx'.told = tx.told
      BY <3>1, <3>2, PaymentMisleads
    <3> QED BY <2>1, <3>2, <3>3 DEF ToldInv
  <2>3. CASE PayDone
    <3>1. ruling.total = 0
      BY <2>3, TotalIsZero DEF PayDone
    <3>2. db' = tx' /\ status' = "open"
      BY <2>3, <3>1 DEF PayDone, CommitThen
    <3> QED BY <1>1, <3>2
  <2> QED BY <1>9, <2>2, <2>3 DEF Pay
<1> QED BY <1>3, <1>4, <1>5, <1>6, <1>7, <1>8, <1>9 DEF Next, MatchRow, Sweep

(* What accounts have been told moves with what they hold, and whose       *)
(* position is closed is told so, and of what it is paid.                  *)
THEOREM ToldTogether == Spec => MessagesFollow
<1>1. IInv /\ ToldInv /\ [Next]_vars
        => [\/ \A c \in ContractType, a \in Account :
                  \/ Misled(tx', pending', c, a) = Misled(tx, pending, c, a)
                  \/ ToldClosed(c, a)
            \/ status' = "failed"
            \/ tx' = db /\ db' = db /\ pending' = NoTally]_vars
  BY EveryStepTells DEF Telling, SameMisled, Closing, ClosedWith, ToldClosed
<1>2. Init => ToldInv
  BY InitTold
<1>3. IInv /\ ToldInv /\ [Next]_vars => ToldInv'
  BY StepTold
<1> QED BY <1>1, <1>2, <1>3, Invariance, PTL DEF Spec, MessagesFollow

(* Accounts have been told, and are about to be, of just the contracts     *)
(* they hold and are about to hold.                                        *)
Truthful == AuditTrail /\ \A c \in ContractType, a \in Account : Misled(tx, pending, c, a) = 0

(* Without messages to come, there is what accounts have been told. *)
LEMMA NothingMore ==
    ASSUME NEW t \in Books, NEW c \in ContractType, NEW a \in Account
    PROVE  Misled(t, NoTally, c, a) = 0 <=> t.told[c][a].units = t.position[c][a].quantity
<1> DEFINE x == t.told[c][a]
           n == t.position[c][a].quantity
<1>1. x \in Report /\ NoReport \in Report /\ ~ NoReport.closed /\ NoReport.units = 0
  BY DEF Books, Tally, NoReport, Report
<1>2. Misled(t, NoTally, c, a) = Heard(x, NoReport).units - n
  BY DEF Misled, Told, NoTally
<1>3. n \in Int
  BY DEF Books, Holding
<1> HIDE DEF x, n
<1>4. Heard(x, NoReport).units = x.units + 0 /\ x.units \in Int
  BY <1>1, HeardType DEF Report
<1>5. Misled(t, NoTally, c, a) = 0 <=> x.units = n
  <2> DEFINE m == Heard(x, NoReport).units
             p == x.units
             d == Misled(t, NoTally, c, a)
  <2>1. m = p + 0 /\ p \in Int /\ d = m - n
    BY <1>2, <1>4
  <2> HIDE DEF m, p, d
  <2>2. d = 0 <=> p = n
    BY <1>3, <2>1
  <2> QED BY <2>2 DEF d, p
<1> QED BY <1>5 DEF x, n

(* It stays so until an order is refused after it has made a contract. *)
LEMMA StepTruthful ==
    ASSUME IInv, ToldInv, Truthful, ~ Ghosts', [Next]_vars
    PROVE  Truthful'
<1>1. db \in Books /\ tx \in Books
  BY TypedBooks DEF IInv
<1>3. \A c \in ContractType, a \in Account : Misled(db, NoTally, c, a) = 0
  BY <1>1, NothingMore DEF Truthful, AuditTrail
<1>4. \A c \in ContractType, a \in Account : Misled(tx', pending', c, a) = 0
  <2>1. CASE Telling
    BY <2>1 DEF Telling, SameMisled, Truthful
  <2>4. CASE Closing
    BY <2>4 DEF Closing, ClosedWith, Truthful
  <2>2. CASE tx' = db /\ pending' = NoTally
    BY <1>3, <2>2
  <2>3. CASE status' = "failed" /\ tx' = db
    BY <2>2, <2>3 DEF Ghosts
  <2> QED BY <2>1, <2>2, <2>3, <2>4, EveryStepTells
<1>5. AuditTrail'
  <2>1. CASE db' = db
    BY <2>1 DEF Truthful, AuditTrail
  <2>2. CASE db' = tx' /\ pending' = NoTally
    <3>1. \A c \in ContractType, a \in Account : Misled(db', NoTally, c, a) = 0
      BY <1>4, <2>2
    <3>2. db' \in Books
      <4>1. db' \in Database
        BY StepKeeps DEF IInv, TypeOK
      <4> QED BY <4>1, DatabaseBooks
    <3> QED BY <3>1, <3>2, NothingMore DEF AuditTrail
  <2> QED BY <2>1, <2>2, CommitsTellAll
<1> QED BY <1>4, <1>5 DEF Truthful

(* The contract messages of each account add up to its position at every   *)
(* commit, through sweeps, payments, exceptions and crashes, as long as no *)
(* order is refused after it has made a contract.                          *)
THEOREM AuditedUnlessHaunted == Spec /\ [](~ Ghosts) => []AuditTrail
<1>1. Init => ToldInv /\ Truthful
  <2> SUFFICES ASSUME Init PROVE Truthful
    BY InitTold
  <2>1. /\ db = EmptyBook /\ tx = EmptyBook /\ pending = NoTally
    BY DEF Init
  <2> QED BY <2>1 DEF Truthful, AuditTrail, Misled, Told, Heard, EmptyBook, NoTally, NoReport,
                      NoHolding
<1>2. IInv /\ ToldInv /\ [Next]_vars => ToldInv'
  BY StepTold
<1>3. IInv /\ ToldInv /\ Truthful /\ ~ Ghosts' /\ [Next]_vars => Truthful'
  BY StepTruthful
<1>4. Truthful => AuditTrail
  BY DEF Truthful
<1> QED BY <1>1, <1>2, <1>3, <1>4, Invariance, PTL DEF Spec

(***************************************************************************)
(* What resolutions report.                                                *)
(***************************************************************************)
(* What the resolutions of c report, by account, and of every type. *)
WonOn(list, c) == [a \in Account |-> list[c][a].won]
WonOf(list) == [c \in ContractType |-> SumTo(WonOn(list, c), NumAccounts)]

(* These are sums of integers. *)
LEMMA AnnouncedType ==
    ASSUME NEW list \in Tally
    PROVE  /\ Announced(list) = SumTo(WonOf(list), NumTypes)
           /\ Announced(list) \in Int
           /\ \A c \in ContractType : WonOf(list)[c] = SumTo(WonOn(list, c), NumAccounts)
           /\ \A c \in ContractType : WonOf(list)[c] \in Int
           /\ \A c \in ContractType, a \in Account :
                WonOn(list, c)[a] = list[c][a].won /\ list[c][a].won \in Int
<1>1. \A c \in ContractType, a \in Account :
         WonOn(list, c)[a] = list[c][a].won /\ list[c][a].won \in Int
  BY DEF WonOn, Tally, Report
<1>2. \A c \in ContractType : SumTo(WonOn(list, c), NumAccounts) \in Int
  <2> SUFFICES ASSUME NEW c \in ContractType PROVE SumTo(WonOn(list, c), NumAccounts) \in Int
    OBVIOUS
  <2> DEFINE f == WonOn(list, c)
  <2>1. \A k \in 1..NumAccounts : f[k] \in Int
    BY <1>1, Sizes
  <2> HIDE DEF f
  <2>2. SumTo(f, NumAccounts) \in Int
    BY <2>1, Sizes, SumToInt
  <2> QED BY <2>2 DEF f
<1>3. \A c \in ContractType :
         /\ WonOf(list)[c] = SumTo(WonOn(list, c), NumAccounts)
         /\ WonOf(list)[c] \in Int
  BY <1>2 DEF WonOf
<1>4. Announced(list) = SumTo(WonOf(list), NumTypes)
  BY DEF Announced, WonOf, WonOn
<1>5. SumTo(WonOf(list), NumTypes) \in Int
  <2> DEFINE f == WonOf(list)
  <2>1. \A k \in 1..NumTypes : f[k] \in Int
    BY <1>3, Sizes
  <2> HIDE DEF f
  <2>2. SumTo(f, NumTypes) \in Int
    BY <2>1, Sizes, SumToInt
  <2> QED BY <2>2 DEF f
<1> QED BY <1>1, <1>3, <1>4, <1>5

(* Lists that report the same of every position announce the same. *)
LEMMA SameAnnounced ==
    ASSUME NEW list, NEW other,
           \A c \in ContractType, a \in Account : other[c][a].won = list[c][a].won
    PROVE  Announced(other) = Announced(list)
<1>1. \A c \in ContractType : WonOn(other, c) = WonOn(list, c)
  BY DEF WonOn
<1>2. WonOf(other) = WonOf(list)
  BY <1>1 DEF WonOf
<1>3. /\ Announced(other) = SumTo(WonOf(other), NumTypes)
      /\ Announced(list) = SumTo(WonOf(list), NumTypes)
  BY DEF Announced, WonOf, WonOn
<1> QED BY <1>2, <1>3

(* A message of a contract announces no win. *)
LEMMA NoteAnnounces ==
    ASSUME NEW list \in Tally, NEW c \in ContractType, NEW a \in Account, NEW n \in Int
    PROVE  Announced(Note(list, c, a, n)) = Announced(list)
<1>1. \A d \in ContractType, b \in Account : Note(list, c, a, n)[d][b].won = list[d][b].won
  BY DEF Note, Tally, Report
<1> QED BY <1>1, SameAnnounced

(* Nor does an empty list. *)
LEMMA NothingAnnounced == Announced(NoTally) = 0
<1> DEFINE f == WonOf(NoTally)
<1>1. \A c \in ContractType : f[c] = 0
  <2> SUFFICES ASSUME NEW c \in ContractType PROVE f[c] = 0
    OBVIOUS
  <2> DEFINE g == WonOn(NoTally, c)
  <2>1. \A k \in 1..NumAccounts : g[k] = 0
    BY Sizes DEF WonOn, NoTally, NoReport
  <2> HIDE DEF g
  <2>2. SumTo(g, NumAccounts) = 0
    BY <2>1, Sizes, SumToZeros
  <2> QED BY <2>2 DEF g, WonOf
<1>2. Announced(NoTally) = SumTo(f, NumTypes)
  BY NoTallyType, AnnouncedType
<1> HIDE DEF f
<1>3. \A k \in 1..NumTypes : f[k] = 0
  BY <1>1, Sizes
<1> QED BY <1>2, <1>3, Sizes, SumToZeros

(* The message table after a flush announces what it did and the list did. *)
LEMMA FlushAnnounces ==
    ASSUME NEW t \in Books, NEW list \in Tally
    PROVE  Announced(Flushed(t, list).told) = Announced(t.told) + Announced(list)
<1> DEFINE told == Flushed(t, list).told
<1>1. told \in Tally /\ t.told \in Tally
  BY FlushedEffect DEF Books
<1>2. \A c \in ContractType, a \in Account : told[c][a].won = t.told[c][a].won + list[c][a].won
  <2>1. \A c \in ContractType, a \in Account : told[c][a] = Heard(t.told[c][a], list[c][a])
    BY DEF Flushed, Books
  <2>2. \A c \in ContractType, a \in Account : t.told[c][a] \in Report /\ list[c][a] \in Report
    BY <1>1 DEF Tally
  <2> HIDE DEF told
  <2> SUFFICES ASSUME NEW c \in ContractType, NEW a \in Account
               PROVE  told[c][a].won = t.told[c][a].won + list[c][a].won
    OBVIOUS
  <2>3. /\ told[c][a] = Heard(t.told[c][a], list[c][a])
        /\ t.told[c][a] \in Report /\ list[c][a] \in Report
    BY <2>1, <2>2
  <2> QED BY <2>3 DEF Heard
<1> HIDE DEF told
<1>3. \A c \in ContractType : WonOf(list)[c] = WonOf(told)[c] - WonOf(t.told)[c]
  <2> SUFFICES ASSUME NEW c \in ContractType
               PROVE  WonOf(list)[c] = WonOf(told)[c] - WonOf(t.told)[c]
    OBVIOUS
  <2> DEFINE f == WonOn(told, c)
             g == WonOn(t.told, c)
             h == WonOn(list, c)
  <2>1. \A k \in 1..NumAccounts : f[k] \in Int /\ g[k] \in Int /\ h[k] = f[k] - g[k]
    <3> SUFFICES ASSUME NEW k \in Account
                 PROVE  f[k] \in Int /\ g[k] \in Int /\ h[k] = f[k] - g[k]
      BY Sizes
    <3> DEFINE x == told[c][k].won
               y == t.told[c][k].won
               z == list[c][k].won
    <3>1. f[k] = x /\ g[k] = y /\ h[k] = z /\ x \in Int /\ y \in Int /\ z \in Int
      BY <1>1, AnnouncedType
    <3>2. x = y + z
      BY <1>2
    <3> HIDE DEF x, y, z, f, g, h
    <3> QED BY <3>1, <3>2
  <2> HIDE DEF f, g, h
  <2>2. SumTo(h, NumAccounts) = SumTo(f, NumAccounts) - SumTo(g, NumAccounts)
    BY <2>1, Sizes, SumToDifference
  <2> QED BY <1>1, <2>2, AnnouncedType DEF f, g, h
<1> DEFINE f == WonOf(told)
           g == WonOf(t.told)
           h == WonOf(list)
<1>4. \A k \in 1..NumTypes : f[k] \in Int /\ g[k] \in Int /\ h[k] = f[k] - g[k]
  BY <1>1, <1>3, Sizes, AnnouncedType
<1>5. /\ Announced(told) = SumTo(f, NumTypes) /\ Announced(told) \in Int
      /\ Announced(t.told) = SumTo(g, NumTypes) /\ Announced(t.told) \in Int
      /\ Announced(list) = SumTo(h, NumTypes)
  BY <1>1, AnnouncedType
<1> HIDE DEF f, g, h
<1>6. SumTo(h, NumTypes) = SumTo(f, NumTypes) - SumTo(g, NumTypes)
  BY <1>4, Sizes, SumToDifference
<1>7. Announced(told) = Announced(t.told) + Announced(list)
  BY <1>5, <1>6
<1> QED BY <1>7 DEF told

(* The message of a position that is closed announces what it reports. *)
LEMMA ResolvedAnnounces ==
    ASSUME NEW list \in Tally, NEW c \in ContractType, NEW a \in Account,
           NEW h \in Holding, NEW side \in Side
    PROVE  Announced(NoteResolved(list, c, a, h, side)) = Announced(list) + Reported(h, side)
<1> DEFINE other == NoteResolved(list, c, a, h, side)
           r == Reported(h, side)
<1>1. other \in Tally /\ r \in Int
  BY NoteResolvedType
<1>2. \A d \in ContractType, b \in Account :
         other[d][b].won = IF d = c /\ b = a THEN list[d][b].won + r ELSE list[d][b].won
  BY DEF NoteResolved, Tally, Report
<1> HIDE DEF other, r
<1>3. WonOf(other)[c] = WonOf(list)[c] + r
  <2> DEFINE f == WonOn(list, c)
             g == WonOn(other, c)
  <2>1. \A k \in 1..NumAccounts : f[k] \in Int /\ g[k] \in Int
    BY <1>1, Sizes, AnnouncedType
  <2>2. \A k \in 1..NumAccounts : k # a => g[k] = f[k]
    BY <1>1, <1>2, Sizes, AnnouncedType
  <2>3. g[a] = f[a] + r /\ a \in 1..NumAccounts
    BY <1>1, <1>2, Sizes, AnnouncedType
  <2>4. /\ WonOf(other)[c] = SumTo(g, NumAccounts)
        /\ WonOf(list)[c] = SumTo(f, NumAccounts) /\ WonOf(list)[c] \in Int
    BY <1>1, AnnouncedType
  <2> HIDE DEF f, g
  <2>5. SumTo(g, NumAccounts) = SumTo(f, NumAccounts) + (g[a] - f[a])
    BY <2>1, <2>2, <2>3, Sizes, SumToChange
  <2>6. g[a] - f[a] = r
    <3>1. f[a] \in Int
      BY <2>1, <2>3
    <3> QED BY <1>1, <2>3, <3>1
  <2> QED BY <2>4, <2>5, <2>6
<1>4. \A d \in ContractType : d # c => WonOf(other)[d] = WonOf(list)[d]
  <2> SUFFICES ASSUME NEW d \in ContractType, d # c PROVE WonOn(other, d) = WonOn(list, d)
    BY <1>1, AnnouncedType
  <2> QED BY <1>2 DEF WonOn
<1> DEFINE f == WonOf(list)
           g == WonOf(other)
<1>5. /\ Announced(other) = SumTo(g, NumTypes)
      /\ Announced(list) = SumTo(f, NumTypes)
      /\ \A k \in 1..NumTypes : f[k] \in Int /\ g[k] \in Int
      /\ \A k \in 1..NumTypes : k # c => g[k] = f[k]
      /\ g[c] = f[c] + r /\ c \in 1..NumTypes
  BY <1>1, <1>3, <1>4, Sizes, AnnouncedType
<1> HIDE DEF f, g
<1>6. SumTo(g, NumTypes) = SumTo(f, NumTypes) + (g[c] - f[c])
  BY <1>5, Sizes, SumToChange
<1>7. g[c] - f[c] = r
  <2>1. f[c] \in Int
    BY <1>5
  <2> QED BY <1>1, <1>5, <2>1
<1> QED BY <1>5, <1>6, <1>7 DEF other, r

(* What a position of n units is worth to the side that wins. *)
Stake(side, n) == Unit * (IF side = FIXED THEN n ELSE -n)

(* What a payment reports and what it adds to the fees are the stake of    *)
(* the position.                                                           *)
LEMMA PaymentReports ==
    ASSUME NEW t \in Books, NEW c \in ContractType, NEW a \in Account, NEW side \in Side
    PROVE  LET h == t.position[c][a]
           IN  /\ Reported(h, side) \in Int
               /\ Unit * Reported(h, side) + PayPosition(t, c, a, side).fees
                    = t.fees + Stake(side, h.quantity)
<1> DEFINE h == t.position[c][a]
           q == h.quantity
           n == Abs(q)
           p == Payout(n, h.basis)
           m == p \div Unit
           r == Reported(h, side)
           wins == Wins(h, side)
           fees == PayPosition(t, c, a, side).fees
<1>1. h \in Holding /\ t.fees \in Nat
  BY DEF Books
<1>2. n \in Nat /\ h.basis \in Nat /\ q \in Int
  BY <1>1, WinnersPart
<1>3. p = Unit * m /\ m \in Nat
  BY <1>2, PayoutInTokens
<1>4. r = IF wins THEN m ELSE -n
  BY DEF Reported
<1>5. fees = t.fees + (IF wins THEN n * Unit - p ELSE 0)
  BY DEF PayPosition, Credit, Books
<1>6. /\ wins => n = IF side = FIXED THEN q ELSE -q
      /\ ~ wins => -n = IF side = FIXED THEN q ELSE -q
  BY <1>2 DEF Wins, Abs, Side, FIXED, UNFIXED
<1> HIDE DEF h, q, n, p, m, r, wins, fees
<1>7. r \in Int /\ Unit * r + fees = t.fees + Stake(side, q)
  <2>1. CASE wins
    BY <1>1, <1>2, <1>3, <1>4, <1>5, <1>6, <2>1 DEF Stake, Unit
  <2>2. CASE ~ wins
    BY <1>1, <1>2, <1>4, <1>5, <1>6, <2>2 DEF Stake, Unit
  <2> QED BY <2>1, <2>2
<1> QED BY <1>7 DEF h, q, r, fees

(* The list announces nothing but while resolve() pays, and then what it   *)
(* announces and the fees are the stakes of the positions closed so far.   *)
ReportInv ==
    /\ ResolutionsReported
    /\ stage # "pay" => Announced(pending) = 0 /\ tx.fees = db.fees
    /\ stage = "pay" =>
         Unit * Announced(pending) + tx.fees = db.fees + Stake(ruling.side, ruling.total)

(* A flush and a commit report what is in the list, and start anew. *)
LEMMA CommitReports ==
    ASSUME IInv, ToldInv, ReportInv, NEW t \in Books, NEW list \in Tally,
           t.told = tx.told, t.fees = tx.fees, Announced(list) = Announced(pending),
           tx' = Flushed(t, list), db' = tx', pending' = NoTally,
           stage # "pay" \/ ruling.total = 0, stage' = "pay" => ruling'.total = 0
    PROVE  ReportInv'
<1>1. /\ db.fees \in Nat /\ tx.fees \in Nat /\ pending \in Tally
      /\ db.told \in Tally /\ tx.told = db.told
  BY DEF IInv, TypeOK, Database, ToldInv
<1>2. Announced(pending) \in Int /\ Announced(db.told) \in Int
  BY <1>1, AnnouncedType
<1>3. Unit * Announced(pending) + tx.fees = db.fees
  <2>1. CASE stage = "pay"
    <3>1. Stake(ruling.side, ruling.total) = 0
      BY <2>1 DEF Stake, Unit
    <3> QED BY <1>1, <2>1, <3>1 DEF ReportInv
  <2>2. CASE stage # "pay"
    BY <1>1, <2>2 DEF ReportInv, Unit
  <2> QED BY <2>1, <2>2
<1>4. tx'.fees = tx.fees /\ Announced(db'.told) = Announced(db.told) + Announced(pending)
  BY <1>1, FlushAnnounces, FlushedEffect
<1>5. ResolutionsReported'
  <2>1. Unit * Announced(db.told) + db.fees = 0
    BY DEF ReportInv, ResolutionsReported
  <2>2. Unit * Announced(db'.told) + tx.fees = 0
    BY <1>1, <1>2, <1>3, <1>4, <2>1 DEF Unit
  <2> QED BY <1>4, <2>2 DEF ResolutionsReported
<1>6. Announced(pending') = 0
  BY NothingAnnounced
<1>7. stage' = "pay" => Stake(ruling'.side, ruling'.total) = 0
  BY DEF Stake, Unit
<1>8. tx'.fees = db'.fees /\ db'.fees \in Nat
  BY <1>1, <1>4
<1> QED BY <1>5, <1>6, <1>7, <1>8 DEF ReportInv, Unit

(* Outside of payments nothing is announced and no fee is taken. *)
LEMMA StaysReported ==
    ASSUME ReportInv, db' = db, Announced(pending') = 0, tx'.fees = db.fees, stage' # "pay"
    PROVE  ReportInv'
  BY DEF ReportInv, ResolutionsReported

(* Steps that write neither a message nor a fee. *)
LEMMA IdleReports ==
    ASSUME IInv, ToldInv, ReportInv,
           \/ LookupUser \/ LookupNobody \/ PlaceAny \/ ListOffers \/ ResolveAny \/ DailyCleanup
           \/ RestFails \/ Restart \/ Tick
           \/ \E i \in OfferId : SkipRow(i) \/ FillFails(i) \/ SweepRaises(i)
    PROVE  ReportInv'
<1>1. CASE Restart
  BY <1>1, NothingAnnounced, StaysReported DEF Restart, ProcessEnds, NoSweep
<1>2. CASE LookupUser \/ LookupNobody \/ PlaceAny \/ ListOffers \/ ResolveAny \/ DailyCleanup \/ Tick
  <2>1. stage = "none"
    BY <1>2 DEF LookupUser, LookupNobody, PlaceAny, PlaceOrder, ListOffers, ResolveAny, Resolve,
                DailyCleanup, Tick, Quiet
  <2>2. Announced(pending) = 0 /\ tx.fees = db.fees
    BY <2>1 DEF ReportInv
  <2>3. /\ db' = db /\ (tx' = tx \/ tx' = db) /\ (pending' = pending \/ pending' = NoTally)
        /\ stage' # "pay"
    BY <1>2, <2>1 DEF LookupUser, LookupNobody, PlaceAny, PlaceOrder, ListOffers, ResolveAny,
                      Resolve, DailyCleanup, Tick, connection, sweeping
  <2> QED BY <2>2, <2>3, NothingAnnounced, StaysReported
<1>3. CASE RestFails \/ \E i \in OfferId : SkipRow(i) \/ FillFails(i)
  <2>1. stage = "none" /\ stage' = stage
    BY <1>3 DEF RestFails, SkipRow, FillFails, Fills, IInv, StageInv, TypeOK, OfferRow, sweeping
  <2>2. Announced(pending) = 0 /\ tx.fees = db.fees
    BY <2>1 DEF ReportInv
  <2>3. db' = db /\ (tx' = tx \/ tx' = db) /\ pending' = pending
    BY <1>3 DEF RestFails, SkipRow, FillFails, StatementFails, connection
  <2> QED BY <2>1, <2>2, <2>3, StaysReported
<1>4. ASSUME NEW i \in OfferId, SweepRaises(i) PROVE ReportInv'
  <2>1. queue # NoQueue
    BY <1>4 DEF SweepRaises, IsQueued, NoQueue
  <2>2. Announced(pending) = 0 /\ tx.fees = db.fees
    BY <2>1 DEF ReportInv, IInv, StageInv
  <2>3. /\ db' = db /\ (tx' = tx \/ tx' = db) /\ (pending' = pending \/ pending' = NoTally)
        /\ stage' = "none"
    BY <1>4 DEF SweepRaises, ProcessEnds, HandlerRaises, NoSweep, connection
  <2> QED BY <2>2, <2>3, NothingAnnounced, StaysReported
<1> QED BY <1>1, <1>2, <1>3, <1>4

(* An order notes contracts, and announces nothing. *)
LEMMA FillRowReports ==
    ASSUME IInv, ToldInv, ReportInv, NEW i \in OfferId, FillRow(i)
    PROVE  ReportInv'
<1> DEFINE n == ContractSize(i)
           t == ReduceOffer(tx, i, n)
           v == Contracted(i, t)
           one == Note(pending, order.ct, FixedHolder(i), n)
           list == Note(one, order.ct, UnfixedHolder(i), -n)
<1>1. Fills(i) /\ stage' = stage
  BY DEF FillRow, sweeping
<1>2. /\ tx \in Database /\ pending \in Tally /\ stage = "none"
      /\ order.ct \in ContractType /\ order.price \in Price
      /\ FixedHolder(i) \in Account /\ UnfixedHolder(i) \in Account
      /\ n \in Nat /\ n <= tx.offer[i].quantity
      /\ Reducible(tx, i, n)
  BY <1>1, FillFacts
<1>3. FillWith(i, v)
  BY <1>2 DEF FillRow
<1>4. t \in Books /\ t.told = tx.told /\ t.fees = tx.fees
  BY <1>2, AllFixedType, DatabaseBooks, ReduceOfferEffect
<1> HIDE DEF t
<1>5. v \in Books /\ v.told = tx.told /\ v.fees = tx.fees
  <2>1. v = MakeContract(t, order.ct, FixedHolder(i), UnfixedHolder(i), order.price, n)
    BY DEF Contracted
  <2> HIDE DEF v, n
  <2> QED BY <1>2, <1>4, <2>1, MakeContractEffect
<1>6. list \in Tally /\ Announced(list) = Announced(pending)
  <2>1. n \in Int /\ -n \in Int
    BY <1>2
  <2> HIDE DEF n
  <2>2. one \in Tally /\ Announced(one) = Announced(pending)
    BY <1>2, <2>1, NoteType, NoteAnnounces
  <2> HIDE DEF one
  <2> QED BY <1>2, <2>1, <2>2, NoteType, NoteAnnounces
<1>7. CASE n = order.quantity
  <2>1. tx' = Flushed(v, list) /\ db' = tx' /\ pending' = NoTally
    BY <1>3, <1>7 DEF FillWith
  <2> HIDE DEF v, list
  <2> QED BY <1>1, <1>2, <1>5, <1>6, <2>1, CommitReports
<1>8. CASE n # order.quantity
  <2>1. tx' = v /\ pending' = list /\ db' = db
    BY <1>3, <1>8 DEF FillWith
  <2>2. Announced(pending) = 0 /\ tx.fees = db.fees
    BY <1>2 DEF ReportInv
  <2> HIDE DEF v, list
  <2> QED BY <1>1, <1>2, <1>5, <1>6, <2>1, <2>2, StaysReported
<1> QED BY <1>7, <1>8

(* Sweeps and commits of what is in the open transaction. *)
LEMMA OperationsReport ==
    ASSUME IInv, ToldInv, ReportInv,
           \/ PersistOther \/ CancelAny \/ RestOrder \/ SweepDone \/ SweepNext \/ ResolveDone
           \/ \E i \in OfferId : SweepOne(i)
    PROVE  ReportInv'
<1>1. tx \in Books /\ tx \in Database /\ pending \in Tally
  BY TypedBooks DEF IInv, TypeOK
<1>2. CASE PersistOther \/ SweepDone \/ SweepNext \/ ResolveDone
  <2>1. tx' = Flushed(tx, pending) /\ db' = tx' /\ pending' = NoTally /\ stage # "pay"
    BY <1>2 DEF PersistOther, SweepDone, SweepNext, ResolveDone, FlushAndCommit, CommitThen, Quiet
  <2>2. stage' = "pay" => ruling'.total = 0
    BY <1>2 DEF PersistOther, SweepDone, SweepNext, ResolveDone, CommitThen, NoSweep, sweeping,
                Quiet, IInv, StageInv
  <2> QED BY <1>1, <2>1, <2>2, CommitReports
<1>3. ASSUME NEW i \in OfferId, Cancel(i) PROVE ReportInv'
  <2> DEFINE t == ReduceOffer(tx, i, tx.offer[i].quantity)
  <2>1. tx.offer[i].quantity \in Nat /\ tx.offer[i].quantity <= tx.offer[i].quantity
    BY <1>1 DEF Database, OfferRow
  <2>2. t \in Books /\ t.told = tx.told /\ t.fees = tx.fees
    BY <1>1, <2>1, AllFixedType, ReduceOfferEffect
  <2>3. /\ tx' = Flushed(t, pending) /\ db' = tx' /\ pending' = NoTally
        /\ stage = "none" /\ stage' = stage
    BY <1>3 DEF Cancel, FlushAndCommit, Quiet, sweeping
  <2> HIDE DEF t
  <2> QED BY <1>1, <2>2, <2>3, CommitReports
<1>4. CASE RestOrder
  <2> DEFINE t == MakeOffer(tx, orders, order)
  <2>1. order \in OfferRow /\ orders \in OfferId /\ tx.offer[orders].quantity = 0
    <3>1. order \in OfferRow /\ orders \in 0..MaxOrders /\ orders > 0 /\ ~ Exists(tx, orders)
      BY <1>4 DEF RestOrder, IInv, TypeOK, IdsInv
    <3>2. orders \in OfferId
      BY <3>1, TablesAssumption DEF OfferId
    <3>3. tx.offer[orders].quantity \in Nat
      BY <1>1, <3>2 DEF Database, OfferRow
    <3> QED BY <3>1, <3>2, <3>3 DEF Exists
  <2>2. t \in Books /\ t.told = tx.told /\ t.fees = tx.fees
    BY <1>1, <2>1, MakeOfferEffect
  <2>3. /\ tx' = Flushed(t, pending) /\ db' = tx' /\ pending' = NoTally
        /\ stage = "none" /\ stage' = stage
    BY <1>4, <2>1 DEF RestOrder, FlushAndCommit, sweeping, IInv, StageInv, OfferRow
  <2> HIDE DEF t
  <2> QED BY <1>1, <2>2, <2>3, CommitReports
<1>5. ASSUME NEW i \in OfferId, SweepOne(i) PROVE ReportInv'
  <2> DEFINE t == ReduceOffer(tx, i, tx.offer[i].quantity)
  <2>1. tx.offer[i].quantity \in Nat /\ tx.offer[i].quantity <= tx.offer[i].quantity
    BY <1>1 DEF Database, OfferRow
  <2>2. t.fees = tx.fees
    BY <1>1, <2>1, AllFixedType, ReduceOfferEffect
  <2>3. tx' = t /\ db' = db /\ pending' = pending /\ stage' = stage /\ queue # NoQueue
    BY <1>5 DEF SweepOne, IsQueued, NoQueue
  <2> HIDE DEF t
  <2>4. stage # "pay" /\ Announced(pending) = 0 /\ tx.fees = db.fees
    BY <2>3 DEF ReportInv, IInv, StageInv
  <2> QED BY <2>2, <2>3, <2>4, StaysReported
<1> QED BY <1>2, <1>3, <1>4, <1>5 DEF CancelAny

(* resolve() reports the stake of each position that it closes. *)
LEMMA PayReports ==
    ASSUME IInv, ToldInv, ReportInv, Pay \/ PayDone
    PROVE  ReportInv'
<1>1. /\ tx \in Books /\ pending \in Tally /\ ruling.side \in Side /\ ruling.total \in Int
      /\ tx.fees \in Nat /\ db.fees \in Nat
  BY TypedBooks DEF IInv, TypeOK, Database
<1>2. ASSUME NEW a \in Account, PayOne(a) PROVE ReportInv'
  <2> DEFINE c == ruling.ct
             h == tx.position[c][a]
             q == h.quantity
             r == Reported(h, ruling.side)
             before == Announced(pending)
             after == Announced(pending')
             s == Stake(ruling.side, ruling.total)
  <2>1. stage = "pay" /\ c \in ContractType
    BY <1>2 DEF PayOne, IInv, StageInv
  <2>2. /\ tx' = PayPosition(tx, c, a, ruling.side)
        /\ pending' = NoteResolved(pending, c, a, h, ruling.side)
        /\ ruling' = [ruling EXCEPT !.total = @ + q]
        /\ db' = db /\ stage' = stage
    BY <1>2 DEF PayOne
  <2>3. h \in Holding /\ q \in Int
    BY <1>1, <2>1 DEF Books, Holding
  <2>4. after = before + r /\ before \in Int
    BY <1>1, <2>1, <2>2, <2>3, ResolvedAnnounces, AnnouncedType
  <2>5. r \in Int /\ Unit * r + tx'.fees = tx.fees + Stake(ruling.side, q)
    BY <1>1, <2>1, <2>2, PaymentReports
  <2>6. tx'.fees \in Nat
    <3>1. tx' \in Database
      BY <1>2, PayOneKeeps DEF IInv, TypeOK
    <3> QED BY <3>1 DEF Database
  <2>7. Unit * before + tx.fees = db.fees + s
    BY <2>1 DEF ReportInv
  <2>8. ruling'.side = ruling.side /\ ruling'.total = ruling.total + q
    BY <2>2 DEF IInv, TypeOK
  <2>9. Stake(ruling'.side, ruling'.total) = s + Stake(ruling.side, q) /\ s \in Int
        /\ Stake(ruling.side, q) \in Int
    <3> HIDE DEF q
    <3> QED BY <1>1, <2>3, <2>8 DEF Stake, Unit
  <2> DEFINE g == Stake(ruling.side, q)
             total == Stake(ruling'.side, ruling'.total)
  <2>10. Unit * after + tx'.fees = db.fees + total
    <3>1. total = s + g /\ s \in Int /\ g \in Int
      BY <2>9
    <3>2. Unit * r + tx'.fees = tx.fees + g
      BY <2>5
    <3>3. r \in Int
      BY <2>5
    <3> HIDE DEF g, s, total, r, before, after, q, h
    <3>4. tx.fees \in Int /\ tx'.fees \in Int /\ db.fees \in Int /\ before \in Int
      BY <1>1, <2>4, <2>6
    <3>5. Unit * (before + r) + tx'.fees = db.fees + (s + g)
      <4> DEFINE x == Unit * before
                 y == Unit * r
      <4>1. x \in Int /\ y \in Int /\ Unit * (before + r) = x + y
        BY <3>3, <3>4 DEF Unit
      <4>2. x + tx.fees = db.fees + s /\ y + tx'.fees = tx.fees + g
        BY <2>7, <3>2
      <4> HIDE DEF x, y
      <4> QED BY <3>1, <3>4, <4>1, <4>2
    <3>6. after = before + r /\ total = s + g
      BY <2>4, <3>1
    <3> QED BY <3>5, <3>6
  <2> QED BY <2>1, <2>2, <2>10 DEF ReportInv, ResolutionsReported
<1>3. CASE PayDone
  <2>1. stage = "pay" /\ ruling.total = 0
    BY <1>3, TotalIsZero DEF PayDone
  <2>2. tx' = Flushed(tx, pending) /\ db' = tx' /\ pending' = NoTally /\ stage' = "after"
    BY <1>3, <2>1 DEF PayDone, CommitThen
  <2> QED BY <1>1, <2>1, <2>2, CommitReports
<1> QED BY <1>2, <1>3 DEF Pay

(* Nothing is reported at the start. *)
LEMMA InitReports == ASSUME Init PROVE ReportInv
<1>1. /\ db = EmptyBook /\ tx = EmptyBook /\ pending = NoTally /\ stage = "none"
  BY DEF Init
<1>2. EmptyBook.told = NoTally /\ EmptyBook.fees = 0
  BY DEF EmptyBook
<1> QED BY <1>1, <1>2, NothingAnnounced DEF ReportInv, ResolutionsReported, Unit

(* Over all resolutions winners are told of as many tokens, with the fees, *)
(* as losers are told that they lost, at every commit.                     *)
THEOREM PaymentsReported == Spec => []ResolutionsReported
<1>1. Init => ToldInv /\ ReportInv
  BY InitTold, InitReports
<1>2. IInv /\ ToldInv /\ [Next]_vars => ToldInv'
  BY StepTold
<1>3. ASSUME IInv, ToldInv, ReportInv, [Next]_vars PROVE ReportInv'
  <2>1. CASE UNCHANGED vars
    <3>1. /\ db' = db /\ tx' = tx /\ pending' = pending /\ stage' = stage /\ ruling' = ruling
      BY <2>1 DEF vars
    <3> QED BY <1>3, <3>1 DEF ReportInv, ResolutionsReported
  <2>2. ASSUME NEW i \in OfferId, SkipRow(i) \/ FillRow(i) \/ FillFails(i) PROVE ReportInv'
    BY <1>3, <2>2, IdleReports, FillRowReports
  <2>3. ASSUME NEW i \in OfferId, SweepOne(i) \/ SweepRaises(i) PROVE ReportInv'
    BY <1>3, <2>3, IdleReports, OperationsReport
  <2> QED BY <1>3, <2>1, <2>2, <2>3, IdleReports, OperationsReport, PayReports
         DEF Next, MatchRow, Sweep
<1>4. ReportInv => ResolutionsReported
  BY DEF ReportInv
<1>5. IInv /\ ToldInv /\ ReportInv /\ [Next]_vars => ReportInv'
  BY <1>3
<1> QED BY <1>1, <1>2, <1>4, <1>5, Invariance, PTL DEF Spec

(***************************************************************************)
(* The order of trading, and what one operation may do to the committed    *)
(* tables.                                                                 *)
(*                                                                         *)
(* TradeInv compares the open transaction with the committed tables        *)
(* (SinceInv), says which candidates an order has passed (RowsInv), and    *)
(* that what is left in either table would not have traded (TablesInv).    *)
(***************************************************************************)
(* A position of no units is no row. *)
Cleared(t) ==
    \A c \in ContractType, a \in Account :
        t.position[c][a].quantity = 0 => t.position[c][a] = NoHolding

(* BookUncrossed of any tables at any time. *)
Uncrossed(t, when) ==
    \A i, j \in OfferId :
        LET f == t.offer[i]
            u == t.offer[j]
        IN  (/\ Exists(t, i) /\ Exists(t, j)
             /\ f.side = FIXED /\ u.side = UNFIXED
             /\ f.ct = u.ct /\ f.price >= u.price
             /\ ~ Expired(f, when) /\ ~ Expired(u, when))
            => \/ f.aon /\ f.quantity > u.quantity
               \/ u.aon /\ u.quantity > f.quantity

TablesInv ==
    /\ Cleared(db) /\ Cleared(tx)
    /\ Uncrossed(db, now) /\ Uncrossed(tx, now)
    /\ txNow <= now

(* What the open transaction has done: outside an order it only refunds    *)
(* and pays out, and an order charges nobody but the trader.               *)
SinceInv ==
    /\ order.quantity = 0 =>
          \A c \in ContractType :
             \/ tx.position[c] = db.position[c]
             \/ stage = "pay" /\ c = ruling.ct
    /\ \A a \in Account :
          order.quantity = 0 \/ a # order.account => tx.balance[a] >= db.balance[a]
    /\ \A i \in OfferId :
          /\ tx.offer[i].quantity <= db.offer[i].quantity
          /\ Exists(db, i) /\ Exists(tx, i) /\ db.offer[i].aon => tx.offer[i] = db.offer[i]

(* The candidates that are left are those the order suits, but for the     *)
(* ones it cannot fill.                                                    *)
Suitable == Candidates(tx, order, txNow)
RowsInv ==
    order.quantity > 0 =>
        /\ ~ Exists(db, orders)
        /\ rows \subseteq Suitable
        /\ \A i \in Suitable \ rows : Skips(tx.offer[i])

(* What a daily cleanup has still to remove is in its queue. *)
Overdue(o) == Matures[o.ct] <= now \/ Expired(o, now)
SweepInv ==
    stage = "daily" =>
        \A i \in OfferId :
            Exists(tx, i) /\ Overdue(tx.offer[i]) => \E g \in Group : i \in queue[g]

TradeInv == TablesInv /\ SinceInv /\ RowsInv /\ SweepInv

(* Equal but for the messages. *)
Agree(u, t) == u.offer = t.offer /\ u.balance = t.balance /\ u.position = t.position

(* Offers only leave, or lose units if they may be filled in part. *)
Shrunk(u, t) ==
    \A k \in OfferId : Exists(u, k) =>
        /\ Exists(t, k)
        /\ \/ u.offer[k] = t.offer[k]
           \/ /\ ~ t.offer[k].aon
              /\ u.offer[k].quantity < t.offer[k].quantity
              /\ u.offer[k] = [t.offer[k] EXCEPT !.quantity = u.offer[k].quantity]

(***************************************************************************)
(* Tables.                                                                 *)
(***************************************************************************)
(* What is left of an offer, and what its owner gets. *)
LEMMA ReducedOffer ==
    ASSUME NEW t \in Books, NEW i \in OfferId, NEW n \in Nat,
           n <= t.offer[i].quantity
    PROVE  LET u == ReduceOffer(t, i, n)
               o == t.offer[i]
           IN  /\ u.offer[i] = IF n = o.quantity THEN NoOffer
                               ELSE [o EXCEPT !.quantity = o.quantity - n]
               /\ \A k \in OfferId : k # i => u.offer[k] = t.offer[k]
               /\ u.position = t.position
               /\ u.balance = [t.balance EXCEPT ![o.account] =
                                  t.balance[o.account] + Cost(o.side, o.price, n)]
               /\ Cost(o.side, o.price, n) \in Nat
<1> DEFINE o == t.offer[i]
           paid == Cost(o.side, o.price, n)
           v == Credit(t, o.account, paid)
           rest == IF n = o.quantity THEN NoOffer ELSE [o EXCEPT !.quantity = o.quantity - n]
           u == [v EXCEPT !.offer[i] = rest]
<1>1. o \in OfferRow /\ o.account \in Account /\ o.price \in Price /\ o.quantity \in Nat
  BY DEF Books, OfferRow
<1>2. paid \in Nat
  BY <1>1, CostAdds
<1>3. ReduceOffer(t, i, n) = u
  BY DEF ReduceOffer
<1> HIDE DEF rest, paid
<1>4. /\ v \in Books /\ v.offer = t.offer /\ v.position = t.position
      /\ v.balance = [t.balance EXCEPT ![o.account] = t.balance[o.account] + paid]
  BY <1>1, <1>2, CreditEffect
<1> HIDE DEF v
<1>5. /\ u.offer = [v.offer EXCEPT ![i] = rest]
      /\ u.balance = v.balance /\ u.position = v.position
  BY <1>4 DEF Books
<1>6. t.offer \in [OfferId -> OfferRow]
  BY DEF Books
<1> HIDE DEF u
<1>7. u.offer[i] = rest /\ \A k \in OfferId : k # i => u.offer[k] = t.offer[k]
  BY <1>4, <1>5, <1>6
<1> QED BY <1>2, <1>3, <1>4, <1>5, <1>7 DEF rest, paid

(* The new row is the order, or what is left of it. *)
LEMMA MadeOffer ==
    ASSUME NEW t \in Books, NEW i \in OfferId, NEW o \in OfferRow,
           t.offer[i].quantity = 0
    PROVE  MakeOffer(t, i, o).offer = [t.offer EXCEPT ![i] = o]
<1> DEFINE v == Debit(t, o.account, Escrow(o))
<1>1. o.account \in Account /\ Escrow(o) \in Int
  BY EscrowType DEF OfferRow
<1>2. v \in Books /\ v.offer = t.offer
  BY <1>1, DebitEffect
<1>3. MakeOffer(t, i, o) = [v EXCEPT !.offer[i] = o]
  BY DEF MakeOffer
<1> HIDE DEF v
<1> QED BY <1>2, <1>3 DEF Books

(* A debit takes its amount. *)
LEMMA DebitBalance ==
    ASSUME NEW t \in Books, NEW a \in Account, NEW amount \in Int
    PROVE  Debit(t, a, amount).balance = [t.balance EXCEPT ![a] = t.balance[a] - amount]
  BY DEF Debit, Books

(* Storing a side of a contract leaves no empty row. *)
LEMMA PersistClears ==
    ASSUME NEW t \in Books, Cleared(t), NEW c \in ContractType, NEW a \in Account,
           NEW paid \in Nat, NEW n \in Int
    PROVE  Cleared([t EXCEPT !.position[c][a] = PersistSide(t.position[c][a], paid, n)])
<1> DEFINE h == PersistSide(t.position[c][a], paid, n)
           u == [t EXCEPT !.position[c][a] = h]
<1>1. h.quantity = 0 => h = NoHolding
  BY DEF PersistSide
<1> HIDE DEF h
<1>2. t.position \in [ContractType -> [Account -> Holding]]
  BY DEF Books
<1>3. u.position = [t.position EXCEPT ![c] = [t.position[c] EXCEPT ![a] = h]]
  BY DEF Books
<1> HIDE DEF u
<1>4. \A d \in ContractType, b \in Account :
         u.position[d][b] = h \/ u.position[d][b] = t.position[d][b]
  BY <1>2, <1>3
<1>5. Cleared(u)
  BY <1>1, <1>4 DEF Cleared
<1> QED BY <1>5 DEF u, h

(* Neither side pays more than its share of a contract. *)
LEMMA ContractCharges ==
    ASSUME NEW t \in Books, NEW c \in ContractType, NEW f \in Account, NEW u \in Account,
           NEW price \in Price, NEW n \in Nat
    PROVE  LET v == MakeContract(t, c, f, u, price, n)
           IN  /\ f # u => v.balance[f] >= t.balance[f] - Cost(FIXED, price, n)
               /\ f # u => v.balance[u] >= t.balance[u] - Cost(UNFIXED, price, n)
               /\ Cleared(t) => Cleared(v)
<1> DEFINE p == FixedPersisted(t, c, f, price, n)
           r == Persisted(t, c, f, u, price, n)
           fc == FixedCharge(t, c, f, price, n)
           uc == UnfixedCharge(t, c, f, u, price, n)
           w == Debit(r, f, fc)
           v == Debit(w, u, uc)
           m == -n
           other == Unit - price
<1>1. price \in Nat /\ other \in Nat /\ m \in Int /\ n \in Int
  BY DEF Price, Unit
<1>2. /\ p \in Books /\ p.balance = t.balance /\ t.position[c][f].quantity \in Int
      /\ Cleared(t) => Cleared(p)
  <2>1. p = [t EXCEPT !.position[c][f] = PersistSide(t.position[c][f], price, n)]
    BY DEF FixedPersisted
  <2> HIDE DEF p
  <2> QED BY <1>1, <2>1, PersistEffect, PersistClears
<1>3. r = [p EXCEPT !.position[c][u] = PersistSide(p.position[c][u], other, m)]
  BY DEF Persisted
<1>4. Covered(t.position[c][f].quantity, n) \in Nat
  BY <1>1, <1>2, CoveredType
<1>5. /\ fc = price * n - Unit * Covered(t.position[c][f].quantity, n)
      /\ uc = other * n - Unit * Covered(p.position[c][u].quantity, m)
  BY DEF FixedCharge, UnfixedCharge
<1> HIDE DEF p, r, m, other, fc, uc
<1>6. /\ r \in Books /\ r.balance = p.balance /\ p.position[c][u].quantity \in Int
      /\ Cleared(p) => Cleared(r)
  <2> DEFINE z == [p EXCEPT !.position[c][u] = PersistSide(p.position[c][u], other, m)]
  <2>1. /\ z \in Books /\ z.balance = p.balance /\ p.position[c][u].quantity \in Int
        /\ Cleared(p) => Cleared(z)
    <3>1. p \in Books
      BY <1>2
    <3> HIDE DEF z
    <3>2. z \in Books /\ z.balance = p.balance /\ p.position[c][u].quantity \in Int
      BY <1>1, <3>1, PersistEffect DEF z
    <3>3. Cleared(p) => Cleared(z)
      BY <1>1, <3>1, PersistClears DEF z
    <3> QED BY <3>2, <3>3
  <2>2. r = z
    BY <1>3
  <2> HIDE DEF z
  <2> QED BY <2>1, <2>2
<1>7. Covered(p.position[c][u].quantity, m) \in Nat
  BY <1>1, <1>6, CoveredType
<1>8. /\ fc \in Int /\ fc <= Cost(FIXED, price, n)
      /\ uc \in Int /\ uc <= Cost(UNFIXED, price, n)
      /\ Cost(FIXED, price, n) \in Int /\ Cost(UNFIXED, price, n) \in Int
  <2> DEFINE x == price * n
             y == other * n
             k == Covered(t.position[c][f].quantity, n)
             l == Covered(p.position[c][u].quantity, m)
  <2>1. x \in Nat /\ y \in Nat
    BY CostSplits DEF other
  <2>2. Cost(FIXED, price, n) = x /\ Cost(UNFIXED, price, n) = y
    BY DEF Cost, FIXED, UNFIXED, other
  <2>3. fc = x - Unit * k /\ uc = y - Unit * l /\ k \in Nat /\ l \in Nat
    BY <1>4, <1>5, <1>7
  <2> HIDE DEF x, y, k, l
  <2> QED BY <2>1, <2>2, <2>3 DEF Unit
<1>9. /\ w \in Books /\ w.position = r.position
      /\ w.balance = [r.balance EXCEPT ![f] = r.balance[f] - fc]
  <2>1. r \in Books /\ fc \in Int
    BY <1>6, <1>8
  <2>2. w \in Books /\ w.position = r.position
    BY <2>1, DebitEffect
  <2>3. w.balance = [r.balance EXCEPT ![f] = r.balance[f] - fc]
    BY <2>1, DebitBalance
  <2> QED BY <2>2, <2>3
<1> HIDE DEF w
<1>10. /\ v.position = w.position
       /\ v.balance = [w.balance EXCEPT ![u] = w.balance[u] - uc]
  <2>1. w \in Books /\ uc \in Int
    BY <1>8, <1>9
  <2>2. v.position = w.position
    BY <2>1, DebitEffect
  <2>3. v.balance = [w.balance EXCEPT ![u] = w.balance[u] - uc]
    BY <2>1, DebitBalance
  <2> QED BY <2>2, <2>3
<1> HIDE DEF v
<1>11. MakeContract(t, c, f, u, price, n) = v
  BY DEF MakeContract, FixedCharged, v, w, r, fc, uc
<1>12. t.balance \in [Account -> Int] /\ r.balance = t.balance
  BY <1>2, <1>6 DEF Books
<1>13. Cleared(t) => Cleared(v)
  BY <1>2, <1>6, <1>9, <1>10 DEF Cleared
<1>14. f # u => v.balance[f] = t.balance[f] - fc /\ v.balance[u] = t.balance[u] - uc
  BY <1>9, <1>10, <1>12
<1>15. t.balance[f] \in Int /\ t.balance[u] \in Int
  BY <1>12
<1> QED BY <1>8, <1>11, <1>13, <1>14, <1>15

(* resolve() takes nothing from anybody, and closes one position. *)
LEMMA PaidPosition ==
    ASSUME NEW t \in Books, NEW c \in ContractType, NEW a \in Account, NEW side \in Side
    PROVE  LET u == PayPosition(t, c, a, side)
           IN  /\ u.offer = t.offer
               /\ \A b \in Account : u.balance[b] >= t.balance[b]
               /\ \A d \in ContractType \ {c} : u.position[d] = t.position[d]
               /\ Cleared(t) => Cleared(u)
               /\ u.position[c][a] = NoHolding
               /\ u.balance[a] = t.balance[a] + (IF Wins(t.position[c][a], side)
                                                 THEN Payout(Abs(t.position[c][a].quantity),
                                                             t.position[c][a].basis)
                                                 ELSE 0)
               /\ \A b \in Account \ {a} : /\ u.position[c][b] = t.position[c][b]
                                           /\ u.balance[b] = t.balance[b]
<1> DEFINE h == t.position[c][a]
           n == Abs(h.quantity)
           won == IF Wins(h, side) THEN Payout(n, h.basis) ELSE 0
           kept == IF Wins(h, side) THEN n * Unit - won ELSE 0
           v == Credit(t, a, won)
           w == [v EXCEPT !.position[c][a] = NoHolding]
           fees == v.fees + kept
           u == [v EXCEPT !.position[c][a] = NoHolding, !.fees = fees]
<1>1. PayPosition(t, c, a, side) = u
  BY DEF PayPosition
<1>2. won \in Nat
  <2>1. n \in Nat /\ h.basis \in Nat
    BY DEF Books, Holding, Abs
  <2> HIDE DEF n, h
  <2>2. Payout(n, h.basis) \in Nat
    BY <2>1, PayoutBounds
  <2> QED BY <2>2
<1> HIDE DEF won, kept
<1>3. /\ v \in Books
      /\ v.balance = [t.balance EXCEPT ![a] = t.balance[a] + won]
      /\ v.offer = t.offer /\ v.position = t.position
  BY <1>2, CreditEffect
<1> HIDE DEF v, fees
<1>4. /\ u.balance = v.balance /\ u.offer = v.offer
      /\ u.position = [v.position EXCEPT ![c] = [v.position[c] EXCEPT ![a] = NoHolding]]
  <2>1. /\ w.balance = v.balance /\ w.offer = v.offer
        /\ w.position = [v.position EXCEPT ![c] = [v.position[c] EXCEPT ![a] = NoHolding]]
    BY <1>3 DEF Books
  <2>2. u = [w EXCEPT !.fees = fees]
    BY <1>3 DEF Books
  <2>3. DOMAIN w = DOMAIN v
    BY <1>3 DEF Books
  <2> HIDE DEF w, u
  <2> QED BY <1>3, <2>1, <2>2, <2>3 DEF Books
<1> HIDE DEF u, h
<1>5. t.position \in [ContractType -> [Account -> Holding]] /\ t.balance \in [Account -> Int]
  BY DEF Books
<1>6. \A d \in ContractType \ {c} : u.position[d] = t.position[d]
  BY <1>3, <1>4, <1>5
<1>7. \A b \in Account : u.balance[b] >= t.balance[b]
  BY <1>2, <1>3, <1>4, <1>5
<1>8. \A d \in ContractType, b \in Account :
         u.position[d][b] = NoHolding \/ u.position[d][b] = t.position[d][b]
  BY <1>3, <1>4, <1>5
<1>9. /\ u.position[c][a] = NoHolding
      /\ u.balance[a] = t.balance[a] + won
      /\ \A b \in Account \ {a} : /\ u.position[c][b] = t.position[c][b]
                                  /\ u.balance[b] = t.balance[b]
  BY <1>3, <1>4, <1>5
<1>10. Cleared(t) => Cleared(u)
  BY <1>8 DEF Cleared
<1> QED BY <1>1, <1>3, <1>4, <1>6, <1>7, <1>9, <1>10 DEF won, n, h

(***************************************************************************)
(* What would have traded.                                                 *)
(***************************************************************************)
(* An offer that has expired stays expired. *)
LEMMA ExpiredStays ==
    ASSUME NEW o \in OfferRow, NEW when \in Nat, NEW then \in Nat, when <= then,
           ~ Expired(o, then)
    PROVE  ~ Expired(o, when)
  BY DEF Expired, OfferRow, Never

(* Time uncrosses a book. *)
LEMMA UncrossedStays ==
    ASSUME NEW t \in Books, NEW when \in Nat, NEW then \in Nat, when <= then,
           Uncrossed(t, when)
    PROVE  Uncrossed(t, then)
<1>1. \A k \in OfferId : t.offer[k] \in OfferRow
  BY DEF Books
<1>2. \A k \in OfferId : ~ Expired(t.offer[k], then) => ~ Expired(t.offer[k], when)
  BY <1>1, ExpiredStays
<1> QED BY <1>2 DEF Uncrossed

(* So do refunds, and fills of offers that may be filled in part. *)
LEMMA ShrunkUncrossed ==
    ASSUME NEW t \in Books, NEW u \in Books, NEW when, Shrunk(u, t), Uncrossed(t, when)
    PROVE  Uncrossed(u, when)
<1> SUFFICES ASSUME NEW i \in OfferId, NEW j \in OfferId,
                    Exists(u, i), Exists(u, j),
                    u.offer[i].side = FIXED, u.offer[j].side = UNFIXED,
                    u.offer[i].ct = u.offer[j].ct, u.offer[i].price >= u.offer[j].price,
                    ~ Expired(u.offer[i], when), ~ Expired(u.offer[j], when)
             PROVE  \/ u.offer[i].aon /\ u.offer[i].quantity > u.offer[j].quantity
                    \/ u.offer[j].aon /\ u.offer[j].quantity > u.offer[i].quantity
  BY DEF Uncrossed
<1>1. \A k \in {i, j} :
        /\ Exists(t, k) /\ t.offer[k] \in OfferRow /\ u.offer[k] \in OfferRow
        /\ u.offer[k].side = t.offer[k].side /\ u.offer[k].ct = t.offer[k].ct
        /\ u.offer[k].price = t.offer[k].price /\ u.offer[k].expires = t.offer[k].expires
        /\ u.offer[k].aon = t.offer[k].aon
        /\ u.offer[k].quantity <= t.offer[k].quantity
        /\ t.offer[k].aon => u.offer[k].quantity = t.offer[k].quantity
  <2> TAKE k \in {i, j}
  <2>1. Exists(u, k) /\ t.offer[k] \in OfferRow /\ u.offer[k] \in OfferRow
    BY DEF Books
  <2>2. CASE u.offer[k] = t.offer[k]
    BY <2>1, <2>2 DEF Shrunk, OfferRow
  <2>3. CASE u.offer[k] # t.offer[k]
    <3> DEFINE m == u.offer[k].quantity
    <3>1. /\ Exists(t, k) /\ ~ t.offer[k].aon
          /\ m < t.offer[k].quantity
          /\ u.offer[k] = [t.offer[k] EXCEPT !.quantity = m]
      BY <2>1, <2>3 DEF Shrunk
    <3>2. m \in Nat /\ t.offer[k].quantity \in Nat
      BY <2>1 DEF OfferRow
    <3> HIDE DEF m
    <3>3. /\ u.offer[k].side = t.offer[k].side /\ u.offer[k].ct = t.offer[k].ct
          /\ u.offer[k].price = t.offer[k].price /\ u.offer[k].expires = t.offer[k].expires
          /\ u.offer[k].aon = t.offer[k].aon
      BY <2>1, <3>1 DEF OfferRow
    <3>4. m = u.offer[k].quantity
      BY DEF m
    <3> QED BY <2>1, <3>1, <3>2, <3>3, <3>4
  <2> QED BY <2>2, <2>3
<1>2. /\ ~ Expired(t.offer[i], when) /\ ~ Expired(t.offer[j], when)
  BY <1>1 DEF Expired
<1>3. \/ t.offer[i].aon /\ t.offer[i].quantity > t.offer[j].quantity
      \/ t.offer[j].aon /\ t.offer[j].quantity > t.offer[i].quantity
  BY <1>1, <1>2 DEF Uncrossed
<1>4. \A k \in {i, j} : t.offer[k].quantity \in Nat /\ u.offer[k].quantity \in Nat
  BY <1>1 DEF OfferRow
<1> QED BY <1>1, <1>3, <1>4

(* A refund of a whole offer. *)
LEMMA RefundShrinks ==
    ASSUME NEW t \in Database, NEW i \in OfferId
    PROVE  LET u == ReduceOffer(t, i, t.offer[i].quantity)
           IN  /\ Shrunk(u, t)
               /\ \A k \in OfferId : Exists(u, k) => k # i /\ u.offer[k] = t.offer[k]
               /\ \A a \in Account : u.balance[a] >= t.balance[a]
               /\ u.position = t.position
               /\ u \in Database
<1> DEFINE n == t.offer[i].quantity
           u == ReduceOffer(t, i, n)
           o == t.offer[i]
<1>1. t \in Books /\ n \in Nat /\ n <= n /\ o.account \in Account
  BY DatabaseBooks DEF Books, OfferRow
<1>2. /\ u.offer[i] = NoOffer
      /\ \A k \in OfferId : k # i => u.offer[k] = t.offer[k]
      /\ u.position = t.position
      /\ u.balance = [t.balance EXCEPT ![o.account] =
                         t.balance[o.account] + Cost(o.side, o.price, n)]
      /\ Cost(o.side, o.price, n) \in Nat
  <2>1. /\ u.offer[i] = IF n = o.quantity THEN NoOffer ELSE [o EXCEPT !.quantity = o.quantity - n]
        /\ \A k \in OfferId : k # i => u.offer[k] = t.offer[k]
        /\ u.position = t.position
        /\ u.balance = [t.balance EXCEPT ![o.account] =
                           t.balance[o.account] + Cost(o.side, o.price, n)]
        /\ Cost(o.side, o.price, n) \in Nat
    BY ONLY <1>1, ReducedOffer, i \in OfferId, Zenon
  <2> QED BY <2>1, Zenon
<1>3. u \in Database
  BY <1>1, ReducedKeeps
<1> HIDE DEF u
<1>4. ~ Exists(u, i)
  BY <1>2 DEF Exists, NoOffer
<1>5. \A k \in OfferId : Exists(u, k) => k # i /\ u.offer[k] = t.offer[k]
  BY <1>2, <1>4
<1>6. Shrunk(u, t)
  BY <1>5 DEF Shrunk, Exists
<1>7. \A a \in Account : u.balance[a] >= t.balance[a]
  <2>1. t.balance \in [Account -> Int]
    BY <1>1 DEF Books
  <2> DEFINE paid == Cost(o.side, o.price, n)
  <2>2. u.balance = [t.balance EXCEPT ![o.account] = t.balance[o.account] + paid] /\ paid \in Nat
    BY <1>2
  <2> HIDE DEF paid
  <2> QED BY <1>1, <2>1, <2>2
<1> QED BY <1>2, <1>3, <1>5, <1>6, <1>7 DEF u, n

(***************************************************************************)
(* Steps between operations, and commits.                                  *)
(***************************************************************************)
(* Tables that agree but for messages. *)
LEMMA AgreeKeeps ==
    ASSUME NEW t, NEW u, Agree(u, t), NEW when
    PROVE  /\ Cleared(u) <=> Cleared(t)
           /\ Uncrossed(u, when) <=> Uncrossed(t, when)
           /\ Shrunk(u, t)
  BY DEF Agree, Cleared, Uncrossed, Shrunk, Exists

(* After a commit or a rollback, and outside an order. *)
LEMMA Settled ==
    ASSUME IInv', Agree(tx', db'), Cleared(tx'), Uncrossed(tx', now'), txNow' <= now',
           order'.quantity = 0, SweepInv'
    PROVE  TradeInv'
<1>1. Cleared(db') /\ Uncrossed(db', now')
  BY DEF Agree, Cleared, Uncrossed, Exists
<1>2. TablesInv'
  BY <1>1 DEF TablesInv
<1>3. \A a \in Account : db'.balance[a] \in Nat
  BY DEF IInv, TypeOK, Database
<1>4. SinceInv'
  <2>1. \A k \in OfferId : db'.offer[k].quantity \in Nat
    BY DEF IInv, TypeOK, Database, OfferRow
  <2> QED BY <1>3, <2>1 DEF SinceInv, Agree
<1>5. RowsInv'
  BY DEF RowsInv
<1> QED BY <1>2, <1>4, <1>5 DEF TradeInv

(* The tables of this transaction are committed, but for the messages. *)
LEMMA Committed ==
    ASSUME TypeOK, IInv', NEW t \in Database, NEW list \in Tally, tx' = Flushed(t, list), db' = tx',
           Cleared(t), Uncrossed(t, now), now' = now, txNow' \in {0, now},
           order'.quantity = 0, stage' # "daily"
    PROVE  TradeInv'
<1>1. t \in Books
  BY DatabaseBooks
<1>2. Agree(tx', t)
  BY <1>1, FlushedEffect DEF Agree
<1>3. Cleared(tx') /\ Uncrossed(tx', now')
  BY <1>2, AgreeKeeps
<1>4. txNow' <= now'
  BY DEF TypeOK
<1>5. SweepInv'
  BY DEF SweepInv
<1>6. Agree(tx', db')
  BY DEF Agree
<1> QED BY <1>3, <1>4, <1>5, <1>6, Settled

(* The transaction is gone. *)
LEMMA RolledBack ==
    ASSUME IInv, IInv', TradeInv, tx' = db, db' = db, txNow' \in {0, now}, now' = now,
           order'.quantity = 0, SweepInv'
    PROVE  TradeInv'
<1>1. Cleared(tx') /\ Uncrossed(tx', now')
  BY DEF TradeInv, TablesInv
<1>2. txNow' <= now'
  BY DEF IInv, TypeOK
<1>3. Agree(tx', db')
  BY DEF Agree
<1> QED BY <1>1, <1>2, <1>3, Settled

(* The transaction stays as it is. *)
LEMMA LeftAsItIs ==
    ASSUME IInv, IInv', TradeInv, UNCHANGED <<tx, db>>, order.quantity = 0, order'.quantity = 0,
           txNow' <= now', now <= now',
           stage = "pay" => stage' = "pay" /\ ruling' = ruling,
           SweepInv'
    PROVE  TradeInv'
<1>1. now \in Nat /\ now' \in Nat /\ tx \in Books /\ db \in Books
  BY TypedBooks DEF IInv, TypeOK
<1>2. TablesInv'
  BY <1>1, UncrossedStays DEF TradeInv, TablesInv
<1>3. SinceInv'
  BY DEF TradeInv, SinceInv
<1>4. RowsInv'
  BY DEF RowsInv
<1> QED BY <1>2, <1>3, <1>4 DEF TradeInv

(***************************************************************************)
(* Steps that are not part of an order.                                    *)
(***************************************************************************)
(* Steps between two operations. *)
LEMMA BetweenTrades ==
    ASSUME IInv, IInv', TradeInv,
           LookupUser \/ LookupNobody \/ Tick \/ ListOffers \/ Restart \/ PersistOther
    PROVE  TradeInv'
<1>1. CASE LookupUser
  <2>1. SweepInv'
    BY <1>1 DEF LookupUser, Quiet, sweeping, SweepInv
  <2> QED BY <1>1, <2>1, LeftAsItIs DEF LookupUser, Quiet, placing, sweeping, IInv, TypeOK
<1>2. CASE LookupNobody
  <2>1. SweepInv'
    BY <1>2 DEF LookupNobody, Quiet, sweeping, SweepInv
  <2> QED BY <1>2, <2>1, RolledBack DEF LookupNobody, Quiet, placing
<1>3. CASE Tick
  <2>1. SweepInv'
    BY <1>3 DEF Tick, Quiet, sweeping, SweepInv
  <2>2. UNCHANGED <<tx, db>> /\ txNow' = txNow /\ now' = now + 1 /\ order' = order
        /\ stage = "none" /\ order.quantity = 0
    BY <1>3 DEF Tick, Quiet, connection, placing
  <2>3. txNow' <= now' /\ now <= now'
    BY <2>2 DEF TradeInv, TablesInv, IInv, TypeOK
  <2> QED BY <2>1, <2>2, <2>3, LeftAsItIs
<1>4. CASE ListOffers
  <2>1. SweepInv'
    BY <1>4 DEF ListOffers, SweepInv
  <2>2. UNCHANGED <<tx, db, now, order>> /\ stage = "none" /\ order.quantity = 0
        /\ txNow' = Clock
    BY <1>4 DEF ListOffers, Quiet, placing, OpenTransaction
  <2>3. txNow' <= now' /\ now <= now'
    BY <2>2 DEF TradeInv, TablesInv, IInv, TypeOK, Clock
  <2> QED BY <2>1, <2>2, <2>3, LeftAsItIs
<1>5. CASE Restart
  <2>1. SweepInv'
    BY <1>5 DEF Restart, NoSweep, SweepInv
  <2> QED BY <1>5, <2>1, RolledBack, NoneTypes DEF Restart, ProcessEnds, NoOrder
<1>6. CASE PersistOther
  <2>1. /\ tx' = Flushed(tx, pending) /\ db' = tx' /\ txNow' = 0 /\ now' = now
        /\ order' = order /\ order.quantity = 0 /\ stage' = stage /\ stage = "none"
    BY <1>6 DEF PersistOther, FlushAndCommit, Quiet, placing, sweeping
  <2> QED BY <2>1, Committed DEF IInv, TypeOK, TradeInv, TablesInv
<1> QED BY <1>1, <1>2, <1>3, <1>4, <1>5, <1>6

(* resolve() begins. *)
LEMMA ResolveTrades ==
    ASSUME IInv, IInv', TradeInv, NEW c \in ContractType, NEW side \in Side, Resolve(c, side)
    PROVE  TradeInv'
<1>1. SweepInv'
  BY DEF Resolve, SweepInv
<1>2. UNCHANGED <<tx, db, now, order>> /\ stage = "none" /\ order.quantity = 0
      /\ txNow' = Clock
  BY DEF Resolve, Quiet, placing, OpenTransaction
<1>3. txNow' <= now' /\ now <= now'
  BY <1>2 DEF TradeInv, TablesInv, IInv, TypeOK, Clock
<1> QED BY <1>1, <1>2, <1>3, LeftAsItIs

(* The daily process begins with every overdue offer in its queue. *)
LEMMA DailyTrades ==
    ASSUME IInv, IInv', TradeInv, DailyCleanup
    PROVE  TradeInv'
<1>1. /\ tx' = db /\ db' = db /\ txNow' = now /\ now' = now /\ order' = order
      /\ order.quantity = 0 /\ queue' = CleanupQueue(db, now, {})
  BY DEF DailyCleanup, Quiet, placing
<1>2. SweepInv'
  <2> SUFFICES ASSUME NEW i \in OfferId, Exists(db, i), Overdue(db.offer[i])
               PROVE  \E g \in Group : i \in queue'[g]
    BY <1>1 DEF SweepInv, Overdue, Expired, Exists
  <2>1. CASE Matures[db.offer[i].ct] <= now
    <3>1. i \in queue'[2] /\ 2 \in Group
      BY <1>1, <2>1 DEF CleanupQueue, MaturedIds, Group
    <3> QED BY <3>1
  <2>2. CASE Expired(db.offer[i], now)
    <3>1. i \in queue'[3] /\ 3 \in Group
      BY <1>1, <2>2 DEF CleanupQueue, ExpiredIds, Group
    <3> QED BY <3>1
  <2> QED BY <2>1, <2>2 DEF Overdue
<1> QED BY <1>1, <1>2, RolledBack

(* cancel() commits a refund. *)
LEMMA CancelTrades ==
    ASSUME IInv, IInv', TradeInv, NEW i \in OfferId, Cancel(i)
    PROVE  TradeInv'
<1> DEFINE t == ReduceOffer(tx, i, tx.offer[i].quantity)
<1>1. tx \in Database /\ tx \in Books /\ pending \in Tally /\ Cleared(tx) /\ Uncrossed(tx, now)
  BY TypedBooks DEF IInv, TypeOK, TradeInv, TablesInv
<1>2. /\ t \in Database /\ t \in Books /\ Shrunk(t, tx) /\ t.position = tx.position
  BY <1>1, RefundShrinks, DatabaseBooks
<1>3. /\ tx' = Flushed(t, pending) /\ db' = tx' /\ txNow' = 0 /\ now' = now
      /\ order' = order /\ order.quantity = 0 /\ stage' = stage /\ stage = "none"
  BY DEF Cancel, FlushAndCommit, Quiet, placing, sweeping
<1> HIDE DEF t
<1>4. Cleared(t) /\ Uncrossed(t, now)
  BY <1>1, <1>2, ShrunkUncrossed DEF Cleared
<1> QED BY <1>1, <1>2, <1>3, <1>4, Committed DEF IInv

(* Taking an offer off a queue takes it and no other. *)
LEMMA DequeueTakes ==
    ASSUME queue \in [Group -> SUBSET OfferId], NEW i \in OfferId, IsQueued(i),
           queue' = Dequeue(i)
    PROVE  \A k \in OfferId \ {i}, g \in Group : k \in queue[g] => k \in queue'[g]
<1> DEFINE first == CHOOSE g \in Group : /\ queue[g] # {}
                                        /\ \A h \in Group : h < g => queue[h] = {}
<1>1. queue' = [queue EXCEPT ![first] = queue[first] \ {i}]
  BY DEF Dequeue
<1> HIDE DEF first
<1> QED BY <1>1

(* A sweep refunds one offer. *)
LEMMA SweepOneTrades ==
    ASSUME IInv, IInv', TradeInv, NEW i \in OfferId, SweepOne(i)
    PROVE  TradeInv'
<1> DEFINE t == ReduceOffer(tx, i, tx.offer[i].quantity)
<1>1. /\ tx \in Database /\ tx \in Books /\ db \in Database
      /\ Cleared(tx) /\ Uncrossed(tx, now)
      /\ queue \in [Group -> SUBSET OfferId]
  BY TypedBooks DEF IInv, TypeOK, TradeInv, TablesInv
<1>2. /\ t \in Database /\ t \in Books /\ Shrunk(t, tx) /\ t.position = tx.position
      /\ \A k \in OfferId : Exists(t, k) => k # i /\ t.offer[k] = tx.offer[k]
      /\ \A a \in Account : t.balance[a] >= tx.balance[a]
  BY <1>1, RefundShrinks, DatabaseBooks
<1>3. /\ tx' = t /\ UNCHANGED <<db, txNow, now, stage, ruling, order, rows>>
      /\ IsQueued(i) /\ queue' = Dequeue(i)
  BY DEF SweepOne, placing
<1>4. stage # "none" /\ order.quantity = 0
  BY <1>3 DEF IInv, StageInv, IsQueued, NoQueue
<1> HIDE DEF t
<1>5. TablesInv'
  <2>1. Cleared(t) /\ Uncrossed(t, now)
    BY <1>1, <1>2, ShrunkUncrossed DEF Cleared
  <2> QED BY <1>3, <2>1 DEF TradeInv, TablesInv
<1>6. SinceInv'
  <2>1. \A a \in Account : t.balance[a] >= db.balance[a]
    <3> TAKE a \in Account
    <3>1. t.balance[a] \in Nat /\ tx.balance[a] \in Nat /\ db.balance[a] \in Nat
      BY <1>1, <1>2 DEF Database
    <3>2. tx.balance[a] >= db.balance[a] /\ t.balance[a] >= tx.balance[a]
      BY <1>2, <1>4 DEF TradeInv, SinceInv
    <3> QED BY <3>1, <3>2
  <2>2. \A k \in OfferId : Exists(db, k) /\ Exists(t, k) /\ db.offer[k].aon
                              => t.offer[k] = db.offer[k]
    BY <1>2 DEF TradeInv, SinceInv, Exists
  <2>3. \A k \in OfferId : t.offer[k].quantity <= db.offer[k].quantity
    <3> TAKE k \in OfferId
    <3>1. /\ t.offer[k].quantity \in Nat /\ tx.offer[k].quantity \in Nat
          /\ db.offer[k].quantity \in Nat
      BY <1>1, <1>2 DEF Database, OfferRow
    <3>2. tx.offer[k].quantity <= db.offer[k].quantity
      BY DEF TradeInv, SinceInv
    <3> QED BY <1>2, <3>1, <3>2 DEF Exists
  <2> QED BY <1>2, <1>3, <1>4, <2>1, <2>2, <2>3 DEF TradeInv, SinceInv, Exists
<1>7. RowsInv'
  BY <1>3, <1>4 DEF RowsInv
<1>8. SweepInv'
  <2> SUFFICES ASSUME stage = "daily", NEW k \in OfferId, Exists(t, k), Overdue(t.offer[k])
               PROVE  \E g \in Group : k \in queue'[g]
    BY <1>3 DEF SweepInv, Overdue, Exists
  <2>1. k # i /\ t.offer[k] = tx.offer[k]
    BY <1>2
  <2>2. PICK g \in Group : k \in queue[g]
    BY <2>1 DEF TradeInv, SweepInv, Exists
  <2>3. k \in queue'[g]
    BY <1>1, <1>3, <2>1, <2>2, DequeueTakes
  <2> QED BY <2>3
<1> QED BY <1>5, <1>6, <1>7, <1>8 DEF TradeInv

(* A sweep that raises leaves what it has refunded, or ends the process. *)
LEMMA SweepRaisesTrades ==
    ASSUME IInv, IInv', TradeInv, NEW i \in OfferId, SweepRaises(i)
    PROVE  TradeInv'
<1>1. stage \notin {"none", "pay"} /\ order.quantity = 0
  BY DEF SweepRaises, IInv, StageInv, IsQueued, NoQueue
<1>2. /\ db' = db /\ now' = now /\ order' = order /\ stage' = "none"
      /\ \/ tx' = db /\ txNow' = 0
         \/ tx' = tx /\ txNow' = txNow
  BY DEF SweepRaises, NoSweep, ProcessEnds, HandlerRaises, connection, placing
<1>3. SweepInv'
  BY <1>2 DEF SweepInv
<1>4. txNow <= now /\ now <= now
  BY DEF TradeInv, TablesInv, IInv, TypeOK
<1> QED BY <1>1, <1>2, <1>3, <1>4, RolledBack, LeftAsItIs

(* The commits of sweeps and of resolve(). *)
LEMMA SweepCommitsTrades ==
    ASSUME IInv, IInv', TradeInv, SweepNext \/ SweepDone \/ ResolveDone \/ PayDone
    PROVE  TradeInv'
<1>1. stage # "none" /\ order.quantity = 0
  BY DEF IInv, StageInv, SweepNext, SweepDone, ResolveDone, PayDone
<1>2. /\ tx' = Flushed(tx, pending) /\ db' = tx' /\ txNow' \in {0, now}
      /\ now' = now /\ order' = order /\ stage' # "daily"
  <2>1. CASE SweepNext
    BY <2>1 DEF SweepNext, CommitThen, placing
  <2>2. CASE SweepDone
    BY <2>2 DEF SweepDone, FlushAndCommit, NoSweep, placing
  <2>3. CASE ResolveDone
    BY <2>3 DEF ResolveDone, FlushAndCommit, CommitThen, NoSweep, placing
  <2>4. CASE PayDone
    <3>1. ruling.total = 0
      BY <2>4, TotalIsZero DEF PayDone
    <3> QED BY <2>4, <3>1 DEF PayDone, CommitThen, placing
  <2> QED BY <2>1, <2>2, <2>3, <2>4
<1> QED BY <1>1, <1>2, Committed DEF IInv, TypeOK, TradeInv, TablesInv

(* A position is paid. *)
LEMMA PayOneTrades ==
    ASSUME IInv, IInv', TradeInv, NEW a \in Account, PayOne(a)
    PROVE  TradeInv'
<1> DEFINE t == PayPosition(tx, ruling.ct, a, ruling.side)
<1>1. /\ stage = "pay" /\ order.quantity = 0 /\ ruling.ct \in ContractType
      /\ ruling.side \in Side /\ tx \in Books /\ tx \in Database /\ db \in Database
  BY TypedBooks DEF PayOne, IInv, StageInv, TypeOK
<1>2. /\ tx' = t /\ UNCHANGED <<db, txNow, now, stage, order, rows>>
      /\ ruling'.ct = ruling.ct
  <2>1. ruling \in [ct : 0..NumTypes, side : Side, total : Int]
    BY DEF IInv, TypeOK
  <2> QED BY <2>1 DEF PayOne, placing
<1>3. /\ t.offer = tx.offer
      /\ \A b \in Account : t.balance[b] >= tx.balance[b]
      /\ \A d \in ContractType \ {ruling.ct} : t.position[d] = tx.position[d]
      /\ Cleared(tx) => Cleared(t)
  BY <1>1, PaidPosition
<1>4. t \in Database
  BY <1>2 DEF IInv, TypeOK
<1> HIDE DEF t
<1>5. TablesInv'
  BY <1>2, <1>3 DEF TradeInv, TablesInv, Uncrossed, Exists
<1>6. SinceInv'
  <2>1. \A b \in Account : t.balance[b] >= db.balance[b]
    <3> TAKE b \in Account
    <3>1. t.balance[b] \in Nat /\ tx.balance[b] \in Nat /\ db.balance[b] \in Nat
      BY <1>1, <1>4 DEF Database
    <3>2. tx.balance[b] >= db.balance[b] /\ t.balance[b] >= tx.balance[b]
      BY <1>1, <1>3 DEF TradeInv, SinceInv
    <3> QED BY <3>1, <3>2
  <2> QED BY <1>1, <1>2, <1>3, <2>1 DEF TradeInv, SinceInv, Exists
<1>7. RowsInv' /\ SweepInv'
  BY <1>1, <1>2 DEF RowsInv, SweepInv
<1> QED BY <1>5, <1>6, <1>7 DEF TradeInv

(***************************************************************************)
(* Orders.                                                                 *)
(***************************************************************************)
(* place() begins with the candidates of this moment. *)
LEMMA PlaceOrderTrades ==
    ASSUME IInv, IInv', TradeInv, NEW o \in Trades, PlaceOrder(o)
    PROVE  TradeInv'
<1>1. /\ UNCHANGED <<tx, db, now, stage, ruling>> /\ stage = "none" /\ order.quantity = 0
      /\ txNow' = Clock /\ order' = o /\ rows' = Candidates(tx, o, Clock)
      /\ orders' = orders + 1
  BY DEF PlaceOrder, Quiet, OpenTransaction, sweeping
<1>2. now \in Nat /\ txNow' <= now' /\ orders \in Nat
  BY <1>1, Sizes DEF TradeInv, TablesInv, IInv, TypeOK, Clock
<1>3. TablesInv'
  BY <1>1, <1>2 DEF TradeInv, TablesInv
<1>4. SinceInv'
  BY <1>1 DEF TradeInv, SinceInv
<1>5. RowsInv'
  <2>1. orders + 1 \in OfferId /\ (Exists(db, orders + 1) => orders + 1 <= orders)
    BY <1>1, <1>2, Sizes DEF IInv, TypeOK, IdsInv, OfferId
  <2>2. ~ Exists(db, orders + 1)
    BY <1>2, <2>1
  <2> QED BY <1>1, <2>2 DEF RowsInv, Suitable, Exists
<1>6. SweepInv'
  BY <1>1 DEF SweepInv
<1> QED BY <1>3, <1>4, <1>5, <1>6 DEF TradeInv

(* A candidate is passed over because the order cannot fill it. *)
LEMMA SkipRowTrades ==
    ASSUME IInv, IInv', TradeInv, NEW i \in OfferId, SkipRow(i)
    PROVE  TradeInv'
<1>1. /\ UNCHANGED <<tx, db, txNow, now, order, orders, stage, queue, ruling>>
      /\ rows' = rows \ {i} /\ Skips(tx.offer[i])
  BY DEF SkipRow, connection, sweeping
<1>2. RowsInv'
  BY <1>1 DEF TradeInv, RowsInv, Suitable, Skips, Exists
<1>3. TablesInv' /\ SinceInv' /\ SweepInv'
  BY <1>1 DEF TradeInv, TablesInv, SinceInv, SweepInv, Overdue, Exists
<1> QED BY <1>2, <1>3 DEF TradeInv

(* A refused statement takes the order back. *)
LEMMA FailsTrades ==
    ASSUME IInv, IInv', TradeInv, (\E i \in OfferId : FillFails(i)) \/ RestFails
    PROVE  TradeInv'
<1>1. /\ tx' = db /\ db' = db /\ txNow' = 0 /\ now' = now /\ order' = NoOffer
      /\ stage' = stage
  BY DEF FillFails, RestFails, StatementFails, NoOrder, sweeping
<1>2. order.quantity > 0
  BY DEF FillFails, RestFails, Fills
<1>3. stage = "none"
  BY <1>2 DEF IInv, StageInv, TypeOK, Stage
<1>4. SweepInv'
  BY <1>1, <1>3 DEF SweepInv
<1> QED BY <1>1, <1>4, RolledBack, NoneTypes

(* An order that has passed every candidate crosses none of the live       *)
(* offers, but for what it cannot fill.                                    *)
LEMMA RestUncrossed ==
    ASSUME IInv, TradeInv, order.quantity > 0, rows = {}, NEW t \in Books,
           t.offer = [tx.offer EXCEPT ![orders] = order], orders \in OfferId
    PROVE  Uncrossed(t, now)
<1>0. /\ tx \in Books /\ now \in Nat /\ txNow \in Nat /\ txNow <= now
      /\ order \in OfferRow /\ order.quantity \in Nat
  BY TypedBooks DEF IInv, TypeOK, TradeInv, TablesInv, OfferRow
<1>1. \A k \in OfferId : tx.offer[k] \in OfferRow /\ tx.offer[k].quantity \in Nat
  BY <1>0 DEF Books, OfferRow
<1>2. \A k \in OfferId : t.offer[k] = IF k = orders THEN order ELSE tx.offer[k]
  BY <1>0 DEF Books
<1>3. ASSUME NEW k \in OfferId, Exists(tx, k), tx.offer[k].ct = order.ct,
             Crosses(order, tx.offer[k]), ~ Expired(tx.offer[k], now)
      PROVE  Skips(tx.offer[k])
  <2>1. ~ Expired(tx.offer[k], txNow)
    BY <1>0, <1>1, <1>3, ExpiredStays
  <2>2. k \in Suitable
    BY <1>3, <2>1 DEF Suitable, Candidates
  <2> QED BY <2>2 DEF TradeInv, RowsInv
<1> SUFFICES ASSUME NEW i \in OfferId, NEW j \in OfferId,
                    Exists(t, i), Exists(t, j),
                    t.offer[i].side = FIXED, t.offer[j].side = UNFIXED,
                    t.offer[i].ct = t.offer[j].ct, t.offer[i].price >= t.offer[j].price,
                    ~ Expired(t.offer[i], now), ~ Expired(t.offer[j], now)
             PROVE  \/ t.offer[i].aon /\ t.offer[i].quantity > t.offer[j].quantity
                    \/ t.offer[j].aon /\ t.offer[j].quantity > t.offer[i].quantity
  BY DEF Uncrossed
<1>4. CASE i = orders /\ j = orders
  BY <1>2, <1>4 DEF FIXED, UNFIXED
<1>5. CASE i = orders /\ j # orders
  <2>1. t.offer[i] = order /\ t.offer[j] = tx.offer[j] /\ Exists(tx, j)
    BY <1>2, <1>5 DEF Exists
  <2>2. Crosses(order, tx.offer[j])
    BY <2>1, <1>0, <1>1 DEF Crosses, FIXED, UNFIXED, OfferRow, Price
  <2>3. Skips(tx.offer[j])
    BY <1>3, <2>1, <2>2
  <2> QED BY <1>0, <1>1, <2>1, <2>3 DEF Skips
<1>6. CASE i # orders /\ j = orders
  <2>1. t.offer[j] = order /\ t.offer[i] = tx.offer[i] /\ Exists(tx, i)
    BY <1>2, <1>6 DEF Exists
  <2>2. Crosses(order, tx.offer[i])
    BY <2>1 DEF Crosses, FIXED, UNFIXED
  <2>3. Skips(tx.offer[i])
    BY <1>3, <2>1, <2>2
  <2> QED BY <1>0, <1>1, <2>1, <2>3 DEF Skips
<1>7. CASE i # orders /\ j # orders
  <2>1. t.offer[j] = tx.offer[j] /\ t.offer[i] = tx.offer[i]
    BY <1>2, <1>7
  <2> QED BY <2>1 DEF TradeInv, TablesInv, Uncrossed, Exists
<1> QED BY <1>4, <1>5, <1>6, <1>7

(* What is left of an order rests. *)
LEMMA RestOrderTrades ==
    ASSUME IInv, IInv', TradeInv, RestOrder
    PROVE  TradeInv'
<1> DEFINE t == MakeOffer(tx, orders, order)
<1>1. /\ order \in OfferRow /\ order.quantity > 0 /\ tx \in Database /\ tx \in Books
      /\ pending \in Tally /\ stage = "none" /\ rows = {}
      /\ orders \in 0..MaxOrders /\ orders > 0 /\ ~ Exists(tx, orders)
      /\ FlushAndCommit(t) /\ NoOrder /\ UNCHANGED <<now, orders, sweeping, raised>>
  BY TypedBooks DEF RestOrder, IInv, TypeOK, StageInv, IdsInv
<1>2. orders \in OfferId /\ tx.offer[orders].quantity = 0
  <2>1. orders \in OfferId
    BY <1>1, TablesAssumption DEF OfferId
  <2>2. tx.offer[orders].quantity \in Nat
    BY <1>1, <2>1 DEF Database, OfferRow
  <2> QED BY <1>1, <2>1, <2>2 DEF Exists
<1>3. /\ t \in Books /\ t.position = tx.position
      /\ t.offer = [tx.offer EXCEPT ![orders] = order]
  BY <1>1, <1>2, MakeOfferEffect, MadeOffer
<1>4. t \in Database
  <2>1. tx' = Flushed(t, pending) /\ tx' \in Database
    BY <1>1 DEF FlushAndCommit, IInv, TypeOK
  <2>2. Flushed(t, pending).balance = t.balance
    BY <1>1, <1>3, FlushedEffect
  <2>3. tx'.balance \in [Account -> Nat]
    BY <2>1, DatabaseBooks
  <2> HIDE DEF t
  <2> QED BY <1>3, <2>1, <2>2, <2>3, DatabaseBooks
<1>5. /\ tx' = Flushed(t, pending) /\ db' = tx' /\ txNow' = 0 /\ now' = now
      /\ order' = NoOffer /\ stage' = "none"
  BY <1>1 DEF FlushAndCommit, NoOrder, sweeping
<1> HIDE DEF t
<1>6. Cleared(t) /\ Uncrossed(t, now)
  <2>1. Uncrossed(t, now)
    BY <1>1, <1>2, <1>3, RestUncrossed
  <2> QED BY <1>3, <2>1 DEF TradeInv, TablesInv, Cleared
<1> QED BY <1>1, <1>4, <1>5, <1>6, Committed, NoneTypes DEF IInv

(* A better price for one side is a worse one for the other. *)
LEMMA CostMonotone ==
    ASSUME NEW p \in Price, NEW q \in Price, p <= q, NEW n \in Nat
    PROVE  /\ Cost(FIXED, p, n) <= Cost(FIXED, q, n)
           /\ Cost(UNFIXED, q, n) <= Cost(UNFIXED, p, n)
<1>1. p \in Nat /\ q \in Nat /\ q - p \in Nat /\ Unit - p \in Nat /\ Unit - q \in Nat
  BY DEF Price, Unit
<1> DEFINE d == q - p
           y == Unit - q
<1>2. q = p + d /\ Unit - p = y + d /\ d \in Nat /\ y \in Nat
  BY <1>1 DEF Unit
<1> HIDE DEF d
<1>3. p * n \in Nat /\ d * n \in Nat /\ y * n \in Nat
  BY <1>1, <1>2
<1>4. (p + d) * n = p * n + d * n /\ (y + d) * n = y * n + d * n
  BY <1>1, <1>2
<1>5. p * n <= q * n
  BY <1>2, <1>3, <1>4
<1>6. (Unit - q) * n <= (Unit - p) * n
  BY <1>2, <1>3, <1>4
<1> QED BY <1>5, <1>6 DEF Cost, FIXED, UNFIXED

(* Filling a candidate: its units leave it, and its owner is not charged   *)
(* more than they had set aside.                                           *)
LEMMA FillEffect ==
    ASSUME IInv, TradeInv, NEW i \in OfferId, Fills(i),
           Refused(i, ReduceOffer(tx, i, ContractSize(i))) = "none"
    PROVE  LET n == ContractSize(i)
               v == Contracted(i, ReduceOffer(tx, i, n))
               p == tx.offer[i]
           IN  /\ v \in Database
               /\ v.offer[i] = IF n = p.quantity THEN NoOffer
                               ELSE [p EXCEPT !.quantity = p.quantity - n]
               /\ \A k \in OfferId : k # i => v.offer[k] = tx.offer[k]
               /\ Cleared(v)
               /\ \A a \in Account \ {order.account} : v.balance[a] >= tx.balance[a]
<1> DEFINE n == ContractSize(i)
           p == tx.offer[i]
           t == ReduceOffer(tx, i, n)
           f == FixedHolder(i)
           u == UnfixedHolder(i)
           v == MakeContract(t, order.ct, f, u, order.price, n)
<1>1. /\ order \in OfferRow /\ order.quantity > 0 /\ tx \in Database /\ tx \in Books
      /\ i \in rows /\ order.ct \in ContractType /\ order.price \in Price
      /\ f \in Account /\ u \in Account
      /\ n \in Nat /\ n <= p.quantity /\ p \in OfferRow
  BY FillFacts, TypedBooks DEF IInv, Books
<1>2. Crosses(order, p)
  BY <1>1 DEF TradeInv, RowsInv, Suitable, Candidates
<1>3. /\ t \in Database /\ t \in Books
      /\ t.offer[i] = IF n = p.quantity THEN NoOffer
                      ELSE [p EXCEPT !.quantity = p.quantity - n]
      /\ \A k \in OfferId : k # i => t.offer[k] = tx.offer[k]
      /\ t.position = tx.position
      /\ t.balance = [tx.balance EXCEPT ![p.account] =
                         tx.balance[p.account] + Cost(p.side, p.price, n)]
      /\ Cost(p.side, p.price, n) \in Nat
  BY <1>1, ReducedOffer, ReducedKeeps, DatabaseBooks
<1> HIDE DEF t
<1>4. v = Contracted(i, t)
  BY DEF Contracted
<1>5. v \in Database /\ v.offer = t.offer
  BY <1>3, <1>4, ContractedKeeps DEF t
<1> HIDE DEF n
<1>6. Cleared(t)
  BY <1>3 DEF TradeInv, TablesInv, Cleared
<1>7. /\ \A b \in Account \ {f, u} : v.balance[b] = t.balance[b]
      /\ f # u => v.balance[f] >= t.balance[f] - Cost(FIXED, order.price, n)
      /\ f # u => v.balance[u] >= t.balance[u] - Cost(UNFIXED, order.price, n)
      /\ Cleared(v)
  <2> DEFINE c == order.ct
             price == order.price
  <2>1. /\ t \in Books /\ c \in ContractType /\ f \in Account /\ u \in Account
        /\ price \in Price /\ n \in Nat
    BY <1>1, <1>3
  <2> HIDE DEF c, price, f, u
  <2>2. \A b \in Account \ {f, u} :
           MakeContract(t, c, f, u, price, n).balance[b] = t.balance[b]
    BY <2>1, MakeContractEffect
  <2> DEFINE w == MakeContract(t, c, f, u, price, n)
  <2>3. /\ f # u => w.balance[f] >= t.balance[f] - Cost(FIXED, price, n)
        /\ f # u => w.balance[u] >= t.balance[u] - Cost(UNFIXED, price, n)
        /\ Cleared(t) => Cleared(w)
    BY <2>1, ContractCharges
  <2> QED BY <1>6, <2>2, <2>3 DEF c, price
<1> HIDE DEF v
<1>8. ASSUME NEW a \in Account \ {order.account}
      PROVE  v.balance[a] >= tx.balance[a]
  <2> DEFINE paid == Cost(p.side, p.price, n)
  <2>1. /\ tx.balance \in [Account -> Nat] /\ v.balance[a] \in Nat /\ t.balance[a] \in Nat
        /\ paid \in Nat
    BY <1>1, <1>3, <1>5 DEF Database
  <2>2. t.balance[a] = IF a = p.account THEN tx.balance[a] + paid ELSE tx.balance[a]
    BY <1>3, <2>1
  <2>3. CASE a \notin {f, u}
    <3>1. v.balance[a] = t.balance[a]
      BY <1>7, <2>3
    <3> HIDE DEF paid
    <3> QED BY <2>1, <2>2, <3>1
  <2>4. CASE a \in {f, u} /\ order.side = FIXED
    <3>1. f = order.account /\ u = p.account /\ a = u /\ f # u
      BY <2>4 DEF FixedHolder, UnfixedHolder
    <3>2. p.side = UNFIXED /\ p.price <= order.price /\ p.price \in Price
      BY <1>1, <1>2, <2>4 DEF Crosses, OfferRow
    <3> DEFINE charge == Cost(UNFIXED, order.price, n)
    <3>3. charge <= paid /\ charge \in Nat
      BY <1>1, <3>2, CostMonotone, CostAdds
    <3>4. v.balance[a] >= t.balance[a] - charge
      BY <1>7, <3>1
    <3> HIDE DEF paid, charge
    <3> QED BY <2>1, <2>2, <3>1, <3>3, <3>4
  <2>5. CASE a \in {f, u} /\ order.side # FIXED
    <3>1. u = order.account /\ f = p.account /\ a = f /\ f # u
      BY <2>5 DEF FixedHolder, UnfixedHolder
    <3>2. p.side = FIXED /\ order.price <= p.price /\ p.price \in Price
          /\ order.price \in Nat /\ p.price \in Nat
      BY <1>1, <1>2, <2>5 DEF Crosses, OfferRow, Price
    <3> DEFINE charge == Cost(FIXED, order.price, n)
    <3>3. charge <= paid /\ charge \in Nat
      BY <1>1, <3>2, CostMonotone, CostAdds
    <3>4. v.balance[a] >= t.balance[a] - charge
      BY <1>7, <3>1
    <3> HIDE DEF paid, charge
    <3> QED BY <2>1, <2>2, <3>1, <3>3, <3>4
  <2> QED BY <2>3, <2>4, <2>5
<1> QED BY <1>3, <1>4, <1>5, <1>7, <1>8 DEF t, n

(* A fill leaves an uncrossed book, and the candidates it has not come to. *)
LEMMA FillRowTrades ==
    ASSUME IInv, IInv', TradeInv, NEW i \in OfferId, FillRow(i)
    PROVE  TradeInv'
<1> DEFINE n == ContractSize(i)
           p == tx.offer[i]
           v == Contracted(i, ReduceOffer(tx, i, n))
           list == Note(Note(pending, order.ct, FixedHolder(i), n),
                        order.ct, UnfixedHolder(i), -n)
<1>1. Fills(i) /\ UNCHANGED <<now, orders, sweeping>>
  BY DEF FillRow
<1>2. /\ stage = "none" /\ order \in OfferRow /\ order.quantity > 0
      /\ tx \in Database /\ tx \in Books /\ pending \in Tally /\ db \in Database
      /\ i \in rows /\ order.ct \in ContractType /\ order.quantity \in Nat
      /\ FixedHolder(i) \in Account /\ UnfixedHolder(i) \in Account
      /\ n \in Nat /\ n > 0 /\ n <= p.quantity /\ n <= order.quantity
      /\ Reducible(tx, i, n) /\ p \in OfferRow /\ p.quantity \in Nat
  BY <1>1, FillFacts, TypedBooks DEF IInv, TypeOK, Books, OfferRow
<1>3. Refused(i, ReduceOffer(tx, i, n)) = "none" /\ FillWith(i, v)
  BY <1>2 DEF FillRow
<1>4. /\ v \in Database
      /\ v.offer[i] = IF n = p.quantity THEN NoOffer
                      ELSE [p EXCEPT !.quantity = p.quantity - n]
      /\ \A k \in OfferId : k # i => v.offer[k] = tx.offer[k]
      /\ Cleared(v)
      /\ \A a \in Account \ {order.account} : v.balance[a] >= tx.balance[a]
  BY <1>1, <1>3, FillEffect
<1> HIDE DEF v
<1>5. Shrunk(v, tx) /\ (p.aon => ~ Exists(v, i)) /\ (n = p.quantity => ~ Exists(v, i))
  <2>1. CASE n = p.quantity
    <3>1. ~ Exists(v, i)
      BY <1>4, <2>1 DEF Exists, NoOffer
    <3> QED BY <1>4, <3>1 DEF Shrunk, Exists
  <2>2. CASE n # p.quantity
    <3>1. ~ p.aon /\ Exists(tx, i)
      BY <1>2, <2>2 DEF Reducible
    <3>2. v.offer[i] = [p EXCEPT !.quantity = p.quantity - n]
      BY <1>4, <2>2
    <3>3. v.offer[i].quantity = p.quantity - n /\ p.quantity - n < p.quantity
      BY <1>2, <3>2 DEF OfferRow
    <3>4. v.offer[i] = [p EXCEPT !.quantity = v.offer[i].quantity]
      BY <3>2, <3>3
    <3> QED BY <1>4, <2>2, <3>1, <3>3, <3>4 DEF Shrunk, Exists
  <2> QED BY <2>1, <2>2
<1>6. Uncrossed(v, now)
  <2>1. v \in Books
    BY <1>4, DatabaseBooks
  <2> QED BY <1>2, <1>5, <2>1, ShrunkUncrossed DEF TradeInv, TablesInv
<1>7. CASE n = order.quantity
  <2>1. /\ tx' = Flushed(v, list) /\ db' = tx' /\ txNow' = 0 /\ order' = NoOffer
    BY <1>3, <1>7 DEF FillWith, NoOrder
  <2>2. list \in Tally
    <3>1. -n \in Int /\ n \in Int
      BY <1>2
    <3>2. Note(pending, order.ct, FixedHolder(i), n) \in Tally
      BY <1>2, <3>1, NoteType
    <3> QED BY <1>2, <3>1, <3>2, NoteType
  <2> HIDE DEF list
  <2> QED BY <1>1, <1>2, <1>4, <1>6, <2>1, <2>2, Committed, NoneTypes DEF IInv, sweeping
<1>8. CASE n # order.quantity
  <2>1. /\ tx' = v /\ UNCHANGED <<db, txNow, now, stage, orders>>
        /\ order' = [order EXCEPT !.quantity = order.quantity - n]
        /\ rows' = rows \ {i}
    BY <1>1, <1>3, <1>8 DEF FillWith, sweeping
  <2>2. /\ order'.quantity = order.quantity - n /\ order'.quantity > 0
        /\ order'.account = order.account /\ order'.ct = order.ct /\ order'.side = order.side
        /\ order'.price = order.price /\ order'.aon = order.aon
    BY <1>2, <1>8, <2>1 DEF OfferRow
  <2>3. n = p.quantity /\ ~ Exists(v, i)
    BY <1>2, <1>5, <1>8 DEF ContractSize
  <2>4. ~ order.aon
    BY <1>1, <1>2, <1>8, <2>3 DEF Fills, Skips
  <2>5. TablesInv'
    BY <1>4, <1>6, <2>1 DEF TradeInv, TablesInv
  <2>6. SinceInv'
    <3>1. ASSUME NEW a \in Account \ {order.account}
          PROVE  v.balance[a] >= db.balance[a]
      <4>1. v.balance[a] \in Nat /\ tx.balance[a] \in Nat /\ db.balance[a] \in Nat
        BY <1>2, <1>4 DEF Database
      <4>2. tx.balance[a] >= db.balance[a] /\ v.balance[a] >= tx.balance[a]
        BY <1>4 DEF TradeInv, SinceInv
      <4> QED BY <4>1, <4>2
    <3>2. \A k \in OfferId : Exists(db, k) /\ Exists(v, k) /\ db.offer[k].aon
                                => v.offer[k] = db.offer[k]
      <4> SUFFICES ASSUME NEW k \in OfferId, Exists(db, k), Exists(v, k), db.offer[k].aon
                   PROVE  v.offer[k] = db.offer[k]
        OBVIOUS
      <4>1. k # i /\ v.offer[k] = tx.offer[k]
        BY <1>4, <2>3
      <4> QED BY <4>1 DEF TradeInv, SinceInv, Exists
    <3>3. order'.quantity # 0
      BY <1>2, <2>2
    <3>4. \A k \in OfferId : v.offer[k].quantity <= db.offer[k].quantity
      <4> TAKE k \in OfferId
      <4>1. /\ v.offer[k].quantity \in Nat /\ tx.offer[k].quantity \in Nat
            /\ db.offer[k].quantity \in Nat
        BY <1>2, <1>4 DEF Database, OfferRow
      <4>2. tx.offer[k].quantity <= db.offer[k].quantity
        BY DEF TradeInv, SinceInv
      <4> QED BY <1>4, <2>3, <4>1, <4>2 DEF Exists
    <3> QED BY <2>1, <2>2, <3>1, <3>2, <3>3, <3>4 DEF SinceInv, Exists
  <2>7. RowsInv'
    <3>1. Suitable' = Suitable \ {i}
      <4>1. \A k \in OfferId : Crosses(order', tx.offer[k]) <=> Crosses(order, tx.offer[k])
        BY <2>2 DEF Crosses
      <4> QED BY <1>4, <2>1, <2>2, <2>3, <4>1 DEF Suitable, Candidates, Exists
    <3>2. ASSUME NEW k \in Suitable \ {i}, k \notin rows
          PROVE  Skips(tx.offer[k])'
      <4>1. /\ k \in OfferId /\ tx.offer[k] \in OfferRow /\ v.offer[k] = tx.offer[k]
        BY <1>2, <1>4 DEF Suitable, Candidates, Database
      <4>2. Skips(tx.offer[k])
        BY <1>2, <3>2 DEF TradeInv, RowsInv
      <4>3. tx.offer[k].aon /\ tx.offer[k].quantity > order.quantity
        BY <2>4, <4>2 DEF Skips
      <4>4. tx.offer[k].quantity > order.quantity - n
        BY <1>2, <4>1, <4>3 DEF OfferRow
      <4> QED BY <2>1, <2>2, <4>1, <4>3, <4>4 DEF Skips
    <3> QED BY <1>2, <2>1, <3>1, <3>2 DEF TradeInv, RowsInv, Exists
  <2>8. SweepInv'
    BY <1>2, <2>1 DEF SweepInv
  <2> QED BY <2>5, <2>6, <2>7, <2>8 DEF TradeInv
<1> QED BY <1>7, <1>8

(***************************************************************************)
(* The invariant.                                                          *)
(***************************************************************************)
(* An empty market has traded nothing. *)
LEMMA InitTrades == ASSUME Init PROVE TradeInv
<1>1. \A i \in OfferId : ~ Exists(EmptyBook, i)
  BY EmptyBookEffect
<1>2. /\ db = EmptyBook /\ tx = EmptyBook /\ now = 0 /\ txNow = 0 /\ stage = "none"
      /\ order.quantity = 0 /\ order = NoOffer
  BY NoneTypes DEF Init
<1>3. Cleared(EmptyBook)
  BY DEF Cleared, EmptyBook
<1>4. TablesInv
  BY <1>1, <1>2, <1>3 DEF TablesInv, Uncrossed
<1>5. SinceInv
  <2>1. \A a \in Account : EmptyBook.balance[a] \in Nat
    BY EmptyBookEffect DEF Database
  <2>2. \A i \in OfferId : EmptyBook.offer[i].quantity \in Nat
    BY EmptyBookEffect DEF Database, OfferRow
  <2> QED BY <1>1, <1>2, <2>1, <2>2 DEF SinceInv
<1>6. RowsInv /\ SweepInv
  BY <1>2 DEF RowsInv, SweepInv
<1> QED BY <1>4, <1>5, <1>6 DEF TradeInv

(* A stuttering step changes nothing. *)
LEMMA StutterTrades == ASSUME TradeInv, UNCHANGED vars PROVE TradeInv'
<1>1. TablesInv' /\ SinceInv' /\ SweepInv'
  BY DEF vars, TradeInv, TablesInv, SinceInv, SweepInv, Overdue, Exists
<1>2. RowsInv'
  BY DEF vars, TradeInv, RowsInv, Suitable, Skips, Exists
<1> QED BY <1>1, <1>2 DEF TradeInv

(* Every step keeps it, one case per disjunct of Next. *)
LEMMA StepTrades == ASSUME IInv, TradeInv, [Next]_vars PROVE TradeInv'
<1>0. IInv'
  BY StepKeeps
<1>1. CASE LookupUser \/ LookupNobody \/ Tick \/ ListOffers \/ Restart \/ PersistOther
  BY <1>0, <1>1, BetweenTrades
<1>2. CASE PlaceAny BY <1>0, <1>2, PlaceOrderTrades DEF PlaceAny
<1>3. CASE CancelAny BY <1>0, <1>3, CancelTrades DEF CancelAny
<1>4. CASE ResolveAny BY <1>0, <1>4, ResolveTrades DEF ResolveAny
<1>5. CASE DailyCleanup BY <1>0, <1>5, DailyTrades
<1>6. CASE MatchRow
  <2>1. PICK i \in OfferId : SkipRow(i) \/ FillRow(i) \/ FillFails(i)
    BY <1>6 DEF MatchRow
  <2> QED BY <1>0, <2>1, SkipRowTrades, FillRowTrades, FailsTrades
<1>7. CASE RestOrder BY <1>0, <1>7, RestOrderTrades
<1>8. CASE RestFails BY <1>0, <1>8, FailsTrades
<1>9. CASE Sweep
  <2>1. PICK i \in OfferId : SweepOne(i) \/ SweepRaises(i)
    BY <1>9 DEF Sweep
  <2> QED BY <1>0, <2>1, SweepOneTrades, SweepRaisesTrades
<1>10. CASE SweepNext \/ SweepDone \/ ResolveDone \/ PayDone
  BY <1>0, <1>10, SweepCommitsTrades
<1>11. CASE Pay BY <1>0, <1>11, PayOneTrades DEF Pay
<1>12. CASE UNCHANGED vars BY <1>12, StutterTrades
<1> QED BY <1>1, <1>2, <1>3, <1>4, <1>5, <1>6, <1>7, <1>8, <1>9, <1>10, <1>11,
           <1>12 DEF Next

(* The strengthening holds in every reachable state. *)
THEOREM TradeInvariance == Spec => [](IInv /\ TradeInv)
<1>1. Init => TradeInv
  BY InitTrades
<1>2. IInv /\ TradeInv /\ [Next]_vars => TradeInv'
  BY StepTrades
<1> QED BY <1>1, <1>2, Invariance, PTL DEF Spec

(* The committed book never holds two live offers that place() would have  *)
(* matched, however many orders, failures and restarts came before.        *)
THEOREM UncrossedBook == Spec => []BookUncrossed
<1>1. TradeInv => BookUncrossed
  BY DEF TradeInv, TablesInv, Uncrossed, BookUncrossed
<1> QED BY <1>1, TradeInvariance, PTL

(***************************************************************************)
(* What a step may do.                                                     *)
(***************************************************************************)
(* A step that belongs to an order. *)
LEMMA OrderSteps ==
    ASSUME IInv, [Next]_vars, order.quantity > 0
    PROVE  \/ \E i \in OfferId : SkipRow(i) \/ FillRow(i) \/ FillFails(i)
           \/ RestOrder \/ RestFails \/ Restart \/ UNCHANGED vars
<1>1. stage = "none"
  BY DEF IInv, StageInv, TypeOK, Stage
<1>2. ~ Quiet /\ queue = NoQueue /\ \A i \in OfferId : ~ IsQueued(i)
  BY <1>1 DEF Quiet, IInv, StageInv, IsQueued, NoQueue, TypeOK, OfferRow
<1>3. /\ ~ LookupUser /\ ~ LookupNobody /\ ~ PersistOther /\ ~ PlaceAny /\ ~ CancelAny
      /\ ~ ListOffers /\ ~ ResolveAny /\ ~ DailyCleanup /\ ~ Tick
  BY <1>2 DEF LookupUser, LookupNobody, PersistOther, PlaceAny, PlaceOrder, CancelAny, Cancel,
     ListOffers, ResolveAny, Resolve, DailyCleanup, Tick
<1>4. ~ Sweep /\ ~ SweepNext /\ ~ SweepDone /\ ~ ResolveDone /\ ~ Pay /\ ~ PayDone
  BY <1>1, <1>2 DEF Sweep, SweepOne, SweepRaises, SweepNext, SweepDone, ResolveDone,
     Pay, PayOne, PayDone
<1> QED BY <1>3, <1>4 DEF Next, MatchRow

(* What FillRow and RestOrder do to the tables. *)
LEMMA FillRowTables ==
    ASSUME IInv, TradeInv, NEW i \in OfferId, FillRow(i)
    PROVE  LET n == ContractSize(i)
           IN  /\ Fills(i) /\ n \in Nat /\ n <= tx.offer[i].quantity
               /\ n # tx.offer[i].quantity => ~ tx.offer[i].aon
               /\ tx'.offer[i] = IF n = tx.offer[i].quantity THEN NoOffer
                                 ELSE [tx.offer[i] EXCEPT !.quantity = tx.offer[i].quantity - n]
               /\ \A k \in OfferId : k # i => tx'.offer[k] = tx.offer[k]
               /\ \A a \in Account \ {order.account} : tx'.balance[a] >= tx.balance[a]
               /\ n = order.quantity => db' = tx' /\ order' = NoOffer
               /\ n # order.quantity => db' = db
<1> DEFINE n == ContractSize(i)
           v == Contracted(i, ReduceOffer(tx, i, n))
           list == Note(Note(pending, order.ct, FixedHolder(i), n),
                        order.ct, UnfixedHolder(i), -n)
<1>1. Fills(i)
  BY DEF FillRow
<1>2. /\ pending \in Tally /\ order.ct \in ContractType
      /\ FixedHolder(i) \in Account /\ UnfixedHolder(i) \in Account
      /\ n \in Nat /\ n <= tx.offer[i].quantity /\ Reducible(tx, i, n)
  BY <1>1, FillFacts
<1>3. Refused(i, ReduceOffer(tx, i, n)) = "none" /\ FillWith(i, v)
  BY <1>2 DEF FillRow
<1>4. /\ v \in Database
      /\ v.offer[i] = IF n = tx.offer[i].quantity THEN NoOffer
                      ELSE [tx.offer[i] EXCEPT !.quantity = tx.offer[i].quantity - n]
      /\ \A k \in OfferId : k # i => v.offer[k] = tx.offer[k]
      /\ \A a \in Account \ {order.account} : v.balance[a] >= tx.balance[a]
  BY <1>1, <1>3, FillEffect
<1> HIDE DEF v
<1>5. list \in Tally
  <2>1. -n \in Int /\ n \in Int
    BY <1>2
  <2>2. Note(pending, order.ct, FixedHolder(i), n) \in Tally
    BY <1>2, <2>1, NoteType
  <2> QED BY <1>2, <2>1, <2>2, NoteType
<1>6. /\ tx'.offer = v.offer /\ tx'.balance = v.balance
      /\ n = order.quantity => db' = tx' /\ order' = NoOffer
      /\ n # order.quantity => db' = db
  <2>1. CASE n = order.quantity
    <3>1. tx' = Flushed(v, list) /\ db' = tx' /\ order' = NoOffer
      BY <1>3, <2>1 DEF FillWith, NoOrder
    <3> HIDE DEF list
    <3>2. v \in Books
      BY <1>4, DatabaseBooks
    <3> QED BY <1>5, <2>1, <3>1, <3>2, FlushedEffect
  <2>2. CASE n # order.quantity
    BY <1>3, <2>2 DEF FillWith
  <2> QED BY <2>1, <2>2
<1>7. n # tx.offer[i].quantity => ~ tx.offer[i].aon
  BY <1>2 DEF Reducible
<1> QED BY <1>1, <1>2, <1>4, <1>6, <1>7

(* The order's rest takes a fresh id. *)
LEMMA RestOrderTables ==
    ASSUME IInv, RestOrder
    PROVE  /\ orders \in OfferId /\ ~ Exists(tx, orders)
           /\ tx'.offer = [tx.offer EXCEPT ![orders] = order]
           /\ \A a \in Account \ {order.account} : tx'.balance[a] = tx.balance[a]
           /\ db' = tx' /\ order' = NoOffer
<1> DEFINE t == MakeOffer(tx, orders, order)
<1>1. /\ order \in OfferRow /\ tx \in Books /\ tx \in Database /\ pending \in Tally
      /\ orders \in 0..MaxOrders /\ orders > 0 /\ ~ Exists(tx, orders)
      /\ FlushAndCommit(t) /\ NoOrder
  BY TypedBooks DEF RestOrder, IInv, TypeOK, IdsInv
<1>2. orders \in OfferId /\ tx.offer[orders].quantity = 0
  <2>1. orders \in OfferId
    BY <1>1, TablesAssumption DEF OfferId
  <2>2. tx.offer[orders].quantity \in Nat
    BY <1>1, <2>1 DEF Database, OfferRow
  <2> QED BY <1>1, <2>1, <2>2 DEF Exists
<1>3. /\ t \in Books /\ t.offer = [tx.offer EXCEPT ![orders] = order]
      /\ \A a \in Account : a # order.account => t.balance[a] = tx.balance[a]
  BY <1>1, <1>2, MakeOfferEffect, MadeOffer
<1>4. tx' = Flushed(t, pending) /\ db' = tx' /\ order' = NoOffer
  BY <1>1 DEF FlushAndCommit, NoOrder
<1> HIDE DEF t
<1>5. tx'.offer = t.offer /\ tx'.balance = t.balance
  BY <1>1, <1>3, <1>4, FlushedEffect
<1> QED BY <1>1, <1>2, <1>3, <1>4, <1>5

(* Outside an order a commit only refunds whole offers, and within a sweep *)
(* it commits what the transaction holds.                                  *)
LEMMA OtherCommits ==
    ASSUME IInv, [Next]_vars, order.quantity = 0
    PROVE  \/ db' = db
           \/ /\ Agree(db', tx)
              /\ stage = "none" \/ SweepNext \/ SweepDone \/ ResolveDone \/ PayDone
           \/ /\ stage = "none"
              /\ \A k \in OfferId : Exists(db', k) => db'.offer[k] = tx.offer[k]
<1>1. tx \in Database /\ tx \in Books /\ pending \in Tally
  BY TypedBooks DEF IInv, TypeOK
<1>2. tx' = Flushed(tx, pending) => Agree(tx', tx)
  BY <1>1, FlushedEffect DEF Agree
<1>3. CASE PersistOther
  BY <1>2, <1>3 DEF PersistOther, Quiet, FlushAndCommit
<1>4. ASSUME NEW i \in OfferId, Cancel(i)
      PROVE  /\ stage = "none"
             /\ \A k \in OfferId : Exists(db', k) => db'.offer[k] = tx.offer[k]
  <2> DEFINE t == ReduceOffer(tx, i, tx.offer[i].quantity)
  <2>1. /\ t \in Books
        /\ \A k \in OfferId : Exists(t, k) => t.offer[k] = tx.offer[k]
    BY <1>1, RefundShrinks, DatabaseBooks
  <2>2. tx' = Flushed(t, pending) /\ db' = tx' /\ stage = "none"
    BY <1>4 DEF Cancel, FlushAndCommit, Quiet
  <2> HIDE DEF t
  <2>3. tx'.offer = t.offer
    BY <1>1, <2>1, <2>2, FlushedEffect
  <2> QED BY <2>1, <2>2, <2>3 DEF Exists
<1>5. CASE SweepNext
  BY <1>2, <1>5 DEF SweepNext, CommitThen
<1>6. CASE SweepDone
  BY <1>2, <1>6 DEF SweepDone, FlushAndCommit
<1>7. CASE ResolveDone
  BY <1>2, <1>7 DEF ResolveDone, FlushAndCommit, CommitThen
<1>8. CASE PayDone
  <2>1. ruling.total = 0
    BY <1>8, TotalIsZero DEF PayDone
  <2> QED BY <1>2, <1>8, <2>1 DEF PayDone, CommitThen
<1>9. CASE LookupUser \/ LookupNobody \/ PlaceAny \/ ListOffers \/ ResolveAny \/ DailyCleanup
           \/ Sweep \/ Pay \/ Restart \/ Tick \/ UNCHANGED vars
  BY <1>9 DEF LookupUser, LookupNobody, PlaceAny, PlaceOrder, ListOffers, ResolveAny, Resolve,
     DailyCleanup, Sweep, SweepOne, SweepRaises, ProcessEnds, HandlerRaises, Pay, PayOne,
     Restart, Tick, vars
<1>10. ~ MatchRow /\ ~ RestOrder /\ ~ RestFails
  BY DEF MatchRow, SkipRow, FillRow, FillFails, Fills, RestOrder, RestFails
<1> QED BY <1>3, <1>4, <1>5, <1>6, <1>7, <1>8, <1>9, <1>10 DEF Next, CancelAny

(***************************************************************************)
(* The action properties.                                                  *)
(***************************************************************************)
(* A fill leaves no unit unfilled of an order that is all-or-nothing.      *)
LEMMA FillsWhole ==
    ASSUME IInv, NEW i \in OfferId, Fills(i), order.aon
    PROVE  ContractSize(i) = order.quantity
<1>1. order.quantity \in Nat /\ tx.offer[i].quantity \in Nat
  BY DEF IInv, TypeOK, Database, OfferRow
<1> QED BY <1>1 DEF Fills, Skips, ContractSize

(* All-or-nothing, for one step. *)
LEMMA WholeStep ==
    ASSUME IInv, TradeInv, [Next]_vars
    PROVE  /\ order.aon /\ order.quantity > 0 /\ order'.quantity > 0 => order' = order
           /\ \A i \in OfferId :
                 db.offer[i].aon /\ Exists(db, i) /\ Exists(db', i)
                 => db'.offer[i] = db.offer[i]
<1>1. ASSUME order.aon, order.quantity > 0, order'.quantity > 0
      PROVE  order' = order
  <2>1. ASSUME NEW i \in OfferId, FillRow(i)
        PROVE  FALSE
    <3>1. Fills(i)
      BY <2>1 DEF FillRow
    <3>2. ContractSize(i) = order.quantity
      BY <1>1, <3>1, FillsWhole
    <3>3. order' = NoOffer
      BY <2>1, <3>2, FillRowTables
    <3> QED BY <1>1, <3>3, NoneTypes
  <2>2. ASSUME NEW i \in OfferId, FillFails(i)
        PROVE  FALSE
    BY <1>1, <2>2, NoneTypes DEF FillFails, NoOrder
  <2>3. ~ RestOrder /\ ~ RestFails /\ ~ Restart
    BY <1>1, NoneTypes DEF RestOrder, RestFails, Restart, NoOrder
  <2>4. \/ \E i \in OfferId : SkipRow(i)
        \/ UNCHANGED vars
    BY <1>1, <2>1, <2>2, <2>3, OrderSteps
  <2> QED BY <2>4 DEF SkipRow, vars
<1>2. ASSUME NEW i \in OfferId, db.offer[i].aon, Exists(db, i), Exists(db', i)
      PROVE  db'.offer[i] = db.offer[i]
  <2>1. Exists(tx, i) => tx.offer[i] = db.offer[i]
    BY <1>2 DEF TradeInv, SinceInv
  <2>2. CASE order.quantity > 0
    <3>1. ASSUME NEW k \in OfferId, FillRow(k)
          PROVE  db'.offer[i] = db.offer[i]
      <4>1. CASE db' = db
        BY <4>1
      <4>2. CASE db' # db
        <5>1. /\ db' = tx'
              /\ tx'.offer[k] = IF ContractSize(k) = tx.offer[k].quantity THEN NoOffer
                    ELSE [tx.offer[k] EXCEPT !.quantity = tx.offer[k].quantity - ContractSize(k)]
              /\ ContractSize(k) # tx.offer[k].quantity => ~ tx.offer[k].aon
              /\ \A h \in OfferId : h # k => tx'.offer[h] = tx.offer[h]
              /\ Exists(tx, k)
          BY <3>1, <4>2, FillRowTables, FillFacts
        <5>2. CASE i # k
          BY <1>2, <2>1, <5>1, <5>2 DEF Exists
        <5>3. CASE i = k
          BY <1>2, <2>1, <5>1, <5>3 DEF Exists, NoOffer
        <5> QED BY <5>2, <5>3
      <4> QED BY <4>1, <4>2
    <3>2. CASE RestOrder
      <4>1. /\ db'.offer = [tx.offer EXCEPT ![orders] = order] /\ tx.offer \in [OfferId -> OfferRow]
        BY <3>2, RestOrderTables DEF IInv, TypeOK, Database
      <4>2. i # orders
        BY <1>2, <2>2 DEF TradeInv, RowsInv
      <4>3. db'.offer[i] = tx.offer[i]
        BY <4>1, <4>2
      <4> QED BY <1>2, <2>1, <4>3 DEF Exists
    <3>3. CASE (\E k \in OfferId : SkipRow(k) \/ FillFails(k)) \/ RestFails \/ Restart
               \/ UNCHANGED vars
      BY <3>3 DEF SkipRow, FillFails, RestFails, StatementFails, Restart, ProcessEnds, vars
    <3> QED BY <2>2, <3>1, <3>2, <3>3, OrderSteps
  <2>3. CASE ~ order.quantity > 0
    <3>1. order.quantity = 0
      BY <2>3 DEF IInv, TypeOK, OfferRow
    <3>2. CASE db' = db
      BY <3>2
    <3>3. CASE db'.offer[i] = tx.offer[i]
      BY <1>2, <2>1, <3>3 DEF Exists
    <3> QED BY <1>2, <3>1, <3>2, <3>3, OtherCommits DEF Agree
  <2> QED BY <2>2, <2>3
<1> QED BY <1>1, <1>2

(* No order and no resting offer marked all-or-nothing is ever filled in   *)
(* part, in one step or over several.                                      *)
THEOREM WholeOrNot == Spec => AllOrNothing
<1>1. IInv /\ TradeInv /\ [Next]_vars =>
        [/\ order.aon /\ order.quantity > 0 /\ order'.quantity > 0 => order' = order
         /\ \A i \in OfferId :
               db.offer[i].aon /\ Exists(db, i) /\ Exists(db', i)
               => db'.offer[i] = db.offer[i]]_vars
  BY WholeStep
<1> QED BY <1>1, TradeInvariance, PTL DEF Spec, AllOrNothing

(* Nobody else pays, for one step. *)
LEMMA RestingStep ==
    ASSUME IInv, TradeInv, [Next]_vars
    PROVE  order.quantity > 0 =>
               \A a \in Account \ {order.account} : db'.balance[a] >= db.balance[a]
<1> SUFFICES ASSUME order.quantity > 0, NEW a \in Account \ {order.account}
             PROVE  db'.balance[a] >= db.balance[a]
  OBVIOUS
<1>1. IInv'
  BY StepKeeps
<1>2. db'.balance[a] \in Nat /\ db.balance[a] \in Nat /\ tx.balance[a] \in Nat
  BY <1>1 DEF IInv, TypeOK, Database
<1>3. tx.balance[a] >= db.balance[a]
  BY DEF TradeInv, SinceInv
<1>4. db' = db \/ db'.balance[a] >= tx.balance[a]
  <2>1. ASSUME NEW i \in OfferId, FillRow(i)
        PROVE  db' = db \/ db'.balance[a] >= tx.balance[a]
    BY <2>1, FillRowTables
  <2>2. CASE RestOrder
    <3>1. db' = tx' /\ tx'.balance[a] = tx.balance[a]
      BY <2>2, RestOrderTables
    <3> QED BY <1>2, <3>1
  <2>3. CASE (\E k \in OfferId : SkipRow(k) \/ FillFails(k)) \/ RestFails \/ Restart
             \/ UNCHANGED vars
    BY <2>3 DEF SkipRow, FillFails, RestFails, StatementFails, Restart, ProcessEnds, vars
  <2> QED BY <2>1, <2>2, <2>3, OrderSteps
<1> QED BY <1>2, <1>3, <1>4

(* What a resting offer has set aside covers its contract: an order takes  *)
(* tokens from the balance of nobody but its trader.                       *)
THEOREM NobodyElsePays == Spec => RestingNeverCharged
<1>1. IInv /\ TradeInv /\ [Next]_vars =>
        [order.quantity > 0 =>
            \A a \in Account \ {order.account} : db'.balance[a] >= db.balance[a]]_vars
  BY RestingStep
<1> QED BY <1>1, TradeInvariance, PTL DEF Spec, RestingNeverCharged

(* Who is ahead is taken first, for one step. *)
LEMMA PriorityStep ==
    ASSUME IInv, TradeInv, [Next]_vars
    PROVE  order.quantity > 0 /\ ~ order.aon =>
             \A i, j \in OfferId :
                /\ Exists(tx, i) /\ Exists(tx, j)
                /\ Ahead(tx.offer[j], tx.offer[i], j, i)
                /\ ~ Expired(tx.offer[j], txNow)
                => tx'.offer[i].quantity >= tx.offer[i].quantity
<1> SUFFICES ASSUME order.quantity > 0, ~ order.aon, NEW i \in OfferId, NEW j \in OfferId,
                    Exists(tx, i), Exists(tx, j),
                    Ahead(tx.offer[j], tx.offer[i], j, i),
                    ~ Expired(tx.offer[j], txNow)
             PROVE  tx'.offer[i].quantity >= tx.offer[i].quantity
  OBVIOUS
<1>1. /\ tx.offer[i] \in OfferRow /\ tx.offer[j] \in OfferRow /\ order \in OfferRow
      /\ db.offer[i].quantity \in Nat
  BY DEF IInv, TypeOK, Database, OfferRow
<1>2. /\ tx.offer[i].quantity \in Nat /\ tx.offer[i].price \in Nat /\ tx.offer[j].price \in Nat
      /\ order.price \in Nat
  BY <1>1 DEF OfferRow, Price
<1>3. ASSUME Fills(i)
      PROVE  FALSE
  <2>1. i \in rows /\ \A k \in rows : Before(i, k)
    BY <1>3 DEF Fills, IsNext
  <2>2. tx.offer[i].ct = order.ct /\ Crosses(order, tx.offer[i])
    BY <2>1 DEF TradeInv, RowsInv, Suitable, Candidates
  <2>3. ~ Before(i, j)
    BY <1>1, <1>2, <2>2, Sizes DEF Ahead, Before, Crosses, FIXED, UNFIXED
  <2>4. j \in Suitable
    BY <1>1, <1>2, <2>2 DEF Suitable, Candidates, Ahead, Crosses, FIXED, UNFIXED
  <2>5. Skips(tx.offer[j])
    BY <2>1, <2>3, <2>4 DEF TradeInv, RowsInv
  <2>6. ~ tx.offer[j].aon
    BY DEF Ahead
  <2> QED BY <2>5, <2>6 DEF Skips
<1>4. ASSUME NEW k \in OfferId, FillRow(k)
      PROVE  tx'.offer[i].quantity >= tx.offer[i].quantity
  <2>1. k # i
    BY <1>3, <1>4, FillRowTables
  <2>2. tx'.offer[i] = tx.offer[i]
    BY <1>4, <2>1, FillRowTables
  <2> QED BY <1>2, <2>2
<1>5. CASE RestOrder
  <2>1. /\ tx'.offer = [tx.offer EXCEPT ![orders] = order] /\ i # orders
        /\ tx.offer \in [OfferId -> OfferRow]
    BY <1>5, RestOrderTables DEF IInv, TypeOK, Database
  <2>2. tx'.offer[i] = tx.offer[i]
    BY <2>1
  <2> QED BY <1>2, <2>2
<1>6. CASE (\E k \in OfferId : FillFails(k)) \/ RestFails \/ Restart
  <2>1. tx' = db
    BY <1>6 DEF FillFails, RestFails, StatementFails, Restart, ProcessEnds
  <2>2. tx.offer[i].quantity <= db.offer[i].quantity
    BY DEF TradeInv, SinceInv
  <2> QED BY <1>1, <1>2, <2>1, <2>2
<1>7. CASE (\E k \in OfferId : SkipRow(k)) \/ UNCHANGED vars
  <2>1. tx' = tx
    BY <1>7 DEF SkipRow, connection, vars
  <2> QED BY <1>2, <2>1
<1> QED BY <1>4, <1>5, <1>6, <1>7, OrderSteps

(* No order takes a unit while a live offer that is better, or as good and *)
(* older, is in the book, however many of its candidates it has filled or  *)
(* skipped by then.                                                        *)
THEOREM BestFirst == Spec => PriceTimePriority
<1>1. IInv /\ TradeInv /\ [Next]_vars =>
        [order.quantity > 0 /\ ~ order.aon =>
           \A i, j \in OfferId :
              /\ Exists(tx, i) /\ Exists(tx, j)
              /\ Ahead(tx.offer[j], tx.offer[i], j, i)
              /\ ~ Expired(tx.offer[j], txNow)
              => tx'.offer[i].quantity >= tx.offer[i].quantity]_vars
  BY PriorityStep
<1> QED BY <1>1, TradeInvariance, PTL DEF Spec, PriceTimePriority

(* A contract type is paid as a whole, for one step. *)
LEMMA ResolvingStep ==
    ASSUME IInv, TradeInv, [Next]_vars
    PROVE  stage # "none" =>
             \A c \in ContractType :
                \/ db'.position[c] = db.position[c]
                \/ \A a \in Account : db'.position[c][a] = NoHolding
<1> SUFFICES ASSUME stage # "none", db' # db, NEW c \in ContractType,
                    db'.position[c] # db.position[c], NEW a \in Account
             PROVE  db'.position[c][a] = NoHolding
  OBVIOUS
<1>1. order.quantity = 0
  BY DEF IInv, StageInv
<1>2. Agree(db', tx) /\ (SweepNext \/ SweepDone \/ ResolveDone \/ PayDone)
  BY <1>1, OtherCommits
<1>3. stage = "pay" /\ c = ruling.ct
  BY <1>1, <1>2 DEF TradeInv, SinceInv, Agree
<1>4. PayDone
  BY <1>2, <1>3 DEF SweepNext, SweepDone, ResolveDone
<1>5. tx.position[c][a].quantity = 0
  BY <1>3, <1>4 DEF PayDone, AllPaid
<1> QED BY <1>2, <1>5 DEF TradeInv, TablesInv, Cleared, Agree

(* resolve() closes all positions of a contract type or none of them.      *)
THEOREM PaidWhole == Spec => ResolvesWhole
<1>1. IInv /\ TradeInv /\ [Next]_vars =>
        [stage # "none" =>
           \A c \in ContractType :
              \/ db'.position[c] = db.position[c]
              \/ \A a \in Account : db'.position[c][a] = NoHolding]_vars
  BY ResolvingStep
<1> QED BY <1>1, TradeInvariance, PTL DEF Spec, ResolvesWhole

(* A cleanup that ends well has emptied its queue, for one step. *)
LEMMA SweepingStep ==
    ASSUME IInv, TradeInv, [Next]_vars
    PROVE  stage = "daily" /\ stage' = "none" /\ raised' = "none" =>
             \A i \in OfferId :
                Exists(db', i) => /\ Matures[db'.offer[i].ct] > now
                                  /\ ~ Expired(db'.offer[i], now)
<1> SUFFICES ASSUME stage = "daily", stage' = "none", raised' = "none",
                    NEW i \in OfferId, Exists(db', i)
             PROVE  Matures[db'.offer[i].ct] > now /\ ~ Expired(db'.offer[i], now)
  OBVIOUS
<1>1. order.quantity = 0 /\ ~ Quiet
  BY DEF IInv, StageInv, Quiet
<1>2. SweepDone
  <2>1. /\ ~ LookupUser /\ ~ LookupNobody /\ ~ PersistOther /\ ~ PlaceAny /\ ~ CancelAny
        /\ ~ ListOffers /\ ~ ResolveAny /\ ~ DailyCleanup /\ ~ Tick
    BY <1>1 DEF LookupUser, LookupNobody, PersistOther, PlaceAny, PlaceOrder, CancelAny, Cancel,
       ListOffers, ResolveAny, Resolve, DailyCleanup, Tick
  <2>2. ~ MatchRow /\ ~ RestOrder /\ ~ RestFails
    BY <1>1 DEF MatchRow, SkipRow, FillRow, FillFails, Fills, RestOrder, RestFails
  <2>3. ~ Sweep /\ ~ SweepNext /\ ~ ResolveDone /\ ~ Pay /\ ~ PayDone /\ ~ Restart
    BY DEF Sweep, SweepOne, SweepRaises, ProcessEnds, SweepNext, ResolveDone, Pay, PayOne,
       PayDone, Restart
  <2>4. ~ UNCHANGED vars
    BY DEF vars
  <2> QED BY <2>1, <2>2, <2>3, <2>4 DEF Next
<1>3. queue = NoQueue /\ tx' = Flushed(tx, pending) /\ db' = tx'
  BY <1>2 DEF SweepDone, FlushAndCommit
<1>4. db'.offer = tx.offer
  <2>1. tx \in Books /\ pending \in Tally
    BY TypedBooks DEF IInv, TypeOK
  <2> QED BY <1>3, <2>1, FlushedEffect
<1>5. ~ Overdue(tx.offer[i])
  BY <1>3, <1>4 DEF TradeInv, SweepInv, NoQueue, Exists
<1>6. tx.offer[i].ct \in ContractType /\ Matures[tx.offer[i].ct] \in Nat /\ now \in Nat
  BY TablesAssumption DEF IInv, TypeOK, Database, OfferRow
<1> QED BY <1>4, <1>5, <1>6 DEF Overdue

(* A daily cleanup that ends without an exception leaves no offer that has *)
(* expired or matured, whatever its queries found twice or left out.       *)
THEOREM CleanedUp == Spec => SweptClean
<1>1. IInv /\ TradeInv /\ [Next]_vars =>
        [stage = "daily" /\ stage' = "none" /\ raised' = "none" =>
           \A i \in OfferId :
              Exists(db', i) => /\ Matures[db'.offer[i].ct] > now
                                /\ ~ Expired(db'.offer[i], now)]_vars
  BY SweepingStep
<1> QED BY <1>1, TradeInvariance, PTL DEF Spec, SweptClean
====
