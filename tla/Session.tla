---- MODULE Session ----
(***************************************************************************)
(* One Market object: one process, one PostgreSQL connection, one list of  *)
(* messages not yet sent.  The operations of the Market API run on it one  *)
(* after the other, each as the SQL statements of its handler.             *)
(*                                                                         *)
(* psycopg2 opens a transaction at the first statement and keeps it open   *)
(* until commit or rollback, whatever the Python code does in between, so  *)
(* the connection's state outlives the operation:                          *)
(*                                                                         *)
(*   db       the committed tables                                         *)
(*   tx       the tables as this connection's transaction sees them        *)
(*   status   "idle" (no transaction), "open", or "failed" (a statement    *)
(*            failed; every further one is refused until a rollback)       *)
(*   txNow    NOW() of the open transaction: the time it started           *)
(*   pending  db.messages, the messages added and not yet flushed          *)
(*                                                                         *)
(* An operation that takes several statements keeps its place in           *)
(*   order, rows    the offer being placed, the candidates left            *)
(*   stage, queue   the sweep in progress, the offers it has still to take *)
(*   ruling         the contract type being resolved, the side that wins,  *)
(*                  the units paid so far                                  *)
(* and raised says how the last one ended: "none", or the exception, or    *)
(* "killed" when the process died.                                         *)
(*                                                                         *)
(* A process that ends without a commit (Restart) loses tx and pending.    *)
(* Processes run one after another here: the daily cleanup is a process    *)
(* of its own that starts from the committed tables.                       *)
(***************************************************************************)
EXTENDS Tables

CONSTANTS
    MaxTime,      \* bound on the clock
    Trades        \* the offers users ask for, a set of OfferRow

ASSUME SessionAssumption ==
    /\ MaxTime \in Nat
    /\ Trades \subseteq {o \in OfferRow : o.quantity > 0}

VARIABLES db, tx, status, txNow, now, pending,
          order, rows, orders,
          stage, queue, ruling, raised

connection == <<tx, status, txNow, pending>>
placing == <<order, rows>>
sweeping == <<stage, queue, ruling>>
vars == <<db, tx, status, txNow, now, pending, order, rows, orders,
          stage, queue, ruling, raised>>

Group == 1..3
NoQueue == [g \in Group |-> {}]
NoRuling == [ct |-> 0, side |-> FIXED, total |-> 0]

Init ==
    /\ db = EmptyBook
    /\ tx = EmptyBook
    /\ status = "idle"
    /\ txNow = 0
    /\ now = 0
    /\ pending = NoTally
    /\ order = NoOffer
    /\ rows = {}
    /\ orders = 0
    /\ stage = "none"
    /\ queue = NoQueue
    /\ ruling = NoRuling
    /\ raised = "none"

(* No operation is in progress. *)
Quiet == order.quantity = 0 /\ stage = "none"

(***************************************************************************)
(* The connection.                                                         *)
(***************************************************************************)
(* NOW() as the next statement sees it. *)
Clock == IF status = "idle" THEN now ELSE txNow

OpenTransaction ==
    /\ status # "failed"
    /\ status' = "open"
    /\ txNow' = Clock

(* A mutant: the commit without the flush. *)
CommitUnflushed(t) ==
    /\ tx' = t
    /\ db' = t
    /\ status' = "idle"
    /\ txNow' = 0
    /\ UNCHANGED pending

(* Send the pending messages, then commit. *)
FlushAndCommit(t) ==
    /\ tx' = Flushed(t, pending)
    /\ db' = tx'
    /\ pending' = NoTally
    /\ status' = "idle"
    /\ txNow' = 0

(* A statement failed: its transaction is lost, the message list is not. *)
StatementFails(error) ==
    /\ raised' = error
    /\ tx' = db
    /\ status' = "failed"
    /\ txNow' = 0
    /\ UNCHANGED <<db, pending>>

(* Python raised: the transaction stays open with what it has done. *)
HandlerRaises(error) ==
    /\ raised' = error
    /\ UNCHANGED <<db, connection>>

(* The process is gone, its transaction and its message list with it. *)
ProcessEnds(error) ==
    /\ raised' = error
    /\ tx' = db
    /\ status' = "idle"
    /\ txNow' = 0
    /\ pending' = NoTally
    /\ UNCHANGED db

NoOrder == order' = NoOffer /\ rows' = {}

NoSweep ==
    /\ stage' = "none"
    /\ queue' = NoQueue
    /\ ruling' = NoRuling

(***************************************************************************)
(* get_user(): a SELECT, which opens a transaction that nothing closes; on *)
(* a failed transaction it is refused, and lookup_user rolls back first.   *)
(***************************************************************************)
LookupUser ==
    /\ Quiet
    /\ status # "open"
    /\ status' = "open"
    /\ txNow' = now
    /\ raised' = "none"
    /\ UNCHANGED <<db, tx, now, pending, placing, orders, sweeping>>

(* A visitor without a login: lookup() raises, and lookup_user rolls back  *)
(* and calls itself until Python gives up, before or after a SELECT.       *)
LookupNobody ==
    /\ Quiet
    /\ tx' = db
    /\ status' \in {"idle", "open"}
    /\ txNow' = IF status' = "open" THEN now ELSE 0
    /\ raised' = "RecursionError"
    /\ UNCHANGED <<db, now, pending, placing, orders, sweeping>>

(* Account.persist or Issue.persist: a row of another table is written,    *)
(* and the messages and whatever else the transaction holds go with it.    *)
PersistOther ==
    /\ Quiet
    /\ status # "failed"
    /\ FlushAndCommit(tx)
    /\ raised' = "none"
    /\ UNCHANGED <<now, placing, orders, sweeping>>

(***************************************************************************)
(* Offer.place()                                                           *)
(***************************************************************************)
(* Mutants: a strict comparison, no comparison. *)
CrossesStrictly(o, p) ==
    IF o.side = FIXED THEN p.side = UNFIXED /\ p.price < o.price
                      ELSE p.side = FIXED /\ p.price > o.price
CrossesAnyPrice(o, p) == o.side # p.side

Crosses(o, p) ==
    IF o.side = FIXED THEN p.side = UNFIXED /\ p.price <= o.price
                      ELSE p.side = FIXED /\ p.price >= o.price

Candidates(t, o, when) ==
    {i \in OfferId : /\ Exists(t, i)
                     /\ t.offer[i].ct = o.ct
                     /\ Crosses(o, t.offer[i])
                     /\ ~ Expired(t.offer[i], when)}

(* A mutant: ORDER BY created. *)
BeforeByAge(i, j) == i <= j

(* ORDER BY price, created.  On one connection created follows the ids. *)
Before(i, j) ==
    LET p == tx.offer[i].price
        q == tx.offer[j].price
    IN  IF p = q THEN i <= j
        ELSE IF order.side = FIXED THEN p < q ELSE p > q

IsNext(i) == i \in rows /\ \A j \in rows : Before(i, j)

PlaceOrder(o) ==
    /\ Quiet
    /\ orders < MaxOrders
    /\ OpenTransaction
    /\ order' = o
    /\ rows' = Candidates(tx, o, Clock)
    /\ raised' = "none"
    /\ orders' = orders + 1
    /\ UNCHANGED <<db, tx, now, pending, sweeping>>

(* Mutants: the rule of the resting offer alone, of the order alone. *)
SkipsForRow(p) == p.aon /\ p.quantity > order.quantity
SkipsForOrder(p) == order.aon /\ p.quantity < order.quantity

Skips(p) ==
    \/ p.aon /\ p.quantity > order.quantity
    \/ order.aon /\ p.quantity < order.quantity

SkipRow(i) ==
    /\ order.quantity > 0
    /\ IsNext(i)
    /\ Skips(tx.offer[i])
    /\ rows' = rows \ {i}
    /\ UNCHANGED <<db, connection, now, order, orders, sweeping, raised>>

FixedHolder(i) == IF order.side = FIXED THEN order.account ELSE tx.offer[i].account
UnfixedHolder(i) == IF order.side = FIXED THEN tx.offer[i].account ELSE order.account

ContractSize(i) ==
    IF tx.offer[i].quantity <= order.quantity THEN tx.offer[i].quantity
                                              ELSE order.quantity

(* What becomes of row i once its units are given back to its owner. *)
Late(i, t) ==
    /\ txNow > Matures[order.ct]
    /\ NeedsInsert(t, order.ct, FixedHolder(i), UnfixedHolder(i),
                   order.price, ContractSize(i))

FixedShort(i, t) ==
    FixedCharged(t, order.ct, FixedHolder(i), UnfixedHolder(i),
                 order.price, ContractSize(i)).balance[FixedHolder(i)] < 0

(* A mutant: the contract is made at the price of the offer. *)
ContractedAtRow(i, t) ==
    MakeContract(t, order.ct, FixedHolder(i), UnfixedHolder(i),
                 tx.offer[i].price, ContractSize(i))

Contracted(i, t) ==
    MakeContract(t, order.ct, FixedHolder(i), UnfixedHolder(i),
                 order.price, ContractSize(i))

UnfixedShort(i, t) == Contracted(i, t).balance[UnfixedHolder(i)] < 0

(* Both sides have paid: note the messages, and stop once nothing is left. *)
FillWith(i, t) ==
    LET n == ContractSize(i)
        list == Note(Note(pending, order.ct, FixedHolder(i), n),
                     order.ct, UnfixedHolder(i), -n)
    IN  IF n = order.quantity
        THEN /\ tx' = Flushed(t, list)
             /\ db' = tx'
             /\ pending' = NoTally
             /\ status' = "idle"
             /\ txNow' = 0
             /\ NoOrder
        ELSE /\ tx' = t
             /\ pending' = list
             /\ order' = [order EXCEPT !.quantity = @ - n]
             /\ rows' = rows \ {i}
             /\ UNCHANGED <<db, status, txNow>>

(* A mutant: no CHECK on the balance. *)
RefusedLate(i, t) == IF Late(i, t) THEN "Late" ELSE "none"

(* A statement of make_contract is refused: an INSERT after maturity, or a *)
(* debit that takes a balance below zero.                                  *)
Refused(i, t) ==
    IF Late(i, t) THEN "Late"
    ELSE IF FixedShort(i, t) \/ UnfixedShort(i, t) THEN "Short"
    ELSE "none"

(* The next row that is not skipped: reduce it, then make the contract.    *)
Fills(i) == order.quantity > 0 /\ IsNext(i) /\ ~ Skips(tx.offer[i])

FillRow(i) ==
    LET t == ReduceOffer(tx, i, ContractSize(i))
    IN  /\ Fills(i)
        /\ IF Reducible(tx, i, ContractSize(i))
           THEN Refused(i, t) = "none" /\ FillWith(i, Contracted(i, t)) /\ UNCHANGED raised
           ELSE HandlerRaises("RuntimeError") /\ NoOrder
        /\ UNCHANGED <<now, orders, sweeping>>

FillFails(i) ==
    LET t == ReduceOffer(tx, i, ContractSize(i))
    IN  /\ Fills(i)
        /\ Reducible(tx, i, ContractSize(i))
        /\ Refused(i, t) # "none"
        /\ StatementFails(Refused(i, t))
        /\ NoOrder
        /\ UNCHANGED <<now, orders, sweeping>>

(* No row is left: what remains of the order becomes an offer. *)
RestOrder ==
    LET t == MakeOffer(tx, orders, order)
    IN  /\ order.quantity > 0
        /\ rows = {}
        /\ t.balance[order.account] >= 0
        /\ txNow <= Matures[order.ct]
        /\ FlushAndCommit(t)
        /\ NoOrder
        /\ UNCHANGED <<now, orders, sweeping, raised>>

RestFails ==
    LET t == MakeOffer(tx, orders, order)
    IN  /\ order.quantity > 0
        /\ rows = {}
        /\ \/ t.balance[order.account] < 0 /\ StatementFails("Short")
           \/ /\ t.balance[order.account] >= 0
              /\ txNow > Matures[order.ct]
              /\ StatementFails("Late")
        /\ NoOrder
        /\ UNCHANGED <<now, orders, sweeping>>

(***************************************************************************)
(* Offer.by_id(i).cancel(), asked for by the offer's owner.                *)
(***************************************************************************)
Cancel(i) ==
    /\ Quiet
    /\ status # "failed"
    /\ Exists(tx, i)
    /\ FlushAndCommit(ReduceOffer(tx, i, tx.offer[i].quantity))
    /\ raised' = "none"
    /\ UNCHANGED <<now, placing, orders, sweeping>>

(***************************************************************************)
(* Offer.filter(), Offer.cleanup() and ContractType.resolve().             *)
(*                                                                         *)
(* A sweep cancels the offers in its queue: three groups, taken in order,  *)
(* found by three SELECTs.  Its stages:                                    *)
(*   "list"    filter() for a page                                         *)
(*   "daily"   cleanup() by cleanup.py                                     *)
(*   "before", "clear", "pay", "after", "final"                            *)
(*             resolve(): filter() and cleanup() on its contract type, the *)
(*             positions, then filter() and cleanup() once more            *)
(***************************************************************************)
ExpiredIds(t, when) == {i \in OfferId : Exists(t, i) /\ Expired(t.offer[i], when)}

(* A mutant: the offer that matures just now stays. *)
MaturedBefore(t, when) ==
    {i \in OfferId : Exists(t, i) /\ Matures[t.offer[i].ct] < when}

MaturedIds(t, when) ==
    {i \in OfferId : Exists(t, i) /\ Matures[t.offer[i].ct] <= when}

(* What filter(issue) finds: offers on private issues are left out. *)
PublicIds(t, c) ==
    {i \in OfferId : Exists(t, i) /\ t.offer[i].ct = c /\ c \notin Private}

FilterQueue(t, when) == <<{}, {}, ExpiredIds(t, when)>>
(* A mutant: the query for matured contract types is missing. *)
CleanupQueueExpired(t, when, found) == <<found, {}, ExpiredIds(t, when)>>

CleanupQueue(t, when, found) == <<found, MaturedIds(t, when), ExpiredIds(t, when)>>

ListOffers ==
    /\ Quiet
    /\ OpenTransaction
    /\ stage' = "list"
    /\ queue' = FilterQueue(tx, Clock)
    /\ raised' = "none"
    /\ UNCHANGED <<db, tx, now, pending, placing, orders, ruling>>

Resolve(c, side) ==
    /\ Quiet
    /\ OpenTransaction
    /\ stage' = "before"
    /\ queue' = FilterQueue(tx, Clock)
    /\ ruling' = [ct |-> c, side |-> side, total |-> 0]
    /\ raised' = "none"
    /\ UNCHANGED <<db, tx, now, pending, placing, orders>>

(* cleanup.py: a new process, hence a new connection and message list. *)
DailyCleanup ==
    /\ Quiet
    /\ tx' = db
    /\ status' = "open"
    /\ txNow' = now
    /\ pending' = NoTally
    /\ stage' = "daily"
    /\ queue' = CleanupQueue(db, now, {})
    /\ raised' = "none"
    /\ UNCHANGED <<db, now, placing, orders, ruling>>

(* The next offer of the queue is one of the first group that has any. *)
IsQueued(i) == \E g \in Group : /\ i \in queue[g]
                               /\ \A h \in Group : h < g => queue[h] = {}

Dequeue(i) ==
    LET first == CHOOSE g \in Group : /\ queue[g] # {}
                                     /\ \A h \in Group : h < g => queue[h] = {}
    IN  [queue EXCEPT ![first] = @ \ {i}]

(* _do_expire looks the offer up with filter(), which leaves out offers on *)
(* private issues, and takes the first one found.                          *)
Found(i) == Exists(tx, i) /\ tx.offer[i].ct \notin Private

SweepOne(i) ==
    /\ IsQueued(i)
    /\ Found(i)
    /\ tx' = ReduceOffer(tx, i, tx.offer[i].quantity)
    /\ queue' = Dequeue(i)
    /\ UNCHANGED <<db, status, txNow, now, pending, placing, orders,
                   stage, ruling, raised>>

SweepRaises(i) ==
    /\ IsQueued(i)
    /\ ~ Found(i)
    /\ IF stage = "daily" THEN ProcessEnds("IndexError") ELSE HandlerRaises("IndexError")
    /\ NoSweep
    /\ UNCHANGED <<now, placing, orders>>

(* Flush and commit; the next stage opens the next transaction. *)
CommitThen(next, found) ==
    /\ tx' = Flushed(tx, pending)
    /\ db' = tx'
    /\ pending' = NoTally
    /\ status' = "open"
    /\ txNow' = now
    /\ stage' = next
    /\ queue' = CASE next \in {"clear", "final"} -> CleanupQueue(tx, now, found)
                  [] next = "after" -> FilterQueue(tx, now)
                  [] OTHER -> NoQueue

SweepNext ==
    /\ queue = NoQueue
    /\ \/ stage = "before" /\ CommitThen("clear", PublicIds(tx, ruling.ct))
       \/ stage = "clear" /\ CommitThen("pay", {})
       \/ stage = "after" /\ CommitThen("final", PublicIds(tx, ruling.ct))
    /\ UNCHANGED <<now, placing, orders, ruling, raised>>

SweepDone ==
    /\ queue = NoQueue
    /\ stage \in {"list", "daily"}
    /\ FlushAndCommit(tx)
    /\ NoSweep
    /\ UNCHANGED <<now, placing, orders, raised>>

(* The rest of the last cleanup() reads tables that are not modelled, and *)
(* its last SELECT leaves a transaction open unless a row was deleted.    *)
ResolveDone ==
    /\ queue = NoQueue
    /\ stage = "final"
    /\ \/ FlushAndCommit(tx) /\ NoSweep
       \/ CommitThen("none", {}) /\ ruling' = NoRuling
    /\ UNCHANGED <<now, placing, orders, raised>>

(* A mutant: commit inside the loop. *)
PayOneAndCommit(a) ==
    LET n == tx.position[ruling.ct][a].quantity
    IN  /\ stage = "pay"
        /\ n # 0
        /\ tx' = Flushed(PayPosition(tx, ruling.ct, a, ruling.side),
                         NoteResolved(pending, ruling.ct, a, tx.position[ruling.ct][a], ruling.side))
        /\ db' = tx'
        /\ pending' = NoTally
        /\ ruling' = [ruling EXCEPT !.total = @ + n]
        /\ UNCHANGED <<status, txNow, now, placing, orders, stage, queue, raised>>

PayOne(a) ==
    LET n == tx.position[ruling.ct][a].quantity
    IN  /\ stage = "pay"
        /\ n # 0
        /\ tx' = PayPosition(tx, ruling.ct, a, ruling.side)
        /\ pending' = NoteResolved(pending, ruling.ct, a, tx.position[ruling.ct][a], ruling.side)
        /\ ruling' = [ruling EXCEPT !.total = @ + n]
        /\ UNCHANGED <<db, status, txNow, now, placing, orders, stage, queue, raised>>

AllPaid == \A a \in Account : tx.position[ruling.ct][a].quantity = 0

(* "Done with all positions.  Total is always 0." *)
PayDone ==
    /\ stage = "pay"
    /\ AllPaid
    /\ IF ruling.total = 0
       THEN CommitThen("after", {}) /\ UNCHANGED <<ruling, raised>>
       ELSE HandlerRaises("RuntimeError") /\ NoSweep
    /\ UNCHANGED <<now, placing, orders>>

(***************************************************************************)
(* The environment.                                                        *)
(***************************************************************************)
(* The process is killed, at any moment, and started again. *)
Restart ==
    /\ ProcessEnds("killed")
    /\ NoOrder
    /\ NoSweep
    /\ UNCHANGED <<now, orders>>

(* Hours pass between operations, not within one. *)
Tick ==
    /\ Quiet
    /\ now < MaxTime
    /\ now' = now + 1
    /\ UNCHANGED <<db, connection, placing, orders, sweeping, raised>>

PlaceAny == \E o \in Trades : PlaceOrder(o)
MatchRow == \E i \in OfferId : SkipRow(i) \/ FillRow(i) \/ FillFails(i)
CancelAny == \E i \in OfferId : Cancel(i)
ResolveAny == \E c \in ContractType, side \in Side : Resolve(c, side)
Sweep == \E i \in OfferId : SweepOne(i) \/ SweepRaises(i)
Pay == \E a \in Account : PayOne(a)

Next ==
    \/ LookupUser \/ LookupNobody \/ PersistOther
    \/ PlaceAny \/ CancelAny \/ ListOffers \/ ResolveAny \/ DailyCleanup
    \/ MatchRow \/ RestOrder \/ RestFails
    \/ Sweep \/ SweepNext \/ SweepDone \/ ResolveDone
    \/ Pay \/ PayDone
    \/ Restart \/ Tick

Spec == Init /\ [][Next]_vars

(* The program runs on, the daily job starts every day, crashes end.      *)
(* (A restart is a step of its own: no other one sets raised to "killed".) *)
OperationStep ==
    \/ MatchRow \/ RestOrder \/ RestFails
    \/ Sweep \/ SweepNext \/ SweepDone \/ ResolveDone
    \/ Pay \/ PayDone

FairSpec ==
    /\ Spec
    /\ WF_vars(OperationStep)
    /\ SF_vars(DailyCleanup)
    /\ <>[][~ Restart]_vars

(***************************************************************************)
(* Properties.                                                             *)
(***************************************************************************)
Stage == {"none", "list", "daily", "before", "clear", "pay", "after", "final"}

(* Every variable has the type of the column or attribute it stands for;   *)
(* in particular no committed balance is negative and no price leaves      *)
(* 1 .. 999.                                                               *)
TypeOK ==
    /\ db \in Database /\ tx \in Database
    /\ status \in {"idle", "open", "failed"}
    /\ txNow \in Nat /\ now \in Nat
    /\ pending \in Tally
    /\ order \in OfferRow /\ rows \subseteq OfferId /\ orders \in 0..MaxOrders
    /\ stage \in Stage
    /\ queue \in [Group -> SUBSET OfferId]
    /\ ruling \in [ct : 0..NumTypes, side : Side, total : Int]
    /\ raised \in {"none", "Short", "Late", "RuntimeError", "IndexError",
                   "RecursionError", "killed"}

(* place, cancel, _do_expire and resolve only move tokens: balances, the   *)
(* escrow of resting offers, 1000 per open contract and the fees kept by   *)
(* resolve add up to what the accounts started with.                       *)
Issued == SumTo(InitialBalance, NumAccounts)
Conserved == TokenTotal(db) = Issued

(* Contracts come in pairs: on every contract type the FIXED units held    *)
(* equal the UNFIXED units held (contract.py persist).                     *)
ZeroSum == \A c \in ContractType : Net(db, c) = 0

(* The checks in reduce_offer and at the end of resolve(), which raise     *)
(* RuntimeError, never fire.                                               *)
AssertionsHold == raised # "RuntimeError"

(* place() leaves no two live offers that it would have matched, but for   *)
(* all-or-nothing offers larger than the other side.                       *)
BookUncrossed ==
    \A i, j \in OfferId :
        LET f == db.offer[i]
            u == db.offer[j]
        IN  (/\ Exists(db, i) /\ Exists(db, j)
             /\ f.side = FIXED /\ u.side = UNFIXED
             /\ f.ct = u.ct /\ f.price >= u.price
             /\ ~ Expired(f, now) /\ ~ Expired(u, now))
            => \/ f.aon /\ f.quantity > u.quantity
               \/ u.aon /\ u.quantity > f.quantity

(* Of two offers on one side, j is better than i, or as good and older,    *)
(* and not all-or-nothing.                                                 *)
Ahead(p, q, j, i) ==
    /\ p.ct = q.ct /\ p.side = q.side /\ ~ p.aon
    /\ \/ p.price = q.price /\ j < i
       \/ IF p.side = FIXED THEN p.price > q.price ELSE p.price < q.price

(* An order that is not all-or-nothing takes no unit of an offer while the *)
(* book has a live one ahead of it: the list of candidates is as old as    *)
(* the order, and later fills and skips do not change who is first (ORDER  *)
(* BY in place()).                                                         *)
PriceTimePriority ==
    [][order.quantity > 0 /\ ~ order.aon =>
         \A i, j \in OfferId :
            /\ Exists(tx, i) /\ Exists(tx, j)
            /\ Ahead(tx.offer[j], tx.offer[i], j, i)
            /\ ~ Expired(tx.offer[j], txNow)
            => tx'.offer[i].quantity >= tx.offer[i].quantity]_vars

(* All or nothing: neither a resting offer nor an order that is marked so  *)
(* is ever filled in part.                                                 *)
AllOrNothing ==
    [][/\ order.aon /\ order.quantity > 0 /\ order'.quantity > 0 => order' = order
       /\ \A i \in OfferId :
             db.offer[i].aon /\ Exists(db, i) /\ Exists(db', i)
             => db'.offer[i] = db.offer[i]]_vars

(* Matching never takes tokens out of the balance of anyone but the trader *)
(* who places the order: a resting offer's escrow covers its contract.     *)
RestingNeverCharged ==
    [][order.quantity > 0 =>
         \A a \in Account \ {order.account} : db'.balance[a] >= db.balance[a]]_vars

(* resolve() commits the positions of a contract type together or not at   *)
(* all, whatever interrupts it.                                            *)
ResolvesWhole ==
    [][stage # "none" =>
         \A c \in ContractType :
            \/ db'.position[c] = db.position[c]
            \/ \A a \in Account : db'.position[c][a] = NoHolding]_vars

(* A cleanup that ends without an exception leaves no offer that has       *)
(* expired or whose contract type has matured.                             *)
SweptClean ==
    [][stage = "daily" /\ stage' = "none" /\ raised' = "none" =>
         \A i \in OfferId :
            Exists(db', i) => /\ Matures[db'.offer[i].ct] > now
                              /\ ~ Expired(db'.offer[i], now)]_vars

(* The contracts that an account is told of, since it was last told of a   *)
(* resolution, add up to its position:                                     *)
(* "Messages are only sent as the result of a transaction."                *)
AuditTrail ==
    \A c \in ContractType, a \in Account : db.told[c][a].units = db.position[c][a].quantity

(* What resolutions report, in all. *)
Announced(told) ==
    SumTo([c \in ContractType |->
              SumTo([a \in Account |-> told[c][a].won], NumAccounts)], NumTypes)

(* The tokens that winners have been told of and the fees that were kept   *)
(* are what losers have been told that they lost, at 1000 a unit, over all *)
(* resolutions (resolve, its two messages).                                *)
ResolutionsReported == Unit * Announced(db.told) + db.fees = 0

(* What account a is told about c, once the list is sent, and the units of *)
(* it that a does not hold.                                                *)
Told(t, list, c, a) == Heard(t.told[c][a], list[c][a])
Misled(t, list, c, a) == Told(t, list, c, a).units - t.position[c][a].quantity

(* A refused order has left messages of contracts that never were. *)
Ghosts == status = "failed" /\ pending # NoTally

(* The position of a on c is closed, and a is told so and of what it won.  *)
ToldClosed(c, a) ==
    /\ tx'.position[c][a].quantity = 0
    /\ Misled(tx', pending', c, a) = 0
    /\ tx'.balance[a] - tx.balance[a]
         = Unit * AtLeastZero(Told(tx', pending', c, a).won - Told(tx, pending, c, a).won)

(* Messages follow positions: what accounts have been told, and will be    *)
(* once the list is sent, moves with what they hold, in every statement of *)
(* every operation, or the position is closed and they are told just what  *)
(* that brought them.  It differs by more only when a statement is         *)
(* refused, for the rollback leaves the list alone, and by less only when  *)
(* a process ends and takes its list along (MessageList, place, resolve).  *)
MessagesFollow ==
    [][\/ \A c \in ContractType, a \in Account :
             \/ Misled(tx', pending', c, a) = Misled(tx, pending, c, a)
             \/ ToldClosed(c, a)
       \/ status' = "failed"
       \/ tx' = db /\ db' = db /\ pending' = NoTally]_vars

(* Every commit is one step of the market its users are promised: offers   *)
(* withdrawn whole, one order's trades at prices both sides accepted, or a *)
(* contract type settled; and no account's balance, set-aside tokens and   *)
(* position change together in any other way (Offer.place, cancel,         *)
(* _do_expire, ContractType.resolve).                                      *)
Promise == INSTANCE Market WITH book <- db
KeepsPromise == Promise!Spec

(* No offer is made after its contract type matures (schema.sql:16).       *)
NoLateOffer ==
    [][\A i \in OfferId : ~ Exists(db, i) /\ Exists(db', i)
         => now <= Matures[db'.offer[i].ct]]_vars

(* No contract is formed after its contract type matures.                  *)
NoLateContract ==
    [][order.quantity > 0 =>
         (db'.position # db.position => txNow <= Matures[order.ct])]_vars

(* cleanup() and filter() remove every offer that has expired or matured   *)
(* without an exception.                                                   *)
CleanupCompletes == raised # "IndexError"

(* The daily cleanup gets rid of every matured offer.                      *)
MaturedOffersLeave ==
    \A i \in OfferId :
        (Exists(db, i) /\ Matures[db.offer[i].ct] <= now) ~> ~ Exists(db, i)
====
