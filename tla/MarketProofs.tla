---- MODULE MarketProofs ----
(***************************************************************************)
(* Session implements Market, with the committed tables as the book: for   *)
(* every number of accounts, offers and contract types, each step that     *)
(* changes the committed tables withdraws offers, trades one order or      *)
(* settles one contract type, as Market allows, and no other step does.    *)
(*                                                                         *)
(* The statements of an operation run one after another in an open         *)
(* transaction, and Market knows only its end.  So the proof carries       *)
(* DealInv, which says what the open transaction has done so far:          *)
(*                                                                         *)
(*   BetweenInv  outside an order it has withdrawn some offers, and that   *)
(*               is all: a sweep between two commits, or a listing         *)
(*   SellingInv  the order in progress is the rest of some order o; some   *)
(*               offers were withdrawn and some used up, and these gave    *)
(*               what o lacks                                              *)
(*   PayingInv   resolve() has paid some accounts and not the others       *)
(*                                                                         *)
(* Each statement moves these by one offer or one account (WithdrawnMore,  *)
(* ExchangedMore), and at a commit they say Withdraw, Trade or Settle.     *)
(* That no account grows richer or poorer when it trades at the order's    *)
(* price (FairAt) is the conservation of one fill, added up: what a        *)
(* contract does to two accounts is ContractWealth.                        *)
(***************************************************************************)
EXTENDS SessionProofs

(***************************************************************************)
(* The instance of Market has definitions of its own for the tables; they  *)
(* are the same.                                                           *)
(***************************************************************************)
(* The offers that gave up units, those withdrawn aside. *)
NewlyFilled(gone) == {i \in Open(db) \ gone : Taken(db, db', i) # 0}
(* A step of the committed tables as Market has it. *)
Deal ==
    \/ \E gone \in SUBSET (Open(db) \ Open(db')) :
          \/ Withdrawn(db, db', gone)
          \/ \E o \in Trades :
                Traded(db, db', o, gone, NewlyFilled(gone), TakenAll(db, db', NewlyFilled(gone)))
    \/ \E c \in ContractType, side \in Side : PaidOut(db, db', c, side)

(* Offers withdrawn. *)
LEMMA SameWithdrawn ==
    ASSUME NEW gone PROVE Withdrawn(db, db', gone) <=> Promise!Withdraw(gone)
  BY DEF Promise!Withdraw, Promise!Withdrawn, Withdrawn, Promise!OfferId, OfferId, Promise!NoOffer,
     NoOffer, Promise!FIXED, FIXED, Promise!Never, Never, Promise!Account, Account,
     Promise!Reserved, Reserved, Promise!SetAside, SetAside, Promise!Escrow, Escrow, Promise!Cost,
     Cost, Promise!Unit, Unit, Promise!SumTo, SumTo

(* An order traded. *)
LEMMA SameTraded ==
    ASSUME NEW o, NEW gone, NEW filled, NEW total
    PROVE  Traded(db, db', o, gone, filled, total) <=> Promise!Traded(db, db', o, gone, filled, total)
  BY DEF Promise!Traded, Traded, Promise!Exchanged, Exchanged, Promise!Rested, Rested,
     Promise!Open, Open, Promise!Exists, Exists, Promise!Filled, Filled, Promise!Suits, Suits,
     Promise!Taken, Taken, Promise!PositionsAfter, PositionsAfter, Promise!TakenFrom, TakenFrom,
     Promise!GivenUp, GivenUp, Promise!FairAt, FairAt, Promise!Wealth, Wealth, Promise!Worth, Worth,
     Promise!Abs, Abs, Promise!ContractType, ContractType, Promise!UNFIXED, UNFIXED,
     Promise!OfferId, OfferId, Promise!NoOffer,
     NoOffer, Promise!FIXED, FIXED, Promise!Never, Never, Promise!Account, Account,
     Promise!Reserved, Reserved, Promise!SetAside, SetAside, Promise!Escrow, Escrow, Promise!Cost,
     Cost, Promise!Unit, Unit, Promise!SumTo, SumTo

(* A contract type settled. *)
LEMMA SamePaidOut ==
    ASSUME NEW c, NEW side PROVE PaidOut(db, db', c, side) <=> Promise!Settle(c, side)
  BY DEF Promise!Settle, Promise!PaidOut, PaidOut, Promise!Won, Won, Promise!Wins, Wins,
     Promise!Payout, Payout, Promise!Fee, Fee, Promise!HalfEven, HalfEven,
     Promise!AtLeastZero, AtLeastZero, Promise!Abs, Abs, Promise!NoHolding, NoHolding,
     Promise!TokenTotal, TokenTotal, Promise!Balances, Balances, Promise!Escrows, Escrows,
     Promise!Stakes, Stakes, Promise!Held, Held, Promise!ContractType, ContractType,
     Promise!UNFIXED, UNFIXED,
     Promise!OfferId, OfferId, Promise!FIXED, FIXED, Promise!Account, Account,
     Promise!Escrow, Escrow, Promise!Cost,
     Cost, Promise!Unit, Unit, Promise!SumTo, SumTo

(* The units an order took, as the instance counts them. *)
LEMMA SameCounts ==
    /\ Promise!OfferId = OfferId /\ Promise!ContractType = ContractType /\ Promise!Side = Side
    /\ Promise!Open(db) = Open(db) /\ Promise!Open(db') = Open(db')
    /\ \A i : Promise!Taken(db, db', i) = Taken(db, db', i)
    /\ \A filled : Promise!TakenAll(db, db', filled) = TakenAll(db, db', filled)
  BY DEF Promise!OfferId, OfferId, Promise!ContractType, ContractType, Promise!Side, Side,
     Promise!FIXED, FIXED, Promise!UNFIXED, UNFIXED, Promise!Open, Open, Promise!Exists, Exists,
     Promise!Taken, Taken, Promise!TakenAll, TakenAll, Promise!TakenFrom, TakenFrom,
     Promise!GivenUp, GivenUp, Promise!Account, Account, Promise!SumTo, SumTo

(* A commit that is a deal is a step of the market that is promised. *)
LEMMA DealPromised == ASSUME Deal, db' # db PROVE Promise!Next
<1>1. CASE \E gone \in SUBSET (Open(db) \ Open(db')) : Withdrawn(db, db', gone)
  BY <1>1, SameWithdrawn, SameCounts DEF Promise!Next
<1>2. ASSUME NEW gone \in SUBSET (Open(db) \ Open(db')), NEW o \in Trades,
             Traded(db, db', o, gone, NewlyFilled(gone), TakenAll(db, db', NewlyFilled(gone)))
      PROVE  Promise!Next
  <2> DEFINE filled == NewlyFilled(gone)
  <2>1. filled = {i \in Promise!Open(db) \ gone : Promise!Taken(db, db', i) # 0}
    BY SameCounts DEF NewlyFilled
  <2> HIDE DEF filled
  <2>2. Promise!Traded(db, db', o, gone, filled, Promise!TakenAll(db, db', filled))
    BY <1>2, SameTraded, SameCounts DEF filled
  <2>3. Promise!Trade(gone)
    BY <2>1, <2>2 DEF Promise!Trade
  <2> QED BY <2>3, SameCounts DEF Promise!Next
<1>3. CASE \E c \in ContractType, side \in Side : PaidOut(db, db', c, side)
  BY <1>3, SamePaidOut, SameCounts DEF Promise!Next
<1> QED BY <1>1, <1>2, <1>3 DEF Deal

(* The market starts empty. *)
LEMMA InitPromised == Init => Promise!Init
  BY DEF Init, Promise!Init, Promise!EmptyBook, EmptyBook, Promise!NoTally, NoTally, Promise!NoReport, NoReport, Promise!NoOffer,
     NoOffer, Promise!NoHolding, NoHolding, Promise!OfferId, OfferId, Promise!ContractType, ContractType,
     Promise!Account, Account, Promise!FIXED, FIXED, Promise!Never, Never

(***************************************************************************)
(* What an account owns.                                                   *)
(***************************************************************************)
(* One offer changes what its owner has set aside. *)
LEMMA OneOffer ==
    ASSUME NEW t \in Books, NEW u \in Books, NEW i \in OfferId, NEW a \in Account,
           \A k \in OfferId : k # i => u.offer[k] = t.offer[k]
    PROVE  /\ Reserved(u, a) = Reserved(t, a) + (SetAside(u, a)[i] - SetAside(t, a)[i])
           /\ Reserved(t, a) \in Int
<1> DEFINE f == SetAside(t, a)
           g == SetAside(u, a)
<1>1. \A k \in OfferId : t.offer[k] \in OfferRow /\ u.offer[k] \in OfferRow
  BY DEF Books
<1>2. \A k \in OfferId : Escrow(t.offer[k]) \in Int /\ Escrow(u.offer[k]) \in Int
  BY <1>1, EscrowType
<1>3. \A k \in 1..MaxOrders : f[k] \in Int /\ g[k] \in Int
  BY <1>2, Sizes DEF SetAside
<1>4. \A k \in 1..MaxOrders : k # i => g[k] = f[k]
  BY Sizes DEF SetAside
<1>5. i \in 1..MaxOrders
  BY Sizes
<1> HIDE DEF f, g
<1>6. SumTo(g, MaxOrders) = SumTo(f, MaxOrders) + (g[i] - f[i])
  BY <1>3, <1>4, <1>5, Sizes, SumToChange
<1>7. SumTo(f, MaxOrders) \in Int
  BY <1>3, Sizes, SumToInt
<1> QED BY <1>6, <1>7 DEF f, g, Reserved

(* Reducing an offer moves tokens of its owner from the offer to the       *)
(* balance.                                                                *)
LEMMA ReducedWealth ==
    ASSUME NEW t \in Books, NEW i \in OfferId, NEW n \in Nat, n <= t.offer[i].quantity,
           NEW a \in Account
    PROVE  LET u == ReduceOffer(t, i, n)
           IN  u.balance[a] + Reserved(u, a) = t.balance[a] + Reserved(t, a)
<1> DEFINE u == ReduceOffer(t, i, n)
           o == t.offer[i]
           paid == Cost(o.side, o.price, n)
           rest == u.offer[i]
<1>1. o \in OfferRow /\ o.account \in Account /\ o.price \in Price /\ o.quantity \in Nat
  BY DEF Books, OfferRow
<1>2. /\ paid \in Nat /\ Escrow(o) \in Nat
      /\ Cost(o.side, o.price, o.quantity - n) = Escrow(o) - paid
      /\ Cost(o.side, o.price, 0) = 0
  BY <1>1, CostAdds DEF Escrow
<1>3. /\ rest = IF n = o.quantity THEN NoOffer ELSE [o EXCEPT !.quantity = o.quantity - n]
      /\ \A k \in OfferId : k # i => u.offer[k] = t.offer[k]
      /\ u.balance = [t.balance EXCEPT ![o.account] = t.balance[o.account] + paid]
  BY ReducedOffer
<1>4. u \in Books
  BY LedgerOfReduced
<1> HIDE DEF u, paid
<1>5. SetAside(u, a)[i] - SetAside(t, a)[i] = IF o.account = a THEN -paid ELSE 0
  <2>1. /\ SetAside(t, a)[i] = IF o.account = a THEN Escrow(o) ELSE 0
        /\ SetAside(u, a)[i] = IF rest.account = a THEN Escrow(rest) ELSE 0
    BY DEF SetAside
  <2>2. CASE n = o.quantity
    <3>1. Escrow(rest) = 0
      BY <1>3, <2>2, NoOfferRow
    <3>2. Escrow(o) = paid
      BY <2>2 DEF paid, Escrow
    <3> QED BY <1>2, <2>1, <3>1, <3>2
  <2>3. CASE n # o.quantity
    <3>1. /\ rest.account = o.account /\ rest.side = o.side /\ rest.price = o.price
          /\ rest.quantity = o.quantity - n
      BY <1>1, <1>3, <2>3 DEF OfferRow
    <3>2. Escrow(rest) = Escrow(o) - paid
      BY <1>2, <3>1 DEF Escrow
    <3> QED BY <1>2, <2>1, <3>1, <3>2
  <2> QED BY <2>2, <2>3
<1>6. Reserved(u, a) = Reserved(t, a) + (IF o.account = a THEN -paid ELSE 0)
      /\ Reserved(t, a) \in Int
  BY <1>3, <1>4, <1>5, OneOffer
<1>7. u.balance[a] = t.balance[a] + (IF o.account = a THEN paid ELSE 0) /\ t.balance[a] \in Int
  BY <1>2, <1>3 DEF Books
<1> QED BY <1>2, <1>6, <1>7 DEF u

(* Making an offer moves them the other way. *)
LEMMA MadeWealth ==
    ASSUME NEW t \in Books, NEW i \in OfferId, NEW o \in OfferRow, t.offer[i].quantity = 0,
           NEW a \in Account
    PROVE  LET u == MakeOffer(t, i, o)
           IN  u.balance[a] + Reserved(u, a) = t.balance[a] + Reserved(t, a)
<1> DEFINE u == MakeOffer(t, i, o)
           b == o.account
           e == Escrow(o)
           v == Debit(t, b, e)
<1>1. b \in Account /\ e \in Nat /\ e \in Int
  BY EscrowType DEF OfferRow
<1>2. u \in Books /\ u.offer = [t.offer EXCEPT ![i] = o]
  BY MakeOfferEffect, MadeOffer
<1> HIDE DEF b, e
<1>3. v.balance = [t.balance EXCEPT ![b] = t.balance[b] - e] /\ v \in Books
  <2>1. v.balance = [t.balance EXCEPT ![b] = t.balance[b] - e]
    BY <1>1, DebitBalance
  <2>2. v \in Books
    BY <1>1, DebitEffect
  <2> QED BY <2>1, <2>2
<1>4. u.balance = v.balance
  <2>1. u = [v EXCEPT !.offer[i] = o]
    BY DEF MakeOffer, b, e
  <2> HIDE DEF u, v
  <2> QED BY <1>3, <2>1 DEF Books
<1> HIDE DEF u, v
<1>5. t.offer \in [OfferId -> OfferRow] /\ t.balance \in [Account -> Int]
  BY DEF Books
<1>6. /\ SetAside(t, a)[i] = 0
      /\ SetAside(u, a)[i] = IF b = a THEN e ELSE 0
  <2>1. Escrow(t.offer[i]) = 0
    <3>1. t.offer[i].price \in Price /\ 0 \in Nat /\ 0 <= 0
      BY <1>5 DEF OfferRow
    <3>2. Cost(t.offer[i].side, t.offer[i].price, 0) = 0
      BY <3>1, CostAdds
    <3> QED BY <3>2 DEF Escrow
  <2>2. u.offer[i] = o
    BY <1>2, <1>5
  <2> QED BY <2>1, <2>2 DEF SetAside, b, e
<1>7. \A k \in OfferId : k # i => u.offer[k] = t.offer[k]
  BY <1>2, <1>5
<1>8. Reserved(u, a) = Reserved(t, a) + (IF b = a THEN e ELSE 0) /\ Reserved(t, a) \in Int
  <2>1. /\ Reserved(u, a) = Reserved(t, a) + (SetAside(u, a)[i] - SetAside(t, a)[i])
        /\ Reserved(t, a) \in Int
    <3>1. u \in Books
      BY <1>2
    <3> QED BY ONLY <1>7, <3>1, t \in Books, i \in OfferId, a \in Account, OneOffer, Zenon
  <2> QED BY <1>1, <1>6, <2>1
<1>9. u.balance[a] = t.balance[a] - (IF b = a THEN e ELSE 0) /\ t.balance[a] \in Int
  BY <1>1, <1>3, <1>4, <1>5
<1> QED BY <1>1, <1>8, <1>9 DEF u

(* A contract moves units between its sides and leaves everybody as rich   *)
(* as before at its price, one account on both sides included.             *)
LEMMA ContractWealth ==
    ASSUME NEW t \in Books, NEW c \in ContractType, NEW f \in Account, NEW u \in Account,
           NEW price \in Price, NEW n \in Nat
    PROVE  LET v == MakeContract(t, c, f, u, price, n)
           IN  /\ \A b \in Account :
                     /\ v.position[c][b].quantity = t.position[c][b].quantity
                           + ((IF b = f THEN n ELSE 0) - (IF b = u THEN n ELSE 0))
                     /\ v.balance[b] + Worth(v.position[c][b].quantity, price) =
                           t.balance[b] + Worth(t.position[c][b].quantity, price)
               /\ \A d \in ContractType \ {c} : v.position[d] = t.position[d]
<1> DEFINE p == FixedPersisted(t, c, f, price, n)
           r == Persisted(t, c, f, u, price, n)
           fc == FixedCharge(t, c, f, price, n)
           uc == UnfixedCharge(t, c, f, u, price, n)
           w == Debit(r, f, fc)
           v == Debit(w, u, uc)
           m == -n
           other == Unit - price
           q0 == t.position[c][f].quantity
           q1 == p.position[c][u].quantity
<1>1. price \in Nat /\ other \in Nat /\ m \in Int /\ n \in Int
  BY DEF Price, Unit
<1>2. /\ p \in Books /\ p.balance = t.balance /\ Moved(t, p, c, f)
      /\ p.position[c][f].quantity = q0 + n /\ q0 \in Int
  <2> DEFINE z == [t EXCEPT !.position[c][f] = PersistSide(t.position[c][f], price, n)]
  <2>1. /\ z \in Books /\ z.balance = t.balance /\ Moved(t, z, c, f)
        /\ z.position[c][f].quantity = q0 + n /\ q0 \in Int
    BY <1>1, PersistEffect
  <2>2. p = z
    BY DEF FixedPersisted
  <2> HIDE DEF p, z
  <2> QED BY <2>1, <2>2
<1>3. r = [p EXCEPT !.position[c][u] = PersistSide(p.position[c][u], other, m)]
  BY DEF Persisted
<1>4. fc = price * n - Unit * Covered(q0, n) /\ uc = (Unit - price) * n - Unit * Covered(q1, -n)
  BY DEF FixedCharge, UnfixedCharge
<1>5. MakeContract(t, c, f, u, price, n) = v
  BY DEF MakeContract, FixedCharged
<1> HIDE DEF p, r, other, fc, uc
<1>6. /\ r \in Books /\ r.balance = p.balance /\ Moved(p, r, c, u)
      /\ r.position[c][u].quantity = q1 + (-n) /\ q1 \in Int
  <2>1. p \in Books
    BY <1>2
  <2> DEFINE z == [p EXCEPT !.position[c][u] = PersistSide(p.position[c][u], other, m)]
  <2>2. /\ z \in Books /\ z.balance = p.balance /\ Moved(p, z, c, u)
        /\ z.position[c][u].quantity = p.position[c][u].quantity + m
        /\ p.position[c][u].quantity \in Int
    BY <1>1, <2>1, PersistEffect
  <2>3. r = z
    BY <1>3
  <2> HIDE DEF z
  <2> QED BY <2>2, <2>3
<1>7. fc \in Int /\ Worth(q0, price) \in Int /\ Worth(q0 + n, price) = Worth(q0, price) + fc
  BY <1>2, <1>4, SideWorth
<1>8. uc \in Int /\ Worth(q1, price) \in Int /\ Worth(q1 + (-n), price) = Worth(q1, price) + uc
  BY <1>4, <1>6, SideWorth
<1>9. w \in Books /\ w.position = r.position
      /\ w.balance = [r.balance EXCEPT ![f] = r.balance[f] - fc]
  <2>1. r \in Books /\ fc \in Int
    BY <1>6, <1>7
  <2>2. w \in Books /\ w.position = r.position
    BY <2>1, DebitEffect
  <2>3. w.balance = [r.balance EXCEPT ![f] = r.balance[f] - fc]
    BY <2>1, DebitBalance
  <2> QED BY <2>2, <2>3
<1> HIDE DEF w
<1>10. /\ v.position = w.position
       /\ v.balance = [w.balance EXCEPT ![u] = w.balance[u] - uc]
  <2>1. w \in Books /\ uc \in Int
    BY <1>8, <1>9
  <2>2. v.position = w.position
    BY <2>1, DebitEffect
  <2>3. v.balance = [w.balance EXCEPT ![u] = w.balance[u] - uc]
    BY <2>1, DebitBalance
  <2> QED BY <2>2, <2>3
<1> HIDE DEF v
<1>11. \A b \in Account :
          /\ t.position[c][b].quantity \in Int
          /\ Worth(t.position[c][b].quantity, price) \in Int
  <2> TAKE b \in Account
  <2>1. t.position[c][b].quantity \in Int
    BY DEF Books, Holding
  <2> QED BY <2>1, SideWorth
<1>12. ASSUME NEW b \in Account
       PROVE  /\ v.position[c][b].quantity = t.position[c][b].quantity
                    + ((IF b = f THEN n ELSE 0) - (IF b = u THEN n ELSE 0))
              /\ v.balance[b] + Worth(v.position[c][b].quantity, price) =
                    t.balance[b] + Worth(t.position[c][b].quantity, price)
  <2> DEFINE x == t.position[c][b].quantity
             y == p.position[c][b].quantity
             z == r.position[c][b].quantity
  <2>1. x \in Int /\ Worth(x, price) \in Int
    BY <1>11
  <2>2. y = x + (IF b = f THEN n ELSE 0)
        /\ Worth(y, price) = Worth(x, price) + (IF b = f THEN fc ELSE 0)
    BY <1>1, <1>2, <1>7, <2>1 DEF Moved
  <2>3. z = y - (IF b = u THEN n ELSE 0)
        /\ Worth(z, price) = Worth(y, price) + (IF b = u THEN uc ELSE 0)
    BY <1>1, <1>6, <1>7, <1>8, <2>1, <2>2 DEF Moved
  <2>4. /\ v.position[c][b].quantity = z
        /\ v.balance[b] = t.balance[b] - (IF b = f THEN fc ELSE 0) - (IF b = u THEN uc ELSE 0)
        /\ t.balance[b] \in Int
    <3>1. t.balance \in [Account -> Int]
      BY DEF Books
    <3>2. /\ w.balance[b] = t.balance[b] - (IF b = f THEN fc ELSE 0)
          /\ w.balance \in [Account -> Int]
      BY <1>2, <1>6, <1>7, <1>9, <3>1
    <3>3. v.balance[b] = w.balance[b] - (IF b = u THEN uc ELSE 0)
      BY <1>8, <1>10, <3>2
    <3> QED BY <1>7, <1>8, <1>9, <1>10, <3>1, <3>2, <3>3
  <2> HIDE DEF x, y, z
  <2>5. v.position[c][b].quantity = x + ((IF b = f THEN n ELSE 0) - (IF b = u THEN n ELSE 0))
    BY <1>1, <2>1, <2>2, <2>3, <2>4
  <2>6. v.balance[b] + Worth(v.position[c][b].quantity, price) = t.balance[b] + Worth(x, price)
    BY <1>7, <1>8, <2>1, <2>2, <2>3, <2>4
  <2> QED BY <2>5, <2>6 DEF x
<1>13. \A d \in ContractType \ {c} : v.position[d] = t.position[d]
  BY <1>2, <1>6, <1>9, <1>10 DEF Moved
<1> QED BY <1>5, <1>12, <1>13

(***************************************************************************)
(* What an order has taken.                                                *)
(***************************************************************************)
(* An order has used up the offers in filled, and those in gone were       *)
(* withdrawn; nothing else happened to the book.                           *)
UsedUp(t, u, gone, filled) ==
    /\ gone \subseteq Open(t) /\ filled \subseteq Open(t) /\ gone \cap filled = {}
    /\ u.offer = [k \in OfferId |-> IF k \in gone \cup filled THEN NoOffer ELSE t.offer[k]]

(* The units taken are whole numbers. *)
LEMMA TakenTypes ==
    ASSUME NEW t \in Books, NEW u \in Books, NEW filled, NEW a \in Account
    PROVE  /\ \A k \in OfferId : GivenUp(t, u, a, filled)[k] \in Int /\ Taken(t, u, k) \in Int
           /\ TakenFrom(t, u, a, filled) \in Int
<1>1. \A k \in OfferId : t.offer[k].quantity \in Int /\ u.offer[k].quantity \in Int
  BY DEF Books, OfferRow
<1>2. \A k \in OfferId : Taken(t, u, k) \in Int
  BY <1>1 DEF Taken
<1> DEFINE f == GivenUp(t, u, a, filled)
<1>3. \A k \in 1..MaxOrders : f[k] \in Int
  BY <1>2, Sizes DEF GivenUp
<1> HIDE DEF f
<1>4. SumTo(f, MaxOrders) \in Int
  BY <1>3, Sizes, SumToInt
<1> QED BY <1>2, <1>3, <1>4, Sizes DEF f, TakenFrom

(* Taking n units from one more offer counts them for its owner. *)
LEMMA TakenMore ==
    ASSUME NEW t \in Books, NEW u \in Books, NEW v \in Books, NEW filled,
           NEW i \in OfferId, i \notin filled, NEW n \in Nat,
           \A k \in OfferId : k # i => v.offer[k] = u.offer[k],
           Taken(t, v, i) = n
    PROVE  LET more == filled \cup {i}
           IN  /\ \A a \in Account :
                     TakenFrom(t, v, a, more) = TakenFrom(t, u, a, filled)
                                                + (IF a = t.offer[i].account THEN n ELSE 0)
               /\ TakenAll(t, v, more) = TakenAll(t, u, filled) + n
<1> DEFINE more == filled \cup {i}
           b == t.offer[i].account
<1>1. ASSUME NEW a \in Account
      PROVE  /\ TakenFrom(t, v, a, more) = TakenFrom(t, u, a, filled) + (IF a = b THEN n ELSE 0)
             /\ TakenFrom(t, v, a, more) \in Int /\ TakenFrom(t, u, a, filled) \in Int
  <2> DEFINE f == GivenUp(t, u, a, filled)
             g == GivenUp(t, v, a, more)
  <2>1. \A k \in 1..MaxOrders : f[k] \in Int /\ g[k] \in Int
    BY TakenTypes, Sizes
  <2>2. \A k \in 1..MaxOrders : k # i => g[k] = f[k]
    BY Sizes DEF GivenUp, Taken
  <2>3. f[i] = 0 /\ g[i] = (IF a = b THEN n ELSE 0) /\ i \in 1..MaxOrders
    BY Sizes DEF GivenUp
  <2>4. TakenFrom(t, u, a, filled) \in Int
    BY TakenTypes
  <2> HIDE DEF f, g, b
  <2>5. SumTo(g, MaxOrders) = SumTo(f, MaxOrders) + (g[i] - f[i])
    BY <2>1, <2>2, <2>3, Sizes, SumToChange
  <2>6. SumTo(f, MaxOrders) = TakenFrom(t, u, a, filled)
        /\ SumTo(g, MaxOrders) = TakenFrom(t, v, a, more)
    BY DEF f, g, TakenFrom
  <2> QED BY <2>3, <2>4, <2>5, <2>6
<1>2. TakenAll(t, v, more) = TakenAll(t, u, filled) + n
  <2> DEFINE f == [a \in Account |-> TakenFrom(t, u, a, filled)]
             g == [a \in Account |-> TakenFrom(t, v, a, more)]
  <2>1. b \in Account
    BY DEF Books, OfferRow
  <2> HIDE DEF b, more
  <2>2. \A a \in 1..NumAccounts : f[a] \in Int /\ g[a] \in Int
    BY <1>1, Sizes
  <2>3. \A a \in 1..NumAccounts : a # b => g[a] = f[a]
    BY <1>1, Sizes
  <2>4. g[b] = f[b] + n /\ b \in 1..NumAccounts
    BY <1>1, <2>1, Sizes
  <2>5. SumTo(f, NumAccounts) = TakenAll(t, u, filled) /\ SumTo(g, NumAccounts) = TakenAll(t, v, more)
    BY DEF TakenAll
  <2> HIDE DEF f, g
  <2>6. SumTo(g, NumAccounts) = SumTo(f, NumAccounts) + (g[b] - f[b])
    BY <2>2, <2>3, <2>4, Sizes, SumToChange
  <2>7. f[b] \in Int /\ SumTo(f, NumAccounts) \in Int
    BY <2>2, <2>4, Sizes, SumToInt
  <2> QED BY <2>4, <2>5, <2>6, <2>7
<1> QED BY <1>1, <1>2

(* What is left of the tables when an offer is reduced. *)
LEMMA ReducedTables ==
    ASSUME NEW t \in Books, NEW i \in OfferId, NEW n \in Nat, n <= t.offer[i].quantity
    PROVE  LET r == ReduceOffer(t, i, n)
           IN  /\ r \in Books /\ r.position = t.position /\ r.fees = t.fees
               /\ r.offer[i] = IF n = t.offer[i].quantity THEN NoOffer
                               ELSE [t.offer[i] EXCEPT !.quantity = t.offer[i].quantity - n]
               /\ \A k \in OfferId : k # i => r.offer[k] = t.offer[k]
               /\ \A b \in Account, c \in ContractType, price \in Price :
                     Wealth(r, b, c, price) = Wealth(t, b, c, price)
<1> DEFINE r == ReduceOffer(t, i, n)
<1>1. r \in Books /\ r.position = t.position /\ r.fees = t.fees
  BY ReduceOfferEffect, AllFixedType
<1>2. /\ r.offer[i] = IF n = t.offer[i].quantity THEN NoOffer
                      ELSE [t.offer[i] EXCEPT !.quantity = t.offer[i].quantity - n]
      /\ \A k \in OfferId : k # i => r.offer[k] = t.offer[k]
  <2> DEFINE o == t.offer[i]
  <2>1. /\ r.offer[i] = IF n = o.quantity THEN NoOffer ELSE [o EXCEPT !.quantity = o.quantity - n]
        /\ \A k \in OfferId : k # i => r.offer[k] = t.offer[k]
        /\ r.position = t.position
        /\ r.balance = [t.balance EXCEPT ![o.account] =
                           t.balance[o.account] + Cost(o.side, o.price, n)]
        /\ Cost(o.side, o.price, n) \in Nat
    BY ONLY t \in Books, i \in OfferId, n \in Nat, n <= t.offer[i].quantity, ReducedOffer, Zenon
  <2> QED BY <2>1, Zenon
<1>3. \A b \in Account : r.balance[b] + Reserved(r, b) = t.balance[b] + Reserved(t, b)
  BY ReducedWealth
<1> HIDE DEF r
<1>4. \A b \in Account, c \in ContractType, price \in Price :
         Wealth(r, b, c, price) = Wealth(t, b, c, price)
  BY <1>1, <1>3 DEF Wealth
<1> QED BY <1>1, <1>2, <1>4 DEF r

(* The tokens an account has set aside are a whole number. *)
LEMMA ReservedType == ASSUME NEW t \in Books, NEW a \in Account PROVE Reserved(t, a) \in Int
<1> DEFINE f == SetAside(t, a)
<1>1. \A k \in OfferId : t.offer[k] \in OfferRow
  BY DEF Books
<1>2. \A k \in OfferId : Escrow(t.offer[k]) \in Int
  BY <1>1, EscrowType
<1>3. \A k \in 1..MaxOrders : f[k] \in Int
  BY <1>2, Sizes DEF SetAside
<1> HIDE DEF f
<1>4. SumTo(f, MaxOrders) \in Int
  BY <1>3, Sizes, SumToInt
<1> QED BY <1>4 DEF f, Reserved

(* What a contract does to the tables. *)
LEMMA ContractTables ==
    ASSUME NEW t \in Books, NEW c \in ContractType, NEW f \in Account, NEW h \in Account,
           NEW price \in Price, NEW n \in Nat
    PROVE  LET v == MakeContract(t, c, f, h, price, n)
           IN  /\ v \in Books /\ v.offer = t.offer /\ v.fees = t.fees
               /\ \A b \in Account :
                     /\ v.position[c][b].quantity = t.position[c][b].quantity
                           + ((IF b = f THEN n ELSE 0) - (IF b = h THEN n ELSE 0))
                     /\ Wealth(v, b, c, price) = Wealth(t, b, c, price)
               /\ \A d \in ContractType \ {c} : v.position[d] = t.position[d]
<1> DEFINE v == MakeContract(t, c, f, h, price, n)
<1>1. v \in Books /\ v.offer = t.offer /\ v.fees = t.fees
  BY MakeContractEffect
<1>2. /\ \A b \in Account :
            /\ v.position[c][b].quantity = t.position[c][b].quantity
                  + ((IF b = f THEN n ELSE 0) - (IF b = h THEN n ELSE 0))
            /\ v.balance[b] + Worth(v.position[c][b].quantity, price) =
                  t.balance[b] + Worth(t.position[c][b].quantity, price)
      /\ \A d \in ContractType \ {c} : v.position[d] = t.position[d]
  BY ContractWealth
<1> HIDE DEF v
<1>3. ASSUME NEW b \in Account PROVE Wealth(v, b, c, price) = Wealth(t, b, c, price)
  <2> DEFINE x == Worth(t.position[c][b].quantity, price)
             y == Worth(v.position[c][b].quantity, price)
             had == t.balance[b]
             has == v.balance[b]
             aside == Reserved(t, b)
  <2>1. Reserved(v, b) = aside
    BY <1>1 DEF Reserved, SetAside
  <2>2. x \in Int /\ y \in Int
    <3>1. t.position[c][b].quantity \in Int /\ v.position[c][b].quantity \in Int
      BY <1>1 DEF Books, Holding
    <3> QED BY <3>1, SideWorth
  <2>3. had \in Int /\ has \in Int
    BY <1>1 DEF Books
  <2>4. aside \in Int
    BY ReservedType
  <2>5. has + y = had + x
    BY <1>2
  <2>6. Wealth(v, b, c, price) = has + aside + y /\ Wealth(t, b, c, price) = had + aside + x
    BY <2>1 DEF Wealth
  <2> HIDE DEF x, y, had, has, aside
  <2> QED BY <2>2, <2>3, <2>4, <2>5, <2>6
<1> QED BY <1>1, <1>2, <1>3 DEF v

(* A contract made from an offer leaves everybody as rich as before at its *)
(* price, whoever's offer it is.                                           *)
LEMMA FillWealth ==
    ASSUME NEW t \in Books, NEW i \in OfferId, NEW n \in Nat, n <= t.offer[i].quantity,
           NEW c \in ContractType, NEW f \in Account, NEW h \in Account, NEW price \in Price
    PROVE  LET v == MakeContract(ReduceOffer(t, i, n), c, f, h, price, n)
           IN  /\ v \in Books /\ v.fees = t.fees
               /\ v.offer[i] = IF n = t.offer[i].quantity THEN NoOffer
                               ELSE [t.offer[i] EXCEPT !.quantity = t.offer[i].quantity - n]
               /\ \A k \in OfferId : k # i => v.offer[k] = t.offer[k]
               /\ \A b \in Account :
                     /\ v.position[c][b].quantity = t.position[c][b].quantity
                           + ((IF b = f THEN n ELSE 0) - (IF b = h THEN n ELSE 0))
                     /\ Wealth(v, b, c, price) = Wealth(t, b, c, price)
               /\ \A d \in ContractType \ {c} : v.position[d] = t.position[d]
<1> DEFINE r == ReduceOffer(t, i, n)
           v == MakeContract(r, c, f, h, price, n)
<1>1. /\ r \in Books /\ r.position = t.position /\ r.fees = t.fees
      /\ r.offer[i] = IF n = t.offer[i].quantity THEN NoOffer
                      ELSE [t.offer[i] EXCEPT !.quantity = t.offer[i].quantity - n]
      /\ \A k \in OfferId : k # i => r.offer[k] = t.offer[k]
      /\ \A b \in Account, d \in ContractType, q \in Price : Wealth(r, b, d, q) = Wealth(t, b, d, q)
  BY ReducedTables
<1> HIDE DEF r
<1>2. /\ v \in Books /\ v.offer = r.offer /\ v.fees = r.fees
      /\ \A b \in Account :
            /\ v.position[c][b].quantity = r.position[c][b].quantity
                  + ((IF b = f THEN n ELSE 0) - (IF b = h THEN n ELSE 0))
            /\ Wealth(v, b, c, price) = Wealth(r, b, c, price)
      /\ \A d \in ContractType \ {c} : v.position[d] = r.position[d]
  <2>1. r \in Books
    BY <1>1
  <2> QED BY <2>1, ContractTables
<1> HIDE DEF v
<1>3. v \in Books /\ v.fees = t.fees /\ v.offer = r.offer
  BY <1>1, <1>2
<1>4. /\ \A b \in Account :
            /\ v.position[c][b].quantity = t.position[c][b].quantity
                  + ((IF b = f THEN n ELSE 0) - (IF b = h THEN n ELSE 0))
            /\ Wealth(v, b, c, price) = Wealth(t, b, c, price)
      /\ \A d \in ContractType \ {c} : v.position[d] = t.position[d]
  BY <1>1, <1>2
<1> QED BY <1>1, <1>3, <1>4 DEF v, r

(* An order o takes n units from offer i at its own price. *)
Takes(u, v, o, i, n) ==
    LET p == u.offer[i]
        f == IF o.side = FIXED THEN o.account ELSE p.account
        h == IF o.side = FIXED THEN p.account ELSE o.account
    IN  /\ Exists(u, i) /\ Suits(o, p)
        /\ n > 0 /\ n <= p.quantity /\ (p.aon => n = p.quantity)
        /\ v.fees = u.fees
        /\ v.offer[i] = IF n = p.quantity THEN NoOffer ELSE [p EXCEPT !.quantity = p.quantity - n]
        /\ \A k \in OfferId : k # i => v.offer[k] = u.offer[k]
        /\ \A b \in Account :
              /\ v.position[o.ct][b].quantity = u.position[o.ct][b].quantity
                    + ((IF b = f THEN n ELSE 0) - (IF b = h THEN n ELSE 0))
              /\ Wealth(v, b, o.ct, o.price) = Wealth(u, b, o.ct, o.price)
        /\ \A d \in ContractType \ {o.ct} : v.position[d] = u.position[d]

(* It does so after taking total units from the offers in filled. *)
TakesMore(t, u, v, o, gone, filled, total, i, n) ==
    /\ t \in Books /\ u \in Books /\ v \in Books /\ o \in OfferRow
    /\ total \in Nat /\ i \in OfferId /\ n \in Nat
    /\ UsedUp(t, u, gone, filled) /\ Exchanged(t, u, o, gone, filled, total)
    /\ Takes(u, v, o, i, n)
    /\ total + n <= o.quantity /\ (o.aon => total + n = o.quantity)

(* One more fill of an order. *)
LEMMA ExchangedMore ==
    ASSUME NEW t, NEW u, NEW v, NEW o, NEW gone, NEW filled, NEW total, NEW i, NEW n,
           TakesMore(t, u, v, o, gone, filled, total, i, n)
    PROVE  LET more == filled \cup {i}
           IN  /\ TakenAll(t, v, more) = TakenAll(t, u, filled) + n
               /\ Exchanged(t, v, o, gone, more, total + n)
               /\ more \subseteq Open(t) /\ gone \cap more = {} /\ gone \subseteq Open(t)
<1> DEFINE more == filled \cup {i}
           p == u.offer[i]
           f == IF o.side = FIXED THEN o.account ELSE p.account
           h == IF o.side = FIXED THEN p.account ELSE o.account
<1> t \in Books /\ u \in Books /\ v \in Books /\ o \in OfferRow
  BY DEF TakesMore
<1> total \in Nat /\ i \in OfferId /\ n \in Nat
  BY DEF TakesMore
<1> UsedUp(t, u, gone, filled) /\ Exchanged(t, u, o, gone, filled, total)
  BY DEF TakesMore
<1> total + n <= o.quantity /\ (o.aon => total + n = o.quantity)
  BY DEF TakesMore
<1>0. /\ Exists(u, i) /\ Suits(o, p) /\ n > 0 /\ n <= p.quantity
      /\ p.aon => n = p.quantity
      /\ v.fees = u.fees
      /\ v.offer[i] = IF n = p.quantity THEN NoOffer ELSE [p EXCEPT !.quantity = p.quantity - n]
      /\ \A k \in OfferId : k # i => v.offer[k] = u.offer[k]
      /\ \A b \in Account :
            /\ v.position[o.ct][b].quantity = u.position[o.ct][b].quantity
                  + ((IF b = f THEN n ELSE 0) - (IF b = h THEN n ELSE 0))
            /\ Wealth(v, b, o.ct, o.price) = Wealth(u, b, o.ct, o.price)
      /\ \A d \in ContractType \ {o.ct} : v.position[d] = u.position[d]
  BY DEF TakesMore, Takes
<1>1. /\ o.quantity \in Nat /\ o.account \in Account /\ o.ct \in ContractType
      /\ p \in OfferRow /\ p.quantity \in Nat /\ p.account \in Account
  BY DEF Books, OfferRow
<1>2. /\ i \notin filled /\ i \notin gone /\ p = t.offer[i] /\ i \in Open(t)
      /\ gone \subseteq Open(t) /\ filled \subseteq Open(t) /\ gone \cap filled = {}
  <2>1. i \notin gone \cup filled
    BY <1>0 DEF UsedUp, Exists, NoOffer
  <2>2. p = t.offer[i]
    BY <2>1 DEF UsedUp
  <2> QED BY <1>0, <2>1, <2>2 DEF UsedUp, Open, Exists
<1>3. v.offer[i].quantity = p.quantity - n /\ Taken(t, v, i) = n
  <2>1. v.offer[i].quantity = p.quantity - n
    <3>1. CASE n = p.quantity
      BY <1>0, <1>1, <3>1 DEF NoOffer
    <3>2. CASE n # p.quantity
      BY <1>0, <1>1, <3>2 DEF OfferRow
    <3> QED BY <3>1, <3>2
  <2>2. t.offer[i].quantity = p.quantity
    BY <1>2
  <2> QED BY <1>1, <2>1, <2>2 DEF Taken
<1>4. /\ \A a \in Account :
            TakenFrom(t, v, a, more) = TakenFrom(t, u, a, filled) + (IF a = p.account THEN n ELSE 0)
      /\ TakenAll(t, v, more) = TakenAll(t, u, filled) + n
  <2>1. p.account = t.offer[i].account
    BY <1>2
  <2>2. i \notin filled /\ Taken(t, v, i) = n
    BY <1>2, <1>3
  <2>3. /\ \A a \in Account :
              TakenFrom(t, v, a, more) = TakenFrom(t, u, a, filled)
                                         + (IF a = t.offer[i].account THEN n ELSE 0)
        /\ TakenAll(t, v, more) = TakenAll(t, u, filled) + n
    BY <1>0, <2>2, TakenMore
  <2> QED BY <2>1, <2>3
<1>5. PositionsAfter(t, v, o, more, total + n)
  <2> DEFINE sign == IF o.side = FIXED THEN 1 ELSE -1
  <2>1. ASSUME NEW b \in Account
        PROVE  v.position[o.ct][b].quantity = t.position[o.ct][b].quantity
                 + sign * ((IF b = o.account THEN total + n ELSE 0) - TakenFrom(t, v, b, more))
    <3> DEFINE x == t.position[o.ct][b].quantity
               y == u.position[o.ct][b].quantity
               z == v.position[o.ct][b].quantity
               taken == TakenFrom(t, u, b, filled)
               trader == IF b = o.account THEN n ELSE 0
               owner == IF b = p.account THEN n ELSE 0
               had == IF b = o.account THEN total ELSE 0
               has == IF b = o.account THEN total + n ELSE 0
    <3>1. x \in Int /\ y \in Int
      BY <1>1 DEF Books, Holding
    <3>2. taken \in Int
      BY TakenTypes
    <3>3. trader \in Int /\ owner \in Int /\ had \in Int /\ has = had + trader
      OBVIOUS
    <3>4. y = x + sign * (had - taken)
      BY <1>1 DEF Exchanged, PositionsAfter
    <3>5. z = y + ((IF b = f THEN n ELSE 0) - (IF b = h THEN n ELSE 0))
      BY <1>0
    <3>6. TakenFrom(t, v, b, more) = taken + owner
      BY <1>4
    <3>7. z = y + sign * (trader - owner)
      <4>1. CASE o.side = FIXED
        <5>1. f = o.account /\ h = p.account /\ sign = 1
          BY <4>1
        <5>2. z = y + (trader - owner)
          BY <3>5, <5>1
        <5> HIDE DEF x, y, z, trader, owner
        <5> QED BY <3>1, <3>3, <5>1, <5>2
      <4>2. CASE o.side # FIXED
        <5>1. f = p.account /\ h = o.account /\ sign = -1
          BY <4>2
        <5>2. z = y + (owner - trader)
          BY <3>5, <5>1
        <5> HIDE DEF x, y, z, trader, owner
        <5> QED BY <3>1, <3>3, <5>1, <5>2
      <4> QED BY <4>1, <4>2
    <3>8. sign \in {1, -1}
      OBVIOUS
    <3> HIDE DEF x, y, z, taken, trader, owner, had, has, sign
    <3>9. z = x + sign * (has - (taken + owner))
      <4>1. CASE sign = 1
        BY <3>1, <3>2, <3>3, <3>4, <3>7, <4>1
      <4>2. CASE sign = -1
        BY <3>1, <3>2, <3>3, <3>4, <3>7, <4>2
      <4> QED BY <3>8, <4>1, <4>2
    <3> QED BY <3>6, <3>9 DEF x, z, has
  <2>2. ASSUME NEW d \in ContractType \ {o.ct}, NEW b \in Account
        PROVE  v.position[d][b] = t.position[d][b]
    <3>1. u.position[d][b] = t.position[d][b]
      BY DEF Exchanged, PositionsAfter
    <3>2. v.position[d] = u.position[d]
      BY <1>0
    <3> QED BY <3>1, <3>2
  <2>3. ASSUME NEW d \in ContractType, NEW b \in Account
        PROVE  IF d = o.ct
               THEN v.position[d][b].quantity = t.position[d][b].quantity
                      + sign * ((IF b = o.account THEN total + n ELSE 0) - TakenFrom(t, v, b, more))
               ELSE v.position[d][b] = t.position[d][b]
    <3> HIDE DEF sign, more
    <3>1. CASE d = o.ct
      BY <2>1, <3>1
    <3>2. CASE d # o.ct
      BY <2>2, <3>2
    <3> QED BY <3>1, <3>2
  <2> QED BY ONLY <2>3 DEF PositionsAfter
<1>6. FairAt(t, v, o.ct, o.price)
  BY <1>0 DEF Exchanged, FairAt
<1>7. \A k \in more : Filled(t, v, o, k)
  <2>1. ASSUME NEW k \in filled PROVE Filled(t, v, o, k)
    <3>1. k \in OfferId /\ k # i
      <4>1. k \in Open(t) /\ k # i
        BY <1>2
      <4> QED BY <4>1 DEF Open
    <3>2. v.offer[k] = u.offer[k]
      BY <1>0, <3>1
    <3>3. Filled(t, u, o, k)
      BY DEF Exchanged
    <3> QED BY <3>2, <3>3 DEF Filled, Taken
  <2>2. Filled(t, v, o, i)
    <3>1. Suits(o, t.offer[i]) /\ Taken(t, v, i) > 0
      BY <1>0, <1>2, <1>3
    <3>2. CASE n = p.quantity
      <4>1. v.offer[i] = NoOffer
        BY <1>0, <3>2
      <4> QED BY <3>1, <4>1 DEF Filled
    <3>3. CASE n # p.quantity
      <4>1. ~ t.offer[i].aon
        BY <1>0, <1>2, <3>3
      <4>2. v.offer[i] = [t.offer[i] EXCEPT !.quantity = t.offer[i].quantity - Taken(t, v, i)]
        <5>1. v.offer[i] = [p EXCEPT !.quantity = p.quantity - n]
          BY <1>0, <3>3
        <5> HIDE DEF p
        <5> QED BY <1>2, <1>3, <5>1
      <4> QED BY <3>1, <4>1, <4>2 DEF Filled
    <3> QED BY <3>2, <3>3
  <2> QED BY <2>1, <2>2
<1>8. \A k \in Open(t) \ gone : k \in more \/ v.offer[k] = t.offer[k]
  <2>1. \A k \in Open(t) \ gone : k \in filled \/ u.offer[k] = t.offer[k]
    BY DEF Exchanged
  <2> QED BY <1>0, <2>1 DEF Open
<1>9. total + n <= o.quantity /\ (o.aon => total + n = o.quantity)
  OBVIOUS
<1>10. v.fees = t.fees
  BY <1>0 DEF Exchanged
<1>11. Exchanged(t, v, o, gone, more, total + n)
  BY <1>5, <1>6, <1>7, <1>8, <1>9, <1>10 DEF Exchanged
<1> QED BY <1>2, <1>4, <1>11

(***************************************************************************)
(* What an open transaction has done so far.                               *)
(***************************************************************************)
(* Outside an order it has withdrawn offers. *)
BetweenInv ==
    order.quantity = 0 /\ stage # "pay" =>
        \E gone \in SUBSET (Open(db) \ Open(tx)) : Withdrawn(db, tx, gone)

(* The order in progress is what is left of o, and every offer it has used *)
(* up so far has given what the order lacks.                               *)
Sold(o, gone, filled) ==
    /\ order = [o EXCEPT !.quantity = order.quantity]
    /\ UsedUp(db, tx, gone, filled)
    /\ TakenAll(db, tx, filled) = o.quantity - order.quantity
    /\ o.quantity - order.quantity \in Nat
    /\ Exchanged(db, tx, o, gone, filled, o.quantity - order.quantity)

(* While there is an order, it has been taking units. *)
SellingInv ==
    order.quantity > 0 =>
        \E o \in Trades, gone \in SUBSET OfferId, filled \in SUBSET OfferId : Sold(o, gone, filled)

(* resolve() has paid some accounts and not the others. *)
PaidOrNot(a) ==
    LET h == db.position[ruling.ct][a]
    IN  \/ /\ tx.position[ruling.ct][a] = h
           /\ tx.balance[a] = db.balance[a]
        \/ /\ tx.position[ruling.ct][a] = NoHolding
           /\ tx.balance[a] = db.balance[a] + Won(h, ruling.side)

(* While accounts are being paid, nothing but that has happened. *)
PayingInv ==
    stage = "pay" =>
        /\ tx.offer = db.offer
        /\ \A c \in ContractType \ {ruling.ct} : tx.position[c] = db.position[c]
        /\ \A a \in Account : PaidOrNot(a)

(* What the open transaction has done so far. *)
DealInv == BetweenInv /\ SellingInv /\ PayingInv

(***************************************************************************)
(* Tables that are equal but for the messages.                             *)
(***************************************************************************)
Same(u, t) == Agree(u, t) /\ u.fees = t.fees

(* Writing the messages to their table changes nothing else. *)
LEMMA SameFlushed ==
    ASSUME NEW t \in Books, NEW list \in Tally PROVE Same(Flushed(t, list), t)
  BY FlushedEffect DEF Same, Agree

(* Such tables have come from t in the same ways. *)
LEMMA SameDeals ==
    ASSUME NEW t, NEW u, NEW v, Same(v, u)
    PROVE  /\ Open(v) = Open(u)
           /\ \A gone : Withdrawn(t, v, gone) <=> Withdrawn(t, u, gone)
           /\ \A filled : TakenAll(t, v, filled) = TakenAll(t, u, filled)
           /\ \A o, gone, filled, total :
                 Exchanged(t, v, o, gone, filled, total) <=> Exchanged(t, u, o, gone, filled, total)
           /\ \A o, left : Rested(t, v, o, left) <=> Rested(t, u, o, left)
<1>1. v.offer = u.offer /\ v.balance = u.balance /\ v.position = u.position /\ v.fees = u.fees
  BY DEF Same, Agree
<1>2. Open(v) = Open(u)
  BY <1>1 DEF Open, Exists
<1>3. \A a : Reserved(v, a) = Reserved(u, a)
  BY <1>1 DEF Reserved, SetAside
<1>4. \A a, filled : TakenFrom(t, v, a, filled) = TakenFrom(t, u, a, filled)
  BY <1>1 DEF TakenFrom, GivenUp, Taken
<1>5. \A filled : TakenAll(t, v, filled) = TakenAll(t, u, filled)
  BY <1>4 DEF TakenAll
<1>6. \A a, c, price : Wealth(v, a, c, price) = Wealth(u, a, c, price)
  BY <1>1, <1>3 DEF Wealth
<1>7. \A c, price : FairAt(t, v, c, price) <=> FairAt(t, u, c, price)
  BY <1>6 DEF FairAt
<1>8. \A o, i : Filled(t, v, o, i) <=> Filled(t, u, o, i)
  BY <1>1 DEF Filled, Taken
<1>9. \A o, filled, total :
         PositionsAfter(t, v, o, filled, total) <=> PositionsAfter(t, u, o, filled, total)
  BY <1>1, <1>4 DEF PositionsAfter
<1>10. \A gone : Withdrawn(t, v, gone) <=> Withdrawn(t, u, gone)
  BY <1>1, <1>3 DEF Withdrawn
<1>11. \A o, left : Rested(t, v, o, left) <=> Rested(t, u, o, left)
  BY <1>1, <1>2 DEF Rested
<1>12. \A o, gone, filled, total :
          Exchanged(t, v, o, gone, filled, total) <=> Exchanged(t, u, o, gone, filled, total)
  BY <1>1, <1>7, <1>8, <1>9 DEF Exchanged
<1> QED BY <1>2, <1>5, <1>10, <1>11, <1>12

(* Nothing has been withdrawn. *)
LEMMA NothingWithdrawn == ASSUME NEW t \in Books PROVE Withdrawn(t, t, {})
  BY DEF Withdrawn, Books

(* One more offer is withdrawn. *)
LEMMA WithdrawnMore ==
    ASSUME NEW t \in Books, NEW u \in Books, NEW gone \in SUBSET (Open(t) \ Open(u)),
           Withdrawn(t, u, gone), NEW i \in OfferId, Exists(u, i)
    PROVE  LET v == ReduceOffer(u, i, u.offer[i].quantity)
               more == gone \cup {i}
           IN  more \in SUBSET (Open(t) \ Open(v)) /\ Withdrawn(t, v, more)
<1> DEFINE n == u.offer[i].quantity
           v == ReduceOffer(u, i, n)
           more == gone \cup {i}
<1>1. n \in Nat /\ n <= n
  BY DEF Books, OfferRow
<1>2. /\ v \in Books /\ v.position = u.position /\ v.fees = u.fees
      /\ v.offer[i] = NoOffer
      /\ \A k \in OfferId : k # i => v.offer[k] = u.offer[k]
  BY <1>1, ReducedTables
<1>3. \A a \in Account : v.balance[a] + Reserved(v, a) = u.balance[a] + Reserved(u, a)
  BY <1>1, ReducedWealth
<1> HIDE DEF v, n
<1>4. v.offer = [k \in OfferId |-> IF k \in more THEN NoOffer ELSE t.offer[k]]
  <2>1. u.offer = [k \in OfferId |-> IF k \in gone THEN NoOffer ELSE t.offer[k]]
    BY DEF Withdrawn
  <2>2. v.offer \in [OfferId -> OfferRow]
    BY <1>2 DEF Books
  <2> QED BY <1>2, <2>1, <2>2
<1>5. Withdrawn(t, v, more)
  BY <1>2, <1>3, <1>4 DEF Withdrawn
<1>6. i \notin gone /\ u.offer[i] = t.offer[i]
  <2>1. i \notin gone
    BY DEF Open
  <2> QED BY <2>1 DEF Withdrawn
<1>7. i \in Open(t)
  BY <1>6 DEF Open, Exists
<1>8. ~ Exists(v, i)
  BY <1>2 DEF Exists, NoOffer
<1>9. \A k \in gone : k \in Open(t) /\ k \notin Open(v)
  <2> TAKE k \in gone
  <2>1. k \in OfferId /\ k \in Open(t) /\ ~ Exists(u, k) /\ k # i
    BY <1>6 DEF Open
  <2>2. v.offer[k] = u.offer[k]
    BY <1>2, <2>1
  <2> QED BY <2>1, <2>2 DEF Open, Exists
<1>10. i \notin Open(v)
  BY <1>8 DEF Open
<1>11. more \in SUBSET (Open(t) \ Open(v))
  BY <1>7, <1>9, <1>10
<1> QED BY <1>5, <1>11 DEF v, n

(***************************************************************************)
(* The steps that a deal is made of.                                       *)
(***************************************************************************)
(* The transaction is lost. *)
Lost == db' = db /\ tx' = db /\ order'.quantity = 0

(* Outside an order, what the transaction holds is left as it is. *)
Kept == UNCHANGED <<db, tx, order>> /\ order.quantity = 0 /\ stage # "pay" /\ stage' # "pay"

(* Outside an order, what the transaction holds is committed. *)
CommitsAll ==
    /\ order.quantity = 0 /\ order'.quantity = 0
    /\ stage # "pay" \/ PayDone
    /\ Same(tx', tx) /\ db' = tx'

(* Every step is one of these. *)
LEMMA Moves ==
    ASSUME IInv, [Next]_vars
    PROVE  \/ UNCHANGED vars \/ Lost \/ Kept \/ CommitsAll \/ RestOrder
           \/ \E o \in Trades : PlaceOrder(o)
           \/ \E i \in OfferId : SkipRow(i) \/ FillRow(i) \/ Cancel(i) \/ SweepOne(i)
           \/ \E a \in Account : PayOne(a)
<1>1. tx \in Books /\ pending \in Tally /\ NoOffer.quantity = 0
  BY TypedBooks DEF IInv, TypeOK, NoOffer
<1>2. tx' = Flushed(tx, pending) => Same(tx', tx)
  BY <1>1, SameFlushed
<1>3. stage # "none" => order.quantity = 0
  BY DEF IInv, StageInv
<1>4. CASE LookupUser
  BY <1>4 DEF LookupUser, Quiet, Kept, placing, sweeping
<1>5. CASE LookupNobody
  BY <1>5 DEF LookupNobody, Quiet, Lost, placing
<1>6. CASE PersistOther
  BY <1>2, <1>6 DEF PersistOther, Quiet, FlushAndCommit, CommitsAll, placing
<1>7. CASE ListOffers
  BY <1>7 DEF ListOffers, Quiet, Kept, placing
<1>8. ASSUME NEW c \in ContractType, NEW side \in Side, Resolve(c, side) PROVE Kept
  BY <1>8 DEF Resolve, Quiet, Kept, placing
<1>9. CASE DailyCleanup
  BY <1>9 DEF DailyCleanup, Quiet, Lost, placing
<1>10. CASE (\E i \in OfferId : FillFails(i)) \/ RestFails
  BY <1>1, <1>10 DEF FillFails, RestFails, StatementFails, NoOrder, Lost
<1>11. ASSUME NEW i \in OfferId, SweepRaises(i) PROVE Lost \/ Kept
  <2>1. stage # "none" /\ stage # "pay"
    BY <1>11 DEF SweepRaises, IsQueued, IInv, StageInv, NoQueue
  <2> QED BY <1>3, <1>11, <2>1 DEF SweepRaises, ProcessEnds, HandlerRaises, NoSweep, connection,
             placing, Lost, Kept
<1>12. CASE SweepNext
  BY <1>2, <1>3, <1>12 DEF SweepNext, CommitThen, CommitsAll, placing
<1>13. CASE SweepDone
  BY <1>2, <1>3, <1>13 DEF SweepDone, FlushAndCommit, CommitsAll, placing
<1>14. CASE ResolveDone
  BY <1>2, <1>3, <1>14 DEF ResolveDone, FlushAndCommit, CommitThen, CommitsAll, placing
<1>15. CASE PayDone
  <2>1. ruling.total = 0 /\ order.quantity = 0
    BY <1>3, <1>15, TotalIsZero DEF PayDone
  <2> QED BY <1>2, <1>15, <2>1 DEF PayDone, CommitThen, CommitsAll, placing
<1>16. CASE Restart
  BY <1>1, <1>16 DEF Restart, ProcessEnds, NoOrder, Lost
<1>17. CASE Tick
  BY <1>17 DEF Tick, Quiet, connection, placing, sweeping, Kept
<1> QED BY <1>4, <1>5, <1>6, <1>7, <1>8, <1>9, <1>10, <1>11, <1>12, <1>13, <1>14, <1>15, <1>16,
        <1>17 DEF Next, PlaceAny, CancelAny, ResolveAny, MatchRow, Sweep, Pay

(* When a transaction begins or ends, nothing has been done. *)
LEMMA LevelKeeps ==
    ASSUME IInv', tx' = db', order'.quantity = 0
    PROVE  DealInv'
<1>1. db' \in Books
  BY DatabaseBooks DEF IInv, TypeOK
<1>2. Withdrawn(db', tx', {})
  BY <1>1, NothingWithdrawn
<1>3. {} \in SUBSET (Open(db') \ Open(tx'))
  OBVIOUS
<1>4. BetweenInv'
  BY <1>2, <1>3 DEF BetweenInv
<1>5. SellingInv'
  BY DEF SellingInv
<1>6. PayingInv'
  BY DEF PayingInv, PaidOrNot
<1> QED BY <1>4, <1>5, <1>6 DEF DealInv

(* What is left as it is was a deal so far and still is. *)
LEMMA KeptKeeps == ASSUME DealInv, Kept PROVE DealInv'
<1>1. BetweenInv'
  BY DEF DealInv, BetweenInv, Kept
<1>2. SellingInv' /\ PayingInv'
  BY DEF SellingInv, PayingInv, Kept
<1> QED BY <1>1, <1>2 DEF DealInv

(* A sweep cancels an offer. *)
LEMMA SweepOneKeepsDeal ==
    ASSUME IInv, DealInv, NEW i \in OfferId, SweepOne(i)
    PROVE  DealInv'
<1>1. stage # "none" /\ stage # "pay" /\ order.quantity = 0
  BY DEF SweepOne, IsQueued, IInv, StageInv, NoQueue
<1>2. /\ tx' = ReduceOffer(tx, i, tx.offer[i].quantity) /\ Exists(tx, i)
      /\ UNCHANGED <<db, order, stage>>
  BY DEF SweepOne, Found, placing
<1>3. PICK gone \in SUBSET (Open(db) \ Open(tx)) : Withdrawn(db, tx, gone)
  BY <1>1 DEF DealInv, BetweenInv
<1>4. /\ gone \cup {i} \in SUBSET (Open(db) \ Open(tx'))
      /\ Withdrawn(db, tx', gone \cup {i})
  <2>1. db \in Books /\ tx \in Books
    BY TypedBooks DEF IInv
  <2> QED BY <1>2, <1>3, <2>1, WithdrawnMore
<1>5. BetweenInv'
  BY <1>2, <1>4 DEF BetweenInv
<1>6. SellingInv' /\ PayingInv'
  BY <1>1, <1>2 DEF SellingInv, PayingInv
<1> QED BY <1>5, <1>6 DEF DealInv

(* resolve() pays an account. *)
LEMMA PayOneKeepsDeal ==
    ASSUME IInv, DealInv, NEW a \in Account, PayOne(a)
    PROVE  DealInv'
<1> DEFINE c == ruling.ct
           t == PayPosition(tx, c, a, ruling.side)
<1>1. /\ stage = "pay" /\ order.quantity = 0 /\ c \in ContractType
      /\ ruling.side \in Side /\ tx \in Books
  BY TypedBooks DEF PayOne, IInv, StageInv, TypeOK
<1>2. /\ tx' = t /\ UNCHANGED <<db, order, stage>> /\ tx.position[c][a].quantity # 0
      /\ ruling'.ct = c /\ ruling'.side = ruling.side
  <2>1. ruling \in [ct : 0..NumTypes, side : Side, total : Int]
    BY DEF IInv, TypeOK
  <2> QED BY <2>1 DEF PayOne, placing
<1>3. /\ t.offer = tx.offer
      /\ \A d \in ContractType \ {c} : t.position[d] = tx.position[d]
      /\ t.position[c][a] = NoHolding
      /\ t.balance[a] = tx.balance[a] + Won(tx.position[c][a], ruling.side)
      /\ \A b \in Account \ {a} : t.position[c][b] = tx.position[c][b] /\ t.balance[b] = tx.balance[b]
  BY <1>1, PaidPosition DEF Won
<1> HIDE DEF t, c
<1>4. PaidOrNot(a)
  BY <1>1 DEF DealInv, PayingInv
<1>5. tx.position[c][a] = db.position[c][a] /\ tx.balance[a] = db.balance[a]
  BY <1>2, <1>4 DEF PaidOrNot, NoHolding, c
<1>6. PaidOrNot(a)'
  BY <1>2, <1>3, <1>5 DEF PaidOrNot
<1>7. ASSUME NEW b \in Account \ {a} PROVE PaidOrNot(b)'
  <2>1. PaidOrNot(b)
    BY <1>1 DEF DealInv, PayingInv
  <2>2. tx'.position[c][b] = tx.position[c][b] /\ tx'.balance[b] = tx.balance[b]
    BY <1>2, <1>3
  <2> QED BY <1>2, <2>1, <2>2 DEF PaidOrNot, c
<1>8. PayingInv'
  <2>1. tx.offer = db.offer /\ \A d \in ContractType \ {c} : tx.position[d] = db.position[d]
    BY <1>1 DEF DealInv, PayingInv, c
  <2> QED BY <1>2, <1>3, <1>6, <1>7, <2>1 DEF PayingInv
<1>9. BetweenInv' /\ SellingInv'
  BY <1>1, <1>2 DEF BetweenInv, SellingInv
<1> QED BY <1>8, <1>9 DEF DealInv

(* Steps that concern neither table, order nor stage. *)
LEMMA IdleKeepsDeal ==
    ASSUME DealInv, UNCHANGED <<db, tx, order, stage, ruling>>
    PROVE  DealInv'
<1>1. BetweenInv'
  BY DEF DealInv, BetweenInv
<1>2. SellingInv'
  BY DEF DealInv, SellingInv, Sold
<1>3. PayingInv'
  BY DEF DealInv, PayingInv, PaidOrNot
<1> QED BY <1>1, <1>2, <1>3 DEF DealInv

(* No unit is taken from no offer. *)
LEMMA NoneTaken ==
    ASSUME NEW t, NEW u
    PROVE  /\ \A a \in Account : TakenFrom(t, u, a, {}) = 0
           /\ TakenAll(t, u, {}) = 0
<1>1. ASSUME NEW a \in Account PROVE TakenFrom(t, u, a, {}) = 0
  <2> DEFINE f == GivenUp(t, u, a, {})
  <2>1. \A k \in 1..MaxOrders : f[k] = 0
    BY Sizes DEF GivenUp
  <2> HIDE DEF f
  <2>2. SumTo(f, MaxOrders) = 0
    BY <2>1, Sizes, SumToZeros
  <2> QED BY <2>2 DEF f, TakenFrom
<1>2. TakenAll(t, u, {}) = 0
  <2> DEFINE f == [a \in Account |-> TakenFrom(t, u, a, {})]
  <2>1. \A k \in 1..NumAccounts : f[k] = 0
    BY <1>1, Sizes
  <2> HIDE DEF f
  <2>2. SumTo(f, NumAccounts) = 0
    BY <2>1, Sizes, SumToZeros
  <2> QED BY <2>2 DEF f, TakenAll
<1> QED BY <1>1, <1>2

(* An order has taken nothing when it is placed. *)
LEMMA NoneExchanged ==
    ASSUME NEW t \in Books, NEW u \in Books, NEW o \in OfferRow, NEW gone, Withdrawn(t, u, gone)
    PROVE  Exchanged(t, u, o, gone, {}, 0)
<1>1. o.quantity \in Nat
  BY DEF OfferRow
<1>2. \A i \in Open(t) \ gone : u.offer[i] = t.offer[i]
  BY DEF Withdrawn, Open
<1>3. PositionsAfter(t, u, o, {}, 0)
  <2> DEFINE sign == IF o.side = FIXED THEN 1 ELSE -1
  <2>1. ASSUME NEW c \in ContractType, NEW a \in Account
        PROVE  IF c = o.ct
               THEN u.position[c][a].quantity = t.position[c][a].quantity
                      + sign * ((IF a = o.account THEN 0 ELSE 0) - TakenFrom(t, u, a, {}))
               ELSE u.position[c][a] = t.position[c][a]
    <3>1. u.position = t.position /\ TakenFrom(t, u, a, {}) = 0
      BY NoneTaken DEF Withdrawn
    <3>2. t.position[c][a].quantity \in Int
      BY DEF Books, Holding
    <3>3. (IF a = o.account THEN 0 ELSE 0) = 0 /\ sign * (0 - 0) = 0
      OBVIOUS
    <3> HIDE DEF sign
    <3> QED BY <3>1, <3>2, <3>3
  <2> QED BY ONLY <2>1 DEF PositionsAfter
<1>4. FairAt(t, u, o.ct, o.price)
  <2> SUFFICES ASSUME NEW a \in Account PROVE Wealth(u, a, o.ct, o.price) = Wealth(t, a, o.ct, o.price)
    BY DEF FairAt
  <2>1. u.balance[a] + Reserved(u, a) = t.balance[a] + Reserved(t, a) /\ u.position = t.position
    BY DEF Withdrawn
  <2> QED BY <2>1 DEF Wealth
<1>5. u.fees = t.fees
  BY DEF Withdrawn
<1> QED BY <1>1, <1>2, <1>3, <1>4, <1>5 DEF Exchanged

(* An order starts with what was withdrawn before it. *)
LEMMA PlaceOrderKeepsDeal ==
    ASSUME IInv, DealInv, NEW o \in Trades, PlaceOrder(o)
    PROVE  DealInv'
<1>1. /\ order.quantity = 0 /\ stage = "none"
      /\ UNCHANGED <<db, tx, stage>> /\ order' = o
  BY DEF PlaceOrder, Quiet, sweeping
<1>2. o \in OfferRow /\ o.quantity \in Nat /\ o.quantity > 0
  BY SessionAssumption DEF OfferRow
<1>3. db \in Books /\ tx \in Books
  BY TypedBooks DEF IInv
<1>4. PICK gone \in SUBSET (Open(db) \ Open(tx)) : Withdrawn(db, tx, gone)
  BY <1>1 DEF DealInv, BetweenInv
<1>5. UsedUp(db, tx, gone, {})
  BY <1>4 DEF Withdrawn, UsedUp
<1>6. TakenAll(db, tx, {}) = 0
  BY NoneTaken
<1>7. Exchanged(db, tx, o, gone, {}, 0)
  BY <1>2, <1>3, <1>4, NoneExchanged
<1>8. o = [o EXCEPT !.quantity = o.quantity] /\ o.quantity - o.quantity = 0
  BY <1>2 DEF OfferRow
<1>9. gone \in SUBSET OfferId /\ {} \in SUBSET OfferId
  BY DEF Open
<1>10. Sold(o, gone, {})'
  BY <1>1, <1>5, <1>6, <1>7, <1>8 DEF Sold
<1>11. SellingInv'
  BY <1>9, <1>10 DEF SellingInv
<1>12. BetweenInv' /\ PayingInv'
  BY <1>1, <1>2 DEF BetweenInv, PayingInv
<1> QED BY <1>11, <1>12 DEF DealInv

(***************************************************************************)
(* An order's fills.                                                       *)
(***************************************************************************)
(* What the contract with row i adds to what the order has done. *)
LEMMA FillDeal ==
    ASSUME IInv, TradeInv, DealInv, NEW i \in OfferId, FillRow(i)
    PROVE  LET n == ContractSize(i)
               v == Contracted(i, ReduceOffer(tx, i, n))
           IN  /\ n \in Nat /\ v \in Books /\ FillWith(i, v)
               /\ v.offer[i] = IF n = tx.offer[i].quantity THEN NoOffer
                               ELSE [tx.offer[i] EXCEPT !.quantity = tx.offer[i].quantity - n]
               /\ \A k \in OfferId : k # i => v.offer[k] = tx.offer[k]
               /\ \E o \in Trades, gone \in SUBSET OfferId, filled \in SUBSET OfferId :
                     LET more == filled \cup {i}
                         total == (o.quantity - order.quantity) + n
                     IN  /\ Sold(o, gone, filled)
                         /\ TakenAll(db, v, more) = total
                         /\ Exchanged(db, v, o, gone, more, total)
                         /\ more \subseteq Open(db) /\ gone \cap more = {} /\ gone \subseteq Open(db)
<1> DEFINE n == ContractSize(i)
           c == order.ct
           f == FixedHolder(i)
           h == UnfixedHolder(i)
           price == order.price
           v == MakeContract(ReduceOffer(tx, i, n), c, f, h, price, n)
           p == tx.offer[i]
<1>1. /\ Fills(i) /\ order \in OfferRow /\ order.quantity > 0 /\ order.quantity \in Nat
      /\ c \in ContractType /\ price \in Price /\ f \in Account /\ h \in Account
      /\ n \in Nat /\ n > 0 /\ n <= p.quantity /\ n <= order.quantity
      /\ Exists(tx, i) /\ Reducible(tx, i, n) /\ i \in rows
  <2>1. Fills(i)
    BY DEF FillRow
  <2> QED BY <2>1, FillFacts
<1>2. db \in Books /\ tx \in Books
  BY TypedBooks DEF IInv
<1>3. Contracted(i, ReduceOffer(tx, i, n)) = v
  BY DEF Contracted
<1>4. FillWith(i, v)
  <2> HIDE DEF v
  <2> QED BY <1>1, <1>3 DEF FillRow
<1>5. p.aon => n = p.quantity
  BY <1>1 DEF Reducible
<1>6. order.aon => n = order.quantity
  BY <1>1, FillsWhole
<1>7. Suits(order, p)
  <2>1. i \in Suitable
    BY <1>1 DEF TradeInv, RowsInv
  <2>2. p.ct = c /\ Crosses(order, p)
    BY <2>1 DEF Suitable, Candidates
  <2> QED BY <2>2 DEF Suits, Crosses, FIXED, UNFIXED
<1>8. /\ f = IF order.side = FIXED THEN order.account ELSE p.account
      /\ h = IF order.side = FIXED THEN p.account ELSE order.account
  BY DEF FixedHolder, UnfixedHolder
<1> HIDE DEF n, c, f, h, price
<1>9. /\ v \in Books /\ v.fees = tx.fees
      /\ v.offer[i] = IF n = tx.offer[i].quantity THEN NoOffer
                      ELSE [tx.offer[i] EXCEPT !.quantity = tx.offer[i].quantity - n]
      /\ \A k \in OfferId : k # i => v.offer[k] = tx.offer[k]
      /\ \A b \in Account :
            /\ v.position[c][b].quantity = tx.position[c][b].quantity
                  + ((IF b = f THEN n ELSE 0) - (IF b = h THEN n ELSE 0))
            /\ Wealth(v, b, c, price) = Wealth(tx, b, c, price)
      /\ \A d \in ContractType \ {c} : v.position[d] = tx.position[d]
  BY <1>1, <1>2, FillWealth
<1> HIDE DEF v
<1>10. PICK o \in Trades, gone \in SUBSET OfferId, filled \in SUBSET OfferId : Sold(o, gone, filled)
  BY <1>1 DEF DealInv, SellingInv
<1> DEFINE had == o.quantity - order.quantity
           more == filled \cup {i}
<1>11. /\ o \in OfferRow /\ o.quantity \in Nat /\ had \in Nat
       /\ UsedUp(db, tx, gone, filled) /\ TakenAll(db, tx, filled) = had
       /\ Exchanged(db, tx, o, gone, filled, had)
  BY <1>10, SessionAssumption DEF Sold, OfferRow
<1>12. /\ o.ct = c /\ o.price = price /\ o.side = order.side /\ o.account = order.account
       /\ o.aon = order.aon
  <2>1. order = [o EXCEPT !.quantity = order.quantity]
    BY <1>10 DEF Sold
  <2> QED BY <1>11, <2>1 DEF OfferRow, c, price
<1>13. Suits(o, p)
  BY <1>7, <1>12 DEF Suits, c, price
<1>14. had + n <= o.quantity /\ (o.aon => had + n = o.quantity)
  BY <1>1, <1>6, <1>11, <1>12
<1> HIDE DEF had
<1>15. /\ TakenAll(db, v, more) = TakenAll(db, tx, filled) + n
       /\ Exchanged(db, v, o, gone, more, had + n)
       /\ more \subseteq Open(db) /\ gone \cap more = {} /\ gone \subseteq Open(db)
  <2>1. /\ f = IF o.side = FIXED THEN o.account ELSE p.account
        /\ h = IF o.side = FIXED THEN p.account ELSE o.account
    BY <1>8, <1>12
  <2>2. /\ \A b \in Account :
              /\ v.position[o.ct][b].quantity = tx.position[o.ct][b].quantity
                    + ((IF b = f THEN n ELSE 0) - (IF b = h THEN n ELSE 0))
              /\ Wealth(v, b, o.ct, o.price) = Wealth(tx, b, o.ct, o.price)
        /\ \A d \in ContractType \ {o.ct} : v.position[d] = tx.position[d]
    BY <1>9, <1>12
  <2>3. Takes(tx, v, o, i, n)
    BY <1>1, <1>5, <1>9, <1>13, <2>1, <2>2 DEF Takes
  <2>4. TakesMore(db, tx, v, o, gone, filled, had, i, n)
    BY <1>1, <1>2, <1>9, <1>11, <1>14, <2>3 DEF TakesMore
  <2> QED BY <2>4, ExchangedMore
<1>16. TakenAll(db, v, more) = had + n
  BY <1>11, <1>15
<1>17. \E o_1 \in Trades, gone_1 \in SUBSET OfferId, filled_1 \in SUBSET OfferId :
          /\ Sold(o_1, gone_1, filled_1)
          /\ TakenAll(db, v, filled_1 \cup {i}) = (o_1.quantity - order.quantity) + n
          /\ Exchanged(db, v, o_1, gone_1, filled_1 \cup {i}, (o_1.quantity - order.quantity) + n)
          /\ filled_1 \cup {i} \subseteq Open(db) /\ gone_1 \cap (filled_1 \cup {i}) = {}
          /\ gone_1 \subseteq Open(db)
  BY <1>10, <1>15, <1>16 DEF had
<1> QED BY <1>1, <1>3, <1>4, <1>9, <1>17 DEF n

(* A fill that does not end the order uses up the row it takes. *)
LEMMA FillRowKeepsDeal ==
    ASSUME IInv, TradeInv, DealInv, NEW i \in OfferId, FillRow(i), ContractSize(i) # order.quantity
    PROVE  DealInv'
<1> DEFINE n == ContractSize(i)
           v == Contracted(i, ReduceOffer(tx, i, n))
<1>1. /\ n \in Nat /\ v \in Books /\ FillWith(i, v)
      /\ v.offer[i] = IF n = tx.offer[i].quantity THEN NoOffer
                      ELSE [tx.offer[i] EXCEPT !.quantity = tx.offer[i].quantity - n]
      /\ \A k \in OfferId : k # i => v.offer[k] = tx.offer[k]
  BY FillDeal
<1>2. PICK o \in Trades, gone \in SUBSET OfferId, filled \in SUBSET OfferId :
         /\ Sold(o, gone, filled)
         /\ TakenAll(db, v, filled \cup {i}) = (o.quantity - order.quantity) + n
         /\ Exchanged(db, v, o, gone, filled \cup {i}, (o.quantity - order.quantity) + n)
         /\ filled \cup {i} \subseteq Open(db) /\ gone \cap (filled \cup {i}) = {}
         /\ gone \subseteq Open(db)
  BY FillDeal
<1>3. n = tx.offer[i].quantity
  BY DEF ContractSize
<1>4. v.offer[i] = NoOffer
  BY <1>1, <1>3
<1> DEFINE more == filled \cup {i}
           left == order.quantity - n
<1> HIDE DEF v, n
<1>5. /\ tx' = v /\ db' = db /\ stage' = stage
      /\ order' = [order EXCEPT !.quantity = left]
  BY <1>1 DEF FillWith, FillRow, HandlerRaises, sweeping, n
<1>6. /\ order \in OfferRow /\ order.quantity \in Nat /\ order.quantity > 0 /\ stage = "none"
      /\ n <= order.quantity
  BY FillFacts DEF FillRow, n
<1>7. /\ o \in OfferRow /\ o.quantity \in Nat
      /\ order = [o EXCEPT !.quantity = order.quantity]
      /\ o.quantity - order.quantity \in Nat
      /\ UsedUp(db, tx, gone, filled)
  BY <1>2, SessionAssumption DEF Sold, OfferRow
<1>8. UsedUp(db, v, gone, more)
  <2>1. v.offer = [k \in OfferId |-> IF k \in gone \cup more THEN NoOffer ELSE db.offer[k]]
    <3>1. v.offer \in [OfferId -> OfferRow]
      BY <1>1 DEF Books
    <3>2. \A k \in OfferId : tx.offer[k] = IF k \in gone \cup filled THEN NoOffer ELSE db.offer[k]
      BY <1>7 DEF UsedUp
    <3>3. \A k \in OfferId : v.offer[k] = IF k \in gone \cup more THEN NoOffer ELSE db.offer[k]
      BY <1>1, <1>4, <3>2
    <3> HIDE DEF more
    <3> QED BY <3>1, <3>3
  <2> QED BY <1>2, <2>1 DEF UsedUp
<1>9. order'.quantity = left /\ left \in Nat
      /\ (o.quantity - order.quantity) + n = o.quantity - left
      /\ o.quantity - left \in Nat
  <2>1. order'.quantity = left
    BY <1>5, <1>6 DEF OfferRow
  <2> QED BY <1>1, <1>6, <1>7, <2>1
<1>10. order' = [o EXCEPT !.quantity = order'.quantity]
  <2>1. order' = [o EXCEPT !.quantity = left]
    BY <1>5, <1>7
  <2> QED BY <1>9, <2>1
<1>11. TakenAll(db, v, more) = o.quantity - left /\ Exchanged(db, v, o, gone, more, o.quantity - left)
  BY <1>2, <1>9
<1> HIDE DEF left, more
<1>12. Sold(o, gone, more)'
  BY <1>5, <1>8, <1>9, <1>10, <1>11 DEF Sold
<1>13. more \in SUBSET OfferId
  BY DEF more
<1>14. SellingInv'
  BY <1>12, <1>13 DEF SellingInv
<1>15. PayingInv'
  BY <1>5, <1>6 DEF PayingInv
<1>16. order'.quantity > 0
  BY <1>1, <1>6, <1>9 DEF n, left
<1>17. BetweenInv'
  BY <1>16 DEF BetweenInv
<1> QED BY <1>14, <1>15, <1>17 DEF DealInv

(***************************************************************************)
(* Commits.                                                                *)
(***************************************************************************)
(* The offers that were filled are those that gave units. *)
LEMMA FilledAre ==
    ASSUME NEW t \in Books, NEW o, NEW gone, NEW filled, NEW total, db = t,
           Exchanged(t, db', o, gone, filled, total), filled \subseteq Open(t), gone \cap filled = {}
    PROVE  NewlyFilled(gone) = filled
<1>1. ASSUME NEW k \in filled PROVE k \in NewlyFilled(gone)
  <2>1. Taken(db, db', k) > 0
    BY DEF Exchanged, Filled
  <2>2. Taken(db, db', k) # 0
    BY <2>1
  <2> QED BY <2>2 DEF NewlyFilled
<1>2. ASSUME NEW k \in NewlyFilled(gone) PROVE k \in filled
  <2>1. k \in Open(db) \ gone /\ Taken(db, db', k) # 0
    BY DEF NewlyFilled
  <2>2. CASE db'.offer[k] = db.offer[k]
    <3>1. db.offer[k].quantity \in Int
      BY <2>1 DEF Open, Books, OfferRow
    <3> QED BY <2>1, <2>2, <3>1 DEF Taken
  <2> QED BY <2>1, <2>2 DEF Exchanged
<1> QED BY <1>1, <1>2

(* An order that ends has traded. *)
LEMMA OrderDeal ==
    ASSUME IInv, NEW v, Same(db', v), NEW o \in Trades, NEW gone, NEW filled, NEW total,
           gone \subseteq Open(db) \ Open(v), filled \subseteq Open(db), gone \cap filled = {},
           TakenAll(db, v, filled) = total, Exchanged(db, v, o, gone, filled, total),
           Rested(db, v, o, o.quantity - total)
    PROVE  Deal
<1>1. /\ Open(db') = Open(v)
      /\ TakenAll(db, db', filled) = total
      /\ Exchanged(db, db', o, gone, filled, total)
      /\ Rested(db, db', o, o.quantity - total)
  BY SameDeals
<1>2. NewlyFilled(gone) = filled
  <2>1. db \in Books
    BY TypedBooks DEF IInv
  <2> QED BY <1>1, <2>1, FilledAre
<1>3. Traded(db, db', o, gone, NewlyFilled(gone), TakenAll(db, db', NewlyFilled(gone)))
  BY <1>1, <1>2 DEF Traded
<1> QED BY <1>1, <1>3 DEF Deal

(* The last fill of an order. *)
LEMMA FillRowDeal ==
    ASSUME IInv, TradeInv, DealInv, NEW i \in OfferId, FillRow(i), ContractSize(i) = order.quantity
    PROVE  Deal
<1> DEFINE n == ContractSize(i)
           v == Contracted(i, ReduceOffer(tx, i, n))
           list == Note(Note(pending, order.ct, FixedHolder(i), n),
                        order.ct, UnfixedHolder(i), -n)
<1>1. /\ n \in Nat /\ v \in Books /\ FillWith(i, v)
      /\ \A k \in OfferId : k # i => v.offer[k] = tx.offer[k]
  BY FillDeal
<1>2. PICK o \in Trades, gone \in SUBSET OfferId, filled \in SUBSET OfferId :
         /\ Sold(o, gone, filled)
         /\ TakenAll(db, v, filled \cup {i}) = (o.quantity - order.quantity) + n
         /\ Exchanged(db, v, o, gone, filled \cup {i}, (o.quantity - order.quantity) + n)
         /\ filled \cup {i} \subseteq Open(db) /\ gone \cap (filled \cup {i}) = {}
         /\ gone \subseteq Open(db)
  BY FillDeal
<1>3. db' = Flushed(v, list)
  <2> HIDE DEF v
  <2> QED BY <1>1 DEF FillWith
<1>4. list \in Tally
  <2>1. /\ pending \in Tally /\ order.ct \in ContractType
        /\ FixedHolder(i) \in Account /\ UnfixedHolder(i) \in Account
    BY FillFacts DEF FillRow
  <2>2. -n \in Int /\ n \in Int
    BY <1>1
  <2>3. Note(pending, order.ct, FixedHolder(i), n) \in Tally
    BY <2>1, <2>2, NoteType
  <2> QED BY <2>1, <2>2, <2>3, NoteType
<1> HIDE DEF list, v
<1>5. Same(db', v)
  BY <1>1, <1>3, <1>4, SameFlushed
<1>6. /\ o \in OfferRow /\ o.quantity \in Nat /\ order.quantity \in Nat
      /\ (o.quantity - order.quantity) + n = o.quantity
      /\ UsedUp(db, tx, gone, filled)
  <2>1. o \in OfferRow /\ o.quantity \in Nat
    BY SessionAssumption DEF OfferRow
  <2>2. order.quantity \in Nat
    BY DEF IInv, TypeOK, OfferRow
  <2> QED BY <1>2, <2>1, <2>2 DEF Sold
<1>7. \A k \in OfferId : k # i /\ Exists(v, k) => k \notin gone /\ k \in Open(db)
  <2>1. \A k \in OfferId : tx.offer[k] = IF k \in gone \cup filled THEN NoOffer ELSE db.offer[k]
    BY <1>6 DEF UsedUp
  <2>2. ~ (NoOffer.quantity > 0)
    BY DEF NoOffer
  <2> QED BY <1>1, <2>1, <2>2 DEF Exists, Open
<1>8. i \in Open(db) /\ i \notin gone
  BY <1>2
<1>9. gone \subseteq Open(db) \ Open(v)
  BY <1>2, <1>7, <1>8 DEF Open
<1>10. Open(v) \subseteq Open(db)
  BY <1>7, <1>8 DEF Open
<1>11. Rested(db, v, o, o.quantity - o.quantity)
  <2>1. Open(v) \ Open(db) = {} /\ o.quantity - o.quantity = 0
    BY <1>6, <1>10
  <2> QED BY <2>1 DEF Rested
<1> DEFINE more == filled \cup {i}
<1>12. /\ more \subseteq Open(db) /\ gone \cap more = {}
       /\ TakenAll(db, v, more) = o.quantity /\ Exchanged(db, v, o, gone, more, o.quantity)
  BY <1>2, <1>6
<1> HIDE DEF more
<1> QED BY <1>5, <1>9, <1>11, <1>12, OrderDeal

(* What is left of an order becomes an offer. *)
LEMMA RestedEffect ==
    ASSUME NEW t \in Books, NEW k \in OfferId, NEW p \in OfferRow, t.offer[k].quantity = 0
    PROVE  LET v == MakeOffer(t, k, p)
           IN  /\ v \in Books /\ v.position = t.position /\ v.fees = t.fees
               /\ v.offer = [t.offer EXCEPT ![k] = p]
               /\ \A a \in Account, c \in ContractType, price \in Price :
                     Wealth(v, a, c, price) = Wealth(t, a, c, price)
<1> DEFINE v == MakeOffer(t, k, p)
<1>1. v \in Books /\ v.position = t.position /\ v.fees = t.fees
  BY MakeOfferEffect
<1>2. v.offer = [t.offer EXCEPT ![k] = p]
  BY MadeOffer
<1>3. \A a \in Account : v.balance[a] + Reserved(v, a) = t.balance[a] + Reserved(t, a)
  BY MadeWealth
<1> HIDE DEF v
<1>4. \A a \in Account, c \in ContractType, price \in Price :
         Wealth(v, a, c, price) = Wealth(t, a, c, price)
  BY <1>1, <1>3 DEF Wealth
<1> QED BY <1>1, <1>2, <1>4 DEF v

(* What is left of order o, which has taken total units, is offer k. *)
Rests(t, u, v, o, gone, filled, total, k) ==
    /\ t \in Books /\ u \in Books /\ v \in Books /\ o \in OfferRow /\ k \in OfferId
    /\ UsedUp(t, u, gone, filled) /\ Exchanged(t, u, o, gone, filled, total)
    /\ ~ Exists(t, k) /\ o.quantity - total > 0
    /\ v.position = u.position /\ v.fees = u.fees
    /\ v.offer = [u.offer EXCEPT ![k] = [o EXCEPT !.quantity = o.quantity - total]]
    /\ \A a \in Account, c \in ContractType, price \in Price :
          Wealth(v, a, c, price) = Wealth(u, a, c, price)

(* The new offer is the rest of an order that has taken what it could. *)
LEMMA ExchangedRested ==
    ASSUME NEW t, NEW u, NEW v, NEW o, NEW gone, NEW filled, NEW total, NEW k,
           Rests(t, u, v, o, gone, filled, total, k)
    PROVE  /\ TakenAll(t, v, filled) = TakenAll(t, u, filled)
           /\ Exchanged(t, v, o, gone, filled, total)
           /\ Rested(t, v, o, o.quantity - total)
           /\ gone \subseteq Open(t) \ Open(v)
<1> DEFINE p == [o EXCEPT !.quantity = o.quantity - total]
<1> t \in Books /\ u \in Books /\ v \in Books /\ o \in OfferRow /\ k \in OfferId
  BY DEF Rests
<1> UsedUp(t, u, gone, filled) /\ Exchanged(t, u, o, gone, filled, total)
  BY DEF Rests
<1> /\ ~ Exists(t, k) /\ o.quantity - total > 0
    /\ v.position = u.position /\ v.fees = u.fees
    /\ \A a \in Account, c \in ContractType, price \in Price :
          Wealth(v, a, c, price) = Wealth(u, a, c, price)
  BY DEF Rests
<1>0. v.offer = [u.offer EXCEPT ![k] = p] /\ p.quantity = o.quantity - total
  BY DEF Rests, OfferRow
<1> HIDE DEF p
<1>1. /\ gone \subseteq Open(t) /\ filled \subseteq Open(t) /\ k \notin Open(t)
      /\ \A i \in OfferId : u.offer[i] = IF i \in gone \cup filled THEN NoOffer ELSE t.offer[i]
  BY DEF UsedUp, Open
<1>2. v.offer[k] = p /\ \A i \in OfferId : i # k => v.offer[i] = u.offer[i]
  BY <1>0 DEF Books
<1>3. \A i \in Open(t) : i \in OfferId /\ v.offer[i] = u.offer[i]
  BY <1>1, <1>2 DEF Open
<1>4. \A a : TakenFrom(t, v, a, filled) = TakenFrom(t, u, a, filled)
  <2> TAKE a
  <2>1. \A i \in filled : v.offer[i] = u.offer[i]
    BY <1>1, <1>3
  <2>2. GivenUp(t, v, a, filled) = GivenUp(t, u, a, filled)
    BY <2>1 DEF GivenUp, Taken
  <2> QED BY <2>2 DEF TakenFrom
<1>5. TakenAll(t, v, filled) = TakenAll(t, u, filled)
  BY <1>4 DEF TakenAll
<1>6. PositionsAfter(t, v, o, filled, total)
  <2>1. PositionsAfter(t, u, o, filled, total)
    BY DEF Exchanged
  <2> QED BY <1>4, <2>1 DEF PositionsAfter
<1>7. FairAt(t, v, o.ct, o.price)
  <2>1. FairAt(t, u, o.ct, o.price) /\ o.ct \in ContractType /\ o.price \in Price
    BY DEF Exchanged, OfferRow
  <2> QED BY <2>1 DEF FairAt
<1>8. \A i \in filled : Filled(t, v, o, i)
  <2>1. ASSUME NEW i \in filled PROVE Filled(t, v, o, i)
    <3>1. v.offer[i] = u.offer[i] /\ Filled(t, u, o, i)
      BY <1>1, <1>3 DEF Exchanged
    <3> QED BY <3>1 DEF Filled, Taken
  <2> QED BY <2>1
<1>9. \A i \in Open(t) \ gone : i \in filled \/ v.offer[i] = t.offer[i]
  <2>1. \A i \in Open(t) \ gone : i \in filled \/ u.offer[i] = t.offer[i]
    BY DEF Exchanged
  <2> QED BY <1>3, <2>1
<1>10. /\ total <= o.quantity /\ (o.aon => total \in {0, o.quantity}) /\ v.fees = t.fees
  BY DEF Exchanged
<1>11. Exchanged(t, v, o, gone, filled, total)
  BY <1>6, <1>7, <1>8, <1>9, <1>10 DEF Exchanged
<1>12. ~ (NoOffer.quantity > 0)
  BY DEF NoOffer
<1>13. \A i \in OfferId : i # k /\ Exists(v, i) => i \in Open(t) /\ i \notin gone
  BY <1>1, <1>2, <1>12 DEF Exists, Open
<1>14. k \in Open(v) /\ k \notin gone
  BY <1>0, <1>1, <1>2 DEF Open, Exists
<1>15. Open(v) \ Open(t) = {k}
  <2>1. \A i \in Open(v) : i = k \/ i \in Open(t)
    BY <1>13 DEF Open
  <2> QED BY <1>1, <1>14, <2>1
<1>16. gone \subseteq Open(t) \ Open(v)
  BY <1>1, <1>13, <1>14 DEF Open
<1>17. Rested(t, v, o, o.quantity - total)
  <2>1. o.quantity - total # 0
    OBVIOUS
  <2>2. v.offer[k] = [o EXCEPT !.quantity = o.quantity - total]
    BY <1>2 DEF p
  <2> QED BY <1>15, <2>1, <2>2 DEF Rested
<1> QED BY <1>5, <1>11, <1>16, <1>17

(* The order ends with its rest in the book. *)
LEMMA RestOrderDeal ==
    ASSUME IInv, TradeInv, DealInv, RestOrder
    PROVE  Deal
<1> DEFINE v == MakeOffer(tx, orders, order)
<1>1. /\ db \in Books /\ tx \in Books /\ order \in OfferRow /\ order.quantity \in Nat
      /\ order.quantity > 0 /\ pending \in Tally
  BY TypedBooks DEF IInv, TypeOK, OfferRow, RestOrder
<1>2. orders \in OfferId /\ ~ Exists(tx, orders) /\ ~ Exists(db, orders)
  BY <1>1, RestOrderTables DEF TradeInv, RowsInv
<1>3. tx.offer[orders].quantity = 0
  <2>1. tx.offer[orders].quantity \in Nat
    BY <1>1, <1>2 DEF Books, OfferRow
  <2> QED BY <1>2, <2>1 DEF Exists
<1>4. /\ v \in Books /\ v.position = tx.position /\ v.fees = tx.fees
      /\ v.offer = [tx.offer EXCEPT ![orders] = order]
      /\ \A a \in Account, c \in ContractType, price \in Price :
            Wealth(v, a, c, price) = Wealth(tx, a, c, price)
  BY <1>1, <1>2, <1>3, RestedEffect
<1>5. db' = Flushed(v, pending)
  <2> HIDE DEF v
  <2> QED BY DEF RestOrder, FlushAndCommit, v
<1> HIDE DEF v
<1>6. Same(db', v)
  BY <1>1, <1>4, <1>5, SameFlushed
<1>7. PICK o \in Trades, gone \in SUBSET OfferId, filled \in SUBSET OfferId : Sold(o, gone, filled)
  BY <1>1 DEF DealInv, SellingInv
<1> DEFINE total == o.quantity - order.quantity
<1>8. o \in OfferRow /\ o.quantity \in Nat /\ o.quantity - total = order.quantity
  <2>1. o \in OfferRow /\ o.quantity \in Nat
    BY SessionAssumption DEF OfferRow
  <2> QED BY <1>1, <2>1
<1>9. /\ order = [o EXCEPT !.quantity = order.quantity]
      /\ UsedUp(db, tx, gone, filled) /\ TakenAll(db, tx, filled) = total
      /\ Exchanged(db, tx, o, gone, filled, total)
  BY <1>7 DEF Sold
<1> HIDE DEF total
<1>10. order = [o EXCEPT !.quantity = o.quantity - total] /\ o.quantity - total > 0
  BY <1>1, <1>8, <1>9
<1>11. /\ TakenAll(db, v, filled) = TakenAll(db, tx, filled)
       /\ Exchanged(db, v, o, gone, filled, total)
       /\ Rested(db, v, o, o.quantity - total)
       /\ gone \subseteq Open(db) \ Open(v)
  <2>1. v.offer = [tx.offer EXCEPT ![orders] = [o EXCEPT !.quantity = o.quantity - total]]
    BY <1>4, <1>10
  <2>2. Rests(db, tx, v, o, gone, filled, total, orders)
    BY <1>1, <1>2, <1>4, <1>8, <1>9, <1>10, <2>1 DEF Rests
  <2> QED BY <2>2, ExchangedRested
<1>12. filled \subseteq Open(db) /\ gone \cap filled = {}
  BY <1>9 DEF UsedUp
<1> QED BY <1>6, <1>9, <1>11, <1>12, OrderDeal

(* Offers are withdrawn. *)
LEMMA CancelDeal ==
    ASSUME IInv, DealInv, NEW i \in OfferId, Cancel(i)
    PROVE  Deal
<1> DEFINE v == ReduceOffer(tx, i, tx.offer[i].quantity)
<1>1. /\ db \in Books /\ tx \in Books /\ pending \in Tally
      /\ order.quantity = 0 /\ stage # "pay" /\ Exists(tx, i)
  BY TypedBooks DEF IInv, TypeOK, Cancel, Quiet
<1>2. db' = Flushed(v, pending)
  BY DEF Cancel, FlushAndCommit
<1>3. PICK gone \in SUBSET (Open(db) \ Open(tx)) : Withdrawn(db, tx, gone)
  BY <1>1 DEF DealInv, BetweenInv
<1>4. v \in Books
  <2>1. tx.offer[i].quantity \in Nat /\ tx.offer[i].quantity <= tx.offer[i].quantity
    BY <1>1 DEF Books, OfferRow
  <2> QED BY <1>1, <2>1, ReducedTables
<1> DEFINE more == gone \cup {i}
<1>5. more \in SUBSET (Open(db) \ Open(v)) /\ Withdrawn(db, v, more)
  BY <1>1, <1>3, WithdrawnMore
<1> HIDE DEF v, more
<1>6. Same(db', v)
  BY <1>1, <1>2, <1>4, SameFlushed
<1>7. Open(db') = Open(v) /\ Withdrawn(db, db', more)
  BY <1>5, <1>6, SameDeals
<1> QED BY <1>5, <1>7 DEF Deal

(* A sweep, or a statement of another table, commits withdrawn offers. *)
LEMMA CommitsAllDeal ==
    ASSUME IInv, DealInv, CommitsAll, stage # "pay"
    PROVE  Deal
<1>1. PICK gone \in SUBSET (Open(db) \ Open(tx)) : Withdrawn(db, tx, gone)
  BY DEF DealInv, BetweenInv, CommitsAll
<1>2. Same(db', tx)
  BY DEF CommitsAll
<1>3. Open(db') = Open(tx) /\ Withdrawn(db, db', gone)
  BY <1>1, <1>2, SameDeals
<1> QED BY <1>1, <1>3 DEF Deal

(* No position wins nothing: the fee is more than it is worth. *)
LEMMA NothingWon == ASSUME NEW side PROVE Won(NoHolding, side) = 0
<1>1. Abs(NoHolding.quantity) = 0 /\ NoHolding.basis = 0
  BY DEF NoHolding, Abs
<1>2. Fee(0, 0) = Unit * 1
  <2>1. 0 * Unit - 0 = 0 /\ 10 * Unit = 10000
    BY DEF Unit
  <2>2. 0 \div 10000 = 0 /\ 0 % 10000 = 0
    OBVIOUS
  <2>3. HalfEven(0, 10000) = 0
    BY <2>2 DEF HalfEven
  <2> QED BY <2>1, <2>3 DEF Fee
<1>3. Payout(0, 0) = 0
  BY <1>2 DEF Payout, AtLeastZero, Unit
<1> QED BY <1>1, <1>3 DEF Won

(* A contract type is settled. *)
LEMMA PayDoneDeal ==
    ASSUME IInv, IInv', TradeInv, DealInv, stage = "pay", CommitsAll, PayDone
    PROVE  Deal
<1> DEFINE c == ruling.ct
           side == ruling.side
<1>1. /\ c \in ContractType /\ side \in Side /\ db \in Books /\ tx \in Books /\ AllPaid
      /\ Cleared(tx)
  BY TypedBooks DEF IInv, StageInv, TypeOK, PayDone, TradeInv, TablesInv
<1>2. db'.offer = tx.offer /\ db'.balance = tx.balance /\ db'.position = tx.position
  BY DEF CommitsAll, Same, Agree
<1>3. /\ tx.offer = db.offer
      /\ \A d \in ContractType \ {c} : tx.position[d] = db.position[d]
      /\ \A a \in Account : PaidOrNot(a)
  BY DEF DealInv, PayingInv
<1>4. \A a \in Account : tx.position[c][a] = NoHolding
  BY <1>1 DEF AllPaid, Cleared
<1>5. ASSUME NEW a \in Account
      PROVE  tx.balance[a] = db.balance[a] + Won(db.position[c][a], side)
  <2>1. PaidOrNot(a) /\ tx.position[c][a] = NoHolding
    BY <1>3, <1>4
  <2>2. CASE /\ tx.position[ruling.ct][a] = db.position[ruling.ct][a]
             /\ tx.balance[a] = db.balance[a]
    <3>1. Won(db.position[c][a], side) = 0
      BY <2>1, <2>2, NothingWon
    <3>2. db.balance[a] \in Int
      BY <1>1 DEF Books
    <3> HIDE DEF c, side
    <3> QED BY <2>2, <3>1, <3>2
  <2> QED BY <2>1, <2>2 DEF PaidOrNot
<1>6. tx.position = [db.position EXCEPT ![c] = [a \in Account |-> NoHolding]]
  <2>1. /\ tx.position \in [ContractType -> [Account -> Holding]]
        /\ db.position \in [ContractType -> [Account -> Holding]]
    BY <1>1 DEF Books
  <2>2. tx.position[c] = [a \in Account |-> NoHolding]
    BY <1>1, <1>4, <2>1
  <2> HIDE DEF c
  <2> QED BY <1>1, <1>3, <2>1, <2>2
<1>7. TokenTotal(db') = TokenTotal(db)
  BY DEF IInv, LedgerInv, Ledger
<1> HIDE DEF c, side
<1>8. PaidOut(db, db', c, side)
  BY <1>2, <1>3, <1>5, <1>6, <1>7 DEF PaidOut
<1> QED BY <1>1, <1>8 DEF Deal

(***************************************************************************)
(* Session keeps the promise of Market.                                    *)
(***************************************************************************)
(* No transaction has done anything at the start. *)
LEMMA DealInit == ASSUME Init PROVE DealInv
<1>1. /\ db = tx /\ db \in Books /\ order.quantity = 0 /\ stage # "pay"
  BY EmptyBookEffect, DatabaseBooks DEF Init, NoOffer
<1>2. Withdrawn(db, tx, {}) /\ {} \in SUBSET (Open(db) \ Open(tx))
  BY <1>1, NothingWithdrawn
<1> QED BY <1>1, <1>2 DEF DealInv, BetweenInv, SellingInv, PayingInv

(* FillRow makes a contract: reduce_offer does not raise. *)
LEMMA FillRowCommits ==
    ASSUME IInv, NEW i \in OfferId, FillRow(i)
    PROVE  IF ContractSize(i) = order.quantity
           THEN tx' = db' /\ order'.quantity = 0
           ELSE db' = db
<1> DEFINE n == ContractSize(i)
           v == Contracted(i, ReduceOffer(tx, i, n))
<1>1. Reducible(tx, i, n)
  BY FillFacts DEF FillRow
<1>2. FillWith(i, v)
  <2> HIDE DEF v
  <2> QED BY <1>1 DEF FillRow, v
<1> HIDE DEF v
<1>3. NoOffer.quantity = 0
  BY DEF NoOffer
<1> QED BY <1>2, <1>3 DEF FillWith, NoOrder

(* What the open transaction has done stays on the way to a deal, and a    *)
(* commit is one.                                                          *)
LEMMA DealStep ==
    ASSUME IInv, TradeInv, DealInv, [Next]_vars
    PROVE  DealInv' /\ (db' # db => Deal)
<1>0. IInv'
  BY StepKeeps
<1>1. CASE UNCHANGED vars
  BY <1>1, IdleKeepsDeal DEF vars
<1>2. CASE Lost
  BY <1>0, <1>2, LevelKeeps DEF Lost
<1>3. CASE Kept
  BY <1>3, KeptKeeps DEF Kept
<1>4. CASE CommitsAll
  <2>1. DealInv'
    BY <1>0, <1>4, LevelKeeps DEF CommitsAll
  <2>2. CASE stage # "pay"
    BY <1>4, <2>1, <2>2, CommitsAllDeal
  <2>3. CASE stage = "pay"
    <3>1. PayDone
      BY <1>4, <2>3 DEF CommitsAll
    <3> QED BY <1>0, <1>4, <2>1, <2>3, <3>1, PayDoneDeal
  <2> QED BY <2>2, <2>3
<1>5. CASE RestOrder
  <2>1. tx' = db' /\ order'.quantity = 0
    BY <1>5, RestOrderTables DEF NoOffer
  <2> QED BY <1>0, <1>5, <2>1, LevelKeeps, RestOrderDeal
<1>6. ASSUME NEW o \in Trades, PlaceOrder(o) PROVE DealInv' /\ db' = db
  BY <1>6, PlaceOrderKeepsDeal DEF PlaceOrder
<1>7. ASSUME NEW i \in OfferId, SkipRow(i) PROVE DealInv' /\ db' = db
  BY <1>7, IdleKeepsDeal DEF SkipRow, connection, sweeping
<1>8. ASSUME NEW i \in OfferId, FillRow(i) PROVE DealInv' /\ (db' # db => Deal)
  <2>1. CASE ContractSize(i) = order.quantity
    <3>1. tx' = db' /\ order'.quantity = 0
      BY <1>8, <2>1, FillRowCommits
    <3> QED BY <1>0, <1>8, <2>1, <3>1, LevelKeeps, FillRowDeal
  <2>2. CASE ContractSize(i) # order.quantity
    BY <1>8, <2>2, FillRowKeepsDeal, FillRowCommits
  <2> QED BY <2>1, <2>2
<1>9. ASSUME NEW i \in OfferId, Cancel(i) PROVE DealInv' /\ Deal
  <2>1. tx' = db' /\ order'.quantity = 0
    BY <1>9 DEF Cancel, FlushAndCommit, Quiet, placing
  <2> QED BY <1>0, <1>9, <2>1, LevelKeeps, CancelDeal
<1>10. ASSUME NEW i \in OfferId, SweepOne(i) PROVE DealInv' /\ db' = db
  BY <1>10, SweepOneKeepsDeal DEF SweepOne
<1>11. ASSUME NEW a \in Account, PayOne(a) PROVE DealInv' /\ db' = db
  BY <1>11, PayOneKeepsDeal DEF PayOne
<1> QED BY <1>1, <1>2, <1>3, <1>4, <1>5, <1>6, <1>7, <1>8, <1>9, <1>10, <1>11, Moves

(* Every commit of the program is one deal of the market that users are    *)
(* promised, however many statements, rollbacks and crashes come before it *)
(* (Offer.place, cancel, cleanup, ContractType.resolve).                   *)
THEOREM Refinement == Spec => KeepsPromise
<1>1. Init => Promise!Init /\ DealInv
  BY InitPromised, DealInit
<1>2. IInv /\ TradeInv /\ DealInv /\ [Next]_vars => DealInv' /\ [Promise!Next]_db
  BY DealStep, DealPromised
<1> QED BY <1>1, <1>2, TradeInvariance, PTL DEF Spec, KeepsPromise, Promise!Spec
====
