---- MODULE PromiseProofs ----
(***************************************************************************)
(* Several requests at once keep the promise of Market: each order, each   *)
(* cancel, each page that expires offers and each cleanup of a resolution  *)
(* is one of its steps, however many workers there are and whatever else   *)
(* they do at the same time; and a resolution that commits, with orders    *)
(* and other resolutions at the same positions, has paid each holder whose *)
(* position it deletes, once.                                              *)
(*                                                                         *)
(* Session has one transaction at a time, so that its tables before and    *)
(* after it are those it began and ended with.  Here others commit while a *)
(* transaction is open, and no state of the tables is the one it began     *)
(* with.  So the invariants compare the rows of the transaction with the   *)
(* committed ones row by row: what it has written nobody else can write,   *)
(* and what it has not is the same on both sides.  Dealing says what the   *)
(* difference is at each statement: which offers an order has taken units  *)
(* of (Selling), what positions have moved by, what each account has too   *)
(* much in the middle of a contract (Fair).  At a commit it says Withdraw  *)
(* or Trade.  Settling says the same of a resolution, of the holders it    *)
(* has paid so far.                                                        *)
(***************************************************************************)
EXTENDS ProcessesProofs

(***************************************************************************)
(* What a transaction is in the middle of.                                 *)
(***************************************************************************)
(* What account a has set aside for its offers in t, and all it has. *)
Reserve(t, a) ==
    [i \in OfferId |-> IF Order[i].account = a
                       THEN Cost(Order[i].side, Order[i].price, t[OfferOf(i)]) ELSE 0]
Purse(t, a) == AtLeastZero(t[AccountRow(a)]) + SumTo(Reserve(t, a), MaxOrders)

(* What its position on the contract type of order k is worth at the       *)
(* order's price.                                                          *)
Share(t, k, a) == Worth(t[PositionRow(Order[k].ct, a)], Order[k].price)

(* The FIXED side of a contract has its units and has not paid for them.   *)
FixedOwes(j) ==
    (j.at \in {"side", "store"} /\ j.half = UNFIXED) \/ (j.at = "debit" /\ j.half = FIXED)

(* What account a has too much in the middle of job j. *)
DueTo(j, a) ==
    CASE j.at = "shrink" -> IF a = Order[j.row].account
                            THEN Cost(Order[j.row].side, Order[j.row].price, j.n) ELSE 0
      [] j.at \in Trading -> (IF FixedOwes(j) /\ a = Holder(j, FIXED) THEN j.due[FIXED] ELSE 0)
                               + (IF j.at = "debit" /\ a = Holder(j, UNFIXED)
                                  THEN j.due[UNFIXED] ELSE 0)
      [] j.at = "insert" -> IF a = Order[j.id].account
                            THEN - Cost(Order[j.id].side, Order[j.id].price, j.left) ELSE 0
      [] OTHER -> 0

(* The rows t of a transaction on top of the committed ones d: nobody has  *)
(* anything too much but what is due, positions counted or not.            *)
Repaid(d, t, j) ==
    \A a \in Account : Purse(t, a) = Purse(d, a) + DueTo(j, a)
FairTo(d, t, j) ==
    \A a \in Account :
        Purse(t, a) + Share(t, j.id, a) = Purse(d, a) + Share(d, j.id, a) + DueTo(j, a)

(* The units that order k has taken from offers, by account. *)
Took(d, t, k, i) == IF i = k THEN 0 ELSE d[OfferOf(i)] - t[OfferOf(i)]
Lost(d, t, k, a) == [i \in OfferId |-> IF Order[i].account = a THEN Took(d, t, k, i) ELSE 0]
LostBy(d, t, k, a) == SumTo(Lost(d, t, k, a), MaxOrders)
TookAll(d, t, k) == SumTo([a \in Account |-> LostBy(d, t, k, a)], NumAccounts)

(* How many it should have taken: its own offer, if it is there, has the   *)
(* others.                                                                 *)
Filling(m, j) ==
    CASE j.at \in Trading -> Order[j.id].quantity - j.left + j.n
      [] j.at = "commit" /\ OfferOf(j.id) \notin DOMAIN m -> Order[j.id].quantity
      [] OTHER -> Order[j.id].quantity - j.left

(* The units of the contract being made that account a has not got yet. *)
Awaited(j, a) ==
    (IF j.at \in {"side", "store"} /\ j.half = FIXED /\ a = Holder(j, FIXED) THEN j.n ELSE 0)
      - (IF j.at \in {"side", "store"} /\ a = Holder(j, UNFIXED) THEN j.n ELSE 0)

Sign(k) == IF Order[k].side = FIXED THEN 1 ELSE -1

(* What an order moves the position of account a by. *)
Moves(d, t, k, a) ==
    Sign(k) * ((IF a = Order[k].account THEN TookAll(d, t, k) ELSE 0) - LostBy(d, t, k, a))

Shifted(d, t, j) ==
    \A a \in Account :
        t[PositionRow(Order[j.id].ct, a)] + Awaited(j, a)
          = d[PositionRow(Order[j.id].ct, a)] + Moves(d, t, j.id, a)

(* An order has taken units of offers that it crosses, and of no others,   *)
(* and has written positions on its own contract type only.                *)
Targets(d, m, j) ==
    /\ \A i \in OfferId : OfferOf(i) \in DOMAIN m =>
         IF i = j.id THEN m[OfferOf(i)] = j.left
         ELSE Crossing(Order[j.id], Order[i]) /\ m[OfferOf(i)] < d[OfferOf(i)]
    /\ \A c \in ContractType, a \in Account : PositionRow(c, a) \in DOMAIN m => c = Order[j.id].ct
    /\ \A i \in DOMAIN j.rows : Crossing(Order[j.id], Order[i])
    /\ j.at \in Offering \cup Trading => Crossing(Order[j.id], Order[j.row])

Selling(d, m, j) ==
    /\ Targets(d, m, j)
    /\ TookAll(d, Laid(d, m), j.id) = Filling(m, j)
    /\ Shifted(d, Laid(d, m), j)
    /\ FairTo(d, Laid(d, m), j)

(* A cancel, a page or a cleanup has withdrawn whole offers. *)
Withdrawing(d, m, j) ==
    /\ \A i \in OfferId : OfferOf(i) \in DOMAIN m => m[OfferOf(i)] = 0
    /\ \A c \in ContractType, a \in Account : PositionRow(c, a) \notin DOMAIN m
    /\ Repaid(d, Laid(d, m), j)

LocksOnly(m) == \A r \in DOMAIN m : r[1] = "type"

Clearing == {"cancel", "list", "resolve", "clear", "final", "last"}
DealKind == {"place"} \cup Clearing

Dealing(d, m, j) ==
    /\ j.kind = "place" => Selling(d, m, j)
    /\ j.kind \in Clearing => Withdrawing(d, m, j)
    /\ j.kind = "none" \/ j.at = "user" => LocksOnly(m)

(* As long as nothing that was spoiled has been committed, every           *)
(* transaction that is not spoiled is in the middle of what it should be.  *)
Fairly ==
    spoiled = {} => \A w \in Worker : MarksOf(w) = {} => Dealing(db, Mine(w), job[w])

Dealt == OwnConnections => Fairly

(***************************************************************************)
(* Sums over the rows of one account.                                      *)
(***************************************************************************)
LEMMA CostInt ==
    ASSUME NEW t, Valid(t)
    PROVE  /\ \A a \in Account : t[AccountRow(a)] \in Int
           /\ \A i \in OfferId : /\ t[OfferOf(i)] \in 0..Order[i].quantity /\ t[OfferOf(i)] \in Int
                                 /\ Cost(Order[i].side, Order[i].price, t[OfferOf(i)]) \in Int
           /\ \A c \in ContractType, a \in Account : t[PositionRow(c, a)] \in Int
<1>1. \A a \in Account : t[AccountRow(a)] \in Int
    BY RowFacts DEF Valid, ValueOk
<1>2. \A i \in OfferId : t[OfferOf(i)] \in 0..Order[i].quantity /\ t[OfferOf(i)] \in Int
    BY RowFacts DEF Valid, ValueOk
<1>3. \A i \in OfferId : Cost(Order[i].side, Order[i].price, t[OfferOf(i)]) \in Int
    BY <1>2, CostType
<1>4. \A c \in ContractType, a \in Account : t[PositionRow(c, a)] \in Int
    BY RowFacts DEF Valid, ValueOk
<1>. QED  BY <1>1, <1>2, <1>3, <1>4

LEMMA PurseInt ==
    ASSUME NEW t, Valid(t), NEW a \in Account
    PROVE  /\ \A i \in 1..MaxOrders : Reserve(t, a)[i] \in Int
           /\ SumTo(Reserve(t, a), MaxOrders) \in Int
           /\ AtLeastZero(t[AccountRow(a)]) \in Int
           /\ Purse(t, a) \in Int
<1>1. \A i \in OfferId : Reserve(t, a)[i] \in Int
    BY CostInt DEF Reserve
<1>2. SumTo(Reserve(t, a), MaxOrders) \in Int
    BY <1>1, Numbers, SumToInt
<1>3. AtLeastZero(t[AccountRow(a)]) \in Int
    BY CostInt DEF AtLeastZero
<1>. QED  BY <1>1, <1>2, <1>3, Numbers DEF Purse

LEMMA LostInt ==
    ASSUME NEW d, Valid(d), NEW t, Valid(t), NEW k
    PROVE  /\ \A a \in Account : \A i \in 1..MaxOrders : Lost(d, t, k, a)[i] \in Int
           /\ \A a \in Account : LostBy(d, t, k, a) \in Int
           /\ TookAll(d, t, k) \in Int
           /\ \A a \in Account : k \in OfferId => Moves(d, t, k, a) \in Int
<1>1. \A i \in OfferId : Took(d, t, k, i) \in Int
    BY CostInt DEF Took
<1>2. \A a \in Account : \A i \in OfferId : Lost(d, t, k, a)[i] \in Int
    BY <1>1 DEF Lost
<1>3. \A a \in Account : LostBy(d, t, k, a) \in Int
    BY <1>2, Numbers, SumToInt DEF LostBy
<1>4. TookAll(d, t, k) \in Int
    <2> DEFINE f == [a \in Account |-> LostBy(d, t, k, a)]
    <2>1. \A a \in 1..NumAccounts : f[a] \in Int
        BY <1>3, Numbers
    <2> HIDE DEF f
    <2>2. SumTo(f, NumAccounts) \in Int
        BY <2>1, Numbers, SumToInt
    <2>. QED  BY <2>2 DEF TookAll, f
<1>5. \A a \in Account : Moves(d, t, k, a) \in Int
    <2> TAKE a \in Account
    <2> DEFINE x == (IF a = Order[k].account THEN TookAll(d, t, k) ELSE 0) - LostBy(d, t, k, a)
    <2>1. x \in Int
        BY <1>3, <1>4
    <2> HIDE DEF x
    <2>2. Sign(k) * x \in Int
        BY <2>1 DEF Sign
    <2>. QED  BY <2>2 DEF Moves, x
<1>. QED  BY <1>2, <1>3, <1>4, <1>5, Numbers

(* Locks, users and names are nobody's. *)
LEMMA SamePurse ==
    ASSUME NEW t, NEW u,
           \A r \in Row : r[1] \in {"account", "offer"} => u[r] = t[r]
    PROVE  \A a \in Account : Purse(u, a) = Purse(t, a)
<1> SUFFICES ASSUME NEW a \in Account PROVE Purse(u, a) = Purse(t, a)
    OBVIOUS
<1>1. Reserve(u, a) = Reserve(t, a)
    BY RowFacts DEF Reserve
<1>2. u[AccountRow(a)] = t[AccountRow(a)]
    BY RowFacts
<1>. QED  BY <1>1, <1>2 DEF Purse

LEMMA SameLost ==
    ASSUME NEW d, NEW t, NEW u, NEW k, \A i \in OfferId : i # k => u[OfferOf(i)] = t[OfferOf(i)]
    PROVE  /\ \A a \in Account : LostBy(d, u, k, a) = LostBy(d, t, k, a)
           /\ TookAll(d, u, k) = TookAll(d, t, k)
           /\ \A a \in Account : Moves(d, u, k, a) = Moves(d, t, k, a)
<1>1. \A i \in OfferId : Took(d, u, k, i) = Took(d, t, k, i)
    BY DEF Took
<1>2. \A a \in Account : Lost(d, u, k, a) = Lost(d, t, k, a)
    BY <1>1 DEF Lost
<1>3. \A a \in Account : LostBy(d, u, k, a) = LostBy(d, t, k, a)
    BY <1>2 DEF LostBy
<1>4. [a \in Account |-> LostBy(d, u, k, a)] = [a \in Account |-> LostBy(d, t, k, a)]
    BY <1>3
<1>5. TookAll(d, u, k) = TookAll(d, t, k)
    BY <1>4 DEF TookAll
<1>. QED  BY <1>3, <1>5 DEF Moves

(* A balance is written. *)
LEMMA AccountPurse ==
    ASSUME NEW t, Valid(t), NEW u, Valid(u), NEW b \in Account, But(t, u, AccountRow(b))
    PROVE  \A a \in Account :
             Purse(u, a) = Purse(t, a)
               + (IF a = b THEN AtLeastZero(u[AccountRow(b)]) - AtLeastZero(t[AccountRow(b)]) ELSE 0)
<1> SUFFICES ASSUME NEW a \in Account
             PROVE  Purse(u, a) = Purse(t, a)
                      + (IF a = b THEN AtLeastZero(u[AccountRow(b)]) - AtLeastZero(t[AccountRow(b)])
                         ELSE 0)
    OBVIOUS
<1>1. \A i \in OfferId : OfferOf(i) # AccountRow(b)
    BY RowFacts
<1>2. a # b => AccountRow(a) # AccountRow(b)
    BY RowFacts
<1>3. Reserve(u, a) = Reserve(t, a)
    BY <1>1, RowFacts DEF Reserve, But
<1>4. a # b => u[AccountRow(a)] = t[AccountRow(a)]
    BY <1>2, RowFacts DEF But
<1>5. /\ SumTo(Reserve(t, a), MaxOrders) \in Int /\ AtLeastZero(t[AccountRow(a)]) \in Int
      /\ AtLeastZero(u[AccountRow(a)]) \in Int
    BY PurseInt
<1>. QED  BY <1>3, <1>4, <1>5 DEF Purse

(* The quantity of an offer is written. *)
LEMMA OfferPurse ==
    ASSUME NEW t, Valid(t), NEW u, Valid(u), NEW i \in OfferId, But(t, u, OfferOf(i))
    PROVE  \A a \in Account :
             Purse(u, a) = Purse(t, a)
               + (IF a = Order[i].account
                  THEN Cost(Order[i].side, Order[i].price, u[OfferOf(i)])
                         - Cost(Order[i].side, Order[i].price, t[OfferOf(i)])
                  ELSE 0)
<1> SUFFICES ASSUME NEW a \in Account
             PROVE  Purse(u, a) = Purse(t, a)
                      + (IF a = Order[i].account
                         THEN Cost(Order[i].side, Order[i].price, u[OfferOf(i)])
                                - Cost(Order[i].side, Order[i].price, t[OfferOf(i)])
                         ELSE 0)
    OBVIOUS
<1>1. \A k \in OfferId : k # i => OfferOf(k) # OfferOf(i)
    BY RowFacts
<1>2. AccountRow(a) # OfferOf(i)
    BY RowFacts
<1>3. \A k \in OfferId : k # i => Reserve(u, a)[k] = Reserve(t, a)[k]
    BY <1>1, RowFacts DEF Reserve, But
<1>4. SumTo(Reserve(u, a), MaxOrders)
        = SumTo(Reserve(t, a), MaxOrders) + (Reserve(u, a)[i] - Reserve(t, a)[i])
    <2>1. /\ \A k \in 1..MaxOrders : Reserve(t, a)[k] \in Int /\ Reserve(u, a)[k] \in Int
          /\ \A k \in 1..MaxOrders : k # i => Reserve(u, a)[k] = Reserve(t, a)[k]
          /\ i \in 1..MaxOrders /\ MaxOrders \in Nat
        BY <1>3, PurseInt, Numbers
    <2>. QED  BY <2>1, SumToChange
<1>5. u[AccountRow(a)] = t[AccountRow(a)]
    BY <1>2, RowFacts DEF But
<1>6. Reserve(u, a)[i] - Reserve(t, a)[i]
        = IF a = Order[i].account
          THEN Cost(Order[i].side, Order[i].price, u[OfferOf(i)])
                 - Cost(Order[i].side, Order[i].price, t[OfferOf(i)])
          ELSE 0
    BY DEF Reserve
<1>7. /\ SumTo(Reserve(t, a), MaxOrders) \in Int /\ AtLeastZero(t[AccountRow(a)]) \in Int
      /\ Cost(Order[i].side, Order[i].price, u[OfferOf(i)]) \in Int
      /\ Cost(Order[i].side, Order[i].price, t[OfferOf(i)]) \in Int
    BY PurseInt, CostInt
<1>. QED  BY <1>4, <1>5, <1>6, <1>7 DEF Purse

(* So an order has taken more or fewer units off it. *)
LEMMA OfferLost ==
    ASSUME NEW d, Valid(d), NEW t, Valid(t), NEW u, Valid(u), NEW i \in OfferId, NEW k \in OfferId,
           k # i, But(t, u, OfferOf(i))
    PROVE  LET n == t[OfferOf(i)] - u[OfferOf(i)]
           IN  /\ \A a \in Account :
                    LostBy(d, u, k, a) = LostBy(d, t, k, a)
                      + (IF a = Order[i].account THEN n ELSE 0)
               /\ TookAll(d, u, k) = TookAll(d, t, k) + n
<1> DEFINE n == t[OfferOf(i)] - u[OfferOf(i)]
           b == Order[i].account
<1>1. \A h \in OfferId : h # i => OfferOf(h) # OfferOf(i)
    BY RowFacts
<1>2. \A h \in OfferId : h # i => Took(d, u, k, h) = Took(d, t, k, h)
    BY <1>1, RowFacts DEF Took, But
<1>3. /\ d[OfferOf(i)] \in Int /\ t[OfferOf(i)] \in Int /\ u[OfferOf(i)] \in Int
    BY CostInt
<1>4. Took(d, u, k, i) = Took(d, t, k, i) + n /\ Took(d, t, k, i) \in Int /\ n \in Int
    BY <1>3 DEF Took
<1>5. ASSUME NEW a \in Account
      PROVE  LostBy(d, u, k, a) = LostBy(d, t, k, a) + (IF a = b THEN n ELSE 0)
    <2>1. \A h \in OfferId : h # i => Lost(d, u, k, a)[h] = Lost(d, t, k, a)[h]
        BY <1>2 DEF Lost
    <2>2. Lost(d, u, k, a)[i] - Lost(d, t, k, a)[i] = IF a = b THEN n ELSE 0
        <3> HIDE DEF n
        <3>. QED  BY <1>4 DEF Lost
    <2>3. SumTo(Lost(d, u, k, a), MaxOrders)
            = SumTo(Lost(d, t, k, a), MaxOrders) + (Lost(d, u, k, a)[i] - Lost(d, t, k, a)[i])
        <3>1. /\ \A h \in 1..MaxOrders : Lost(d, t, k, a)[h] \in Int /\ Lost(d, u, k, a)[h] \in Int
              /\ \A h \in 1..MaxOrders : h # i => Lost(d, u, k, a)[h] = Lost(d, t, k, a)[h]
              /\ i \in 1..MaxOrders /\ MaxOrders \in Nat
            BY <2>1, LostInt, Numbers
        <3>. QED  BY <3>1, SumToChange
    <2>. QED  BY <2>2, <2>3 DEF LostBy
<1>6. TookAll(d, u, k) = TookAll(d, t, k) + n
    <2> DEFINE f == [a \in Account |-> LostBy(d, t, k, a)]
               g == [a \in Account |-> LostBy(d, u, k, a)]
    <2>1. \A a \in 1..NumAccounts : f[a] \in Int /\ g[a] \in Int
        BY LostInt, Numbers
    <2>2. b \in Account
        BY Quantities
    <2>3. \A a \in 1..NumAccounts : a # b => g[a] = f[a]
        <3>1. \A a \in Account : LostBy(d, t, k, a) \in Int
            BY LostInt
        <3>. QED  BY <1>5, <3>1, Numbers
    <2>4. g[b] - f[b] = n
        <3>1. LostBy(d, t, k, b) \in Int
            BY <2>2, LostInt
        <3> HIDE DEF n
        <3>. QED  BY <1>4, <1>5, <2>2, <3>1
    <2> HIDE DEF f, g, b
    <2>5. SumTo(g, NumAccounts) = SumTo(f, NumAccounts) + (g[b] - f[b])
        BY <2>1, <2>2, <2>3, Numbers, SumToChange
    <2>. QED  BY <2>4, <2>5 DEF TookAll, f, g
<1>. QED  BY <1>5, <1>6

(***************************************************************************)
(* A transaction that commits m leaves what the rows n of another one do   *)
(* to every account as it was.                                             *)
(***************************************************************************)
LEMMA WorthInt ==
    ASSUME NEW t, Valid(t), NEW k \in OfferId, NEW a \in Account
    PROVE  Share(t, k, a) \in Int
<1>1. Order[k].ct \in ContractType /\ Order[k].price \in Price
    BY Quantities
<1>2. t[PositionRow(Order[k].ct, a)] \in Int
    BY <1>1, CostInt
<1>. QED  BY <1>1, <1>2, SideWorth DEF Share

Parallel(d, e, t, u) ==
    \A r \in Row : r[1] \notin {"name", "id"} =>
        (t[r] = e[r] /\ u[r] = d[r]) \/ (t[r] = u[r] /\ e[r] = d[r])

LEMMA MergedPurse ==
    ASSUME NEW d, Valid(d), NEW e, Valid(e), NEW t, Valid(t), NEW u, Valid(u), Parallel(d, e, t, u)
    PROVE  /\ \A a \in Account : Purse(t, a) - Purse(e, a) = Purse(u, a) - Purse(d, a)
           /\ \A k \in OfferId : \A a \in Account :
                Share(t, k, a) - Share(e, k, a) = Share(u, k, a) - Share(d, k, a)
           /\ \A k : /\ TookAll(e, t, k) = TookAll(d, u, k)
                     /\ \A a \in Account : Moves(e, t, k, a) = Moves(d, u, k, a)
<1>1. ASSUME NEW a \in Account
      PROVE  Purse(t, a) - Purse(e, a) = Purse(u, a) - Purse(d, a)
    <2>1. ASSUME NEW k \in OfferId
          PROVE  Reserve(t, a)[k] - Reserve(e, a)[k] = Reserve(u, a)[k] - Reserve(d, a)[k]
        <3>1. \/ Reserve(t, a)[k] = Reserve(e, a)[k] /\ Reserve(u, a)[k] = Reserve(d, a)[k]
              \/ Reserve(t, a)[k] = Reserve(u, a)[k] /\ Reserve(e, a)[k] = Reserve(d, a)[k]
            BY RowFacts DEF Reserve, Parallel
        <3>2. /\ Reserve(t, a)[k] \in Int /\ Reserve(e, a)[k] \in Int
              /\ Reserve(u, a)[k] \in Int /\ Reserve(d, a)[k] \in Int
            BY PurseInt, Numbers
        <3>. QED  BY <3>1, <3>2
    <2>2. \A k \in 1..MaxOrders :
             /\ Reserve(t, a)[k] \in Int /\ Reserve(e, a)[k] \in Int
             /\ Reserve(u, a)[k] \in Int /\ Reserve(d, a)[k] \in Int
        BY PurseInt
    <2>3. SumTo(Reserve(t, a), MaxOrders) - SumTo(Reserve(e, a), MaxOrders)
            = SumTo(Reserve(u, a), MaxOrders) - SumTo(Reserve(d, a), MaxOrders)
        BY <2>1, <2>2, Numbers, SameGap
    <2>4. LET r == AccountRow(a)
          IN  (t[r] = e[r] /\ u[r] = d[r]) \/ (t[r] = u[r] /\ e[r] = d[r])
        BY RowFacts DEF Parallel
    <2>5. /\ SumTo(Reserve(t, a), MaxOrders) \in Int /\ SumTo(Reserve(e, a), MaxOrders) \in Int
          /\ SumTo(Reserve(u, a), MaxOrders) \in Int /\ SumTo(Reserve(d, a), MaxOrders) \in Int
          /\ AtLeastZero(t[AccountRow(a)]) \in Int /\ AtLeastZero(e[AccountRow(a)]) \in Int
          /\ AtLeastZero(u[AccountRow(a)]) \in Int /\ AtLeastZero(d[AccountRow(a)]) \in Int
        BY PurseInt
    <2>. QED  BY <2>3, <2>4, <2>5 DEF Purse
<1>2. ASSUME NEW k \in OfferId, NEW a \in Account
      PROVE  Share(t, k, a) - Share(e, k, a) = Share(u, k, a) - Share(d, k, a)
    <2>1. Order[k].ct \in ContractType
        BY Quantities
    <2>2. \/ Share(t, k, a) = Share(e, k, a) /\ Share(u, k, a) = Share(d, k, a)
          \/ Share(t, k, a) = Share(u, k, a) /\ Share(e, k, a) = Share(d, k, a)
        BY <2>1, RowFacts DEF Share, Parallel
    <2>3. /\ Share(t, k, a) \in Int /\ Share(e, k, a) \in Int
          /\ Share(u, k, a) \in Int /\ Share(d, k, a) \in Int
        BY WorthInt
    <2>. QED  BY <2>2, <2>3
<1>3. ASSUME NEW k
      PROVE  /\ TookAll(e, t, k) = TookAll(d, u, k)
             /\ \A a \in Account : LostBy(e, t, k, a) = LostBy(d, u, k, a)
    <2>1. ASSUME NEW i \in OfferId PROVE Took(e, t, k, i) = Took(d, u, k, i)
        <3>1. \/ t[OfferOf(i)] = e[OfferOf(i)] /\ u[OfferOf(i)] = d[OfferOf(i)]
              \/ t[OfferOf(i)] = u[OfferOf(i)] /\ e[OfferOf(i)] = d[OfferOf(i)]
            BY RowFacts DEF Parallel
        <3>2. /\ t[OfferOf(i)] \in Int /\ e[OfferOf(i)] \in Int
              /\ u[OfferOf(i)] \in Int /\ d[OfferOf(i)] \in Int
            BY CostInt
        <3>. QED  BY <3>1, <3>2 DEF Took
    <2>2. \A a \in Account : Lost(e, t, k, a) = Lost(d, u, k, a)
        BY <2>1 DEF Lost
    <2>3. \A a \in Account : LostBy(e, t, k, a) = LostBy(d, u, k, a)
        BY <2>2 DEF LostBy
    <2>4. [a \in Account |-> LostBy(e, t, k, a)] = [a \in Account |-> LostBy(d, u, k, a)]
        BY <2>3
    <2>. QED  BY <2>3, <2>4 DEF TookAll
<1>4. \A k : \A a \in Account : Moves(e, t, k, a) = Moves(d, u, k, a)
    BY <1>3 DEF Moves
<1>. QED  BY <1>1, <1>2, <1>3, <1>4

(* What is due is a number. *)
LEMMA DueInt ==
    ASSUME NEW j, JobOk(j)
    PROVE  /\ \A a \in Account : DueTo(j, a) \in Int
           /\ \A a \in Account : Awaited(j, a) \in Int
<1>1. ASSUME NEW a \in Account PROVE DueTo(j, a) \in Int
    <2>1. CASE j.at = "shrink"
        <3>1. j.row \in OfferId /\ j.n \in Int
            BY <2>1 DEF JobOk, ValuesOk, FieldsOk, Offering
        <3>2. Cost(Order[j.row].side, Order[j.row].price, j.n) \in Int
            BY <3>1, CostType
        <3>. QED  BY <2>1, <3>2 DEF DueTo, Trading
    <2>2. CASE j.at \in Trading
        <3>1. j.due[FIXED] \in Int /\ j.due[UNFIXED] \in Int
            BY <2>2, Holders DEF Side
        <3>. QED  BY <2>2, <3>1 DEF DueTo, Trading
    <2>3. CASE j.at = "insert"
        <3>1. j.kind = "place" /\ j.left \in Int
            BY <2>3 DEF JobOk, StepOk, FieldsOk
        <3>2. j.id \in OfferId
            BY <3>1 DEF JobOk, ValuesOk
        <3>3. Cost(Order[j.id].side, Order[j.id].price, j.left) \in Int
            BY <3>1, <3>2, CostType
        <3>. QED  BY <2>3, <3>3 DEF DueTo, Trading
    <2>4. CASE j.at \notin {"shrink", "insert"} \cup Trading
        BY <2>4 DEF DueTo
    <2>. QED  BY <2>1, <2>2, <2>3, <2>4
<1>2. ASSUME NEW a \in Account PROVE Awaited(j, a) \in Int
    <2>1. j.n \in Int
        BY DEF JobOk, FieldsOk
    <2>. QED  BY <2>1 DEF Awaited
<1>. QED  BY <1>1, <1>2

(* An order's id is one. *)
LEMMA OrderId ==
    ASSUME NEW j, JobOk(j), j.kind = "place"
    PROVE  /\ j.id \in OfferId /\ j.left \in 1..Order[j.id].quantity /\ j.left \in Int
           /\ Order[j.id].ct \in ContractType /\ Order[j.id].price \in Price
           /\ Order[j.id].account \in Account /\ Order[j.id].side \in Side
           /\ Order[j.id].quantity \in Nat /\ Sign(j.id) \in {1, -1}
<1>1. j.id \in OfferId /\ j.left \in 1..Order[j.id].quantity
    BY DEF JobOk, ValuesOk
<1>. QED  BY <1>1, Quantities DEF Sign

LEMMA DealingCommitted ==
    ASSUME NEW d, Valid(d), NEW m, RowsOk(m), NEW e, Valid(e), Merged(d, m, e),
           NEW n, RowsOk(n), Apart(m, n), NEW j, JobOk(j), Dealing(d, n, j)
    PROVE  Dealing(e, n, j)
<1> DEFINE t == Laid(e, n)
           u == Laid(d, n)
<1>1. Valid(t) /\ Valid(u)
    BY LaidValid
<1>2. Parallel(d, e, t, u)
    BY LaidRows DEF Merged, Apart, Parallel
<1>3. \A r \in DOMAIN n : r \in Row /\ (r[1] \notin {"name", "id"} => e[r] = d[r])
    BY DEF RowsOk, Merged, Apart
<1> HIDE DEF t, u
<1>4. /\ \A a \in Account : Purse(t, a) - Purse(e, a) = Purse(u, a) - Purse(d, a)
      /\ \A k \in OfferId : \A a \in Account :
           Share(t, k, a) - Share(e, k, a) = Share(u, k, a) - Share(d, k, a)
      /\ \A k : /\ TookAll(e, t, k) = TookAll(d, u, k)
                /\ \A a \in Account : Moves(e, t, k, a) = Moves(d, u, k, a)
    BY <1>1, <1>2, MergedPurse
<1>5. ASSUME NEW a \in Account
      PROVE  /\ Purse(t, a) \in Int /\ Purse(e, a) \in Int /\ Purse(u, a) \in Int
             /\ Purse(d, a) \in Int /\ DueTo(j, a) \in Int /\ Awaited(j, a) \in Int
    BY <1>1, PurseInt, DueInt
<1>6. ASSUME j.kind = "place" PROVE Selling(e, n, j)
    <2>1. Selling(d, n, j)
        BY <1>6 DEF Dealing
    <2>2. j.id \in OfferId /\ Order[j.id].ct \in ContractType
        BY <1>6, OrderId
    <2>3. Targets(e, n, j)
        <3>1. \A i \in OfferId : OfferOf(i) \in DOMAIN n => e[OfferOf(i)] = d[OfferOf(i)]
            BY <1>3, RowFacts
        <3>. QED  BY <2>1, <3>1 DEF Selling, Targets
    <2>4. TookAll(e, t, j.id) = Filling(n, j)
        BY <1>4, <2>1 DEF Selling, u
    <2>5. Shifted(e, t, j)
        <3> SUFFICES ASSUME NEW a \in Account
                     PROVE  t[PositionRow(Order[j.id].ct, a)] + Awaited(j, a)
                              = e[PositionRow(Order[j.id].ct, a)] + Moves(e, t, j.id, a)
            BY DEF Shifted
        <3> DEFINE r == PositionRow(Order[j.id].ct, a)
        <3>1. u[r] + Awaited(j, a) = d[r] + Moves(d, u, j.id, a)
            BY <2>1 DEF Selling, Shifted, u
        <3>2. (t[r] = e[r] /\ u[r] = d[r]) \/ (t[r] = u[r] /\ e[r] = d[r])
            BY <1>2, <2>2, RowFacts DEF Parallel
        <3>3. t[r] \in Int /\ e[r] \in Int /\ u[r] \in Int /\ d[r] \in Int
            BY <1>1, <2>2, CostInt
        <3>4. Moves(d, u, j.id, a) \in Int /\ Moves(e, t, j.id, a) = Moves(d, u, j.id, a)
            BY <1>1, <1>4, <2>2, LostInt
        <3> HIDE DEF r
        <3>5. t[r] + Awaited(j, a) = e[r] + Moves(e, t, j.id, a)
            BY <1>5, <3>1, <3>2, <3>3, <3>4
        <3>. QED  BY <3>5 DEF r
    <2>6. FairTo(e, t, j)
        <3> SUFFICES ASSUME NEW a \in Account
                     PROVE  Purse(t, a) + Share(t, j.id, a)
                              = Purse(e, a) + Share(e, j.id, a) + DueTo(j, a)
            BY DEF FairTo
        <3>1. Purse(u, a) + Share(u, j.id, a) = Purse(d, a) + Share(d, j.id, a) + DueTo(j, a)
            BY <2>1 DEF Selling, FairTo, u
        <3>2. /\ Share(t, j.id, a) \in Int /\ Share(e, j.id, a) \in Int
              /\ Share(u, j.id, a) \in Int /\ Share(d, j.id, a) \in Int
            BY <1>1, <2>2, WorthInt
        <3>3. /\ Purse(t, a) - Purse(e, a) = Purse(u, a) - Purse(d, a)
              /\ Share(t, j.id, a) - Share(e, j.id, a) = Share(u, j.id, a) - Share(d, j.id, a)
            BY <1>4, <2>2
        <3>. QED  BY <1>5, <3>1, <3>2, <3>3
    <2>. QED  BY <2>3, <2>4, <2>5, <2>6 DEF Selling, t
<1>7. ASSUME j.kind \in Clearing PROVE Withdrawing(e, n, j)
    <2>1. Withdrawing(d, n, j)
        BY <1>7 DEF Dealing
    <2>2. Repaid(e, t, j)
        <3> SUFFICES ASSUME NEW a \in Account
                     PROVE  Purse(t, a) = Purse(e, a) + DueTo(j, a)
            BY DEF Repaid
        <3>1. Purse(u, a) = Purse(d, a) + DueTo(j, a)
            BY <2>1 DEF Withdrawing, Repaid, u
        <3>2. Purse(t, a) - Purse(e, a) = Purse(u, a) - Purse(d, a)
            BY <1>4
        <3>. QED  BY <1>5, <3>1, <3>2
    <2>. QED  BY <2>1, <2>2 DEF Withdrawing, t
<1>8. j.kind = "none" \/ j.at = "user" => LocksOnly(n)
    BY DEF Dealing
<1>. QED  BY <1>6, <1>7, <1>8 DEF Dealing

(***************************************************************************)
(* One statement at a time.  In each of these facts j is the job before    *)
(* the statement and u the one after it.                                   *)
(***************************************************************************)
(* Nothing is written. *)
LEMMA DealingGoes ==
    ASSUME NEW d, NEW m, NEW j, Dealing(d, m, j), NEW u, u.kind = j.kind, u.id = j.id,
           j.kind \in DealKind => \A a \in Account : DueTo(u, a) = DueTo(j, a),
           j.kind = "place" => /\ \A a \in Account : Awaited(u, a) = Awaited(j, a)
                               /\ Filling(m, u) = Filling(m, j) /\ Targets(d, m, u),
           u.at = "user" => j.at = "user"
    PROVE  Dealing(d, m, u)
<1>1. ASSUME u.kind = "place" PROVE Selling(d, m, u)
    BY <1>1 DEF Dealing, Selling, Shifted, FairTo, DealKind, Clearing
<1>2. ASSUME u.kind \in Clearing PROVE Withdrawing(d, m, u)
    BY <1>2 DEF Dealing, Withdrawing, Repaid, DealKind, Clearing
<1>3. u.kind = "none" \/ u.at = "user" => LocksOnly(m)
    BY DEF Dealing
<1>. QED  BY <1>1, <1>2, <1>3 DEF Dealing

(* The rows of offers and positions are what they were. *)
LEMMA SameTargets ==
    ASSUME NEW d, NEW m, NEW r \in Row, NEW x, r[1] \notin {"offer", "position"}, NEW u
    PROVE  /\ \A i \in OfferId : /\ OfferOf(i) \in DOMAIN Put(m, r, x) <=> OfferOf(i) \in DOMAIN m
                                 /\ OfferOf(i) \in DOMAIN m => Put(m, r, x)[OfferOf(i)] = m[OfferOf(i)]
           /\ \A c \in ContractType, a \in Account :
                PositionRow(c, a) \in DOMAIN Put(m, r, x) <=> PositionRow(c, a) \in DOMAIN m
           /\ Targets(d, Put(m, r, x), u) <=> Targets(d, m, u)
           /\ u.id \in OfferId => Filling(Put(m, r, x), u) = Filling(m, u)
<1>1. \A i \in OfferId : /\ OfferOf(i) \in DOMAIN Put(m, r, x) <=> OfferOf(i) \in DOMAIN m
                         /\ OfferOf(i) \in DOMAIN m => Put(m, r, x)[OfferOf(i)] = m[OfferOf(i)]
    BY PutDomain, PutRows, RowFacts
<1>2. \A c \in ContractType, a \in Account :
        PositionRow(c, a) \in DOMAIN Put(m, r, x) <=> PositionRow(c, a) \in DOMAIN m
    BY PutDomain, RowFacts
<1>3. Targets(d, Put(m, r, x), u) <=> Targets(d, m, u)
    BY <1>1, <1>2 DEF Targets
<1>4. u.id \in OfferId => Filling(Put(m, r, x), u) = Filling(m, u)
    BY <1>1 DEF Filling
<1>. QED  BY <1>1, <1>2, <1>3, <1>4

(* A row of a contract type, a user or a name is written. *)
LEMMA AlikeDealing ==
    ASSUME NEW d, NEW m, NEW u, JobOk(u), Dealing(d, m, u), NEW r \in Row, NEW x,
           r[1] \notin {"account", "offer", "position"},
           u.kind = "none" \/ u.at = "user" => r[1] = "type"
    PROVE  Dealing(d, Put(m, r, x), u)
<1> DEFINE n == Put(m, r, x)
           s == Laid(d, m)
           t == Laid(d, n)
<1>1. \A q \in Row : q # r => t[q] = s[q]
    BY LaidPut DEF But
<1>2. /\ \A a \in Account : AccountRow(a) # r
      /\ \A i \in OfferId : OfferOf(i) # r
      /\ \A c \in ContractType, a \in Account : PositionRow(c, a) # r
    BY RowFacts
<1>3. \A a \in Account : Purse(t, a) = Purse(s, a)
    <2>1. \A q \in Row : q[1] \in {"account", "offer"} => t[q] = s[q]
        BY <1>1
    <2> HIDE DEF s, t
    <2>. QED  BY <2>1, SamePurse
<1>4. \A i \in OfferId : t[OfferOf(i)] = s[OfferOf(i)]
    BY <1>1, <1>2, RowFacts
<1>5. \A c \in ContractType, a \in Account : t[PositionRow(c, a)] = s[PositionRow(c, a)]
    BY <1>1, <1>2, RowFacts
<1> HIDE DEF s, t
<1>6. \A k : /\ TookAll(d, t, k) = TookAll(d, s, k)
             /\ \A a \in Account : Moves(d, t, k, a) = Moves(d, s, k, a)
    BY <1>4, SameLost
<1>7. ASSUME u.kind = "place" PROVE Selling(d, n, u)
    <2>1. Selling(d, m, u)
        BY <1>7 DEF Dealing
    <2>2. u.id \in OfferId /\ Order[u.id].ct \in ContractType
        BY <1>7, OrderId
    <2>3. Targets(d, n, u) /\ Filling(n, u) = Filling(m, u)
        BY <2>1, <2>2, SameTargets DEF Selling
    <2>4. TookAll(d, t, u.id) = Filling(n, u)
        BY <1>6, <2>1, <2>3 DEF Selling, s
    <2>5. Shifted(d, t, u)
        BY <1>5, <1>6, <2>1, <2>2 DEF Selling, Shifted, s
    <2>6. FairTo(d, t, u)
        BY <1>3, <1>5, <2>1, <2>2 DEF Selling, FairTo, Share, s
    <2>. QED  BY <2>3, <2>4, <2>5, <2>6 DEF Selling, t
<1>8. ASSUME u.kind \in Clearing PROVE Withdrawing(d, n, u)
    <2>1. Withdrawing(d, m, u)
        BY <1>8 DEF Dealing
    <2>2. Repaid(d, t, u)
        BY <1>3, <2>1 DEF Withdrawing, Repaid, s
    <2>3. r[1] \notin {"offer", "position"}
        OBVIOUS
    <2>. QED  BY <2>1, <2>2, <2>3, SameTargets DEF Withdrawing, t
<1>9. ASSUME u.kind = "none" \/ u.at = "user" PROVE LocksOnly(n)
    BY <1>9, PutDomain DEF Dealing, LocksOnly
<1>. QED  BY <1>7, <1>8, <1>9 DEF Dealing

(* A balance is written, by as much as becomes due or was. *)
LEMMA AccountDealing ==
    ASSUME NEW d, Valid(d), NEW m, RowsOk(m), NEW j, JobOk(j), Dealing(d, m, j), j.kind \in DealKind,
           NEW u, JobOk(u), u.kind = j.kind, u.id = j.id, u.at # "user",
           NEW b \in Account, NEW x, ValueOk(AccountRow(b), x),
           \A a \in Account :
             DueTo(u, a) = DueTo(j, a) + (IF a = b THEN AtLeastZero(x)
                                                          - AtLeastZero(Laid(d, m)[AccountRow(b)])
                                          ELSE 0),
           j.kind = "place" => /\ \A a \in Account : Awaited(u, a) = Awaited(j, a)
                               /\ Filling(m, u) = Filling(m, j) /\ Targets(d, m, u)
    PROVE  Dealing(d, Put(m, AccountRow(b), x), u)
<1> DEFINE r == AccountRow(b)
           n == Put(m, r, x)
           s == Laid(d, m)
           t == Laid(d, n)
<1>1. r \in Row /\ r[1] = "account"
    BY RowFacts
<1>2. Valid(s) /\ Valid(t)
    <2>1. RowsOk(n)
        BY <1>1, PutOk
    <2>. QED  BY <2>1, LaidValid
<1>3. t[r] = x /\ But(s, t, r)
    BY <1>1, LaidPut
<1>4. /\ \A i \in OfferId : OfferOf(i) # r
      /\ \A c \in ContractType, a \in Account : PositionRow(c, a) # r
    BY RowFacts
<1> HIDE DEF s, t
<1>5. \A i \in OfferId : t[OfferOf(i)] = s[OfferOf(i)]
    BY <1>3, <1>4, RowFacts DEF But
<1>6. \A c \in ContractType, a \in Account : t[PositionRow(c, a)] = s[PositionRow(c, a)]
    BY <1>3, <1>4, RowFacts DEF But
<1>7. \A a \in Account : Purse(t, a) = Purse(s, a)
                           + (IF a = b THEN AtLeastZero(x) - AtLeastZero(s[r]) ELSE 0)
    BY <1>2, <1>3, AccountPurse
<1>8. \A k : /\ TookAll(d, t, k) = TookAll(d, s, k)
             /\ \A a \in Account : Moves(d, t, k, a) = Moves(d, s, k, a)
    BY ONLY <1>5, SameLost, Zenon
<1>9. ASSUME NEW a \in Account
      PROVE  /\ Purse(s, a) \in Int /\ Purse(d, a) \in Int /\ DueTo(j, a) \in Int
             /\ AtLeastZero(x) \in Int /\ AtLeastZero(s[r]) \in Int
    <2>1. x \in Int
        BY DEF ValueOk
    <2>2. s[r] \in Int
        BY <1>2, CostInt
    <2>. QED  BY <1>2, <2>1, <2>2, PurseInt, DueInt DEF AtLeastZero
<1>10. ASSUME NEW a \in Account
       PROVE  DueTo(u, a) = DueTo(j, a) + (IF a = b THEN AtLeastZero(x) - AtLeastZero(s[r]) ELSE 0)
    BY DEF s
<1>11. ASSUME j.kind = "place" PROVE Selling(d, n, u)
    <2>1. Selling(d, m, j)
        BY <1>11 DEF Dealing
    <2>2. u.id \in OfferId /\ Order[u.id].ct \in ContractType
        BY <1>11, OrderId
    <2>3. Targets(d, n, u) /\ Filling(n, u) = Filling(m, j)
        BY <1>1, <1>11, <2>2, SameTargets
    <2>4. TookAll(d, t, u.id) = Filling(n, u)
        BY <1>8, <2>1, <2>3 DEF Selling, s
    <2>5. Shifted(d, t, u)
        BY <1>6, <1>8, <1>11, <2>1, <2>2 DEF Selling, Shifted, s
    <2>6. FairTo(d, t, u)
        <3> SUFFICES ASSUME NEW a \in Account
                     PROVE  Purse(t, a) + Share(t, u.id, a) = Purse(d, a) + Share(d, u.id, a) + DueTo(u, a)
            BY DEF FairTo
        <3>1. Purse(s, a) + Share(s, u.id, a) = Purse(d, a) + Share(d, u.id, a) + DueTo(j, a)
            BY <2>1 DEF Selling, FairTo, s
        <3>2. Share(t, u.id, a) = Share(s, u.id, a)
            BY <1>6, <2>2 DEF Share
        <3>3. Share(s, u.id, a) \in Int /\ Share(d, u.id, a) \in Int
            BY <1>2, <2>2, WorthInt
        <3> DEFINE g == IF a = b THEN AtLeastZero(x) - AtLeastZero(s[r]) ELSE 0
        <3>4. g \in Int
            BY <1>9
        <3>5. Purse(t, a) = Purse(s, a) + g /\ DueTo(u, a) = DueTo(j, a) + g
            BY <1>7, <1>10
        <3> HIDE DEF g
        <3>. QED  BY <1>9, <3>1, <3>2, <3>3, <3>4, <3>5
    <2>. QED  BY <2>3, <2>4, <2>5, <2>6 DEF Selling, t
<1>12. ASSUME j.kind \in Clearing PROVE Withdrawing(d, n, u)
    <2>1. Withdrawing(d, m, j)
        BY <1>12 DEF Dealing
    <2>2. Repaid(d, t, u)
        <3> SUFFICES ASSUME NEW a \in Account
                     PROVE  Purse(t, a) = Purse(d, a) + DueTo(u, a)
            BY DEF Repaid
        <3>1. Purse(s, a) = Purse(d, a) + DueTo(j, a)
            BY <2>1 DEF Withdrawing, Repaid, s
        <3> DEFINE g == IF a = b THEN AtLeastZero(x) - AtLeastZero(s[r]) ELSE 0
        <3>2. g \in Int
            BY <1>9
        <3>3. Purse(t, a) = Purse(s, a) + g /\ DueTo(u, a) = DueTo(j, a) + g
            BY <1>7, <1>10
        <3> HIDE DEF g
        <3>. QED  BY <1>9, <3>1, <3>2, <3>3
    <2>. QED  BY <1>1, <2>1, <2>2, SameTargets DEF Withdrawing, t
<1>13. u.kind # "none"
    BY DEF DealKind, Clearing
<1>. QED  BY <1>11, <1>12, <1>13 DEF Dealing, DealKind, Clearing

(* The quantity of an offer is written: an order takes k units off it, or  *)
(* it is the order's own, or it is withdrawn.                              *)
LEMMA OfferDealing ==
    ASSUME NEW d, Valid(d), NEW m, RowsOk(m), NEW j, JobOk(j), Dealing(d, m, j), j.kind \in DealKind,
           NEW u, JobOk(u), u.kind = j.kind, u.id = j.id, u.at # "user",
           NEW i \in OfferId, NEW x, ValueOk(OfferOf(i), x), NEW k \in Int,
           k = (IF i = j.id THEN 0 ELSE Laid(d, m)[OfferOf(i)] - x),
           \A a \in Account :
             DueTo(u, a) = DueTo(j, a)
               + (IF a = Order[i].account
                  THEN Cost(Order[i].side, Order[i].price, x)
                         - Cost(Order[i].side, Order[i].price, Laid(d, m)[OfferOf(i)])
                  ELSE 0),
           j.kind = "place" =>
             /\ \A a \in Account :
                  Awaited(u, a) = Awaited(j, a)
                    + Sign(j.id) * ((IF a = Order[j.id].account THEN k ELSE 0)
                                      - (IF a = Order[i].account THEN k ELSE 0))
             /\ Filling(Put(m, OfferOf(i), x), u) = Filling(m, j) + k
             /\ Targets(d, Put(m, OfferOf(i), x), u),
           j.kind # "place" => x = 0
    PROVE  Dealing(d, Put(m, OfferOf(i), x), u)
<1> DEFINE r == OfferOf(i)
           n == Put(m, r, x)
           s == Laid(d, m)
           t == Laid(d, n)
           g == Cost(Order[i].side, Order[i].price, x) - Cost(Order[i].side, Order[i].price, s[r])
<1>1. r \in Row /\ r[1] = "offer"
    BY RowFacts
<1>2. Valid(s) /\ Valid(t)
    <2>1. RowsOk(n)
        BY <1>1, PutOk
    <2>. QED  BY <2>1, LaidValid
<1>3. t[r] = x /\ But(s, t, r)
    BY <1>1, LaidPut
<1>4. /\ \A h \in OfferId : h # i => OfferOf(h) # r
      /\ \A c \in ContractType, a \in Account : PositionRow(c, a) # r
    BY RowFacts
<1>5. \A a \in Account : DueTo(u, a) = DueTo(j, a) + (IF a = Order[i].account THEN g ELSE 0)
    OBVIOUS
<1>6. k = IF i = j.id THEN 0 ELSE s[r] - x
    OBVIOUS
<1> HIDE DEF s, t
<1>7. \A c \in ContractType, a \in Account : t[PositionRow(c, a)] = s[PositionRow(c, a)]
    BY <1>3, <1>4, RowFacts DEF But
<1>8. g \in Int
    <2>1. /\ Cost(Order[i].side, Order[i].price, t[r]) \in Int
          /\ Cost(Order[i].side, Order[i].price, s[r]) \in Int
        BY <1>2, CostInt
    <2>. QED  BY <1>3, <2>1
<1>9. \A a \in Account : Purse(t, a) = Purse(s, a) + (IF a = Order[i].account THEN g ELSE 0)
    BY <1>2, <1>3, OfferPurse
<1> HIDE DEF g
<1>10. ASSUME NEW a \in Account
       PROVE  Purse(s, a) \in Int /\ Purse(d, a) \in Int /\ DueTo(j, a) \in Int
              /\ Awaited(j, a) \in Int
    BY <1>2, PurseInt, DueInt
<1>11. ASSUME j.kind = "place" PROVE Selling(d, n, u)
    <2>1. Selling(d, m, j)
        BY <1>11 DEF Dealing
    <2>2. /\ u.id \in OfferId /\ j.id \in OfferId /\ Order[u.id].ct \in ContractType
          /\ Sign(j.id) \in {1, -1}
        BY <1>11, OrderId
    <2>3. /\ TookAll(d, t, j.id) = TookAll(d, s, j.id) + k
          /\ \A a \in Account : LostBy(d, t, j.id, a)
               = LostBy(d, s, j.id, a) + (IF a = Order[i].account THEN k ELSE 0)
          /\ TookAll(d, s, j.id) \in Int
          /\ \A a \in Account : LostBy(d, s, j.id, a) \in Int
        <3>1. TookAll(d, s, j.id) \in Int /\ \A a \in Account : LostBy(d, s, j.id, a) \in Int
            BY <1>2, LostInt
        <3>2. CASE i = j.id
            <4>1. \A h \in OfferId : h # j.id => t[OfferOf(h)] = s[OfferOf(h)]
                BY <1>3, <1>4, <3>2, RowFacts DEF But
            <4>2. /\ TookAll(d, t, j.id) = TookAll(d, s, j.id)
                  /\ \A a \in Account : LostBy(d, t, j.id, a) = LostBy(d, s, j.id, a)
                BY ONLY <4>1, SameLost, Zenon
            <4>3. k = 0
                BY <1>6, <3>2
            <4>. QED  BY <3>1, <4>2, <4>3
        <3>3. CASE i # j.id
            <4>1. k = s[r] - t[r]
                BY <1>3, <1>6, <3>3
            <4>2. /\ \A a \in Account : LostBy(d, t, j.id, a)
                       = LostBy(d, s, j.id, a) + (IF a = Order[i].account THEN s[r] - t[r] ELSE 0)
                  /\ TookAll(d, t, j.id) = TookAll(d, s, j.id) + (s[r] - t[r])
                BY <1>2, <1>3, <2>2, <3>3, OfferLost
            <4>. QED  BY <3>1, <4>1, <4>2
        <3>. QED  BY <3>2, <3>3
    <2>4. TookAll(d, t, u.id) = Filling(n, u)
        BY <1>11, <2>1, <2>3 DEF Selling, s
    <2>5. Shifted(d, t, u)
        <3> SUFFICES ASSUME NEW a \in Account
                     PROVE  t[PositionRow(Order[u.id].ct, a)] + Awaited(u, a)
                              = d[PositionRow(Order[u.id].ct, a)] + Moves(d, t, u.id, a)
            BY DEF Shifted
        <3> DEFINE p == PositionRow(Order[u.id].ct, a)
                   y == IF a = Order[j.id].account THEN TookAll(d, s, j.id) ELSE 0
                   z == LostBy(d, s, j.id, a)
                   f == IF a = Order[j.id].account THEN k ELSE 0
                   h == IF a = Order[i].account THEN k ELSE 0
        <3>1. s[p] + Awaited(j, a) = d[p] + Moves(d, s, j.id, a)
            BY <2>1 DEF Selling, Shifted, s
        <3>2. t[p] = s[p] /\ s[p] \in Int /\ d[p] \in Int
            BY <1>2, <1>7, <2>2, CostInt
        <3>3. /\ Moves(d, s, j.id, a) = Sign(j.id) * (y - z)
              /\ Moves(d, t, j.id, a) = Sign(j.id) * ((y + f) - (z + h))
            BY <2>3 DEF Moves
        <3>4. Awaited(u, a) = Awaited(j, a) + Sign(j.id) * (f - h)
            BY <1>11
        <3>5. y \in Int /\ z \in Int /\ f \in Int /\ h \in Int
            BY <2>3
        <3> HIDE DEF p, y, z, f, h
        <3>6. t[p] + Awaited(u, a) = d[p] + Moves(d, t, j.id, a)
            <4> DEFINE sp == s[p]
                       tp == t[p]
                       dp == d[p]
                       v == Awaited(j, a)
            <4>0. sp + v = dp + Moves(d, s, j.id, a) /\ tp = sp /\ sp \in Int /\ dp \in Int /\ v \in Int
                BY <1>10, <3>1, <3>2
            <4> HIDE DEF sp, tp, dp, v
            <4>1. CASE Sign(j.id) = 1
                <5>1. /\ Moves(d, s, j.id, a) = y - z
                      /\ Moves(d, t, j.id, a) = (y + f) - (z + h)
                      /\ Awaited(u, a) = v + (f - h)
                    BY <3>3, <3>4, <3>5, <4>1 DEF v
                <5>2. tp + Awaited(u, a) = dp + Moves(d, t, j.id, a)
                    BY ONLY <3>5, <4>0, <5>1, SMT
                <5>. QED  BY <5>2 DEF tp, dp
            <4>2. CASE Sign(j.id) = -1
                BY <1>10, <3>1, <3>2, <3>3, <3>4, <3>5, <4>2
            <4>. QED  BY <2>2, <4>1, <4>2
        <3>. QED  BY <3>6 DEF p
    <2>6. FairTo(d, t, u)
        <3> SUFFICES ASSUME NEW a \in Account
                     PROVE  Purse(t, a) + Share(t, u.id, a) = Purse(d, a) + Share(d, u.id, a) + DueTo(u, a)
            BY DEF FairTo
        <3>1. Purse(s, a) + Share(s, u.id, a) = Purse(d, a) + Share(d, u.id, a) + DueTo(j, a)
            BY <2>1 DEF Selling, FairTo, s
        <3>2. Share(t, u.id, a) = Share(s, u.id, a)
            BY <1>7, <2>2 DEF Share
        <3>3. Share(s, u.id, a) \in Int /\ Share(d, u.id, a) \in Int
            BY <1>2, <2>2, WorthInt
        <3> DEFINE f == IF a = Order[i].account THEN g ELSE 0
        <3>4. f \in Int
            BY <1>8
        <3>5. Purse(t, a) = Purse(s, a) + f /\ DueTo(u, a) = DueTo(j, a) + f
            BY <1>5, <1>9
        <3> HIDE DEF f
        <3>. QED  BY <1>10, <3>1, <3>2, <3>3, <3>4, <3>5
    <2>. QED  BY <1>11, <2>4, <2>5, <2>6 DEF Selling, t
<1>12. ASSUME j.kind \in Clearing PROVE Withdrawing(d, n, u)
    <2>1. Withdrawing(d, m, j)
        BY <1>12 DEF Dealing
    <2>2. Repaid(d, t, u)
        <3> SUFFICES ASSUME NEW a \in Account
                     PROVE  Purse(t, a) = Purse(d, a) + DueTo(u, a)
            BY DEF Repaid
        <3>1. Purse(s, a) = Purse(d, a) + DueTo(j, a)
            BY <2>1 DEF Withdrawing, Repaid, s
        <3> DEFINE f == IF a = Order[i].account THEN g ELSE 0
        <3>2. f \in Int
            BY <1>8
        <3>3. Purse(t, a) = Purse(s, a) + f /\ DueTo(u, a) = DueTo(j, a) + f
            BY <1>5, <1>9
        <3> HIDE DEF f
        <3>. QED  BY <1>10, <3>1, <3>2, <3>3
    <2>3. \A h \in OfferId : OfferOf(h) \in DOMAIN n => n[OfferOf(h)] = 0
        <3> SUFFICES ASSUME NEW h \in OfferId, OfferOf(h) \in DOMAIN n PROVE n[OfferOf(h)] = 0
            OBVIOUS
        <3>1. CASE h = i
            BY <1>12, <3>1, PutRows DEF Clearing
        <3>2. CASE h # i
            <4>1. OfferOf(h) # r
                BY <1>4, <3>2
            <4>2. OfferOf(h) \in DOMAIN m /\ n[OfferOf(h)] = m[OfferOf(h)]
                BY <4>1, PutDomain, PutRows
            <4>. QED  BY <2>1, <4>2 DEF Withdrawing
        <3>. QED  BY <3>1, <3>2
    <2>4. \A c \in ContractType, a \in Account : PositionRow(c, a) \notin DOMAIN n
        BY <1>4, <2>1, PutDomain DEF Withdrawing
    <2>. QED  BY <2>2, <2>3, <2>4 DEF Withdrawing, t
<1>13. u.kind # "none"
    BY DEF DealKind, Clearing
<1>. QED  BY <1>11, <1>12, <1>13 DEF Dealing, DealKind, Clearing

(* A position is written: it moves by what its holder was waiting for, and *)
(* is worth that much more.                                                *)
LEMMA PositionDealing ==
    ASSUME NEW d, Valid(d), NEW m, RowsOk(m), NEW j, JobOk(j), Dealing(d, m, j), j.kind = "place",
           NEW u, JobOk(u), u.kind = j.kind, u.id = j.id, u.at # "user",
           NEW b \in Account, NEW x \in Int, NEW q \in Int,
           Laid(d, m)[PositionRow(Order[j.id].ct, b)] = q,
           \A a \in Account :
             DueTo(u, a) = DueTo(j, a)
               + (IF a = b THEN Worth(x, Order[j.id].price) - Worth(q, Order[j.id].price) ELSE 0),
           \A a \in Account : Awaited(u, a) = Awaited(j, a) - (IF a = b THEN x - q ELSE 0),
           Filling(m, u) = Filling(m, j), Targets(d, m, u)
    PROVE  Dealing(d, Put(m, PositionRow(Order[j.id].ct, b), x), u)
<1> DEFINE c == Order[j.id].ct
           o == j.id
           r == PositionRow(c, b)
           n == Put(m, r, x)
           s == Laid(d, m)
           t == Laid(d, n)
<1>0. o \in OfferId /\ c \in ContractType /\ Order[o].price \in Price
    BY OrderId
<1>1. r \in Row /\ r[1] = "position"
    BY <1>0, RowFacts
<1>2. Valid(s) /\ Valid(t)
    <2>1. RowsOk(n)
        <3>1. ValueOk(r, x)
            BY <1>1 DEF ValueOk
        <3>. QED  BY <1>1, <3>1, PutOk
    <2>. QED  BY <2>1, LaidValid
<1>3. t[r] = x /\ But(s, t, r) /\ s[r] = q
    BY <1>1, LaidPut
<1>4. /\ \A i \in OfferId : OfferOf(i) # r
      /\ \A a \in Account : AccountRow(a) # r
      /\ \A e \in ContractType, a \in Account : PositionRow(e, a) = r => e = c /\ a = b
    BY <1>0, RowFacts
<1>5. Selling(d, m, j) /\ u.id = o
    BY DEF Dealing
<1> HIDE DEF s, t
<1>6. \A i \in OfferId : t[OfferOf(i)] = s[OfferOf(i)]
    BY <1>3, <1>4, RowFacts DEF But
<1>7. \A a \in Account : a # b => t[PositionRow(c, a)] = s[PositionRow(c, a)]
    BY <1>0, <1>3, <1>4, RowFacts DEF But
<1>8. \A a \in Account : Purse(t, a) = Purse(s, a)
    <2>1. \A e \in Row : e[1] \in {"account", "offer"} => t[e] = s[e]
        BY <1>1, <1>3 DEF But
    <2>. QED  BY <2>1, SamePurse
<1>9. \A k : /\ TookAll(d, t, k) = TookAll(d, s, k)
             /\ \A a \in Account : Moves(d, t, k, a) = Moves(d, s, k, a)
    BY ONLY <1>6, SameLost, Zenon
<1>10. ASSUME NEW a \in Account
       PROVE  /\ Purse(s, a) \in Int /\ Purse(d, a) \in Int /\ DueTo(j, a) \in Int
              /\ Awaited(j, a) \in Int /\ Moves(d, s, o, a) \in Int
              /\ Share(s, o, a) \in Int /\ Share(d, o, a) \in Int
              /\ s[PositionRow(c, a)] \in Int /\ d[PositionRow(c, a)] \in Int
    BY <1>0, <1>2, PurseInt, DueInt, LostInt, WorthInt, CostInt
<1>11. Targets(d, n, u)
    <2>1. \A i \in OfferId : /\ OfferOf(i) \in DOMAIN n <=> OfferOf(i) \in DOMAIN m
                             /\ OfferOf(i) \in DOMAIN m => n[OfferOf(i)] = m[OfferOf(i)]
        BY <1>4, PutDomain, PutRows
    <2>2. \A e \in ContractType, a \in Account :
            PositionRow(e, a) \in DOMAIN n => PositionRow(e, a) \in DOMAIN m \/ e = c
        BY <1>4, PutDomain
    <2>. QED  BY <1>5, <2>1, <2>2 DEF Targets
<1>12. TookAll(d, t, o) = Filling(n, u)
    <2>1. OfferOf(u.id) \in DOMAIN n <=> OfferOf(u.id) \in DOMAIN m
        BY <1>0, <1>4, <1>5, PutDomain
    <2>2. Filling(n, u) = Filling(m, u)
        BY <2>1 DEF Filling
    <2>. QED  BY <1>5, <1>9, <2>2 DEF Selling, s
<1>13. Shifted(d, t, u)
    <2> SUFFICES ASSUME NEW a \in Account
                 PROVE  t[PositionRow(c, a)] + Awaited(u, a) = d[PositionRow(c, a)] + Moves(d, t, o, a)
        BY <1>5 DEF Shifted
    <2>1. s[PositionRow(c, a)] + Awaited(j, a) = d[PositionRow(c, a)] + Moves(d, s, o, a)
        BY <1>5 DEF Selling, Shifted, s
    <2>2. Awaited(u, a) = Awaited(j, a) - (IF a = b THEN x - q ELSE 0)
        OBVIOUS
    <2>3. t[PositionRow(c, a)] = IF a = b THEN x ELSE s[PositionRow(c, a)]
        BY <1>3, <1>7
    <2>4. a = b => s[PositionRow(c, a)] = q
        BY <1>3
    <2>5. Moves(d, t, o, a) = Moves(d, s, o, a)
        BY <1>9
    <2> DEFINE sp == s[PositionRow(c, a)]
               tp == t[PositionRow(c, a)]
               dp == d[PositionRow(c, a)]
    <2>6. sp \in Int /\ dp \in Int
        BY <1>10
    <2> HIDE DEF sp, tp, dp
    <2>7. tp + Awaited(u, a) = dp + Moves(d, t, o, a)
        <3>1. sp + Awaited(j, a) = dp + Moves(d, s, o, a) /\ tp = (IF a = b THEN x ELSE sp)
              /\ (a = b => sp = q)
            BY <2>1, <2>3, <2>4 DEF sp, tp, dp
        <3>. QED  BY <1>10, <2>2, <2>5, <2>6, <3>1
    <2>. QED  BY <2>7 DEF tp, dp
<1>14. FairTo(d, t, u)
    <2> SUFFICES ASSUME NEW a \in Account
                 PROVE  Purse(t, a) + Share(t, o, a) = Purse(d, a) + Share(d, o, a) + DueTo(u, a)
        BY <1>5 DEF FairTo
    <2> DEFINE g == Worth(x, Order[o].price) - Worth(q, Order[o].price)
    <2>1. g \in Int /\ Worth(x, Order[o].price) \in Int /\ Worth(q, Order[o].price) \in Int
        BY <1>0, SideWorth
    <2>2. DueTo(u, a) = DueTo(j, a) + (IF a = b THEN g ELSE 0)
        OBVIOUS
    <2>3. Purse(s, a) + Share(s, o, a) = Purse(d, a) + Share(d, o, a) + DueTo(j, a)
        BY <1>5 DEF Selling, FairTo, s
    <2>4. Share(t, o, a) = Share(s, o, a) + (IF a = b THEN g ELSE 0)
        <3>1. CASE a = b
            <4>1. Share(t, o, a) = Worth(x, Order[o].price) /\ Share(s, o, a) = Worth(q, Order[o].price)
                BY <1>3, <3>1 DEF Share
            <4>. QED  BY <2>1, <3>1, <4>1
        <3>2. CASE a # b
            <4>1. Share(t, o, a) = Share(s, o, a)
                BY <1>7, <3>2 DEF Share
            <4>. QED  BY <1>10, <3>2, <4>1
        <3>. QED  BY <3>1, <3>2
    <2>5. Purse(t, a) = Purse(s, a)
        BY <1>8
    <2> HIDE DEF g
    <2>. QED  BY <1>10, <2>1, <2>2, <2>3, <2>4, <2>5
<1>. QED  BY <1>5, <1>11, <1>12, <1>13, <1>14 DEF Dealing, Selling, Clearing, t


(***************************************************************************)
(* The same for all workers.                                               *)
(***************************************************************************)
LEMMA AloneFairly ==
    ASSUME Types, OwnConnections, Fairly, NEW w \in Worker, NEW m, NEW u, NEW mk,
           Alone(w, m, u, mk), spoiled = {} /\ mk = {} => Dealing(db, m, u)
    PROVE  Fairly'
<1>1. /\ Mine(w)' = m /\ job'[w] = u /\ MarksOf(w)' = mk
      /\ \A v \in Worker : v # w => /\ Mine(v)' = Mine(v) /\ job'[v] = job[v]
                                    /\ MarksOf(v)' = MarksOf(v)
    BY AloneEffect
<1>2. db' = db /\ spoiled' = spoiled
    BY DEF Alone
<1> SUFFICES ASSUME spoiled = {}, NEW v \in Worker, MarksOf(v)' = {}
             PROVE  Dealing(db', Mine(v)', job'[v])
    BY <1>2 DEF Fairly
<1>3. CASE v = w
    BY <1>1, <1>2, <1>3
<1>4. CASE v # w
    BY <1>1, <1>2, <1>4 DEF Fairly
<1>. QED  BY <1>3, <1>4

(* What a worker may rely on. *)
LEMMA DealerFacts ==
    ASSUME Types, Fairly, NEW w \in Worker
    PROVE  /\ JobOk(job[w]) /\ Valid(db) /\ RowsOk(Mine(w))
           /\ spoiled = {} /\ MarksOf(w) = {} => Dealing(db, Mine(w), job[w])
BY RowsValid DEF Fairly

LEMMA ReadsFairly ==
    ASSUME Types, OwnConnections, Fairly, NEW w \in Worker, NEW u, Reads(w, u),
           spoiled = {} /\ MarksOf(w) = {} => Dealing(db, Mine(w), u)
    PROVE  Fairly'
BY ReadsAlone, AloneFairly

LEMMA WritesFairly ==
    ASSUME Types, OwnConnections, Fairly, NEW w \in Worker,
           NEW r, NEW x, NEW why, NEW u, Writes(w, r, x, why, u),
           spoiled = {} /\ MarksOf(w) = {} /\ why = {} => Dealing(db, Put(Mine(w), r, x), u)
    PROVE  Fairly'
<1> DEFINE m == Put(Mine(w), r, x)
           mk == MarksOf(w) \cup why
<1>1. Alone(w, m, u, mk)
    BY WritesAlone
<1>2. mk = {} => MarksOf(w) = {} /\ why = {}
    OBVIOUS
<1>3. spoiled = {} /\ mk = {} => Dealing(db, m, u)
    BY <1>2
<1> HIDE DEF m, mk
<1>. QED  BY <1>1, <1>3, AloneFairly

LEMMA LaysFairly ==
    ASSUME Types, OwnConnections, Fairly, NEW w \in Worker,
           NEW m, NEW why, NEW u, Lays(w, m, why, u),
           spoiled = {} /\ MarksOf(w) = {} /\ why = {} => Dealing(db, m, u)
    PROVE  Fairly'
<1> DEFINE mk == MarksOf(w) \cup why
<1>1. Alone(w, m, u, mk)
    BY DEF Lays, Alone, MarksOf, requests
<1>2. spoiled = {} /\ mk = {} => Dealing(db, m, u)
    OBVIOUS
<1> HIDE DEF mk
<1>. QED  BY <1>1, <1>2, AloneFairly

LEMMA UpdatesFairly ==
    ASSUME Types, OwnConnections, Fairly, NEW w \in Worker,
           NEW r, NEW x, NEW why, NEW u, Updates(w, r, x, why, u),
           spoiled = {} /\ MarksOf(w) = {} /\ why = {} =>
               IF Exist(r, Seen(w, r)) THEN Dealing(db, Put(Mine(w), r, x), u)
                                       ELSE Dealing(db, Mine(w), u)
    PROVE  Fairly'
<1>1. CASE Exist(r, Seen(w, r))
    <2>1. Writes(w, r, x, why, u)
        BY <1>1 DEF Updates, Writes
    <2>. QED  BY <1>1, <2>1, WritesFairly
<1>2. CASE ~ Exist(r, Seen(w, r))
    <2>1. work = [work EXCEPT ![site.conn[w]] = Mine(w)]
        BY Connected DEF Types, Mine
    <2>2. Lays(w, Mine(w), why, u)
        BY <1>2, <2>1 DEF Updates, Lays, Becomes, Marked, requests
    <2>. QED  BY <1>2, <2>2, LaysFairly
<1>. QED  BY <1>1, <1>2

(* No rows to deal with, or none that matter. *)
LEMMA LocksDealing ==
    ASSUME NEW d, NEW m, LocksOnly(m), NEW u, u.kind \notin DealKind
    PROVE  Dealing(d, m, u)
BY DEF Dealing, DealKind, Clearing

LEMMA OtherDealing ==
    ASSUME NEW d, NEW m, NEW u, u.kind \notin DealKind, u.kind # "none", u.at # "user"
    PROVE  Dealing(d, m, u)
BY DEF Dealing, DealKind, Clearing

LEMMA FailsFairly ==
    ASSUME Types, OwnConnections, Fairly, NEW w \in Worker, StatementFails(w)
    PROVE  Fairly'
<1> DEFINE j == job[w]
           k == site.conn[w]
<1>1. JobOk(j)
    BY RowsValid
<1>2. j.kind = "login" => Retried(j).kind = "login"
    <2>1. j.kind = "login" => /\ JobOk(Retried(j)) /\ Retried(j).kind = "login" /\ Retried(j).at = "user"
                              /\ Retried(j).left = 0 /\ DOMAIN Retried(j).rows = {}
        BY ONLY <1>1, RetriedOk, Zenon
    <2>. QED  BY <2>1
<1>3. \E u : (u.kind = "none" \/ u.kind = "login") /\ Alone(w, NoWork, u, {})
    <2>1. \/ job' = [job EXCEPT ![w] = Idle]
          \/ j.kind = "login" /\ job' = [job EXCEPT ![w] = Retried(j)]
        BY DEF StatementFails, Becomes
    <2>2. /\ work' = [work EXCEPT ![k] = NoWork] /\ marks' = [marks EXCEPT ![k] = {}]
          /\ UNCHANGED <<site, db, spoiled>>
        BY DEF StatementFails, requests
    <2>3. CASE job' = [job EXCEPT ![w] = Idle]
        BY <2>2, <2>3, IdleOk DEF Alone
    <2>4. CASE j.kind = "login" /\ job' = [job EXCEPT ![w] = Retried(j)]
        BY <1>2, <2>2, <2>4 DEF Alone
    <2>. QED  BY <2>1, <2>3, <2>4
<1>4. PICK u : (u.kind = "none" \/ u.kind = "login") /\ Alone(w, NoWork, u, {})
    BY <1>3
<1>5. LocksOnly(NoWork) /\ u.kind \notin DealKind
    BY <1>4 DEF LocksOnly, NoWork, DealKind, Clearing
<1>6. Dealing(db, NoWork, u)
    BY <1>5, LocksDealing
<1>. QED  BY <1>4, <1>6, AloneFairly

LEMMA RaisesFairly ==
    ASSUME Types, OwnConnections, Fairly, NEW w \in Worker, HandlerRaises(w)
    PROVE  Fairly'
<1> DEFINE k == site.conn[w]
           done == {r \in DOMAIN Mine(w) : r[1] # "type"}
           mk == IF done = {} THEN {} ELSE MarksOf(w) \cup {"raised"}
<1>1. work' = [work EXCEPT ![k] = Mine(w)]
    BY Connected DEF HandlerRaises, Types, Mine
<1>2. marks' = [marks EXCEPT ![k] = mk]
    BY DEF HandlerRaises, Marked, MarksOf, Mine
<1>3. Alone(w, Mine(w), Idle, mk)
    BY <1>1, <1>2 DEF HandlerRaises, Becomes, Alone, requests
<1>4. mk = {} => done = {}
    OBVIOUS
<1>5. mk = {} => LocksOnly(Mine(w))
    BY <1>4 DEF LocksOnly
<1>6. Idle.kind \notin DealKind
    BY IdleOk DEF DealKind, Clearing
<1>7. mk = {} => Dealing(db, Mine(w), Idle)
    BY <1>5, <1>6, LocksDealing
<1> HIDE DEF mk
<1>. QED  BY <1>3, <1>7, AloneFairly

(***************************************************************************)
(* The offers of an order, of a cancel, of a page or of a cleanup.         *)
(***************************************************************************)
Owes == {"shrink", "side", "store", "debit", "insert"}

LEMMA CalmJob ==
    ASSUME NEW j, j.at \notin Owes
    PROVE  /\ \A a \in Account : DueTo(j, a) = 0 /\ Awaited(j, a) = 0
           /\ j.at # "commit" => \A m : Filling(m, j) = Order[j.id].quantity - j.left
BY DEF Owes, DueTo, Awaited, Filling, Trading

LEMMA CalmGoes ==
    ASSUME NEW d, NEW m, NEW j, Dealing(d, m, j), j.at \notin Owes, j.at # "commit",
           NEW u, u.at \notin Owes, u.kind = j.kind, u.id = j.id, u.at # "user",
           j.kind = "place" => u.left = j.left /\ u.at # "commit" /\ Targets(d, m, u)
    PROVE  Dealing(d, m, u)
<1>1. /\ \A a \in Account : DueTo(j, a) = 0 /\ Awaited(j, a) = 0
      /\ Filling(m, j) = Order[j.id].quantity - j.left
    BY CalmJob
<1>2. /\ \A a \in Account : DueTo(u, a) = 0 /\ Awaited(u, a) = 0
      /\ u.at # "commit" => Filling(m, u) = Order[u.id].quantity - u.left
    BY CalmJob
<1>3. j.kind \in DealKind => \A a \in Account : DueTo(u, a) = DueTo(j, a)
    BY <1>1, <1>2
<1>4. j.kind = "place" => /\ \A a \in Account : Awaited(u, a) = Awaited(j, a)
                          /\ Filling(m, u) = Filling(m, j) /\ Targets(d, m, u)
    BY <1>1, <1>2
<1>. QED  BY <1>3, <1>4, DealingGoes

LEMMA LookupFairly ==
    ASSUME Types, OwnConnections, Fairly, NEW w \in Worker, Lookup(w)
    PROVE  Fairly'
<1> DEFINE j == job[w]
           m == Mine(w)
           x == IF j.kind = "place" THEN "match" ELSE "find"
           c == IF j.kind = "place" THEN Order[j.id].ct ELSE j.id
           r == TypeRow(c)
           u == [j EXCEPT !.at = x]
           n == Put(m, r, 1)
<1>1. /\ JobOk(j) /\ (spoiled = {} /\ MarksOf(w) = {} => Dealing(db, m, j))
    BY DealerFacts
<1>2. Goes(j, x) /\ j.at = "lookup" /\ Writes(w, r, 1, {}, u)
    BY DEF Goes, Lookup, At
<1>3. /\ JobOk(u) /\ u.at = x
      /\ u.kind = j.kind /\ u.id = j.id /\ u.left = j.left /\ u.rows = j.rows
      /\ u.row = j.row /\ u.n = j.n /\ u.got = j.got /\ u.half = j.half /\ u.due = j.due
    BY <1>1, <1>2, GoesOk
<1>4. j.kind \in {"place", "resolve"} /\ c \in ContractType
    BY <1>1, <1>2, Quantities DEF JobOk, StepOk, ValuesOk
<1>5. r \in Row /\ r[1] = "type"
    BY <1>4, RowFacts
<1> HIDE DEF u, r
<1>6. Dealing(db, m, j) => Dealing(db, n, u)
    <2> SUFFICES ASSUME Dealing(db, m, j) PROVE Dealing(db, n, u)
        OBVIOUS
    <2>1. Dealing(db, m, u)
        <3>1. j.kind = "place" => Targets(db, m, u)
            BY <1>2, <1>3 DEF Dealing, Selling, Targets, Offering, Trading
        <3>. QED  BY <1>2, <1>3, <3>1, CalmGoes DEF Owes
    <2>2. u.kind # "none" /\ u.at # "user"
        BY <1>3, <1>4
    <2>. QED  BY <1>3, <1>5, <2>1, <2>2, AlikeDealing
<1>. QED  BY <1>1, <1>2, <1>6, WritesFairly

LEMMA SearchFairly ==
    ASSUME Types, OwnConnections, Fairly, NEW w \in Worker, NEW ids \in SUBSET OfferId,
           Reads(w, Aim(job[w], Found(w, ids))), job[w].at \in {"match", "find"},
           job[w].kind = "place" => \A i \in ids : Crossing(Order[job[w].id], Order[i])
    PROVE  Fairly'
<1> DEFINE j == job[w]
           m == Mine(w)
           rows == Found(w, ids)
           u == Aim(j, rows)
<1>1. /\ JobOk(j) /\ (spoiled = {} /\ MarksOf(w) = {} => Dealing(db, m, j))
    BY DealerFacts
<1>2. Looping(j) /\ j.kind \notin {"pay", "login", "none"}
    BY <1>1, LoopingOk, IdleOk DEF JobOk, StepOk
<1>3. Rows(rows) /\ DOMAIN rows \subseteq ids
    BY FoundRows DEF Rows
<1> HIDE DEF rows
<1>4. /\ JobOk(u)
      /\ u.kind = j.kind /\ u.id = j.id /\ u.left = j.left /\ u.got = j.got
      /\ u.half = j.half /\ u.due = j.due
      /\ DOMAIN rows = {} => u.at = After(j.kind) /\ DOMAIN u.rows = {}
      /\ DOMAIN rows # {} =>
           /\ u.at = "read" /\ u.rows = rows /\ u.row \in DOMAIN rows
           /\ u.n = Min({j.left, rows[u.row]})
    BY ONLY <1>2, <1>3, AimOk, Zenon
<1> HIDE DEF u
<1>5. u.at \in {"read", "rest", "filter", "commit"} /\ (j.kind = "place" => u.at # "commit")
    BY <1>4 DEF After
<1>6. Dealing(db, m, j) => Dealing(db, m, u)
    <2> SUFFICES ASSUME Dealing(db, m, j) PROVE Dealing(db, m, u)
        OBVIOUS
    <2>1. j.kind = "place" => Targets(db, m, u)
        <3> SUFFICES ASSUME j.kind = "place" PROVE Targets(db, m, u)
            OBVIOUS
        <3>1. Targets(db, m, j)
            BY DEF Dealing, Selling
        <3>2. \A i \in DOMAIN rows : Crossing(Order[j.id], Order[i])
            BY <1>3
        <3>3. \A i \in DOMAIN u.rows : Crossing(Order[u.id], Order[i])
            BY <1>4, <3>2
        <3>4. u.at \in Offering \cup Trading => Crossing(Order[u.id], Order[u.row])
            <4>1. u.at \in Offering \cup Trading => DOMAIN rows # {}
                BY <1>4 DEF After, Offering, Trading
            <4>. QED  BY <1>4, <3>2, <4>1
        <3>. QED  BY <1>4, <3>1, <3>3, <3>4 DEF Targets
    <2>. QED  BY <1>4, <1>5, <2>1, CalmGoes DEF Owes
<1>. QED  BY <1>1, <1>6, ReadsFairly DEF u, rows

LEMMA ReadOfferFairly ==
    ASSUME Types, OwnConnections, Fairly, NEW w \in Worker, ReadOffer(w)
    PROVE  Fairly'
<1> DEFINE j == job[w]
           m == Mine(w)
           q == Seen(w, OfferOf(j.row))
           n == IF j.kind = "place" THEN j.n ELSE q
           u == [j EXCEPT !.at = "refund", !.got = q, !.n = n]
<1>1. /\ JobOk(j) /\ (spoiled = {} /\ MarksOf(w) = {} => Dealing(db, m, j))
    BY DealerFacts
<1>2. j.at = "read"
    BY DEF ReadOffer, At
<1>3. CASE HandlerRaises(w)
    BY <1>3, RaisesFairly
<1>4. CASE Reads(w, u)
    <2>1. u.at = "refund" /\ u.kind = j.kind /\ u.id = j.id /\ u.left = j.left
          /\ u.rows = j.rows /\ u.row = j.row
        BY <1>1 DEF JobOk, IsJob
    <2> HIDE DEF u
    <2>2. Dealing(db, m, j) => Dealing(db, m, u)
        <3> SUFFICES ASSUME Dealing(db, m, j) PROVE Dealing(db, m, u)
            OBVIOUS
        <3>1. j.kind = "place" => Targets(db, m, u)
            BY <1>2, <2>1 DEF Dealing, Selling, Targets, Offering
        <3>. QED  BY <1>2, <2>1, <3>1, CalmGoes DEF Owes
    <2>. QED  BY <1>1, <1>4, <2>2, ReadsFairly
<1>. QED  BY <1>3, <1>4 DEF ReadOffer

LEMMA RefundFairly ==
    ASSUME Types, OwnConnections, Ownership, Fairly, NEW w \in Worker, Refund(w)
    PROVE  Fairly'
<1> DEFINE j == job[w]
           m == Mine(w)
           o == Order[j.row]
           b == o.account
           r == AccountRow(b)
           k == Cost(o.side, o.price, j.n)
           q == Seen(w, r)
           u == [j EXCEPT !.at = "shrink"]
<1>1. /\ JobOk(j) /\ Valid(db) /\ RowsOk(m)
      /\ spoiled = {} /\ MarksOf(w) = {} => Dealing(db, m, j)
    BY DealerFacts
<1>2. j.at = "refund" /\ Writes(w, r, q + k, {}, u)
    BY DEF Refund, At
<1>3. /\ j.row \in OfferId /\ j.n \in Int /\ j.n >= 0 /\ j.row \in Listed /\ j.kind # "none"
    <2>1. Guarded(db, m, j, MarksOf(w), Listed)
        BY DEF Ownership
    <2>. QED  BY <1>1, <1>2, <2>1, IdleOk
              DEF JobOk, ValuesOk, FieldsOk, StepOk, Offering, Guarded, OffersOk
<1>4. b \in Account /\ Living(db, b)
    BY <1>3, Quantities DEF Ownership
<1>5. q \in Nat /\ q = Laid(db, m)[r] /\ r \in Row /\ r[1] = "account"
    BY <1>4, SeesAccounts, SeenLaid, RowFacts
<1>6. k \in Nat
    BY <1>3, CostType
<1>7. Goes(j, "shrink")
    BY <1>2 DEF Goes
<1>8. /\ JobOk(u) /\ u.at = "shrink"
      /\ u.kind = j.kind /\ u.id = j.id /\ u.left = j.left /\ u.rows = j.rows
      /\ u.row = j.row /\ u.n = j.n /\ u.got = j.got /\ u.half = j.half /\ u.due = j.due
    BY ONLY <1>1, <1>7, GoesOk, Zenon
<1> HIDE DEF u
<1>9. Dealing(db, m, j) => Dealing(db, Put(m, r, q + k), u)
    <2> SUFFICES ASSUME Dealing(db, m, j) PROVE Dealing(db, Put(m, r, q + k), u)
        OBVIOUS
    <2>1. CASE j.kind \notin DealKind
        BY <1>3, <1>8, <2>1, OtherDealing
    <2>2. CASE j.kind \in DealKind
        <3>1. /\ \A a \in Account : DueTo(j, a) = 0 /\ Awaited(j, a) = 0
              /\ Filling(m, j) = Order[j.id].quantity - j.left
            BY <1>2, CalmJob DEF Owes
        <3>2. \A a \in Account : DueTo(u, a) = IF a = b THEN k ELSE 0
            BY <1>8 DEF DueTo, Trading
        <3>3. /\ \A a \in Account : Awaited(u, a) = 0
              /\ Filling(m, u) = Order[u.id].quantity - u.left
            BY <1>8 DEF Awaited, Filling, Trading
        <3>4. AtLeastZero(q + k) - AtLeastZero(Laid(db, m)[r]) = k /\ ValueOk(r, q + k)
            <4> HIDE DEF q, k
            <4>1. AtLeastZero(q + k) = q + k /\ AtLeastZero(Laid(db, m)[r]) = q /\ q + k \in Nat
                BY <1>5, <1>6 DEF AtLeastZero
            <4>. QED  BY <1>5, <1>6, <4>1 DEF ValueOk
        <3>5. \A a \in Account :
                DueTo(u, a) = DueTo(j, a)
                  + (IF a = b THEN AtLeastZero(q + k) - AtLeastZero(Laid(db, m)[r]) ELSE 0)
            <4> HIDE DEF q, k, b
            <4>. QED  BY <1>6, <3>1, <3>2, <3>4
        <3>6. j.kind = "place" => Targets(db, m, u)
            BY <1>2, <1>8 DEF Dealing, Selling, Targets, Offering
        <3> HIDE DEF q, k, b
        <3>. QED  BY <1>1, <1>4, <1>8, <2>2, <3>1, <3>3, <3>4, <3>5, <3>6, AccountDealing
    <2>. QED  BY <2>1, <2>2
<1>. QED  BY <1>1, <1>2, <1>9, WritesFairly

(* Nobody crosses their own order. *)
LEMMA OthersCrossed ==
    ASSUME NEW d, NEW m, NEW j, JobOk(j), j.kind = "place", j.at \in Offering \cup Trading,
           Targets(d, m, j)
    PROVE  /\ j.row \in OfferId /\ j.id \in OfferId /\ j.row # j.id
           /\ Crossing(Order[j.id], Order[j.row])
           /\ Order[j.id].side # Order[j.row].side
           /\ d[OfferOf(j.row)] \in Int /\ Laid(d, m)[OfferOf(j.row)] \in Int =>
                Laid(d, m)[OfferOf(j.row)] <= d[OfferOf(j.row)]
<1>1. j.row \in OfferId /\ j.id \in OfferId
    BY OrderId DEF JobOk, ValuesOk
<1>2. Crossing(Order[j.id], Order[j.row])
    BY DEF Targets
<1>3. Order[j.id].side # Order[j.row].side
    BY <1>2 DEF Crossing
<1>4. d[OfferOf(j.row)] \in Int /\ Laid(d, m)[OfferOf(j.row)] \in Int =>
        Laid(d, m)[OfferOf(j.row)] <= d[OfferOf(j.row)]
    <2>1. OfferOf(j.row) \in Row
        BY <1>1, RowFacts
    <2>2. OfferOf(j.row) \in DOMAIN m => m[OfferOf(j.row)] < d[OfferOf(j.row)]
        BY <1>1, <1>3 DEF Targets
    <2>. QED  BY <2>1, <2>2 DEF Laid
<1>. QED  BY <1>1, <1>2, <1>3, <1>4

(* The offer shrinks, and the order awaits the units of a contract. *)
LEMMA ShrunkDealing ==
    ASSUME NEW d, Valid(d), NEW m, RowsOk(m), NEW j, JobOk(j), Dealing(d, m, j),
           j.at = "shrink", j.kind \in DealKind, NEW u, JobOk(u), u.kind = j.kind, u.id = j.id,
           Laid(d, m)[OfferOf(j.row)] = j.got,
           j.kind = "place" => /\ u.at = "side" /\ u.half = FIXED /\ u.left = j.left
                               /\ u.rows = j.rows /\ u.row = j.row /\ u.n = j.n,
           j.kind # "place" => u.at \in {"read", "filter", "commit"}
    PROVE  Dealing(d, Put(m, OfferOf(j.row), j.got - j.n), u)
<1> DEFINE o == Order[j.row]
           r == OfferOf(j.row)
           x == j.got - j.n
           n == Put(m, r, x)
           k == IF j.row = j.id THEN 0 ELSE j.n
<1>1. /\ j.row \in OfferId /\ j.n \in 1..j.got /\ j.got <= o.quantity
      /\ j.got \in Int /\ j.n \in Int /\ (j.kind # "place" => j.n = j.got)
    BY DEF JobOk, ValuesOk, FieldsOk, Offering, DealKind, Clearing
<1>2. r \in Row /\ r[1] = "offer" /\ r[2] = j.row
    BY <1>1, RowFacts
<1>3. o.quantity \in Nat /\ o.price \in Price
    BY <1>1, Quantities
<1>4. ValueOk(r, x)
    BY <1>1, <1>2, <1>3 DEF ValueOk
<1>5. /\ Cost(o.side, o.price, x) - Cost(o.side, o.price, j.got) = - Cost(o.side, o.price, j.n)
      /\ Cost(o.side, o.price, j.n) \in Int
    <2> DEFINE p == o.price
               g == j.got
               h == j.n
    <2>1. p \in Price /\ g \in Nat /\ h \in Nat /\ h <= g
        BY <1>1, <1>3
    <2> HIDE DEF p, g, h
    <2>2. /\ Cost(o.side, p, h) \in Nat /\ Cost(o.side, p, g) \in Nat
          /\ Cost(o.side, p, g - h) = Cost(o.side, p, g) - Cost(o.side, p, h)
          /\ Cost(o.side, p, 0) = 0
        BY ONLY <2>1, CostAdds, Zenon
    <2>3. Cost(o.side, p, g - h) - Cost(o.side, p, g) = - Cost(o.side, p, h)
        BY <2>2
    <2>. QED  BY <2>2, <2>3 DEF p, g, h
<1>6. \A a \in Account : DueTo(j, a) = (IF a = o.account THEN Cost(o.side, o.price, j.n) ELSE 0)
                         /\ Awaited(j, a) = 0
    BY DEF DueTo, Awaited, Trading
<1>7. \A a \in Account : DueTo(u, a) = 0
    <2>1. CASE j.kind = "place"
        BY <2>1 DEF DueTo, FixedOwes, Trading, FIXED, UNFIXED
    <2>2. CASE j.kind # "place"
        BY <2>2, CalmJob DEF Owes
    <2>. QED  BY <2>1, <2>2
<1>8. \A a \in Account :
        DueTo(u, a) = DueTo(j, a)
          + (IF a = o.account
             THEN Cost(o.side, o.price, x) - Cost(o.side, o.price, Laid(d, m)[r]) ELSE 0)
    <2> DEFINE y == Cost(o.side, o.price, x) - Cost(o.side, o.price, j.got)
               z == Cost(o.side, o.price, j.n)
    <2>1. y = - z /\ z \in Int
        BY <1>5
    <2>2. \A a \in Account : DueTo(j, a) = IF a = o.account THEN z ELSE 0
        BY <1>6
    <2> HIDE DEF y, z
    <2>3. \A a \in Account : DueTo(u, a) = DueTo(j, a) + (IF a = o.account THEN y ELSE 0)
        BY <1>7, <2>1, <2>2
    <2>. QED  BY <2>3 DEF y
<1>9. k \in Int /\ k = (IF j.row = j.id THEN 0 ELSE Laid(d, m)[r] - x)
    BY <1>1
<1>10. ASSUME j.kind = "place"
       PROVE  /\ \A a \in Account :
                   Awaited(u, a) = Awaited(j, a)
                     + Sign(j.id) * ((IF a = Order[j.id].account THEN k ELSE 0)
                                       - (IF a = o.account THEN k ELSE 0))
              /\ Filling(n, u) = Filling(m, j) + k
              /\ Targets(d, n, u)
    <2>1. Targets(d, m, j)
        BY <1>10 DEF Dealing, Selling
    <2>2. /\ j.id \in OfferId /\ j.row # j.id /\ Crossing(Order[j.id], o)
          /\ Order[j.id].side # o.side
          /\ d[r] \in Int /\ Laid(d, m)[r] \in Int => Laid(d, m)[r] <= d[r]
        BY <1>10, <2>1, OthersCrossed DEF Offering
    <2>3. k = j.n /\ k \in Int
        BY <1>1, <2>2
    <2>4. ASSUME NEW a \in Account
          PROVE  Awaited(u, a) = Sign(j.id) * ((IF a = Order[j.id].account THEN k ELSE 0)
                                                 - (IF a = o.account THEN k ELSE 0))
        <3>1. Awaited(u, a) = (IF a = Holder(u, FIXED) THEN k ELSE 0)
                                - (IF a = Holder(u, UNFIXED) THEN k ELSE 0)
            BY <1>10, <2>3 DEF Awaited, Trading
        <3>2. CASE Order[j.id].side = FIXED
            <4>1. Holder(u, FIXED) = Order[j.id].account /\ Holder(u, UNFIXED) = o.account
                  /\ Sign(j.id) = 1
                BY <1>10, <3>2 DEF Holder, Sign, FIXED, UNFIXED
            <4>. QED  BY <2>3, <3>1, <4>1
        <3>3. CASE Order[j.id].side # FIXED
            <4>1. Order[j.id].side = UNFIXED
                BY <2>2, <3>3, Quantities DEF Side
            <4>2. Holder(u, UNFIXED) = Order[j.id].account /\ Holder(u, FIXED) = o.account
                  /\ Sign(j.id) = -1
                BY <1>10, <3>3, <4>1 DEF Holder, Sign
            <4>. QED  BY <2>3, <3>1, <4>2
        <3>. QED  BY <3>2, <3>3
    <2>5. Filling(n, u) = Filling(m, j) + k
        <3>1. Order[j.id].quantity \in Int /\ j.left \in Int
            BY <1>10, OrderId
        <3>2. Filling(m, j) = Order[j.id].quantity - j.left
            BY DEF Filling, Trading
        <3>3. Filling(n, u) = Order[j.id].quantity - j.left + j.n
            BY <1>10 DEF Filling, Trading
        <3>. QED  BY <2>3, <3>1, <3>2, <3>3
    <2>6. Targets(d, n, u)
        <3>1. /\ \A s : s \in DOMAIN n <=> s = r \/ s \in DOMAIN m
              /\ \A s \in DOMAIN m : s # r => n[s] = m[s]
              /\ n[r] = x
            BY PutDomain, PutRows
        <3>2. d[r] \in Int /\ x < d[r]
            <4>1. d[r] \in Int
                BY <1>1, CostInt
            <4>. QED  BY <1>1, <2>2, <4>1
        <3> HIDE DEF n, x
        <3>3. ASSUME NEW i \in OfferId, OfferOf(i) \in DOMAIN n
              PROVE  IF i = u.id THEN n[OfferOf(i)] = u.left
                     ELSE Crossing(Order[u.id], Order[i]) /\ n[OfferOf(i)] < d[OfferOf(i)]
            <4>1. CASE i = j.row
                BY <1>10, <2>2, <3>1, <3>2, <4>1
            <4>2. CASE i # j.row
                <5>1. OfferOf(i) # r
                    BY <1>1, <4>2, RowFacts
                <5>2. OfferOf(i) \in DOMAIN m /\ n[OfferOf(i)] = m[OfferOf(i)]
                    BY <3>1, <3>3, <5>1
                <5>. QED  BY <1>10, <2>1, <5>2 DEF Targets
            <4>. QED  BY <4>1, <4>2
        <3>4. \A c \in ContractType, a \in Account : PositionRow(c, a) \in DOMAIN n => c = Order[u.id].ct
            <4>1. \A c \in ContractType, a \in Account : PositionRow(c, a) # r
                BY <1>1, RowFacts
            <4>. QED  BY <2>1, <3>1, <4>1 DEF Targets
        <3>5. /\ \A i \in DOMAIN u.rows : Crossing(Order[u.id], Order[i])
              /\ Crossing(Order[u.id], Order[u.row])
            BY <1>10, <2>1, <2>2 DEF Targets
        <3>. QED  BY <3>3, <3>4, <3>5 DEF Targets
    <2>7. ASSUME NEW a \in Account
          PROVE  Awaited(u, a) = Awaited(j, a)
                   + Sign(j.id) * ((IF a = Order[j.id].account THEN k ELSE 0)
                                     - (IF a = o.account THEN k ELSE 0))
        <3> DEFINE e == Sign(j.id) * ((IF a = Order[j.id].account THEN k ELSE 0)
                                        - (IF a = o.account THEN k ELSE 0))
        <3>1. Awaited(u, a) = e /\ Awaited(u, a) \in Int /\ Awaited(j, a) = 0
            BY <1>6, <2>4, DueInt
        <3> HIDE DEF e
        <3>2. Awaited(u, a) = Awaited(j, a) + e
            BY <3>1
        <3>. QED  BY <3>2 DEF e
    <2>. QED  BY <2>5, <2>6, <2>7
<1>11. j.kind # "place" => x = 0
    BY <1>1
<1>12. u.at # "user"
    BY DEF DealKind, Clearing
<1> HIDE DEF x, k, n
<1>13. Dealing(d, Put(m, OfferOf(j.row), x), u)
    BY <1>1, <1>4, <1>8, <1>9, <1>10, <1>11, <1>12, OfferDealing DEF n
<1>. QED  BY <1>13 DEF x

LEMMA ShrinkFairly ==
    ASSUME Types, OwnConnections, Fairly, NEW w \in Worker, Shrink(w)
    PROVE  Fairly'
<1> DEFINE j == job[w]
           m == Mine(w)
           r == OfferOf(j.row)
           q == Seen(w, r)
           x == j.got - j.n
           why == StaleIf(q # j.got, "offer")
           u == IF j.kind = "place" THEN [j EXCEPT !.at = "side", !.half = FIXED]
                ELSE NextRow(j)
<1>1. /\ JobOk(j) /\ Valid(db) /\ RowsOk(m)
      /\ spoiled = {} /\ MarksOf(w) = {} => Dealing(db, m, j)
    BY DealerFacts
<1>2. j.at = "shrink" /\ (HandlerRaises(w) \/ Writes(w, r, x, why, u))
    BY DEF Shrink, At
<1>3. CASE HandlerRaises(w)
    BY <1>3, RaisesFairly
<1>4. CASE Writes(w, r, x, why, u)
    <2>1. j.row \in OfferId /\ j.kind # "none"
        BY <1>1, <1>2, IdleOk DEF JobOk, ValuesOk, StepOk, Offering
    <2>2. q = Laid(db, m)[r]
        BY <2>1, RowFacts, SeenLaid
    <2>3. /\ JobOk(u) /\ u.kind = j.kind /\ u.id = j.id
          /\ j.kind = "place" => /\ u.at = "side" /\ u.half = FIXED /\ u.left = j.left
                                 /\ u.rows = j.rows /\ u.row = j.row /\ u.n = j.n
          /\ j.kind # "place" => u.at \in {"read", "filter", "commit"}
        <3>1. CASE j.kind = "place"
            <4> DEFINE y == [j EXCEPT !.at = "side", !.half = FIXED]
            <4>1. /\ JobOk(y) /\ y.at = "side" /\ y.half = FIXED
                  /\ y.kind = j.kind /\ y.id = j.id /\ y.left = j.left /\ y.rows = j.rows
                  /\ y.row = j.row /\ y.n = j.n /\ y.got = j.got /\ y.due = j.due
                BY ONLY <1>1, <1>2, <3>1, ShrunkOk, Zenon
            <4>2. u = y
                BY <3>1
            <4> HIDE DEF u, y
            <4>. QED  BY <3>1, <4>1, <4>2
        <3>2. CASE j.kind # "place"
            <4> DEFINE y == NextRow(j)
                       rest == DOMAIN j.rows \ {j.row}
            <4>1. Looping(j)
                BY <1>1, <1>2, LoopingOk DEF Offering
            <4>2. /\ JobOk(y)
                  /\ y.kind = j.kind /\ y.id = j.id /\ y.left = j.left /\ y.got = j.got
                  /\ y.half = j.half /\ y.due = j.due
                  /\ rest = {} => y.at = After(j.kind) /\ DOMAIN y.rows = {}
                  /\ rest # {} => /\ y.at = "read" /\ DOMAIN y.rows = rest
                                  /\ \A i \in rest : y.rows[i] = j.rows[i]
                                  /\ y.row \in rest /\ y.n = Min({j.left, j.rows[y.row]})
                BY ONLY <4>1, NextRowOk, Zenon
            <4>3. u = y
                BY <3>2
            <4> HIDE DEF u, y
            <4>. QED  BY <3>2, <4>2, <4>3 DEF After
        <3>. QED  BY <3>1, <3>2
    <2> HIDE DEF u
    <2>4. why = {} => q = j.got
        BY DEF StaleIf
    <2>5. q = j.got /\ Dealing(db, m, j) => Dealing(db, Put(m, r, x), u)
        <3>1. CASE j.kind \in DealKind
            BY <1>1, <1>2, <2>2, <2>3, <3>1, ShrunkDealing
        <3>2. CASE j.kind \notin DealKind
            <4>1. u.at # "user" /\ u.kind \notin DealKind /\ u.kind # "none"
                BY <2>1, <2>3, <3>2 DEF DealKind, Clearing
            <4>. QED  BY <4>1, OtherDealing
        <3>. QED  BY <3>1, <3>2
    <2> HIDE DEF why
    <2>. QED  BY <1>1, <1>4, <2>4, <2>5, WritesFairly
<1>. QED  BY <1>2, <1>3, <1>4

LEMMA MatchingFairly ==
    ASSUME Types, OwnConnections, Ownership, Fairly, NEW w \in Worker, Matching(w)
    PROVE  Fairly'
<1>1. CASE Lookup(w)
    BY <1>1, LookupFairly
<1>2. CASE Match(w)
    <2> DEFINE ids == {i \in OfferId : Crossing(Order[job[w].id], Order[i])}
    <2>1. Reads(w, Aim(job[w], Found(w, ids))) /\ job[w].at = "match"
        BY <1>2 DEF Match, At
    <2>. QED  BY <2>1, SearchFairly
<1>3. CASE ReadOffer(w)
    BY <1>3, ReadOfferFairly
<1>4. CASE Refund(w)
    BY <1>4, RefundFairly
<1>5. CASE Shrink(w)
    BY <1>5, ShrinkFairly
<1>. QED  BY <1>1, <1>2, <1>3, <1>4, <1>5 DEF Matching

(* A worker that withdraws offers goes on to another list of them. *)
LEMMA CalmFairly ==
    ASSUME Types, OwnConnections, Fairly, NEW w \in Worker, NEW u, Reads(w, u),
           job[w].kind \in Clearing, job[w].at \notin Owes, job[w].at # "commit",
           u.kind = job[w].kind, u.id = job[w].id, u.at \notin Owes, u.at # "user"
    PROVE  Fairly'
<1>1. /\ JobOk(job[w])
      /\ spoiled = {} /\ MarksOf(w) = {} => Dealing(db, Mine(w), job[w])
    BY DealerFacts
<1>2. job[w].kind # "place"
    BY DEF Clearing
<1>3. Dealing(db, Mine(w), job[w]) => Dealing(db, Mine(w), u)
    BY <1>2, CalmGoes
<1>. QED  BY <1>1, <1>3, ReadsFairly

LEMMA SweepingFairly ==
    ASSUME Types, OwnConnections, Fairly, NEW w \in Worker, Sweeping(w)
    PROVE  Fairly'
<1> DEFINE j == job[w]
<1>1. JobOk(j)
    BY DealerFacts
<1>2. CASE Find(w)
    <2>1. j.at = "find" /\ j.kind # "place"
        BY <1>1, <1>2 DEF Find, At, JobOk, StepOk
    <2>2. Expiring \in SUBSET OfferId
        BY DEF Expiring
    <2>. QED  BY <1>2, <2>1, <2>2, SearchFairly DEF Find
<1>3. CASE Filter(w)
    <2> DEFINE ids == Existing(w, {i \in OfferId : Order[i].ct = j.id})
               u == [j EXCEPT !.at = "commit", !.rows = [i \in ids |-> 1]]
    <2>1. j.at = "filter" /\ Reads(w, u) /\ ids \in SUBSET OfferId
        BY <1>3 DEF Filter, At, Existing
    <2>2. JobOk(u) /\ u.at = "commit" /\ u.kind = j.kind /\ u.id = j.id
        BY <1>1, <2>1, FilteredOk
    <2> HIDE DEF u
    <2>3. j.kind \in Clearing
        BY <1>1, <2>1 DEF JobOk, StepOk, Clearing
    <2>4. u.at \notin Owes /\ u.at # "user" /\ j.at \notin Owes /\ j.at # "commit"
        BY <2>1, <2>2 DEF Owes
    <2>. QED  BY <2>1, <2>2, <2>3, <2>4, CalmFairly
<1>4. CASE Clean(w)
    <2>1. PICK u : j.at = "clean" /\ Reads(w, u) /\ Cleaned(w, u)
        BY <1>4, CleanRows
    <2>2. PICK n \in Int : \E rows : Rows(rows) /\ u = Aim([j EXCEPT !.left = n], rows)
        BY <2>1, Zenon DEF Cleaned
    <2>3. PICK rows : Rows(rows) /\ u = Aim([j EXCEPT !.left = n], rows)
        BY <2>2
    <2> DEFINE i == [j EXCEPT !.left = n]
    <2>4. Looping(i) /\ i.kind = j.kind /\ i.id = j.id
        BY <1>1, <2>1, CleaningOk
    <2>5. u = Aim(i, rows)
        BY <2>3
    <2> HIDE DEF i
    <2>6. /\ JobOk(u) /\ u.kind = i.kind /\ u.id = i.id
          /\ DOMAIN rows = {} => u.at = After(i.kind)
          /\ DOMAIN rows # {} => u.at = "read"
        <3>1. Looping(i) /\ Rows(rows)
            BY <2>3, <2>4
        <3>. QED  BY ONLY <2>5, <3>1, AimOk
    <2>7. j.kind \in {"clear", "last"}
        BY <1>1, <2>1 DEF JobOk, StepOk
    <2>8. u.at \in {"read", "commit"}
        BY <2>4, <2>6, <2>7 DEF After
    <2>9. /\ u.at \notin Owes /\ u.at # "user" /\ j.at \notin Owes /\ j.at # "commit"
          /\ j.kind \in Clearing
        BY <2>1, <2>7, <2>8 DEF Owes, Clearing
    <2>. QED  BY <2>1, <2>4, <2>6, <2>9, CalmFairly
<1>5. CASE SweepRaises(w)
    BY <1>5, RaisesFairly DEF SweepRaises
<1>. QED  BY <1>2, <1>3, <1>4, <1>5 DEF Sweeping

(***************************************************************************)
(* Contracts.                                                              *)
(***************************************************************************)
LEMMA ReadSideFairly ==
    ASSUME Types, OwnConnections, Fairly, NEW w \in Worker, ReadSide(w)
    PROVE  Fairly'
<1> DEFINE j == job[w]
           m == Mine(w)
           q == Seen(w, HolderRow(j))
           u == [j EXCEPT !.at = "store", !.got = q]
<1>1. /\ JobOk(j) /\ (spoiled = {} /\ MarksOf(w) = {} => Dealing(db, m, j))
    BY DealerFacts
<1>2. j.at = "side" /\ Reads(w, u)
    BY DEF ReadSide, At
<1>3. u.at = "store" /\ u.kind = j.kind /\ u.id = j.id /\ u.left = j.left /\ u.rows = j.rows
      /\ u.row = j.row /\ u.n = j.n /\ u.half = j.half /\ u.due = j.due
    BY <1>1 DEF JobOk, IsJob
<1> HIDE DEF u
<1>4. Dealing(db, m, j) => Dealing(db, m, u)
    <2> SUFFICES ASSUME Dealing(db, m, j) PROVE Dealing(db, m, u)
        OBVIOUS
    <2>1. \A s : Holder(u, s) = Holder(j, s)
        BY <1>3 DEF Holder
    <2>2. \A a \in Account : DueTo(u, a) = DueTo(j, a) /\ Awaited(u, a) = Awaited(j, a)
        BY <1>2, <1>3, <2>1 DEF DueTo, FixedOwes, Awaited, Trading
    <2>3. Filling(m, u) = Filling(m, j)
        BY <1>2, <1>3 DEF Filling, Trading
    <2>4. j.kind = "place" => Targets(db, m, u)
        BY <1>2, <1>3 DEF Dealing, Selling, Targets, Offering, Trading
    <2>. QED  BY <1>3, <2>2, <2>3, <2>4, DealingGoes
<1>. QED  BY <1>1, <1>2, <1>4, ReadsFairly

(* A position grows by the units of the contract, and its side owes what   *)
(* that is worth more.                                                     *)
LEMMA StoredDealing ==
    ASSUME NEW d, Valid(d), NEW m, RowsOk(m), NEW j, JobOk(j), Dealing(d, m, j), j.at = "store",
           Laid(d, m)[HolderRow(j)] = j.got
    PROVE  Dealing(d, Put(m, HolderRow(j), j.got + Units(j)), Stored(j))
<1> DEFINE u == Stored(j)
           b == Holder(j, j.half)
           p == Order[j.id].price
           q == j.got
           k == j.n
           x == q + Units(j)
           r == HolderRow(j)
<1>1. j.at \in Trading
    BY DEF Trading
<1>2. /\ j.kind = "place" /\ j.id \in OfferId /\ q \in Int /\ k \in Nat /\ j.half \in {FIXED, UNFIXED}
      /\ Units(j) \in Int /\ b \in Account /\ p \in Price /\ j.due[FIXED] \in Int
      /\ j.due[UNFIXED] \in Int
    <2>1. /\ j.kind = "place" /\ j.id \in OfferId /\ j.row \in OfferId
          /\ j.n \in 1..j.left /\ j.left \in Int /\ j.n \in Int /\ j.got \in Int /\ Units(j) \in Int
          /\ \A s \in Side : j.due[s] \in Int
          /\ b \in Account
        BY <1>1, Holders
    <2>2. j.half \in {FIXED, UNFIXED}
        BY DEF JobOk, FieldsOk, Side
    <2>. QED  BY <2>1, <2>2, Quantities DEF Side
<1>3. /\ JobOk(u)
      /\ u.at = (IF j.half = FIXED THEN "side" ELSE "debit")
      /\ u.half = (IF j.half = FIXED THEN UNFIXED ELSE FIXED)
      /\ u.due[j.half] = Cost(j.half, Order[j.id].price, j.n) - Unit * Covered(j.got, Units(j))
      /\ \A s \in Side : s # j.half => u.due[s] = j.due[s]
      /\ u.kind = j.kind /\ u.id = j.id /\ u.left = j.left /\ u.rows = j.rows
      /\ u.row = j.row /\ u.n = j.n /\ u.got = j.got
    BY StoredOk
<1>4. HolderRow(j) = PositionRow(Order[j.id].ct, b)
    BY DEF HolderRow
<1> HIDE DEF u
<1>5. \A s : Holder(u, s) = Holder(j, s)
    BY <1>3 DEF Holder
<1>6. Targets(d, m, u)
    BY <1>2, <1>3 DEF Dealing, Selling, Targets, Offering, Trading
<1>7. Filling(m, u) = Filling(m, j)
    BY <1>3 DEF Filling, Trading
<1>8. x \in Int /\ x - q = Units(j)
    BY <1>2
<1>9. Worth(x, p) - Worth(q, p) = u.due[j.half] /\ u.due[j.half] \in Int
    <2> DEFINE fc == p * k - Unit * Covered(q, k)
               uc == (Unit - p) * k - Unit * Covered(q, -k)
    <2>1. /\ fc \in Int /\ uc \in Int /\ Worth(q, p) \in Int
          /\ Worth(q + k, p) = Worth(q, p) + fc
          /\ Worth(q + (-k), p) = Worth(q, p) + uc
        <3> HIDE DEF q, k, p
        <3>. QED  BY <1>2, SideWorth
    <2>2. CASE j.half = FIXED
        <3>1. x = q + k /\ u.due[j.half] = fc
            BY <1>3, <2>2 DEF Units, Cost
        <3> HIDE DEF x, fc, q
        <3>. QED  BY <2>1, <3>1
    <2>3. CASE j.half = UNFIXED
        <3>1. x = q + (-k) /\ u.due[j.half] = uc
            BY <1>3, <2>3 DEF Units, Cost, FIXED, UNFIXED
        <3> HIDE DEF x, uc, q
        <3>. QED  BY <2>1, <3>1
    <2>. QED  BY <1>2, <2>2, <2>3
<1>10. \A a \in Account : DueTo(u, a) = DueTo(j, a) + (IF a = b THEN u.due[j.half] ELSE 0)
    <2> SUFFICES ASSUME NEW a \in Account
                 PROVE  DueTo(u, a) = DueTo(j, a) + (IF a = b THEN u.due[j.half] ELSE 0)
        OBVIOUS
    <2>1. CASE j.half = FIXED
        <3>1. DueTo(j, a) = 0
            BY <2>1 DEF DueTo, FixedOwes, Trading, FIXED, UNFIXED
        <3>2. DueTo(u, a) = IF a = b THEN u.due[FIXED] ELSE 0
            BY <1>3, <1>5, <1>9, <2>1 DEF DueTo, FixedOwes, Trading, FIXED, UNFIXED
        <3>. QED  BY <1>9, <2>1, <3>1, <3>2
    <2>2. CASE j.half = UNFIXED
        <3>1. DueTo(j, a) = IF a = Holder(j, FIXED) THEN j.due[FIXED] ELSE 0
            BY <1>2, <2>2 DEF DueTo, FixedOwes, Trading
        <3>2. u.due[FIXED] = j.due[FIXED]
            BY <1>3, <2>2 DEF Side, FIXED, UNFIXED
        <3>3. DueTo(u, a) = (IF a = Holder(j, FIXED) THEN j.due[FIXED] ELSE 0)
                              + (IF a = b THEN u.due[UNFIXED] ELSE 0)
            BY <1>3, <1>5, <2>2, <3>2 DEF DueTo, FixedOwes, Trading, FIXED, UNFIXED
        <3>. QED  BY <2>2, <3>1, <3>3
    <2>. QED  BY <1>2, <2>1, <2>2
<1>11. \A a \in Account : Awaited(u, a) = Awaited(j, a) - (IF a = b THEN x - q ELSE 0)
    <2> SUFFICES ASSUME NEW a \in Account
                 PROVE  Awaited(u, a) = Awaited(j, a) - (IF a = b THEN x - q ELSE 0)
        OBVIOUS
    <2>1. CASE j.half = FIXED
        <3>1. x - q = k
            BY <1>8, <2>1 DEF Units
        <3>2. Awaited(j, a) = (IF a = b THEN k ELSE 0) - (IF a = Holder(j, UNFIXED) THEN k ELSE 0)
            BY <2>1 DEF Awaited
        <3>3. Awaited(u, a) = 0 - (IF a = Holder(j, UNFIXED) THEN k ELSE 0)
            BY <1>3, <1>5, <2>1 DEF Awaited, FIXED, UNFIXED
        <3> HIDE DEF x, q, k, b
        <3>. QED  BY <1>2, <3>1, <3>2, <3>3
    <2>2. CASE j.half = UNFIXED
        <3>1. x - q = -k
            BY <1>8, <2>2 DEF Units, FIXED, UNFIXED
        <3>2. Awaited(j, a) = 0 - (IF a = b THEN k ELSE 0)
            BY <2>2 DEF Awaited, FIXED, UNFIXED
        <3>3. Awaited(u, a) = 0 - 0
            BY <1>3, <2>2 DEF Awaited, FIXED, UNFIXED
        <3> HIDE DEF x, q, k, b
        <3>. QED  BY <1>2, <3>1, <3>2, <3>3
    <2>. QED  BY <1>2, <2>1, <2>2
<1>12. Laid(d, m)[PositionRow(Order[j.id].ct, b)] = q /\ u.at # "user"
    BY <1>3, <1>4
<1>13. \A a \in Account :
         DueTo(u, a) = DueTo(j, a) + (IF a = b THEN Worth(x, p) - Worth(q, p) ELSE 0)
    BY <1>9, <1>10
<1> HIDE DEF x, q, b
<1>14. Dealing(d, Put(m, PositionRow(Order[j.id].ct, b), x), u)
    BY <1>2, <1>3, <1>6, <1>7, <1>8, <1>11, <1>12, <1>13, PositionDealing
<1>. QED  BY <1>4, <1>14 DEF u, x, q

LEMMA StoreFairly ==
    ASSUME Types, OwnConnections, Fairly, NEW w \in Worker,
           InsertSide(w) \/ UpdateSide(w)
    PROVE  Fairly'
<1> DEFINE j == job[w]
           m == Mine(w)
           r == HolderRow(j)
           x == j.got + Units(j)
           u == Stored(j)
<1>1. /\ JobOk(j) /\ Valid(db) /\ RowsOk(m) /\ j.at = "store" /\ j.at \in Trading
    BY DealerFacts DEF InsertSide, UpdateSide, At, Trading
<1>2. spoiled = {} /\ MarksOf(w) = {} => Dealing(db, m, j)
    BY DealerFacts
<1>3. /\ j.got \in Int /\ Units(j) \in Int /\ r \in Row /\ r[1] = "position"
      /\ j.kind = "place"
    BY <1>1, Holders
<1>4. Dealing(db, m, j) /\ Seen(w, r) = j.got => Dealing(db, Put(m, r, x), u)
    BY <1>1, <1>3, SeenLaid, StoredDealing
<1>5. CASE InsertSide(w)
    <2>1. CASE StatementFails(w)
        BY <2>1, FailsFairly
    <2>2. ASSUME ~ StatementFails(w)
          PROVE  Fairly'
        <3> DEFINE s == IdRow(Order[j.id].ct, Holder(j, j.half))
                   p == Put(m, s, Seen(w, s) + 1)
        <3>1. Lays(w, Put(p, r, Units(j)), {}, u)
            BY <1>5, <2>2, InsertLays DEF Mine
        <3>2. j.got = 0 /\ ~ Exist(r, Seen(w, r))
            BY <1>5, <2>2 DEF InsertSide
        <3>3. Units(j) = x /\ Seen(w, r) = j.got
            BY <1>3, <3>2 DEF Exist
        <3>4. s \in Row /\ s[1] = "id"
            <4>1. j.id \in OfferId /\ Holder(j, j.half) \in Account
                BY <1>1, Holders
            <4>2. Order[j.id].ct \in ContractType
                BY <4>1, Quantities
            <4>. QED  BY <4>1, <4>2, RowFacts
        <3>5. ValueOk(s, Seen(w, s) + 1)
            <4>1. ValueOk(s, Seen(w, s))
                BY <3>4, SeenOk
            <4>. QED  BY <3>4, <4>1 DEF ValueOk
        <3>6. RowsOk(p)
            BY <1>1, <3>4, <3>5, PutOk
        <3>7. Dealing(db, m, j) => Dealing(db, p, j)
            BY <1>1, <1>3, <3>4, AlikeDealing
        <3>8. Laid(db, p)[r] = Laid(db, m)[r]
            BY <1>3, <3>4, LaidPut DEF But
        <3>9. Laid(db, p)[r] = j.got
            BY <1>3, <3>3, <3>8, SeenLaid
        <3> HIDE DEF s
        <3>10. Dealing(db, p, j) => Dealing(db, Put(p, r, x), u)
            BY <1>1, <3>6, <3>9, StoredDealing
        <3> HIDE DEF p, u, r, x
        <3>. QED  BY <1>2, <3>1, <3>3, <3>7, <3>10, LaysFairly
    <2>. QED  BY <2>1, <2>2
<1>6. CASE UpdateSide(w)
    <2> DEFINE why == StaleIf(Seen(w, r) # j.got, "position")
    <2>1. Updates(w, r, x, why, u) /\ j.got # 0
        BY <1>6 DEF UpdateSide
    <2>2. why = {} => Seen(w, r) = j.got /\ Exist(r, Seen(w, r))
        BY <1>3, <2>1 DEF Exist, StaleIf
    <2> HIDE DEF x, u, r, why
    <2>. QED  BY <1>2, <1>4, <2>1, <2>2, UpdatesFairly
<1>. QED  BY <1>5, <1>6

(* Whoever pays from an account has that much less due. *)
LEMMA PaysFairly ==
    ASSUME Types, OwnConnections, Ownership, Fairly, NEW w \in Worker,
           NEW b \in Account, Living(db, b), NEW amount \in Int, NEW u, JobOk(u),
           \/ StatementFails(w)
           \/ /\ Seen(w, AccountRow(b)) >= amount
              /\ Writes(w, AccountRow(b), Seen(w, AccountRow(b)) - amount, {}, u),
           job[w].kind = "place", u.kind = "place", u.id = job[w].id, u.at # "user",
           \A a \in Account : DueTo(u, a) = DueTo(job[w], a) - (IF a = b THEN amount ELSE 0),
           \A a \in Account : Awaited(u, a) = Awaited(job[w], a),
           Targets(db, Mine(w), job[w]) =>
             /\ Filling(Mine(w), u) = Filling(Mine(w), job[w])
             /\ Targets(db, Mine(w), u)
    PROVE  Fairly'
<1> DEFINE j == job[w]
           m == Mine(w)
           r == AccountRow(b)
           q == Seen(w, r)
           x == q - amount
<1>1. /\ JobOk(j) /\ Valid(db) /\ RowsOk(m)
      /\ spoiled = {} /\ MarksOf(w) = {} => Dealing(db, m, j)
    BY DealerFacts
<1>2. CASE StatementFails(w)
    BY <1>2, FailsFairly
<1>3. CASE q >= amount /\ Writes(w, r, x, {}, u)
    <2>1. q \in Nat /\ q = Laid(db, m)[r] /\ r \in Row /\ r[1] = "account"
        BY SeesAccounts, SeenLaid, RowFacts
    <2>2. Writes(w, r, x, {}, u)
        BY <1>3
    <2> HIDE DEF q
    <2>3. x \in Nat /\ AtLeastZero(x) = q - amount /\ AtLeastZero(q) = q
        BY <1>3, <2>1 DEF AtLeastZero
    <2>4. AtLeastZero(x) - AtLeastZero(Laid(db, m)[r]) = - amount
        BY <2>1, <2>3
    <2> HIDE DEF x
    <2>5. ValueOk(r, x)
        BY <2>1, <2>3 DEF ValueOk
    <2>6. \A a \in Account :
            DueTo(u, a) = DueTo(j, a)
              + (IF a = b THEN AtLeastZero(x) - AtLeastZero(Laid(db, m)[r]) ELSE 0)
        <3>1. \A a \in Account : DueTo(j, a) \in Int
            BY <1>1, DueInt
        <3>. QED  BY <2>4, <3>1
    <2>7. Dealing(db, m, j) => Dealing(db, Put(m, r, x), u)
        <3>1. Dealing(db, m, j) => Filling(m, u) = Filling(m, j) /\ Targets(db, m, u)
            BY DEF Dealing, Selling
        <3>2. j.kind \in DealKind /\ u.kind = j.kind /\ u.id = j.id
            BY DEF DealKind, Clearing
        <3>. QED  BY <1>1, <2>5, <2>6, <3>1, <3>2, AccountDealing
    <2>. QED  BY <1>1, <2>2, <2>7, WritesFairly
<1>. QED  BY <1>2, <1>3

LEMMA DebitFixedFairly ==
    ASSUME Types, OwnConnections, Ownership, Fairly, NEW w \in Worker, DebitFixed(w)
    PROVE  Fairly'
<1> DEFINE j == job[w]
           u == [j EXCEPT !.half = UNFIXED]
           b == Holder(j, FIXED)
           k == j.due[FIXED]
           r == AccountRow(b)
<1>1. JobOk(j)
    BY DealerFacts
<1>2. j.at = "debit" /\ j.at \in Trading /\ j.half = FIXED /\ Pays(w, b, k, u)
    BY DEF DebitFixed, At, Trading
<1>3. /\ j.kind = "place" /\ b \in Account /\ Living(db, b) /\ k \in Int
      /\ j.due[UNFIXED] \in Int
    BY <1>2, TraderFacts DEF Side
<1>4. /\ JobOk(u) /\ u.half = UNFIXED
      /\ u.kind = j.kind /\ u.at = j.at /\ u.id = j.id /\ u.left = j.left
      /\ u.rows = j.rows /\ u.row = j.row /\ u.n = j.n /\ u.got = j.got /\ u.due = j.due
    BY ONLY <1>1, <1>2, DebitedOk, Zenon
<1> HIDE DEF u
<1>5. \A s : Holder(u, s) = Holder(j, s)
    BY <1>4 DEF Holder
<1>6. \A a \in Account : DueTo(u, a) = DueTo(j, a) - (IF a = b THEN k ELSE 0)
    <2> SUFFICES ASSUME NEW a \in Account PROVE DueTo(u, a) = DueTo(j, a) - (IF a = b THEN k ELSE 0)
        OBVIOUS
    <2> DEFINE y == IF a = Holder(j, UNFIXED) THEN j.due[UNFIXED] ELSE 0
    <2>1. DueTo(j, a) = (IF a = b THEN k ELSE 0) + y
        BY <1>2 DEF DueTo, FixedOwes, Trading
    <2>2. DueTo(u, a) = 0 + y
        BY <1>2, <1>4, <1>5 DEF DueTo, FixedOwes, Trading, FIXED, UNFIXED
    <2>3. y \in Int
        BY <1>3
    <2> HIDE DEF y, k, b
    <2>. QED  BY <1>3, <2>1, <2>2, <2>3
<1>7. \A a \in Account : Awaited(u, a) = Awaited(j, a)
    BY <1>2, <1>4 DEF Awaited
<1>8. Targets(db, Mine(w), j) => Filling(Mine(w), u) = Filling(Mine(w), j) /\ Targets(db, Mine(w), u)
    BY <1>2, <1>4 DEF Filling, Targets
<1> HIDE DEF b
<1>9. Seen(w, r) \in Int
    BY <1>3, SeesAccounts
<1> HIDE DEF k
<1>10. StatementFails(w) \/ (Seen(w, r) >= k /\ Writes(w, r, Seen(w, r) - k, {}, u))
    BY <1>2, <1>3, <1>9 DEF Pays
<1>11. u.kind = "place" /\ u.at # "user"
    BY <1>2, <1>3, <1>4
<1>. QED  BY <1>3, <1>4, <1>6, <1>7, <1>8, <1>10, <1>11, PaysFairly

LEMMA DebitUnfixedFairly ==
    ASSUME Types, OwnConnections, Ownership, Fairly, NEW w \in Worker, DebitUnfixed(w)
    PROVE  Fairly'
<1> DEFINE j == job[w]
           m == Mine(w)
           u == Contracted(j)
           b == Holder(j, UNFIXED)
           k == j.due[UNFIXED]
           r == AccountRow(b)
           rest == DOMAIN j.rows \ {j.row}
<1>1. JobOk(j) /\ Guarded(db, m, j, MarksOf(w), Listed)
    BY DealerFacts DEF Ownership
<1>2. /\ j.at = "debit" /\ j.at \in Trading /\ j.half = UNFIXED
      /\ IF Seen(w, r) < k THEN StatementFails(w) ELSE Writes(w, r, Seen(w, r) - k, {}, u)
    BY DEF DebitUnfixed, At, Trading
<1>3. j.kind = "place" /\ b \in Account /\ Living(db, b) /\ k \in Int /\ j.id \in OfferId
    BY <1>2, TraderFacts DEF Side
<1>4. /\ JobOk(u)
      /\ u.kind = j.kind /\ u.id = j.id /\ u.got = j.got
      /\ u.half = j.half /\ u.due = j.due
      /\ j.left = j.n => u.at = "commit" /\ u.left = j.left
      /\ j.left # j.n =>
           /\ u.left = j.left - j.n
           /\ rest = {} => u.at = "rest" /\ DOMAIN u.rows = {}
           /\ rest # {} => /\ u.at = "read" /\ DOMAIN u.rows = rest
                           /\ \A i \in rest : u.rows[i] = j.rows[i]
                           /\ u.row \in rest
                           /\ u.n = Min({u.left, j.rows[u.row]})
    BY ONLY <1>1, <1>2, ContractedOk, Zenon
<1>5. j.left = j.n => u.rows = j.rows
    BY DEF Contracted, JobOk, IsJob
<1> HIDE DEF u
<1>6. u.at \in {"commit", "rest", "read"} /\ u.kind = "place" /\ u.at # "user"
    BY <1>3, <1>4
<1>7. \A a \in Account : DueTo(u, a) = 0 /\ Awaited(u, a) = 0
    BY <1>6, CalmJob DEF Owes
<1>8. \A a \in Account : DueTo(u, a) = DueTo(j, a) - (IF a = b THEN k ELSE 0)
    <2> SUFFICES ASSUME NEW a \in Account PROVE DueTo(u, a) = DueTo(j, a) - (IF a = b THEN k ELSE 0)
        OBVIOUS
    <2>1. DueTo(j, a) = 0 + (IF a = b THEN k ELSE 0)
        BY <1>2 DEF DueTo, FixedOwes, Trading, FIXED, UNFIXED
    <2> HIDE DEF k, b
    <2>. QED  BY <1>3, <1>7, <2>1
<1>9. \A a \in Account : Awaited(u, a) = Awaited(j, a)
    BY <1>2, <1>7 DEF Awaited
<1>10. OfferOf(j.id) \notin DOMAIN m
    BY <1>1, <1>2, <1>3 DEF Guarded, OffersOk, HasOffer
<1>11. ASSUME Targets(db, m, j)
       PROVE  Filling(m, u) = Filling(m, j) /\ Targets(db, m, u)
    <2>1. /\ Order[j.id].quantity \in Int /\ j.left \in Int /\ j.n \in Int
        BY <1>1, <1>3, OrderId DEF JobOk, FieldsOk
    <2>2. Filling(m, j) = Order[j.id].quantity - j.left + j.n
        BY <1>2 DEF Filling
    <2>3. CASE j.left = j.n
        <3>1. Filling(m, u) = Order[j.id].quantity
            BY <1>4, <1>10, <2>3 DEF Filling, Trading
        <3>2. Targets(db, m, u)
            BY <1>4, <1>5, <1>11, <2>3 DEF Targets, Offering, Trading
        <3>. QED  BY <2>1, <2>2, <2>3, <3>1, <3>2
    <2>4. CASE j.left # j.n
        <3>1. u.at \in {"read", "rest"} /\ u.left = j.left - j.n /\ u.id = j.id
            BY <1>4, <2>4
        <3>2. Filling(m, u) = Order[j.id].quantity - u.left
            BY <3>1 DEF Filling, Trading
        <3>3. /\ DOMAIN u.rows \subseteq DOMAIN j.rows
              /\ u.at \in Offering \cup Trading => u.row \in DOMAIN j.rows
            BY <1>4, <2>4 DEF Offering, Trading
        <3>4. \A i \in OfferId : OfferOf(i) \in DOMAIN m => i # j.id
            BY <1>10
        <3>5. Targets(db, m, u)
            BY <1>11, <3>1, <3>3, <3>4 DEF Targets
        <3>. QED  BY <2>1, <2>2, <3>1, <3>2, <3>5
    <2>. QED  BY <2>3, <2>4
<1> HIDE DEF b
<1>12. Seen(w, r) \in Int
    BY <1>3, SeesAccounts
<1> HIDE DEF k
<1>13. StatementFails(w) \/ (Seen(w, r) >= k /\ Writes(w, r, Seen(w, r) - k, {}, u))
    BY <1>2, <1>3, <1>12
<1>. QED  BY <1>3, <1>4, <1>6, <1>8, <1>9, <1>11, <1>13, PaysFairly

(* The offer that rests is paid for, and then it is there. *)
LEMMA RestFairly ==
    ASSUME Types, OwnConnections, Ownership, Fairly, NEW w \in Worker, Rest(w)
    PROVE  Fairly'
<1> DEFINE j == job[w]
           m == Mine(w)
           o == Order[j.id]
           u == [j EXCEPT !.at = "insert"]
           b == o.account
           k == Cost(o.side, o.price, j.left)
           r == AccountRow(b)
<1>1. JobOk(j) /\ Guarded(db, m, j, MarksOf(w), Listed)
    BY DEF Types, Ownership
<1>2. j.at = "rest" /\ Goes(j, "insert") /\ Pays(w, b, k, u)
    BY DEF Rest, At, Goes
<1>3. j.kind = "place" /\ j.id \in OfferId /\ j.left \in Int /\ j.id \in Listed
    BY <1>1, <1>2 DEF JobOk, StepOk, ValuesOk, FieldsOk, Guarded, OffersOk
<1>4. b \in Account /\ k \in Int /\ Living(db, b)
    BY <1>3, Quantities, CostType DEF Ownership
<1>5. /\ JobOk(u) /\ u.at = "insert"
      /\ u.kind = j.kind /\ u.id = j.id /\ u.left = j.left /\ u.rows = j.rows
      /\ u.row = j.row /\ u.n = j.n /\ u.got = j.got /\ u.half = j.half /\ u.due = j.due
    BY ONLY <1>1, <1>2, GoesOk, Zenon
<1> HIDE DEF u
<1>6. \A a \in Account : DueTo(j, a) = 0 /\ Awaited(j, a) = 0
    BY <1>2, CalmJob DEF Owes
<1>7. \A a \in Account : DueTo(u, a) = DueTo(j, a) - (IF a = b THEN k ELSE 0)
    <2> SUFFICES ASSUME NEW a \in Account PROVE DueTo(u, a) = DueTo(j, a) - (IF a = b THEN k ELSE 0)
        OBVIOUS
    <2>1. DueTo(u, a) = IF a = b THEN - k ELSE 0
        BY <1>5 DEF DueTo, Trading
    <2>2. DueTo(j, a) = 0
        BY <1>6
    <2> HIDE DEF k, b
    <2>. QED  BY <1>4, <2>1, <2>2
<1>8. \A a \in Account : Awaited(u, a) = Awaited(j, a)
    BY <1>5, <1>6 DEF Awaited
<1>9. Targets(db, m, j) => Filling(m, u) = Filling(m, j) /\ Targets(db, m, u)
    BY <1>2, <1>5 DEF Filling, Targets, Trading, Offering
<1>10. Seen(w, r) \in Int
    BY <1>4, SeesAccounts
<1> HIDE DEF k, b
<1>11. StatementFails(w) \/ (Seen(w, r) >= k /\ Writes(w, r, Seen(w, r) - k, {}, u))
    BY <1>2, <1>4, <1>10 DEF Pays
<1>12. u.kind = "place" /\ u.at # "user"
    BY <1>3, <1>5
<1>. QED  BY <1>3, <1>4, <1>5, <1>7, <1>8, <1>9, <1>11, <1>12, PaysFairly

LEMMA InsertOfferFairly ==
    ASSUME Types, OwnConnections, Ownership, Fairly, NEW w \in Worker, InsertOffer(w)
    PROVE  Fairly'
<1> DEFINE j == job[w]
           m == Mine(w)
           o == Order[j.id]
           r == OfferOf(j.id)
           x == j.left
           u == [j EXCEPT !.at = "commit"]
<1>1. /\ JobOk(j) /\ Valid(db) /\ RowsOk(m)
      /\ spoiled = {} /\ MarksOf(w) = {} => Dealing(db, m, j)
      /\ Guarded(db, m, j, MarksOf(w), Listed)
    BY DealerFacts DEF Ownership
<1> SUFFICES ASSUME ~ StatementFails(w) PROVE Fairly'
    BY FailsFairly
<1>2. j.at = "insert" /\ Goes(j, "commit") /\ Writes(w, r, x, {}, u)
    BY DEF InsertOffer, At, Goes
<1>3. j.kind = "place" /\ j.id \in OfferId /\ x \in 1..o.quantity
    BY <1>1, <1>2 DEF JobOk, StepOk, ValuesOk
<1>4. o.quantity \in Nat /\ o.price \in Price /\ x \in Nat /\ x <= o.quantity
    BY <1>3, Quantities
<1>5. r \in Row /\ r[1] = "offer" /\ r[2] = j.id
    BY <1>3, RowFacts
<1>6. Laid(db, m)[r] = 0 /\ r \notin DOMAIN m
    BY <1>1, <1>2, <1>3, <1>5 DEF Laid, Guarded, OffersOk, HasOffer
<1>7. /\ JobOk(u) /\ u.at = "commit"
      /\ u.kind = j.kind /\ u.id = j.id /\ u.left = j.left /\ u.rows = j.rows
      /\ u.row = j.row /\ u.n = j.n /\ u.got = j.got /\ u.half = j.half /\ u.due = j.due
    BY ONLY <1>1, <1>2, GoesOk, Zenon
<1> HIDE DEF u
<1>8. ValueOk(r, x)
    BY <1>4, <1>5 DEF ValueOk
<1>9. Cost(o.side, o.price, x) \in Int /\ Cost(o.side, o.price, 0) = 0
    <2> DEFINE p == o.price
               s == o.side
    <2>1. p \in Price /\ x \in Nat /\ 0 \in Nat /\ 0 <= x
        BY <1>4
    <2> HIDE DEF p, x, s
    <2>2. /\ Cost(s, p, 0) \in Nat /\ Cost(s, p, x) \in Nat
          /\ Cost(s, p, x - 0) = Cost(s, p, x) - Cost(s, p, 0)
          /\ Cost(s, p, 0) = 0
        BY ONLY <2>1, CostAdds, Zenon
    <2>. QED  BY <2>2 DEF p, s
<1>10. \A a \in Account : DueTo(u, a) = 0 /\ Awaited(u, a) = 0 /\ Awaited(j, a) = 0
    BY <1>2, <1>7, CalmJob DEF Owes, Awaited
<1>11. \A a \in Account :
         DueTo(u, a) = DueTo(j, a)
           + (IF a = o.account
              THEN Cost(o.side, o.price, x) - Cost(o.side, o.price, Laid(db, m)[r])
              ELSE 0)
    <2> DEFINE b == o.account
               y == Cost(o.side, o.price, x)
               z == Cost(o.side, o.price, Laid(db, m)[r])
    <2> SUFFICES ASSUME NEW a \in Account
                 PROVE  DueTo(u, a) = DueTo(j, a) + (IF a = b THEN y - z ELSE 0)
        OBVIOUS
    <2>1. DueTo(j, a) = IF a = b THEN - y ELSE 0
        BY <1>2 DEF DueTo, Trading
    <2>2. DueTo(u, a) = 0 /\ y \in Int /\ z = 0
        BY <1>6, <1>9, <1>10
    <2> HIDE DEF b, y, z
    <2>. QED  BY <2>1, <2>2
<1>12. Sign(j.id) \in {1, -1}
    BY DEF Sign
<1>13. \A a \in Account :
         Awaited(u, a) = Awaited(j, a)
           + Sign(j.id) * ((IF a = o.account THEN 0 ELSE 0) - (IF a = o.account THEN 0 ELSE 0))
    <2> DEFINE s == Sign(j.id)
               b == o.account
    <2> SUFFICES ASSUME NEW a \in Account
                 PROVE  Awaited(u, a) = Awaited(j, a)
                          + s * ((IF a = b THEN 0 ELSE 0) - (IF a = b THEN 0 ELSE 0))
        OBVIOUS
    <2>1. Awaited(u, a) = 0 /\ Awaited(j, a) = 0 /\ s \in Int
        BY <1>10, <1>12
    <2> HIDE DEF s, b
    <2>2. s * ((IF a = b THEN 0 ELSE 0) - (IF a = b THEN 0 ELSE 0)) = 0
        BY <2>1
    <2>. QED  BY <2>1, <2>2
<1>14. Filling(Put(m, r, x), u) = Filling(m, j) + 0
    <2>1. Filling(m, j) = o.quantity - x
        BY <1>2 DEF Filling, Trading
    <2>2. r \in DOMAIN Put(m, r, x)
        BY PutDomain
    <2>3. Filling(Put(m, r, x), u) = o.quantity - x
        BY <1>7, <2>2 DEF Filling, Trading
    <2>. QED  BY <1>4, <2>1, <2>3
<1>15. Targets(db, m, j) => Targets(db, Put(m, r, x), u)
    <2> SUFFICES ASSUME Targets(db, m, j) PROVE Targets(db, Put(m, r, x), u)
        OBVIOUS
    <2>1. \A i \in OfferId : OfferOf(i) = r => i = j.id
        BY DEF OfferOf
    <2>2. /\ \A s : s \in DOMAIN Put(m, r, x) <=> s = r \/ s \in DOMAIN m
          /\ Put(m, r, x)[r] = x /\ \A s \in DOMAIN m : s # r => Put(m, r, x)[s] = m[s]
        BY PutDomain, PutRows
    <2>3. \A i \in OfferId : i # j.id => /\ OfferOf(i) \in DOMAIN Put(m, r, x) <=> OfferOf(i) \in DOMAIN m
                                         /\ OfferOf(i) \in DOMAIN m => Put(m, r, x)[OfferOf(i)] = m[OfferOf(i)]
        BY <2>1, <2>2
    <2>4. \A c \in ContractType, a \in Account :
            PositionRow(c, a) \in DOMAIN Put(m, r, x) <=> PositionRow(c, a) \in DOMAIN m
        BY <2>2 DEF PositionRow, OfferOf
    <2> HIDE DEF x, r
    <2>5. \A i \in OfferId : OfferOf(i) \in DOMAIN Put(m, r, x) =>
            IF i = u.id THEN Put(m, r, x)[OfferOf(i)] = u.left
            ELSE Crossing(Order[u.id], Order[i]) /\ Put(m, r, x)[OfferOf(i)] < db[OfferOf(i)]
        BY <1>7, <2>2, <2>3 DEF Targets, x, r
    <2>. QED  BY <1>7, <2>4, <2>5 DEF Targets, Offering, Trading
<1>16. Dealing(db, m, j) => Dealing(db, Put(m, r, x), u)
    <2> SUFFICES ASSUME Dealing(db, m, j) PROVE Dealing(db, Put(m, r, x), u)
        OBVIOUS
    <2> DEFINE k == 0
    <2>1. Targets(db, Put(m, r, x), u)
        BY <1>3, <1>15 DEF Dealing, Selling
    <2>2. j.kind \in DealKind /\ u.kind = j.kind /\ u.id = j.id /\ u.at # "user" /\ 0 \in Int
        BY <1>3, <1>7 DEF DealKind, Clearing
    <2>3. 0 = (IF j.id = j.id THEN 0 ELSE Laid(db, m)[r] - x)
        OBVIOUS
    <2> HIDE DEF x
    <2>. QED  BY ONLY <1>1, <1>3, <1>7, <1>8, <1>11, <1>13, <1>14, <2>1, <2>2, <2>3,
        Dealing(db, m, j), OfferDealing, Zenon
<1> HIDE DEF x
<1>. QED  BY <1>1, <1>2, <1>16, WritesFairly

LEMMA ContractingFairly ==
    ASSUME Types, OwnConnections, Ownership, Fairly, NEW w \in Worker, Contracting(w)
    PROVE  Fairly'
<1>1. CASE ReadSide(w)
    BY <1>1, ReadSideFairly
<1>2. CASE InsertSide(w) \/ UpdateSide(w)
    BY <1>2, StoreFairly
<1>3. CASE DebitFixed(w)
    BY <1>3, DebitFixedFairly
<1>4. CASE DebitUnfixed(w)
    BY <1>4, DebitUnfixedFairly
<1>5. CASE Rest(w)
    BY <1>5, RestFairly
<1>6. CASE InsertOffer(w)
    BY <1>6, InsertOfferFairly
<1>. QED  BY <1>1, <1>2, <1>3, <1>4, <1>5, <1>6 DEF Contracting

(***************************************************************************)
(* Logins and payments of resolutions promise nothing here.                *)
(***************************************************************************)
Other(u) == u.kind \notin DealKind /\ u.kind # "none" /\ u.at # "user"

LEMMA OtherFairly ==
    ASSUME Types, OwnConnections, Fairly, NEW w \in Worker, NEW u, Other(u),
           \/ Reads(w, u)
           \/ \E r, x, why : Writes(w, r, x, why, u) \/ Updates(w, r, x, why, u)
           \/ \E m, mk : Alone(w, m, u, mk)
    PROVE  Fairly'
<1>1. \A m : Dealing(db, m, u)
    BY OtherDealing DEF Other
<1>2. CASE Reads(w, u)
    BY <1>1, <1>2, ReadsFairly
<1>3. ASSUME NEW r, NEW x, NEW why, Writes(w, r, x, why, u) PROVE Fairly'
    BY <1>1, <1>3, WritesFairly
<1>4. ASSUME NEW m, NEW mk, Alone(w, m, u, mk) PROVE Fairly'
    BY <1>1, <1>4, AloneFairly
<1>5. ASSUME NEW r, NEW x, NEW why, Updates(w, r, x, why, u) PROVE Fairly'
    BY <1>1, <1>5, UpdatesFairly
<1>. QED  BY <1>2, <1>3, <1>4, <1>5

LEMMA LoggingInFairly ==
    ASSUME Types, OwnConnections, Fairly, NEW w \in Worker, LoggingIn(w)
    PROVE  Fairly'
<1> DEFINE j == job[w]
           m == Mine(w)
<1>1. /\ JobOk(j) /\ (spoiled = {} /\ MarksOf(w) = {} => Dealing(db, m, j))
    BY DealerFacts
<1>2. j.at \in LoginSteps \ {"commit"} => j.kind = "login"
    BY <1>1 DEF JobOk, StepOk, LoginSteps, PaySteps, Offering, Trading
<1>3. ASSUME NEW x \in {"create", "save", "upsert", "name", "commit"},
             NEW u, u.at = x, u.kind = "login"
      PROVE  Other(u)
    BY <1>3 DEF Other, DealKind, Clearing
<1>4. CASE FindUser(w)
    <2> DEFINE v == Logins[j.id].user
               a == Seen(w, UserRow(v))
               create == [j EXCEPT !.at = "create"]
               save == [j EXCEPT !.at = "save", !.row = a, !.left = a,
                                 !.got = Seen(w, AccountRow(a))]
    <2>1. Reads(w, create) \/ Reads(w, Idle) \/ Reads(w, save)
        BY <1>4 DEF FindUser
    <2>2. j.at = "user" /\ j.kind = "login"
        BY <1>2, <1>4 DEF FindUser, At, LoginSteps
    <2>3. Other(create) /\ Other(save)
        BY <1>1, <1>3, <2>2 DEF JobOk, IsJob
    <2>4. CASE Reads(w, Idle)
        <3>1. spoiled = {} /\ MarksOf(w) = {} => LocksOnly(m)
            BY <1>1, <2>2 DEF Dealing
        <3>2. Idle.kind \notin DealKind
            BY IdleOk DEF DealKind, Clearing
        <3>3. spoiled = {} /\ MarksOf(w) = {} => Dealing(db, m, Idle)
            BY <3>1, <3>2, LocksDealing
        <3>. QED  BY <2>4, <3>3, ReadsFairly
    <2>. QED  BY <2>1, <2>3, <2>4, OtherFairly
<1>5. CASE CreateAccount(w)
    <2> DEFINE a == FreshAccount
               u == [j EXCEPT !.at = "upsert", !.row = a]
    <2>1. j.kind = "login" /\ Writes(w, AccountRow(a), site.grant, {}, u)
        BY <1>2, <1>5 DEF CreateAccount, At, LoginSteps
    <2>2. Other(u)
        BY <1>1, <1>3, <2>1 DEF JobOk, IsJob
    <2> HIDE DEF u, a
    <2>. QED  BY <2>1, <2>2, OtherFairly
<1>6. CASE SaveAccount(w)
    <2> DEFINE r == AccountRow(j.row)
               why == StaleIf(Seen(w, r) # j.got, "balance")
               u == [j EXCEPT !.at = "upsert"]
    <2>1. j.kind = "login" /\ Writes(w, r, j.got, why, u)
        BY <1>2, <1>6 DEF SaveAccount, At, LoginSteps
    <2>2. Other(u)
        BY <1>1, <1>3, <2>1 DEF JobOk, IsJob
    <2> HIDE DEF u, why, r
    <2>. QED  BY <2>1, <2>2, OtherFairly
<1>7. CASE Upsert(w)
    <2> DEFINE v == Logins[j.id].user
               r == UserRow(v)
               old == {NameRow(n) : n \in {n \in Name : Seen(w, NameRow(n)) = v}}
               p == Over([s \in old |-> 0], Put(m, r, j.row))
               u == [j EXCEPT !.at = "name"]
               all == MarksOf(w) \cup StaleIf(Seen(w, r) # j.left, "login")
    <2>1. j.kind = "login" /\ Alone(w, p, u, all)
        BY <1>2, <1>7 DEF Upsert, At, LoginSteps, Becomes, Marked, requests, Put, Alone, Mine, MarksOf
    <2>2. Other(u)
        BY <1>1, <1>3, <2>1 DEF JobOk, IsJob
    <2> HIDE DEF u, p, all
    <2>. QED  BY <2>1, <2>2, OtherFairly
<1>8. CASE TakeName(w)
    <2> DEFINE r == NameRow(Logins[j.id].name)
               v == Logins[j.id].user
               u == [j EXCEPT !.at = "commit"]
    <2>1. j.kind = "login" /\ (StatementFails(w) \/ Writes(w, r, v, {}, u))
        BY <1>2, <1>8 DEF TakeName, At, LoginSteps
    <2>2. Other(u)
        BY <1>1, <1>3, <2>1 DEF JobOk, IsJob
    <2> HIDE DEF u, v, r
    <2>. QED  BY <2>1, <2>2, FailsFairly, OtherFairly
<1>. QED  BY <1>4, <1>5, <1>6, <1>7, <1>8 DEF LoggingIn

LEMMA PayingFairly ==
    ASSUME Types, OwnConnections, Fairly, NEW w \in Worker, Paying(w)
    PROVE  Fairly'
<1> DEFINE j == job[w]
<1>1. JobOk(j)
    BY DealerFacts
<1>2. j.at \in PaySteps /\ j.kind = "pay"
    <2>1. CASE Pick(w)
        <3>1. j.at = "pick"
            BY <2>1, Zenon DEF Pick, At
        <3>. QED  BY <1>1, <3>1 DEF PaySteps, JobOk, StepOk
    <2>2. CASE PayWinner(w)
        BY <1>1, <2>2 DEF PayWinner, At, PaySteps, JobOk, StepOk
    <2>3. CASE DeletePosition(w)
        BY <1>1, <2>3 DEF DeletePosition, At, PaySteps, JobOk, StepOk
    <2>. QED  BY <2>1, <2>2, <2>3 DEF Paying
<1>3. CASE HandlerRaises(w)
    BY <1>3, RaisesFairly
<1>4. ASSUME NEW x \in {"credit", "delete", "pick", "commit"}, NEW u, u.at = x, u.kind = "pay",
             \/ Reads(w, u)
             \/ \E r, y, why : Updates(w, r, y, why, u)
             \/ \E why : Lays(w, Mine(w), why, u)
      PROVE  Fairly'
    <2>1. Other(u)
        BY <1>4 DEF Other, DealKind, Clearing
    <2>2. \A m : Dealing(db, m, u)
        BY <2>1, OtherDealing DEF Other
    <2>. QED  BY <1>4, <2>1, <2>2, OtherFairly, LaysFairly
<1>5. CASE Pick(w)
    <2> DEFINE P(a) == PositionRow(j.id, a)
    <2>1. CASE /\ \A a \in Account : Seen(w, P(a)) = 0
               /\ j.left = 0 /\ Reads(w, [j EXCEPT !.at = "commit"])
        <3> DEFINE u == [j EXCEPT !.at = "commit"]
        <3>1. u.at = "commit" /\ u.kind = "pay"
            BY <1>1, <1>2 DEF JobOk, IsJob
        <3>2. Reads(w, u)
            BY <2>1
        <3> HIDE DEF u
        <3>. QED  BY <1>4, <3>1, <3>2
    <2>2. ASSUME NEW a \in Account,
                 Reads(w, [j EXCEPT !.at = IF (Seen(w, P(a)) > 0) <=> (j.half = FIXED)
                                           THEN "credit" ELSE "delete",
                                    !.row = a, !.n = Seen(w, IdRow(j.id, a)),
                                    !.got = Seen(w, P(a)), !.left = @ + Seen(w, P(a))])
          PROVE  Fairly'
        <3> DEFINE q == Seen(w, P(a))
                   p == Seen(w, IdRow(j.id, a))
                   x == IF (q > 0) <=> (j.half = FIXED) THEN "credit" ELSE "delete"
                   u == [j EXCEPT !.at = x, !.row = a, !.n = p, !.got = q, !.left = @ + q]
        <3>1. x \in {"credit", "delete"} /\ Reads(w, u)
            BY <2>2
        <3> HIDE DEF x, q, p
        <3>2. u.at = x /\ u.kind = "pay"
            BY <1>1, <1>2 DEF JobOk, IsJob
        <3> HIDE DEF u
        <3>. QED  BY <1>4, <3>1, <3>2
    <2>. QED  BY <1>3, <1>5, <2>1, <2>2, Zenon DEF Pick
<1>6. CASE PayWinner(w)
    <2> DEFINE u == [j EXCEPT !.at = "delete"]
               r == AccountRow(j.row)
               y == Seen(w, r) + Unit * Abs(j.got)
    <2>1. Updates(w, r, y, {}, u)
        BY <1>6 DEF PayWinner
    <2>2. u.at = "delete" /\ u.kind = "pay"
        BY <1>1, <1>2 DEF JobOk, IsJob
    <2> HIDE DEF u, r, y
    <2>. QED  BY <1>4, <2>1, <2>2
<1>7. CASE DeletePosition(w)
    <2> DEFINE u == [j EXCEPT !.at = "pick"]
               r == PositionRow(j.id, j.row)
               why == StaleIf(Seen(w, r) # j.got, "position")
    <2>1. Updates(w, r, 0, why, u) \/ Lays(w, Mine(w), {"position"}, u)
        <3>1. work = [work EXCEPT ![site.conn[w]] = Mine(w)]
            BY Connected DEF Types, Mine
        <3>. QED  BY <1>7, <3>1 DEF DeletePosition, Lays, Becomes, Marked, requests
    <2>2. u.at = "pick" /\ u.kind = "pay"
        BY <1>1, <1>2 DEF JobOk, IsJob
    <2> HIDE DEF u, r, why
    <2>. QED  BY <1>4, <2>1, <2>2
<1>. QED  BY <1>5, <1>6, <1>7 DEF Paying

(***************************************************************************)
(* Requests, commits, crashes, time.                                       *)
(***************************************************************************)
(* A transaction that has only locked contract types is in the middle of   *)
(* nothing: whoever begins on it has everything to do.                     *)
LEMMA NothingTaken ==
    ASSUME NEW d, NEW t, NEW k \in OfferId, Valid(d),
           \A r \in Row : r[1] # "type" => t[r] = d[r]
    PROVE  /\ \A a \in Account : /\ Purse(t, a) = Purse(d, a) /\ Share(t, k, a) = Share(d, k, a)
                                 /\ LostBy(d, t, k, a) = 0 /\ Moves(d, t, k, a) = 0
           /\ TookAll(d, t, k) = 0
<1>1. \A a \in Account : Purse(t, a) = Purse(d, a)
    BY SamePurse
<1>2. Order[k].ct \in ContractType
    BY Quantities
<1>3. \A a \in Account : t[PositionRow(Order[k].ct, a)] = d[PositionRow(Order[k].ct, a)]
    BY <1>2, RowFacts
<1>4. \A a \in Account : Share(t, k, a) = Share(d, k, a)
    BY <1>3 DEF Share
<1>5. \A i \in OfferId : t[OfferOf(i)] = d[OfferOf(i)] /\ d[OfferOf(i)] \in Int
    BY RowFacts, CostInt
<1>6. ASSUME NEW a \in Account PROVE LostBy(d, t, k, a) = 0
    <2> DEFINE f == Lost(d, t, k, a)
    <2>1. \A i \in 1..MaxOrders : f[i] = 0
        BY <1>5, Numbers DEF Lost, Took
    <2> HIDE DEF f
    <2>2. SumTo(f, MaxOrders) = 0
        BY <2>1, Numbers, SumToZeros
    <2>. QED  BY <2>2 DEF f, LostBy
<1>7. TookAll(d, t, k) = 0
    <2> DEFINE f == [a \in Account |-> LostBy(d, t, k, a)]
    <2>1. \A i \in 1..NumAccounts : f[i] = 0
        BY <1>6, Numbers
    <2> HIDE DEF f
    <2>2. SumTo(f, NumAccounts) = 0
        BY <2>1, Numbers, SumToZeros
    <2>. QED  BY <2>2 DEF f, TookAll
<1>8. ASSUME NEW a \in Account PROVE Moves(d, t, k, a) = 0
    <2> DEFINE s == Sign(k)
               b == Order[k].account
    <2>1. s \in Int
        BY DEF Sign
    <2>2. Moves(d, t, k, a) = s * ((IF a = b THEN 0 ELSE 0) - 0)
        BY <1>6, <1>7 DEF Moves
    <2> HIDE DEF s, b
    <2>. QED  BY <2>1, <2>2
<1>. QED  BY <1>1, <1>4, <1>6, <1>7, <1>8

LEMMA BeginsDealing ==
    ASSUME NEW d, Valid(d), NEW m, RowsOk(m), LocksOnly(m), NEW u, JobOk(u),
           u.at \notin Owes, u.at # "commit",
           u.kind = "place" => /\ u.left = Order[u.id].quantity /\ DOMAIN u.rows = {}
                               /\ u.at \notin Offering \cup Trading
    PROVE  Dealing(d, m, u)
<1> DEFINE t == Laid(d, m)
           k == u.id
<1>1. \A r \in Row : r[1] # "type" => r \notin DOMAIN m /\ t[r] = d[r]
    BY DEF LocksOnly, Laid
<1>2. Valid(t)
    BY LaidValid
<1> HIDE DEF t
<1>3. \A i \in OfferId : OfferOf(i) \notin DOMAIN m
    BY <1>1, RowFacts
<1>4. \A c \in ContractType, a \in Account : PositionRow(c, a) \notin DOMAIN m
    BY <1>1, RowFacts
<1>5. /\ \A a \in Account : DueTo(u, a) = 0 /\ Awaited(u, a) = 0
      /\ Filling(m, u) = Order[u.id].quantity - u.left
    BY CalmJob
<1>6. \A a \in Account : Purse(t, a) = Purse(d, a) /\ Purse(d, a) \in Int
    BY <1>1, SamePurse, PurseInt
<1>7. Repaid(d, t, u)
    BY <1>5, <1>6 DEF Repaid
<1>8. ASSUME u.kind = "place" PROVE Selling(d, m, u)
    <2>1. k \in OfferId /\ Order[k].quantity \in Nat /\ Order[k].ct \in ContractType
        BY <1>8, OrderId
    <2>2. /\ \A a \in Account : /\ Purse(t, a) = Purse(d, a) /\ Share(t, k, a) = Share(d, k, a)
                                /\ Moves(d, t, k, a) = 0
          /\ TookAll(d, t, k) = 0
        BY <1>1, <2>1, NothingTaken
    <2>3. Targets(d, m, u)
        BY <1>3, <1>4, <1>8 DEF Targets
    <2>4. Filling(m, u) = 0
        BY <1>5, <1>8, <2>1
    <2>5. Shifted(d, t, u)
        <3> SUFFICES ASSUME NEW a \in Account
                     PROVE  t[PositionRow(Order[k].ct, a)] + Awaited(u, a)
                              = d[PositionRow(Order[k].ct, a)] + Moves(d, t, k, a)
            BY DEF Shifted
        <3>1. /\ t[PositionRow(Order[k].ct, a)] = d[PositionRow(Order[k].ct, a)]
              /\ d[PositionRow(Order[k].ct, a)] \in Int
            BY <1>1, <2>1, RowFacts, CostInt
        <3>. QED  BY <1>5, <2>2, <3>1
    <2>6. FairTo(d, t, u)
        <3> SUFFICES ASSUME NEW a \in Account
                     PROVE  Purse(t, a) + Share(t, k, a) = Purse(d, a) + Share(d, k, a) + DueTo(u, a)
            BY DEF FairTo
        <3>1. Share(d, k, a) \in Int /\ Purse(d, a) \in Int
            BY <2>1, WorthInt, PurseInt
        <3>. QED  BY <1>5, <2>2, <3>1
    <2>. QED  BY <2>2, <2>3, <2>4, <2>5, <2>6 DEF Selling, t
<1>9. Withdrawing(d, m, u)
    BY <1>3, <1>4, <1>7 DEF Withdrawing, t
<1>. QED  BY <1>8, <1>9 DEF Dealing

LEMMA AskingFairly ==
    ASSUME Types, OwnConnections, Fairly, NEW w \in Worker, Asks(w) \/ Page(w)
    PROVE  Fairly'
<1> DEFINE m == Mine(w)
<1>1. job[w] = Idle
    BY DEF Asks, Place, Cancel, List, LogIn, Resolve, Page, Request, Begins
<1>2. ASSUME NEW kind, NEW j, Begins(w, kind, j)
      PROVE  Alone(w, m, [j EXCEPT !.kind = kind], MarksOf(w))
    <2>1. /\ work = [work EXCEPT ![site.conn[w]] = work[site.conn[w]]]
          /\ marks = [marks EXCEPT ![site.conn[w]] = marks[site.conn[w]]]
        BY Connected DEF Types
    <2>. QED  BY <1>2, <2>1 DEF Begins, Becomes, Alone, Mine, MarksOf
<1>3. /\ Valid(db) /\ RowsOk(m)
      /\ spoiled = {} /\ MarksOf(w) = {} => LocksOnly(m)
    BY <1>1, DealerFacts, IdleOk DEF Dealing
<1>4. ASSUME NEW u, JobOk(u), Alone(w, m, u, MarksOf(w)),
             u.at \in {"lookup", "read", "find", "user"},
             u.kind = "place" => /\ u.left = Order[u.id].quantity /\ DOMAIN u.rows = {}
                                 /\ u.at = "lookup"
      PROVE  Fairly'
    <2>1. u.at \notin Owes /\ u.at # "commit"
          /\ (u.kind = "place" => u.at \notin Offering \cup Trading)
        BY <1>4 DEF Owes, Offering, Trading
    <2>2. LocksOnly(m) => Dealing(db, m, u)
        BY <1>3, <1>4, <2>1, BeginsDealing
    <2>. QED  BY <1>3, <1>4, <2>2, AloneFairly
<1>5. ASSUME NEW i \in OfferId, Place(w, i) PROVE Fairly'
    <2> DEFINE j == [Idle EXCEPT !.at = "lookup", !.id = i, !.left = Order[i].quantity]
               u == [j EXCEPT !.kind = "place"]
    <2>1. Begins(w, "place", j)
        BY <1>5 DEF Place, Request
    <2>2. /\ JobOk(u) /\ u.kind = "place" /\ u.at = "lookup" /\ u.id = i
          /\ u.left = Order[i].quantity /\ DOMAIN u.rows = {}
        BY ONLY <1>5, PlaceJob, Zenon
    <2>3. Alone(w, m, u, MarksOf(w))
        BY <1>2, <2>1
    <2> HIDE DEF u, j
    <2>. QED  BY <1>4, <2>2, <2>3
<1>6. ASSUME NEW i \in OfferId, Cancel(w, i) PROVE Fairly'
    <2> DEFINE j == [Idle EXCEPT !.at = "read", !.row = i]
               u == [j EXCEPT !.kind = "cancel"]
    <2>1. Begins(w, "cancel", j)
        BY <1>6 DEF Cancel, Request
    <2>2. /\ JobOk(u) /\ u.kind = "cancel" /\ u.at = "read" /\ u.row = i
          /\ u.left = 0 /\ DOMAIN u.rows = {}
        BY ONLY <1>6, CancelJob, Zenon
    <2>3. Alone(w, m, u, MarksOf(w))
        BY <1>2, <2>1
    <2> HIDE DEF u, j
    <2>. QED  BY <1>4, <2>2, <2>3
<1>7. CASE List(w) \/ Page(w)
    <2> DEFINE j == [Idle EXCEPT !.at = "find"]
               u == [j EXCEPT !.kind = "list"]
    <2>1. Begins(w, "list", j)
        BY <1>7 DEF List, Page, Request
    <2>2. /\ JobOk(u) /\ u.kind = "list" /\ u.at = "find"
          /\ u.left = 0 /\ DOMAIN u.rows = {}
        BY ONLY ListJob, Zenon
    <2>3. Alone(w, m, u, MarksOf(w))
        BY <1>2, <2>1
    <2> HIDE DEF u, j
    <2>. QED  BY <1>4, <2>2, <2>3
<1>8. ASSUME NEW l \in DOMAIN Logins, LogIn(w, l) PROVE Fairly'
    <2> DEFINE j == [Idle EXCEPT !.at = "user", !.id = l, !.n = 1]
               u == [j EXCEPT !.kind = "login"]
    <2>1. Begins(w, "login", j)
        BY <1>8 DEF LogIn, Request
    <2>2. /\ JobOk(u) /\ u.kind = "login" /\ u.at = "user" /\ u.id = l /\ u.n = 1
          /\ u.left = 0 /\ DOMAIN u.rows = {}
        BY ONLY <1>8, LoginJob, Zenon
    <2>3. Alone(w, m, u, MarksOf(w))
        BY <1>2, <2>1
    <2> HIDE DEF u, j
    <2>. QED  BY <1>4, <2>2, <2>3
<1>9. ASSUME NEW c \in ContractType, NEW side \in Side, Resolve(w, c, side) PROVE Fairly'
    <2> DEFINE j == [Idle EXCEPT !.at = "lookup", !.id = c, !.half = side]
               u == [j EXCEPT !.kind = "resolve"]
    <2>1. Begins(w, "resolve", j)
        BY <1>9 DEF Resolve, Request
    <2>2. /\ JobOk(u) /\ u.kind = "resolve" /\ u.at = "lookup" /\ u.id = c /\ u.half = side
          /\ u.left = 0 /\ DOMAIN u.rows = {}
        BY ONLY <1>9, ResolveJob, Zenon
    <2>3. Alone(w, m, u, MarksOf(w))
        BY <1>2, <2>1
    <2> HIDE DEF u, j
    <2>. QED  BY <1>4, <2>2, <2>3
<1>. QED  BY <1>5, <1>6, <1>7, <1>8, <1>9 DEF Asks

(* What another transaction commits does not change what one has done. *)
LEMMA CommitFairly ==
    ASSUME Types, OwnConnections, Ownership, Fairly, NEW w \in Worker, Commit(w)
    PROVE  Fairly'
<1> DEFINE j == job[w]
           m == Mine(w)
           e == db'
           u == Committed(j)
<1>1. /\ Merged(db, m, e)
      /\ Mine(w)' = NoWork /\ job'[w] = u /\ MarksOf(w)' = {}
      /\ \A v \in Worker : v # w => /\ Mine(v)' = Mine(v) /\ job'[v] = job[v]
                                    /\ MarksOf(v)' = MarksOf(v)
      /\ spoiled' = spoiled \cup MarksOf(w)
      /\ JobOk(j) /\ j.at = "commit"
    BY CommitEffect
<1>2. /\ JobOk(u)
      /\ u.kind \in DealKind => u.kind # "place" /\ u.at \in {"clean", "find"}
    <2>1. /\ JobOk(u)
          /\ j.kind = "resolve" => u.kind = "clear" /\ u.at = "clean"
          /\ j.kind = "clear" => u.kind = "pay"
          /\ j.kind = "pay" => u.kind = "final" /\ u.at = "find"
          /\ j.kind = "final" => u.kind = "last" /\ u.at = "clean"
          /\ j.kind \notin {"resolve", "clear", "pay", "final"} => u = Idle
        BY ONLY <1>1, CommittedOk, Zenon
    <2>. QED  BY <2>1, IdleOk DEF DealKind, Clearing
<1>3. Valid(db) /\ RowsOk(m)
    BY DealerFacts
<1>4. Valid(e)
    BY <1>1, <1>3, MergedValid
<1> HIDE DEF e, u
<1>5. ASSUME spoiled' = {}, NEW v \in Worker, MarksOf(v)' = {}
      PROVE  Dealing(e, Mine(v)', job'[v])
    <2>1. spoiled = {} /\ MarksOf(w) = {}
        BY <1>1, <1>5
    <2>2. CASE v = w
        <3>1. LocksOnly(NoWork)
            BY DEF LocksOnly, NoWork
        <3>2. CASE u.kind \notin DealKind
            BY <1>1, <2>2, <3>1, <3>2, LocksDealing
        <3>3. CASE u.kind \in DealKind
            <4>1. u.at \notin Owes /\ u.at # "commit" /\ u.kind # "place"
                BY <1>2, <3>3 DEF Owes
            <4>2. RowsOk(NoWork)
                BY DEF RowsOk, NoWork
            <4>3. Dealing(e, NoWork, u)
                BY <1>2, <1>4, <3>1, <4>1, <4>2, BeginsDealing
            <4>. QED  BY <1>1, <2>2, <4>3
        <3>. QED  BY <3>2, <3>3
    <2>3. CASE v # w
        <3>1. MarksOf(v) = {}
            BY <1>1, <1>5, <2>3
        <3>2. JobOk(job[v]) /\ RowsOk(Mine(v)) /\ Dealing(db, Mine(v), job[v])
            BY <2>1, <3>1, DealerFacts
        <3>3. Apart(m, Mine(v))
            BY <2>3 DEF Ownership, Apart
        <3>4. Dealing(e, Mine(v), job[v])
            BY <1>1, <1>3, <1>4, <3>2, <3>3, DealingCommitted
        <3>. QED  BY <1>1, <2>3, <3>4
    <2>. QED  BY <2>2, <2>3
<1>. QED  BY <1>5 DEF Fairly, e

LEMMA OthersFairly ==
    ASSUME Types, OwnConnections, Fairly, Mature \/ Quiet \/ \E k \in Connection : Crash(k)
    PROVE  Fairly'
<1>1. UNCHANGED <<site, db, spoiled>>
    BY DEF Mature, Quiet, Crash, vars, connections, requests
<1>2. LocksOnly(NoWork) /\ Idle.kind \notin DealKind
    BY IdleOk DEF LocksOnly, NoWork, DealKind, Clearing
<1>3. Dealing(db, NoWork, Idle)
    BY <1>2, LocksDealing
<1>4. ASSUME NEW w \in Worker
      PROVE  \/ Mine(w)' = NoWork /\ job'[w] = Idle
             \/ Mine(w)' = Mine(w) /\ job'[w] = job[w] /\ MarksOf(w)' = MarksOf(w)
    <2>1. CASE Mature
        BY <2>1 DEF Mature, Mine, MarksOf, connections, requests
    <2>2. CASE Quiet
        BY <2>2 DEF Quiet, vars, connections, requests, Mine, MarksOf
    <2>3. ASSUME NEW k \in Connection, Crash(k)
          PROVE  \/ Mine(w)' = NoWork /\ job'[w] = Idle
                 \/ Mine(w)' = Mine(w) /\ job'[w] = job[w] /\ MarksOf(w)' = MarksOf(w)
        <3>1. /\ job' = [v \in Worker |-> IF site.conn[v] = k THEN Idle ELSE job[v]]
              /\ work' = [work EXCEPT ![k] = NoWork]
              /\ marks' = [marks EXCEPT ![k] = {}] /\ site' = site
            BY <2>3 DEF Crash
        <3>2. site.conn[w] \in Connection
            BY Connected
        <3>. QED  BY <3>1, <3>2 DEF Types, Mine, MarksOf
    <2>. QED  BY <2>1, <2>2, <2>3
<1>5. ASSUME spoiled = {}, NEW w \in Worker, MarksOf(w)' = {}
      PROVE  Dealing(db, Mine(w)', job'[w])
    BY <1>3, <1>4, <1>5 DEF Fairly
<1>. QED  BY <1>1, <1>5 DEF Fairly

LEMMA DealtInit ==
    ASSUME Init
    PROVE  Fairly
<1>1. \A w \in Worker : job[w] = Idle /\ Mine(w) = NoWork
    BY TypesInit, Connected DEF Init, Mine
<1>2. LocksOnly(NoWork) /\ Idle.kind \notin DealKind
    BY IdleOk DEF LocksOnly, NoWork, DealKind, Clearing
<1>3. Dealing(db, NoWork, Idle)
    BY <1>2, LocksDealing
<1>. QED  BY <1>1, <1>3 DEF Fairly

LEMMA DealtNext == Types /\ Kept /\ Reckoned /\ Dealt /\ [Next]_vars => Dealt'
<1> SUFFICES ASSUME Types, Kept, Reckoned, Dealt, [Next]_vars PROVE Dealt'
    OBVIOUS
<1>1. site' = site
    <2>1. ASSUME NEW w \in Worker, Asks(w) \/ Page(w) \/ Step(w) \/ DeadlockDetected(w)
          PROVE  site' = site
        <3>1. Commit(w) => site' = site
            BY DEF Commit, requests
        <3>. QED  BY <2>1, <3>1, OnlyCommits DEF Step
    <2>2. (Mature \/ Quiet \/ \E k \in Connection : Crash(k)) => site' = site
        BY DEF Mature, Quiet, Crash, vars, connections, requests
    <2>3. UNCHANGED vars => site' = site
        BY DEF vars, connections, requests
    <2>. QED  BY <2>1, <2>2, <2>3 DEF Next
<1>2. SUFFICES ASSUME OwnConnections PROVE Fairly'
    BY <1>1 DEF Dealt, OwnConnections
<1>3. Ownership /\ Grounded /\ AddsUp /\ Fairly
    BY <1>2 DEF Kept, Reckoned, Dealt
<1>4. ASSUME NEW w \in Worker, Asks(w) \/ Page(w) \/ Step(w) \/ DeadlockDetected(w)
      PROVE  Fairly'
    <2>1. DeadlockDetected(w) => StatementFails(w)
        BY DEF DeadlockDetected
    <2>. QED  BY <1>2, <1>3, <1>4, <2>1, AskingFairly, MatchingFairly, SweepingFairly, ContractingFairly,
                 LoggingInFairly, PayingFairly, CommitFairly, NoneAborted, FailsFairly
              DEF Step
<1>5. CASE Mature \/ Quiet \/ \E k \in Connection : Crash(k)
    BY <1>2, <1>3, <1>5, OthersFairly
<1>6. CASE UNCHANGED vars
    BY <1>3, <1>6 DEF Fairly, vars, connections, requests, Mine, MarksOf
<1>. QED  BY <1>4, <1>5, <1>6 DEF Next

(* At every statement of an order, a cancel, a page or a cleanup, whatever *)
(* the others have committed since it began, its transaction has taken     *)
(* units from offers that cross and has moved positions and balances by    *)
(* what its place in the code says and no more.                            *)
THEOREM DealtInvariant == Spec => []Dealt
<1>1. Init => Dealt
    BY DealtInit DEF Dealt
<1>. QED  BY <1>1, DealtNext, TypesInvariant, KeptInvariant, ReckonedInvariant, PTL DEF Spec

(***************************************************************************)
(* The rows as Market has them.                                            *)
(***************************************************************************)
LEMMA BookRows ==
    ASSUME NEW d, Valid(d)
    PROVE  LET b == Book(d)
           IN  /\ \A a \in Account : b.balance[a] = AtLeastZero(d[AccountRow(a)])
               /\ DOMAIN b.offer = OfferId
               /\ \A i \in OfferId :
                    b.offer[i] = IF d[OfferOf(i)] = 0 THEN NoOffer
                                 ELSE [Order[i] EXCEPT !.quantity = d[OfferOf(i)]]
               /\ \A c \in ContractType, a \in Account :
                    /\ b.position[c][a] = [quantity |-> d[PositionRow(c, a)], basis |-> 0]
                    /\ b.position[c][a].quantity = d[PositionRow(c, a)]
               /\ b.fees = 0
BY DEF Book

LEMMA BookOffers ==
    ASSUME NEW d, Valid(d), NEW i \in OfferId
    PROVE  LET p == Book(d).offer[i]
           IN  /\ p.quantity = d[OfferOf(i)] /\ (i \in Open(Book(d)) <=> d[OfferOf(i)] # 0)
               /\ ~ p.aon
               /\ d[OfferOf(i)] # 0 =>
                    /\ p.account = Order[i].account /\ p.ct = Order[i].ct
                    /\ p.side = Order[i].side /\ p.price = Order[i].price
<1> DEFINE b == Book(d)
           q == d[OfferOf(i)]
           o == Order[i]
<1>1. b.offer[i] = IF q = 0 THEN NoOffer ELSE [o EXCEPT !.quantity = q]
    BY BookRows
<1>2. o \in OfferRow /\ ~ o.aon
    BY ProcessesAssumption
<1>3. q \in Nat
    BY CostInt, ProcessesAssumption DEF OfferRow
<1> HIDE DEF b, q, o
<1>4. b.offer[i].quantity = q /\ ~ b.offer[i].aon
    BY <1>1, <1>2 DEF OfferRow, NoOffer
<1>5. i \in Open(b) <=> q # 0
    BY <1>3, <1>4 DEF Open, Exists
<1>6. q # 0 => /\ b.offer[i].account = o.account /\ b.offer[i].ct = o.ct
               /\ b.offer[i].side = o.side /\ b.offer[i].price = o.price
    BY <1>1, <1>2 DEF OfferRow
<1>. QED  BY <1>4, <1>5, <1>6 DEF b, q, o

(* What an account has set aside is what its rows have. *)
LEMMA BookPurse ==
    ASSUME NEW d, Valid(d), NEW a \in Account
    PROVE  Book(d).balance[a] + Reserved(Book(d), a) = Purse(d, a)
<1> DEFINE b == Book(d)
<1>1. ASSUME NEW i \in OfferId
      PROVE  (IF b.offer[i].account = a THEN Escrow(b.offer[i]) ELSE 0) = Reserve(d, a)[i]
    <2> DEFINE o == Order[i]
               q == d[OfferOf(i)]
               p == b.offer[i]
    <2> SUFFICES (IF p.account = a THEN Escrow(p) ELSE 0) = Reserve(d, a)[i]
        OBVIOUS
    <2>1. Reserve(d, a)[i] = IF o.account = a THEN Cost(o.side, o.price, q) ELSE 0
        BY DEF Reserve
    <2>2. p.quantity = q
          /\ (q # 0 => p.account = o.account /\ p.side = o.side /\ p.price = o.price)
        BY BookOffers
    <2>3. q = 0 => p = NoOffer
        BY BookRows
    <2>4. o.price \in Price
        BY Quantities
    <2>5. Escrow(p) = Cost(p.side, p.price, p.quantity)
        BY DEF Escrow
    <2> HIDE DEF b, o, q, p
    <2>6. CASE q # 0
        BY <2>1, <2>2, <2>5, <2>6
    <2>7. CASE q = 0
        <3>1. Cost(o.side, o.price, 0) = 0 /\ Escrow(NoOffer) = 0
            BY <2>4 DEF Cost, Price, Unit, Escrow, NoOffer, FIXED
        <3>. QED  BY <2>1, <2>3, <2>7, <3>1
    <2>. QED  BY <2>6, <2>7
<1>2. SetAside(b, a) = Reserve(d, a)
    BY <1>1 DEF SetAside, Reserve
<1>3. b.balance[a] = AtLeastZero(d[AccountRow(a)])
    BY BookRows
<1>. QED  BY <1>2, <1>3 DEF Reserved, Purse

(***************************************************************************)
(* A commit keeps the promise.                                             *)
(***************************************************************************)
(* A cancel or a page withdraws the offers that are gone. *)
LEMMA WithdrawingKeeps ==
    ASSUME NEW d, Valid(d), NEW m, RowsOk(m), NEW j, j.at = "commit", Withdrawing(d, m, j)
    PROVE  \E gone \in SUBSET (Open(Book(d)) \ Open(Book(Laid(d, m)))) :
              Withdrawn(Book(d), Book(Laid(d, m)), gone)
<1> DEFINE e == Laid(d, m)
           t == Book(d)
           u == Book(e)
           gone == {i \in OfferId : d[OfferOf(i)] # 0 /\ e[OfferOf(i)] = 0}
<1>1. Valid(e) /\ \A r \in Row : e[r] = IF r \in DOMAIN m THEN m[r] ELSE d[r]
    BY LaidValid, LaidRows
<1>2. \A i \in OfferId : e[OfferOf(i)] = d[OfferOf(i)] \/ e[OfferOf(i)] = 0
    BY <1>1, RowFacts DEF Withdrawing
<1>3. \A c \in ContractType, a \in Account : e[PositionRow(c, a)] = d[PositionRow(c, a)]
    BY <1>1, RowFacts DEF Withdrawing
<1>4. \A a \in Account : Purse(e, a) = Purse(d, a)
    <2> SUFFICES ASSUME NEW a \in Account PROVE Purse(e, a) = Purse(d, a)
        OBVIOUS
    <2>1. Purse(e, a) = Purse(d, a) + DueTo(j, a)
        BY DEF Withdrawing, Repaid
    <2>2. DueTo(j, a) = 0 /\ Purse(d, a) \in Int
        BY CalmJob, PurseInt DEF Owes
    <2>. QED  BY <2>1, <2>2
<1> HIDE DEF e
<1>5. gone \in SUBSET (Open(t) \ Open(u))
    BY <1>1, BookOffers
<1>6. u.offer = [i \in OfferId |-> IF i \in gone THEN NoOffer ELSE t.offer[i]]
    <2>1. ASSUME NEW i \in OfferId
          PROVE  u.offer[i] = IF i \in gone THEN NoOffer ELSE t.offer[i]
        <3>1. /\ u.offer[i] = IF e[OfferOf(i)] = 0 THEN NoOffer
                              ELSE [Order[i] EXCEPT !.quantity = e[OfferOf(i)]]
              /\ t.offer[i] = IF d[OfferOf(i)] = 0 THEN NoOffer
                              ELSE [Order[i] EXCEPT !.quantity = d[OfferOf(i)]]
            BY <1>1, BookRows
        <3>2. i \in gone <=> d[OfferOf(i)] # 0 /\ e[OfferOf(i)] = 0
            OBVIOUS
        <3> HIDE DEF gone, t, u
        <3>. QED  BY <1>2, <3>1, <3>2
    <2>2. u.offer = [i \in OfferId |-> u.offer[i]]
        BY DEF Book
    <2> HIDE DEF gone, t, u
    <2>. QED  BY <2>1, <2>2
<1>7. \A a \in Account : u.balance[a] + Reserved(u, a) = t.balance[a] + Reserved(t, a)
    BY <1>1, <1>4, BookPurse
<1>8. u.position = t.position
    <2>1. ASSUME NEW x, Valid(x)
          PROVE  Book(x).position
                   = [c \in ContractType |-> [a \in Account |->
                         [quantity |-> x[PositionRow(c, a)], basis |-> 0]]]
        BY DEF Book
    <2>2. [c \in ContractType |-> [a \in Account |->
              [quantity |-> e[PositionRow(c, a)], basis |-> 0]]]
            = [c \in ContractType |-> [a \in Account |->
                  [quantity |-> d[PositionRow(c, a)], basis |-> 0]]]
        BY <1>3
    <2>. QED  BY <1>1, <2>1, <2>2
<1>9. u.fees = t.fees
    BY <1>1, BookRows
<1> HIDE DEF gone, t, u
<1>. QED  BY <1>5, <1>6, <1>7, <1>8, <1>9 DEF Withdrawn, t, u, e

(* An order trades with the offers it has taken units from. *)
LEMMA OrderFilled ==
    ASSUME NEW d, Valid(d), NEW m, RowsOk(m), NEW j, JobOk(j), j.kind = "place", j.at = "commit",
           Targets(d, m, j), d[OfferOf(j.id)] = 0
    PROVE  LET k == j.id
               e == Laid(d, m)
               t == Book(d)
               u == Book(e)
               filled == {i \in Open(t) : Taken(t, u, i) # 0}
           IN  /\ \A i \in OfferId : i \in filled <=> i # k /\ e[OfferOf(i)] # d[OfferOf(i)]
               /\ \A i \in OfferId : i # k /\ d[OfferOf(i)] = 0 => e[OfferOf(i)] = 0
               /\ \A i \in filled : Filled(t, u, Order[k], i)
               /\ \A i \in Open(t) : i \in filled \/ u.offer[i] = t.offer[i]
               /\ \A a \in Account : TakenFrom(t, u, a, filled) = LostBy(d, e, k, a)
               /\ TakenAll(t, u, filled) = TookAll(d, e, k)
<1> DEFINE k == j.id
           e == Laid(d, m)
           t == Book(d)
           u == Book(e)
           filled == {i \in Open(t) : Taken(t, u, i) # 0}
<1>1. Valid(e) /\ \A r \in Row : e[r] = IF r \in DOMAIN m THEN m[r] ELSE d[r]
    BY LaidValid, LaidRows
<1>2. ASSUME NEW i \in OfferId, i # k, e[OfferOf(i)] # d[OfferOf(i)]
      PROVE  Crossing(Order[k], Order[i]) /\ e[OfferOf(i)] < d[OfferOf(i)]
    <2>1. OfferOf(i) \in DOMAIN m /\ e[OfferOf(i)] = m[OfferOf(i)]
        BY <1>1, <1>2, RowFacts
    <2>. QED  BY <1>2, <2>1 DEF Targets
<1> HIDE DEF e
<1>3. \A i \in OfferId : d[OfferOf(i)] \in Nat /\ e[OfferOf(i)] \in Nat
    BY <1>1, CostInt, ProcessesAssumption DEF OfferRow
<1>4. \A i \in OfferId : i # k /\ d[OfferOf(i)] = 0 => e[OfferOf(i)] = 0
    BY <1>2, <1>3
<1>5. \A i \in OfferId : Taken(t, u, i) = d[OfferOf(i)] - e[OfferOf(i)]
    BY <1>1, BookOffers DEF Taken
<1>6. \A i \in OfferId : i \in Open(t) <=> d[OfferOf(i)] # 0
    BY BookOffers
<1>7. \A i \in OfferId : i \in filled <=> i # k /\ e[OfferOf(i)] # d[OfferOf(i)]
    <2> SUFFICES ASSUME NEW i \in OfferId
                 PROVE  i \in filled <=> i # k /\ e[OfferOf(i)] # d[OfferOf(i)]
        OBVIOUS
    <2>1. i \in filled <=> d[OfferOf(i)] # 0 /\ d[OfferOf(i)] - e[OfferOf(i)] # 0
        BY <1>5, <1>6
    <2> HIDE DEF filled
    <2>. QED  BY <1>3, <1>4, <2>1
<1>8. Open(t) \subseteq OfferId /\ filled \subseteq Open(t)
    BY DEF Open
<1>9. ASSUME NEW i \in filled PROVE Filled(t, u, Order[k], i)
    <2> DEFINE o == Order[i]
               p == d[OfferOf(i)]
               q == e[OfferOf(i)]
    <2>1. i \in OfferId /\ i # k /\ q # p
        BY <1>7, <1>8, <1>9
    <2>2. Crossing(Order[k], o) /\ q < p /\ p \in Nat /\ q \in Nat
        BY <1>2, <1>3, <2>1
    <2>3. o \in OfferRow
        BY <2>1, ProcessesAssumption
    <2>4. /\ t.offer[i] = IF p = 0 THEN NoOffer ELSE [o EXCEPT !.quantity = p]
          /\ u.offer[i] = IF q = 0 THEN NoOffer ELSE [o EXCEPT !.quantity = q]
        BY <1>1, <2>1, BookRows
    <2>5. /\ ~ t.offer[i].aon /\ t.offer[i].ct = o.ct /\ t.offer[i].side = o.side
          /\ t.offer[i].price = o.price
        BY <2>1, <2>2, BookOffers
    <2>6. Suits(Order[k], t.offer[i])
        BY <2>2, <2>5 DEF Crossing, Suits
    <2>7. Taken(t, u, i) = p - q
        BY <1>5, <2>1
    <2> HIDE DEF t, u, o, p, q
    <2>8. u.offer[i] = NoOffer
          \/ u.offer[i] = [t.offer[i] EXCEPT !.quantity = @ - Taken(t, u, i)]
        <3>1. CASE q = 0
            BY <2>4, <3>1
        <3>2. CASE q # 0
            <4>1. t.offer[i] = [o EXCEPT !.quantity = p] /\ u.offer[i] = [o EXCEPT !.quantity = q]
                BY <2>2, <2>4, <3>2
            <4>2. p - (p - q) = q
                BY <2>2
            <4>3. [t.offer[i] EXCEPT !.quantity = @ - (p - q)] = [o EXCEPT !.quantity = p - (p - q)]
                BY <2>3, <4>1 DEF OfferRow
            <4>. QED  BY <2>7, <4>1, <4>2, <4>3
        <3>. QED  BY <3>1, <3>2
    <2>9. Taken(t, u, i) > 0
        BY <2>2, <2>7
    <2>. QED  BY <2>5, <2>6, <2>8, <2>9 DEF Filled
<1>10. ASSUME NEW i \in Open(t) PROVE i \in filled \/ u.offer[i] = t.offer[i]
    <2>1. i \in OfferId /\ d[OfferOf(i)] # 0
        BY <1>6, <1>8, <1>10
    <2>2. i \notin filled => e[OfferOf(i)] = d[OfferOf(i)]
        BY <1>7, <2>1
    <2>3. /\ t.offer[i] = IF d[OfferOf(i)] = 0 THEN NoOffer
                           ELSE [Order[i] EXCEPT !.quantity = d[OfferOf(i)]]
          /\ u.offer[i] = IF e[OfferOf(i)] = 0 THEN NoOffer
                           ELSE [Order[i] EXCEPT !.quantity = e[OfferOf(i)]]
        BY <1>1, <2>1, BookRows
    <2> HIDE DEF t, u, filled
    <2>. QED  BY <2>2, <2>3
<1>11. ASSUME NEW a \in Account PROVE TakenFrom(t, u, a, filled) = LostBy(d, e, k, a)
    <2>1. ASSUME NEW i \in OfferId
          PROVE  (IF i \in filled /\ t.offer[i].account = a THEN Taken(t, u, i) ELSE 0)
                   = IF Order[i].account = a THEN Took(d, e, k, i) ELSE 0
        <3>1. i \in filled => t.offer[i].account = Order[i].account
            BY <1>6, <1>8, BookOffers
        <3>2. i \in filled => Took(d, e, k, i) = Taken(t, u, i)
            BY <1>5, <1>7 DEF Took
        <3>3. i \notin filled => Took(d, e, k, i) = 0
            BY <1>3, <1>7 DEF Took
        <3> HIDE DEF filled, t, u
        <3>. QED  BY <3>1, <3>2, <3>3
    <2> HIDE DEF filled, t, u
    <2>2. GivenUp(t, u, a, filled) = Lost(d, e, k, a)
        BY <2>1 DEF GivenUp, Lost
    <2>. QED  BY <2>2 DEF TakenFrom, LostBy
<1>12. TakenAll(t, u, filled) = TookAll(d, e, k)
    <2> HIDE DEF filled, t, u
    <2>1. [a \in Account |-> TakenFrom(t, u, a, filled)] = [a \in Account |-> LostBy(d, e, k, a)]
        BY <1>11
    <2>. QED  BY <2>1 DEF TakenAll, TookAll
<1> HIDE DEF filled, t, u
<1>. QED  BY <1>4, <1>7, <1>9, <1>10, <1>11, <1>12 DEF filled, t, u, e

LEMMA SellingKeeps ==
    ASSUME NEW d, Valid(d), NEW m, RowsOk(m), NEW j, JobOk(j), j.kind = "place", j.at = "commit",
           Selling(d, m, j), d[OfferOf(j.id)] = 0
    PROVE  LET t == Book(d)
               u == Book(Laid(d, m))
               filled == {i \in Open(t) : Taken(t, u, i) # 0}
           IN  Traded(t, u, Order[j.id], {}, filled, TakenAll(t, u, filled))
<1> DEFINE k == j.id
           e == Laid(d, m)
           t == Book(d)
           u == Book(e)
           filled == {i \in Open(t) : Taken(t, u, i) # 0}
           o == Order[k]
           total == TakenAll(t, u, filled)
<1>1. Valid(e) /\ \A r \in Row : e[r] = IF r \in DOMAIN m THEN m[r] ELSE d[r]
    BY LaidValid, LaidRows
<1>2. Targets(d, m, j) /\ TookAll(d, e, k) = Filling(m, j) /\ Shifted(d, e, j) /\ FairTo(d, e, j)
    BY DEF Selling
<1>3. /\ \A i \in OfferId : i # k /\ d[OfferOf(i)] = 0 => e[OfferOf(i)] = 0
      /\ \A i \in filled : Filled(t, u, o, i)
      /\ \A i \in Open(t) : i \in filled \/ u.offer[i] = t.offer[i]
      /\ \A a \in Account : TakenFrom(t, u, a, filled) = LostBy(d, e, k, a)
      /\ total = TookAll(d, e, k)
    BY <1>2, OrderFilled
<1>4. /\ k \in OfferId /\ j.left \in 1..o.quantity /\ j.left \in Int /\ o.quantity \in Nat
      /\ o.ct \in ContractType /\ o.price \in Price
    BY OrderId
<1>5. ~ o.aon /\ o \in OfferRow
    BY <1>4, ProcessesAssumption
<1>6. OfferOf(k) \in DOMAIN m => m[OfferOf(k)] = j.left
    BY <1>2, <1>4 DEF Targets
<1>7. IF OfferOf(k) \in DOMAIN m THEN total = o.quantity - j.left /\ e[OfferOf(k)] = j.left
                                 ELSE total = o.quantity /\ e[OfferOf(k)] = 0
    <2>1. OfferOf(k) \in Row
        BY <1>4, RowFacts
    <2>. QED  BY <1>1, <1>2, <1>3, <1>6, <2>1 DEF Filling, Trading
<1>8. \A a \in Account : DueTo(j, a) = 0 /\ Awaited(j, a) = 0
    BY CalmJob DEF Owes
<1>9. /\ \A i \in OfferId : i \in Open(t) <=> d[OfferOf(i)] # 0
      /\ \A i \in OfferId : i \in Open(u) <=> e[OfferOf(i)] # 0
    BY <1>1, BookOffers
<1>10. ASSUME NEW c \in ContractType, NEW a \in Account
       PROVE  /\ t.position[c][a] = [quantity |-> d[PositionRow(c, a)], basis |-> 0]
              /\ t.position[c][a].quantity = d[PositionRow(c, a)]
              /\ u.position[c][a] = [quantity |-> e[PositionRow(c, a)], basis |-> 0]
              /\ u.position[c][a].quantity = e[PositionRow(c, a)]
              /\ c # o.ct => e[PositionRow(c, a)] = d[PositionRow(c, a)]
    <2>1. c # o.ct => PositionRow(c, a) \notin DOMAIN m
        BY <1>2 DEF Targets
    <2>2. PositionRow(c, a) \in Row
        BY RowFacts
    <2>3. c # o.ct => e[PositionRow(c, a)] = d[PositionRow(c, a)]
        BY <1>1, <2>1, <2>2
    <2>. QED  BY <1>1, <2>3, BookRows
<1>11. PositionsAfter(t, u, o, filled, total)
    <2> DEFINE sign == IF o.side = FIXED THEN 1 ELSE -1
    <2>1. sign = Sign(k)
        BY DEF Sign
    <2>2. ASSUME NEW a \in Account
          PROVE  e[PositionRow(o.ct, a)]
                   = d[PositionRow(o.ct, a)]
                       + sign * ((IF a = o.account THEN total ELSE 0) - TakenFrom(t, u, a, filled))
        <3>1. e[PositionRow(o.ct, a)] + Awaited(j, a) = d[PositionRow(o.ct, a)] + Moves(d, e, k, a)
            BY <1>2 DEF Shifted
        <3>2. e[PositionRow(o.ct, a)] \in Int
            BY <1>1, <1>4, CostInt
        <3>3. Moves(d, e, k, a)
                = sign * ((IF a = o.account THEN total ELSE 0) - TakenFrom(t, u, a, filled))
            BY <1>3, <2>1 DEF Moves
        <3> HIDE DEF sign, total, filled, t, u, o, e
        <3>. QED  BY <1>8, <3>1, <3>2, <3>3
    <2> HIDE DEF total, filled, t, u, o, e
    <2>3. ASSUME NEW c \in ContractType, NEW a \in Account
          PROVE  IF c = o.ct
                 THEN u.position[c][a].quantity =
                        t.position[c][a].quantity
                          + sign * ((IF a = o.account THEN total ELSE 0) - TakenFrom(t, u, a, filled))
                 ELSE u.position[c][a] = t.position[c][a]
        <3> HIDE DEF sign
        <3>1. CASE c = o.ct
            BY <1>10, <2>2, <3>1
        <3>2. CASE c # o.ct
            <4>1. e[PositionRow(c, a)] = d[PositionRow(c, a)]
                BY <1>10, <3>2
            <4>2. /\ t.position[c][a] = [quantity |-> d[PositionRow(c, a)], basis |-> 0]
                  /\ u.position[c][a] = [quantity |-> e[PositionRow(c, a)], basis |-> 0]
                BY <1>10
            <4>3. u.position[c][a] = t.position[c][a]
                BY <4>1, <4>2
            <4>. QED  BY <3>2, <4>3
        <3>. QED  BY <3>1, <3>2
    <2>. QED  BY <2>3, Zenon DEF PositionsAfter
<1>12. FairAt(t, u, o.ct, o.price)
    <2> SUFFICES ASSUME NEW a \in Account
                 PROVE  Wealth(u, a, o.ct, o.price) = Wealth(t, a, o.ct, o.price)
        BY DEF FairAt
    <2>1. Purse(e, a) + Share(e, k, a) = Purse(d, a) + Share(d, k, a) + DueTo(j, a)
        BY <1>2 DEF FairTo
    <2>2. Purse(d, a) \in Int /\ Share(d, k, a) \in Int
        BY <1>4, PurseInt, WorthInt
    <2>3. /\ t.balance[a] + Reserved(t, a) = Purse(d, a)
          /\ u.balance[a] + Reserved(u, a) = Purse(e, a)
        BY <1>1, BookPurse
    <2>4. /\ Wealth(t, a, o.ct, o.price) = Purse(d, a) + Share(d, k, a)
          /\ Wealth(u, a, o.ct, o.price) = Purse(e, a) + Share(e, k, a)
        BY <1>4, <1>10, <2>3 DEF Wealth, Share
    <2> HIDE DEF t, u, e
    <2>. QED  BY <1>8, <2>1, <2>2, <2>4
<1>13. u.fees = t.fees
    BY <1>1, BookRows
<1>14. Exchanged(t, u, o, {}, filled, total)
    <2>1. total <= o.quantity
        BY <1>4, <1>7
    <2> HIDE DEF total, filled, t, u, o
    <2>. QED  BY <1>3, <1>5, <1>11, <1>12, <1>13, <2>1 DEF Exchanged
<1>15. Rested(t, u, o, o.quantity - total)
    <2>1. Open(u) \subseteq OfferId /\ Open(t) \subseteq OfferId
        BY DEF Open
    <2>2. \A i \in Open(u) \ Open(t) : i = k
        BY <1>3, <1>9, <2>1
    <2>3. k \notin Open(t) /\ (k \in Open(u) <=> e[OfferOf(k)] # 0)
        BY <1>4, <1>9
    <2>4. CASE OfferOf(k) \in DOMAIN m
        <3>1. o.quantity - total = j.left /\ j.left # 0 /\ e[OfferOf(k)] = j.left
            BY <1>4, <1>7, <2>4
        <3>2. Open(u) \ Open(t) = {k}
            BY <2>2, <2>3, <3>1
        <3>3. u.offer[k] = [o EXCEPT !.quantity = j.left]
            BY <1>1, <1>4, <3>1, BookRows
        <3> HIDE DEF total, t, u, o, k
        <3>. QED  BY <1>4, <3>1, <3>2, <3>3 DEF Rested
    <2>5. CASE OfferOf(k) \notin DOMAIN m
        <3>1. o.quantity - total = 0 /\ e[OfferOf(k)] = 0
            BY <1>4, <1>7, <2>5
        <3>2. Open(u) \ Open(t) = {}
            BY <2>2, <2>3, <3>1
        <3> HIDE DEF total, t, u, o, k
        <3>. QED  BY <3>1, <3>2 DEF Rested
    <2>. QED  BY <2>4, <2>5
<1>. QED  BY <1>14, <1>15 DEF Traded

(* The instance of Market has definitions of its own for the tables; they  *)
(* are the same.                                                           *)
LEMMA SamePromise ==
    /\ Promise!ContractType = ContractType /\ Promise!Side = Side /\ Promise!OfferId = OfferId
    /\ \A t : Promise!Open(t) = Open(t)
    /\ \A t, u, i : Promise!Taken(t, u, i) = Taken(t, u, i)
    /\ \A t, u, filled : Promise!TakenAll(t, u, filled) = TakenAll(t, u, filled)
BY DEF Promise!ContractType, ContractType, Promise!Side, Side, Promise!OfferId, OfferId, Promise!Open,
   Open, Promise!Exists, Exists, Promise!Taken, Taken, Promise!TakenAll, TakenAll,
   Promise!TakenFrom, TakenFrom, Promise!GivenUp, GivenUp, Promise!Account, Account,
   Promise!SumTo, SumTo, Promise!FIXED, FIXED, Promise!UNFIXED, UNFIXED

LEMMA SamePromisedWithdrawal ==
    ASSUME NEW t, NEW u, NEW gone
    PROVE  Promise!Withdrawn(t, u, gone) <=> Withdrawn(t, u, gone)
BY DEF Promise!Withdrawn, Withdrawn, Promise!OfferId, OfferId, Promise!NoOffer, NoOffer,
   Promise!FIXED, FIXED, Promise!Never, Never, Promise!Account, Account, Promise!Reserved, Reserved,
   Promise!SetAside, SetAside, Promise!Escrow, Escrow, Promise!Cost, Cost, Promise!Unit, Unit,
   Promise!SumTo, SumTo

LEMMA SamePromisedTrade ==
    ASSUME NEW t, NEW u, NEW o, NEW gone, NEW filled, NEW total
    PROVE  Promise!Traded(t, u, o, gone, filled, total) <=> Traded(t, u, o, gone, filled, total)
BY DEF Promise!Traded, Traded, Promise!Exchanged, Exchanged, Promise!Rested, Rested,
   Promise!Open, Open, Promise!Exists, Exists, Promise!Filled, Filled, Promise!Suits, Suits,
   Promise!Taken, Taken, Promise!PositionsAfter, PositionsAfter, Promise!TakenFrom, TakenFrom,
   Promise!GivenUp, GivenUp, Promise!FairAt, FairAt, Promise!Wealth, Wealth, Promise!Worth, Worth,
   Promise!Abs, Abs, Promise!ContractType, ContractType, Promise!UNFIXED, UNFIXED,
   Promise!OfferId, OfferId, Promise!NoOffer, NoOffer, Promise!FIXED, FIXED, Promise!Never, Never,
   Promise!Account, Account, Promise!Reserved, Reserved, Promise!SetAside, SetAside,
   Promise!Escrow, Escrow, Promise!Cost, Cost, Promise!Unit, Unit, Promise!SumTo, SumTo

(* What a commit of an order, a cancel, a page or a cleanup does to the tables. *)
LEMMA CommitKeeps ==
    ASSUME Types, OwnConnections, Ownership, Fairly, NEW w \in Worker,
           job[w].kind \in DealKind, Commit(w), spoiled' = {}
    PROVE  [Promise!Next]_(Book(db))
<1> DEFINE j == job[w]
           m == Mine(w)
           t == Book(db)
           u == Book(db')
<1>1. /\ JobOk(j) /\ j.at = "commit" /\ spoiled' = spoiled \cup MarksOf(w)
      /\ Valid(db) /\ RowsOk(m) /\ Guarded(db, m, j, MarksOf(w), Listed)
    BY CommitEffect, DealerFacts DEF Ownership
<1>2. Dealing(db, m, j)
    <2>1. spoiled = {} /\ MarksOf(w) = {}
        BY <1>1
    <2>. QED  BY <2>1, DealerFacts
<1>3. db' = Laid(db, m)
    BY DEF Commit, View, Laid, Mine
<1>4. Book(db)' = u
    OBVIOUS
<1>5. SUFFICES ASSUME u # t PROVE Promise!Next
    BY <1>4
<1>6. CASE j.kind \in Clearing
    <2>1. Withdrawing(db, m, j)
        BY <1>2, <1>6 DEF Dealing
    <2>2. \E gone \in SUBSET (Open(t) \ Open(u)) : Withdrawn(t, u, gone)
        BY <1>1, <1>3, <2>1, WithdrawingKeeps
    <2>3. PICK gone \in SUBSET (Open(t) \ Open(u)) : Withdrawn(t, u, gone)
        BY <2>2
    <2>4. Promise!Withdraw(gone)
        BY <1>4, <2>3, SamePromisedWithdrawal DEF Promise!Withdraw
    <2>5. gone \in SUBSET (Promise!Open(Book(db)) \ Promise!Open(Book(db)'))
        BY <1>4, <2>3, SamePromise
    <2>. QED  BY <1>4, <1>5, <2>4, <2>5 DEF Promise!Next
<1>7. CASE j.kind = "place"
    <2> DEFINE filled == {i \in Open(t) : Taken(t, u, i) # 0}
               o == Order[j.id]
    <2>1. Selling(db, m, j) /\ j.id \in OfferId
        BY <1>1, <1>2, <1>7, OrderId DEF Dealing
    <2>2. db[OfferOf(j.id)] = 0
        BY <1>1, <1>7 DEF Guarded, OffersOk
    <2>3. Traded(t, u, o, {}, filled, TakenAll(t, u, filled))
        BY <1>1, <1>3, <1>7, <2>1, <2>2, SellingKeeps
    <2>4. filled = {i \in Promise!Open(Book(db)) \ {} : Promise!Taken(Book(db), Book(db)', i) # 0}
        BY <1>4, SamePromise
    <2> HIDE DEF filled
    <2>5. Promise!Traded(Book(db), Book(db)', o, {}, filled,
                         Promise!TakenAll(Book(db), Book(db)', filled))
        BY <1>4, <2>3, SamePromisedTrade, SamePromise
    <2>6. o \in {Order[i] : i \in OfferId}
        BY <2>1
    <2>7. Promise!Trade({})
        BY <2>4, <2>5, <2>6 DEF Promise!Trade
    <2>. QED  BY <1>4, <1>5, <2>7 DEF Promise!Next
<1>8. j.kind = "place" \/ j.kind \in Clearing
    BY DEF DealKind
<1>. QED  BY <1>6, <1>7, <1>8

(* However many orders, cancels, pages, logins and resolutions run at the  *)
(* same time, and whatever dies or is refused: each order, cancel, page    *)
(* and cleanup of a resolution that is committed is one step of Market,    *)
(* unless something stale or half done has been committed.                 *)
THEOREM ProcessesKeepPromise == Spec => TradesKeepPromise
<1> DEFINE Keeps == \A w \in Worker :
              /\ OwnConnections /\ spoiled' = {}
              /\ job[w].kind \in {"place", "cancel", "list", "resolve", "clear", "final", "last"}
              /\ Commit(w)
              => [Promise!Next]_(Book(db))
<1>1. Types /\ Kept /\ Dealt => Keeps
    BY CommitKeeps DEF Kept, Dealt, DealKind, Clearing
<1>2. Types /\ Kept /\ Dealt /\ [Next]_vars => [Keeps]_db
    BY <1>1
<1>3. [][Keeps]_db => TradesKeepPromise
    BY PTL DEF TradesKeepPromise
<1> HIDE DEF Keeps
<1>. QED  BY <1>2, <1>3, TypesInvariant, KeptInvariant, DealtInvariant, PTL DEF Spec

(***************************************************************************)
(* Resolutions.                                                            *)
(*                                                                         *)
(* Orders, and other resolutions, may be at the same positions: what one   *)
(* has read others may change before it is deleted.  The invariant says    *)
(* who has been paid: the holders of the positions that are deleted, which *)
(* nobody else can write any more, for what was in them, and that of the   *)
(* one that is about to be, for what was read.                             *)
(***************************************************************************)
PrizeOf(d, m, j, a) ==
    (IF PositionRow(j.id, a) \in DOMAIN m THEN Prize(d[PositionRow(j.id, a)], j.half) ELSE 0)
      + (IF j.at = "delete" /\ a = j.row THEN Prize(j.got, j.half) ELSE 0)

Closed(m, j) ==
    \A c \in ContractType, a \in Account :
        PositionRow(c, a) \in DOMAIN m => c = j.id /\ m[PositionRow(c, a)] = 0

PaidUp(d, m, j) ==
    /\ \A i \in OfferId : OfferOf(i) \notin DOMAIN m
    /\ Closed(m, j)
    /\ j.at \in {"credit", "delete"} => PositionRow(j.id, j.row) \notin DOMAIN m
    /\ \A a \in Account : Laid(d, m)[AccountRow(a)] = d[AccountRow(a)] + PrizeOf(d, m, j, a)

Settling(d, m, j) == j.kind = "pay" => PaidUp(d, m, j)

PaidFairly ==
    spoiled = {} => \A w \in Worker : MarksOf(w) = {} => Settling(db, Mine(w), job[w])

SettledSoFar == OwnConnections => PaidFairly

(* A loser, or nobody, gets nothing. *)
LEMMA NoPrize ==
    ASSUME NEW j, j.half \in {FIXED, UNFIXED}, NEW q \in Int
    PROVE  /\ Prize(q, j.half) \in Int
           /\ q = 0 => Prize(q, j.half) = 0
           /\ ~ ((q > 0) <=> (j.half = FIXED)) => Prize(q, j.half) = 0
           /\ ((q > 0) <=> (j.half = FIXED)) => Prize(q, j.half) = Unit * Abs(q)
BY DEF Prize, Unit, Abs

LEMMA AlonePaid ==
    ASSUME Types, OwnConnections, PaidFairly, NEW w \in Worker, NEW m, NEW u, NEW mk,
           Alone(w, m, u, mk), spoiled = {} /\ mk = {} => Settling(db, m, u)
    PROVE  PaidFairly'
<1>1. /\ Mine(w)' = m /\ job'[w] = u /\ MarksOf(w)' = mk
      /\ \A v \in Worker : v # w => /\ Mine(v)' = Mine(v) /\ job'[v] = job[v]
                                    /\ MarksOf(v)' = MarksOf(v)
    BY AloneEffect
<1>2. db' = db /\ spoiled' = spoiled
    BY DEF Alone
<1> SUFFICES ASSUME spoiled = {}, NEW v \in Worker, MarksOf(v)' = {}
             PROVE  Settling(db', Mine(v)', job'[v])
    BY <1>2 DEF PaidFairly
<1>3. CASE v = w
    BY <1>1, <1>2, <1>3
<1>4. CASE v # w
    BY <1>1, <1>2, <1>4 DEF PaidFairly
<1>. QED  BY <1>3, <1>4

(* Worker w does something on its own that pays nobody. *)
Idles(w) == \E m, u, mk : Alone(w, m, u, mk) /\ u.kind # "pay"

LEMMA IdlesPaid ==
    ASSUME Types, OwnConnections, PaidFairly, NEW w \in Worker, Idles(w)
    PROVE  PaidFairly'
<1>1. PICK m, u, mk : Alone(w, m, u, mk) /\ u.kind # "pay"
    BY DEF Idles
<1>2. Settling(db, m, u)
    BY <1>1 DEF Settling
<1>. QED  BY <1>1, <1>2, AlonePaid

(* A statement changes the rows and the job of its worker. *)
LEMMA StatementAlone ==
    ASSUME Types, NEW w \in Worker, NEW u,
           \/ Reads(w, u)
           \/ \E r, x, why : Writes(w, r, x, why, u) \/ Updates(w, r, x, why, u)
           \/ \E m, why : Lays(w, m, why, u)
    PROVE  \E m, mk : Alone(w, m, u, mk)
<1>1. CASE Reads(w, u)
    BY <1>1, ReadsAlone
<1>2. ASSUME NEW r, NEW x, NEW why, Writes(w, r, x, why, u)
      PROVE  \E m, mk : Alone(w, m, u, mk)
    BY <1>2, WritesAlone
<1>3. ASSUME NEW r, NEW x, NEW why, Updates(w, r, x, why, u)
      PROVE  \E m, mk : Alone(w, m, u, mk)
    <2>1. work = [work EXCEPT ![site.conn[w]] = work[site.conn[w]]]
        BY Connected DEF Types
    <2>2. \E m : work' = [work EXCEPT ![site.conn[w]] = m]
        BY <1>3, <2>1 DEF Updates
    <2>3. marks' = [marks EXCEPT ![site.conn[w]] = marks[site.conn[w]] \cup why]
        BY <1>3 DEF Updates, Marked
    <2>. QED  BY <1>3, <2>2, <2>3 DEF Updates, Becomes, Alone, requests
<1>4. ASSUME NEW m, NEW why, Lays(w, m, why, u)
      PROVE  \E p, mk : Alone(w, p, u, mk)
    BY <1>4 DEF Lays, Alone, requests
<1>. QED  BY <1>1, <1>2, <1>3, <1>4

LEMMA StatementIdles ==
    ASSUME Types, NEW w \in Worker, NEW u, u.kind # "pay",
           \/ Reads(w, u)
           \/ \E r, x, why : Writes(w, r, x, why, u) \/ Updates(w, r, x, why, u)
           \/ \E m, why : Lays(w, m, why, u)
    PROVE  Idles(w)
BY StatementAlone DEF Idles

LEMMA FailsIdles ==
    ASSUME Types, NEW w \in Worker, StatementFails(w)
    PROVE  Idles(w)
<1> DEFINE j == job[w]
           k == site.conn[w]
<1>1. JobOk(j)
    BY RowsValid
<1>2. j.kind = "login" => Retried(j).kind = "login"
    <2>1. j.kind = "login" => /\ JobOk(Retried(j)) /\ Retried(j).kind = "login" /\ Retried(j).at = "user"
                              /\ Retried(j).left = 0 /\ DOMAIN Retried(j).rows = {}
        BY ONLY <1>1, RetriedOk, Zenon
    <2>. QED  BY <2>1
<1>3. \/ job' = [job EXCEPT ![w] = Idle]
      \/ j.kind = "login" /\ job' = [job EXCEPT ![w] = Retried(j)]
    BY DEF StatementFails, Becomes
<1>4. /\ work' = [work EXCEPT ![k] = NoWork] /\ marks' = [marks EXCEPT ![k] = {}]
      /\ UNCHANGED <<site, db, spoiled>>
    BY DEF StatementFails, requests
<1>5. CASE job' = [job EXCEPT ![w] = Idle]
    <2>1. Alone(w, NoWork, Idle, {})
        BY <1>4, <1>5 DEF Alone
    <2>. QED  BY <2>1, IdleOk DEF Idles
<1>6. CASE j.kind = "login" /\ job' = [job EXCEPT ![w] = Retried(j)]
    <2>1. Alone(w, NoWork, Retried(j), {})
        BY <1>4, <1>6 DEF Alone
    <2>. QED  BY <1>2, <1>6, <2>1 DEF Idles
<1>. QED  BY <1>3, <1>5, <1>6

LEMMA RaisesIdles ==
    ASSUME Types, NEW w \in Worker, HandlerRaises(w)
    PROVE  Idles(w)
<1> DEFINE k == site.conn[w]
           done == {r \in DOMAIN work[k] : r[1] # "type"}
           mk == IF done = {} THEN {} ELSE marks[k] \cup {"raised"}
<1>1. work' = [work EXCEPT ![k] = Mine(w)]
    BY Connected DEF HandlerRaises, Types, Mine
<1>2. marks' = [marks EXCEPT ![k] = mk]
    BY DEF HandlerRaises, Marked
<1>3. Alone(w, Mine(w), Idle, mk)
    BY <1>1, <1>2 DEF HandlerRaises, Becomes, Alone, requests
<1>. QED  BY <1>3, IdleOk DEF Idles

(* Going through rows is no other kind of request. *)
LEMMA KindKept ==
    ASSUME NEW j, IsJob(j)
    PROVE  /\ \A rows : Aim(j, rows).kind = j.kind
           /\ NextRow(j).kind = j.kind
           /\ Contracted(j).kind = j.kind /\ Stored(j).kind = j.kind
<1>1. \A i : IsJob(i) => \A rows : Aim(i, rows).kind = i.kind
    BY DEF Aim, IsJob
<1>2. \A i : IsJob(i) => NextRow(i).kind = i.kind
    BY <1>1 DEF NextRow
<1> DEFINE u == [j EXCEPT !.left = @ - j.n]
<1>3. IsJob(u) /\ u.kind = j.kind
    BY DEF IsJob
<1>4. Contracted(j).kind = j.kind
    <2>1. [j EXCEPT !.at = "commit"].kind = j.kind
        BY DEF IsJob
    <2>2. NextRow(u).kind = j.kind
        BY <1>2, <1>3
    <2>. QED  BY <2>1, <2>2 DEF Contracted
<1>5. Stored(j).kind = j.kind
    BY DEF Stored, IsJob
<1>. QED  BY <1>1, <1>2, <1>4, <1>5

LEMMA MatchingIdles ==
    ASSUME Types, NEW w \in Worker, Matching(w)
    PROVE  Idles(w)
<1> DEFINE j == job[w]
<1>1. JobOk(j) /\ IsJob(j)
    BY RowsValid DEF JobOk
<1>2. j.at \in {"lookup", "match"} \cup Offering => j.kind # "pay"
    BY <1>1 DEF JobOk, StepOk, Offering
<1>3. CASE Lookup(w)
    <2> DEFINE u == [j EXCEPT !.at = IF j.kind = "place" THEN "match" ELSE "find"]
    <2>1. u.kind = j.kind /\ j.kind # "pay"
        BY <1>1, <1>2, <1>3 DEF IsJob, Lookup, At
    <2>2. \E r, x, why : Writes(w, r, x, why, u)
        BY <1>3 DEF Lookup
    <2> HIDE DEF u
    <2>. QED  BY <2>1, <2>2, StatementIdles
<1>4. CASE Match(w)
    <2>1. \E rows : Reads(w, Aim(j, rows))
        BY <1>4 DEF Match
    <2>2. j.kind # "pay"
        BY <1>2, <1>4 DEF Match, At
    <2>. QED  BY <1>1, <2>1, <2>2, KindKept, StatementIdles
<1>5. CASE ReadOffer(w)
    <2> DEFINE q == Seen(w, OfferOf(j.row))
               n == IF j.kind = "place" THEN j.n ELSE q
               u == [j EXCEPT !.at = "refund", !.got = q, !.n = n]
    <2>1. u.kind = j.kind /\ j.kind # "pay"
        BY <1>1, <1>2, <1>5 DEF IsJob, ReadOffer, At, Offering
    <2>2. HandlerRaises(w) \/ Reads(w, u)
        BY <1>5 DEF ReadOffer
    <2> HIDE DEF u
    <2>. QED  BY <2>1, <2>2, RaisesIdles, StatementIdles
<1>6. CASE Refund(w)
    <2> DEFINE u == [j EXCEPT !.at = "shrink"]
    <2>1. u.kind = j.kind /\ j.kind # "pay"
        BY <1>1, <1>2, <1>6 DEF IsJob, Refund, At, Offering
    <2>2. \E r, x, why : Writes(w, r, x, why, u)
        BY <1>6 DEF Refund
    <2> HIDE DEF u
    <2>. QED  BY <2>1, <2>2, StatementIdles
<1>7. CASE Shrink(w)
    <2> DEFINE u == IF j.kind = "place" THEN [j EXCEPT !.at = "side", !.half = FIXED]
                    ELSE NextRow(j)
    <2>1. u.kind = j.kind /\ j.kind # "pay"
        <3>1. [j EXCEPT !.at = "side", !.half = FIXED].kind = j.kind
            BY <1>1 DEF IsJob
        <3>2. j.kind # "pay"
            BY <1>2, <1>7 DEF Shrink, At, Offering
        <3>. QED  BY <1>1, <3>1, <3>2, KindKept
    <2>2. HandlerRaises(w) \/ \E r, x, why : Writes(w, r, x, why, u)
        BY <1>7 DEF Shrink
    <2> HIDE DEF u
    <2>. QED  BY <2>1, <2>2, RaisesIdles, StatementIdles
<1>. QED  BY <1>3, <1>4, <1>5, <1>6, <1>7 DEF Matching

LEMMA SweepingIdles ==
    ASSUME Types, NEW w \in Worker, Sweeping(w)
    PROVE  Idles(w)
<1> DEFINE j == job[w]
<1>1. JobOk(j) /\ IsJob(j)
    BY RowsValid DEF JobOk
<1>2. j.at \in {"find", "filter", "clean"} => j.kind # "pay"
    BY <1>1 DEF JobOk, StepOk
<1>3. CASE Find(w)
    <2>1. j.kind # "pay" /\ \E rows : Reads(w, Aim(j, rows))
        BY <1>2, <1>3 DEF Find, At
    <2>. QED  BY <1>1, <2>1, KindKept, StatementIdles
<1>4. CASE Filter(w)
    <2> DEFINE u == [j EXCEPT !.at = "commit",
                              !.rows = [i \in Existing(w, {i \in OfferId : Order[i].ct = j.id}) |-> 1]]
    <2>1. u.kind # "pay" /\ Reads(w, u)
        BY <1>1, <1>2, <1>4 DEF IsJob, Filter, At
    <2> HIDE DEF u
    <2>. QED  BY <2>1, StatementIdles
<1>5. CASE Clean(w)
    <2>1. PICK u : j.at = "clean" /\ Reads(w, u) /\ Cleaned(w, u)
        BY <1>5, CleanRows
    <2>2. PICK n \in Int : \E rows : u = Aim([j EXCEPT !.left = n], rows)
        BY <2>1, Zenon DEF Cleaned
    <2> DEFINE i == [j EXCEPT !.left = n]
    <2>3. IsJob(i) /\ i.kind = j.kind
        BY <1>1 DEF IsJob
    <2>4. \E rows : u = Aim(i, rows)
        BY <2>2
    <2> HIDE DEF i
    <2>5. u.kind # "pay"
        BY <1>2, <2>1, <2>3, <2>4, KindKept
    <2>. QED  BY <2>1, <2>5, StatementIdles
<1>6. CASE SweepRaises(w)
    BY <1>6, RaisesIdles DEF SweepRaises
<1>. QED  BY <1>3, <1>4, <1>5, <1>6 DEF Sweeping

LEMMA ContractingIdles ==
    ASSUME Types, NEW w \in Worker, Contracting(w)
    PROVE  Idles(w)
<1> DEFINE j == job[w]
<1>1. JobOk(j) /\ IsJob(j)
    BY RowsValid DEF JobOk
<1>2. j.kind # "pay"
    BY <1>1 DEF JobOk, StepOk, Contracting, ReadSide, InsertSide, UpdateSide, DebitFixed,
                DebitUnfixed, Rest, InsertOffer, At, Trading
<1>3. ASSUME NEW a, NEW y, NEW u, u.kind # "pay", Pays(w, a, y, u) PROVE Idles(w)
    <2>1. StatementFails(w) \/ \E r, x, why : Writes(w, r, x, why, u)
        BY <1>3 DEF Pays
    <2>. QED  BY <1>3, <2>1, FailsIdles, StatementIdles
<1>4. CASE ReadSide(w)
    <2> DEFINE u == [j EXCEPT !.at = "store", !.got = Seen(w, HolderRow(j))]
    <2>1. u.kind # "pay" /\ Reads(w, u)
        BY <1>1, <1>2, <1>4 DEF IsJob, ReadSide
    <2> HIDE DEF u
    <2>. QED  BY <2>1, StatementIdles
<1>5. CASE InsertSide(w) \/ UpdateSide(w)
    <2>1. \/ StatementFails(w)
          \/ \E r, x, why : Updates(w, r, x, why, Stored(j))
          \/ \E m, why : Lays(w, m, why, Stored(j))
        BY <1>5, InsertLays DEF UpdateSide
    <2>2. Stored(j).kind # "pay"
        BY <1>1, <1>2, KindKept
    <2>. QED  BY <2>1, <2>2, FailsIdles, StatementIdles
<1>6. CASE DebitFixed(w)
    <2> DEFINE u == [j EXCEPT !.half = UNFIXED]
    <2>1. u.kind # "pay" /\ \E a, y : Pays(w, a, y, u)
        BY <1>1, <1>2, <1>6 DEF IsJob, DebitFixed
    <2> HIDE DEF u
    <2>. QED  BY <1>3, <2>1
<1>7. CASE DebitUnfixed(w)
    <2>1. StatementFails(w) \/ \E r, x, why : Writes(w, r, x, why, Contracted(j))
        BY <1>7 DEF DebitUnfixed
    <2>2. Contracted(j).kind # "pay"
        BY <1>1, <1>2, KindKept
    <2>. QED  BY <2>1, <2>2, FailsIdles, StatementIdles
<1>8. CASE Rest(w)
    <2> DEFINE u == [j EXCEPT !.at = "insert"]
    <2>1. u.kind # "pay" /\ \E a, y : Pays(w, a, y, u)
        BY <1>1, <1>2, <1>8 DEF IsJob, Rest
    <2> HIDE DEF u
    <2>. QED  BY <1>3, <2>1
<1>9. CASE InsertOffer(w)
    <2> DEFINE u == [j EXCEPT !.at = "commit"]
    <2>1. u.kind # "pay" /\ (StatementFails(w) \/ \E r, x, why : Writes(w, r, x, why, u))
        BY <1>1, <1>2, <1>9 DEF IsJob, InsertOffer
    <2> HIDE DEF u
    <2>. QED  BY <2>1, FailsIdles, StatementIdles
<1>. QED  BY <1>4, <1>5, <1>6, <1>7, <1>8, <1>9 DEF Contracting

LEMMA LoggingInIdles ==
    ASSUME Types, NEW w \in Worker, LoggingIn(w)
    PROVE  Idles(w)
<1> DEFINE j == job[w]
<1>1. JobOk(j) /\ IsJob(j)
    BY RowsValid DEF JobOk
<1>2. j.kind # "pay"
    BY <1>1 DEF JobOk, StepOk, LoggingIn, FindUser, CreateAccount, SaveAccount, Upsert,
                TakeName, At, LoginSteps
<1>3. CASE FindUser(w)
    <2> DEFINE a == Seen(w, UserRow(Logins[j.id].user))
               create == [j EXCEPT !.at = "create"]
               save == [j EXCEPT !.at = "save", !.row = a, !.left = a,
                                 !.got = Seen(w, AccountRow(a))]
    <2>1. create.kind # "pay" /\ save.kind # "pay" /\ Idle.kind # "pay"
        BY <1>1, <1>2, IdleOk DEF IsJob
    <2>2. Reads(w, create) \/ Reads(w, Idle) \/ Reads(w, save)
        BY <1>3 DEF FindUser
    <2> HIDE DEF create, save
    <2>. QED  BY <2>1, <2>2, StatementIdles
<1>4. CASE CreateAccount(w)
    <2> DEFINE u == [j EXCEPT !.at = "upsert", !.row = FreshAccount]
    <2>1. u.kind # "pay" /\ \E r, x, why : Writes(w, r, x, why, u)
        BY <1>1, <1>2, <1>4 DEF IsJob, CreateAccount
    <2> HIDE DEF u
    <2>. QED  BY <2>1, StatementIdles
<1>5. CASE SaveAccount(w)
    <2> DEFINE u == [j EXCEPT !.at = "upsert"]
    <2>1. u.kind # "pay" /\ \E r, x, why : Writes(w, r, x, why, u)
        BY <1>1, <1>2, <1>5 DEF IsJob, SaveAccount
    <2> HIDE DEF u
    <2>. QED  BY <2>1, StatementIdles
<1>6. CASE Upsert(w)
    <2> DEFINE u == [j EXCEPT !.at = "name"]
    <2>1. u.kind # "pay"
        BY <1>1, <1>2 DEF IsJob
    <2>2. \E m, mk : Alone(w, m, u, mk)
        BY <1>6 DEF Upsert, Becomes, Marked, requests, Alone
    <2> HIDE DEF u
    <2>. QED  BY <2>1, <2>2 DEF Idles
<1>7. CASE TakeName(w)
    <2> DEFINE u == [j EXCEPT !.at = "commit"]
    <2>1. u.kind # "pay"
        BY <1>1, <1>2 DEF IsJob
    <2>2. StatementFails(w) \/ \E r, x, why : Writes(w, r, x, why, u)
        BY <1>7 DEF TakeName
    <2> HIDE DEF u
    <2>. QED  BY <2>1, <2>2, FailsIdles, StatementIdles
<1>. QED  BY <1>3, <1>4, <1>5, <1>6, <1>7 DEF LoggingIn

LEMMA AskingIdles ==
    ASSUME Types, NEW w \in Worker, Asks(w) \/ Page(w)
    PROVE  Idles(w)
<1>1. ASSUME NEW kind \in {"place", "cancel", "list", "login", "resolve"}, NEW j, IsJob(j),
             Begins(w, kind, j)
      PROVE  Idles(w)
    <2> DEFINE u == [j EXCEPT !.kind = kind]
    <2>1. u.kind # "pay"
        BY <1>1 DEF IsJob
    <2>2. /\ work = [work EXCEPT ![site.conn[w]] = work[site.conn[w]]]
          /\ marks = [marks EXCEPT ![site.conn[w]] = marks[site.conn[w]]]
        BY Connected DEF Types
    <2>3. Alone(w, Mine(w), u, MarksOf(w))
        BY <1>1, <2>2 DEF Begins, Becomes, Alone, Mine, MarksOf
    <2> HIDE DEF u
    <2>. QED  BY <2>1, <2>3 DEF Idles
<1>2. IsJob(Idle)
    BY IdleOk DEF JobOk
<1>3. ASSUME NEW i \in OfferId, Place(w, i) PROVE Idles(w)
    <2> DEFINE j == [Idle EXCEPT !.at = "lookup", !.id = i, !.left = Order[i].quantity]
    <2>1. IsJob(j)
        BY <1>2 DEF IsJob
    <2>2. Begins(w, "place", j)
        BY <1>3 DEF Place, Request
    <2> HIDE DEF j
    <2>. QED  BY <1>1, <2>1, <2>2
<1>4. ASSUME NEW i \in OfferId, Cancel(w, i) PROVE Idles(w)
    <2> DEFINE j == [Idle EXCEPT !.at = "read", !.row = i]
    <2>1. IsJob(j)
        BY <1>2 DEF IsJob
    <2>2. Begins(w, "cancel", j)
        BY <1>4 DEF Cancel, Request
    <2> HIDE DEF j
    <2>. QED  BY <1>1, <2>1, <2>2
<1>5. CASE List(w) \/ Page(w)
    <2> DEFINE j == [Idle EXCEPT !.at = "find"]
    <2>1. IsJob(j)
        BY <1>2 DEF IsJob
    <2>2. Begins(w, "list", j)
        BY <1>5 DEF List, Page, Request
    <2> HIDE DEF j
    <2>. QED  BY <1>1, <2>1, <2>2
<1>6. ASSUME NEW l \in DOMAIN Logins, LogIn(w, l) PROVE Idles(w)
    <2> DEFINE j == [Idle EXCEPT !.at = "user", !.id = l, !.n = 1]
    <2>1. IsJob(j)
        BY <1>2 DEF IsJob
    <2>2. Begins(w, "login", j)
        BY <1>6 DEF LogIn, Request
    <2> HIDE DEF j
    <2>. QED  BY <1>1, <2>1, <2>2
<1>7. ASSUME NEW c \in ContractType, NEW side \in Side, Resolve(w, c, side) PROVE Idles(w)
    <2> DEFINE j == [Idle EXCEPT !.at = "lookup", !.id = c, !.half = side]
    <2>1. IsJob(j)
        BY <1>2 DEF IsJob
    <2>2. Begins(w, "resolve", j)
        BY <1>7 DEF Resolve, Request
    <2> HIDE DEF j
    <2>. QED  BY <1>1, <2>1, <2>2
<1>. QED  BY <1>3, <1>4, <1>5, <1>6, <1>7 DEF Asks

(* A winner is still to be paid, a loser is dealt with, or all are done. *)
LEMMA PickPaid ==
    ASSUME Types, OwnConnections, Ownership, Grounded, AddsUp, PaidFairly, NEW w \in Worker, Pick(w)
    PROVE  PaidFairly'
<1> DEFINE j == job[w]
           m == Mine(w)
           P(a) == PositionRow(j.id, a)
<1>1. /\ JobOk(j) /\ IsJob(j) /\ Valid(db)
      /\ spoiled = {} /\ MarksOf(w) = {} => Settling(db, m, j)
    BY WorkerFacts DEF PaidFairly, JobOk
<1>2. j.at = "pick" /\ j.at \in PaySteps
    <2>1. j.at = "pick"
        BY Zenon DEF Pick, At
    <2>. QED  BY <2>1 DEF PaySteps
<1>3. j.kind = "pay" /\ j.id \in ContractType /\ j.half \in {FIXED, UNFIXED}
    BY <1>2, PayersFacts DEF PayerFacts
<1>4. \A a \in Account : /\ P(a) \in Row /\ Seen(w, P(a)) = Laid(db, m)[P(a)]
                         /\ Seen(w, P(a)) \in Int
    BY <1>3, RowFacts, SeenLaid, SeenOk DEF ValueOk
<1>5. ASSUME NEW x \in {"commit", "credit", "delete"}, NEW a, NEW q \in Int, NEW u,
             u.at = x, u.kind = "pay", u.id = j.id, u.half = j.half, u.row = a, u.got = q,
             Reads(w, u),
             PaidUp(db, m, j) /\ x # "commit" => P(a) \notin DOMAIN m,
             x = "delete" => Prize(q, j.half) = 0
      PROVE  PaidFairly'
    <2>1. Alone(w, m, u, MarksOf(w))
        BY <1>5, ReadsAlone
    <2>2. ASSUME PaidUp(db, m, j) PROVE PaidUp(db, m, u)
        <3>1. ASSUME NEW b \in Account PROVE PrizeOf(db, m, u, b) = PrizeOf(db, m, j, b)
            BY <1>2, <1>5 DEF PrizeOf
        <3>2. Closed(m, u)
            BY <1>5, <2>2 DEF PaidUp, Closed
        <3>. QED  BY <1>5, <2>2, <3>1, <3>2 DEF PaidUp
    <2>3. Settling(db, m, j) => Settling(db, m, u)
        BY <1>3, <2>2 DEF Settling
    <2>. QED  BY <1>1, <2>1, <2>3, AlonePaid
<1>6. CASE HandlerRaises(w)
    BY <1>6, RaisesIdles, IdlesPaid
<1>7. CASE Reads(w, [j EXCEPT !.at = "commit"])
    <2> DEFINE u == [j EXCEPT !.at = "commit"]
    <2>1. /\ u.at = "commit" /\ u.kind = "pay" /\ u.id = j.id /\ u.half = j.half
          /\ u.row = j.row /\ u.got = j.got /\ j.got \in Int
        BY <1>1, <1>3, JobNumbers DEF IsJob
    <2> HIDE DEF u
    <2>. QED  BY <1>5, <1>7, <2>1 DEF u
<1>8. ASSUME NEW a \in Account, Seen(w, P(a)) # 0,
             Reads(w, [j EXCEPT !.at = IF (Seen(w, P(a)) > 0) <=> (j.half = FIXED)
                                       THEN "credit" ELSE "delete",
                                !.row = a, !.n = Seen(w, IdRow(j.id, a)),
                                !.got = Seen(w, P(a)), !.left = @ + Seen(w, P(a))])
      PROVE  PaidFairly'
    <2> DEFINE q == Seen(w, P(a))
               p == Seen(w, IdRow(j.id, a))
               x == IF (q > 0) <=> (j.half = FIXED) THEN "credit" ELSE "delete"
               u == [j EXCEPT !.at = x, !.row = a, !.n = p, !.got = q, !.left = @ + q]
    <2>1. /\ x \in {"credit", "delete"} /\ q \in Int /\ Reads(w, u)
          /\ x = "delete" => ~ ((q > 0) <=> (j.half = FIXED))
        BY <1>4, <1>8
    <2>2. ASSUME PaidUp(db, m, j) PROVE P(a) \notin DOMAIN m
        <3>1. P(a) \in DOMAIN m => m[P(a)] = 0
            BY <1>3, <2>2 DEF PaidUp, Closed
        <3>. QED  BY <1>4, <1>8, <3>1 DEF Laid
    <2> HIDE DEF x, q, p
    <2>3. u.at = x /\ u.kind = "pay" /\ u.id = j.id /\ u.half = j.half /\ u.row = a /\ u.got = q
        BY <1>1, <1>3 DEF IsJob
    <2>4. x = "delete" => Prize(q, j.half) = 0
        BY <1>3, <2>1, NoPrize
    <2> HIDE DEF u
    <2>. QED  BY <1>5, <2>1, <2>2, <2>3, <2>4
<1>9. \/ HandlerRaises(w)
      \/ Reads(w, [j EXCEPT !.at = "commit"])
      \/ \E a \in Account :
            /\ Seen(w, P(a)) # 0
            /\ Reads(w, [j EXCEPT !.at = IF (Seen(w, P(a)) > 0) <=> (j.half = FIXED)
                                         THEN "credit" ELSE "delete",
                                  !.row = a, !.n = Seen(w, IdRow(j.id, a)),
                                  !.got = Seen(w, P(a)), !.left = @ + Seen(w, P(a))])
    BY Zenon DEF Pick
<1>. QED  BY <1>6, <1>7, <1>8, <1>9, Zenon

LEMMA WinnerPaid ==
    ASSUME Types, OwnConnections, Ownership, Grounded, AddsUp, PaidFairly,
           NEW w \in Worker, PayWinner(w)
    PROVE  PaidFairly'
<1> DEFINE j == job[w]
           m == Mine(w)
           a == j.row
           r == AccountRow(a)
           q == Seen(w, r)
           y == Unit * Abs(j.got)
           x == q + y
           u == [j EXCEPT !.at = "delete"]
           n == Put(m, r, x)
           P(b) == PositionRow(j.id, b)
<1>1. /\ JobOk(j) /\ IsJob(j) /\ Valid(db) /\ RowsOk(m)
      /\ spoiled = {} /\ MarksOf(w) = {} => Settling(db, m, j) /\ Picked(j)
    BY WorkerFacts DEF PaidFairly, JobOk, Orderly
<1>2. j.at = "credit" /\ j.at \in PaySteps /\ Updates(w, r, x, {}, u)
    BY DEF PayWinner, At, PaySteps
<1>3. /\ j.kind = "pay" /\ j.id \in ContractType /\ j.got \in Int /\ a \in Account
      /\ Living(db, a) /\ j.half \in {FIXED, UNFIXED}
    BY <1>2, PayersFacts DEF PayerFacts
<1>4. /\ u.at = "delete" /\ u.kind = "pay" /\ u.id = j.id /\ u.row = a /\ u.half = j.half
      /\ u.got = j.got
    BY <1>1, <1>3 DEF IsJob
<1>5. q \in Nat /\ q = Laid(db, m)[r] /\ r \in Row /\ r[1] = "account"
    BY <1>3, SeesAccounts, SeenLaid, RowFacts
<1>6. Exist(r, q)
    BY <1>5 DEF Exist, Absent
<1>7. Writes(w, r, x, {}, u)
    BY <1>2, <1>6 DEF Updates, Writes
<1>8. Alone(w, n, u, MarksOf(w) \cup {})
    BY <1>7, WritesAlone
<1>9. /\ \A c \in ContractType, b \in Account : PositionRow(c, b) # r
      /\ \A b \in Account : AccountRow(b) \in Row /\ (b # a => AccountRow(b) # r)
      /\ \A i \in OfferId : OfferOf(i) # r
    BY <1>3, <1>5, RowFacts
<1>10. Laid(db, n)[r] = x /\ But(Laid(db, m), Laid(db, n), r)
    BY <1>5, LaidPut
<1>11. /\ \A i \in OfferId : OfferOf(i) \in DOMAIN n <=> OfferOf(i) \in DOMAIN m
       /\ \A c \in ContractType, b \in Account :
            /\ PositionRow(c, b) \in DOMAIN n <=> PositionRow(c, b) \in DOMAIN m
            /\ PositionRow(c, b) \in DOMAIN m => n[PositionRow(c, b)] = m[PositionRow(c, b)]
    BY <1>9, PutDomain, PutRows
<1> HIDE DEF u, n, q
<1>12. ASSUME Picked(j), PaidUp(db, m, j)
       PROVE  PaidUp(db, n, u)
    <2>1. HasWon(j) /\ P(a) \notin DOMAIN m
        BY <1>2, <1>12 DEF Picked, PaidUp
    <2>2. Prize(j.got, j.half) = y /\ y \in Int
        BY <1>3, <2>1, NoPrize DEF HasWon
    <2>3. ASSUME NEW b \in Account
          PROVE  Laid(db, n)[AccountRow(b)] = db[AccountRow(b)] + PrizeOf(db, n, u, b)
        <3>1. Laid(db, m)[AccountRow(b)] = db[AccountRow(b)] + PrizeOf(db, m, j, b)
            BY <1>12 DEF PaidUp
        <3>2. CASE b = a
            <4>1. PrizeOf(db, m, j, b) = 0
                BY <1>2, <2>1, <3>2 DEF PrizeOf
            <4>2. PrizeOf(db, n, u, b) = y
                BY <1>3, <1>4, <1>11, <2>1, <2>2, <3>2 DEF PrizeOf
            <4>3. db[r] \in Int
                BY <1>1, <1>5 DEF Valid, ValueOk, Absent
            <4>4. q = db[r] + 0
                BY <1>5, <3>1, <3>2, <4>1
            <4>. QED  BY <1>10, <2>2, <3>2, <4>2, <4>3, <4>4
        <3>3. CASE b # a
            <4>1. Laid(db, n)[AccountRow(b)] = Laid(db, m)[AccountRow(b)]
                BY <1>9, <1>10, <3>3 DEF But
            <4>2. PrizeOf(db, n, u, b) = PrizeOf(db, m, j, b)
                BY <1>2, <1>3, <1>4, <1>11, <3>3 DEF PrizeOf
            <4>. QED  BY <3>1, <4>1, <4>2
        <3>. QED  BY <3>2, <3>3
    <2>4. Closed(n, u)
        BY <1>4, <1>11, <1>12 DEF PaidUp, Closed
    <2>5. PositionRow(u.id, u.row) \notin DOMAIN n
        BY <1>3, <1>4, <1>11, <2>1
    <2>. QED  BY <1>11, <1>12, <2>3, <2>4, <2>5 DEF PaidUp
<1>13. spoiled = {} /\ MarksOf(w) = {} => Settling(db, n, u)
    BY <1>1, <1>3, <1>12 DEF Settling
<1>. QED  BY <1>8, <1>13, AlonePaid

(* What is deleted is what was read, or the transaction is marked. *)
LEMMA DroppedPaid ==
    ASSUME Types, OwnConnections, Ownership, Grounded, AddsUp, PaidFairly,
           NEW w \in Worker, DeletePosition(w)
    PROVE  PaidFairly'
<1> DEFINE j == job[w]
           m == Mine(w)
           r == PositionRow(j.id, j.row)
           why == StaleIf(Seen(w, r) # j.got, "position")
           u == [j EXCEPT !.at = "pick"]
           n == Put(m, r, 0)
<1>1. /\ JobOk(j) /\ IsJob(j) /\ Valid(db)
      /\ spoiled = {} /\ MarksOf(w) = {} => Settling(db, m, j) /\ Picked(j)
    BY WorkerFacts DEF PaidFairly, JobOk, Orderly
<1>2. /\ j.at = "delete" /\ j.at \in PaySteps
      /\ Updates(w, r, 0, why, u) \/ Lays(w, m, {"position"}, u)
    <2>1. work = [work EXCEPT ![site.conn[w]] = m]
        BY Connected DEF Types, Mine
    <2>. QED  BY <2>1 DEF DeletePosition, At, PaySteps, Lays, Becomes, Marked, requests
<1>3. j.kind = "pay" /\ j.id \in ContractType /\ j.row \in Account /\ j.half \in {FIXED, UNFIXED}
      /\ j.got \in Int
    BY <1>2, PayersFacts DEF PayerFacts
<1>4. u.at = "pick" /\ u.kind = "pay" /\ u.id = j.id /\ u.half = j.half
    BY <1>1, <1>3 DEF IsJob
<1>5. /\ r \in Row /\ r[1] = "position" /\ Seen(w, r) = Laid(db, m)[r]
      /\ \A c \in ContractType, b \in Account : PositionRow(c, b) = r => c = j.id /\ b = j.row
      /\ \A b \in Account : AccountRow(b) \in Row /\ AccountRow(b) # r
      /\ \A i \in OfferId : OfferOf(i) # r
    BY <1>3, RowFacts, SeenLaid
<1>6. Exist(r, Seen(w, r)) <=> Laid(db, m)[r] # 0
    BY <1>5 DEF Exist
<1>7. why = {} => Seen(w, r) = j.got
    BY DEF StaleIf
<1>8. /\ \A s : s \in DOMAIN n <=> s = r \/ s \in DOMAIN m
      /\ n[r] = 0 /\ \A s \in DOMAIN m : s # r => n[s] = m[s]
      /\ But(Laid(db, m), Laid(db, n), r)
    BY <1>5, LaidPut, PutDomain, PutRows
<1> HIDE DEF u, n, why, r
<1>9. ASSUME PaidUp(db, m, j), Laid(db, m)[r] = j.got PROVE PaidUp(db, n, u)
    <2>1. r \notin DOMAIN m /\ db[r] = j.got
        <3>1. r \notin DOMAIN m
            BY <1>2, <1>9 DEF PaidUp, r
        <3>. QED  BY <1>5, <1>9, <3>1 DEF Laid
    <2>2. Prize(j.got, j.half) \in Int
        BY <1>3, NoPrize
    <2>3. ASSUME NEW b \in Account PROVE PrizeOf(db, n, u, b) = PrizeOf(db, m, j, b)
        <3>1. CASE b = j.row
            <4>1. PositionRow(j.id, b) = r
                BY <3>1 DEF r
            <4>. QED  BY <1>2, <1>4, <1>8, <2>1, <2>2, <3>1, <4>1 DEF PrizeOf
        <3>2. CASE b # j.row
            <4>1. PositionRow(j.id, b) # r
                BY <1>3, <1>5, <3>2
            <4>. QED  BY <1>2, <1>4, <1>8, <3>2, <4>1 DEF PrizeOf
        <3>. QED  BY <3>1, <3>2
    <2>4. \A b \in Account : Laid(db, n)[AccountRow(b)] = Laid(db, m)[AccountRow(b)]
        BY <1>5, <1>8 DEF But
    <2>5. Closed(n, u)
        BY <1>4, <1>5, <1>8, <1>9 DEF PaidUp, Closed
    <2>6. \A i \in OfferId : OfferOf(i) \notin DOMAIN n
        BY <1>5, <1>8, <1>9 DEF PaidUp
    <2>. QED  BY <1>4, <1>9, <2>3, <2>4, <2>5, <2>6 DEF PaidUp
<1>10. CASE Lays(w, m, {"position"}, u)
    <2>1. Alone(w, m, u, MarksOf(w) \cup {"position"})
        BY <1>10 DEF Lays, Alone, MarksOf, requests
    <2>2. MarksOf(w) \cup {"position"} # {}
        OBVIOUS
    <2>. QED  BY <2>1, <2>2, AlonePaid
<1>11. CASE Updates(w, r, 0, why, u) /\ Exist(r, Seen(w, r))
    <2> DEFINE mk == MarksOf(w) \cup why
    <2>1. Alone(w, n, u, mk)
        <3>1. Writes(w, r, 0, why, u)
            BY <1>11 DEF Updates, Writes
        <3>. QED  BY <3>1, WritesAlone DEF n
    <2>2. mk = {} => MarksOf(w) = {} /\ why = {}
        OBVIOUS
    <2>3. spoiled = {} /\ mk = {} => Settling(db, n, u)
        BY <1>1, <1>3, <1>5, <1>7, <1>9, <2>2 DEF Settling
    <2> HIDE DEF mk
    <2>. QED  BY <2>1, <2>3, AlonePaid
<1>12. CASE Updates(w, r, 0, why, u) /\ ~ Exist(r, Seen(w, r))
    <2> DEFINE mk == MarksOf(w) \cup why
    <2>1. Alone(w, m, u, mk)
        <3>1. work = [work EXCEPT ![site.conn[w]] = work[site.conn[w]]]
            BY Connected DEF Types
        <3>. QED  BY <1>12, <3>1 DEF Updates, Marked, Becomes, Alone, Mine, MarksOf, requests
    <2>2. mk = {} => MarksOf(w) = {} /\ why = {}
        OBVIOUS
    <2>3. ~ (spoiled = {} /\ mk = {})
        BY <1>1, <1>2, <1>5, <1>6, <1>7, <1>12, <2>2 DEF Picked
    <2> HIDE DEF mk
    <2>. QED  BY <2>1, <2>3, AlonePaid
<1>. QED  BY <1>2, <1>10, <1>11, <1>12

(* Somebody else commits: the accounts and the positions that a resolution *)
(* has written nobody else has.                                            *)
LEMMA SettlingCommitted ==
    ASSUME NEW d, Valid(d), NEW m, NEW e, Merged(d, m, e), NEW n, RowsOk(n), Apart(m, n),
           Valid(e), NEW j, JobOk(j), Settling(d, n, j)
    PROVE  Settling(e, n, j)
<1>1. SUFFICES ASSUME j.kind = "pay" PROVE PaidUp(e, n, j)
    BY DEF Settling
<1>2. PaidUp(d, n, j)
    BY <1>1 DEF Settling
<1>3. j.id \in ContractType /\ j.got \in Int /\ j.half \in {FIXED, UNFIXED}
    BY <1>1, JobNumbers DEF JobOk, ValuesOk
<1>4. \A r \in Row : r \in DOMAIN n /\ r[1] \notin {"name", "id"} => e[r] = d[r]
    BY DEF Merged, Apart
<1>5. ASSUME NEW a \in Account
      PROVE  Laid(e, n)[AccountRow(a)] = e[AccountRow(a)] + PrizeOf(e, n, j, a)
    <2> DEFINE p == PositionRow(j.id, a)
               r == AccountRow(a)
    <2>1. /\ p \in Row /\ p[1] = "position" /\ r \in Row /\ r[1] = "account"
          /\ d[p] \in Int /\ d[r] \in Int /\ e[r] \in Int
        BY <1>3, RowFacts DEF Valid, ValueOk, Absent
    <2>2. p \in DOMAIN n => e[p] = d[p]
        BY <1>4, <2>1
    <2>3. PrizeOf(e, n, j, a) = PrizeOf(d, n, j, a)
        BY <2>2 DEF PrizeOf
    <2>4. Laid(d, n)[r] = d[r] + PrizeOf(d, n, j, a)
        BY <1>2 DEF PaidUp
    <2>5. CASE r \in DOMAIN n
        BY <1>4, <2>1, <2>3, <2>4, <2>5 DEF Laid
    <2>6. CASE r \notin DOMAIN n
        <3>1. PrizeOf(d, n, j, a) \in Int
            BY <1>3, <2>1, NoPrize DEF PrizeOf
        <3>2. d[r] = d[r] + PrizeOf(d, n, j, a)
            BY <2>1, <2>4, <2>6 DEF Laid
        <3>3. PrizeOf(d, n, j, a) = 0
            BY <2>1, <3>1, <3>2
        <3>. QED  BY <2>1, <2>3, <2>6, <3>3 DEF Laid
    <2>. QED  BY <2>5, <2>6
<1>. QED  BY <1>2, <1>5 DEF PaidUp

LEMMA CommitPaid ==
    ASSUME Types, OwnConnections, Ownership, Grounded, AddsUp, PaidFairly,
           NEW w \in Worker, Commit(w)
    PROVE  PaidFairly'
<1> DEFINE j == job[w]
           m == Mine(w)
           e == db'
           u == Committed(j)
<1>1. /\ Merged(db, m, e)
      /\ Mine(w)' = NoWork /\ job'[w] = u /\ MarksOf(w)' = {}
      /\ \A v \in Worker : v # w => /\ Mine(v)' = Mine(v) /\ job'[v] = job[v]
                                    /\ MarksOf(v)' = MarksOf(v)
      /\ spoiled' = spoiled \cup MarksOf(w)
      /\ JobOk(j) /\ j.at = "commit"
    BY CommitEffect
<1>2. u.kind = "pay" => u.at = "pick" /\ u.id \in ContractType
    <2>1. /\ JobOk(u)
          /\ j.kind = "resolve" => u.kind = "clear"
          /\ j.kind = "clear" => u.kind = "pay" /\ u.at = "pick"
          /\ j.kind = "pay" => u.kind = "final"
          /\ j.kind = "final" => u.kind = "last"
          /\ j.kind \notin {"resolve", "clear", "pay", "final"} => u = Idle
        BY ONLY <1>1, CommittedOk, Zenon
    <2>. QED  BY <2>1, IdleOk DEF JobOk, ValuesOk
<1>3. Valid(db) /\ RowsOk(m)
    BY WorkerFacts
<1>4. Valid(e)
    BY <1>1, <1>3, MergedValid
<1> HIDE DEF e, u
<1>5. ASSUME spoiled' = {}, NEW v \in Worker, MarksOf(v)' = {}
      PROVE  Settling(e, Mine(v)', job'[v])
    <2>1. spoiled = {} /\ MarksOf(w) = {}
        BY <1>1, <1>5
    <2>2. CASE v = w
        <3>1. ASSUME u.kind = "pay" PROVE PaidUp(e, NoWork, u)
            <4>1. DOMAIN NoWork = {} /\ u.at = "pick"
                BY <1>2, <3>1 DEF NoWork
            <4>2. \A a \in Account : /\ AccountRow(a) \in Row /\ e[AccountRow(a)] \in Int
                                     /\ PrizeOf(e, NoWork, u, a) = 0
                BY <1>4, <4>1, RowFacts DEF Valid, ValueOk, Absent, PrizeOf
            <4>. QED  BY <4>1, <4>2 DEF PaidUp, Closed, Laid
        <3>. QED  BY <1>1, <2>2, <3>1 DEF Settling
    <2>3. CASE v # w
        <3> DEFINE i == job[v]
                   n == Mine(v)
        <3>1. MarksOf(v) = {}
            BY <1>1, <1>5, <2>3
        <3>2. JobOk(i) /\ RowsOk(n) /\ Settling(db, n, i)
            BY <2>1, <3>1, WorkerFacts DEF PaidFairly
        <3>3. Apart(m, n)
            BY <2>3 DEF Ownership, Apart
        <3> HIDE DEF i, n
        <3>4. Settling(e, n, i)
            BY <1>1, <1>3, <1>4, <3>2, <3>3, SettlingCommitted
        <3>. QED  BY <1>1, <2>3, <3>4 DEF i, n
    <2>. QED  BY <2>2, <2>3
<1>. QED  BY <1>5 DEF PaidFairly, e

LEMMA OthersPaid ==
    ASSUME Types, OwnConnections, PaidFairly, Mature \/ Quiet \/ \E k \in Connection : Crash(k)
    PROVE  PaidFairly'
<1>1. UNCHANGED <<site, db, spoiled>>
    BY DEF Mature, Quiet, Crash, vars, connections, requests
<1>2. ASSUME NEW w \in Worker
      PROVE  \/ job'[w] = Idle
             \/ Mine(w)' = Mine(w) /\ job'[w] = job[w] /\ MarksOf(w)' = MarksOf(w)
    <2>1. CASE Mature
        BY <2>1 DEF Mature, Mine, MarksOf, connections, requests
    <2>2. CASE Quiet
        BY <2>2 DEF Quiet, vars, connections, requests, Mine, MarksOf
    <2>3. ASSUME NEW k \in Connection, Crash(k)
          PROVE  \/ job'[w] = Idle
                 \/ Mine(w)' = Mine(w) /\ job'[w] = job[w] /\ MarksOf(w)' = MarksOf(w)
        <3>1. /\ job' = [v \in Worker |-> IF site.conn[v] = k THEN Idle ELSE job[v]]
              /\ work' = [work EXCEPT ![k] = NoWork]
              /\ marks' = [marks EXCEPT ![k] = {}] /\ site' = site
            BY <2>3 DEF Crash
        <3>2. site.conn[w] \in Connection
            BY Connected
        <3>. QED  BY <3>1, <3>2 DEF Types, Mine, MarksOf
    <2>. QED  BY <2>1, <2>2, <2>3
<1>3. ASSUME spoiled = {}, NEW w \in Worker, MarksOf(w)' = {}
      PROVE  Settling(db, Mine(w)', job'[w])
    <2>1. Settling(db, Mine(w)', Idle)
        BY IdleOk DEF Settling
    <2>. QED  BY <1>2, <1>3, <2>1 DEF PaidFairly
<1>. QED  BY <1>1, <1>3 DEF PaidFairly

LEMMA SettledNext == Types /\ Kept /\ Reckoned /\ SettledSoFar /\ [Next]_vars => SettledSoFar'
<1> SUFFICES ASSUME Types, Kept, Reckoned, SettledSoFar, [Next]_vars PROVE SettledSoFar'
    OBVIOUS
<1>1. site' = site
    <2>1. ASSUME NEW w \in Worker, Asks(w) \/ Page(w) \/ Step(w) \/ DeadlockDetected(w)
          PROVE  site' = site
        <3>1. Commit(w) => site' = site
            BY DEF Commit, requests
        <3>. QED  BY <2>1, <3>1, OnlyCommits DEF Step
    <2>2. (Mature \/ Quiet \/ \E k \in Connection : Crash(k)) => site' = site
        BY DEF Mature, Quiet, Crash, vars, connections, requests
    <2>3. UNCHANGED vars => site' = site
        BY DEF vars, connections, requests
    <2>. QED  BY <2>1, <2>2, <2>3 DEF Next
<1>2. SUFFICES ASSUME OwnConnections PROVE PaidFairly'
    BY <1>1 DEF SettledSoFar, OwnConnections
<1>3. Ownership /\ Grounded /\ AddsUp /\ PaidFairly
    BY <1>2 DEF Kept, Reckoned, SettledSoFar
<1>4. ASSUME NEW w \in Worker, Asks(w) \/ Page(w) \/ Step(w) \/ DeadlockDetected(w)
      PROVE  PaidFairly'
    <2>1. CASE Asks(w) \/ Page(w)
        BY <1>2, <1>3, <2>1, AskingIdles, IdlesPaid
    <2>2. CASE Matching(w) \/ Sweeping(w) \/ Contracting(w) \/ LoggingIn(w)
        BY <1>2, <1>3, <2>2, MatchingIdles, SweepingIdles, ContractingIdles, LoggingInIdles,
           IdlesPaid
    <2>3. CASE Paying(w)
        BY <1>2, <1>3, <2>3, PickPaid, WinnerPaid, DroppedPaid DEF Paying
    <2>4. CASE Commit(w)
        BY <1>2, <1>3, <2>4, CommitPaid
    <2>5. CASE DeadlockDetected(w)
        <3>1. StatementFails(w)
            BY <2>5 DEF DeadlockDetected
        <3>. QED  BY <1>2, <1>3, <3>1, FailsIdles, IdlesPaid
    <2>. QED  BY <1>3, <1>4, <2>1, <2>2, <2>3, <2>4, <2>5, NoneAborted DEF Step
<1>5. CASE Mature \/ Quiet \/ \E k \in Connection : Crash(k)
    BY <1>2, <1>3, <1>5, OthersPaid
<1>6. CASE UNCHANGED vars
    BY <1>3, <1>6 DEF PaidFairly, vars, connections, requests, Mine, MarksOf
<1>. QED  BY <1>4, <1>5, <1>6 DEF Next

(* At every statement of a resolution, it has paid the holders of the      *)
(* positions that it has deleted for what the committed tables say is in   *)
(* them, and that of the one it is about to delete for what it read there, *)
(* and has touched no other row, whatever orders and other resolutions     *)
(* commit in between, as long as nothing stale was deleted.                *)
THEOREM SettlingInvariant == Spec => []SettledSoFar
<1>1. Init => SettledSoFar
    <2>1. Init => \A w \in Worker : job[w] = Idle
        BY DEF Init
    <2>. QED  BY <2>1, IdleOk DEF SettledSoFar, PaidFairly, Settling
<1>. QED  BY <1>1, SettledNext, TypesInvariant, KeptInvariant, ReckonedInvariant, PTL DEF Spec

(* At its commit each position is closed and paid for or left alone, and   *)
(* what is closed adds up to zero.                                         *)
LEMMA CommitSettles ==
    ASSUME Types, OwnConnections, Grounded, AddsUp, PaidFairly, NEW w \in Worker,
           job[w].kind = "pay", Commit(w), spoiled' = {}
    PROVE  Settled(db, db', job[w].id, job[w].half)
<1> DEFINE j == job[w]
           m == Mine(w)
           e == db'
           P(c, a) == PositionRow(c, a)
<1>1. /\ JobOk(j) /\ j.at = "commit" /\ spoiled' = spoiled \cup MarksOf(w)
      /\ \A r \in Row : e[r] = Laid(db, m)[r]
      /\ Valid(db) /\ site.grant \in Nat
    BY CommitEffect, WorkerFacts, MergedValid
<1>2. /\ Orderly(db, m, j, site.grant) /\ PaidUp(db, m, j)
      /\ j.id \in ContractType /\ j.half \in {FIXED, UNFIXED}
    <2>1. spoiled = {} /\ MarksOf(w) = {}
        BY <1>1
    <2>. QED  BY <1>1, <2>1, WorkerFacts, JobNumbers DEF PaidFairly, Settling, JobOk, ValuesOk
<1>3. j.left = 0 /\ NetOf(Laid(db, m), j.id) = NetOf(db, j.id) + Unpaired(j, j.id)
    BY <1>1, <1>2 DEF Orderly, Picked, Balanced
<1>4. NetOf(Laid(db, m), j.id) = NetOf(db, j.id)
    <2>1. Unpaired(j, j.id) = - Summed(j)
        BY <1>1, PayerOwes
    <2>2. Summed(j) = 0
        BY <1>1, <1>3 DEF Summed
    <2>3. NetOf(db, j.id) \in Int
        BY <1>1, <1>2, TotalInt
    <2>. QED  BY <1>3, <2>1, <2>2, <2>3
<1>5. /\ \A i \in OfferId : OfferOf(i) \in Row
      /\ \A a \in Account : AccountRow(a) \in Row /\ db[AccountRow(a)] \in Int
      /\ \A c \in ContractType, a \in Account : P(c, a) \in Row
    BY <1>1, RowFacts DEF Valid, ValueOk, Absent
<1>6. NetOf(e, j.id) = NetOf(Laid(db, m), j.id)
    <2>1. \A a \in Account : e[PositionRow(j.id, a)] = Laid(db, m)[PositionRow(j.id, a)]
        BY <1>1, <1>2, <1>5
    <2> HIDE DEF e
    <2>2. [a \in Account |-> e[PositionRow(j.id, a)]]
            = [a \in Account |-> Laid(db, m)[PositionRow(j.id, a)]]
        BY <2>1, Zenon
    <2>. QED  BY <2>2 DEF NetOf
<1> HIDE DEF e, P
<1>7. \A i \in OfferId : e[OfferOf(i)] = db[OfferOf(i)]
    BY <1>1, <1>2, <1>5 DEF PaidUp, Laid
<1>8. ASSUME NEW a \in Account
      PROVE  Paid(db, e, j.id, a, j.half) \/ LeftAlone(db, e, j.id, a)
    <2>1. e[AccountRow(a)] = db[AccountRow(a)] + PrizeOf(db, m, j, a)
        BY <1>1, <1>2, <1>5 DEF PaidUp
    <2>2. CASE P(j.id, a) \in DOMAIN m
        <3>1. e[P(j.id, a)] = 0
            BY <1>1, <1>2, <1>5, <2>2 DEF PaidUp, Closed, Laid, P
        <3>2. PrizeOf(db, m, j, a) = Prize(db[P(j.id, a)], j.half)
            <4>1. Prize(db[P(j.id, a)], j.half) \in Int
                BY <1>1, <1>2, <1>5, NoPrize DEF Valid, ValueOk
            <4>. QED  BY <1>1, <2>2, <4>1 DEF PrizeOf, P
        <3>. QED  BY <2>1, <3>1, <3>2 DEF Paid, P
    <2>3. CASE P(j.id, a) \notin DOMAIN m
        <3>1. e[P(j.id, a)] = db[P(j.id, a)]
            BY <1>1, <1>2, <1>5, <2>3 DEF Laid
        <3>2. PrizeOf(db, m, j, a) = 0
            BY <1>1, <2>3 DEF PrizeOf, P
        <3>. QED  BY <1>5, <2>1, <3>1, <3>2 DEF LeftAlone, P
    <2>. QED  BY <2>2, <2>3
<1>9. ASSUME NEW c \in ContractType \ {j.id}, NEW a \in Account
      PROVE  e[P(c, a)] = db[P(c, a)]
    <2>1. P(c, a) \notin DOMAIN m
        BY <1>2 DEF PaidUp, Closed, P
    <2>. QED  BY <1>1, <1>5, <2>1 DEF Laid
<1>. QED  BY <1>4, <1>6, <1>7, <1>8, <1>9 DEF Settled, NetOf, e, P

(* However many resolutions of one contract type there are, and whoever    *)
(* logs in, orders or reads a page meanwhile, also at the same positions:  *)
(* each one that is committed pays every holder it closes out once and for *)
(* the units that were in the table, closes as many FIXED units as UNFIXED *)
(* ones and changes nothing else, unless something stale or half done has  *)
(* been committed.                                                         *)
THEOREM ResolutionPaysOnce == Spec => PaysOnce
<1> DEFINE Once == \A w \in Worker :
              /\ OwnConnections /\ spoiled' = {}
              /\ job[w].kind = "pay"
              /\ Commit(w)
              => Settled(db, db', job[w].id, job[w].half)
<1>1. Types /\ Reckoned /\ SettledSoFar => Once
    BY CommitSettles DEF Reckoned, SettledSoFar
<1>2. Types /\ Reckoned /\ SettledSoFar /\ [Next]_vars => [Once]_db
    BY <1>1
<1>3. [][Once]_db => PaysOnce
    BY PTL DEF PaysOnce
<1> HIDE DEF Once
<1>. QED  BY <1>2, <1>3, TypesInvariant, ReckonedInvariant, SettlingInvariant, PTL DEF Spec
====
