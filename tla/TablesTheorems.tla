---- MODULE TablesTheorems ----
(***************************************************************************)
(* What the operators of Tables preserve: one theorem per operator that    *)
(* changes a table, on the type of the tables, on the tokens in them and   *)
(* on the balance of FIXED and UNFIXED positions.                          *)
(***************************************************************************)
EXTENDS Deals, SumsTheorems

(* The tables inside a transaction, before the CHECK on balances. *)
Books == [balance  : [Account -> Int],
          offer    : [OfferId -> OfferRow],
          position : [ContractType -> [Account -> Holding]],
          told     : Tally,
          fees     : Nat]

(* Tokens of t when the contracts of type c count as the units that side   *)
(* winner[c] holds.                                                        *)
AllFixed == [c \in ContractType |-> FIXED]
StakesAs(t, winner) ==
    SumTo([c \in ContractType |-> Unit * Held(t, c, winner[c])], NumTypes)
TotalAs(t, winner) == Balances(t) + Escrows(t) + StakesAs(t, winner) + t.fees

(* The units of a quantity q that count for a side. *)
Part(q, side) == AtLeastZero(IF side = FIXED THEN q ELSE -q)

(* The index sets are the intervals that sums run over. *)
LEMMA Sizes ==
    /\ NumAccounts \in Nat /\ NumTypes \in Nat /\ MaxOrders \in Nat
    /\ Account = 1..NumAccounts /\ ContractType = 1..NumTypes /\ OfferId = 1..MaxOrders
    /\ Account \subseteq Nat /\ ContractType \subseteq Nat /\ OfferId \subseteq Nat
  BY TablesAssumption DEF Account, ContractType, OfferId

(***************************************************************************)
(* Numbers.                                                                *)
(***************************************************************************)
(* The units of a position that count for one side. *)
LEMMA PartType ==
    ASSUME NEW q \in Int, NEW side
    PROVE  Part(q, side) \in Nat
  BY DEF Part, AtLeastZero

(* No units count for neither side. *)
LEMMA PartOfNone ==
    ASSUME NEW q \in Int, NEW side, q <= 0, 0 <= q
    PROVE  Part(q, side) = 0
  BY DEF Part, AtLeastZero

(* A trade covers a number of units that is never negative. *)
LEMMA CoveredType ==
    ASSUME NEW q \in Int, NEW n \in Int
    PROVE  Covered(q, n) \in Nat
  BY DEF Covered, Abs

(* The units a trade opens are those that do not offset a position. *)
LEMMA CoveredCounts ==
    ASSUME NEW q \in Int, NEW n \in Nat
    PROVE  /\ Part(q + n, FIXED) = Part(q, FIXED) + n - Covered(q, n)
           /\ Part(q + (-n), FIXED) = Part(q, FIXED) - Covered(q, -n)
  BY DEF Part, AtLeastZero, Covered, Abs, FIXED

(* The two sides of a unit pay 1000 between them. *)
LEMMA CostSplits ==
    ASSUME NEW price \in Price, NEW n \in Nat
    PROVE  /\ price * n \in Nat /\ (Unit - price) * n \in Nat
           /\ price * n + (Unit - price) * n = Unit * n
<1>1. price \in Nat /\ Unit - price \in Nat
  BY DEF Price, Unit
<1>2. (Unit - price) * n = Unit * n - price * n
  BY <1>1 DEF Unit
<1>3. price * n \in Nat /\ (Unit - price) * n \in Nat
  BY <1>1, SMT
<1> QED BY <1>2, <1>3 DEF Unit

(* Escrow is given back in proportion to the units taken off an offer. *)
LEMMA CostAdds ==
    ASSUME NEW side, NEW price \in Price, NEW m \in Nat, NEW n \in Nat, n <= m
    PROVE  /\ Cost(side, price, n) \in Nat /\ Cost(side, price, m) \in Nat
           /\ Cost(side, price, m - n) = Cost(side, price, m) - Cost(side, price, n)
           /\ Cost(side, price, 0) = 0
<1>1. price \in Nat /\ Unit - price \in Nat /\ m - n \in Nat
  BY DEF Price, Unit
<1>2. price * (m - n) = price * m - price * n
  BY <1>1
<1>3. \A k \in Nat : k * (m - n) = k * m - k * n
  BY <1>1
<1>4. (Unit - price) * (m - n) = (Unit - price) * m - (Unit - price) * n
  BY <1>1, <1>3
<1>5. price * n \in Nat /\ price * m \in Nat
      /\ (Unit - price) * n \in Nat /\ (Unit - price) * m \in Nat
  BY CostSplits
<1>6. price * 0 = 0 /\ (Unit - price) * 0 = 0
  BY <1>1
<1> QED BY <1>2, <1>4, <1>5, <1>6 DEF Cost

(***************************************************************************)
(* Changes to one account.                                                 *)
(***************************************************************************)
(* A credit adds its amount to one balance and touches no other. *)
LEMMA CreditEffect ==
    ASSUME NEW t \in Books, NEW a \in Account, NEW amount \in Int
    PROVE  /\ Credit(t, a, amount) \in Books
           /\ Credit(t, a, amount).balance = [t.balance EXCEPT ![a] = t.balance[a] + amount]
           /\ Credit(t, a, amount).offer = t.offer
           /\ Credit(t, a, amount).position = t.position
           /\ Credit(t, a, amount).told = t.told
           /\ Credit(t, a, amount).fees = t.fees
           /\ Balances(Credit(t, a, amount)) = Balances(t) + amount
<1>1. /\ Credit(t, a, amount) \in Books
      /\ Credit(t, a, amount).balance = [t.balance EXCEPT ![a] = t.balance[a] + amount]
      /\ Credit(t, a, amount).offer = t.offer
      /\ Credit(t, a, amount).position = t.position
      /\ Credit(t, a, amount).told = t.told
      /\ Credit(t, a, amount).fees = t.fees
  BY DEF Credit, Books
<1> DEFINE g == [t.balance EXCEPT ![a] = t.balance[a] + amount]
<1>2. /\ \A k \in 1..NumAccounts : t.balance[k] \in Int /\ g[k] \in Int
      /\ \A k \in 1..NumAccounts : k # a => g[k] = t.balance[k]
      /\ g[a] = t.balance[a] + amount /\ t.balance[a] \in Int
      /\ a \in 1..NumAccounts
  BY Sizes DEF Books
<1> HIDE DEF g
<1>3. SumTo(g, NumAccounts) = SumTo(t.balance, NumAccounts) + (g[a] - t.balance[a])
  BY <1>2, SumToChange, Sizes
<1>4. Balances(Credit(t, a, amount)) = SumTo(g, NumAccounts)
  BY <1>1 DEF Balances, g
<1>5. SumTo(t.balance, NumAccounts) \in Int
  BY <1>2, SumToInt, Sizes
<1> QED BY <1>1, <1>2, <1>3, <1>4, <1>5 DEF Balances

(* A debit takes its amount from one balance and touches no other. *)
LEMMA DebitEffect ==
    ASSUME NEW t \in Books, NEW a \in Account, NEW amount \in Int
    PROVE  /\ Debit(t, a, amount) \in Books
           /\ Debit(t, a, amount).offer = t.offer
           /\ Debit(t, a, amount).position = t.position
           /\ Debit(t, a, amount).told = t.told
           /\ Debit(t, a, amount).fees = t.fees
           /\ Balances(Debit(t, a, amount)) = Balances(t) - amount
           /\ Balances(t) \in Int
           /\ \A b \in Account : b # a => Debit(t, a, amount).balance[b] = t.balance[b]
<1>1. Debit(t, a, amount) = Credit(t, a, -amount)
  BY DEF Debit, Credit, Books
<1>2. Balances(t) \in Int
  BY SumToInt, Sizes DEF Balances, Books
<1>3. -amount \in Int
  OBVIOUS
<1>4. t.balance \in [Account -> Int]
  BY DEF Books
<1> DEFINE u == Credit(t, a, -amount)
<1>5. /\ u \in Books
      /\ u.balance = [t.balance EXCEPT ![a] = t.balance[a] + (-amount)]
      /\ u.offer = t.offer /\ u.position = t.position
      /\ u.told = t.told /\ u.fees = t.fees
      /\ Balances(u) = Balances(t) + (-amount)
  BY <1>3, CreditEffect
<1> HIDE DEF u
<1>6. \A b \in Account : b # a => u.balance[b] = t.balance[b]
  BY <1>4, <1>5
<1>7. Balances(u) = Balances(t) - amount
  BY <1>2, <1>5
<1>8. Debit(t, a, amount) = u
  BY <1>1 DEF u
<1> QED BY <1>2, <1>5, <1>6, <1>7, <1>8

(***************************************************************************)
(* Changes to one offer.                                                   *)
(***************************************************************************)
(* What an offer sets aside is never negative. *)
LEMMA EscrowType ==
    ASSUME NEW o \in OfferRow
    PROVE  Escrow(o) \in Nat
<1>1. o.price \in Price /\ o.quantity \in Nat
  BY DEF OfferRow
<1>2. o.quantity <= o.quantity
  BY <1>1
<1>3. Cost(o.side, o.price, o.quantity) \in Nat
  BY <1>1, <1>2, CostAdds
<1> QED BY <1>3 DEF Escrow

(* An empty slot is a row without escrow. *)
LEMMA NoOfferRow == NoOffer \in OfferRow /\ Escrow(NoOffer) = 0
<1>1. 1 \in Account /\ 1 \in ContractType
  BY TablesAssumption DEF Account, ContractType
<1>2. NoOffer \in OfferRow
  BY <1>1 DEF NoOffer, OfferRow, Side, Price, Unit, FIXED, Never
<1> QED BY <1>2 DEF NoOffer, Escrow, Cost, FIXED

(* Replacing one offer changes the escrow by the difference of the two. *)
LEMMA OfferEffect ==
    ASSUME NEW t \in Books, NEW i \in OfferId, NEW o \in OfferRow
    PROVE  LET u == [t EXCEPT !.offer[i] = o]
           IN  /\ u \in Books
               /\ u.offer = [t.offer EXCEPT ![i] = o]
               /\ u.balance = t.balance /\ u.position = t.position
               /\ u.told = t.told /\ u.fees = t.fees
               /\ Escrows(u) = Escrows(t) + (Escrow(o) - Escrow(t.offer[i]))
               /\ Escrows(t) \in Int
<1> DEFINE u == [t EXCEPT !.offer[i] = o]
           f == [k \in OfferId |-> Escrow(t.offer[k])]
           g == [k \in OfferId |-> Escrow(u.offer[k])]
<1>1. /\ u \in Books /\ u.offer = [t.offer EXCEPT ![i] = o]
      /\ u.balance = t.balance /\ u.position = t.position
      /\ u.told = t.told /\ u.fees = t.fees
  BY DEF Books
<1>2. /\ t.offer \in [OfferId -> OfferRow] /\ u.offer \in [OfferId -> OfferRow]
      /\ u.offer[i] = o
      /\ \A k \in OfferId : k # i => u.offer[k] = t.offer[k]
  BY <1>1 DEF Books
<1> HIDE DEF u
<1>3. \A k \in OfferId : f[k] \in Int /\ g[k] \in Int
  BY <1>2, EscrowType
<1>4. \A k \in OfferId : k # i => g[k] = f[k]
  BY <1>2
<1>5. f[i] = Escrow(t.offer[i]) /\ g[i] = Escrow(o)
  BY <1>2
<1>6. Escrows(t) = SumTo(f, MaxOrders) /\ Escrows(u) = SumTo(g, MaxOrders)
  BY DEF Escrows
<1> HIDE DEF f, g
<1>7. SumTo(g, MaxOrders) = SumTo(f, MaxOrders) + (g[i] - f[i])
  BY <1>3, <1>4, Sizes, SumToChange
<1>8. SumTo(f, MaxOrders) \in Int
  BY <1>3, Sizes, SumToInt
<1> QED BY <1>1, <1>5, <1>6, <1>7, <1>8 DEF u

(* The escrow of all offers is a number. *)
LEMMA EscrowsType ==
    ASSUME NEW t \in Books
    PROVE  Escrows(t) \in Int
<1> DEFINE f == [k \in OfferId |-> Escrow(t.offer[k])]
<1>1. \A k \in 1..MaxOrders : f[k] \in Int
  BY EscrowType, Sizes DEF Books
<1> HIDE DEF f
<1>2. SumTo(f, MaxOrders) \in Int
  BY <1>1, Sizes, SumToInt
<1> QED BY <1>2 DEF f, Escrows

(***************************************************************************)
(* Changes to one position.                                                *)
(***************************************************************************)
(* Units of a contract type are whole numbers. *)
LEMMA HeldTypes ==
    ASSUME NEW t \in Books, NEW c \in ContractType
    PROVE  /\ Net(t, c) \in Int
           /\ \A side : Held(t, c, side) \in Int
<1>1. \A a \in Account : t.position[c][a].quantity \in Int
  BY DEF Books, Holding
<1>2. Net(t, c) \in Int
  <2> DEFINE f == [a \in Account |-> t.position[c][a].quantity]
  <2>1. \A k \in 1..NumAccounts : f[k] \in Int
    BY <1>1, Sizes
  <2> HIDE DEF f
  <2>2. SumTo(f, NumAccounts) \in Int
    BY <2>1, Sizes, SumToInt
  <2> QED BY <2>2 DEF f, Net
<1>3. ASSUME NEW side PROVE Held(t, c, side) \in Int
  <2> DEFINE f == [a \in Account |-> Part(t.position[c][a].quantity, side)]
  <2>1. \A k \in 1..NumAccounts : f[k] \in Int
    BY <1>1, PartType, Sizes
  <2>2. Held(t, c, side) = SumTo(f, NumAccounts)
    BY DEF Held, Part
  <2> HIDE DEF f
  <2>3. SumTo(f, NumAccounts) \in Int
    BY <2>1, Sizes, SumToInt
  <2> QED BY <2>2, <2>3
<1> QED BY <1>2, <1>3

(* What is held on one side is held against the other. *)
LEMMA NetIsDifference ==
    ASSUME NEW t \in Books, NEW c \in ContractType
    PROVE  Net(t, c) = Held(t, c, FIXED) - Held(t, c, UNFIXED)
<1> DEFINE h == [a \in Account |-> t.position[c][a].quantity]
           f == [a \in Account |-> Part(t.position[c][a].quantity, FIXED)]
           g == [a \in Account |-> Part(t.position[c][a].quantity, UNFIXED)]
<1>1. \A a \in Account : t.position[c][a].quantity \in Int
  BY DEF Books, Holding
<1>2. \A q \in Int : q = Part(q, FIXED) - Part(q, UNFIXED)
  BY DEF Part, AtLeastZero, FIXED, UNFIXED
<1>3. \A k \in 1..NumAccounts : f[k] \in Int /\ g[k] \in Int /\ h[k] = f[k] - g[k]
  <2> TAKE k \in 1..NumAccounts
  <2>1. k \in Account
    BY Sizes
  <2> DEFINE q == t.position[c][k].quantity
  <2>2. h[k] = q /\ f[k] = Part(q, FIXED) /\ g[k] = Part(q, UNFIXED)
    BY <2>1
  <2>3. q \in Int
    BY <1>1, <2>1
  <2> HIDE DEF q, f, g, h
  <2>4. Part(q, FIXED) \in Int /\ Part(q, UNFIXED) \in Int
    BY <2>3, PartType
  <2> QED BY <1>2, <2>2, <2>3, <2>4
<1>4. /\ Net(t, c) = SumTo(h, NumAccounts)
      /\ Held(t, c, FIXED) = SumTo(f, NumAccounts)
      /\ Held(t, c, UNFIXED) = SumTo(g, NumAccounts)
  BY DEF Net, Held, Part
<1> HIDE DEF f, g, h
<1>5. SumTo(h, NumAccounts) = SumTo(f, NumAccounts) - SumTo(g, NumAccounts)
  BY <1>3, Sizes, SumToDifference
<1> QED BY <1>4, <1>5

(* u is t with another position for account a on contract type c. *)
Moved(t, u, c, a) ==
    /\ \A b \in Account : b # a => u.position[c][b] = t.position[c][b]
    /\ \A d \in ContractType : d # c => u.position[d] = t.position[d]

(* One changed position changes the sums of its contract type alone. *)
LEMMA MovedEffect ==
    ASSUME NEW t \in Books, NEW u \in Books, NEW c \in ContractType, NEW a \in Account,
           Moved(t, u, c, a)
    PROVE  LET p == t.position[c][a].quantity
               q == u.position[c][a].quantity
           IN  /\ Net(u, c) = Net(t, c) + (q - p)
               /\ \A side : Held(u, c, side) =
                               Held(t, c, side) + (Part(q, side) - Part(p, side))
               /\ \A d \in ContractType \ {c} :
                     /\ Net(u, d) = Net(t, d)
                     /\ \A side : Held(u, d, side) = Held(t, d, side)
<1> DEFINE p == t.position[c][a].quantity
           q == u.position[c][a].quantity
<1>1. \A b \in Account : /\ t.position[c][b].quantity \in Int
                        /\ u.position[c][b].quantity \in Int
  BY DEF Books, Holding
<1>2. Net(u, c) = Net(t, c) + (q - p)
  <2> DEFINE f == [b \in Account |-> t.position[c][b].quantity]
             g == [b \in Account |-> u.position[c][b].quantity]
  <2>1. /\ \A k \in 1..NumAccounts : f[k] \in Int /\ g[k] \in Int
        /\ \A k \in 1..NumAccounts : k # a => g[k] = f[k]
        /\ a \in 1..NumAccounts /\ g[a] = q /\ f[a] = p
    BY <1>1, Sizes DEF Moved
  <2>2. Net(t, c) = SumTo(f, NumAccounts) /\ Net(u, c) = SumTo(g, NumAccounts)
    BY DEF Net
  <2> HIDE DEF f, g
  <2>3. SumTo(g, NumAccounts) = SumTo(f, NumAccounts) + (g[a] - f[a])
    BY <2>1, Sizes, SumToChange
  <2> QED BY <2>1, <2>2, <2>3
<1>3. ASSUME NEW side
      PROVE  Held(u, c, side) = Held(t, c, side) + (Part(q, side) - Part(p, side))
  <2> DEFINE f == [b \in Account |-> Part(t.position[c][b].quantity, side)]
             g == [b \in Account |-> Part(u.position[c][b].quantity, side)]
  <2>1. /\ \A k \in 1..NumAccounts : f[k] \in Int /\ g[k] \in Int
        /\ \A k \in 1..NumAccounts : k # a => g[k] = f[k]
        /\ a \in 1..NumAccounts /\ g[a] = Part(q, side) /\ f[a] = Part(p, side)
    BY <1>1, PartType, Sizes DEF Moved
  <2>2. Held(t, c, side) = SumTo(f, NumAccounts) /\ Held(u, c, side) = SumTo(g, NumAccounts)
    BY DEF Held, Part
  <2> HIDE DEF f, g
  <2>3. SumTo(g, NumAccounts) = SumTo(f, NumAccounts) + (g[a] - f[a])
    BY <2>1, Sizes, SumToChange
  <2> QED BY <2>1, <2>2, <2>3
<1>4. ASSUME NEW d \in ContractType \ {c}
      PROVE  /\ Net(u, d) = Net(t, d)
             /\ \A side : Held(u, d, side) = Held(t, d, side)
  BY DEF Moved, Net, Held
<1> QED BY <1>2, <1>3, <1>4

(* One changed position changes the stakes by what it counts for. *)
LEMMA StakesEffect ==
    ASSUME NEW t \in Books, NEW u \in Books, NEW c \in ContractType, NEW a \in Account,
           Moved(t, u, c, a), NEW winner \in [ContractType -> Side]
    PROVE  /\ StakesAs(u, winner) = StakesAs(t, winner)
                 + Unit * (Part(u.position[c][a].quantity, winner[c])
                             - Part(t.position[c][a].quantity, winner[c]))
           /\ StakesAs(t, winner) \in Int
<1> DEFINE f == [d \in ContractType |-> Unit * Held(t, d, winner[d])]
           g == [d \in ContractType |-> Unit * Held(u, d, winner[d])]
           p == Part(t.position[c][a].quantity, winner[c])
           q == Part(u.position[c][a].quantity, winner[c])
<1>1. \A d \in ContractType :
        /\ Held(t, d, winner[d]) \in Int
        /\ Held(u, d, winner[d]) \in Int
        /\ d # c => Held(u, d, winner[d]) = Held(t, d, winner[d])
  BY HeldTypes, MovedEffect
<1>2. Held(u, c, winner[c]) = Held(t, c, winner[c]) + (q - p)
  BY MovedEffect
<1>3. t.position[c][a].quantity \in Int /\ u.position[c][a].quantity \in Int
  BY DEF Books, Holding
<1>4. p \in Int /\ q \in Int
  BY <1>3, PartType
<1>5. /\ \A d \in 1..NumTypes : f[d] \in Int /\ g[d] \in Int
      /\ \A d \in 1..NumTypes : d # c => g[d] = f[d]
      /\ c \in 1..NumTypes
  BY <1>1, Sizes DEF Unit
<1>6. f[c] = Unit * Held(t, c, winner[c]) /\ g[c] = Unit * Held(u, c, winner[c])
  OBVIOUS
<1>7. StakesAs(t, winner) = SumTo(f, NumTypes) /\ StakesAs(u, winner) = SumTo(g, NumTypes)
  BY DEF StakesAs
<1> HIDE DEF f, g, p, q
<1>8. g[c] - f[c] = Unit * (q - p)
  BY <1>1, <1>2, <1>4, <1>6 DEF Unit
<1>9. SumTo(g, NumTypes) = SumTo(f, NumTypes) + (g[c] - f[c])
  BY <1>5, Sizes, SumToChange
<1>10. SumTo(f, NumTypes) \in Int
  BY <1>5, Sizes, SumToInt
<1> QED BY <1>7, <1>8, <1>9, <1>10 DEF p, q

(* Where the positions are the same, so are the sums over them. *)
LEMMA SamePositions ==
    ASSUME NEW t, NEW u, u.position = t.position
    PROVE  /\ \A c : Net(u, c) = Net(t, c)
           /\ \A c, side : Held(u, c, side) = Held(t, c, side)
           /\ \A winner : StakesAs(u, winner) = StakesAs(t, winner)
  BY DEF Net, Held, StakesAs

(***************************************************************************)
(* offer.py                                                                *)
(***************************************************************************)
(* reduce_offer: the tokens leave the escrow and reach the owner. *)
THEOREM ReduceOfferEffect ==
    ASSUME NEW t \in Books, NEW i \in OfferId, NEW n \in Nat,
           n <= t.offer[i].quantity, NEW winner \in [ContractType -> Side]
    PROVE  LET u == ReduceOffer(t, i, n)
           IN  /\ u \in Books
               /\ u.position = t.position /\ u.told = t.told /\ u.fees = t.fees
               /\ \A k \in OfferId : k # i => u.offer[k] = t.offer[k]
               /\ u.offer[i].quantity = t.offer[i].quantity - n
               /\ Balances(u) + Escrows(u) = Balances(t) + Escrows(t)
               /\ t.balance \in [Account -> Nat] => u.balance \in [Account -> Nat]
<1> DEFINE o == t.offer[i]
           paid == Cost(o.side, o.price, n)
           v == Credit(t, o.account, paid)
           rest == IF n = o.quantity THEN NoOffer ELSE [o EXCEPT !.quantity = o.quantity - n]
           u == [v EXCEPT !.offer[i] = rest]
<1>1. o \in OfferRow /\ o.account \in Account /\ o.price \in Price /\ o.quantity \in Nat
  BY DEF Books, OfferRow
<1>2. /\ paid \in Nat
      /\ Cost(o.side, o.price, o.quantity - n) = Escrow(o) - paid
      /\ Escrow(o) \in Nat
  BY <1>1, CostAdds DEF Escrow
<1> HIDE DEF paid
<1>3. /\ v \in Books
      /\ v.balance = [t.balance EXCEPT ![o.account] = t.balance[o.account] + paid]
      /\ v.offer = t.offer /\ v.position = t.position
      /\ v.told = t.told /\ v.fees = t.fees
      /\ Balances(v) = Balances(t) + paid
  BY <1>1, <1>2, CreditEffect
<1> HIDE DEF v
<1>4. rest \in OfferRow /\ rest.quantity = o.quantity - n /\ Escrow(rest) = Escrow(o) - paid
  <2>1. CASE n = o.quantity
    <3>1. rest = NoOffer /\ o.quantity - n = 0
      BY <1>1, <2>1
    <3>2. Cost(o.side, o.price, 0) = 0
      BY <1>1, CostAdds
    <3>3. Escrow(o) - paid = 0
      BY <1>2, <3>1, <3>2
    <3> HIDE DEF rest
    <3> QED BY <3>1, <3>3, NoOfferRow DEF NoOffer
  <2>2. CASE n # o.quantity
    <3>1. rest = [o EXCEPT !.quantity = o.quantity - n] /\ o.quantity - n \in Nat
      BY <1>1, <2>2
    <3>2. rest \in OfferRow /\ rest.quantity = o.quantity - n
          /\ rest.side = o.side /\ rest.price = o.price
      BY <1>1, <3>1 DEF OfferRow
    <3> HIDE DEF rest
    <3> QED BY <1>2, <3>2 DEF Escrow
  <2> QED BY <2>1, <2>2
<1> HIDE DEF rest
<1>5. /\ u \in Books
      /\ u.offer = [v.offer EXCEPT ![i] = rest]
      /\ u.balance = v.balance /\ u.position = v.position
      /\ u.told = v.told /\ u.fees = v.fees
      /\ Escrows(u) = Escrows(v) + (Escrow(rest) - Escrow(v.offer[i]))
      /\ Escrows(v) \in Int
  BY <1>3, <1>4, OfferEffect
<1>6. ReduceOffer(t, i, n) = u
  BY DEF ReduceOffer, v, rest, paid
<1> HIDE DEF u
<1>7. Balances(u) = Balances(v) /\ Escrows(v) = Escrows(t)
  BY <1>3, <1>5 DEF Balances, Escrows
<1>8. Balances(t) \in Int
  BY <1>1, <1>2, DebitEffect
<1>9. Balances(u) + Escrows(u) = Balances(t) + Escrows(t)
  BY <1>2, <1>3, <1>4, <1>5, <1>7, <1>8
<1>10. t.balance \in [Account -> Nat] => u.balance \in [Account -> Nat]
  BY <1>1, <1>2, <1>3, <1>5
<1>11. /\ \A k \in OfferId : k # i => u.offer[k] = t.offer[k]
       /\ u.offer[i].quantity = o.quantity - n
  <2>1. t.offer \in [OfferId -> OfferRow]
    BY DEF Books
  <2> QED BY <2>1, <1>3, <1>4, <1>5
<1> QED BY <1>3, <1>5, <1>6, <1>9, <1>10, <1>11

(* make_offer: the tokens leave the owner and reach the escrow. *)
THEOREM MakeOfferEffect ==
    ASSUME NEW t \in Books, NEW i \in OfferId, NEW o \in OfferRow,
           t.offer[i].quantity = 0
    PROVE  LET u == MakeOffer(t, i, o)
           IN  /\ u \in Books
               /\ u.position = t.position /\ u.told = t.told /\ u.fees = t.fees
               /\ \A k \in OfferId : k # i => u.offer[k] = t.offer[k]
               /\ Balances(u) + Escrows(u) = Balances(t) + Escrows(t)
               /\ \A b \in Account : b # o.account => u.balance[b] = t.balance[b]
<1> DEFINE a == o.account
           e == Escrow(o)
           v == Debit(t, a, e)
           u == [v EXCEPT !.offer[i] = o]
<1>1. a \in Account /\ e \in Int /\ e \in Nat
  BY EscrowType DEF OfferRow
<1> HIDE DEF a, e
<1>2. /\ v \in Books
      /\ v.offer = t.offer /\ v.position = t.position
      /\ v.told = t.told /\ v.fees = t.fees
      /\ Balances(v) = Balances(t) - e /\ Balances(t) \in Int
      /\ \A b \in Account : b # a => v.balance[b] = t.balance[b]
  BY <1>1, DebitEffect
<1> HIDE DEF v
<1>3. Escrow(t.offer[i]) = 0
  <2>1. t.offer[i] \in OfferRow
    BY DEF Books
  <2>2. Cost(t.offer[i].side, t.offer[i].price, 0) = 0
    BY <2>1, CostAdds DEF OfferRow
  <2> QED BY <2>2 DEF Escrow
<1>4. /\ u \in Books
      /\ u.offer = [v.offer EXCEPT ![i] = o]
      /\ u.balance = v.balance /\ u.position = v.position
      /\ u.told = v.told /\ u.fees = v.fees
      /\ Escrows(u) = Escrows(v) + (Escrow(o) - Escrow(v.offer[i]))
      /\ Escrows(v) \in Int
  BY <1>2, OfferEffect
<1>5. MakeOffer(t, i, o) = u
  BY DEF MakeOffer, v, a, e
<1> HIDE DEF u
<1>6. Balances(u) = Balances(v) /\ Escrows(v) = Escrows(t)
  BY <1>2, <1>4 DEF Balances, Escrows
<1>7. Balances(u) + Escrows(u) = Balances(t) + Escrows(t)
  BY <1>1, <1>2, <1>3, <1>4, <1>6 DEF e
<1>8. \A k \in OfferId : k # i => u.offer[k] = t.offer[k]
  BY <1>2, <1>4 DEF Books
<1> QED BY <1>2, <1>4, <1>5, <1>7, <1>8 DEF a

(***************************************************************************)
(* contract.py                                                             *)
(***************************************************************************)
(* persist_side stores a position, n units away from the old one. *)
LEMMA PersistSideType ==
    ASSUME NEW h \in Holding, NEW paid \in Nat, NEW n \in Int
    PROVE  /\ PersistSide(h, paid, n) \in Holding
           /\ PersistSide(h, paid, n).quantity = h.quantity + n
<1> DEFINE b == h.basis + paid * Abs(n) - Unit * Covered(h.quantity, n)
<1>1. h.quantity \in Int /\ h.basis \in Nat
  BY DEF Holding
<1>2. Abs(n) \in Nat
  BY DEF Abs
<1> DEFINE k == Covered(h.quantity, n)
<1>k. k \in Nat
  BY <1>1, CoveredType
<1>3. paid * Abs(n) \in Nat
  BY <1>2, SMT
<1>4. b \in Int
  <2> DEFINE e == paid * Abs(n)
  <2>1. b = h.basis + e - Unit * k
    OBVIOUS
  <2>2. e \in Nat
    BY <1>3
  <2> HIDE DEF b, e, k
  <2> QED BY <1>1, <1>k, <2>1, <2>2 DEF Unit
<1> HIDE DEF k
<1>5. AtLeastZero(b) \in Nat
  BY <1>4 DEF AtLeastZero
<1>6. PersistSide(h, paid, n) = IF h.quantity + n = 0 THEN NoHolding
                                ELSE [quantity |-> h.quantity + n, basis |-> AtLeastZero(b)]
  BY DEF PersistSide
<1> HIDE DEF b
<1>7. h.quantity + n \in Int
  BY <1>1
<1> QED BY <1>5, <1>6, <1>7 DEF Holding, NoHolding

(* Storing one side of a contract changes one position, by n units. *)
LEMMA PersistEffect ==
    ASSUME NEW t \in Books, NEW c \in ContractType, NEW a \in Account,
           NEW paid \in Nat, NEW n \in Int
    PROVE  LET u == [t EXCEPT !.position[c][a] = PersistSide(t.position[c][a], paid, n)]
           IN  /\ u \in Books
               /\ u.balance = t.balance /\ u.offer = t.offer
               /\ u.told = t.told /\ u.fees = t.fees
               /\ Moved(t, u, c, a)
               /\ u.position[c][a].quantity = t.position[c][a].quantity + n
               /\ t.position[c][a].quantity \in Int
<1> DEFINE h == PersistSide(t.position[c][a], paid, n)
           u == [t EXCEPT !.position[c][a] = h]
<1>1. t.position[c][a] \in Holding
  BY DEF Books
<1>2. h \in Holding /\ h.quantity = t.position[c][a].quantity + n
      /\ t.position[c][a].quantity \in Int
  BY <1>1, PersistSideType DEF Holding
<1> HIDE DEF h
<1>3. /\ u.balance = t.balance /\ u.offer = t.offer
      /\ u.told = t.told /\ u.fees = t.fees
      /\ u.position = [t.position EXCEPT ![c] = [t.position[c] EXCEPT ![a] = h]]
      /\ u \in Books
  BY <1>2 DEF Books
<1>4. t.position \in [ContractType -> [Account -> Holding]]
  BY DEF Books
<1> HIDE DEF u
<1>5. Moved(t, u, c, a)
  BY <1>3, <1>4 DEF Moved
<1>6. u.position[c][a] = h
  BY <1>3, <1>4
<1> QED BY <1>2, <1>3, <1>5, <1>6 DEF u, h

(* AllFixed names a side for every contract type. *)
LEMMA AllFixedType == AllFixed \in [ContractType -> Side] /\ \A c \in ContractType : AllFixed[c] = FIXED
  BY DEF AllFixed, Side

(* make_contract: what the two sides pay and what their old positions     *)
(* release is what the contracts now open are worth.                       *)
THEOREM MakeContractEffect ==
    ASSUME NEW t \in Books, NEW c \in ContractType, NEW f \in Account, NEW u \in Account,
           NEW price \in Price, NEW n \in Nat
    PROVE  LET v == MakeContract(t, c, f, u, price, n)
           IN  /\ v \in Books
               /\ v.offer = t.offer /\ v.told = t.told /\ v.fees = t.fees
               /\ TotalAs(v, AllFixed) = TotalAs(t, AllFixed)
               /\ \A d \in ContractType : Net(v, d) = Net(t, d)
               /\ \A b \in Account \ {f, u} : v.balance[b] = t.balance[b]
               /\ u # f => v.balance[f] = FixedCharged(t, c, f, u, price, n).balance[f]
<1> DEFINE p == FixedPersisted(t, c, f, price, n)
           r == Persisted(t, c, f, u, price, n)
           fc == FixedCharge(t, c, f, price, n)
           uc == UnfixedCharge(t, c, f, u, price, n)
           w == Debit(r, f, fc)
           v == Debit(w, u, uc)
           q0 == t.position[c][f].quantity
           q1 == p.position[c][u].quantity
<1>1. price \in Nat /\ Unit - price \in Nat /\ -n \in Int /\ n \in Int
  BY DEF Price, Unit
<1>2. /\ p \in Books
      /\ p.balance = t.balance /\ p.offer = t.offer
      /\ p.told = t.told /\ p.fees = t.fees
      /\ Moved(t, p, c, f)
      /\ p.position[c][f].quantity = q0 + n /\ q0 \in Int
  BY <1>1, PersistEffect DEF FixedPersisted
<1> DEFINE m == -n
           other == Unit - price
<1>3. r = [p EXCEPT !.position[c][u] = PersistSide(p.position[c][u], other, m)]
  BY DEF Persisted
<1>m. other \in Nat /\ m \in Int
  BY <1>1
<1> HIDE DEF p, r, m, other
<1>4. /\ r \in Books
      /\ r.balance = p.balance /\ r.offer = p.offer
      /\ r.told = p.told /\ r.fees = p.fees
      /\ Moved(p, r, c, u)
      /\ r.position[c][u].quantity = q1 + (-n) /\ q1 \in Int
  <2>1. /\ r \in Books
        /\ r.balance = p.balance /\ r.offer = p.offer
        /\ r.told = p.told /\ r.fees = p.fees
        /\ Moved(p, r, c, u)
        /\ r.position[c][u].quantity = q1 + m /\ q1 \in Int
    <3>1. p \in Books
      BY <1>2
    <3> DEFINE z == [p EXCEPT !.position[c][u] = PersistSide(p.position[c][u], other, m)]
    <3>2. /\ z \in Books
          /\ z.balance = p.balance /\ z.offer = p.offer
          /\ z.told = p.told /\ z.fees = p.fees
          /\ Moved(p, z, c, u)
          /\ z.position[c][u].quantity = p.position[c][u].quantity + m
          /\ p.position[c][u].quantity \in Int
      BY <3>1, <1>m, PersistEffect
    <3> HIDE DEF z
    <3>3. r = z
      BY <1>3 DEF z
    <3> QED BY <3>2, <3>3
  <2> QED BY <2>1 DEF m
<1>5. \A d \in ContractType : Net(r, d) = Net(t, d)
  <2>1. Net(t, c) \in Int
    BY HeldTypes
  <2>2. Net(p, c) = Net(t, c) + ((q0 + n) - q0)
    BY <1>2, MovedEffect
  <2>3. Net(r, c) = Net(p, c) + ((q1 + (-n)) - q1)
    BY <1>2, <1>4, MovedEffect
  <2>4. Net(r, c) = Net(t, c)
    BY <1>2, <1>4, <2>1, <2>2, <2>3
  <2>5. \A d \in ContractType \ {c} : Net(p, d) = Net(t, d) /\ Net(r, d) = Net(p, d)
    BY <1>2, <1>4, MovedEffect
  <2> QED BY <2>4, <2>5
<1> DEFINE fv == Covered(q0, n)
           uv == Covered(q1, -n)
<1>6. fv \in Nat /\ uv \in Nat
  BY <1>1, <1>2, <1>4, CoveredType
<1>7. StakesAs(r, AllFixed) = StakesAs(t, AllFixed) + Unit * (n - fv - uv)
      /\ StakesAs(t, AllFixed) \in Int
  <2>1. /\ StakesAs(p, AllFixed) = StakesAs(t, AllFixed)
             + Unit * (Part(q0 + n, FIXED) - Part(q0, FIXED))
        /\ StakesAs(t, AllFixed) \in Int
    BY <1>2, StakesEffect, AllFixedType
  <2>2. StakesAs(r, AllFixed) = StakesAs(p, AllFixed)
             + Unit * (Part(q1 + (-n), FIXED) - Part(q1, FIXED))
    BY <1>2, <1>4, StakesEffect, AllFixedType
  <2>3. Part(q0 + n, FIXED) = Part(q0, FIXED) + n - fv
    BY <1>2, CoveredCounts
  <2>4. Part(q1 + (-n), FIXED) = Part(q1, FIXED) - uv
    BY <1>4, CoveredCounts
  <2>5. Part(q0, FIXED) \in Int /\ Part(q1, FIXED) \in Int
    BY <1>2, <1>4, PartType
  <2> HIDE DEF fv, uv
  <2> QED BY <1>6, <2>1, <2>2, <2>3, <2>4, <2>5 DEF Unit
<1>8. fc = price * n - Unit * fv /\ uc = (Unit - price) * n - Unit * uv
  BY DEF FixedCharge, UnfixedCharge, p
<1> HIDE DEF fv, uv, fc, uc
<1>9. fc \in Int /\ uc \in Int /\ fc + uc = Unit * (n - fv - uv)
  <2>1. /\ price * n \in Nat /\ (Unit - price) * n \in Nat
        /\ price * n + (Unit - price) * n = Unit * n
    BY CostSplits
  <2> DEFINE x == price * n
             y == (Unit - price) * n
  <2>2. x \in Nat /\ y \in Nat /\ x + y = Unit * n /\ fc = x - Unit * fv /\ uc = y - Unit * uv
    BY <2>1, <1>8
  <2> HIDE DEF x, y
  <2> QED BY <2>2, <1>6 DEF Unit
<1>10. /\ w \in Books
       /\ w.offer = r.offer /\ w.position = r.position /\ w.told = r.told /\ w.fees = r.fees
       /\ Balances(w) = Balances(r) - fc /\ Balances(r) \in Int
       /\ \A b \in Account : b # f => w.balance[b] = r.balance[b]
  <2>1. r \in Books /\ fc \in Int
    BY <1>4, <1>9
  <2> HIDE DEF q0, q1, r
  <2> QED BY <2>1, DebitEffect
<1> HIDE DEF w
<1>11. /\ v \in Books
       /\ v.offer = w.offer /\ v.position = w.position /\ v.told = w.told /\ v.fees = w.fees
       /\ Balances(v) = Balances(w) - uc
       /\ \A b \in Account : b # u => v.balance[b] = w.balance[b]
  <2>1. w \in Books /\ uc \in Int
    BY <1>9, <1>10
  <2> HIDE DEF q0, q1
  <2> QED BY <2>1, DebitEffect
<1> HIDE DEF v
<1>12. MakeContract(t, c, f, u, price, n) = v /\ FixedCharged(t, c, f, u, price, n) = w
  BY DEF MakeContract, FixedCharged, v, w, r, fc, uc
<1>13. \A d \in ContractType : Net(v, d) = Net(t, d)
  BY <1>5, <1>10, <1>11, SamePositions
<1>14. StakesAs(v, AllFixed) = StakesAs(r, AllFixed)
  BY <1>10, <1>11, SamePositions
<1>15. Balances(v) = Balances(t) - (fc + uc) /\ Balances(t) \in Int
  <2>1. Balances(r) = Balances(t)
    BY <1>2, <1>4 DEF Balances
  <2> QED BY <1>9, <1>10, <1>11, <2>1
<1>16. Escrows(v) = Escrows(t) /\ v.fees = t.fees
  BY <1>2, <1>4, <1>10, <1>11 DEF Escrows
<1>17. TotalAs(v, AllFixed) = TotalAs(t, AllFixed)
  <2> DEFINE s == Unit * (n - fv - uv)
  <2>1. s \in Int
    BY <1>6 DEF Unit
  <2>2. Escrows(t) \in Int /\ t.fees \in Int
    BY EscrowsType DEF Books
  <2>3. /\ StakesAs(v, AllFixed) = StakesAs(t, AllFixed) + s
        /\ Balances(v) = Balances(t) - s
    BY <1>7, <1>9, <1>14, <1>15
  <2> HIDE DEF s
  <2> QED BY <1>7, <1>15, <1>16, <2>1, <2>2, <2>3 DEF TotalAs
<1> QED BY <1>2, <1>4, <1>10, <1>11, <1>12, <1>13, <1>17

(***************************************************************************)
(* resolve()                                                               *)
(***************************************************************************)
(* The winner of n units gets at most 1000 for each. *)
LEMMA PayoutBounds ==
    ASSUME NEW n \in Nat, NEW basis \in Nat
    PROVE  Payout(n, basis) \in Nat /\ Payout(n, basis) <= n * Unit
<1>1. n * Unit \in Nat
  BY DEF Unit
<1> DEFINE m == n * Unit - basis
           k == HalfEven(m, 10 * Unit)
<1>2. m \in Int
  BY <1>1
<1> HIDE DEF m
<1>3. k \in Int
  BY <1>2 DEF HalfEven, Unit
<1>4. Fee(n, basis) = Unit * (IF k > 1 THEN k ELSE 1)
  BY DEF Fee, m
<1> HIDE DEF k
<1>5. Fee(n, basis) \in Nat
  BY <1>3, <1>4 DEF Unit
<1> QED BY <1>1, <1>5 DEF Payout, AtLeastZero

(* A payout is a whole number of tokens. *)
LEMMA PayoutInTokens ==
    ASSUME NEW n \in Nat, NEW basis \in Nat
    PROVE  /\ Payout(n, basis) = Unit * (Payout(n, basis) \div Unit)
           /\ Payout(n, basis) \div Unit \in Nat
<1> DEFINE m == HalfEven(n * Unit - basis, 10 * Unit)
           k == IF m > 1 THEN m ELSE 1
           left == AtLeastZero(n - k)
<1>1. m \in Int
  BY DEF HalfEven, Unit
<1>2. k \in Int
  <2> HIDE DEF m
  <2> QED BY <1>1
<1>3. Fee(n, basis) = Unit * k
  BY DEF Fee
<1> HIDE DEF m, k
<1>4. left \in Nat /\ Payout(n, basis) = Unit * left
  BY <1>2, <1>3 DEF Payout, AtLeastZero, Unit
<1> HIDE DEF left
<1>5. (Unit * left) \div Unit = left
  BY <1>4 DEF Unit
<1> QED BY <1>4, <1>5

(* The units of a position count for the side that wins, or not at all. *)
LEMMA WinnersPart ==
    ASSUME NEW h \in Holding, NEW side \in Side
    PROVE  /\ Wins(h, side) => Part(h.quantity, side) = Abs(h.quantity)
           /\ ~ Wins(h, side) => Part(h.quantity, side) = 0
           /\ Abs(h.quantity) \in Nat /\ h.basis \in Nat /\ h.quantity \in Int
<1>1. h.quantity \in Int /\ h.basis \in Nat
  BY DEF Holding
<1> QED BY <1>1 DEF Wins, Part, AtLeastZero, Abs, FIXED, UNFIXED, Side

(* One position of c is paid: the tokens its units stand for go to the     *)
(* holder and to the fees, and only if the units are on the winning side.  *)
THEOREM PayPositionEffect ==
    ASSUME NEW t \in Books, NEW c \in ContractType, NEW a \in Account,
           NEW winner \in [ContractType -> Side]
    PROVE  LET u == PayPosition(t, c, a, winner[c])
           IN  /\ u \in Books
               /\ u.offer = t.offer /\ u.told = t.told
               /\ TotalAs(u, winner) = TotalAs(t, winner)
               /\ Net(u, c) = Net(t, c) - t.position[c][a].quantity
               /\ \A d \in ContractType \ {c} : Net(u, d) = Net(t, d)
               /\ t.balance \in [Account -> Nat] => u.balance \in [Account -> Nat]
               /\ t.position[c][a].quantity \in Int
<1> DEFINE h == t.position[c][a]
           side == winner[c]
           n == Abs(h.quantity)
           won == IF Wins(h, side) THEN Payout(n, h.basis) ELSE 0
           kept == IF Wins(h, side) THEN n * Unit - won ELSE 0
           v == Credit(t, a, won)
           u == [v EXCEPT !.position[c][a] = NoHolding, !.fees = v.fees + kept]
           part == Part(h.quantity, side)
<1>1. h \in Holding /\ side \in Side
  BY DEF Books
<1>2. PayPosition(t, c, a, winner[c]) = u
  BY DEF PayPosition
<1>3. won \in Nat /\ kept \in Nat /\ won + kept = Unit * part /\ h.quantity \in Int /\ part \in Nat
  <2>1. /\ Wins(h, side) => part = n
        /\ ~ Wins(h, side) => part = 0
        /\ n \in Nat /\ h.basis \in Nat /\ h.quantity \in Int
    BY <1>1, WinnersPart
  <2>2. Payout(n, h.basis) \in Nat /\ Payout(n, h.basis) <= n * Unit
    BY <2>1, PayoutBounds
  <2> HIDE DEF n, part, h, side
  <2>3. CASE Wins(h, side)
    BY <2>1, <2>2, <2>3 DEF Unit
  <2>4. CASE ~ Wins(h, side)
    BY <2>1, <2>4 DEF Unit
  <2> QED BY <2>3, <2>4
<1> HIDE DEF won, kept
<1>4. /\ v \in Books
      /\ v.balance = [t.balance EXCEPT ![a] = t.balance[a] + won]
      /\ v.offer = t.offer /\ v.position = t.position
      /\ v.told = t.told /\ v.fees = t.fees
      /\ Balances(v) = Balances(t) + won
  BY <1>3, CreditEffect
<1> HIDE DEF v
<1>5. /\ u.balance = v.balance /\ u.offer = v.offer /\ u.told = v.told
      /\ u.fees = v.fees + kept
      /\ u.position = [v.position EXCEPT ![c] = [v.position[c] EXCEPT ![a] = NoHolding]]
      /\ u \in Books
  <2>1. NoHolding \in Holding
    BY DEF NoHolding, Holding
  <2> DEFINE w == [v EXCEPT !.position[c][a] = NoHolding]
  <2>2. /\ w.balance = v.balance /\ w.offer = v.offer /\ w.told = v.told /\ w.fees = v.fees
        /\ w.position = [v.position EXCEPT ![c] = [v.position[c] EXCEPT ![a] = NoHolding]]
        /\ w \in Books
    BY <1>4, <2>1 DEF Books
  <2> DEFINE fees == v.fees + kept
  <2>3. fees \in Nat
    BY <1>3, <1>4 DEF Books
  <2>4. u = [w EXCEPT !.fees = fees]
    BY <1>4 DEF Books
  <2> HIDE DEF w, u
  <2> QED BY <2>2, <2>3, <2>4 DEF Books
<1> HIDE DEF h, side, n, part
<1>6. t.position \in [ContractType -> [Account -> Holding]]
  BY DEF Books
<1> HIDE DEF u
<1>7. Moved(t, u, c, a) /\ u.position[c][a].quantity = 0
  BY <1>4, <1>5, <1>6 DEF Moved, NoHolding
<1>8. /\ Net(u, c) = Net(t, c) + (0 - h.quantity) /\ Net(t, c) \in Int
      /\ \A d \in ContractType \ {c} : Net(u, d) = Net(t, d)
  <2> DEFINE p == t.position[c][a].quantity
             q == u.position[c][a].quantity
  <2>0. u \in Books /\ Moved(t, u, c, a)
    BY <1>5, <1>7
  <2>1. Net(u, c) = Net(t, c) + (q - p)
    BY <2>0, MovedEffect
  <2>2. Net(t, c) \in Int
    BY HeldTypes
  <2>3. \A d \in ContractType \ {c} : Net(u, d) = Net(t, d)
    BY <1>5, <1>7, MovedEffect
  <2>4. p = h.quantity /\ q = 0
    BY <1>7 DEF h
  <2> HIDE DEF p, q
  <2> QED BY <2>1, <2>2, <2>3, <2>4
<1>9. StakesAs(u, winner) = StakesAs(t, winner) - Unit * part /\ StakesAs(t, winner) \in Int
  <2> DEFINE q == u.position[c][a].quantity
  <2>0. /\ StakesAs(u, winner) = StakesAs(t, winner)
                 + Unit * (Part(q, winner[c]) - Part(t.position[c][a].quantity, winner[c]))
        /\ StakesAs(t, winner) \in Int
    BY <1>5, <1>7, StakesEffect
  <2>1. /\ StakesAs(u, winner) = StakesAs(t, winner) + Unit * (Part(q, side) - part)
        /\ StakesAs(t, winner) \in Int
    BY <2>0 DEF part, side, h
  <2>2. Part(q, side) = 0
    <3>1. q \in Int /\ q <= 0 /\ 0 <= q
      BY <1>7
    <3> HIDE DEF q
    <3> QED BY <3>1, PartOfNone
  <2> QED BY <1>3, <2>1, <2>2 DEF Unit
<1>10. Balances(u) = Balances(t) + won /\ Balances(t) \in Int
  <2>1. Balances(t) \in Int
    BY <1>3, DebitEffect
  <2> QED BY <1>4, <1>5, <2>1 DEF Balances
<1>11. Escrows(u) = Escrows(t) /\ Escrows(t) \in Int /\ u.fees = t.fees + kept /\ t.fees \in Nat
  BY <1>4, <1>5, EscrowsType DEF Escrows, Books
<1>12. TotalAs(u, winner) = TotalAs(t, winner)
  <2> DEFINE s == Unit * part
  <2>1. s = won + kept /\ StakesAs(u, winner) = StakesAs(t, winner) - s
    BY <1>3, <1>9
  <2> HIDE DEF s
  <2> QED BY <1>3, <1>9, <1>10, <1>11, <2>1 DEF TotalAs
<1>13. t.balance \in [Account -> Nat] => u.balance \in [Account -> Nat]
  BY <1>3, <1>4, <1>5
<1>14. Net(u, c) = Net(t, c) - h.quantity
  BY <1>3, <1>8
<1> QED BY <1>2, <1>3, <1>4, <1>5, <1>8, <1>12, <1>13, <1>14 DEF h

(***************************************************************************)
(* message.py                                                              *)
(***************************************************************************)
(* Adding a message to a list gives a list. *)
LEMMA NoteType ==
    ASSUME NEW list \in Tally, NEW c \in ContractType, NEW a \in Account, NEW n \in Int
    PROVE  Note(list, c, a, n) \in Tally
<1> DEFINE r == [list[c][a] EXCEPT !.units = list[c][a].units + n]
<1>1. r \in Report
  BY DEF Tally, Report
<1>2. Note(list, c, a, n) = [list EXCEPT ![c] = [list[c] EXCEPT ![a] = r]]
  BY DEF Note, Tally
<1> HIDE DEF r
<1> QED BY <1>1, <1>2 DEF Tally

(* So does that a position is resolved. *)
LEMMA NoteResolvedType ==
    ASSUME NEW list \in Tally, NEW c \in ContractType, NEW a \in Account,
           NEW h \in Holding, NEW side \in Side
    PROVE  /\ Reported(h, side) \in Int
           /\ NoteResolved(list, c, a, h, side) \in Tally
<1> DEFINE w == list[c][a].won + Reported(h, side)
           r == [units |-> 0, closed |-> TRUE, won |-> w]
<1>1. Abs(h.quantity) \in Nat /\ h.basis \in Nat
  BY WinnersPart
<1>2. Reported(h, side) \in Int
  <2>1. Payout(Abs(h.quantity), h.basis) \div Unit \in Nat
    BY <1>1, PayoutInTokens
  <2> QED BY <1>1, <2>1 DEF Reported
<1>3. r \in Report
  <2>1. w \in Int
    BY <1>2 DEF Tally, Report
  <2> HIDE DEF w
  <2> QED BY <2>1 DEF Report
<1>4. NoteResolved(list, c, a, h, side) = [list EXCEPT ![c] = [list[c] EXCEPT ![a] = r]]
  BY DEF NoteResolved, Tally
<1> HIDE DEF r
<1> QED BY <1>2, <1>3, <1>4 DEF Tally

(* An empty list of messages is a tally. *)
LEMMA NoTallyType == NoTally \in Tally
  BY DEF NoTally, NoReport, Report, Tally

(* What an account has heard. *)
LEMMA HeardType ==
    ASSUME NEW old \in Report, NEW new \in Report
    PROVE  /\ Heard(old, new) \in Report
           /\ Heard(old, new).units = (IF new.closed THEN 0 ELSE old.units) + new.units
           /\ Heard(old, new).won = old.won + new.won
  BY DEF Heard, Report

(* flush() writes the message table and nothing else. *)
LEMMA FlushedEffect ==
    ASSUME NEW t \in Books, NEW list \in Tally
    PROVE  /\ Flushed(t, list) \in Books
           /\ Flushed(t, list).balance = t.balance
           /\ Flushed(t, list).offer = t.offer
           /\ Flushed(t, list).position = t.position
           /\ Flushed(t, list).fees = t.fees
           /\ t \in Database => Flushed(t, list) \in Database
<1> DEFINE told == [c \in ContractType |-> [a \in Account |-> Heard(t.told[c][a], list[c][a])]]
<1>1. \A c \in ContractType, a \in Account : Heard(t.told[c][a], list[c][a]) \in Report
  BY HeardType DEF Books, Tally
<1>2. told \in Tally
  BY <1>1 DEF Tally
<1>3. Flushed(t, list) = [t EXCEPT !.told = told]
  BY DEF Flushed
<1> HIDE DEF told
<1> QED BY <1>2, <1>3 DEF Books, Database

(***************************************************************************)
(* The ledger: every token is somewhere, every contract has two sides.     *)
(***************************************************************************)
Ledger(t, issued) ==
    /\ TokenTotal(t) = issued
    /\ \A c \in ContractType : Net(t, c) = 0

(* TokenTotal counts the FIXED units of every contract type. *)
LEMMA TotalOfFixed ==
    ASSUME NEW t
    PROVE  TokenTotal(t) = TotalAs(t, AllFixed)
<1>1. Stakes(t) = StakesAs(t, AllFixed)
  BY DEF Stakes, StakesAs, AllFixed
<1> QED BY <1>1 DEF TokenTotal, TotalAs

(* Where the two sides balance, it does not matter which of them counts. *)
LEMMA EitherSideCounts ==
    ASSUME NEW t \in Books,
           NEW v \in [ContractType -> Side], NEW w \in [ContractType -> Side],
           \A c \in ContractType : v[c] # w[c] => Net(t, c) = 0
    PROVE  TotalAs(t, v) = TotalAs(t, w)
<1>1. \A c \in ContractType : Held(t, c, v[c]) = Held(t, c, w[c])
  <2> TAKE c \in ContractType
  <2>1. CASE v[c] = w[c]
    BY <2>1
  <2>2. CASE v[c] # w[c]
    <3>1. Net(t, c) = Held(t, c, FIXED) - Held(t, c, UNFIXED) /\ Net(t, c) = 0
      BY <2>2, NetIsDifference
    <3>2. Held(t, c, FIXED) \in Int /\ Held(t, c, UNFIXED) \in Int
      BY HeldTypes
    <3>3. Held(t, c, FIXED) = Held(t, c, UNFIXED)
      BY <3>1, <3>2
    <3>4. v[c] \in {FIXED, UNFIXED} /\ w[c] \in {FIXED, UNFIXED}
      BY DEF Side
    <3> QED BY <3>3, <3>4
  <2> QED BY <2>1, <2>2
<1>2. StakesAs(t, v) = StakesAs(t, w)
  BY <1>1 DEF StakesAs
<1> QED BY <1>2 DEF TotalAs

(* The tables of a database are books whose balances the CHECK accepts. *)
LEMMA DatabaseBooks ==
    ASSUME NEW t
    PROVE  t \in Database <=> t \in Books /\ t.balance \in [Account -> Nat]
<1>1. ASSUME t \in Database PROVE t \in Books /\ t.balance \in [Account -> Nat]
  <2>1. t.balance \in [Account -> Nat] /\ t.balance \in [Account -> Int]
    BY <1>1 DEF Database
  <2> QED BY <1>1, <2>1 DEF Database, Books
<1>2. ASSUME t \in Books, t.balance \in [Account -> Nat] PROVE t \in Database
  BY <1>2 DEF Database, Books
<1> QED BY <1>1, <1>2

(* The tables of a fresh market. *)
LEMMA EmptyBookEffect ==
    /\ EmptyBook \in Database
    /\ Ledger(EmptyBook, SumTo(InitialBalance, NumAccounts))
    /\ \A i \in OfferId : ~ Exists(EmptyBook, i)
<1>1. EmptyBook \in Database
  <2>1. NoHolding \in Holding
    BY DEF NoHolding, Holding
  <2>2. EmptyBook.balance \in [Account -> Nat]
    BY TablesAssumption DEF EmptyBook
  <2> QED BY <2>1, <2>2, NoOfferRow, NoTallyType DEF EmptyBook, Database
<1>2. /\ EmptyBook.balance = InitialBalance /\ EmptyBook.fees = 0
      /\ EmptyBook.offer = [i \in OfferId |-> NoOffer]
      /\ \A c \in ContractType, a \in Account : EmptyBook.position[c][a].quantity = 0
  BY DEF EmptyBook, NoHolding
<1>3. EmptyBook \in Books
  BY <1>1, DatabaseBooks
<1>4. Escrows(EmptyBook) = 0
  <2> DEFINE f == [i \in OfferId |-> Escrow(EmptyBook.offer[i])]
  <2>1. \A k \in 1..MaxOrders : f[k] = 0
    BY <1>2, NoOfferRow, Sizes
  <2> HIDE DEF f
  <2>2. SumTo(f, MaxOrders) = 0
    BY <2>1, Sizes, SumToZeros
  <2> QED BY <2>2 DEF f, Escrows
<1>5. \A c \in ContractType : Net(EmptyBook, c) = 0 /\ Held(EmptyBook, c, FIXED) = 0
  <2> TAKE c \in ContractType
  <2> DEFINE f == [a \in Account |-> EmptyBook.position[c][a].quantity]
             g == [a \in Account |-> Part(EmptyBook.position[c][a].quantity, FIXED)]
  <2>1. \A k \in 1..NumAccounts : f[k] = 0 /\ g[k] = 0
    BY <1>2, PartOfNone, Sizes
  <2>2. Net(EmptyBook, c) = SumTo(f, NumAccounts) /\ Held(EmptyBook, c, FIXED) = SumTo(g, NumAccounts)
    BY DEF Net, Held, Part
  <2> HIDE DEF f, g
  <2>3. SumTo(f, NumAccounts) = 0 /\ SumTo(g, NumAccounts) = 0
    BY <2>1, Sizes, SumToZeros
  <2> QED BY <2>2, <2>3
<1>6. Stakes(EmptyBook) = 0
  <2> DEFINE f == [c \in ContractType |-> Unit * Held(EmptyBook, c, FIXED)]
  <2>1. \A k \in 1..NumTypes : f[k] = 0
    BY <1>5, Sizes DEF Unit
  <2> HIDE DEF f
  <2>2. SumTo(f, NumTypes) = 0
    BY <2>1, Sizes, SumToZeros
  <2> QED BY <2>2 DEF f, Stakes
<1>7. Balances(EmptyBook) = SumTo(InitialBalance, NumAccounts) /\ Balances(EmptyBook) \in Int
  <2>1. \A k \in 1..NumAccounts : InitialBalance[k] \in Int
    BY TablesAssumption DEF Account
  <2>2. SumTo(InitialBalance, NumAccounts) \in Int
    BY <2>1, Sizes, SumToInt
  <2> QED BY <1>2, <2>2 DEF Balances
<1>8. \A i \in OfferId : ~ Exists(EmptyBook, i)
  BY <1>2 DEF Exists, NoOffer
<1> QED BY <1>1, <1>2, <1>4, <1>5, <1>6, <1>7, <1>8 DEF Ledger, TokenTotal

(***************************************************************************)
(* What each operator does to a ledger that balances.                      *)
(***************************************************************************)
(* The parts of the total are whole numbers. *)
LEMMA LedgerTypes ==
    ASSUME NEW t \in Books
    PROVE  /\ Balances(t) \in Int /\ Escrows(t) \in Int /\ t.fees \in Int
           /\ \A w \in [ContractType -> Side] : StakesAs(t, w) \in Int
<1>1. Balances(t) \in Int
  <2>1. \A k \in 1..NumAccounts : t.balance[k] \in Int
    BY Sizes DEF Books
  <2>2. SumTo(t.balance, NumAccounts) \in Int
    BY <2>1, Sizes, SumToInt
  <2> QED BY <2>2 DEF Balances
<1>2. Escrows(t) \in Int /\ t.fees \in Int
  BY EscrowsType DEF Books
<1>3. ASSUME NEW w \in [ContractType -> Side] PROVE StakesAs(t, w) \in Int
  <2> DEFINE f == [c \in ContractType |-> Unit * Held(t, c, w[c])]
  <2>1. \A c \in 1..NumTypes : f[c] \in Int
    BY HeldTypes, Sizes DEF Unit
  <2> HIDE DEF f
  <2>2. SumTo(f, NumTypes) \in Int
    BY <2>1, Sizes, SumToInt
  <2> QED BY <2>2 DEF f, StakesAs
<1> QED BY <1>1, <1>2, <1>3

(* Tokens that only change between balance and escrow. *)
LEMMA LedgerOfTransfer ==
    ASSUME NEW t \in Books, NEW u \in Books, NEW issued,
           u.position = t.position, u.fees = t.fees,
           Balances(u) + Escrows(u) = Balances(t) + Escrows(t)
    PROVE  /\ Ledger(u, issued) <=> Ledger(t, issued)
           /\ \A w : TotalAs(u, w) = TotalAs(t, w)
           /\ \A c : Net(u, c) = Net(t, c)
<1>1. /\ \A c : Net(u, c) = Net(t, c)
      /\ \A w : StakesAs(u, w) = StakesAs(t, w)
  BY SamePositions
<1>2. \A w : TotalAs(u, w) = TotalAs(t, w)
  BY <1>1 DEF TotalAs
<1>3. TokenTotal(u) = TokenTotal(t)
  BY <1>2, TotalOfFixed
<1> QED BY <1>1, <1>2, <1>3 DEF Ledger

(* Sending messages moves no token. *)
LEMMA LedgerOfFlushed ==
    ASSUME NEW t \in Books, NEW list \in Tally, NEW issued
    PROVE  /\ Ledger(Flushed(t, list), issued) <=> Ledger(t, issued)
           /\ \A w : TotalAs(Flushed(t, list), w) = TotalAs(t, w)
           /\ \A c : Net(Flushed(t, list), c) = Net(t, c)
<1> DEFINE u == Flushed(t, list)
<1>1. u \in Books /\ u.balance = t.balance /\ u.offer = t.offer
      /\ u.position = t.position /\ u.fees = t.fees
  BY FlushedEffect
<1> HIDE DEF u
<1>2. Balances(u) + Escrows(u) = Balances(t) + Escrows(t)
  BY <1>1 DEF Balances, Escrows
<1>3. /\ Ledger(u, issued) <=> Ledger(t, issued)
      /\ \A w : TotalAs(u, w) = TotalAs(t, w)
      /\ \A c : Net(u, c) = Net(t, c)
  BY <1>1, <1>2, LedgerOfTransfer
<1> QED BY <1>3 DEF u

(* Reducing an offer keeps a balanced ledger balanced. *)
LEMMA LedgerOfReduced ==
    ASSUME NEW t \in Books, NEW i \in OfferId, NEW n \in Nat,
           n <= t.offer[i].quantity, NEW issued
    PROVE  /\ Ledger(ReduceOffer(t, i, n), issued) <=> Ledger(t, issued)
           /\ ReduceOffer(t, i, n) \in Books
           /\ t \in Database => ReduceOffer(t, i, n) \in Database
<1> DEFINE u == ReduceOffer(t, i, n)
<1>1. /\ u \in Books /\ u.position = t.position /\ u.fees = t.fees
      /\ Balances(u) + Escrows(u) = Balances(t) + Escrows(t)
      /\ t.balance \in [Account -> Nat] => u.balance \in [Account -> Nat]
  BY ReduceOfferEffect, AllFixedType
<1> HIDE DEF u
<1>2. Ledger(u, issued) <=> Ledger(t, issued)
  BY <1>1, LedgerOfTransfer
<1>3. t \in Database => u \in Database
  BY <1>1, DatabaseBooks
<1> QED BY <1>1, <1>2, <1>3 DEF u

(* So does forming a contract. *)
LEMMA LedgerOfContract ==
    ASSUME NEW t \in Books, NEW c \in ContractType, NEW f \in Account, NEW u \in Account,
           NEW price \in Price, NEW n \in Nat, NEW issued
    PROVE  Ledger(MakeContract(t, c, f, u, price, n), issued) <=> Ledger(t, issued)
<1> DEFINE v == MakeContract(t, c, f, u, price, n)
<1>1. TotalAs(v, AllFixed) = TotalAs(t, AllFixed) /\ \A d \in ContractType : Net(v, d) = Net(t, d)
  BY MakeContractEffect
<1> HIDE DEF v
<1>2. Ledger(v, issued) <=> Ledger(t, issued)
  BY <1>1, TotalOfFixed DEF Ledger
<1> QED BY <1>2 DEF v

(* The worth of a position at a price of the FIXED side. *)
LEMMA WorthAt ==
    ASSUME NEW q \in Int, NEW price \in Price
    PROVE  /\ Worth(q, price) = IF q > 0 THEN price * q ELSE price * q - Unit * q
           /\ price * q \in Int
<1>1. price \in Int /\ Unit \in Int /\ -q \in Int
  BY DEF Price, Unit
<1>2. (Unit - price) * (-q) = price * q - Unit * q
  BY <1>1 DEF Unit
<1>3. price * q \in Int
  BY <1>1
<1>4. q > 0 => Abs(q) = q
  BY DEF Abs
<1>5. ~ (q > 0) => Abs(q) = -q
  BY DEF Abs
<1> QED BY <1>2, <1>3, <1>4, <1>5 DEF Worth, Cost, FIXED, UNFIXED

(* A side of a contract is charged what its position gains at the price. *)
LEMMA SideWorth ==
    ASSUME NEW q \in Int, NEW n \in Nat, NEW price \in Price
    PROVE  LET fc == price * n - Unit * Covered(q, n)
               uc == (Unit - price) * n - Unit * Covered(q, -n)
           IN  /\ fc \in Int /\ uc \in Int /\ Worth(q, price) \in Int
               /\ Worth(q + n, price) = Worth(q, price) + fc
               /\ Worth(q + (-n), price) = Worth(q, price) + uc
<1> DEFINE x == price * q
           y == price * n
           k == q + n
           l == q + (-n)
           kx == price * k
           lx == price * l
<1>1. price \in Int /\ x \in Int /\ y \in Int /\ k \in Int /\ l \in Int
  BY WorthAt DEF Price, Unit
<1>2. kx = x + y /\ lx = x - y
  <2>1. price * (q + n) = price * q + price * n
    BY <1>1
  <2>2. price * (q + (-n)) = price * q - price * n
    BY <1>1
  <2> QED BY <2>1, <2>2
<1>8. (Unit - price) * n = Unit * n - y
  BY <1>1 DEF Unit
<1>3. /\ Worth(q, price) = IF q > 0 THEN x ELSE x - Unit * q
      /\ Worth(k, price) = IF k > 0 THEN kx ELSE kx - Unit * k
      /\ Worth(l, price) = IF l > 0 THEN lx ELSE lx - Unit * l
  <2> HIDE DEF k, l
  <2> QED BY <1>1, WorthAt
<1> HIDE DEF x, y, kx, lx
<1>4. /\ Worth(k, price) = IF k > 0 THEN x + y ELSE x + y - Unit * k
      /\ Worth(l, price) = IF l > 0 THEN x - y ELSE x - y - Unit * l
  <2> HIDE DEF k, l
  <2> QED BY <1>1, <1>2, <1>3 DEF Unit
<1>5. /\ Covered(q, n) = IF q < 0 THEN (IF -q <= n THEN -q ELSE n) ELSE 0
      /\ Covered(q, -n) = IF q > 0 THEN (IF q <= n THEN q ELSE n) ELSE 0
  BY DEF Covered, Abs
<1>6. /\ Worth(q + n, price) = Worth(q, price) + (y - Unit * Covered(q, n))
      /\ y - Unit * Covered(q, n) \in Int /\ Worth(q, price) \in Int
  BY <1>1, <1>3, <1>4, <1>5 DEF Unit
<1>7. /\ Worth(q + (-n), price) = Worth(q, price) + ((Unit * n - y) - Unit * Covered(q, -n))
      /\ (Unit * n - y) - Unit * Covered(q, -n) \in Int
  BY <1>1, <1>3, <1>4, <1>5 DEF Unit
<1> QED BY <1>6, <1>7, <1>8 DEF y
====
