---- MODULE WebProofs ----
(***************************************************************************)
(* The handlers of Web act on the tables through Session only, so what     *)
(* SessionProofs and MarketProofs prove of one Market object holds of the  *)
(* site (SiteIsSession).                                                   *)
(*                                                                         *)
(* What the buttons and the form promise the user needs more: WebInv ties  *)
(* the order in progress to the request that posted it, the balance to     *)
(* what a FIXED order still costs (AskedInv), the candidates to the offer  *)
(* that was accepted (AcceptInv), and the position to the order that ends  *)
(* it (OffsetInv).  It holds beside IInv and TradeInv (WebInvariance).     *)
(***************************************************************************)
EXTENDS Web, MarketProofs

(* A handler that only reads: a SELECT in the open transaction, or a new one. *)
LEMMA ReadsIsSession ==
    ASSUME Reads
    PROVE  [Next]_vars
BY DEF Reads, Next

(* An order goes to place() however it came about. *)
LEMMA PostOfferIsSession ==
    ASSUME NEW o, NEW request, NEW cookie, PostOffer(o, request, cookie)
    PROVE  [Next]_vars
<1>1. PlaceAny
    BY DEF PostOffer, PlaceAny
<1>. QED  BY <1>1 DEF Next

(* Each handler is one step of Session, or changes none of its variables. *)
LEMMA WebStep ==
    ASSUME [WebNext]_webVars
    PROVE  [Next]_vars
<1>1. CASE GetUser
    BY <1>1 DEF GetUser, Next
<1>2. CASE NobodyKnown
    BY <1>2 DEF NobodyKnown, Next
<1>3. CASE OtherRequest
    BY <1>3 DEF OtherRequest, Next
<1>4. CASE OfferPage
    BY <1>4 DEF OfferPage, Next
<1>5. CASE PostMatch
    BY <1>5, PostOfferIsSession DEF PostMatch
<1>6. CASE PostOffset
    BY <1>6, PostOfferIsSession DEF PostOffset
<1>7. ASSUME NEW o \in Typed, PostTyped(o)
      PROVE  [Next]_vars
    BY <1>7, PostOfferIsSession DEF PostTyped
<1>8. ASSUME NEW a \in Account, ListingPage(a)
      PROVE  [Next]_vars
    BY <1>8 DEF ListingPage, Next
<1>9. ASSUME NEW a \in Account, NEW i \in OfferId, Match(a, i)
      PROVE  [Next]_vars
    BY <1>9, ReadsIsSession DEF Match
<1>10. ASSUME NEW a \in Account, NEW c \in ContractType, Offset(a, c)
       PROVE  [Next]_vars
    BY <1>10, ReadsIsSession DEF Offset
<1>11. ASSUME NEW a \in Account, NEW c \in ContractType, NEW side \in Side,
              PostResolve(a, c, side)
       PROVE  [Next]_vars
    <2>1. ResolveAny
        BY <1>11 DEF PostResolve, ResolveAny
    <2>. QED  BY <2>1 DEF Next
<1>12. ASSUME NEW i \in OfferId, CancelOwn(i)
       PROVE  [Next]_vars
    <2>1. CancelAny
        BY <1>12 DEF CancelOwn, CancelAny
    <2>. QED  BY <2>1 DEF Next
<1>13. CASE Operation
    BY <1>13 DEF Operation, OperationStep, Next
<1>14. CASE Environment
    BY <1>14 DEF Environment, Next
<1>15. CASE UNCHANGED webVars
    BY <1>15 DEF webVars
<1>. QED
    BY <1>1, <1>2, <1>3, <1>4, <1>5, <1>6, <1>7, <1>8, <1>9, <1>10, <1>11, <1>12,
       <1>13, <1>14, <1>15 DEF WebNext

(* So the theorems on Session can be used here. *)
LEMMA SiteIsSession == WebSpec => Spec
<1>1. WebInit => Init
    BY DEF WebInit
<1>2. [WebNext]_webVars => [Next]_vars
    BY WebStep
<1>. QED
    BY <1>1, <1>2, PTL DEF WebSpec, Spec

(* Requests to the site keep every token, every pair of positions and the  *)
(* RuntimeErrors of reduce_offer and resolve out of reach.                 *)
THEOREM SiteSafe == WebSpec => [](Conserved /\ ZeroSum /\ AssertionsHold)
<1>. QED
    BY SiteIsSession, Conservation, Pairing, NoRuntimeError, PTL

(* And whatever is requested of it, each of its commits is one deal of the *)
(* abstract market, and what users are told follows what they hold.        *)
THEOREM SiteKeepsPromise == WebSpec => KeepsPromise /\ MessagesFollow
<1>. QED
    BY SiteIsSession, Refinement, ToldTogether, PTL

(***************************************************************************)
(* What a contract costs the trader.                                       *)
(***************************************************************************)
(* The first debit of a contract is at most the price of its units. *)
LEMMA FirstDebit ==
    ASSUME NEW t \in Books, NEW c \in ContractType, NEW f \in Account, NEW h \in Account,
           NEW price \in Price, NEW n \in Nat
    PROVE  /\ FixedCharged(t, c, f, h, price, n).balance[f] >= t.balance[f] - price * n
           /\ FixedCharged(t, c, f, h, price, n).balance[f] \in Int
<1> DEFINE p == FixedPersisted(t, c, f, price, n)
           r == Persisted(t, c, f, h, price, n)
           fc == FixedCharge(t, c, f, price, n)
           m == -n
           other == Unit - price
<1>1. price \in Nat /\ other \in Nat /\ m \in Int /\ n \in Int
  BY DEF Price, Unit
<1>2. p \in Books /\ p.balance = t.balance /\ t.position[c][f].quantity \in Int
  <2>1. p = [t EXCEPT !.position[c][f] = PersistSide(t.position[c][f], price, n)]
    BY DEF FixedPersisted
  <2> HIDE DEF p
  <2> QED BY <1>1, <2>1, PersistEffect
<1>3. r = [p EXCEPT !.position[c][h] = PersistSide(p.position[c][h], other, m)]
  BY DEF Persisted
<1> HIDE DEF p, r, m, other
<1>4. r \in Books /\ r.balance = t.balance
  BY <1>1, <1>2, <1>3, PersistEffect
<1>5. fc \in Int /\ fc <= price * n /\ price * n \in Int
  <2> DEFINE k == Covered(t.position[c][f].quantity, n)
             x == price * n
  <2>1. k \in Nat
    BY <1>1, <1>2, CoveredType
  <2>2. x \in Nat
    BY CostSplits
  <2>3. fc = x - Unit * k
    BY DEF FixedCharge
  <2> HIDE DEF k, x, fc
  <2>4. fc \in Int /\ fc <= x
    BY <2>1, <2>2, <2>3 DEF Unit
  <2> QED BY <2>2, <2>4 DEF x
<1> HIDE DEF fc
<1>6. Debit(r, f, fc).balance = [r.balance EXCEPT ![f] = r.balance[f] - fc]
  BY <1>4, <1>5, DebitBalance
<1>7. r.balance \in [Account -> Int]
  BY <1>4 DEF Books
<1>8. Debit(r, f, fc).balance[f] = t.balance[f] - fc /\ t.balance[f] \in Int
  BY <1>4, <1>6, <1>7
<1>9. FixedCharged(t, c, f, h, price, n) = Debit(r, f, fc)
  BY DEF FixedCharged, r, fc
<1> QED BY <1>5, <1>8, <1>9

(* Neither side is left with less than it had but for the price of the     *)
(* units, and one that is both sides pays nothing.                         *)
LEMMA ContractCosts ==
    ASSUME NEW t \in Books, NEW c \in ContractType, NEW f \in Account, NEW h \in Account,
           NEW price \in Price, NEW n \in Nat
    PROVE  LET v == MakeContract(t, c, f, h, price, n)
           IN  /\ v.balance[f] >= t.balance[f] - Cost(FIXED, price, n)
               /\ v.balance[h] >= t.balance[h] - Cost(UNFIXED, price, n)
               /\ v.balance[h] \in Int
<1> DEFINE v == MakeContract(t, c, f, h, price, n)
<1>1. f # h => /\ v.balance[f] >= t.balance[f] - Cost(FIXED, price, n)
               /\ v.balance[h] >= t.balance[h] - Cost(UNFIXED, price, n)
  BY ContractCharges
<1>2. v \in Books
  BY MakeContractEffect
<1>3. /\ v.position[c][f].quantity =
            t.position[c][f].quantity + ((IF f = f THEN n ELSE 0) - (IF f = h THEN n ELSE 0))
      /\ v.balance[f] + Worth(v.position[c][f].quantity, price) =
            t.balance[f] + Worth(t.position[c][f].quantity, price)
  BY ContractWealth
<1>4. Cost(FIXED, price, n) \in Nat /\ Cost(UNFIXED, price, n) \in Nat
  BY CostSplits DEF Cost, FIXED, UNFIXED
<1> HIDE DEF v
<1>5. CASE f = h
  <2> DEFINE q == t.position[c][f].quantity
  <2>1. q \in Int /\ t.balance[f] \in Int /\ v.balance[f] \in Int
    BY <1>2 DEF Books, Holding
  <2>2. Worth(q, price) \in Int
    BY <2>1, SideWorth
  <2>3. v.position[c][f].quantity = q
    <3>1. n - n = 0
      OBVIOUS
    <3> QED BY <1>3, <1>5, <2>1, <3>1
  <2>4. v.balance[f] + Worth(q, price) = t.balance[f] + Worth(q, price)
    BY <1>3, <2>3
  <2>5. v.balance[f] = t.balance[f]
    <3> DEFINE x == Worth(q, price)
               had == t.balance[f]
               has == v.balance[f]
    <3>1. x \in Int /\ had \in Int /\ has \in Int /\ has + x = had + x
      BY <2>1, <2>2, <2>4
    <3> HIDE DEF x, had, has
    <3>2. has = had
      BY <3>1
    <3> QED BY <3>2 DEF had, has
  <2> DEFINE x == Cost(FIXED, price, n)
             y == Cost(UNFIXED, price, n)
             had == t.balance[f]
  <2>6. x \in Nat /\ y \in Nat /\ had \in Int
    BY <1>4, <2>1
  <2> HIDE DEF x, y, had
  <2>7. had >= had - x /\ had >= had - y
    BY <2>6
  <2>8. /\ t.balance[f] >= t.balance[f] - Cost(FIXED, price, n)
        /\ t.balance[f] >= t.balance[f] - Cost(UNFIXED, price, n)
    BY <2>7 DEF x, y, had
  <2> HIDE DEF q
  <2>9. v.balance[f] >= t.balance[f] - Cost(FIXED, price, n)
    BY ONLY <2>5, <2>8, Zenon
  <2>10. v.balance[h] >= t.balance[h] - Cost(UNFIXED, price, n)
    BY <1>5, <2>5, <2>8
  <2>11. v.balance[h] \in Int
    BY <1>2 DEF Books
  <2> QED BY <2>9, <2>10, <2>11 DEF v
<1>6. v.balance[h] \in Int
  BY <1>2 DEF Books
<1> QED BY <1>1, <1>5, <1>6 DEF v

(* A trade with somebody else changes the trader's balance by what its     *)
(* position gains at the price.                                            *)
LEMMA TraderWealth ==
    ASSUME NEW t \in Books, NEW i \in OfferId, NEW n \in Nat, n <= t.offer[i].quantity,
           NEW c \in ContractType, NEW f \in Account, NEW h \in Account, NEW price \in Price,
           NEW a \in Account, a # t.offer[i].account
    PROVE  LET v == MakeContract(ReduceOffer(t, i, n), c, f, h, price, n)
           IN  /\ v.position[c][a].quantity =
                     t.position[c][a].quantity + ((IF a = f THEN n ELSE 0) - (IF a = h THEN n ELSE 0))
               /\ v.balance[a] + Worth(v.position[c][a].quantity, price) =
                     t.balance[a] + Worth(t.position[c][a].quantity, price)
<1> DEFINE r == ReduceOffer(t, i, n)
           v == MakeContract(r, c, f, h, price, n)
<1>1. r \in Books /\ r.position = t.position
  BY ReduceOfferEffect, AllFixedType
<1>2. r.balance[a] = t.balance[a]
  <2> DEFINE o == t.offer[i]
  <2>1. /\ r.offer[i] = IF n = o.quantity THEN NoOffer ELSE [o EXCEPT !.quantity = o.quantity - n]
        /\ \A k \in OfferId : k # i => r.offer[k] = t.offer[k]
        /\ r.position = t.position
        /\ r.balance = [t.balance EXCEPT ![o.account] =
                           t.balance[o.account] + Cost(o.side, o.price, n)]
        /\ Cost(o.side, o.price, n) \in Nat
    BY ONLY t \in Books, i \in OfferId, n \in Nat, n <= t.offer[i].quantity, ReducedOffer, Zenon
  <2>2. t.balance \in [Account -> Int]
    BY DEF Books
  <2> HIDE DEF r
  <2> QED BY <2>1, <2>2
<1> HIDE DEF r
<1>3. \A b \in Account :
         /\ v.position[c][b].quantity =
               r.position[c][b].quantity + ((IF b = f THEN n ELSE 0) - (IF b = h THEN n ELSE 0))
         /\ v.balance[b] + Worth(v.position[c][b].quantity, price) =
               r.balance[b] + Worth(r.position[c][b].quantity, price)
  <2>1. r \in Books
    BY <1>1
  <2> QED BY <2>1, ContractWealth
<1> HIDE DEF v
<1> QED BY <1>1, <1>2, <1>3 DEF v, r

(***************************************************************************)
(* What the requests keep.                                                 *)
(***************************************************************************)
(* No order of the site is all-or-nothing or expires. *)
PlainRow(o) == ~ o.aon /\ o.expires = Never
Plain(t) == \A i \in OfferId : PlainRow(t.offer[i])
PlainInv ==
    /\ Plain(db) /\ Plain(tx) /\ PlainRow(form.order)
    /\ order.quantity > 0 => PlainRow(order)

(* An Accept button is on an offer. *)
FormInv == form.by = "match" => form.source \in OfferId

(* An order in progress is what is left of the one posted; its contract    *)
(* type has not matured, and the trader has what the rest of a FIXED order *)
(* costs.                                                                  *)
AskedInv ==
    order.quantity > 0 =>
        /\ order = [asked.order EXCEPT !.quantity = order.quantity]
        /\ txNow < Matures[order.ct]
        /\ order.side = FIXED =>
              order.price * order.quantity <= tx.balance[order.account]

(* An order that accepts an offer still has a candidate with all it needs; *)
(* it has no offer of its own, and will have none.                         *)
AcceptInv ==
    asked.by = "match" /\ asked.sure =>
        /\ orders \in OfferId /\ ~ Exists(tx, orders) /\ ~ Exists(db, orders)
        /\ order.quantity > 0 =>
              \E i \in rows : tx.offer[i].quantity >= order.quantity

(* An order that ends a position lacks as many units as the position has   *)
(* left, and the balance and the worth of these at the order's price are   *)
(* what the position had cost, less what int() cut off.                    *)
DueRange == (asked.due - asked.order.quantity + 1) .. asked.due
OffsetInv ==
    asked.by = "offset" /\ asked.sure /\ order.quantity > 0 =>
        LET a == order.account
            q == tx.position[order.ct][a].quantity
        IN  /\ q = IF order.side = UNFIXED THEN order.quantity ELSE -order.quantity
            /\ tx.balance[a] + Worth(q, order.price) \in DueRange
            /\ \A i \in rows : tx.offer[i].account # a

WebInv ==
    WebTypeOK /\ PlainInv /\ FormInv /\ AskedInv /\ AcceptInv /\ OffsetInv /\ ChecksSuffice

(***************************************************************************)
(* The cookie.                                                             *)
(***************************************************************************)
(* The Trade button makes an order at a price that Offer() accepts. *)
LEMMA OffsettingType ==
    ASSUME NEW t \in Books, NEW c \in ContractType, NEW a \in Account,
           PaidPerUnit(t.position[c][a]) \in Price
    PROVE  Offsetting(t, c, a) \in OfferRow /\ PlainRow(Offsetting(t, c, a))
<1> DEFINE h == t.position[c][a]
           paid == PaidPerUnit(h)
<1>1. h.quantity \in Int
  BY DEF Books, Holding
<1>2. Abs(h.quantity) \in Nat
  BY <1>1 DEF Abs
<1>3. paid \in Price
  OBVIOUS
<1> HIDE DEF paid
<1>4. Unit - paid \in Price
  BY <1>3 DEF Price, Unit
<1> QED BY <1>2, <1>3, <1>4 DEF Offsetting, Order, OfferRow, PlainRow, Side, paid

(* What the browser and the last request hold stays in its types. *)
LEMMA CookieStep ==
    ASSUME IInv, WebTypeOK, Plain(tx), PlainRow(form.order), FormInv, [WebNext]_webVars
    PROVE  WebTypeOK' /\ PlainRow(form'.order) /\ FormInv'
<1>1. tx \in Database /\ tx \in Books
  BY TypedBooks DEF IInv, TypeOK
<1>2. NoOffer \in OfferRow /\ PlainRow(NoOffer)
  BY NoneTypes DEF PlainRow, NoOffer
<1>3. CASE UNCHANGED <<form, asked>>
  BY <1>3 DEF WebTypeOK, FormInv
<1>4. CASE OfferPage
  BY <1>4 DEF OfferPage, WebTypeOK, FormInv
<1>5. ASSUME NEW o \in Typed, PostTyped(o)
      PROVE  WebTypeOK' /\ PlainRow(form'.order) /\ FormInv'
  <2>1. o \in OfferRow /\ form' = NoForm /\ asked' = [NotAsked EXCEPT !.by = "typed", !.order = o]
    BY <1>5, SessionAssumption DEF PostTyped, PostOffer
  <2>2. 0 \in 0..MaxOrders
    BY TablesAssumption
  <2> QED BY <1>2, <2>1, <2>2 DEF WebTypeOK, FormInv, NoForm, NotAsked
<1>6. CASE PostMatch
  <2>1. /\ form' = form
        /\ asked' = [NotAsked EXCEPT !.by = "match", !.order = form.order, !.sure = SourceStands]
    BY <1>6 DEF PostMatch, PostOffer
  <2>2. SourceStands \in BOOLEAN
    BY DEF SourceStands
  <2> QED BY <2>1, <2>2 DEF WebTypeOK, FormInv, NotAsked
<1>7. CASE PostOffset
  <2> DEFINE o == form.order
             due == tx.balance[o.account] + tx.position[o.ct][o.account].basis
  <2>1. /\ form' = form
        /\ asked' = [by |-> "offset", order |-> o, sure |-> PositionStands, due |-> due]
    BY <1>7 DEF PostOffset, PostOffer
  <2>2. PositionStands \in BOOLEAN
    BY DEF PositionStands
  <2>3. o \in OfferRow /\ o.account \in Account /\ o.ct \in ContractType
    BY DEF WebTypeOK, OfferRow
  <2>4. due \in Nat
    <3>1. tx.balance[o.account] \in Nat /\ tx.position[o.ct][o.account].basis \in Nat
      BY <1>1, <2>3 DEF Database, Holding
    <3> QED BY <3>1
  <2> HIDE DEF due
  <2> QED BY <2>1, <2>2, <2>4 DEF WebTypeOK, FormInv
<1>8. ASSUME NEW a \in Account, NEW i \in OfferId, Match(a, i)
      PROVE  WebTypeOK' /\ PlainRow(form'.order) /\ FormInv'
  <2> DEFINE p == tx.offer[i]
             o == Matching(a, p)
  <2>1. /\ form' = [by |-> "match", order |-> o, source |-> i, shown |-> FALSE]
        /\ asked' = asked
    BY <1>8 DEF Match
  <2>2. p \in OfferRow
    BY <1>1 DEF Books
  <2>3. o \in OfferRow /\ PlainRow(o)
    BY <2>2 DEF Matching, Order, Other, OfferRow, PlainRow, Side
  <2>4. i \in 0..MaxOrders
    BY TablesAssumption DEF OfferId
  <2> HIDE DEF o
  <2> QED BY <2>1, <2>3, <2>4 DEF WebTypeOK, FormInv
<1>9. ASSUME NEW a \in Account, NEW c \in ContractType, Offset(a, c)
      PROVE  WebTypeOK' /\ PlainRow(form'.order) /\ FormInv'
  <2> DEFINE o == Offsetting(tx, c, a)
  <2>1. /\ form' = [by |-> "offset", order |-> o, source |-> 0, shown |-> FALSE]
        /\ asked' = asked
    BY <1>9 DEF Offset
  <2>2. o \in OfferRow /\ PlainRow(o)
    BY <1>1, <1>9, OffsettingType DEF Offset
  <2>3. 0 \in 0..MaxOrders
    BY TablesAssumption
  <2> HIDE DEF o
  <2> QED BY <2>1, <2>2, <2>3 DEF WebTypeOK, FormInv
<1>10. ASSUME NEW a \in Account, ListingPage(a) PROVE UNCHANGED <<form, asked>>
  BY <1>10 DEF ListingPage
<1>11. ASSUME NEW a \in Account, NEW c \in ContractType, NEW side \in Side, PostResolve(a, c, side)
       PROVE  UNCHANGED <<form, asked>>
  BY <1>11 DEF PostResolve
<1>12. ASSUME NEW i \in OfferId, CancelOwn(i) PROVE UNCHANGED <<form, asked>>
  BY <1>12 DEF CancelOwn
<1>13. CASE GetUser \/ NobodyKnown \/ OtherRequest \/ Operation \/ Environment \/ UNCHANGED webVars
  <2>1. UNCHANGED <<form, asked>>
    BY <1>13 DEF GetUser, NobodyKnown, OtherRequest, Operation, Environment, webVars
  <2> QED BY <1>3, <2>1
<1> QED
  BY <1>3, <1>4, <1>5, <1>6, <1>7, <1>8, <1>9, <1>10, <1>11, <1>12, <1>13 DEF WebNext

(***************************************************************************)
(* Steps that post nothing.                                                *)
(***************************************************************************)
(* Nothing but POST /offer places an order. *)
LEMMA OnlyPostsOrder ==
    ASSUME [WebNext]_webVars
    PROVE  (\E o \in Typed : PostTyped(o)) \/ PostMatch \/ PostOffset \/ UNCHANGED <<asked, orders>>
<1>1. LookupUser \/ LookupNobody \/ PersistOther \/ ListOffers => orders' = orders
  BY DEF LookupUser, LookupNobody, PersistOther, ListOffers
<1>2. Reads => orders' = orders
  BY <1>1 DEF Reads, vars
<1>3. OperationStep => orders' = orders
  <2>1. MatchRow => orders' = orders
    BY DEF MatchRow, SkipRow, FillRow, FillFails
  <2>2. RestOrder \/ RestFails \/ Sweep => orders' = orders
    BY DEF RestOrder, RestFails, Sweep, SweepOne, SweepRaises
  <2>3. SweepNext \/ SweepDone \/ ResolveDone \/ Pay \/ PayDone => orders' = orders
    BY DEF SweepNext, SweepDone, ResolveDone, Pay, PayOne, PayDone
  <2> QED BY <2>1, <2>2, <2>3 DEF OperationStep
<1>4. DailyCleanup \/ Restart \/ Tick => orders' = orders
  BY DEF DailyCleanup, Restart, Tick
<1>5. GetUser \/ NobodyKnown \/ OtherRequest \/ OfferPage => UNCHANGED <<asked, orders>>
  BY <1>1 DEF GetUser, NobodyKnown, OtherRequest, OfferPage
<1>6. ASSUME NEW a \in Account
      PROVE  /\ ListingPage(a) => UNCHANGED <<asked, orders>>
             /\ \A i \in OfferId : Match(a, i) => UNCHANGED <<asked, orders>>
             /\ \A c \in ContractType : Offset(a, c) => UNCHANGED <<asked, orders>>
             /\ \A c \in ContractType, side \in Side :
                   PostResolve(a, c, side) => UNCHANGED <<asked, orders>>
  BY <1>1, <1>2 DEF ListingPage, Match, Offset, PostResolve, Resolve
<1>7. \A i \in OfferId : CancelOwn(i) => UNCHANGED <<asked, orders>>
  BY DEF CancelOwn, Cancel
<1>8. Operation \/ Environment => UNCHANGED <<asked, orders>>
  BY <1>3, <1>4 DEF Operation, Environment
<1>9. UNCHANGED webVars => UNCHANGED <<asked, orders>>
  BY DEF webVars, vars
<1> QED BY <1>5, <1>6, <1>7, <1>8, <1>9 DEF WebNext

(* Only a statement that place() runs is refused by the schema. *)
LEMMA OnlyPlaceFails ==
    ASSUME [Next]_vars, raised' \in {"Short", "Late"}, raised' # raised
    PROVE  (\E i \in OfferId : FillFails(i)) \/ RestFails
<1> USE DEF HandlerRaises, ProcessEnds
<1>1. ~ (LookupUser \/ LookupNobody \/ PersistOther \/ ListOffers \/ DailyCleanup \/ Restart \/ Tick)
  BY DEF LookupUser, LookupNobody, PersistOther, ListOffers, DailyCleanup, Restart, Tick
<1>2. ~ (PlaceAny \/ CancelAny \/ ResolveAny)
  BY DEF PlaceAny, PlaceOrder, CancelAny, Cancel, ResolveAny, Resolve
<1>3. ~ (\E i \in OfferId : SkipRow(i) \/ FillRow(i)) /\ ~ RestOrder
  BY DEF SkipRow, FillRow, RestOrder
<1>4. ~ (Sweep \/ SweepNext \/ SweepDone \/ ResolveDone)
  BY DEF Sweep, SweepOne, SweepRaises, SweepNext, SweepDone, ResolveDone
<1>5. ~ (Pay \/ PayDone)
  BY DEF Pay, PayOne, PayDone
<1>6. ~ UNCHANGED vars
  BY DEF vars
<1> QED BY <1>1, <1>2, <1>3, <1>4, <1>5, <1>6 DEF Next, MatchRow

(* A refund leaves the other offers as they are. *)
LEMMA RefundedOffers ==
    ASSUME NEW t \in Books, NEW i \in OfferId
    PROVE  \A k \in OfferId :
              ReduceOffer(t, i, t.offer[i].quantity).offer[k] \in {t.offer[k], NoOffer}
<1> DEFINE n == t.offer[i].quantity
           r == ReduceOffer(t, i, n)
<1>1. n \in Nat /\ n <= t.offer[i].quantity
  BY DEF Books, OfferRow
<1>2. /\ r.offer[i] = IF n = t.offer[i].quantity THEN NoOffer
                      ELSE [t.offer[i] EXCEPT !.quantity = t.offer[i].quantity - n]
      /\ \A k \in OfferId : k # i => r.offer[k] = t.offer[k]
  <2> HIDE DEF n
  <2> QED BY <1>1, ReducedTables
<1> HIDE DEF r
<1>3. r.offer[i] = NoOffer
  BY <1>2
<1> QED BY <1>2, <1>3 DEF r

(* Every offer is as it was in the transaction, as it was committed, or    *)
(* gone.                                                                   *)
Dwindles ==
    \A k \in OfferId : /\ tx'.offer[k] \in {tx.offer[k], db.offer[k], NoOffer}
                       /\ db'.offer[k] \in {tx.offer[k], db.offer[k], NoOffer}

(* Outside an order, offers only leave. *)
LEMMA IdleDwindles ==
    ASSUME IInv, [Next]_vars, order.quantity = 0, orders' = orders
    PROVE  order'.quantity = 0 /\ Dwindles
<1>1. tx \in Books /\ pending \in Tally /\ orders \in Nat
  BY TypedBooks, TablesAssumption DEF IInv, TypeOK
<1>2. CASE UNCHANGED vars
  BY <1>2 DEF vars, Dwindles
<1>3. CASE Lost
  BY <1>3 DEF Lost, Dwindles
<1>4. CASE Kept
  BY <1>4 DEF Kept, Dwindles
<1>5. CASE CommitsAll
  BY <1>5 DEF CommitsAll, Same, Agree, Dwindles
<1>6. ~ RestOrder /\ ~ (\E o \in Trades : PlaceOrder(o))
  BY <1>1 DEF RestOrder, PlaceOrder
<1>7. ASSUME NEW i \in OfferId PROVE ~ SkipRow(i) /\ ~ FillRow(i)
  BY DEF SkipRow, FillRow, Fills
<1>8. ASSUME NEW i \in OfferId, SweepOne(i) \/ Cancel(i)
      PROVE  order'.quantity = 0 /\ Dwindles
  <2> DEFINE u == ReduceOffer(tx, i, tx.offer[i].quantity)
  <2>1. \A k \in OfferId : u.offer[k] \in {tx.offer[k], NoOffer}
    BY <1>1, RefundedOffers
  <2>2. u \in Books
    <3>1. tx.offer[i].quantity \in Nat /\ tx.offer[i].quantity <= tx.offer[i].quantity
      BY <1>1 DEF Books, OfferRow
    <3> QED BY <1>1, <3>1, ReduceOfferEffect, AllFixedType
  <2>3. CASE SweepOne(i)
    <3>1. tx' = u /\ UNCHANGED <<db, order>>
      BY <2>3 DEF SweepOne, placing
    <3> HIDE DEF u
    <3> QED BY <2>1, <3>1 DEF Dwindles
  <2>4. CASE Cancel(i)
    <3>1. tx' = Flushed(u, pending) /\ db' = tx' /\ UNCHANGED order
      BY <2>4 DEF Cancel, FlushAndCommit, placing
    <3> HIDE DEF u
    <3>2. tx'.offer = u.offer
      BY <1>1, <2>2, <3>1, FlushedEffect
    <3> QED BY <2>1, <3>1, <3>2 DEF Dwindles
  <2> QED BY <1>8, <2>3, <2>4
<1>9. ASSUME NEW a \in Account, PayOne(a)
      PROVE  order'.quantity = 0 /\ Dwindles
  <2>1. stage = "pay" /\ tx' = PayPosition(tx, ruling.ct, a, ruling.side)
        /\ UNCHANGED <<db, order>>
    BY <1>9 DEF PayOne, placing
  <2>2. ruling.ct \in ContractType /\ ruling.side \in Side
    BY <2>1 DEF IInv, StageInv, TypeOK
  <2>3. tx'.offer = tx.offer
    BY <1>1, <2>1, <2>2, PaidPosition
  <2> QED BY <2>1, <2>3 DEF Dwindles
<1> QED BY <1>2, <1>3, <1>4, <1>5, <1>6, <1>7, <1>8, <1>9, Moves

(* Offers that leave were plain, and none takes a free id. *)
LEMMA DwindledWeb ==
    ASSUME PlainInv, Dwindles
    PROVE  /\ Plain(db') /\ Plain(tx')
           /\ \A k \in OfferId :
                 ~ Exists(tx, k) /\ ~ Exists(db, k) => ~ Exists(tx', k) /\ ~ Exists(db', k)
<1>1. PlainRow(NoOffer) /\ ~ NoOffer.quantity > 0
  BY DEF PlainRow, NoOffer
<1>2. Plain(db') /\ Plain(tx')
  BY <1>1 DEF PlainInv, Plain, Dwindles
<1>3. \A k \in OfferId :
         ~ Exists(tx, k) /\ ~ Exists(db, k) => ~ Exists(tx', k) /\ ~ Exists(db', k)
  BY <1>1 DEF Exists, Dwindles
<1> QED BY <1>2, <1>3

(* When no order is in progress, what there is to say is of the tables. *)
LEMMA WebBetween ==
    ASSUME WebInv, UNCHANGED <<asked, orders>>, order'.quantity = 0,
           WebTypeOK', PlainRow(form'.order), FormInv', Plain(db'), Plain(tx'),
           asked.by = "match" /\ asked.sure => ~ Exists(tx', orders) /\ ~ Exists(db', orders),
           ChecksSuffice'
    PROVE  WebInv'
<1>1. PlainInv' /\ AskedInv' /\ OffsetInv'
  BY DEF PlainInv, AskedInv, OffsetInv
<1>2. AcceptInv'
  BY DEF WebInv, AcceptInv
<1> QED BY <1>1, <1>2 DEF WebInv

(* Nothing but a refused statement of place() is a concern of the checks. *)
LEMMA ChecksStay ==
    ASSUME WebInv, UNCHANGED asked, [Next]_vars,
           ~ RestFails, \A i \in OfferId : ~ FillFails(i)
    PROVE  ChecksSuffice'
<1>1. raised' = raised \/ raised' \notin {"Short", "Late"}
  BY OnlyPlaceFails
<1> QED BY <1>1 DEF WebInv, ChecksSuffice

(* Between orders. *)
LEMMA IdleWeb ==
    ASSUME IInv, WebInv, [WebNext]_webVars, UNCHANGED <<asked, orders>>, order.quantity = 0
    PROVE  WebInv'
<1>1. [Next]_vars
  BY WebStep
<1>2. order'.quantity = 0 /\ Dwindles
  BY <1>1, IdleDwindles
<1>3. WebTypeOK' /\ PlainRow(form'.order) /\ FormInv'
  BY CookieStep DEF WebInv, PlainInv
<1>4. Plain(db') /\ Plain(tx')
  BY <1>2, DwindledWeb DEF WebInv
<1>5. asked.by = "match" /\ asked.sure => ~ Exists(tx', orders) /\ ~ Exists(db', orders)
  BY <1>2, DwindledWeb DEF WebInv, AcceptInv
<1>6. ~ RestFails /\ \A i \in OfferId : ~ FillFails(i)
  BY DEF RestFails, FillFails, Fills
<1>7. ChecksSuffice'
  BY <1>1, <1>6, ChecksStay
<1> QED BY <1>2, <1>3, <1>4, <1>5, <1>7, WebBetween

(***************************************************************************)
(* An order in progress.                                                   *)
(***************************************************************************)
(* Neither a contract nor the rest of the order is late. *)
LEMMA NeverLate ==
    ASSUME IInv, WebInv, order.quantity > 0
    PROVE  ~ txNow > Matures[order.ct] /\ \A i, t : ~ Late(i, t)
<1>1. txNow \in Nat /\ order.ct \in ContractType /\ txNow < Matures[order.ct]
  BY DEF IInv, TypeOK, OfferRow, WebInv, AskedInv
<1>2. Matures[order.ct] \in Nat
  BY <1>1, TablesAssumption
<1>3. ~ txNow > Matures[order.ct]
  BY <1>1, <1>2
<1> QED BY <1>3 DEF Late

(* What is left of a FIXED order can be paid. *)
LEMMA FixedCovered ==
    ASSUME IInv, WebInv, order.quantity > 0, order.side = FIXED,
           NEW n \in Nat, n <= order.quantity
    PROVE  /\ order.price * n \in Nat /\ order.price * n <= tx.balance[order.account]
           /\ tx.balance[order.account] \in Nat
<1> DEFINE price == order.price
           q == order.quantity
           b == tx.balance[order.account]
<1>1. price \in Price /\ q \in Nat /\ order.account \in Account /\ tx \in Database
  BY DEF IInv, TypeOK, OfferRow
<1>2. price * q <= b
  BY DEF WebInv, AskedInv
<1>3. b \in Nat
  BY <1>1 DEF Database
<1>4. price * n \in Nat /\ price * q \in Nat /\ price * n <= price * q
  <2>1. /\ Cost(FIXED, price, n) \in Nat /\ Cost(FIXED, price, q) \in Nat
        /\ Cost(FIXED, price, q - n) = Cost(FIXED, price, q) - Cost(FIXED, price, n)
    <3> HIDE DEF price, q
    <3> QED BY <1>1, CostAdds DEF q
  <2>2. q - n \in Nat
    BY <1>1
  <2>3. Cost(FIXED, price, q - n) \in Nat
    <3> HIDE DEF price
    <3> DEFINE m == q - n
    <3> HIDE DEF m
    <3>1. m \in Nat
      BY <2>2 DEF m
    <3>2. price * m \in Nat
      BY <1>1, <3>1, CostSplits
    <3> QED BY <3>2 DEF Cost, m
  <2> DEFINE x == Cost(FIXED, price, n)
             y == Cost(FIXED, price, q)
  <2>4. x \in Nat /\ y \in Nat /\ y - x \in Nat
    BY <2>1, <2>3
  <2>5. x = price * n /\ y = price * q
    BY DEF Cost
  <2> HIDE DEF x, y
  <2>6. x <= y
    BY <2>4
  <2> QED BY <2>4, <2>5, <2>6
<1> HIDE DEF price, q, b
<1>5. price * n <= b
  <2> DEFINE x == price * n
             y == price * q
  <2>1. x \in Nat /\ y \in Nat /\ x <= y /\ y <= b
    BY <1>2, <1>4
  <2> HIDE DEF x, y
  <2>2. x <= b
    BY <1>3, <2>1
  <2> QED BY <2>2 DEF x
<1> QED BY <1>3, <1>4, <1>5 DEF price, b

(* So no statement of a fill of a FIXED order is refused: the trader pays  *)
(* at most the price, and the owner of the offer gets back more than it    *)
(* has to pay.                                                             *)
LEMMA FixedFills ==
    ASSUME IInv, TradeInv, WebInv, NEW i \in OfferId, Fills(i), order.side = FIXED
    PROVE  Refused(i, ReduceOffer(tx, i, ContractSize(i))) = "none"
<1> DEFINE n == ContractSize(i)
           p == tx.offer[i]
           t == ReduceOffer(tx, i, n)
           f == order.account
           h == p.account
           price == order.price
           c == order.ct
<1>1. /\ order.quantity > 0 /\ tx \in Database /\ tx \in Books /\ i \in rows
      /\ c \in ContractType /\ price \in Price /\ f \in Account /\ h \in Account
      /\ n \in Nat /\ n <= p.quantity /\ n <= order.quantity /\ p.price \in Price
      /\ FixedHolder(i) = f /\ UnfixedHolder(i) = h
  BY FillFacts, TypedBooks DEF IInv, TypeOK, Books, OfferRow, FixedHolder, UnfixedHolder
<1>2. p.side = UNFIXED /\ p.price <= price
  BY <1>1 DEF TradeInv, RowsInv, Suitable, Candidates, Crosses
<1>3. /\ price * n \in Nat /\ price * n <= tx.balance[f] /\ tx.balance[f] \in Nat
  BY <1>1, FixedCovered
<1>4. /\ t \in Books
      /\ t.balance = [tx.balance EXCEPT ![h] = tx.balance[h] + Cost(UNFIXED, p.price, n)]
      /\ Cost(UNFIXED, p.price, n) \in Nat
  <2>1. t \in Books
    BY <1>1, ReduceOfferEffect, AllFixedType
  <2>2. /\ t.offer[i] = IF n = p.quantity THEN NoOffer ELSE [p EXCEPT !.quantity = p.quantity - n]
        /\ \A k \in OfferId : k # i => t.offer[k] = tx.offer[k]
        /\ t.position = tx.position
        /\ t.balance = [tx.balance EXCEPT ![p.account] =
                           tx.balance[p.account] + Cost(p.side, p.price, n)]
        /\ Cost(p.side, p.price, n) \in Nat
    <3>1. tx \in Books /\ n \in Nat /\ n <= tx.offer[i].quantity
      BY <1>1
    <3> HIDE DEF n
    <3> QED BY ONLY <3>1, i \in OfferId, ReducedOffer, Zenon
  <2> QED BY <1>2, <2>1, <2>2
<1>5. Cost(UNFIXED, price, n) <= Cost(UNFIXED, p.price, n) /\ Cost(UNFIXED, price, n) \in Nat
  <2>1. Cost(UNFIXED, price, n) \in Nat
    BY <1>1, CostSplits DEF Cost, FIXED, UNFIXED
  <2> HIDE DEF n, p, price
  <2> QED BY <1>1, <1>2, <2>1, CostMonotone
<1>6. ~ Late(i, t)
  BY <1>1, NeverLate
<1>7. /\ FixedShort(i, t) <=> FixedCharged(t, c, f, h, price, n).balance[f] < 0
      /\ UnfixedShort(i, t) <=> MakeContract(t, c, f, h, price, n).balance[h] < 0
  BY <1>1 DEF FixedShort, UnfixedShort, Contracted
<1> HIDE DEF t, n, f, h, price, c
<1>8. /\ tx.balance \in [Account -> Nat] /\ t.balance[f] \in Nat /\ t.balance[f] >= tx.balance[f]
      /\ t.balance[h] = tx.balance[h] + Cost(UNFIXED, p.price, n)
  BY <1>1, <1>4 DEF Database
<1>9. ~ FixedShort(i, t)
  <2> DEFINE x == price * n
             had == t.balance[f]
             has == FixedCharged(t, c, f, h, price, n).balance[f]
  <2>1. has >= had - x /\ has \in Int
    BY <1>1, <1>4, FirstDebit
  <2>2. x \in Nat /\ had \in Nat /\ x <= had
    BY <1>3, <1>8
  <2> HIDE DEF x, had, has
  <2>3. ~ has < 0
    BY <2>1, <2>2
  <2> QED BY <1>7, <2>3 DEF has
<1>10. ~ UnfixedShort(i, t)
  <2> DEFINE x == Cost(UNFIXED, price, n)
             y == Cost(UNFIXED, p.price, n)
             had == tx.balance[h]
             has == MakeContract(t, c, f, h, price, n).balance[h]
  <2>1. has >= t.balance[h] - x /\ has \in Int
    BY <1>1, <1>4, ContractCosts
  <2>2. x \in Nat /\ y \in Nat /\ x <= y /\ had \in Nat /\ t.balance[h] = had + y
    BY <1>1, <1>4, <1>5, <1>8
  <2> HIDE DEF x, y, had, has
  <2>3. ~ has < 0
    BY <2>1, <2>2
  <2> QED BY <1>7, <2>3 DEF has
<1> QED BY <1>6, <1>9, <1>10 DEF Refused, t, n

(* A statement that is refused belongs to an UNFIXED order, and its        *)
(* transaction is lost.                                                    *)
LEMMA FailsWeb ==
    ASSUME IInv, TradeInv, WebInv, UNCHANGED <<asked, orders>>,
           WebTypeOK', PlainRow(form'.order), FormInv',
           (\E i \in OfferId : FillFails(i)) \/ RestFails
    PROVE  WebInv'
<1>1. /\ db' = db /\ tx' = db /\ order' = NoOffer /\ order.quantity > 0
      /\ raised' \in {"Short", "Late"}
  BY DEF FillFails, RestFails, StatementFails, NoOrder, Fills, Refused
<1>2. Plain(db') /\ Plain(tx') /\ order'.quantity = 0
  BY <1>1 DEF WebInv, PlainInv, NoOffer
<1>3. asked.by = "match" /\ asked.sure => ~ Exists(tx', orders) /\ ~ Exists(db', orders)
  BY <1>1 DEF WebInv, AcceptInv
<1>4. raised' # "Late"
  BY <1>1, NeverLate DEF FillFails, RestFails, StatementFails, Refused
<1>5. order.side # FIXED
  <2> SUFFICES ASSUME order.side = FIXED PROVE FALSE
    OBVIOUS
  <2>1. ASSUME NEW i \in OfferId, FillFails(i) PROVE FALSE
    BY <2>1, FixedFills DEF FillFails
  <2>2. CASE RestFails
    <3> DEFINE t == MakeOffer(tx, orders, order)
               e == Escrow(order)
               a == order.account
               d == Debit(tx, a, e)
    <3>1. order \in OfferRow /\ tx \in Books /\ a \in Account /\ order.quantity \in Nat
      BY TypedBooks DEF IInv, TypeOK, OfferRow
    <3>2. e \in Nat /\ e <= tx.balance[a] /\ tx.balance[a] \in Nat
      <4>1. order.quantity <= order.quantity
        BY <3>1
      <4>2. e = order.price * order.quantity
        BY DEF Escrow, Cost
      <4> QED BY <1>1, <3>1, <4>1, <4>2, FixedCovered
    <3>3. t = [d EXCEPT !.offer[orders] = order]
      BY DEF MakeOffer
    <3> HIDE DEF e, a, d, t
    <3>4. /\ d \in Books
          /\ d.balance = [tx.balance EXCEPT ![a] = tx.balance[a] - e]
      BY <3>1, <3>2, DebitEffect, DebitBalance DEF d
    <3>5. t.balance = d.balance
      BY <3>3, <3>4 DEF Books
    <3>6. tx.balance \in [Account -> Int]
      BY <3>1 DEF Books
    <3>7. t.balance[a] = tx.balance[a] - e
      BY <3>1, <3>4, <3>5, <3>6
    <3>8. ~ t.balance[a] < 0
      BY <3>2, <3>7
    <3>9. t.balance[order.account] < 0 \/ txNow > Matures[order.ct]
      BY <2>2 DEF RestFails, t
    <3> QED BY <1>1, <3>8, <3>9, NeverLate DEF a
  <2> QED BY <2>1, <2>2
<1>6. asked.order.side = UNFIXED
  <2>1. order.side = asked.order.side /\ order.side \in Side
    <3>1. order = [asked.order EXCEPT !.quantity = order.quantity]
      BY <1>1 DEF WebInv, AskedInv
    <3>2. asked.order \in OfferRow /\ order \in OfferRow
      BY DEF WebInv, WebTypeOK, IInv, TypeOK
    <3> QED BY <3>1, <3>2 DEF OfferRow
  <2> QED BY <1>5, <2>1 DEF Side
<1>7. ChecksSuffice'
  BY <1>4, <1>6 DEF ChecksSuffice
<1> QED BY <1>2, <1>3, <1>7, WebBetween

(* What rests is no order that accepts an offer: its candidate is left.    *)
LEMMA RestWeb ==
    ASSUME IInv, WebInv, [Next]_vars, UNCHANGED <<asked, orders>>,
           WebTypeOK', PlainRow(form'.order), FormInv', RestOrder
    PROVE  WebInv'
<1>1. /\ orders \in OfferId /\ tx'.offer = [tx.offer EXCEPT ![orders] = order]
      /\ db' = tx' /\ order' = NoOffer
  BY RestOrderTables
<1>2. order.quantity > 0 /\ rows = {} /\ raised' = raised
  BY DEF RestOrder
<1>3. PlainRow(order) /\ Plain(tx)
  BY <1>2 DEF WebInv, PlainInv
<1>4. tx.offer \in [OfferId -> OfferRow]
  BY TypedBooks DEF IInv, Books
<1>5. Plain(tx') /\ Plain(db')
  BY <1>1, <1>3, <1>4 DEF Plain
<1>6. ~ (asked.by = "match" /\ asked.sure)
  BY <1>2 DEF WebInv, AcceptInv
<1>7. ChecksSuffice'
  BY <1>2 DEF WebInv, ChecksSuffice
<1>8. order'.quantity = 0
  BY <1>1 DEF NoOffer
<1> QED BY <1>5, <1>6, <1>7, <1>8, WebBetween

(* A fill leaves plain offers, and no new one. *)
LEMMA FillTables ==
    ASSUME IInv, TradeInv, WebInv, NEW i \in OfferId, FillRow(i)
    PROVE  /\ Plain(tx') /\ Plain(db')
           /\ asked.by = "match" /\ asked.sure => ~ Exists(tx', orders) /\ ~ Exists(db', orders)
<1> DEFINE n == ContractSize(i)
<1>1. /\ tx'.offer[i] = IF n = tx.offer[i].quantity THEN NoOffer
                        ELSE [tx.offer[i] EXCEPT !.quantity = tx.offer[i].quantity - n]
      /\ \A k \in OfferId : k # i => tx'.offer[k] = tx.offer[k]
      /\ db' = tx' \/ db' = db
  BY FillRowTables
<1>2. tx.offer[i] \in OfferRow
  BY TypedBooks DEF IInv, Books
<1>3. Plain(tx) /\ Plain(db)
  BY DEF WebInv, PlainInv
<1> HIDE DEF n
<1>4. Plain(tx')
  BY <1>1, <1>2, <1>3 DEF Plain, PlainRow, NoOffer, OfferRow
<1>5. Exists(tx, i)
  BY FillFacts DEF FillRow
<1>6. asked.by = "match" /\ asked.sure => ~ Exists(tx', orders) /\ ~ Exists(db', orders)
  BY <1>1, <1>5 DEF WebInv, AcceptInv, Exists
<1> QED BY <1>1, <1>3, <1>4, <1>6

(* What a fill of n units that leaves the order some changes. *)
LEMMA PartFacts ==
    ASSUME IInv, NEW i \in OfferId, FillRow(i), ContractSize(i) # order.quantity
    PROVE  LET n == ContractSize(i)
           IN  /\ tx' = Contracted(i, ReduceOffer(tx, i, n))
               /\ order' = [order EXCEPT !.quantity = order.quantity - n]
               /\ rows' = rows \ {i} /\ i \in rows
               /\ UNCHANGED <<txNow, raised>>
               /\ n = tx.offer[i].quantity
               /\ order.quantity \in Nat /\ n \in Nat /\ n > 0 /\ n < order.quantity
               /\ order'.quantity = order.quantity - n /\ order'.account = order.account
               /\ order'.ct = order.ct /\ order'.side = order.side /\ order'.price = order.price
<1> DEFINE n == ContractSize(i)
           v == Contracted(i, ReduceOffer(tx, i, n))
<1>1. /\ Reducible(tx, i, n) /\ order \in OfferRow /\ i \in rows /\ n \in Nat /\ n > 0
      /\ n <= order.quantity /\ order.quantity \in Nat
  BY FillFacts DEF FillRow
<1>2. FillWith(i, v) /\ UNCHANGED raised
  <2> HIDE DEF v
  <2> QED BY <1>1 DEF FillRow, v
<1>3. n = tx.offer[i].quantity
  BY DEF ContractSize
<1> HIDE DEF v
<1>4. /\ tx' = v /\ order' = [order EXCEPT !.quantity = order.quantity - n]
      /\ rows' = rows \ {i} /\ UNCHANGED txNow
  BY <1>2 DEF FillWith
<1>5. n < order.quantity
  BY <1>1
<1> HIDE DEF n
<1>6. /\ order'.quantity = order.quantity - n /\ order'.account = order.account
      /\ order'.ct = order.ct /\ order'.side = order.side /\ order'.price = order.price
  BY <1>1, <1>4 DEF OfferRow
<1> QED BY <1>1, <1>2, <1>3, <1>4, <1>5, <1>6 DEF n, v

(* The rest of a FIXED order can still be paid. *)
LEMMA PartAsked ==
    ASSUME IInv, TradeInv, WebInv, NEW i \in OfferId, FillRow(i), UNCHANGED asked,
           ContractSize(i) # order.quantity
    PROVE  AskedInv'
<1> DEFINE n == ContractSize(i)
           price == order.price
           q == order.quantity
           a == order.account
           h == tx.offer[i].account
           r == ReduceOffer(tx, i, n)
<1>1. /\ tx' = Contracted(i, r)
      /\ order' = [order EXCEPT !.quantity = q - n] /\ UNCHANGED txNow
      /\ q \in Nat /\ n \in Nat /\ n > 0 /\ n < q /\ n = tx.offer[i].quantity
      /\ order'.quantity = q - n /\ order'.account = a
      /\ order'.ct = order.ct /\ order'.side = order.side /\ order'.price = price
  BY PartFacts
<1>2. /\ tx \in Books /\ order \in OfferRow /\ asked.order \in OfferRow
      /\ order.ct \in ContractType /\ price \in Price /\ a \in Account /\ h \in Account
  BY TypedBooks DEF IInv, TypeOK, WebInv, WebTypeOK, OfferRow, Books
<1>3. order = [asked.order EXCEPT !.quantity = q] /\ txNow < Matures[order.ct]
  BY <1>1 DEF WebInv, AskedInv
<1>4. order' = [asked'.order EXCEPT !.quantity = order'.quantity]
  BY <1>1, <1>2, <1>3 DEF OfferRow
<1>5. ASSUME order.side = FIXED
      PROVE  price * (q - n) <= tx'.balance[a]
  <2>1. /\ price * q \in Nat /\ price * n \in Nat /\ price * q <= tx.balance[a]
        /\ tx.balance[a] \in Nat
    BY <1>1, <1>5, FixedCovered
  <2>2. r \in Books /\ r.balance[a] >= tx.balance[a] /\ r.balance[a] \in Int
    <3> DEFINE p == tx.offer[i]
               paid == Cost(p.side, p.price, n)
    <3>1. r \in Books
      BY <1>1, <1>2, ReduceOfferEffect, AllFixedType
    <3>2. /\ r.offer[i] = IF n = p.quantity THEN NoOffer ELSE [p EXCEPT !.quantity = p.quantity - n]
          /\ \A k \in OfferId : k # i => r.offer[k] = tx.offer[k]
          /\ r.position = tx.position
          /\ r.balance = [tx.balance EXCEPT ![p.account] =
                             tx.balance[p.account] + Cost(p.side, p.price, n)]
          /\ Cost(p.side, p.price, n) \in Nat
      <4>1. tx \in Books /\ n \in Nat /\ n <= tx.offer[i].quantity
        BY <1>1, <1>2
      <4> HIDE DEF n
      <4> QED BY ONLY <4>1, i \in OfferId, ReducedOffer, Zenon
    <3> HIDE DEF r, paid
    <3>3. /\ r.balance = [tx.balance EXCEPT ![p.account] = tx.balance[p.account] + paid]
          /\ paid \in Nat
      BY <3>2 DEF paid
    <3>4. tx.balance \in [Account -> Int] /\ p.account \in Account
      BY <1>2 DEF Books
    <3> HIDE DEF p, n, a
    <3> QED BY <1>2, <3>1, <3>3, <3>4
  <2>3. tx' = MakeContract(r, order.ct, a, h, price, n)
    BY <1>1, <1>5 DEF Contracted, FixedHolder, UnfixedHolder
  <2>4. tx'.balance[a] >= r.balance[a] - price * n /\ tx'.balance[a] \in Int
    <3> DEFINE c == order.ct
    <3>1. c \in ContractType /\ n \in Nat
      BY <1>1, <1>2
    <3> HIDE DEF r, n, a, h, price, c
    <3>2. /\ MakeContract(r, c, a, h, price, n).balance[a] >= r.balance[a] - Cost(FIXED, price, n)
          /\ MakeContract(r, c, a, h, price, n) \in Books
      BY <1>2, <2>2, <3>1, ContractCosts, MakeContractEffect
    <3>3. Cost(FIXED, price, n) = price * n
      BY DEF Cost
    <3>4. tx' = MakeContract(r, c, a, h, price, n)
      BY <2>3 DEF c
    <3>5. MakeContract(r, c, a, h, price, n).balance[a] \in Int
      BY <1>2, <3>2 DEF Books
    <3> QED BY <3>2, <3>3, <3>4, <3>5
  <2>5. price * (q - n) = price * q - price * n
    <3>1. price \in Int
      BY <1>2 DEF Price
    <3> HIDE DEF price, q, n
    <3> QED BY <1>1, <3>1
  <2> DEFINE x == price * q
             y == price * n
             had == tx.balance[a]
             back == r.balance[a]
             has == tx'.balance[a]
  <2>6. /\ x \in Nat /\ y \in Nat /\ x <= had /\ had \in Nat /\ back >= had /\ back \in Int
        /\ has >= back - y /\ has \in Int
    BY <2>1, <2>2, <2>4
  <2> HIDE DEF x, y, had, back, has
  <2>7. x - y <= has
    BY <2>6
  <2>8. price * q - price * n <= tx'.balance[a]
    BY <2>7 DEF x, y, has
  <2> QED BY <2>5, <2>8
<1> HIDE DEF n, q, price, a
<1> QED BY <1>1, <1>3, <1>4, <1>5 DEF AskedInv

(* The candidate of an order that accepts an offer is not the one just     *)
(* used up, which had too little.                                          *)
LEMMA PartAccept ==
    ASSUME IInv, TradeInv, WebInv, NEW i \in OfferId, FillRow(i), UNCHANGED <<asked, orders>>,
           ContractSize(i) # order.quantity
    PROVE  AcceptInv'
<1> SUFFICES ASSUME asked.by = "match" /\ asked.sure
             PROVE  \E k \in rows' : tx'.offer[k].quantity >= order'.quantity
  BY FillTables DEF AcceptInv, WebInv
<1> DEFINE n == ContractSize(i)
<1>1. /\ rows' = rows \ {i} /\ n = tx.offer[i].quantity /\ n < order.quantity
      /\ order'.quantity = order.quantity - n /\ order.quantity \in Nat /\ n \in Nat /\ n > 0
  BY PartFacts
<1>2. PICK k \in rows : tx.offer[k].quantity >= order.quantity
  BY <1>1 DEF WebInv, AcceptInv
<1>3. rows \subseteq OfferId /\ tx \in Books
  BY TypedBooks DEF IInv, TypeOK
<1>4. tx.offer[k].quantity \in Nat
  BY <1>3 DEF Books, OfferRow
<1> HIDE DEF n
<1>5. k # i
  BY <1>1, <1>2, <1>4
<1>6. tx'.offer[k] = tx.offer[k]
  BY <1>3, <1>5, FillRowTables
<1>7. tx.offer[k].quantity >= order.quantity - n
  BY <1>1, <1>2, <1>4
<1> QED BY <1>1, <1>5, <1>6, <1>7

(* The contract of row i, with somebody else, for the trader. *)
LEMMA TraderFill ==
    ASSUME IInv, NEW i \in OfferId, Fills(i), tx.offer[i].account # order.account
    PROVE  LET n == ContractSize(i)
               a == order.account
               c == order.ct
               v == Contracted(i, ReduceOffer(tx, i, n))
               q == tx.position[c][a].quantity
           IN  /\ v.position[c][a].quantity = IF order.side = FIXED THEN q + n ELSE q - n
               /\ v.balance[a] + Worth(v.position[c][a].quantity, order.price) =
                     tx.balance[a] + Worth(q, order.price)
               /\ q \in Int
<1> DEFINE n == ContractSize(i)
           a == order.account
           c == order.ct
           price == order.price
           f == FixedHolder(i)
           h == UnfixedHolder(i)
           r == ReduceOffer(tx, i, n)
           v == MakeContract(r, c, f, h, price, n)
           q == tx.position[c][a].quantity
<1>1. /\ tx \in Books /\ n \in Nat /\ n <= tx.offer[i].quantity /\ c \in ContractType
      /\ f \in Account /\ h \in Account /\ price \in Price /\ a \in Account
  BY FillFacts, TypedBooks DEF IInv, TypeOK, OfferRow
<1>2. IF order.side = FIXED THEN a = f /\ a # h ELSE a # f /\ a = h
  BY DEF FixedHolder, UnfixedHolder
<1>3. q \in Int
  BY <1>1 DEF Books, Holding
<1>4. v = Contracted(i, r)
  BY DEF Contracted
<1>5. /\ v.position[c][a].quantity = q + ((IF a = f THEN n ELSE 0) - (IF a = h THEN n ELSE 0))
      /\ v.balance[a] + Worth(v.position[c][a].quantity, price) = tx.balance[a] + Worth(q, price)
  <2>1. a # tx.offer[i].account
    OBVIOUS
  <2> HIDE DEF n, a, c, price, f, h
  <2> QED BY <1>1, <2>1, TraderWealth
<1> HIDE DEF v, q, n
<1>6. v.position[c][a].quantity = IF order.side = FIXED THEN q + n ELSE q - n
  <2>1. n \in Int /\ n - 0 = n /\ q + (0 - n) = q - n
    BY <1>1, <1>3
  <2> HIDE DEF a, c, f, h
  <2> QED BY <1>2, <1>5, <2>1
<1> QED BY <1>3, <1>4, <1>5, <1>6 DEF v, q, n

(* An order that ends a position stays in step with it. *)
LEMMA PartOffset ==
    ASSUME IInv, TradeInv, WebInv, NEW i \in OfferId, FillRow(i), UNCHANGED asked,
           ContractSize(i) # order.quantity
    PROVE  OffsetInv'
<1> SUFFICES ASSUME asked.by = "offset" /\ asked.sure PROVE OffsetInv'
  BY DEF OffsetInv
<1> DEFINE n == ContractSize(i)
           a == order.account
           c == order.ct
           q == tx.position[c][a].quantity
           v == tx'
           w == tx'.position[c][a].quantity
<1>1. /\ v = Contracted(i, ReduceOffer(tx, i, n))
      /\ rows' = rows \ {i} /\ i \in rows
      /\ order.quantity \in Nat /\ n \in Nat /\ n > 0 /\ n < order.quantity
      /\ order'.quantity = order.quantity - n /\ order'.account = a
      /\ order'.ct = c /\ order'.side = order.side /\ order'.price = order.price
  BY PartFacts
<1>2. /\ q = IF order.side = UNFIXED THEN order.quantity ELSE -order.quantity
      /\ tx.balance[a] + Worth(q, order.price) \in DueRange
      /\ \A k \in rows : tx.offer[k].account # a
  BY <1>1 DEF WebInv, OffsetInv
<1>3. /\ w = IF order.side = FIXED THEN q + n ELSE q - n
      /\ v.balance[a] + Worth(w, order.price) = tx.balance[a] + Worth(q, order.price)
      /\ q \in Int
  <2>1. Fills(i) /\ tx.offer[i].account # a
    BY <1>1, <1>2 DEF FillRow
  <2> QED BY <1>1, <2>1, TraderFill
<1>4. order.side \in Side
  BY DEF IInv, TypeOK, OfferRow
<1> HIDE DEF n, q, v, w, a, c
<1>5. w = IF order.side = UNFIXED THEN order.quantity - n ELSE -(order.quantity - n)
  BY <1>1, <1>2, <1>3, <1>4 DEF Side, FIXED, UNFIXED
<1>6. DueRange' = DueRange
  BY DEF DueRange
<1>7. \A k \in rows' : tx'.offer[k].account # a
  <2>1. rows \subseteq OfferId
    BY DEF IInv, TypeOK
  <2>2. \A k \in OfferId : k # i => tx'.offer[k] = tx.offer[k]
    BY FillRowTables
  <2> QED BY <1>1, <1>2, <2>1, <2>2
<1>8. tx'.balance[a] + Worth(w, order.price) \in DueRange
  BY <1>2, <1>3 DEF v
<1>9. tx'.position[order'.ct][order'.account].quantity = w
  BY <1>1 DEF w
<1> QED BY <1>1, <1>5, <1>6, <1>7, <1>8, <1>9 DEF OffsetInv

(* A fill keeps what the requests keep. *)
LEMMA FillWeb ==
    ASSUME IInv, TradeInv, WebInv, UNCHANGED <<asked, orders>>,
           WebTypeOK', PlainRow(form'.order), FormInv',
           NEW i \in OfferId, FillRow(i)
    PROVE  WebInv'
<1>1. raised' = raised
  BY FillFacts DEF FillRow
<1>2. ChecksSuffice'
  BY <1>1 DEF WebInv, ChecksSuffice
<1>3. CASE ContractSize(i) = order.quantity
  <2>1. order'.quantity = 0
    BY <1>3, FillRowCommits
  <2> QED BY <1>2, <2>1, FillTables, WebBetween
<1>4. CASE ContractSize(i) # order.quantity
  <2>1. PlainInv'
    <3>1. order.quantity > 0 /\ order' = [order EXCEPT !.quantity = order.quantity - ContractSize(i)]
      BY <1>4, PartFacts
    <3>2. PlainRow(order')
      <4>1. PlainRow(order) /\ order \in OfferRow
        BY <3>1 DEF WebInv, PlainInv, IInv, TypeOK
      <4> QED BY <3>1, <4>1 DEF PlainRow, OfferRow
    <3> QED BY <3>2, FillTables DEF PlainInv
  <2> QED BY <1>2, <1>4, <2>1, PartAsked, PartAccept, PartOffset DEF WebInv
<1> QED BY <1>3, <1>4

(* No row is skipped. *)
LEMMA NeverSkips ==
    ASSUME WebInv, NEW i \in OfferId
    PROVE  ~ SkipRow(i)
  BY DEF WebInv, PlainInv, Plain, PlainRow, SkipRow, Skips

(* While an order is in progress. *)
LEMMA OrderWeb ==
    ASSUME IInv, TradeInv, WebInv, [WebNext]_webVars, UNCHANGED <<asked, orders>>,
           order.quantity > 0
    PROVE  WebInv'
<1>1. [Next]_vars
  BY WebStep
<1>2. WebTypeOK' /\ PlainRow(form'.order) /\ FormInv'
  BY CookieStep DEF WebInv, PlainInv
<1>3. CASE Restart
  <2>1. db' = db /\ tx' = db /\ order' = NoOffer /\ raised' = "killed"
    BY <1>3 DEF Restart, ProcessEnds, NoOrder
  <2>2. ChecksSuffice'
    BY <2>1 DEF ChecksSuffice
  <2>3. Plain(db') /\ Plain(tx') /\ order'.quantity = 0
    BY <2>1 DEF WebInv, PlainInv, NoOffer
  <2>4. asked.by = "match" /\ asked.sure => ~ Exists(tx', orders) /\ ~ Exists(db', orders)
    BY <2>1 DEF WebInv, AcceptInv
  <2> QED BY <1>2, <2>2, <2>3, <2>4, WebBetween
<1>4. CASE UNCHANGED vars
  <2>1. PlainInv' /\ AskedInv' /\ ChecksSuffice'
    BY <1>2, <1>4 DEF vars, connection, placing, WebInv, PlainInv, AskedInv, ChecksSuffice
  <2>2. AcceptInv'
    BY <1>4 DEF vars, connection, placing, WebInv, AcceptInv
  <2>3. OffsetInv'
    BY <1>4 DEF vars, connection, placing, WebInv, OffsetInv, DueRange
  <2> QED BY <1>2, <2>1, <2>2, <2>3 DEF WebInv
<1>5. CASE (\E i \in OfferId : FillFails(i)) \/ RestFails
  BY <1>2, <1>5, FailsWeb
<1> QED BY <1>1, <1>2, <1>3, <1>4, <1>5, OrderSteps, NeverSkips, FillWeb, RestWeb

(***************************************************************************)
(* Posting an order.                                                       *)
(***************************************************************************)
(* What the form has checked holds when the order begins. *)
LEMMA PostWeb ==
    ASSUME IInv, WebInv, NEW o, NEW request, NEW cookie, PostOffer(o, request, cookie),
           request.order = o, PlainRow(o),
           WebTypeOK', PlainRow(form'.order), FormInv', AcceptInv', OffsetInv'
    PROVE  WebInv'
<1>1. /\ o \in OfferRow /\ UNCHANGED <<db, tx>> /\ order' = o /\ asked' = request
      /\ raised' = "none" /\ txNow' = Clock
  BY SessionAssumption DEF PostOffer, PlaceOrder, OpenTransaction
<1>2. PlainInv'
  BY <1>1 DEF WebInv, PlainInv, Plain
<1>3. AskedInv'
  <2>1. o = [o EXCEPT !.quantity = o.quantity]
    BY <1>1 DEF OfferRow
  <2>2. Clock < Matures[o.ct] /\ o.price * o.quantity <= tx.balance[o.account]
    BY DEF PostOffer, Valid, Affordable
  <2> QED BY <1>1, <2>1, <2>2 DEF AskedInv
<1>4. ChecksSuffice'
  BY <1>1 DEF ChecksSuffice
<1> QED BY <1>2, <1>3, <1>4 DEF WebInv

(* An order that accepts an offer that stands has it as a candidate. *)
LEMMA PostMatchWeb ==
    ASSUME IInv, IInv', TradeInv', WebInv, WebTypeOK', PlainRow(form'.order), FormInv', PostMatch
    PROVE  WebInv'
<1> DEFINE o == form.order
           request == [NotAsked EXCEPT !.by = "match", !.order = o, !.sure = SourceStands]
           i == form.source
           p == tx.offer[i]
<1>1. PostOffer(o, request, form) /\ i \in OfferId
  BY DEF PostMatch, WebInv, FormInv
<1>2. request.order = o /\ request.by = "match" /\ request.sure = SourceStands
  BY DEF NotAsked
<1> HIDE DEF request
<1>3. /\ UNCHANGED <<db, tx>> /\ order' = o /\ asked' = request
      /\ rows' = Candidates(tx, o, Clock) /\ orders' = orders + 1 /\ orders < MaxOrders
  BY <1>1 DEF PostOffer, PlaceOrder
<1>4. PlainRow(o) /\ o \in OfferRow /\ o.quantity > 0
  BY <1>1, SessionAssumption DEF WebInv, PlainInv, PostOffer
<1>5. OffsetInv'
  BY <1>2, <1>3 DEF OffsetInv
<1>6. AcceptInv'
  <2> SUFFICES ASSUME SourceStands
               PROVE  /\ orders' \in OfferId /\ ~ Exists(tx', orders') /\ ~ Exists(db', orders')
                      /\ \E k \in rows' : tx'.offer[k].quantity >= order'.quantity
    BY <1>2, <1>3 DEF AcceptInv
  <2>1. orders' \in OfferId
    BY <1>3, TablesAssumption DEF IInv, TypeOK, OfferId
  <2>2. ~ Exists(tx', orders') /\ ~ Exists(db', orders')
    BY <1>3, <1>4 DEF IInv, IdsInv, TradeInv, RowsInv
  <2>3. p \in OfferRow
    BY <1>1, TypedBooks DEF IInv, Books
  <2>4. Exists(tx, i) /\ Matching(o.account, p) = o
    BY DEF SourceStands
  <2>5. p.ct = o.ct /\ p.price = o.price /\ p.quantity = o.quantity /\ o.side = Other(p.side)
    BY <2>3, <2>4 DEF Matching, Order
  <2>6. Crosses(o, p)
    BY <2>3, <2>5 DEF Crosses, Other, OfferRow, Side, FIXED, UNFIXED, Price
  <2>7. ~ Expired(p, Clock)
    BY <1>1 DEF WebInv, PlainInv, Plain, PlainRow, Expired
  <2>8. i \in rows'
    BY <1>1, <1>3, <2>4, <2>5, <2>6, <2>7 DEF Candidates
  <2>9. tx'.offer[i].quantity >= order'.quantity
    BY <1>3, <1>4, <2>5 DEF OfferRow
  <2> QED BY <2>1, <2>2, <2>8, <2>9
<1> QED BY <1>1, <1>2, <1>4, <1>5, <1>6, PostWeb

(* What a position is worth at the price paid, as int() cuts it. *)
LEMMA WorthPaid ==
    ASSUME NEW basis \in Nat, NEW n \in Nat, n > 0
    PROVE  /\ (basis \div n) * n <= basis
           /\ (basis \div n) * n >= basis - n + 1
           /\ (basis \div n) * n \in Int
<1> DEFINE d == basis \div n
           r == basis % n
<1>1. d \in Int /\ r \in 0..(n - 1) /\ basis = n * d + r
  OBVIOUS
<1> HIDE DEF d, r
<1>2. d * n = n * d /\ n * d \in Int
  BY <1>1
<1> DEFINE x == n * d
<1> HIDE DEF x
<1>3. x \in Int /\ basis = x + r
  BY <1>1, <1>2 DEF x
<1>4. x <= basis /\ x >= basis - n + 1
  BY <1>1, <1>3
<1> QED BY <1>2, <1>3, <1>4 DEF x, d

(* The order that ends a position has its units, at the price paid. *)
LEMMA OffsettingWorth ==
    ASSUME NEW t \in Books, NEW c \in ContractType, NEW a \in Account, HasPosition(t, c, a)
    PROVE  LET o == Offsetting(t, c, a)
               h == t.position[c][a]
           IN  /\ h.quantity = IF o.side = UNFIXED THEN o.quantity ELSE -o.quantity
               /\ Worth(h.quantity, o.price) <= h.basis
               /\ Worth(h.quantity, o.price) >= h.basis - o.quantity + 1
               /\ Worth(h.quantity, o.price) \in Int
               /\ o.quantity \in Nat
<1> DEFINE o == Offsetting(t, c, a)
           h == t.position[c][a]
           q == h.quantity
           n == Abs(q)
           paid == PaidPerUnit(h)
<1>1. q \in Int /\ h.basis \in Nat /\ q # 0
  BY DEF Books, Holding, HasPosition
<1>2. n \in Nat /\ n > 0 /\ q = IF q > 0 THEN n ELSE -n
  BY <1>1 DEF Abs
<1>3. paid = h.basis \div n
  BY DEF PaidPerUnit
<1>4. /\ o.side = IF q > 0 THEN UNFIXED ELSE FIXED
      /\ o.price = IF q > 0 THEN paid ELSE Unit - paid
      /\ o.quantity = n
  BY DEF Offsetting, Order
<1> HIDE DEF o, paid, n
<1>5. paid * n <= h.basis /\ paid * n >= h.basis - n + 1 /\ paid * n \in Int
  BY <1>1, <1>2, <1>3, WorthPaid
<1>6. paid \in Int
  BY <1>1, <1>2, <1>3
<1>7. Worth(q, o.price) = paid * n
  <2>1. CASE q > 0
    BY <1>4, <2>1 DEF Worth, Cost, n
  <2>2. CASE ~ q > 0
    <3>1. Unit - (Unit - paid) = paid
      BY <1>6 DEF Unit
    <3> QED BY <1>4, <2>2, <3>1 DEF Worth, Cost, n, FIXED, UNFIXED
  <2> QED BY <2>1, <2>2
<1>8. h.quantity = IF o.side = UNFIXED THEN o.quantity ELSE -o.quantity
  BY <1>2, <1>4 DEF FIXED, UNFIXED
<1> QED BY <1>2, <1>4, <1>5, <1>7, <1>8 DEF o

(* An order for a position that stands begins in step with it. *)
LEMMA PostOffsetWeb ==
    ASSUME IInv, WebInv, WebTypeOK', PlainRow(form'.order), FormInv', PostOffset
    PROVE  WebInv'
<1> DEFINE o == form.order
           a == o.account
           h == tx.position[o.ct][a]
           due == tx.balance[a] + h.basis
           request == [by |-> "offset", order |-> o, sure |-> PositionStands, due |-> due]
<1>1. PostOffer(o, request, form)
  BY DEF PostOffset
<1>2. /\ request.order = o /\ request.by = "offset" /\ request.sure = PositionStands
      /\ request.due = due
  OBVIOUS
<1> HIDE DEF request
<1>3. /\ UNCHANGED <<db, tx>> /\ order' = o /\ asked' = request
      /\ rows' = Candidates(tx, o, Clock)
  BY <1>1 DEF PostOffer, PlaceOrder
<1>4. PlainRow(o) /\ o \in OfferRow
  BY <1>1, SessionAssumption DEF WebInv, PlainInv, PostOffer
<1>5. AcceptInv'
  BY <1>2, <1>3 DEF AcceptInv
<1>6. OffsetInv'
  <2> SUFFICES ASSUME PositionStands PROVE OffsetInv'
    BY <1>2, <1>3 DEF OffsetInv
  <2>1. /\ HasPosition(tx, o.ct, a) /\ Offsetting(tx, o.ct, a) = o
        /\ \A i \in Candidates(tx, o, Clock) : tx.offer[i].account # a
    BY DEF PositionStands
  <2>2. tx \in Books /\ a \in Account /\ o.ct \in ContractType
    BY <1>4, TypedBooks DEF IInv, OfferRow
  <2>3. /\ h.quantity = IF o.side = UNFIXED THEN o.quantity ELSE -o.quantity
        /\ Worth(h.quantity, o.price) <= h.basis
        /\ Worth(h.quantity, o.price) >= h.basis - o.quantity + 1
        /\ Worth(h.quantity, o.price) \in Int
        /\ o.quantity \in Nat
    <3>1. LET x == Offsetting(tx, o.ct, a)
              y == tx.position[o.ct][a]
          IN  /\ y.quantity = IF x.side = UNFIXED THEN x.quantity ELSE -x.quantity
              /\ Worth(y.quantity, x.price) <= y.basis
              /\ Worth(y.quantity, x.price) >= y.basis - x.quantity + 1
              /\ Worth(y.quantity, x.price) \in Int
              /\ x.quantity \in Nat
      <4> HIDE DEF o, a, h, due
      <4> QED BY <2>1, <2>2, OffsettingWorth
    <3> QED BY <2>1, <3>1
  <2>4. h.basis \in Nat /\ tx.balance[a] \in Int
    BY <2>2 DEF Books, Holding
  <2>5. tx.balance[a] + Worth(h.quantity, o.price) \in (due - o.quantity + 1) .. due
    <3> DEFINE x == Worth(h.quantity, o.price)
               y == tx.balance[a]
               z == h.basis
               n == o.quantity
    <3>1. x \in Int /\ y \in Int /\ z \in Int /\ n \in Int /\ x <= z /\ x >= z - n + 1
      BY <2>3, <2>4
    <3>2. due = y + z
      OBVIOUS
    <3> HIDE DEF x, y, z, n, due
    <3>3. y + x \in (due - n + 1) .. due
      BY <3>1, <3>2
    <3> QED BY <3>3 DEF x, y, n
  <2> HIDE DEF due
  <2>6. DueRange' = (due - o.quantity + 1) .. due
    BY <1>2, <1>3 DEF DueRange
  <2>7. order' = o /\ tx' = tx
    BY <1>3
  <2>8. \A i \in rows' : tx'.offer[i].account # a
    BY <1>3, <2>1
  <2> HIDE DEF o
  <2> QED BY <2>3, <2>5, <2>6, <2>7, <2>8 DEF OffsetInv
<1> QED BY <1>1, <1>2, <1>4, <1>5, <1>6, PostWeb

(* An order that a user typed. *)
LEMMA PostTypedWeb ==
    ASSUME IInv, WebInv, WebTypeOK', PlainRow(form'.order), FormInv',
           NEW o \in Typed, PostTyped(o)
    PROVE  WebInv'
<1> DEFINE request == [NotAsked EXCEPT !.by = "typed", !.order = o]
<1>1. PostOffer(o, request, NoForm)
  BY DEF PostTyped
<1>2. request.order = o /\ request.by = "typed"
  BY DEF NotAsked
<1> HIDE DEF request
<1>3. asked' = request
  BY <1>1 DEF PostOffer
<1>4. AcceptInv' /\ OffsetInv'
  BY <1>2, <1>3 DEF AcceptInv, OffsetInv
<1>5. PlainRow(o)
  BY WebAssumption DEF PlainRow
<1> QED BY <1>1, <1>2, <1>4, <1>5, PostWeb

(***************************************************************************)
(* The site.                                                               *)
(***************************************************************************)
(* Nothing has been asked yet. *)
LEMMA WebBegins ==
    ASSUME WebInit
    PROVE  WebInv
<1>1. /\ db = EmptyBook /\ tx = EmptyBook /\ order = NoOffer /\ form = NoForm
      /\ asked = NotAsked /\ raised = "none"
  BY DEF WebInit, Init, NoOrder
<1>2. PlainRow(NoOffer) /\ NoOffer \in OfferRow /\ ~ NoOffer.quantity > 0
  BY NoneTypes DEF PlainRow, NoOffer
<1>3. 0 \in 0..MaxOrders
  BY TablesAssumption
<1>4. WebTypeOK
  BY <1>1, <1>2, <1>3 DEF WebTypeOK, NoForm, NotAsked
<1>5. PlainInv
  BY <1>1, <1>2 DEF PlainInv, Plain, EmptyBook, NoForm
<1> QED
  BY <1>1, <1>2, <1>4, <1>5
  DEF WebInv, FormInv, AskedInv, AcceptInv, OffsetInv, ChecksSuffice, NoForm, NotAsked

(* Each request, each step of an order, the job and a crash keep it. *)
LEMMA WebInvStep ==
    ASSUME IInv, IInv', TradeInv, TradeInv', WebInv, [WebNext]_webVars
    PROVE  WebInv'
<1>1. WebTypeOK' /\ PlainRow(form'.order) /\ FormInv'
  BY CookieStep DEF WebInv, PlainInv
<1>2. CASE UNCHANGED <<asked, orders>>
  <2>1. order.quantity \in Nat
    BY DEF IInv, TypeOK, OfferRow
  <2>2. CASE order.quantity = 0
    BY <1>2, <2>2, IdleWeb
  <2>3. CASE order.quantity > 0
    BY <1>2, <2>3, OrderWeb
  <2> QED BY <2>1, <2>2, <2>3
<1> QED BY <1>1, <1>2, OnlyPostsOrder, PostTypedWeb, PostMatchWeb, PostOffsetWeb

(* The strengthening holds whatever is asked of the site. *)
THEOREM WebInvariance == WebSpec => [](IInv /\ TradeInv /\ WebInv)
<1>1. WebInit => WebInv
  BY WebBegins
<1>2. WebSpec => [](IInv /\ TradeInv)
  BY SiteIsSession, TradeInvariance
<1>3. IInv /\ TradeInv /\ IInv' /\ TradeInv' /\ WebInv /\ [WebNext]_webVars => WebInv'
  BY WebInvStep
<1> QED BY <1>1, <1>2, <1>3, PTL DEF WebSpec

(* The cookie holds an order that Offer() accepts, and what is due for a   *)
(* position is no debt.                                                    *)
THEOREM CookieTypes == WebSpec => []WebTypeOK
<1>1. WebInv => WebTypeOK
  BY DEF WebInv
<1> QED BY <1>1, WebInvariance, PTL

(* What the form checks before place_order is all that a FIXED order       *)
(* needs, however many contracts it is broken into, and no order that      *)
(* passes it is refused for its maturity (POST /offer).                    *)
THEOREM FormSuffices == WebSpec => []ChecksSuffice
<1>1. WebInv => ChecksSuffice
  BY DEF WebInv
<1> QED BY <1>1, WebInvariance, PTL

(* The Accept button of an offer that stands always trades: its order      *)
(* never comes to rest as an offer of the user's own (POST /match).        *)
THEOREM AcceptedTrades == WebSpec => []AcceptTrades
<1>1. WebInv => AcceptTrades
  BY DEF WebInv, AcceptInv, AcceptTrades
<1> QED BY <1>1, WebInvariance, PTL

(* The fill that ends an order for a position closes the position. *)
LEMMA LastFill ==
    ASSUME IInv, TradeInv, WebInv, NEW i \in OfferId, FillRow(i),
           ContractSize(i) = order.quantity, asked.by = "offset", asked.sure
    PROVE  /\ db'.position[order.ct][order.account] = NoHolding
           /\ db'.balance[order.account] \in DueRange
<1> DEFINE n == ContractSize(i)
           a == order.account
           c == order.ct
           q == tx.position[c][a].quantity
           v == Contracted(i, ReduceOffer(tx, i, n))
           w == v.position[c][a].quantity
           list == Note(Note(pending, order.ct, FixedHolder(i), n),
                        order.ct, UnfixedHolder(i), -n)
<1>1. Fills(i) /\ i \in rows
  BY FillFacts DEF FillRow
<1>2. /\ pending \in Tally /\ c \in ContractType /\ a \in Account /\ order.price \in Price
      /\ FixedHolder(i) \in Account /\ UnfixedHolder(i) \in Account
      /\ order.quantity \in Nat /\ order.quantity > 0 /\ order.side \in Side
      /\ n \in Nat /\ n = order.quantity /\ Reducible(tx, i, n)
  BY <1>1, FillFacts DEF OfferRow
<1>3. Refused(i, ReduceOffer(tx, i, n)) = "none" /\ FillWith(i, v)
  BY <1>2 DEF FillRow
<1>4. v \in Database /\ Cleared(v)
  BY <1>1, <1>3, FillEffect
<1>5. /\ q = IF order.side = UNFIXED THEN order.quantity ELSE -order.quantity
      /\ tx.balance[a] + Worth(q, order.price) \in DueRange
      /\ \A k \in rows : tx.offer[k].account # a
  BY <1>2 DEF WebInv, OffsetInv
<1>6. /\ w = IF order.side = FIXED THEN q + n ELSE q - n
      /\ v.balance[a] + Worth(w, order.price) = tx.balance[a] + Worth(q, order.price)
      /\ q \in Int
  <2>1. tx.offer[i].account # a
    BY <1>1, <1>5
  <2> QED BY <1>1, <2>1, TraderFill
<1> HIDE DEF v
<1>7. list \in Tally
  <2>1. -n \in Int /\ n \in Int
    BY <1>2
  <2>2. Note(pending, order.ct, FixedHolder(i), n) \in Tally
    BY <1>2, <2>1, NoteType
  <2> QED BY <1>2, <2>1, <2>2, NoteType
<1>8. db'.position = v.position /\ db'.balance = v.balance
  <2>1. db' = Flushed(v, list)
    BY <1>2, <1>3 DEF FillWith
  <2> HIDE DEF list
  <2>2. v \in Books
    BY <1>4, DatabaseBooks
  <2> QED BY <1>7, <2>1, <2>2, FlushedEffect
<1> HIDE DEF n, q, w, list
<1>9. w = 0
  BY <1>2, <1>5, <1>6 DEF Side, FIXED, UNFIXED
<1>10. v.position[c][a] = NoHolding
  BY <1>2, <1>4, <1>9 DEF Cleared, w
<1>11. Worth(0, order.price) = 0
  <2>1. order.price \in Int /\ Unit \in Int
    BY <1>2 DEF Price, Unit
  <2>2. Unit - order.price \in Int
    BY <2>1
  <2>3. \A x \in Int : x * 0 = 0
    OBVIOUS
  <2>4. ~ 0 > 0 /\ Abs(0) = 0 /\ UNFIXED # FIXED
    BY DEF Abs, FIXED, UNFIXED
  <2>5. Worth(0, order.price) = (Unit - order.price) * 0
    BY ONLY <2>4 DEF Worth, Cost
  <2> QED BY <2>2, <2>3, <2>5
<1>12. v.balance[a] \in DueRange
  <2>1. v.balance[a] \in Int
    BY <1>2, <1>4 DEF Database
  <2>2. v.balance[a] + 0 = tx.balance[a] + Worth(q, order.price)
    BY <1>6, <1>9, <1>11
  <2> QED BY <1>5, <2>1, <2>2 DEF q
<1> QED BY <1>8, <1>10, <1>12

(* A position is closed at what it had cost, for one step. *)
LEMMA OffsetStep ==
    ASSUME IInv, TradeInv, WebInv, [WebNext]_webVars,
           asked.by = "offset", asked.sure, order.quantity > 0, order'.quantity = 0,
           raised' = "none", ~ Exists(db', orders)
    PROVE  LET o == asked.order
           IN  /\ db'.position[o.ct][o.account] = NoHolding
               /\ db'.balance[o.account] \in (asked.due - o.quantity + 1) .. asked.due
<1> DEFINE o == asked.order
<1>1. [Next]_vars
  BY WebStep
<1>2. o.ct = order.ct /\ o.account = order.account
  <2>1. o \in OfferRow /\ order = [o EXCEPT !.quantity = order.quantity]
    BY DEF WebInv, WebTypeOK, AskedInv
  <2> QED BY <2>1 DEF OfferRow
<1>3. ~ RestOrder
  <2> SUFFICES ASSUME RestOrder PROVE FALSE
    OBVIOUS
  <2>1. orders \in OfferId /\ tx'.offer = [tx.offer EXCEPT ![orders] = order] /\ db' = tx'
    BY RestOrderTables
  <2>2. tx.offer \in [OfferId -> OfferRow]
    BY TypedBooks DEF IInv, Books
  <2> QED BY <2>1, <2>2 DEF Exists
<1>4. ~ RestFails /\ \A i \in OfferId : ~ FillFails(i)
  BY DEF RestFails, FillFails, StatementFails, Refused
<1>5. ~ Restart /\ ~ UNCHANGED vars
  BY DEF Restart, ProcessEnds, vars, placing
<1>6. PICK i \in OfferId : FillRow(i)
  BY <1>1, <1>3, <1>4, <1>5, OrderSteps, NeverSkips
<1>7. ContractSize(i) = order.quantity
  <2> SUFFICES ASSUME ContractSize(i) # order.quantity PROVE FALSE
    OBVIOUS
  <2> QED BY <1>6, PartFacts
<1>8. /\ db'.position[order.ct][order.account] = NoHolding
      /\ db'.balance[order.account] \in DueRange
  BY <1>6, <1>7, LastFill
<1> QED BY <1>2, <1>8 DEF DueRange

(* The Trade button of a position that stands, when others take all of its *)
(* order at once, ends the position with no gain or loss but what int()    *)
(* cuts off, however many offers the order is matched with (POST /offset,  *)
(* Position.offset).                                                       *)
THEOREM PositionCloses == WebSpec => OffsetCloses
<1>1. IInv /\ TradeInv /\ WebInv /\ [WebNext]_webVars =>
        [LET o == asked.order
         IN  /\ asked.by = "offset" /\ asked.sure
             /\ order.quantity > 0 /\ order'.quantity = 0 /\ raised' = "none"
             /\ ~ Exists(db', orders)
             => /\ db'.position[o.ct][o.account] = NoHolding
                /\ db'.balance[o.account] \in (asked.due - o.quantity + 1) .. asked.due]_webVars
  BY OffsetStep
<1> QED BY <1>1, WebInvariance, PTL DEF WebSpec, OffsetCloses
====
