---- MODULE Deals ----
(***************************************************************************)
(* What two states of the tables have to do with each other: t is an       *)
(* earlier one and u a later one.  Market says with these relations what a *)
(* commit may do, and the proof that Session implements Market says with   *)
(* them what an open transaction has done so far.                          *)
(***************************************************************************)
EXTENDS Tables

Open(t) == {i \in OfferId : Exists(t, i)}

(* What account a has set aside for its offers. *)
SetAside(t, a) ==
    [i \in OfferId |-> IF t.offer[i].account = a THEN Escrow(t.offer[i]) ELSE 0]
Reserved(t, a) == SumTo(SetAside(t, a), MaxOrders)

(* What a position of q units is worth when a FIXED unit is worth price. *)
Worth(q, price) == Cost(IF q > 0 THEN FIXED ELSE UNFIXED, price, Abs(q))

Wealth(t, a, c, price) ==
    t.balance[a] + Reserved(t, a) + Worth(t.position[c][a].quantity, price)

(* Every account is as rich as before at this price. *)
FairAt(t, u, c, price) ==
    \A a \in Account : Wealth(u, a, c, price) = Wealth(t, a, c, price)

(***************************************************************************)
(* Offers leave the book whole.                                            *)
(***************************************************************************)
Withdrawn(t, u, gone) ==
    /\ u.offer = [i \in OfferId |-> IF i \in gone THEN NoOffer ELSE t.offer[i]]
    /\ \A a \in Account : u.balance[a] + Reserved(u, a) = t.balance[a] + Reserved(t, a)
    /\ u.position = t.position
    /\ u.fees = t.fees

(***************************************************************************)
(* An order o takes units from offers of the other side.                   *)
(***************************************************************************)
Suits(o, p) ==
    /\ p.ct = o.ct
    /\ p.side # o.side
    /\ IF o.side = FIXED THEN p.price <= o.price ELSE p.price >= o.price

Taken(t, u, i) == t.offer[i].quantity - u.offer[i].quantity

(* The units that the offers of account a in this set gave up. *)
GivenUp(t, u, a, filled) ==
    [i \in OfferId |-> IF i \in filled /\ t.offer[i].account = a THEN Taken(t, u, i) ELSE 0]
TakenFrom(t, u, a, filled) == SumTo(GivenUp(t, u, a, filled), MaxOrders)
TakenAll(t, u, filled) ==
    SumTo([a \in Account |-> TakenFrom(t, u, a, filled)], NumAccounts)

(* An offer that is filled is one that suits the order; it is reduced, or *)
(* it is used up.                                                          *)
Filled(t, u, o, i) ==
    /\ Suits(o, t.offer[i])
    /\ Taken(t, u, i) > 0
    /\ \/ u.offer[i] = NoOffer
       \/ /\ ~ t.offer[i].aon
          /\ u.offer[i] = [t.offer[i] EXCEPT !.quantity = @ - Taken(t, u, i)]

(* The owner of a filled offer takes its units on that offer's side, the   *)
(* trader takes them all on the other.                                     *)
PositionsAfter(t, u, o, filled, total) ==
    LET sign == IF o.side = FIXED THEN 1 ELSE -1
    IN  \A c \in ContractType, a \in Account :
           IF c = o.ct
           THEN u.position[c][a].quantity =
                   t.position[c][a].quantity
                     + sign * ((IF a = o.account THEN total ELSE 0)
                                 - TakenFrom(t, u, a, filled))
           ELSE u.position[c][a] = t.position[c][a]

(* The order has taken total units from the filled offers; those in gone   *)
(* were withdrawn, and the others are as they were.                        *)
Exchanged(t, u, o, gone, filled, total) ==
    /\ total <= o.quantity
    /\ o.aon => total \in {0, o.quantity}
    /\ \A i \in Open(t) \ gone : i \in filled \/ u.offer[i] = t.offer[i]
    /\ \A i \in filled : Filled(t, u, o, i)
    /\ PositionsAfter(t, u, o, filled, total)
    /\ FairAt(t, u, o.ct, o.price)
    /\ u.fees = t.fees

(* What is left of the order is the one new offer. *)
Rested(t, u, o, left) ==
    LET new == Open(u) \ Open(t)
    IN  IF left = 0 THEN new = {}
        ELSE \E k \in OfferId :
                new = {k} /\ u.offer[k] = [o EXCEPT !.quantity = left]

Traded(t, u, o, gone, filled, total) ==
    Exchanged(t, u, o, gone, filled, total) /\ Rested(t, u, o, o.quantity - total)

(***************************************************************************)
(* A contract type is settled.                                             *)
(***************************************************************************)
Won(h, side) == IF Wins(h, side) THEN Payout(Abs(h.quantity), h.basis) ELSE 0

PaidOut(t, u, c, side) ==
    /\ u.offer = t.offer
    /\ u.position = [t.position EXCEPT ![c] = [a \in Account |-> NoHolding]]
    /\ \A a \in Account : u.balance[a] = t.balance[a] + Won(t.position[c][a], side)
    /\ TokenTotal(u) = TokenTotal(t)
====
