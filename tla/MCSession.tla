---- MODULE MCSession ----
(***************************************************************************)
(* Small instances of Session: the constants its configurations use.       *)
(***************************************************************************)
EXTENDS Session

Trade(a, c, side, price, n) ==
    [account |-> a, ct |-> c, side |-> side, price |-> price,
     quantity |-> n, aon |-> FALSE, expires |-> Never]
Whole(o) == [o EXCEPT !.aon = TRUE]
Until(o, when) == [o EXCEPT !.expires = when]

(* Trading: two accounts that cannot afford everything, both sides, two    *)
(* prices, sizes 1 and 2, all-or-nothing at size 2.                        *)
OneType == <<0>>
TightBalances == <<1500, 1000>>
PlainTrades == {Trade(a, 1, side, price, n) :
                  a \in 1..2, side \in Side, price \in {400, 600}, n \in 1..2}
TightTrades == PlainTrades \cup {Whole(o) : o \in {p \in PlainTrades : p.quantity = 2}}

(* Life cycle: a public and a private contract type that both mature at   *)
(* 1, offers that expire at 1 or never, balances that afford everything.   *)
PublicAndPrivate == <<1, 1>>
AmpleBalances == <<9000, 9000>>
LifeTrades ==
    {Trade(1, c, FIXED, 600, 2) : c \in 1..2} \cup
    {Trade(2, c, UNFIXED, 600, n) : c \in 1..2, n \in 1..2} \cup
    {Until(Trade(2, c, UNFIXED, 400, 1), 1) : c \in 1..2}

(* The daily job: one public contract type that matures at 1, offers that  *)
(* never expire.                                                           *)
MaturesAtOne == <<1>>
DailyTrades ==
    {Trade(1, 1, FIXED, 600, 2), Trade(2, 1, UNFIXED, 600, 1), Trade(2, 1, UNFIXED, 900, 1)}

(* Offers that expire when their contract type matures. *)
ExpiringTrades == {Until(Trade(1, 1, FIXED, 600, 1), 1), Trade(2, 1, UNFIXED, 600, 2)}

(* Two sizes of order on both sides, for accounts that hold positions.     *)
SwapTrades == {Trade(a, 1, side, 500, 1) : a \in 1..2, side \in Side}

(* An order larger than the other side of the book and than its balance.   *)
ThinBalances == <<1000, 1000>>
ThinTrades == {Trade(1, 1, FIXED, 600, 2), Trade(2, 1, UNFIXED, 600, 1)}
====
