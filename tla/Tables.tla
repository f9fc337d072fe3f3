---- MODULE Tables ----
(***************************************************************************)
(* The rows that a trade touches, and what each statement group of the     *)
(* code does to them.  A value t of type Database stands for the tables    *)
(* account, offer, position and message of schema.sql:                     *)
(*                                                                         *)
(*   t.balance[a]       account.balance, in millitokens                    *)
(*   t.offer[i]         the offer with id i; quantity 0 means no such row  *)
(*   t.position[c][a]   the position of account a on contract type c;      *)
(*                      quantity 0 means no such row, positive is FIXED    *)
(*   t.told[c][a]       what a's messages about c add up to                *)
(*   t.fees             what resolve() kept from winners (no row holds it) *)
(*                                                                         *)
(* Every operator is a pure function from tables to tables; the modules    *)
(* that extend this one decide when a transaction applies it.              *)
(***************************************************************************)
EXTENDS Sums

CONSTANTS
    NumAccounts,    \* accounts are 1 .. NumAccounts
    NumTypes,       \* contract types are 1 .. NumTypes
    MaxOrders,      \* bound on the offer ids ever assigned
    Matures,        \* contract type -> the time in its maturity row
    Private,        \* contract types whose issue is not public
    InitialBalance  \* account -> starting balance

Account == 1..NumAccounts
ContractType == 1..NumTypes
OfferId == 1..MaxOrders

ASSUME TablesAssumption ==
    /\ NumAccounts \in Nat /\ NumAccounts > 0
    /\ NumTypes \in Nat /\ NumTypes > 0
    /\ MaxOrders \in Nat
    /\ Matures \in [ContractType -> Nat]
    /\ Private \subseteq ContractType
    /\ InitialBalance \in [Account -> Nat]

Unit == 1000        \* a unit is worth 1000 millitokens to the winner
Price == 1..(Unit - 1)
FIXED == "FIXED"
UNFIXED == "UNFIXED"
Side == {FIXED, UNFIXED}
Never == -1         \* offer.expires IS NULL

OfferRow == [account : Account, ct : ContractType, side : Side, price : Price,
             quantity : Nat, aon : BOOLEAN, expires : Nat \cup {Never}]
NoOffer == [account |-> 1, ct |-> 1, side |-> FIXED, price |-> 1,
            quantity |-> 0, aon |-> FALSE, expires |-> Never]

Holding == [quantity : Int, basis : Nat]
NoHolding == [quantity |-> 0, basis |-> 0]

(* Messages about a contract type, to one account: the units of the        *)
(* contracts created since the last contract_resolved, whether there was   *)
(* one, and what those say was won (tokens) or lost (units).               *)
Report == [units : Int, closed : BOOLEAN, won : Int]
NoReport == [units |-> 0, closed |-> FALSE, won |-> 0]

Tally == [ContractType -> [Account -> Report]]
NoTally == [c \in ContractType |-> [a \in Account |-> NoReport]]

Database == [balance  : [Account -> Nat],
             offer    : [OfferId -> OfferRow],
             position : [ContractType -> [Account -> Holding]],
             told     : Tally,
             fees     : Nat]

EmptyBook ==
    [balance  |-> InitialBalance,
     offer    |-> [i \in OfferId |-> NoOffer],
     position |-> [c \in ContractType |-> [a \in Account |-> NoHolding]],
     told     |-> NoTally,
     fees     |-> 0]

Exists(t, i) == t.offer[i].quantity > 0

Expired(o, when) == o.expires # Never /\ o.expires <= when

(***************************************************************************)
(* Tokens.                                                                 *)
(***************************************************************************)
(* What one side pays for n units at a price of the FIXED side. *)
Cost(side, price, n) ==
    IF side = FIXED THEN price * n ELSE (Unit - price) * n

Escrow(o) == Cost(o.side, o.price, o.quantity)

Credit(t, a, amount) == [t EXCEPT !.balance[a] = @ + amount]
Debit(t, a, amount) == [t EXCEPT !.balance[a] = @ - amount]

(***************************************************************************)
(* offer.py                                                                *)
(***************************************************************************)
(* A mutant: the offer shrinks and its owner gets nothing back. *)
ReduceOfferUnpaid(t, i, n) ==
    LET o == t.offer[i]
    IN  [t EXCEPT !.offer[i] = IF n = o.quantity THEN NoOffer
                               ELSE [o EXCEPT !.quantity = @ - n]]

(* Take n units off offer i and give its owner the tokens back. *)
ReduceOffer(t, i, n) ==
    LET o == t.offer[i]
    IN  [Credit(t, o.account, Cost(o.side, o.price, n)) EXCEPT
            !.offer[i] = IF n = o.quantity THEN NoOffer
                         ELSE [o EXCEPT !.quantity = @ - n]]

(* The checks that reduce_offer turns into a RuntimeError. *)
Reducible(t, i, n) ==
    /\ Exists(t, i)
    /\ n > 0
    /\ n <= t.offer[i].quantity
    /\ t.offer[i].aon => n = t.offer[i].quantity

(* Store o as offer i and take its price from its owner. *)
MakeOffer(t, i, o) ==
    [Debit(t, o.account, Escrow(o)) EXCEPT !.offer[i] = o]

(***************************************************************************)
(* contract.py                                                             *)
(***************************************************************************)
Abs(n) == IF n < 0 THEN -n ELSE n
AtLeastZero(n) == IF n < 0 THEN 0 ELSE n

(* q_and_refund: units of a trade of n that offset a position of q. *)
Covered(q, n) ==
    IF (q < 0 /\ n > 0) \/ (q > 0 /\ n < 0)
    THEN IF Abs(q) <= Abs(n) THEN Abs(q) ELSE Abs(n)
    ELSE 0

(* persist_side: a trade of n units (negative: UNFIXED) at the unit price *)
(* paid joins the position h. *)
PersistSide(h, paid, n) ==
    LET basis == h.basis + paid * Abs(n) - Unit * Covered(h.quantity, n)
    IN  IF h.quantity + n = 0 THEN NoHolding
        ELSE [quantity |-> h.quantity + n, basis |-> AtLeastZero(basis)]

(* The trade needs an INSERT, which the maturity trigger sees. *)
Inserts(h, n) == h.quantity = 0 /\ n # 0

FixedPersisted(t, c, f, price, n) ==
    [t EXCEPT !.position[c][f] = PersistSide(@, price, n)]

(* A mutant: only one of the two positions is stored. *)
PersistedOneSide(t, c, f, u, price, n) == FixedPersisted(t, c, f, price, n)

Persisted(t, c, f, u, price, n) ==
    [FixedPersisted(t, c, f, price, n) EXCEPT
        !.position[c][u] = PersistSide(@, Unit - price, -n)]

FixedCharge(t, c, f, price, n) ==
    price * n - Unit * Covered(t.position[c][f].quantity, n)

UnfixedCharge(t, c, f, u, price, n) ==
    (Unit - price) * n
      - Unit * Covered(FixedPersisted(t, c, f, price, n).position[c][u].quantity, -n)

FixedCharged(t, c, f, u, price, n) ==
    Debit(Persisted(t, c, f, u, price, n), f, FixedCharge(t, c, f, price, n))

(* make_contract: both positions, then both debits, in that order. *)
MakeContract(t, c, f, u, price, n) ==
    Debit(FixedCharged(t, c, f, u, price, n), u, UnfixedCharge(t, c, f, u, price, n))

(* One of the INSERTs that make_contract needs meets the maturity trigger. *)
NeedsInsert(t, c, f, u, price, n) ==
    \/ Inserts(t.position[c][f], n)
    \/ Inserts(FixedPersisted(t, c, f, price, n).position[c][u], -n)

(***************************************************************************)
(* resolve()                                                               *)
(***************************************************************************)
HalfEven(n, d) ==
    LET q == n \div d
        r == n % d
    IN  IF 2 * r > d \/ (2 * r = d /\ q % 2 = 1) THEN q + 1 ELSE q

(* 10% of the gain, in whole tokens, and never less than one. *)
Fee(n, basis) ==
    LET tokens == HalfEven(n * Unit - basis, 10 * Unit)
    IN  Unit * (IF tokens > 1 THEN tokens ELSE 1)

Payout(n, basis) == AtLeastZero(n * Unit - Fee(n, basis))

Wins(h, side) == (h.quantity > 0) <=> (side = FIXED)

(* Pay the position of account a on c and delete it. *)
PayPosition(t, c, a, side) ==
    LET h == t.position[c][a]
        n == Abs(h.quantity)
        won == IF Wins(h, side) THEN Payout(n, h.basis) ELSE 0
        kept == IF Wins(h, side) THEN n * Unit - won ELSE 0
    IN  [Credit(t, a, won) EXCEPT
            !.position[c][a] = NoHolding,
            !.fees = @ + kept]

(***************************************************************************)
(* message.py: the list of messages not yet in the table.                  *)
(***************************************************************************)
(* A mutant: the list keeps the last message of an account only. *)
NoteLast(list, c, a, n) == [list EXCEPT ![c][a] = [NoReport EXCEPT !.units = n]]

(* contract_created: n units (negative: UNFIXED). *)
Note(list, c, a, n) == [list EXCEPT ![c][a].units = @ + n]

(* A mutant: the winner is told of units, before the fee. *)
ReportedUnits(h, side) == IF Wins(h, side) THEN Abs(h.quantity) ELSE -Abs(h.quantity)

(* contract_resolved: a winner is told of the tokens that were paid, at a  *)
(* price of 1, a loser of the units, at a price of 0.                      *)
Reported(h, side) ==
    IF Wins(h, side) THEN Payout(Abs(h.quantity), h.basis) \div Unit ELSE -Abs(h.quantity)

NoteResolved(list, c, a, h, side) ==
    [list EXCEPT ![c][a] = [units |-> 0, closed |-> TRUE, won |-> @.won + Reported(h, side)]]

(* One account's messages, after those it has had. *)
Heard(old, new) ==
    [units  |-> IF new.closed THEN new.units ELSE old.units + new.units,
     closed |-> FALSE,
     won    |-> old.won + new.won]

Flushed(t, list) ==
    [t EXCEPT !.told = [c \in ContractType |->
                           [a \in Account |-> Heard(t.told[c][a], list[c][a])]]]

(***************************************************************************)
(* Totals.                                                                 *)
(***************************************************************************)
Net(t, c) == SumTo([a \in Account |-> t.position[c][a].quantity], NumAccounts)

(* Units of c that one side holds. *)
Held(t, c, side) ==
    SumTo([a \in Account |->
              AtLeastZero(IF side = FIXED THEN t.position[c][a].quantity
                                          ELSE -t.position[c][a].quantity)],
          NumAccounts)

Balances(t) == SumTo(t.balance, NumAccounts)
Escrows(t) == SumTo([i \in OfferId |-> Escrow(t.offer[i])], MaxOrders)
Stakes(t) == SumTo([c \in ContractType |-> Unit * Held(t, c, FIXED)], NumTypes)

TokenTotal(t) == Balances(t) + Escrows(t) + Stakes(t) + t.fees
====
