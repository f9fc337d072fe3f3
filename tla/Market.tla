---- MODULE Market ----
(***************************************************************************)
(* What the market promises its users, between one commit and the next.    *)
(* The tables change in three ways only:                                   *)
(*                                                                         *)
(*   Withdraw   offers leave the book whole and their owners get back what *)
(*              they had set aside                                         *)
(*   Trade      one order takes units from offers of the other side, each  *)
(*              at a price its owner accepted, and what is left of it      *)
(*              becomes an offer; offers may be withdrawn in the same step *)
(*   Settle     all positions of one contract type are paid and closed     *)
(*                                                                         *)
(* Nothing is said of the order in which offers are matched, of statements *)
(* or transactions, of the cost basis of a position or of messages.        *)
(* Session, which has all of these, implements this specification with     *)
(* book as its committed tables.                                           *)
(***************************************************************************)
EXTENDS Deals

CONSTANT Trades     \* the offers users ask for

VARIABLE book

Init == book = EmptyBook

Withdraw(gone) == Withdrawn(book, book', gone)

(* filled and total are bound rather than defined so that TLC computes     *)
(* each of them once per step.                                             *)
Trade(gone) ==
    \E filled \in {{i \in Open(book) \ gone : Taken(book, book', i) # 0}} :
    \E total \in {TakenAll(book, book', filled)}, o \in Trades :
        Traded(book, book', o, gone, filled, total)

Settle(c, side) == PaidOut(book, book', c, side)

Next ==
    /\ book' # book
    /\ \/ \E gone \in SUBSET (Open(book) \ Open(book')) : Withdraw(gone) \/ Trade(gone)
       \/ \E c \in ContractType, side \in Side : Settle(c, side)

Spec == Init /\ [][Next]_book
====
