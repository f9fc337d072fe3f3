---- MODULE MCWeb ----
(***************************************************************************)
(* A small instance of Web: a seller, and a buyer who pays two prices.     *)
(***************************************************************************)
EXTENDS Web

(* Both accounts can pay for a few units; the contract type matures at 1.  *)
WebBalances == <<2001, 2700>>
WebMatures == <<1>>

(* The seller's UNFIXED offer, and the buyer's two halves of it.           *)
TypedTrades ==
    {Order(2, 1, UNFIXED, 300, 2), Order(1, 1, FIXED, 300, 1), Order(1, 1, FIXED, 401, 1)}

(* Of what the buttons make: all of the seller's offer; and, on both sides *)
(* of two units, the price paid on average, which is no whole number.      *)
WebTrades ==
    TypedTrades \cup {Order(1, 1, FIXED, 300, 2)} \cup
    {Order(a, 1, side, price, 2) : a \in Account, side \in Side, price \in {350, 351, 649}}
====
