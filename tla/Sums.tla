---- MODULE Sums ----
(***************************************************************************)
(* The sum of f[1], ..., f[n].  The market's books are compared by totals  *)
(* over the rows of a table, and row identifiers are 1, 2, 3, ...          *)
(* (SERIAL columns), so a prefix sum is all that is needed.                *)
(***************************************************************************)
EXTENDS Integers

SumTo(f, n) ==
    LET s[k \in 0..n] == IF k = 0 THEN 0 ELSE s[k - 1] + f[k]
    IN  s[n]
====
