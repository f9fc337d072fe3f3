---- MODULE MCRegistry ----
(***************************************************************************)
(* Small instances of Registry: the constants its configuration uses.      *)
(***************************************************************************)
EXTENDS Registry

(* The Friday before the even Saturday of week 50: the first date is a day *)
(* away, and the end of the year is near.                                  *)
Friday == 347

Bounds(year_, weeks_, starts_, issues_, types_, events_, raises_) ==
    [year |-> year_, first |-> Friday, weeks |-> weeks_, starts |-> starts_, issues |-> issues_,
     types |-> types_, events |-> events_, raises |-> raises_]

(* Two processes start and stop through a winter. *)
Winter(year_) == Bounds(year_, 9, 2, 0, 0, 0, 0)
(* One process: an issue and a contract type on it, beyond their time. *)
Trading == Bounds(52, 5, 1, 1, 1, 0, 1)
(* An issue that is cleaned up and comes again. *)
Returning == Bounds(52, 5, 1, 2, 1, 0, 0)
(* Two processes work on one contract type before and after its date. *)
Serving == Bounds(52, 1, 2, 1, 1, 0, 1)
(* Deliveries of the webhook to two processes. *)
Reporting == Bounds(52, 0, 2, 1, 1, 2, 0)
Everything == {Winter(52), Winter(53), Trading, Returning, Serving, Reporting}
====
