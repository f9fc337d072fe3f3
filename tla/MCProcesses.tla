---- MODULE MCProcesses ----
(***************************************************************************)
(* Small instances of Processes: the constants its configurations use.     *)
(***************************************************************************)
EXTENDS Processes

Offer(a, c, side, price, n) ==
    [account |-> a, ct |-> c, side |-> side, price |-> price,
     quantity |-> n, aon |-> FALSE, expires |-> Never]

(* Account 1 affords either of orders 4 and 5, not both; accounts 3 and 4  *)
(* are still to be made.                                                   *)
ThinBalances == <<1300, 1200, 0, 0, 700>>

(* User 1 takes a new name, user 2 the name that this sets free; user 3    *)
(* logs in for the first time, under the name that user 1 wants; and users *)
(* 1 and 2 may want each other's.                                          *)
Users == <<[account |-> 1, name |-> 1], [account |-> 2, name |-> 2], [account |-> 0, name |-> 3],
           [account |-> 5, name |-> 4]>>
Entries == <<[user |-> 1, name |-> 3], [user |-> 2, name |-> 1], [user |-> 3, name |-> 3],
             [user |-> 1, name |-> 2]>>

(* Two Apache processes with a worker each, one of which may die, and the  *)
(* two threads of a waitress process; each with users that trade, and with *)
(* users that log in.                                                      *)
Each(kinds) == [w \in {"p", "q"} |-> kinds]
Apache == [conn |-> [w \in {"p", "q"} |-> w], maxJobs |-> 3, maxCrashes |-> 1, matures |-> FALSE,
           kinds |-> Each({"place", "cancel", "list", "login"}), orders |-> 4..7,
           logins |-> {1}, rulings |-> {}, grant |-> 0]
Waitress == [Apache EXCEPT !.conn = [w \in {"p", "q"} |-> "p"], !.maxJobs = 2, !.maxCrashes = 0,
                !.kinds = Each({"place", "cancel", "list"}), !.logins = {}]
Agents == [Apache EXCEPT !.kinds = Each({"login", "place", "list"}), !.logins = 1..4, !.grant = 400]
AgentThreads == [Waitress EXCEPT !.kinds = Each({"login", "list"}), !.logins = {1, 3}, !.grant = 400]

(* Two oracles that need not agree, around the date; and one beside whom   *)
(* others trade, before the date or on a page from before it.              *)
Oracles == [Apache EXCEPT !.kinds = Each({"cancel", "resolve"}), !.maxJobs = 2,
               !.matures = TRUE, !.rulings = {1} \X Side]
Hurry == [Apache EXCEPT !.kinds = [p |-> {"place"}, q |-> {"resolve"}], !.orders = {4, 8, 9},
             !.maxJobs = 4, !.maxCrashes = 0, !.matures = TRUE, !.rulings = {<<1, FIXED>>}]
Selves == [Hurry EXCEPT !.orders = {9, 10}, !.maxJobs = 3]
Either == {Apache, Oracles, Hurry, Selves, Waitress, Agents, AgentThreads}
Threads == {[Waitress EXCEPT !.kinds = Each({"place"})]}

(* Type 1: an offer of two units, two orders that both want it, and an     *)
(* offer that has expired.  Type 2: an offer and an order, by the same two *)
(* accounts the other way round.  Order 7 is user 3's.  The last three are *)
(* on type 1: one sells what orders 4 and 8 buy, and order 10 buys it from *)
(* its own account, whose position is deleted and inserted again.          *)
TwoTypes == <<0, 0>>
Orders == <<Offer(2, 1, UNFIXED, 400, 2),
            [Offer(1, 1, UNFIXED, 600, 1) EXCEPT !.expires = 0],
            Offer(1, 2, UNFIXED, 600, 1),
            Offer(1, 1, FIXED, 400, 1), Offer(1, 1, FIXED, 600, 2),
            Offer(2, 2, FIXED, 600, 1), Offer(3, 1, FIXED, 400, 1),
            Offer(5, 1, FIXED, 600, 1), Offer(2, 1, UNFIXED, 400, 2), Offer(2, 1, FIXED, 600, 1)>>
(* Accounts 1 and 2 have a unit of each contract type. *)
Positions == <<<<1, -1, 0, 0, 0>>, <<1, -1, 0, 0, 0>>>>
====
