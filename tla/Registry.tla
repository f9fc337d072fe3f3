---- MODULE Registry ----
(***************************************************************************)
(* What a contract is about: the issues that the tracker reports, the      *)
(* dates on which contracts mature, the contract types that pair them, and *)
(* the clean-up that takes away what nobody refers to.                     *)
(*                                                                         *)
(* Server processes and the daily job work on the same tables.  Days are   *)
(* counted from the Monday of ISO week 1 of the year in which the market   *)
(* begins; on the day of a date its midnight has passed.                   *)
(*                                                                         *)
(*   maturity  the dates;  issue, ctype  rows, with ids never used again   *)
(*   traded    the contract types that rows of message refer to: an order  *)
(*             that goes through writes one at least, and none is deleted  *)
(*   held      those that rows of position refer to as well                *)
(*   shown     the contract types on a /resolve page that someone has open *)
(*   server[k] process k: how far make_upcoming() has come                 *)
(*   left[k]   the contract types that k's transaction inserted or locked, *)
(*             when place() raised and left it open                        *)
(*   failed    the processes whose transaction failed                      *)
(*   job[a]    the clean-up that actor a is in: a process or cron          *)
(*   tracker   the state of each issue at GitHub; wire, the deliveries of  *)
(*             its webhook that are under way                              *)
(*   strayed   records which issues a delivery was lost for or overtaken,  *)
(*             or that were entered by hand                                *)
(***************************************************************************)
EXTENDS Integers, Sequences, FiniteSets, FiniteSetsExt, Functions, SequencesExt

CONSTANTS
    Url,          \* issues of the tracker
    Process,      \* server processes
    Instances,    \* days to begin on, and bounds: see Instance
    MaxIssues, MaxTypes, MaxEvents   \* the largest of these bounds

(* The weeks of the year in which the market begins, the day it begins and *)
(* how many weeks are looked at; how many starts of processes, rows of     *)
(* issue and of contract_type, events at the tracker and orders that raise *)
(* there may be.                                                           *)
Instance == [year : {52, 53}, first : 0..363, weeks : Nat, starts : Nat, issues : 0..MaxIssues,
             types : 0..MaxTypes, events : 0..MaxEvents, raises : Nat]

Cron == "cron"

ASSUME RegistryAssumption ==
    /\ Instances \subseteq Instance
    /\ {MaxIssues, MaxTypes, MaxEvents} \subseteq Nat
    /\ Cron \notin Process

VARIABLES limit, day, maturity, issue, ctype, traded, held, shown,
          server, lastStart, starts, left, failed, job, tracker, wire, events,
          strayed, made

calendar == <<limit, day>>
tables == <<maturity, issue, ctype>>
trades == <<traded, held, shown>>
processes == <<server, lastStart, starts>>
outside == <<tracker, wire, events, strayed>>
vars == <<calendar, tables, trades, processes, left, failed, job, outside, made>>

Actor == Process \cup {Cron}

(***************************************************************************)
(* The calendar.                                                           *)
(***************************************************************************)
Weekday(d) == (d % 7) + 1
Week(d) == IF d \div 7 < limit.year THEN (d \div 7) + 1 ELSE (d \div 7) + 1 - limit.year

(* A mutant: weeks are counted through the end of the year. *)
IsExpirationStraight(d) == ((d \div 7) + 1) % 2 = 0 /\ Weekday(d) = 6

IsExpiration(d) == Week(d) % 2 = 0 /\ Weekday(d) = 6

NextExpiration(d) == Min({e \in (d + 1)..(d + 21) : IsExpiration(e)})

(***************************************************************************)
(* Rows.                                                                   *)
(***************************************************************************)
Down == [at |-> "down", n |-> 0, when |-> 0]
NoJob == [stage |-> "idle", queue |-> {}, ct |-> 0, pays |-> FALSE]

Init ==
    /\ limit \in Instances
    /\ day = limit.first
    /\ maturity = {} /\ issue = {} /\ ctype = {}
    /\ traded = {} /\ held = {} /\ shown = {}
    /\ server = [k \in Process |-> Down]
    /\ lastStart = -1
    /\ starts = 0
    /\ left = [k \in Process |-> {}]
    /\ failed = {}
    /\ job = [a \in Actor |-> NoJob]
    /\ tracker = [u \in Url |-> TRUE]
    /\ wire = [u \in Url |-> <<>>]
    /\ events = 0
    /\ strayed = {}
    /\ made = [issue |-> 0, ctype |-> 0, raised |-> 0]

Ids(rows) == {r.id : r \in rows}

(* SELECT ... WHERE matures > NOW() *)
Available == {m \in maturity : m > day}

Ready(k) == server[k].at = "up" /\ job[k] = NoJob

(* A commit of process k keeps what place() left in its transaction. *)
Kept(k) == ctype \cup left[k]
Closed(k) == [left EXCEPT ![k] = {}]

(* The rows that other processes' open transactions have inserted or locked. *)
LockedByOthers(a) == UNION {left[k] : k \in Process \ {a}}

(***************************************************************************)
(* A server starts: make_upcoming().                                       *)
(***************************************************************************)
Start(k) ==
    /\ server[k].at = "down"
    /\ starts < limit.starts
    /\ starts' = starts + 1
    /\ server' = [server EXCEPT ![k] = [at |-> "select", n |-> 1, when |-> NextExpiration(day)]]
    /\ UNCHANGED <<calendar, tables, trades, lastStart, left, failed, job, outside, made>>

(* A mutant: two dates will do. *)
EnoughSoon(n) == n >= 2

(* range(3) *)
Enough(n) == n >= 3

(* The date of this round is there: on to the next, or done. *)
Supplied(k) ==
    LET s == server[k]
    IN  IF Enough(s.n)
        THEN /\ server' = [server EXCEPT ![k] = [at |-> "up", n |-> 0, when |-> 0]]
             /\ lastStart' = day
        ELSE /\ server' = [server EXCEPT ![k] = [at |-> "select", n |-> s.n + 1,
                                                 when |-> NextExpiration(s.when)]]
             /\ UNCHANGED lastStart

(* Maturity.persist: SELECT id ... WHERE matures = ... *)
SelectDate(k) ==
    /\ server[k].at = "select"
    /\ IF server[k].when \in maturity THEN Supplied(k)
       ELSE server' = [server EXCEPT ![k].at = "insert"] /\ UNCHANGED lastStart
    /\ UNCHANGED <<calendar, tables, trades, starts, left, failed, job, outside, made>>

(* INSERT and commit.  When another process was faster, the module's import *)
(* ends with a UniqueViolation.                                            *)
InsertDate(k) ==
    /\ server[k].at = "insert"
    /\ IF server[k].when \in maturity
       THEN server' = [server EXCEPT ![k] = Down] /\ UNCHANGED <<maturity, lastStart>>
       ELSE /\ maturity' = maturity \cup {server[k].when}
            /\ Supplied(k)
    /\ UNCHANGED <<calendar, issue, ctype, trades, starts, left, failed, job, outside, made>>

(* A process ends at any point. *)
Die(k) ==
    /\ server[k].at # "down"
    /\ server' = [server EXCEPT ![k] = Down]
    /\ left' = Closed(k)
    /\ failed' = failed \ {k}
    /\ job' = [job EXCEPT ![k] = NoJob]
    /\ UNCHANGED <<calendar, tables, trades, lastStart, starts, outside, made>>

(***************************************************************************)
(* Orders.                                                                 *)
(***************************************************************************)
(* The row of the pair that process k sees. *)
Pair(k, i, m) == {c \in Kept(k) : c.issue = i /\ c.matures = m}

(* Nobody else has just inserted or locked it, and what it refers to is    *)
(* there.  The date may be past: available() and the trigger compare it    *)
(* with the NOW() of k's transaction, which may have been open for days.   *)
MayLookUp(k, i, m) ==
    /\ i \in Ids(issue) /\ m \in maturity
    /\ \A c \in LockedByOthers(k) : c.issue # i \/ c.matures # m

(* ContractType.lookup: the row that is there, or a new one. *)
LookUp(k, i, m) ==
    IF Pair(k, i, m) # {} THEN Pair(k, i, m)
    ELSE [id : {made.ctype + 1} \cap 1..limit.types, issue : {i}, matures : {m}]

Numbered(c, raised) == made' = [made EXCEPT !.ctype = Max({@, c.id}), !.raised = @ + raised]

(* The messages of the order are flushed. *)
Noted(c) == traded' = traded \cup {c.id}

(* An order that rests, makes a contract, or closes the last positions. *)
OrderTrades(k, i, m) ==
    /\ Ready(k) /\ k \notin failed
    /\ MayLookUp(k, i, m)
    /\ \E c \in LookUp(k, i, m) :
          /\ ctype' = Kept(k) \cup {c}
          /\ Numbered(c, 0)
          /\ Noted(c)
          /\ held' \in {held, held \cup {c.id}, held \ {c.id}}
    /\ left' = Closed(k)
    /\ UNCHANGED <<calendar, maturity, issue, shown, processes, failed, job, outside>>

(* The form was rendered when the issue still had a row, or a balance is   *)
(* too small: a statement is refused.                                      *)
OrderRefused(k) ==
    /\ Ready(k) /\ k \notin failed
    /\ maturity # {}
    /\ failed' = failed \cup {k}
    /\ left' = Closed(k)
    /\ UNCHANGED <<calendar, tables, trades, processes, job, outside, made>>

(* reduce_offer() raises: the contract type stays in the transaction. *)
OrderRaises(k, i, m) ==
    /\ made.raised < limit.raises
    /\ Ready(k) /\ k \notin failed
    /\ MayLookUp(k, i, m)
    /\ \E c \in LookUp(k, i, m) :
          /\ left' = [left EXCEPT ![k] = @ \cup {c}]
          /\ Numbered(c, 1)
    /\ UNCHANGED <<calendar, tables, trades, processes, failed, job, outside>>

(* get_user() rolls back what failed; filter() commits. *)
Page(k) ==
    /\ Ready(k)
    /\ k \in failed \/ left[k] # {}
    /\ failed' = failed \ {k}
    /\ ctype' = Kept(k)
    /\ left' = Closed(k)
    /\ UNCHANGED <<calendar, maturity, issue, trades, processes, job, outside, made>>

(***************************************************************************)
(* The tracker, the webhook and issues added by hand.                      *)
(***************************************************************************)
(* An issue is opened, edited, closed or reopened at GitHub. *)
Event(u, open) ==
    /\ events < limit.events
    /\ events' = events + 1
    /\ tracker' = [tracker EXCEPT ![u] = open]
    /\ wire' = [wire EXCEPT ![u] = Append(@, open)]
    /\ UNCHANGED <<calendar, tables, trades, processes, left, failed, job, strayed, made>>

IssueAt(u) == {i \in issue : i.url = u}

(* A mutant: ON CONFLICT DO NOTHING. *)
PersistedOnce(u, open) ==
    IF IssueAt(u) # {} THEN UNCHANGED <<issue, made>>
    ELSE /\ made.issue < limit.issues
         /\ issue' = issue \cup
                {[id |-> made.issue + 1, url |-> u, open |-> open, modified |-> day]}
         /\ made' = [made EXCEPT !.issue = @ + 1]

(* Issue.persist: INSERT ... ON CONFLICT (url) DO UPDATE SET open. *)
Persisted(u, open) ==
    IF IssueAt(u) # {}
    THEN /\ issue' = {IF i.url = u THEN [i EXCEPT !.open = open, !.modified = day] ELSE i : i \in issue}
         /\ UNCHANGED made
    ELSE /\ made.issue < limit.issues
         /\ issue' = issue \cup
                {[id |-> made.issue + 1, url |-> u, open |-> open, modified |-> day]}
         /\ made' = [made EXCEPT !.issue = @ + 1]

(* A delivery may arrive after later ones.  On a failed connection it is   *)
(* answered "OK" and lost.                                                 *)
Webhook(k, u, n) ==
    /\ Ready(k)
    /\ n \in DOMAIN wire[u]
    /\ wire' = [wire EXCEPT ![u] = RemoveAt(@, n)]
    /\ IF k \in failed
       THEN strayed' = strayed \cup {u} /\ UNCHANGED <<issue, ctype, left, made>>
       ELSE /\ Persisted(u, wire[u][n])
            /\ ctype' = Kept(k)
            /\ left' = Closed(k)
            /\ strayed' = IF n > 1 THEN strayed \cup {u} ELSE strayed
    /\ UNCHANGED <<calendar, maturity, trades, processes, failed, job, tracker, events>>

(* The network, or a server that is down, loses a delivery. *)
Lose(u) ==
    /\ wire[u] # <<>>
    /\ wire' = [wire EXCEPT ![u] = Tail(@)]
    /\ strayed' = strayed \cup {u}
    /\ UNCHANGED <<calendar, tables, trades, processes, left, failed, job, tracker, events, made>>

(* The form on /issues: an issue entered by its URL is open. *)
AddIssue(k, u) ==
    /\ Ready(k)
    /\ failed' = failed \ {k}
    /\ Persisted(u, TRUE)
    /\ ctype' = Kept(k)
    /\ left' = Closed(k)
    /\ strayed' = strayed \cup {u}
    /\ UNCHANGED <<calendar, maturity, trades, processes, job, tracker, wire, events>>

(***************************************************************************)
(* Resolution.                                                             *)
(***************************************************************************)
MaturedTypes == {c \in ctype : c.matures <= day}

(* GET /resolve: contract types with positions whose date has passed. *)
ResolvePage(k) ==
    /\ Ready(k)
    /\ failed' = failed \ {k}
    /\ shown' = shown \cup {c \in MaturedTypes : c.id \in held}
    /\ UNCHANGED <<calendar, tables, traded, held, processes, left, job, outside, made>>

(* POST /resolve, from a page rendered at any time before.  lookup() finds *)
(* the contract type of the page: it always does, says ShownStays.         *)
PostResolve(k, c) ==
    /\ Ready(k)
    /\ c \in shown
    /\ Pair(k, c.issue, c.matures) = {c}
    /\ c \notin LockedByOthers(k)
    /\ failed' = failed \ {k}
    /\ ctype' = Kept(k)
    /\ left' = Closed(k)
    /\ job' = [job EXCEPT ![k] = [stage |-> "types", ct |-> c.id, pays |-> TRUE,
                   queue |-> Ids({d \in ctype' : d \in MaturedTypes \/ d = c})]]
    /\ UNCHANGED <<calendar, maturity, issue, trades, processes, outside, made>>

(***************************************************************************)
(* Market.cleanup(), once Offer.cleanup() has returned: contract types,    *)
(* then maturities, then issues.  Each part makes a list, then deletes row *)
(* by row, with a commit after each or a rollback when the row is referred *)
(* to.                                                                     *)
(***************************************************************************)
(* A mutant: no contract type is listed but those given as an argument. *)
DailyCleanupGiven ==
    /\ job[Cron] = NoJob
    /\ job' = [job EXCEPT ![Cron] = [NoJob EXCEPT !.stage = "types"]]
    /\ UNCHANGED <<calendar, tables, trades, processes, left, failed, outside, made>>

DailyCleanup ==
    /\ job[Cron] = NoJob
    /\ job' = [job EXCEPT ![Cron] = [NoJob EXCEPT !.stage = "types", !.queue = Ids(MaturedTypes)]]
    /\ UNCHANGED <<calendar, tables, trades, processes, left, failed, outside, made>>

(* A mutant: the foreign key of message is not looked at. *)
DeleteTypeCascading(a, n) ==
    /\ job[a].stage = "types"
    /\ n \in job[a].queue
    /\ \A c \in ctype : c.id = n => c \notin LockedByOthers(a)
    /\ job' = [job EXCEPT ![a].queue = @ \ {n}]
    /\ ctype' = {c \in ctype : c.id # n \/ c.id \in held}
    /\ UNCHANGED <<calendar, maturity, issue, trades, processes, left, failed, outside, made>>

DeleteType(a, n) ==
    /\ job[a].stage = "types"
    /\ n \in job[a].queue
    /\ \A c \in ctype : c.id = n => c \notin LockedByOthers(a)
    /\ job' = [job EXCEPT ![a].queue = @ \ {n}]
    /\ ctype' = {c \in ctype : c.id # n \/ c.id \in traded \cup held}
    /\ UNCHANGED <<calendar, maturity, issue, trades, processes, left, failed, outside, made>>

(* The foreign key checks of an uncommitted contract type hold its date *)
(* and its issue.                                                       *)
DeleteDate(a, n) ==
    /\ job[a].stage = "dates"
    /\ n \in job[a].queue
    /\ \A c \in LockedByOthers(a) : c.matures # n
    /\ job' = [job EXCEPT ![a].queue = @ \ {n}]
    /\ maturity' = {m \in maturity : m # n \/ \E c \in ctype : c.matures = n}
    /\ UNCHANGED <<calendar, issue, ctype, trades, processes, left, failed, outside, made>>

DeleteIssue(a, n) ==
    /\ job[a].stage = "issues"
    /\ n \in job[a].queue
    /\ \A c \in LockedByOthers(a) : c.issue # n
    /\ job' = [job EXCEPT ![a].queue = @ \ {n}]
    /\ issue' = {i \in issue : i.id # n \/ \E c \in ctype : c.issue = n}
    /\ UNCHANGED <<calendar, maturity, ctype, trades, processes, left, failed, outside, made>>

(* SELECT id FROM maturity WHERE matures < NOW() *)
Expired == {m \in maturity : m <= day}

(* SELECT id FROM issue WHERE modified < NOW() - 4 weeks *)
Stale == Ids({i \in issue : i.modified < day - 28})

(* The list of one part is worked off: the next part makes its own. *)
NextPart(a) ==
    /\ job[a].queue = {}
    /\ \/ /\ job[a].stage = "types"
          /\ job' = [job EXCEPT ![a].stage = "dates", ![a].queue = Expired]
       \/ /\ job[a].stage = "dates"
          /\ job' = [job EXCEPT ![a].stage = "issues", ![a].queue = Stale]
       \/ /\ job[a].stage = "issues"
          /\ ~ job[a].pays
          /\ job' = [job EXCEPT ![a] = NoJob]
    /\ UNCHANGED <<calendar, tables, trades, processes, left, failed, outside, made>>

(* resolve(), after its first cleanup: every position is paid and deleted, *)
(* and the second cleanup begins.                                          *)
Pay(k) ==
    /\ job[k].stage = "issues"
    /\ job[k].queue = {}
    /\ job[k].pays
    /\ held' = held \ {job[k].ct}
    /\ traded' = IF job[k].ct \in held THEN traded \cup {job[k].ct} ELSE traded
    /\ job' = [job EXCEPT ![k] = [stage |-> "types", ct |-> job[k].ct, pays |-> FALSE,
                   queue |-> Ids(MaturedTypes) \cup {job[k].ct}]]
    /\ UNCHANGED <<calendar, tables, shown, processes, left, failed, outside, made>>

(***************************************************************************)
(* Time goes by in weeks, while nobody is in the middle of anything.       *)
(***************************************************************************)
Tick ==
    /\ day < limit.first + 7 * limit.weeks
    /\ \A a \in Actor : job[a] = NoJob
    /\ \A k \in Process : server[k].at \in {"down", "up"}
    /\ day' = day + 7
    /\ UNCHANGED <<limit, tables, trades, processes, left, failed, job, outside, made>>

Starting(k) == SelectDate(k) \/ InsertDate(k)
Cleaning(a) ==
    \/ \E n \in job[a].queue : DeleteType(a, n) \/ DeleteDate(a, n) \/ DeleteIssue(a, n)
    \/ NextPart(a)

Requests(k) ==
    \/ \E i \in 1..MaxIssues, m \in maturity : OrderTrades(k, i, m) \/ OrderRaises(k, i, m)
    \/ OrderRefused(k)
    \/ \E u \in Url : AddIssue(k, u) \/ \E n \in 1..MaxEvents : Webhook(k, u, n)
    \/ ResolvePage(k)
    \/ \E c \in shown : PostResolve(k, c)

Next ==
    \/ \E k \in Process : Start(k) \/ Starting(k) \/ Die(k) \/ Page(k) \/ Requests(k) \/ Pay(k)
    \/ \E u \in Url : Lose(u) \/ \E open \in BOOLEAN : Event(u, open)
    \/ DailyCleanup
    \/ \E a \in Actor : Cleaning(a)
    \/ Tick

Spec == Init /\ [][Next]_vars

(* Processes and the daily job run on, cron starts it every day, a process *)
(* is asked for a page now and then, a DELETE that waits for a row gets    *)
(* it, and time goes on.                                                   *)
FairSpec ==
    /\ Spec
    /\ \A k \in Process : SF_vars(Starting(k) \/ Cleaning(k) \/ Pay(k)) /\ WF_vars(Page(k))
    /\ SF_vars(Cleaning(Cron)) /\ WF_vars(DailyCleanup)
    /\ SF_vars(Tick)

(***************************************************************************)
(* Properties.                                                             *)
(***************************************************************************)
TypeOK ==
    /\ maturity \subseteq limit.first..(day + 63)
    /\ issue \subseteq [id : 1..MaxIssues, url : Url, open : BOOLEAN, modified : Nat]
    /\ UNION {Kept(k) : k \in Process}
         \subseteq [id : 1..MaxTypes, issue : 1..MaxIssues, matures : Nat]
    /\ traded \cup held \subseteq Ids(ctype)
    /\ IsInjective([c \in ctype |-> <<c.issue, c.matures>>])
    /\ \A a \in Actor : job[a].stage \in {"idle", "types", "dates", "issues"}
    /\ \A k \in Process : server[k].at \in {"down", "select", "insert", "up"}

(* Four weeks after make_upcoming() has run, and on any day before, there  *)
(* is a date to trade on, whatever Maturity.cleanup() and other starts did *)
(* in between.  No later day could be promised.                            *)
DateAhead == lastStart >= 0 /\ day <= lastStart + 28 => Available # {}

(* Starts on different days, in different processes, agree on the calendar *)
(* of next_expiration_after(): dates are a multiple of two weeks apart, or *)
(* a week more with the end of a year of 53 weeks between them.            *)
Fortnightly ==
    \A m, n \in maturity :
        m < n => /\ n - m >= 14
                 /\ (n - m) % 14 = IF limit.year = 53 /\ m < 7 * 53 /\ 7 * 53 <= n THEN 7 ELSE 0

(* What the test of make_upcoming() asserts at whatever date it runs: the  *)
(* dates of one call are 14 days apart (test.py:193-201, maturity.py:51).  *)
(* Not so at the end of a year of 53 weeks.                                *)
UpcomingFortnightly ==
    [][\A k \in Process :
         server[k].n > 0 /\ server'[k].n = server[k].n + 1
         => server'[k].when = server[k].when + 14]_vars

(* post_resolve()'s NotImplementedError is not reached: a contract type    *)
(* that a /resolve page showed keeps its id, its issue and its date, while *)
(* cleanups run and even when it has been resolved since.                  *)
ShownStays ==
    \A c \in shown : c \in ctype /\ c.issue \in Ids(issue) /\ c.matures \in maturity

(* When nothing is under way, an issue is open or closed as at the tracker *)
(* unless a delivery of its webhook was lost or overtaken or it was        *)
(* entered by hand: clean-ups, restarts and orders do not matter.          *)
StatusFollows ==
    \A i \in issue : wire[i.url] = <<>> /\ i.url \notin strayed => i.open = tracker[i.url]

(* Four weeks old, never traded on, and no contract type whose date is to come. *)
Unused(n) ==
    /\ \E i \in issue : i.id = n /\ i.modified < day - 28
    /\ \A c \in ctype : c.issue = n => c.id \notin traded /\ c.matures <= day

(* "Any issue that has been around for 4 weeks and has no trading history  *)
(* gets cleaned up" (Issue.cleanup), or traded on or modified.             *)
UnusedLeaves == \A n \in 1..MaxIssues : Unused(n) ~> ~ Unused(n)
====
