---- MODULE RegistryProofs ----
(***************************************************************************)
(* Theorems about every Registry, however many processes, issues, contract *)
(* types and starts it has and however long it runs.                       *)
(*                                                                         *)
(*   Dates    the calendar: every date made is one of next_expiration_     *)
(*            after(), and the last start still has one ahead              *)
(*   Rows     the foreign keys: what a row refers to is there, also for    *)
(*            rows that are not committed                                  *)
(*   Reports  the webhook: the last delivery under way brings the present  *)
(*            state of its issue                                           *)
(*   Columns  the types of the columns, and that a pair of an issue and a  *)
(*            date has one row, those of open transactions counted         *)
(***************************************************************************)
EXTENDS Registry, SumsTheorems, SequenceTheorems

(***************************************************************************)
(* The calendar.                                                           *)
(***************************************************************************)
(* The days of the year of 52 or 53 weeks on which contracts may mature.   *)
LEMMA ExpirationDays ==
    ASSUME NEW d \in Nat, limit.year \in {52, 53}
    PROVE  IsExpiration(d) <=>
              d % 14 = IF limit.year = 53 /\ d >= 371 THEN 5 ELSE 12
<1> DEFINE w == d \div 7
<1>1. w \in Nat /\ d = 7 * w + (d % 7) /\ d % 7 \in 0..6
    OBVIOUS
<1>2. w < 53 <=> d < 371
    BY <1>1
<1>3. CASE limit.year = 53 /\ d >= 371
    <2>1. IsExpiration(d) <=> (w - 52) % 2 = 0 /\ d % 7 = 5
        BY <1>1, <1>2, <1>3 DEF IsExpiration, Week, Weekday
    <2>. QED  BY <2>1, <1>1, <1>3
<1>4. CASE ~ (limit.year = 53 /\ d >= 371)
    <2>1. IsExpiration(d) <=> (w + 1) % 2 = 0 /\ d % 7 = 5
        BY <1>1, <1>2, <1>4 DEF IsExpiration, Week, Weekday
    <2>. QED  BY <2>1, <1>1, <1>4
<1>. QED  BY <1>3, <1>4

(* Two dates are two weeks apart, or a multiple, or a week more. *)
LEMMA ExpirationsApart ==
    ASSUME NEW m \in Nat, NEW n \in Nat, m < n, limit.year \in {52, 53},
           IsExpiration(m), IsExpiration(n)
    PROVE  /\ n - m >= 14
           /\ (n - m) % 14 = IF limit.year = 53 /\ m < 7 * 53 /\ 7 * 53 <= n THEN 7 ELSE 0
<1>1. /\ m % 14 = IF limit.year = 53 /\ m >= 371 THEN 5 ELSE 12
      /\ n % 14 = IF limit.year = 53 /\ n >= 371 THEN 5 ELSE 12
    BY ExpirationDays
<1>. QED  BY <1>1

(* There is a date in the three weeks after any day. *)
LEMMA ExpirationComes ==
    ASSUME NEW d \in Nat, limit.year \in {52, 53}
    PROVE  \E e \in (d + 1)..(d + 21) : IsExpiration(e)
<1> DEFINE r == d % 14
           e == IF r < 12 THEN d + (12 - r) ELSE d + (26 - r)
           f == IF r < 5 THEN d + (5 - r) ELSE d + (19 - r)
<1>1. e \in (d + 1)..(d + 14) /\ e % 14 = 12
    OBVIOUS
<1>2. f \in (d + 1)..(d + 14) /\ f % 14 = 5
    OBVIOUS
<1>. HIDE DEF e, f
<1>3. CASE limit.year = 52 \/ e < 371
    <2>1. e \in Nat /\ e \in (d + 1)..(d + 21)
        BY <1>1
    <2>2. IsExpiration(e)
        BY <2>1, <1>1, <1>3, ExpirationDays
    <2>. QED  BY <2>1, <2>2
<1>4. CASE limit.year = 53 /\ e >= 371 /\ f >= 371
    BY <1>2, <1>4, ExpirationDays
<1>5. CASE limit.year = 53 /\ e >= 371 /\ f < 371
    <2>1. f + 14 \in (d + 1)..(d + 21) /\ f + 14 >= 371 /\ (f + 14) % 14 = 5
        BY <1>1, <1>2, <1>5 DEF e, f
    <2>2. f + 14 \in Nat
        BY <1>2
    <2>3. IsExpiration(f + 14)
        BY <2>1, <2>2, <1>5, ExpirationDays
    <2>. QED  BY <2>1, <2>3
<1>. QED  BY <1>1, <1>2, <1>3, <1>4, <1>5

(* next_expiration_after() returns a date in the three weeks after the day *)
(* it is given.                                                            *)
LEMMA NextExpirationIsOne ==
    ASSUME NEW d \in Nat, limit.year \in {52, 53}
    PROVE  /\ NextExpiration(d) \in Nat
           /\ NextExpiration(d) > d /\ NextExpiration(d) <= d + 21
           /\ IsExpiration(NextExpiration(d))
<1> DEFINE S == {e \in (d + 1)..(d + 21) : IsExpiration(e)}
<1>1. S \in SUBSET Nat /\ \E e : e \in S
    BY ExpirationComes
<1>2. \E m \in S : \A k \in S : m <= k
    <2> HIDE DEF S
    <2>. QED  BY <1>1, LeastNat
<1>3. Min(S) \in S
    <2> HIDE DEF S
    <2>. QED  BY <1>2 DEF Min
<1>4. NextExpiration(d) \in S
    BY <1>3 DEF NextExpiration
<1>. QED  BY <1>4

(***************************************************************************)
(* The invariants.                                                         *)
(***************************************************************************)
JobOk(j) ==
    /\ j = [stage |-> j.stage, queue |-> j.queue, ct |-> j.ct, pays |-> j.pays]
    /\ j.stage \in {"idle", "types", "dates", "issues"}

(* What every step relies on: functions and records are what they are. *)
Shape ==
    /\ limit \in Instances
    /\ day \in Nat /\ limit.first <= day
    /\ server \in [Process -> [at : {"down", "select", "insert", "up"}, n : Nat, when : Nat]]
    /\ job = [a \in Actor |-> job[a]]
    /\ \A a \in Actor : JobOk(job[a])

(* The dates made so far, and the one that a starting server is about to   *)
(* look for: its n-th, two or three weeks after the one before.            *)
Rounds ==
    /\ \A m \in maturity : /\ m \in Nat /\ IsExpiration(m)
                           /\ limit.first <= m /\ m <= day + 63
    /\ \A k \in Process : server[k].at \in {"select", "insert"} =>
          /\ IsExpiration(server[k].when)
          /\ server[k].n >= 1 /\ server[k].n <= 3
          /\ server[k].when > day + 14 * (server[k].n - 1)
          /\ server[k].when <= day + 21 * server[k].n

(* The last date of the last start outlives four weeks: Maturity.cleanup() *)
(* lists only days that have come.                                         *)
Lasting ==
    /\ lastStart \in Int /\ lastStart <= day
    /\ lastStart >= 0 /\ day <= lastStart + 28 => \E m \in maturity : m > lastStart + 28
    /\ \A a \in Actor : job[a].stage = "dates" => \A n \in job[a].queue : n <= day

Dates == Shape /\ Rounds /\ Lasting

(***************************************************************************)
(* Types.                                                                  *)
(***************************************************************************)
(* What an idle actor has for a job is of the right shape. *)
LEMMA NoJobShape ==
    /\ JobOk(NoJob)
    /\ NoJob.stage = "idle"
    /\ Down \in [at : {"down", "select", "insert", "up"}, n : Nat, when : Nat]
    /\ Down.at = "down"
BY DEF JobOk, NoJob, Down

(* A clean-up that makes the list of its next part. *)
LEMMA NextList ==
    ASSUME NEW j, JobOk(j), NEW part, NEW list
    PROVE  [j EXCEPT !.stage = part, !.queue = list]
              = [stage |-> part, queue |-> list, ct |-> j.ct, pays |-> j.pays]
<1>1. PICK s, q, c, p : j = [stage |-> s, queue |-> q, ct |-> c, pays |-> p]
    BY DEF JobOk
<1> DEFINE k == [j EXCEPT !.stage = part]
<1>2. k = [stage |-> part, queue |-> q, ct |-> c, pays |-> p]
    BY <1>1
<1>3. j.ct = c /\ j.pays = p
    BY <1>1
<1>. HIDE DEF k
<1>4. [k EXCEPT !.queue = list] = [stage |-> part, queue |-> list, ct |-> c, pays |-> p]
    BY <1>2
<1>. QED  BY <1>3, <1>4 DEF k

(* The years of every instance are of 52 or 53 weeks. *)
LEMMA Years ==
    ASSUME Shape
    PROVE  limit.year \in {52, 53} /\ limit.first \in Nat
BY RegistryAssumption DEF Shape, Instance

(***************************************************************************)
(* Dates is inductive.                                                     *)
(***************************************************************************)
(* A market starts without dates and without servers. *)
LEMMA DatesInit == Init => Dates
<1>. SUFFICES ASSUME Init PROVE Dates
    OBVIOUS
<1>1. Shape
    <2>1. limit \in Instances /\ limit \in Instance /\ day = limit.first
        BY RegistryAssumption DEF Init
    <2>2. day \in Nat /\ limit.first <= day
        BY <2>1 DEF Instance
    <2>3. /\ server \in [Process -> [at : {"down", "select", "insert", "up"}, n : Nat, when : Nat]]
          /\ job = [a \in Actor |-> job[a]]
          /\ \A a \in Actor : JobOk(job[a])
        BY NoJobShape DEF Init
    <2>. QED  BY <2>1, <2>2, <2>3 DEF Shape
<1>2. Rounds /\ Lasting
    BY <1>1, NoJobShape DEF Init, Shape, Rounds, Lasting, Down
<1>. QED  BY <1>1, <1>2 DEF Dates

(* A server begins to look for three dates. *)
LEMMA StartDates == ASSUME Dates, NEW k \in Process, Start(k) PROVE Dates'
<1> DEFINE e == NextExpiration(day)
<1>1. e \in Nat /\ e > day /\ e <= day + 21 /\ IsExpiration(e)
    BY Years, NextExpirationIsOne DEF Dates, Shape
<1>. HIDE DEF e
<1>2. server' = [server EXCEPT ![k] = [at |-> "select", n |-> 1, when |-> e]]
    BY DEF Start, e
<1>3. UNCHANGED <<limit, day, maturity, lastStart, job>>
    BY DEF Start, calendar, tables
<1>4. Shape'
    BY <1>1, <1>2, <1>3 DEF Dates, Shape
<1>5. Rounds'
    <2>1. \A d : IsExpiration(d)' <=> IsExpiration(d)
        BY <1>3 DEF IsExpiration, Week, Weekday
    <2>. QED  BY <2>1, <1>1, <1>2, <1>3 DEF Dates, Shape, Rounds
<1>6. Lasting'
    BY <1>3 DEF Dates, Lasting
<1>. QED  BY <1>4, <1>5, <1>6 DEF Dates

(* The date of this round is there, and the next is two weeks later.       *)
LEMMA SuppliedDates ==
    ASSUME Dates, NEW k \in Process, server[k].at \in {"select", "insert"}, Supplied(k),
           UNCHANGED <<limit, day, job>>,
           maturity' = maturity \cup {server[k].when}
    PROVE  Dates'
<1> DEFINE s == server[k]
           e == NextExpiration(s.when)
<1>1. s.when \in Nat /\ s.n \in Nat /\ s.n >= 1 /\ s.n <= 3 /\ IsExpiration(s.when)
        /\ s.when > day + 14 * (s.n - 1) /\ s.when <= day + 21 * s.n
    BY DEF Dates, Shape, Rounds
<1>2. e \in Nat /\ e > s.when /\ e <= s.when + 21 /\ IsExpiration(e)
    BY <1>1, Years, NextExpirationIsOne DEF Dates
<1>3. e >= s.when + 14
    BY <1>1, <1>2, Years, ExpirationsApart DEF Dates
<1>4. /\ \A d : IsExpiration(d)' <=> IsExpiration(d)
      /\ limit.first <= s.when /\ s.when <= day + 63
    <2>1. limit.first \in Nat
        BY Years DEF Dates
    <2>. QED  BY <1>1, <2>1 DEF Dates, Shape, IsExpiration, Week, Weekday
<1>5. CASE Enough(s.n)
    <2>1. server' = [server EXCEPT ![k] = [at |-> "up", n |-> 0, when |-> 0]] /\ lastStart' = day
        BY <1>5 DEF Supplied
    <2>2. Shape'
        BY <2>1 DEF Dates, Shape
    <2>3. Rounds'
        BY <2>1, <1>1, <1>4 DEF Dates, Shape, Rounds
    <2>4. s.when > day + 28
        BY <1>1, <1>5 DEF Enough, Dates, Shape
    <2>5. Lasting'
        BY <2>1, <2>4 DEF Dates, Shape, Lasting
    <2>. QED  BY <2>2, <2>3, <2>5 DEF Dates
<1>6. CASE ~ Enough(s.n)
    <2>1. server' = [server EXCEPT ![k] = [at |-> "select", n |-> s.n + 1, when |-> e]]
            /\ lastStart' = lastStart
        BY <1>6 DEF Supplied
    <2>. HIDE DEF e
    <2>2. Shape'
        BY <2>1, <1>1, <1>2 DEF Dates, Shape
    <2>3. Rounds'
        <3>1. e > day + 14 * (s.n + 1 - 1) /\ e <= day + 21 * (s.n + 1)
                /\ s.n + 1 >= 1 /\ s.n + 1 <= 3
            BY <1>1, <1>2, <1>3, <1>6 DEF Dates, Shape, Enough
        <3>. QED  BY <2>1, <3>1, <1>1, <1>2, <1>4 DEF Dates, Shape, Rounds
    <2>4. Lasting'
        BY <2>1 DEF Dates, Shape, Lasting
    <2>. QED  BY <2>2, <2>3, <2>4 DEF Dates
<1>. QED  BY <1>5, <1>6

(* Steps that touch none of this. *)
LEMMA OtherDates ==
    ASSUME Dates, UNCHANGED <<limit, day, maturity, server, lastStart, job>>
    PROVE  Dates'
<1>1. \A d : IsExpiration(d)' <=> IsExpiration(d)
    BY DEF IsExpiration, Week, Weekday
<1>2. Shape'
    BY DEF Dates, Shape
<1>3. Rounds' /\ Lasting'
    BY <1>1 DEF Dates, Shape, Rounds, Lasting
<1>. QED  BY <1>2, <1>3 DEF Dates

(* Clean-ups begin, go on and end: the days they list have come. *)
LEMMA JobDates ==
    ASSUME Dates, NEW a \in Actor, NEW j, JobOk(j),
           j.stage = "dates" => \A n \in j.queue : n <= day,
           job' = [job EXCEPT ![a] = j],
           UNCHANGED <<limit, day, maturity, server, lastStart>>
    PROVE  Dates'
<1>1. \A d : IsExpiration(d)' <=> IsExpiration(d)
    BY DEF IsExpiration, Week, Weekday
<1>2. Shape'
    BY DEF Dates, Shape
<1>3. Rounds'
    BY <1>1 DEF Dates, Shape, Rounds
<1>4. Lasting'
    BY DEF Dates, Shape, Lasting
<1>. QED  BY <1>2, <1>3, <1>4 DEF Dates

(* A server finds a date that is there, or goes on to insert it. *)
LEMMA SelectDateDates == ASSUME Dates, NEW k \in Process, SelectDate(k) PROVE Dates'
<1>1. UNCHANGED <<limit, day, job, maturity>>
    BY DEF SelectDate, calendar, tables
<1>2. CASE server[k].when \in maturity
    <2>1. Supplied(k) /\ maturity' = maturity \cup {server[k].when}
        BY <1>1, <1>2 DEF SelectDate
    <2>. QED  BY <2>1, <1>1, SuppliedDates DEF SelectDate
<1>3. CASE server[k].when \notin maturity
    <2>1. server' = [server EXCEPT ![k].at = "insert"] /\ lastStart' = lastStart
            /\ server[k].at = "select"
        BY <1>3 DEF SelectDate
    <2>2. \A d : IsExpiration(d)' <=> IsExpiration(d)
        BY <1>1 DEF IsExpiration, Week, Weekday
    <2>3. Shape'
        BY <1>1, <2>1 DEF Dates, Shape
    <2>4. Rounds'
        BY <1>1, <2>1, <2>2 DEF Dates, Shape, Rounds
    <2>5. Lasting'
        BY <1>1, <2>1 DEF Dates, Shape, Lasting
    <2>. QED  BY <2>3, <2>4, <2>5 DEF Dates
<1>. QED  BY <1>2, <1>3

(* A server that goes down takes no date with it. *)
LEMMA DownDates ==
    ASSUME Dates, NEW k \in Process,
           server' = [server EXCEPT ![k] = Down],
           job' \in {job, [job EXCEPT ![k] = NoJob]},
           UNCHANGED <<limit, day, maturity, lastStart>>
    PROVE  Dates'
<1>1. \A d : IsExpiration(d)' <=> IsExpiration(d)
    BY DEF IsExpiration, Week, Weekday
<1>2. Shape'
    BY NoJobShape DEF Dates, Shape
<1>3. Rounds'
    BY <1>1, NoJobShape DEF Dates, Shape, Rounds
<1>4. Lasting'
    BY NoJobShape DEF Dates, Shape, Lasting
<1>. QED  BY <1>2, <1>3, <1>4 DEF Dates

(* The date is inserted, or another process was faster. *)
LEMMA InsertDateDates == ASSUME Dates, NEW k \in Process, InsertDate(k) PROVE Dates'
<1>1. UNCHANGED <<limit, day, job>>
    BY DEF InsertDate, calendar
<1>2. CASE server[k].when \in maturity
    BY <1>1, <1>2, DownDates DEF InsertDate
<1>3. CASE server[k].when \notin maturity
    BY <1>1, <1>3, SuppliedDates DEF InsertDate
<1>. QED  BY <1>2, <1>3

(* A process ends. *)
LEMMA DieDates == ASSUME Dates, NEW k \in Process, Die(k) PROVE Dates'
BY DownDates DEF Die, calendar, tables

(* Maturity.cleanup() deletes a day that has come. *)
LEMMA DeleteDateDates ==
    ASSUME Dates, NEW a \in Actor, NEW n, DeleteDate(a, n)
    PROVE  Dates'
<1>1. /\ UNCHANGED <<limit, day, server, lastStart>>
      /\ job' = [job EXCEPT ![a].queue = @ \ {n}]
      /\ job[a].stage = "dates" /\ n \in job[a].queue
      /\ maturity' \subseteq maturity
      /\ \A m \in maturity : m # n => m \in maturity'
    BY DEF DeleteDate, calendar, processes
<1>2. \A d : IsExpiration(d)' <=> IsExpiration(d)
    BY <1>1 DEF IsExpiration, Week, Weekday
<1>3. n <= day
    BY <1>1 DEF Dates, Lasting
<1>4. Shape'
    <2> DEFINE j == [job[a] EXCEPT !.queue = @ \ {n}]
    <2>0. JobOk(job[a])
        BY DEF Dates, Shape
    <2>1. j = [stage |-> job[a].stage, queue |-> job[a].queue \ {n}, ct |-> job[a].ct,
               pays |-> job[a].pays]
        BY <2>0 DEF JobOk
    <2>2. JobOk(j)
        BY <1>1, <2>1 DEF JobOk
    <2>3. job' = [job EXCEPT ![a] = j]
        BY <1>1
    <2>. HIDE DEF j
    <2>. QED  BY <1>1, <2>2, <2>3 DEF Dates, Shape
<1>5. Rounds'
    BY <1>1, <1>2 DEF Dates, Shape, Rounds
<1>6. Lasting'
    <2>1. \A b \in Actor : job'[b].stage = "dates" => \A m \in job'[b].queue : m <= day
        BY <1>1 DEF Dates, Shape, Lasting
    <2>2. lastStart >= 0 /\ day <= lastStart + 28 => \E m \in maturity' : m > lastStart + 28
        <3>. SUFFICES ASSUME lastStart >= 0, day <= lastStart + 28
                      PROVE  \E m \in maturity' : m > lastStart + 28
            OBVIOUS
        <3>1. PICK m \in maturity : m > lastStart + 28
            BY DEF Dates, Lasting
        <3>2. m # n
            BY <1>3, <3>1 DEF Dates, Shape, Rounds, Lasting
        <3>. QED  BY <1>1, <3>1, <3>2
    <2>. QED  BY <1>1, <2>1, <2>2 DEF Dates, Lasting
<1>. QED  BY <1>4, <1>5, <1>6 DEF Dates

(* A week goes by while no server starts and nothing is cleaned up. *)
LEMMA TickDates == ASSUME Dates, Tick PROVE Dates'
<1>1. /\ UNCHANGED <<limit, maturity, server, lastStart, job>>
      /\ day' = day + 7
      /\ \A a \in Actor : job[a] = NoJob
      /\ \A k \in Process : server[k].at \in {"down", "up"}
    BY DEF Tick, tables, processes
<1>2. \A d : IsExpiration(d)' <=> IsExpiration(d)
    BY <1>1 DEF IsExpiration, Week, Weekday
<1>3. Shape'
    <2>1. limit.first \in Nat /\ day \in Nat /\ limit.first <= day
        BY Years DEF Dates, Shape
    <2>2. day' \in Nat /\ limit'.first <= day'
        BY <1>1, <2>1
    <2>. QED  BY <1>1, <2>2 DEF Dates, Shape
<1>4. Rounds'
    BY <1>1, <1>2 DEF Dates, Shape, Rounds
<1>5. Lasting'
    BY <1>1, NoJobShape DEF Dates, Shape, Lasting
<1>. QED  BY <1>3, <1>4, <1>5 DEF Dates

(* The steps of a clean-up, of whoever runs it. *)
LEMMA CleaningDates ==
    ASSUME Dates, NEW a \in Actor, Cleaning(a)
    PROVE  Dates'
<1>1. JobOk(job[a])
    BY DEF Dates, Shape
<1>2. ASSUME NEW n, DeleteType(a, n) \/ DeleteIssue(a, n)
      PROVE  Dates'
    <2> DEFINE j == [job[a] EXCEPT !.queue = @ \ {n}]
    <2>1. job' = [job EXCEPT ![a] = j] /\ job[a].stage # "dates"
        BY <1>2 DEF DeleteType, DeleteIssue
    <2>2. UNCHANGED <<limit, day, maturity, server, lastStart>>
        BY <1>2 DEF DeleteType, DeleteIssue, calendar, processes
    <2>3. j = [stage |-> job[a].stage, queue |-> job[a].queue \ {n}, ct |-> job[a].ct,
               pays |-> job[a].pays]
        BY <1>1 DEF JobOk
    <2>4. JobOk(j) /\ j.stage # "dates"
        BY <1>1, <2>1, <2>3 DEF JobOk
    <2>. HIDE DEF j
    <2>. QED  BY <2>1, <2>2, <2>4, JobDates
<1>3. ASSUME NEW n, DeleteDate(a, n)
      PROVE  Dates'
    BY <1>3, DeleteDateDates
<1>4. ASSUME NextPart(a)
      PROVE  Dates'
    <2>1. UNCHANGED <<limit, day, maturity, server, lastStart>>
        BY <1>4 DEF NextPart, calendar, tables, processes
    <2>2. CASE job[a].stage = "types"
        <3> DEFINE j == [job[a] EXCEPT !.stage = "dates", !.queue = Expired]
        <3>1. job' = [job EXCEPT ![a] = j]
            BY <1>4, <2>2 DEF NextPart
        <3>2. j = [stage |-> "dates", queue |-> Expired, ct |-> job[a].ct, pays |-> job[a].pays]
            BY <1>1, NextList
        <3>3. JobOk(j) /\ \A n \in j.queue : n <= day
            BY <3>2 DEF JobOk, Expired
        <3>. HIDE DEF j
        <3>. QED  BY <2>1, <3>1, <3>3, JobDates
    <2>3. CASE job[a].stage = "dates"
        <3> DEFINE j == [job[a] EXCEPT !.stage = "issues", !.queue = Stale]
        <3>1. job' = [job EXCEPT ![a] = j]
            BY <1>4, <2>3 DEF NextPart
        <3>2. j = [stage |-> "issues", queue |-> Stale, ct |-> job[a].ct, pays |-> job[a].pays]
            BY <1>1, NextList
        <3>3. JobOk(j) /\ j.stage # "dates"
            BY <3>2 DEF JobOk
        <3>. HIDE DEF j
        <3>. QED  BY <2>1, <3>1, <3>3, JobDates
    <2>4. CASE job[a].stage = "issues"
        <3>1. job' = [job EXCEPT ![a] = NoJob]
            BY <1>4, <2>4 DEF NextPart
        <3>. QED  BY <2>1, <3>1, NoJobShape, JobDates
    <2>. QED  BY <1>4, <2>2, <2>3, <2>4 DEF NextPart
<1>. QED  BY <1>2, <1>3, <1>4 DEF Cleaning

(* Every step keeps the calendar, one case per disjunct of Next. *)
LEMMA DatesStep == ASSUME Dates, [Next]_vars PROVE Dates'
<1>1. ASSUME NEW k \in Process, Start(k) \/ Starting(k) \/ Die(k)
      PROVE  Dates'
    BY <1>1, StartDates, SelectDateDates, InsertDateDates, DieDates DEF Starting
<1>2. ASSUME NEW k \in Process, Page(k)
      PROVE  Dates'
    BY <1>2, OtherDates DEF Page, calendar, processes
<1>3. ASSUME NEW k \in Process, Requests(k)
      PROVE  Dates'
    <2>1. ASSUME NEW i, NEW m, OrderTrades(k, i, m) \/ OrderRaises(k, i, m)
          PROVE  Dates'
        BY <2>1, OtherDates DEF OrderTrades, OrderRaises, calendar, tables, processes
    <2>2. ASSUME OrderRefused(k) \/ ResolvePage(k)
          PROVE  Dates'
        BY <2>2, OtherDates DEF OrderRefused, ResolvePage, calendar, tables, processes
    <2>3. ASSUME NEW u, AddIssue(k, u)
          PROVE  Dates'
        BY <2>3, OtherDates DEF AddIssue, calendar, processes
    <2>4. ASSUME NEW u, NEW n, Webhook(k, u, n)
          PROVE  Dates'
        BY <2>4, OtherDates DEF Webhook, calendar, processes
    <2>5. ASSUME NEW c, PostResolve(k, c)
          PROVE  Dates'
        <3> DEFINE j == [stage |-> "types", ct |-> c.id, pays |-> TRUE,
                         queue |-> Ids({d \in ctype' : d \in MaturedTypes \/ d = c})]
        <3>1. job' = [job EXCEPT ![k] = j] /\ UNCHANGED <<limit, day, maturity, server, lastStart>>
            BY <2>5 DEF PostResolve, calendar, processes
        <3>2. JobOk(j) /\ j.stage # "dates" /\ k \in Actor
            BY DEF JobOk, Actor
        <3>. HIDE DEF j
        <3>. QED  BY <3>1, <3>2, JobDates
    <2>. QED  BY <1>3, <2>1, <2>2, <2>3, <2>4, <2>5 DEF Requests
<1>4. ASSUME NEW k \in Process, Pay(k)
      PROVE  Dates'
    <2> DEFINE j == [stage |-> "types", ct |-> job[k].ct, pays |-> FALSE,
                     queue |-> Ids(MaturedTypes) \cup {job[k].ct}]
    <2>1. job' = [job EXCEPT ![k] = j] /\ UNCHANGED <<limit, day, maturity, server, lastStart>>
        BY <1>4 DEF Pay, calendar, tables, processes
    <2>2. JobOk(j) /\ j.stage # "dates" /\ k \in Actor
        BY DEF JobOk, Actor
    <2>. HIDE DEF j
    <2>. QED  BY <2>1, <2>2, JobDates
<1>5. ASSUME NEW u, Lose(u) \/ \E open \in BOOLEAN : Event(u, open)
      PROVE  Dates'
    BY <1>5, OtherDates DEF Lose, Event, calendar, tables, processes
<1>6. CASE DailyCleanup
    <2> DEFINE j == [NoJob EXCEPT !.stage = "types", !.queue = Ids(MaturedTypes)]
    <2>1. job' = [job EXCEPT ![Cron] = j] /\ UNCHANGED <<limit, day, maturity, server, lastStart>>
        BY <1>6 DEF DailyCleanup, calendar, tables, processes
    <2>2. j = [stage |-> "types", queue |-> Ids(MaturedTypes), ct |-> NoJob.ct, pays |-> NoJob.pays]
        BY NoJobShape, NextList
    <2>3. JobOk(j) /\ j.stage # "dates" /\ Cron \in Actor
        BY <2>2 DEF JobOk, Actor
    <2>. HIDE DEF j
    <2>. QED  BY <2>1, <2>3, JobDates
<1>7. ASSUME NEW a \in Actor, Cleaning(a)
      PROVE  Dates'
    BY <1>7, CleaningDates
<1>8. CASE Tick
    BY <1>8, TickDates
<1>9. CASE UNCHANGED vars
    BY <1>9, OtherDates DEF vars, calendar, tables, processes
<1>. QED  BY <1>1, <1>2, <1>3, <1>4, <1>5, <1>6, <1>7, <1>8, <1>9 DEF Next

(* The calendar and the supply of dates, through every start, race and     *)
(* clean-up (make_upcoming, Maturity.persist and cleanup).                 *)
THEOREM Calendar == Spec => []Dates
BY DatesInit, DatesStep, PTL DEF Spec

(* Dates are a multiple of two weeks apart, or a week more over the end of *)
(* a year of 53 weeks, whichever servers made them on whichever days.      *)
THEOREM DatesFortnightly == Spec => []Fortnightly
<1>1. Dates => Fortnightly
    <2>. SUFFICES ASSUME Dates, NEW m \in maturity, NEW n \in maturity, m < n
                  PROVE  /\ n - m >= 14
                         /\ (n - m) % 14 = IF limit.year = 53 /\ m < 7 * 53 /\ 7 * 53 <= n
                                           THEN 7 ELSE 0
        BY DEF Fortnightly
    <2>1. m \in Nat /\ n \in Nat /\ IsExpiration(m) /\ IsExpiration(n)
        BY DEF Dates, Rounds
    <2>2. limit.year \in {52, 53}
        BY Years DEF Dates
    <2>. QED  BY <2>1, <2>2, ExpirationsApart
<1>. QED  BY <1>1, Calendar, PTL

(* There is a date to trade on for four weeks after the last start.        *)
THEOREM SupplyLasts == Spec => []DateAhead
<1>1. Dates => DateAhead
    <2>. SUFFICES ASSUME Dates, lastStart >= 0, day <= lastStart + 28
                  PROVE  Available # {}
        BY DEF DateAhead
    <2>1. PICK m \in maturity : m > lastStart + 28
        BY DEF Dates, Lasting
    <2>2. m > day
        BY <2>1 DEF Dates, Shape, Rounds, Lasting
    <2>. QED  BY <2>2 DEF Available
<1>. QED  BY <1>1, Calendar, PTL

(***************************************************************************)
(* The rows.                                                               *)
(***************************************************************************)
IssueOk(i) == i = [id |-> i.id, url |-> i.url, open |-> i.open, modified |-> i.modified]

(* The foreign keys of a contract type, committed or not. *)
Refers(c) == c.issue \in Ids(issue) /\ c.matures \in maturity

(* Whoever cleans up has no rows of its own in its transaction, and so the *)
(* locks of the others keep what their rows refer to.  A contract type on  *)
(* a /resolve page has been traded on, and its messages keep it.           *)
Rows ==
    /\ left = [k \in Process |-> left[k]]
    /\ \A i \in issue : IssueOk(i)
    /\ \A c \in ctype : Refers(c)
    /\ \A k \in Process : \A c \in left[k] : Refers(c)
    /\ \A k \in Process : job[k] # NoJob => left[k] = {}
    /\ held \subseteq traded
    /\ \A c \in shown : c \in ctype /\ c.id \in traded

(* At the start no row refers to another. *)
LEMMA RowsInit == Init => Rows
BY DEF Init, Rows

(* ON CONFLICT DO UPDATE writes two columns of a row. *)
LEMMA UpdatedIssue ==
    ASSUME NEW i, IssueOk(i), NEW open, NEW when
    PROVE  [i EXCEPT !.open = open, !.modified = when]
              = [id |-> i.id, url |-> i.url, open |-> open, modified |-> when]
<1> DEFINE g == [i EXCEPT !.open = open]
<1>1. PICK n, v, o, m : i = [id |-> n, url |-> v, open |-> o, modified |-> m]
    BY DEF IssueOk
<1>2. g = [id |-> n, url |-> v, open |-> open, modified |-> m]
    BY <1>1
<1>. HIDE DEF g
<1>3. [g EXCEPT !.modified = when] = [id |-> n, url |-> v, open |-> open, modified |-> when]
    BY <1>2
<1>. QED  BY <1>1, <1>3 DEF g

(* Issue.persist leaves every id in its place. *)
LEMMA PersistedIds ==
    ASSUME Rows, NEW u, NEW open, Persisted(u, open)
    PROVE  (\A i \in issue' : IssueOk(i)) /\ Ids(issue) \subseteq Ids(issue')
<1>1. CASE IssueAt(u) # {}
    <2> DEFINE f(i) == IF i.url = u THEN [i EXCEPT !.open = open, !.modified = day] ELSE i
    <2>1. issue' = {f(i) : i \in issue}
        BY <1>1 DEF Persisted
    <2>2. ASSUME NEW i \in issue
          PROVE  IssueOk(f(i)) /\ f(i).id = i.id
        <3>1. [i EXCEPT !.open = open, !.modified = day]
                = [id |-> i.id, url |-> i.url, open |-> open, modified |-> day]
            BY UpdatedIssue DEF Rows
        <3>. QED  BY <3>1 DEF IssueOk, Rows
    <2>. HIDE DEF f
    <2>. QED  BY <2>1, <2>2 DEF Ids
<1>2. CASE IssueAt(u) = {}
    BY <1>2 DEF Persisted, Ids, Rows, IssueOk
<1>. QED  BY <1>1, <1>2

(* A commit of process k, which may bring a new contract type with it. *)
LEMMA CommitRows ==
    ASSUME Rows, NEW k \in Process, NEW new, \A c \in new : Refers(c),
           ctype' = Kept(k) \cup new,
           left' = Closed(k),
           \A i \in issue' : IssueOk(i),
           Ids(issue) \subseteq Ids(issue'),
           traded \subseteq traded', held' \subseteq traded',
           UNCHANGED <<maturity, shown>>,
           \A h \in Process \ {k} : job'[h] = job[h]
    PROVE  Rows'
<1>1. left' = [left EXCEPT ![k] = {}]
    BY DEF Closed
<1>2. left' = [h \in Process |-> left'[h]] /\ left'[k] = {}
        /\ \A h \in Process \ {k} : left'[h] = left[h]
    BY <1>1 DEF Rows
<1>3. \A c : Refers(c) => Refers(c)'
    BY DEF Refers
<1>4. \A c \in ctype' : c \in ctype \/ c \in left[k] \/ c \in new
    BY DEF Kept
<1>5. \A c \in ctype' : Refers(c)'
    BY <1>3, <1>4 DEF Rows
<1>6. \A h \in Process : \A c \in left'[h] : Refers(c)'
    BY <1>2, <1>3 DEF Rows
<1>7. \A h \in Process : job'[h] # NoJob => left'[h] = {}
    BY <1>2 DEF Rows
<1>8. \A c \in shown' : c \in ctype' /\ c.id \in traded'
    BY DEF Rows, Kept
<1>. QED  BY <1>2, <1>5, <1>6, <1>7, <1>8 DEF Rows

(* Steps that leave every row and every open transaction. *)
LEMMA OtherRows ==
    ASSUME Rows, UNCHANGED <<issue, ctype, traded, held, shown, left>>,
           maturity \subseteq maturity',
           \A k \in Process : job'[k] # NoJob => job[k] # NoJob
    PROVE  Rows'
<1>1. \A c : Refers(c) => Refers(c)'
    BY DEF Refers
<1>. QED  BY <1>1 DEF Rows

(* Orders: the contract type that lookup() returns has its issue and date. *)
LEMMA LookUpRefers ==
    ASSUME Rows, NEW k \in Process, NEW i, NEW m, MayLookUp(k, i, m), NEW c \in LookUp(k, i, m)
    PROVE  Refers(c)
<1>1. CASE Pair(k, i, m) # {}
    BY <1>1 DEF LookUp, Pair, Kept, Rows
<1>2. CASE Pair(k, i, m) = {}
    <2>1. c \in [id : {made.ctype + 1} \cap 1..limit.types, issue : {i}, matures : {m}]
        BY <1>2 DEF LookUp
    <2>2. c.issue = i /\ c.matures = m
        BY <2>1
    <2>. QED  BY <2>2 DEF MayLookUp, Available, Refers
<1>. QED  BY <1>1, <1>2

(* An order refers to a row that its lookup has locked. *)
LEMMA OrderRows ==
    ASSUME Shape, Rows, NEW k \in Process, NEW i, NEW m,
           OrderTrades(k, i, m) \/ OrderRaises(k, i, m)
    PROVE  Rows'
<1>1. CASE OrderTrades(k, i, m)
    <2>1. PICK c \in LookUp(k, i, m) :
              /\ ctype' = Kept(k) \cup {c}
              /\ traded' = traded \cup {c.id}
              /\ held' \in {held, held \cup {c.id}, held \ {c.id}}
        BY <1>1 DEF OrderTrades, Noted
    <2>2. Refers(c)
        BY <1>1, LookUpRefers DEF OrderTrades
    <2>3. held' \subseteq traded'
        BY <2>1 DEF Rows
    <2>4. left' = Closed(k) /\ UNCHANGED <<maturity, issue, shown, job>>
        BY <1>1 DEF OrderTrades
    <2> DEFINE new == {c}
    <2>5. \A d \in new : Refers(d)
        BY <2>2
    <2>6. /\ \A j \in issue' : IssueOk(j)
          /\ Ids(issue) \subseteq Ids(issue')
          /\ UNCHANGED <<maturity, shown>>
          /\ \A h \in Process \ {k} : job'[h] = job[h]
        BY <2>4 DEF Rows
    <2>7. ctype' = Kept(k) \cup new /\ traded \subseteq traded' /\ left' = Closed(k)
        BY <2>1, <2>4
    <2>. HIDE DEF new
    <2>. QED  BY <2>3, <2>5, <2>6, <2>7, CommitRows
<1>2. CASE OrderRaises(k, i, m)
    <2>1. PICK c \in LookUp(k, i, m) : left' = [left EXCEPT ![k] = @ \cup {c}]
        BY <1>2 DEF OrderRaises
    <2>2. Refers(c)
        BY <1>2, LookUpRefers DEF OrderRaises
    <2>3. UNCHANGED <<maturity, issue, ctype, traded, held, shown, job>> /\ job[k] = NoJob
        BY <1>2 DEF OrderRaises, tables, trades, Ready
    <2>4. \A d : Refers(d)' <=> Refers(d)
        BY <2>3 DEF Refers
    <2>. QED  BY <2>1, <2>2, <2>3, <2>4 DEF Rows
<1>. QED  BY <1>1, <1>2

(* ContractType.cleanup() deletes what no message and no position refers to. *)
LEMMA DeleteTypeRows ==
    ASSUME Shape, Rows, NEW a \in Actor, NEW n, DeleteType(a, n)
    PROVE  Rows'
<1>1. /\ UNCHANGED <<maturity, issue, traded, held, shown, left>>
      /\ job' = [job EXCEPT ![a].queue = @ \ {n}]
      /\ job[a].stage = "types"
      /\ ctype' = {c \in ctype : c.id # n \/ c.id \in traded \cup held}
    BY DEF DeleteType, trades
<1>2. \A c : Refers(c) => Refers(c)'
    BY <1>1 DEF Refers
<1>3. \A k \in Process : job'[k] # NoJob => job[k] # NoJob
    BY <1>1, NoJobShape DEF Shape
<1>4. \A c \in shown' : c \in ctype' /\ c.id \in traded'
    BY <1>1 DEF Rows
<1>. QED  BY <1>1, <1>2, <1>3, <1>4 DEF Rows

(* Maturity.cleanup() and Issue.cleanup() delete what no contract type     *)
(* refers to, theirs or one that is not committed.                         *)
LEMMA DeleteParentRows ==
    ASSUME Shape, Rows, NEW a \in Actor, NEW n, DeleteDate(a, n) \/ DeleteIssue(a, n)
    PROVE  Rows'
<1>1. /\ UNCHANGED <<ctype, traded, held, shown, left>>
      /\ job' = [job EXCEPT ![a].queue = @ \ {n}]
      /\ job[a].stage # "idle"
    BY DEF DeleteDate, DeleteIssue, trades
<1>2. \A k \in Process : job'[k] # NoJob => job[k] # NoJob
    BY <1>1, NoJobShape DEF Shape
<1>3. \A i \in issue' : IssueOk(i)
    BY DEF DeleteDate, DeleteIssue, Rows
<1>4. a \in Process => left[a] = {}
    BY <1>1, NoJobShape DEF Rows
<1>5. \A k \in Process : \A c \in left[k] : c \in LockedByOthers(a)
    BY <1>4 DEF LockedByOthers
<1>6. CASE DeleteDate(a, n)
    <2>1. /\ maturity' = {m \in maturity : m # n \/ \E c \in ctype : c.matures = n}
          /\ issue' = issue
          /\ \A c \in LockedByOthers(a) : c.matures # n
        BY <1>6 DEF DeleteDate
    <2>2. \A c \in ctype : Refers(c)'
        BY <2>1 DEF Rows, Refers
    <2>3. \A k \in Process : \A c \in left[k] : Refers(c)'
        BY <2>1, <1>5 DEF Rows, Refers
    <2>. QED  BY <1>1, <1>2, <1>3, <2>2, <2>3 DEF Rows
<1>7. CASE DeleteIssue(a, n)
    <2>1. /\ issue' = {i \in issue : i.id # n \/ \E c \in ctype : c.issue = n}
          /\ maturity' = maturity
          /\ \A c \in LockedByOthers(a) : c.issue # n
        BY <1>7 DEF DeleteIssue
    <2>2. \A c \in ctype : Refers(c)'
        BY <2>1 DEF Rows, Refers, Ids
    <2>3. \A k \in Process : \A c \in left[k] : Refers(c)'
        BY <2>1, <1>5 DEF Rows, Refers, Ids
    <2>. QED  BY <1>1, <1>2, <1>3, <2>2, <2>3 DEF Rows
<1>. QED  BY <1>6, <1>7

(* The rest of a clean-up deletes nothing. *)
LEMMA CleaningRows ==
    ASSUME Shape, Rows, NEW a \in Actor, Cleaning(a)
    PROVE  Rows'
<1>1. ASSUME NextPart(a)
      PROVE  Rows'
    <2>1. UNCHANGED <<maturity, issue, ctype, traded, held, shown, left>>
        BY <1>1 DEF NextPart, tables, trades
    <2>2. \A k \in Process : job'[k] # NoJob => job[k] # NoJob
        <3>1. job[a] # NoJob
            BY <1>1, NoJobShape DEF NextPart
        <3>2. \A k \in Actor \ {a} : job'[k] = job[k]
            BY <1>1 DEF NextPart, Shape
        <3>. QED  BY <3>1, <3>2 DEF Actor
    <2>. QED  BY <2>1, <2>2, OtherRows
<1>. QED  BY <1>1, DeleteTypeRows, DeleteParentRows DEF Cleaning

(* resolve() begins with what the page showed, in a fresh transaction.     *)
LEMMA PostResolveRows ==
    ASSUME Shape, Rows, NEW k \in Process, NEW c, PostResolve(k, c)
    PROVE  Rows'
<1>1. \A h \in Process \ {k} : job'[h] = job[h]
    BY DEF PostResolve, Shape, Actor
<1>2. /\ ctype' = Kept(k) \cup {}
      /\ left' = Closed(k)
      /\ UNCHANGED <<maturity, issue, traded, held, shown>>
    BY DEF PostResolve, trades
<1>. QED  BY <1>1, <1>2, CommitRows DEF Rows

(* Every position is paid: the messages that say so are there to stay.     *)
LEMMA PayRows == ASSUME Shape, Rows, NEW k \in Process, Pay(k) PROVE Rows'
<1>1. /\ UNCHANGED <<maturity, issue, ctype, shown, left>>
      /\ held' \subseteq held /\ traded \subseteq traded'
      /\ job[k].stage = "issues"
      /\ \A h \in Process \ {k} : job'[h] = job[h]
    BY DEF Pay, tables, Shape, Actor
<1>2. \A d : Refers(d)' <=> Refers(d)
    BY <1>1 DEF Refers
<1>3. \A h \in Process : job'[h] # NoJob => left'[h] = {}
    BY <1>1, NoJobShape DEF Rows
<1>. QED  BY <1>1, <1>2, <1>3 DEF Rows

(* A process that ends, a page that fails: what is open is lost.           *)
LEMMA LostRows ==
    ASSUME Shape, Rows, NEW k \in Process, left' = Closed(k),
           job' \in {job, [job EXCEPT ![k] = NoJob]},
           UNCHANGED <<maturity, issue, ctype, traded, held, shown>>
    PROVE  Rows'
<1>1. \A d : Refers(d)' <=> Refers(d)
    BY DEF Refers
<1>2. left' = [h \in Process |-> left'[h]] /\ left'[k] = {}
        /\ \A h \in Process \ {k} : left'[h] = left[h] /\ job'[h] = job[h]
    BY DEF Closed, Rows, Shape, Actor
<1>. QED  BY <1>1, <1>2 DEF Rows

(* What a server does for a request. *)
LEMMA RequestRows ==
    ASSUME Shape, Rows, NEW k \in Process, Requests(k)
    PROVE  Rows'
<1>1. ASSUME NEW i, NEW m, OrderTrades(k, i, m) \/ OrderRaises(k, i, m)
      PROVE  Rows'
    BY <1>1, OrderRows
<1>2. CASE OrderRefused(k)
    BY <1>2, LostRows DEF OrderRefused, tables, trades
<1>3. ASSUME NEW u, AddIssue(k, u)
      PROVE  Rows'
    <2>1. Persisted(u, TRUE) /\ ctype' = Kept(k) \cup {} /\ left' = Closed(k)
            /\ UNCHANGED <<maturity, traded, held, shown, job>>
        BY <1>3 DEF AddIssue, trades
    <2>2. (\A i \in issue' : IssueOk(i)) /\ Ids(issue) \subseteq Ids(issue')
        BY <2>1, PersistedIds
    <2>. QED  BY <2>1, <2>2, CommitRows DEF Rows
<1>4. ASSUME NEW u, NEW n, Webhook(k, u, n)
      PROVE  Rows'
    <2>1. UNCHANGED <<maturity, traded, held, shown, job>>
        BY <1>4 DEF Webhook, trades
    <2>2. CASE k \in failed
        BY <1>4, <2>1, <2>2, OtherRows DEF Webhook
    <2>3. CASE k \notin failed
        <3>1. Persisted(u, wire[u][n]) /\ ctype' = Kept(k) \cup {} /\ left' = Closed(k)
            BY <1>4, <2>3 DEF Webhook
        <3>2. (\A i \in issue' : IssueOk(i)) /\ Ids(issue) \subseteq Ids(issue')
            BY <3>1, PersistedIds
        <3>. QED  BY <2>1, <3>1, <3>2, CommitRows DEF Rows
    <2>. QED  BY <2>2, <2>3
<1>5. CASE ResolvePage(k)
    <2>1. UNCHANGED <<maturity, issue, ctype, traded, held, left, job>>
            /\ shown' = shown \cup {c \in MaturedTypes : c.id \in held}
        BY <1>5 DEF ResolvePage, tables
    <2>2. \A d : Refers(d)' <=> Refers(d)
        BY <2>1 DEF Refers
    <2>. QED  BY <2>1, <2>2 DEF Rows, MaturedTypes
<1>6. ASSUME NEW c, PostResolve(k, c)
      PROVE  Rows'
    BY <1>6, PostResolveRows
<1>. QED  BY <1>1, <1>2, <1>3, <1>4, <1>5, <1>6 DEF Requests

(* Every step keeps the foreign keys. *)
LEMMA RowsStep == ASSUME Shape, Rows, [Next]_vars PROVE Rows'
<1>1. ASSUME NEW k \in Process, Start(k)
      PROVE  Rows'
    BY <1>1, OtherRows DEF Start, tables, trades
<1>2. ASSUME NEW k \in Process, Starting(k)
      PROVE  Rows'
    BY <1>2, OtherRows DEF Starting, SelectDate, InsertDate, Supplied, tables, trades
<1>3. ASSUME NEW k \in Process, Die(k)
      PROVE  Rows'
    BY <1>3, LostRows DEF Die, tables, trades
<1>4. ASSUME NEW k \in Process, Page(k)
      PROVE  Rows'
    <2>1. ctype' = Kept(k) \cup {} /\ left' = Closed(k)
            /\ UNCHANGED <<maturity, issue, traded, held, shown, job>>
        BY <1>4 DEF Page, trades
    <2>. QED  BY <2>1, CommitRows DEF Rows
<1>5. ASSUME NEW u, Lose(u) \/ \E open \in BOOLEAN : Event(u, open)
      PROVE  Rows'
    BY <1>5, OtherRows DEF Lose, Event, tables, trades
<1>6. CASE DailyCleanup
    <2>1. UNCHANGED <<maturity, issue, ctype, traded, held, shown, left>>
        BY <1>6 DEF DailyCleanup, tables, trades
    <2>2. \A k \in Process : job'[k] = job[k]
        BY <1>6, RegistryAssumption DEF DailyCleanup, Shape, Actor
    <2>. QED  BY <2>1, <2>2, OtherRows
<1>7. CASE Tick
    BY <1>7, OtherRows DEF Tick, tables, trades
<1>8. CASE UNCHANGED vars
    BY <1>8, OtherRows DEF vars, tables, trades
<1>. QED
    BY <1>1, <1>2, <1>3, <1>4, <1>5, <1>6, <1>7, <1>8,
       RequestRows, PayRows, CleaningRows DEF Next

(* What a contract type refers to is there, committed or not.              *)
THEOREM ForeignKeys == Spec => []Rows
<1>1. Dates => Shape
    BY DEF Dates
<1>. QED  BY <1>1, RowsInit, RowsStep, Calendar, PTL DEF Spec

(* A contract type that a /resolve page has shown is there, with its issue *)
(* and its date, whenever the page is posted: post_resolve()'s             *)
(* NotImplementedError is not reached.                                     *)
THEOREM PageStands == Spec => []ShownStays
<1>1. Rows => ShownStays
    BY DEF Rows, Refers, ShownStays
<1>. QED  BY <1>1, ForeignKeys, PTL

(***************************************************************************)
(* The webhook.                                                            *)
(***************************************************************************)
(* The last delivery under way brings the present state, and once there is *)
(* none the row has it.                                                    *)
Reports ==
    /\ wire \in [Url -> Seq(BOOLEAN)]
    /\ tracker \in [Url -> BOOLEAN]
    /\ \A i \in issue : i.url \in Url
    /\ \A u \in Url \ strayed : wire[u] # <<>> => wire[u][Len(wire[u])] = tracker[u]
    /\ StatusFollows

(* What is left of a sequence without one of its elements. *)
LEMMA RemoveAtType ==
    ASSUME NEW s \in Seq(BOOLEAN), NEW n \in DOMAIN s
    PROVE  /\ RemoveAt(s, n) \in Seq(BOOLEAN)
           /\ Len(RemoveAt(s, n)) = Len(s) - 1
           /\ n < Len(s) => RemoveAt(s, n)[Len(s) - 1] = s[Len(s)]
<1>1. Len(s) \in Nat /\ n \in 1..Len(s)
    BY LenProperties
<1> DEFINE a == SubSeq(s, 1, n - 1)
           b == SubSeq(s, n + 1, Len(s))
<1>2. a \in Seq(BOOLEAN) /\ Len(a) = n - 1
    BY <1>1, SubSeqProperties
<1>3. b \in Seq(BOOLEAN) /\ Len(b) = Len(s) - n
        /\ \A i \in 1..(Len(s) - n) : b[i] = s[n + i]
    BY <1>1, SubSeqProperties
<1>. HIDE DEF a, b
<1>4. a \o b \in Seq(BOOLEAN) /\ Len(a \o b) = Len(s) - 1
        /\ \A i \in 1..(Len(s) - 1) : (a \o b)[i] = IF i <= n - 1 THEN a[i] ELSE b[i - (n - 1)]
    <2>1. /\ a \o b \in Seq(BOOLEAN)
          /\ Len(a \o b) = Len(a) + Len(b)
          /\ \A i \in 1..(Len(a) + Len(b)) :
                (a \o b)[i] = IF i <= Len(a) THEN a[i] ELSE b[i - Len(a)]
        BY ONLY <1>2, <1>3, ConcatProperties, Zenon
    <2>2. Len(a) + Len(b) = Len(s) - 1
        BY <1>1, <1>2, <1>3
    <2>. QED  BY <1>2, <2>1, <2>2, Zenon
<1>5. n < Len(s) => (a \o b)[Len(s) - 1] = s[Len(s)]
    BY <1>1, <1>3, <1>4
<1>. QED  BY <1>4, <1>5 DEF RemoveAt, a, b

(* At the start nothing is on the wire. *)
LEMMA ReportsInit == Init => Reports
<1>. SUFFICES ASSUME Init PROVE Reports
    OBVIOUS
<1>1. wire \in [Url -> Seq(BOOLEAN)] /\ \A u \in Url : wire[u] = <<>>
    BY DEF Init
<1>2. tracker \in [Url -> BOOLEAN] /\ issue = {}
    BY DEF Init
<1>. QED  BY <1>1, <1>2 DEF Reports, StatusFollows

(* Issue.persist touches the row of its URL, or makes it. *)
LEMMA PersistedRow ==
    ASSUME Rows, NEW u, NEW open, Persisted(u, open)
    PROVE  \A i \in issue' : (i.url = u /\ i.open = open) \/ (i.url # u /\ i \in issue)
<1>1. CASE IssueAt(u) # {}
    <2> DEFINE f(i) == IF i.url = u THEN [i EXCEPT !.open = open, !.modified = day] ELSE i
    <2>1. issue' = {f(i) : i \in issue}
        BY <1>1 DEF Persisted
    <2>2. ASSUME NEW i \in issue, i.url = u
          PROVE  f(i).url = u /\ f(i).open = open
        <3>1. [i EXCEPT !.open = open, !.modified = day]
                = [id |-> i.id, url |-> i.url, open |-> open, modified |-> day]
            BY UpdatedIssue DEF Rows
        <3>. QED  BY <2>2, <3>1
    <2>3. ASSUME NEW i \in issue, i.url # u
          PROVE  f(i) = i
        BY <2>3
    <2>. HIDE DEF f
    <2>. QED  BY <2>1, <2>2, <2>3
<1>2. CASE IssueAt(u) = {}
    <2> DEFINE r == [id |-> made.issue + 1, url |-> u, open |-> open, modified |-> day]
    <2>1. issue' = issue \cup {r}
        BY <1>2 DEF Persisted
    <2>2. r.url = u /\ r.open = open
        OBVIOUS
    <2>3. \A i \in issue : i.url # u
        BY <1>2 DEF IssueAt
    <2>. HIDE DEF r
    <2>. QED  BY <2>1, <2>2, <2>3
<1>. QED  BY <1>1, <1>2

(* Steps that send nothing and report nothing. *)
LEMMA OtherReports ==
    ASSUME Reports, UNCHANGED <<wire, tracker, strayed>>, issue' \subseteq issue
    PROVE  Reports'
BY DEF Reports, StatusFollows

(* GitHub sends the state it has just recorded. *)
LEMMA EventReports ==
    ASSUME Reports, NEW u \in Url, NEW open \in BOOLEAN, Event(u, open)
    PROVE  Reports'
<1>1. /\ tracker' = [tracker EXCEPT ![u] = open]
      /\ wire' = [wire EXCEPT ![u] = Append(@, open)]
      /\ UNCHANGED <<issue, strayed>>
    BY DEF Event, tables
<1> DEFINE w == Append(wire[u], open)
<1>2. wire[u] \in Seq(BOOLEAN)
    BY DEF Reports
<1>3. w \in Seq(BOOLEAN) /\ w # <<>> /\ w[Len(w)] = open
    BY <1>2, AppendProperties, LenProperties
<1>4. wire' = [wire EXCEPT ![u] = w]
    BY <1>1
<1>. HIDE DEF w
<1>5. wire' \in [Url -> Seq(BOOLEAN)] /\ wire'[u] = w /\ \A v \in Url \ {u} : wire'[v] = wire[v]
    BY <1>3, <1>4 DEF Reports
<1>6. tracker' \in [Url -> BOOLEAN] /\ tracker'[u] = open
        /\ \A v \in Url \ {u} : tracker'[v] = tracker[v]
    BY <1>1 DEF Reports
<1>7. \A v \in Url \ strayed' : wire'[v] # <<>> => wire'[v][Len(wire'[v])] = tracker'[v]
    BY <1>1, <1>3, <1>5, <1>6 DEF Reports
<1>8. StatusFollows'
    BY <1>1, <1>3, <1>5, <1>6 DEF Reports, StatusFollows
<1>. QED  BY <1>1, <1>5, <1>6, <1>7, <1>8 DEF Reports

(* A URL that is entered by hand, or whose delivery is lost, has strayed.  *)
LEMMA StrayedReports ==
    ASSUME Reports, NEW u \in Url, strayed' = strayed \cup {u}, tracker' = tracker,
           wire' \in [Url -> Seq(BOOLEAN)],
           \A v \in Url \ {u} : wire'[v] = wire[v],
           \A i \in issue' : i.url = u \/ i \in issue
    PROVE  Reports'
<1>1. \A v \in Url \ strayed' : v # u /\ v \notin strayed /\ wire'[v] = wire[v]
    OBVIOUS
<1>2. \A i \in issue' : i.url \in Url
    BY DEF Reports
<1>3. \A v \in Url \ strayed' : wire'[v] # <<>> => wire'[v][Len(wire'[v])] = tracker'[v]
    BY <1>1 DEF Reports
<1>4. StatusFollows'
    BY <1>1, <1>2 DEF Reports, StatusFollows
<1>. QED  BY <1>2, <1>3, <1>4 DEF Reports

(* An issue whose delivery is lost has strayed. *)
LEMMA LoseReports == ASSUME Reports, NEW u \in Url, Lose(u) PROVE Reports'
<1>1. /\ wire[u] # <<>> /\ wire' = [wire EXCEPT ![u] = Tail(@)]
      /\ strayed' = strayed \cup {u} /\ UNCHANGED <<tracker, issue>>
    BY DEF Lose, tables
<1>2. Tail(wire[u]) \in Seq(BOOLEAN)
    BY <1>1, HeadTailProperties DEF Reports
<1>3. wire' \in [Url -> Seq(BOOLEAN)] /\ \A v \in Url \ {u} : wire'[v] = wire[v]
    BY <1>1, <1>2 DEF Reports
<1>. QED  BY <1>1, <1>3, StrayedReports

(* So has one that a user opens from the form. *)
LEMMA AddIssueReports ==
    ASSUME Rows, Reports, NEW k, NEW u \in Url, AddIssue(k, u)
    PROVE  Reports'
<1>1. Persisted(u, TRUE) /\ strayed' = strayed \cup {u} /\ UNCHANGED <<tracker, wire>>
    BY DEF AddIssue
<1>2. \A i \in issue' : i.url = u \/ i \in issue
    BY <1>1, PersistedRow
<1>3. wire' \in [Url -> Seq(BOOLEAN)] /\ \A v \in Url \ {u} : wire'[v] = wire[v]
    BY <1>1 DEF Reports
<1>. QED  BY <1>1, <1>2, <1>3, StrayedReports

(* The first delivery that is under way reaches the row; a later one, or   *)
(* one that a failed transaction refuses, strays.                          *)
LEMMA WebhookReports ==
    ASSUME Rows, Reports, NEW k, NEW u \in Url, NEW n, Webhook(k, u, n)
    PROVE  Reports'
<1> DEFINE w == RemoveAt(wire[u], n)
<1>1. n \in DOMAIN wire[u] /\ wire' = [wire EXCEPT ![u] = w] /\ tracker' = tracker
    BY DEF Webhook
<1>2. wire[u] \in Seq(BOOLEAN) /\ Len(wire[u]) \in Nat /\ n \in 1..Len(wire[u])
    BY <1>1, LenProperties DEF Reports
<1>3. /\ w \in Seq(BOOLEAN) /\ Len(w) = Len(wire[u]) - 1
      /\ n < Len(wire[u]) => w[Len(w)] = wire[u][Len(wire[u])]
    BY <1>1, <1>2, RemoveAtType
<1>. HIDE DEF w
<1>4. wire' \in [Url -> Seq(BOOLEAN)] /\ wire'[u] = w /\ \A v \in Url \ {u} : wire'[v] = wire[v]
    BY <1>1, <1>3 DEF Reports
<1>5. CASE k \in failed
    BY <1>1, <1>4, <1>5, StrayedReports DEF Webhook
<1>6. CASE k \notin failed
    <2>1. /\ Persisted(u, wire[u][n])
          /\ strayed' = IF n > 1 THEN strayed \cup {u} ELSE strayed
        BY <1>6 DEF Webhook
    <2>2. \A i \in issue' : (i.url = u /\ i.open = wire[u][n]) \/ (i.url # u /\ i \in issue)
        BY <2>1, PersistedRow
    <2>3. CASE n > 1
        BY <1>1, <1>4, <2>1, <2>2, <2>3, StrayedReports
    <2>4. CASE n = 1
        <3>1. \A i \in issue' : i.url \in Url
            BY <2>2 DEF Reports
        <3>2. w # <<>> => n < Len(wire[u])
            BY <1>2, <1>3, <2>4, EmptySeq
        <3>3. wire[u] # <<>>
            BY <1>2
        <3>4. \A v \in Url \ strayed' : wire'[v] # <<>> => wire'[v][Len(wire'[v])] = tracker'[v]
            BY <1>1, <1>3, <1>4, <2>1, <2>4, <3>2, <3>3 DEF Reports
        <3>5. w = <<>> /\ u \notin strayed => wire[u][n] = tracker[u]
            <4>1. w = <<>> => Len(wire[u]) = 1
                BY <1>2, <1>3
            <4>. QED  BY <2>4, <3>3, <4>1 DEF Reports
        <3>6. StatusFollows'
            BY <1>1, <1>4, <2>1, <2>2, <2>4, <3>1, <3>5 DEF Reports, StatusFollows
        <3>. QED  BY <1>1, <1>4, <3>1, <3>4, <3>6 DEF Reports
    <2>. QED  BY <1>2, <2>3, <2>4
<1>. QED  BY <1>5, <1>6

(* Every step keeps what the last delivery says. *)
LEMMA ReportsStep == ASSUME Rows, Reports, [Next]_vars PROVE Reports'
<1>1. ASSUME NEW k \in Process, Start(k) \/ Starting(k) \/ Die(k) \/ Page(k) \/ Pay(k)
      PROVE  Reports'
    BY <1>1, OtherReports DEF Start, Starting, SelectDate, InsertDate, Die, Page, Pay,
       tables, outside
<1>2. ASSUME NEW k \in Process, Requests(k)
      PROVE  Reports'
    <2>1. ASSUME NEW i, NEW m, OrderTrades(k, i, m) \/ OrderRaises(k, i, m)
          PROVE  Reports'
        BY <2>1, OtherReports DEF OrderTrades, OrderRaises, tables, outside
    <2>2. ASSUME OrderRefused(k) \/ ResolvePage(k)
          PROVE  Reports'
        BY <2>2, OtherReports DEF OrderRefused, ResolvePage, tables, outside
    <2>3. ASSUME NEW c, PostResolve(k, c)
          PROVE  Reports'
        BY <2>3, OtherReports DEF PostResolve, outside
    <2>. QED  BY <1>2, <2>1, <2>2, <2>3, AddIssueReports, WebhookReports DEF Requests
<1>3. ASSUME NEW a \in Actor, Cleaning(a)
      PROVE  Reports'
    <2>1. ASSUME NEW n, DeleteType(a, n) \/ DeleteDate(a, n) \/ DeleteIssue(a, n)
          PROVE  Reports'
        BY <2>1, OtherReports DEF DeleteType, DeleteDate, DeleteIssue, outside
    <2>2. ASSUME NextPart(a)
          PROVE  Reports'
        BY <2>2, OtherReports DEF NextPart, tables, outside
    <2>. QED  BY <1>3, <2>1, <2>2 DEF Cleaning
<1>4. CASE DailyCleanup \/ Tick \/ UNCHANGED vars
    BY <1>4, OtherReports DEF DailyCleanup, Tick, vars, tables, outside
<1>. QED
    BY <1>1, <1>2, <1>3, <1>4, LoseReports, EventReports DEF Next

(* An issue is open or closed as at the tracker once nothing is under way, *)
(* unless a delivery was lost or overtaken or it was entered by hand, for  *)
(* any number of issues, processes and deliveries (webhook, Issue.persist). *)
THEOREM WebhookFollows == Spec => []StatusFollows
<1>1. Reports => StatusFollows
    BY DEF Reports
<1>. QED  BY <1>1, ForeignKeys, ReportsInit, ReportsStep, PTL DEF Spec

(***************************************************************************)
(* The columns.                                                            *)
(***************************************************************************)
TypeRow == [id : 1..MaxTypes, issue : 1..MaxIssues, matures : Nat]
IssueRow == [id : 1..MaxIssues, url : Url, open : BOOLEAN, modified : Nat]
MadeOk ==
    /\ made = [issue |-> made.issue, ctype |-> made.ctype, raised |-> made.raised]
    /\ made.issue \in Nat

(* The contract types that are committed, and those of open transactions. *)
AllTypes == ctype \cup UNION {left[k] : k \in Process}
SamePair(c, d) == c.issue = d.issue /\ c.matures = d.matures

(* UNIQUE (issue, matures) counts uncommitted rows too: lookup() waits for *)
(* whoever has inserted the pair.                                          *)
Columns ==
    /\ MadeOk
    /\ issue \subseteq IssueRow
    /\ AllTypes \subseteq TypeRow
    /\ traded \cup held \subseteq Ids(ctype)
    /\ \A c, d \in AllTypes : SamePair(c, d) => c = d

(* No row has been written yet. *)
LEMMA ColumnsInit == Init => Columns
<1>. SUFFICES ASSUME Init PROVE Columns
    OBVIOUS
<1>1. made = [issue |-> 0, ctype |-> 0, raised |-> 0] /\ ctype = {} /\ issue = {}
        /\ traded = {} /\ held = {} /\ left = [k \in Process |-> {}]
    BY DEF Init
<1>2. AllTypes = {}
    BY <1>1 DEF AllTypes
<1>3. MadeOk
    BY <1>1 DEF MadeOk
<1>. QED  BY <1>1, <1>2, <1>3 DEF Columns

(* Rows that a step adds must be of their types, and no pair twice. *)
LEMMA MoreColumns ==
    ASSUME Columns, MadeOk', issue' \subseteq IssueRow,
           NEW new \in SUBSET TypeRow, AllTypes' \subseteq AllTypes \cup new,
           \A c \in new, d \in AllTypes \cup new : SamePair(c, d) => c = d,
           traded' \cup held' \subseteq Ids(ctype')
    PROVE  Columns'
<1>1. \A c, d : SamePair(c, d) => SamePair(d, c)
    BY DEF SamePair
<1>2. \A c, d \in AllTypes' : SamePair(c, d) => c = d
    BY <1>1 DEF Columns
<1>3. AllTypes' \subseteq TypeRow
    BY DEF Columns
<1>. QED  BY <1>2, <1>3 DEF Columns, TypeRow, IssueRow, SamePair

(* A step that adds no contract type. *)
LEMMA FewerColumns ==
    ASSUME Columns, MadeOk', issue' \subseteq IssueRow, AllTypes' \subseteq AllTypes,
           traded' \cup held' \subseteq Ids(ctype')
    PROVE  Columns'
<1>1. {} \in SUBSET TypeRow
    OBVIOUS
<1>. QED  BY <1>1, MoreColumns

(* A step that leaves the rows and what refers to them. *)
LEMMA SameColumns ==
    ASSUME Columns, UNCHANGED <<issue, ctype, traded, held, left, made>>
    PROVE  Columns'
BY DEF Columns, AllTypes, Ids, MadeOk, IssueRow, TypeRow, SamePair

(* A commit, and a process that ends, empty an open transaction. *)
LEMMA ClosedTypes ==
    ASSUME Rows, NEW k \in Process, left' = Closed(k), ctype' \in {ctype, Kept(k)}
    PROVE  AllTypes' \subseteq AllTypes /\ Ids(ctype) \subseteq Ids(ctype')
<1>1. left' = [left EXCEPT ![k] = {}]
    BY DEF Closed
<1>2. left'[k] = {} /\ \A h \in Process \ {k} : left'[h] = left[h]
    BY <1>1 DEF Rows
<1>. QED  BY <1>2 DEF AllTypes, Kept, Ids

(* Issue.persist updates a row or inserts the next one. *)
LEMMA PersistedColumns ==
    ASSUME Shape, Columns, NEW u \in Url, NEW open \in BOOLEAN, Persisted(u, open)
    PROVE  MadeOk' /\ issue' \subseteq IssueRow
<1>0. day \in Nat
    BY DEF Shape
<1>1. CASE IssueAt(u) # {}
    <2> DEFINE f(i) == IF i.url = u THEN [i EXCEPT !.open = open, !.modified = day] ELSE i
    <2>1. issue' = {f(i) : i \in issue} /\ made' = made
        BY <1>1 DEF Persisted
    <2>2. ASSUME NEW i \in issue
          PROVE  f(i) \in IssueRow
        <3>1. i \in IssueRow /\ IssueOk(i)
            BY DEF Columns, IssueRow, IssueOk
        <3>2. [i EXCEPT !.open = open, !.modified = day]
                = [id |-> i.id, url |-> i.url, open |-> open, modified |-> day]
            BY <3>1, UpdatedIssue
        <3>. QED  BY <1>0, <3>1, <3>2 DEF IssueRow
    <2>. HIDE DEF f
    <2>. QED  BY <2>1, <2>2 DEF Columns, MadeOk
<1>2. CASE IssueAt(u) = {}
    <2> DEFINE r == [id |-> made.issue + 1, url |-> u, open |-> open, modified |-> day]
    <2>1. /\ made.issue < limit.issues
          /\ issue' = issue \cup {r}
          /\ made' = [made EXCEPT !.issue = @ + 1]
        BY <1>2 DEF Persisted
    <2>2. limit.issues \in 0..MaxIssues /\ MaxIssues \in Nat
        BY RegistryAssumption DEF Shape, Instance
    <2>3. made.issue \in Nat /\ made = [issue |-> made.issue, ctype |-> made.ctype,
                                        raised |-> made.raised]
        BY DEF Columns, MadeOk
    <2>4. made.issue + 1 \in 1..MaxIssues
        BY <2>1, <2>2, <2>3
    <2>5. r \in IssueRow
        BY <1>0, <2>4 DEF IssueRow
    <2>6. made' = [issue |-> made.issue + 1, ctype |-> made.ctype, raised |-> made.raised]
        BY <2>1, <2>3
    <2>7. MadeOk'
        BY <2>3, <2>6 DEF MadeOk
    <2>. HIDE DEF r
    <2>. QED  BY <2>1, <2>5, <2>7 DEF Columns
<1>. QED  BY <1>1, <1>2

(* lookup() returns the row of the pair, or a new one: nobody else has one. *)
LEMMA LookUpColumns ==
    ASSUME Dates, Columns, NEW k \in Process, NEW i \in 1..MaxIssues, NEW m,
           MayLookUp(k, i, m), NEW c \in LookUp(k, i, m)
    PROVE  c \in TypeRow /\ \A d \in AllTypes : SamePair(c, d) => c = d
<1>1. AllTypes = Kept(k) \cup LockedByOthers(k)
    BY DEF AllTypes, Kept, LockedByOthers
<1>2. CASE Pair(k, i, m) # {}
    <2>1. c \in AllTypes
        BY <1>1, <1>2 DEF LookUp, Pair
    <2>. QED  BY <2>1 DEF Columns
<1>3. CASE Pair(k, i, m) = {}
    <2>1. c \in [id : {made.ctype + 1} \cap 1..limit.types, issue : {i}, matures : {m}]
        BY <1>3 DEF LookUp
    <2>2. limit.types \in 0..MaxTypes /\ MaxTypes \in Nat
        BY RegistryAssumption DEF Dates, Shape, Instance
    <2>3. m \in Nat
        BY DEF MayLookUp, Available, Dates, Rounds
    <2>4. c \in TypeRow /\ c.issue = i /\ c.matures = m
        BY <2>1, <2>2, <2>3 DEF TypeRow
    <2>5. \A d \in AllTypes : d.issue # i \/ d.matures # m
        BY <1>1, <1>3 DEF Pair, MayLookUp
    <2>. QED  BY <2>4, <2>5 DEF SamePair
<1>. QED  BY <1>2, <1>3

(* The number of the last contract type moves on; that of issues stays. *)
LEMMA NumberedMade ==
    ASSUME MadeOk, NEW c, NEW raised, Numbered(c, raised)
    PROVE  MadeOk'
<1> DEFINE n == Max({made.ctype, c.id})
           r == made.raised + raised
<1>1. made' = [made EXCEPT !.ctype = n, !.raised = r]
    BY DEF Numbered
<1>. HIDE DEF n, r
<1> DEFINE g == [made EXCEPT !.ctype = n]
<1>2. g = [issue |-> made.issue, ctype |-> n, raised |-> made.raised]
    BY DEF MadeOk
<1>. HIDE DEF g
<1>3. [g EXCEPT !.raised = r] = [issue |-> made.issue, ctype |-> n, raised |-> r]
    BY <1>2
<1>4. made' = [issue |-> made.issue, ctype |-> n, raised |-> r]
    BY <1>1, <1>3 DEF g
<1>. QED  BY <1>4 DEF MadeOk

(* An order commits its contract type, or leaves it open. *)
LEMMA OrderColumns ==
    ASSUME Dates, Rows, Columns, NEW k \in Process, NEW i \in 1..MaxIssues, NEW m,
           OrderTrades(k, i, m) \/ OrderRaises(k, i, m)
    PROVE  Columns'
<1>0. MadeOk /\ issue \subseteq IssueRow /\ traded \cup held \subseteq Ids(ctype)
    BY DEF Columns
<1>1. CASE OrderTrades(k, i, m)
    <2>1. PICK c \in LookUp(k, i, m) :
              /\ ctype' = Kept(k) \cup {c}
              /\ Numbered(c, 0)
              /\ traded' = traded \cup {c.id}
              /\ held' \in {held, held \cup {c.id}, held \ {c.id}}
        BY <1>1 DEF OrderTrades, Noted
    <2>2. MayLookUp(k, i, m) /\ left' = Closed(k) /\ issue' = issue
        BY <1>1 DEF OrderTrades
    <2>3. c \in TypeRow /\ \A d \in AllTypes : SamePair(c, d) => c = d
        BY <2>2, LookUpColumns
    <2>4. left'[k] = {} /\ \A h \in Process \ {k} : left'[h] = left[h]
        BY <2>2 DEF Closed, Rows
    <2>5. AllTypes' \subseteq AllTypes \cup {c}
        BY <2>1, <2>4 DEF AllTypes, Kept
    <2>6. traded' \cup held' \subseteq Ids(ctype')
        BY <1>0, <2>1 DEF Ids, Kept
    <2>7. MadeOk'
        BY <1>0, <2>1, NumberedMade
    <2> DEFINE new == {c}
    <2>8. /\ new \in SUBSET TypeRow /\ AllTypes' \subseteq AllTypes \cup new
          /\ \A e \in new, d \in AllTypes \cup new : SamePair(e, d) => e = d
        BY <2>3, <2>5
    <2>. HIDE DEF new
    <2>. QED  BY <1>0, <2>2, <2>6, <2>7, <2>8, MoreColumns
<1>2. CASE OrderRaises(k, i, m)
    <2>1. PICK c \in LookUp(k, i, m) :
              /\ left' = [left EXCEPT ![k] = @ \cup {c}]
              /\ Numbered(c, 1)
        BY <1>2 DEF OrderRaises
    <2>2. MayLookUp(k, i, m) /\ UNCHANGED <<issue, ctype, traded, held>>
        BY <1>2 DEF OrderRaises, tables, trades
    <2>3. c \in TypeRow /\ \A d \in AllTypes : SamePair(c, d) => c = d
        BY <2>2, LookUpColumns
    <2>4. left'[k] = left[k] \cup {c} /\ \A h \in Process \ {k} : left'[h] = left[h]
        BY <2>1 DEF Rows
    <2>5. AllTypes' \subseteq AllTypes \cup {c}
        BY <2>2, <2>4 DEF AllTypes
    <2>6. traded' \cup held' \subseteq Ids(ctype')
        BY <1>0, <2>2 DEF Ids
    <2>7. MadeOk'
        BY <1>0, <2>1, NumberedMade
    <2> DEFINE new == {c}
    <2>8. /\ new \in SUBSET TypeRow /\ AllTypes' \subseteq AllTypes \cup new
          /\ \A e \in new, d \in AllTypes \cup new : SamePair(e, d) => e = d
        BY <2>3, <2>5
    <2>. HIDE DEF new
    <2>. QED  BY <1>0, <2>2, <2>6, <2>7, <2>8, MoreColumns
<1>. QED  BY <1>1, <1>2

(* A request to a process. *)
LEMMA RequestColumns ==
    ASSUME Dates, Rows, Reports, Columns, NEW k \in Process, Requests(k)
    PROVE  Columns'
<1>0. /\ Shape /\ MadeOk /\ issue \subseteq IssueRow
      /\ traded \cup held \subseteq Ids(ctype)
    BY DEF Dates, Columns
<1>1. ASSUME NEW i \in 1..MaxIssues, NEW m \in maturity,
             OrderTrades(k, i, m) \/ OrderRaises(k, i, m)
      PROVE  Columns'
    BY <1>1, OrderColumns
<1>2. CASE OrderRefused(k)
    <2>1. UNCHANGED <<issue, ctype, traded, held, made>> /\ left' = Closed(k)
        BY <1>2 DEF OrderRefused, tables, trades
    <2>2. MadeOk' /\ AllTypes' \subseteq AllTypes /\ Ids(ctype) \subseteq Ids(ctype')
        BY <1>0, <2>1, ClosedTypes DEF MadeOk
    <2>. QED  BY <1>0, <2>1, <2>2, FewerColumns
<1>3. ASSUME NEW u \in Url, AddIssue(k, u)
      PROVE  Columns'
    <2>1. Persisted(u, TRUE) /\ ctype' = Kept(k) /\ left' = Closed(k) /\ UNCHANGED <<traded, held>>
        BY <1>3 DEF AddIssue, trades
    <2>2. MadeOk' /\ issue' \subseteq IssueRow
        BY <1>0, <2>1, PersistedColumns
    <2>3. AllTypes' \subseteq AllTypes /\ Ids(ctype) \subseteq Ids(ctype')
        BY <2>1, ClosedTypes
    <2>. QED  BY <1>0, <2>1, <2>2, <2>3, FewerColumns
<1>4. ASSUME NEW u \in Url, NEW n, Webhook(k, u, n)
      PROVE  Columns'
    <2>1. CASE k \in failed
        BY <1>4, <2>1, SameColumns DEF Webhook, trades
    <2>2. CASE k \notin failed
        <3>1. /\ Persisted(u, wire[u][n]) /\ n \in DOMAIN wire[u] /\ ctype' = Kept(k)
              /\ left' = Closed(k) /\ UNCHANGED <<traded, held>>
            BY <1>4, <2>2 DEF Webhook, trades
        <3>2. wire[u][n] \in BOOLEAN
            <4>1. wire[u] \in Seq(BOOLEAN)
                BY DEF Reports
            <4>. QED  BY <3>1, <4>1
        <3>3. MadeOk' /\ issue' \subseteq IssueRow
            BY <1>0, <3>1, <3>2, PersistedColumns
        <3>4. AllTypes' \subseteq AllTypes /\ Ids(ctype) \subseteq Ids(ctype')
            BY <3>1, ClosedTypes
        <3>. QED  BY <1>0, <3>1, <3>3, <3>4, FewerColumns
    <2>. QED  BY <2>1, <2>2
<1>5. CASE ResolvePage(k)
    BY <1>5, SameColumns DEF ResolvePage, tables
<1>6. ASSUME NEW c, PostResolve(k, c)
      PROVE  Columns'
    <2>1. /\ UNCHANGED <<issue, traded, held, made>> /\ left' = Closed(k)
          /\ ctype' = Kept(k)
        BY <1>6 DEF PostResolve, trades
    <2>2. MadeOk' /\ AllTypes' \subseteq AllTypes /\ Ids(ctype) \subseteq Ids(ctype')
        BY <1>0, <2>1, ClosedTypes DEF MadeOk
    <2>. QED  BY <1>0, <2>1, <2>2, FewerColumns
<1>. QED  BY <1>1, <1>2, <1>3, <1>4, <1>5, <1>6 DEF Requests

(* Every step keeps the columns. *)
LEMMA ColumnsStep == ASSUME Dates, Rows, Reports, Columns, [Next]_vars PROVE Columns'
<1>0. /\ MadeOk /\ issue \subseteq IssueRow
      /\ traded \cup held \subseteq Ids(ctype)
    BY DEF Columns
<1>1. ASSUME NEW k \in Process, Start(k) \/ Starting(k)
      PROVE  Columns'
    BY <1>1, SameColumns DEF Start, Starting, SelectDate, InsertDate, tables, trades
<1>2. ASSUME NEW k \in Process, Die(k)
      PROVE  Columns'
    <2>1. UNCHANGED <<issue, ctype, traded, held, made>> /\ left' = Closed(k)
        BY <1>2 DEF Die, tables, trades
    <2>2. MadeOk' /\ AllTypes' \subseteq AllTypes /\ Ids(ctype) \subseteq Ids(ctype')
        BY <1>0, <2>1, ClosedTypes DEF MadeOk
    <2>. QED  BY <1>0, <2>1, <2>2, FewerColumns
<1>3. ASSUME NEW k \in Process, Page(k)
      PROVE  Columns'
    <2>1. UNCHANGED <<issue, traded, held, made>> /\ left' = Closed(k) /\ ctype' = Kept(k)
        BY <1>3 DEF Page, trades
    <2>2. MadeOk' /\ AllTypes' \subseteq AllTypes /\ Ids(ctype) \subseteq Ids(ctype')
        BY <1>0, <2>1, ClosedTypes DEF MadeOk
    <2>. QED  BY <1>0, <2>1, <2>2, FewerColumns
<1>4. ASSUME NEW k \in Process, Pay(k)
      PROVE  Columns'
    <2>1. /\ UNCHANGED <<issue, ctype, left, made>> /\ held' \subseteq held
          /\ traded' \subseteq traded \cup held
        BY <1>4 DEF Pay, tables
    <2>2. MadeOk' /\ AllTypes' \subseteq AllTypes /\ Ids(ctype') = Ids(ctype)
        BY <1>0, <2>1 DEF MadeOk, AllTypes
    <2>. QED  BY <1>0, <2>1, <2>2, FewerColumns
<1>5. ASSUME NEW a \in Actor, Cleaning(a)
      PROVE  Columns'
    <2>1. ASSUME NEW n, DeleteType(a, n)
          PROVE  Columns'
        <3>1. /\ UNCHANGED <<issue, traded, held, left, made>>
              /\ ctype' = {c \in ctype : c.id # n \/ c.id \in traded \cup held}
            BY <2>1 DEF DeleteType, trades
        <3>2. MadeOk' /\ AllTypes' \subseteq AllTypes
            BY <1>0, <3>1 DEF MadeOk, AllTypes
        <3>3. traded' \cup held' \subseteq Ids(ctype')
            BY <1>0, <3>1 DEF Ids
        <3>. QED  BY <1>0, <3>1, <3>2, <3>3, FewerColumns
    <2>2. ASSUME NEW n, DeleteIssue(a, n)
          PROVE  Columns'
        <3>1. UNCHANGED <<ctype, traded, held, left, made>> /\ issue' \subseteq issue
            BY <2>2 DEF DeleteIssue, trades
        <3>2. MadeOk' /\ AllTypes' \subseteq AllTypes /\ Ids(ctype') = Ids(ctype)
            BY <1>0, <3>1 DEF MadeOk, AllTypes
        <3>. QED  BY <1>0, <3>1, <3>2, FewerColumns
    <2>3. ASSUME NEW n, DeleteDate(a, n)
          PROVE  Columns'
        BY <2>3, SameColumns DEF DeleteDate, trades
    <2>4. ASSUME NextPart(a)
          PROVE  Columns'
        BY <2>4, SameColumns DEF NextPart, tables, trades
    <2>. QED  BY <1>5, <2>1, <2>2, <2>3, <2>4 DEF Cleaning
<1>6. ASSUME NEW u, Lose(u) \/ \E open \in BOOLEAN : Event(u, open)
      PROVE  Columns'
    BY <1>6, SameColumns DEF Lose, Event, tables, trades
<1>7. CASE DailyCleanup \/ Tick \/ UNCHANGED vars
    BY <1>7, SameColumns DEF DailyCleanup, Tick, vars, tables, trades
<1>. QED
    BY <1>1, <1>2, <1>3, <1>4, <1>5, <1>6, <1>7, RequestColumns DEF Next

(* Every column keeps its type; no pair of an issue and a date has two     *)
(* rows, not even while transactions of several processes are open         *)
(* (ContractType.lookup); no message or position outlives its contract     *)
(* type; and no date is more than nine weeks away (make_upcoming).         *)
THEOREM RegistryTypes == Spec => []TypeOK
<1>1. Dates /\ Rows /\ Columns => TypeOK
    <2>. SUFFICES ASSUME Dates, Rows, Columns PROVE TypeOK
        OBVIOUS
    <2>1. limit.first \in Nat /\ day \in Nat
        BY Years DEF Dates, Shape
    <2>2. maturity \subseteq limit.first..(day + 63)
        BY <2>1 DEF Dates, Rounds
    <2>3. UNION {Kept(k) : k \in Process} \subseteq TypeRow
        BY DEF Columns, AllTypes, Kept
    <2>4. IsInjective([c \in ctype |-> <<c.issue, c.matures>>])
        <3>1. \A c, d \in ctype : <<c.issue, c.matures>> = <<d.issue, d.matures>> => c = d
            BY DEF Columns, AllTypes, SamePair
        <3>. QED  BY <3>1 DEF IsInjective
    <2>5. /\ \A a \in Actor : job[a].stage \in {"idle", "types", "dates", "issues"}
          /\ \A k \in Process : server[k].at \in {"down", "select", "insert", "up"}
        BY DEF Dates, Shape, JobOk
    <2>. QED  BY <2>2, <2>3, <2>4, <2>5 DEF TypeOK, Columns, TypeRow, IssueRow
<1>2. Spec => [](Rows /\ Reports)
    BY ForeignKeys, ReportsInit, ReportsStep, PTL DEF Spec
<1>. QED  BY <1>1, <1>2, Calendar, ColumnsInit, ColumnsStep, PTL DEF Spec
====
