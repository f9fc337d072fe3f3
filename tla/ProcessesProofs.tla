---- MODULE ProcessesProofs ----
(***************************************************************************)
(* Theorems about every Processes, however many workers, connections,      *)
(* orders, users and accounts it has.                                      *)
(*                                                                         *)
(* The steps of PostgreSQL and of the handlers are stated once as relations *)
(* between a worker's rows, its job and the committed rows, so that what   *)
(* they do is a fact about values and not about a step of the whole        *)
(* system.                                                                 *)
(***************************************************************************)
EXTENDS Processes, TablesTheorems, FiniteSetTheorems

(***************************************************************************)
(* Rows.                                                                   *)
(***************************************************************************)
(* Each kind of row has its table and its keys. *)
LEMMA RowFacts ==
    /\ \A c \in ContractType : TypeRow(c) \in Row /\ TypeRow(c)[1] = "type" /\ TypeRow(c)[2] = c
    /\ \A a \in Account :
         AccountRow(a) \in Row /\ AccountRow(a)[1] = "account" /\ AccountRow(a)[2] = a
    /\ \A i \in OfferId : OfferOf(i) \in Row /\ OfferOf(i)[1] = "offer" /\ OfferOf(i)[2] = i
    /\ \A c \in ContractType, a \in Account :
         /\ PositionRow(c, a) \in Row /\ PositionRow(c, a)[1] = "position"
         /\ PositionRow(c, a)[2] = c /\ PositionRow(c, a)[3] = a
    /\ \A c \in ContractType, a \in Account : IdRow(c, a) \in Row /\ IdRow(c, a)[1] = "id"
    /\ \A u \in User : UserRow(u) \in Row /\ UserRow(u)[1] = "user" /\ UserRow(u)[2] = u
    /\ \A n \in Name : NameRow(n) \in Row /\ NameRow(n)[1] = "name" /\ NameRow(n)[2] = n
<1>1. \A c \in ContractType : TypeRow(c) \in Row /\ TypeRow(c)[1] = "type" /\ TypeRow(c)[2] = c
    BY DEF Row, TypeRow
<1>2. \A a \in Account :
        AccountRow(a) \in Row /\ AccountRow(a)[1] = "account" /\ AccountRow(a)[2] = a
    BY DEF Row, AccountRow
<1>3. \A i \in OfferId : OfferOf(i) \in Row /\ OfferOf(i)[1] = "offer" /\ OfferOf(i)[2] = i
    BY DEF Row, OfferOf
<1>4. \A c \in ContractType, a \in Account :
        /\ PositionRow(c, a) \in Row /\ PositionRow(c, a)[1] = "position"
        /\ PositionRow(c, a)[2] = c /\ PositionRow(c, a)[3] = a
    BY DEF Row, PositionRow
<1>5. \A u \in User : UserRow(u) \in Row /\ UserRow(u)[1] = "user" /\ UserRow(u)[2] = u
    BY DEF Row, UserRow
<1>6. \A n \in Name : NameRow(n) \in Row /\ NameRow(n)[1] = "name" /\ NameRow(n)[2] = n
    BY DEF Row, NameRow
<1>7. \A c \in ContractType, a \in Account : IdRow(c, a) \in Row /\ IdRow(c, a)[1] = "id"
    BY DEF Row, IdRow
<1>. QED  BY <1>1, <1>2, <1>3, <1>4, <1>5, <1>6, <1>7

(* There are no other rows. *)
LEMMA RowKinds ==
    ASSUME NEW r \in Row
    PROVE  \/ \E c \in ContractType : r = TypeRow(c)
           \/ \E a \in Account : r = AccountRow(a)
           \/ \E i \in OfferId : r = OfferOf(i)
           \/ \E c \in ContractType, a \in Account : r = PositionRow(c, a)
           \/ \E c \in ContractType, a \in Account : r = IdRow(c, a)
           \/ \E u \in User : r = UserRow(u)
           \/ \E n \in Name : r = NameRow(n)
BY DEF Row

(* A table's rows are those of its kind. *)
LEMMA RowsOfTables ==
    ASSUME NEW r \in Row
    PROVE  /\ r[1] = "account" => \E a \in Account : r = AccountRow(a)
           /\ r[1] = "offer" => \E i \in OfferId : r = OfferOf(i)
           /\ r[1] = "position" => \E c \in ContractType, a \in Account : r = PositionRow(c, a)
           /\ r[1] = "user" => \E u \in User : r = UserRow(u)
BY RowKinds, RowFacts

(* One row on top of others. *)
Put(m, r, v) == Over([s \in {r} |-> v], m)

LEMMA PutDomain ==
    ASSUME NEW m, NEW r, NEW v
    PROVE  \A s : s \in DOMAIN Put(m, r, v) <=> s = r \/ s \in DOMAIN m
BY DEF Over, Put

LEMMA PutRows ==
    ASSUME NEW m, NEW r, NEW v
    PROVE  /\ Put(m, r, v)[r] = v
           /\ \A s \in DOMAIN m : s # r => Put(m, r, v)[s] = m[s]
BY DEF Over, Put

(***************************************************************************)
(* Jobs.                                                                   *)
(***************************************************************************)
Kind == {"none", "place", "cancel", "list", "login", "resolve", "clear", "pay", "final", "last"}
Offering == {"read", "refund", "shrink"}
Trading == {"side", "store", "debit"}
LoginSteps == {"user", "create", "save", "upsert", "name"}
PaySteps == {"pick", "credit", "delete"}
Label == {"idle", "lookup", "match", "find", "filter", "clean", "rest", "insert", "commit"}
           \cup Offering \cup Trading \cup LoginSteps \cup PaySteps

(* A record of these fields and no others. *)
IsJob(j) ==
    j \in [kind : {j.kind}, at : {j.at}, id : {j.id}, left : {j.left}, rows : {j.rows},
           row : {j.row}, n : {j.n}, got : {j.got}, half : {j.half}, due : {j.due}]

(* Which statements a kind of request issues. *)
StepOk(j) ==
    /\ j.kind \in Kind /\ j.at \in Label
    /\ j.kind = "none" \/ j.at = "idle" => j = Idle
    /\ j.at = "lookup" => j.kind \in {"place", "resolve"}
    /\ j.at \in {"match", "rest", "insert"} \cup Trading => j.kind = "place"
    /\ j.at = "find" => j.kind \in {"list", "resolve", "final"}
    /\ j.at = "filter" => j.kind \in {"resolve", "final"}
    /\ j.at = "clean" => j.kind \in {"clear", "last"}
    /\ j.at \in Offering =>
         j.kind \in {"place", "cancel", "list", "resolve", "clear", "final", "last"}
    /\ j.at \in LoginSteps => j.kind = "login"
    /\ j.at \in PaySteps => j.kind = "pay"

(* The types of the handler's variables. *)
FieldsOk(j) ==
    /\ DOMAIN j.rows \subseteq OfferId /\ \A i \in DOMAIN j.rows : j.rows[i] \in Nat \ {0}
    /\ j.row \in Nat /\ j.left \in Int /\ j.n \in Int /\ j.got \in Int /\ j.half \in Side
    /\ j.due = [s \in Side |-> j.due[s]] /\ \A s \in Side : j.due[s] \in Int

(* What they are at each statement. *)
ValuesOk(j) ==
    /\ j.at \in Offering \cup Trading => j.row \in OfferId
    /\ j.at \in {"save", "upsert", "name", "credit", "delete"} => j.row \in Account
    /\ j.kind = "place" => j.id \in OfferId /\ j.left \in 1..Order[j.id].quantity
    /\ j.kind = "place" /\ j.at \in Offering \cup Trading => j.n \in 1..j.left
    /\ j.kind = "login" => j.id \in DOMAIN Logins
    /\ j.kind \in {"resolve", "clear", "pay", "final", "last"} => j.id \in ContractType
    /\ j.at \in {"refund", "shrink"} => j.got <= Order[j.row].quantity /\ j.n \in 1..j.got
    /\ j.kind # "place" /\ j.at \in {"refund", "shrink"} => j.n = j.got
    /\ j.at = "save" => j.got \in Nat \cup {Absent}

JobOk(j) == IsJob(j) /\ StepOk(j) /\ FieldsOk(j) /\ ValuesOk(j)

(* A worker with nothing to do. *)
LEMMA IdleOk == JobOk(Idle) /\ Idle.kind = "none" /\ Idle.at = "idle" /\ DOMAIN Idle.rows = {}
<1>1. IsJob(Idle)
    BY DEF IsJob, Idle
<1>2. FieldsOk(Idle)
    BY DEF FieldsOk, Idle, NoWork, Side
<1>3. StepOk(Idle)
    BY DEF StepOk, Idle, Kind, Label, Offering, Trading, LoginSteps, PaySteps
<1>4. ValuesOk(Idle)
    BY DEF ValuesOk, Idle, Offering, Trading
<1>5. Idle.kind = "none" /\ Idle.at = "idle" /\ DOMAIN Idle.rows = {}
    BY DEF Idle, NoWork
<1>. QED  BY <1>1, <1>2, <1>3, <1>4, <1>5 DEF JobOk

(* Ways to change a job. *)
LEMMA NowAt ==
    ASSUME NEW j, IsJob(j), NEW x
    PROVE  LET u == [j EXCEPT !.at = x]
           IN  /\ IsJob(u) /\ u.at = x
               /\ u.kind = j.kind /\ u.id = j.id /\ u.left = j.left /\ u.rows = j.rows
               /\ u.row = j.row /\ u.n = j.n /\ u.got = j.got /\ u.half = j.half /\ u.due = j.due
BY DEF IsJob

(* The smaller of two. *)
LEMMA MinOfTwo ==
    ASSUME NEW a \in Int, NEW b \in Int
    PROVE  /\ Min({a, b}) \in {a, b} /\ Min({a, b}) <= a /\ Min({a, b}) <= b
           /\ Min({a, b}) \in Int
<1>1. \E m \in {a, b} : \A k \in {a, b} : m <= k
    <2>1. CASE a <= b
        BY <2>1
    <2>2. CASE b <= a
        BY <2>2
    <2>. QED  BY <2>1, <2>2
<1>2. Min({a, b}) \in {a, b} /\ \A k \in {a, b} : Min({a, b}) <= k
    BY <1>1, Zenon DEF Min
<1>. QED  BY <1>2

(* The least of a set of natural numbers. *)
LEMMA MinOfSet ==
    ASSUME NEW S \in SUBSET Nat, S # {}
    PROVE  Min(S) \in S /\ \A k \in S : Min(S) <= k
<1>1. PICK m \in S : \A k \in S : m <= k
    BY LeastNat
<1>. QED  BY <1>1, Zenon DEF Min

(* The loop over the offers, whoever runs it. *)
Looping(j) ==
    /\ IsJob(j) /\ FieldsOk(j)
    /\ j.kind \in {"place", "cancel", "list", "resolve", "clear", "final", "last"}
    /\ j.kind = "place" => j.id \in OfferId /\ j.left \in 1..Order[j.id].quantity
    /\ j.kind \in {"resolve", "clear", "final", "last"} => j.id \in ContractType

Rows(rows) ==
    DOMAIN rows \subseteq OfferId /\ \A i \in DOMAIN rows : rows[i] \in Nat \ {0}

(* Every order asks for something. *)
LEMMA Quantities ==
    \A i \in OfferId : Order[i].quantity \in Nat \ {0} /\ Order[i].price \in Price
                      /\ Order[i].account \in Account /\ Order[i].ct \in ContractType
                      /\ Order[i].side \in Side
BY ProcessesAssumption DEF OfferRow

(* Of some offers one comes first. *)
LEMMA ForemostOk ==
    ASSUME NEW j, Looping(j), NEW rows, Rows(rows), DOMAIN rows # {}
    PROVE  Foremost(j, rows) \in DOMAIN rows
<1>1. \A i \in DOMAIN rows : Rank(j, rows, i) \in Nat
    <2>1. SUFFICES ASSUME NEW i \in DOMAIN rows
                   PROVE  Rank(j, rows, i) \in Nat
        OBVIOUS
    <2> DEFINE first == CASE j.kind # "place" -> rows[i]
                          [] Order[j.id].side = FIXED -> Order[i].price
                          [] OTHER -> Unit - Order[i].price
    <2>2. i \in OfferId /\ i \in Nat /\ rows[i] \in Nat
        BY DEF Rows, OfferId
    <2>3. Order[i].price \in Nat /\ Unit - Order[i].price \in Nat
        <3>1. Order[i].price \in Price
            BY <2>2, Quantities
        <3>2. \A x \in Price : x \in Nat /\ Unit - x \in Nat
            BY DEF Price, Unit
        <3>. QED  BY <3>1, <3>2
    <2>4. first \in Nat
        BY <2>2, <2>3
    <2> HIDE DEF first
    <2>5. \A x, y, z \in Nat : x * (y + 1) + z \in Nat
        OBVIOUS
    <2>6. first * (MaxOrders + 1) + i \in Nat
        BY <2>2, <2>4, <2>5, TablesAssumption
    <2>. QED  BY <2>6 DEF Rank, first
<1> DEFINE ranks == {Rank(j, rows, i) : i \in DOMAIN rows}
<1>2. ranks \in SUBSET Nat /\ ranks # {}
    BY <1>1
<1>3. PICK m \in ranks : \A k \in ranks : m <= k
    BY <1>2, LeastNat
<1>4. PICK i \in DOMAIN rows : m = Rank(j, rows, i)
    OBVIOUS
<1>5. \A k \in DOMAIN rows : Rank(j, rows, i) <= Rank(j, rows, k)
    BY <1>3, <1>4
<1>. QED  BY <1>5, Zenon DEF Foremost

(* Aim() takes the first of the rows that are left, if one is. *)
LEMMA AimOk ==
    ASSUME NEW j, Looping(j), NEW rows, Rows(rows)
    PROVE  LET u == Aim(j, rows)
           IN  /\ JobOk(u)
               /\ u.kind = j.kind /\ u.id = j.id /\ u.left = j.left /\ u.got = j.got
               /\ u.half = j.half /\ u.due = j.due
               /\ DOMAIN rows = {} => u.at = After(j.kind) /\ DOMAIN u.rows = {}
               /\ DOMAIN rows # {} =>
                    /\ u.at = "read" /\ u.rows = rows /\ u.row \in DOMAIN rows
                    /\ u.n = Min({j.left, rows[u.row]})
<1> DEFINE u == Aim(j, rows)
           m == Foremost(j, rows)
           a == [j EXCEPT !.at = After(j.kind), !.rows = NoWork]
           n == Min({j.left, rows[m]})
           b == [j EXCEPT !.at = "read", !.rows = rows, !.row = m, !.n = n]
<1>1. CASE DOMAIN rows = {}
    <2>1. u = a
        BY <1>1 DEF Aim
    <2>2. /\ IsJob(a) /\ a.at = After(j.kind) /\ a.rows = NoWork
          /\ a.kind = j.kind /\ a.id = j.id /\ a.left = j.left
          /\ a.row = j.row /\ a.n = j.n /\ a.got = j.got /\ a.half = j.half /\ a.due = j.due
        BY DEF IsJob, Looping
    <2>3. DOMAIN NoWork = {}
        BY DEF NoWork
    <2> HIDE DEF a
    <2>4. FieldsOk(a)
        BY <2>2, <2>3 DEF Looping, FieldsOk
    <2>5. StepOk(a) /\ ValuesOk(a)
        BY <2>2 DEF Looping, StepOk, ValuesOk, After, Offering, Trading, Label, PaySteps, LoginSteps, Kind
    <2>. QED  BY <2>1, <2>2, <2>3, <2>4, <2>5, <1>1 DEF JobOk
<1>2. CASE DOMAIN rows # {}
    <2>1. u = b
        BY <1>2 DEF Aim
    <2>3. m \in DOMAIN rows /\ m \in OfferId /\ m \in Nat /\ rows[m] \in Nat \ {0}
        BY <1>2, ForemostOk DEF Rows, OfferId
    <2> HIDE DEF m
    <2>4. j.left \in Int /\ rows[m] \in Int
        BY <2>3 DEF Looping, FieldsOk
    <2>5. n \in {j.left, rows[m]} /\ n <= j.left /\ n <= rows[m] /\ n \in Int
        BY <2>4, MinOfTwo
    <2> HIDE DEF n
    <2>6. /\ IsJob(b) /\ b.at = "read" /\ b.rows = rows /\ b.row = m /\ b.n = n
          /\ b.kind = j.kind /\ b.id = j.id /\ b.left = j.left
          /\ b.got = j.got /\ b.half = j.half /\ b.due = j.due
        BY DEF IsJob, Looping
    <2> HIDE DEF b
    <2>7. FieldsOk(b)
        BY <2>3, <2>5, <2>6 DEF Looping, FieldsOk, Rows
    <2>8. StepOk(b)
        BY <2>6 DEF Looping, StepOk, Offering, Trading, Label, PaySteps, LoginSteps, Kind
    <2>9. ValuesOk(b)
        <3>1. j.kind = "place" => n \in 1..j.left
            <4>1. j.kind = "place" => j.left >= 1
                BY DEF Looping
            <4>. QED  BY <4>1, <2>3, <2>4, <2>5
        <3>. QED  BY <3>1, <2>3, <2>6 DEF Looping, ValuesOk, Offering, Trading
    <2>. QED  BY <2>1, <2>3, <2>6, <2>7, <2>8, <2>9, <1>2 DEF JobOk, n
<1>. QED  BY <1>1, <1>2

(* NextRow() drops the row that is done with. *)
LEMMA NextRowOk ==
    ASSUME NEW j, Looping(j)
    PROVE  LET u == NextRow(j)
               rest == DOMAIN j.rows \ {j.row}
           IN  /\ JobOk(u)
               /\ u.kind = j.kind /\ u.id = j.id /\ u.left = j.left /\ u.got = j.got
               /\ u.half = j.half /\ u.due = j.due
               /\ rest = {} => u.at = After(j.kind) /\ DOMAIN u.rows = {}
               /\ rest # {} => /\ u.at = "read" /\ DOMAIN u.rows = rest
                               /\ \A i \in rest : u.rows[i] = j.rows[i]
                               /\ u.row \in rest /\ u.n = Min({j.left, j.rows[u.row]})
<1> DEFINE rows == [i \in DOMAIN j.rows \ {j.row} |-> j.rows[i]]
<1>1. Rows(rows)
    BY DEF Rows, Looping, FieldsOk
<1>2. NextRow(j) = Aim(j, rows)
    BY DEF NextRow
<1>3. DOMAIN rows = DOMAIN j.rows \ {j.row} /\ \A i \in DOMAIN rows : rows[i] = j.rows[i]
    OBVIOUS
<1> DEFINE u == Aim(j, rows)
<1> HIDE DEF rows
<1>4. /\ JobOk(u)
      /\ u.kind = j.kind /\ u.id = j.id /\ u.left = j.left /\ u.got = j.got
      /\ u.half = j.half /\ u.due = j.due
      /\ DOMAIN rows = {} => u.at = After(j.kind) /\ DOMAIN u.rows = {}
      /\ DOMAIN rows # {} =>
           /\ u.at = "read" /\ u.rows = rows /\ u.row \in DOMAIN rows
           /\ u.n = Min({j.left, rows[u.row]})
    BY ONLY Looping(j), <1>1, AimOk, Zenon
<1>. QED  BY <1>2, <1>3, <1>4

(* Statements that set no variable of the handler. *)
Goes(j, x) ==
    \/ j.at = "lookup" /\ x = IF j.kind = "place" THEN "match" ELSE "find"
    \/ j.at = "refund" /\ x = "shrink"
    \/ j.at = "rest" /\ x = "insert"
    \/ j.at = "insert" /\ x = "commit"
    \/ j.at = "debit" /\ x = "commit"
    \/ j.at = "user" /\ x = "create"
    \/ j.at = "save" /\ x = "upsert"
    \/ j.at = "upsert" /\ x = "name"
    \/ j.at = "name" /\ x = "commit"
    \/ j.at = "credit" /\ x = "delete"
    \/ j.at = "delete" /\ x = "pick"
    \/ j.at = "pick" /\ x = "commit"

LEMMA GoesOk ==
    ASSUME NEW j, JobOk(j), NEW x, Goes(j, x)
    PROVE  LET u == [j EXCEPT !.at = x]
           IN  /\ JobOk(u) /\ u.at = x
               /\ u.kind = j.kind /\ u.id = j.id /\ u.left = j.left /\ u.rows = j.rows
               /\ u.row = j.row /\ u.n = j.n /\ u.got = j.got /\ u.half = j.half /\ u.due = j.due
<1> DEFINE u == [j EXCEPT !.at = x]
<1>1. /\ IsJob(u) /\ u.at = x
      /\ u.kind = j.kind /\ u.id = j.id /\ u.left = j.left /\ u.rows = j.rows
      /\ u.row = j.row /\ u.n = j.n /\ u.got = j.got /\ u.half = j.half /\ u.due = j.due
    BY DEF IsJob, JobOk
<1> HIDE DEF u
<1>2. FieldsOk(u)
    BY <1>1 DEF JobOk, FieldsOk
<1>3. StepOk(u)
    <2>1. j.kind # "none"
        BY IdleOk DEF JobOk, StepOk, Goes
    <2>. QED  BY <1>1, <2>1 DEF JobOk, StepOk, Goes, Offering, Trading, Label, PaySteps, LoginSteps, Kind
<1>4. ValuesOk(u)
    BY <1>1 DEF JobOk, StepOk, ValuesOk, Goes, Offering, Trading, Label, PaySteps, LoginSteps, Kind
<1>. QED  BY <1>1, <1>2, <1>3, <1>4 DEF JobOk, u

(* reduce_offer() has read the quantity. *)
LEMMA ReadOfferOk ==
    ASSUME NEW j, JobOk(j), j.at = "read", NEW q \in 1..Order[j.row].quantity, NEW n \in Int,
           n = (IF j.kind = "place" THEN j.n ELSE q), n <= q
    PROVE  LET u == [j EXCEPT !.at = "refund", !.got = q, !.n = n]
           IN  /\ JobOk(u) /\ u.at = "refund" /\ u.got = q /\ u.n = n
               /\ u.kind = j.kind /\ u.id = j.id /\ u.left = j.left /\ u.rows = j.rows
               /\ u.row = j.row /\ u.half = j.half /\ u.due = j.due
<1> DEFINE u == [j EXCEPT !.at = "refund", !.got = q, !.n = n]
<1>1. /\ IsJob(u) /\ u.at = "refund" /\ u.got = q /\ u.n = n
      /\ u.kind = j.kind /\ u.id = j.id /\ u.left = j.left /\ u.rows = j.rows
      /\ u.row = j.row /\ u.half = j.half /\ u.due = j.due
    BY DEF IsJob, JobOk
<1>2. j.row \in OfferId /\ (j.kind = "place" => j.n \in 1..j.left) /\ j.kind # "none"
    BY IdleOk DEF JobOk, StepOk, ValuesOk, Offering
<1>3. Order[j.row].quantity \in Nat
    BY <1>2, ProcessesAssumption DEF OfferRow
<1>4. n \in 1..q /\ q <= Order[j.row].quantity /\ (j.kind = "place" => n \in 1..j.left)
    BY <1>2, <1>3
<1> HIDE DEF u
<1>5. FieldsOk(u)
    BY <1>1, <1>3 DEF JobOk, FieldsOk
<1>6. StepOk(u)
    BY <1>1, <1>2 DEF JobOk, StepOk, Offering, Trading, Label, PaySteps, LoginSteps, Kind
<1>7. ValuesOk(u)
    BY <1>1, <1>2, <1>4 DEF JobOk, ValuesOk, StepOk, Offering, Trading, Label, PaySteps, LoginSteps, Kind
<1>. QED  BY <1>1, <1>5, <1>6, <1>7 DEF JobOk, u

(* An offer has shrunk, and the order goes on to the contract. *)
LEMMA ShrunkOk ==
    ASSUME NEW j, JobOk(j), j.at = "shrink", j.kind = "place"
    PROVE  LET u == [j EXCEPT !.at = "side", !.half = FIXED]
           IN  /\ JobOk(u) /\ u.at = "side" /\ u.half = FIXED
               /\ u.kind = j.kind /\ u.id = j.id /\ u.left = j.left /\ u.rows = j.rows
               /\ u.row = j.row /\ u.n = j.n /\ u.got = j.got /\ u.due = j.due
<1> DEFINE u == [j EXCEPT !.at = "side", !.half = FIXED]
<1>1. /\ IsJob(u) /\ u.at = "side" /\ u.half = FIXED
      /\ u.kind = j.kind /\ u.id = j.id /\ u.left = j.left /\ u.rows = j.rows
      /\ u.row = j.row /\ u.n = j.n /\ u.got = j.got /\ u.due = j.due
    BY DEF IsJob, JobOk
<1> HIDE DEF u
<1>2. FieldsOk(u)
    BY <1>1 DEF JobOk, FieldsOk, Side
<1>3. StepOk(u) /\ ValuesOk(u)
    BY <1>1 DEF JobOk, StepOk, ValuesOk, Offering, Trading, Label, PaySteps, LoginSteps, Kind
<1>. QED  BY <1>1, <1>2, <1>3 DEF JobOk, u

(* A position has been read. *)
LEMMA ReadSideOk ==
    ASSUME NEW j, JobOk(j), j.at = "side", NEW q \in Int
    PROVE  LET u == [j EXCEPT !.at = "store", !.got = q]
           IN  /\ JobOk(u) /\ u.at = "store" /\ u.got = q
               /\ u.kind = j.kind /\ u.id = j.id /\ u.left = j.left /\ u.rows = j.rows
               /\ u.row = j.row /\ u.n = j.n /\ u.half = j.half /\ u.due = j.due
<1> DEFINE u == [j EXCEPT !.at = "store", !.got = q]
<1>1. /\ IsJob(u) /\ u.at = "store" /\ u.got = q
      /\ u.kind = j.kind /\ u.id = j.id /\ u.left = j.left /\ u.rows = j.rows
      /\ u.row = j.row /\ u.n = j.n /\ u.half = j.half /\ u.due = j.due
    BY DEF IsJob, JobOk
<1> HIDE DEF u
<1>2. FieldsOk(u)
    BY <1>1 DEF JobOk, FieldsOk
<1>3. StepOk(u) /\ ValuesOk(u)
    BY <1>1 DEF JobOk, StepOk, ValuesOk, Offering, Trading, Label, PaySteps, LoginSteps, Kind
<1>. QED  BY <1>1, <1>2, <1>3 DEF JobOk, u

(* What an order's side pays. *)
LEMMA CostType ==
    ASSUME NEW side, NEW i \in OfferId, NEW n \in Int
    PROVE  /\ Cost(side, Order[i].price, n) \in Int
           /\ n >= 0 => Cost(side, Order[i].price, n) \in Nat
<1> DEFINE p == Order[i].price
           c == Unit - p
<1>1. p \in Price
    BY ProcessesAssumption DEF OfferRow
<1> HIDE DEF p
<1>2. p \in Nat /\ c \in Nat
    BY <1>1 DEF Price, Unit
<1> HIDE DEF c
<1>3. p * n \in Int /\ c * n \in Int /\ (n >= 0 => p * n >= 0 /\ c * n >= 0)
    <2>1. \A k, m \in Nat : k * m \in Nat
        OBVIOUS
    <2>2. \A k, m \in Int : k * m \in Int
        OBVIOUS
    <2>. QED  BY <1>2, <2>1, <2>2
<1>4. Cost(side, Order[i].price, n) \in {p * n, c * n}
    BY DEF Cost, p, c
<1>. QED  BY <1>3, <1>4

(* A side is stored, and the other comes or the debits do. *)
LEMMA StoredOk ==
    ASSUME NEW j, JobOk(j), j.at = "store"
    PROVE  LET u == Stored(j)
           IN  /\ JobOk(u)
               /\ u.at = (IF j.half = FIXED THEN "side" ELSE "debit")
               /\ u.half = (IF j.half = FIXED THEN UNFIXED ELSE FIXED)
               /\ u.due[j.half] = Cost(j.half, Order[j.id].price, j.n)
                                    - Unit * Covered(j.got, Units(j))
               /\ \A s \in Side : s # j.half => u.due[s] = j.due[s]
               /\ u.kind = j.kind /\ u.id = j.id /\ u.left = j.left /\ u.rows = j.rows
               /\ u.row = j.row /\ u.n = j.n /\ u.got = j.got
<1> DEFINE x == IF j.half = FIXED THEN "side" ELSE "debit"
           h == IF j.half = FIXED THEN UNFIXED ELSE FIXED
           c == Cost(j.half, Order[j.id].price, j.n) - Unit * Covered(j.got, Units(j))
           u == [j EXCEPT !.at = x, !.half = h, !.due[j.half] = c]
<1>1. u = Stored(j)
    BY DEF Stored
<1>2. j.kind = "place" /\ j.id \in OfferId /\ j.n \in Int /\ j.got \in Int /\ Units(j) \in Int
    BY DEF JobOk, StepOk, FieldsOk, ValuesOk, Trading, Units
<1>3. c \in Int
    <2>1. Cost(j.half, Order[j.id].price, j.n) \in Int
        BY <1>2, CostType
    <2>2. Unit * Covered(j.got, Units(j)) \in Int
        BY <1>2 DEF Covered, Abs, Unit
    <2>. QED  BY <2>1, <2>2
<1> HIDE DEF c
<1>4. h \in Side
    BY DEF Side
<1> HIDE DEF h, x
<1>5. /\ IsJob(u) /\ u.at = x /\ u.half = h /\ u.due[j.half] = c
      /\ u.kind = j.kind /\ u.id = j.id /\ u.left = j.left /\ u.rows = j.rows /\ u.n = j.n
      /\ u.got = j.got /\ u.row = j.row
      /\ u.due = [s \in Side |-> u.due[s]] /\ \A s \in Side : s # j.half => u.due[s] = j.due[s]
    BY DEF IsJob, FieldsOk, JobOk
<1> HIDE DEF u
<1>6. FieldsOk(u)
    BY <1>3, <1>4, <1>5 DEF JobOk, FieldsOk
<1>7. StepOk(u) /\ ValuesOk(u)
    BY <1>2, <1>5 DEF x, JobOk, StepOk, ValuesOk, Offering, Trading, Label, PaySteps, LoginSteps, Kind
<1>. QED  BY <1>1, <1>5, <1>6, <1>7 DEF JobOk, x, h, c

(* The FIXED side has paid. *)
LEMMA DebitedOk ==
    ASSUME NEW j, JobOk(j), j.at = "debit"
    PROVE  LET u == [j EXCEPT !.half = UNFIXED]
           IN  /\ JobOk(u) /\ u.half = UNFIXED
               /\ u.kind = j.kind /\ u.at = j.at /\ u.id = j.id /\ u.left = j.left
               /\ u.rows = j.rows /\ u.row = j.row /\ u.n = j.n /\ u.got = j.got /\ u.due = j.due
<1> DEFINE u == [j EXCEPT !.half = UNFIXED]
<1>1. /\ IsJob(u) /\ u.half = UNFIXED
      /\ u.kind = j.kind /\ u.at = j.at /\ u.id = j.id /\ u.left = j.left
      /\ u.rows = j.rows /\ u.row = j.row /\ u.n = j.n /\ u.got = j.got /\ u.due = j.due
    BY DEF IsJob, JobOk
<1> HIDE DEF u
<1>2. FieldsOk(u)
    BY <1>1 DEF JobOk, FieldsOk, Side
<1>3. StepOk(u) /\ ValuesOk(u)
    BY <1>1 DEF JobOk, StepOk, ValuesOk, Offering, Trading, Label, PaySteps, LoginSteps, Kind
<1>. QED  BY <1>1, <1>2, <1>3 DEF JobOk, u

(* A job in the loop over the offers may go on with it. *)
LEMMA LoopingOk ==
    ASSUME NEW j, JobOk(j), j.at \in {"match", "find", "clean"} \cup Offering \cup Trading
    PROVE  Looping(j)
BY DEF JobOk, StepOk, ValuesOk, Looping, Offering, Trading

(* A contract is made, and its units are taken off what is asked for. *)
LEMMA ContractedOk ==
    ASSUME NEW j, JobOk(j), j.at = "debit"
    PROVE  LET u == Contracted(j)
               rest == DOMAIN j.rows \ {j.row}
           IN  /\ JobOk(u)
               /\ u.kind = j.kind /\ u.id = j.id /\ u.got = j.got
               /\ u.half = j.half /\ u.due = j.due
               /\ j.left = j.n => u.at = "commit" /\ u.left = j.left
               /\ j.left # j.n =>
                    /\ u.left = j.left - j.n
                    /\ rest = {} => u.at = "rest" /\ DOMAIN u.rows = {}
                    /\ rest # {} => /\ u.at = "read" /\ DOMAIN u.rows = rest
                                    /\ \A i \in rest : u.rows[i] = j.rows[i]
                                    /\ u.row \in rest
                                    /\ u.n = Min({u.left, j.rows[u.row]})
<1>1. CASE j.left = j.n
    <2> DEFINE u == [j EXCEPT !.at = "commit"]
    <2>1. Contracted(j) = u
        BY <1>1 DEF Contracted
    <2>2. Goes(j, "commit")
        BY DEF Goes
    <2>3. /\ JobOk(u) /\ u.at = "commit"
          /\ u.kind = j.kind /\ u.id = j.id /\ u.left = j.left /\ u.rows = j.rows
          /\ u.row = j.row /\ u.n = j.n /\ u.got = j.got /\ u.half = j.half /\ u.due = j.due
        BY ONLY JobOk(j), <2>2, GoesOk, Zenon
    <2> HIDE DEF u
    <2>. QED  BY <2>1, <2>3, <1>1
<1>2. CASE j.left # j.n
    <2> DEFINE i == [j EXCEPT !.left = @ - j.n]
               rest == DOMAIN j.rows \ {j.row}
               u == NextRow(i)
    <2>1. Contracted(j) = u
        BY <1>2 DEF Contracted
    <2>2. /\ IsJob(i) /\ i.left = j.left - j.n
          /\ i.kind = j.kind /\ i.at = j.at /\ i.id = j.id /\ i.rows = j.rows
          /\ i.row = j.row /\ i.n = j.n /\ i.got = j.got /\ i.half = j.half /\ i.due = j.due
        BY DEF IsJob, JobOk
    <2>3. /\ j.kind = "place" /\ j.id \in OfferId /\ j.left \in 1..Order[j.id].quantity
          /\ j.n \in 1..j.left /\ Order[j.id].quantity \in Nat
        BY ProcessesAssumption DEF JobOk, StepOk, ValuesOk, Trading, OfferRow
    <2> HIDE DEF i
    <2>4. i.left \in 1..Order[j.id].quantity
        BY <1>2, <2>2, <2>3
    <2>5. Looping(i)
        BY <2>2, <2>3, <2>4 DEF Looping, JobOk, FieldsOk
    <2>6. LET v == NextRow(i)
              left == DOMAIN i.rows \ {i.row}
          IN  /\ JobOk(v)
              /\ v.kind = i.kind /\ v.id = i.id /\ v.left = i.left /\ v.got = i.got
              /\ v.half = i.half /\ v.due = i.due
              /\ left = {} => v.at = After(i.kind) /\ DOMAIN v.rows = {}
              /\ left # {} => /\ v.at = "read" /\ DOMAIN v.rows = left
                              /\ \A k \in left : v.rows[k] = i.rows[k]
                              /\ v.row \in left /\ v.n = Min({i.left, i.rows[v.row]})
        BY ONLY <2>5, NextRowOk, Zenon
    <2>7. After(i.kind) = "rest"
        BY <2>2, <2>3 DEF After
    <2> HIDE DEF u
    <2>. QED  BY <2>1, <2>2, <2>6, <2>7, <1>2 DEF u
<1>. QED  BY <1>1, <1>2

(* lookup_user() has found an account. *)
LEMMA FoundOk ==
    ASSUME NEW j, JobOk(j), j.at = "user", NEW a \in Account, NEW b \in Nat \cup {Absent}
    PROVE  LET u == [j EXCEPT !.at = "save", !.row = a, !.left = a, !.got = b]
           IN  /\ JobOk(u) /\ u.at = "save" /\ u.row = a /\ u.left = a /\ u.got = b
               /\ u.kind = j.kind /\ u.id = j.id /\ u.rows = j.rows
               /\ u.n = j.n /\ u.half = j.half /\ u.due = j.due
<1> DEFINE u == [j EXCEPT !.at = "save", !.row = a, !.left = a, !.got = b]
<1>1. /\ IsJob(u) /\ u.at = "save" /\ u.row = a /\ u.left = a /\ u.got = b
      /\ u.kind = j.kind /\ u.id = j.id /\ u.rows = j.rows
      /\ u.n = j.n /\ u.half = j.half /\ u.due = j.due
    BY DEF IsJob, JobOk
<1> HIDE DEF u
<1>2. FieldsOk(u)
    BY <1>1 DEF JobOk, FieldsOk, Account, Absent
<1>3. StepOk(u) /\ ValuesOk(u)
    BY <1>1 DEF JobOk, StepOk, ValuesOk, Offering, Trading, Label, PaySteps, LoginSteps, Kind
<1>. QED  BY <1>1, <1>2, <1>3 DEF JobOk, u

(* An account is made. *)
LEMMA CreatedOk ==
    ASSUME NEW j, JobOk(j), j.at = "create", NEW a \in Account
    PROVE  LET u == [j EXCEPT !.at = "upsert", !.row = a]
           IN  /\ JobOk(u) /\ u.at = "upsert" /\ u.row = a
               /\ u.kind = j.kind /\ u.id = j.id /\ u.left = j.left /\ u.rows = j.rows
               /\ u.n = j.n /\ u.got = j.got /\ u.half = j.half /\ u.due = j.due
<1> DEFINE u == [j EXCEPT !.at = "upsert", !.row = a]
<1>1. /\ IsJob(u) /\ u.at = "upsert" /\ u.row = a
      /\ u.kind = j.kind /\ u.id = j.id /\ u.left = j.left /\ u.rows = j.rows
      /\ u.n = j.n /\ u.got = j.got /\ u.half = j.half /\ u.due = j.due
    BY DEF IsJob, JobOk
<1> HIDE DEF u
<1>2. FieldsOk(u)
    BY <1>1 DEF JobOk, FieldsOk, Account
<1>3. StepOk(u) /\ ValuesOk(u)
    BY <1>1 DEF JobOk, StepOk, ValuesOk, Offering, Trading, Label, PaySteps, LoginSteps, Kind
<1>. QED  BY <1>1, <1>2, <1>3 DEF JobOk, u

(* A position to pay or to drop. *)
LEMMA PickedOk ==
    ASSUME NEW j, JobOk(j), j.at = "pick", NEW x \in {"credit", "delete"}, NEW a \in Account,
           NEW p \in Int, NEW q \in Int
    PROVE  LET u == [j EXCEPT !.at = x, !.row = a, !.n = p, !.got = q, !.left = @ + q]
           IN  /\ JobOk(u) /\ u.at = x /\ u.row = a /\ u.n = p /\ u.got = q
               /\ u.left = j.left + q
               /\ u.kind = j.kind /\ u.id = j.id /\ u.rows = j.rows
               /\ u.half = j.half /\ u.due = j.due
<1> DEFINE u == [j EXCEPT !.at = x, !.row = a, !.n = p, !.got = q, !.left = @ + q]
<1>1. /\ IsJob(u) /\ u.at = x /\ u.row = a /\ u.n = p /\ u.got = q /\ u.left = j.left + q
      /\ u.kind = j.kind /\ u.id = j.id /\ u.rows = j.rows
      /\ u.half = j.half /\ u.due = j.due
    BY DEF IsJob, JobOk
<1> HIDE DEF u
<1>2. FieldsOk(u)
    BY <1>1 DEF JobOk, FieldsOk, Account
<1>3. StepOk(u) /\ ValuesOk(u)
    BY <1>1 DEF JobOk, StepOk, ValuesOk, Offering, Trading, Label, PaySteps, LoginSteps, Kind
<1>. QED  BY <1>1, <1>2, <1>3 DEF JobOk, u

(* filter() has listed the offers, the step before its commit. *)
LEMMA FilteredOk ==
    ASSUME NEW j, JobOk(j), j.at = "filter", NEW S \in SUBSET OfferId
    PROVE  LET u == [j EXCEPT !.at = "commit", !.rows = [i \in S |-> 1]]
           IN  /\ JobOk(u) /\ u.at = "commit"
               /\ u.kind = j.kind /\ u.id = j.id /\ u.left = j.left
               /\ u.row = j.row /\ u.n = j.n /\ u.got = j.got /\ u.half = j.half /\ u.due = j.due
<1> DEFINE rows == [i \in S |-> 1]
           u == [j EXCEPT !.at = "commit", !.rows = rows]
<1>1. DOMAIN rows \subseteq OfferId /\ \A i \in DOMAIN rows : rows[i] \in Nat \ {0}
    OBVIOUS
<1> HIDE DEF rows
<1>2. /\ IsJob(u) /\ u.at = "commit" /\ u.rows = rows
      /\ u.kind = j.kind /\ u.id = j.id /\ u.left = j.left
      /\ u.row = j.row /\ u.n = j.n /\ u.got = j.got /\ u.half = j.half /\ u.due = j.due
    BY DEF IsJob, JobOk
<1> HIDE DEF u
<1>3. FieldsOk(u)
    BY <1>1, <1>2 DEF JobOk, FieldsOk
<1>4. StepOk(u) /\ ValuesOk(u)
    BY <1>2 DEF JobOk, StepOk, ValuesOk, Offering, Trading, Label, PaySteps, LoginSteps, Kind
<1>. QED  BY <1>2, <1>3, <1>4 DEF JobOk, u, rows

(* cleanup() goes on to its sweep. *)
LEMMA CleaningOk ==
    ASSUME NEW j, JobOk(j), j.at = "clean", NEW n \in Int
    PROVE  LET u == [j EXCEPT !.left = n]
           IN  /\ Looping(u) /\ u.left = n
               /\ u.kind = j.kind /\ u.id = j.id /\ u.rows = j.rows /\ u.at = j.at
               /\ u.row = j.row /\ u.n = j.n /\ u.got = j.got /\ u.half = j.half /\ u.due = j.due
<1> DEFINE u == [j EXCEPT !.left = n]
<1>1. /\ IsJob(u) /\ u.left = n
      /\ u.kind = j.kind /\ u.id = j.id /\ u.rows = j.rows /\ u.at = j.at
      /\ u.row = j.row /\ u.n = j.n /\ u.got = j.got /\ u.half = j.half /\ u.due = j.due
    BY DEF IsJob, JobOk
<1> HIDE DEF u
<1>2. FieldsOk(u)
    BY <1>1 DEF JobOk, FieldsOk
<1>. QED  BY <1>1, <1>2 DEF JobOk, StepOk, ValuesOk, Looping, u

(* After a commit resolve() goes on, and all others are done. *)
LEMMA CommittedOk ==
    ASSUME NEW j, JobOk(j), j.at = "commit"
    PROVE  LET u == Committed(j)
           IN  /\ JobOk(u)
               /\ j.kind = "resolve" => u.kind = "clear" /\ u.at = "clean"
               /\ j.kind = "clear" =>
                    /\ u.kind = "pay" /\ u.at = "pick" /\ u.left = 0 /\ u.id = j.id
                    /\ u.half = j.half
               /\ j.kind = "pay" => u.kind = "final" /\ u.at = "find"
               /\ j.kind = "final" => u.kind = "last" /\ u.at = "clean"
               /\ j.kind \notin {"resolve", "clear", "pay", "final"} => u = Idle
               /\ u = Idle \/ u.rows = j.rows
<1> DEFINE a == [j EXCEPT !.kind = "clear", !.at = "clean"]
           b == [j EXCEPT !.kind = "pay", !.at = "pick", !.left = 0]
           c == [j EXCEPT !.kind = "final", !.at = "find", !.left = 0]
           d == [j EXCEPT !.kind = "last", !.at = "clean"]
<1>1. /\ IsJob(a) /\ a.kind = "clear" /\ a.at = "clean" /\ a.left = j.left
      /\ a.id = j.id /\ a.rows = j.rows /\ a.row = j.row
      /\ a.n = j.n /\ a.got = j.got /\ a.half = j.half /\ a.due = j.due
    BY DEF IsJob, JobOk
<1>2. /\ IsJob(b) /\ b.kind = "pay" /\ b.at = "pick" /\ b.left = 0
      /\ b.id = j.id /\ b.rows = j.rows /\ b.row = j.row
      /\ b.n = j.n /\ b.got = j.got /\ b.half = j.half /\ b.due = j.due
    BY DEF IsJob, JobOk
<1>3. /\ IsJob(c) /\ c.kind = "final" /\ c.at = "find" /\ c.left = 0
      /\ c.id = j.id /\ c.rows = j.rows /\ c.row = j.row
      /\ c.n = j.n /\ c.got = j.got /\ c.half = j.half /\ c.due = j.due
    BY DEF IsJob, JobOk
<1>4. /\ IsJob(d) /\ d.kind = "last" /\ d.at = "clean" /\ d.left = j.left
      /\ d.id = j.id /\ d.rows = j.rows /\ d.row = j.row
      /\ d.n = j.n /\ d.got = j.got /\ d.half = j.half /\ d.due = j.due
    BY DEF IsJob, JobOk
<1> HIDE DEF a, b, c, d
<1>5. FieldsOk(a) /\ FieldsOk(b) /\ FieldsOk(c) /\ FieldsOk(d)
    BY <1>1, <1>2, <1>3, <1>4 DEF JobOk, FieldsOk
<1>6. ASSUME j.kind = "resolve" PROVE JobOk(a)
    BY <1>1, <1>5, <1>6 DEF JobOk, StepOk, ValuesOk, Offering, Trading, Label, PaySteps, LoginSteps, Kind
<1>7. ASSUME j.kind = "clear" PROVE JobOk(b)
    BY <1>2, <1>5, <1>7 DEF JobOk, StepOk, ValuesOk, Offering, Trading, Label, PaySteps, LoginSteps, Kind
<1>8. ASSUME j.kind = "pay" PROVE JobOk(c)
    BY <1>3, <1>5, <1>8 DEF JobOk, StepOk, ValuesOk, Offering, Trading, Label, PaySteps, LoginSteps, Kind
<1>9. ASSUME j.kind = "final" PROVE JobOk(d)
    BY <1>4, <1>5, <1>9 DEF JobOk, StepOk, ValuesOk, Offering, Trading, Label, PaySteps, LoginSteps, Kind
<1>10. /\ j.kind = "resolve" => Committed(j) = a
       /\ j.kind = "clear" => Committed(j) = b
       /\ j.kind = "pay" => Committed(j) = c
       /\ j.kind = "final" => Committed(j) = d
       /\ j.kind \notin {"resolve", "clear", "pay", "final"} => Committed(j) = Idle
    BY DEF Committed, a, b, c, d
<1>. QED  BY <1>1, <1>2, <1>3, <1>4, <1>6, <1>7, <1>8, <1>9, <1>10, IdleOk

(* lookup_user() starts again. *)
LEMMA RetriedOk ==
    ASSUME NEW j, JobOk(j), j.kind = "login"
    PROVE  LET u == Retried(j)
           IN  /\ JobOk(u) /\ u.kind = "login" /\ u.at = "user" /\ u.id = j.id /\ u.left = 0
               /\ DOMAIN u.rows = {}
<1> DEFINE i == Idle
           u == [i EXCEPT !.kind = j.kind, !.at = "user", !.id = j.id, !.n = j.n + 1]
<1>1. u = Retried(j)
    BY DEF Retried
<1>2. JobOk(i) /\ DOMAIN i.rows = {} /\ i.left = 0
    BY IdleOk DEF Idle
<1> HIDE DEF i
<1>3. /\ IsJob(u) /\ u.kind = "login" /\ u.at = "user" /\ u.id = j.id /\ u.n = j.n + 1
      /\ u.left = i.left /\ u.rows = i.rows /\ u.row = i.row
      /\ u.got = i.got /\ u.half = i.half /\ u.due = i.due
    BY <1>2 DEF IsJob, JobOk
<1> HIDE DEF u
<1>4. FieldsOk(u)
    BY <1>2, <1>3 DEF JobOk, FieldsOk
<1>5. StepOk(u) /\ ValuesOk(u)
    BY <1>3 DEF JobOk, StepOk, ValuesOk, Offering, Trading, Label, PaySteps, LoginSteps, Kind
<1>. QED  BY <1>1, <1>2, <1>3, <1>4, <1>5 DEF JobOk

(* An order begins. *)
LEMMA PlaceJob ==
    ASSUME NEW o \in OfferId
    PROVE  LET u == [[Idle EXCEPT !.at = "lookup", !.id = o, !.left = Order[o].quantity] EXCEPT !.kind = "place"]
           IN  /\ JobOk(u) /\ u.kind = "place" /\ u.at = "lookup" /\ u.id = o /\ u.left = Order[o].quantity
               /\ DOMAIN u.rows = {}
<1> DEFINE i == Idle
           v == [i EXCEPT !.at = "lookup", !.id = o, !.left = Order[o].quantity]
           u == [v EXCEPT !.kind = "place"]
<1>1. JobOk(i) /\ DOMAIN i.rows = {} /\ i.left = 0
    BY IdleOk DEF Idle
<1> HIDE DEF i
<1>2. /\ IsJob(v) /\ v.at = "lookup" /\ v.id = o /\ v.left = Order[o].quantity
      /\ v.rows = i.rows /\ v.row = i.row /\ v.n = i.n /\ v.got = i.got /\ v.half = i.half /\ v.due = i.due
    BY <1>1 DEF IsJob, JobOk
<1> HIDE DEF v
<1>3. /\ IsJob(u) /\ u.kind = "place" /\ u.at = "lookup" /\ u.id = o /\ u.left = Order[o].quantity
      /\ u.rows = i.rows /\ u.row = i.row /\ u.n = i.n /\ u.got = i.got /\ u.half = i.half /\ u.due = i.due
    BY <1>2 DEF IsJob
<1> HIDE DEF u
<1>4. FieldsOk(u)
    BY <1>1, <1>3, Quantities DEF JobOk, FieldsOk, OfferId, Side
<1>5. StepOk(u) /\ ValuesOk(u)
    BY <1>3, Quantities DEF JobOk, StepOk, ValuesOk, Offering, Trading, Label, PaySteps, LoginSteps, Kind
<1>. QED  BY <1>1, <1>3, <1>4, <1>5 DEF JobOk, u, v, i

(* A cancel begins. *)
LEMMA CancelJob ==
    ASSUME NEW o \in OfferId
    PROVE  LET u == [[Idle EXCEPT !.at = "read", !.row = o] EXCEPT !.kind = "cancel"]
           IN  /\ JobOk(u) /\ u.kind = "cancel" /\ u.at = "read" /\ u.row = o
               /\ u.left = 0 /\ DOMAIN u.rows = {}
<1> DEFINE i == Idle
           v == [i EXCEPT !.at = "read", !.row = o]
           u == [v EXCEPT !.kind = "cancel"]
<1>1. JobOk(i) /\ DOMAIN i.rows = {} /\ i.left = 0
    BY IdleOk DEF Idle
<1> HIDE DEF i
<1>2. /\ IsJob(v) /\ v.at = "read" /\ v.row = o
      /\ v.id = i.id /\ v.left = i.left /\ v.rows = i.rows /\ v.n = i.n /\ v.got = i.got /\ v.half = i.half /\ v.due = i.due
    BY <1>1 DEF IsJob, JobOk
<1> HIDE DEF v
<1>3. /\ IsJob(u) /\ u.kind = "cancel" /\ u.at = "read" /\ u.row = o
      /\ u.id = i.id /\ u.left = i.left /\ u.rows = i.rows /\ u.n = i.n /\ u.got = i.got /\ u.half = i.half /\ u.due = i.due
    BY <1>2 DEF IsJob
<1> HIDE DEF u
<1>4. FieldsOk(u)
    BY <1>1, <1>3 DEF JobOk, FieldsOk, OfferId, Side
<1>5. StepOk(u) /\ ValuesOk(u)
    BY <1>3 DEF JobOk, StepOk, ValuesOk, Offering, Trading, Label, PaySteps, LoginSteps, Kind
<1>. QED  BY <1>1, <1>3, <1>4, <1>5 DEF JobOk, u, v, i

(* A page begins. *)
LEMMA ListJob ==
    LET u == [[Idle EXCEPT !.at = "find"] EXCEPT !.kind = "list"]
           IN  /\ JobOk(u) /\ u.kind = "list" /\ u.at = "find"
               /\ u.left = 0 /\ DOMAIN u.rows = {}
<1> DEFINE i == Idle
           v == [i EXCEPT !.at = "find"]
           u == [v EXCEPT !.kind = "list"]
<1>1. JobOk(i) /\ DOMAIN i.rows = {} /\ i.left = 0
    BY IdleOk DEF Idle
<1> HIDE DEF i
<1>2. /\ IsJob(v) /\ v.at = "find"
      /\ v.id = i.id /\ v.left = i.left /\ v.rows = i.rows /\ v.row = i.row /\ v.n = i.n /\ v.got = i.got /\ v.half = i.half /\ v.due = i.due
    BY <1>1 DEF IsJob, JobOk
<1> HIDE DEF v
<1>3. /\ IsJob(u) /\ u.kind = "list" /\ u.at = "find"
      /\ u.id = i.id /\ u.left = i.left /\ u.rows = i.rows /\ u.row = i.row /\ u.n = i.n /\ u.got = i.got /\ u.half = i.half /\ u.due = i.due
    BY <1>2 DEF IsJob
<1> HIDE DEF u
<1>4. FieldsOk(u)
    BY <1>1, <1>3 DEF JobOk, FieldsOk, OfferId, Side
<1>5. StepOk(u) /\ ValuesOk(u)
    BY <1>3 DEF JobOk, StepOk, ValuesOk, Offering, Trading, Label, PaySteps, LoginSteps, Kind
<1>. QED  BY <1>1, <1>3, <1>4, <1>5 DEF JobOk, u, v, i

(* A login begins. *)
LEMMA LoginJob ==
    ASSUME NEW l \in DOMAIN Logins
    PROVE  LET u == [[Idle EXCEPT !.at = "user", !.id = l, !.n = 1] EXCEPT !.kind = "login"]
           IN  /\ JobOk(u) /\ u.kind = "login" /\ u.at = "user" /\ u.id = l /\ u.n = 1
               /\ u.left = 0 /\ DOMAIN u.rows = {}
<1> DEFINE i == Idle
           v == [i EXCEPT !.at = "user", !.id = l, !.n = 1]
           u == [v EXCEPT !.kind = "login"]
<1>1. JobOk(i) /\ DOMAIN i.rows = {} /\ i.left = 0
    BY IdleOk DEF Idle
<1> HIDE DEF i
<1>2. /\ IsJob(v) /\ v.at = "user" /\ v.id = l /\ v.n = 1
      /\ v.left = i.left /\ v.rows = i.rows /\ v.row = i.row /\ v.got = i.got /\ v.half = i.half /\ v.due = i.due
    BY <1>1 DEF IsJob, JobOk
<1> HIDE DEF v
<1>3. /\ IsJob(u) /\ u.kind = "login" /\ u.at = "user" /\ u.id = l /\ u.n = 1
      /\ u.left = i.left /\ u.rows = i.rows /\ u.row = i.row /\ u.got = i.got /\ u.half = i.half /\ u.due = i.due
    BY <1>2 DEF IsJob
<1> HIDE DEF u
<1>4. FieldsOk(u)
    BY <1>1, <1>3 DEF JobOk, FieldsOk, OfferId, Side
<1>5. StepOk(u) /\ ValuesOk(u)
    BY <1>3 DEF JobOk, StepOk, ValuesOk, Offering, Trading, Label, PaySteps, LoginSteps, Kind
<1>. QED  BY <1>1, <1>3, <1>4, <1>5 DEF JobOk, u, v, i

(* A resolution begins. *)
LEMMA ResolveJob ==
    ASSUME NEW c \in ContractType, NEW side \in Side
    PROVE  LET u == [[Idle EXCEPT !.at = "lookup", !.id = c, !.half = side] EXCEPT !.kind = "resolve"]
           IN  /\ JobOk(u) /\ u.kind = "resolve" /\ u.at = "lookup" /\ u.id = c /\ u.half = side
               /\ u.left = 0 /\ DOMAIN u.rows = {}
<1> DEFINE i == Idle
           v == [i EXCEPT !.at = "lookup", !.id = c, !.half = side]
           u == [v EXCEPT !.kind = "resolve"]
<1>1. JobOk(i) /\ DOMAIN i.rows = {} /\ i.left = 0
    BY IdleOk DEF Idle
<1> HIDE DEF i
<1>2. /\ IsJob(v) /\ v.at = "lookup" /\ v.id = c /\ v.half = side
      /\ v.left = i.left /\ v.rows = i.rows /\ v.row = i.row /\ v.n = i.n /\ v.got = i.got /\ v.due = i.due
    BY <1>1 DEF IsJob, JobOk
<1> HIDE DEF v
<1>3. /\ IsJob(u) /\ u.kind = "resolve" /\ u.at = "lookup" /\ u.id = c /\ u.half = side
      /\ u.left = i.left /\ u.rows = i.rows /\ u.row = i.row /\ u.n = i.n /\ u.got = i.got /\ u.due = i.due
    BY <1>2 DEF IsJob
<1> HIDE DEF u
<1>4. FieldsOk(u)
    BY <1>1, <1>3 DEF JobOk, FieldsOk, OfferId, Side
<1>5. StepOk(u) /\ ValuesOk(u)
    BY <1>3 DEF JobOk, StepOk, ValuesOk, Offering, Trading, Label, PaySteps, LoginSteps, Kind
<1>. QED  BY <1>1, <1>3, <1>4, <1>5 DEF JobOk, u, v, i

(***************************************************************************)
(* Types.                                                                  *)
(***************************************************************************)
ValueOk(r, v) ==
    /\ v \in Int
    /\ r[1] = "account" => v \in Nat \cup {Absent}
    /\ r[1] = "offer" => v \in 0..Order[r[2]].quantity
    /\ r[1] = "user" => v \in Account \cup {0}

RowsOk(m) == DOMAIN m \subseteq Row /\ \A r \in DOMAIN m : ValueOk(r, m[r])

Types ==
    /\ site \in Deployments
    /\ DOMAIN db = Row /\ RowsOk(db)
    /\ work = [k \in Connection |-> work[k]] /\ \A k \in Connection : RowsOk(work[k])
    /\ marks = [k \in Connection |-> marks[k]]
    /\ noted = [k \in Connection |-> noted[k]]
    /\ \A k \in Connection : noted[k] \subseteq ContractType \cup {0}
    /\ down \subseteq Connection
    /\ asked \subseteq OfferId
    /\ job = [w \in Worker |-> job[w]] /\ \A w \in Worker : JobOk(job[w])

(* Every worker has a connection, and new accounts a balance. *)
LEMMA Connected ==
    ASSUME Types
    PROVE  site.grant \in Nat /\ \A w \in Worker : site.conn[w] \in Connection
BY ProcessesAssumption DEF Types

(* What a SELECT finds. *)
LEMMA SeenOk ==
    ASSUME Types, NEW w \in Worker, NEW r \in Row
    PROVE  ValueOk(r, Seen(w, r)) /\ ValueOk(r, db[r])
BY Connected DEF Types, RowsOk, Seen, View

(* The rows that a transaction has written, and one more. *)
LEMMA PutOk ==
    ASSUME NEW m, RowsOk(m), NEW r \in Row, NEW v, ValueOk(r, v)
    PROVE  RowsOk(Put(m, r, v))
BY DEF RowsOk, Put, Over

(* A transaction notes at most one contract type at a time. *)
Notes(w) ==
    \/ noted' = noted
    \/ \E c \in ContractType \cup {0} :
         noted' = [noted EXCEPT ![site.conn[w]] = @ \cup {c}]

LEMMA NotesOk ==
    ASSUME Types, NEW w \in Worker, Notes(w)
    PROVE  /\ noted' = [k \in Connection |-> noted'[k]]
           /\ \A k \in Connection : noted'[k] \subseteq ContractType \cup {0}
<1>1. noted = [k \in Connection |-> noted[k]]
      /\ \A k \in Connection : noted[k] \subseteq ContractType \cup {0}
    BY DEF Types
<1>2. CASE noted' = noted
    BY <1>1, <1>2
<1>3. ASSUME NEW c \in ContractType \cup {0},
             noted' = [noted EXCEPT ![site.conn[w]] = @ \cup {c}]
      PROVE  /\ noted' = [k \in Connection |-> noted'[k]]
             /\ \A k \in Connection : noted'[k] \subseteq ContractType \cup {0}
    BY <1>1, <1>3, Connected
<1>. QED  BY <1>2, <1>3 DEF Notes

(* A statement that reads keeps the types, if what comes next is a job. *)
LEMMA ReadsTypes ==
    ASSUME Types, NEW w \in Worker, NEW u, JobOk(u), Reads(w, u)
    PROVE  Types'
<1>1. job' = [v \in Worker |-> IF v = w THEN u ELSE job[v]]
    BY DEF Types, Reads, Becomes
<1>2. job' = [v \in Worker |-> job'[v]] /\ \A v \in Worker : JobOk(job'[v])
    BY <1>1 DEF Types
<1>3. UNCHANGED <<site, db, work, marks, noted, down, asked>>
    BY DEF Reads, connections, requests
<1>. QED  BY <1>2, <1>3 DEF Types

(* The worker goes on as u, and its transaction has written the rows m. *)
Lays(w, m, why, u) ==
    /\ job' = [job EXCEPT ![w] = u]
    /\ work' = [work EXCEPT ![site.conn[w]] = m]
    /\ marks' = [marks EXCEPT ![site.conn[w]] = @ \cup why]
    /\ UNCHANGED <<db, down, requests, spoiled>>

(* So does one that writes rows of their tables. *)
LEMMA LaysTypes ==
    ASSUME Types, NEW w \in Worker, NEW m, RowsOk(m), NEW why, NEW u, JobOk(u),
           Lays(w, m, why, u), Notes(w)
    PROVE  Types'
<1> DEFINE k == site.conn[w]
<1>1. k \in Connection
    BY Connected
<1>3. /\ job' = [job EXCEPT ![w] = u]
      /\ work' = [work EXCEPT ![k] = m]
      /\ marks' = [marks EXCEPT ![k] = @ \cup why]
    BY DEF Lays
<1> HIDE DEF k
<1>4. job' = [v \in Worker |-> job'[v]] /\ \A v \in Worker : JobOk(job'[v])
    BY <1>3 DEF Types
<1>5. work' = [h \in Connection |-> work'[h]] /\ \A h \in Connection : RowsOk(work'[h])
    BY <1>1, <1>3 DEF Types
<1>6. marks' = [h \in Connection |-> marks'[h]]
    BY <1>3 DEF Types
<1>7. UNCHANGED <<site, db, down, asked>>
    BY DEF Lays, requests
<1>. QED  BY <1>4, <1>5, <1>6, <1>7, NotesOk DEF Types

LEMMA WritesTypes ==
    ASSUME Types, NEW w \in Worker, NEW r \in Row, NEW x, ValueOk(r, x), NEW why,
           NEW u, JobOk(u), Writes(w, r, x, why, u), Notes(w)
    PROVE  Types'
<1> DEFINE m == Put(work[site.conn[w]], r, x)
<1>1. RowsOk(m)
    BY Connected, PutOk DEF Types
<1>2. Lays(w, m, why, u)
    BY DEF Lays, Writes, Becomes, Marked, Put
<1>. QED  BY ONLY Types, w \in Worker, JobOk(u), Notes(w), <1>1, <1>2, LaysTypes

(* And one that may find its row gone. *)
LEMMA UpdatesTypes ==
    ASSUME Types, NEW w \in Worker, NEW r \in Row, NEW x,
           Exist(r, Seen(w, r)) => ValueOk(r, x), NEW why,
           NEW u, JobOk(u), Updates(w, r, x, why, u), Notes(w)
    PROVE  Types'
<1>1. CASE Exist(r, Seen(w, r))
    <2>1. Writes(w, r, x, why, u)
        BY <1>1 DEF Updates, Writes
    <2>. QED  BY <1>1, <2>1, WritesTypes
<1>2. CASE ~ Exist(r, Seen(w, r))
    <2>1. /\ job' = [job EXCEPT ![w] = u] /\ work' = work
          /\ marks' = [marks EXCEPT ![site.conn[w]] = @ \cup why]
          /\ UNCHANGED <<site, db, down, asked>>
        BY <1>2 DEF Updates, Becomes, Marked, requests
    <2>2. job' = [v \in Worker |-> job'[v]] /\ \A v \in Worker : JobOk(job'[v])
        BY <2>1 DEF Types
    <2>3. marks' = [h \in Connection |-> marks'[h]]
        BY <2>1 DEF Types
    <2>. QED  BY <2>1, <2>2, <2>3, NotesOk DEF Types
<1>. QED  BY <1>1, <1>2

(* A statement that is refused leaves nothing. *)
LEMMA FailsTypes ==
    ASSUME Types, NEW w \in Worker, StatementFails(w)
    PROVE  Types'
<1> DEFINE k == site.conn[w]
<1>1. k \in Connection /\ JobOk(job[w])
    BY Connected DEF Types
<1>2. RowsOk(NoWork)
    BY DEF RowsOk, NoWork
<1>3. /\ work' = [work EXCEPT ![k] = NoWork] /\ marks' = [marks EXCEPT ![k] = {}]
      /\ UNCHANGED <<site, db, noted, asked>>
    BY DEF StatementFails, requests
<1>4. \E u : JobOk(u) /\ job' = [job EXCEPT ![w] = u]
    <2>1. job[w].kind = "login" => JobOk(Retried(job[w]))
        BY ONLY <1>1, RetriedOk, Zenon
    <2>2. \/ job' = [job EXCEPT ![w] = Idle]
          \/ job[w].kind = "login" /\ job' = [job EXCEPT ![w] = Retried(job[w])]
        BY DEF StatementFails, Becomes
    <2>. QED  BY <2>1, <2>2, IdleOk
<1>5. down' \subseteq Connection
    BY <1>1 DEF StatementFails, Types
<1> HIDE DEF k
<1>6. job' = [v \in Worker |-> job'[v]] /\ \A v \in Worker : JobOk(job'[v])
    BY <1>4 DEF Types
<1>7. work' = [h \in Connection |-> work'[h]] /\ \A h \in Connection : RowsOk(work'[h])
    BY <1>1, <1>2, <1>3 DEF Types
<1>8. marks' = [h \in Connection |-> marks'[h]]
    BY <1>3 DEF Types
<1>. QED  BY <1>3, <1>5, <1>6, <1>7, <1>8 DEF Types

(* An operation that raises ends the job. *)
LEMMA RaisesTypes ==
    ASSUME Types, NEW w \in Worker, HandlerRaises(w)
    PROVE  Types'
<1>1. /\ job' = [job EXCEPT ![w] = Idle]
      /\ UNCHANGED <<site, db, work, noted, down, asked>>
      /\ \E some : marks' = [marks EXCEPT ![site.conn[w]] = some]
    BY DEF HandlerRaises, Becomes, Marked, requests
<1>2. job' = [v \in Worker |-> job'[v]] /\ \A v \in Worker : JobOk(job'[v])
    BY <1>1, IdleOk DEF Types
<1>3. marks' = [h \in Connection |-> marks'[h]]
    BY <1>1 DEF Types
<1>. QED  BY <1>1, <1>2, <1>3 DEF Types

(* A request begins with a job. *)
LEMMA BeginsTypes ==
    ASSUME Types, NEW w \in Worker, NEW kind, NEW j, JobOk([j EXCEPT !.kind = kind]),
           Begins(w, kind, j), asked' \subseteq OfferId, down' \subseteq Connection
    PROVE  Types'
<1>1. /\ job' = [job EXCEPT ![w] = [j EXCEPT !.kind = kind]]
      /\ UNCHANGED <<site, db, work, noted, marks>>
    BY DEF Begins, Becomes
<1> DEFINE u == [j EXCEPT !.kind = kind]
<1> HIDE DEF u
<1>2. job' = [v \in Worker |-> job'[v]] /\ \A v \in Worker : JobOk(job'[v])
    <2>1. job' = [job EXCEPT ![w] = u] /\ JobOk(u)
        BY <1>1 DEF u
    <2>. QED  BY <2>1 DEF Types
<1>. QED  BY <1>1, <1>2 DEF Types

(* Offers that a search has found. *)
LEMMA FoundRows ==
    ASSUME Types, NEW w \in Worker, NEW ids \in SUBSET OfferId
    PROVE  /\ Rows(Found(w, ids))
           /\ \A i \in OfferId : i \in DOMAIN Found(w, ids) <=> i \in ids /\ Seen(w, OfferOf(i)) # 0
           /\ \A i \in DOMAIN Found(w, ids) : Found(w, ids)[i] = Seen(w, OfferOf(i))
<1>1. \A i \in OfferId : Seen(w, OfferOf(i)) \in 0..Order[i].quantity
    BY RowFacts, SeenOk DEF ValueOk
<1>2. \A i \in OfferId : Seen(w, OfferOf(i)) \in Nat
    BY <1>1, Quantities
<1>3. DOMAIN Found(w, ids) = {i \in ids : Seen(w, OfferOf(i)) # 0}
    BY DEF Found, Existing
<1>4. \A i \in DOMAIN Found(w, ids) : Found(w, ids)[i] = Seen(w, OfferOf(i))
    BY DEF Found
<1>. QED  BY <1>2, <1>3, <1>4 DEF Rows

LEMMA SearchTypes ==
    ASSUME Types, NEW w \in Worker, NEW ids \in SUBSET OfferId,
           Reads(w, Aim(job[w], Found(w, ids))), job[w].at \in {"match", "find"}
    PROVE  Types'
<1> DEFINE j == job[w]
<1>1. JobOk(j)
    BY DEF Types
<1>2. Looping(j)
    BY <1>1, LoopingOk
<1>3. Rows(Found(w, ids))
    BY FoundRows
<1>4. JobOk(Aim(j, Found(w, ids)))
    BY ONLY <1>2, <1>3, AimOk, Zenon
<1>. QED  BY <1>4, ReadsTypes

(* The offers of a loop, and then the contracts, keep the types. *)
LEMMA MatchingTypes ==
    ASSUME Types, NEW w \in Worker, Matching(w)
    PROVE  Types'
<1> DEFINE j == job[w]
<1>1. JobOk(j)
    BY DEF Types
<1>2. CASE Lookup(w)
    <2> DEFINE x == IF j.kind = "place" THEN "match" ELSE "find"
               c == IF j.kind = "place" THEN Order[j.id].ct ELSE j.id
               u == [j EXCEPT !.at = x]
    <2>1. Goes(j, x)
        BY <1>2 DEF Goes, Lookup, At
    <2>2. JobOk(u)
        BY ONLY <1>1, <2>1, GoesOk, Zenon
    <2>3. c \in ContractType
        BY <1>1, <1>2, Quantities DEF Lookup, At, JobOk, StepOk, ValuesOk
    <2>4. TypeRow(c) \in Row /\ ValueOk(TypeRow(c), 1)
        BY <2>3, RowFacts DEF ValueOk
    <2>5. Writes(w, TypeRow(c), 1, {}, u) /\ Notes(w)
        BY <1>2 DEF Lookup, Notes
    <2>. QED  BY ONLY Types, w \in Worker, <2>2, <2>4, <2>5, WritesTypes
<1>4. CASE Match(w)
    BY <1>4, SearchTypes DEF Match, At
<1>6. CASE ReadOffer(w)
    <2> DEFINE q == Seen(w, OfferOf(j.row))
               n == IF j.kind = "place" THEN j.n ELSE q
               u == [j EXCEPT !.at = "refund", !.got = q, !.n = n]
    <2>1. j.at = "read"
        BY <1>6 DEF ReadOffer, At
    <2>2. CASE HandlerRaises(w)
        BY <2>2, RaisesTypes
    <2>3. CASE q # 0 /\ ~ (n > q) /\ Reads(w, u)
        <3>1. j.row \in OfferId /\ j.n \in Int
            BY <1>1, <2>1 DEF JobOk, ValuesOk, FieldsOk, Offering
        <3>2. q \in 0..Order[j.row].quantity
            BY <3>1, RowFacts, SeenOk DEF ValueOk
        <3>3. q \in 1..Order[j.row].quantity /\ n \in Int /\ n <= q
            BY <2>3, <3>1, <3>2, Quantities
        <3>4. JobOk(u)
            BY <1>1, <2>1, <3>3, ReadOfferOk
        <3>. QED  BY ONLY Types, w \in Worker, <2>3, <3>4, ReadsTypes
    <2>. QED  BY <1>6, <2>2, <2>3 DEF ReadOffer
<1>7. CASE Refund(w)
    <2> DEFINE o == Order[j.row]
               r == AccountRow(o.account)
               x == Seen(w, r) + Cost(o.side, o.price, j.n)
               u == [j EXCEPT !.at = "shrink"]
    <2>1. j.at = "refund"
        BY <1>7 DEF Refund, At
    <2>2. j.row \in OfferId /\ j.n \in Nat
        BY <1>1, <2>1 DEF JobOk, ValuesOk, FieldsOk, Offering
    <2>3. Goes(j, "shrink")
        BY <2>1 DEF Goes
    <2>4. JobOk(u)
        BY ONLY <1>1, <2>3, GoesOk, Zenon
    <2>5. r \in Row /\ r[1] = "account"
        BY <2>2, Quantities, RowFacts
    <2>6. Seen(w, r) \in Nat \cup {Absent}
        BY <2>5, SeenOk DEF ValueOk
    <2>7. Cost(o.side, o.price, j.n) \in Nat
        <3>1. j.n \in Int /\ j.n >= 0
            BY <2>2
        <3>. QED  BY <2>2, <3>1, CostType
    <2>8. ValueOk(r, x)
        BY <2>5, <2>6, <2>7 DEF ValueOk, Absent
    <2>9. Writes(w, r, x, {}, u) /\ Notes(w)
        BY <1>7 DEF Refund, Notes
    <2>. QED  BY ONLY Types, w \in Worker, <2>4, <2>5, <2>8, <2>9, WritesTypes
<1>8. CASE Shrink(w)
    <2> DEFINE r == OfferOf(j.row)
               u == IF j.kind = "place" THEN [j EXCEPT !.at = "side", !.half = FIXED]
                    ELSE NextRow(j)
               why == StaleIf(Seen(w, r) # j.got, "offer")
    <2>1. j.at = "shrink"
        BY <1>8 DEF Shrink, At
    <2>2. CASE HandlerRaises(w)
        BY <2>2, RaisesTypes
    <2>3. ASSUME Writes(w, r, j.got - j.n, why, u), Notes(w)
          PROVE  Types'
        <3>1. j.row \in OfferId /\ j.n \in 1..j.got /\ j.got <= Order[j.row].quantity /\ j.got \in Int
            BY <1>1, <2>1 DEF JobOk, ValuesOk, FieldsOk, Offering
        <3>2. r \in Row /\ ValueOk(r, j.got - j.n)
            BY <3>1, RowFacts, Quantities DEF ValueOk
        <3>3. CASE j.kind = "place"
            <4>1. JobOk(u)
                BY <1>1, <2>1, <3>3, ShrunkOk
            <4>. QED  BY ONLY Types, w \in Worker, <2>3, <3>2, <4>1, WritesTypes
        <3>4. CASE j.kind # "place"
            <4>1. Looping(j)
                BY <1>1, <2>1, LoopingOk DEF Offering
            <4>2. JobOk(NextRow(j))
                BY ONLY <4>1, NextRowOk, Zenon
            <4>3. JobOk(u)
                BY <3>4, <4>2
            <4>. QED  BY ONLY Types, w \in Worker, <2>3, <3>2, <4>3, WritesTypes
        <3>. QED  BY <3>3, <3>4
    <2>4. ASSUME ~ HandlerRaises(w) PROVE Writes(w, r, j.got - j.n, why, u) /\ Notes(w)
        <3>1. j.kind # "place" => Order[j.row].ct \in ContractType
            BY <1>1, <2>1, Quantities DEF JobOk, ValuesOk, Offering
        <3>. QED  BY <1>8, <2>4, <3>1 DEF Shrink, Notes
    <2>. QED  BY <2>2, <2>3, <2>4
<1>. QED  BY <1>2, <1>4, <1>6, <1>7, <1>8 DEF Matching

(* The offers that a cleanup lists are offers of the book. *)
Cleaned(w, u) ==
    \E n \in Int : \E rows : /\ Rows(rows)
                            /\ DOMAIN rows \subseteq DOMAIN job[w].rows \cup Existing(w, OfferId)
                            /\ u = Aim([job[w] EXCEPT !.left = n], rows)

LEMMA CleanRows ==
    ASSUME Types, NEW w \in Worker, Clean(w)
    PROVE  \E u : job[w].at = "clean" /\ Reads(w, u) /\ Cleaned(w, u)
<1> DEFINE j == job[w]
           found == DOMAIN j.rows
           mature == IF site.conn[w] \in early THEN {} ELSE Existing(w, OfferId)
           expired == Existing(w, Expiring)
           again == found \cap mature
           later == expired \cap (found \cup mature)
           swept == found \cup (IF again = {} THEN mature ELSE {i \in mature : i < Min(again)})
                     \cup {i \in expired : again = {} /\ \A k \in later : i < k}
           rows == [i \in swept |-> IF i \in found THEN 1 ELSE IF i \in mature THEN 2 ELSE 3]
           n == IF again \cup later = {} THEN 0 ELSE 1
           u == Aim([j EXCEPT !.left = n], rows)
<1>1. j.at = "clean" /\ Reads(w, u)
    BY DEF Clean, At
<1>2. /\ found \subseteq OfferId /\ mature \subseteq OfferId /\ expired \subseteq OfferId
      /\ mature \subseteq Existing(w, OfferId) /\ expired \subseteq Existing(w, OfferId)
    BY DEF Types, JobOk, FieldsOk, Existing, Expiring
<1> HIDE DEF found, mature, expired, again, later
<1>3. Rows(rows) /\ DOMAIN rows \subseteq found \cup Existing(w, OfferId)
    BY <1>2 DEF Rows
<1>4. n \in Int
    OBVIOUS
<1> HIDE DEF rows, n
<1>. QED  BY <1>1, <1>3, <1>4 DEF Cleaned, found

(* A sweep keeps the types. *)
LEMMA SweepingTypes ==
    ASSUME Types, NEW w \in Worker, Sweeping(w)
    PROVE  Types'
<1> DEFINE j == job[w]
<1>1. JobOk(j)
    BY DEF Types
<1>2. CASE Find(w)
    BY <1>2, SearchTypes DEF Find, At, Expiring
<1>3. CASE Filter(w)
    <2> DEFINE ids == Existing(w, {i \in OfferId : Order[i].ct = j.id})
               u == [j EXCEPT !.at = "commit", !.rows = [i \in ids |-> 1]]
    <2>1. j.at = "filter" /\ Reads(w, u) /\ ids \in SUBSET OfferId
        BY <1>3 DEF Filter, At, Existing
    <2>2. JobOk(u)
        BY <1>1, <2>1, FilteredOk
    <2>. QED  BY ONLY Types, w \in Worker, <2>1, <2>2, ReadsTypes
<1>4. CASE Clean(w)
    <2>1. PICK u : j.at = "clean" /\ Reads(w, u) /\ Cleaned(w, u)
        BY <1>4, CleanRows
    <2>2. PICK n \in Int : \E rows : Rows(rows) /\ u = Aim([j EXCEPT !.left = n], rows)
        BY <2>1, Zenon DEF Cleaned
    <2>3. Looping([j EXCEPT !.left = n])
        BY <1>1, <2>1, CleaningOk
    <2>4. PICK rows : Rows(rows) /\ u = Aim([j EXCEPT !.left = n], rows)
        BY <2>2
    <2>5. JobOk(Aim([j EXCEPT !.left = n], rows))
        BY ONLY <2>3, <2>4, AimOk, Zenon
    <2>6. JobOk(u)
        BY <2>4, <2>5
    <2>. QED  BY ONLY Types, w \in Worker, <2>1, <2>6, ReadsTypes
<1>5. CASE SweepRaises(w)
    BY <1>5, RaisesTypes DEF SweepRaises
<1>. QED  BY <1>2, <1>3, <1>4, <1>5 DEF Sweeping

(* A debit keeps the types: the CHECK refuses what would be negative. *)
LEMMA PaysTypes ==
    ASSUME Types, NEW w \in Worker, NEW a \in Account, NEW amount \in Int, NEW u, JobOk(u),
           Pays(w, a, amount, u)
    PROVE  Types'
<1> DEFINE r == AccountRow(a)
           x == Seen(w, r) - amount
<1>1. r \in Row /\ r[1] = "account"
    BY RowFacts
<1>2. Seen(w, r) \in Int
    BY <1>1, SeenOk DEF ValueOk
<1>3. CASE StatementFails(w)
    BY <1>3, FailsTypes
<1>4. CASE Seen(w, r) >= amount /\ Writes(w, r, x, {}, u) /\ UNCHANGED noted
    <2>1. ValueOk(r, x)
        BY <1>1, <1>2, <1>4 DEF ValueOk
    <2>2. Writes(w, r, x, {}, u) /\ Notes(w)
        BY <1>4 DEF Notes
    <2>. QED  BY ONLY Types, w \in Worker, <1>1, <2>1, <2>2, JobOk(u), WritesTypes
<1>. QED  BY <1>2, <1>3, <1>4 DEF Pays

(* The two parties of a contract. *)
LEMMA Holders ==
    ASSUME NEW j, JobOk(j), j.at \in Trading, NEW side
    PROVE  /\ j.kind = "place" /\ j.id \in OfferId /\ j.row \in OfferId
           /\ j.n \in 1..j.left /\ j.left \in 1..Order[j.id].quantity /\ j.left \in Int
           /\ j.n \in Int /\ j.got \in Int /\ Units(j) \in Int
           /\ \A s \in Side : j.due[s] \in Int
           /\ Holder(j, side) \in Account
           /\ HolderRow(j) \in Row /\ HolderRow(j)[1] = "position"
<1>1. /\ j.kind = "place" /\ j.id \in OfferId /\ j.row \in OfferId
      /\ j.n \in 1..j.left /\ j.left \in 1..Order[j.id].quantity /\ j.left \in Int
      /\ j.n \in Int /\ j.got \in Int /\ \A s \in Side : j.due[s] \in Int
    BY DEF JobOk, StepOk, ValuesOk, FieldsOk, Trading
<1>2. Units(j) \in Int
    BY <1>1 DEF Units
<1>3. \A s : Holder(j, s) \in Account
    BY <1>1, Quantities DEF Holder
<1>4. HolderRow(j) \in Row /\ HolderRow(j)[1] = "position"
    BY <1>1, <1>3, Quantities, RowFacts DEF HolderRow
<1>. QED  BY <1>1, <1>2, <1>3, <1>4

(* A position that is inserted comes with an id. *)
LEMMA InsertLays ==
    ASSUME Types, NEW w \in Worker, InsertSide(w), ~ StatementFails(w)
    PROVE  LET j == job[w]
               s == IdRow(Order[j.id].ct, Holder(j, j.half))
           IN  /\ Lays(w, Put(Put(work[site.conn[w]], s, Seen(w, s) + 1), HolderRow(j), Units(j)),
                       {}, Stored(j))
               /\ Notes(w)
<1> DEFINE j == job[w]
           k == site.conn[w]
           s == IdRow(Order[j.id].ct, Holder(j, j.half))
           m == Put(Put(work[k], s, Seen(w, s) + 1), HolderRow(j), Units(j))
<1>1. /\ work' = [work EXCEPT ![k] = m]
      /\ Becomes(w, Stored(j))
      /\ UNCHANGED <<db, noted, down, marks, requests, spoiled>>
    BY DEF InsertSide, Put
<1>2. marks' = [marks EXCEPT ![k] = @ \cup {}]
    BY <1>1 DEF Types
<1>. QED  BY <1>1, <1>2 DEF Lays, Notes, Becomes

LEMMA ContractingTypes ==
    ASSUME Types, NEW w \in Worker, Contracting(w)
    PROVE  Types'
<1> DEFINE j == job[w]
<1>1. JobOk(j)
    BY DEF Types
<1>2. ASSUME j.at \in Trading
      PROVE  /\ j.kind = "place" /\ j.id \in OfferId /\ j.got \in Int /\ Units(j) \in Int
             /\ HolderRow(j) \in Row /\ HolderRow(j)[1] = "position"
             /\ j.due[FIXED] \in Int /\ j.due[UNFIXED] \in Int
             /\ Holder(j, FIXED) \in Account /\ Holder(j, UNFIXED) \in Account
    BY <1>1, <1>2, Holders DEF Side
<1>3. CASE ReadSide(w)
    <2> DEFINE q == Seen(w, HolderRow(j))
    <2>1. j.at = "side" /\ j.at \in Trading /\ Reads(w, [j EXCEPT !.at = "store", !.got = q])
        BY <1>3 DEF ReadSide, At, Trading
    <2>2. q \in Int
        BY <1>2, <2>1, SeenOk DEF ValueOk
    <2>3. JobOk([j EXCEPT !.at = "store", !.got = q])
        BY <1>1, <2>1, <2>2, ReadSideOk
    <2>. QED  BY ONLY Types, w \in Worker, <2>1, <2>3, ReadsTypes
<1>4. ASSUME j.at = "store" PROVE JobOk(Stored(j)) /\ j.at \in Trading
    BY ONLY <1>1, <1>4, StoredOk, Zenon DEF Trading
<1>5. CASE InsertSide(w)
    <2> DEFINE r == HolderRow(j)
    <2>1. JobOk(Stored(j)) /\ r \in Row /\ r[1] = "position" /\ Units(j) \in Int
        BY <1>2, <1>4, <1>5 DEF InsertSide, At
    <2>2. ValueOk(r, Units(j))
        BY <2>1 DEF ValueOk
    <2>3. CASE StatementFails(w)
        BY <2>3, FailsTypes
    <2>4. ASSUME ~ StatementFails(w)
          PROVE  Types'
        <3> DEFINE s == IdRow(Order[j.id].ct, Holder(j, j.half))
                   n == Seen(w, s) + 1
                   m == Put(Put(work[site.conn[w]], s, n), r, Units(j))
        <3>1. Lays(w, m, {}, Stored(j)) /\ Notes(w)
            BY <1>5, <2>4, InsertLays
        <3>2. s \in Row /\ s[1] = "id"
            BY <1>1, <1>4, <1>5, Holders, Quantities, RowFacts DEF InsertSide, At
        <3>3. ValueOk(s, n)
            BY <3>2, SeenOk DEF ValueOk
        <3> HIDE DEF n, s
        <3>4. RowsOk(m)
            BY <2>1, <2>2, <3>2, <3>3, Connected, PutOk DEF Types
        <3>. QED  BY ONLY Types, w \in Worker, <2>1, <3>1, <3>4, LaysTypes
    <2>. QED  BY <2>3, <2>4
<1>6. CASE UpdateSide(w)
    <2> DEFINE r == HolderRow(j)
               x == j.got + Units(j)
               why == StaleIf(Seen(w, r) # j.got, "position")
    <2>1. JobOk(Stored(j)) /\ r \in Row /\ r[1] = "position" /\ Units(j) \in Int /\ j.got \in Int
        BY <1>2, <1>4, <1>6 DEF UpdateSide, At
    <2>2. ValueOk(r, x)
        BY <2>1 DEF ValueOk
    <2>3. Updates(w, r, x, why, Stored(j)) /\ Notes(w)
        BY <1>6 DEF UpdateSide, Notes
    <2>. QED  BY ONLY Types, w \in Worker, <2>1, <2>2, <2>3, UpdatesTypes
<1>7. CASE DebitFixed(w)
    <2>1. j.at = "debit" /\ j.at \in Trading
          /\ Pays(w, Holder(j, FIXED), j.due[FIXED], [j EXCEPT !.half = UNFIXED])
        BY <1>7 DEF DebitFixed, At, Trading
    <2>2. JobOk([j EXCEPT !.half = UNFIXED])
        BY ONLY <1>1, <2>1, DebitedOk, Zenon
    <2>3. Holder(j, FIXED) \in Account /\ j.due[FIXED] \in Int
        BY <1>2, <2>1
    <2>. QED  BY ONLY Types, w \in Worker, <2>1, <2>2, <2>3, PaysTypes
<1>8. CASE DebitUnfixed(w)
    <2> DEFINE r == AccountRow(Holder(j, UNFIXED))
               x == Seen(w, r) - j.due[UNFIXED]
    <2>1. j.at = "debit" /\ j.at \in Trading
        BY <1>8 DEF DebitUnfixed, At, Trading
    <2>2. JobOk(Contracted(j))
        BY ONLY <1>1, <2>1, ContractedOk, Zenon
    <2>3. r \in Row /\ r[1] = "account" /\ j.due[UNFIXED] \in Int
        BY <1>2, <2>1, RowFacts
    <2>4. Seen(w, r) \in Int
        BY <2>3, SeenOk DEF ValueOk
    <2>5. CASE StatementFails(w)
        BY <2>5, FailsTypes
    <2>6. CASE /\ Seen(w, r) >= j.due[UNFIXED] /\ Writes(w, r, x, {}, Contracted(j))
               /\ noted' = [noted EXCEPT ![site.conn[w]] = @ \cup {Order[j.id].ct}]
        <3>1. ValueOk(r, x)
            BY <2>3, <2>4, <2>6 DEF ValueOk
        <3>2. Order[j.id].ct \in ContractType
            BY <1>2, <2>1, Quantities
        <3>3. Notes(w)
            BY <2>6, <3>2 DEF Notes
        <3>. QED  BY ONLY Types, w \in Worker, <2>2, <2>3, <2>6, <3>1, <3>3, WritesTypes
    <2>. QED  BY <1>8, <2>3, <2>4, <2>5, <2>6 DEF DebitUnfixed
<1>9. CASE Rest(w)
    <2> DEFINE o == Order[j.id]
               u == [j EXCEPT !.at = "insert"]
               c == Cost(o.side, o.price, j.left)
    <2>1. j.at = "rest" /\ Pays(w, o.account, c, u)
        BY <1>9 DEF Rest, At
    <2>2. Goes(j, "insert") /\ j.id \in OfferId /\ j.left \in Int
        BY <1>1, <2>1 DEF Goes, JobOk, StepOk, ValuesOk, FieldsOk
    <2>3. JobOk(u)
        BY ONLY <1>1, <2>2, GoesOk, Zenon
    <2>4. o.account \in Account /\ c \in Int
        BY <2>2, Quantities, CostType
    <2>. QED  BY ONLY Types, w \in Worker, <2>1, <2>3, <2>4, PaysTypes
<1>10. CASE InsertOffer(w)
    <2> DEFINE r == OfferOf(j.id)
               u == [j EXCEPT !.at = "commit"]
    <2>0. CASE StatementFails(w)
        BY <2>0, FailsTypes
    <2>1. ASSUME ~ StatementFails(w)
          PROVE  /\ Writes(w, r, j.left, {}, u)
                 /\ noted' = [noted EXCEPT ![site.conn[w]] = @ \cup {Order[j.id].ct}]
        BY <1>10, <2>1 DEF InsertOffer
    <2>2. /\ Goes(j, "commit") /\ j.id \in OfferId /\ j.left \in Int
          /\ j.left \in 1..Order[j.id].quantity
        BY <1>1, <1>10 DEF InsertOffer, At, Goes, JobOk, StepOk, ValuesOk, FieldsOk
    <2>3. JobOk(u)
        BY ONLY <1>1, <2>2, GoesOk, Zenon
    <2>4. r \in Row /\ ValueOk(r, j.left) /\ Order[j.id].ct \in ContractType
        BY <2>2, Quantities, RowFacts DEF ValueOk
    <2>5. ~ StatementFails(w) => Notes(w)
        BY <2>1, <2>4 DEF Notes
    <2>. QED  BY ONLY Types, w \in Worker, <2>0, <2>1, <2>3, <2>4, <2>5, WritesTypes
<1>. QED  BY <1>3, <1>5, <1>6, <1>7, <1>8, <1>9, <1>10 DEF Contracting

(* The new account is one that nobody has. *)
LEMMA FreshFacts ==
    ASSUME Unused # {}
    PROVE  /\ FreshAccount \in Account /\ db[AccountRow(FreshAccount)] = Absent
           /\ \A k \in Connection : AccountRow(FreshAccount) \notin DOMAIN work[k]
<1>1. Unused \in SUBSET Nat
    BY DEF Unused, Account
<1>2. FreshAccount \in Unused
    BY <1>1, MinOfSet DEF FreshAccount
<1>. QED  BY <1>2 DEF Unused

(* INSERT userid: the names that the user gives up, and its own row. *)
LEMMA UpsertOk ==
    ASSUME NEW m, RowsOk(m), NEW u \in User, NEW a \in Account, NEW names \in SUBSET Name
    PROVE  RowsOk(Over([s \in {NameRow(n) : n \in names} |-> 0], Put(m, UserRow(u), a)))
<1> DEFINE p == Put(m, UserRow(u), a)
           old == {NameRow(n) : n \in names}
           o == Over([s \in old |-> 0], p)
<1>1. UserRow(u) \in Row /\ ValueOk(UserRow(u), a)
    BY RowFacts DEF ValueOk, UserRow, Account
<1>2. RowsOk(p)
    BY <1>1, PutOk
<1>3. \A s \in old : s \in Row /\ ValueOk(s, 0)
    BY RowFacts DEF ValueOk, NameRow
<1> HIDE DEF p, old
<1>4. DOMAIN o = old \cup DOMAIN p /\ \A s \in DOMAIN o : o[s] = IF s \in old THEN 0 ELSE p[s]
    BY DEF Over
<1> HIDE DEF o
<1>5. RowsOk(o)
    BY <1>2, <1>3, <1>4 DEF RowsOk
<1>. QED  BY <1>5 DEF o, old, p

LEMMA LoggingInTypes ==
    ASSUME Types, NEW w \in Worker, LoggingIn(w)
    PROVE  Types'
<1> DEFINE j == job[w]
           k == site.conn[w]
<1>1. JobOk(j) /\ k \in Connection
    BY Connected DEF Types
<1>2. j.at \in LoginSteps => j.id \in DOMAIN Logins /\ Logins[j.id].user \in User
                             /\ Logins[j.id].name \in Name
    BY <1>1, ProcessesAssumption DEF JobOk, StepOk, ValuesOk, User
<1>3. CASE FindUser(w)
    <2> DEFINE u == Logins[j.id].user
               a == Seen(w, UserRow(u))
               b == Seen(w, AccountRow(a))
               create == [j EXCEPT !.at = "create"]
               save == [j EXCEPT !.at = "save", !.row = a, !.left = a, !.got = b]
    <2>1. j.at = "user" /\ u \in User
        BY <1>2, <1>3 DEF FindUser, At, LoginSteps
    <2>2. a \in Account \cup {0}
        BY <2>1, RowFacts, SeenOk DEF ValueOk
    <2>3. \/ a = 0 /\ Reads(w, create)
          \/ Reads(w, Idle)
          \/ a # 0 /\ Reads(w, save)
        BY <1>3 DEF FindUser
    <2>4. CASE Reads(w, create)
        <3>1. Goes(j, "create")
            BY <2>1 DEF Goes
        <3>2. JobOk(create)
            BY ONLY <1>1, <3>1, GoesOk, Zenon
        <3>. QED  BY ONLY Types, w \in Worker, <2>4, <3>2, ReadsTypes
    <2>5. CASE Reads(w, Idle)
        BY ONLY Types, w \in Worker, <2>5, IdleOk, ReadsTypes
    <2>6. CASE a # 0 /\ Reads(w, save)
        <3>1. a \in Account
            BY <2>2, <2>6
        <3>2. b \in Nat \cup {Absent}
            BY <3>1, RowFacts, SeenOk DEF ValueOk
        <3>3. JobOk(save)
            BY ONLY <1>1, <2>1, <3>1, <3>2, FoundOk, Zenon
        <3>. QED  BY ONLY Types, w \in Worker, <2>6, <3>3, ReadsTypes
    <2>. QED  BY <2>3, <2>4, <2>5, <2>6
<1>4. CASE CreateAccount(w)
    <2> DEFINE a == FreshAccount
               u == [j EXCEPT !.at = "upsert", !.row = a]
    <2>1. j.at = "create" /\ Writes(w, AccountRow(a), site.grant, {}, u) /\ Notes(w)
        BY <1>4 DEF CreateAccount, At, Notes
    <2>2. a \in Account
        BY <1>4, FreshFacts DEF CreateAccount
    <2>3. JobOk(u)
        BY ONLY <1>1, <2>1, <2>2, CreatedOk, Zenon
    <2>4. AccountRow(a) \in Row /\ ValueOk(AccountRow(a), site.grant)
        BY <2>2, RowFacts, Connected DEF ValueOk
    <2>. QED  BY ONLY Types, w \in Worker, <2>1, <2>3, <2>4, WritesTypes
<1>5. CASE SaveAccount(w)
    <2> DEFINE r == AccountRow(j.row)
               u == [j EXCEPT !.at = "upsert"]
               why == StaleIf(Seen(w, r) # j.got, "balance")
    <2>1. j.at = "save" /\ Writes(w, r, j.got, why, u) /\ Notes(w)
        BY <1>5 DEF SaveAccount, At, Notes
    <2>2. Goes(j, "upsert") /\ j.row \in Account /\ j.got \in Nat \cup {Absent}
        BY <1>1, <2>1 DEF Goes, JobOk, ValuesOk
    <2>3. JobOk(u)
        BY ONLY <1>1, <2>2, GoesOk, Zenon
    <2>4. r \in Row /\ ValueOk(r, j.got)
        BY <2>2, RowFacts DEF ValueOk, Absent
    <2>. QED  BY ONLY Types, w \in Worker, <2>1, <2>3, <2>4, WritesTypes
<1>6. CASE Upsert(w)
    <2> DEFINE r == UserRow(Logins[j.id].user)
               names == {n \in Name : Seen(w, NameRow(n)) = Logins[j.id].user}
               m == Over([s \in {NameRow(n) : n \in names} |-> 0], Put(work[k], r, j.row))
               u == [j EXCEPT !.at = "name"]
    <2>1. /\ j.at = "upsert" /\ work' = [work EXCEPT ![k] = m] /\ job' = [job EXCEPT ![w] = u]
          /\ \E why : marks' = [marks EXCEPT ![k] = @ \cup why]
          /\ UNCHANGED <<site, db, noted, down, asked>>
        BY <1>6 DEF Upsert, At, Becomes, Marked, requests, Put
    <2>2. Goes(j, "name") /\ j.row \in Account
        BY <1>1, <2>1 DEF Goes, JobOk, ValuesOk
    <2>3. JobOk(u)
        BY ONLY <1>1, <2>2, GoesOk, Zenon
    <2>4. Logins[j.id].user \in User /\ names \in SUBSET Name /\ RowsOk(work[k])
        BY <1>1, <1>2, <2>1 DEF LoginSteps, Types
    <2>5. RowsOk(m)
        BY ONLY <2>2, <2>4, UpsertOk
    <2> HIDE DEF m, u, k
    <2>6. job' = [v \in Worker |-> job'[v]] /\ \A v \in Worker : JobOk(job'[v])
        BY <2>1, <2>3 DEF Types
    <2>7. work' = [h \in Connection |-> work'[h]] /\ \A h \in Connection : RowsOk(work'[h])
        BY <1>1, <2>1, <2>5 DEF Types
    <2>8. marks' = [h \in Connection |-> marks'[h]]
        BY <2>1 DEF Types
    <2>. QED  BY <2>1, <2>6, <2>7, <2>8 DEF Types
<1>7. CASE TakeName(w)
    <2> DEFINE r == NameRow(Logins[j.id].name)
               v == Logins[j.id].user
               u == [j EXCEPT !.at = "commit"]
    <2>1. j.at = "name"
        BY <1>7 DEF TakeName, At
    <2>2. CASE StatementFails(w)
        BY <2>2, FailsTypes
    <2>3. CASE Writes(w, r, v, {}, u) /\ noted' = [noted EXCEPT ![site.conn[w]] = @ \cup {0}]
        <3>1. Goes(j, "commit")
            BY <2>1 DEF Goes
        <3>2. JobOk(u)
            BY ONLY <1>1, <3>1, GoesOk, Zenon
        <3>3. v \in User /\ Logins[j.id].name \in Name
            BY <1>2, <2>1 DEF LoginSteps
        <3>4. r \in Row /\ ValueOk(r, v)
            BY <3>3, RowFacts, ProcessesAssumption DEF ValueOk, User, NameRow
        <3>5. Notes(w)
            BY <2>3 DEF Notes
        <3>. QED  BY ONLY Types, w \in Worker, <2>3, <3>2, <3>4, <3>5, WritesTypes
    <2>. QED  BY <1>7, <2>2, <2>3 DEF TakeName
<1>. QED  BY <1>3, <1>4, <1>5, <1>6, <1>7 DEF LoggingIn

LEMMA PayingTypes ==
    ASSUME Types, NEW w \in Worker, Paying(w)
    PROVE  Types'
<1> DEFINE j == job[w]
<1>1. JobOk(j)
    BY DEF Types
<1>2. j.at \in PaySteps => j.id \in ContractType /\ j.got \in Int
    BY <1>1 DEF JobOk, StepOk, ValuesOk, FieldsOk
<1>3. CASE Pick(w)
    <2>1. j.at = "pick"
        BY <1>3 DEF Pick, At
    <2>2. CASE HandlerRaises(w)
        BY <2>2, RaisesTypes
    <2>3. CASE Reads(w, [j EXCEPT !.at = "commit"])
        <3>1. Goes(j, "commit")
            BY <2>1 DEF Goes
        <3>2. JobOk([j EXCEPT !.at = "commit"])
            BY ONLY <1>1, <3>1, GoesOk, Zenon
        <3>. QED  BY ONLY Types, w \in Worker, <2>3, <3>2, ReadsTypes
    <2>4. ASSUME NEW a \in Account, NEW x \in {"credit", "delete"}, NEW p, NEW q,
                 p = Seen(w, IdRow(j.id, a)), q = Seen(w, PositionRow(j.id, a)),
                 Reads(w, [j EXCEPT !.at = x, !.row = a, !.n = p, !.got = q, !.left = @ + q])
          PROVE  Types'
        <3>1. p \in Int /\ q \in Int
            BY <1>2, <2>1, <2>4, RowFacts, SeenOk DEF ValueOk, PaySteps
        <3>2. JobOk([j EXCEPT !.at = x, !.row = a, !.n = p, !.got = q, !.left = @ + q])
            BY <1>1, <2>1, <3>1, PickedOk
        <3>. QED  BY ONLY Types, w \in Worker, <2>4, <3>2, ReadsTypes
    <2>. QED  BY <1>3, <2>2, <2>3, <2>4 DEF Pick
<1>4. CASE PayWinner(w)
    <2> DEFINE r == AccountRow(j.row)
               u == [j EXCEPT !.at = "delete"]
               x == Seen(w, r) + Unit * Abs(j.got)
    <2>1. j.at = "credit" /\ Updates(w, r, x, {}, u) /\ Notes(w)
        BY <1>4 DEF PayWinner, At, Notes
    <2>2. Goes(j, "delete") /\ j.row \in Account /\ j.got \in Int
        BY <1>1, <2>1 DEF Goes, JobOk, ValuesOk, FieldsOk
    <2>3. JobOk(u)
        BY ONLY <1>1, <2>2, GoesOk, Zenon
    <2>4. r \in Row /\ r[1] = "account" /\ Seen(w, r) \in Nat \cup {Absent}
        BY <2>2, RowFacts, SeenOk DEF ValueOk
    <2>5. Unit * Abs(j.got) \in Nat
        BY <2>2 DEF Unit, Abs
    <2>6. Exist(r, Seen(w, r)) => ValueOk(r, x)
        BY <2>4, <2>5 DEF Exist, ValueOk, Absent
    <2>. QED  BY ONLY Types, w \in Worker, <2>1, <2>3, <2>4, <2>6, UpdatesTypes
<1>5. CASE DeletePosition(w)
    <2> DEFINE r == PositionRow(j.id, j.row)
               u == [j EXCEPT !.at = "pick"]
               why == StaleIf(Seen(w, r) # j.got, "position")
    <2>1. /\ j.at = "delete"
          /\ noted' = [noted EXCEPT ![site.conn[w]] = @ \cup {j.id}]
        BY <1>5 DEF DeletePosition, At
    <2>2. Goes(j, "pick") /\ j.row \in Account /\ j.id \in ContractType
        BY <1>1, <1>2, <2>1 DEF Goes, JobOk, ValuesOk, PaySteps
    <2>3. JobOk(u)
        BY ONLY <1>1, <2>2, GoesOk, Zenon
    <2>4. r \in Row /\ ValueOk(r, 0)
        BY <2>2, RowFacts DEF ValueOk, PositionRow
    <2>5. Notes(w)
        BY <2>1, <2>2 DEF Notes
    <2>6. CASE Updates(w, r, 0, why, u)
        BY ONLY Types, w \in Worker, <2>3, <2>4, <2>5, <2>6, UpdatesTypes
    <2>7. CASE Becomes(w, u) /\ UNCHANGED <<db, work, down, early, requests, spoiled>>
               /\ marks' = Marked(site.conn[w], {"position"})
        <3>1. Lays(w, work[site.conn[w]], {"position"}, u)
            BY <2>7 DEF Lays, Becomes, Marked, Types
        <3>2. RowsOk(work[site.conn[w]])
            BY Connected DEF Types
        <3>. QED  BY ONLY Types, w \in Worker, <2>3, <2>5, <3>1, <3>2, LaysTypes
    <2>. QED  BY <1>5, <2>6, <2>7 DEF DeletePosition
<1>. QED  BY <1>3, <1>4, <1>5 DEF Paying

(* The end of a transaction, kept or not. *)
LEMMA EndingTypes ==
    ASSUME Types, NEW w \in Worker,
           Commit(w) \/ Aborted(w) \/ AbortedLogin(w) \/ DeadlockDetected(w)
    PROVE  Types'
<1> DEFINE j == job[w]
           k == site.conn[w]
<1>1. JobOk(j) /\ k \in Connection
    BY Connected DEF Types
<1>2. j.at = "commit" => JobOk(Committed(j))
    BY ONLY <1>1, CommittedOk, Zenon
<1>3. CASE Commit(w)
    <2>1. /\ j.at = "commit" /\ db' = [r \in Row |-> View(k, r)]
          /\ work' = [work EXCEPT ![k] = NoWork] /\ noted' = [noted EXCEPT ![k] = {}]
          /\ marks' = [marks EXCEPT ![k] = {}] /\ job' = [job EXCEPT ![w] = Committed(j)]
          /\ UNCHANGED <<site, down, asked>>
        BY <1>3 DEF Commit, At, Becomes, requests
    <2>2. \A r \in Row : ValueOk(r, View(k, r))
        BY SeenOk DEF Seen
    <2>3. DOMAIN db' = Row /\ RowsOk(db')
        BY <2>1, <2>2 DEF RowsOk
    <2> HIDE DEF k
    <2>4. job' = [v \in Worker |-> job'[v]] /\ \A v \in Worker : JobOk(job'[v])
        BY <1>2, <2>1 DEF Types
    <2>5. work' = [h \in Connection |-> work'[h]] /\ \A h \in Connection : RowsOk(work'[h])
        <3>1. RowsOk(NoWork)
            BY DEF RowsOk, NoWork
        <3>. QED  BY <2>1, <3>1 DEF Types
    <2>6. /\ marks' = [h \in Connection |-> marks'[h]]
          /\ noted' = [h \in Connection |-> noted'[h]]
          /\ \A h \in Connection : noted'[h] \subseteq ContractType \cup {0}
        BY <2>1 DEF Types
    <2>. QED  BY <2>1, <2>3, <2>4, <2>5, <2>6 DEF Types
<1>4. CASE Aborted(w)
    <2>1. /\ UNCHANGED <<site, db, work, noted, marks, asked>> /\ down' \subseteq down
          /\ \E u : JobOk(u) /\ job' = [job EXCEPT ![w] = u]
        BY <1>2, <1>4, IdleOk DEF Aborted, Becomes, requests
    <2>2. job' = [v \in Worker |-> job'[v]] /\ \A v \in Worker : JobOk(job'[v])
        BY <2>1 DEF Types
    <2>. QED  BY <2>1, <2>2 DEF Types
<1>5. CASE StatementFails(w)
    BY <1>5, FailsTypes
<1>. QED  BY <1>3, <1>4, <1>5 DEF AbortedLogin, DeadlockDetected

(* Requests. *)
LEMMA AskingTypes ==
    ASSUME Types, NEW w \in Worker, Asks(w) \/ Page(w)
    PROVE  Types'
<1>1. down \subseteq Connection /\ asked \subseteq OfferId
    BY DEF Types
<1>2. ASSUME NEW kind, NEW j, JobOk([j EXCEPT !.kind = kind]), Request(w, kind, j),
             asked' \subseteq OfferId
      PROVE  Types'
    <2>1. Begins(w, kind, j) /\ down' \subseteq Connection
        BY <1>1, <1>2 DEF Request
    <2>. QED  BY ONLY Types, w \in Worker, <1>2, <2>1, BeginsTypes
<1>3. ASSUME NEW i \in OfferId, Place(w, i) PROVE Types'
    <2> DEFINE j == [Idle EXCEPT !.at = "lookup", !.id = i, !.left = Order[i].quantity]
    <2>1. Request(w, "place", j) /\ asked' \subseteq OfferId
        BY <1>1, <1>3 DEF Place
    <2>2. JobOk([j EXCEPT !.kind = "place"])
        BY ONLY <1>3, PlaceJob, Zenon
    <2>. QED  BY ONLY <1>2, <2>1, <2>2
<1>4. ASSUME NEW i \in OfferId, Cancel(w, i) PROVE Types'
    <2> DEFINE j == [Idle EXCEPT !.at = "read", !.row = i]
    <2>1. Request(w, "cancel", j) /\ asked' \subseteq OfferId
        BY <1>1, <1>4 DEF Cancel
    <2>2. JobOk([j EXCEPT !.kind = "cancel"])
        BY ONLY <1>4, CancelJob, Zenon
    <2>. QED  BY ONLY <1>2, <2>1, <2>2
<1>5. CASE List(w)
    <2> DEFINE j == [Idle EXCEPT !.at = "find"]
    <2>1. Request(w, "list", j) /\ asked' \subseteq OfferId
        BY <1>1, <1>5 DEF List
    <2>2. JobOk([j EXCEPT !.kind = "list"])
        BY ONLY ListJob, Zenon
    <2>. QED  BY ONLY <1>2, <2>1, <2>2
<1>6. ASSUME NEW l \in DOMAIN Logins, LogIn(w, l) PROVE Types'
    <2> DEFINE j == [Idle EXCEPT !.at = "user", !.id = l, !.n = 1]
    <2>1. Request(w, "login", j) /\ asked' \subseteq OfferId
        BY <1>1, <1>6 DEF LogIn
    <2>2. JobOk([j EXCEPT !.kind = "login"])
        BY ONLY <1>6, LoginJob, Zenon
    <2>. QED  BY ONLY <1>2, <2>1, <2>2
<1>7. ASSUME NEW c \in ContractType, NEW side \in Side, Resolve(w, c, side) PROVE Types'
    <2> DEFINE j == [Idle EXCEPT !.at = "lookup", !.id = c, !.half = side]
    <2>1. Request(w, "resolve", j) /\ asked' \subseteq OfferId
        BY <1>1, <1>7 DEF Resolve
    <2>2. JobOk([j EXCEPT !.kind = "resolve"])
        BY ONLY <1>7, ResolveJob, Zenon
    <2>. QED  BY ONLY <1>2, <2>1, <2>2
<1>8. CASE Page(w)
    <2> DEFINE j == [Idle EXCEPT !.at = "find"]
    <2>1. Begins(w, "list", j) /\ asked' \subseteq OfferId /\ down' \subseteq Connection
        BY <1>1, <1>8 DEF Page
    <2>2. JobOk([j EXCEPT !.kind = "list"])
        BY ONLY ListJob, Zenon
    <2>. QED  BY ONLY Types, w \in Worker, <2>1, <2>2, BeginsTypes
<1>. QED  BY <1>3, <1>4, <1>5, <1>6, <1>7, <1>8 DEF Asks

(* A process dies, weeks pass, nothing happens. *)
LEMMA OthersTypes ==
    ASSUME Types, Mature \/ Quiet \/ \E k \in Connection : Crash(k)
    PROVE  Types'
<1>1. CASE Mature
    BY <1>1 DEF Mature, Types, connections, requests
<1>2. CASE Quiet
    BY <1>2 DEF Quiet, Types, vars, connections, requests
<1>3. ASSUME NEW k \in Connection, Crash(k) PROVE Types'
    <2>1. /\ job' = [w \in Worker |-> IF site.conn[w] = k THEN Idle ELSE job[w]]
          /\ work' = [work EXCEPT ![k] = NoWork] /\ noted' = [noted EXCEPT ![k] = {}]
          /\ marks' = [marks EXCEPT ![k] = {}] /\ down' = down \ {k}
          /\ UNCHANGED <<site, db, asked>>
        BY <1>3 DEF Crash
    <2>2. job' = [v \in Worker |-> job'[v]] /\ \A v \in Worker : JobOk(job'[v])
        BY <2>1, IdleOk DEF Types
    <2>3. work' = [h \in Connection |-> work'[h]] /\ \A h \in Connection : RowsOk(work'[h])
        <3>1. RowsOk(NoWork)
            BY DEF RowsOk, NoWork
        <3>. QED  BY <2>1, <3>1 DEF Types
    <2>4. /\ marks' = [h \in Connection |-> marks'[h]]
          /\ noted' = [h \in Connection |-> noted'[h]]
          /\ \A h \in Connection : noted'[h] \subseteq ContractType \cup {0}
        BY <2>1 DEF Types
    <2>5. down' \subseteq Connection
        BY <2>1 DEF Types
    <2>. QED  BY <2>1, <2>2, <2>3, <2>4, <2>5 DEF Types
<1>. QED  BY <1>1, <1>2, <1>3

(* What the tables hold at the start. *)
LEMMA StartOk == DOMAIN Start = Row /\ RowsOk(Start)
<1>1. ASSUME NEW r \in Row PROVE ValueOk(r, FirstValue(r))
    <2>1. ASSUME NEW c \in ContractType, r = TypeRow(c) PROVE ValueOk(r, FirstValue(r))
        BY <2>1 DEF ValueOk, FirstValue, TypeRow
    <2>2. ASSUME NEW a \in Account, r = AccountRow(a) PROVE ValueOk(r, FirstValue(r))
        <3>1. InitialBalance[a] \in Nat
            BY TablesAssumption
        <3>. QED  BY <2>2, <3>1 DEF ValueOk, FirstValue, AccountRow, Absent
    <2>3. ASSUME NEW i \in OfferId, r = OfferOf(i) PROVE ValueOk(r, FirstValue(r))
        BY <2>3, Quantities DEF ValueOk, FirstValue, OfferOf
    <2>4. ASSUME NEW c \in ContractType, NEW a \in Account, r = PositionRow(c, a)
          PROVE  ValueOk(r, FirstValue(r))
        <3>1. Holdings[c][a] \in Int
            BY StartAssumption
        <3>. QED  BY <2>4, <3>1 DEF ValueOk, FirstValue, PositionRow
    <2>7. ASSUME NEW c \in ContractType, NEW a \in Account, r = IdRow(c, a)
          PROVE  ValueOk(r, FirstValue(r))
        BY <2>7 DEF ValueOk, FirstValue, IdRow
    <2>5. ASSUME NEW u \in User, r = UserRow(u) PROVE ValueOk(r, FirstValue(r))
        <3>1. FirstUser[u].account \in Account \cup {0}
            BY ProcessesAssumption DEF User
        <3>. QED  BY <2>5, <3>1 DEF ValueOk, FirstValue, UserRow, Account
    <2>6. ASSUME NEW n \in Name, r = NameRow(n) PROVE ValueOk(r, FirstValue(r))
        <3> DEFINE of == {u \in Known : FirstUser[u].name = n}
        <3>1. of \in SUBSET Nat
            BY ProcessesAssumption DEF Known, User
        <3>2. of # {} => Min(of) \in Nat
            BY <3>1, MinOfSet
        <3> HIDE DEF of
        <3>3. FirstValue(r) = IF of = {} THEN 0 ELSE Min(of)
            BY <2>6 DEF FirstValue, NameRow, of
        <3>. QED  BY <2>6, <3>2, <3>3 DEF ValueOk, NameRow
    <2>. QED  BY <2>1, <2>2, <2>3, <2>4, <2>5, <2>6, <2>7, RowKinds
<1>. QED  BY <1>1 DEF Start, RowsOk

(* The types of every variable, kept by every step. *)
LEMMA TypesInit == Init => Types
<1> SUFFICES ASSUME Init PROVE Types
    OBVIOUS
<1>1. DOMAIN db = Row /\ RowsOk(db)
    BY StartOk DEF Init
<1>2. RowsOk(NoWork)
    BY DEF RowsOk, NoWork
<1>3. work = [k \in Connection |-> work[k]] /\ \A k \in Connection : RowsOk(work[k])
    BY <1>2 DEF Init
<1>4. job = [w \in Worker |-> job[w]] /\ \A w \in Worker : JobOk(job[w])
    BY IdleOk DEF Init
<1>5. /\ marks = [k \in Connection |-> marks[k]] /\ noted = [k \in Connection |-> noted[k]]
      /\ \A k \in Connection : noted[k] \subseteq ContractType \cup {0}
      /\ site \in Deployments /\ down \subseteq Connection /\ asked \subseteq OfferId
    BY DEF Init
<1>. QED  BY <1>1, <1>3, <1>4, <1>5 DEF Types

LEMMA TypesNext == Types /\ [Next]_vars => Types'
<1> SUFFICES ASSUME Types, [Next]_vars PROVE Types'
    OBVIOUS
<1>1. ASSUME NEW w \in Worker, Asks(w) \/ Page(w) \/ Step(w) \/ DeadlockDetected(w)
      PROVE  Types'
    BY <1>1, AskingTypes, MatchingTypes, SweepingTypes, ContractingTypes, LoggingInTypes, PayingTypes,
       EndingTypes
       DEF Step
<1>2. CASE Mature \/ Quiet \/ \E k \in Connection : Crash(k)
    BY <1>2, OthersTypes
<1>3. CASE UNCHANGED vars
    BY <1>3 DEF Types, vars, connections, requests
<1>. QED  BY <1>1, <1>2, <1>3 DEF Next

(* At every statement of every worker the local variables are what it      *)
(* needs, and no row, committed or not, is below zero.                     *)
THEOREM TypesInvariant == Spec => []Types
BY TypesInit, TypesNext, PTL DEF Spec

(* No committed balance is negative, however many processes debit it at    *)
(* the same time, and no offer ever holds more than was asked for.         *)
THEOREM ProcessesTypes == Spec => []TypeOK
<1>1. Types => TypeOK
    <2> SUFFICES ASSUME Types PROVE TypeOK
        OBVIOUS
    <2>1. \A a \in Account : db[AccountRow(a)] \in Nat \cup {Absent}
        BY RowFacts DEF Types, RowsOk, ValueOk
    <2>2. \A i \in OfferId : db[OfferOf(i)] \in 0..Order[i].quantity
        BY RowFacts DEF Types, RowsOk, ValueOk
    <2>3. \A k \in Connection : /\ DOMAIN work[k] \subseteq Row
                                /\ noted[k] \subseteq ContractType \cup {0}
        BY DEF Types, RowsOk
    <2>. QED  BY <2>1, <2>2, <2>3 DEF TypeOK, Types
<1>. QED  BY <1>1, TypesInvariant, PTL

(***************************************************************************)
(* Who may write what, when every process has a connection of its own.     *)
(***************************************************************************)
Mine(w) == work[site.conn[w]]
MarksOf(w) == marks[site.conn[w]]
Listed == Resting \cup asked
Living(d, a) == d[AccountRow(a)] # Absent

(* A first login, from the new account on; a login that keeps an account.  *)
Opening(j) == j.kind = "login" /\ j.left = 0 /\ j.at \in {"upsert", "name", "commit"}
Keeping(j) == j.kind = "login" /\ j.left # 0 /\ j.at \in {"save", "upsert", "name", "commit"}
HasUser(j) == j.kind = "login" /\ j.at \in {"name", "commit"}
HasOffer(j, i) == j.kind = "place" /\ j.at = "commit" /\ j.id = i

(* The offers that job j is about, and those it has written: they have     *)
(* been asked for, and a new one is its own.                               *)
OffersOk(d, m, j, listed) ==
    /\ \A i \in OfferId : OfferOf(i) \in DOMAIN m =>
         i \in listed /\ (d[OfferOf(i)] # 0 \/ HasOffer(j, i))
    /\ j.kind = "place" => j.id \in listed /\ d[OfferOf(j.id)] = 0
    /\ j.at \in Offering \cup Trading => j.row \in listed
    /\ DOMAIN j.rows \subseteq listed

(* The accounts it has written: they are there, but for a new one.         *)
AccountsOk(d, m, j) ==
    /\ \A a \in Account : AccountRow(a) \in DOMAIN m =>
         /\ m[AccountRow(a)] # Absent
         /\ Living(d, a) \/ (Opening(j) /\ j.row = a)
    /\ Opening(j) => /\ j.row \in Account /\ AccountRow(j.row) \in DOMAIN m
                     /\ ~ Living(d, j.row)

(* The users it has written: one, with the account of the login, in place  *)
(* of the account that lookup found.                                       *)
UsersOk(d, m, j, mk) ==
    /\ \A u \in User : UserRow(u) \in DOMAIN m =>
         /\ HasUser(j) /\ u = Logins[j.id].user /\ m[UserRow(u)] = j.row
         /\ d[UserRow(u)] = j.left \/ "login" \in mk
    /\ HasUser(j) => UserRow(Logins[j.id].user) \in DOMAIN m
    /\ Keeping(j) => j.left = j.row /\ j.row \in Account /\ Living(d, j.row)
    /\ j.at = "save" => j.left # 0 /\ j.got # Absent
    /\ j.at \in {"user", "create"} => j.left = 0

Guarded(d, m, j, mk, listed) ==
    OffersOk(d, m, j, listed) /\ AccountsOk(d, m, j) /\ UsersOk(d, m, j, mk)

(* A failed connection has nothing left, no row but one of a name, or the  *)
(* id of a position, is written by two transactions, and whoever owns an   *)
(* offer or is a user has an account.                                      *)
Ownership ==
    /\ \A w \in Worker : site.conn[w] \in down => job[w] = Idle /\ Mine(w) = NoWork
    /\ \A v, w \in Worker : \A r \in Row :
         v # w /\ r \in DOMAIN Mine(v) /\ r \in DOMAIN Mine(w) => r[1] \in {"name", "id"}
    /\ \A v, w \in Worker :
         v # w /\ job[v].kind = "place" /\ job[w].kind = "place" => job[v].id # job[w].id
    /\ \A i \in Listed : Living(db, Order[i].account)
    /\ \A u \in User : db[UserRow(u)] # 0 => Living(db, db[UserRow(u)])
    /\ \A i \in OfferId : db[OfferOf(i)] # 0 => i \in Listed
    /\ \A w \in Worker : Guarded(db, Mine(w), job[w], MarksOf(w), Listed)

(* Every account is one user's. *)
OneUserEach ==
    "login" \notin spoiled =>
        \A a \in Account : Living(db, a) =>
            \E u \in User : db[UserRow(u)] = a /\ \A v \in User : db[UserRow(v)] = a => v = u

Kept == OwnConnections => Ownership /\ OneUserEach

(* Worker w goes on to job j with rows m and marks mk, and nobody else's   *)
(* rows and nothing committed changes.                                     *)
Alone(w, m, j, mk) ==
    /\ work' = [work EXCEPT ![site.conn[w]] = m]
    /\ job' = [job EXCEPT ![w] = j]
    /\ marks' = [marks EXCEPT ![site.conn[w]] = mk]
    /\ UNCHANGED <<site, db, spoiled>>

(* What that means to the others. *)
LEMMA AloneEffect ==
    ASSUME Types, OwnConnections, NEW w \in Worker, NEW m, NEW j, NEW mk, Alone(w, m, j, mk)
    PROVE  /\ Mine(w)' = m /\ job'[w] = j /\ MarksOf(w)' = mk
           /\ \A v \in Worker : v # w => /\ Mine(v)' = Mine(v) /\ job'[v] = job[v]
                                         /\ MarksOf(v)' = MarksOf(v)
<1>1. \A v \in Worker : v # w => site.conn[v] # site.conn[w]
    BY DEF OwnConnections
<1>2. \A v \in Worker : site.conn[v] \in Connection /\ site' = site
    BY Connected DEF Alone
<1>3. Mine(w)' = m /\ job'[w] = j /\ MarksOf(w)' = mk
    BY <1>2 DEF Alone, Types, Mine, MarksOf
<1>4. ASSUME NEW v \in Worker, v # w
      PROVE  Mine(v)' = Mine(v) /\ job'[v] = job[v] /\ MarksOf(v)' = MarksOf(v)
    BY <1>1, <1>2, <1>4 DEF Alone, Types, Mine, MarksOf
<1>. QED  BY <1>3, <1>4

(* A row that w may write: it has it already, or nobody else does. *)
Takes(w, r) ==
    r \in DOMAIN Mine(w) \/ \A v \in Worker : v # w => r \notin DOMAIN Mine(v)

(* An order that is asked for adds its offer to those that are listed. *)
LEMMA ListedGrows ==
    ASSUME NEW d, NEW m, NEW j, NEW mk, NEW few, NEW many, few \subseteq many,
           Guarded(d, m, j, mk, few)
    PROVE  Guarded(d, m, j, mk, many)
BY DEF Guarded, OffersOk

(* A step of one worker keeps what belongs to whom, if its own rows and    *)
(* job stay guarded.                                                       *)
LEMMA AloneOwnership ==
    ASSUME Types, OwnConnections, Ownership, NEW w \in Worker, NEW m, NEW j, NEW mk,
           Alone(w, m, j, mk),
           down' \subseteq down \cup {site.conn[w]},
           site.conn[w] \in down' => j = Idle /\ m = NoWork,
           Listed \subseteq Listed',
           \A i \in Listed' : Living(db, Order[i].account),
           \A r \in DOMAIN m : r[1] \in {"name", "id"} \/ Takes(w, r),
           \A v \in Worker : v # w /\ job[v].kind = "place" /\ j.kind = "place" => job[v].id # j.id,
           Guarded(db, m, j, mk, Listed')
    PROVE  Ownership'
<1>1. /\ Mine(w)' = m /\ job'[w] = j /\ MarksOf(w)' = mk
      /\ \A v \in Worker : v # w => /\ Mine(v)' = Mine(v) /\ job'[v] = job[v]
                                    /\ MarksOf(v)' = MarksOf(v)
    BY AloneEffect
<1>2. /\ site' = site /\ db' = db
      /\ \A v \in Worker : v # w => site.conn[v] # site.conn[w]
    BY DEF Alone, OwnConnections
<1>3. \A v \in Worker : (site.conn[v] \in down => job[v] = Idle /\ Mine(v) = NoWork)'
    BY <1>1, <1>2 DEF Ownership
<1>4. (\A u, v \in Worker : \A r \in Row :
         u # v /\ r \in DOMAIN Mine(u) /\ r \in DOMAIN Mine(v) => r[1] \in {"name", "id"})'
    <2> SUFFICES ASSUME NEW u \in Worker, NEW v \in Worker, NEW r \in Row, u # v,
                        r \in DOMAIN Mine(u)', r \in DOMAIN Mine(v)'
                 PROVE  r[1] \in {"name", "id"}
        OBVIOUS
    <2>1. \A x, y \in Worker : x # y /\ r \in DOMAIN Mine(x) /\ r \in DOMAIN Mine(y) => r[1] \in {"name", "id"}
        BY DEF Ownership
    <2>2. ASSUME NEW x \in Worker, x # w, r \in DOMAIN m, r \in DOMAIN Mine(x)
          PROVE  r[1] \in {"name", "id"}
        BY <2>1, <2>2 DEF Takes
    <2>3. CASE u = w
        BY <1>1, <2>2, <2>3
    <2>4. CASE v = w
        BY <1>1, <2>2, <2>4
    <2>5. CASE u # w /\ v # w
        BY <1>1, <2>1, <2>5
    <2>. QED  BY <2>3, <2>4, <2>5
<1>5. (\A u, v \in Worker :
         u # v /\ job[u].kind = "place" /\ job[v].kind = "place" => job[u].id # job[v].id)'
    <2> SUFFICES ASSUME NEW u \in Worker, NEW v \in Worker, u # v,
                        job'[u].kind = "place", job'[v].kind = "place"
                 PROVE  job'[u].id # job'[v].id
        OBVIOUS
    <2>1. \A x, y \in Worker :
             x # y /\ job[x].kind = "place" /\ job[y].kind = "place" => job[x].id # job[y].id
        BY DEF Ownership
    <2>2. CASE u = w
        BY <1>1, <2>2
    <2>3. CASE v = w
        BY <1>1, <2>3
    <2>4. CASE u # w /\ v # w
        BY <1>1, <2>1, <2>4
    <2>. QED  BY <2>2, <2>3, <2>4
<1>6. /\ \A i \in Listed' : Living(db', Order[i].account)
      /\ \A u \in User : db'[UserRow(u)] # 0 => Living(db', db'[UserRow(u)])
      /\ \A i \in OfferId : db'[OfferOf(i)] # 0 => i \in Listed'
    BY <1>2 DEF Ownership
<1>7. ASSUME NEW v \in Worker
      PROVE  Guarded(db', Mine(v)', job'[v], MarksOf(v)', Listed')
    <2>1. CASE v = w
        BY <1>1, <1>2, <2>1
    <2>2. CASE v # w
        <3>1. Guarded(db, Mine(v), job[v], MarksOf(v), Listed)
            BY DEF Ownership
        <3>2. Guarded(db, Mine(v), job[v], MarksOf(v), Listed')
            BY <3>1, ListedGrows
        <3>. QED  BY <1>1, <1>2, <2>2, <3>2
    <2>. QED  BY <2>1, <2>2
<1>. QED  BY <1>2, <1>3, <1>4, <1>5, <1>6, <1>7 DEF Ownership

(* An order stays the order that it was. *)
SameOrder(i, j) == j.kind = "place" => i.kind = "place" /\ j.id = i.id

(* A step of one worker that asks for nothing new and fails nothing. *)
LEMMA StepOwnership ==
    ASSUME Types, OwnConnections, Ownership, NEW w \in Worker, NEW m, NEW j, NEW mk,
           Alone(w, m, j, mk), down' = down, site.conn[w] \notin down, asked' = asked,
           SameOrder(job[w], j),
           \A r \in DOMAIN m : r[1] \in {"name", "id"} \/ Takes(w, r),
           Guarded(db, m, j, mk, Listed)
    PROVE  Ownership'
<1>1. Listed' = Listed /\ \A i \in Listed' : Living(db, Order[i].account)
    BY DEF Listed, Ownership
<1>2. \A v \in Worker : v # w /\ job[v].kind = "place" /\ j.kind = "place" => job[v].id # j.id
    BY DEF Ownership, SameOrder
<1>3. down' \subseteq down \cup {site.conn[w]} /\ Listed \subseteq Listed'
      /\ (site.conn[w] \in down' => j = Idle /\ m = NoWork)
    BY <1>1
<1>4. Guarded(db, m, j, mk, Listed')
    BY <1>1
<1>. QED  BY <1>1, <1>2, <1>3, <1>4, AloneOwnership

(* Reading changes nothing but the job. *)
LEMMA ReadsAlone ==
    ASSUME Types, NEW w \in Worker, NEW j, Reads(w, j)
    PROVE  Alone(w, Mine(w), j, MarksOf(w)) /\ down' = down /\ asked' = asked
<1>1. work = [work EXCEPT ![site.conn[w]] = work[site.conn[w]]]
    BY Connected DEF Types
<1>2. marks = [marks EXCEPT ![site.conn[w]] = marks[site.conn[w]]]
    BY Connected DEF Types
<1>. QED  BY <1>1, <1>2 DEF Reads, Becomes, Alone, Mine, MarksOf, connections, requests

LEMMA ReadsOwnership ==
    ASSUME Types, OwnConnections, Ownership, NEW w \in Worker, NEW j, Reads(w, j),
           site.conn[w] \notin down, SameOrder(job[w], j),
           Guarded(db, Mine(w), j, MarksOf(w), Listed)
    PROVE  Ownership'
<1>1. \A r \in DOMAIN Mine(w) : r[1] \in {"name", "id"} \/ Takes(w, r)
    BY DEF Takes
<1>. QED  BY <1>1, ReadsAlone, StepOwnership

(* Writing puts a row on top of those written before. *)
LEMMA WritesAlone ==
    ASSUME Types, NEW w \in Worker, NEW r, NEW x, NEW why, NEW j, Writes(w, r, x, why, j)
    PROVE  Alone(w, Put(Mine(w), r, x), j, MarksOf(w) \cup why) /\ down' = down /\ asked' = asked
<1>1. work' = [work EXCEPT ![site.conn[w]] = Put(work[site.conn[w]], r, x)]
    BY DEF Writes, Put
<1>2. marks' = [marks EXCEPT ![site.conn[w]] = marks[site.conn[w]] \cup why]
    BY DEF Writes, Marked
<1>. QED  BY <1>1, <1>2 DEF Writes, Becomes, Alone, Mine, MarksOf, requests

LEMMA LaysOwnership ==
    ASSUME Types, OwnConnections, Ownership, NEW w \in Worker, NEW m, NEW why, NEW j,
           Lays(w, m, why, j), site.conn[w] \notin down, SameOrder(job[w], j),
           \A r \in DOMAIN m : r[1] \in {"name", "id"} \/ Takes(w, r),
           Guarded(db, m, j, MarksOf(w) \cup why, Listed)
    PROVE  Ownership'
<1>1. Alone(w, m, j, MarksOf(w) \cup why) /\ down' = down /\ asked' = asked
    BY DEF Lays, Alone, MarksOf, requests
<1>. QED  BY <1>1, StepOwnership

LEMMA WritesOwnership ==
    ASSUME Types, OwnConnections, Ownership, NEW w \in Worker, NEW r, NEW x, NEW why, NEW j,
           Writes(w, r, x, why, j), site.conn[w] \notin down, SameOrder(job[w], j),
           r[1] \in {"name", "id"} \/ Takes(w, r),
           Guarded(db, Put(Mine(w), r, x), j, MarksOf(w) \cup why, Listed)
    PROVE  Ownership'
<1> DEFINE m == Put(Mine(w), r, x)
           mk == MarksOf(w) \cup why
<1>1. \A s \in DOMAIN m : s[1] \in {"name", "id"} \/ Takes(w, s)
    BY PutDomain DEF Takes
<1>2. Alone(w, m, j, mk) /\ down' = down /\ asked' = asked
    BY WritesAlone
<1> HIDE DEF m
<1>. QED  BY <1>1, <1>2, StepOwnership DEF m

(* A row that is there and free is nobody else's. *)
LEMMA FreeTakes ==
    ASSUME Types, OwnConnections, NEW w \in Worker, NEW r,
           (Exist(r, db[r]) /\ Free(w, r)) \/ WritersOf(site.conn[w], r) = {}
    PROVE  Takes(w, r)
<1>1. WritersOf(site.conn[w], r) = {}
    BY DEF Free, Blockers
<1>2. \A v \in Worker : v # w => site.conn[v] \in Connection \ {site.conn[w]}
    BY Connected DEF OwnConnections
<1>. QED  BY <1>1, <1>2 DEF Takes, WritersOf, Mine

(* A row that is seen there is the worker's own or free. *)
LEMMA SeenTakes ==
    ASSUME Types, OwnConnections, NEW w \in Worker, NEW r, Exist(r, Seen(w, r)), Free(w, r)
    PROVE  Takes(w, r)
<1>1. r \notin DOMAIN Mine(w) => Exist(r, db[r])
    BY DEF Seen, View, Mine
<1>. QED  BY <1>1, FreeTakes DEF Takes

LEMMA UpdatesOwnership ==
    ASSUME Types, OwnConnections, Ownership, NEW w \in Worker, NEW r, NEW x, NEW why, NEW j,
           Updates(w, r, x, why, j), asked' = asked,
           site.conn[w] \notin down, SameOrder(job[w], j),
           Exist(r, Seen(w, r)) => Guarded(db, Put(Mine(w), r, x), j, MarksOf(w) \cup why, Listed),
           Guarded(db, Mine(w), j, MarksOf(w) \cup why, Listed)
    PROVE  Ownership'
<1>1. CASE Exist(r, Seen(w, r))
    <2>1. Writes(w, r, x, why, j)
        BY <1>1 DEF Updates, Writes
    <2>2. Takes(w, r)
        BY <1>1, SeenTakes DEF Updates
    <2>. QED  BY <1>1, <2>1, <2>2, WritesOwnership
<1>2. CASE ~ Exist(r, Seen(w, r))
    <2>1. work = [work EXCEPT ![site.conn[w]] = work[site.conn[w]]]
        BY Connected DEF Types
    <2>2. marks' = [marks EXCEPT ![site.conn[w]] = marks[site.conn[w]] \cup why]
        BY DEF Updates, Marked
    <2>3. Alone(w, Mine(w), j, MarksOf(w) \cup why) /\ down' = down
        BY <1>2, <2>1, <2>2 DEF Updates, Becomes, Alone, Mine, MarksOf, requests
    <2>4. \A s \in DOMAIN Mine(w) : s[1] \in {"name", "id"} \/ Takes(w, s)
        BY DEF Takes
    <2>. QED  BY <2>3, <2>4, StepOwnership
<1>. QED  BY <1>1, <1>2

(* A worker that has written nothing and does nothing is guarded. *)
LEMMA NothingGuarded ==
    ASSUME NEW d, NEW listed, NEW j, NEW mk, DOMAIN j.rows \subseteq listed,
           j.at \notin Offering \cup Trading, j.kind # "place",
           j.kind = "login" => j.at = "user" /\ j.left = 0, j.at \notin {"save", "create"},
           j.at = "user" => j.kind = "login"
    PROVE  Guarded(d, NoWork, j, mk, listed)
<1>1. DOMAIN NoWork = {}
    BY DEF NoWork
<1>2. OffersOk(d, NoWork, j, listed)
    BY <1>1 DEF OffersOk
<1>3. AccountsOk(d, NoWork, j)
    BY <1>1 DEF AccountsOk, Opening
<1>4. UsersOk(d, NoWork, j, mk)
    BY <1>1 DEF UsersOk, HasUser, Keeping
<1>. QED  BY <1>2, <1>3, <1>4 DEF Guarded

LEMMA FailsOwnership ==
    ASSUME Types, OwnConnections, Ownership, NEW w \in Worker, StatementFails(w)
    PROVE  Ownership'
<1> DEFINE j == job[w]
           k == site.conn[w]
<1>1. \E u : /\ JobOk(u) /\ DOMAIN u.rows = {}
             /\ (u.kind = "none" /\ u.at = "idle") \/ (u.kind = "login" /\ u.at = "user" /\ u.left = 0)
             /\ Alone(w, NoWork, u, {})
             /\ down' \subseteq down \cup {k} /\ asked' = asked
             /\ k \in down' => u = Idle
    <2>1. j.kind = "login" => /\ JobOk(Retried(j)) /\ Retried(j).kind = "login" /\ Retried(j).at = "user"
                              /\ Retried(j).left = 0 /\ DOMAIN Retried(j).rows = {}
        <3>1. JobOk(j)
            BY DEF Types
        <3>. QED  BY ONLY <3>1, RetriedOk, Zenon
    <2>2. \/ job' = [job EXCEPT ![w] = Idle] /\ down' \subseteq down \cup {k}
          \/ j.kind = "login" /\ job' = [job EXCEPT ![w] = Retried(j)] /\ down' = down \ {k}
        BY DEF StatementFails, Becomes
    <2>3. /\ work' = [work EXCEPT ![k] = NoWork] /\ marks' = [marks EXCEPT ![k] = {}]
          /\ UNCHANGED <<site, db, spoiled, asked>>
        BY DEF StatementFails, requests
    <2>4. CASE job' = [job EXCEPT ![w] = Idle] /\ down' \subseteq down \cup {k}
        BY <2>3, <2>4, IdleOk DEF Alone
    <2>5. CASE j.kind = "login" /\ job' = [job EXCEPT ![w] = Retried(j)] /\ down' = down \ {k}
        BY <2>1, <2>3, <2>5 DEF Alone
    <2>. QED  BY <2>2, <2>4, <2>5
<1>2. PICK u : /\ JobOk(u) /\ DOMAIN u.rows = {}
               /\ (u.kind = "none" /\ u.at = "idle") \/ (u.kind = "login" /\ u.at = "user" /\ u.left = 0)
               /\ Alone(w, NoWork, u, {})
               /\ down' \subseteq down \cup {k} /\ asked' = asked
               /\ k \in down' => u = Idle
    BY <1>1
<1>3. Listed' = Listed /\ \A i \in Listed' : Living(db, Order[i].account)
    BY <1>2 DEF Listed, Ownership
<1>4. DOMAIN NoWork = {}
    BY DEF NoWork
<1>5. Guarded(db, NoWork, u, {}, Listed')
    <2>1. DOMAIN u.rows \subseteq Listed'
        BY <1>2
    <2>2. /\ u.at \notin Offering \cup Trading /\ u.kind # "place"
          /\ u.kind = "login" => u.at = "user" /\ u.left = 0
          /\ u.at \notin {"save", "create"} /\ (u.at = "user" => u.kind = "login")
        BY <1>2 DEF Offering, Trading
    <2>. QED  BY <2>1, <2>2, NothingGuarded
<1>6. u.kind # "place" /\ \A r \in DOMAIN NoWork : r[1] \in {"name", "id"} \/ Takes(w, r)
    BY <1>2, <1>4
<1>7. /\ down' \subseteq down \cup {site.conn[w]} /\ Listed \subseteq Listed'
      /\ site.conn[w] \in down' => u = Idle /\ NoWork = NoWork
    BY <1>2, <1>3
<1>. QED  BY <1>2, <1>3, <1>5, <1>6, <1>7, AloneOwnership

(* Outside of a login, what a job may have written does not depend on how  *)
(* far it is, up to its commit.                                            *)
LEMMA GoesGuarded ==
    ASSUME NEW d, NEW m, NEW j, NEW mk, NEW listed, Guarded(d, m, j, mk, listed), JobOk(j),
           NEW u, JobOk(u), NEW marked,
           j.kind # "login", u.kind # "login", j.kind = "place" => j.at # "commit",
           SameOrder(j, u),
           u.at \in Offering \cup Trading => u.row \in listed,
           DOMAIN u.rows \subseteq listed
    PROVE  Guarded(d, m, u, marked, listed)
<1>1. OffersOk(d, m, u, listed)
    BY DEF Guarded, OffersOk, HasOffer, SameOrder
<1>2. AccountsOk(d, m, u)
    BY DEF Guarded, AccountsOk, Opening
<1>3. UsersOk(d, m, u, marked)
    BY DEF Guarded, UsersOk, HasUser, Keeping, JobOk, StepOk, LoginSteps
<1>. QED  BY <1>1, <1>2, <1>3 DEF Guarded

(* A row of a contract type, a position or a name matters to nobody else.  *)
LEMMA OtherGuarded ==
    ASSUME NEW d, NEW m, NEW j, NEW mk, NEW listed, Guarded(d, m, j, mk, listed),
           NEW r, r[1] \notin {"account", "offer", "user"}, NEW x
    PROVE  Guarded(d, Put(m, r, x), j, mk, listed)
<1> DEFINE p == Put(m, r, x)
<1>1. /\ \A s : s \in DOMAIN p <=> s = r \/ s \in DOMAIN m
      /\ \A s \in DOMAIN m : s # r => p[s] = m[s]
    BY PutDomain, PutRows
<1> HIDE DEF p
<1>2. /\ \A i \in OfferId : OfferOf(i) # r
      /\ \A a \in Account : AccountRow(a) # r
      /\ \A u \in User : UserRow(u) # r
    BY RowFacts
<1>3. OffersOk(d, p, j, listed)
    BY <1>1, <1>2 DEF Guarded, OffersOk
<1>4. AccountsOk(d, p, j)
    BY <1>1, <1>2 DEF Guarded, AccountsOk
<1>5. UsersOk(d, p, j, mk)
    BY <1>1, <1>2 DEF Guarded, UsersOk
<1>. QED  BY <1>3, <1>4, <1>5 DEF Guarded, p

(* The balance of an account that is there. *)
LEMMA AccountGuarded ==
    ASSUME NEW d, NEW m, NEW j, NEW mk, NEW listed, Guarded(d, m, j, mk, listed),
           NEW a \in Account, Living(d, a), NEW x, x # Absent
    PROVE  Guarded(d, Put(m, AccountRow(a), x), j, mk, listed)
<1> DEFINE r == AccountRow(a)
           p == Put(m, r, x)
<1>1. /\ \A s : s \in DOMAIN p <=> s = r \/ s \in DOMAIN m
      /\ p[r] = x
      /\ \A s \in DOMAIN m : s # r => p[s] = m[s]
    BY PutDomain, PutRows
<1> HIDE DEF p
<1>2. /\ \A i \in OfferId : OfferOf(i) # r
      /\ \A b \in Account : AccountRow(b) = r => b = a
      /\ \A u \in User : UserRow(u) # r
    BY RowFacts
<1> HIDE DEF r
<1>3. OffersOk(d, p, j, listed)
    BY <1>1, <1>2 DEF Guarded, OffersOk
<1>4. AccountsOk(d, p, j)
    BY <1>1, <1>2 DEF Guarded, AccountsOk
<1>5. UsersOk(d, p, j, mk)
    BY <1>1, <1>2 DEF Guarded, UsersOk
<1>. QED  BY <1>3, <1>4, <1>5 DEF Guarded, p, r

(* An offer that is there, or the order's own. *)
LEMMA OfferGuarded ==
    ASSUME NEW d, NEW m, NEW j, NEW mk, NEW listed, Guarded(d, m, j, mk, listed),
           NEW i \in OfferId, i \in listed, d[OfferOf(i)] # 0 \/ HasOffer(j, i), NEW x
    PROVE  Guarded(d, Put(m, OfferOf(i), x), j, mk, listed)
<1> DEFINE r == OfferOf(i)
           p == Put(m, r, x)
<1>1. /\ \A s : s \in DOMAIN p <=> s = r \/ s \in DOMAIN m
      /\ \A s \in DOMAIN m : s # r => p[s] = m[s]
    BY PutDomain, PutRows
<1> HIDE DEF p
<1>2. /\ \A a \in Account : AccountRow(a) # r
      /\ \A k \in OfferId : OfferOf(k) = r => k = i
      /\ \A u \in User : UserRow(u) # r
    BY RowFacts
<1>3. OffersOk(d, p, j, listed)
    BY <1>1, <1>2 DEF Guarded, OffersOk
<1> HIDE DEF r
<1>4. AccountsOk(d, p, j)
    BY <1>1, <1>2 DEF Guarded, AccountsOk
<1>5. UsersOk(d, p, j, mk)
    BY <1>1, <1>2 DEF Guarded, UsersOk
<1>. QED  BY <1>3, <1>4, <1>5 DEF Guarded, p, r

(* What an owned row shows to the worker. *)
LEMMA SeesAccounts ==
    ASSUME Types, Ownership, NEW w \in Worker, NEW a \in Account, Living(db, a)
    PROVE  Seen(w, AccountRow(a)) \in Nat /\ Exist(AccountRow(a), db[AccountRow(a)])
<1>1. AccountRow(a) \in Row /\ AccountRow(a)[1] = "account"
    BY RowFacts
<1>2. Seen(w, AccountRow(a)) \in Nat \cup {Absent}
    BY <1>1, SeenOk DEF ValueOk
<1>3. Seen(w, AccountRow(a)) # Absent
    BY DEF Ownership, Guarded, AccountsOk, Seen, View, Mine, Living
<1>4. Exist(AccountRow(a), db[AccountRow(a)])
    BY <1>1 DEF Exist, Living
<1>. QED  BY <1>2, <1>3, <1>4

LEMMA SeesOffers ==
    ASSUME Types, Ownership, NEW w \in Worker, NEW i \in OfferId, Seen(w, OfferOf(i)) # 0
    PROVE  i \in Listed /\ (db[OfferOf(i)] # 0 \/ HasOffer(job[w], i))
BY DEF Ownership, Guarded, OffersOk, Seen, View, Mine

(* An operation that raises leaves its rows behind. *)
LEMMA RaisesOwnership ==
    ASSUME Types, OwnConnections, Ownership, NEW w \in Worker, HandlerRaises(w),
           site.conn[w] \notin down, job[w].kind # "login",
           job[w].kind = "place" => job[w].at # "commit"
    PROVE  Ownership'
<1> DEFINE j == job[w]
<1>1. PICK marked : marks' = [marks EXCEPT ![site.conn[w]] = marked]
    BY DEF HandlerRaises, Marked
<1>2. work = [work EXCEPT ![site.conn[w]] = work[site.conn[w]]]
    BY Connected DEF Types
<1>3. Alone(w, Mine(w), Idle, marked) /\ down' = down /\ asked' = asked
    BY <1>1, <1>2 DEF HandlerRaises, Becomes, Alone, Mine, MarksOf, requests
<1>4. Guarded(db, Mine(w), j, MarksOf(w), Listed) /\ JobOk(j)
    BY DEF Ownership, Types
<1>5. SameOrder(j, Idle) /\ Idle.kind # "login" /\ Idle.at \notin Offering \cup Trading
    BY IdleOk DEF SameOrder, Offering, Trading
<1>6. Guarded(db, Mine(w), Idle, marked, Listed)
    BY <1>4, <1>5, IdleOk, GoesGuarded
<1>7. \A r \in DOMAIN Mine(w) : r[1] \in {"name", "id"} \/ Takes(w, r)
    BY DEF Takes
<1>. QED  BY <1>3, <1>5, <1>6, <1>7, StepOwnership

(* A statement on any row but an account, an offer or a user's. *)
LEMMA OtherOwnership ==
    ASSUME Types, OwnConnections, Ownership, NEW w \in Worker,
           NEW r, r[1] \notin {"account", "offer", "user"}, NEW x, NEW why, NEW u, JobOk(u),
           Writes(w, r, x, why, u), site.conn[w] \notin down, r[1] \in {"name", "id"} \/ Takes(w, r),
           SameOrder(job[w], u), Guarded(db, Mine(w), u, MarksOf(w) \cup why, Listed)
    PROVE  Ownership'
BY OtherGuarded, WritesOwnership

(* A search goes on to the first of the offers that it has found. *)
LEMMA SearchOwnership ==
    ASSUME Types, OwnConnections, Ownership, NEW w \in Worker,
           NEW i, Looping(i), i.kind = job[w].kind, i.id = job[w].id,
           NEW rows, Rows(rows), DOMAIN rows \subseteq Listed, Reads(w, Aim(i, rows)),
           job[w].at \in {"match", "find", "clean"}, site.conn[w] \notin down
    PROVE  Ownership'
<1> DEFINE j == job[w]
           m == Mine(w)
           mk == MarksOf(w)
           u == Aim(i, rows)
<1>1. JobOk(j) /\ Guarded(db, m, j, mk, Listed)
    BY DEF Types, Ownership
<1>2. j.kind # "login" /\ (j.kind = "place" => j.at # "commit")
    BY <1>1 DEF JobOk, StepOk
<1>3. /\ JobOk(u)
      /\ u.kind = i.kind /\ u.id = i.id /\ u.left = i.left /\ u.got = i.got
      /\ u.half = i.half /\ u.due = i.due
      /\ DOMAIN rows = {} => u.at = After(i.kind) /\ DOMAIN u.rows = {}
      /\ DOMAIN rows # {} =>
           /\ u.at = "read" /\ u.rows = rows /\ u.row \in DOMAIN rows
           /\ u.n = Min({i.left, rows[u.row]})
    BY ONLY Looping(i), Rows(rows), AimOk, Zenon
<1> HIDE DEF u
<1>4. SameOrder(j, u) /\ DOMAIN u.rows \subseteq Listed
      /\ (u.at \in Offering \cup Trading => u.row \in Listed)
    BY <1>3 DEF SameOrder, After, Offering, Trading
<1>5. Guarded(db, m, u, mk, Listed)
    BY <1>1, <1>2, <1>3, <1>4, GoesGuarded
<1>. QED  BY <1>4, <1>5, ReadsOwnership DEF u

(* What a search finds is listed. *)
LEMMA FoundListed ==
    ASSUME Types, Ownership, NEW w \in Worker, NEW ids \in SUBSET OfferId
    PROVE  Existing(w, ids) \subseteq Listed /\ DOMAIN Found(w, ids) \subseteq Listed
<1>1. Existing(w, ids) \subseteq Listed
    BY SeesOffers DEF Existing
<1>. QED  BY <1>1 DEF Found

LEMMA MatchingOwnership ==
    ASSUME Types, OwnConnections, Ownership, NEW w \in Worker, Matching(w)
    PROVE  Ownership'
<1> DEFINE j == job[w]
           m == Mine(w)
           mk == MarksOf(w)
<1>1. JobOk(j) /\ Guarded(db, m, j, mk, Listed) /\ DOMAIN j.rows \subseteq Listed
      /\ (j.at \in Offering \cup Trading => j.row \in Listed)
    BY DEF Types, Ownership, Guarded, OffersOk
<1>2. j.at \in {"lookup", "match", "find"} \cup Offering \cup Trading =>
        j.kind # "login" /\ j.at # "commit"
    BY <1>1 DEF JobOk, StepOk, Offering, Trading
<1>3. CASE Lookup(w)
    <2> DEFINE x == IF j.kind = "place" THEN "match" ELSE "find"
               c == IF j.kind = "place" THEN Order[j.id].ct ELSE j.id
               u == [j EXCEPT !.at = x]
    <2>1. Goes(j, x) /\ j.at = "lookup" /\ site.conn[w] \notin down
        BY <1>3 DEF Goes, Lookup, At
    <2>2. /\ JobOk(u) /\ u.at = x
          /\ u.kind = j.kind /\ u.id = j.id /\ u.left = j.left /\ u.rows = j.rows
          /\ u.row = j.row /\ u.n = j.n /\ u.got = j.got /\ u.half = j.half /\ u.due = j.due
        BY <1>1, <2>1, GoesOk
    <2>3. c \in ContractType
        BY <1>1, <1>3, Quantities DEF Lookup, At, JobOk, StepOk, ValuesOk
    <2>4. TypeRow(c)[1] = "type" /\ Exist(TypeRow(c), db[TypeRow(c)])
        BY <2>3, RowFacts DEF Exist
    <2>5. Writes(w, TypeRow(c), 1, {}, u) /\ Free(w, TypeRow(c))
        BY <1>3 DEF Lookup
    <2>6. Takes(w, TypeRow(c))
        BY <2>4, <2>5, FreeTakes
    <2> HIDE DEF u
    <2>7. SameOrder(j, u) /\ u.at \notin Offering \cup Trading /\ DOMAIN u.rows \subseteq Listed
        BY <1>1, <2>2 DEF SameOrder, Offering, Trading
    <2>8. Guarded(db, m, u, mk \cup {}, Listed)
        BY <1>1, <1>2, <2>1, <2>2, <2>7, GoesGuarded
    <2>. QED  BY <2>1, <2>2, <2>4, <2>5, <2>6, <2>7, <2>8, OtherOwnership
<1>5. CASE Match(w)
    <2> DEFINE ids == {i \in OfferId : Crossing(Order[j.id], Order[i])}
    <2>1. j.at = "match" /\ site.conn[w] \notin down /\ Reads(w, Aim(j, Found(w, ids)))
        BY <1>5 DEF Match, At
    <2>2. Looping(j) /\ Rows(Found(w, ids)) /\ DOMAIN Found(w, ids) \subseteq Listed
        BY <1>1, <2>1, LoopingOk, FoundRows, FoundListed
    <2>. QED  BY <2>1, <2>2, SearchOwnership
<1>7. CASE ReadOffer(w)
    <2> DEFINE q == Seen(w, OfferOf(j.row))
               n == IF j.kind = "place" THEN j.n ELSE q
               u == [j EXCEPT !.at = "refund", !.got = q, !.n = n]
    <2>1. j.at = "read" /\ site.conn[w] \notin down
        BY <1>7 DEF ReadOffer, At
    <2>2. CASE HandlerRaises(w)
        BY <1>2, <2>1, <2>2, RaisesOwnership DEF Offering
    <2>3. CASE q # 0 /\ ~ (n > q) /\ Reads(w, u)
        <3>1. j.row \in OfferId /\ j.n \in Int /\ j.row \in Listed
            BY <1>1, <2>1 DEF JobOk, ValuesOk, FieldsOk, Offering
        <3>2. q \in 0..Order[j.row].quantity
            BY <3>1, RowFacts, SeenOk DEF ValueOk
        <3>3. q \in 1..Order[j.row].quantity /\ n \in Int /\ n <= q
            BY <2>3, <3>1, <3>2, Quantities
        <3>4. n = (IF j.kind = "place" THEN j.n ELSE q) /\ JobOk(j)
            BY <1>1
        <3> HIDE DEF n, q
        <3>5. /\ JobOk(u) /\ u.at = "refund" /\ u.got = q /\ u.n = n
              /\ u.kind = j.kind /\ u.id = j.id /\ u.left = j.left /\ u.rows = j.rows
              /\ u.row = j.row /\ u.half = j.half /\ u.due = j.due
            <4>1. JobOk(u)
                BY <2>1, <3>3, <3>4, ReadOfferOk
            <4>. QED  BY <3>4, <4>1 DEF JobOk, IsJob
        <3> HIDE DEF u
        <3>6. SameOrder(j, u) /\ u.row \in Listed /\ DOMAIN u.rows \subseteq Listed
            BY <1>1, <3>1, <3>5 DEF SameOrder
        <3>7. Guarded(db, m, u, mk \cup {}, Listed)
            BY <1>1, <1>2, <2>1, <3>5, <3>6, GoesGuarded DEF Offering
        <3>. QED  BY <2>1, <2>3, <3>6, <3>7, ReadsOwnership DEF u
    <2>. QED  BY <1>7, <2>2, <2>3 DEF ReadOffer
<1>8. CASE Refund(w)
    <2> DEFINE o == Order[j.row]
               r == AccountRow(o.account)
               x == Seen(w, r) + Cost(o.side, o.price, j.n)
               u == [j EXCEPT !.at = "shrink"]
    <2>1. j.at = "refund" /\ site.conn[w] \notin down /\ Free(w, r) /\ Writes(w, r, x, {}, u)
        BY <1>8 DEF Refund, At
    <2>2. j.row \in OfferId /\ j.n \in Int /\ j.n >= 0 /\ j.row \in Listed
        BY <1>1, <2>1 DEF JobOk, ValuesOk, FieldsOk, Offering
    <2>3. Goes(j, "shrink")
        BY <2>1 DEF Goes
    <2>4. /\ JobOk(u) /\ u.at = "shrink"
          /\ u.kind = j.kind /\ u.id = j.id /\ u.left = j.left /\ u.rows = j.rows
          /\ u.row = j.row /\ u.n = j.n /\ u.got = j.got /\ u.half = j.half /\ u.due = j.due
        BY ONLY <1>1, <2>3, GoesOk, Zenon
    <2>5. o.account \in Account /\ Living(db, o.account)
        BY <2>2, Quantities DEF Ownership
    <2>6. Seen(w, r) \in Nat /\ Exist(r, db[r])
        BY <2>5, SeesAccounts
    <2>7. Cost(o.side, o.price, j.n) \in Nat
        BY <2>2, CostType
    <2>8. x # Absent /\ Takes(w, r)
        BY <2>1, <2>6, <2>7, FreeTakes DEF Absent
    <2> HIDE DEF u, x
    <2>9. SameOrder(j, u) /\ u.row \in Listed /\ DOMAIN u.rows \subseteq Listed
        BY <1>1, <2>2, <2>4 DEF SameOrder
    <2>10. Guarded(db, m, u, mk \cup {}, Listed)
        BY <1>1, <1>2, <2>1, <2>4, <2>9, GoesGuarded DEF Offering
    <2>11. Guarded(db, Put(m, r, x), u, mk \cup {}, Listed)
        BY <2>5, <2>8, <2>10, AccountGuarded
    <2>. QED  BY <2>1, <2>8, <2>9, <2>11, WritesOwnership
<1>9. CASE Shrink(w)
    <2> DEFINE r == OfferOf(j.row)
               u == IF j.kind = "place" THEN [j EXCEPT !.at = "side", !.half = FIXED]
                    ELSE NextRow(j)
               why == StaleIf(Seen(w, r) # j.got, "offer")
    <2>1. j.at = "shrink" /\ site.conn[w] \notin down /\ Free(w, r)
        BY <1>9 DEF Shrink, At
    <2>2. CASE HandlerRaises(w)
        BY <1>2, <2>1, <2>2, RaisesOwnership DEF Offering
    <2>3. ASSUME Writes(w, r, j.got - j.n, why, u), Exist(r, Seen(w, r))
          PROVE  Ownership'
        <3>1. j.row \in OfferId /\ j.row \in Listed
            BY <1>1, <2>1 DEF JobOk, ValuesOk, Offering
        <3>2. db[r] # 0
            <4>1. Seen(w, r) # 0
                BY <2>3, <3>1, RowFacts DEF Exist
            <4>. QED  BY <2>1, <3>1, <4>1, SeesOffers DEF HasOffer
        <3>3. Takes(w, r)
            BY <2>1, <2>3, SeenTakes
        <3>4. /\ JobOk(u) /\ SameOrder(j, u) /\ u.kind # "login"
              /\ DOMAIN u.rows \subseteq Listed /\ (u.at \in Offering \cup Trading => u.row \in Listed)
            <4>1. CASE j.kind = "place"
                <5> DEFINE y == [j EXCEPT !.at = "side", !.half = FIXED]
                <5>1. /\ JobOk(y) /\ y.at = "side" /\ y.half = FIXED
                      /\ y.kind = j.kind /\ y.id = j.id /\ y.left = j.left /\ y.rows = j.rows
                      /\ y.row = j.row /\ y.n = j.n /\ y.got = j.got /\ y.due = j.due
                    BY <1>1, <2>1, <4>1, ShrunkOk
                <5>2. u = y
                    BY <4>1
                <5> HIDE DEF u, y
                <5>. QED  BY <1>1, <3>1, <4>1, <5>1, <5>2 DEF SameOrder
            <4>2. CASE j.kind # "place"
                <5> DEFINE y == NextRow(j)
                           rest == DOMAIN j.rows \ {j.row}
                <5>1. Looping(j)
                    BY <1>1, <2>1, LoopingOk DEF Offering
                <5>2. /\ JobOk(y)
                      /\ y.kind = j.kind /\ y.id = j.id /\ y.left = j.left /\ y.got = j.got
                      /\ y.half = j.half /\ y.due = j.due
                      /\ rest = {} => y.at = After(j.kind) /\ DOMAIN y.rows = {}
                      /\ rest # {} => /\ y.at = "read" /\ DOMAIN y.rows = rest
                                      /\ \A i \in rest : y.rows[i] = j.rows[i]
                                      /\ y.row \in rest /\ y.n = Min({j.left, j.rows[y.row]})
                    BY ONLY <5>1, NextRowOk, Zenon
                <5>3. u = y
                    BY <4>2
                <5> HIDE DEF u, y
                <5>4. j.kind # "login" /\ After(j.kind) \in {"commit", "filter"}
                    BY <1>2, <2>1, <4>2 DEF Offering, After
                <5>. QED  BY <1>1, <4>2, <5>2, <5>3, <5>4 DEF SameOrder, Offering, Trading
            <4>. QED  BY <4>1, <4>2
        <3> HIDE DEF u, why
        <3>5. Guarded(db, m, u, mk \cup why, Listed)
            BY <1>1, <1>2, <2>1, <3>4, GoesGuarded DEF Offering
        <3>6. Guarded(db, Put(m, r, j.got - j.n), u, mk \cup why, Listed)
            BY <3>1, <3>2, <3>5, OfferGuarded
        <3>. QED  BY <2>1, <2>3, <3>3, <3>4, <3>6, WritesOwnership
    <2>. QED  BY <1>9, <2>2, <2>3 DEF Shrink
<1>. QED  BY <1>3, <1>5, <1>7, <1>8, <1>9 DEF Matching

LEMMA SweepingOwnership ==
    ASSUME Types, OwnConnections, Ownership, NEW w \in Worker, Sweeping(w)
    PROVE  Ownership'
<1> DEFINE j == job[w]
           m == Mine(w)
           mk == MarksOf(w)
<1>1. JobOk(j) /\ Guarded(db, m, j, mk, Listed) /\ DOMAIN j.rows \subseteq Listed
    BY DEF Types, Ownership, Guarded, OffersOk
<1>2. CASE Find(w)
    <2>1. j.at = "find" /\ site.conn[w] \notin down /\ Reads(w, Aim(j, Found(w, Expiring)))
        BY <1>2 DEF Find, At
    <2>2. Expiring \in SUBSET OfferId
        BY DEF Expiring
    <2>3. /\ Looping(j) /\ Rows(Found(w, Expiring))
          /\ DOMAIN Found(w, Expiring) \subseteq Listed
        BY <1>1, <2>1, <2>2, LoopingOk, FoundRows, FoundListed
    <2>. QED  BY <2>1, <2>3, SearchOwnership
<1>3. CASE Filter(w)
    <2> DEFINE ids == Existing(w, {i \in OfferId : Order[i].ct = j.id})
               u == [j EXCEPT !.at = "commit", !.rows = [i \in ids |-> 1]]
    <2>1. /\ j.at = "filter" /\ site.conn[w] \notin down /\ Reads(w, u)
          /\ ids \in SUBSET OfferId /\ ids \subseteq Listed
        BY <1>3, FoundListed DEF Filter, At, Existing
    <2>2. /\ JobOk(u) /\ u.at = "commit"
          /\ u.kind = j.kind /\ u.id = j.id /\ u.left = j.left
          /\ u.row = j.row /\ u.n = j.n /\ u.got = j.got /\ u.half = j.half /\ u.due = j.due
        BY <1>1, <2>1, FilteredOk
    <2>3. DOMAIN u.rows = ids
        BY <1>1 DEF JobOk, IsJob
    <2> HIDE DEF u, ids
    <2>4. j.kind \in {"resolve", "final"}
        BY <1>1, <2>1 DEF JobOk, StepOk
    <2>5. SameOrder(j, u) /\ DOMAIN u.rows \subseteq Listed /\ u.at \notin Offering \cup Trading
        BY <2>1, <2>2, <2>3 DEF SameOrder, Offering, Trading
    <2>6. Guarded(db, m, u, mk, Listed)
        BY <1>1, <2>2, <2>4, <2>5, GoesGuarded
    <2>. QED  BY <2>1, <2>5, <2>6, ReadsOwnership
<1>4. CASE Clean(w)
    <2>1. PICK u : j.at = "clean" /\ Reads(w, u) /\ Cleaned(w, u)
        BY <1>4, CleanRows
    <2>2. PICK n \in Int : \E rows : /\ Rows(rows)
                                    /\ DOMAIN rows \subseteq DOMAIN j.rows \cup Existing(w, OfferId)
                                    /\ u = Aim([j EXCEPT !.left = n], rows)
        BY <2>1, Zenon DEF Cleaned
    <2>3. PICK rows : /\ Rows(rows)
                      /\ DOMAIN rows \subseteq DOMAIN j.rows \cup Existing(w, OfferId)
                      /\ u = Aim([j EXCEPT !.left = n], rows)
        BY <2>2
    <2> DEFINE i == [j EXCEPT !.left = n]
    <2>4. Looping(i) /\ i.kind = j.kind /\ i.id = j.id
        BY <1>1, <2>1, CleaningOk
    <2>5. DOMAIN rows \subseteq Listed
        BY <1>1, <2>3, FoundListed
    <2>6. Reads(w, Aim(i, rows)) /\ site.conn[w] \notin down
        BY <1>4, <2>1, <2>3 DEF Clean, At
    <2> HIDE DEF i
    <2>. QED  BY <2>1, <2>3, <2>4, <2>5, <2>6, SearchOwnership
<1>5. CASE SweepRaises(w)
    <2>1. j.at = "commit" /\ site.conn[w] \notin down /\ HandlerRaises(w) /\ j.kind \in {"clear", "last"}
        BY <1>5 DEF SweepRaises, At, ListedTwice
    <2>. QED  BY <2>1, RaisesOwnership
<1>. QED  BY <1>2, <1>3, <1>4, <1>5 DEF Sweeping

(* A debit of an account that is there. *)
LEMMA PaysOwnership ==
    ASSUME Types, OwnConnections, Ownership, NEW w \in Worker, NEW a \in Account, Living(db, a),
           NEW amount \in Int, NEW u, JobOk(u), Pays(w, a, amount, u),
           site.conn[w] \notin down, SameOrder(job[w], u),
           Guarded(db, Mine(w), u, MarksOf(w) \cup {}, Listed)
    PROVE  Ownership'
<1> DEFINE r == AccountRow(a)
           x == Seen(w, r) - amount
<1>1. Seen(w, r) \in Nat /\ Exist(r, db[r])
    BY SeesAccounts
<1>2. CASE StatementFails(w)
    BY <1>2, FailsOwnership
<1>3. CASE Seen(w, r) >= amount /\ Writes(w, r, x, {}, u)
    <2>1. x # Absent /\ Takes(w, r)
        BY <1>1, <1>3, FreeTakes DEF Pays, Absent
    <2> HIDE DEF x
    <2>2. Guarded(db, Put(Mine(w), r, x), u, MarksOf(w) \cup {}, Listed)
        BY <2>1, AccountGuarded
    <2>. QED  BY <1>3, <2>1, <2>2, WritesOwnership
<1>. QED  BY <1>1, <1>2, <1>3 DEF Pays

LEMMA ContractingOwnership ==
    ASSUME Types, OwnConnections, Ownership, NEW w \in Worker, Contracting(w)
    PROVE  Ownership'
<1> DEFINE j == job[w]
           m == Mine(w)
           mk == MarksOf(w)
<1>1. JobOk(j) /\ Guarded(db, m, j, mk, Listed) /\ DOMAIN j.rows \subseteq Listed
      /\ (j.at \in Offering \cup Trading => j.row \in Listed)
      /\ (j.kind = "place" => j.id \in Listed /\ db[OfferOf(j.id)] = 0)
    BY DEF Types, Ownership, Guarded, OffersOk
<1>2. ASSUME j.at \in Trading
      PROVE  /\ j.kind = "place" /\ j.id \in OfferId /\ j.row \in OfferId /\ j.got \in Int
             /\ Units(j) \in Int /\ HolderRow(j) \in Row /\ HolderRow(j)[1] = "position"
             /\ j.due[FIXED] \in Int /\ j.due[UNFIXED] \in Int
             /\ Holder(j, FIXED) \in Account /\ Holder(j, UNFIXED) \in Account
             /\ Living(db, Holder(j, FIXED)) /\ Living(db, Holder(j, UNFIXED))
    <2>1. /\ j.kind = "place" /\ j.id \in OfferId /\ j.row \in OfferId /\ j.got \in Int
          /\ Units(j) \in Int /\ HolderRow(j) \in Row /\ HolderRow(j)[1] = "position"
          /\ j.due[FIXED] \in Int /\ j.due[UNFIXED] \in Int
          /\ Holder(j, FIXED) \in Account /\ Holder(j, UNFIXED) \in Account
        BY <1>1, <1>2, Holders DEF Side
    <2>2. Living(db, Order[j.id].account) /\ Living(db, Order[j.row].account)
        BY <1>1, <1>2, <2>1 DEF Ownership
    <2>. QED  BY <2>1, <2>2 DEF Holder
<1>3. j.at \in {"rest", "insert"} => j.kind = "place" /\ j.id \in OfferId /\ j.left \in Int
                                      /\ j.left \in 1..Order[j.id].quantity
    BY <1>1 DEF JobOk, StepOk, ValuesOk, FieldsOk
<1>4. ASSUME NEW u, JobOk(u), u.kind = j.kind, u.id = j.id, u.at \in Trading => u.row = j.row,
             u.at \in Offering => u.row \in Listed, j.at # "commit",
             DOMAIN u.rows \subseteq DOMAIN j.rows, j.kind = "place",
             u.at \in Trading => j.at \in Trading
      PROVE  SameOrder(j, u) /\ \A why : Guarded(db, m, u, mk \cup why, Listed)
    <2>1. SameOrder(j, u) /\ (u.at \in Offering \cup Trading => u.row \in Listed)
          /\ DOMAIN u.rows \subseteq Listed
        BY <1>1, <1>4 DEF SameOrder
    <2>. QED  BY <1>1, <1>4, <2>1, GoesGuarded
<1>5. CASE ReadSide(w)
    <2> DEFINE q == Seen(w, HolderRow(j))
               u == [j EXCEPT !.at = "store", !.got = q]
    <2>1. j.at = "side" /\ j.at \in Trading /\ site.conn[w] \notin down /\ Reads(w, u)
        BY <1>5 DEF ReadSide, At, Trading
    <2>2. q \in Int
        BY <1>2, <2>1, SeenOk DEF ValueOk
    <2>3. /\ JobOk(u) /\ u.at = "store" /\ u.got = q
          /\ u.kind = j.kind /\ u.id = j.id /\ u.left = j.left /\ u.rows = j.rows
          /\ u.row = j.row /\ u.n = j.n /\ u.half = j.half /\ u.due = j.due
        BY ONLY <1>1, <2>1, <2>2, ReadSideOk, Zenon
    <2> HIDE DEF u
    <2>4. SameOrder(j, u) /\ Guarded(db, m, u, mk \cup {}, Listed)
        BY <1>2, <1>4, <2>1, <2>3 DEF Offering
    <2>. QED  BY <2>1, <2>4, ReadsOwnership
<1>6. ASSUME j.at = "store"
      PROVE  /\ JobOk(Stored(j)) /\ SameOrder(j, Stored(j))
             /\ \A why : Guarded(db, m, Stored(j), mk \cup why, Listed)
             /\ HolderRow(j)[1] \notin {"account", "offer", "user"}
    <2> DEFINE u == Stored(j)
    <2>1. j.at \in Trading
        BY <1>6 DEF Trading
    <2>2. /\ JobOk(u)
          /\ u.at = (IF j.half = FIXED THEN "side" ELSE "debit")
          /\ u.half = (IF j.half = FIXED THEN UNFIXED ELSE FIXED)
          /\ u.due[j.half] = Cost(j.half, Order[j.id].price, j.n)
                               - Unit * Covered(j.got, Units(j))
          /\ \A s \in Side : s # j.half => u.due[s] = j.due[s]
          /\ u.kind = j.kind /\ u.id = j.id /\ u.left = j.left /\ u.rows = j.rows
          /\ u.row = j.row /\ u.n = j.n /\ u.got = j.got
        BY ONLY <1>1, <1>6, StoredOk, Zenon
    <2> HIDE DEF u
    <2>3. SameOrder(j, u) /\ \A why : Guarded(db, m, u, mk \cup why, Listed)
        BY <1>2, <1>4, <1>6, <2>1, <2>2 DEF Offering
    <2>. QED  BY <1>2, <2>1, <2>2, <2>3 DEF u
<1>7. CASE InsertSide(w)
    <2> DEFINE r == HolderRow(j)
    <2>1. j.at = "store" /\ site.conn[w] \notin down /\ WritersOf(site.conn[w], r) = {}
        BY <1>7 DEF InsertSide, At
    <2>2. CASE StatementFails(w)
        BY <2>2, FailsOwnership
    <2>3. ASSUME ~ StatementFails(w)
          PROVE  Ownership'
        <3> DEFINE s == IdRow(Order[j.id].ct, Holder(j, j.half))
                   p == Put(m, s, Seen(w, s) + 1)
                   q == Put(p, r, Units(j))
        <3>1. Lays(w, q, {}, Stored(j))
            BY <1>7, <2>3, InsertLays DEF Mine
        <3>2. s[1] = "id"
            BY <1>1, <2>1, Holders, Quantities, RowFacts DEF Trading
        <3>3. Takes(w, r)
            BY <2>1, FreeTakes
        <3>4. \A x : x \in DOMAIN q => x = r \/ x = s \/ x \in DOMAIN m
            BY PutDomain
        <3>5. \A x \in DOMAIN q : x[1] \in {"name", "id"} \/ Takes(w, x)
            BY <3>2, <3>3, <3>4 DEF Takes
        <3>6. Guarded(db, p, Stored(j), mk \cup {}, Listed)
            BY <1>6, <2>1, <3>2, OtherGuarded
        <3> HIDE DEF p
        <3>7. Guarded(db, q, Stored(j), mk \cup {}, Listed)
            BY <1>6, <2>1, <3>6, OtherGuarded
        <3> HIDE DEF q
        <3>. QED  BY <1>6, <2>1, <3>1, <3>5, <3>7, LaysOwnership
    <2>. QED  BY <2>2, <2>3
<1>8. CASE UpdateSide(w)
    <2> DEFINE r == HolderRow(j)
               x == j.got + Units(j)
               why == StaleIf(Seen(w, r) # j.got, "position")
    <2>1. j.at = "store" /\ site.conn[w] \notin down /\ Updates(w, r, x, why, Stored(j)) /\ asked' = asked
        BY <1>8 DEF UpdateSide, At, Updates, requests
    <2> HIDE DEF why
    <2>2. Guarded(db, Put(m, r, x), Stored(j), mk \cup why, Listed)
        BY <1>6, <2>1, OtherGuarded
    <2>. QED  BY <1>6, <2>1, <2>2, UpdatesOwnership
<1>9. CASE DebitFixed(w)
    <2> DEFINE u == [j EXCEPT !.half = UNFIXED]
    <2>1. j.at = "debit" /\ j.at \in Trading /\ site.conn[w] \notin down
          /\ Pays(w, Holder(j, FIXED), j.due[FIXED], u)
        BY <1>9 DEF DebitFixed, At, Trading
    <2>2. /\ JobOk(u) /\ u.half = UNFIXED
          /\ u.kind = j.kind /\ u.at = j.at /\ u.id = j.id /\ u.left = j.left
          /\ u.rows = j.rows /\ u.row = j.row /\ u.n = j.n /\ u.got = j.got /\ u.due = j.due
        BY ONLY <1>1, <2>1, DebitedOk, Zenon
    <2> HIDE DEF u
    <2>3. SameOrder(j, u) /\ Guarded(db, m, u, mk \cup {}, Listed)
        BY <1>2, <1>4, <2>1, <2>2 DEF Offering
    <2>. QED  BY <1>2, <2>1, <2>2, <2>3, PaysOwnership
<1>10. CASE DebitUnfixed(w)
    <2> DEFINE a == Holder(j, UNFIXED)
               r == AccountRow(a)
               x == Seen(w, r) - j.due[UNFIXED]
               u == Contracted(j)
               rest == DOMAIN j.rows \ {j.row}
    <2>1. j.at = "debit" /\ j.at \in Trading /\ site.conn[w] \notin down /\ Free(w, r)
        BY <1>10 DEF DebitUnfixed, At, Trading
    <2>2. /\ JobOk(u)
          /\ u.kind = j.kind /\ u.id = j.id /\ u.got = j.got
          /\ u.half = j.half /\ u.due = j.due
          /\ j.left = j.n => u.at = "commit" /\ u.left = j.left
          /\ j.left # j.n =>
               /\ u.left = j.left - j.n
               /\ rest = {} => u.at = "rest" /\ DOMAIN u.rows = {}
               /\ rest # {} => /\ u.at = "read" /\ DOMAIN u.rows = rest
                               /\ \A i \in rest : u.rows[i] = j.rows[i]
                               /\ u.row \in rest
                               /\ u.n = Min({u.left, j.rows[u.row]})
        BY ONLY <1>1, <2>1, ContractedOk, Zenon
    <2>3. j.left = j.n => u.rows = j.rows
        BY <1>1 DEF Contracted, JobOk, IsJob
    <2> HIDE DEF u
    <2>4. /\ u.at \in {"commit", "rest", "read"} /\ DOMAIN u.rows \subseteq DOMAIN j.rows
          /\ u.at = "read" => u.row \in DOMAIN j.rows
        BY <2>2, <2>3
    <2>5. SameOrder(j, u) /\ Guarded(db, m, u, mk \cup {}, Listed)
        BY <1>1, <1>2, <1>4, <2>1, <2>2, <2>4 DEF Offering, Trading
    <2>6. CASE StatementFails(w)
        BY <2>6, FailsOwnership
    <2>7. CASE Seen(w, r) >= j.due[UNFIXED] /\ Writes(w, r, x, {}, u)
        <3>1. a \in Account /\ Living(db, a) /\ j.due[UNFIXED] \in Int
            BY <1>2, <2>1
        <3>2. Seen(w, r) \in Nat /\ Exist(r, db[r])
            BY <3>1, SeesAccounts
        <3>3. x # Absent /\ Takes(w, r)
            BY <2>1, <2>7, <3>1, <3>2, FreeTakes DEF Absent
        <3> HIDE DEF x
        <3>4. Guarded(db, Put(m, r, x), u, mk \cup {}, Listed)
            BY <2>5, <3>1, <3>3, AccountGuarded
        <3>. QED  BY <2>1, <2>5, <2>7, <3>3, <3>4, WritesOwnership
    <2>8. Seen(w, r) \in Int /\ j.due[UNFIXED] \in Int
        BY <1>2, <2>1, SeesAccounts
    <2>. QED  BY <1>10, <2>6, <2>7, <2>8 DEF DebitUnfixed, u
<1>11. CASE Rest(w)
    <2> DEFINE o == Order[j.id]
               u == [j EXCEPT !.at = "insert"]
               c == Cost(o.side, o.price, j.left)
    <2>1. j.at = "rest" /\ site.conn[w] \notin down /\ Pays(w, o.account, c, u)
        BY <1>11 DEF Rest, At
    <2>2. Goes(j, "insert") /\ j.id \in OfferId /\ j.left \in Int /\ j.kind = "place"
        BY <1>3, <2>1 DEF Goes
    <2>3. /\ JobOk(u) /\ u.at = "insert"
          /\ u.kind = j.kind /\ u.id = j.id /\ u.left = j.left /\ u.rows = j.rows
          /\ u.row = j.row /\ u.n = j.n /\ u.got = j.got /\ u.half = j.half /\ u.due = j.due
        BY ONLY <1>1, <2>2, GoesOk, Zenon
    <2> HIDE DEF u
    <2>4. o.account \in Account /\ c \in Int /\ Living(db, o.account)
        BY <1>1, <2>2, Quantities, CostType DEF Ownership
    <2>5. SameOrder(j, u) /\ Guarded(db, m, u, mk \cup {}, Listed)
        BY <1>4, <2>1, <2>2, <2>3 DEF Offering, Trading
    <2>. QED  BY <2>1, <2>3, <2>4, <2>5, PaysOwnership
<1>12. CASE InsertOffer(w)
    <2> DEFINE r == OfferOf(j.id)
               u == [j EXCEPT !.at = "commit"]
    <2>0. CASE StatementFails(w)
        BY <2>0, FailsOwnership
    <2>1. j.at = "insert" /\ site.conn[w] \notin down
          /\ (~ StatementFails(w) => Writes(w, r, j.left, {}, u))
        BY <1>12 DEF InsertOffer, At
    <2>2. Goes(j, "commit") /\ j.id \in OfferId /\ j.kind = "place"
        BY <1>3, <2>1 DEF Goes
    <2>3. /\ JobOk(u) /\ u.at = "commit"
          /\ u.kind = j.kind /\ u.id = j.id /\ u.left = j.left /\ u.rows = j.rows
          /\ u.row = j.row /\ u.n = j.n /\ u.got = j.got /\ u.half = j.half /\ u.due = j.due
        BY ONLY <1>1, <2>2, GoesOk, Zenon
    <2> HIDE DEF u
    <2>4. SameOrder(j, u) /\ Guarded(db, m, u, mk \cup {}, Listed)
        BY <1>4, <2>1, <2>2, <2>3 DEF Offering, Trading
    <2>5. HasOffer(u, j.id) /\ j.id \in Listed
        BY <1>1, <2>2, <2>3 DEF HasOffer
    <2>6. Guarded(db, Put(m, r, j.left), u, mk \cup {}, Listed)
        BY <2>2, <2>4, <2>5, OfferGuarded
    <2>7. Takes(w, r)
        <3> SUFFICES ASSUME NEW v \in Worker, v # w, r \in DOMAIN Mine(v) PROVE FALSE
            BY DEF Takes
        <3>1. Guarded(db, Mine(v), job[v], MarksOf(v), Listed)
            BY DEF Ownership
        <3>2. HasOffer(job[v], j.id)
            BY <1>1, <2>2, <3>1 DEF Guarded, OffersOk
        <3>. QED  BY <2>2, <3>2 DEF HasOffer, Ownership
    <2>. QED  BY <2>0, <2>1, <2>4, <2>6, <2>7, WritesOwnership
<1>. QED  BY <1>5, <1>7, <1>8, <1>9, <1>10, <1>11, <1>12 DEF Contracting

(* A login that goes on with what it has. *)
LEMMA LoginGuarded ==
    ASSUME NEW d, NEW m, NEW j, NEW mk, NEW listed, Guarded(d, m, j, mk, listed),
           NEW u, NEW why, j.kind = "login", u.kind = "login", u.id = j.id, u.row = j.row,
           u.left = j.left, u.rows = j.rows,
           \/ j.at = "user" /\ u.at = "create"
           \/ j.at = "name" /\ u.at = "commit"
           \/ j.at = "save" /\ u.at = "upsert"
    PROVE  Guarded(d, m, u, mk \cup why, listed)
<1>1. OffersOk(d, m, u, listed)
    BY DEF Guarded, OffersOk, HasOffer, Offering, Trading
<1>2. AccountsOk(d, m, u)
    BY DEF Guarded, AccountsOk, Opening, UsersOk
<1>3. UsersOk(d, m, u, mk \cup why)
    BY DEF Guarded, UsersOk, HasUser, Keeping
<1>. QED  BY <1>1, <1>2, <1>3 DEF Guarded

(* A login that has written no user opens an account. *)
LEMMA CreatedGuarded ==
    ASSUME NEW d, NEW m, NEW j, NEW mk, NEW listed, Guarded(d, m, j, mk, listed),
           NEW u, NEW a \in Account, ~ Living(d, a), NEW x, x # Absent,
           j.kind = "login", u.kind = "login", u.row = a, u.left = j.left, u.rows = j.rows,
           j.at = "create" /\ u.at = "upsert"
    PROVE  Guarded(d, Put(m, AccountRow(a), x), u, mk, listed)
<1> DEFINE r == AccountRow(a)
           p == Put(m, r, x)
<1>1. /\ \A s : s \in DOMAIN p <=> s = r \/ s \in DOMAIN m
      /\ p[r] = x
      /\ \A s \in DOMAIN m : s # r => p[s] = m[s]
    BY PutDomain, PutRows
<1> HIDE DEF p
<1>2. /\ \A i \in OfferId : OfferOf(i) # r
      /\ \A b \in Account : AccountRow(b) = r => b = a
      /\ \A v \in User : UserRow(v) # r
    BY RowFacts
<1> HIDE DEF r
<1>3. OffersOk(d, p, u, listed)
    BY <1>1, <1>2 DEF Guarded, OffersOk, HasOffer, Offering, Trading
<1>4. AccountsOk(d, p, u)
    BY <1>1, <1>2 DEF Guarded, AccountsOk, Opening, UsersOk, r
<1>5. UsersOk(d, p, u, mk)
    BY <1>1, <1>2 DEF Guarded, UsersOk, HasUser, Keeping
<1>. QED  BY <1>3, <1>4, <1>5 DEF Guarded, p, r

(* The user moves to the account of the login, and gives up its names.     *)
LEMMA UpsertGuarded ==
    ASSUME NEW d, NEW m, NEW j, NEW mk, NEW listed, Guarded(d, m, j, mk, listed),
           NEW u, NEW v \in User, NEW names \in SUBSET Name, NEW why,
           j.kind = "login", u.kind = "login", u.id = j.id, u.row = j.row, u.left = j.left,
           u.rows = j.rows, j.at = "upsert" /\ u.at = "name", v = Logins[j.id].user,
           d[UserRow(v)] = j.left \/ "login" \in why
    PROVE  Guarded(d, Over([s \in {NameRow(n) : n \in names} |-> 0], Put(m, UserRow(v), j.row)),
                   u, mk \cup why, listed)
<1> DEFINE r == UserRow(v)
           old == {NameRow(n) : n \in names}
           q == Put(m, r, j.row)
           p == Over([s \in old |-> 0], q)
<1>1. /\ \A s : s \in DOMAIN q <=> s = r \/ s \in DOMAIN m
      /\ q[r] = j.row
      /\ \A s \in DOMAIN m : s # r => q[s] = m[s]
    BY PutDomain, PutRows
<1> HIDE DEF q
<1>2. DOMAIN p = old \cup DOMAIN q /\ \A s \in DOMAIN p : p[s] = IF s \in old THEN 0 ELSE q[s]
    BY DEF Over
<1>3. /\ \A i \in OfferId : OfferOf(i) # r /\ OfferOf(i) \notin old
      /\ \A a \in Account : AccountRow(a) # r /\ AccountRow(a) \notin old
      /\ \A y \in User : (UserRow(y) = r => y = v) /\ UserRow(y) \notin old
    BY RowFacts
<1> HIDE DEF p, old, r
<1>4. /\ \A s : s \notin old => ((s \in DOMAIN p <=> s = r \/ s \in DOMAIN m)
                                 /\ (s = r => p[s] = j.row)
                                 /\ (s # r /\ s \in DOMAIN m => p[s] = m[s]))
    BY <1>1, <1>2
<1>5. OffersOk(d, p, u, listed)
    BY <1>3, <1>4 DEF Guarded, OffersOk, HasOffer, Offering, Trading
<1>6. AccountsOk(d, p, u)
    BY <1>3, <1>4 DEF Guarded, AccountsOk, Opening
<1>7. UsersOk(d, p, u, mk \cup why)
    <2>1. \A y \in User : UserRow(y) \notin DOMAIN m
        BY DEF Guarded, UsersOk, HasUser
    <2>2. \A y \in User : UserRow(y) \in DOMAIN p => y = v /\ p[UserRow(y)] = j.row
        BY <1>3, <1>4, <2>1
    <2>3. UserRow(v) \in DOMAIN p
        BY <1>3, <1>4 DEF r
    <2>4. HasUser(u)
        BY DEF HasUser
    <2>5. Keeping(u) => u.left = u.row /\ u.row \in Account /\ Living(d, u.row)
        BY DEF Guarded, UsersOk, Keeping
    <2>. QED  BY <2>2, <2>3, <2>4, <2>5 DEF UsersOk
<1>. QED  BY <1>5, <1>6, <1>7 DEF Guarded, p, q, r, old

LEMMA LoggingInOwnership ==
    ASSUME Types, OwnConnections, Ownership, NEW w \in Worker, LoggingIn(w)
    PROVE  Ownership'
<1> DEFINE j == job[w]
           m == Mine(w)
           mk == MarksOf(w)
           k == site.conn[w]
<1>1. JobOk(j) /\ Guarded(db, m, j, mk, Listed) /\ DOMAIN j.rows \subseteq Listed
    BY DEF Types, Ownership, Guarded, OffersOk
<1>2. j.at \in LoginSteps => /\ j.id \in DOMAIN Logins /\ Logins[j.id].user \in User
                             /\ Logins[j.id].name \in Name /\ j.kind = "login"
    BY <1>1, ProcessesAssumption DEF JobOk, StepOk, ValuesOk, User
<1>3. ASSUME NEW u, u.kind = j.kind, j.kind = "login" PROVE SameOrder(j, u)
    BY <1>3 DEF SameOrder
<1>4. CASE FindUser(w)
    <2> DEFINE v == Logins[j.id].user
               a == Seen(w, UserRow(v))
               b == Seen(w, AccountRow(a))
               create == [j EXCEPT !.at = "create"]
               save == [j EXCEPT !.at = "save", !.row = a, !.left = a, !.got = b]
    <2>1. j.at = "user" /\ v \in User /\ j.kind = "login" /\ k \notin down
        BY <1>2, <1>4 DEF FindUser, At, LoginSteps
    <2>2. \/ a = 0 /\ Reads(w, create)
          \/ Reads(w, Idle)
          \/ a # 0 /\ Reads(w, save)
        BY <1>4 DEF FindUser
    <2>3. \A y \in User : UserRow(y) \notin DOMAIN m
        BY <1>1, <2>1 DEF Guarded, UsersOk, HasUser
    <2>4. CASE Reads(w, create)
        <3>1. Goes(j, "create")
            BY <2>1 DEF Goes
        <3>2. /\ JobOk(create) /\ create.at = "create"
              /\ create.kind = j.kind /\ create.id = j.id /\ create.left = j.left
              /\ create.rows = j.rows /\ create.row = j.row /\ create.n = j.n
              /\ create.got = j.got /\ create.half = j.half /\ create.due = j.due
            BY <1>1, <3>1, GoesOk
        <3> HIDE DEF create
        <3>3. Guarded(db, m, create, mk \cup {}, Listed)
            BY <1>1, <2>1, <3>2, LoginGuarded
        <3>. QED  BY <1>3, <2>1, <2>4, <3>2, <3>3, ReadsOwnership
    <2>5. CASE Reads(w, Idle)
        <3>1. OffersOk(db, m, Idle, Listed)
            BY <1>1, <2>1, IdleOk DEF Guarded, OffersOk, HasOffer, Offering, Trading
        <3>2. AccountsOk(db, m, Idle)
            BY <1>1, <2>1, IdleOk DEF Guarded, AccountsOk, Opening
        <3>3. UsersOk(db, m, Idle, mk)
            BY <2>3, IdleOk DEF UsersOk, HasUser, Keeping
        <3>4. Guarded(db, m, Idle, mk, Listed) /\ SameOrder(j, Idle)
            BY <3>1, <3>2, <3>3, IdleOk DEF Guarded, SameOrder
        <3>. QED  BY <2>1, <2>5, <3>4, ReadsOwnership
    <2>6. CASE a # 0 /\ Reads(w, save)
        <3>1. a = db[UserRow(v)]
            BY <2>1, <2>3 DEF Seen, View, Mine
        <3>2. a \in Account /\ Living(db, a)
            <4>1. a \in Account \cup {0}
                BY <2>1, RowFacts, SeenOk DEF ValueOk
            <4>. QED  BY <2>1, <2>6, <3>1, <4>1 DEF Ownership
        <3>3. b \in Nat
            BY <3>2, SeesAccounts
        <3> HIDE DEF a, b
        <3>4. b \in Nat \cup {Absent} /\ b # Absent
            BY <3>3 DEF Absent
        <3>5. /\ JobOk(save) /\ save.at = "save" /\ save.row = a /\ save.left = a /\ save.got = b
              /\ save.kind = j.kind /\ save.id = j.id /\ save.rows = j.rows
              /\ save.n = j.n /\ save.half = j.half /\ save.due = j.due
            <4>1. JobOk(save)
                BY <1>1, <2>1, <3>2, <3>4, FoundOk
            <4>. QED  BY <1>1, <4>1 DEF JobOk, IsJob
        <3> HIDE DEF save
        <3>6. OffersOk(db, m, save, Listed)
            BY <1>1, <2>1, <3>5 DEF Guarded, OffersOk, HasOffer, Offering, Trading
        <3>7. AccountsOk(db, m, save)
            BY <1>1, <2>1, <3>5 DEF Guarded, AccountsOk, Opening
        <3>8. UsersOk(db, m, save, mk)
            BY <2>1, <2>3, <2>6, <3>2, <3>4, <3>5 DEF UsersOk, HasUser, Keeping
        <3>9. Guarded(db, m, save, mk, Listed)
            BY <3>6, <3>7, <3>8 DEF Guarded
        <3>. QED  BY <1>3, <2>1, <2>6, <3>5, <3>9, ReadsOwnership DEF a, b, save
    <2>. QED  BY <2>2, <2>4, <2>5, <2>6
<1>5. CASE CreateAccount(w)
    <2> DEFINE a == FreshAccount
               u == [j EXCEPT !.at = "upsert", !.row = a]
    <2>1. j.at = "create" /\ k \notin down /\ Writes(w, AccountRow(a), site.grant, {}, u)
        BY <1>5 DEF CreateAccount, At
    <2>2. /\ a \in Account /\ db[AccountRow(a)] = Absent
          /\ \A h \in Connection : AccountRow(a) \notin DOMAIN work[h]
        BY <1>5, FreshFacts DEF CreateAccount
    <2> HIDE DEF a
    <2>3. /\ JobOk(u) /\ u.at = "upsert" /\ u.row = a
          /\ u.kind = j.kind /\ u.id = j.id /\ u.left = j.left /\ u.rows = j.rows
          /\ u.n = j.n /\ u.got = j.got /\ u.half = j.half /\ u.due = j.due
        BY ONLY <1>1, <2>1, <2>2, CreatedOk, Zenon
    <2> HIDE DEF u
    <2>4. ~ Living(db, a) /\ site.grant # Absent /\ j.kind = "login"
        BY <1>2, <2>1, <2>2, Connected DEF Living, Absent, LoginSteps
    <2>5. Guarded(db, Put(m, AccountRow(a), site.grant), u, mk \cup {}, Listed)
        <3>1. Guarded(db, Put(m, AccountRow(a), site.grant), u, mk, Listed)
            BY <1>1, <2>1, <2>2, <2>3, <2>4, CreatedGuarded
        <3>. QED  BY <3>1
    <2>6. Takes(w, AccountRow(a))
        BY <2>2, Connected DEF Takes, Mine
    <2>. QED  BY <1>3, <2>1, <2>3, <2>4, <2>5, <2>6, WritesOwnership DEF u, a
<1>6. CASE SaveAccount(w)
    <2> DEFINE r == AccountRow(j.row)
               u == [j EXCEPT !.at = "upsert"]
               why == StaleIf(Seen(w, r) # j.got, "balance")
    <2>1. j.at = "save" /\ k \notin down /\ Free(w, r) /\ Writes(w, r, j.got, why, u)
        BY <1>6 DEF SaveAccount, At
    <2>2. Goes(j, "upsert") /\ j.row \in Account /\ j.kind = "login"
        BY <1>1, <1>2, <2>1 DEF Goes, JobOk, ValuesOk, LoginSteps
    <2>3. /\ JobOk(u) /\ u.at = "upsert"
          /\ u.kind = j.kind /\ u.id = j.id /\ u.left = j.left /\ u.rows = j.rows
          /\ u.row = j.row /\ u.n = j.n /\ u.got = j.got /\ u.half = j.half /\ u.due = j.due
        BY ONLY <1>1, <2>2, GoesOk, Zenon
    <2> HIDE DEF u, why
    <2>4. Living(db, j.row) /\ j.got # Absent
        BY <1>1, <2>1, <2>2 DEF Guarded, UsersOk, Keeping
    <2>5. Takes(w, r)
        BY <2>1, <2>2, <2>4, SeesAccounts, FreeTakes
    <2>6. Guarded(db, m, u, mk \cup why, Listed)
        BY <1>1, <2>1, <2>2, <2>3, LoginGuarded
    <2>7. Guarded(db, Put(m, r, j.got), u, mk \cup why, Listed)
        BY <2>2, <2>4, <2>6, AccountGuarded
    <2>. QED  BY <1>3, <2>1, <2>2, <2>3, <2>5, <2>7, WritesOwnership
<1>7. CASE Upsert(w)
    <2> DEFINE v == Logins[j.id].user
               r == UserRow(v)
               names == {n \in Name : Seen(w, NameRow(n)) = v}
               p == Over([s \in {NameRow(n) : n \in names} |-> 0], Put(m, r, j.row))
               u == [j EXCEPT !.at = "name"]
               why == StaleIf(Seen(w, r) # j.left, "login")
    <2>1. /\ j.at = "upsert" /\ k \notin down /\ WritersOf(k, r) = {}
          /\ Alone(w, p, u, mk \cup why) /\ down' = down /\ asked' = asked
        BY <1>7 DEF Upsert, At, Becomes, Marked, requests, Put, Alone, Mine, MarksOf
    <2>2. Goes(j, "name") /\ v \in User /\ j.kind = "login" /\ names \in SUBSET Name
        BY <1>2, <2>1 DEF Goes, LoginSteps
    <2>3. /\ JobOk(u) /\ u.at = "name"
          /\ u.kind = j.kind /\ u.id = j.id /\ u.left = j.left /\ u.rows = j.rows
          /\ u.row = j.row /\ u.n = j.n /\ u.got = j.got /\ u.half = j.half /\ u.due = j.due
        BY ONLY <1>1, <2>2, GoesOk, Zenon
    <2> HIDE DEF u
    <2>4. db[UserRow(v)] = j.left \/ "login" \in why
        <3>1. UserRow(v) \notin DOMAIN m
            BY <1>1, <2>1, <2>2 DEF Guarded, UsersOk, HasUser
        <3>. QED  BY <3>1 DEF StaleIf, Seen, View, Mine
    <2> HIDE DEF why, names
    <2>5. Guarded(db, p, u, mk \cup why, Listed)
        BY <1>1, <2>1, <2>2, <2>3, <2>4, UpsertGuarded
    <2>6. ASSUME NEW s \in DOMAIN p PROVE s[1] \in {"name", "id"} \/ Takes(w, s)
        <3>1. s \in {NameRow(n) : n \in names} \/ s = r \/ s \in DOMAIN m
            BY <2>6, PutDomain DEF Over
        <3>2. s \in {NameRow(n) : n \in names} => s[1] = "name"
            BY <2>2, RowFacts
        <3>3. Takes(w, r)
            BY <2>1, FreeTakes
        <3>. QED  BY <3>1, <3>2, <3>3 DEF Takes
    <2> HIDE DEF p
    <2>. QED  BY <1>3, <2>1, <2>2, <2>3, <2>5, <2>6, StepOwnership
<1>8. CASE TakeName(w)
    <2> DEFINE r == NameRow(Logins[j.id].name)
               v == Logins[j.id].user
               u == [j EXCEPT !.at = "commit"]
    <2>1. j.at = "name" /\ k \notin down
        BY <1>8 DEF TakeName, At
    <2>2. CASE StatementFails(w)
        BY <2>2, FailsOwnership
    <2>3. CASE Writes(w, r, v, {}, u)
        <3>1. Goes(j, "commit") /\ j.kind = "login" /\ r[1] = "name"
            BY <1>2, <2>1, RowFacts DEF Goes, LoginSteps
        <3>2. /\ JobOk(u) /\ u.at = "commit"
              /\ u.kind = j.kind /\ u.id = j.id /\ u.left = j.left /\ u.rows = j.rows
              /\ u.row = j.row /\ u.n = j.n /\ u.got = j.got /\ u.half = j.half /\ u.due = j.due
            BY ONLY <1>1, <3>1, GoesOk, Zenon
        <3> HIDE DEF u
        <3>3. Guarded(db, m, u, mk \cup {}, Listed)
            BY <1>1, <2>1, <3>1, <3>2, LoginGuarded
        <3>. QED  BY <1>3, <2>1, <2>3, <3>1, <3>2, <3>3, OtherOwnership
    <2>. QED  BY <1>8, <2>2, <2>3 DEF TakeName
<1>. QED  BY <1>4, <1>5, <1>6, <1>7, <1>8 DEF LoggingIn

LEMMA PayingOwnership ==
    ASSUME Types, OwnConnections, Ownership, NEW w \in Worker, Paying(w)
    PROVE  Ownership'
<1> DEFINE j == job[w]
           m == Mine(w)
           mk == MarksOf(w)
<1>1. JobOk(j) /\ Guarded(db, m, j, mk, Listed) /\ DOMAIN j.rows \subseteq Listed
    BY DEF Types, Ownership, Guarded, OffersOk
<1>2. j.at \in PaySteps => j.kind = "pay" /\ j.id \in ContractType /\ j.got \in Int
    BY <1>1 DEF JobOk, StepOk, ValuesOk, FieldsOk
<1>3. ASSUME NEW u, JobOk(u), u.kind = j.kind, j.kind = "pay", u.rows = j.rows
      PROVE  SameOrder(j, u) /\ \A why : Guarded(db, m, u, mk \cup why, Listed)
    <2>1. SameOrder(j, u) /\ u.at \notin Offering \cup Trading /\ DOMAIN u.rows \subseteq Listed
        BY <1>1, <1>3 DEF SameOrder, JobOk, StepOk, Offering, Trading
    <2>. QED  BY <1>1, <1>3, <2>1, GoesGuarded
<1>4. CASE Pick(w)
    <2>1. j.at = "pick" /\ j.kind = "pay" /\ site.conn[w] \notin down
        BY <1>2, <1>4 DEF Pick, At, PaySteps
    <2>2. CASE HandlerRaises(w)
        BY <2>1, <2>2, RaisesOwnership
    <2>3. CASE Reads(w, [j EXCEPT !.at = "commit"])
        <3> DEFINE u == [j EXCEPT !.at = "commit"]
        <3>1. Goes(j, "commit")
            BY <2>1 DEF Goes
        <3>2. /\ JobOk(u) /\ u.at = "commit"
              /\ u.kind = j.kind /\ u.id = j.id /\ u.left = j.left /\ u.rows = j.rows
              /\ u.row = j.row /\ u.n = j.n /\ u.got = j.got /\ u.half = j.half /\ u.due = j.due
            BY ONLY <1>1, <3>1, GoesOk, Zenon
        <3> HIDE DEF u
        <3>3. SameOrder(j, u) /\ Guarded(db, m, u, mk \cup {}, Listed)
            BY <1>3, <2>1, <3>2
        <3>. QED  BY <2>1, <2>3, <3>2, <3>3, ReadsOwnership DEF u
    <2>4. ASSUME NEW a \in Account, NEW x \in {"credit", "delete"}, NEW p, NEW q,
                 p = Seen(w, IdRow(j.id, a)), q = Seen(w, PositionRow(j.id, a)),
                 Reads(w, [j EXCEPT !.at = x, !.row = a, !.n = p, !.got = q, !.left = @ + q])
          PROVE  Ownership'
        <3> DEFINE u == [j EXCEPT !.at = x, !.row = a, !.n = p, !.got = q, !.left = @ + q]
        <3>1. p \in Int /\ q \in Int
            BY <1>2, <2>1, <2>4, RowFacts, SeenOk DEF ValueOk, PaySteps
        <3>2. JobOk(u) /\ u.kind = j.kind /\ u.rows = j.rows
            <4>1. JobOk(u)
                BY <1>1, <2>1, <3>1, PickedOk
            <4>. QED  BY <1>1, <4>1 DEF JobOk, IsJob
        <3> HIDE DEF u
        <3>3. SameOrder(j, u) /\ Guarded(db, m, u, mk \cup {}, Listed)
            BY <1>3, <2>1, <3>2
        <3>. QED  BY <2>1, <2>4, <3>2, <3>3, ReadsOwnership DEF u
    <2>5. \/ HandlerRaises(w) \/ Reads(w, [j EXCEPT !.at = "commit"])
          \/ \E a \in Account, x \in {"credit", "delete"} :
               Reads(w, [j EXCEPT !.at = x, !.row = a, !.n = Seen(w, IdRow(j.id, a)),
                                  !.got = Seen(w, PositionRow(j.id, a)),
                                  !.left = @ + Seen(w, PositionRow(j.id, a))])
        BY <1>4 DEF Pick
    <2>. QED  BY <2>2, <2>3, <2>4, <2>5
<1>5. CASE PayWinner(w)
    <2> DEFINE r == AccountRow(j.row)
               u == [j EXCEPT !.at = "delete"]
               x == Seen(w, r) + Unit * Abs(j.got)
    <2>1. /\ j.at = "credit" /\ j.kind = "pay" /\ site.conn[w] \notin down
          /\ Updates(w, r, x, {}, u) /\ asked' = asked
        BY <1>2, <1>5 DEF PayWinner, At, PaySteps, Updates, requests
    <2>2. Goes(j, "delete") /\ j.row \in Account /\ j.got \in Int
        BY <1>1, <2>1 DEF Goes, JobOk, ValuesOk, FieldsOk
    <2>3. /\ JobOk(u) /\ u.at = "delete"
          /\ u.kind = j.kind /\ u.id = j.id /\ u.left = j.left /\ u.rows = j.rows
          /\ u.row = j.row /\ u.n = j.n /\ u.got = j.got /\ u.half = j.half /\ u.due = j.due
        BY ONLY <1>1, <2>2, GoesOk, Zenon
    <2> HIDE DEF u
    <2>4. SameOrder(j, u) /\ Guarded(db, m, u, mk \cup {}, Listed)
        BY <1>3, <2>1, <2>3
    <2>5. ASSUME Exist(r, Seen(w, r)) PROVE Living(db, j.row) /\ x # Absent
        <3>1. r \in Row /\ r[1] = "account" /\ Seen(w, r) # Absent
            BY <2>2, <2>5, RowFacts DEF Exist
        <3>2. Living(db, j.row)
            BY <1>1, <2>1, <2>2, <3>1 DEF Guarded, AccountsOk, Opening, Living, Seen, View, Mine
        <3>3. Seen(w, r) \in Nat
            BY <2>2, <3>2, SeesAccounts
        <3>4. Unit * Abs(j.got) \in Nat
            BY <2>2 DEF Unit, Abs
        <3>. QED  BY <3>2, <3>3, <3>4 DEF Absent
    <2> HIDE DEF x
    <2>6. Exist(r, Seen(w, r)) => Guarded(db, Put(m, r, x), u, mk \cup {}, Listed)
        BY <2>2, <2>4, <2>5, AccountGuarded
    <2>. QED  BY <2>1, <2>4, <2>6, UpdatesOwnership
<1>6. CASE DeletePosition(w)
    <2> DEFINE r == PositionRow(j.id, j.row)
               u == [j EXCEPT !.at = "pick"]
               why == StaleIf(Seen(w, r) # j.got, "position")
    <2>1. /\ j.at = "delete" /\ j.kind = "pay" /\ site.conn[w] \notin down /\ asked' = asked
          /\ Updates(w, r, 0, why, u) \/ Lays(w, m, {"position"}, u)
        <3>1. work = [work EXCEPT ![site.conn[w]] = m]
            BY Connected DEF Types, Mine
        <3>. QED  BY <1>2, <1>6, <3>1
                  DEF DeletePosition, At, PaySteps, Updates, requests, Lays, Becomes, Marked
    <2> HIDE DEF why
    <2>2. Goes(j, "pick") /\ j.row \in Account /\ j.id \in ContractType
        BY <1>1, <1>2, <2>1 DEF Goes, JobOk, ValuesOk, PaySteps
    <2>3. /\ JobOk(u) /\ u.at = "pick"
          /\ u.kind = j.kind /\ u.id = j.id /\ u.left = j.left /\ u.rows = j.rows
          /\ u.row = j.row /\ u.n = j.n /\ u.got = j.got /\ u.half = j.half /\ u.due = j.due
        BY ONLY <1>1, <2>2, GoesOk, Zenon
    <2> HIDE DEF u
    <2>4. SameOrder(j, u) /\ \A y : Guarded(db, m, u, mk \cup y, Listed)
        BY <1>3, <2>1, <2>3
    <2>5. r[1] \notin {"account", "offer", "user"}
        BY <2>2, RowFacts
    <2>6. Guarded(db, Put(m, r, 0), u, mk \cup why, Listed)
        BY <2>4, <2>5, OtherGuarded
    <2>7. \A x \in DOMAIN m : x[1] \in {"name", "id"} \/ Takes(w, x)
        BY DEF Takes
    <2>8. CASE Lays(w, m, {"position"}, u)
        BY <2>1, <2>4, <2>7, <2>8, LaysOwnership
    <2>. QED  BY <2>1, <2>4, <2>6, <2>8, UpdatesOwnership
<1>. QED  BY <1>4, <1>5, <1>6 DEF Paying

(* The tables with the rows of a transaction on top. *)
Merged(d, m, e) ==
    \A r \in Row : e[r] = IF r \in DOMAIN m THEN m[r] ELSE d[r]

(* A commit does not disturb what others hold. *)
LEMMA MergedGuarded ==
    ASSUME NEW d, NEW m, NEW j, NEW mk, NEW listed, Guarded(d, m, j, mk, listed), JobOk(j),
           NEW e, NEW n, Merged(d, m, e), NEW i, NEW ik, Guarded(d, n, i, ik, listed), JobOk(i),
           \A r \in Row : r \in DOMAIN m /\ r \in DOMAIN n => r[1] \in {"name", "id"},
           j.kind = "place" /\ i.kind = "place" => j.id # i.id
    PROVE  Guarded(e, n, i, ik, listed)
<1>1. \A a \in Account : Living(d, a) => Living(e, a)
    BY RowFacts DEF Merged, Living, Guarded, AccountsOk
<1>2. \A r \in Row : r \in DOMAIN n /\ r[1] \notin {"name", "id"} => e[r] = d[r]
    BY DEF Merged
<1>3. OffersOk(e, n, i, listed)
    <2>1. \A x \in OfferId : OfferOf(x) \in Row /\ OfferOf(x)[1] \notin {"name", "id"}
        BY RowFacts
    <2>2. \A x \in OfferId : OfferOf(x) \in DOMAIN n =>
            x \in listed /\ (e[OfferOf(x)] # 0 \/ HasOffer(i, x))
        BY <1>2, <2>1 DEF Guarded, OffersOk
    <2>3. i.kind = "place" => e[OfferOf(i.id)] = 0
        <3>1. i.kind = "place" => i.id \in OfferId /\ d[OfferOf(i.id)] = 0
            BY DEF JobOk, ValuesOk, Guarded, OffersOk
        <3>2. i.kind = "place" => OfferOf(i.id) \notin DOMAIN m
            BY <3>1 DEF Guarded, OffersOk, HasOffer
        <3>. QED  BY <2>1, <3>1, <3>2 DEF Merged
    <2>. QED  BY <2>2, <2>3 DEF Guarded, OffersOk
<1>4. AccountsOk(e, n, i)
    <2>1. \A a \in Account : AccountRow(a) \in Row /\ AccountRow(a)[1] \notin {"name", "id"}
        BY RowFacts
    <2>. QED  BY <1>1, <1>2, <2>1 DEF Guarded, AccountsOk, Living
<1>5. UsersOk(e, n, i, ik)
    <2>1. \A u \in User : UserRow(u) \in Row /\ UserRow(u)[1] \notin {"name", "id"}
        BY RowFacts
    <2>2. Keeping(i) => i.left = i.row /\ i.row \in Account /\ Living(e, i.row)
        BY <1>1 DEF Guarded, UsersOk
    <2>. QED  BY <1>2, <2>1, <2>2 DEF Guarded, UsersOk
<1>. QED  BY <1>3, <1>4, <1>5 DEF Guarded

(* What a commit changes. *)
LEMMA CommitEffect ==
    ASSUME Types, OwnConnections, NEW w \in Worker, Commit(w)
    PROVE  /\ Merged(db, Mine(w), db') /\ DOMAIN db' = Row
           /\ Mine(w)' = NoWork /\ job'[w] = Committed(job[w]) /\ MarksOf(w)' = {}
           /\ \A v \in Worker : v # w => /\ Mine(v)' = Mine(v) /\ job'[v] = job[v]
                                         /\ MarksOf(v)' = MarksOf(v)
           /\ site' = site /\ down' = down /\ asked' = asked /\ site.conn[w] \notin down
           /\ spoiled' = spoiled \cup MarksOf(w)
           /\ JobOk(job[w]) /\ job[w].at = "commit"
<1>1. \A v \in Worker : v # w => site.conn[v] # site.conn[w]
    BY DEF OwnConnections
<1>2. \A v \in Worker : site.conn[v] \in Connection /\ site' = site
    BY Connected DEF Commit, requests
<1>3. /\ work' = [work EXCEPT ![site.conn[w]] = NoWork]
      /\ job' = [job EXCEPT ![w] = Committed(job[w])]
      /\ marks' = [marks EXCEPT ![site.conn[w]] = {}]
      /\ db' = [r \in Row |-> View(site.conn[w], r)]
      /\ down' = down /\ asked' = asked /\ site.conn[w] \notin down
      /\ spoiled' = spoiled \cup MarksOf(w)
      /\ JobOk(job[w]) /\ job[w].at = "commit"
    BY DEF Commit, At, Becomes, requests, MarksOf, Types
<1>4. Mine(w)' = NoWork /\ job'[w] = Committed(job[w]) /\ MarksOf(w)' = {}
    BY <1>2, <1>3 DEF Types, Mine, MarksOf
<1>5. ASSUME NEW v \in Worker, v # w
      PROVE  Mine(v)' = Mine(v) /\ job'[v] = job[v] /\ MarksOf(v)' = MarksOf(v)
    BY <1>1, <1>2, <1>3, <1>5 DEF Types, Mine, MarksOf
<1>6. Merged(db, Mine(w), db') /\ DOMAIN db' = Row
    BY <1>3 DEF Merged, View, Mine
<1>. QED  BY <1>2, <1>3, <1>4, <1>5, <1>6

(* The account of a login is there once it commits. *)
LEMMA CommittedLiving ==
    ASSUME NEW d, NEW m, NEW j, NEW mk, NEW listed, Guarded(d, m, j, mk, listed),
           NEW e, Merged(d, m, e)
    PROVE  /\ \A a \in Account : Living(d, a) => Living(e, a)
           /\ \A a \in Account : Living(e, a) => Living(d, a) \/ (Opening(j) /\ j.row = a)
           /\ \A u \in User : UserRow(u) \in DOMAIN m =>
                /\ HasUser(j) /\ u = Logins[j.id].user /\ e[UserRow(u)] = j.row
                /\ j.row \in Account /\ Living(e, j.row)
                /\ d[UserRow(u)] = j.left \/ "login" \in mk
           /\ \A u \in User : UserRow(u) \notin DOMAIN m => e[UserRow(u)] = d[UserRow(u)]
<1>1. \A a \in Account : Living(d, a) => Living(e, a)
    BY RowFacts DEF Merged, Living, Guarded, AccountsOk
<1>2. \A a \in Account : Living(e, a) => Living(d, a) \/ (Opening(j) /\ j.row = a)
    BY RowFacts DEF Merged, Living, Guarded, AccountsOk
<1>3. ASSUME NEW u \in User, UserRow(u) \in DOMAIN m
      PROVE  /\ HasUser(j) /\ u = Logins[j.id].user /\ e[UserRow(u)] = j.row
             /\ j.row \in Account /\ Living(e, j.row)
             /\ d[UserRow(u)] = j.left \/ "login" \in mk
    <2>1. /\ HasUser(j) /\ u = Logins[j.id].user /\ m[UserRow(u)] = j.row
          /\ d[UserRow(u)] = j.left \/ "login" \in mk
        BY <1>3 DEF Guarded, UsersOk
    <2>2. e[UserRow(u)] = m[UserRow(u)]
        BY <1>3, RowFacts DEF Merged
    <2>3. CASE Opening(j)
        <3>1. j.row \in Account /\ AccountRow(j.row) \in DOMAIN m
              /\ m[AccountRow(j.row)] # Absent
            BY <2>3 DEF Guarded, AccountsOk
        <3>2. Living(e, j.row)
            BY <3>1, RowFacts DEF Merged, Living
        <3>. QED  BY <2>1, <2>2, <3>1, <3>2
    <2>4. CASE Keeping(j)
        BY <1>1, <2>1, <2>2, <2>4 DEF Guarded, UsersOk
    <2>5. Opening(j) \/ Keeping(j)
        BY <2>1 DEF HasUser, Opening, Keeping
    <2>. QED  BY <2>1, <2>2, <2>3, <2>4, <2>5
<1>4. \A u \in User : UserRow(u) \notin DOMAIN m => e[UserRow(u)] = d[UserRow(u)]
    BY RowFacts DEF Merged
<1>. QED  BY <1>1, <1>2, <1>3, <1>4

LEMMA CommitOwnership ==
    ASSUME Types, OwnConnections, Ownership, NEW w \in Worker, Commit(w)
    PROVE  Ownership'
<1> DEFINE j == job[w]
           m == Mine(w)
           mk == MarksOf(w)
           e == db'
           u == Committed(j)
<1>1. /\ Merged(db, m, e)
      /\ Mine(w)' = NoWork /\ job'[w] = u /\ MarksOf(w)' = {}
      /\ \A v \in Worker : v # w => /\ Mine(v)' = Mine(v) /\ job'[v] = job[v]
                                    /\ MarksOf(v)' = MarksOf(v)
      /\ site' = site /\ down' = down /\ Listed' = Listed /\ site.conn[w] \notin down
      /\ JobOk(j) /\ j.at = "commit"
    BY CommitEffect DEF Listed
<1>2. /\ JobOk(u)
      /\ u = Idle \/ (u.rows = j.rows /\ u.kind \in {"clear", "pay", "final", "last"}
                                      /\ u.at \in {"clean", "pick", "find"})
    <2>1. JobOk(j) /\ j.at = "commit"
        BY <1>1
    <2> HIDE DEF j
    <2>. QED  BY ONLY <2>1, CommittedOk
<1>3. Guarded(db, m, j, mk, Listed)
    BY DEF Ownership
<1>4. /\ \A a \in Account : Living(db, a) => Living(e, a)
      /\ \A a \in Account : Living(e, a) => Living(db, a) \/ (Opening(j) /\ j.row = a)
      /\ \A y \in User : UserRow(y) \in DOMAIN m =>
           /\ HasUser(j) /\ y = Logins[j.id].user /\ e[UserRow(y)] = j.row
           /\ j.row \in Account /\ Living(e, j.row)
           /\ db[UserRow(y)] = j.left \/ "login" \in mk
      /\ \A y \in User : UserRow(y) \notin DOMAIN m => e[UserRow(y)] = db[UserRow(y)]
    BY <1>1, <1>3, CommittedLiving
<1> HIDE DEF e, u
<1>5. DOMAIN NoWork = {} /\ \A v \in Worker : v # w => site.conn[v] # site.conn[w]
    BY DEF NoWork, OwnConnections
<1>6. \A v \in Worker : (site.conn[v] \in down => job[v] = Idle /\ Mine(v) = NoWork)'
    BY <1>1 DEF Ownership
<1>7. (\A v, x \in Worker : \A r \in Row :
         v # x /\ r \in DOMAIN Mine(v) /\ r \in DOMAIN Mine(x) => r[1] \in {"name", "id"})'
    BY <1>1, <1>5 DEF Ownership
<1>8. (\A v, x \in Worker :
         v # x /\ job[v].kind = "place" /\ job[x].kind = "place" => job[v].id # job[x].id)'
    <2>1. u.kind # "place"
        BY <1>2, IdleOk
    <2>. QED  BY <1>1, <2>1 DEF Ownership
<1>9. \A i \in Listed' : Living(e, Order[i].account)
    <2>1. Resting \subseteq OfferId /\ asked \subseteq OfferId
        BY ProcessesAssumption DEF Types
    <2>2. \A i \in Listed : Order[i].account \in Account
        BY <2>1, Quantities DEF Listed
    <2>. QED  BY <1>1, <1>4, <2>2 DEF Ownership
<1>10. \A y \in User : e[UserRow(y)] # 0 => Living(e, e[UserRow(y)])
    <2>1. \A y \in User : db[UserRow(y)] \in Account \cup {0}
        BY RowFacts DEF Types, RowsOk, ValueOk
    <2>. QED  BY <1>4, <2>1 DEF Ownership
<1>11. \A i \in OfferId : e[OfferOf(i)] # 0 => i \in Listed'
    BY <1>1, <1>3, RowFacts DEF Ownership, Guarded, OffersOk, Merged
<1>12. ASSUME NEW v \in Worker
       PROVE  Guarded(e, Mine(v)', job'[v], MarksOf(v)', Listed')
    <2>1. CASE v = w
        <3>1. DOMAIN u.rows \subseteq Listed
            BY <1>2, <1>3, IdleOk DEF Guarded, OffersOk
        <3>2. /\ u.at \notin Offering \cup Trading /\ u.kind # "place" /\ u.kind # "login"
              /\ u.at \notin {"save", "create", "user"}
            BY <1>2, IdleOk DEF Offering, Trading
        <3>3. Guarded(e, NoWork, u, {}, Listed)
            BY <3>1, <3>2, NothingGuarded
        <3>. QED  BY <1>1, <2>1, <3>3
    <2>2. CASE v # w
        <3>1. Guarded(db, Mine(v), job[v], MarksOf(v), Listed) /\ JobOk(job[v])
            BY DEF Ownership, Types
        <3>2. \A r \in Row : r \in DOMAIN m /\ r \in DOMAIN Mine(v) => r[1] \in {"name", "id"}
            BY <2>2 DEF Ownership
        <3>3. j.kind = "place" /\ job[v].kind = "place" => j.id # job[v].id
            BY <2>2 DEF Ownership
        <3>4. Guarded(e, Mine(v), job[v], MarksOf(v), Listed)
            BY <1>1, <1>3, <3>1, <3>2, <3>3, MergedGuarded
        <3>. QED  BY <1>1, <2>2, <3>4
    <2>. QED  BY <2>1, <2>2
<1>. QED  BY <1>6, <1>7, <1>8, <1>9, <1>10, <1>11, <1>12 DEF Ownership, e

(* A request begins on rows that an operation may have left. *)
LEMMA AskingOwnership ==
    ASSUME Types, OwnConnections, Ownership, NEW w \in Worker, Asks(w) \/ Page(w)
    PROVE  Ownership'
<1> DEFINE m == Mine(w)
           mk == MarksOf(w)
           k == site.conn[w]
<1>1. /\ job[w] = Idle /\ k \in Connection
      /\ Guarded(db, m, Idle, mk, Listed)
    BY Connected DEF Ownership, Asks, Place, Cancel, List, LogIn, Resolve, Page, Request, Begins
<1>2. /\ \A u \in User : UserRow(u) \notin DOMAIN m
      /\ \A i \in OfferId : OfferOf(i) \in DOMAIN m => i \in Listed /\ db[OfferOf(i)] # 0
      /\ AccountsOk(db, m, Idle)
    BY <1>1, IdleOk DEF Guarded, OffersOk, UsersOk, HasUser, HasOffer
<1>3. ASSUME NEW kind, NEW j, Begins(w, kind, j)
      PROVE  Alone(w, m, [j EXCEPT !.kind = kind], mk)
    <2>1. work = [work EXCEPT ![k] = work[k]] /\ marks = [marks EXCEPT ![k] = marks[k]]
        BY <1>1 DEF Types
    <2>. QED  BY <1>3, <2>1 DEF Begins, Becomes, Alone, Mine, MarksOf
<1>4. \A r \in DOMAIN m : r[1] \in {"name", "id"} \/ Takes(w, r)
    BY DEF Takes
<1>5. ASSUME NEW u, DOMAIN u.rows = {}, NEW listed, Listed \subseteq listed,
             u.kind = "place" => u.id \in listed /\ db[OfferOf(u.id)] = 0,
             u.at \in Offering \cup Trading => u.row \in listed,
             u.at \in {"lookup", "read", "find", "user"},
             u.at = "user" => u.left = 0, u.kind = "login" => u.at = "user"
      PROVE  Guarded(db, m, u, mk, listed)
    <2>1. OffersOk(db, m, u, listed)
        BY <1>2, <1>5 DEF OffersOk
    <2>2. AccountsOk(db, m, u)
        BY <1>2, <1>5, IdleOk DEF AccountsOk, Opening
    <2>3. UsersOk(db, m, u, mk)
        BY <1>2, <1>5 DEF UsersOk, HasUser, Keeping
    <2>. QED  BY <2>1, <2>2, <2>3 DEF Guarded
<1>6. ASSUME NEW u, u.kind # "place", Alone(w, m, u, mk), k \notin down', down' \subseteq down,
             asked' = asked, Guarded(db, m, u, mk, Listed)
      PROVE  Ownership'
    <2>1. /\ Listed' = Listed /\ \A i \in Listed' : Living(db, Order[i].account)
          /\ down' \subseteq down \cup {site.conn[w]} /\ Listed \subseteq Listed'
          /\ site.conn[w] \in down' => u = Idle /\ m = NoWork
        BY <1>6 DEF Listed, Ownership
    <2>. QED  BY <1>4, <1>6, <2>1, AloneOwnership
<1>7. ASSUME NEW kind, NEW j, Request(w, kind, j)
      PROVE  Alone(w, m, [j EXCEPT !.kind = kind], mk) /\ k \notin down' /\ down' \subseteq down
    BY <1>3, <1>7 DEF Request
<1>8. ASSUME NEW i \in OfferId, Place(w, i) PROVE Ownership'
    <2> DEFINE j == [Idle EXCEPT !.at = "lookup", !.id = i, !.left = Order[i].quantity]
               u == [j EXCEPT !.kind = "place"]
    <2>1. /\ Request(w, "place", j) /\ asked' = asked \cup {i} /\ i \notin Listed
          /\ \E v \in User : Seen(w, UserRow(v)) = Order[i].account
        BY <1>8 DEF Place, Listed
    <2>2. /\ JobOk(u) /\ u.kind = "place" /\ u.at = "lookup" /\ u.id = i
          /\ u.left = Order[i].quantity /\ DOMAIN u.rows = {}
        BY ONLY <1>8, PlaceJob, Zenon
    <2>3. Alone(w, m, u, mk) /\ k \notin down' /\ down' \subseteq down
        BY <1>7, <2>1
    <2> HIDE DEF u, j
    <2>4. Listed' = Listed \cup {i} /\ db[OfferOf(i)] = 0
        BY <2>1 DEF Listed, Ownership
    <2>5. Living(db, Order[i].account)
        <3>1. PICK v \in User : Seen(w, UserRow(v)) = Order[i].account
            BY <2>1
        <3>2. db[UserRow(v)] = Order[i].account
            BY <1>2, <3>1 DEF Seen, View, Mine
        <3>3. Order[i].account # 0
            BY Quantities DEF Account
        <3>. QED  BY <3>2, <3>3 DEF Ownership
    <2>6. Guarded(db, m, u, mk, Listed')
        BY <1>5, <2>2, <2>4 DEF Offering, Trading
    <2>7. \A v \in Worker : v # w /\ job[v].kind = "place" /\ u.kind = "place" => job[v].id # u.id
        BY <2>1, <2>2 DEF Ownership, Guarded, OffersOk
    <2>8. /\ down' \subseteq down \cup {site.conn[w]} /\ Listed \subseteq Listed'
          /\ site.conn[w] \in down' => u = Idle /\ m = NoWork
          /\ \A x \in Listed' : Living(db, Order[x].account)
        BY <2>3, <2>4, <2>5 DEF Ownership
    <2>. QED  BY <1>4, <2>3, <2>6, <2>7, <2>8, AloneOwnership
<1>9. ASSUME NEW i \in OfferId, Cancel(w, i) PROVE Ownership'
    <2> DEFINE j == [Idle EXCEPT !.at = "read", !.row = i]
               u == [j EXCEPT !.kind = "cancel"]
    <2>1. Request(w, "cancel", j) /\ asked' = asked /\ Exist(OfferOf(i), db[OfferOf(i)])
        BY <1>9 DEF Cancel
    <2>2. /\ JobOk(u) /\ u.kind = "cancel" /\ u.at = "read" /\ u.row = i
          /\ u.left = 0 /\ DOMAIN u.rows = {}
        BY ONLY <1>9, CancelJob, Zenon
    <2>3. Alone(w, m, u, mk) /\ k \notin down' /\ down' \subseteq down
        BY <1>7, <2>1
    <2>4. i \in Listed
        BY <2>1, RowFacts DEF Exist, Ownership
    <2> HIDE DEF u, j
    <2>5. Guarded(db, m, u, mk, Listed)
        BY <1>5, <2>2, <2>4
    <2>. QED  BY <1>6, <2>1, <2>2, <2>3, <2>5
<1>10. CASE List(w)
    <2> DEFINE j == [Idle EXCEPT !.at = "find"]
               u == [j EXCEPT !.kind = "list"]
    <2>1. Request(w, "list", j) /\ asked' = asked
        BY <1>10 DEF List
    <2>2. /\ JobOk(u) /\ u.kind = "list" /\ u.at = "find"
          /\ u.left = 0 /\ DOMAIN u.rows = {}
        BY ONLY ListJob, Zenon
    <2>3. Alone(w, m, u, mk) /\ k \notin down' /\ down' \subseteq down
        BY <1>7, <2>1
    <2> HIDE DEF u, j
    <2>4. Guarded(db, m, u, mk, Listed)
        BY <1>5, <2>2 DEF Offering, Trading
    <2>. QED  BY <1>6, <2>1, <2>2, <2>3, <2>4
<1>11. ASSUME NEW l \in DOMAIN Logins, LogIn(w, l) PROVE Ownership'
    <2> DEFINE j == [Idle EXCEPT !.at = "user", !.id = l, !.n = 1]
               u == [j EXCEPT !.kind = "login"]
    <2>1. Request(w, "login", j) /\ asked' = asked
        BY <1>11 DEF LogIn
    <2>2. /\ JobOk(u) /\ u.kind = "login" /\ u.at = "user" /\ u.id = l /\ u.n = 1
          /\ u.left = 0 /\ DOMAIN u.rows = {}
        BY ONLY <1>11, LoginJob, Zenon
    <2>3. Alone(w, m, u, mk) /\ k \notin down' /\ down' \subseteq down
        BY <1>7, <2>1
    <2> HIDE DEF u, j
    <2>4. Guarded(db, m, u, mk, Listed)
        BY <1>5, <2>2 DEF Offering, Trading
    <2>. QED  BY <1>6, <2>1, <2>2, <2>3, <2>4
<1>12. ASSUME NEW c \in ContractType, NEW side \in Side, Resolve(w, c, side) PROVE Ownership'
    <2> DEFINE j == [Idle EXCEPT !.at = "lookup", !.id = c, !.half = side]
               u == [j EXCEPT !.kind = "resolve"]
    <2>1. Request(w, "resolve", j) /\ asked' = asked
        BY <1>12 DEF Resolve
    <2>2. /\ JobOk(u) /\ u.kind = "resolve" /\ u.at = "lookup" /\ u.id = c /\ u.half = side
          /\ u.left = 0 /\ DOMAIN u.rows = {}
        BY ONLY <1>12, ResolveJob, Zenon
    <2>3. Alone(w, m, u, mk) /\ k \notin down' /\ down' \subseteq down
        BY <1>7, <2>1
    <2> HIDE DEF u, j
    <2>4. Guarded(db, m, u, mk, Listed)
        BY <1>5, <2>2 DEF Offering, Trading
    <2>. QED  BY <1>6, <2>1, <2>2, <2>3, <2>4
<1>13. CASE Page(w)
    <2> DEFINE j == [Idle EXCEPT !.at = "find"]
               u == [j EXCEPT !.kind = "list"]
    <2>1. Begins(w, "list", j) /\ asked' = asked /\ down' = down /\ m # NoWork
        BY <1>13 DEF Page, Mine
    <2>2. /\ JobOk(u) /\ u.kind = "list" /\ u.at = "find"
          /\ u.left = 0 /\ DOMAIN u.rows = {}
        BY ONLY ListJob, Zenon
    <2>3. Alone(w, m, u, mk)
        BY <1>3, <2>1
    <2>4. k \notin down
        BY <2>1 DEF Ownership
    <2> HIDE DEF u, j
    <2>5. Guarded(db, m, u, mk, Listed)
        BY <1>5, <2>2 DEF Offering, Trading
    <2>. QED  BY <1>6, <2>1, <2>2, <2>3, <2>4, <2>5
<1>. QED  BY <1>8, <1>9, <1>10, <1>11, <1>12, <1>13 DEF Asks

(* A process that dies takes its rows with it. *)
LEMMA OthersOwnership ==
    ASSUME Types, OwnConnections, Ownership, Mature \/ Quiet \/ \E k \in Connection : Crash(k)
    PROVE  Ownership'
<1>1. CASE UNCHANGED <<site, db, work, marks, down, job, asked>>
    BY <1>1 DEF Ownership, Mine, MarksOf, Listed
<1>2. Mature \/ Quiet => UNCHANGED <<site, db, work, marks, down, job, asked>>
    BY DEF Mature, Quiet, vars, connections, requests
<1>3. ASSUME NEW k \in Connection, Crash(k) PROVE Ownership'
    <2>1. /\ job' = [w \in Worker |-> IF site.conn[w] = k THEN Idle ELSE job[w]]
          /\ work' = [work EXCEPT ![k] = NoWork]
          /\ marks' = [marks EXCEPT ![k] = {}] /\ down' = down \ {k}
          /\ UNCHANGED <<site, db, asked>>
        BY <1>3 DEF Crash
    <2>2. \A w \in Worker :
            /\ site.conn[w] = k => Mine(w)' = NoWork /\ job'[w] = Idle
            /\ site.conn[w] # k => /\ Mine(w)' = Mine(w) /\ job'[w] = job[w]
                                   /\ MarksOf(w)' = MarksOf(w)
        BY <2>1, Connected DEF Types, Mine, MarksOf
    <2>3. DOMAIN NoWork = {} /\ Listed' = Listed
        BY <2>1 DEF NoWork, Listed
    <2>4. \A w \in Worker : (site.conn[w] \in down => job[w] = Idle /\ Mine(w) = NoWork)'
        BY <2>1, <2>2 DEF Ownership
    <2>5. (\A v, x \in Worker : \A r \in Row :
             v # x /\ r \in DOMAIN Mine(v) /\ r \in DOMAIN Mine(x) => r[1] \in {"name", "id"})'
        BY <2>2, <2>3 DEF Ownership
    <2>6. (\A v, x \in Worker :
             v # x /\ job[v].kind = "place" /\ job[x].kind = "place" => job[v].id # job[x].id)'
        BY <2>2, IdleOk DEF Ownership
    <2>7. ASSUME NEW w \in Worker PROVE Guarded(db', Mine(w)', job'[w], MarksOf(w)', Listed')
        <3>1. CASE site.conn[w] = k
            <4>1. Guarded(db, NoWork, Idle, MarksOf(w)', Listed)
                <5>1. Idle.at \notin Offering \cup Trading
                    BY IdleOk DEF Offering, Trading
                <5>. QED  BY <5>1, IdleOk, NothingGuarded
            <4>. QED  BY <2>1, <2>2, <2>3, <3>1, <4>1
        <3>2. CASE site.conn[w] # k
            BY <2>1, <2>2, <2>3, <3>2 DEF Ownership
        <3>. QED  BY <3>1, <3>2
    <2>8. /\ \A i \in Listed' : Living(db', Order[i].account)
          /\ \A u \in User : db'[UserRow(u)] # 0 => Living(db', db'[UserRow(u)])
          /\ \A i \in OfferId : db'[OfferOf(i)] # 0 => i \in Listed'
        BY <2>1, <2>3 DEF Ownership
    <2>. QED  BY <2>4, <2>5, <2>6, <2>7, <2>8 DEF Ownership
<1>. QED  BY <1>1, <1>2, <1>3

(* The values at the start, kind by kind. *)
LEMMA StartValues ==
    /\ \A a \in Account : Start[AccountRow(a)] =
         IF \E u \in Known : FirstUser[u].account = a THEN InitialBalance[a] ELSE Absent
    /\ \A i \in OfferId : Start[OfferOf(i)] = IF i \in Resting THEN Order[i].quantity ELSE 0
    /\ \A c \in ContractType, a \in Account : Start[PositionRow(c, a)] = Holdings[c][a]
    /\ \A u \in User : Start[UserRow(u)] = FirstUser[u].account
<1>1. \A a \in Account : Start[AccountRow(a)] =
        IF \E u \in Known : FirstUser[u].account = a THEN InitialBalance[a] ELSE Absent
    BY RowFacts DEF Start, FirstValue
<1>2. \A i \in OfferId : Start[OfferOf(i)] = IF i \in Resting THEN Order[i].quantity ELSE 0
    BY RowFacts DEF Start, FirstValue
<1>3. \A c \in ContractType, a \in Account : Start[PositionRow(c, a)] = Holdings[c][a]
    BY RowFacts DEF Start, FirstValue
<1>4. \A u \in User : Start[UserRow(u)] = FirstUser[u].account
    BY RowFacts DEF Start, FirstValue
<1>. QED  BY <1>1, <1>2, <1>3, <1>4

LEMMA OwnershipInit ==
    ASSUME Init
    PROVE  Ownership /\ OneUserEach
<1>1. /\ db = Start /\ down = {} /\ Listed = Resting
      /\ \A w \in Worker : job[w] = Idle
    BY DEF Init, Listed
<1>2. \A w \in Worker : Mine(w) = NoWork
    BY TypesInit, Connected DEF Init, Mine
<1>3. DOMAIN NoWork = {}
    BY DEF NoWork
<1>4. \A a \in Account : Living(db, a) <=> \E u \in Known : FirstUser[u].account = a
    <2>1. \A a \in Account : InitialBalance[a] # Absent
        BY TablesAssumption DEF Absent
    <2>. QED  BY <1>1, <2>1, StartValues DEF Living
<1>5. \A i \in Listed : Living(db, Order[i].account)
    <2>1. \A i \in Resting : i \in OfferId /\ Order[i].account \in Account
        BY ProcessesAssumption, Quantities
    <2>. QED  BY <1>1, <1>4, <2>1, StartAssumption
<1>6. \A u \in User : db[UserRow(u)] # 0 => u \in Known /\ db[UserRow(u)] \in Account
    BY <1>1, StartValues, ProcessesAssumption DEF Known, User
<1>7. \A u \in User : db[UserRow(u)] # 0 => Living(db, db[UserRow(u)])
    BY <1>1, <1>4, <1>6, StartValues
<1>8. \A i \in OfferId : db[OfferOf(i)] # 0 => i \in Listed
    BY <1>1, StartValues
<1>9. ASSUME NEW w \in Worker PROVE Guarded(db, Mine(w), job[w], MarksOf(w), Listed)
    <2>1. Idle.at \notin Offering \cup Trading
        BY IdleOk DEF Offering, Trading
    <2>. QED  BY <1>1, <1>2, <2>1, IdleOk, NothingGuarded
<1>10. OneUserEach
    <2> SUFFICES ASSUME NEW a \in Account, Living(db, a)
                 PROVE  \E u \in User : db[UserRow(u)] = a /\ \A v \in User : db[UserRow(v)] = a => v = u
        BY DEF OneUserEach
    <2>1. PICK u \in Known : FirstUser[u].account = a
        BY <1>4
    <2>2. u \in User /\ db[UserRow(u)] = a
        BY <1>1, <2>1, StartValues DEF Known
    <2>3. \A v \in User : db[UserRow(v)] = a => v \in Known /\ FirstUser[v].account = a
        BY <1>1, <1>6, StartValues DEF Account
    <2>. QED  BY <2>1, <2>2, <2>3, StartAssumption
<1>. QED  BY <1>1, <1>2, <1>3, <1>5, <1>7, <1>8, <1>9, <1>10, IdleOk DEF Ownership

(* Only a commit changes the tables, and what has reached them. *)
LEMMA OnlyCommits ==
    ASSUME NEW w \in Worker,
           \/ Asks(w) \/ Page(w) \/ Matching(w) \/ Sweeping(w) \/ Contracting(w)
           \/ LoggingIn(w) \/ Paying(w) \/ Aborted(w) \/ AbortedLogin(w) \/ DeadlockDetected(w)
    PROVE  UNCHANGED <<site, db, spoiled>>
<1>1. StatementFails(w) \/ HandlerRaises(w) => UNCHANGED <<site, db, spoiled>>
    BY DEF StatementFails, HandlerRaises, requests
<1>2. \A j : Reads(w, j) => UNCHANGED <<site, db, spoiled>>
    BY DEF Reads, requests
<1>3. \A r, x, why, j : Writes(w, r, x, why, j) \/ Updates(w, r, x, why, j)
                          => UNCHANGED <<site, db, spoiled>>
    BY DEF Writes, Updates, requests
<1>4. \A a, amount, j : Pays(w, a, amount, j) => UNCHANGED <<site, db, spoiled>>
    BY <1>1, <1>3 DEF Pays
<1>5. CASE Asks(w) \/ Page(w)
    BY <1>5 DEF Asks, Place, Cancel, List, LogIn, Resolve, Page, Request, Begins
<1>6. CASE Matching(w)
    <2>1. CASE Lookup(w)
        BY <1>3, <2>1 DEF Lookup
    <2>2. CASE Match(w)
        BY <1>2, <2>2 DEF Match
    <2>3. CASE ReadOffer(w)
        BY <1>1, <1>2, <2>3 DEF ReadOffer
    <2>4. CASE Refund(w)
        BY <1>3, <2>4 DEF Refund
    <2>5. CASE Shrink(w)
        BY <1>1, <1>3, <2>5 DEF Shrink
    <2>. QED  BY <1>6, <2>1, <2>2, <2>3, <2>4, <2>5 DEF Matching
<1>7. CASE Contracting(w)
    <2>1. CASE ReadSide(w)
        BY <1>2, <2>1 DEF ReadSide
    <2>2. CASE InsertSide(w)
        BY <1>1, <2>2 DEF InsertSide, requests
    <2>3. CASE UpdateSide(w)
        BY <1>3, <2>3 DEF UpdateSide
    <2>4. CASE DebitFixed(w)
        BY <1>4, <2>4 DEF DebitFixed
    <2>5. CASE DebitUnfixed(w)
        BY <1>1, <1>3, <2>5 DEF DebitUnfixed
    <2>6. CASE Rest(w)
        BY <1>4, <2>6 DEF Rest
    <2>7. CASE InsertOffer(w)
        BY <1>1, <1>3, <2>7 DEF InsertOffer
    <2>. QED  BY <1>7, <2>1, <2>2, <2>3, <2>4, <2>5, <2>6, <2>7 DEF Contracting
<1>8. CASE LoggingIn(w)
    <2>1. CASE FindUser(w)
        BY <1>2, <2>1 DEF FindUser
    <2>2. CASE CreateAccount(w)
        BY <1>3, <2>2 DEF CreateAccount
    <2>3. CASE SaveAccount(w)
        BY <1>3, <2>3 DEF SaveAccount
    <2>4. CASE Upsert(w)
        BY <2>4 DEF Upsert, requests
    <2>5. CASE TakeName(w)
        BY <1>1, <1>3, <2>5 DEF TakeName
    <2>. QED  BY <1>8, <2>1, <2>2, <2>3, <2>4, <2>5 DEF LoggingIn
<1>9. CASE Paying(w)
    <2>1. CASE Pick(w)
        BY <1>1, <1>2, <2>1 DEF Pick
    <2>2. CASE PayWinner(w)
        BY <1>3, <2>2 DEF PayWinner
    <2>3. CASE DeletePosition(w)
        BY <1>3, <2>3 DEF DeletePosition, requests
    <2>. QED  BY <1>9, <2>1, <2>2, <2>3 DEF Paying
<1>10. CASE Aborted(w) \/ AbortedLogin(w) \/ DeadlockDetected(w)
    BY <1>1, <1>10 DEF Aborted, AbortedLogin, DeadlockDetected, requests
<1>11. CASE Sweeping(w)
    BY <1>1, <1>2, <1>11 DEF Sweeping, Find, Filter, Clean, SweepRaises
<1>. QED  BY <1>5, <1>6, <1>7, <1>8, <1>9, <1>10, <1>11

(* Workers that have connections of their own find none that has failed.   *)
LEMMA NoneAborted ==
    ASSUME Ownership, NEW w \in Worker
    PROVE  ~ Aborted(w) /\ ~ AbortedLogin(w)
BY IdleOk DEF Ownership, Aborted, AbortedLogin

LEMMA OwnershipNext ==
    ASSUME Types, OwnConnections, Ownership, [Next]_vars
    PROVE  Ownership'
<1>1. ASSUME NEW w \in Worker, Asks(w) \/ Page(w) \/ Step(w) \/ DeadlockDetected(w)
      PROVE  Ownership'
    <2>1. DeadlockDetected(w) => StatementFails(w)
        BY DEF DeadlockDetected
    <2>. QED  BY <1>1, <2>1, AskingOwnership, MatchingOwnership, SweepingOwnership, ContractingOwnership,
                 LoggingInOwnership, PayingOwnership, CommitOwnership, NoneAborted, FailsOwnership
              DEF Step
<1>2. CASE Mature \/ Quiet \/ \E k \in Connection : Crash(k)
    BY <1>2, OthersOwnership
<1>3. CASE UNCHANGED vars
    BY <1>3 DEF Ownership, vars, connections, requests, Mine, MarksOf, Listed
<1>. QED  BY <1>1, <1>2, <1>3 DEF Next

(* A commit moves a user from one account to another only if two logins    *)
(* overlapped; it opens an account together with the user who has it.      *)
LEMMA CommitKeepsUsers ==
    ASSUME Types, OwnConnections, Ownership, OneUserEach, NEW w \in Worker, Commit(w)
    PROVE  OneUserEach'
<1> DEFINE j == job[w]
           m == Mine(w)
           mk == MarksOf(w)
           e == db'
<1>1. /\ Merged(db, m, e) /\ spoiled' = spoiled \cup mk
      /\ JobOk(j) /\ j.at = "commit"
    BY CommitEffect
<1>2. Guarded(db, m, j, mk, Listed)
    BY DEF Ownership
<1>3. /\ \A a \in Account : Living(db, a) => Living(e, a)
      /\ \A a \in Account : Living(e, a) => Living(db, a) \/ (Opening(j) /\ j.row = a)
      /\ \A y \in User : UserRow(y) \in DOMAIN m =>
           /\ HasUser(j) /\ y = Logins[j.id].user /\ e[UserRow(y)] = j.row
           /\ j.row \in Account /\ Living(e, j.row)
           /\ db[UserRow(y)] = j.left \/ "login" \in mk
      /\ \A y \in User : UserRow(y) \notin DOMAIN m => e[UserRow(y)] = db[UserRow(y)]
    BY <1>1, <1>2, CommittedLiving
<1> HIDE DEF e
<1>4. SUFFICES ASSUME "login" \notin spoiled, "login" \notin mk, NEW a \in Account, Living(e, a)
               PROVE  \E u \in User : e[UserRow(u)] = a /\ \A v \in User : e[UserRow(v)] = a => v = u
    BY <1>1 DEF OneUserEach, e
<1>5. \A b \in Account : Living(db, b) =>
        \E u \in User : db[UserRow(u)] = b /\ \A v \in User : db[UserRow(v)] = b => v = u
    BY <1>4 DEF OneUserEach
<1>6. CASE HasUser(j)
    <2> DEFINE y == Logins[j.id].user
    <2>1. y \in User /\ UserRow(y) \in DOMAIN m
        <3>1. j.id \in DOMAIN Logins
            BY <1>1, <1>6 DEF HasUser, JobOk, ValuesOk
        <3>. QED  BY <1>2, <1>6, <3>1, ProcessesAssumption DEF User, Guarded, UsersOk
    <2> HIDE DEF y
    <2>2. /\ e[UserRow(y)] = j.row /\ j.row \in Account /\ db[UserRow(y)] = j.left
          /\ \A v \in User : v # y => e[UserRow(v)] = db[UserRow(v)]
        BY <1>3, <1>4, <2>1 DEF y
    <2>3. CASE Opening(j)
        <3>1. j.left = 0 /\ ~ Living(db, j.row)
            BY <1>2, <2>3 DEF Opening, Guarded, AccountsOk
        <3>2. \A v \in User : db[UserRow(v)] # j.row
            BY <2>2, <3>1 DEF Ownership, Account
        <3>3. CASE a = j.row
            BY <2>1, <2>2, <3>2, <3>3
        <3>4. CASE a # j.row
            <4>1. Living(db, a)
                BY <1>3, <1>4, <3>4
            <4>2. PICK u \in User : db[UserRow(u)] = a /\ \A v \in User : db[UserRow(v)] = a => v = u
                BY <1>5, <4>1
            <4>3. u # y /\ a # 0
                BY <2>2, <3>1, <4>2 DEF Account
            <4>. QED  BY <2>2, <3>4, <4>2, <4>3
        <3>. QED  BY <3>3, <3>4
    <2>4. CASE Keeping(j)
        <3>1. e[UserRow(y)] = db[UserRow(y)]
            BY <1>2, <2>2, <2>4 DEF Guarded, UsersOk
        <3>2. \A v \in User : e[UserRow(v)] = db[UserRow(v)]
            BY <2>2, <3>1
        <3>3. Living(db, a)
            BY <1>3, <1>4, <2>4 DEF Opening, Keeping
        <3>. QED  BY <1>5, <3>2, <3>3
    <2>. QED  BY <1>6, <2>3, <2>4 DEF HasUser, Opening, Keeping
<1>7. CASE ~ HasUser(j)
    <2>1. \A v \in User : e[UserRow(v)] = db[UserRow(v)]
        BY <1>3, <1>7
    <2>2. Living(db, a)
        BY <1>1, <1>3, <1>4, <1>7 DEF HasUser, Opening
    <2>. QED  BY <1>5, <2>1, <2>2
<1>. QED  BY <1>6, <1>7

LEMMA KeptNext == Types /\ Kept /\ [Next]_vars => Kept'
<1> SUFFICES ASSUME Types, Kept, [Next]_vars PROVE Kept'
    OBVIOUS
<1>1. site' = site /\ (~ (\E w \in Worker : Commit(w)) => UNCHANGED <<db, spoiled>>)
    <2>1. ASSUME NEW w \in Worker, Asks(w) \/ Page(w) \/ Step(w) \/ DeadlockDetected(w)
          PROVE  site' = site /\ (Commit(w) \/ UNCHANGED <<db, spoiled>>)
        <3>1. Commit(w) => site' = site
            BY DEF Commit, requests
        <3>. QED  BY <2>1, <3>1, OnlyCommits DEF Step
    <2>2. (Mature \/ Quiet \/ \E k \in Connection : Crash(k)) => UNCHANGED <<site, db, spoiled>>
        BY DEF Mature, Quiet, Crash, vars, connections, requests
    <2>3. UNCHANGED vars => UNCHANGED <<site, db, spoiled>>
        BY DEF vars, connections, requests
    <2>. QED  BY <2>1, <2>2, <2>3 DEF Next
<1>2. SUFFICES ASSUME OwnConnections PROVE Ownership' /\ OneUserEach'
    BY <1>1 DEF Kept, OwnConnections
<1>3. Ownership /\ OneUserEach
    BY <1>2 DEF Kept
<1>4. Ownership'
    BY <1>2, <1>3, OwnershipNext
<1>5. UNCHANGED <<db, spoiled>> => OneUserEach'
    BY <1>3 DEF OneUserEach
<1>. QED  BY <1>1, <1>2, <1>3, <1>4, <1>5, CommitKeepsUsers

(* No two open transactions have written the same row, a login has written *)
(* what its user needs so far, and users keep their accounts.              *)
THEOREM KeptInvariant == Spec => []Kept
<1>1. Init => Kept
    BY OwnershipInit DEF Kept
<1>. QED  BY <1>1, KeptNext, TypesInvariant, PTL DEF Spec

(* However logins race, are refused a name, are retried or die half way:   *)
(* an account is one user's, and a user's account is there, unless two     *)
(* first logins of one user overlapped.                                    *)
THEOREM LoginsKeepAccounts == Spec => []AccountsKept
<1>1. Types /\ Kept => AccountsKept
    <2> SUFFICES ASSUME Types, Kept, OwnConnections, "login" \notin spoiled, NEW a \in Account
                 PROVE  Cardinality({u \in User : db[UserRow(u)] = a})
                          = IF db[AccountRow(a)] = Absent THEN 0 ELSE 1
        BY DEF AccountsKept
    <2> DEFINE S == {u \in User : db[UserRow(u)] = a}
    <2>1. CASE Living(db, a)
        <3>1. PICK u \in User : db[UserRow(u)] = a /\ \A v \in User : db[UserRow(v)] = a => v = u
            BY <2>1 DEF Kept, OneUserEach
        <3>2. S = {u}
            BY <3>1
        <3>. QED  BY <2>1, <3>2, FS_Singleton DEF Living
    <2>2. CASE ~ Living(db, a)
        <3>1. S = {}
            BY <2>2 DEF Kept, Ownership, Account
        <3>. QED  BY <2>2, <3>1, FS_EmptySet DEF Living
    <2>. QED  BY <2>1, <2>2
<1>. QED  BY <1>1, TypesInvariant, KeptInvariant, PTL

(***************************************************************************)
(* That what is committed adds up, however transactions interleave.        *)
(*                                                                         *)
(* The rows of an open transaction do not balance by themselves: in the    *)
(* middle of an order they hold a position that nobody has paid for yet.   *)
(* The invariant says for each worker what its rows lack or have too much, *)
(* as a function of the statement it has come to and of its local          *)
(* variables; at a commit that is nothing, or the balance of a new         *)
(* account.  As no two transactions write one row, a commit leaves         *)
(* everybody else's difference what it was.                                *)
(***************************************************************************)

(* The committed rows d with the rows m of a transaction on top. *)
Laid(d, m) == [r \in Row |-> IF r \in DOMAIN m THEN m[r] ELSE d[r]]

(* The units of a contract type, FIXED ones less UNFIXED ones. *)
NetOf(t, c) == SumTo([a \in Account |-> t[PositionRow(c, a)]], NumAccounts)

(* The balances, the escrow of the offers and the stakes of the positions. *)
Deposits(t) == [a \in Account |-> AtLeastZero(t[AccountRow(a)])]
Escrowed(t) == [i \in OfferId |-> Cost(Order[i].side, Order[i].price, t[OfferOf(i)])]
StakesOn(t, c) == [a \in Account |-> Unit * AtLeastZero(t[PositionRow(c, a)])]
AllStakes(t) == [c \in ContractType |-> SumTo(StakesOn(t, c), NumAccounts)]

(***************************************************************************)
(* What a transaction owes.                                                *)
(***************************************************************************)
(* resolve() has added these units up and deleted them. *)
Summed(j) == IF j.at \in {"credit", "delete"} THEN j.left - j.got ELSE j.left

(* The position that resolve() has picked is on the side that wins. *)
HasWon(j) == (j.got > 0) <=> (j.half = FIXED)

(* What resolve() has paid more than it has taken: when UNFIXED wins, the  *)
(* stakes it has deleted were counted on the FIXED side.                   *)
PaidAhead(j) ==
    (IF j.half = UNFIXED THEN - Unit * Summed(j) ELSE 0)
      + (IF j.at = "delete" /\ HasWon(j) THEN Unit * Abs(j.got) ELSE 0)

(* What the rows of a transaction have too much: a refund whose offer has  *)
(* not shrunk yet, a contract that is not paid for, a debit whose offer    *)
(* does not rest yet, the balance of a new account.                        *)
Owed(j, grant) ==
    CASE j.at = "shrink" -> Cost(Order[j.row].side, Order[j.row].price, j.n)
      [] j.at \in {"side", "store"} /\ j.half = UNFIXED ->
            Cost(UNFIXED, Order[j.id].price, j.n) + j.due[FIXED]
      [] j.at = "debit" /\ j.half = FIXED -> j.due[FIXED] + j.due[UNFIXED]
      [] j.at = "debit" /\ j.half = UNFIXED -> j.due[UNFIXED]
      [] j.at = "insert" -> - Cost(Order[j.id].side, Order[j.id].price, j.left)
      [] Opening(j) -> grant
      [] j.kind = "pay" -> PaidAhead(j)
      [] OTHER -> 0

(* The units that only one side of a contract has yet, or has no more. *)
Unpaired(j, c) ==
    CASE j.at \in {"side", "store"} /\ j.half = UNFIXED /\ c = Order[j.id].ct -> j.n
      [] j.kind = "pay" /\ c = j.id -> - Summed(j)
      [] OTHER -> 0

Balanced(d, m, j, grant) ==
    /\ Total(Laid(d, m)) = Total(d) + Owed(j, grant)
    /\ \A c \in ContractType : NetOf(Laid(d, m), c) = NetOf(d, c) + Unpaired(j, c)

(***************************************************************************)
(* What the local variables have to do with the rows.                      *)
(***************************************************************************)
(* resolve() deletes what it has read of a winner or of a loser, and comes  *)
(* to its commit if the total is zero.                                     *)
Picked(j) ==
    /\ j.at = "credit" => HasWon(j)
    /\ j.at \in {"credit", "delete"} => j.got # 0
    /\ j.kind = "pay" /\ j.at = "commit" => j.left = 0

Orderly(d, m, j, grant) == Picked(j) /\ Balanced(d, m, j, grant)

(* An order writes under the lock of its contract type, and whoever has a  *)
(* position has an account.                                                *)
Backed(d, m, j) ==
    /\ j.kind = "place" /\ j.at # "lookup" => TypeRow(Order[j.id].ct) \in DOMAIN m
    /\ \A c \in ContractType, a \in Account : PositionRow(c, a) \in DOMAIN m => Living(d, a)
    /\ j.at \in {"credit", "delete"} => Living(d, j.row)

(* No account that was there or has a position goes away. *)
Rooted(d) ==
    /\ \A a \in Account : Living(Start, a) => Living(d, a)
    /\ \A c \in ContractType, a \in Account : d[PositionRow(c, a)] # 0 => Living(d, a)

Grounded ==
    /\ Rooted(db)
    /\ \A w \in Worker : Backed(db, Mine(w), job[w])

(* As long as nothing that was spoiled has been committed, the tables add  *)
(* up, and so does every transaction that is not spoiled.                  *)
AddsUp ==
    spoiled = {} =>
        /\ Conserved /\ ZeroSum
        /\ \A w \in Worker :
             MarksOf(w) = {} => Orderly(db, Mine(w), job[w], site.grant)

Reckoned == OwnConnections => Grounded /\ AddsUp

(***************************************************************************)
(* Sums over the rows.                                                     *)
(***************************************************************************)
Valid(t) == \A r \in Row : ValueOk(r, t[r])

(* Two tables that differ in row r only. *)
But(t, u, r) == \A s \in Row : s # r => u[s] = t[s]

LEMMA TotalParts ==
    ASSUME NEW t
    PROVE  Total(t) = SumTo(Deposits(t), NumAccounts) + SumTo(Escrowed(t), MaxOrders)
                        + SumTo(AllStakes(t), NumTypes)
BY DEF Total, Deposits, Escrowed, AllStakes, StakesOn

(* How many there are of each. *)
LEMMA Numbers ==
    /\ NumAccounts \in Nat /\ Account = 1..NumAccounts
    /\ MaxOrders \in Nat /\ OfferId = 1..MaxOrders
    /\ NumTypes \in Nat /\ ContractType = 1..NumTypes
BY TablesAssumption DEF Account, OfferId, ContractType

LEMMA TermsInt ==
    ASSUME NEW t, Valid(t)
    PROVE  /\ \A k \in 1..NumAccounts : Deposits(t)[k] \in Int
           /\ \A k \in 1..MaxOrders : Escrowed(t)[k] \in Int
           /\ \A c \in ContractType : \A k \in 1..NumAccounts : StakesOn(t, c)[k] \in Int
           /\ \A k \in 1..NumTypes : AllStakes(t)[k] \in Int
<1>1. ASSUME NEW k \in Account PROVE Deposits(t)[k] \in Int
    <2>1. t[AccountRow(k)] \in Int
        BY RowFacts DEF Valid, ValueOk
    <2>. QED  BY <2>1 DEF Deposits, AtLeastZero
<1>2. ASSUME NEW k \in OfferId PROVE Escrowed(t)[k] \in Int
    <2>1. t[OfferOf(k)] \in Int
        BY RowFacts DEF Valid, ValueOk
    <2>2. Cost(Order[k].side, Order[k].price, t[OfferOf(k)]) \in Int
        BY <2>1, CostType
    <2>. QED  BY <2>2 DEF Escrowed
<1>3. ASSUME NEW c \in ContractType, NEW k \in Account PROVE StakesOn(t, c)[k] \in Int
    <2>1. t[PositionRow(c, k)] \in Int
        BY RowFacts DEF Valid, ValueOk
    <2>. QED  BY <2>1 DEF StakesOn, AtLeastZero, Unit
<1>4. ASSUME NEW c \in ContractType PROVE AllStakes(t)[c] \in Int
    <2>1. SumTo(StakesOn(t, c), NumAccounts) \in Int
        BY <1>3, Numbers, SumToInt
    <2>. QED  BY <2>1 DEF AllStakes
<1>. QED  BY <1>1, <1>2, <1>3, <1>4, Numbers

LEMMA TotalInt ==
    ASSUME NEW t, Valid(t)
    PROVE  Total(t) \in Int /\ \A c \in ContractType : NetOf(t, c) \in Int
<1>1. SumTo(Deposits(t), NumAccounts) \in Int
    BY TermsInt, Numbers, SumToInt
<1>2. SumTo(Escrowed(t), MaxOrders) \in Int
    BY TermsInt, Numbers, SumToInt
<1>3. SumTo(AllStakes(t), NumTypes) \in Int
    BY TermsInt, Numbers, SumToInt
<1>4. ASSUME NEW c \in ContractType PROVE NetOf(t, c) \in Int
    <2> DEFINE f == [a \in Account |-> t[PositionRow(c, a)]]
    <2>1. \A a \in Account : f[a] \in Int
        BY RowFacts DEF Valid, ValueOk
    <2> HIDE DEF f
    <2>2. SumTo(f, NumAccounts) \in Int
        BY <2>1, Numbers, SumToInt
    <2>. QED  BY <2>2 DEF NetOf, f
<1>. QED  BY <1>1, <1>2, <1>3, <1>4, TotalParts

(* Locks, users and names hold no tokens. *)
LEMMA SameTotal ==
    ASSUME NEW t, NEW u,
           \A r \in Row : r[1] \in {"account", "offer", "position"} => u[r] = t[r]
    PROVE  Total(u) = Total(t) /\ \A c \in ContractType : NetOf(u, c) = NetOf(t, c)
<1>1. Deposits(u) = Deposits(t)
    BY RowFacts DEF Deposits
<1>2. Escrowed(u) = Escrowed(t)
    BY RowFacts DEF Escrowed
<1>3. \A c \in ContractType : StakesOn(u, c) = StakesOn(t, c)
    BY RowFacts DEF StakesOn
<1>4. AllStakes(u) = AllStakes(t)
    BY <1>3 DEF AllStakes
<1>5. ASSUME NEW c \in ContractType PROVE NetOf(u, c) = NetOf(t, c)
    <2>1. [a \in Account |-> u[PositionRow(c, a)]] = [a \in Account |-> t[PositionRow(c, a)]]
        BY RowFacts
    <2>. QED  BY <2>1 DEF NetOf
<1>. QED  BY <1>1, <1>2, <1>4, <1>5, TotalParts

LEMMA AccountTotal ==
    ASSUME NEW t, Valid(t), NEW u, Valid(u), NEW a \in Account, But(t, u, AccountRow(a))
    PROVE  /\ Total(u) = Total(t) + (AtLeastZero(u[AccountRow(a)]) - AtLeastZero(t[AccountRow(a)]))
           /\ \A c \in ContractType : NetOf(u, c) = NetOf(t, c)
<1>1. \A b \in Account : b # a => AccountRow(b) # AccountRow(a)
    BY RowFacts
<1>2. \A r \in Row : r[1] # "account" => r # AccountRow(a)
    BY RowFacts
<1>3. \A k \in Account : k # a => Deposits(u)[k] = Deposits(t)[k]
    BY <1>1, RowFacts DEF Deposits, But
<1>4. SumTo(Deposits(u), NumAccounts)
        = SumTo(Deposits(t), NumAccounts) + (Deposits(u)[a] - Deposits(t)[a])
    BY <1>3, TermsInt, Numbers, SumToChange
<1>5. Escrowed(u) = Escrowed(t)
    BY <1>2, RowFacts DEF Escrowed, But
<1>6. \A c \in ContractType : StakesOn(u, c) = StakesOn(t, c)
    BY <1>2, RowFacts DEF StakesOn, But
<1>7. AllStakes(u) = AllStakes(t)
    BY <1>6 DEF AllStakes
<1>8. ASSUME NEW c \in ContractType PROVE NetOf(u, c) = NetOf(t, c)
    <2>1. [b \in Account |-> u[PositionRow(c, b)]] = [b \in Account |-> t[PositionRow(c, b)]]
        BY <1>2, RowFacts DEF But
    <2>. QED  BY <2>1 DEF NetOf
<1>9. Deposits(u)[a] = AtLeastZero(u[AccountRow(a)]) /\ Deposits(t)[a] = AtLeastZero(t[AccountRow(a)])
    BY DEF Deposits
<1>10. /\ SumTo(Deposits(t), NumAccounts) \in Int /\ SumTo(Escrowed(t), MaxOrders) \in Int
       /\ SumTo(AllStakes(t), NumTypes) \in Int
       /\ Deposits(u)[a] \in Int /\ Deposits(t)[a] \in Int
    BY TermsInt, Numbers, SumToInt
<1>. QED  BY <1>4, <1>5, <1>7, <1>8, <1>9, <1>10, TotalParts

LEMMA OfferTotal ==
    ASSUME NEW t, Valid(t), NEW u, Valid(u), NEW i \in OfferId, But(t, u, OfferOf(i))
    PROVE  /\ Total(u) = Total(t) + (Cost(Order[i].side, Order[i].price, u[OfferOf(i)])
                                       - Cost(Order[i].side, Order[i].price, t[OfferOf(i)]))
           /\ \A c \in ContractType : NetOf(u, c) = NetOf(t, c)
<1>1. \A k \in OfferId : k # i => OfferOf(k) # OfferOf(i)
    BY RowFacts
<1>2. \A r \in Row : r[1] # "offer" => r # OfferOf(i)
    BY RowFacts
<1>3. \A k \in OfferId : k # i => Escrowed(u)[k] = Escrowed(t)[k]
    BY <1>1, RowFacts DEF Escrowed, But
<1>4. SumTo(Escrowed(u), MaxOrders)
        = SumTo(Escrowed(t), MaxOrders) + (Escrowed(u)[i] - Escrowed(t)[i])
    BY <1>3, TermsInt, Numbers, SumToChange
<1>5. Deposits(u) = Deposits(t)
    BY <1>2, RowFacts DEF Deposits, But
<1>6. \A c \in ContractType : StakesOn(u, c) = StakesOn(t, c)
    BY <1>2, RowFacts DEF StakesOn, But
<1>7. AllStakes(u) = AllStakes(t)
    BY <1>6 DEF AllStakes
<1>8. ASSUME NEW c \in ContractType PROVE NetOf(u, c) = NetOf(t, c)
    <2>1. [b \in Account |-> u[PositionRow(c, b)]] = [b \in Account |-> t[PositionRow(c, b)]]
        BY <1>2, RowFacts DEF But
    <2>. QED  BY <2>1 DEF NetOf
<1>9. /\ Escrowed(u)[i] = Cost(Order[i].side, Order[i].price, u[OfferOf(i)])
      /\ Escrowed(t)[i] = Cost(Order[i].side, Order[i].price, t[OfferOf(i)])
    BY DEF Escrowed
<1>10. /\ SumTo(Deposits(t), NumAccounts) \in Int /\ SumTo(Escrowed(t), MaxOrders) \in Int
       /\ SumTo(AllStakes(t), NumTypes) \in Int
       /\ Escrowed(u)[i] \in Int /\ Escrowed(t)[i] \in Int
    BY TermsInt, Numbers, SumToInt
<1>. QED  BY <1>4, <1>5, <1>7, <1>8, <1>9, <1>10, TotalParts

LEMMA PositionTotal ==
    ASSUME NEW t, Valid(t), NEW u, Valid(u), NEW c \in ContractType, NEW a \in Account,
           But(t, u, PositionRow(c, a))
    PROVE  /\ Total(u) = Total(t) + (Unit * AtLeastZero(u[PositionRow(c, a)])
                                       - Unit * AtLeastZero(t[PositionRow(c, a)]))
           /\ \A d \in ContractType :
                NetOf(u, d) = NetOf(t, d) + (IF d = c THEN u[PositionRow(c, a)] - t[PositionRow(c, a)]
                                             ELSE 0)
<1>1. \A d \in ContractType, b \in Account :
        d # c \/ b # a => PositionRow(d, b) # PositionRow(c, a)
    BY RowFacts
<1>2. \A r \in Row : r[1] # "position" => r # PositionRow(c, a)
    BY RowFacts
<1>3. Deposits(u) = Deposits(t)
    BY <1>2, RowFacts DEF Deposits, But
<1>4. Escrowed(u) = Escrowed(t)
    BY <1>2, RowFacts DEF Escrowed, But
<1>5. ASSUME NEW d \in ContractType, d # c
      PROVE  AllStakes(u)[d] = AllStakes(t)[d] /\ NetOf(u, d) = NetOf(t, d)
    <2>1. \A b \in Account : u[PositionRow(d, b)] = t[PositionRow(d, b)]
        BY <1>1, <1>5, RowFacts DEF But
    <2>2. StakesOn(u, d) = StakesOn(t, d)
        BY <2>1 DEF StakesOn
    <2>3. [b \in Account |-> u[PositionRow(d, b)]] = [b \in Account |-> t[PositionRow(d, b)]]
        BY <2>1
    <2>. QED  BY <2>2, <2>3 DEF AllStakes, NetOf
<1>6. \A b \in Account : b # a => u[PositionRow(c, b)] = t[PositionRow(c, b)]
    BY <1>1, RowFacts DEF But
<1>7. /\ StakesOn(u, c)[a] = Unit * AtLeastZero(u[PositionRow(c, a)])
      /\ StakesOn(t, c)[a] = Unit * AtLeastZero(t[PositionRow(c, a)])
      /\ AllStakes(u)[c] = SumTo(StakesOn(u, c), NumAccounts)
      /\ AllStakes(t)[c] = SumTo(StakesOn(t, c), NumAccounts)
    BY DEF StakesOn, AllStakes
<1>8. SumTo(StakesOn(u, c), NumAccounts)
        = SumTo(StakesOn(t, c), NumAccounts) + (StakesOn(u, c)[a] - StakesOn(t, c)[a])
    <2>1. \A k \in Account : k # a => StakesOn(u, c)[k] = StakesOn(t, c)[k]
        BY <1>6 DEF StakesOn
    <2>. QED  BY <2>1, TermsInt, Numbers, SumToChange
<1>9. SumTo(AllStakes(u), NumTypes)
        = SumTo(AllStakes(t), NumTypes) + (AllStakes(u)[c] - AllStakes(t)[c])
    BY <1>5, TermsInt, Numbers, SumToChange
<1>10. NetOf(u, c) = NetOf(t, c) + (u[PositionRow(c, a)] - t[PositionRow(c, a)])
    <2> DEFINE f == [b \in Account |-> u[PositionRow(c, b)]]
               g == [b \in Account |-> t[PositionRow(c, b)]]
    <2>1. \A b \in Account : f[b] \in Int /\ g[b] \in Int
        BY RowFacts DEF Valid, ValueOk
    <2>2. \A b \in Account : b # a => f[b] = g[b]
        BY <1>6
    <2>3. f[a] = u[PositionRow(c, a)] /\ g[a] = t[PositionRow(c, a)]
        OBVIOUS
    <2> HIDE DEF f, g
    <2>4. SumTo(f, NumAccounts) = SumTo(g, NumAccounts) + (f[a] - g[a])
        BY <2>1, <2>2, Numbers, SumToChange
    <2>. QED  BY <2>3, <2>4 DEF NetOf, f, g
<1>11. /\ SumTo(Deposits(t), NumAccounts) \in Int /\ SumTo(Escrowed(t), MaxOrders) \in Int
       /\ SumTo(AllStakes(t), NumTypes) \in Int
       /\ AllStakes(u)[c] \in Int /\ AllStakes(t)[c] \in Int
       /\ StakesOn(u, c)[a] \in Int /\ StakesOn(t, c)[a] \in Int
    BY TermsInt, Numbers, SumToInt
<1>12. Total(u) = Total(t) + (StakesOn(u, c)[a] - StakesOn(t, c)[a])
    BY <1>3, <1>4, <1>7, <1>8, <1>9, <1>11, TotalParts
<1>13. \A d \in ContractType : NetOf(t, d) \in Int
    BY TotalInt
<1>. QED  BY <1>5, <1>7, <1>10, <1>12, <1>13

(* Two pairs of functions with the same differences. *)
LEMMA SameGap ==
    ASSUME NEW f, NEW g, NEW p, NEW q, NEW n \in Nat,
           \A k \in 1..n : f[k] \in Int /\ g[k] \in Int /\ p[k] \in Int /\ q[k] \in Int,
           \A k \in 1..n : f[k] - g[k] = p[k] - q[k]
    PROVE  /\ SumTo(f, n) - SumTo(g, n) = SumTo(p, n) - SumTo(q, n)
           /\ SumTo(f, n) \in Int /\ SumTo(g, n) \in Int
           /\ SumTo(p, n) \in Int /\ SumTo(q, n) \in Int
<1> DEFINE h == [k \in 1..n |-> f[k] - g[k]]
<1>1. \A k \in 1..n : h[k] = f[k] - g[k] /\ h[k] = p[k] - q[k]
    OBVIOUS
<1> HIDE DEF h
<1>2. SumTo(h, n) = SumTo(f, n) - SumTo(g, n)
    BY <1>1, SumToDifference
<1>3. SumTo(h, n) = SumTo(p, n) - SumTo(q, n)
    BY <1>1, SumToDifference
<1>. QED  BY <1>2, <1>3, SumToInt

(***************************************************************************)
(* The rows of a transaction on top of the committed ones.                 *)
(***************************************************************************)
LEMMA LaidRows ==
    ASSUME NEW d, NEW m
    PROVE  \A r \in Row : Laid(d, m)[r] = IF r \in DOMAIN m THEN m[r] ELSE d[r]
BY DEF Laid

LEMMA LaidValid ==
    ASSUME NEW d, Valid(d), NEW m, RowsOk(m)
    PROVE  Valid(Laid(d, m))
BY DEF Laid, Valid, RowsOk

(* What a worker sees are its own rows on top of the committed ones. *)
LEMMA SeenLaid ==
    ASSUME NEW w \in Worker, NEW r \in Row
    PROVE  Seen(w, r) = Laid(db, Mine(w))[r]
BY DEF Laid, Seen, View, Mine

LEMMA LaidPut ==
    ASSUME NEW d, NEW m, NEW r \in Row, NEW x
    PROVE  /\ Laid(d, Put(m, r, x))[r] = x
           /\ But(Laid(d, m), Laid(d, Put(m, r, x)), r)
<1>1. Laid(d, Put(m, r, x))[r] = x
    BY PutDomain, PutRows DEF Laid
<1>2. ASSUME NEW s \in Row, s # r PROVE Laid(d, Put(m, r, x))[s] = Laid(d, m)[s]
    BY <1>2, PutDomain, PutRows DEF Laid
<1>. QED  BY <1>1, <1>2 DEF But

(* Whoever has written nothing has nothing too much. *)
LEMMA NothingLaid ==
    ASSUME NEW d, NEW m,
           \A r \in Row : r \in DOMAIN m => r[1] \notin {"account", "offer", "position"}
    PROVE  /\ Total(Laid(d, m)) = Total(d)
           /\ \A c \in ContractType : NetOf(Laid(d, m), c) = NetOf(d, c)
<1>1. \A r \in Row : r[1] \in {"account", "offer", "position"} => Laid(d, m)[r] = d[r]
    BY DEF Laid
<1>. QED  BY <1>1, SameTotal

(* A transaction that commits m leaves what the rows n of another one have *)
(* too much as it was.                                                     *)
Apart(m, n) == \A r \in Row : r \in DOMAIN m /\ r \in DOMAIN n => r[1] \in {"name", "id"}

LEMMA MergedGap ==
    ASSUME NEW d, Valid(d), NEW m, RowsOk(m), NEW e, Valid(e), Merged(d, m, e),
           NEW n, RowsOk(n), Apart(m, n)
    PROVE  /\ Total(Laid(e, n)) - Total(e) = Total(Laid(d, n)) - Total(d)
           /\ \A c \in ContractType :
                NetOf(Laid(e, n), c) - NetOf(e, c) = NetOf(Laid(d, n), c) - NetOf(d, c)
<1> DEFINE t == Laid(e, n)
           u == Laid(d, n)
<1>1. Valid(t) /\ Valid(u)
    BY LaidValid
<1>2. ASSUME NEW r \in Row, r[1] \notin {"name", "id"}
      PROVE  (t[r] = e[r] /\ u[r] = d[r]) \/ (t[r] = u[r] /\ e[r] = d[r])
    BY <1>2, LaidRows DEF Merged, Apart
<1> HIDE DEF t, u
<1>3. \A k \in Account : Deposits(t)[k] - Deposits(e)[k] = Deposits(u)[k] - Deposits(d)[k]
    <2> SUFFICES ASSUME NEW k \in Account
                 PROVE  Deposits(t)[k] - Deposits(e)[k] = Deposits(u)[k] - Deposits(d)[k]
        OBVIOUS
    <2>1. \/ Deposits(t)[k] = Deposits(e)[k] /\ Deposits(u)[k] = Deposits(d)[k]
          \/ Deposits(t)[k] = Deposits(u)[k] /\ Deposits(e)[k] = Deposits(d)[k]
        BY <1>2, RowFacts DEF Deposits
    <2>. QED  BY <1>1, <2>1, TermsInt, Numbers
<1>4. \A k \in OfferId : Escrowed(t)[k] - Escrowed(e)[k] = Escrowed(u)[k] - Escrowed(d)[k]
    <2> SUFFICES ASSUME NEW k \in OfferId
                 PROVE  Escrowed(t)[k] - Escrowed(e)[k] = Escrowed(u)[k] - Escrowed(d)[k]
        OBVIOUS
    <2>1. \/ Escrowed(t)[k] = Escrowed(e)[k] /\ Escrowed(u)[k] = Escrowed(d)[k]
          \/ Escrowed(t)[k] = Escrowed(u)[k] /\ Escrowed(e)[k] = Escrowed(d)[k]
        BY <1>2, RowFacts DEF Escrowed
    <2>. QED  BY <1>1, <2>1, TermsInt, Numbers
<1>5. ASSUME NEW c \in ContractType
      PROVE  AllStakes(t)[c] - AllStakes(e)[c] = AllStakes(u)[c] - AllStakes(d)[c]
    <2>1. ASSUME NEW k \in Account
          PROVE  StakesOn(t, c)[k] - StakesOn(e, c)[k] = StakesOn(u, c)[k] - StakesOn(d, c)[k]
        <3>1. \/ StakesOn(t, c)[k] = StakesOn(e, c)[k] /\ StakesOn(u, c)[k] = StakesOn(d, c)[k]
              \/ StakesOn(t, c)[k] = StakesOn(u, c)[k] /\ StakesOn(e, c)[k] = StakesOn(d, c)[k]
            BY <1>2, RowFacts DEF StakesOn
        <3>. QED  BY <1>1, <3>1, TermsInt, Numbers
    <2>2. \A k \in 1..NumAccounts :
             /\ StakesOn(t, c)[k] \in Int /\ StakesOn(e, c)[k] \in Int
             /\ StakesOn(u, c)[k] \in Int /\ StakesOn(d, c)[k] \in Int
        BY <1>1, TermsInt
    <2>3. \A k \in 1..NumAccounts :
             StakesOn(t, c)[k] - StakesOn(e, c)[k] = StakesOn(u, c)[k] - StakesOn(d, c)[k]
        BY <2>1, Numbers
    <2>4. SumTo(StakesOn(t, c), NumAccounts) - SumTo(StakesOn(e, c), NumAccounts)
            = SumTo(StakesOn(u, c), NumAccounts) - SumTo(StakesOn(d, c), NumAccounts)
        BY <2>2, <2>3, Numbers, SameGap
    <2>. QED  BY <2>4 DEF AllStakes
<1>6. /\ SumTo(Deposits(t), NumAccounts) - SumTo(Deposits(e), NumAccounts)
           = SumTo(Deposits(u), NumAccounts) - SumTo(Deposits(d), NumAccounts)
      /\ SumTo(Deposits(t), NumAccounts) \in Int /\ SumTo(Deposits(e), NumAccounts) \in Int
      /\ SumTo(Deposits(u), NumAccounts) \in Int /\ SumTo(Deposits(d), NumAccounts) \in Int
    <2>1. \A k \in 1..NumAccounts :
             /\ Deposits(t)[k] \in Int /\ Deposits(e)[k] \in Int
             /\ Deposits(u)[k] \in Int /\ Deposits(d)[k] \in Int
        BY <1>1, TermsInt
    <2>2. \A k \in 1..NumAccounts : Deposits(t)[k] - Deposits(e)[k] = Deposits(u)[k] - Deposits(d)[k]
        BY <1>3, Numbers
    <2>3. SumTo(Deposits(t), NumAccounts) - SumTo(Deposits(e), NumAccounts)
            = SumTo(Deposits(u), NumAccounts) - SumTo(Deposits(d), NumAccounts)
        BY <2>1, <2>2, Numbers, SameGap
    <2>4. /\ SumTo(Deposits(t), NumAccounts) \in Int /\ SumTo(Deposits(e), NumAccounts) \in Int
          /\ SumTo(Deposits(u), NumAccounts) \in Int /\ SumTo(Deposits(d), NumAccounts) \in Int
        BY <2>1, Numbers, SumToInt
    <2>. QED  BY <2>3, <2>4
<1>7. /\ SumTo(Escrowed(t), MaxOrders) - SumTo(Escrowed(e), MaxOrders)
           = SumTo(Escrowed(u), MaxOrders) - SumTo(Escrowed(d), MaxOrders)
      /\ SumTo(Escrowed(t), MaxOrders) \in Int /\ SumTo(Escrowed(e), MaxOrders) \in Int
      /\ SumTo(Escrowed(u), MaxOrders) \in Int /\ SumTo(Escrowed(d), MaxOrders) \in Int
    <2>1. \A k \in 1..MaxOrders :
             /\ Escrowed(t)[k] \in Int /\ Escrowed(e)[k] \in Int
             /\ Escrowed(u)[k] \in Int /\ Escrowed(d)[k] \in Int
        BY <1>1, TermsInt
    <2>2. \A k \in 1..MaxOrders : Escrowed(t)[k] - Escrowed(e)[k] = Escrowed(u)[k] - Escrowed(d)[k]
        BY <1>4, Numbers
    <2>3. SumTo(Escrowed(t), MaxOrders) - SumTo(Escrowed(e), MaxOrders)
            = SumTo(Escrowed(u), MaxOrders) - SumTo(Escrowed(d), MaxOrders)
        BY <2>1, <2>2, Numbers, SameGap
    <2>4. /\ SumTo(Escrowed(t), MaxOrders) \in Int /\ SumTo(Escrowed(e), MaxOrders) \in Int
          /\ SumTo(Escrowed(u), MaxOrders) \in Int /\ SumTo(Escrowed(d), MaxOrders) \in Int
        BY <2>1, Numbers, SumToInt
    <2>. QED  BY <2>3, <2>4
<1>8. /\ SumTo(AllStakes(t), NumTypes) - SumTo(AllStakes(e), NumTypes)
           = SumTo(AllStakes(u), NumTypes) - SumTo(AllStakes(d), NumTypes)
      /\ SumTo(AllStakes(t), NumTypes) \in Int /\ SumTo(AllStakes(e), NumTypes) \in Int
      /\ SumTo(AllStakes(u), NumTypes) \in Int /\ SumTo(AllStakes(d), NumTypes) \in Int
    <2>1. \A k \in 1..NumTypes :
             /\ AllStakes(t)[k] \in Int /\ AllStakes(e)[k] \in Int
             /\ AllStakes(u)[k] \in Int /\ AllStakes(d)[k] \in Int
        BY <1>1, TermsInt
    <2>2. \A k \in 1..NumTypes : AllStakes(t)[k] - AllStakes(e)[k] = AllStakes(u)[k] - AllStakes(d)[k]
        BY <1>5, Numbers
    <2>3. SumTo(AllStakes(t), NumTypes) - SumTo(AllStakes(e), NumTypes)
            = SumTo(AllStakes(u), NumTypes) - SumTo(AllStakes(d), NumTypes)
        BY <2>1, <2>2, Numbers, SameGap
    <2>4. /\ SumTo(AllStakes(t), NumTypes) \in Int /\ SumTo(AllStakes(e), NumTypes) \in Int
          /\ SumTo(AllStakes(u), NumTypes) \in Int /\ SumTo(AllStakes(d), NumTypes) \in Int
        BY <2>1, Numbers, SumToInt
    <2>. QED  BY <2>3, <2>4
<1>9. Total(t) - Total(e) = Total(u) - Total(d)
    <2>1. /\ Total(t) = SumTo(Deposits(t), NumAccounts) + SumTo(Escrowed(t), MaxOrders)
                          + SumTo(AllStakes(t), NumTypes)
          /\ Total(e) = SumTo(Deposits(e), NumAccounts) + SumTo(Escrowed(e), MaxOrders)
                          + SumTo(AllStakes(e), NumTypes)
        BY TotalParts
    <2>2. /\ Total(u) = SumTo(Deposits(u), NumAccounts) + SumTo(Escrowed(u), MaxOrders)
                          + SumTo(AllStakes(u), NumTypes)
          /\ Total(d) = SumTo(Deposits(d), NumAccounts) + SumTo(Escrowed(d), MaxOrders)
                          + SumTo(AllStakes(d), NumTypes)
        BY TotalParts
    <2>. QED  BY ONLY <1>6, <1>7, <1>8, <2>1, <2>2, SMT
<1>10. ASSUME NEW c \in ContractType
       PROVE  NetOf(t, c) - NetOf(e, c) = NetOf(u, c) - NetOf(d, c)
    <2> DEFINE ft == [a \in Account |-> t[PositionRow(c, a)]]
               fe == [a \in Account |-> e[PositionRow(c, a)]]
               fu == [a \in Account |-> u[PositionRow(c, a)]]
               fd == [a \in Account |-> d[PositionRow(c, a)]]
    <2>1. \A a \in Account : ft[a] \in Int /\ fe[a] \in Int /\ fu[a] \in Int /\ fd[a] \in Int
        BY <1>1, RowFacts DEF Valid, ValueOk
    <2>2. \A a \in Account : (ft[a] = fe[a] /\ fu[a] = fd[a]) \/ (ft[a] = fu[a] /\ fe[a] = fd[a])
        BY <1>2, RowFacts
    <2> HIDE DEF ft, fe, fu, fd
    <2>3. \A a \in Account : ft[a] - fe[a] = fu[a] - fd[a]
        BY <2>1, <2>2
    <2>4. SumTo(ft, NumAccounts) - SumTo(fe, NumAccounts)
            = SumTo(fu, NumAccounts) - SumTo(fd, NumAccounts)
        BY <2>1, <2>3, Numbers, SameGap
    <2>. QED  BY <2>4 DEF NetOf, ft, fe, fu, fd
<1>. QED  BY <1>9, <1>10 DEF t, u

(***************************************************************************)
(* One worker goes on, and what the others have stays as it was.           *)
(***************************************************************************)
LEMMA RowsValid ==
    ASSUME Types
    PROVE  Valid(db) /\ \A w \in Worker : RowsOk(Mine(w)) /\ JobOk(job[w])
BY Connected DEF Types, Valid, RowsOk, Mine

LEMMA AloneGrounded ==
    ASSUME Types, OwnConnections, Grounded, NEW w \in Worker, NEW m, NEW j, NEW mk,
           Alone(w, m, j, mk), Backed(db, m, j)
    PROVE  Grounded'
<1>1. /\ Mine(w)' = m /\ job'[w] = j
      /\ \A v \in Worker : v # w => Mine(v)' = Mine(v) /\ job'[v] = job[v]
    BY AloneEffect
<1>2. db' = db
    BY DEF Alone
<1>3. ASSUME NEW v \in Worker PROVE Backed(db', Mine(v)', job'[v])
    <2>1. CASE v = w
        BY <1>1, <1>2, <2>1
    <2>2. CASE v # w
        BY <1>1, <1>2, <2>2 DEF Grounded
    <2>. QED  BY <2>1, <2>2
<1>4. Rooted(db')
    BY <1>2 DEF Grounded
<1>. QED  BY <1>3, <1>4 DEF Grounded

LEMMA AloneAddsUp ==
    ASSUME Types, OwnConnections, AddsUp, NEW w \in Worker, NEW m, NEW j, NEW mk,
           Alone(w, m, j, mk),
           spoiled = {} /\ mk = {} => Orderly(db, m, j, site.grant)
    PROVE  AddsUp'
<1>1. /\ Mine(w)' = m /\ job'[w] = j /\ MarksOf(w)' = mk
      /\ \A v \in Worker : v # w => /\ Mine(v)' = Mine(v) /\ job'[v] = job[v]
                                    /\ MarksOf(v)' = MarksOf(v)
    BY AloneEffect
<1>2. db' = db /\ site' = site /\ spoiled' = spoiled
    BY DEF Alone
<1> SUFFICES ASSUME spoiled = {}
             PROVE  /\ Conserved' /\ ZeroSum'
                    /\ \A v \in Worker : MarksOf(v)' = {} =>
                         Orderly(db', Mine(v)', job'[v], site'.grant)
    BY <1>2 DEF AddsUp
<1>3. Conserved' /\ ZeroSum'
    BY <1>2 DEF AddsUp, Conserved, ZeroSum, Opened
<1>4. ASSUME NEW v \in Worker, MarksOf(v)' = {}
      PROVE  Orderly(db', Mine(v)', job'[v], site'.grant)
    <2>1. CASE v = w
        BY <1>1, <1>2, <1>4, <2>1
    <2>2. CASE v # w
        BY <1>1, <1>2, <1>4, <2>2 DEF AddsUp
    <2>. QED  BY <2>1, <2>2
<1>. QED  BY <1>3, <1>4

(* What a worker may rely on. *)
Sound(w) ==
    /\ Backed(db, Mine(w), job[w])
    /\ spoiled = {} /\ MarksOf(w) = {} => Orderly(db, Mine(w), job[w], site.grant)

LEMMA WorkersSound ==
    ASSUME Grounded, AddsUp, NEW w \in Worker
    PROVE  Sound(w)
BY DEF Sound, Grounded, AddsUp

LEMMA ReadsReckoned ==
    ASSUME Types, OwnConnections, Grounded, AddsUp, NEW w \in Worker, NEW u, Reads(w, u),
           Backed(db, Mine(w), u),
           spoiled = {} /\ MarksOf(w) = {} => Orderly(db, Mine(w), u, site.grant)
    PROVE  Grounded' /\ AddsUp'
<1>1. Alone(w, Mine(w), u, MarksOf(w))
    BY ReadsAlone DEF Reads, requests
<1>. QED  BY <1>1, AloneGrounded, AloneAddsUp

LEMMA LaysReckoned ==
    ASSUME Types, OwnConnections, Grounded, AddsUp, NEW w \in Worker,
           NEW m, NEW why, NEW u, Lays(w, m, why, u), Backed(db, m, u),
           spoiled = {} /\ MarksOf(w) = {} /\ why = {} => Orderly(db, m, u, site.grant)
    PROVE  Grounded' /\ AddsUp'
<1> DEFINE mk == MarksOf(w) \cup why
<1>1. Alone(w, m, u, mk)
    BY DEF Lays, Alone, MarksOf, requests
<1>2. spoiled = {} /\ mk = {} => Orderly(db, m, u, site.grant)
    OBVIOUS
<1> HIDE DEF mk
<1>. QED  BY <1>1, <1>2, AloneGrounded, AloneAddsUp

LEMMA WritesReckoned ==
    ASSUME Types, OwnConnections, Grounded, AddsUp, NEW w \in Worker,
           NEW r, NEW x, NEW why, NEW u, Writes(w, r, x, why, u),
           Backed(db, Put(Mine(w), r, x), u),
           spoiled = {} /\ MarksOf(w) = {} /\ why = {} =>
               Orderly(db, Put(Mine(w), r, x), u, site.grant)
    PROVE  Grounded' /\ AddsUp'
<1> DEFINE m == Put(Mine(w), r, x)
           mk == MarksOf(w) \cup why
<1>1. Alone(w, m, u, mk)
    BY WritesAlone DEF Writes, requests
<1>2. mk = {} => MarksOf(w) = {} /\ why = {}
    OBVIOUS
<1>3. spoiled = {} /\ mk = {} => Orderly(db, m, u, site.grant)
    BY <1>2
<1> HIDE DEF m, mk
<1>4. Grounded'
    BY <1>1, AloneGrounded DEF m
<1>5. AddsUp'
    BY <1>1, <1>3, AloneAddsUp
<1>. QED  BY <1>4, <1>5

LEMMA UpdatesReckoned ==
    ASSUME Types, OwnConnections, Grounded, AddsUp, NEW w \in Worker,
           NEW r, NEW x, NEW why, NEW u, Updates(w, r, x, why, u),
           Backed(db, Mine(w), u),
           Exist(r, Seen(w, r)) => Backed(db, Put(Mine(w), r, x), u),
           spoiled = {} /\ MarksOf(w) = {} /\ why = {} =>
               IF Exist(r, Seen(w, r)) THEN Orderly(db, Put(Mine(w), r, x), u, site.grant)
                                       ELSE Orderly(db, Mine(w), u, site.grant)
    PROVE  Grounded' /\ AddsUp'
<1>1. CASE Exist(r, Seen(w, r))
    <2>1. Writes(w, r, x, why, u)
        BY <1>1 DEF Updates, Writes
    <2>. QED  BY <1>1, <2>1, WritesReckoned
<1>2. CASE ~ Exist(r, Seen(w, r))
    <2>1. work = [work EXCEPT ![site.conn[w]] = Mine(w)]
        BY Connected DEF Types, Mine
    <2>2. Lays(w, Mine(w), why, u)
        BY <1>2, <2>1 DEF Updates, Lays, Becomes, Marked, requests
    <2>. QED  BY <1>2, <2>2, LaysReckoned
<1>. QED  BY <1>1, <1>2

(***************************************************************************)
(* Jobs that owe nothing.                                                  *)
(***************************************************************************)
Even(u) ==
    /\ u.at \notin {"shrink", "side", "store", "debit", "insert", "credit", "delete"}
    /\ ~ Opening(u)
    /\ u.kind = "pay" => u.at = "pick" /\ u.left = 0

LEMMA EvenOwes ==
    ASSUME NEW u, Even(u), NEW grant
    PROVE  Owed(u, grant) = 0 /\ \A c : Unpaired(u, c) = 0
<1>1. u.kind = "pay" => PaidAhead(u) = 0 /\ Summed(u) = 0
    BY DEF Even, PaidAhead, Summed, Unit
<1>. QED  BY <1>1 DEF Even, Owed, Unpaired

LEMMA EvenOrderly ==
    ASSUME NEW d, Valid(d), NEW m, NEW u, Even(u), NEW grant,
           \A r \in Row : r \in DOMAIN m => r[1] \notin {"account", "offer", "position"}
    PROVE  Orderly(d, m, u, grant)
<1>1. Owed(u, grant) = 0 /\ \A c : Unpaired(u, c) = 0
    BY EvenOwes
<1>2. /\ Total(Laid(d, m)) = Total(d)
      /\ \A c \in ContractType : NetOf(Laid(d, m), c) = NetOf(d, c)
    BY NothingLaid
<1>3. Balanced(d, m, u, grant)
    BY <1>1, <1>2, TotalInt DEF Balanced
<1>5. Picked(u)
    BY DEF Picked, Even
<1>. QED  BY <1>3, <1>5 DEF Orderly

(* A worker that begins anew. *)
LEMMA NothingBacked ==
    ASSUME NEW d, NEW m, NEW u,
           \A c \in ContractType, a \in Account : PositionRow(c, a) \notin DOMAIN m,
           u.kind = "place" => u.at = "lookup",
           u.at \notin {"credit", "delete"}
    PROVE  Backed(d, m, u)
BY DEF Backed

LEMMA FailsReckoned ==
    ASSUME Types, OwnConnections, Grounded, AddsUp, NEW w \in Worker, StatementFails(w)
    PROVE  Grounded' /\ AddsUp'
<1> DEFINE j == job[w]
           k == site.conn[w]
<1>1. j.kind = "login" => /\ Retried(j).kind = "login" /\ Retried(j).at = "user"
                          /\ Retried(j).left = 0
    <2>1. JobOk(j)
        BY RowsValid
    <2>2. j.kind = "login" => /\ JobOk(Retried(j)) /\ Retried(j).kind = "login" /\ Retried(j).at = "user"
                              /\ Retried(j).left = 0 /\ DOMAIN Retried(j).rows = {}
        BY ONLY <2>1, RetriedOk, Zenon
    <2>. QED  BY <2>2
<1>2. \E u : /\ (u.kind = "none" /\ u.at = "idle") \/ (u.kind = "login" /\ u.at = "user" /\ u.left = 0)
             /\ Alone(w, NoWork, u, {})
    <2>1. \/ job' = [job EXCEPT ![w] = Idle]
          \/ j.kind = "login" /\ job' = [job EXCEPT ![w] = Retried(j)]
        BY DEF StatementFails, Becomes
    <2>2. /\ work' = [work EXCEPT ![k] = NoWork] /\ marks' = [marks EXCEPT ![k] = {}]
          /\ UNCHANGED <<site, db, spoiled>>
        BY DEF StatementFails, requests
    <2>3. CASE job' = [job EXCEPT ![w] = Idle]
        BY <2>2, <2>3, IdleOk DEF Alone
    <2>4. CASE j.kind = "login" /\ job' = [job EXCEPT ![w] = Retried(j)]
        BY <1>1, <2>2, <2>4 DEF Alone
    <2>. QED  BY <2>1, <2>3, <2>4
<1>3. PICK u : /\ (u.kind = "none" /\ u.at = "idle") \/ (u.kind = "login" /\ u.at = "user" /\ u.left = 0)
               /\ Alone(w, NoWork, u, {})
    BY <1>2
<1>4. DOMAIN NoWork = {} /\ Valid(db)
    BY RowsValid DEF NoWork, StatementFails, requests, Grounded
<1>5. Even(u)
    BY <1>3 DEF Even, Opening
<1>6. Orderly(db, NoWork, u, site.grant)
    BY <1>4, <1>5, EvenOrderly
<1>7. Backed(db, NoWork, u)
    BY <1>3, <1>4, NothingBacked
<1>. QED  BY <1>3, <1>4, <1>6, <1>7, AloneGrounded, AloneAddsUp

LEMMA RaisesReckoned ==
    ASSUME Types, OwnConnections, Grounded, AddsUp, NEW w \in Worker, HandlerRaises(w)
    PROVE  Grounded' /\ AddsUp'
<1> DEFINE k == site.conn[w]
           done == {r \in DOMAIN Mine(w) : r[1] # "type"}
           mk == IF done = {} THEN {} ELSE MarksOf(w) \cup {"raised"}
<1>1. work' = [work EXCEPT ![k] = Mine(w)]
    BY Connected DEF HandlerRaises, Types, Mine, requests
<1>2. marks' = [marks EXCEPT ![k] = mk]
    BY DEF HandlerRaises, Marked, MarksOf, Mine
<1>3. Alone(w, Mine(w), Idle, mk)
    BY <1>1, <1>2 DEF HandlerRaises, Becomes, Alone, requests
<1>4. mk = {} => done = {}
    OBVIOUS
<1>5. mk = {} => \A r \in Row : r \in DOMAIN Mine(w) => r[1] \notin {"account", "offer", "position"}
    BY <1>4
<1>6. Even(Idle) /\ Valid(db)
    BY IdleOk, RowsValid DEF Even, Opening, Grounded
<1>7. mk = {} => Orderly(db, Mine(w), Idle, site.grant)
    BY <1>5, <1>6, EvenOrderly
<1>8. Backed(db, Mine(w), Idle)
    <2>1. Backed(db, Mine(w), job[w])
        BY DEF Grounded
    <2>. QED  BY <2>1, IdleOk DEF Backed
<1> HIDE DEF mk
<1>. QED  BY <1>1, <1>3, <1>7, <1>8, AloneGrounded, AloneAddsUp

(***************************************************************************)
(* What a job owes at each statement.                                      *)
(***************************************************************************)
Owing == {"shrink", "side", "store", "debit", "insert"}

LEMMA OwedAt ==
    ASSUME NEW j, JobOk(j), NEW grant
    PROVE  /\ j.at = "shrink" =>
                Owed(j, grant) = Cost(Order[j.row].side, Order[j.row].price, j.n)
           /\ j.at \in {"side", "store"} /\ j.half = FIXED => Owed(j, grant) = 0
           /\ j.at \in {"side", "store"} /\ j.half = UNFIXED =>
                Owed(j, grant) = Cost(UNFIXED, Order[j.id].price, j.n) + j.due[FIXED]
           /\ j.at = "debit" /\ j.half = FIXED =>
                Owed(j, grant) = j.due[FIXED] + j.due[UNFIXED]
           /\ j.at = "debit" /\ j.half = UNFIXED => Owed(j, grant) = j.due[UNFIXED]
           /\ j.at = "insert" =>
                Owed(j, grant) = - Cost(Order[j.id].side, Order[j.id].price, j.left)
           /\ Opening(j) => Owed(j, grant) = grant
           /\ j.kind = "pay" => Owed(j, grant) = PaidAhead(j)
           /\ j.kind # "pay" /\ ~ Opening(j) /\ j.at \notin Owing => Owed(j, grant) = 0
<1>1. j.kind = "pay" => j.at \notin Owing
    BY DEF JobOk, StepOk, Owing, Trading, Offering
<1>2. Opening(j) => j.at \notin Owing /\ j.kind # "pay"
    BY DEF Opening, Owing
<1>3. j.at \in {"side", "store", "debit"} => j.kind = "place"
    BY DEF JobOk, StepOk, Trading
<1>4. j.half \in {FIXED, UNFIXED} /\ FIXED # UNFIXED
    BY DEF JobOk, FieldsOk, Side, FIXED, UNFIXED
<1>. QED  BY <1>1, <1>2, <1>3, <1>4 DEF Owed, Owing

LEMMA UnpairedAt ==
    ASSUME NEW j, JobOk(j), NEW c
    PROVE  /\ j.at \in {"side", "store"} /\ j.half = UNFIXED =>
                Unpaired(j, c) = IF c = Order[j.id].ct THEN j.n ELSE 0
           /\ j.at \in {"side", "store"} /\ j.half = FIXED => Unpaired(j, c) = 0
           /\ j.kind = "pay" => Unpaired(j, c) = IF c = j.id THEN - Summed(j) ELSE 0
           /\ j.kind # "pay" /\ j.at \notin {"side", "store"} => Unpaired(j, c) = 0
<1>1. j.at \in {"side", "store"} => j.kind = "place"
    BY DEF JobOk, StepOk, Trading
<1>2. FIXED # UNFIXED
    BY DEF FIXED, UNFIXED
<1>. QED  BY <1>1, <1>2 DEF Unpaired

(* The variables that these numbers come from. *)
LEMMA JobNumbers ==
    ASSUME NEW j, JobOk(j)
    PROVE  /\ j.got \in Int /\ j.left \in Int /\ j.n \in Int
           /\ j.due[FIXED] \in Int /\ j.due[UNFIXED] \in Int
           /\ j.half \in {FIXED, UNFIXED}
           /\ Summed(j) \in Int /\ PaidAhead(j) \in Int
<1>1. /\ j.got \in Int /\ j.left \in Int /\ j.n \in Int
      /\ j.due[FIXED] \in Int /\ j.due[UNFIXED] \in Int
      /\ j.half \in {FIXED, UNFIXED}
    BY DEF JobOk, FieldsOk, Side
<1>2. Summed(j) \in Int
    BY <1>1 DEF Summed
<1>3. PaidAhead(j) \in Int
    BY <1>1, <1>2 DEF PaidAhead, Unit, Abs
<1>. QED  BY <1>1, <1>2, <1>3

LEMMA OwedInt ==
    ASSUME NEW j, JobOk(j), NEW grant \in Int
    PROVE  Owed(j, grant) \in Int /\ \A c : Unpaired(j, c) \in Int
<1>1. /\ j.at = "shrink" => Cost(Order[j.row].side, Order[j.row].price, j.n) \in Int
      /\ j.at \in {"side", "store"} => Cost(UNFIXED, Order[j.id].price, j.n) \in Int
      /\ j.at = "insert" => Cost(Order[j.id].side, Order[j.id].price, j.left) \in Int
    <2>1. /\ j.at \in {"shrink", "side", "store"} => j.row \in OfferId
          /\ j.at \in {"side", "store", "insert"} => j.id \in OfferId
        BY DEF JobOk, ValuesOk, StepOk, Offering, Trading
    <2>. QED  BY <2>1, JobNumbers, CostType
<1>2. Owed(j, grant) \in Int
    <2>1. CASE j.kind # "pay" /\ ~ Opening(j) /\ j.at \notin Owing
        BY <2>1, OwedAt
    <2>2. CASE j.kind = "pay" \/ Opening(j)
        BY <2>2, OwedAt, JobNumbers
    <2>3. CASE j.at \in Owing
        BY <1>1, <2>3, OwedAt, JobNumbers DEF Owing
    <2>. QED  BY <2>1, <2>2, <2>3
<1>3. ASSUME NEW c PROVE Unpaired(j, c) \in Int
    BY UnpairedAt, JobNumbers
<1>. QED  BY <1>2, <1>3

(***************************************************************************)
(* A job goes on with the rows it has.                                     *)
(***************************************************************************)
LEMMA BackedGoes ==
    ASSUME NEW d, NEW m, NEW j, Backed(d, m, j), NEW u,
           u.kind = j.kind /\ u.id = j.id, j.kind = "place" => j.at # "lookup",
           u.at \in {"credit", "delete"} => Living(d, u.row)
    PROVE  Backed(d, m, u)
BY DEF Backed

LEMMA OrderlyGoes ==
    ASSUME NEW d, NEW m, NEW j, NEW grant, Orderly(d, m, j, grant), NEW u,
           j.kind # "pay", u.kind # "pay", u.at \notin {"credit", "delete"},
           Owed(u, grant) = Owed(j, grant), \A c \in ContractType : Unpaired(u, c) = Unpaired(j, c)
    PROVE  Orderly(d, m, u, grant)
<1>1. Picked(u)
    BY DEF Orderly, Picked
<1>2. Balanced(d, m, u, grant)
    BY DEF Orderly, Balanced
<1>. QED  BY <1>1, <1>2 DEF Orderly

(***************************************************************************)
(* A row is written.                                                       *)
(***************************************************************************)
(* A row of a contract type, a user, a name or an id counts for nothing. *)
Alike(m, n) ==
    /\ \A r \in Row : r[1] \in {"account", "offer", "position"} =>
         /\ r \in DOMAIN n <=> r \in DOMAIN m
         /\ r \in DOMAIN m => n[r] = m[r]
    /\ \A r \in Row : r[1] = "type" /\ r \in DOMAIN m => r \in DOMAIN n

LEMMA PutAlike ==
    ASSUME NEW m, NEW r, r[1] \in {"type", "user", "name", "id"}, NEW x
    PROVE  Alike(m, Put(m, r, x))
BY PutDomain, PutRows DEF Alike

LEMMA AlikeBacked ==
    ASSUME NEW d, NEW m, NEW n, Alike(m, n), NEW j, JobOk(j), Backed(d, m, j)
    PROVE  Backed(d, n, j)
<1>1. j.kind = "place" => Order[j.id].ct \in ContractType
    BY Quantities DEF JobOk, ValuesOk
<1>. QED  BY <1>1, RowFacts DEF Backed, Alike

LEMMA AlikeOrderly ==
    ASSUME NEW d, NEW m, NEW n, Alike(m, n), NEW j, JobOk(j), NEW grant,
           Orderly(d, m, j, grant)
    PROVE  Orderly(d, n, j, grant)
<1>1. \A r \in Row : r[1] \in {"account", "offer", "position"} => Laid(d, n)[r] = Laid(d, m)[r]
    BY DEF Laid, Alike
<1>2. Total(Laid(d, n)) = Total(Laid(d, m))
      /\ \A c \in ContractType : NetOf(Laid(d, n), c) = NetOf(Laid(d, m), c)
    BY <1>1, SameTotal
<1>. QED  BY <1>2 DEF Orderly, Balanced

LEMMA BackedPut ==
    ASSUME NEW d, NEW m, NEW j, Backed(d, m, j),
           NEW r \in Row, r[1] # "position", NEW x
    PROVE  Backed(d, Put(m, r, x), j)
<1> DEFINE n == Put(m, r, x)
<1>1. /\ \A s : s \in DOMAIN n <=> s = r \/ s \in DOMAIN m
      /\ \A s \in DOMAIN m : s # r => n[s] = m[s]
    BY PutDomain, PutRows
<1> HIDE DEF n
<1>2. \A c \in ContractType, a \in Account : PositionRow(c, a) # r
    BY RowFacts
<1>. QED  BY <1>1, <1>2 DEF Backed, n

(* A balance. *)
LEMMA AccountBalanced ==
    ASSUME NEW d, Valid(d), NEW m, RowsOk(m), NEW j, JobOk(j), NEW u, NEW grant \in Int,
           Balanced(d, m, j, grant), NEW a \in Account, NEW x, ValueOk(AccountRow(a), x),
           Owed(u, grant) =
             Owed(j, grant) + (AtLeastZero(x) - AtLeastZero(Laid(d, m)[AccountRow(a)])),
           \A c \in ContractType : Unpaired(u, c) = Unpaired(j, c)
    PROVE  Balanced(d, Put(m, AccountRow(a), x), u, grant)
<1> DEFINE n == Put(m, AccountRow(a), x)
           t == Laid(d, m)
           v == Laid(d, n)
<1>1. AccountRow(a) \in Row
    BY RowFacts
<1>2. RowsOk(n)
    BY <1>1, PutOk
<1>3. v[AccountRow(a)] = x /\ But(t, v, AccountRow(a))
    BY <1>1, LaidPut
<1> HIDE DEF n
<1>4. Valid(t) /\ Valid(v)
    BY <1>2, LaidValid
<1> HIDE DEF t, v
<1>5. /\ Total(v) = Total(t) + (AtLeastZero(x) - AtLeastZero(t[AccountRow(a)]))
      /\ \A c \in ContractType : NetOf(v, c) = NetOf(t, c)
    BY <1>3, <1>4, AccountTotal
<1>6. Total(d) \in Int /\ Owed(j, grant) \in Int
    BY TotalInt, OwedInt
<1>7. AtLeastZero(x) \in Int /\ AtLeastZero(t[AccountRow(a)]) \in Int
    BY <1>1, <1>4 DEF Valid, ValueOk, AtLeastZero
<1>8. Total(t) = Total(d) + Owed(j, grant)
    BY DEF Balanced, t
<1>9. Total(v) = Total(d) + Owed(u, grant)
    <2> DEFINE p == AtLeastZero(x)
               q == AtLeastZero(t[AccountRow(a)])
    <2>1. /\ Total(v) = Total(t) + (p - q) /\ Owed(u, grant) = Owed(j, grant) + (p - q)
          /\ p \in Int /\ q \in Int
        BY <1>5, <1>7 DEF t
    <2> HIDE DEF p, q
    <2>. QED  BY <1>6, <1>8, <2>1
<1>10. \A c \in ContractType : NetOf(v, c) = NetOf(d, c) + Unpaired(u, c)
    BY <1>5 DEF Balanced, t
<1>. QED  BY <1>9, <1>10 DEF Balanced, v, n

LEMMA AccountOrderly ==
    ASSUME NEW d, Valid(d), NEW m, RowsOk(m), NEW j, JobOk(j), NEW u, JobOk(u), NEW grant \in Int,
           Orderly(d, m, j, grant),
           j.kind # "pay", u.kind # "pay", u.at \notin {"credit", "delete"},
           NEW a \in Account, NEW x, ValueOk(AccountRow(a), x),
           Owed(u, grant) =
             Owed(j, grant) + (AtLeastZero(x) - AtLeastZero(Laid(d, m)[AccountRow(a)])),
           \A c \in ContractType : Unpaired(u, c) = Unpaired(j, c)
    PROVE  Orderly(d, Put(m, AccountRow(a), x), u, grant)
<1>1. Balanced(d, m, j, grant) /\ Picked(u)
    BY DEF Orderly, Picked
<1>2. Balanced(d, Put(m, AccountRow(a), x), u, grant)
    BY <1>1, AccountBalanced
<1>. QED  BY <1>1, <1>2 DEF Orderly

(* An offer. *)
LEMMA OfferOrderly ==
    ASSUME NEW d, Valid(d), NEW m, RowsOk(m), NEW j, JobOk(j), NEW u, JobOk(u), NEW grant \in Int,
           Orderly(d, m, j, grant),
           j.kind # "pay", u.kind # "pay", u.at \notin {"credit", "delete"},
           NEW i \in OfferId, NEW x, ValueOk(OfferOf(i), x),
           Owed(u, grant) =
             Owed(j, grant) + (Cost(Order[i].side, Order[i].price, x)
                                 - Cost(Order[i].side, Order[i].price, Laid(d, m)[OfferOf(i)])),
           \A c \in ContractType : Unpaired(u, c) = Unpaired(j, c)
    PROVE  Orderly(d, Put(m, OfferOf(i), x), u, grant)
<1> DEFINE n == Put(m, OfferOf(i), x)
           t == Laid(d, m)
           v == Laid(d, n)
<1>1. OfferOf(i) \in Row /\ OfferOf(i)[1] # "position"
    BY RowFacts
<1>2. Balanced(d, m, j, grant) /\ Picked(u)
    BY DEF Orderly, Picked
<1>4. RowsOk(n)
    BY <1>1, PutOk
<1>5. v[OfferOf(i)] = x /\ But(t, v, OfferOf(i))
    BY <1>1, LaidPut
<1> HIDE DEF n
<1>6. Valid(t) /\ Valid(v)
    BY <1>4, LaidValid
<1>7. Total(t) = Total(d) + Owed(j, grant)
      /\ \A c \in ContractType : NetOf(t, c) = NetOf(d, c) + Unpaired(j, c)
    BY <1>2 DEF Balanced
<1> DEFINE p == Cost(Order[i].side, Order[i].price, x)
           q == Cost(Order[i].side, Order[i].price, t[OfferOf(i)])
<1>8. Owed(u, grant) = Owed(j, grant) + (p - q)
    OBVIOUS
<1> HIDE DEF t, v
<1>9. p \in Int /\ q \in Int
    BY <1>1, <1>6, CostType DEF Valid, ValueOk
<1>10. Total(v) = Total(t) + (p - q) /\ \A c \in ContractType : NetOf(v, c) = NetOf(t, c)
    BY <1>5, <1>6, OfferTotal
<1> HIDE DEF p, q
<1>11. Total(d) \in Int /\ Owed(j, grant) \in Int
    BY TotalInt, OwedInt
<1>12. Total(v) = Total(d) + Owed(u, grant)
    BY <1>7, <1>8, <1>9, <1>10, <1>11
<1>13. \A c \in ContractType : NetOf(v, c) = NetOf(d, c) + Unpaired(u, c)
    BY <1>7, <1>10
<1>. QED  BY <1>2, <1>12, <1>13 DEF Orderly, Balanced, v, n

(* A position. *)
LEMMA PositionBalanced ==
    ASSUME NEW d, Valid(d), NEW m, RowsOk(m), NEW j, JobOk(j), NEW u, NEW grant \in Int,
           Balanced(d, m, j, grant), NEW c \in ContractType, NEW a \in Account, NEW x \in Int,
           NEW q \in Int, q = Laid(d, m)[PositionRow(c, a)],
           Owed(u, grant) =
             Owed(j, grant) + (Unit * AtLeastZero(x) - Unit * AtLeastZero(q)),
           \A e \in ContractType :
             Unpaired(u, e) = Unpaired(j, e) + (IF e = c THEN x - q ELSE 0)
    PROVE  Balanced(d, Put(m, PositionRow(c, a), x), u, grant)
<1> DEFINE r == PositionRow(c, a)
           n == Put(m, r, x)
           t == Laid(d, m)
           v == Laid(d, n)
<1>1. r \in Row /\ r[1] = "position"
    BY RowFacts
<1>2. ValueOk(r, x)
    BY <1>1 DEF ValueOk
<1>3. RowsOk(n)
    BY <1>1, <1>2, PutOk
<1>4. v[r] = x /\ But(t, v, r)
    BY <1>1, LaidPut
<1>5. t[r] = q
    OBVIOUS
<1>6. Total(t) = Total(d) + Owed(j, grant)
      /\ \A e \in ContractType : NetOf(t, e) = NetOf(d, e) + Unpaired(j, e)
    BY DEF Balanced
<1> HIDE DEF n
<1>7. Valid(t) /\ Valid(v)
    BY <1>3, LaidValid
<1> HIDE DEF t, v
<1>8. /\ Total(v) = Total(t) + (Unit * AtLeastZero(x) - Unit * AtLeastZero(q))
      /\ \A e \in ContractType : NetOf(v, e) = NetOf(t, e) + (IF e = c THEN x - q ELSE 0)
    BY <1>4, <1>5, <1>7, PositionTotal
<1>9. /\ Total(d) \in Int /\ Owed(j, grant) \in Int
      /\ \A e \in ContractType : NetOf(d, e) \in Int /\ Unpaired(j, e) \in Int
    BY TotalInt, OwedInt
<1>10. Total(v) = Total(d) + Owed(u, grant)
    <2> DEFINE k == Unit * AtLeastZero(x)
               l == Unit * AtLeastZero(q)
    <2>1. /\ k \in Int /\ l \in Int
          /\ Total(v) = Total(t) + (k - l) /\ Owed(u, grant) = Owed(j, grant) + (k - l)
        BY <1>8 DEF AtLeastZero, Unit
    <2> HIDE DEF k, l
    <2>. QED  BY <1>6, <1>9, <2>1
<1>11. \A e \in ContractType : NetOf(v, e) = NetOf(d, e) + Unpaired(u, e)
    <2> SUFFICES ASSUME NEW e \in ContractType
                 PROVE  NetOf(v, e) = NetOf(d, e) + Unpaired(u, e)
        OBVIOUS
    <2> DEFINE k == IF e = c THEN x - q ELSE 0
    <2>1. k \in Int /\ NetOf(v, e) = NetOf(t, e) + k /\ Unpaired(u, e) = Unpaired(j, e) + k
        BY <1>8
    <2> HIDE DEF k
    <2>. QED  BY <1>6, <1>9, <2>1
<1>. QED  BY <1>10, <1>11 DEF Balanced, v, n, r
(***************************************************************************)
(* The statements.                                                         *)
(***************************************************************************)
LEMMA WorkerFacts ==
    ASSUME Types, Grounded, AddsUp, NEW w \in Worker
    PROVE  /\ JobOk(job[w]) /\ Valid(db) /\ RowsOk(Mine(w)) /\ site.grant \in Nat
           /\ Backed(db, Mine(w), job[w])
           /\ spoiled = {} /\ MarksOf(w) = {} =>
                Orderly(db, Mine(w), job[w], site.grant)
BY RowsValid, Connected DEF Grounded, AddsUp

(* Jobs that owe nothing where they are. *)
Plain(j) == JobOk(j) /\ j.kind # "pay" /\ ~ Opening(j) /\ j.at \notin Owing

LEMMA PlainOwes ==
    ASSUME NEW j, Plain(j), NEW grant
    PROVE  /\ Owed(j, grant) = 0 /\ \A c : Unpaired(j, c) = 0
           /\ j.at \notin {"store", "credit", "delete"} /\ j.kind # "pay"
<1>1. j.at \notin {"store", "credit", "delete"}
    BY DEF Plain, Owing, JobOk, StepOk, PaySteps
<1>. QED  BY <1>1, OwedAt, UnpairedAt DEF Plain, Owing

LEMMA PlainOrderly ==
    ASSUME NEW d, NEW m, NEW j, Plain(j), NEW u, Plain(u), NEW grant,
           Orderly(d, m, j, grant)
    PROVE  Orderly(d, m, u, grant)
<1>1. /\ Owed(u, grant) = 0 /\ \A c : Unpaired(u, c) = 0
      /\ u.at \notin {"store", "credit", "delete"} /\ u.kind # "pay"
    BY PlainOwes
<1>2. /\ Owed(j, grant) = 0 /\ \A c : Unpaired(j, c) = 0 /\ j.kind # "pay"
    BY PlainOwes
<1>. QED  BY <1>1, <1>2, OrderlyGoes

(* Outside of a login a job is plain unless its label says otherwise. *)
LEMMA PlainJob ==
    ASSUME NEW j, JobOk(j), j.kind \notin {"pay", "login"}, j.at \notin Owing
    PROVE  Plain(j)
BY DEF Plain, Opening

LEMMA LookupReckoned ==
    ASSUME Types, OwnConnections, Grounded, AddsUp, NEW w \in Worker, Lookup(w)
    PROVE  Grounded' /\ AddsUp'
<1> DEFINE j == job[w]
           m == Mine(w)
           x == IF j.kind = "place" THEN "match" ELSE "find"
           c == IF j.kind = "place" THEN Order[j.id].ct ELSE j.id
           r == TypeRow(c)
           u == [j EXCEPT !.at = x]
           n == Put(m, r, 1)
<1>1. /\ JobOk(j) /\ Backed(db, m, j)
      /\ spoiled = {} /\ MarksOf(w) = {} => Orderly(db, m, j, site.grant)
    BY WorkerFacts
<1>2. Goes(j, x) /\ j.at = "lookup" /\ Writes(w, r, 1, {}, u)
    BY DEF Goes, Lookup, At
<1>3. /\ JobOk(u) /\ u.at = x
      /\ u.kind = j.kind /\ u.id = j.id /\ u.left = j.left /\ u.rows = j.rows
      /\ u.row = j.row /\ u.n = j.n /\ u.got = j.got /\ u.half = j.half /\ u.due = j.due
    BY <1>1, <1>2, GoesOk
<1>4. j.kind \in {"place", "resolve"} /\ c \in ContractType
    BY <1>1, <1>2, Quantities DEF JobOk, StepOk, ValuesOk
<1>5. r \in Row /\ r[1] = "type"
    BY <1>4, RowFacts
<1>6. Plain(j)
    BY <1>1, <1>2, <1>4, PlainJob DEF Owing
<1>7. Plain(u)
    <2>1. JobOk(u) /\ u.kind \notin {"pay", "login"} /\ u.at \notin Owing
        BY <1>3, <1>4 DEF Owing
    <2> HIDE DEF u
    <2>. QED  BY <2>1, PlainJob
<1>8. Alike(m, n) /\ \A s : s \in DOMAIN n <=> s = r \/ s \in DOMAIN m
    BY <1>5, PutAlike, PutDomain
<1>9. j.kind = "place" => r = TypeRow(Order[j.id].ct)
    OBVIOUS
<1> HIDE DEF u, n, r
<1>10. Orderly(db, m, j, site.grant) => Orderly(db, n, u, site.grant)
    <2>1. Orderly(db, m, j, site.grant) => Orderly(db, m, u, site.grant)
        BY <1>6, <1>7, PlainOrderly
    <2>. QED  BY <1>3, <1>8, <2>1, AlikeOrderly
<1>11. Backed(db, n, u)
    <2>1. Backed(db, n, j)
        BY <1>1, <1>8, AlikeBacked
    <2>. QED  BY <1>3, <1>8, <1>9, <2>1 DEF Backed
<1>. QED  BY <1>1, <1>2, <1>10, <1>11, WritesReckoned DEF n

(* The search of an order, of a page or of a cleanup. *)
LEMMA SearchReckoned ==
    ASSUME Types, OwnConnections, Grounded, AddsUp, NEW w \in Worker, NEW ids \in SUBSET OfferId,
           Reads(w, Aim(job[w], Found(w, ids))), job[w].at \in {"match", "find"}
    PROVE  Grounded' /\ AddsUp'
<1> DEFINE j == job[w]
           m == Mine(w)
           rows == Found(w, ids)
           u == Aim(j, rows)
<1>1. /\ JobOk(j) /\ Backed(db, m, j)
      /\ spoiled = {} /\ MarksOf(w) = {} => Orderly(db, m, j, site.grant)
    BY WorkerFacts
<1>2. Looping(j) /\ j.kind \notin {"pay", "login"}
    BY <1>1, LoopingOk DEF JobOk, StepOk
<1>3. Rows(rows)
    BY FoundRows
<1> HIDE DEF rows
<1>4. /\ JobOk(u)
      /\ u.kind = j.kind /\ u.id = j.id /\ u.left = j.left /\ u.got = j.got
      /\ u.half = j.half /\ u.due = j.due
      /\ DOMAIN rows = {} => u.at = After(j.kind) /\ DOMAIN u.rows = {}
      /\ DOMAIN rows # {} =>
           /\ u.at = "read" /\ u.rows = rows /\ u.row \in DOMAIN rows
           /\ u.n = Min({j.left, rows[u.row]})
    BY ONLY <1>2, <1>3, AimOk, Zenon
<1> HIDE DEF u
<1>5. u.at \in {"read", "rest", "filter", "commit"}
    BY <1>4 DEF After
<1>6. Plain(j)
    BY <1>1, <1>2, PlainJob DEF Owing
<1>7. Plain(u)
    BY <1>2, <1>4, <1>5, PlainJob DEF Owing
<1>8. Orderly(db, m, j, site.grant) => Orderly(db, m, u, site.grant)
    BY <1>6, <1>7, PlainOrderly
<1>9. Backed(db, m, u)
    BY <1>1, <1>4, <1>5, BackedGoes
<1>. QED  BY <1>1, <1>8, <1>9, ReadsReckoned DEF u, rows

LEMMA ReadOfferReckoned ==
    ASSUME Types, OwnConnections, Grounded, AddsUp, NEW w \in Worker, ReadOffer(w)
    PROVE  Grounded' /\ AddsUp'
<1> DEFINE j == job[w]
           m == Mine(w)
           q == Seen(w, OfferOf(j.row))
           n == IF j.kind = "place" THEN j.n ELSE q
           u == [j EXCEPT !.at = "refund", !.got = q, !.n = n]
<1>1. /\ JobOk(j) /\ Backed(db, m, j)
      /\ spoiled = {} /\ MarksOf(w) = {} => Orderly(db, m, j, site.grant)
    BY WorkerFacts
<1>2. j.at = "read" /\ j.kind \notin {"pay", "login"}
    BY <1>1 DEF ReadOffer, At, JobOk, StepOk, Offering
<1>3. CASE HandlerRaises(w)
    BY <1>3, RaisesReckoned
<1>4. CASE q # 0 /\ ~ (n > q) /\ Reads(w, u)
    <2>1. j.row \in OfferId /\ j.n \in Int
        BY <1>1, <1>2 DEF JobOk, ValuesOk, FieldsOk, Offering
    <2>2. q \in 0..Order[j.row].quantity
        BY <2>1, RowFacts, SeenOk DEF ValueOk
    <2>3. q \in 1..Order[j.row].quantity /\ n \in Int /\ n <= q
        BY <1>4, <2>1, <2>2, Quantities
    <2>4. n = (IF j.kind = "place" THEN j.n ELSE q)
        OBVIOUS
    <2> HIDE DEF n, q
    <2>5. JobOk(u)
        BY <1>1, <1>2, <2>3, <2>4, ReadOfferOk
    <2>6. u.at = "refund" /\ u.kind = j.kind /\ u.id = j.id
        BY <1>1 DEF JobOk, IsJob
    <2> HIDE DEF u
    <2>7. Plain(j)
        BY <1>1, <1>2, PlainJob DEF Owing
    <2>8. Plain(u)
        BY <1>2, <2>5, <2>6, PlainJob DEF Owing
    <2>9. Orderly(db, m, j, site.grant) => Orderly(db, m, u, site.grant)
        BY <2>7, <2>8, PlainOrderly
    <2>10. Backed(db, m, u)
        BY <1>1, <1>2, <2>6, BackedGoes
    <2>. QED  BY <1>1, <1>4, <2>9, <2>10, ReadsReckoned
<1>. QED  BY <1>3, <1>4 DEF ReadOffer

(* A refund makes the balance too large until the offer has shrunk. *)
LEMMA RefundReckoned ==
    ASSUME Types, OwnConnections, Ownership, Grounded, AddsUp, NEW w \in Worker, Refund(w)
    PROVE  Grounded' /\ AddsUp'
<1> DEFINE j == job[w]
           m == Mine(w)
           o == Order[j.row]
           r == AccountRow(o.account)
           k == Cost(o.side, o.price, j.n)
           q == Seen(w, r)
           u == [j EXCEPT !.at = "shrink"]
<1>1. /\ JobOk(j) /\ Backed(db, m, j) /\ Valid(db) /\ RowsOk(m) /\ site.grant \in Int
      /\ spoiled = {} /\ MarksOf(w) = {} => Orderly(db, m, j, site.grant)
    BY WorkerFacts
<1>2. j.at = "refund" /\ Writes(w, r, q + k, {}, u)
    BY DEF Refund, At
<1>3. /\ j.row \in OfferId /\ j.n \in Int /\ j.n >= 0 /\ j.kind \notin {"pay", "login"}
      /\ j.row \in Listed
    <2>1. Guarded(db, m, j, MarksOf(w), Listed)
        BY DEF Ownership
    <2>. QED  BY <1>1, <1>2, <2>1 DEF JobOk, ValuesOk, FieldsOk, StepOk, Offering, Guarded, OffersOk
<1>4. o.account \in Account /\ Living(db, o.account)
    BY <1>3, Quantities DEF Ownership
<1>5. q \in Nat /\ q = Laid(db, m)[r] /\ r \in Row /\ r[1] = "account"
    BY <1>4, SeesAccounts, SeenLaid, RowFacts
<1>6. k \in Nat
    BY <1>3, CostType
<1>7. Goes(j, "shrink")
    BY <1>2 DEF Goes
<1>8. /\ JobOk(u) /\ u.at = "shrink"
      /\ u.kind = j.kind /\ u.id = j.id /\ u.left = j.left /\ u.rows = j.rows
      /\ u.row = j.row /\ u.n = j.n /\ u.got = j.got /\ u.half = j.half /\ u.due = j.due
    BY ONLY <1>1, <1>7, GoesOk, Zenon
<1> HIDE DEF u
<1>9. Plain(j)
    BY <1>1, <1>2, <1>3, PlainJob DEF Owing
<1>10. Owed(u, site.grant) = k /\ Owed(j, site.grant) = 0
       /\ \A c \in ContractType : Unpaired(u, c) = Unpaired(j, c)
    <2>1. Owed(u, site.grant) = k
        BY <1>8, OwedAt
    <2>2. Owed(j, site.grant) = 0 /\ \A c : Unpaired(j, c) = 0
        BY <1>9, PlainOwes
    <2>3. \A c : Unpaired(u, c) = 0
        BY <1>3, <1>8, UnpairedAt
    <2>. QED  BY <2>1, <2>2, <2>3
<1> HIDE DEF q, k
<1>11. /\ Owed(u, site.grant) =
            Owed(j, site.grant) + (AtLeastZero(q + k) - AtLeastZero(Laid(db, m)[r]))
       /\ ValueOk(r, q + k)
    <2>1. AtLeastZero(q + k) = q + k /\ AtLeastZero(Laid(db, m)[r]) = q /\ q + k \in Nat
        BY <1>5, <1>6 DEF AtLeastZero
    <2>. QED  BY <1>5, <1>6, <1>10, <2>1 DEF ValueOk
<1>12. Orderly(db, m, j, site.grant) => Orderly(db, Put(m, r, q + k), u, site.grant)
    BY <1>1, <1>3, <1>4, <1>8, <1>10, <1>11, AccountOrderly
<1>13. Backed(db, Put(m, r, q + k), u)
    <2>1. Backed(db, m, u)
        BY <1>1, <1>2, <1>8, BackedGoes
    <2>. QED  BY <1>5, <2>1, BackedPut
<1>. QED  BY <1>1, <1>2, <1>12, <1>13, WritesReckoned

(* The offer shrinks by what was refunded, if it is what it was. *)
LEMMA ShrinkReckoned ==
    ASSUME Types, OwnConnections, Ownership, Grounded, AddsUp, NEW w \in Worker, Shrink(w)
    PROVE  Grounded' /\ AddsUp'
<1> DEFINE j == job[w]
           m == Mine(w)
           o == Order[j.row]
           r == OfferOf(j.row)
           q == Seen(w, r)
           x == j.got - j.n
           why == StaleIf(q # j.got, "offer")
           u == IF j.kind = "place" THEN [j EXCEPT !.at = "side", !.half = FIXED]
                ELSE NextRow(j)
<1>1. /\ JobOk(j) /\ Backed(db, m, j) /\ Valid(db) /\ RowsOk(m) /\ site.grant \in Int
      /\ spoiled = {} /\ MarksOf(w) = {} => Orderly(db, m, j, site.grant)
    BY WorkerFacts
<1>2. j.at = "shrink" /\ (HandlerRaises(w) \/ Writes(w, r, x, why, u))
    BY DEF Shrink, At
<1>3. CASE HandlerRaises(w)
    BY <1>3, RaisesReckoned
<1>4. CASE Writes(w, r, x, why, u)
    <2>1. /\ j.row \in OfferId /\ j.kind \notin {"pay", "login"} /\ j.n \in 1..j.got
          /\ j.got <= o.quantity /\ j.got \in Int
        BY <1>1, <1>2 DEF JobOk, ValuesOk, FieldsOk, StepOk, Offering
    <2>2. r \in Row /\ r[1] = "offer" /\ r[2] = j.row /\ q = Laid(db, m)[r]
        BY <2>1, RowFacts, SeenLaid
    <2>3. o.quantity \in Nat /\ o.price \in Price
        BY <2>1, Quantities
    <2>4. ValueOk(r, x)
        BY <2>1, <2>2, <2>3 DEF ValueOk
    <2>5. /\ Cost(o.side, o.price, x)
               = Cost(o.side, o.price, j.got) - Cost(o.side, o.price, j.n)
          /\ Cost(o.side, o.price, j.got) \in Int /\ Cost(o.side, o.price, j.n) \in Int
        <3> DEFINE p == o.price
                   g == j.got
                   k == j.n
        <3>1. p \in Price /\ g \in Nat /\ k \in Nat /\ k <= g
            BY <2>1, <2>3
        <3> HIDE DEF p, g, k
        <3>2. /\ Cost(o.side, p, k) \in Nat /\ Cost(o.side, p, g) \in Nat
              /\ Cost(o.side, p, g - k) = Cost(o.side, p, g) - Cost(o.side, p, k)
              /\ Cost(o.side, p, 0) = 0
            BY ONLY <3>1, CostAdds, Zenon
        <3>. QED  BY <3>2 DEF p, g, k
    <2>6. /\ JobOk(u) /\ u.kind = j.kind /\ u.id = j.id
          /\ \/ u.at = "side" /\ u.half = FIXED
             \/ u.at \in {"read", "filter", "commit"}
        <3>1. CASE j.kind = "place"
            <4> DEFINE y == [j EXCEPT !.at = "side", !.half = FIXED]
            <4>1. /\ JobOk(y) /\ y.at = "side" /\ y.half = FIXED
                  /\ y.kind = j.kind /\ y.id = j.id /\ y.left = j.left /\ y.rows = j.rows
                  /\ y.row = j.row /\ y.n = j.n /\ y.got = j.got /\ y.due = j.due
                BY <1>1, <1>2, <3>1, ShrunkOk
            <4>2. u = y
                BY <3>1
            <4> HIDE DEF u, y
            <4>. QED  BY <4>1, <4>2
        <3>2. CASE j.kind # "place"
            <4> DEFINE y == NextRow(j)
                       rest == DOMAIN j.rows \ {j.row}
            <4>1. Looping(j)
                BY <1>1, <1>2, LoopingOk DEF Offering
            <4>2. /\ JobOk(y)
                  /\ y.kind = j.kind /\ y.id = j.id /\ y.left = j.left /\ y.got = j.got
                  /\ y.half = j.half /\ y.due = j.due
                  /\ rest = {} => y.at = After(j.kind) /\ DOMAIN y.rows = {}
                  /\ rest # {} => /\ y.at = "read" /\ DOMAIN y.rows = rest
                                  /\ \A i \in rest : y.rows[i] = j.rows[i]
                                  /\ y.row \in rest /\ y.n = Min({j.left, j.rows[y.row]})
                BY ONLY <4>1, NextRowOk, Zenon
            <4>3. u = y
                BY <3>2
            <4> HIDE DEF u, y
            <4>. QED  BY <3>2, <4>2, <4>3 DEF After
        <3>. QED  BY <3>1, <3>2
    <2> HIDE DEF u
    <2>7. u.at \notin {"store", "credit", "delete"} /\ u.kind # "pay" /\ ~ Opening(u)
          /\ (u.at = "side" => u.half = FIXED) /\ u.at \in {"side", "read", "filter", "commit"}
        BY <2>1, <2>6 DEF Opening
    <2>8. Owed(u, site.grant) = 0 /\ \A c : Unpaired(u, c) = 0
        <3>1. CASE u.at = "side"
            BY <2>6, <2>7, <3>1, OwedAt, UnpairedAt
        <3>2. CASE u.at # "side"
            <4>1. Plain(u)
                BY <2>6, <2>7, <3>2 DEF Plain, Owing
            <4>. QED  BY <4>1, PlainOwes
        <3>. QED  BY <3>1, <3>2
    <2>9. Owed(j, site.grant) = Cost(o.side, o.price, j.n) /\ \A c : Unpaired(j, c) = 0
        BY <1>1, <1>2, <2>1, OwedAt, UnpairedAt
    <2>10. why = {} => q = j.got
        BY DEF StaleIf
    <2>11. q = j.got /\ Orderly(db, m, j, site.grant) =>
             Orderly(db, Put(m, r, x), u, site.grant)
        <3> SUFFICES ASSUME q = j.got, Orderly(db, m, j, site.grant)
                     PROVE  Orderly(db, Put(m, r, x), u, site.grant)
            OBVIOUS
        <3>1. Owed(u, site.grant) =
                Owed(j, site.grant) + (Cost(o.side, o.price, x)
                                         - Cost(o.side, o.price, Laid(db, m)[r]))
            BY <2>2, <2>5, <2>8, <2>9
        <3>2. \A c \in ContractType : Unpaired(u, c) = Unpaired(j, c)
            BY <2>8, <2>9
        <3> HIDE DEF x
        <3>. QED  BY <1>1, <2>1, <2>4, <2>6, <2>7, <3>1, <3>2, OfferOrderly
    <2>12. Backed(db, Put(m, r, x), u)
        <3>1. Backed(db, m, u)
            BY <1>1, <1>2, <2>6, <2>7, BackedGoes
        <3>. QED  BY <2>2, <3>1, BackedPut
    <2> HIDE DEF why
    <2>. QED  BY <1>1, <1>4, <2>10, <2>11, <2>12, WritesReckoned
<1>. QED  BY <1>2, <1>3, <1>4

LEMMA MatchingReckoned ==
    ASSUME Types, OwnConnections, Ownership, Grounded, AddsUp, NEW w \in Worker, Matching(w)
    PROVE  Grounded' /\ AddsUp'
<1>1. CASE Lookup(w)
    BY <1>1, LookupReckoned
<1>2. CASE Match(w)
    BY <1>2, SearchReckoned DEF Match, At
<1>3. CASE ReadOffer(w)
    BY <1>3, ReadOfferReckoned
<1>4. CASE Refund(w)
    BY <1>4, RefundReckoned
<1>5. CASE Shrink(w)
    BY <1>5, ShrinkReckoned
<1>. QED  BY <1>1, <1>2, <1>3, <1>4, <1>5 DEF Matching

(* A worker goes from one job that owes nothing to another one. *)
LEMMA PlainReckoned ==
    ASSUME Types, OwnConnections, Grounded, AddsUp, NEW w \in Worker, NEW u, Reads(w, u), JobOk(u),
           job[w].kind \notin {"pay", "login"}, job[w].at \notin Owing \cup {"lookup"},
           u.kind = job[w].kind, u.id = job[w].id, u.at \notin Owing
    PROVE  Grounded' /\ AddsUp'
<1> DEFINE j == job[w]
           m == Mine(w)
<1>1. /\ JobOk(j) /\ Backed(db, m, j)
      /\ spoiled = {} /\ MarksOf(w) = {} => Orderly(db, m, j, site.grant)
    BY WorkerFacts
<1>2. Plain(j) /\ Plain(u)
    BY <1>1, PlainJob
<1>3. Orderly(db, m, j, site.grant) => Orderly(db, m, u, site.grant)
    BY <1>2, PlainOrderly
<1>4. u.at \notin {"credit", "delete"}
    BY <1>2, PlainOwes
<1>5. Backed(db, m, u)
    BY <1>1, <1>4, BackedGoes
<1>. QED  BY <1>1, <1>3, <1>5, ReadsReckoned

LEMMA SweepingReckoned ==
    ASSUME Types, OwnConnections, Ownership, Grounded, AddsUp, NEW w \in Worker, Sweeping(w)
    PROVE  Grounded' /\ AddsUp'
<1> DEFINE j == job[w]
<1>1. JobOk(j)
    BY DEF Types
<1>2. CASE Find(w)
    <2>1. Expiring \in SUBSET OfferId
        BY DEF Expiring
    <2>. QED  BY <1>2, <2>1, SearchReckoned DEF Find, At
<1>3. CASE Filter(w)
    <2> DEFINE ids == Existing(w, {i \in OfferId : Order[i].ct = j.id})
               u == [j EXCEPT !.at = "commit", !.rows = [i \in ids |-> 1]]
    <2>1. j.at = "filter" /\ Reads(w, u) /\ ids \in SUBSET OfferId
        BY <1>3 DEF Filter, At, Existing
    <2>2. JobOk(u) /\ u.at = "commit" /\ u.kind = j.kind /\ u.id = j.id
        BY <1>1, <2>1, FilteredOk
    <2> HIDE DEF u
    <2>3. j.kind \notin {"pay", "login"} /\ u.at \notin Owing /\ j.at \notin Owing \cup {"lookup"}
        BY <1>1, <2>1, <2>2 DEF JobOk, StepOk, Owing
    <2>. QED  BY <2>1, <2>2, <2>3, PlainReckoned
<1>4. CASE Clean(w)
    <2>1. PICK u : j.at = "clean" /\ Reads(w, u) /\ Cleaned(w, u)
        BY <1>4, CleanRows
    <2>2. PICK n \in Int : \E rows : Rows(rows) /\ u = Aim([j EXCEPT !.left = n], rows)
        BY <2>1, Zenon DEF Cleaned
    <2>3. PICK rows : Rows(rows) /\ u = Aim([j EXCEPT !.left = n], rows)
        BY <2>2
    <2> DEFINE i == [j EXCEPT !.left = n]
    <2>4. Looping(i) /\ i.kind = j.kind /\ i.id = j.id
        BY <1>1, <2>1, CleaningOk
    <2>5. u = Aim(i, rows)
        BY <2>3
    <2> HIDE DEF i
    <2>6. /\ JobOk(u) /\ u.kind = i.kind /\ u.id = i.id
          /\ DOMAIN rows = {} => u.at = After(i.kind)
          /\ DOMAIN rows # {} => u.at = "read"
        <3>1. Looping(i) /\ Rows(rows)
            BY <2>3, <2>4
        <3>. QED  BY ONLY <2>5, <3>1, AimOk
    <2>7. j.kind \in {"clear", "last"}
        BY <1>1, <2>1 DEF JobOk, StepOk
    <2>8. u.at \in {"read", "commit"}
        BY <2>4, <2>6, <2>7 DEF After
    <2>9. u.at \notin Owing /\ j.at \notin Owing \cup {"lookup"}
        BY <2>1, <2>8 DEF Owing
    <2>. QED  BY <2>1, <2>4, <2>6, <2>7, <2>9, PlainReckoned
<1>5. CASE SweepRaises(w)
    BY <1>5, RaisesReckoned DEF SweepRaises
<1>. QED  BY <1>2, <1>3, <1>4, <1>5 DEF Sweeping

(***************************************************************************)
(* Contracts.                                                              *)
(***************************************************************************)
LEMMA TraderFacts ==
    ASSUME Types, Ownership, NEW w \in Worker, job[w].at \in Trading
    PROVE  LET j == job[w]
           IN  /\ j.kind = "place" /\ j.id \in OfferId /\ j.row \in OfferId
               /\ j.got \in Int /\ j.n \in Nat /\ j.half \in {FIXED, UNFIXED}
               /\ Order[j.id].ct \in ContractType /\ Order[j.id].price \in Price
               /\ \A s \in Side : Holder(j, s) \in Account /\ Living(db, Holder(j, s))
               /\ j.due[FIXED] \in Int /\ j.due[UNFIXED] \in Int
<1> DEFINE j == job[w]
<1>1. JobOk(j) /\ Guarded(db, Mine(w), j, MarksOf(w), Listed)
    BY DEF Types, Ownership
<1>2. /\ j.kind = "place" /\ j.id \in OfferId /\ j.row \in OfferId
      /\ j.n \in 1..j.left /\ j.left \in Int /\ j.n \in Int /\ j.got \in Int
      /\ \A s \in Side : j.due[s] \in Int
    BY <1>1, Holders
<1>3. j.id \in Listed /\ j.row \in Listed
    BY <1>1, <1>2 DEF Guarded, OffersOk
<1>4. Living(db, Order[j.id].account) /\ Living(db, Order[j.row].account)
    BY <1>3 DEF Ownership
<1>5. Order[j.id].account \in Account /\ Order[j.row].account \in Account
      /\ Order[j.id].ct \in ContractType /\ Order[j.id].price \in Price
    BY <1>2, Quantities
<1>6. j.half \in {FIXED, UNFIXED} /\ j.n \in Nat
    BY <1>1, <1>2 DEF JobOk, FieldsOk, Side
<1>7. j.due[FIXED] \in Int /\ j.due[UNFIXED] \in Int
    BY <1>2 DEF Side
<1>. QED  BY <1>2, <1>4, <1>5, <1>6, <1>7 DEF Holder

LEMMA ReadSideReckoned ==
    ASSUME Types, OwnConnections, Ownership, Grounded, AddsUp, NEW w \in Worker, ReadSide(w)
    PROVE  Grounded' /\ AddsUp'
<1> DEFINE j == job[w]
           m == Mine(w)
           q == Seen(w, HolderRow(j))
           u == [j EXCEPT !.at = "store", !.got = q]
<1>1. /\ JobOk(j) /\ Backed(db, m, j)
      /\ spoiled = {} /\ MarksOf(w) = {} => Orderly(db, m, j, site.grant)
    BY WorkerFacts
<1>2. j.at = "side" /\ j.at \in Trading /\ Reads(w, u)
    BY DEF ReadSide, At, Trading
<1>3. j.kind = "place" /\ j.half \in {FIXED, UNFIXED} /\ HolderRow(j) \in Row
    <2>1. j.kind = "place" /\ HolderRow(j) \in Row
        BY <1>1, <1>2, Holders
    <2>. QED  BY <1>2, <2>1, TraderFacts
<1>4. q \in Int /\ q = Laid(db, m)[HolderRow(j)]
    <2>1. HolderRow(j)[1] = "position"
        BY <1>1, <1>2, Holders
    <2>. QED  BY <1>3, <2>1, SeenOk, SeenLaid DEF ValueOk
<1> HIDE DEF q
<1>5. /\ JobOk(u) /\ u.at = "store" /\ u.got = q
      /\ u.kind = j.kind /\ u.id = j.id /\ u.left = j.left /\ u.rows = j.rows
      /\ u.row = j.row /\ u.n = j.n /\ u.half = j.half /\ u.due = j.due
    BY ONLY <1>1, <1>2, <1>4, ReadSideOk, Zenon
<1> HIDE DEF u
<1>6. Owed(u, site.grant) = Owed(j, site.grant) /\ \A c : Unpaired(u, c) = Unpaired(j, c)
    <2>1. CASE j.half = FIXED
        BY <1>1, <1>2, <1>5, <2>1, OwedAt, UnpairedAt
    <2>2. CASE j.half = UNFIXED
        BY <1>1, <1>2, <1>5, <2>2, OwedAt, UnpairedAt
    <2>. QED  BY <1>3, <2>1, <2>2
<1>8. Orderly(db, m, j, site.grant) => Orderly(db, m, u, site.grant)
    <2> SUFFICES ASSUME Orderly(db, m, j, site.grant)
                 PROVE  Orderly(db, m, u, site.grant)
        OBVIOUS
    <2>1. Balanced(db, m, u, site.grant)
        BY <1>3, <1>6 DEF Orderly, Balanced
    <2>2. Picked(u)
        BY <1>3, <1>5 DEF Picked
    <2>. QED  BY <2>1, <2>2 DEF Orderly
<1>9. Backed(db, m, u)
    BY <1>1, <1>2, <1>5, BackedGoes
<1>. QED  BY <1>1, <1>2, <1>8, <1>9, ReadsReckoned

(* What a side's stake grows by is what is not covered. *)
LEMMA StakesCovered ==
    ASSUME NEW q \in Int, NEW n \in Nat
    PROVE  /\ Unit * AtLeastZero(q + n) - Unit * AtLeastZero(q) = Unit * n - Unit * Covered(q, n)
           /\ Unit * AtLeastZero(q + (-n)) - Unit * AtLeastZero(q) = - (Unit * Covered(q, -n))
BY DEF AtLeastZero, Covered, Abs, Unit

(* A side's position is written: the FIXED one lacks its partner and what  *)
(* both pay, the UNFIXED one what both pay.                                *)
LEMMA SideWritten ==
    ASSUME Types, Ownership, Grounded, AddsUp, NEW w \in Worker, job[w].at = "store",
           NEW x, x = job[w].got + Units(job[w])
    PROVE  /\ Backed(db, Put(Mine(w), HolderRow(job[w]), x), Stored(job[w]))
           /\ Backed(db, Mine(w), Stored(job[w]))
           /\ /\ Orderly(db, Mine(w), job[w], site.grant)
              /\ Laid(db, Mine(w))[HolderRow(job[w])] = job[w].got
              => Orderly(db, Put(Mine(w), HolderRow(job[w]), x), Stored(job[w]), site.grant)
<1> DEFINE j == job[w]
           m == Mine(w)
           u == Stored(j)
           c == Order[j.id].ct
           a == Holder(j, j.half)
           p == Order[j.id].price
           q == j.got
           k == j.n
           r == PositionRow(c, a)
           n == Put(m, r, x)
           grant == site.grant
<1>1. /\ JobOk(j) /\ Backed(db, m, j) /\ Valid(db) /\ RowsOk(m) /\ grant \in Int
    BY WorkerFacts
<1>2. j.at = "store" /\ j.at \in Trading
    BY DEF Trading
<1>3. /\ j.kind = "place" /\ j.id \in OfferId
      /\ q \in Int /\ k \in Nat /\ j.half \in {FIXED, UNFIXED}
      /\ c \in ContractType /\ p \in Price
      /\ a \in Account /\ Living(db, a)
      /\ j.due[FIXED] \in Int /\ j.due[UNFIXED] \in Int
    BY <1>2, TraderFacts DEF Side
<1>4. HolderRow(j) = r
    BY DEF HolderRow
<1>5. /\ JobOk(u)
      /\ u.at = (IF j.half = FIXED THEN "side" ELSE "debit")
      /\ u.half = (IF j.half = FIXED THEN UNFIXED ELSE FIXED)
      /\ u.due[j.half] = Cost(j.half, p, k) - Unit * Covered(q, Units(j))
      /\ \A s \in Side : s # j.half => u.due[s] = j.due[s]
      /\ u.kind = j.kind /\ u.id = j.id /\ u.left = j.left /\ u.rows = j.rows
      /\ u.row = j.row /\ u.n = k /\ u.got = q
    BY ONLY <1>1, <1>2, StoredOk, Zenon
<1>7. x \in Int /\ x = q + Units(j)
    BY <1>3 DEF Units
<1>8. r \in Row /\ r[1] = "position" /\ r[2] = c /\ r[3] = a
    BY <1>3, RowFacts
<1> HIDE DEF u, a
<1>9. Backed(db, m, u)
    BY <1>1, <1>2, <1>3, <1>5, BackedGoes
<1>10. Backed(db, n, u)
    <2>1. /\ \A s : s \in DOMAIN n <=> s = r \/ s \in DOMAIN m
          /\ \A s \in DOMAIN m : s # r => n[s] = m[s]
        BY PutDomain, PutRows
    <2>2. TypeRow(c) \in DOMAIN m
        BY <1>1, <1>2, <1>3 DEF Backed
    <2> HIDE DEF n
    <2>3. ASSUME NEW e \in ContractType, NEW b \in Account, PositionRow(e, b) \in DOMAIN n
          PROVE  Living(db, b)
        <3>1. PositionRow(e, b)[3] = b
            BY RowFacts
        <3>2. CASE PositionRow(e, b) = r
            BY <1>3, <1>8, <3>1, <3>2
        <3>3. CASE PositionRow(e, b) \in DOMAIN m
            BY <1>9, <3>3 DEF Backed
        <3>. QED  BY <2>1, <2>3, <3>2, <3>3
    <2>4. TypeRow(Order[u.id].ct) \in DOMAIN n
        BY <1>5, <2>1, <2>2
    <2>5. u.kind = "place" /\ u.at \notin {"credit", "delete"}
        BY <1>3, <1>5
    <2>. QED  BY <2>3, <2>4, <2>5 DEF Backed
<1>11. ASSUME Orderly(db, m, j, grant), Laid(db, m)[r] = q PROVE Orderly(db, n, u, grant)
    <2>1. Balanced(db, m, j, grant) /\ q = Laid(db, m)[r]
        BY <1>11 DEF Orderly
    <2> DEFINE cf == Cost(FIXED, p, k)
               cu == Cost(UNFIXED, p, k)
    <2>2. cf \in Int /\ cu \in Int /\ cf + cu = Unit * k
        BY <1>3, CostSplits DEF Cost, FIXED, UNFIXED
    <2>3. CASE j.half = FIXED
        <3>1. Units(j) = k /\ x = q + k
            BY <1>3, <1>7, <2>3 DEF Units
        <3>2. u.at = "side" /\ u.half = UNFIXED /\ u.due[FIXED] = cf - Unit * Covered(q, k)
            BY <1>5, <2>3, <3>1
        <3>3. Owed(j, grant) = 0 /\ Owed(u, grant) = cu + u.due[FIXED]
            BY <1>1, <1>2, <1>5, <2>3, <3>2, OwedAt
        <3>4. \A e : Unpaired(j, e) = 0 /\ Unpaired(u, e) = IF e = c THEN k ELSE 0
            BY <1>1, <1>2, <1>5, <2>3, <3>2, UnpairedAt
        <3>5. Unit * AtLeastZero(q + k) - Unit * AtLeastZero(q) = Unit * k - Unit * Covered(q, k)
            BY <1>3, StakesCovered
        <3>6. Owed(u, grant) = Owed(j, grant) + (Unit * AtLeastZero(x) - Unit * AtLeastZero(q))
            <4> DEFINE v == Unit * Covered(q, k)
                       y == Unit * k
                       z == Unit * AtLeastZero(q + k) - Unit * AtLeastZero(q)
            <4>0. Covered(q, k) \in Nat /\ k \in Nat
                <5>1. q \in Int /\ k \in Int /\ k \in Nat
                    BY <1>3
                <5>. QED  BY <5>1, CoveredType
            <4>3. v \in Int /\ y \in Int
                BY <4>0 DEF Unit
            <4>4. z = y - v
                BY <3>5
            <4>5. cf + cu = y
                BY <2>2
            <4>6. u.due[FIXED] = cf - v
                BY <3>2
            <4>1. v \in Int /\ y \in Int /\ z = y - v /\ cf + cu = y /\ u.due[FIXED] = cf - v
                BY <4>3, <4>4, <4>5, <4>6
            <4>2. Unit * AtLeastZero(x) - Unit * AtLeastZero(q) = z
                BY <3>1
            <4> HIDE DEF v, y, z, cf, cu
            <4>. QED  BY <2>2, <3>3, <4>1, <4>2
        <3>7. \A e \in ContractType :
                 Unpaired(u, e) = Unpaired(j, e) + (IF e = c THEN x - q ELSE 0)
            BY <1>3, <3>1, <3>4
        <3>8. q \in Int /\ x \in Int /\ c \in ContractType /\ a \in Account
            BY <1>3, <1>7
        <3> HIDE DEF q, c, cf, cu
        <3>9. Balanced(db, Put(m, PositionRow(c, a), x), u, grant)
            BY <1>1, <2>1, <3>6, <3>7, <3>8, PositionBalanced
        <3>10. Picked(u)
            BY <1>3, <1>5, <3>2 DEF Picked
        <3>. QED  BY <3>9, <3>10 DEF Orderly
    <2>4. CASE j.half = UNFIXED
        <3>1. Units(j) = -k /\ x = q + (-k) /\ j.half # FIXED
            BY <1>3, <1>7, <2>4 DEF Units, FIXED, UNFIXED
        <3>2. /\ u.at = "debit" /\ u.half = FIXED
              /\ u.due[UNFIXED] = cu - Unit * Covered(q, -k) /\ u.due[FIXED] = j.due[FIXED]
            BY <1>5, <2>4, <3>1 DEF Side
        <3>3. Owed(j, grant) = cu + j.due[FIXED] /\ Owed(u, grant) = u.due[FIXED] + u.due[UNFIXED]
            BY <1>1, <1>2, <1>5, <2>4, <3>2, OwedAt
        <3>4. \A e : Unpaired(u, e) = 0 /\ Unpaired(j, e) = IF e = c THEN k ELSE 0
            BY <1>1, <1>2, <1>3, <1>5, <2>4, <3>2, UnpairedAt
        <3>5. Unit * AtLeastZero(q + (-k)) - Unit * AtLeastZero(q) = - (Unit * Covered(q, -k))
            BY <1>3, StakesCovered
        <3>6. Owed(u, grant) = Owed(j, grant) + (Unit * AtLeastZero(x) - Unit * AtLeastZero(q))
            <4> DEFINE v == Unit * Covered(q, -k)
                       z == Unit * AtLeastZero(q + (-k)) - Unit * AtLeastZero(q)
            <4>0. Covered(q, -k) \in Nat
                <5>1. -k \in Int
                    BY <1>3
                <5>. QED  BY <1>3, <5>1, CoveredType
            <4>3. v \in Int
                BY <4>0 DEF Unit
            <4>4. z = - v
                BY <3>5
            <4>5. u.due[UNFIXED] = cu - v
                BY <3>2
            <4>1. v \in Int /\ z = - v /\ u.due[UNFIXED] = cu - v
                BY <4>3, <4>4, <4>5
            <4>2. Unit * AtLeastZero(x) - Unit * AtLeastZero(q) = z
                BY <3>1
            <4> HIDE DEF v, z, cf, cu
            <4>. QED  BY <1>3, <2>2, <3>2, <3>3, <4>1, <4>2
        <3>7. \A e \in ContractType :
                 Unpaired(u, e) = Unpaired(j, e) + (IF e = c THEN x - q ELSE 0)
            BY <1>3, <3>1, <3>4
        <3>8. q \in Int /\ x \in Int /\ c \in ContractType /\ a \in Account
            BY <1>3, <1>7
        <3> HIDE DEF q, c, cf, cu
        <3>9. Balanced(db, Put(m, PositionRow(c, a), x), u, grant)
            BY <1>1, <2>1, <3>6, <3>7, <3>8, PositionBalanced
        <3>10. Picked(u)
            BY <1>3, <1>5, <3>2 DEF Picked
        <3>. QED  BY <3>9, <3>10 DEF Orderly
    <2>. QED  BY <1>3, <2>3, <2>4
<1>. QED  BY <1>4, <1>9, <1>10, <1>11 DEF u

LEMMA StoreReckoned ==
    ASSUME Types, OwnConnections, Ownership, Grounded, AddsUp, NEW w \in Worker,
           InsertSide(w) \/ UpdateSide(w)
    PROVE  Grounded' /\ AddsUp'
<1> DEFINE j == job[w]
           m == Mine(w)
           r == HolderRow(j)
           x == j.got + Units(j)
           u == Stored(j)
<1>1. j.at = "store" /\ j.at \in Trading
    BY DEF InsertSide, UpdateSide, At, Trading
<1>2. /\ spoiled = {} /\ MarksOf(w) = {} => Orderly(db, m, j, site.grant)
      /\ JobOk(j) /\ RowsOk(m)
    BY WorkerFacts
<1>3. /\ Backed(db, Put(m, r, x), u) /\ Backed(db, m, u)
      /\ Orderly(db, m, j, site.grant) /\ Seen(w, r) = j.got =>
           Orderly(db, Put(m, r, x), u, site.grant)
    <2>1. r \in Row
        BY <1>1, <1>2, Holders
    <2>. QED  BY <1>1, <2>1, SeenLaid, SideWritten
<1>4. j.got \in Int /\ Units(j) \in Int /\ r \in Row /\ r[1] = "position"
    BY <1>1, <1>2, Holders
<1>5. CASE InsertSide(w)
    <2>1. CASE StatementFails(w)
        BY <2>1, FailsReckoned
    <2>2. ASSUME ~ StatementFails(w)
          PROVE  Grounded' /\ AddsUp'
        <3> DEFINE s == IdRow(Order[j.id].ct, Holder(j, j.half))
                   n == Put(Put(m, s, Seen(w, s) + 1), r, Units(j))
        <3>1. Lays(w, n, {}, u)
            BY <1>5, <2>2, InsertLays DEF Mine
        <3>2. j.got = 0 /\ ~ Exist(r, Seen(w, r))
            BY <1>5, <2>2 DEF InsertSide
        <3>3. Units(j) = x /\ Seen(w, r) = j.got
            BY <1>4, <3>2 DEF Exist
        <3>4. s[1] = "id" /\ JobOk(u)
            BY ONLY <1>1, <1>2, StoredOk, Zenon DEF IdRow
        <3>5. Alike(m, Put(m, s, Seen(w, s) + 1))
            BY <3>4, PutAlike
        <3> HIDE DEF u, r, x
        <3>6. Alike(Put(m, r, x), n)
            BY <3>3, <3>5, PutDomain, PutRows DEF Alike
        <3> HIDE DEF n
        <3>7. Backed(db, n, u)
            BY <1>3, <3>4, <3>6, AlikeBacked
        <3>8. spoiled = {} /\ MarksOf(w) = {} => Orderly(db, n, u, site.grant)
            BY <1>2, <1>3, <3>3, <3>4, <3>6, AlikeOrderly
        <3>. QED  BY <3>1, <3>7, <3>8, LaysReckoned
    <2>. QED  BY <2>1, <2>2
<1>6. CASE UpdateSide(w)
    <2> DEFINE why == StaleIf(Seen(w, r) # j.got, "position")
    <2>1. Updates(w, r, x, why, u) /\ j.got # 0
        BY <1>6 DEF UpdateSide
    <2>2. why = {} => Seen(w, r) = j.got /\ Exist(r, Seen(w, r))
        BY <1>4, <2>1 DEF Exist, StaleIf
    <2> HIDE DEF x, u, r, why
    <2>. QED  BY <1>2, <1>3, <2>1, <2>2, UpdatesReckoned
<1>. QED  BY <1>5, <1>6

(* Whoever pays from an account owes that much less. *)
LEMMA PaysReckoned ==
    ASSUME Types, OwnConnections, Ownership, Grounded, AddsUp, NEW w \in Worker,
           NEW a \in Account, Living(db, a), NEW amount \in Int, NEW u, JobOk(u),
           \/ StatementFails(w)
           \/ /\ Seen(w, AccountRow(a)) >= amount
              /\ Writes(w, AccountRow(a), Seen(w, AccountRow(a)) - amount, {}, u),
           job[w].kind = "place", job[w].at # "lookup", u.kind = "place", u.id = job[w].id,
           u.at \notin {"store", "credit", "delete"},
           Owed(u, site.grant) = Owed(job[w], site.grant) - amount,
           \A c \in ContractType : Unpaired(u, c) = Unpaired(job[w], c)
    PROVE  Grounded' /\ AddsUp'
<1> DEFINE j == job[w]
           m == Mine(w)
           r == AccountRow(a)
           q == Seen(w, r)
           x == q - amount
           grant == site.grant
<1>1. /\ JobOk(j) /\ Backed(db, m, j) /\ Valid(db) /\ RowsOk(m) /\ grant \in Int
      /\ spoiled = {} /\ MarksOf(w) = {} => Orderly(db, m, j, grant)
    BY WorkerFacts
<1>2. CASE StatementFails(w)
    BY <1>2, FailsReckoned
<1>3. CASE q >= amount /\ Writes(w, r, x, {}, u)
    <2>1. q \in Nat /\ q = Laid(db, m)[r] /\ r \in Row /\ r[1] = "account"
        BY SeesAccounts, SeenLaid, RowFacts
    <2>2. Owed(j, grant) \in Int /\ Writes(w, r, x, {}, u)
        BY <1>1, <1>3, OwedInt
    <2> HIDE DEF q
    <2>3. x \in Nat /\ AtLeastZero(x) = q - amount /\ AtLeastZero(q) = q
        BY <1>3, <2>1 DEF AtLeastZero
    <2>4. Owed(u, grant) = Owed(j, grant) + (AtLeastZero(x) - AtLeastZero(Laid(db, m)[r]))
        BY <2>1, <2>2, <2>3
    <2> HIDE DEF x
    <2>5. ValueOk(r, x)
        BY <2>1, <2>3 DEF ValueOk
    <2>6. Orderly(db, m, j, grant) => Orderly(db, Put(m, r, x), u, grant)
        BY <1>1, <2>4, <2>5, AccountOrderly
    <2>7. Backed(db, Put(m, r, x), u)
        <3>1. Backed(db, m, u)
            BY <1>1, BackedGoes
        <3>. QED  BY <2>1, <3>1, BackedPut
    <2>. QED  BY <1>1, <2>2, <2>6, <2>7, WritesReckoned
<1>. QED  BY <1>2, <1>3

LEMMA DebitFixedReckoned ==
    ASSUME Types, OwnConnections, Ownership, Grounded, AddsUp, NEW w \in Worker, DebitFixed(w)
    PROVE  Grounded' /\ AddsUp'
<1> DEFINE j == job[w]
           u == [j EXCEPT !.half = UNFIXED]
           a == Holder(j, FIXED)
           k == j.due[FIXED]
           r == AccountRow(a)
<1>1. JobOk(j)
    BY WorkerFacts
<1>2. j.at = "debit" /\ j.at \in Trading /\ j.half = FIXED /\ Pays(w, a, k, u)
    BY DEF DebitFixed, At, Trading
<1>3. /\ j.kind = "place" /\ a \in Account /\ Living(db, a) /\ k \in Int
      /\ j.due[UNFIXED] \in Int
    BY <1>2, TraderFacts DEF Side
<1>4. /\ JobOk(u) /\ u.half = UNFIXED
      /\ u.kind = j.kind /\ u.at = j.at /\ u.id = j.id /\ u.left = j.left
      /\ u.rows = j.rows /\ u.row = j.row /\ u.n = j.n /\ u.got = j.got /\ u.due = j.due
    BY ONLY <1>1, <1>2, DebitedOk, Zenon
<1> HIDE DEF u, a
<1>5. Owed(u, site.grant) = Owed(j, site.grant) - k
    <2>1. Owed(u, site.grant) = u.due[UNFIXED]
        BY <1>2, <1>4, OwedAt
    <2>2. Owed(j, site.grant) = k + j.due[UNFIXED]
        BY <1>1, <1>2, OwedAt
    <2> DEFINE l == j.due[UNFIXED]
    <2>3. Owed(u, site.grant) = l /\ l \in Int
        BY <1>3, <1>4, <2>1
    <2> HIDE DEF k, l
    <2>. QED  BY <1>3, <2>2, <2>3 DEF l
<1>6. \A c \in ContractType : Unpaired(u, c) = Unpaired(j, c)
    <2>1. \A c : Unpaired(u, c) = 0
        BY <1>2, <1>3, <1>4, UnpairedAt
    <2>2. \A c : Unpaired(j, c) = 0
        BY <1>1, <1>2, <1>3, UnpairedAt
    <2>. QED  BY <2>1, <2>2
<1>7. Seen(w, r) \in Int
    BY <1>3, SeesAccounts
<1> HIDE DEF k
<1>8. StatementFails(w) \/ (Seen(w, r) >= k /\ Writes(w, r, Seen(w, r) - k, {}, u))
    BY <1>2, <1>3, <1>7 DEF Pays
<1>9. j.at # "lookup" /\ u.kind = "place" /\ u.at \notin {"store", "credit", "delete"}
    BY <1>2, <1>3, <1>4
<1>. QED  BY <1>3, <1>4, <1>5, <1>6, <1>8, <1>9, PaysReckoned

LEMMA DebitUnfixedReckoned ==
    ASSUME Types, OwnConnections, Ownership, Grounded, AddsUp, NEW w \in Worker, DebitUnfixed(w)
    PROVE  Grounded' /\ AddsUp'
<1> DEFINE j == job[w]
           u == Contracted(j)
           a == Holder(j, UNFIXED)
           k == j.due[UNFIXED]
           r == AccountRow(a)
           rest == DOMAIN j.rows \ {j.row}
<1>1. JobOk(j)
    BY WorkerFacts
<1>2. /\ j.at = "debit" /\ j.at \in Trading /\ j.half = UNFIXED
      /\ IF Seen(w, r) < k THEN StatementFails(w) ELSE Writes(w, r, Seen(w, r) - k, {}, u)
    BY DEF DebitUnfixed, At, Trading
<1>3. j.kind = "place" /\ a \in Account /\ Living(db, a) /\ k \in Int
    BY <1>2, TraderFacts DEF Side
<1>4. /\ JobOk(u)
      /\ u.kind = j.kind /\ u.id = j.id /\ u.got = j.got
      /\ u.half = j.half /\ u.due = j.due
      /\ j.left = j.n => u.at = "commit" /\ u.left = j.left
      /\ j.left # j.n =>
           /\ u.left = j.left - j.n
           /\ rest = {} => u.at = "rest" /\ DOMAIN u.rows = {}
           /\ rest # {} => /\ u.at = "read" /\ DOMAIN u.rows = rest
                           /\ \A i \in rest : u.rows[i] = j.rows[i]
                           /\ u.row \in rest
                           /\ u.n = Min({u.left, j.rows[u.row]})
    BY ONLY <1>1, <1>2, ContractedOk, Zenon
<1> HIDE DEF u, a
<1>5. u.at \in {"commit", "rest", "read"} /\ u.kind = "place" /\ j.at # "lookup"
    BY <1>2, <1>3, <1>4
<1>6. Plain(u)
    BY <1>4, <1>5, PlainJob DEF Owing
<1>7. Owed(u, site.grant) = Owed(j, site.grant) - k
    <2>1. Owed(u, site.grant) = 0
        BY <1>6, PlainOwes
    <2>2. Owed(j, site.grant) = k
        BY <1>1, <1>2, OwedAt
    <2> HIDE DEF k
    <2>. QED  BY <1>3, <2>1, <2>2
<1>8. \A c \in ContractType : Unpaired(u, c) = Unpaired(j, c)
    <2>1. \A c : Unpaired(u, c) = 0
        BY <1>6, PlainOwes
    <2>2. \A c : Unpaired(j, c) = 0
        BY <1>1, <1>2, <1>3, UnpairedAt
    <2>. QED  BY <2>1, <2>2
<1>9. Seen(w, r) \in Int
    BY <1>3, SeesAccounts
<1> HIDE DEF k
<1>10. StatementFails(w) \/ (Seen(w, r) >= k /\ Writes(w, r, Seen(w, r) - k, {}, u))
    BY <1>2, <1>3, <1>9
<1>11. u.at \notin {"store", "credit", "delete"}
    BY <1>5
<1>. QED  BY <1>3, <1>4, <1>5, <1>7, <1>8, <1>10, <1>11, PaysReckoned

LEMMA RestReckoned ==
    ASSUME Types, OwnConnections, Ownership, Grounded, AddsUp, NEW w \in Worker, Rest(w)
    PROVE  Grounded' /\ AddsUp'
<1> DEFINE j == job[w]
           o == Order[j.id]
           u == [j EXCEPT !.at = "insert"]
           a == o.account
           k == Cost(o.side, o.price, j.left)
           r == AccountRow(a)
<1>1. JobOk(j) /\ Guarded(db, Mine(w), j, MarksOf(w), Listed)
    BY DEF Types, Ownership
<1>2. j.at = "rest" /\ Goes(j, "insert") /\ Pays(w, a, k, u)
    BY DEF Rest, At, Goes
<1>3. j.kind = "place" /\ j.id \in OfferId /\ j.left \in Int /\ j.id \in Listed
    BY <1>1, <1>2 DEF JobOk, StepOk, ValuesOk, FieldsOk, Guarded, OffersOk
<1>4. a \in Account /\ k \in Int /\ Living(db, a)
    BY <1>3, Quantities, CostType DEF Ownership
<1>5. /\ JobOk(u) /\ u.at = "insert"
      /\ u.kind = j.kind /\ u.id = j.id /\ u.left = j.left /\ u.rows = j.rows
      /\ u.row = j.row /\ u.n = j.n /\ u.got = j.got /\ u.half = j.half /\ u.due = j.due
    BY ONLY <1>1, <1>2, GoesOk, Zenon
<1> HIDE DEF u, a
<1>6. Plain(j)
    BY <1>1, <1>2, <1>3, PlainJob DEF Owing
<1>7. Owed(u, site.grant) = Owed(j, site.grant) - k
    <2>1. Owed(u, site.grant) = - k
        BY <1>5, OwedAt
    <2>2. Owed(j, site.grant) = 0
        BY <1>6, PlainOwes
    <2> HIDE DEF k
    <2>. QED  BY <1>4, <2>1, <2>2
<1>8. \A c \in ContractType : Unpaired(u, c) = Unpaired(j, c)
    <2>1. \A c : Unpaired(u, c) = 0
        BY <1>3, <1>5, UnpairedAt
    <2>2. \A c : Unpaired(j, c) = 0
        BY <1>6, PlainOwes
    <2>. QED  BY <2>1, <2>2
<1>9. Seen(w, r) \in Int
    BY <1>4, SeesAccounts
<1> HIDE DEF k
<1>10. StatementFails(w) \/ (Seen(w, r) >= k /\ Writes(w, r, Seen(w, r) - k, {}, u))
    BY <1>2, <1>4, <1>9 DEF Pays
<1>11. j.at # "lookup" /\ u.kind = "place" /\ u.at \notin {"store", "credit", "delete"}
    BY <1>2, <1>3, <1>5
<1>. QED  BY <1>3, <1>4, <1>5, <1>7, <1>8, <1>10, <1>11, PaysReckoned

(* The offer rests that was paid for: it is not there yet. *)
LEMMA InsertOfferReckoned ==
    ASSUME Types, OwnConnections, Ownership, Grounded, AddsUp, NEW w \in Worker, InsertOffer(w)
    PROVE  Grounded' /\ AddsUp'
<1> DEFINE j == job[w]
           m == Mine(w)
           o == Order[j.id]
           r == OfferOf(j.id)
           x == j.left
           u == [j EXCEPT !.at = "commit"]
           grant == site.grant
<1>1. /\ JobOk(j) /\ Backed(db, m, j) /\ Valid(db) /\ RowsOk(m) /\ grant \in Int
      /\ spoiled = {} /\ MarksOf(w) = {} => Orderly(db, m, j, grant)
      /\ Guarded(db, m, j, MarksOf(w), Listed)
    BY WorkerFacts DEF Ownership
<1> SUFFICES ASSUME ~ StatementFails(w) PROVE Grounded' /\ AddsUp'
    BY FailsReckoned
<1>2. j.at = "insert" /\ Goes(j, "commit") /\ Writes(w, r, x, {}, u)
    BY DEF InsertOffer, At, Goes
<1>3. j.kind = "place" /\ j.id \in OfferId /\ x \in 1..o.quantity
    BY <1>1, <1>2 DEF JobOk, StepOk, ValuesOk
<1>4. o.quantity \in Nat /\ o.price \in Price /\ x \in Nat /\ x <= o.quantity
    BY <1>3, Quantities
<1>5. r \in Row /\ r[1] = "offer" /\ r[2] = j.id
    BY <1>3, RowFacts
<1>6. Laid(db, m)[r] = 0
    BY <1>1, <1>2, <1>3, <1>5 DEF Laid, Guarded, OffersOk, HasOffer
<1>7. /\ JobOk(u) /\ u.at = "commit"
      /\ u.kind = j.kind /\ u.id = j.id /\ u.left = j.left /\ u.rows = j.rows
      /\ u.row = j.row /\ u.n = j.n /\ u.got = j.got /\ u.half = j.half /\ u.due = j.due
    BY ONLY <1>1, <1>2, GoesOk, Zenon
<1> HIDE DEF u
<1>8. Plain(u)
    BY <1>3, <1>7, PlainJob DEF Owing
<1>9. ValueOk(r, x)
    BY <1>4, <1>5 DEF ValueOk
<1>10. Cost(o.side, o.price, x) \in Int /\ Cost(o.side, o.price, 0) = 0
    <2> DEFINE p == o.price
               s == o.side
    <2>1. p \in Price /\ x \in Nat /\ 0 \in Nat /\ 0 <= x
        BY <1>4
    <2> HIDE DEF p, x, s
    <2>2. /\ Cost(s, p, 0) \in Nat /\ Cost(s, p, x) \in Nat
          /\ Cost(s, p, x - 0) = Cost(s, p, x) - Cost(s, p, 0)
          /\ Cost(s, p, 0) = 0
        BY ONLY <2>1, CostAdds, Zenon
    <2>. QED  BY <2>2 DEF p, s
<1>11. Owed(u, grant) = Owed(j, grant) + (Cost(o.side, o.price, x)
                                            - Cost(o.side, o.price, Laid(db, m)[r]))
    <2>1. Owed(u, grant) = 0
        BY <1>8, PlainOwes
    <2>2. Owed(j, grant) = - Cost(o.side, o.price, x)
        BY <1>1, <1>2, OwedAt
    <2>. QED  BY <1>6, <1>10, <2>1, <2>2
<1>12. \A c \in ContractType : Unpaired(u, c) = Unpaired(j, c)
    <2>1. \A c : Unpaired(u, c) = 0
        BY <1>8, PlainOwes
    <2>2. \A c : Unpaired(j, c) = 0
        BY <1>1, <1>2, <1>3, UnpairedAt
    <2>. QED  BY <2>1, <2>2
<1> HIDE DEF x
<1>13. Orderly(db, m, j, grant) => Orderly(db, Put(m, r, x), u, grant)
    <2>1. j.kind # "pay" /\ u.kind # "pay" /\ u.at \notin {"store", "credit", "delete"}
        BY <1>3, <1>7
    <2>. QED  BY <1>1, <1>3, <1>7, <1>9, <1>11, <1>12, <2>1, OfferOrderly
<1>14. Backed(db, Put(m, r, x), u)
    <2>1. Backed(db, m, u)
        BY <1>1, <1>2, <1>7, BackedGoes
    <2>. QED  BY <1>5, <2>1, BackedPut
<1>. QED  BY <1>1, <1>2, <1>13, <1>14, WritesReckoned

LEMMA ContractingReckoned ==
    ASSUME Types, OwnConnections, Ownership, Grounded, AddsUp, NEW w \in Worker, Contracting(w)
    PROVE  Grounded' /\ AddsUp'
<1>1. CASE ReadSide(w)
    BY <1>1, ReadSideReckoned
<1>2. CASE InsertSide(w) \/ UpdateSide(w)
    BY <1>2, StoreReckoned
<1>3. CASE DebitFixed(w)
    BY <1>3, DebitFixedReckoned
<1>4. CASE DebitUnfixed(w)
    BY <1>4, DebitUnfixedReckoned
<1>5. CASE Rest(w)
    BY <1>5, RestReckoned
<1>6. CASE InsertOffer(w)
    BY <1>6, InsertOfferReckoned
<1>. QED  BY <1>1, <1>2, <1>3, <1>4, <1>5, <1>6 DEF Contracting

(***************************************************************************)
(* Logins.                                                                 *)
(***************************************************************************)
LEMMA LoginOwes ==
    ASSUME NEW j, JobOk(j), j.kind = "login", NEW grant
    PROVE  /\ Owed(j, grant) = (IF Opening(j) THEN grant ELSE 0)
           /\ \A c : Unpaired(j, c) = 0
           /\ j.at \notin {"store", "credit", "delete"} /\ j.at \notin Owing
<1>1. j.at \notin {"store", "credit", "delete"} /\ j.at \notin Owing
    BY DEF JobOk, StepOk, PaySteps, Offering, Trading, Owing
<1>2. \A c : Unpaired(j, c) = 0
    BY <1>1, UnpairedAt DEF Owing
<1>. QED  BY <1>1, <1>2, OwedAt

(* A login that goes on, and has opened an account if it had before. *)
LEMMA LoginOrderly ==
    ASSUME NEW d, NEW m, NEW j, JobOk(j), NEW u, JobOk(u), NEW grant,
           Orderly(d, m, j, grant), j.kind = "login", u.kind = "login",
           Opening(u) <=> Opening(j)
    PROVE  Orderly(d, m, u, grant)
<1>1. Owed(u, grant) = Owed(j, grant) /\ \A c : Unpaired(u, c) = Unpaired(j, c)
    BY LoginOwes
<1>2. u.at \notin {"store", "credit", "delete"} /\ j.kind # "pay" /\ u.kind # "pay"
    BY LoginOwes
<1>. QED  BY <1>1, <1>2, OrderlyGoes

LEMMA FindUserReckoned ==
    ASSUME Types, OwnConnections, Ownership, Grounded, AddsUp, NEW w \in Worker, FindUser(w)
    PROVE  Grounded' /\ AddsUp'
<1> DEFINE j == job[w]
           m == Mine(w)
           v == Logins[j.id].user
           a == Seen(w, UserRow(v))
           b == Seen(w, AccountRow(a))
           create == [j EXCEPT !.at = "create"]
           save == [j EXCEPT !.at = "save", !.row = a, !.left = a, !.got = b]
<1>1. /\ JobOk(j) /\ Backed(db, m, j)
      /\ spoiled = {} /\ MarksOf(w) = {} => Orderly(db, m, j, site.grant)
      /\ Guarded(db, m, j, MarksOf(w), Listed)
    BY WorkerFacts DEF Ownership
<1>2. /\ j.at = "user" /\ j.kind = "login" /\ j.id \in DOMAIN Logins
    BY <1>1 DEF FindUser, At, JobOk, StepOk, ValuesOk, LoginSteps
<1>3. v \in User
    BY <1>2, ProcessesAssumption DEF User
<1>4. \/ a = 0 /\ Reads(w, create)
      \/ Reads(w, Idle)
      \/ a # 0 /\ Reads(w, save)
    BY DEF FindUser
<1>5. Plain(j)
    BY <1>1, <1>2, LoginOwes DEF Plain, Opening
<1>6. ASSUME NEW u, Plain(u), Backed(db, m, u), Reads(w, u) PROVE Grounded' /\ AddsUp'
    <2>1. Orderly(db, m, j, site.grant) => Orderly(db, m, u, site.grant)
        BY <1>5, <1>6, PlainOrderly
    <2>. QED  BY <1>1, <1>6, <2>1, ReadsReckoned
<1>7. CASE Reads(w, create)
    <2>1. Goes(j, "create")
        BY <1>2 DEF Goes
    <2>2. /\ JobOk(create) /\ create.at = "create"
          /\ create.kind = j.kind /\ create.id = j.id /\ create.left = j.left
          /\ create.rows = j.rows /\ create.row = j.row /\ create.n = j.n
          /\ create.got = j.got /\ create.half = j.half /\ create.due = j.due
        BY <1>1, <2>1, GoesOk
    <2> HIDE DEF create
    <2>3. Plain(create)
        BY <1>2, <2>2, LoginOwes DEF Plain, Opening
    <2>4. Backed(db, m, create)
        BY <1>1, <1>2, <2>2, BackedGoes
    <2>. QED  BY <1>6, <1>7, <2>3, <2>4
<1>8. CASE Reads(w, Idle)
    <2>1. Plain(Idle)
        BY IdleOk DEF Plain, Opening, Owing
    <2>2. Backed(db, m, Idle)
        BY <1>1, IdleOk DEF Backed
    <2>. QED  BY <1>6, <1>8, <2>1, <2>2
<1>9. CASE a # 0 /\ Reads(w, save)
    <2>1. UserRow(v) \notin DOMAIN m
        BY <1>1, <1>2, <1>3 DEF Guarded, UsersOk, HasUser
    <2>2. a = db[UserRow(v)]
        BY <2>1 DEF Seen, View, Mine
    <2>3. a \in Account /\ Living(db, a)
        <3>1. a \in Account \cup {0}
            BY <1>3, RowFacts, SeenOk DEF ValueOk
        <3>. QED  BY <1>3, <1>9, <2>2, <3>1 DEF Ownership
    <2>4. b \in Nat
        BY <2>3, SeesAccounts
    <2> HIDE DEF a, b
    <2>5. b \in Nat \cup {Absent}
        BY <2>4
    <2>6. JobOk(save)
        BY <1>1, <1>2, <2>3, <2>5, FoundOk
    <2>7. save.at = "save" /\ save.kind = j.kind /\ save.id = j.id
        BY <1>1 DEF JobOk, IsJob
    <2> HIDE DEF save
    <2>8. Plain(save)
        BY <1>2, <2>6, <2>7, LoginOwes DEF Plain, Opening
    <2>9. Backed(db, m, save)
        BY <1>1, <1>2, <2>7, BackedGoes
    <2>. QED  BY <1>6, <1>9, <2>8, <2>9
<1>. QED  BY <1>4, <1>7, <1>8, <1>9

(* A new account has the balance that a first login owes. *)
LEMMA CreateReckoned ==
    ASSUME Types, OwnConnections, Ownership, Grounded, AddsUp, NEW w \in Worker, CreateAccount(w)
    PROVE  Grounded' /\ AddsUp'
<1> DEFINE j == job[w]
           m == Mine(w)
           a == FreshAccount
           r == AccountRow(a)
           u == [j EXCEPT !.at = "upsert", !.row = a]
           grant == site.grant
<1>1. /\ JobOk(j) /\ Backed(db, m, j) /\ Valid(db) /\ RowsOk(m) /\ grant \in Nat
      /\ spoiled = {} /\ MarksOf(w) = {} => Orderly(db, m, j, grant)
      /\ Guarded(db, m, j, MarksOf(w), Listed)
    BY WorkerFacts DEF Ownership
<1>2. j.at = "create" /\ Writes(w, r, grant, {}, u)
    BY DEF CreateAccount, At
<1>3. j.kind = "login" /\ j.left = 0
    BY <1>1, <1>2 DEF JobOk, StepOk, LoginSteps, Guarded, UsersOk
<1>4. /\ a \in Account /\ db[AccountRow(a)] = Absent
      /\ \A h \in Connection : AccountRow(a) \notin DOMAIN work[h]
    BY FreshFacts DEF CreateAccount
<1> HIDE DEF a
<1>5. /\ JobOk(u) /\ u.at = "upsert" /\ u.row = a
      /\ u.kind = j.kind /\ u.id = j.id /\ u.left = j.left /\ u.rows = j.rows
      /\ u.n = j.n /\ u.got = j.got /\ u.half = j.half /\ u.due = j.due
    BY ONLY <1>1, <1>2, <1>4, CreatedOk, Zenon
<1> HIDE DEF u
<1>6. r \in Row /\ r[1] = "account"
    BY <1>4, RowFacts
<1>7. Laid(db, m)[r] = Absent
    BY <1>4, <1>6, Connected DEF Laid, Mine
<1>8. ValueOk(r, grant) /\ AtLeastZero(grant) = grant /\ AtLeastZero(Absent) = 0
    BY <1>1, <1>6 DEF ValueOk, AtLeastZero, Absent
<1>9. Owed(u, grant) = grant /\ Owed(j, grant) = 0
      /\ (\A c : Unpaired(u, c) = 0) /\ (\A c : Unpaired(j, c) = 0)
    <2>1. Opening(u) /\ ~ Opening(j)
        BY <1>2, <1>3, <1>5 DEF Opening
    <2>. QED  BY <1>1, <1>3, <1>5, <2>1, LoginOwes
<1>10. Owed(u, grant) = Owed(j, grant) + (AtLeastZero(grant) - AtLeastZero(Laid(db, m)[r]))
    BY <1>1, <1>7, <1>8, <1>9
<1> HIDE DEF grant
<1>11. Orderly(db, m, j, grant) => Orderly(db, Put(m, r, grant), u, grant)
    <2>1. j.kind # "pay" /\ u.kind # "pay" /\ u.at \notin {"store", "credit", "delete"}
        BY <1>3, <1>5
    <2>2. grant \in Int
        BY <1>1
    <2>. QED  BY <1>1, <1>4, <1>5, <1>8, <1>9, <1>10, <2>1, <2>2, AccountOrderly
<1>12. Backed(db, Put(m, r, grant), u)
    <2>1. Backed(db, m, u)
        BY <1>1, <1>3, <1>5, BackedGoes
    <2>. QED  BY <1>6, <2>1, BackedPut
<1>. QED  BY <1>1, <1>2, <1>11, <1>12, WritesReckoned DEF grant

(* A balance that is written back as it is. *)
LEMMA SaveReckoned ==
    ASSUME Types, OwnConnections, Ownership, Grounded, AddsUp, NEW w \in Worker, SaveAccount(w)
    PROVE  Grounded' /\ AddsUp'
<1> DEFINE j == job[w]
           m == Mine(w)
           a == j.row
           r == AccountRow(a)
           x == j.got
           why == StaleIf(Seen(w, r) # x, "balance")
           u == [j EXCEPT !.at = "upsert"]
           grant == site.grant
<1>1. /\ JobOk(j) /\ Backed(db, m, j) /\ Valid(db) /\ RowsOk(m) /\ grant \in Int
      /\ spoiled = {} /\ MarksOf(w) = {} => Orderly(db, m, j, grant)
      /\ Guarded(db, m, j, MarksOf(w), Listed)
    BY WorkerFacts DEF Ownership
<1>2. j.at = "save" /\ Goes(j, "upsert") /\ Writes(w, r, x, why, u)
    BY DEF SaveAccount, At, Goes
<1>3. j.kind = "login" /\ j.left # 0 /\ a \in Account /\ x \in Nat \cup {Absent}
    BY <1>1, <1>2 DEF JobOk, StepOk, ValuesOk, LoginSteps, Guarded, UsersOk
<1>4. /\ JobOk(u) /\ u.at = "upsert"
      /\ u.kind = j.kind /\ u.id = j.id /\ u.left = j.left /\ u.rows = j.rows
      /\ u.row = j.row /\ u.n = j.n /\ u.got = j.got /\ u.half = j.half /\ u.due = j.due
    BY ONLY <1>1, <1>2, GoesOk, Zenon
<1> HIDE DEF u
<1>5. r \in Row /\ r[1] = "account" /\ Seen(w, r) = Laid(db, m)[r]
    BY <1>3, RowFacts, SeenLaid
<1>6. why = {} => Seen(w, r) = x
    BY DEF StaleIf
<1>7. Owed(u, grant) = 0 /\ Owed(j, grant) = 0
      /\ (\A c : Unpaired(u, c) = 0) /\ (\A c : Unpaired(j, c) = 0)
    <2>1. ~ Opening(u) /\ ~ Opening(j)
        BY <1>3, <1>4 DEF Opening
    <2>. QED  BY <1>1, <1>3, <1>4, <2>1, LoginOwes
<1>8. ValueOk(r, x)
    BY <1>3, <1>5 DEF ValueOk, Absent
<1>9. Seen(w, r) = x /\ Orderly(db, m, j, grant) =>
        Orderly(db, Put(m, r, x), u, grant)
    <2> SUFFICES ASSUME Seen(w, r) = x, Orderly(db, m, j, grant)
                 PROVE  Orderly(db, Put(m, r, x), u, grant)
        OBVIOUS
    <2>1. AtLeastZero(x) \in Int
        BY <1>3 DEF AtLeastZero, Absent
    <2>2. Owed(u, grant) = Owed(j, grant) + (AtLeastZero(x) - AtLeastZero(Laid(db, m)[r]))
        BY <1>5, <1>7, <2>1
    <2>3. j.kind # "pay" /\ u.kind # "pay" /\ u.at \notin {"store", "credit", "delete"}
        BY <1>3, <1>4
    <2> HIDE DEF x, a
    <2>. QED  BY <1>1, <1>3, <1>4, <1>7, <1>8, <2>2, <2>3, AccountOrderly
<1>10. Backed(db, Put(m, r, x), u)
    <2>1. Backed(db, m, u)
        BY <1>1, <1>3, <1>4, BackedGoes
    <2>. QED  BY <1>5, <2>1, BackedPut
<1> HIDE DEF why, x
<1>. QED  BY <1>1, <1>2, <1>6, <1>9, <1>10, WritesReckoned

LEMMA UpsertReckoned ==
    ASSUME Types, OwnConnections, Ownership, Grounded, AddsUp, NEW w \in Worker, Upsert(w)
    PROVE  Grounded' /\ AddsUp'
<1> DEFINE j == job[w]
           m == Mine(w)
           mk == MarksOf(w)
           v == Logins[j.id].user
           r == UserRow(v)
           old == {NameRow(n) : n \in {n \in Name : Seen(w, NameRow(n)) = v}}
           q == Put(m, r, j.row)
           p == Over([s \in old |-> 0], q)
           u == [j EXCEPT !.at = "name"]
           why == StaleIf(Seen(w, r) # j.left, "login")
           all == mk \cup why
<1>1. /\ JobOk(j) /\ Backed(db, m, j)
      /\ spoiled = {} /\ mk = {} => Orderly(db, m, j, site.grant)
    BY WorkerFacts
<1>2. j.at = "upsert" /\ Alone(w, p, u, all)
    BY DEF Upsert, At, Becomes, Marked, requests, Put, Alone, Mine, MarksOf
<1>3. Goes(j, "name") /\ j.kind = "login" /\ j.id \in DOMAIN Logins
    BY <1>1, <1>2 DEF Goes, JobOk, StepOk, ValuesOk, LoginSteps
<1>4. v \in User
    BY <1>3, ProcessesAssumption DEF User
<1>5. /\ JobOk(u) /\ u.at = "name"
      /\ u.kind = j.kind /\ u.id = j.id /\ u.left = j.left /\ u.rows = j.rows
      /\ u.row = j.row /\ u.n = j.n /\ u.got = j.got /\ u.half = j.half /\ u.due = j.due
    BY ONLY <1>1, <1>3, GoesOk, Zenon
<1> HIDE DEF u
<1>6. r[1] = "user" /\ \A s \in old : s[1] = "name"
    BY <1>4, RowFacts
<1>7. Alike(m, p)
    <2>1. /\ \A s : s \in DOMAIN q <=> s = r \/ s \in DOMAIN m
          /\ \A s \in DOMAIN m : s # r => q[s] = m[s]
        BY PutDomain, PutRows
    <2> HIDE DEF q
    <2>2. DOMAIN p = old \cup DOMAIN q /\ \A s \in DOMAIN p : p[s] = IF s \in old THEN 0 ELSE q[s]
        BY DEF Over
    <2> HIDE DEF p, old, r
    <2>. QED  BY <1>6, <2>1, <2>2 DEF Alike
<1>8. Opening(u) <=> Opening(j)
    BY <1>2, <1>3, <1>5 DEF Opening
<1> HIDE DEF p, why
<1>9. Orderly(db, m, j, site.grant) => Orderly(db, p, u, site.grant)
    <2>1. Orderly(db, m, j, site.grant) => Orderly(db, m, u, site.grant)
        BY <1>1, <1>3, <1>5, <1>8, LoginOrderly
    <2>. QED  BY <1>5, <1>7, <2>1, AlikeOrderly
<1>10. Backed(db, p, u)
    <2>1. Backed(db, m, u)
        BY <1>1, <1>3, <1>5, BackedGoes
    <2>. QED  BY <1>5, <1>7, <2>1, AlikeBacked
<1>11. all = {} => mk = {}
    OBVIOUS
<1> HIDE DEF all
<1>12. spoiled = {} /\ all = {} => Orderly(db, p, u, site.grant)
    BY <1>1, <1>9, <1>11
<1>. QED  BY <1>2, <1>10, <1>12, AloneGrounded, AloneAddsUp

LEMMA TakeNameReckoned ==
    ASSUME Types, OwnConnections, Ownership, Grounded, AddsUp, NEW w \in Worker, TakeName(w)
    PROVE  Grounded' /\ AddsUp'
<1> DEFINE j == job[w]
           m == Mine(w)
           r == NameRow(Logins[j.id].name)
           v == Logins[j.id].user
           u == [j EXCEPT !.at = "commit"]
           p == Put(m, r, v)
<1>1. /\ JobOk(j) /\ Backed(db, m, j)
      /\ spoiled = {} /\ MarksOf(w) = {} => Orderly(db, m, j, site.grant)
    BY WorkerFacts
<1>2. j.at = "name" /\ Goes(j, "commit") /\ j.kind = "login" /\ j.id \in DOMAIN Logins
    BY <1>1 DEF TakeName, At, Goes, JobOk, StepOk, ValuesOk, LoginSteps
<1>3. CASE StatementFails(w)
    BY <1>3, FailsReckoned
<1>4. CASE Writes(w, r, v, {}, u)
    <2>1. r[1] = "name"
        BY <1>2, ProcessesAssumption, RowFacts
    <2>2. /\ JobOk(u) /\ u.at = "commit"
          /\ u.kind = j.kind /\ u.id = j.id /\ u.left = j.left /\ u.rows = j.rows
          /\ u.row = j.row /\ u.n = j.n /\ u.got = j.got /\ u.half = j.half /\ u.due = j.due
        BY ONLY <1>1, <1>2, GoesOk, Zenon
    <2> HIDE DEF u
    <2>3. Alike(m, p)
        BY <2>1, PutAlike
    <2>4. Opening(u) <=> Opening(j)
        BY <1>2, <2>2 DEF Opening
    <2> HIDE DEF p
    <2>5. Orderly(db, m, j, site.grant) => Orderly(db, p, u, site.grant)
        <3>1. Orderly(db, m, j, site.grant) => Orderly(db, m, u, site.grant)
            BY <1>1, <1>2, <2>2, <2>4, LoginOrderly
        <3>. QED  BY <2>2, <2>3, <3>1, AlikeOrderly
    <2>6. Backed(db, p, u)
        <3>1. Backed(db, m, u)
            BY <1>1, <1>2, <2>2, BackedGoes
        <3>. QED  BY <2>2, <2>3, <3>1, AlikeBacked
    <2>. QED  BY <1>1, <1>4, <2>5, <2>6, WritesReckoned DEF p
<1>. QED  BY <1>3, <1>4 DEF TakeName

LEMMA LoggingInReckoned ==
    ASSUME Types, OwnConnections, Ownership, Grounded, AddsUp, NEW w \in Worker, LoggingIn(w)
    PROVE  Grounded' /\ AddsUp'
BY FindUserReckoned, CreateReckoned, SaveReckoned, UpsertReckoned, TakeNameReckoned DEF LoggingIn

(***************************************************************************)
(* Resolutions.                                                            *)
(***************************************************************************)
PayerFacts(w) ==
    LET j == job[w]
    IN  /\ j.kind = "pay" /\ j.id \in ContractType /\ j.got \in Int /\ j.left \in Int
        /\ j.half \in {FIXED, UNFIXED}
        /\ j.at \in {"credit", "delete"} => j.row \in Account /\ Living(db, j.row)

LEMMA PayersFacts ==
    ASSUME Types, Grounded, AddsUp, NEW w \in Worker, job[w].at \in PaySteps
    PROVE  PayerFacts(w)
<1> DEFINE j == job[w]
<1>1. JobOk(j) /\ Backed(db, Mine(w), j)
    BY WorkerFacts
<1>2. /\ j.kind = "pay" /\ j.id \in ContractType
      /\ j.at \in {"credit", "delete"} => j.row \in Account /\ Living(db, j.row)
    BY <1>1 DEF JobOk, StepOk, ValuesOk, Backed
<1>3. j.got \in Int /\ j.left \in Int /\ j.half \in {FIXED, UNFIXED}
    BY <1>1, JobNumbers
<1>. QED  BY <1>2, <1>3 DEF PayerFacts

(* What resolve() has added up and paid, statement by statement. *)
LEMMA PayerOwes ==
    ASSUME NEW j, JobOk(j), j.kind = "pay", NEW grant
    PROVE  /\ Owed(j, grant) = PaidAhead(j)
           /\ \A c : Unpaired(j, c) = IF c = j.id THEN - Summed(j) ELSE 0
BY OwedAt, UnpairedAt

LEMMA PickReckoned ==
    ASSUME Types, OwnConnections, Ownership, Grounded, AddsUp, NEW w \in Worker, Pick(w)
    PROVE  Grounded' /\ AddsUp'
<1> DEFINE j == job[w]
           m == Mine(w)
           grant == site.grant
           P(a) == PositionRow(j.id, a)
<1>1. /\ JobOk(j) /\ Backed(db, m, j)
      /\ spoiled = {} /\ MarksOf(w) = {} => Orderly(db, m, j, grant)
    BY WorkerFacts
<1>2. j.at = "pick" /\ j.at \in PaySteps
    BY DEF Pick, At, PaySteps
<1>3. j.kind = "pay" /\ j.id \in ContractType /\ j.left \in Int /\ j.half \in {FIXED, UNFIXED}
    BY <1>2, PayersFacts DEF PayerFacts
<1>4. \A a \in Account : P(a) \in Row /\ Seen(w, P(a)) = Laid(db, m)[P(a)]
    BY <1>3, RowFacts, SeenLaid
<1>5. CASE HandlerRaises(w)
    BY <1>5, RaisesReckoned
<1>6. CASE /\ \A a \in Account : Seen(w, P(a)) = 0
           /\ j.left = 0 /\ Reads(w, [j EXCEPT !.at = "commit"])
    <2> DEFINE u == [j EXCEPT !.at = "commit"]
    <2>1. Goes(j, "commit")
        BY <1>2 DEF Goes
    <2>2. /\ JobOk(u) /\ u.at = "commit"
          /\ u.kind = j.kind /\ u.id = j.id /\ u.left = j.left /\ u.rows = j.rows
          /\ u.row = j.row /\ u.n = j.n /\ u.got = j.got /\ u.half = j.half /\ u.due = j.due
        BY ONLY <1>1, <2>1, GoesOk, Zenon
    <2> HIDE DEF u
    <2>3. Summed(u) = Summed(j) /\ PaidAhead(u) = PaidAhead(j)
        BY <1>2, <2>2 DEF Summed, PaidAhead
    <2>4. Owed(u, grant) = Owed(j, grant) /\ \A c : Unpaired(u, c) = Unpaired(j, c)
        BY <1>1, <1>3, <2>2, <2>3, PayerOwes
    <2>5. Orderly(db, m, j, grant) => Orderly(db, m, u, grant)
        <3> SUFFICES ASSUME Orderly(db, m, j, grant)
                     PROVE  Orderly(db, m, u, grant)
            OBVIOUS
        <3>1. Balanced(db, m, u, grant)
            BY <1>6, <2>4 DEF Orderly, Balanced
        <3>2. Picked(u)
            BY <1>6, <2>2 DEF Picked
        <3>. QED  BY <3>1, <3>2 DEF Orderly
    <2>6. Backed(db, m, u)
        BY <1>1, <1>3, <2>2, BackedGoes
    <2>. QED  BY <1>1, <1>6, <2>5, <2>6, ReadsReckoned DEF u
<1>7. ASSUME NEW a \in Account, NEW x \in {"credit", "delete"}, NEW p, NEW q,
             p = Seen(w, IdRow(j.id, a)), q = Seen(w, P(a)), q # 0,
             x = IF ((q > 0) <=> (j.half = FIXED)) THEN "credit" ELSE "delete",
             Reads(w, [j EXCEPT !.at = x, !.row = a, !.n = p, !.got = q, !.left = @ + q])
      PROVE  Grounded' /\ AddsUp'
    <2> DEFINE u == [j EXCEPT !.at = x, !.row = a, !.n = p, !.got = q, !.left = @ + q]
    <2>1. P(a)[1] = "position" /\ q \in Int /\ q = Laid(db, m)[P(a)] /\ p \in Int
        <3>1. IdRow(j.id, a) \in Row /\ IdRow(j.id, a)[1] = "id"
            BY <1>3, RowFacts
        <3>. QED  BY <1>3, <1>4, <1>7, <3>1, RowFacts, SeenOk DEF ValueOk
    <2>2. /\ JobOk(u) /\ u.at = x /\ u.row = a /\ u.got = q /\ u.left = j.left + q
          /\ u.kind = j.kind /\ u.id = j.id /\ u.half = j.half
        <3>1. JobOk(u)
            <4>1. p \in Int /\ q \in Int /\ JobOk(j) /\ j.at = "pick"
                BY <1>1, <1>2, <2>1
            <4>. QED  BY <4>1, PickedOk
        <3>. QED  BY <1>1, <3>1 DEF JobOk, IsJob
    <2> HIDE DEF u
    <2>3. Living(db, a)
        <3>1. P(a) \in DOMAIN m \/ db[P(a)] # 0
            BY <1>4, <1>7, <2>1 DEF Laid
        <3>. QED  BY <1>1, <1>3, <3>1 DEF Backed, Grounded, Rooted
    <2>5. HasWon(u) <=> x = "credit"
        BY <1>7, <2>2 DEF HasWon
    <2>6. Summed(u) = Summed(j)
        BY <1>2, <1>3, <2>1, <2>2 DEF Summed
    <2>7. PaidAhead(u) = PaidAhead(j)
        BY <1>2, <2>2, <2>5, <2>6 DEF PaidAhead
    <2>8. Owed(u, grant) = Owed(j, grant) /\ \A c : Unpaired(u, c) = Unpaired(j, c)
        BY <1>1, <1>3, <2>2, <2>6, <2>7, PayerOwes
    <2>9. Orderly(db, m, j, grant) => Orderly(db, m, u, grant)
        <3> SUFFICES ASSUME Orderly(db, m, j, grant)
                     PROVE  Orderly(db, m, u, grant)
            OBVIOUS
        <3>1. Balanced(db, m, u, grant)
            BY <2>8 DEF Orderly, Balanced
        <3>2. Picked(u)
            BY <1>7, <2>2, <2>5 DEF Picked
        <3>. QED  BY <3>1, <3>2 DEF Orderly
    <2>10. Backed(db, m, u)
        BY <1>1, <1>3, <2>2, <2>3, BackedGoes
    <2>. QED  BY <1>1, <1>7, <2>9, <2>10, ReadsReckoned DEF u
<1>. QED  BY <1>5, <1>6, <1>7 DEF Pick

(* The winner is paid before the stake is taken. *)
LEMMA PayWinnerReckoned ==
    ASSUME Types, OwnConnections, Ownership, Grounded, AddsUp, NEW w \in Worker, PayWinner(w)
    PROVE  Grounded' /\ AddsUp'
<1> DEFINE j == job[w]
           m == Mine(w)
           a == j.row
           r == AccountRow(a)
           q == Seen(w, r)
           y == Unit * Abs(j.got)
           x == q + y
           u == [j EXCEPT !.at = "delete"]
           n == Put(m, r, x)
           grant == site.grant
<1>1. /\ JobOk(j) /\ Backed(db, m, j) /\ Valid(db) /\ RowsOk(m) /\ grant \in Int
      /\ spoiled = {} /\ MarksOf(w) = {} => Orderly(db, m, j, grant)
    BY WorkerFacts
<1>2. j.at = "credit" /\ j.at \in PaySteps /\ Goes(j, "delete") /\ Updates(w, r, x, {}, u)
    BY DEF PayWinner, At, PaySteps, Goes
<1>3. j.kind = "pay" /\ j.id \in ContractType /\ j.got \in Int /\ a \in Account /\ Living(db, a)
    BY <1>2, PayersFacts DEF PayerFacts
<1>4. /\ JobOk(u) /\ u.at = "delete"
      /\ u.kind = j.kind /\ u.id = j.id /\ u.left = j.left /\ u.rows = j.rows
      /\ u.row = j.row /\ u.n = j.n /\ u.got = j.got /\ u.half = j.half /\ u.due = j.due
    BY ONLY <1>1, <1>2, GoesOk, Zenon
<1> HIDE DEF u
<1>5. q \in Nat /\ q = Laid(db, m)[r] /\ r \in Row /\ r[1] = "account"
    BY <1>3, SeesAccounts, SeenLaid, RowFacts
<1>6. Exist(r, q)
    BY <1>5 DEF Exist, Absent
<1>7. y \in Nat
    BY <1>3 DEF Unit, Abs
<1>8. PaidAhead(j) \in Int
    BY <1>1, JobNumbers
<1> HIDE DEF q, y
<1>9. x \in Nat /\ AtLeastZero(x) = q + y /\ AtLeastZero(q) = q
    BY <1>5, <1>7 DEF AtLeastZero
<1> HIDE DEF x
<1>10. Picked(j) => PaidAhead(u) = PaidAhead(j) + y
    <2> SUFFICES ASSUME Picked(j) PROVE PaidAhead(u) = PaidAhead(j) + y
        OBVIOUS
    <2>1. HasWon(j) /\ HasWon(u)
        BY <1>2, <1>4 DEF Picked, HasWon
    <2>2. Summed(u) = Summed(j) /\ Summed(j) \in Int
        BY <1>1, <1>2, <1>4, JobNumbers DEF Summed
    <2> DEFINE z == IF j.half = UNFIXED THEN - Unit * Summed(j) ELSE 0
    <2>3. z \in Int
        BY <2>2 DEF Unit
    <2>4. PaidAhead(u) = z + y
        BY <1>4, <2>1, <2>2 DEF PaidAhead, y
    <2>5. PaidAhead(j) = z + 0
        BY <1>2 DEF PaidAhead
    <2> HIDE DEF z
    <2>. QED  BY <1>7, <2>3, <2>4, <2>5
<1>11. \A c : Unpaired(u, c) = Unpaired(j, c)
    <2>1. Summed(u) = Summed(j)
        BY <1>2, <1>4 DEF Summed
    <2>. QED  BY <1>1, <1>3, <1>4, <2>1, PayerOwes
<1>12. Owed(u, grant) = PaidAhead(u) /\ Owed(j, grant) = PaidAhead(j)
    BY <1>1, <1>3, <1>4, PayerOwes
<1>13. Orderly(db, m, j, grant) => Orderly(db, n, u, grant)
    <2> SUFFICES ASSUME Orderly(db, m, j, grant)
                 PROVE  Orderly(db, n, u, grant)
        OBVIOUS
    <2>1. Picked(j) /\ Balanced(db, m, j, grant)
        BY DEF Orderly
    <2>2. Picked(u)
        BY <1>2, <1>4, <2>1 DEF Picked
    <2>3. ValueOk(r, x)
        BY <1>5, <1>9 DEF ValueOk
    <2>4. Owed(u, grant) = Owed(j, grant) + (AtLeastZero(x) - AtLeastZero(Laid(db, m)[r]))
        BY <1>5, <1>7, <1>8, <1>9, <1>10, <1>12, <2>1
    <2>5. Balanced(db, n, u, grant)
        <3> HIDE DEF a
        <3>. QED  BY <1>1, <1>3, <1>11, <2>1, <2>3, <2>4, AccountBalanced
    <2>. QED  BY <2>2, <2>5 DEF Orderly
<1>14. Backed(db, n, u) /\ Backed(db, m, u)
    <2>1. Backed(db, m, u)
        BY <1>1, <1>3, <1>4, BackedGoes
    <2>. QED  BY <1>5, <2>1, BackedPut
<1>. QED  BY <1>1, <1>2, <1>6, <1>13, <1>14, UpdatesReckoned DEF q

(* The stake is taken, whether its holder has won or not. *)
LEMMA StakeTaken ==
    ASSUME NEW j, JobOk(j), j.kind = "pay", j.at = "delete", NEW u, u.at = "pick",
           u.kind = j.kind, u.id = j.id, u.left = j.left, u.half = j.half
    PROVE  /\ PaidAhead(u) = PaidAhead(j) - Unit * AtLeastZero(j.got)
           /\ Summed(u) = Summed(j) + j.got
<1> DEFINE l == j.left
           g == j.got
<1>1. l \in Int /\ g \in Int /\ j.half \in {FIXED, UNFIXED}
    BY JobNumbers
<1>2. Summed(u) = l /\ Summed(j) = l - g
    BY DEF Summed
<1>3. PaidAhead(u) = (IF j.half = UNFIXED THEN - Unit * l ELSE 0) + 0
    BY <1>2 DEF PaidAhead
<1>4. PaidAhead(j) = (IF j.half = UNFIXED THEN - Unit * (l - g) ELSE 0)
                       + (IF HasWon(j) THEN Unit * Abs(g) ELSE 0)
    BY <1>2 DEF PaidAhead
<1>5. HasWon(j) <=> ((g > 0) <=> (j.half = FIXED))
    BY DEF HasWon
<1> HIDE DEF l, g
<1>6. CASE j.half = UNFIXED
    <2>1. PaidAhead(u) = - Unit * l
        BY <1>1, <1>3, <1>6 DEF Unit
    <2>2. PaidAhead(j) = - Unit * (l - g) + (IF g > 0 THEN 0 ELSE Unit * Abs(g))
        BY <1>4, <1>5, <1>6 DEF FIXED, UNFIXED
    <2>. QED  BY <1>1, <1>2, <2>1, <2>2 DEF Unit, Abs, AtLeastZero, l, g
<1>7. CASE j.half = FIXED
    <2>1. PaidAhead(u) = 0
        BY <1>3, <1>7 DEF FIXED, UNFIXED
    <2>2. PaidAhead(j) = IF g > 0 THEN Unit * Abs(g) ELSE 0
        BY <1>1, <1>4, <1>5, <1>7 DEF FIXED, UNFIXED, Unit, Abs
    <2>. QED  BY <1>1, <1>2, <2>1, <2>2 DEF Unit, Abs, AtLeastZero, l, g
<1>. QED  BY <1>1, <1>6, <1>7

LEMMA DeleteReckoned ==
    ASSUME Types, OwnConnections, Ownership, Grounded, AddsUp, NEW w \in Worker, DeletePosition(w)
    PROVE  Grounded' /\ AddsUp'
<1> DEFINE j == job[w]
           m == Mine(w)
           c == j.id
           a == j.row
           r == PositionRow(c, a)
           g == j.got
           why == StaleIf(Seen(w, r) # g, "position")
           u == [j EXCEPT !.at = "pick"]
           n == Put(m, r, 0)
           grant == site.grant
<1>1. /\ JobOk(j) /\ Backed(db, m, j) /\ Valid(db) /\ RowsOk(m) /\ grant \in Int
      /\ spoiled = {} /\ MarksOf(w) = {} => Orderly(db, m, j, grant)
    BY WorkerFacts
<1>2. /\ j.at = "delete" /\ j.at \in PaySteps /\ Goes(j, "pick")
      /\ \/ Updates(w, r, 0, why, u)
         \/ Lays(w, m, {"position"}, u)
    <2>1. j.at = "delete"
        BY DEF DeletePosition, At
    <2>2. CASE SameId(w)
        BY <2>1, <2>2 DEF DeletePosition, PaySteps, Goes
    <2>3. CASE ~ SameId(w)
        <3>1. work = [work EXCEPT ![site.conn[w]] = m]
            BY Connected DEF Types, Mine
        <3>. QED  BY <2>1, <2>3, <3>1 DEF DeletePosition, PaySteps, Goes, Lays, Becomes, Marked, requests
    <2>. QED  BY <2>2, <2>3
<1>3. j.kind = "pay" /\ c \in ContractType /\ g \in Int /\ a \in Account /\ Living(db, a)
    BY <1>2, PayersFacts DEF PayerFacts
<1>4. /\ JobOk(u) /\ u.at = "pick"
      /\ u.kind = j.kind /\ u.id = j.id /\ u.left = j.left /\ u.rows = j.rows
      /\ u.row = j.row /\ u.n = j.n /\ u.got = j.got /\ u.half = j.half /\ u.due = j.due
    BY ONLY <1>1, <1>2, GoesOk, Zenon
<1>5. r \in Row /\ r[1] = "position" /\ r[2] = c /\ r[3] = a
    BY <1>3, RowFacts
<1>6. Seen(w, r) = Laid(db, m)[r] /\ (Exist(r, Seen(w, r)) <=> Laid(db, m)[r] # 0)
    BY <1>5, SeenLaid DEF Exist
<1>7. why = {} => Seen(w, r) = g
    BY DEF StaleIf
<1>8. /\ \A s : s \in DOMAIN n <=> s = r \/ s \in DOMAIN m
      /\ n[r] = 0 /\ \A s \in DOMAIN m : s # r => n[s] = m[s]
    BY PutDomain, PutRows
<1> HIDE DEF u, n, why
<1>9. Backed(db, m, u)
    BY <1>1, <1>3, <1>4, BackedGoes
<1>10. Backed(db, n, u)
    <2>1. ASSUME NEW e \in ContractType, NEW b \in Account, PositionRow(e, b) \in DOMAIN n
          PROVE  Living(db, b)
        <3>1. PositionRow(e, b)[3] = b
            BY RowFacts
        <3>. QED  BY <1>3, <1>5, <1>8, <1>9, <2>1, <3>1 DEF Backed
    <2>. QED  BY <1>3, <1>4, <2>1 DEF Backed
<1>11. ASSUME Orderly(db, m, j, grant), Laid(db, m)[r] = g
       PROVE  Exist(r, Seen(w, r)) /\ Orderly(db, n, u, grant)
    <2>2. Balanced(db, m, j, grant) /\ Picked(j) /\ g # 0
          /\ g = Laid(db, m)[r]
        BY <1>2, <1>11 DEF Orderly, Picked
    <2>3. Owed(u, grant) = Owed(j, grant) + (Unit * AtLeastZero(0) - Unit * AtLeastZero(g))
        <3>1. PaidAhead(u) = PaidAhead(j) - Unit * AtLeastZero(g)
            BY <1>1, <1>2, <1>3, <1>4, StakeTaken
        <3>2. Owed(u, grant) = PaidAhead(u) /\ Owed(j, grant) = PaidAhead(j)
            BY <1>1, <1>3, <1>4, PayerOwes
        <3>3. PaidAhead(j) \in Int /\ AtLeastZero(g) \in Int
            BY <1>1, <1>3, JobNumbers DEF AtLeastZero
        <3>4. Unit * AtLeastZero(0) = 0 /\ Unit * AtLeastZero(g) \in Int
            BY <3>3 DEF AtLeastZero, Unit
        <3> DEFINE y == Unit * AtLeastZero(g)
                   z == Unit * AtLeastZero(0)
        <3> HIDE DEF y, z
        <3>5. y \in Int /\ z = 0 /\ PaidAhead(u) = PaidAhead(j) - y
            BY <3>1, <3>4 DEF y, z
        <3>6. Owed(u, grant) = Owed(j, grant) + (z - y)
            BY <3>2, <3>3, <3>5
        <3>. QED  BY <3>6 DEF y, z
    <2>4. ASSUME NEW e \in ContractType
          PROVE  Unpaired(u, e) = Unpaired(j, e) + (IF e = c THEN 0 - g ELSE 0)
        <3>1. Summed(u) = Summed(j) + g /\ Summed(j) \in Int
            BY <1>1, <1>2, <1>3, <1>4, StakeTaken, JobNumbers
        <3>2. /\ Unpaired(u, e) = IF e = c THEN - Summed(u) ELSE 0
              /\ Unpaired(j, e) = IF e = c THEN - Summed(j) ELSE 0
            BY <1>1, <1>3, <1>4, PayerOwes
        <3>. QED  BY <1>3, <3>1, <3>2
    <2>5. Balanced(db, n, u, grant)
        <3>1. 0 \in Int
            OBVIOUS
        <3> HIDE DEF c, a, g
        <3>. QED  BY <1>1, <1>3, <2>2, <2>3, <2>4, <3>1, PositionBalanced DEF n
    <2>6. Picked(u)
        BY <1>4 DEF Picked
    <2>. QED  BY <1>6, <2>2, <2>5, <2>6 DEF Orderly
<1>12. spoiled = {} /\ MarksOf(w) = {} /\ why = {} =>
         Exist(r, Seen(w, r)) /\ Orderly(db, n, u, grant)
    BY <1>1, <1>6, <1>7, <1>11
<1>13. CASE Updates(w, r, 0, why, u)
    BY <1>9, <1>10, <1>12, <1>13, UpdatesReckoned DEF n
<1>14. CASE Lays(w, m, {"position"}, u)
    BY <1>9, <1>14, LaysReckoned
<1>. QED  BY <1>2, <1>13, <1>14

LEMMA PayingReckoned ==
    ASSUME Types, OwnConnections, Ownership, Grounded, AddsUp, NEW w \in Worker, Paying(w)
    PROVE  Grounded' /\ AddsUp'
BY PickReckoned, PayWinnerReckoned, DeleteReckoned DEF Paying

(***************************************************************************)
(* Commits.                                                                *)
(***************************************************************************)
LEMMA MergedValid ==
    ASSUME NEW d, Valid(d), NEW m, RowsOk(m), NEW e, Merged(d, m, e)
    PROVE  Valid(e) /\ \A r \in Row : e[r] = Laid(d, m)[r]
BY DEF Merged, Valid, RowsOk, Laid

(* Accounts do not go away by a commit. *)
LEMMA BackedGrows ==
    ASSUME NEW d, NEW e, \A a \in Account : Living(d, a) => Living(e, a),
           NEW n, NEW i, JobOk(i), Backed(d, n, i)
    PROVE  Backed(e, n, i)
<1>1. i.at \in {"credit", "delete"} => i.row \in Account
    BY DEF JobOk, ValuesOk
<1>. QED  BY <1>1 DEF Backed

(* What a transaction has too much it still has when another one commits. *)
LEMMA OrderlyCommitted ==
    ASSUME NEW d, Valid(d), NEW m, RowsOk(m), NEW e, Merged(d, m, e), NEW n, RowsOk(n), Apart(m, n),
           NEW i, JobOk(i), NEW grant \in Int, Orderly(d, n, i, grant)
    PROVE  Orderly(e, n, i, grant)
<1>1. Picked(i) /\ Balanced(d, n, i, grant)
    BY DEF Orderly
<1>2. Valid(e)
    BY MergedValid
<1>3. Balanced(e, n, i, grant)
    <2> DEFINE t == Laid(e, n)
               u == Laid(d, n)
    <2>1. Valid(t) /\ Valid(u)
        BY <1>2, LaidValid
    <2>2. /\ Total(t) - Total(e) = Total(u) - Total(d)
          /\ \A c \in ContractType : NetOf(t, c) - NetOf(e, c) = NetOf(u, c) - NetOf(d, c)
        BY <1>2, MergedGap
    <2>3. /\ Total(u) = Total(d) + Owed(i, grant)
          /\ \A c \in ContractType : NetOf(u, c) = NetOf(d, c) + Unpaired(i, c)
        BY <1>1 DEF Balanced
    <2> HIDE DEF t, u
    <2>4. /\ Total(t) \in Int /\ Total(u) \in Int /\ Total(e) \in Int /\ Total(d) \in Int
          /\ \A c \in ContractType : /\ NetOf(t, c) \in Int /\ NetOf(u, c) \in Int
                                     /\ NetOf(e, c) \in Int /\ NetOf(d, c) \in Int
        BY <1>2, <2>1, TotalInt
    <2>5. Owed(i, grant) \in Int /\ \A c : Unpaired(i, c) \in Int
        BY OwedInt
    <2>6. Total(t) = Total(e) + Owed(i, grant)
        BY <2>2, <2>3, <2>4, <2>5
    <2>7. ASSUME NEW c \in ContractType PROVE NetOf(t, c) = NetOf(e, c) + Unpaired(i, c)
        BY <2>2, <2>3, <2>4, <2>5
    <2>. QED  BY <2>6, <2>7 DEF Balanced, t
<1>. QED  BY <1>1, <1>3 DEF Orderly

(***************************************************************************)
(* The commit of a worker.                                                 *)
(***************************************************************************)
(* At a commit nothing is owed but the balance of a new account. *)
LEMMA CommitOwes ==
    ASSUME NEW j, JobOk(j), j.at = "commit", j.kind = "pay" => j.left = 0, NEW grant
    PROVE  /\ Owed(j, grant) = IF Opening(j) THEN grant ELSE 0
           /\ \A c : Unpaired(j, c) = 0
<1>1. j.at \notin Owing /\ j.at \notin {"side", "store"}
    BY DEF Owing
<1>2. CASE j.kind = "pay"
    <2>1. Summed(j) = 0 /\ PaidAhead(j) = 0
        BY <1>2 DEF Summed, PaidAhead, Unit
    <2>2. ~ Opening(j)
        BY <1>2 DEF Opening
    <2>3. Owed(j, grant) = PaidAhead(j) /\ \A c : Unpaired(j, c) = IF c = j.id THEN - Summed(j) ELSE 0
        BY <1>2, OwedAt, UnpairedAt
    <2>. QED  BY <2>1, <2>2, <2>3
<1>3. CASE j.kind # "pay" /\ Opening(j)
    BY <1>1, <1>3, OwedAt, UnpairedAt
<1>4. CASE j.kind # "pay" /\ ~ Opening(j)
    BY <1>1, <1>4, OwedAt, UnpairedAt
<1>. QED  BY <1>2, <1>3, <1>4

LEMMA CommittedTokens ==
    ASSUME NEW d, Valid(d), NEW m, RowsOk(m), NEW e, Merged(d, m, e),
           NEW j, JobOk(j), j.at = "commit", NEW grant \in Int,
           Orderly(d, m, j, grant)
    PROVE  /\ Total(e) = Total(d) + (IF Opening(j) THEN grant ELSE 0)
           /\ \A c \in ContractType : NetOf(e, c) = NetOf(d, c)
<1>1. j.kind = "pay" => j.left = 0
    BY DEF Orderly, Picked
<1>2. Balanced(d, m, j, grant)
    BY DEF Orderly
<1>3. /\ Owed(j, grant) = IF Opening(j) THEN grant ELSE 0
      /\ \A c : Unpaired(j, c) = 0
    BY <1>1, CommitOwes
<1>4. \A r \in Row : e[r] = Laid(d, m)[r]
    BY MergedValid
<1>5. /\ Total(e) = Total(Laid(d, m))
      /\ \A c \in ContractType : NetOf(e, c) = NetOf(Laid(d, m), c)
    BY <1>4, SameTotal
<1>6. \A c \in ContractType : NetOf(d, c) \in Int
    BY TotalInt
<1>7. Total(e) = Total(d) + Owed(j, grant)
    BY <1>2, <1>5 DEF Balanced
<1>8. \A c \in ContractType : NetOf(e, c) = NetOf(d, c) + 0
    BY <1>2, <1>3, <1>5 DEF Balanced
<1>9. \A c \in ContractType : NetOf(e, c) = NetOf(d, c)
    BY <1>6, <1>8
<1>. QED  BY <1>3, <1>7, <1>9

(* The accounts that were opened, and the one that a first login adds. *)
LEMMA OpenedFinite ==
    ASSUME NEW S \in SUBSET Account
    PROVE  IsFiniteSet(S) /\ Cardinality(S) \in Nat
<1>1. IsFiniteSet(Account)
    BY Numbers, FS_Interval
<1>2. IsFiniteSet(S)
    BY <1>1, FS_Subset
<1>. QED  BY <1>2, FS_CardinalityType

LEMMA StartValid == Valid(Start) /\ StartTotal \in Int
<1>1. Valid(Start)
    BY StartOk DEF Valid, RowsOk
<1>2. StartTotal \in Int
    BY <1>1, TotalInt DEF StartTotal
<1>. QED  BY <1>1, <1>2

(* What a commit does to the books: nothing, but for the balance of a new  *)
(* account.                                                                *)
LEMMA CommitConserves ==
    ASSUME Types, OwnConnections, Ownership, Rooted(db), NEW w \in Worker, Commit(w),
           Orderly(db, Mine(w), job[w], site.grant), Conserved, ZeroSum
    PROVE  Conserved' /\ ZeroSum'
<1> DEFINE j == job[w]
           m == Mine(w)
           e == db'
           g == site.grant
           n == Cardinality(Opened)
<1>1. /\ Merged(db, m, e) /\ site' = site /\ JobOk(j) /\ j.at = "commit"
    BY CommitEffect
<1>2. Valid(db) /\ RowsOk(m) /\ g \in Int
    BY RowsValid, Connected
<1>3. Guarded(db, m, j, MarksOf(w), Listed)
    BY DEF Ownership
<1>4. /\ \A a \in Account : Living(db, a) => Living(e, a)
      /\ \A a \in Account : Living(e, a) => Living(db, a) \/ (Opening(j) /\ j.row = a)
    BY <1>1, <1>3, CommittedLiving
<1>5. /\ Total(e) = Total(db) + (IF Opening(j) THEN g ELSE 0)
      /\ \A c \in ContractType : NetOf(e, c) = NetOf(db, c)
    BY <1>1, <1>2, CommittedTokens
<1> HIDE DEF j, m, g
<1>6. Opened' = IF Opening(j) THEN Opened \cup {j.row} ELSE Opened
    <2>1. \A a \in Account : Living(db, a) => Living(e, a)
        BY <1>4
    <2>2. Opening(j) => /\ j.row \in Account /\ ~ Living(db, j.row) /\ Living(e, j.row)
                        /\ ~ Living(Start, j.row)
        <3>1. Opening(j) => /\ j.row \in Account /\ AccountRow(j.row) \in DOMAIN m
                            /\ ~ Living(db, j.row) /\ m[AccountRow(j.row)] # Absent
            BY <1>3 DEF Guarded, AccountsOk
        <3>2. Opening(j) => e[AccountRow(j.row)] = m[AccountRow(j.row)]
            BY <1>1, <3>1, RowFacts DEF Merged
        <3>. QED  BY <3>1, <3>2 DEF Living, Rooted
    <2>3. Opened' = {a \in Account : Living(e, a) /\ ~ Living(Start, a)}
        BY DEF Opened, Living
    <2>4. Opened = {a \in Account : Living(db, a) /\ ~ Living(Start, a)}
        BY DEF Opened, Living
    <2> HIDE DEF e
    <2>. QED  BY <1>4, <2>2, <2>3, <2>4
<1>7. n \in Nat /\ Cardinality(Opened') = IF Opening(j) THEN n + 1 ELSE n
    <2>1. Opened \in SUBSET Account
        BY DEF Opened
    <2>2. IsFiniteSet(Opened) /\ n \in Nat
        BY <2>1, OpenedFinite
    <2>3. Opening(j) => j.row \notin Opened
        <3>1. Opening(j) => j.row \in Account /\ ~ Living(db, j.row)
            BY <1>3 DEF Guarded, AccountsOk
        <3>. QED  BY <3>1 DEF Opened, Living
    <2>4. Opening(j) => Cardinality(Opened \cup {j.row}) = n + 1
        BY <2>2, <2>3, FS_AddElement
    <2>. QED  BY <1>6, <2>2, <2>4
<1>8. Total(db) = StartTotal + g * n
    BY DEF Conserved, g
<1> HIDE DEF n
<1>9. Total(e) = StartTotal + g * Cardinality(Opened')
    <2>1. CASE Opening(j)
        <3>1. Total(e) = (StartTotal + g * n) + g /\ Cardinality(Opened') = n + 1
            BY <1>5, <1>7, <1>8, <2>1
        <3>2. StartTotal \in Int /\ n \in Int /\ g * n \in Int
            BY <1>2, <1>7, StartValid
        <3>3. g * (n + 1) = g * n + g
            BY <1>2, <3>2
        <3>4. (StartTotal + g * n) + g = StartTotal + (g * n + g)
            BY <1>2, <3>2
        <3>. QED  BY <3>1, <3>3, <3>4
    <2>2. CASE ~ Opening(j)
        <3>1. Total(e) = (StartTotal + g * n) + 0 /\ Cardinality(Opened') = n
            BY <1>5, <1>7, <1>8, <2>2
        <3>2. StartTotal \in Int /\ g * n \in Int
            BY <1>2, <1>7, StartValid
        <3>. QED  BY <3>1, <3>2
    <2>. QED  BY <2>1, <2>2
<1>10. Conserved'
    <2>1. Start' = Start /\ StartTotal' = StartTotal
        BY DEF Start, StartTotal
    <2>. QED  BY <1>1, <1>9, <2>1 DEF Conserved, g, e
<1>11. ZeroSum'
    BY <1>5 DEF ZeroSum, NetOf, e
<1>. QED  BY <1>10, <1>11

LEMMA CommitReckoned ==
    ASSUME Types, OwnConnections, Ownership, Grounded, AddsUp, NEW w \in Worker, Commit(w)
    PROVE  Grounded' /\ AddsUp'
<1> DEFINE j == job[w]
           m == Mine(w)
           e == db'
           u == Committed(j)
<1>1. /\ Merged(db, m, e)
      /\ Mine(w)' = NoWork /\ job'[w] = u /\ MarksOf(w)' = {}
      /\ \A v \in Worker : v # w => /\ Mine(v)' = Mine(v) /\ job'[v] = job[v]
                                    /\ MarksOf(v)' = MarksOf(v)
      /\ site' = site /\ spoiled' = spoiled \cup MarksOf(w)
      /\ JobOk(j) /\ j.at = "commit"
    BY CommitEffect
<1>2. /\ JobOk(u)
      /\ j.kind = "resolve" => u.kind = "clear" /\ u.at = "clean"
      /\ j.kind = "clear" => u.kind = "pay" /\ u.at = "pick" /\ u.left = 0
      /\ j.kind = "pay" => u.kind = "final" /\ u.at = "find"
      /\ j.kind = "final" => u.kind = "last" /\ u.at = "clean"
      /\ j.kind \notin {"resolve", "clear", "pay", "final"} => u = Idle
    BY ONLY <1>1, CommittedOk, Zenon
<1>3. /\ Valid(db) /\ RowsOk(m) /\ Backed(db, m, j)
      /\ site.grant \in Nat /\ site.grant \in Int
    BY WorkerFacts
<1>4. Guarded(db, m, j, MarksOf(w), Listed)
    BY DEF Ownership
<1>5. \A a \in Account : Living(db, a) => Living(e, a)
    BY <1>1, <1>4, CommittedLiving
<1>6. Valid(e)
    BY <1>1, <1>3, MergedValid
<1> HIDE DEF e, u
<1>7. /\ u.kind = "place" => u.at = "lookup"
      /\ Even(u) /\ u.at \notin {"credit", "delete"}
    <2>1. CASE j.kind \in {"resolve", "clear", "pay", "final"}
        BY <1>2, <2>1 DEF Even, Opening
    <2>2. CASE j.kind \notin {"resolve", "clear", "pay", "final"}
        BY <1>2, <2>2, IdleOk DEF Even, Opening
    <2>. QED  BY <2>1, <2>2
<1>8. \A r \in Row : r \notin DOMAIN NoWork
    BY DEF NoWork
<1>9. \A c \in ContractType, a \in Account : PositionRow(c, a) \notin DOMAIN NoWork
    BY <1>8, RowFacts
<1>10. Backed(e, NoWork, u)
    BY <1>3, <1>7, <1>9, NothingBacked
<1>11. Grounded'
    <2>1. \A a \in Account : Living(Start, a) => Living(e, a)
        BY <1>5 DEF Grounded, Rooted
    <2>2. ASSUME NEW c \in ContractType, NEW a \in Account, e[PositionRow(c, a)] # 0
          PROVE  Living(e, a)
        <3>1. CASE PositionRow(c, a) \in DOMAIN m
            BY <1>3, <1>5, <3>1 DEF Backed
        <3>2. CASE PositionRow(c, a) \notin DOMAIN m
            <4>1. e[PositionRow(c, a)] = db[PositionRow(c, a)]
                BY <1>1, <3>2, RowFacts DEF Merged
            <4>. QED  BY <1>5, <2>2, <4>1 DEF Grounded, Rooted
        <3>. QED  BY <3>1, <3>2
    <2>3. ASSUME NEW v \in Worker PROVE Backed(e, Mine(v)', job'[v])
        <3>1. CASE v = w
            BY <1>1, <1>10, <3>1
        <3>2. CASE v # w
            <4>1. JobOk(job[v]) /\ Backed(db, Mine(v), job[v])
                BY WorkerFacts
            <4>2. Backed(e, Mine(v), job[v])
                BY <1>5, <4>1, BackedGrows
            <4>. QED  BY <1>1, <3>2, <4>2
        <3>. QED  BY <3>1, <3>2
    <2>4. Rooted(e)
        BY <2>1, <2>2 DEF Rooted
    <2>. QED  BY <1>1, <1>3, <2>3, <2>4 DEF Grounded, e
<1>12. AddsUp'
    <2> SUFFICES ASSUME spoiled' = {}
                 PROVE  /\ Conserved' /\ ZeroSum'
                        /\ \A v \in Worker :
                             MarksOf(v)' = {} =>
                                 Orderly(db', Mine(v)', job'[v], site'.grant)
        BY DEF AddsUp
    <2>1. spoiled = {} /\ MarksOf(w) = {}
        BY <1>1
    <2>2. Conserved /\ ZeroSum /\ Orderly(db, m, j, site.grant)
        BY <2>1 DEF AddsUp
    <2>3. Rooted(db)
        BY DEF Grounded
    <2>4. Conserved' /\ ZeroSum'
        BY <2>2, <2>3, CommitConserves
    <2>5. ASSUME NEW v \in Worker, MarksOf(v)' = {}
          PROVE  Orderly(e, Mine(v)', job'[v], site.grant)
        <3>1. CASE v = w
            <4>1. Orderly(e, NoWork, u, site.grant)
                <5>1. Even(u)
                    BY <1>3, <1>7
                <5>2. \A r \in Row : r \in DOMAIN NoWork => r[1] \notin {"account", "offer", "position"}
                    BY <1>8
                <5>. QED  BY <1>6, <5>1, <5>2, EvenOrderly
            <4>. QED  BY <1>1, <3>1, <4>1
        <3>2. CASE v # w
            <4>1. MarksOf(v) = {}
                BY <1>1, <2>5, <3>2
            <4>2. /\ JobOk(job[v]) /\ RowsOk(Mine(v)) /\ Backed(db, Mine(v), job[v])
                  /\ Orderly(db, Mine(v), job[v], site.grant)
                BY <2>1, <4>1, WorkerFacts
            <4>3. Apart(m, Mine(v))
                BY <3>2 DEF Ownership, Apart
            <4>4. Orderly(e, Mine(v), job[v], site.grant)
                BY <1>1, <1>3, <4>2, <4>3, OrderlyCommitted
            <4>. QED  BY <1>1, <3>2, <4>4
        <3>. QED  BY <3>1, <3>2
    <2>. QED  BY <1>1, <2>4, <2>5 DEF e
<1>. QED  BY <1>11, <1>12

(***************************************************************************)
(* Requests, crashes, time.                                                *)
(***************************************************************************)
(* A request owes what was left of the one before: nothing. *)
LEMMA BeginsReckoned ==
    ASSUME Types, OwnConnections, Grounded, AddsUp, NEW w \in Worker, job[w] = Idle,
           NEW u, JobOk(u), Alone(w, Mine(w), u, MarksOf(w)),
           u.at \in {"lookup", "read", "find", "user"},
           u.kind \in {"place", "cancel", "list", "login", "resolve"},
           u.kind = "place" => u.at = "lookup"
    PROVE  Grounded' /\ AddsUp'
<1> DEFINE m == Mine(w)
<1>1. /\ Backed(db, m, Idle)
      /\ spoiled = {} /\ MarksOf(w) = {} => Orderly(db, m, Idle, site.grant)
    BY WorkerFacts
<1>2. Plain(Idle)
    BY IdleOk DEF Plain, Opening, Owing
<1>3. Plain(u)
    BY DEF Plain, Opening, Owing
<1>4. Backed(db, m, u)
    BY <1>1 DEF Backed
<1>5. spoiled = {} /\ MarksOf(w) = {} => Orderly(db, m, u, site.grant)
    BY <1>1, <1>2, <1>3, PlainOrderly
<1>. QED  BY <1>4, <1>5, AloneGrounded, AloneAddsUp

LEMMA AskingReckoned ==
    ASSUME Types, OwnConnections, Grounded, AddsUp, NEW w \in Worker, Asks(w) \/ Page(w)
    PROVE  Grounded' /\ AddsUp'
<1>1. job[w] = Idle /\ site.conn[w] \in Connection
    BY Connected DEF Asks, Place, Cancel, List, LogIn, Resolve, Page, Request, Begins
<1>2. ASSUME NEW kind, NEW j, Begins(w, kind, j)
      PROVE  Alone(w, Mine(w), [j EXCEPT !.kind = kind], MarksOf(w))
    <2>1. /\ work = [work EXCEPT ![site.conn[w]] = work[site.conn[w]]]
          /\ marks = [marks EXCEPT ![site.conn[w]] = marks[site.conn[w]]]
        BY <1>1 DEF Types
    <2>. QED  BY <1>2, <2>1 DEF Begins, Becomes, Alone, Mine, MarksOf
<1>3. ASSUME NEW i \in OfferId, Place(w, i) PROVE Grounded' /\ AddsUp'
    <2> DEFINE j == [Idle EXCEPT !.at = "lookup", !.id = i, !.left = Order[i].quantity]
               u == [j EXCEPT !.kind = "place"]
    <2>1. Begins(w, "place", j)
        BY <1>3 DEF Place, Request
    <2>2. /\ JobOk(u) /\ u.kind = "place" /\ u.at = "lookup" /\ u.id = i
          /\ u.left = Order[i].quantity /\ DOMAIN u.rows = {}
        BY ONLY <1>3, PlaceJob, Zenon
    <2>3. Alone(w, Mine(w), u, MarksOf(w))
        BY <1>2, <2>1
    <2> HIDE DEF u, j
    <2>. QED  BY <1>1, <2>1, <2>2, <2>3, BeginsReckoned
<1>4. ASSUME NEW i \in OfferId, Cancel(w, i) PROVE Grounded' /\ AddsUp'
    <2> DEFINE j == [Idle EXCEPT !.at = "read", !.row = i]
               u == [j EXCEPT !.kind = "cancel"]
    <2>1. Begins(w, "cancel", j)
        BY <1>4 DEF Cancel, Request
    <2>2. /\ JobOk(u) /\ u.kind = "cancel" /\ u.at = "read" /\ u.row = i
          /\ u.left = 0 /\ DOMAIN u.rows = {}
        BY ONLY <1>4, CancelJob, Zenon
    <2>3. Alone(w, Mine(w), u, MarksOf(w))
        BY <1>2, <2>1
    <2> HIDE DEF u, j
    <2>. QED  BY <1>1, <2>2, <2>3, BeginsReckoned
<1>5. CASE List(w) \/ Page(w)
    <2> DEFINE j == [Idle EXCEPT !.at = "find"]
               u == [j EXCEPT !.kind = "list"]
    <2>1. Begins(w, "list", j)
        BY <1>5 DEF List, Page, Request
    <2>2. /\ JobOk(u) /\ u.kind = "list" /\ u.at = "find"
          /\ u.left = 0 /\ DOMAIN u.rows = {}
        BY ONLY ListJob, Zenon
    <2>3. Alone(w, Mine(w), u, MarksOf(w))
        BY <1>2, <2>1
    <2> HIDE DEF u, j
    <2>. QED  BY <1>1, <2>2, <2>3, BeginsReckoned
<1>6. ASSUME NEW l \in DOMAIN Logins, LogIn(w, l) PROVE Grounded' /\ AddsUp'
    <2> DEFINE j == [Idle EXCEPT !.at = "user", !.id = l, !.n = 1]
               u == [j EXCEPT !.kind = "login"]
    <2>1. Begins(w, "login", j)
        BY <1>6 DEF LogIn, Request
    <2>2. /\ JobOk(u) /\ u.kind = "login" /\ u.at = "user" /\ u.id = l /\ u.n = 1
          /\ u.left = 0 /\ DOMAIN u.rows = {}
        BY ONLY <1>6, LoginJob, Zenon
    <2>3. Alone(w, Mine(w), u, MarksOf(w))
        BY <1>2, <2>1
    <2> HIDE DEF u, j
    <2>. QED  BY <1>1, <2>2, <2>3, BeginsReckoned
<1>7. ASSUME NEW c \in ContractType, NEW side \in Side, Resolve(w, c, side) PROVE Grounded' /\ AddsUp'
    <2> DEFINE j == [Idle EXCEPT !.at = "lookup", !.id = c, !.half = side]
               u == [j EXCEPT !.kind = "resolve"]
    <2>1. Begins(w, "resolve", j)
        BY <1>7 DEF Resolve, Request
    <2>2. /\ JobOk(u) /\ u.kind = "resolve" /\ u.at = "lookup" /\ u.id = c /\ u.half = side
          /\ u.left = 0 /\ DOMAIN u.rows = {}
        BY ONLY <1>7, ResolveJob, Zenon
    <2>3. Alone(w, Mine(w), u, MarksOf(w))
        BY <1>2, <2>1
    <2> HIDE DEF u, j
    <2>. QED  BY <1>1, <2>1, <2>2, <2>3, BeginsReckoned
<1>. QED  BY <1>3, <1>4, <1>5, <1>6, <1>7 DEF Asks

(* Nobody who does nothing owes anything. *)
LEMMA IdleSound ==
    ASSUME NEW d, Valid(d), NEW grant
    PROVE  Backed(d, NoWork, Idle) /\ Orderly(d, NoWork, Idle, grant)
<1>1. \A r \in Row : r \notin DOMAIN NoWork
    BY DEF NoWork
<1>2. \A c \in ContractType, a \in Account : PositionRow(c, a) \notin DOMAIN NoWork
    BY <1>1, RowFacts
<1>3. Even(Idle)
    BY IdleOk DEF Even, Opening
<1>4. Backed(d, NoWork, Idle)
    BY <1>2, IdleOk, NothingBacked
<1>5. Orderly(d, NoWork, Idle, grant)
    BY <1>1, <1>3, EvenOrderly
<1>. QED  BY <1>4, <1>5

LEMMA OthersReckoned ==
    ASSUME Types, OwnConnections, Grounded, AddsUp, Mature \/ Quiet \/ \E k \in Connection : Crash(k)
    PROVE  Grounded' /\ AddsUp'
<1>1. UNCHANGED <<site, db, spoiled>>
    BY DEF Mature, Quiet, Crash, vars, connections, requests, Grounded
<1>2. Valid(db)
    BY RowsValid
<1>3. ASSUME NEW w \in Worker
      PROVE  \/ Mine(w)' = NoWork /\ job'[w] = Idle
             \/ /\ Mine(w)' = Mine(w) /\ job'[w] = job[w] /\ MarksOf(w)' = MarksOf(w)
    <2>1. CASE Mature
        BY <1>1, <2>1 DEF Mature, Mine, MarksOf, connections
    <2>2. CASE Quiet
        BY <2>2 DEF Quiet, vars, connections, requests, Mine, MarksOf
    <2>3. ASSUME NEW k \in Connection, Crash(k)
          PROVE  \/ Mine(w)' = NoWork /\ job'[w] = Idle
                 \/ /\ Mine(w)' = Mine(w) /\ job'[w] = job[w] /\ MarksOf(w)' = MarksOf(w)
        <3>1. /\ job' = [v \in Worker |-> IF site.conn[v] = k THEN Idle ELSE job[v]]
              /\ work' = [work EXCEPT ![k] = NoWork]
              /\ marks' = [marks EXCEPT ![k] = {}] /\ site' = site
            BY <2>3 DEF Crash
        <3>2. site.conn[w] \in Connection
            BY Connected
        <3>. QED  BY <3>1, <3>2 DEF Types, Mine, MarksOf
    <2>. QED  BY <2>1, <2>2, <2>3
<1>4. Grounded'
    <2>1. ASSUME NEW w \in Worker PROVE Backed(db, Mine(w)', job'[w])
        <3>1. Backed(db, Mine(w), job[w]) /\ Backed(db, NoWork, Idle)
            BY <1>1, <1>2, IdleSound DEF Grounded
        <3>. QED  BY <1>3, <3>1
    <2>2. Rooted(db)
        BY DEF Grounded
    <2>3. Rooted(db') /\ \A w \in Worker : Backed(db', Mine(w)', job'[w])
        BY <1>1, <2>1, <2>2
    <2>. QED  BY <1>1, <2>3 DEF Grounded
<1>5. AddsUp'
    <2> SUFFICES ASSUME spoiled = {}
                 PROVE  /\ Conserved' /\ ZeroSum'
                        /\ \A w \in Worker :
                             MarksOf(w)' = {} =>
                                 Orderly(db', Mine(w)', job'[w], site'.grant)
        BY <1>1 DEF AddsUp
    <2>1. Conserved' /\ ZeroSum'
        BY <1>1 DEF AddsUp, Conserved, ZeroSum, Opened, StartTotal
    <2>2. ASSUME NEW w \in Worker, MarksOf(w)' = {}
          PROVE  Orderly(db, Mine(w)', job'[w], site.grant)
        <3>1. Orderly(db, NoWork, Idle, site.grant)
            BY <1>1, <1>2, IdleSound
        <3>2. MarksOf(w) = {} => Orderly(db, Mine(w), job[w], site.grant)
            BY DEF AddsUp
        <3>. QED  BY <1>3, <2>2, <3>1, <3>2
    <2>. QED  BY <1>1, <2>1, <2>2
<1>. QED  BY <1>4, <1>5

LEMMA ReckonedInit ==
    ASSUME Init
    PROVE  Grounded /\ AddsUp
<1>1. db = Start /\ \A w \in Worker : job[w] = Idle
    BY DEF Init
<1>2. \A w \in Worker : Mine(w) = NoWork
    BY TypesInit, Connected DEF Init, Mine
<1>3. Valid(db) /\ site.grant \in Int
    BY <1>1, StartValid, TypesInit, Connected
<1>4. \A w \in Worker : /\ Backed(db, Mine(w), job[w])
                        /\ Orderly(db, Mine(w), job[w], site.grant)
    BY <1>1, <1>2, <1>3, IdleSound
<1>5. Rooted(db)
    <2> SUFFICES ASSUME NEW c \in ContractType, NEW a \in Account, Start[PositionRow(c, a)] # 0
                 PROVE  Living(Start, a)
        BY <1>1 DEF Rooted
    <2>1. \E u \in Known : FirstUser[u].account = a
        BY StartValues, StartAssumption
    <2>2. Start[AccountRow(a)] \in Nat
        BY <2>1, StartValues, TablesAssumption
    <2>. QED  BY <2>2 DEF Living, Absent
<1>6. Conserved
    <2>1. Opened = {} /\ Total(db) = StartTotal
        BY <1>1 DEF Opened, StartTotal
    <2>2. Cardinality(Opened) = 0 /\ site.grant * 0 = 0 /\ StartTotal \in Int
        BY <1>3, <2>1, FS_EmptySet, StartValid
    <2>. QED  BY <2>1, <2>2 DEF Conserved
<1>7. ZeroSum
    <2> SUFFICES ASSUME NEW c \in ContractType
                 PROVE  SumTo([a \in Account |-> db[PositionRow(c, a)]], NumAccounts) = 0
        BY DEF ZeroSum
    <2>1. [a \in Account |-> db[PositionRow(c, a)]] = Holdings[c]
        BY <1>1, StartValues, StartAssumption
    <2>. QED  BY <2>1, StartAssumption
<1>. QED  BY <1>1, <1>4, <1>5, <1>6, <1>7 DEF Grounded, AddsUp

LEMMA ReckonedNext == Types /\ Kept /\ Reckoned /\ [Next]_vars => Reckoned'
<1> SUFFICES ASSUME Types, Kept, Reckoned, [Next]_vars PROVE Reckoned'
    OBVIOUS
<1>1. site' = site
    <2>1. ASSUME NEW w \in Worker, Asks(w) \/ Page(w) \/ Step(w) \/ DeadlockDetected(w)
          PROVE  site' = site
        <3>1. Commit(w) => site' = site
            BY DEF Commit, requests
        <3>. QED  BY <2>1, <3>1, OnlyCommits DEF Step
    <2>2. (Mature \/ Quiet \/ \E k \in Connection : Crash(k)) => site' = site
        BY DEF Mature, Quiet, Crash, vars, connections, requests
    <2>3. UNCHANGED vars => site' = site
        BY DEF vars, connections, requests
    <2>. QED  BY <2>1, <2>2, <2>3 DEF Next
<1>2. SUFFICES ASSUME OwnConnections PROVE Grounded' /\ AddsUp'
    BY <1>1 DEF Reckoned, OwnConnections
<1>3. Ownership /\ Grounded /\ AddsUp
    BY <1>2 DEF Kept, Reckoned
<1>4. ASSUME NEW w \in Worker, Asks(w) \/ Page(w) \/ Step(w) \/ DeadlockDetected(w)
      PROVE  Grounded' /\ AddsUp'
    <2>1. DeadlockDetected(w) => StatementFails(w)
        BY DEF DeadlockDetected
    <2>. QED  BY <1>2, <1>3, <1>4, <2>1, AskingReckoned, MatchingReckoned, SweepingReckoned,
                 ContractingReckoned, LoggingInReckoned, PayingReckoned, CommitReckoned, NoneAborted, FailsReckoned
              DEF Step
<1>5. CASE Mature \/ Quiet \/ \E k \in Connection : Crash(k)
    BY <1>2, <1>3, <1>5, OthersReckoned
<1>6. CASE UNCHANGED vars
    <2>1. Grounded'
        BY <1>3, <1>6 DEF Grounded, vars, connections, requests, Mine
    <2>2. AddsUp'
        BY <1>3, <1>6 DEF AddsUp, vars, connections, requests, Mine, MarksOf,
                          Conserved, ZeroSum, Opened, StartTotal
    <2>. QED  BY <2>1, <2>2
<1>. QED  BY <1>4, <1>5, <1>6 DEF Next

(* At every statement a transaction owes what its place in the code and    *)
(* its local variables say, and a commit of another does not change that.  *)
THEOREM ReckonedInvariant == Spec => []Reckoned
<1>1. Init => Reckoned
    BY ReckonedInit DEF Reckoned
<1>. QED  BY <1>1, ReckonedNext, TypesInvariant, KeptInvariant, PTL DEF Spec

(* Whatever runs at the same time, dies or is refused, orders after        *)
(* maturity and beside resolutions too: what is committed holds the tokens *)
(* of the start and the balances of the accounts opened since, and pairs   *)
(* of units, unless an offer, a position or a balance had changed since it *)
(* was read or an operation that raised was committed by another.          *)
THEOREM TokensAccounted == Spec => []Accounted
<1>1. Reckoned => Accounted
    BY DEF Reckoned, AddsUp, Accounted
<1>. QED  BY <1>1, ReckonedInvariant, PTL

(***************************************************************************)
(* That orders alone take turns.                                           *)
(*                                                                         *)
(* Between the upsert of ContractType.lookup() and its commit an order is  *)
(* the only one on its contract type, so that the offers it has found stay *)
(* what they were but for what it takes itself, and no other offer that it *)
(* crosses comes into the book.  The invariant says which offers the order *)
(* still has before it at every statement, and that it has them all.       *)
(***************************************************************************)

(* An offer in t that order j should be matched with. *)
Rival(t, j, i) == Crossing(Order[j.id], Order[i]) /\ t[OfferOf(i)] # 0

(* The rows that order j goes through are all its rivals, and as it found  *)
(* them, but for the one it takes units of.                                *)
Before(t, j) ==
    /\ j.row \in DOMAIN j.rows /\ j.n = Min({j.left, j.rows[j.row]})
    /\ \A i \in DOMAIN j.rows :
         /\ Crossing(Order[j.id], Order[i])
         /\ t[OfferOf(i)] = IF i = j.row /\ j.at \in Trading THEN j.rows[i] - j.n ELSE j.rows[i]
    /\ \A i \in OfferId : Rival(t, j, i) => i \in DOMAIN j.rows
    /\ j.at \in {"refund", "shrink"} => j.got = j.rows[j.row]

(* Only offers and positions of the contract type of order id are in m. *)
Confined(m, id) ==
    /\ \A i \in OfferId : OfferOf(i) \in DOMAIN m => Order[i].ct = Order[id].ct
    /\ \A c \in ContractType, a \in Account : PositionRow(c, a) \in DOMAIN m => c = Order[id].ct

(* The turn of an order: what it has written and what it has found is of   *)
(* its contract type, the position that it is about to write is as it was  *)
(* read, and its own offer comes when no rival is left.                    *)
Turn(d, m, j) ==
    /\ j.kind \in {"none", "place"}
    /\ j.at \in {"idle", "lookup"} => m = NoWork
    /\ Confined(m, j.id)
    /\ j.at = "store" => Laid(d, m)[HolderRow(j)] = j.got
    /\ j.at \in Offering \cup Trading => Before(Laid(d, m), j)
    /\ j.at \in {"rest", "insert"} \/ (j.at = "commit" /\ OfferOf(j.id) \in DOMAIN m) =>
         \A i \in OfferId : ~ Rival(Laid(d, m), j, i)

Turns ==
    /\ spoiled = {} /\ Uncrossed
    /\ \A k \in Connection : marks[k] = {}
    /\ \A w \in Worker : Turn(db, Mine(w), job[w])

Ordered == OwnConnections /\ used \subseteq {"place"} => Turns

(***************************************************************************)
(* What keeps a turn.                                                      *)
(***************************************************************************)
(* The same offers, with the same units. *)
SameOffers(d, m, n) ==
    \A i \in OfferId : /\ OfferOf(i) \in DOMAIN n <=> OfferOf(i) \in DOMAIN m
                       /\ Laid(d, n)[OfferOf(i)] = Laid(d, m)[OfferOf(i)]

LEMMA PutSameOffers ==
    ASSUME NEW d, NEW m, NEW r \in Row, r[1] # "offer", NEW x
    PROVE  SameOffers(d, m, Put(m, r, x))
<1>1. \A i \in OfferId : OfferOf(i) \in Row /\ OfferOf(i) # r
    BY RowFacts
<1>2. But(Laid(d, m), Laid(d, Put(m, r, x)), r)
    BY LaidPut
<1>3. \A s : s \in DOMAIN Put(m, r, x) <=> s = r \/ s \in DOMAIN m
    BY PutDomain
<1>. QED  BY <1>1, <1>2, <1>3 DEF SameOffers, But

LEMMA SameOffersTwice ==
    ASSUME NEW d, NEW m, NEW n, NEW p, SameOffers(d, m, n), SameOffers(d, n, p)
    PROVE  SameOffers(d, m, p)
BY DEF SameOffers

LEMMA PutConfined ==
    ASSUME NEW m, NEW id, Confined(m, id), NEW r \in Row, NEW x,
           \/ r[1] \notin {"offer", "position"}
           \/ \E i \in OfferId : r = OfferOf(i) /\ Order[i].ct = Order[id].ct
           \/ \E a \in Account : r = PositionRow(Order[id].ct, a) /\ Order[id].ct \in ContractType
    PROVE  Confined(Put(m, r, x), id)
<1>1. \A s : s \in DOMAIN Put(m, r, x) <=> s = r \/ s \in DOMAIN m
    BY PutDomain
<1>2. \A i \in OfferId : OfferOf(i) = r => Order[i].ct = Order[id].ct
    BY RowFacts
<1>3. \A c \in ContractType, a \in Account : PositionRow(c, a) = r => c = Order[id].ct
    BY RowFacts
<1>. QED  BY <1>1, <1>2, <1>3 DEF Confined

(* A worker with nothing to do. *)
LEMMA IdleTurn ==
    ASSUME NEW d
    PROVE  Turn(d, NoWork, Idle)
<1>1. DOMAIN NoWork = {}
    BY DEF NoWork
<1>. QED  BY <1>1, IdleOk DEF Turn, Confined, Offering, Trading

(* A statement about other rows than offers. *)
LEMMA TurnGoes ==
    ASSUME NEW d, NEW m, NEW j, Turn(d, m, j), NEW n, SameOffers(d, m, n), Confined(n, j.id),
           NEW u, u.at = "store" => Laid(d, n)[HolderRow(u)] = u.got,
           u.kind = j.kind, u.id = j.id, u.left = j.left, u.rows = j.rows, u.row = j.row, u.n = j.n,
           DOMAIN j.rows \subseteq OfferId,
           \/ j.at = "refund" /\ u.at = "shrink" /\ u.got = j.got
           \/ j.at \in Trading /\ u.at \in Trading
           \/ j.at = "rest" /\ u.at = "insert"
           \/ j.at = "lookup" /\ u.at = "match"
    PROVE  Turn(d, n, u)
<1> DEFINE t == Laid(d, m)
           v == Laid(d, n)
<1>1. \A i \in OfferId : v[OfferOf(i)] = t[OfferOf(i)]
    BY DEF SameOffers
<1>2. Confined(n, u.id) /\ (u.at = "store" => v[HolderRow(u)] = u.got)
    OBVIOUS
<1>3. Offering = {"read", "refund", "shrink"} /\ Trading = {"side", "store", "debit"}
    BY DEF Offering, Trading
<1> HIDE DEF t, v
<1>4. \A i \in OfferId : Rival(v, u, i) <=> Rival(t, j, i)
    BY <1>1 DEF Rival
<1>5. u.at \in Offering \cup Trading => Before(v, u)
    <2> SUFFICES ASSUME u.at \in Offering \cup Trading PROVE Before(v, u)
        OBVIOUS
    <2>1. Before(t, j)
        BY <1>3 DEF Turn, t
    <2>2. u.at \in Trading <=> j.at \in Trading
        BY <1>3
    <2>3. u.at \in {"refund", "shrink"} => u.got = u.rows[u.row]
        BY <1>3, <2>1 DEF Before
    <2>4. \A i \in DOMAIN u.rows :
            /\ Crossing(Order[u.id], Order[i])
            /\ v[OfferOf(i)] = IF i = u.row /\ u.at \in Trading THEN u.rows[i] - u.n ELSE u.rows[i]
        BY <1>1, <2>1, <2>2 DEF Before
    <2>. QED  BY <1>4, <2>1, <2>3, <2>4 DEF Before
<1>6. u.at \in {"rest", "insert"} => \A i \in OfferId : ~ Rival(v, u, i)
    BY <1>3, <1>4 DEF Turn, t
<1>7. u.kind \in {"none", "place"} /\ u.at \notin {"idle", "lookup", "commit"}
    BY <1>3 DEF Turn
<1>. QED  BY <1>2, <1>5, <1>6, <1>7 DEF Turn, v

(* The loop goes on to the rows that are left, or to the order's own offer. *)
LEMMA LoopTurn ==
    ASSUME NEW d, NEW m, NEW id, NEW rows, NEW u, u.kind = "place", u.id = id,
           Confined(m, id),
           \A i \in OfferId : Crossing(Order[id], Order[i]) /\ Laid(d, m)[OfferOf(i)] # 0
                                => i \in DOMAIN rows,
           \A i \in DOMAIN rows : /\ Crossing(Order[id], Order[i])
                                  /\ Laid(d, m)[OfferOf(i)] = rows[i],
           DOMAIN rows = {} => u.at = "rest",
           DOMAIN rows # {} =>
               /\ u.at = "read" /\ DOMAIN u.rows = DOMAIN rows
               /\ \A i \in DOMAIN rows : u.rows[i] = rows[i]
               /\ u.row \in DOMAIN rows /\ u.n = Min({u.left, rows[u.row]})
    PROVE  Turn(d, m, u)
<1> DEFINE t == Laid(d, m)
<1>1. CASE DOMAIN rows = {}
    <2>1. \A i \in OfferId : ~ Rival(t, u, i)
        BY <1>1 DEF Rival
    <2>. QED  BY <1>1, <2>1 DEF Turn, Offering, Trading
<1>2. CASE DOMAIN rows # {}
    <2>1. u.at = "read" /\ u.at \notin Trading
        BY <1>2 DEF Trading
    <2>2. \A i \in OfferId : Rival(t, u, i) => i \in DOMAIN u.rows
        BY <1>2 DEF Rival
    <2>3. \A i \in DOMAIN u.rows : Crossing(Order[u.id], Order[i]) /\ t[OfferOf(i)] = u.rows[i]
        BY <1>2
    <2>4. u.row \in DOMAIN u.rows /\ u.n = Min({u.left, u.rows[u.row]})
        BY <1>2
    <2> HIDE DEF t
    <2>5. Before(t, u)
        BY <2>1, <2>2, <2>3, <2>4 DEF Before
    <2>. QED  BY <2>1, <2>5 DEF Turn, t
<1>. QED  BY <1>1, <1>2

(* What happens to the offers of another contract type is no matter. *)
LEMMA TurnElsewhere ==
    ASSUME NEW d, NEW m, NEW j, Turn(d, m, j), NEW e, DOMAIN j.rows \subseteq OfferId,
           \A i \in OfferId : Order[i].ct = Order[j.id].ct =>
               Laid(e, m)[OfferOf(i)] = Laid(d, m)[OfferOf(i)],
           j.at = "store" => Laid(e, m)[HolderRow(j)] = Laid(d, m)[HolderRow(j)]
    PROVE  Turn(e, m, j)
<1> DEFINE t == Laid(d, m)
           v == Laid(e, m)
<1>1. \A i \in OfferId : Crossing(Order[j.id], Order[i]) => v[OfferOf(i)] = t[OfferOf(i)]
    BY DEF Crossing
<1>4. j.at = "store" => v[HolderRow(j)] = t[HolderRow(j)]
    OBVIOUS
<1> HIDE DEF t, v
<1>2. \A i \in OfferId : Rival(v, j, i) => Rival(t, j, i)
    BY <1>1 DEF Rival
<1>3. Before(t, j) => Before(v, j)
    BY <1>1, <1>2 DEF Before
<1>. QED  BY <1>2, <1>3, <1>4 DEF Turn, t, v

(***************************************************************************)
(* The steps of one worker.                                                *)
(***************************************************************************)
LEMMA AloneTurns ==
    ASSUME Types, OwnConnections, Turns, NEW w \in Worker, NEW m, NEW j,
           Alone(w, m, j, {}), Turn(db, m, j)
    PROVE  Turns'
<1>1. /\ Mine(w)' = m /\ job'[w] = j
      /\ \A v \in Worker : v # w => Mine(v)' = Mine(v) /\ job'[v] = job[v]
    BY AloneEffect
<1>2. db' = db /\ spoiled' = spoiled /\ marks' = [marks EXCEPT ![site.conn[w]] = {}]
    BY DEF Alone
<1>3. ASSUME NEW v \in Worker PROVE Turn(db', Mine(v)', job'[v])
    BY <1>1, <1>2 DEF Turns
<1>4. \A k \in Connection : marks'[k] = {}
    BY <1>2 DEF Types, Turns
<1>5. Uncrossed'
    BY <1>2 DEF Turns, Uncrossed
<1>. QED  BY <1>2, <1>3, <1>4, <1>5 DEF Turns

(* What a worker may rely on when it is its turn. *)
LEMMA TurnFacts ==
    ASSUME Types, Turns, NEW w \in Worker
    PROVE  /\ JobOk(job[w]) /\ Turn(db, Mine(w), job[w]) /\ MarksOf(w) = {}
           /\ DOMAIN job[w].rows \subseteq OfferId
           /\ \A i \in DOMAIN job[w].rows : job[w].rows[i] \in Nat \ {0}
           /\ job[w].kind = "none" => job[w] = Idle /\ Mine(w) = NoWork
           /\ job[w].at \notin {"idle"} => job[w].kind = "place" /\ job[w].id \in OfferId
<1>1. JobOk(job[w]) /\ Turn(db, Mine(w), job[w]) /\ MarksOf(w) = {}
    BY Connected DEF Types, Turns, MarksOf
<1>2. DOMAIN job[w].rows \subseteq OfferId /\ \A i \in DOMAIN job[w].rows : job[w].rows[i] \in Nat \ {0}
    BY <1>1 DEF JobOk, FieldsOk
<1>3. job[w].kind = "none" => job[w] = Idle
    BY <1>1 DEF JobOk, StepOk
<1>4. job[w] = Idle => Mine(w) = NoWork
    BY <1>1, IdleOk DEF Turn
<1>5. job[w].at # "idle" => job[w].kind = "place"
    BY <1>1, <1>3, IdleOk DEF Turn
<1>6. job[w].kind = "place" => job[w].id \in OfferId
    BY <1>1 DEF JobOk, ValuesOk
<1>. QED  BY <1>1, <1>2, <1>3, <1>4, <1>5, <1>6

LEMMA ReadsTurns ==
    ASSUME Types, OwnConnections, Turns, NEW w \in Worker, NEW u, Reads(w, u),
           Turn(db, Mine(w), u)
    PROVE  Turns'
<1>1. Alone(w, Mine(w), u, {})
    BY ReadsAlone, TurnFacts
<1>. QED  BY <1>1, AloneTurns

LEMMA WritesTurns ==
    ASSUME Types, OwnConnections, Turns, NEW w \in Worker, NEW r, NEW x, NEW u,
           Writes(w, r, x, {}, u), Turn(db, Put(Mine(w), r, x), u)
    PROVE  Turns'
<1>1. Alone(w, Put(Mine(w), r, x), u, MarksOf(w) \cup {})
    BY WritesAlone
<1>2. MarksOf(w) \cup {} = {}
    BY TurnFacts
<1> DEFINE m == Put(Mine(w), r, x)
<1>3. Alone(w, m, u, {}) /\ Turn(db, m, u)
    BY <1>1, <1>2
<1> HIDE DEF m
<1>. QED  BY <1>3, AloneTurns

(* A refusal ends the order and leaves nothing. *)
LEMMA FailsTurns ==
    ASSUME Types, OwnConnections, Turns, NEW w \in Worker, StatementFails(w)
    PROVE  Turns'
<1>1. job[w].kind # "login"
    BY TurnFacts DEF Turn
<1>2. Alone(w, NoWork, Idle, {})
    BY <1>1 DEF StatementFails, Becomes, Alone, requests
<1>. QED  BY <1>2, IdleTurn, AloneTurns

(* A statement about another table. *)
LEMMA AwayTurns ==
    ASSUME Types, OwnConnections, Turns, NEW w \in Worker, NEW r \in Row, r[1] # "offer",
           NEW x, NEW u, Writes(w, r, x, {}, u) \/ Updates(w, r, x, {}, u), u.at # "store",
           LET j == job[w]
           IN  /\ \/ r[1] # "position"
                  \/ \E a \in Account : r = PositionRow(Order[j.id].ct, a) /\ Order[j.id].ct \in ContractType
               /\ u.kind = j.kind /\ u.id = j.id /\ u.left = j.left /\ u.rows = j.rows
               /\ u.row = j.row /\ u.n = j.n
               /\ \/ j.at = "refund" /\ u.at = "shrink" /\ u.got = j.got
                  \/ j.at \in Trading /\ u.at \in Trading
                  \/ j.at = "rest" /\ u.at = "insert"
                  \/ j.at = "lookup" /\ u.at = "match"
    PROVE  Turns'
<1> DEFINE j == job[w]
           m == Mine(w)
           n == Put(m, r, x)
<1>1. Turn(db, m, j) /\ DOMAIN j.rows \subseteq OfferId
    BY TurnFacts
<1>2. SameOffers(db, m, n) /\ SameOffers(db, m, m)
    BY PutSameOffers DEF SameOffers
<1>9. Confined(m, j.id) /\ Confined(n, j.id)
    <2>1. Confined(m, j.id)
        BY <1>1 DEF Turn
    <2>. QED  BY <2>1, PutConfined
<1>3. /\ u.kind = j.kind /\ u.id = j.id /\ u.left = j.left /\ u.rows = j.rows
      /\ u.row = j.row /\ u.n = j.n
      /\ \/ j.at = "refund" /\ u.at = "shrink" /\ u.got = j.got
         \/ j.at \in Trading /\ u.at \in Trading
         \/ j.at = "rest" /\ u.at = "insert"
         \/ j.at = "lookup" /\ u.at = "match"
    OBVIOUS
<1> HIDE DEF j, m, n
<1>4. Turn(db, n, u)
    BY <1>1, <1>2, <1>3, <1>9, TurnGoes
<1>5. Turn(db, m, u)
    BY <1>1, <1>2, <1>3, <1>9, TurnGoes
<1>6. CASE Writes(w, r, x, {}, u)
    BY <1>4, <1>6, WritesTurns DEF n, m
<1>7. CASE Updates(w, r, x, {}, u) /\ Exist(r, Seen(w, r))
    <2>1. Writes(w, r, x, {}, u)
        BY <1>7 DEF Updates, Writes
    <2>. QED  BY <1>4, <2>1, WritesTurns DEF n, m
<1>8. CASE Updates(w, r, x, {}, u) /\ ~ Exist(r, Seen(w, r))
    <2>1. work = [work EXCEPT ![site.conn[w]] = work[site.conn[w]]]
        BY Connected DEF Types
    <2>2. marks' = [marks EXCEPT ![site.conn[w]] = MarksOf(w) \cup {}] /\ MarksOf(w) = {}
        BY <1>8, TurnFacts DEF Updates, Marked, MarksOf
    <2>3. Alone(w, Mine(w), u, {})
        BY <1>8, <2>1, <2>2 DEF Updates, Becomes, Alone, Mine, requests
    <2>. QED  BY <1>5, <2>3, AloneTurns DEF m
<1>. QED  BY <1>6, <1>7, <1>8

LEMMA LookupTurns ==
    ASSUME Types, OwnConnections, Turns, NEW w \in Worker, Lookup(w)
    PROVE  Turns'
<1> DEFINE j == job[w]
           r == TypeRow(Order[j.id].ct)
           u == [j EXCEPT !.at = "match"]
<1>1. j.at = "lookup" /\ j.kind = "place" /\ j.id \in OfferId /\ JobOk(j)
    BY TurnFacts DEF Lookup, At
<1>2. Writes(w, r, 1, {}, u)
    BY <1>1 DEF Lookup
<1>3. r \in Row /\ r[1] \notin {"offer", "position"}
    BY <1>1, RowFacts, Quantities
<1>4. /\ IsJob(u) /\ u.at = "match"
      /\ u.kind = j.kind /\ u.id = j.id /\ u.left = j.left /\ u.rows = j.rows
      /\ u.row = j.row /\ u.n = j.n /\ u.got = j.got /\ u.half = j.half /\ u.due = j.due
    BY <1>1, NowAt DEF JobOk
<1> HIDE DEF u, r
<1>. QED  BY <1>1, <1>2, <1>3, <1>4, AwayTurns

(* The search finds every offer that the order crosses. *)
LEMMA MatchTurns ==
    ASSUME Types, OwnConnections, Turns, NEW w \in Worker, Match(w)
    PROVE  Turns'
<1> DEFINE j == job[w]
           m == Mine(w)
           ids == {i \in OfferId : Crossing(Order[j.id], Order[i])}
           rows == Found(w, ids)
           u == Aim(j, rows)
<1>1. j.at = "match" /\ Reads(w, u)
    BY DEF Match, At
<1>2. j.kind = "place" /\ JobOk(j) /\ Turn(db, m, j)
    BY <1>1, TurnFacts
<1>3. ids \in SUBSET OfferId
    OBVIOUS
<1>4. /\ Rows(rows)
      /\ \A i \in OfferId : i \in DOMAIN rows <=> i \in ids /\ Seen(w, OfferOf(i)) # 0
      /\ \A i \in DOMAIN rows : rows[i] = Seen(w, OfferOf(i))
    BY <1>3, FoundRows
<1>5. \A i \in OfferId : Seen(w, OfferOf(i)) = Laid(db, m)[OfferOf(i)]
    BY RowFacts, SeenLaid
<1>6. Looping(j)
    BY <1>1, <1>2, LoopingOk
<1>7. /\ \A i \in OfferId : Crossing(Order[j.id], Order[i]) /\ Laid(db, m)[OfferOf(i)] # 0
                              => i \in DOMAIN rows
      /\ \A i \in DOMAIN rows : /\ Crossing(Order[j.id], Order[i])
                                /\ Laid(db, m)[OfferOf(i)] = rows[i]
    BY <1>4, <1>5 DEF Rows
<1> HIDE DEF rows
<1>8. /\ JobOk(u)
      /\ u.kind = j.kind /\ u.id = j.id /\ u.left = j.left /\ u.got = j.got
      /\ u.half = j.half /\ u.due = j.due
      /\ DOMAIN rows = {} => u.at = After(j.kind) /\ DOMAIN u.rows = {}
      /\ DOMAIN rows # {} =>
           /\ u.at = "read" /\ u.rows = rows /\ u.row \in DOMAIN rows
           /\ u.n = Min({j.left, rows[u.row]})
    BY ONLY <1>4, <1>6, AimOk, Zenon
<1>9. After(j.kind) = "rest"
    BY <1>2 DEF After
<1> HIDE DEF u
<1>10. Confined(m, j.id)
    BY <1>2 DEF Turn
<1>11. Turn(db, m, u)
    BY <1>2, <1>7, <1>8, <1>9, <1>10, LoopTurn
<1>. QED  BY <1>1, <1>11, ReadsTurns

(* The offer is still there when its turn has come. *)
LEMMA ReadOfferTurns ==
    ASSUME Types, OwnConnections, Turns, NEW w \in Worker, ReadOffer(w)
    PROVE  Turns'
<1> DEFINE j == job[w]
           m == Mine(w)
           q == Seen(w, OfferOf(j.row))
           u == [j EXCEPT !.at = "refund", !.got = q, !.n = j.n]
<1>1. j.at = "read"
    BY DEF ReadOffer, At
<1>2. /\ j.kind = "place" /\ JobOk(j) /\ Turn(db, m, j) /\ DOMAIN j.rows \subseteq OfferId
      /\ \A i \in DOMAIN j.rows : j.rows[i] \in Nat \ {0}
    BY <1>1, TurnFacts
<1>3. Before(Laid(db, m), j) /\ j.at \notin Trading
    BY <1>1, <1>2 DEF Turn, Offering, Trading
<1>4. j.row \in DOMAIN j.rows /\ j.row \in OfferId /\ j.rows[j.row] \in Nat \ {0} /\ j.left \in Int
    BY <1>2, <1>3 DEF Before, JobOk, FieldsOk
<1>5. q = j.rows[j.row]
    BY <1>3, <1>4, RowFacts, SeenLaid DEF Before
<1>6. j.n \in Int /\ j.n <= j.rows[j.row]
    <2> DEFINE a == j.left
               b == j.rows[j.row]
    <2>1. a \in Int /\ b \in Int
        BY <1>4
    <2>2. j.n = Min({a, b})
        BY <1>3 DEF Before
    <2> HIDE DEF a, b
    <2>3. Min({a, b}) \in Int /\ Min({a, b}) <= b
        BY <2>1, MinOfTwo
    <2>. QED  BY <2>2, <2>3 DEF b
<1>7. Reads(w, u)
    <2>1. ~ (q = 0 \/ j.n > q)
        BY <1>4, <1>5, <1>6
    <2>. QED  BY <1>2, <2>1 DEF ReadOffer
<1> HIDE DEF q
<1>8. /\ u.at = "refund" /\ u.got = q /\ u.n = j.n /\ u.kind = j.kind /\ u.id = j.id
      /\ u.left = j.left /\ u.rows = j.rows /\ u.row = j.row
    BY <1>2 DEF JobOk, IsJob
<1> HIDE DEF u
<1>9. Before(Laid(db, m), u)
    <2> DEFINE t == Laid(db, m)
    <2>1. \A i \in OfferId : Rival(t, u, i) <=> Rival(t, j, i)
        BY <1>8 DEF Rival
    <2>2. u.at \notin Trading
        BY <1>8 DEF Trading
    <2> HIDE DEF t
    <2>3. Before(t, j)
        BY <1>3 DEF t
    <2>. QED  BY <1>3, <1>5, <1>8, <2>1, <2>2, <2>3 DEF Before, t
<1>10. Turn(db, m, u)
    BY <1>2, <1>8, <1>9 DEF Turn
<1>. QED  BY <1>7, <1>10, ReadsTurns

LEMMA RefundTurns ==
    ASSUME Types, OwnConnections, Turns, NEW w \in Worker, Refund(w)
    PROVE  Turns'
<1> DEFINE j == job[w]
           o == Order[j.row]
           r == AccountRow(o.account)
           x == Seen(w, r) + Cost(o.side, o.price, j.n)
           u == [j EXCEPT !.at = "shrink"]
<1>1. j.at = "refund" /\ Writes(w, r, x, {}, u)
    BY DEF Refund, At
<1>2. j.kind = "place" /\ JobOk(j)
    BY <1>1, TurnFacts
<1>3. j.row \in OfferId
    BY <1>1, <1>2 DEF JobOk, ValuesOk, Offering
<1>4. r \in Row /\ r[1] \notin {"offer", "position"}
    BY <1>3, RowFacts, Quantities
<1>5. /\ IsJob(u) /\ u.at = "shrink"
      /\ u.kind = j.kind /\ u.id = j.id /\ u.left = j.left /\ u.rows = j.rows
      /\ u.row = j.row /\ u.n = j.n /\ u.got = j.got /\ u.half = j.half /\ u.due = j.due
    BY <1>2, NowAt DEF JobOk
<1> HIDE DEF u, r, x
<1>. QED  BY <1>1, <1>4, <1>5, AwayTurns

(* So it shrinks from what it was. *)
LEMMA ShrinkTurns ==
    ASSUME Types, OwnConnections, Turns, NEW w \in Worker, Shrink(w)
    PROVE  Turns'
<1> DEFINE j == job[w]
           m == Mine(w)
           r == OfferOf(j.row)
           x == j.got - j.n
           u == [j EXCEPT !.at = "side", !.half = FIXED]
           n == Put(m, r, x)
<1>1. j.at = "shrink"
    BY DEF Shrink, At
<1>2. /\ j.kind = "place" /\ JobOk(j) /\ Turn(db, m, j) /\ DOMAIN j.rows \subseteq OfferId
      /\ \A i \in DOMAIN j.rows : j.rows[i] \in Nat \ {0}
    BY <1>1, TurnFacts
<1>3. Before(Laid(db, m), j) /\ j.at \notin Trading
    BY <1>1, <1>2 DEF Turn, Offering, Trading
<1>4. j.row \in DOMAIN j.rows /\ j.row \in OfferId /\ r \in Row /\ r[1] = "offer"
    BY <1>2, <1>3, RowFacts DEF Before
<1>5. Seen(w, r) = j.rows[j.row] /\ j.got = j.rows[j.row] /\ j.got # 0
    <2>1. Laid(db, m)[r] = j.rows[j.row] /\ j.got = j.rows[j.row]
        BY <1>1, <1>3, <1>4 DEF Before
    <2>. QED  BY <1>2, <1>4, <2>1, SeenLaid
<1>6. Writes(w, r, x, {}, u)
    <2>1. Exist(r, Seen(w, r))
        BY <1>4, <1>5 DEF Exist
    <2>2. StaleIf(Seen(w, r) # j.got, "offer") = {}
        BY <1>5 DEF StaleIf
    <2>. QED  BY <1>2, <2>1, <2>2 DEF Shrink
<1>7. /\ u.at = "side" /\ u.kind = j.kind /\ u.id = j.id /\ u.n = j.n
      /\ u.left = j.left /\ u.rows = j.rows /\ u.row = j.row
    BY <1>2 DEF JobOk, IsJob
<1> HIDE DEF u
<1>8. /\ Laid(db, n)[r] = x
      /\ \A i \in OfferId : i # j.row => Laid(db, n)[OfferOf(i)] = Laid(db, m)[OfferOf(i)]
    <2>1. Laid(db, n)[r] = x /\ But(Laid(db, m), Laid(db, n), r)
        BY <1>4, LaidPut
    <2>2. \A i \in OfferId : i # j.row => OfferOf(i) # r /\ OfferOf(i) \in Row
        BY <1>4, RowFacts
    <2>. QED  BY <2>1, <2>2 DEF But
<1>11. Crossing(Order[j.id], Order[j.row])
    BY <1>3 DEF Before
<1>12. Confined(n, u.id)
    BY <1>2, <1>4, <1>7, <1>11, PutConfined DEF Turn, Crossing
<1>13. Before(Laid(db, n), u)
    <2> DEFINE t == Laid(db, m)
               v == Laid(db, n)
    <2>1. u.at \in Trading /\ u.at \notin {"refund", "shrink"}
        BY <1>7 DEF Trading
    <2>2. v[OfferOf(u.row)] = u.rows[u.row] - u.n
        BY <1>5, <1>7, <1>8
    <2>3. \A i \in OfferId : i # u.row => v[OfferOf(i)] = t[OfferOf(i)]
        BY <1>7, <1>8
    <2>4. Before(t, j)
        BY <1>3
    <2> HIDE DEF t, v
    <2>5. \A i \in OfferId : Rival(v, u, i) => i \in DOMAIN u.rows
        BY <1>4, <1>7, <2>3, <2>4 DEF Before, Rival
    <2>6. \A i \in DOMAIN u.rows :
            /\ Crossing(Order[u.id], Order[i])
            /\ v[OfferOf(i)] = IF i = u.row /\ u.at \in Trading THEN u.rows[i] - u.n ELSE u.rows[i]
        BY <1>2, <1>3, <1>7, <2>1, <2>2, <2>3, <2>4 DEF Before
    <2>7. u.row \in DOMAIN u.rows /\ u.n = Min({u.left, u.rows[u.row]})
        BY <1>7, <2>4 DEF Before
    <2>. QED  BY <2>1, <2>5, <2>6, <2>7 DEF Before, v
<1> HIDE DEF n
<1>14. Turn(db, n, u)
    BY <1>2, <1>7, <1>12, <1>13 DEF Turn
<1>. QED  BY <1>6, <1>14, WritesTurns DEF n

(* The statements of a contract, but for the last. *)
LEMMA SideTurns ==
    ASSUME Types, OwnConnections, Turns, NEW w \in Worker,
           ReadSide(w) \/ InsertSide(w) \/ UpdateSide(w)
    PROVE  Turns'
<1> DEFINE j == job[w]
           m == Mine(w)
           r == HolderRow(j)
<1>1. j.at \in {"side", "store"} /\ j.at \in Trading
    BY DEF ReadSide, InsertSide, UpdateSide, At, Trading
<1>2. j.kind = "place" /\ JobOk(j) /\ Turn(db, m, j) /\ DOMAIN j.rows \subseteq OfferId
    BY <1>1, TurnFacts
<1>3. /\ r \in Row /\ r[1] # "offer" /\ r[1] = "position"
      /\ \E a \in Account : r = PositionRow(Order[j.id].ct, a) /\ Order[j.id].ct \in ContractType
    BY <1>1, <1>2, Holders, Quantities DEF HolderRow
<1>4. CASE ReadSide(w)
    <2> DEFINE u == [j EXCEPT !.at = "store", !.got = Seen(w, r)]
    <2>1. Reads(w, u)
        BY <1>4 DEF ReadSide
    <2>2. /\ u.at = "store" /\ u.kind = j.kind /\ u.id = j.id /\ u.n = j.n
          /\ u.left = j.left /\ u.rows = j.rows /\ u.row = j.row
          /\ u.half = j.half /\ u.got = Seen(w, r)
        BY <1>2 DEF JobOk, IsJob
    <2> HIDE DEF u
    <2>3. SameOffers(db, m, m) /\ u.at \in Trading /\ Confined(m, j.id)
        BY <1>2, <2>2 DEF SameOffers, Trading, Turn
    <2>5. Laid(db, m)[HolderRow(u)] = u.got
        <3>1. HolderRow(u) = r
            BY <2>2 DEF HolderRow, Holder
        <3>. QED  BY <1>3, <2>2, <3>1, SeenLaid
    <2>4. Turn(db, m, u)
        BY <1>1, <1>2, <2>2, <2>3, <2>5, TurnGoes
    <2>. QED  BY <2>1, <2>4, ReadsTurns
<1>5. CASE InsertSide(w) \/ UpdateSide(w)
    <2> DEFINE u == Stored(j)
    <2>1. j.at = "store"
        BY <1>5 DEF InsertSide, UpdateSide, At
    <2>2. /\ JobOk(u)
          /\ u.at = (IF j.half = FIXED THEN "side" ELSE "debit")
          /\ u.half = (IF j.half = FIXED THEN UNFIXED ELSE FIXED)
          /\ u.due[j.half] = Cost(j.half, Order[j.id].price, j.n)
                               - Unit * Covered(j.got, Units(j))
          /\ \A s \in Side : s # j.half => u.due[s] = j.due[s]
          /\ u.kind = j.kind /\ u.id = j.id /\ u.left = j.left /\ u.rows = j.rows
          /\ u.row = j.row /\ u.n = j.n /\ u.got = j.got
        BY ONLY <1>2, <2>1, StoredOk, Zenon
    <2>3. ASSUME UpdateSide(w) PROVE \E x : Updates(w, r, x, {}, u)
        <3>1. Seen(w, r) = j.got
            BY <1>2, <1>3, <2>1, SeenLaid DEF Turn
        <3>. QED  BY <2>3, <3>1 DEF UpdateSide, StaleIf
    <2> DEFINE s == IdRow(Order[j.id].ct, Holder(j, j.half))
               m1 == Put(m, s, Seen(w, s) + 1)
               m2 == Put(m1, r, Units(j))
    <2>6. ASSUME InsertSide(w), ~ StatementFails(w) PROVE Alone(w, m2, u, {})
        <3>1. Lays(w, m2, {}, u)
            BY <2>6, InsertLays DEF Mine
        <3>2. MarksOf(w) = {}
            BY TurnFacts
        <3>. QED  BY <3>1, <3>2 DEF Lays, Alone, MarksOf, requests
    <2>7. s \in Row /\ s[1] = "id"
        <3>1. Holder(j, j.half) \in Account /\ Order[j.id].ct \in ContractType
            BY <1>1, <1>2, Holders, Quantities
        <3>. QED  BY <3>1, RowFacts
    <2> HIDE DEF u, r, s
    <2>4. u.at \in Trading /\ u.at # "store"
        BY <2>2 DEF Trading
    <2>5. ASSUME NEW x, Updates(w, r, x, {}, u) PROVE Turns'
        BY <1>1, <1>3, <2>2, <2>4, <2>5, AwayTurns
    <2>8. SameOffers(db, m, m1) /\ Confined(m1, j.id)
        BY <1>2, <2>7, PutSameOffers, PutConfined DEF Turn
    <2> HIDE DEF m1
    <2>9. SameOffers(db, m, m2) /\ Confined(m2, j.id)
        BY <1>3, <2>8, PutSameOffers, SameOffersTwice, PutConfined
    <2> HIDE DEF m2
    <2>10. Turn(db, m2, u)
        BY <1>1, <1>2, <2>2, <2>4, <2>9, TurnGoes
    <2>. QED  BY <1>5, <2>3, <2>5, <2>6, <2>10, FailsTurns, AloneTurns
<1>. QED  BY <1>4, <1>5

(* A debit that is refused, or goes through. *)
LEMMA PaysTurns ==
    ASSUME Types, OwnConnections, Turns, NEW w \in Worker, NEW a \in Account, NEW amount, NEW u,
           Pays(w, a, amount, u),
           LET j == job[w]
           IN  /\ u.kind = j.kind /\ u.id = j.id /\ u.left = j.left /\ u.rows = j.rows
               /\ u.row = j.row /\ u.n = j.n
               /\ \/ j.at \in Trading /\ u.at = "debit"
                  \/ j.at = "rest" /\ u.at = "insert"
    PROVE  Turns'
<1> DEFINE r == AccountRow(a)
           x == Seen(w, r) - amount
<1>1. r \in Row /\ r[1] \notin {"offer", "position"}
    BY RowFacts
<1>2. StatementFails(w) \/ Writes(w, r, x, {}, u)
    BY DEF Pays
<1> HIDE DEF r, x
<1>4. u.at # "store" /\ (u.at = "debit" => u.at \in Trading)
    BY DEF Trading
<1>3. CASE Writes(w, r, x, {}, u)
    BY <1>1, <1>3, <1>4, AwayTurns
<1>. QED  BY <1>2, <1>3, FailsTurns

LEMMA DebitTurns ==
    ASSUME Types, OwnConnections, Turns, NEW w \in Worker, DebitFixed(w) \/ Rest(w)
    PROVE  Turns'
<1> DEFINE j == job[w]
<1>1. CASE DebitFixed(w)
    <2> DEFINE u == [j EXCEPT !.half = UNFIXED]
    <2>1. j.at = "debit" /\ j.at \in Trading
        BY <1>1 DEF DebitFixed, At, Trading
    <2>2. JobOk(j) /\ Pays(w, Holder(j, FIXED), j.due[FIXED], u)
        BY <1>1, TurnFacts DEF DebitFixed
    <2>3. /\ u.at = j.at /\ u.kind = j.kind /\ u.id = j.id /\ u.n = j.n
          /\ u.left = j.left /\ u.rows = j.rows /\ u.row = j.row
        BY <2>2 DEF JobOk, IsJob
    <2>4. Holder(j, FIXED) \in Account
        BY <2>1, <2>2, Holders
    <2> HIDE DEF u
    <2>. QED  BY <2>1, <2>2, <2>3, <2>4, PaysTurns
<1>2. CASE Rest(w)
    <2> DEFINE o == Order[j.id]
               u == [j EXCEPT !.at = "insert"]
    <2>1. j.at = "rest" /\ Pays(w, o.account, Cost(o.side, o.price, j.left), u)
        BY <1>2 DEF Rest, At
    <2>2. JobOk(j) /\ j.id \in OfferId
        BY <2>1, TurnFacts
    <2>3. /\ u.at = "insert" /\ u.kind = j.kind /\ u.id = j.id /\ u.n = j.n
          /\ u.left = j.left /\ u.rows = j.rows /\ u.row = j.row
        BY <2>2 DEF JobOk, IsJob
    <2>4. o.account \in Account
        BY <2>2, Quantities
    <2> HIDE DEF u
    <2>. QED  BY <2>1, <2>3, <2>4, PaysTurns
<1>. QED  BY <1>1, <1>2

(* The contract is made: the order is filled, or the offer is used up and  *)
(* the next one comes.                                                     *)
LEMMA ContractTurns ==
    ASSUME Types, OwnConnections, Ownership, Turns, NEW w \in Worker, DebitUnfixed(w)
    PROVE  Turns'
<1> DEFINE j == job[w]
           m == Mine(w)
           r == AccountRow(Holder(j, UNFIXED))
           x == Seen(w, r) - j.due[UNFIXED]
           u == Contracted(j)
           n == Put(m, r, x)
           rest == DOMAIN j.rows \ {j.row}
<1>1. j.at = "debit" /\ j.at \in Trading
    BY DEF DebitUnfixed, At, Trading
<1>2. /\ j.kind = "place" /\ JobOk(j) /\ Turn(db, m, j) /\ DOMAIN j.rows \subseteq OfferId
      /\ j.id \in OfferId /\ \A i \in DOMAIN j.rows : j.rows[i] \in Nat \ {0}
    BY <1>1, TurnFacts
<1>3. StatementFails(w) \/ Writes(w, r, x, {}, u)
    BY DEF DebitUnfixed
<1>4. r \in Row /\ r[1] \notin {"offer", "position"}
    <2>1. Holder(j, UNFIXED) \in Account
        BY <1>1, <1>2, Holders
    <2>. QED  BY <2>1, RowFacts
<1>5. SameOffers(db, m, n)
    BY <1>4, PutSameOffers
<1>6. /\ JobOk(u)
      /\ u.kind = j.kind /\ u.id = j.id /\ u.got = j.got
      /\ u.half = j.half /\ u.due = j.due
      /\ j.left = j.n => u.at = "commit" /\ u.left = j.left
      /\ j.left # j.n =>
           /\ u.left = j.left - j.n
           /\ rest = {} => u.at = "rest" /\ DOMAIN u.rows = {}
           /\ rest # {} => /\ u.at = "read" /\ DOMAIN u.rows = rest
                           /\ \A i \in rest : u.rows[i] = j.rows[i]
                           /\ u.row \in rest
                           /\ u.n = Min({u.left, j.rows[u.row]})
    BY ONLY <1>1, <1>2, ContractedOk, Zenon
<1>7. Confined(n, j.id)
    BY <1>2, <1>4, PutConfined DEF Turn
<1> HIDE DEF u, n
<1>8. ASSUME j.left = j.n PROVE Turn(db, n, u)
    <2>1. OfferOf(j.id) \notin DOMAIN n
        <3>1. Guarded(db, m, j, MarksOf(w), Listed)
            BY DEF Ownership
        <3>2. OfferOf(j.id) \notin DOMAIN m
            BY <1>1, <1>2, <3>1 DEF Guarded, OffersOk, HasOffer
        <3>. QED  BY <1>2, <1>5, <3>2 DEF SameOffers
    <2>2. u.at = "commit" /\ u.at \notin Offering \cup Trading
        BY <1>6, <1>8 DEF Offering, Trading
    <2>. QED  BY <1>2, <1>6, <1>7, <2>1, <2>2 DEF Turn
<1>9. ASSUME j.left # j.n PROVE Turn(db, n, u)
    <2> DEFINE rows == [i \in rest |-> j.rows[i]]
               t == Laid(db, m)
               v == Laid(db, n)
    <2>1. Before(t, j)
        BY <1>1, <1>2 DEF Turn
    <2>2. j.row \in DOMAIN j.rows /\ j.rows[j.row] \in Int /\ j.left \in Int
        BY <1>2, <2>1 DEF Before, JobOk, FieldsOk
    <2>3. j.n = j.rows[j.row]
        <3> DEFINE a == j.left
                   b == j.rows[j.row]
        <3>1. a \in Int /\ b \in Int
            BY <2>2
        <3>2. j.n = Min({a, b}) /\ j.n # a
            BY <1>9, <2>1 DEF Before
        <3> HIDE DEF a, b
        <3>3. Min({a, b}) \in {a, b}
            BY <3>1, MinOfTwo
        <3>4. j.n = b
            BY <3>2, <3>3
        <3>. QED  BY <3>4 DEF b
    <2>4. t[OfferOf(j.row)] = 0
        BY <1>1, <2>1, <2>2, <2>3 DEF Before
    <2>5. \A i \in rest : t[OfferOf(i)] = j.rows[i] /\ Crossing(Order[j.id], Order[i])
        BY <2>1 DEF Before
    <2>6. \A i \in OfferId : v[OfferOf(i)] = t[OfferOf(i)]
        BY <1>5 DEF SameOffers
    <2>7. DOMAIN rows = rest /\ \A i \in rest : rows[i] = j.rows[i]
        OBVIOUS
    <2> HIDE DEF rows, t, v
    <2>8. \A i \in OfferId : Crossing(Order[j.id], Order[i]) /\ v[OfferOf(i)] # 0 => i \in DOMAIN rows
        BY <2>1, <2>4, <2>6, <2>7 DEF Before, Rival
    <2>9. \A i \in DOMAIN rows : Crossing(Order[j.id], Order[i]) /\ v[OfferOf(i)] = rows[i]
        BY <1>2, <2>5, <2>6, <2>7
    <2>10. /\ DOMAIN rows = {} => u.at = "rest"
           /\ DOMAIN rows # {} =>
                /\ u.at = "read" /\ DOMAIN u.rows = DOMAIN rows
                /\ \A i \in DOMAIN rows : u.rows[i] = rows[i]
                /\ u.row \in DOMAIN rows /\ u.n = Min({u.left, rows[u.row]})
        BY <1>6, <1>9, <2>7
    <2>11. u.kind = "place" /\ u.id = j.id
        BY <1>2, <1>6
    <2>. QED  BY <1>7, <2>8, <2>9, <2>10, <2>11, LoopTurn DEF v
<1>10. Turn(db, n, u)
    BY <1>8, <1>9
<1>11. CASE Writes(w, r, x, {}, u)
    BY <1>10, <1>11, WritesTurns DEF n
<1>. QED  BY <1>3, <1>11, FailsTurns

(* The order's own offer crosses none. *)
LEMMA InsertTurns ==
    ASSUME Types, OwnConnections, Turns, NEW w \in Worker, InsertOffer(w)
    PROVE  Turns'
<1> DEFINE j == job[w]
           m == Mine(w)
           r == OfferOf(j.id)
           u == [j EXCEPT !.at = "commit"]
           n == Put(m, r, j.left)
<1>1. j.at = "insert" /\ (StatementFails(w) \/ Writes(w, r, j.left, {}, u))
    BY DEF InsertOffer, At
<1>2. j.kind = "place" /\ JobOk(j) /\ Turn(db, m, j) /\ j.id \in OfferId
    BY <1>1, TurnFacts
<1>3. u.at = "commit" /\ u.kind = j.kind /\ u.id = j.id
    BY <1>2 DEF JobOk, IsJob
<1> HIDE DEF u
<1>4. r \in Row /\ \A i \in OfferId : OfferOf(i) \in Row /\ (OfferOf(i) = r => i = j.id)
    BY <1>2, RowFacts
<1>5. /\ But(Laid(db, m), Laid(db, n), r)
      /\ \A s : s \in DOMAIN n <=> s = r \/ s \in DOMAIN m
    BY <1>4, LaidPut, PutDomain
<1>6. Confined(n, u.id)
    BY <1>2, <1>3, <1>4, PutConfined DEF Turn
<1> HIDE DEF n
<1>7. \A i \in OfferId : ~ Rival(Laid(db, m), j, i)
    BY <1>1, <1>2 DEF Turn
<1>8. \A i \in OfferId : Crossing(Order[j.id], Order[i]) => i # j.id
    BY DEF Crossing
<1>9. \A i \in OfferId : ~ Rival(Laid(db, n), u, i)
    BY <1>3, <1>4, <1>5, <1>7, <1>8 DEF Rival, But
<1>10. Turn(db, n, u)
    BY <1>2, <1>3, <1>6, <1>9 DEF Turn, Offering, Trading
<1>. QED  BY <1>1, <1>10, FailsTurns, WritesTurns DEF n

LEMMA OrderTurns ==
    ASSUME Types, OwnConnections, Ownership, Turns, NEW w \in Worker,
           Matching(w) \/ Sweeping(w) \/ Contracting(w) \/ LoggingIn(w) \/ Paying(w)
    PROVE  Turns'
<1> DEFINE j == job[w]
<1>1. JobOk(j) /\ j.kind \in {"none", "place"}
    BY TurnFacts DEF Turn
<1>2. j.at \notin {"find", "filter", "clean"} \cup LoginSteps \cup PaySteps
    BY <1>1 DEF JobOk, StepOk
<1>3. ~ Sweeping(w) /\ ~ LoggingIn(w) /\ ~ Paying(w)
    BY <1>1, <1>2 DEF Sweeping, Find, Filter, Clean, SweepRaises, ListedTwice, LoggingIn, FindUser, CreateAccount, SaveAccount, Upsert, TakeName,
                Paying, Pick, PayWinner, DeletePosition, At, LoginSteps, PaySteps
<1>4. CASE Matching(w)
    BY <1>3, <1>4, LookupTurns, MatchTurns, ReadOfferTurns, RefundTurns, ShrinkTurns DEF Matching
<1>5. CASE Contracting(w)
    BY <1>5, SideTurns, DebitTurns, ContractTurns, InsertTurns DEF Contracting
<1>. QED  BY <1>3, <1>4, <1>5

(***************************************************************************)
(* The commit of an order, and the others.                                 *)
(***************************************************************************)
(* Two orders that both have their contract type have different ones. *)
LEMMA TypesApart ==
    ASSUME Types, OwnConnections, Ownership, Grounded, Turns,
           NEW v \in Worker, NEW w \in Worker, v # w,
           job[v].kind = "place", job[v].at # "lookup",
           job[w].kind = "place", job[w].at # "lookup"
    PROVE  Order[job[v].id].ct # Order[job[w].id].ct
<1>1. /\ TypeRow(Order[job[v].id].ct) \in DOMAIN Mine(v)
      /\ TypeRow(Order[job[w].id].ct) \in DOMAIN Mine(w)
    BY DEF Grounded, Backed
<1>2. job[v].id \in OfferId
    BY DEF Types, JobOk, ValuesOk
<1>3. TypeRow(Order[job[v].id].ct) \in Row /\ TypeRow(Order[job[v].id].ct)[1] = "type"
    BY <1>2, RowFacts, Quantities
<1>. QED  BY <1>1, <1>3 DEF Ownership

(* The book stays uncrossed: an order commits its own offer, or takes      *)
(* units off others, or both for none that it crosses.                     *)
LEMMA CommittedBook ==
    ASSUME Uncrossed, NEW m, NEW j, j.at = "commit", Turn(db, m, j), j.id \in OfferId,
           NEW mk, NEW listed, Guarded(db, m, j, mk, listed), NEW e, Merged(db, m, e)
    PROVE  \A a, b \in OfferId :
               e[OfferOf(a)] # 0 /\ e[OfferOf(b)] # 0 /\ Order[a].expires = Never
                 => ~ Crossing(Order[a], Order[b])
<1> SUFFICES ASSUME NEW a \in OfferId, NEW b \in OfferId, e[OfferOf(a)] # 0, e[OfferOf(b)] # 0,
                    Order[a].expires = Never, Crossing(Order[a], Order[b])
             PROVE  FALSE
    OBVIOUS
<1> DEFINE new(i) == i = j.id /\ OfferOf(i) \in DOMAIN m
<1>1. \A i \in OfferId : e[OfferOf(i)] = Laid(db, m)[OfferOf(i)]
    BY RowFacts DEF Merged, Laid
<1>2. \A i \in OfferId : e[OfferOf(i)] # 0 => db[OfferOf(i)] # 0 \/ new(i)
    BY RowFacts DEF Merged, Guarded, OffersOk, HasOffer
<1>3. OfferOf(j.id) \in DOMAIN m => \A i \in OfferId : ~ Rival(Laid(db, m), j, i)
    BY DEF Turn
<1>4. Crossing(Order[b], Order[a])
    <2> DEFINE p == Order[a].price
               q == Order[b].price
    <2>1. p \in Price /\ q \in Price
        BY Quantities
    <2>2. Order[a].side \in {FIXED, UNFIXED} /\ Order[b].side \in {FIXED, UNFIXED}
        BY Quantities DEF Side
    <2>3. FIXED # UNFIXED
        BY DEF FIXED, UNFIXED
    <2> HIDE DEF p, q
    <2>4. p \in Int /\ q \in Int
        BY <2>1 DEF Price
    <2>. QED  BY <2>2, <2>3, <2>4 DEF Crossing, p, q
<1>5. ~ new(a)
    BY <1>1, <1>3 DEF Rival
<1>6. ~ new(b)
    BY <1>1, <1>3, <1>4 DEF Rival
<1>7. db[OfferOf(a)] # 0 /\ db[OfferOf(b)] # 0
    BY <1>2, <1>5, <1>6
<1>. QED  BY <1>7 DEF Uncrossed

LEMMA CommitTurns ==
    ASSUME Types, OwnConnections, Ownership, Grounded, Turns, NEW w \in Worker, Commit(w)
    PROVE  Turns'
<1> DEFINE j == job[w]
           m == Mine(w)
           e == db'
<1>1. /\ Merged(db, m, e)
      /\ Mine(w)' = NoWork /\ job'[w] = Committed(j)
      /\ \A v \in Worker : v # w => Mine(v)' = Mine(v) /\ job'[v] = job[v]
      /\ spoiled' = spoiled \cup MarksOf(w) /\ j.at = "commit"
    BY CommitEffect
<1>2. /\ JobOk(j) /\ Turn(db, m, j) /\ MarksOf(w) = {} /\ j.kind = "place" /\ j.id \in OfferId
      /\ DOMAIN j.rows \subseteq OfferId
    BY <1>1, TurnFacts
<1>3. Committed(j) = Idle
    BY <1>2 DEF Committed
<1>4. Guarded(db, m, j, MarksOf(w), Listed)
    BY DEF Ownership
<1>5. spoiled' = {} /\ \A k \in Connection : marks'[k] = {}
    BY <1>1, <1>2 DEF Turns, Commit, Types
<1> HIDE DEF e
<1>6. Uncrossed'
    <2>1. Uncrossed
        BY DEF Turns
    <2>2. \A a, b \in OfferId :
             e[OfferOf(a)] # 0 /\ e[OfferOf(b)] # 0 /\ Order[a].expires = Never
               => ~ Crossing(Order[a], Order[b])
        BY <1>1, <1>2, <1>4, <2>1, CommittedBook
    <2>. QED  BY <2>2 DEF Uncrossed, e
<1>7. ASSUME NEW v \in Worker, v # w PROVE Turn(e, Mine(v), job[v])
    <2> DEFINE i == job[v]
               n == Mine(v)
    <2>1. Turn(db, n, i) /\ JobOk(i) /\ DOMAIN i.rows \subseteq OfferId
          /\ (i.kind = "none" => i = Idle /\ n = NoWork)
        BY TurnFacts
    <2>2. CASE i.kind = "none"
        BY <2>1, <2>2, IdleTurn
    <2>3. CASE i.kind = "place" /\ i.at = "lookup"
        BY <2>1, <2>3 DEF Turn, Offering, Trading
    <2>4. CASE i.kind = "place" /\ i.at # "lookup"
        <3>1. Order[i.id].ct # Order[j.id].ct
            BY <1>1, <1>2, <1>7, <2>4, TypesApart
        <3>2. \A x \in OfferId : Order[x].ct = Order[i.id].ct => OfferOf(x) \notin DOMAIN m
            BY <1>2, <3>1 DEF Turn, Confined
        <3>6. ASSUME i.at = "store" PROVE Laid(e, n)[HolderRow(i)] = Laid(db, n)[HolderRow(i)]
            <4>1. /\ Holder(i, i.half) \in Account /\ HolderRow(i) \in Row
                  /\ i.id \in OfferId
                BY <2>1, <3>6, Holders DEF Trading
            <4>2. Order[i.id].ct \in ContractType
                BY <4>1, Quantities
            <4>3. HolderRow(i) \notin DOMAIN m
                BY <1>2, <3>1, <4>1, <4>2 DEF Turn, Confined, HolderRow
            <4>4. e[HolderRow(i)] = db[HolderRow(i)]
                BY <1>1, <4>1, <4>3 DEF Merged
            <4>. QED  BY <4>1, <4>4 DEF Laid
        <3>3. \A x \in OfferId : Order[x].ct = Order[i.id].ct => e[OfferOf(x)] = db[OfferOf(x)]
            BY <1>1, <3>2, RowFacts DEF Merged
        <3>4. \A x \in OfferId : Order[x].ct = Order[i.id].ct =>
                Laid(e, n)[OfferOf(x)] = Laid(db, n)[OfferOf(x)]
            BY <3>3, RowFacts DEF Laid
        <3> HIDE DEF i, n
        <3>5. Turn(e, n, i)
            BY <2>1, <3>4, <3>6, TurnElsewhere
        <3>. QED  BY <3>5 DEF i, n
    <2>5. i.kind \in {"none", "place"}
        BY <2>1 DEF Turn
    <2>. QED  BY <2>2, <2>3, <2>4, <2>5
<1>8. ASSUME NEW v \in Worker PROVE Turn(e, Mine(v)', job'[v])
    BY <1>1, <1>3, <1>7, IdleTurn
<1>. QED  BY <1>5, <1>6, <1>8 DEF Turns, e

(* An order begins where nothing has been left behind. *)
LEMMA AskingTurns ==
    ASSUME Types, OwnConnections, Turns, used' \subseteq {"place"}, NEW w \in Worker,
           Asks(w) \/ Page(w)
    PROVE  Turns'
<1>1. PICK i \in OfferId : Place(w, i)
    <2>1. "place" # "cancel" /\ "place" # "list" /\ "place" # "login" /\ "place" # "resolve"
        OBVIOUS
    <2>2. \A kind, j : Begins(w, kind, j) => kind = "place"
        BY DEF Begins
    <2>. QED  BY <2>1, <2>2 DEF Asks, Page, Cancel, List, LogIn, Resolve, Request
<1> DEFINE j == [Idle EXCEPT !.at = "lookup", !.id = i, !.left = Order[i].quantity]
           u == [j EXCEPT !.kind = "place"]
<1>2. Begins(w, "place", j)
    BY <1>1 DEF Place, Request
<1>3. /\ JobOk(u) /\ u.kind = "place" /\ u.at = "lookup" /\ u.id = i
      /\ u.left = Order[i].quantity /\ DOMAIN u.rows = {}
    BY ONLY <1>1, PlaceJob, Zenon
<1>4. job[w] = Idle /\ job[w].kind = "none"
    BY <1>2, IdleOk DEF Begins
<1>5. Mine(w) = NoWork /\ MarksOf(w) = {}
    BY <1>4, TurnFacts
<1>6. Alone(w, NoWork, u, {})
    <2>1. /\ work = [work EXCEPT ![site.conn[w]] = NoWork]
          /\ marks = [marks EXCEPT ![site.conn[w]] = {}]
        BY <1>5, Connected DEF Types, Mine, MarksOf
    <2>. QED  BY <1>2, <2>1 DEF Begins, Becomes, Alone
<1> HIDE DEF u, j
<1>7. DOMAIN NoWork = {}
    BY DEF NoWork
<1>8. Turn(db, NoWork, u)
    BY <1>3, <1>7 DEF Turn, Confined, Offering, Trading
<1>. QED  BY <1>6, <1>8, AloneTurns

LEMMA OthersTurns ==
    ASSUME Types, OwnConnections, Turns, Mature \/ Quiet \/ \E k \in Connection : Crash(k)
    PROVE  Turns'
<1>1. CASE UNCHANGED <<site, db, work, marks, job, spoiled>>
    BY <1>1 DEF Turns, Mine, Uncrossed
<1>2. Mature \/ Quiet => UNCHANGED <<site, db, work, marks, job, spoiled>>
    BY DEF Mature, Quiet, vars, connections, requests
<1>3. ASSUME NEW k \in Connection, Crash(k) PROVE Turns'
    <2>1. /\ job' = [w \in Worker |-> IF site.conn[w] = k THEN Idle ELSE job[w]]
          /\ work' = [work EXCEPT ![k] = NoWork] /\ marks' = [marks EXCEPT ![k] = {}]
          /\ UNCHANGED <<site, db, spoiled>>
        BY <1>3 DEF Crash
    <2>2. \A w \in Worker :
            /\ site.conn[w] = k => Mine(w)' = NoWork /\ job'[w] = Idle
            /\ site.conn[w] # k => Mine(w)' = Mine(w) /\ job'[w] = job[w]
        BY <2>1, Connected DEF Types, Mine
    <2>3. \A h \in Connection : marks'[h] = {}
        BY <2>1 DEF Types, Turns
    <2>4. \A w \in Worker : Turn(db', Mine(w)', job'[w])
        BY <2>1, <2>2, IdleTurn DEF Turns
    <2>5. spoiled' = {} /\ Uncrossed'
        BY <2>1 DEF Turns, Uncrossed
    <2>. QED  BY <2>3, <2>4, <2>5 DEF Turns
<1>. QED  BY <1>1, <1>2, <1>3

LEMMA TurnsInit ==
    ASSUME Init
    PROVE  Turns
<1>1. /\ db = Start /\ spoiled = {} /\ \A w \in Worker : job[w] = Idle
      /\ \A k \in Connection : marks[k] = {}
    BY DEF Init
<1>2. \A w \in Worker : Mine(w) = NoWork
    BY TypesInit, Connected DEF Init, Mine
<1>3. Uncrossed
    BY <1>1, StartValues, BookAssumption DEF Uncrossed
<1>. QED  BY <1>1, <1>2, <1>3, IdleTurn DEF Turns

(* What has been asked for is not forgotten. *)
LEMMA UsedGrows ==
    ASSUME [Next]_vars
    PROVE  site' = site /\ used \subseteq used'
<1>1. \A w \in Worker : StatementFails(w) \/ HandlerRaises(w) => UNCHANGED requests
    BY DEF StatementFails, HandlerRaises
<1>2. /\ \A w, j : Reads(w, j) => UNCHANGED requests
      /\ \A w, r, x, why, j : Writes(w, r, x, why, j) \/ Updates(w, r, x, why, j) => UNCHANGED requests
    BY DEF Reads, Writes, Updates
<1>3. \A w \in Worker : \A a, amount, j : Pays(w, a, amount, j) => UNCHANGED requests
    BY <1>1, <1>2 DEF Pays
<1>4. ASSUME NEW w \in Worker, Matching(w) PROVE UNCHANGED requests
    BY <1>1, <1>2, <1>4 DEF Matching, Lookup, Match, ReadOffer, Refund, Shrink
<1>11. ASSUME NEW w \in Worker, Sweeping(w) PROVE UNCHANGED requests
    BY <1>1, <1>2, <1>11 DEF Sweeping, Find, Filter, Clean, SweepRaises
<1>5. ASSUME NEW w \in Worker, Contracting(w) PROVE UNCHANGED requests
    BY <1>1, <1>2, <1>3, <1>5 DEF Contracting, ReadSide, InsertSide, UpdateSide, DebitFixed,
                                  DebitUnfixed, Rest, InsertOffer
<1>6. ASSUME NEW w \in Worker, LoggingIn(w) \/ Paying(w) PROVE UNCHANGED requests
    BY <1>1, <1>2, <1>6 DEF LoggingIn, FindUser, CreateAccount, SaveAccount, Upsert, TakeName,
                            Paying, Pick, PayWinner, DeletePosition
<1>7. ASSUME NEW w \in Worker, Commit(w) \/ Aborted(w) \/ AbortedLogin(w) \/ DeadlockDetected(w)
      PROVE  UNCHANGED requests
    BY <1>1, <1>7 DEF Commit, Aborted, AbortedLogin, DeadlockDetected
<1>8. ASSUME NEW w \in Worker, Asks(w) \/ Page(w) PROVE site' = site /\ used \subseteq used'
    BY <1>8 DEF Asks, Page, Place, Cancel, List, LogIn, Resolve, Request, Begins
<1>9. Mature \/ Quiet \/ (\E k \in Connection : Crash(k)) \/ UNCHANGED vars
        => site' = site /\ used \subseteq used'
    BY DEF Mature, Quiet, Crash, vars, requests
<1>10. UNCHANGED requests => site' = site /\ used \subseteq used'
    BY DEF requests
<1>. QED  BY <1>4, <1>5, <1>6, <1>7, <1>8, <1>9, <1>10, <1>11 DEF Next, Step

LEMMA OrderedNext == Types /\ Kept /\ Reckoned /\ Ordered /\ [Next]_vars => Ordered'
<1> SUFFICES ASSUME Types, Kept, Reckoned, Ordered, [Next]_vars, OwnConnections', used' \subseteq {"place"}
             PROVE  Turns'
    BY DEF Ordered
<1>1. OwnConnections /\ used \subseteq {"place"}
    BY UsedGrows DEF OwnConnections
<1>2. Ownership /\ Grounded /\ Turns
    BY <1>1 DEF Kept, Reckoned, Ordered
<1>3. ASSUME NEW w \in Worker, Asks(w) \/ Page(w) \/ Step(w) \/ DeadlockDetected(w)
      PROVE  Turns'
    <2>1. DeadlockDetected(w) => StatementFails(w)
        BY DEF DeadlockDetected
    <2>. QED  BY <1>1, <1>2, <1>3, <2>1, AskingTurns, OrderTurns, CommitTurns, NoneAborted, FailsTurns
              DEF Step
<1>4. CASE Mature \/ Quiet \/ \E k \in Connection : Crash(k)
    BY <1>1, <1>2, <1>4, OthersTurns
<1>5. CASE UNCHANGED vars
    BY <1>2, <1>5 DEF Turns, Uncrossed, Mine, vars, connections, requests
<1>. QED  BY <1>3, <1>4, <1>5 DEF Next

(* While there are only orders, each has at every statement all the offers *)
(* before it that it crosses, as it found them but for what it has taken.  *)
THEOREM OrderedInvariant == Spec => []Ordered
<1>1. Init => Ordered
    BY TurnsInit DEF Ordered
<1>. QED  BY <1>1, OrderedNext, TypesInvariant, KeptInvariant, ReckonedInvariant, PTL DEF Spec

(* Orders alone do each other no harm, in however many processes and with  *)
(* refusals, deadlocks and crashes: the tables add up, no two offers rest  *)
(* that place() would have matched, and no statement writes back a value   *)
(* that has changed since it was read.                                     *)
THEOREM OrdersTakeTurns == Spec => []OrdersSerialise
<1>1. Reckoned /\ Ordered => OrdersSerialise
    BY DEF Reckoned, AddsUp, Ordered, Turns, OrdersSerialise
<1>. QED  BY <1>1, ReckonedInvariant, OrderedInvariant, PTL
====
