---- MODULE Processes ----
(***************************************************************************)
(* Several requests at once, on one PostgreSQL at READ COMMITTED.          *)
(*                                                                         *)
(* A worker is a thread that serves one request at a time.  The workers of *)
(* a process share its Market, hence its connection, its transaction and   *)
(* its list of messages: under Apache a process has a worker of its own,   *)
(* under waitress all workers have one connection.  Every SQL statement is *)
(* an action.                                                              *)
(*                                                                         *)
(* A row is <<table, key, key>> and its value a number: a balance, the     *)
(* quantity of an offer, the signed quantity of a position, the account of *)
(* a user; 0 is no row, but for accounts, whose balance may be 0.  Every   *)
(* offer there can be is in Order, so only its quantity is state.  Cost    *)
(* basis, fee and all-or-nothing are Session's.  A row of userid is two    *)
(* here, since its indexes are locked one by one: that of a user holds the *)
(* account, that of a name (username and profile) the user who has it.     *)
(* The id that INSERT gives to a position is kept in a row beside it.      *)
(*                                                                         *)
(*   db         the committed rows                                         *)
(*   work[k]    the rows that the transaction of connection k has written, *)
(*              with their new values: nobody else sees them, and nobody   *)
(*              else can write them until it ends                          *)
(*   noted[k]   the contract types of the messages not yet flushed         *)
(*   down       the connections whose transaction failed                   *)
(*   job[w]     what worker w is doing: at is the statement it is about to *)
(*              issue, the rest are the handler's local variables          *)
(*   early      the connections to which the contract types have not       *)
(*              matured: NOW() is the time at which a transaction began    *)
(*                                                                         *)
(* Two variables only record what happened: marks[k] says why the          *)
(* transaction of k should not be committed, and spoiled which of these    *)
(* reasons have reached the tables all the same.                           *)
(***************************************************************************)
EXTENDS Tables, FiniteSetsExt, Relation

CONSTANTS
    Worker,       \* threads that serve requests
    Connection,   \* the connections to the database
    Deployments,  \* ways to give the workers connections, each with its bounds
    Order,        \* every offer that rests or is asked for, by id
    Resting,      \* the ids of those in the book at the start
    Holdings,     \* the positions at the start
    FirstUser,    \* for each user the account and the name it has at the start
    Name,         \* the names of users
    Logins,       \* for each login there can be, the user and the name
    Rounds        \* how often lookup_user calls itself until Python gives up

ASSUME ProcessesAssumption ==
    /\ Deployments \subseteq
         [conn : [Worker -> Connection], maxJobs : Nat, maxCrashes : Nat, matures : BOOLEAN,
          kinds : [Worker -> SUBSET {"place", "cancel", "list", "login", "resolve"}],
          orders : SUBSET OfferId, logins : SUBSET DOMAIN Logins,
          rulings : SUBSET (ContractType \X Side), grant : Nat]
    /\ Order \in [OfferId -> OfferRow]
    /\ \A i \in OfferId : Order[i].quantity > 0 /\ ~ Order[i].aon
    /\ Resting \subseteq OfferId
    /\ Private = {}
    /\ DOMAIN FirstUser \subseteq Nat \ {0}
    /\ \A u \in DOMAIN FirstUser : FirstUser[u] \in [account : Account \cup {0}, name : Name]
    /\ \A l \in DOMAIN Logins : Logins[l] \in [user : DOMAIN FirstUser, name : Name]
    /\ Rounds \in Nat \ {0}

VARIABLES site, db, work, noted, down, job, early, asked, started, crashes,
          marks, spoiled, used

connections == <<work, noted, down, marks>>
requests == <<site, asked, started, crashes, used>>
vars == <<db, connections, job, early, requests, spoiled>>

TypeRow(c) == <<"type", c, 0>>
AccountRow(a) == <<"account", a, 0>>
OfferOf(i) == <<"offer", i, 0>>
PositionRow(c, a) == <<"position", c, a>>
IdRow(c, a) == <<"id", c, a>>
UserRow(u) == <<"user", u, 0>>
NameRow(n) == <<"name", n, 0>>

User == DOMAIN FirstUser
Known == {u \in User : FirstUser[u].account # 0}

(* At the start every user has an account of its own, the offers and the   *)
(* positions are those of users (offer.account and position.account        *)
(* REFERENCE account), and the positions on a contract type pair up.       *)
ASSUME StartAssumption ==
    /\ \A u, v \in Known : FirstUser[u].account = FirstUser[v].account => u = v
    /\ \A i \in Resting : \E u \in Known : FirstUser[u].account = Order[i].account
    /\ Holdings \in [ContractType -> [Account -> Int]]
    /\ \A c \in ContractType, a \in Account :
          Holdings[c][a] # 0 => \E u \in Known : FirstUser[u].account = a
    /\ \A c \in ContractType : SumTo(Holdings[c], NumAccounts) = 0

Absent == -1

Row == {TypeRow(c) : c \in ContractType} \cup {AccountRow(a) : a \in Account}
         \cup {OfferOf(i) : i \in OfferId}
         \cup {PositionRow(c, a) : c \in ContractType, a \in Account}
         \cup {IdRow(c, a) : c \in ContractType, a \in Account}
         \cup {UserRow(u) : u \in User} \cup {NameRow(n) : n \in Name}

FirstValue(r) ==
    CASE r[1] = "type" -> 1
      [] r[1] = "account" -> IF \E u \in Known : FirstUser[u].account = r[2]
                             THEN InitialBalance[r[2]] ELSE Absent
      [] r[1] = "offer" -> IF r[2] \in Resting THEN Order[r[2]].quantity ELSE 0
      [] r[1] = "position" -> Holdings[r[2]][r[3]]
      [] r[1] = "id" -> 0
      [] r[1] = "user" -> FirstUser[r[2]].account
      [] r[1] = "name" -> LET of == {u \in Known : FirstUser[u].name = r[2]}
                          IN  IF of = {} THEN 0 ELSE Min(of)

Start == [r \in Row |-> FirstValue(r)]

NoWork == [r \in {} |-> 0]
Idle == [kind |-> "none", at |-> "idle", id |-> 0, left |-> 0, rows |-> NoWork,
         row |-> 0, n |-> 0, got |-> 0, half |-> FIXED,
         due |-> [s \in Side |-> 0]]

Init ==
    /\ site \in Deployments
    /\ db = Start
    /\ work = [k \in Connection |-> NoWork]
    /\ noted = [k \in Connection |-> {}]
    /\ down = {}
    /\ job = [w \in Worker |-> Idle]
    /\ early = Connection
    /\ asked = {}
    /\ started = 0
    /\ crashes = 0
    /\ marks = [k \in Connection |-> {}]
    /\ spoiled = {}
    /\ used = {}

(* A worker to a process, as under Apache.  Threads that share a connection *)
(* have no transactions of their own: see the run Race.                    *)
OwnConnections == \A v, w \in Worker : site.conn[v] = site.conn[w] => v = w

(***************************************************************************)
(* PostgreSQL.                                                             *)
(***************************************************************************)
(* The value a SELECT of connection k finds in row r. *)
View(k, r) == IF r \in DOMAIN work[k] THEN work[k][r] ELSE db[r]

Exist(r, value) ==
    CASE r[1] = "type" -> TRUE
      [] r[1] = "account" -> value # Absent
      [] OTHER -> value # 0

WritersOf(k, r) == {h \in Connection \ {k} : r \in DOMAIN work[h]}

(* UPDATE and DELETE, and the foreign key check of an INSERT, wait for the *)
(* writer of a row they can see.                                           *)
Blockers(k, r) == IF Exist(r, db[r]) THEN WritersOf(k, r) ELSE {}

(* Worker w is about to issue the statement named label, and can. *)
At(w, label) == job[w].at = label /\ site.conn[w] \notin down
Free(w, r) == Blockers(site.conn[w], r) = {}
Seen(w, r) == View(site.conn[w], r)

Marked(k, why) == [marks EXCEPT ![k] = @ \cup why]
StaleIf(changed, why) == IF changed THEN {why} ELSE {}

(* The next transaction of connection k begins after this one: the         *)
(* contract types have matured by then, or to nobody yet.                  *)
Ends(k) == early' = IF early = Connection THEN early ELSE early \ {k}

Becomes(w, j) == job' = [job EXCEPT ![w] = j]

(* lookup_user() catches every error, rolls back and calls itself.         *)
Retries(j) == j.kind = "login" /\ j.n < Rounds
Retried(j) == [Idle EXCEPT !.kind = j.kind, !.at = "user", !.id = j.id, !.n = j.n + 1]

(* The statement is refused: the transaction and its locks are gone.  When *)
(* Python has had enough of lookup_user, it is rolled back or not.         *)
StatementFails(w) ==
    LET k == site.conn[w]
        j == job[w]
    IN  /\ work' = [work EXCEPT ![k] = NoWork]
        /\ marks' = [marks EXCEPT ![k] = {}]
        /\ \/ /\ j.kind = "login"
              /\ Becomes(w, IF Retries(j) THEN Retried(j) ELSE Idle)
              /\ down' = down \ {k}
           \/ /\ ~ Retries(j)
              /\ Becomes(w, Idle)
              /\ down' = down \cup {k}
        /\ Ends(k)
        /\ UNCHANGED <<db, noted, requests, spoiled>>

(* Python raised: the transaction stays open, with its locks. *)
HandlerRaises(w) ==
    LET k == site.conn[w]
        done == {r \in DOMAIN work[k] : r[1] # "type"}
    IN  /\ Becomes(w, Idle)
        /\ marks' = IF done = {} THEN [marks EXCEPT ![k] = {}] ELSE Marked(k, {"raised"})
        /\ UNCHANGED <<db, work, noted, down, early, requests, spoiled>>

(* The rows of new on top of those written before. *)
Over(new, old) ==
    [r \in DOMAIN new \cup DOMAIN old |-> IF r \in DOMAIN new THEN new[r] ELSE old[r]]

(* One row is written and the worker goes on as j. *)
Writes(w, r, v, why, j) ==
    /\ work' = [work EXCEPT ![site.conn[w]] = Over([s \in {r} |-> v], @)]
    /\ marks' = Marked(site.conn[w], why)
    /\ Becomes(w, j)
    /\ UNCHANGED <<db, down, early, requests, spoiled>>

(* UPDATE or DELETE of a row that may be gone by the time it is free. *)
Updates(w, r, v, why, j) ==
    /\ Free(w, r)
    /\ Becomes(w, j)
    /\ marks' = Marked(site.conn[w], why)
    /\ work' = IF ~ Exist(r, Seen(w, r)) THEN work
               ELSE [work EXCEPT ![site.conn[w]] = Over([s \in {r} |-> v], @)]
    /\ UNCHANGED <<db, down, early, requests, spoiled>>

Reads(w, j) == Becomes(w, j) /\ UNCHANGED <<db, connections, early, requests, spoiled>>

(***************************************************************************)
(* Requests.                                                               *)
(***************************************************************************)
Begins(w, kind, j) ==
    /\ job[w] = Idle
    /\ used' = used \cup {kind}
    /\ Becomes(w, [j EXCEPT !.kind = kind])
    /\ UNCHANGED <<site, db, work, noted, marks, spoiled, early, crashes>>

(* One of the site.maxJobs requests; its get_user() rolls back what has failed. *)
Request(w, kind, j) ==
    /\ kind \in site.kinds[w]
    /\ started < site.maxJobs
    /\ started' = started + 1
    /\ down' = down \ {site.conn[w]}
    /\ Begins(w, kind, j)

(* market.place_order().  The handler asks for the maturities before it    *)
(* calls get_user(), and gets no further on a failed connection.  It lists *)
(* those that lie ahead of NOW(): that is all that keeps an order from a   *)
(* contract type that has matured or is being resolved.  The account is    *)
(* that of a user who is logged in.                                        *)
Place(w, i) ==
    /\ site.conn[w] \in early \ down
    /\ i \in site.orders \ (Resting \cup asked)
    /\ \E u \in User : Seen(w, UserRow(u)) = Order[i].account
    /\ asked' = asked \cup {i}
    /\ Request(w, "place", [Idle EXCEPT !.at = "lookup", !.id = i, !.left = Order[i].quantity])

(* The cancel button of a page on which the offer was still there. *)
Cancel(w, i) ==
    /\ Exist(OfferOf(i), db[OfferOf(i)])
    /\ Request(w, "cancel", [Idle EXCEPT !.at = "read", !.row = i])
    /\ UNCHANGED asked

List(w) ==
    /\ Request(w, "list", [Idle EXCEPT !.at = "find"])
    /\ UNCHANGED asked

(* A page on a connection whose last request left a transaction open. *)
Page(w) ==
    /\ work[site.conn[w]] # NoWork
    /\ Begins(w, "list", [Idle EXCEPT !.at = "find"])
    /\ UNCHANGED <<down, asked, started>>

(* A user comes from GitHub, or an agent from its own page.  In this kind  *)
(* of request n counts the rounds of lookup_user, row is the account to    *)
(* write and left the account that was found.                              *)
LogIn(w, l) ==
    /\ l \in site.logins
    /\ Request(w, "login", [Idle EXCEPT !.at = "user", !.id = l, !.n = 1])
    /\ UNCHANGED asked

(* In this kind of request id is the contract type and half the side that  *)
(* wins.  Neither the handler nor resolve() looks at the date.             *)
Resolve(w, c, side) ==
    /\ <<c, side>> \in site.rulings
    /\ Request(w, "resolve", [Idle EXCEPT !.at = "lookup", !.id = c, !.half = side])
    /\ UNCHANGED asked

(***************************************************************************)
(* The rows to go through, and what comes after the last.                  *)
(***************************************************************************)
After(kind) ==
    CASE kind = "place" -> "rest"
      [] kind \in {"resolve", "final"} -> "filter"
      [] OTHER -> "commit"

(* ORDER BY price, created (price DESC for an UNFIXED order), ids in the   *)
(* order of creation; a sweep goes through its lists one after the other.  *)
Rank(j, rows, i) ==
    LET first == CASE j.kind # "place" -> rows[i]
                   [] Order[j.id].side = FIXED -> Order[i].price
                   [] OTHER -> Unit - Order[i].price
    IN  first * (MaxOrders + 1) + i

Foremost(j, rows) ==
    CHOOSE i \in DOMAIN rows : \A k \in DOMAIN rows : Rank(j, rows, i) <= Rank(j, rows, k)

Aim(j, rows) ==
    IF DOMAIN rows = {} THEN [j EXCEPT !.at = After(j.kind), !.rows = NoWork]
    ELSE LET i == Foremost(j, rows)
         IN  [j EXCEPT !.at = "read", !.rows = rows, !.row = i, !.n = Min({j.left, rows[i]})]

NextRow(j) == Aim(j, [i \in DOMAIN j.rows \ {j.row} |-> j.rows[i]])

Existing(w, ids) == {i \in ids : Seen(w, OfferOf(i)) # 0}
Found(w, ids) == [i \in Existing(w, ids) |-> Seen(w, OfferOf(i))]

Crossing(o, p) ==
    /\ p.ct = o.ct /\ p.side # o.side /\ p.expires = Never
    /\ IF o.side = FIXED THEN p.price <= o.price ELSE p.price >= o.price

(* place() left no two offers that match in the book that is there at the *)
(* start.                                                                  *)
ASSUME BookAssumption ==
    \A i, j \in Resting : Order[i].expires = Never => ~ Crossing(Order[i], Order[j])

(* A mutant: the contract type is looked up by a SELECT. *)
LookupUnlocked(w) ==
    /\ At(w, "lookup")
    /\ Reads(w, [job[w] EXCEPT !.at = IF job[w].kind = "place" THEN "match" ELSE "find"])

(* ContractType.lookup: ON CONFLICT DO UPDATE takes the row. *)
Lookup(w) ==
    LET j == job[w]
        c == IF j.kind = "place" THEN Order[j.id].ct ELSE j.id
    IN  /\ At(w, "lookup")
        /\ Free(w, TypeRow(c))
        /\ Writes(w, TypeRow(c), 1, {},
                  [j EXCEPT !.at = IF j.kind = "place" THEN "match" ELSE "find"])
        /\ UNCHANGED noted

Match(w) ==
    LET j == job[w]
    IN  /\ At(w, "match")
        /\ Reads(w, Aim(j, Found(w, {i \in OfferId : Crossing(Order[j.id], Order[i])})))

(* _do_expire: offers that have expired. *)
Expiring == {i \in OfferId : Order[i].expires # Never}
Find(w) ==
    LET j == job[w]
    IN  /\ At(w, "find")
        /\ Reads(w, Aim(j, Found(w, Expiring)))

(* cleanup() of resolve(): filter() lists the offers on the contract type. *)
Filter(w) ==
    LET j == job[w]
    IN  /\ At(w, "filter")
        /\ Reads(w, [j EXCEPT !.at = "commit",
                              !.rows = [i \in Existing(w, {i \in OfferId : Order[i].ct = j.id}) |-> 1]])

(* Then _do_expire gets these, the offers that have matured and those that *)
(* have expired; it raises when it comes to one for the second time.  The  *)
(* order of a list is that of the ids here, and left tells that there is   *)
(* such an offer: only what is listed before it is swept.                  *)
Clean(w) ==
    LET j == job[w]
        found == DOMAIN j.rows
        mature == IF site.conn[w] \in early THEN {} ELSE Existing(w, OfferId)
        expired == Existing(w, Expiring)
        again == found \cap mature
        later == expired \cap (found \cup mature)
        swept == found \cup (IF again = {} THEN mature ELSE {i \in mature : i < Min(again)})
                  \cup {i \in expired : again = {} /\ \A k \in later : i < k}
    IN  /\ At(w, "clean")
        /\ Reads(w, Aim([j EXCEPT !.left = IF again \cup later = {} THEN 0 ELSE 1],
                        [i \in swept |-> IF i \in found THEN 1 ELSE IF i \in mature THEN 2 ELSE 3]))

ListedTwice(j) == j.kind \in {"clear", "last"} /\ j.left # 0

SweepRaises(w) ==
    /\ At(w, "commit")
    /\ ListedTwice(job[w])
    /\ HandlerRaises(w)

(***************************************************************************)
(* reduce_offer(): SELECT, UPDATE account, UPDATE or DELETE offer.         *)
(***************************************************************************)
ReadOffer(w) ==
    LET j == job[w]
        q == Seen(w, OfferOf(j.row))
        n == IF j.kind = "place" THEN j.n ELSE q
    IN  /\ At(w, "read")
        /\ IF q = 0 \/ n > q THEN HandlerRaises(w)
           ELSE Reads(w, [j EXCEPT !.at = "refund", !.got = q, !.n = n])

Refund(w) ==
    LET j == job[w]
        o == Order[j.row]
        r == AccountRow(o.account)
    IN  /\ At(w, "refund")
        /\ Free(w, r)
        /\ Writes(w, r, Seen(w, r) + Cost(o.side, o.price, j.n), {}, [j EXCEPT !.at = "shrink"])
        /\ UNCHANGED noted

(* A mutant: nobody looks at how many rows were written. *)
ShrinkUnchecked(w) ==
    LET j == job[w]
        r == OfferOf(j.row)
    IN  /\ At(w, "shrink")
        /\ Updates(w, r, j.got - j.n, StaleIf(Exist(r, Seen(w, r)) /\ Seen(w, r) # j.got, "offer"),
                   IF j.kind = "place" THEN [j EXCEPT !.at = "side", !.half = FIXED]
                   ELSE NextRow(j))
        /\ UNCHANGED noted

Shrink(w) ==
    LET j == job[w]
        r == OfferOf(j.row)
    IN  /\ At(w, "shrink")
        /\ Free(w, r)
        /\ IF ~ Exist(r, Seen(w, r)) THEN HandlerRaises(w)
           ELSE /\ Writes(w, r, j.got - j.n, StaleIf(Seen(w, r) # j.got, "offer"),
                          IF j.kind = "place" THEN [j EXCEPT !.at = "side", !.half = FIXED]
                          ELSE NextRow(j))
                /\ noted' = IF j.kind = "place" THEN noted
                            ELSE [noted EXCEPT ![site.conn[w]] = @ \cup {Order[j.row].ct}]

(***************************************************************************)
(* make_contract(): two persist_side, two debits.                          *)
(***************************************************************************)
(* A mutant: the two parties are swapped. *)
HolderSwapped(j, side) ==
    IF Order[j.id].side = side THEN Order[j.row].account ELSE Order[j.id].account

Holder(j, side) ==
    IF Order[j.id].side = side THEN Order[j.id].account ELSE Order[j.row].account
HolderRow(j) == PositionRow(Order[j.id].ct, Holder(j, j.half))
Units(j) == IF j.half = FIXED THEN j.n ELSE -j.n

ReadSide(w) ==
    /\ At(w, "side")
    /\ Reads(w, [job[w] EXCEPT !.at = "store", !.got = Seen(w, HolderRow(job[w]))])

(* The position as it was read, plus the units; what the side owes.        *)
Stored(j) ==
    [j EXCEPT !.at = IF j.half = FIXED THEN "side" ELSE "debit",
              !.half = IF j.half = FIXED THEN UNFIXED ELSE FIXED,
              !.due[j.half] = Cost(j.half, Order[j.id].price, j.n)
                                - Unit * Covered(j.got, Units(j))]

(* INSERT: a row with this key may have come, or be on its way, and        *)
(* check_contract_type_maturity() is to let it through.                    *)
InsertSide(w) ==
    LET j == job[w]
        k == site.conn[w]
        r == HolderRow(j)
        s == IdRow(Order[j.id].ct, Holder(j, j.half))
    IN  /\ At(w, "store")
        /\ j.got = 0
        /\ WritersOf(k, r) = {}
        /\ IF k \notin early \/ Exist(r, Seen(w, r)) THEN StatementFails(w)
           ELSE /\ work' = [work EXCEPT ![k] = Over([x \in {r} |-> Units(j)],
                                                   Over([x \in {s} |-> Seen(w, s) + 1], @))]
                /\ Becomes(w, Stored(j))
                /\ UNCHANGED <<db, noted, down, marks, early, requests, spoiled>>

(* UPDATE or DELETE: no trigger, and nobody looks at how many rows. *)
UpdateSide(w) ==
    LET j == job[w]
        r == HolderRow(j)
    IN  /\ At(w, "store")
        /\ j.got # 0
        /\ Updates(w, r, j.got + Units(j), StaleIf(Seen(w, r) # j.got, "position"), Stored(j))
        /\ UNCHANGED noted

(* A mutant: no CHECK. *)
PaysUnchecked(w, a, amount, j) ==
    /\ Updates(w, AccountRow(a), Seen(w, AccountRow(a)) - amount, {}, j)
    /\ UNCHANGED noted

(* CHECK (balance >= 0) *)
Pays(w, a, amount, j) ==
    LET r == AccountRow(a)
    IN  /\ Free(w, r)
        /\ IF Seen(w, r) < amount THEN StatementFails(w)
           ELSE Writes(w, r, Seen(w, r) - amount, {}, j) /\ UNCHANGED noted

Contracted(j) ==
    IF j.left = j.n THEN [j EXCEPT !.at = "commit"]
    ELSE NextRow([j EXCEPT !.left = @ - j.n])

DebitFixed(w) ==
    LET j == job[w]
    IN  /\ At(w, "debit")
        /\ j.half = FIXED
        /\ Pays(w, Holder(j, FIXED), j.due[FIXED], [j EXCEPT !.half = UNFIXED])

(* The last statement of the contract; then its messages are noted. *)
DebitUnfixed(w) ==
    LET j == job[w]
        r == AccountRow(Holder(j, UNFIXED))
    IN  /\ At(w, "debit")
        /\ j.half = UNFIXED
        /\ Free(w, r)
        /\ IF Seen(w, r) < j.due[UNFIXED] THEN StatementFails(w)
           ELSE /\ Writes(w, r, Seen(w, r) - j.due[UNFIXED], {}, Contracted(j))
                /\ noted' = [noted EXCEPT ![site.conn[w]] = @ \cup {Order[j.id].ct}]

(* make_offer(): UPDATE account, INSERT offer, with the same trigger. *)
Rest(w) ==
    LET j == job[w]
        o == Order[j.id]
    IN  /\ At(w, "rest")
        /\ Pays(w, o.account, Cost(o.side, o.price, j.left), [j EXCEPT !.at = "insert"])

InsertOffer(w) ==
    LET j == job[w]
    IN  /\ At(w, "insert")
        /\ Free(w, TypeRow(Order[j.id].ct))
        /\ IF site.conn[w] \notin early THEN StatementFails(w)
           ELSE /\ Writes(w, OfferOf(j.id), j.left, {}, [j EXCEPT !.at = "commit"])
                /\ noted' = [noted EXCEPT ![site.conn[w]] = @ \cup {Order[j.id].ct}]

(***************************************************************************)
(* Account.lookup() and Account.persist().                                 *)
(***************************************************************************)
(* SELECT account JOIN userid.  A user that is known under its name is     *)
(* only logged in.                                                         *)
FindUser(w) ==
    LET j == job[w]
        u == Logins[j.id].user
        a == Seen(w, UserRow(u))
    IN  /\ At(w, "user")
        /\ Reads(w, CASE a = 0 -> [j EXCEPT !.at = "create"]
                      [] a # 0 /\ Seen(w, NameRow(Logins[j.id].name)) = u -> Idle
                      [] OTHER -> [j EXCEPT !.at = "save", !.row = a, !.left = a,
                                            !.got = Seen(w, AccountRow(a))])

(* Ids come from a sequence: nobody else has this one.  NumAccounts bounds *)
(* how many there are.                                                     *)
Unused == {a \in Account : /\ db[AccountRow(a)] = Absent
                           /\ \A k \in Connection : AccountRow(a) \notin DOMAIN work[k]}
FreshAccount == Min(Unused)

(* A mutant: the new account is committed before the user that has it. *)
CreateAccountCommitted(w) ==
    LET a == FreshAccount
    IN  /\ At(w, "create")
        /\ db' = [db EXCEPT ![AccountRow(a)] = site.grant]
        /\ Becomes(w, [job[w] EXCEPT !.at = "upsert", !.row = a])
        /\ UNCHANGED <<connections, early, requests, spoiled>>

CreateAccount(w) ==
    LET a == FreshAccount
    IN  /\ At(w, "create")
        /\ Unused # {}
        /\ Writes(w, AccountRow(a), site.grant, {}, [job[w] EXCEPT !.at = "upsert", !.row = a])
        /\ UNCHANGED noted

(* UPDATE account, with the balance that was read. *)
SaveAccount(w) ==
    LET j == job[w]
        r == AccountRow(j.row)
    IN  /\ At(w, "save")
        /\ Free(w, r)
        /\ Writes(w, r, j.got, StaleIf(Seen(w, r) # j.got, "balance"), [j EXCEPT !.at = "upsert"])
        /\ UNCHANGED noted

(* INSERT userid ON CONFLICT (host, sub) DO UPDATE SET account = ..., name *)
(* = ...: the row of before, if there is one, is given up with its name.   *)
Upsert(w) ==
    LET j == job[w]
        k == site.conn[w]
        r == UserRow(Logins[j.id].user)
        old == {NameRow(n) : n \in {n \in Name : Seen(w, NameRow(n)) = Logins[j.id].user}}
    IN  /\ At(w, "upsert")
        /\ WritersOf(k, r) = {}
        /\ work' = [work EXCEPT ![k] = Over([s \in old |-> 0], Over([s \in {r} |-> j.row], @))]
        /\ marks' = Marked(k, StaleIf(Seen(w, r) # j.left, "login"))
        /\ Becomes(w, [j EXCEPT !.at = "name"])
        /\ UNCHANGED <<db, noted, down, early, requests, spoiled>>

(* The rest of that statement: UNIQUE (host, username), UNIQUE (host,      *)
(* profile) and the reference to an account, which is gone if a thread of  *)
(* the same process has rolled back.  Then the message, which has no       *)
(* contract type, is noted.                                                *)
TakeName(w) ==
    LET j == job[w]
        r == NameRow(Logins[j.id].name)
    IN  /\ At(w, "name")
        /\ WritersOf(site.conn[w], r) = {}
        /\ IF Seen(w, r) # 0 \/ Seen(w, AccountRow(j.row)) = Absent THEN StatementFails(w)
           ELSE /\ Writes(w, r, Logins[j.id].user, {}, [j EXCEPT !.at = "commit"])
                /\ noted' = [noted EXCEPT ![site.conn[w]] = @ \cup {0}]

(***************************************************************************)
(* The positions in resolve().  left is the total here, and n the id of    *)
(* the position that was read.                                             *)
(***************************************************************************)
(* A mutant: resolve() does not look at the total. *)
PickUnchecked(w) ==
    LET j == job[w]
        held(a) == Seen(w, PositionRow(j.id, a))
        wins(a) == (held(a) > 0) <=> (j.half = FIXED)
    IN  /\ At(w, "pick")
        /\ \/ \E a \in Account :
                 /\ held(a) # 0
                 /\ Reads(w, [j EXCEPT !.at = IF wins(a) THEN "credit" ELSE "delete",
                                       !.row = a, !.n = Seen(w, IdRow(j.id, a)),
                                       !.got = held(a), !.left = @ + held(a)])
           \/ /\ \A a \in Account : held(a) = 0
              /\ Reads(w, [j EXCEPT !.at = "commit"])

(* SELECT ... LIMIT 1, until there is none. *)
Pick(w) ==
    LET j == job[w]
        held(a) == Seen(w, PositionRow(j.id, a))
        wins(a) == (held(a) > 0) <=> (j.half = FIXED)
    IN  /\ At(w, "pick")
        /\ \/ \E a \in Account :
                 /\ held(a) # 0
                 /\ Reads(w, [j EXCEPT !.at = IF wins(a) THEN "credit" ELSE "delete",
                                       !.row = a, !.n = Seen(w, IdRow(j.id, a)),
                                       !.got = held(a), !.left = @ + held(a)])
           \/ /\ \A a \in Account : held(a) = 0
              /\ IF j.left = 0 THEN Reads(w, [j EXCEPT !.at = "commit"]) ELSE HandlerRaises(w)

(* A mutant: the payout has the sign of the position. *)
PayWinnerSigned(w) ==
    LET j == job[w]
        r == AccountRow(j.row)
    IN  /\ At(w, "credit")
        /\ Updates(w, r, Seen(w, r) + Unit * j.got, {}, [j EXCEPT !.at = "delete"])
        /\ UNCHANGED noted

PayWinner(w) ==
    LET j == job[w]
        r == AccountRow(j.row)
    IN  /\ At(w, "credit")
        /\ Updates(w, r, Seen(w, r) + Unit * Abs(j.got), {}, [j EXCEPT !.at = "delete"])
        /\ UNCHANGED noted

(* DELETE by id, of a position that may have changed or be gone since, and *)
(* have another in its place.  Nobody looks at how many rows were deleted. *)
SameId(w) == Seen(w, IdRow(job[w].id, job[w].row)) = job[w].n
DeletePosition(w) ==
    LET j == job[w]
        r == PositionRow(j.id, j.row)
        next == [j EXCEPT !.at = "pick"]
    IN  /\ At(w, "delete")
        /\ IF SameId(w) THEN Updates(w, r, 0, StaleIf(Seen(w, r) # j.got, "position"), next)
           ELSE /\ Becomes(w, next)
                /\ marks' = Marked(site.conn[w], {"position"})
                /\ UNCHANGED <<db, work, down, early, requests, spoiled>>
        /\ noted' = [noted EXCEPT ![site.conn[w]] = @ \cup {j.id}]

(***************************************************************************)
(* The end of a transaction.                                               *)
(***************************************************************************)
(* resolve() is five transactions: filter() and the sweep of a cleanup(),  *)
(* the positions, and both once more.                                      *)
Committed(j) ==
    CASE j.kind = "resolve" -> [j EXCEPT !.kind = "clear", !.at = "clean"]
      [] j.kind = "clear" -> [j EXCEPT !.kind = "pay", !.at = "pick", !.left = 0]
      [] j.kind = "pay" -> [j EXCEPT !.kind = "final", !.at = "find", !.left = 0]
      [] j.kind = "final" -> [j EXCEPT !.kind = "last", !.at = "clean"]
      [] OTHER -> Idle

(* A mutant: filter() returns without a commit. *)
CommitUnlessListing(w) ==
    LET k == site.conn[w]
    IN  /\ At(w, "commit")
        /\ ~ ListedTwice(job[w])
        /\ \A c \in noted[k] \ {0} : Free(w, TypeRow(c))
        /\ IF job[w].kind = "list" THEN UNCHANGED <<db, work, noted, spoiled, marks>>
           ELSE /\ db' = [r \in Row |-> View(k, r)]
                /\ work' = [work EXCEPT ![k] = NoWork]
                /\ noted' = [noted EXCEPT ![k] = {}]
                /\ spoiled' = spoiled \cup marks[k]
                /\ marks' = [marks EXCEPT ![k] = {}]
        /\ Becomes(w, Committed(job[w]))
        /\ Ends(k)
        /\ UNCHANGED <<down, requests>>

(* Flush the messages, whose contract types must not be locked; commit.    *)
Commit(w) ==
    LET k == site.conn[w]
    IN  /\ At(w, "commit")
        /\ ~ ListedTwice(job[w])
        /\ \A c \in noted[k] \ {0} : Free(w, TypeRow(c))
        /\ db' = [r \in Row |-> View(k, r)]
        /\ work' = [work EXCEPT ![k] = NoWork]
        /\ noted' = [noted EXCEPT ![k] = {}]
        /\ spoiled' = spoiled \cup marks[k]
        /\ marks' = [marks EXCEPT ![k] = {}]
        /\ Becomes(w, Committed(job[w]))
        /\ Ends(k)
        /\ UNCHANGED <<down, requests>>

(* Another worker's statement failed on this connection: the next one is   *)
(* refused, but a commit with no message to send quietly rolls back.       *)
Aborted(w) ==
    /\ job[w].kind \notin {"none", "login"}
    /\ site.conn[w] \in down
    /\ IF job[w].at = "commit" /\ ~ ListedTwice(job[w]) /\ noted[site.conn[w]] = {}
       THEN Becomes(w, Committed(job[w])) /\ down' = down \ {site.conn[w]} /\ Ends(site.conn[w])
       ELSE Becomes(w, Idle) /\ UNCHANGED <<down, early>>
    /\ UNCHANGED <<db, work, noted, marks, requests, spoiled>>

(* In lookup_user, which always has a message to send, it means a new try. *)
AbortedLogin(w) ==
    /\ job[w].kind = "login"
    /\ site.conn[w] \in down
    /\ StatementFails(w)

(***************************************************************************)
(* Who waits for whom.                                                     *)
(***************************************************************************)
(* The rows that the next statement of worker w needs for itself. *)
Needs(w) ==
    LET j == job[w]
    IN  CASE j.at = "lookup" -> {TypeRow(IF j.kind = "place" THEN Order[j.id].ct ELSE j.id)}
          [] j.at = "refund" -> {AccountRow(Order[j.row].account)}
          [] j.at = "shrink" -> {OfferOf(j.row)}
          [] j.at = "store" -> {HolderRow(j)}
          [] j.at = "debit" -> {AccountRow(Holder(j, j.half))}
          [] j.at = "rest" -> {AccountRow(Order[j.id].account)}
          [] j.at = "insert" -> {TypeRow(Order[j.id].ct)}
          [] j.at = "save" -> {AccountRow(j.row)}
          [] j.at = "credit" -> {AccountRow(j.row)}
          [] j.at = "delete" -> {r \in {PositionRow(j.id, j.row)} : SameId(w)}
          [] j.at = "upsert" -> {UserRow(Logins[j.id].user)}
          [] j.at = "name" -> {NameRow(Logins[j.id].name)}
          [] j.at = "commit" -> {TypeRow(c) : c \in noted[site.conn[w]] \ {0}}
          [] OTHER -> {}

(* A unique index waits for rows that are not to be seen yet. *)
Adds(j) == j.at \in {"upsert", "name"} \/ (j.at = "store" /\ j.got = 0)

WaitsFor(w) ==
    UNION {IF Adds(job[w]) THEN WritersOf(site.conn[w], r)
           ELSE Blockers(site.conn[w], r) : r \in Needs(w)}

Waits == [p \in Connection \X Connection |->
             \E w \in Worker : site.conn[w] = p[1] /\ p[2] \in WaitsFor(w)]

(* deadlock_timeout: a statement of a circle of waits is refused. *)
DeadlockDetected(w) ==
    /\ site.conn[w] \notin down
    /\ WaitsFor(w) # {}
    /\ TransitiveClosure(Waits, Connection)[site.conn[w], site.conn[w]]
    /\ StatementFails(w)

(***************************************************************************)
(* The environment.                                                        *)
(***************************************************************************)
(* A process dies with work in hand, and another is started in its place. *)
Crash(k) ==
    /\ crashes < site.maxCrashes
    /\ work[k] # NoWork \/ \E w \in Worker : site.conn[w] = k /\ job[w] # Idle
    /\ crashes' = crashes + 1
    /\ job' = [w \in Worker |-> IF site.conn[w] = k THEN Idle ELSE job[w]]
    /\ work' = [work EXCEPT ![k] = NoWork]
    /\ noted' = [noted EXCEPT ![k] = {}]
    /\ marks' = [marks EXCEPT ![k] = {}]
    /\ down' = down \ {k}
    /\ Ends(k)
    /\ UNCHANGED <<site, db, spoiled, asked, started, used>>

(* The date passes.  A transaction that is open still reads an earlier     *)
(* NOW(), and any connection may have one open, by the SELECT of           *)
(* get_user(), however long ago that was.                                  *)
Busy == {k \in Connection :
            \/ work[k] # NoWork
            \/ \E w \in Worker : /\ site.conn[w] = k
                                 /\ job[w].at \notin {"idle", "user", "find", "clean", "pick"}}
Mature ==
    /\ site.matures
    /\ early = Connection
    /\ \E open \in SUBSET Connection :
          /\ Busy \subseteq open
          /\ open # Connection
          /\ early' = open
    /\ UNCHANGED <<db, connections, job, requests, spoiled>>

Asks(w) ==
    \/ \E i \in OfferId : Place(w, i) \/ Cancel(w, i)
    \/ List(w)
    \/ \E l \in DOMAIN Logins : LogIn(w, l)
    \/ \E c \in ContractType, side \in Side : Resolve(w, c, side)

Matching(w) == Lookup(w) \/ Match(w) \/ ReadOffer(w) \/ Refund(w) \/ Shrink(w)
Sweeping(w) == Find(w) \/ Filter(w) \/ Clean(w) \/ SweepRaises(w)
Contracting(w) == \/ ReadSide(w) \/ InsertSide(w) \/ UpdateSide(w)
                  \/ DebitFixed(w) \/ DebitUnfixed(w) \/ Rest(w) \/ InsertOffer(w)
LoggingIn(w) == \/ FindUser(w) \/ CreateAccount(w) \/ SaveAccount(w)
                \/ Upsert(w) \/ TakeName(w)
Paying(w) == Pick(w) \/ PayWinner(w) \/ DeletePosition(w)

Step(w) == \/ Matching(w) \/ Sweeping(w) \/ Contracting(w) \/ LoggingIn(w) \/ Paying(w)
           \/ Commit(w) \/ Aborted(w) \/ AbortedLogin(w)

(* Nobody need ask for anything. *)
Quiet ==
    /\ \A w \in Worker : job[w] = Idle /\ work[site.conn[w]] = NoWork
    /\ UNCHANGED vars

Next ==
    \/ \E w \in Worker : Asks(w) \/ Page(w) \/ Step(w) \/ DeadlockDetected(w)
    \/ \E k \in Connection : Crash(k)
    \/ Mature
    \/ Quiet

Spec == Init /\ [][Next]_vars

(* The interpreter and the server run on, deadlocks are detected, and      *)
(* every process is asked for a page now and then.                         *)
FairSpec ==
    /\ Spec
    /\ \A w \in Worker :
          WF_vars(Step(w)) /\ WF_vars(Page(w)) /\ WF_vars(DeadlockDetected(w))

(***************************************************************************)
(* Properties.                                                             *)
(***************************************************************************)
(* No committed balance is negative, no offer holds more than was asked    *)
(* for, and a transaction writes rows of the tables only.                  *)
TypeOK ==
    /\ \A a \in Account : db[AccountRow(a)] \in Nat \cup {Absent}
    /\ \A i \in OfferId : db[OfferOf(i)] \in 0..Order[i].quantity
    /\ \A k \in Connection : /\ DOMAIN work[k] \subseteq Row
                             /\ noted[k] \subseteq ContractType \cup {0}
    /\ down \subseteq Connection

Total(t) ==
    SumTo([a \in Account |-> AtLeastZero(t[AccountRow(a)])], NumAccounts)
      + SumTo([i \in OfferId |-> Cost(Order[i].side, Order[i].price, t[OfferOf(i)])], MaxOrders)
      + SumTo([c \in ContractType |->
                  SumTo([a \in Account |-> Unit * AtLeastZero(t[PositionRow(c, a)])], NumAccounts)],
              NumTypes)

(* What is committed adds up to the tokens of the start and the starting   *)
(* balances of new accounts: a transaction of the database is a            *)
(* transaction of the market (place, cancel, _do_expire, resolve, lookup   *)
(* and persist of an account).                                             *)
StartTotal == Total(Start)
Opened == {a \in Account : db[AccountRow(a)] # Absent /\ Start[AccountRow(a)] = Absent}
Conserved == Total(db) = StartTotal + site.grant * Cardinality(Opened)

(* The FIXED units held on a contract type equal the UNFIXED units. *)
ZeroSum ==
    \A c \in ContractType : SumTo([a \in Account |-> db[PositionRow(c, a)]], NumAccounts) = 0

(* No two offers rest that place() would have matched. *)
Uncrossed ==
    \A i, j \in OfferId :
        /\ db[OfferOf(i)] # 0 /\ db[OfferOf(j)] # 0
        /\ Order[i].expires = Never
        => ~ Crossing(Order[i], Order[j])

(* Orders alone never harm each other, in however many processes, with     *)
(* refusals, deadlocks and crashes: the row that ContractType.lookup locks *)
(* makes the orders on a contract type take turns, and on different ones   *)
(* they share accounts only, which are debited relative to what is there.  *)
(* So no fill is lost, no position overwritten, no crossing order missed,  *)
(* and reduce_offer never raises.                                          *)
OrdersSerialise ==
    OwnConnections /\ used \subseteq {"place"} =>
        /\ Conserved /\ ZeroSum /\ Uncrossed
        /\ \A k \in Connection : marks[k] = {}

(* Whatever runs at the same time (orders, cancels, pages that expire      *)
(* offers, logins, resolutions, orders after maturity and beside           *)
(* resolutions), tokens and pairs are lost in four ways only: reduce_offer *)
(* refunds a quantity that has changed since it was read, Account.persist  *)
(* writes back a balance that has, resolve() deletes or persist_side       *)
(* writes over a position that has, and an operation that raised leaves    *)
(* statements behind which a later one commits.                            *)
Accounted == OwnConnections /\ spoiled = {} => Conserved /\ ZeroSum

(* Every account is one user's and no two users share one, so that what is *)
(* on it can be traded and withdrawn, however logins race, are refused a   *)
(* name, are retried by lookup_user or die half way, unless two first      *)
(* logins of one user overlapped: then the later one takes the user to an  *)
(* account of its own (the upsert of Account.persist).                     *)
AccountsKept ==
    OwnConnections /\ "login" \notin spoiled =>
        \A a \in Account :
            Cardinality({u \in User : db[UserRow(u)] = a}) = IF db[AccountRow(a)] = Absent THEN 0 ELSE 1

(* The tables as Market has them.  Nobody pays a fee here, the cost basis  *)
(* of a position is not kept, and of messages only the contract type is.   *)
Book(t) ==
    [balance  |-> [a \in Account |-> AtLeastZero(t[AccountRow(a)])],
     offer    |-> [i \in OfferId |-> IF t[OfferOf(i)] = 0 THEN NoOffer
                                     ELSE [Order[i] EXCEPT !.quantity = t[OfferOf(i)]]],
     position |-> [c \in ContractType |-> [a \in Account |->
                      [quantity |-> t[PositionRow(c, a)], basis |-> 0]]],
     told     |-> NoTally,
     fees     |-> 0]

Promise == INSTANCE Market WITH book <- Book(db), Trades <- {Order[i] : i \in OfferId}

(* Each order, cancel, page and cleanup of a resolution is one step of     *)
(* Market however its statements interleave with those of others, logins   *)
(* too: it is one trade with offers that suit it, of which nobody grows    *)
(* richer or poorer at its price, or it withdraws offers and refunds their *)
(* owners (place, reduce_offer, make_contract, make_offer, cancel,         *)
(* _do_expire, cleanup), if nothing stale or half done has been committed. *)
TradesKeepPromise ==
    [][\A w \in Worker :
          /\ OwnConnections /\ spoiled' = {}
          /\ job[w].kind \in {"place", "cancel", "list", "resolve", "clear", "final", "last"}
          /\ Commit(w)
          => [Promise!Next]_(Book(db))]_db

(* A resolution closes a position and pays its holder, if on the side that *)
(* wins, for the units that are in the table when it commits, or leaves    *)
(* both alone; it closes as many FIXED units as UNFIXED ones and changes   *)
(* nothing else, though orders and other resolutions may be at the same    *)
(* positions (resolve), if nothing stale or half done has been committed.  *)
Prize(q, side) == IF (q > 0) <=> (side = FIXED) THEN Unit * Abs(q) ELSE 0
Paid(t, u, c, a, side) ==
    /\ u[PositionRow(c, a)] = 0
    /\ u[AccountRow(a)] = t[AccountRow(a)] + Prize(t[PositionRow(c, a)], side)
LeftAlone(t, u, c, a) ==
    /\ u[PositionRow(c, a)] = t[PositionRow(c, a)]
    /\ u[AccountRow(a)] = t[AccountRow(a)]
Settled(t, u, c, side) ==
    /\ \A i \in OfferId : u[OfferOf(i)] = t[OfferOf(i)]
    /\ \A a \in Account : Paid(t, u, c, a, side) \/ LeftAlone(t, u, c, a)
    /\ \A b \in ContractType \ {c}, a \in Account : u[PositionRow(b, a)] = t[PositionRow(b, a)]
    /\ SumTo([a \in Account |-> u[PositionRow(c, a)]], NumAccounts)
         = SumTo([a \in Account |-> t[PositionRow(c, a)]], NumAccounts)
PaysOnce ==
    [][\A w \in Worker :
          /\ OwnConnections /\ spoiled' = {}
          /\ job[w].kind = "pay"
          /\ Commit(w)
          => Settled(db, db', job[w].id, job[w].half)]_db

(* Where there are no orders, a resolution that commits has closed every   *)
(* position, each as it was read: of two at once the second finds a total  *)
(* that is not zero, or nothing to pay (the RuntimeError in resolve).      *)
PaysAll ==
    [][\A w \in Worker :
          /\ OwnConnections /\ "place" \notin used /\ spoiled = {}
          /\ job[w].kind = "pay"
          /\ Commit(w)
          => /\ spoiled' = {}
             /\ \A a \in Account : db'[PositionRow(job[w].id, a)] = 0]_db

(* Every request ends: no circle of row locks, no lock left behind by an   *)
(* operation that raised and no name that another user has holds a worker  *)
(* up for ever.                                                            *)
Finishes == \A w \in Worker : []<>(job[w] = Idle)
====
