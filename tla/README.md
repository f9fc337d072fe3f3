# A verification project for pinfactory

pinfactory runs a futures market on the status of bugs. A trader offers to pay
for the FIXED or the UNFIXED side of an issue at a price between 1 and 999
millitokens a unit; when two offers cross, a contract is formed and each side
has paid its share of 1000 millitokens; when the contract type has matured, an
oracle resolves it and the winning side is paid. The program is a Python
library over a PostgreSQL schema (`src/src/*.py`, `src/src/schema.sql`), with a
Flask application in front of it.

What makes it hard to get right is not the arithmetic of one trade. It is that
an operation takes many SQL statements, that psycopg2 opens a transaction on
the first one and keeps it open until somebody commits or rolls back, that a
list of unsent messages lives outside the database, and that any statement can
be refused by a constraint or a trigger; and that up to four processes, or four
threads on one connection, do this at once.

## Inventory

| Component | State | Operations | Hard behaviour | What makes it correct |
|---|---|---|---|---|
| Offer book (`offer.py`) | rows of `offer`, escrow taken from `account.balance` | `place`, `cancel`, `filter`, `_do_expire`, `cleanup` | an order is filled by many statements; each debit may be refused; expiry and maturity race trading | tokens conserved, price-time priority, all-or-nothing, no crossed book |
| Contracts (`contract.py`) | rows of `position` (signed quantity, cost basis) | `persist`, `persist_side` | offsetting positions release stakes; both holders may be one account | FIXED units equal UNFIXED units |
| Resolution (`contract.py`) | positions of one contract type | `resolve`, `resolvable`, `cleanup`, `lookup` | five transactions in one call; one position per loop step; orders and other resolutions at the same positions | each position paid and closed once; total is zero |
| Messages (`message.py`) | `MessageList` in memory, rows of `message` | `add`, `flush`, `send` | the list survives a rollback | messages agree with committed rows |
| Connection (`market.py`) | one connection per process | `connect`, `lookup_user`, implicit transactions | NOW() is fixed at the start of a transaction; a failed one refuses statements | an operation leaves nothing half done |
| Daily cleanup (`cleanup.py`, cron) | none | `Market.cleanup` | dies on an exception, starts again next day | matured offers are refunded |
| Accounts (`account.py`) | `account`, `userid` | `lookup`, `persist`, `balance` | writes an absolute balance read earlier; first login races | a user keeps its account, no lost update |
| Maturities (`maturity.py`) | `maturity` | `next_expiration_after`, `make_upcoming`, `cleanup` | calendar arithmetic; made only at start-up | three dates always on offer, two weeks apart (three over the end of a year of 53 weeks) |
| Issues, webhook (`issue.py`, `webapp.py`) | `issue`, `project` | `persist`, `by_url`, `cleanup` | deliveries repeated or out of order | an issue's status is the latest one |
| Web handlers (`webapp.py`) | the session cookie | one route per operation | several database calls per request; the balance is checked before the order | a request that fails changes nothing |
| Processes and threads (`conf/wsgi.conf`, `waitress_serve.py`) | up to 4 processes, or 4 threads on one connection | | stale SELECTs, lock order, shared transactions | the above, under interleaving |
| Graphs, export, pricing, templates, deployment | none | read-only | | not modelled |

The web handlers call the Market API; the Market API's classes share one
connection and one `MessageList`; processes meet only in the database. The
daily job is a separate process that calls the same `Market.cleanup` as
`resolve`. `PROJECT.json` lists the components with their status and, under
"hazards", each thing that can go wrong at the line where it would.

## Modules

    Sums            SumTo(f, n), a sum over 1 .. n
    Tables          the rows a trade touches; what each statement group does
    Deals           what an earlier and a later state of the tables have to do with each other
    Market          what users are promised: three kinds of atomic step, said with Deals
    Session         one Market object, a state machine over Tables; implements Market
    Web             the handlers that trade, over one Session
    Processes       requests at once, statement by statement, with row locks
    Registry        issues, dates and contract types; servers, webhook, clean-up
    MCSession, MCWeb, MCProcesses, MCRegistry
                    small instances for TLC
    SumsTheorems    what SumTo does for every n
    TablesTheorems  what each operator of Tables preserves
    SessionProofs   the inductive invariant of Session and its theorems: totals,
                    messages, the order of trading, what one operation does
    MarketProofs    Session implements Market
    WebProofs       what the forms' checks are good for; Session's theorems, of the site
    RegistryProofs  the calendar, the rows and the columns of Registry
    ProcessesProofs the columns of Processes, row locks, whose account is whose,
                    that what is committed adds up, and that orders
                    take turns
    PromiseProofs   requests at once are steps of Market; a resolution pays
                    whom it closes out, once

Three views of one program. Session has every statement group of the Market API
on one connection, with its failures, and keeps the data exact: cost basis,
fees, messages, escrow. Processes gives up some of that data (fees, cost basis,
all-or-nothing) for interleaving: each SQL statement is an action, and rows are
locked as PostgreSQL locks them. Registry has the tables around a trade and
forgets what a trade does, but for the foreign keys it leaves. Web is Session
with the requests that start its operations.

**Tables** holds no state. A value of `Database` is the content of `account`,
`offer`, `position` and `message`; each operator is one function of the code
(`ReduceOffer`, `MakeOffer`, `MakeContract`, `PayPosition`, ...). The slots of
`offer` are a function from ids; a slot of quantity 0 means there is no row.
The id of an offer is the number of the order that made it, an order-preserving
renaming of the SERIAL column. Of messages the tables keep, for each contract
type and account, what the holder can add up (`Report`): the units of the
contracts it was told of since its last `contract_resolved` (`Note`), whether
there was such a message after the last of them, and what these messages
reported. They do not
report the same to both sides (`Reported`): a winner is told of `payout / 1000`,
the tokens it gets after a fee of at least one, a loser of the units it loses, and
neither of them need be the units that are closed (`contract.py:253-270`). `fees`
is a ghost: the code credits the oracle fee to nobody.

**Session** is one process. `db` is what is committed, `tx` what the open
transaction sees, `status` and `txNow` its state and its NOW(), `pending` the
unsent messages. `place`, the sweeps (`filter`, `cleanup`) and `resolve` take
one action per row they work on, so that a crash (`Restart`) or a refused
statement can fall between any two rows, and so that a transaction can be left
in any state the code can leave it in:

| Code | Actions |
|---|---|
| `Market.lookup_user` (from `get_user`) | `LookupUser`, `LookupNobody` |
| `Account.persist`, `Issue.persist` | `PersistOther`: a commit of whatever is open |
| `Offer.place` | `PlaceOrder` (the SELECT), `SkipRow`, `FillRow`, `FillFails` (one candidate), `RestOrder`, `RestFails` (the `else` of the loop) |
| `Offer.by_id(...).cancel()` | `Cancel` |
| `Offer.filter()` for a page | `ListOffers`, `SweepOne`, `SweepRaises`, `SweepDone` |
| `cleanup.py` | `DailyCleanup`, then the same sweep |
| `ContractType.resolve` | `Resolve`, then stages "before", "clear" (filter and cleanup), "pay" (`PayOne`, `PayDone`), "after", "final", `ResolveDone` |
| the process ends | `Restart` |
| time | `Tick` |

A failing statement (`StatementFails`) loses the transaction and keeps the
message list; a Python exception (`HandlerRaises`) keeps both. Both are what
psycopg2 and the code do, and three of the findings follow from them.

**Market** is the abstract specification. Its one variable is the committed
tables, and it changes them in three ways: `Withdraw` (offers leave the book
whole, their owners get back what was set aside), `Trade` (one order takes units
of offers that suit it, what is left of it rests, and no account's wealth at the
order's price changes), `Settle` (a contract type is paid and closed). Each is a
relation between an earlier and a later state of the tables, defined in Deals,
where the proof of the refinement can use it of an open transaction. Session
implements it with `book <- db`; `KeepsPromise` is that refinement. It says of
every commit, after whatever failures, what `Conserved` and `ZeroSum` say only
of the totals: nobody is charged for somebody else's trade. A commit that
carries the leftovers of a failed sweep is still a `Withdraw`, which is why the
finding `Cleanup` does not break the promise.

Processes keeps the same promise of several requests at once
(`TradesKeepPromise`): the commit of an order, a cancel, a page or a cleanup is
a step of Market with `book <- Book(db)`, where `Book` makes Market's tables of
the rows, with no fee and no cost basis, and no offer that is all-or-nothing or
expires. It is claimed of connections that are not shared, and as long as
nothing with a mark has been committed. A resolution beside which orders run is
not a `Settle`: it may leave a position that an order has made since. `PaysOnce`
says what it is: each position is closed, and its holder paid if it wins, for the
units in the table at the commit, or it is left alone, and as many FIXED units are
closed as UNFIXED ones. Where there are no orders, every position is
closed (`PaysAll`).

**Web** adds the order in the browser's cookie (`form`) and the last order
posted (`asked`). Every handler is an action that conjoins one of Session's:

| Code (`webapp.py`) | Actions |
|---|---|
| `get_user`, pages that only read | `GetUser`; `NobodyKnown` for a visitor without a login |
| `/`, `/offers`, `/issue/<iid>`, `/offer/<iid>` | `ListingPage`, `OfferPage` (shows the cookie's order) |
| `agent_user`, `/issues`, `/webhook` | `OtherRequest` |
| `POST /offer` | `PostTyped`, `PostMatch`, `PostOffset`: the checks of `OfferForm` and of lines 400-408, then `PlaceOrder` |
| `POST /match`, `POST /offset` | `Match`, `Offset` (`Position.offset`) |
| `POST /cancel`, `POST /resolve` | `CancelOwn`, `PostResolve` |

One browser's cookie is followed at a time; the accounts' other requests run
between its own. What the forms do to a price (`Valid`): `NumberRange(0.001,
0.999)` compares a `Decimal` with a float, so that 0.001 and 0.999 themselves are
refused; but a price of four places, 0.0015, passes and is cut off to 1. The
buttons show three places, hence their prices are 2 to 998: an offer at 1
millitoken has an Accept button, and what it posts is refused. (No offer of the
instance is at 1, for TLC would need more than its time; the theorems hold for
every price.) `POST /resolve` looks no more at the date than `resolve` does; only
the list of links to it does (`PostResolve`). A user whose balance is zero is redirected by `get_user`, hence cannot
cancel (`Funded`). The balance check asks for the FIXED price on both sides
(`Affordable`), so it declines UNFIXED orders that could be paid, and lets pass
some that end in `CHECK (balance >= 0)`. The `abort(403)` for a visitor without a
login is not reached, since `lookup_user` recurses until `RecursionError`.

**Processes** interleaves SQL statements. A row is `<<table, key, key>>` with a
number; `work[k]` are the rows connection k has written and not committed: its
own SELECTs see them, nobody else's do (READ COMMITTED), and a statement that
needs one waits (`Blockers`). The local variables of a handler, read before and
used after a statement, are the fields of `job[w]`. Ids of accounts come from a
sequence, so that a new account is one nobody has (`Unused`); `NumAccounts`
bounds how many there can be. The known users start with an account each, the
offers in the book and the positions are theirs, and the positions of each contract
type pair up (`StartAssumption`); no two offers match, for `place` would have
matched them (`BookAssumption`).

Time is `early`, the connections to which the contract types have not matured.
NOW() is when a transaction began, and `get_user`'s SELECT may have begun one, so
that `Mature` may come while orders are under way and leaves any of the
connections with an open transaction behind the date. Such a connection goes on
placing orders until its transaction ends (`Ends`): after the date, beside
resolutions, and on positions that these have read. Nothing in `offer.py` or
`contract.py` keeps an order from a resolution, and nothing keeps a resolution from
coming before the date. What does end with the date are INSERTs, of offers and
positions, which the trigger refuses (`InsertOffer`, `InsertSide`). An order takes
its candidates by price, then age (`Rank`). A position has an id of its own
(`IdRow`), by which `resolve` deletes it: a position that was traded away and made
anew is another one (`SameId`). The lists of `cleanup` are read one after the
other, and an offer that comes twice makes the second visit raise (`Clean`,
`SweepRaises`).

| Code | Actions |
|---|---|
| `ContractType.lookup` | `Lookup`: `ON CONFLICT DO UPDATE` locks the row |
| `Offer.place`: SELECT, `reduce_offer` | `Match`, `ReadOffer`, `Refund`, `Shrink` |
| `make_contract`, `persist_side` | `ReadSide`, `InsertSide` or `UpdateSide`, twice; `DebitFixed`, `DebitUnfixed` |
| `make_offer` | `Rest`, `InsertOffer` |
| `cancel` | `ReadOffer`, `Refund`, `Shrink` |
| `filter`, `_do_expire`, `cleanup` | `Find` or `Filter`, `Clean`, then the same for each offer; `SweepRaises` |
| `resolve` | `Resolve`, then five transactions, each with its `Commit`: `Lookup`, `Find`, `Filter` ("resolve"); `Clean` ("clear"); `Pick`, `PayWinner`, `DeletePosition` ("pay"); `Find`, `Filter` ("final"); `Clean` ("last") |
| `lookup_user`, `Account.lookup` and `persist` | `LogIn`, `FindUser`; `CreateAccount` or `SaveAccount`; `Upsert`, `TakeName` (one statement, two indexes); a refused one starts again from `FindUser` |
| `flush`, `commit` | `Commit`; `Aborted` on a transaction that another thread lost |
| PostgreSQL's deadlock detector; a process dies; the date passes | `DeadlockDetected`, `Crash`, `Mature` |

`Deployments` says which workers share a connection: each its own under Apache,
all one under waitress. `conf/wsgi.conf` has no `WSGIDaemonProcess`, so how many
threads an Apache process runs depends on its MPM; with more than one it behaves
as waitress does. What TLC finds:

- *Orders alone are safe.* `lookup`'s upsert locks the row of the contract type
  until the order commits, and the foreign keys of `offer` and `message` wait
  for it, since it updates a key column. Orders on one contract type take turns
  without anybody having written a lock. `OrdersSerialise` says so, and its
  mutant replaces the upsert by a SELECT.
- *Everything together loses tokens in four ways and no other* (`Accounted`): a
  cancel or an expiry that waits behind a fill and then refunds the quantity it
  read ("offer"); `Account.persist`, which writes back the balance it read
  ("balance"); `resolve`, which deletes a position that an order has changed since
  it was read and paid, or the other way round `persist_side`, which writes over
  one ("position"); an operation that raised, whose statements a later request
  commits ("raised": half an order, or half a sweep, though the repository's
  README says that the whole transaction fails). `marks` and `spoiled` record
  these reasons. That the total of `resolve` is zero does not exclude the third:
  it adds up what it read. A position of +1 read while an uncommitted order makes it
  +2, against one of -2 read after, and a third of +1 that a second order made: the
  total is 0, and one unit has not been paid. TLC finds this if `DeletePosition`
  sets no mark.
- *A resolution pays for what it deletes, once* (`PaysOnce`), two of them and
  orders included, if nothing stale was committed: the row it deletes is locked
  until the commit, and was what it had read. An order that closes out a position
  and opens another between two statements of the resolution leaves this one
  without a row to delete; that is marked too.
- *An account stays with its user* (`AccountsKept`), unless two first logins of
  one user overlap ("login"): the upsert of the later one points the user to its
  own account, and what was traded on the other in between is out of reach. TLC
  finds that case too, with a position on the account that is left behind.
- *Users who want each other's names* deadlock on the indexes of `userid`, and
  one who wants a name that is taken is refused until `lookup_user` has called
  itself as often as Python lets it (`Rounds`); every round rolls back whatever
  else is on the connection, which under waitress may be another's order.
- *Every request ends* (`Finishes`), given that a process whose request raised
  serves a page some time later: until then its locks stay.

**Registry** has the dates (a maturity is identified by its day), the issues,
the contract types, and the rows that foreign keys protect. Days are counted
from the Monday of ISO week 1.

| Code | Actions |
|---|---|
| `make_upcoming`, when a server starts | `Start`, `SelectDate`, `InsertDate` (which may raise `UniqueViolation`), three times |
| `ContractType.lookup` in an order | `OrderTrades`, `OrderRefused`, `OrderRaises` |
| `Issue.persist` from `/webhook` and `/issues` | `Webhook`, `AddIssue` |
| `/resolve` | `ResolvePage`, `PostResolve`, `Pay` |
| `Market.cleanup` after `Offer.cleanup` | `DailyCleanup`, `DeleteType`, `DeleteDate`, `DeleteIssue`, `NextPart` |
| `get_user`, `filter` | `Page` |
| a process ends; GitHub; the network | `Die`; `Event`; `Lose` |

An order's date may have passed: `available` and the trigger compare it with the
NOW() of a transaction that may have been open for days. `OrderTrades` takes any
date that has a row, which is more than the code can do.

Things worth knowing that the model shows. Dates are two weeks apart, except over
the end of a year of 53 ISO weeks, where the gap is 21 days (`Fortnightly`);
`test.py:198-200` asserts 14 days, which is the finding `LongYear`. A server that is never restarted runs out of
dates four weeks after its start at the earliest (`DateAhead`). A delivery to a
process whose transaction has failed is answered "OK" and lost. `AddIssue` on
the URL of a closed issue opens it again (`issue.py:158`).

### What the models leave out, and why that is sound here

- Session and Web are one process. `DailyCleanup` begins when the server is
  between two operations, on a fresh connection. Their properties are claimed of
  one process; what is lost with several is what Processes says.
- Processes has no cost basis, fee or all-or-nothing offer: none decides which
  rows are read, written or locked. Only those UPDATEs and INSERTs that wait or
  go wrong are told apart. Messages are reduced to the contract types whose rows
  their INSERT needs.
- Registry begins after `Offer.cleanup` has returned: an offer that stops the
  clean-up is the finding `Cleanup`. Its clock moves in weeks while nobody is in
  the middle of a request. Titles of issues are left out, for they are written
  with the status.
- An id that a failing INSERT skips is not modelled; ids keep their order.
- `ORDER BY created` is the order of ids: `created` is NOW() of the
  transaction, and on one connection transactions follow one another.
- Time passes only between operations (`Tick` requires `Quiet`): days matter
  here, not milliseconds within a request.
- In Session, `ContractType.cleanup`, `Maturity.cleanup` and `Issue.cleanup` are
  no more than the open or closed transaction they leave (`ResolveDone`); what
  they delete is Registry's subject.
- `Resolve` has no guard on maturity, as neither `ContractType.resolve` nor the
  handler of `POST /resolve` has one.
- A failed connection refuses everything but `lookup_user`, which rolls back.
- The fee is `round(x * 0.1 / 1000)` in floating point; the model rounds the
  exact quotient half to even, which is what Python's `round` does.

## Runs

Balances are millitokens, so that 1500 affords two units at 600 but not three.

| Run | Instance | Result |
|---|---|---|
| `Trade` | 2 accounts, 1 contract type, 4 orders of size 1 or 2 at 400 or 600 on either side, all-or-nothing at size 2 | 1.4 million states; all ten properties hold |
| `Life` | 2 accounts with ample balances, a public and a private contract type maturing at 1, expiring offers, 4 orders | 0.8 million states; all eight properties hold |
| `Daily` | 1 contract type, 3 orders, fairness | 9 thousand states; `MaturedOffersLeave` holds |
| `Takers` | 2 workers, 5 accounts, 2 contract types, 3 offers in the book and 2 positions on each contract type, 7 orders and 4 logins to come, in seven deployments (below) with 2 to 4 requests and at most 1 crash | 0.3 million states; all eight properties hold |
| `Upkeep` | 6 small instances, each of which lets one part grow (below) | 0.4 million states; all six properties hold |
| `Requests` | 2 accounts, 1 contract type maturing at 1, 5 orders, clock to 2, `MATCH_OWN_OFFERS = FALSE` | 2.4 million states; all four properties hold |
| `LateOffer` | one order | an offer is stored after maturity |
| `LateContract` | 4 orders at one price | a contract is formed after maturity |
| `Ghost` | an order larger than its balance | messages of a contract that never was |
| `Cleanup` | offers that expire and mature together | the cleanup dies |
| `LongYear` | the instances of `Upkeep` | two dates of one start-up are 21 days apart |
| `Race` | two threads that only place orders | half an order is committed |

The bounds are the smallest at which the cases meet. Two accounts are enough to
be both sides, the same account on both sides, and a third party's absence is
covered by the proofs, which hold for any number. Four orders are enough for an
order that takes two candidates and is then offset, or for two orders that make
a position and two that trade it away after maturity. Two sizes and two prices
give partial fills, exact fills, skipped all-or-nothing candidates and a price
that improves on the resting one. One tick is before and after maturity. In
`Trade` maturity is at 0 and the clock reaches 1, so both sides of the trigger
occur. Deadlock is checked in every run: some operation is always possible,
because `Restart` is.

`AuditTrail` holds in `Life` and is violated in `Ghost`. The difference is the
instance: in `Life` no debit fails in the middle of an order, in `Ghost` one
does. The first shows that the sweeps and `resolve` keep messages and positions
in step through every crash, the second that `place` does not. `MessagesFollow`,
which `Trade` checks, is about single statements: what accounts have been told,
and are about to be, moves with their positions, but for a refused statement and
the end of a process.

In `Takers` two of the orders want the same offer, and the two accounts meet
the other way round on the second contract type: stale quantities, positions
written twice and circles of account rows all occur (with the lock of `lookup`
removed, TLC finds the lost fill at once). Account 1 affords one of its orders
and not both, so debits are refused too. Three requests are enough for two that
race and one that commits what a third left. `Apache` has orders, cancels, pages
and a rename. `Oracles` has two resolutions of one contract type, which need not
agree, and cancels around the date. `Hurry` has a resolution beside three orders of
one worker, before the date or on a transaction from before it: they fill the
offer and one another, so that a position is read at +1, paid, and deleted at +2, and
others come and go meanwhile. `Selves` has an order that trades with an offer of its
own account, whose position is deleted and inserted again under another id.
`Waitress` and `AgentThreads` have one connection. In the instances `Agents` and
`AgentThreads` a user is new, with a starting balance, two users want one name,
and two each other's; `lookup_user` gives up after two rounds, which is enough
for one that fails and one that finds the tables changed. With threads TLC checks types and
`Finishes`; the rest is refuted by `Race`.

The instances of `Upkeep` begin on the Friday before an even Saturday late in
the year. `Winter(52)` and `Winter(53)`: two servers start and stop over nine
weeks, into the new year. `Trading`: an issue and a contract type live longer
than the four weeks and the date that make them old. `Returning`: an issue is
cleaned up and entered again. `Serving`: two processes use one contract type
around its date, and one of them leaves a transaction open. `Reporting`: two
deliveries, two processes, any order. One instance with all of this at once is
out of TLC's reach, and the parts meet in foreign keys only.

In `Requests` the prices are those the buttons can make: 300 and 401 typed; 350
and 351, what two units cost on average, and 649, the same seen from the other
side.

`Daily` assumes weak fairness of the steps of an operation in progress (the
interpreter runs on), strong fairness of `DailyCleanup` (cron starts it every
day, and it needs only that the market is between operations again and again),
and that crashes end (`<>[][~ Restart]_vars`; a restart sets `raised` to
"killed", which no other step does, so a cleanup with nothing to do does not
count as one). Its offers never expire, since an offer that both expires and
matures stops the cleanup for ever: that is the finding of `Cleanup`.

`Takers` assumes weak fairness, for each worker, of its next statement (the
interpreter and the server run on), of `DeadlockDetected` (PostgreSQL's
`deadlock_timeout`) and of `Page`, which is enabled while a connection holds a
transaction that no operation is using: traffic goes on. Without the last a
process that raised could keep its locks for ever, and the code has nothing
against that.

`Upkeep` assumes that start-ups and clean-ups run on, that cron starts the daily
job, that each process is asked for a page now and then, and that time passes.
Fairness is strong for `Cleaning` and `Starting`, since a DELETE waits for a row
that another process locks again and again and PostgreSQL serves the waiting
ones in turn, and for `Tick`, which needs a moment when nothing is under way.

## Findings

Each is stated, with the line it contradicts, under "findings" in
`PROJECT.json`.

1. `schema.sql:16` forbids offers after maturity; the trigger compares with the
   NOW() of a transaction that `get_user` may have opened before (`LateOffer`).
2. `test.py:428` forbids contracts after maturity; the trigger sees INSERTs
   only, and a trade between holders of positions needs none (`LateContract`).
3. `message.py:119` promises messages only for transactions that go through; a
   failed `place` leaves its messages in the list (`Ghost`).
4. `offer.py:470` promises that matured offers are removed; the list of ids can
   name one twice, and the second look-up raises (`Cleanup`).
5. `test.py:198-200` asserts, on whatever day it runs, that the dates of one
   `make_upcoming()` are 14 days apart; a server (and the test) started in the
   weeks before the end of a year of 53 ISO weeks gets two that are 21 days apart
   (`LongYear`).
6. The repository's README promises that the whole transaction fails on an error.
   Under waitress a commit by one thread commits the half-done order of another,
   whose next debit may be refused (`Race`).

## Theorems

TLC checks two accounts and four orders. The proofs hold for every number of
accounts, contract types and orders, every set of trades and every initial
balance (`TablesAssumption`, `SessionAssumption`: the constants have their
types).

- `SumsTheorems`: a sum over 1 .. n exists, changes by the difference when one
  entry changes, is the difference of two sums entry by entry, and is zero when
  every entry is. The induction is over a set of lengths.
- `TablesTheorems`: for each operator of Tables, the types it preserves, what it
  does to the total of tokens, and what it does to the units of both sides. The
  heart is `MakeContractEffect`: what the two sides are charged is 1000 for each
  unit that is newly open, less 1000 for each unit that one of them covers.
- `SessionProofs`: `Spec => []IInv`, and from it `TypeCorrectness`,
  `Conservation`, `Pairing` and `NoRuntimeError`; with `ToldInv`, `ToldTogether`,
  `AuditedUnlessHaunted` and, with `ReportInv`, `PaymentsReported`; and
  `Spec => [](IInv /\ TradeInv)` (`TradeInvariance`), and from it `UncrossedBook`, `BestFirst`, `WholeOrNot`,
  `NobodyElsePays`, `PaidWhole` and `CleanedUp`.
- `MarketProofs`: `Refinement`, which is `Spec => KeepsPromise`.
- `WebProofs`: what is proved of Session holds of the site (`SiteSafe`,
  `SiteKeepsPromise`), as each handler is one of Session's operations; and with
  `WebSpec => [](IInv /\ TradeInv /\ WebInv)` what the checks of the handlers
  add: `CookieTypes`, `FormSuffices`, `AcceptedTrades` and `PositionCloses`.
- `RegistryProofs`: `RegistryTypes`, `DatesFortnightly`, `SupplyLasts`,
  `ForeignKeys`, `PageStands` and `WebhookFollows`, for any number of servers,
  issues and years.
- `ProcessesProofs`: `ProcessesTypes`, `LoginsKeepAccounts`, `TokensAccounted` and
  `OrdersTakeTurns`, for any number of workers, connections, users and requests.
- `PromiseProofs`: of the same, `DealtInvariant` and from it
  `ProcessesKeepPromise`; `SettlingInvariant` and from it `ResolutionPaysOnce`.

`Conserved` and `ZeroSum` speak of `db` and are not inductive: a commit copies
`tx` to `db`. `IInv` therefore says the same of `tx` (`LedgerInv`), but while
`resolve` pays, `tx` does *not* balance: a paid winner's stake is gone while the
loser's position is still there. `PayInv` says what does hold: counting the
units of the winning side as the stakes, the tokens still add up, and the units
still open plus the units paid are zero. It is `EitherSideCounts` that passes
from one way of counting to the other when paying begins and ends. `StageInv`
and `IdsInv` say which operation is in progress and that the id of a new offer
is free. The same invariant yields that the `RuntimeError`s of `reduce_offer`
and of `resolve` ("Total is always 0") are unreachable. TLC was first made to
check `IInv` on the instances `Trade` and `Life`.

`ToldInv` is what `MessagesFollow` needs besides: only a flush writes the message
table, no position is written but by an order or a payment in progress, and a
refused statement leaves the committed tables. A `contract_resolved` does not move
with the position, for it reports tokens after a fee to one side and units to the
other; what the payment of a position does instead is to close it, and to tell the
holder just what its balance has grown by (`ToldClosed`). What is told of *after*
it has to add up again. `AuditTrail` itself is not a
theorem, since an order that is refused after its first contract leaves ghosts
in the list (`Ghosts`: a failed transaction and a list that is not empty).
`AuditedUnlessHaunted` is that nothing else breaks it: `Spec /\ [](~ Ghosts) =>
[]AuditTrail`, whatever raises, dies or is retried. The invariant behind it
(`Truthful`) says of the open transaction and the list what `AuditTrail` says of
`db`. `ReportInv` is what `ResolutionsReported` needs: except while `resolve` pays,
the list announces no payment and the transaction has taken no fee; while it pays,
what the list announces and the fees of the transaction add up to 1000 for each unit
that won among the positions closed so far, less 1000 for each that lost, and so to
nothing when the total is zero.

`TradeInv` is what a statement in the middle of an operation must know of the
ones before it. `SinceInv` compares the open transaction with the committed
tables: outside an order it only refunds and pays out, an order charges nobody
but its trader, offers only shrink, and all-or-nothing ones only leave whole.
`RowsInv` says of a candidate that is no longer in `rows` that the order cannot
fill it. `TablesInv` says that neither table holds two offers that would have
traded, nor a position of no units. `SweepInv` says that what is overdue is in
the queue of a cleanup that has begun. Price-time priority is stated of the open
transaction (an order takes no unit of an offer while a better one that lives
at its NOW() is left in `tx`). Of the committed tables it would be wrong for a
reason that has nothing to do with priority: a commit can also carry what a
failed sweep took out of the book before the order began.

`DealInv` is the invariant of the refinement: what the open transaction has done
to `db` so far is already one deal of the abstract market, or the beginning of
one. Outside an order it has withdrawn offers (`BetweenInv`). During an order it
has exchanged the units that the order lacks, with every offer it used up gone
from the book (`SellingInv`). While `resolve` pays, each account has been paid or
is as it was, and nothing else has changed (`PayingInv`). All three are said of
`db` and `tx` with the relations of Deals, which compose: a withdrawal after a
withdrawal is one, a fill after an exchange is an exchange. A commit is then a
step of Market, or leaves `db` as it is, and no other step changes `db`. The
charge of a contract has to be said for each account here (`FairAt`), not only
of the total as in `MakeContractEffect`.

`WebInv` ties an order in progress to the request that posted it. `PlainInv`: no
order of the site is all-or-nothing or expires. `AskedInv`: what is left of the
order was posted, its contract type has not matured at the transaction's NOW(),
and the trader has what the rest of a FIXED order costs; this is why one check of
the form is enough for many debits. `AcceptInv`: an order that accepts an offer
has a candidate left with all it needs, since whatever is ahead of that offer
takes units of the order too. `OffsetInv`: the order that ends a position lacks
as many units as the position has left, and its balance and what these are
worth at the order's price stay together. TLC was first made to check `WebInv` on
`Requests`.

`RegistryProofs` has five invariants. `Dates`: all dates are alike modulo two
weeks, at most one end of a year of 53 weeks is in view, since 371 days are 53
weeks, and no date is further than nine weeks away. `Lasting`: the third date of
the last complete start-up is more than four weeks ahead of it, and a cleanup
lists only days that have come. `Rows`: foreign keys hold, rows of open
transactions included, and a process that cleans up has no such row of its own.
`Reports`: the last delivery on the wire carries the tracker's state. `Columns`:
types, messages and positions have a contract type, and a pair of issue and date
is one contract type's, the rows of open transactions counted, since a unique
index counts them as well.

`ProcessesProofs` has four invariants. `Types` says of every statement a worker
can be about to issue what its local variables are, and that no row written, or
about to be, is below zero. `Kept` is about who may write what, and holds where
connections are not shared. `AccountsKept` speaks of committed rows and of users
only; what makes it inductive is the row locks. `Ownership` says for each worker
that a failed connection holds no row; that no two transactions have written one
row (names are left out: the upsert gives up all names a user has had, and
`AccountsKept` does not need them); that the owner of every offer that rests or
has been asked for has an account, so that no refund makes one; and at each statement of a login,
what the transaction has written so far (the account that is new or was found,
the user's row, its name), and that with no mark "login" the user's row has not
changed since it was read. `OneUserEach` is then the property, with the account
that each user of the start still has.

`Reckoned` is the invariant for `Accounted`, and holds where connections are not
shared. It says of each worker what the tables would contain if its transaction
were committed now (`Laid`): as many tokens as are committed, and what it owes
(`Owed`), and for each contract type as many FIXED units less UNFIXED ones, and
those it has not paired yet (`Unpaired`). Both are functions of the statement the
worker has come to and of its local variables: before the offer shrinks, the
refund; between the two positions, the price of one side and the units of the
other; then the two debits; before the new offer is stored, its price; after a
new account, its balance; while `resolve` pays, what it has added up so far. At a
commit nothing is owed but the balance of a new account (`CommitOwes`), and
since no two transactions have written one row (`Ownership`) a commit leaves what
the others owe as it was (`OrderlyCommitted`). A position that was read need not be
what it was when it is written, for a resolution takes no row of the contract type
once its first transaction has ended, and an order has that row and not the
positions. So no invariant says that it is. `Owed` says what the transaction
owes if the row is what was read, and a statement that finds another value, or no row
with the id it read, leaves a mark; from then on nothing is claimed of this
transaction. What was deleted or written over as it was read is locked until the
commit. `Grounded` holds whatever is marked: an order has the row of its contract
type from the lookup to the commit, and who has a position has an account, so
that `PayWinner` finds its row. Worker by worker `AddsUp` holds as long as no mark
says why it might not, and all of it as long as nothing marked has been committed.
Neither needs to know what time it is: orders and resolutions may come before
the date or after it.

`Ordered` is the invariant for `OrdersSerialise`, and holds where connections are
not shared and nothing but orders has been asked for. From the upsert of
`ContractType.lookup` to its commit an order is the only one on its contract
type. `Turn` says what it has by that: it has written offers of that contract
type only; the rows that it goes through are all its rivals, and have the
quantities it found but for the one that it is taking units of (`Before`); and
when it stores its own offer no rival is left. So `reduce_offer` never meets a
quantity that has changed, and a commit leaves a book in which no two offers
match, as it was at the start (`BookAssumption`). That tokens and pairs are
whole then follows from `Reckoned`, since nothing is ever marked. TLC was first
made to check `Types`, `Kept`, `Reckoned` and `Ordered` on the instance `Takers`.

`PromiseProofs` cannot do as MarketProofs does, where the open transaction and
`db` differ by one deal: here others commit while a transaction is open, so `db`
is not what it began with, and a relation between the two whole tables is lost
at each of their commits. `Dealt` therefore compares row by row. A row that the
transaction has written nobody else can write (`Ownership`), and of the others
it has no opinion: `Laid` gives them the committed value on both sides. Then a
commit of another transaction changes both sides of the comparison alike.
`Dealing` says for each statement what the difference is. `Selling`: the order
has taken units of offers that cross it, and positions, balances and escrow have
moved by what those units are and the place in the code makes of them.
`Withdrawing`: whole offers are gone and their owners have back what they had
set aside. `LocksOnly`: rows are locked, and none has changed. Nothing is half
done at a commit, so that what is left there is `Trade` or `Withdraw` of Market.
That this holds needs `Reckoned` (what an owner is owed) and that the transaction
has no mark.

`SettledSoFar` does the same for resolutions (`PaidUp`). It says who has been
paid: the holders of the positions that this transaction has deleted, for what is
committed in those rows, and between the UPDATE of the balance and the DELETE the one
being paid, for what was read (`PrizeOf`); and that it has written nothing but these
and the balances (`Closed`). The rows it has deleted are its own until it ends, so
that a commit of an order or of another resolution does not change what is in
them; if it changes the one that is being paid, or takes it away, the DELETE finds
out and leaves a mark. At a commit the total is zero (`Picked`), and so as
many FIXED as UNFIXED units are closed. That *every* position is closed is not
said, and is not so where an order makes one after the last SELECT has come back
empty; of two resolutions alone `PaysAll` says it. TLC was first made to check
`Dealt` on the instances `Apache` and `Agents`, and `SettledSoFar` on `Takers`.

Only model-checked is liveness (`MaturedOffersLeave`, `Finishes` and
`UnusedLeaves`), which is out of the prover's reach under fairness, and one safety
property, `PaysAll`.

## Plan

What is left: cost basis in Processes, when TLC can carry it.

Not modelled: `project` (a table nobody writes); message texts and their
rendering; OAuth; `fund_test_users`, `timejump`, `localuser` and `fakeissue`,
which exist for development; graphs (`graph.py`), `pricing.py` (not called),
`export.py`, templates and static files; deployment, but for how many processes
and threads it starts. They read, or they hold no state of the market.
