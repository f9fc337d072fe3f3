---- MODULE Web ----
(***************************************************************************)
(* The request handlers of webapp.py that trade, over one Session: what    *)
(* the forms check before the Market operation runs, and the orders that   *)
(* the Accept and Trade buttons write into the user's cookie.              *)
(*                                                                         *)
(*   form   the order in the cookie: which button made it, from which      *)
(*          offer, and whether the offer page has been shown with it       *)
(*   asked  the last order posted: the order, what made it, whether what   *)
(*          it was made from is still there (sure), and for an offset the  *)
(*          balance that would make it "no gain or loss" (due)             *)
(*                                                                         *)
(* A handler starts with get_user(), which is a SELECT and no more unless  *)
(* the transaction has failed; so a handler is the action GetUser where    *)
(* that is so, and the action below.  Handlers that run another SELECT     *)
(* first raise on a failed transaction and change nothing.                 *)
(*                                                                         *)
(* One browser's cookie is followed at a time.                             *)
(***************************************************************************)
EXTENDS Session

CONSTANTS
    Typed,      \* the orders users type in
    Oracle,     \* accounts whose oracle column is set
    MATCH_OWN_OFFERS    \* the switch of this name in config.py

ASSUME WebAssumption ==
    /\ Typed \subseteq {o \in Trades : ~ o.aon /\ o.expires = Never}
    /\ Oracle \subseteq Account
    /\ MATCH_OWN_OFFERS \in BOOLEAN

VARIABLES form, asked

webVars == <<vars, form, asked>>

NoForm == [by |-> "nobody", order |-> NoOffer, source |-> 0, shown |-> FALSE]
NotAsked == [by |-> "nobody", order |-> NoOffer, sure |-> FALSE, due |-> 0]

WebInit == Init /\ form = NoForm /\ asked = NotAsked

(* A user the pages work for: get_user() redirects when the balance is 0,  *)
(* and the handler then raises on the redirect.                            *)
Funded(a) == tx.balance[a] # 0

(* A SELECT with nothing to commit, in the open transaction or a new one.  *)
Reads == IF status = "open" THEN UNCHANGED vars ELSE LookupUser

(***************************************************************************)
(* Pages.                                                                  *)
(***************************************************************************)
(* get_user() for a known user; and all there is to a page that only reads *)
(* (result, history, graph, ticker, the resolve form).                     *)
GetUser == LookupUser /\ UNCHANGED <<form, asked>>

(* Pages that list offers: /, /offers, /issue/<iid>. *)
ListingPage(a) == Funded(a) /\ ListOffers /\ UNCHANGED <<form, asked>>

(* GET /offer/<iid>: the offer form, filled in from the cookie. *)
OfferPage ==
    /\ form.by # "nobody"
    /\ Funded(form.order.account)
    /\ ListOffers
    /\ form' = [form EXCEPT !.shown = TRUE]
    /\ UNCHANGED asked

(* A login that writes the account; an issue added or a webhook answered.  *)
OtherRequest == PersistOther /\ UNCHANGED <<form, asked>>

NobodyKnown == LookupNobody /\ UNCHANGED <<form, asked>>

(***************************************************************************)
(* POST /offer                                                             *)
(***************************************************************************)
(* NumberRange(0.001, 0.999) compares a Decimal with a float: 0.001 is too *)
(* small for it and 0.999 too large.  A typed price may have more places,  *)
(* and int() cuts them off: 0.0015 is one millitoken; the field shows a    *)
(* button's price with three.  The maturity is one of the choices, read    *)
(* with the NOW() of the transaction.                                      *)
Valid(o, by) ==
    /\ o.price \in (IF by = "typed" THEN 1 ELSE 2)..(Unit - 2)
    /\ Clock < Matures[o.ct]

(* A mutant: the price of one unit. *)
AffordableUnit(o) == o.price <= tx.balance[o.account]

(* The price of the FIXED side, whatever side the order takes. *)
Affordable(o) == o.price * o.quantity <= tx.balance[o.account]

PostOffer(o, request, cookie) ==
    /\ o \in Trades           \* the bound on orders
    /\ Valid(o, request.by)
    /\ Funded(o.account)
    /\ Affordable(o)
    /\ PlaceOrder(o)
    /\ asked' = request
    /\ form' = cookie

(* The handler saves the fields in the cookie, over what a button put there. *)
PostTyped(o) == PostOffer(o, [NotAsked EXCEPT !.by = "typed", !.order = o], NoForm)

(***************************************************************************)
(* POST /match and POST /offset: an order for the cookie.                  *)
(***************************************************************************)
Order(a, c, side, price, n) ==
    [account |-> a, ct |-> c, side |-> side, price |-> price,
     quantity |-> n, aon |-> FALSE, expires |-> Never]

Other(side) == IF side = FIXED THEN UNFIXED ELSE FIXED

(* A mutant: the side of the offer itself. *)
MatchingSame(a, o) == Order(a, o.ct, o.side, o.price, o.quantity)

(* The order of account a that takes all of offer o. *)
Matching(a, o) == Order(a, o.ct, Other(o.side), o.price, o.quantity)

MatchButton(a, o) == MATCH_OWN_OFFERS \/ o.account # a

Match(a, i) ==
    /\ Quiet
    /\ status # "failed"
    /\ Exists(tx, i)
    /\ MatchButton(a, tx.offer[i])
    /\ form' = [by |-> "match", order |-> Matching(a, tx.offer[i]),
                source |-> i, shown |-> FALSE]
    /\ Reads
    /\ UNCHANGED asked

(* Millitokens paid per unit, as int() cuts it. *)
PaidPerUnit(h) == h.basis \div Abs(h.quantity)

(* A mutant: the price of an UNFIXED position is not turned round. *)
OffsettingUnturned(t, c, a) ==
    LET h == t.position[c][a]
    IN  Order(a, c, IF h.quantity > 0 THEN UNFIXED ELSE FIXED,
              PaidPerUnit(h), Abs(h.quantity))

(* A mutant: the quantity keeps its sign. *)
OffsettingSigned(t, c, a) ==
    LET h == t.position[c][a]
        fixed == h.quantity > 0
    IN  Order(a, c, IF fixed THEN UNFIXED ELSE FIXED,
              IF fixed THEN PaidPerUnit(h) ELSE Unit - PaidPerUnit(h), h.quantity)

(* Position.offset *)
Offsetting(t, c, a) ==
    LET h == t.position[c][a]
        fixed == h.quantity > 0
    IN  Order(a, c, IF fixed THEN UNFIXED ELSE FIXED,
              IF fixed THEN PaidPerUnit(h) ELSE Unit - PaidPerUnit(h),
              Abs(h.quantity))

HasPosition(t, c, a) == t.position[c][a].quantity # 0

(* Offer() asserts that the price is one. *)
Offset(a, c) ==
    /\ Quiet
    /\ status # "failed"
    /\ HasPosition(tx, c, a)
    /\ PaidPerUnit(tx.position[c][a]) \in Price
    /\ form' = [by |-> "offset", order |-> Offsetting(tx, c, a),
                source |-> 0, shown |-> FALSE]
    /\ Reads
    /\ UNCHANGED asked

(* The offer the button was on is there as it was. *)
SourceStands ==
    /\ Exists(tx, form.source)
    /\ Matching(form.order.account, tx.offer[form.source]) = form.order

(* The position is the one the button was on, and the account would not    *)
(* trade with itself.                                                      *)
PositionStands ==
    LET o == form.order
    IN  /\ HasPosition(tx, o.ct, o.account)
        /\ Offsetting(tx, o.ct, o.account) = o
        /\ \A i \in Candidates(tx, o, Clock) : tx.offer[i].account # o.account

PostMatch ==
    /\ form.by = "match" /\ form.shown
    /\ PostOffer(form.order,
                 [NotAsked EXCEPT !.by = "match", !.order = form.order, !.sure = SourceStands],
                 form)

PostOffset ==
    LET o == form.order
    IN  /\ form.by = "offset" /\ form.shown
        /\ PostOffer(o,
                     [by |-> "offset", order |-> o, sure |-> PositionStands,
                      due |-> tx.balance[o.account] + tx.position[o.ct][o.account].basis],
                     form)

(***************************************************************************)
(* POST /cancel and POST /resolve                                          *)
(***************************************************************************)
(* Offer.cancel checks the owner; without a balance there is no user. *)
CancelOwn(i) ==
    /\ Funded(tx.offer[i].account)
    /\ Cancel(i)
    /\ UNCHANGED <<form, asked>>

(* The page lists what has matured and is held, and the handler does not   *)
(* look whether that is still so.                                          *)
PostResolve(a, c, side) ==
    /\ a \in Oracle
    /\ Funded(a)
    /\ Resolve(c, side)
    /\ UNCHANGED <<form, asked>>

(***************************************************************************)
(* The whole.                                                              *)
(***************************************************************************)
(* The rest of an operation; the daily job, a crash, time.  The cookie is  *)
(* the browser's.                                                          *)
Operation == OperationStep /\ UNCHANGED <<form, asked>>
Environment == (DailyCleanup \/ Restart \/ Tick) /\ UNCHANGED <<form, asked>>

WebNext ==
    \/ GetUser \/ NobodyKnown \/ OtherRequest \/ OfferPage
    \/ PostMatch \/ PostOffset
    \/ \E o \in Typed : PostTyped(o)
    \/ \E a \in Account :
          \/ ListingPage(a)
          \/ \E i \in OfferId : Match(a, i)
          \/ \E c \in ContractType : Offset(a, c) \/ \E side \in Side : PostResolve(a, c, side)
    \/ \E i \in OfferId : CancelOwn(i)
    \/ Operation \/ Environment

WebSpec == WebInit /\ [][WebNext]_webVars

(***************************************************************************)
(* Properties.                                                             *)
(***************************************************************************)
WebTypeOK ==
    /\ form \in [by : {"nobody", "match", "offset"}, order : OfferRow,
                 source : 0..MaxOrders, shown : BOOLEAN]
    /\ asked \in [by : {"nobody", "typed", "match", "offset"}, order : OfferRow,
                  sure : BOOLEAN, due : Nat]

(* The form's checks before place_order (webapp.py:400-408) suffice for a  *)
(* FIXED order, however it is matched, and against the maturity for all:   *)
(* the schema's CHECK and trigger refuse only UNFIXED orders, for balance. *)
ChecksSuffice ==
    /\ raised = "Short" => asked.order.side = UNFIXED
    /\ raised # "Late"

(* An order from the Accept button of an offer that is still as it was     *)
(* when the button was pressed never comes to rest, whatever is ahead of   *)
(* that offer by then (webapp.py:447-468, offer.py place).                 *)
AcceptTrades ==
    asked.by = "match" /\ asked.sure => ~ Exists(tx, orders)

(* An order from the Trade button of a position that is still as it was,   *)
(* when others take all of it at once, ends the position; the account is   *)
(* left with its balance and what it had paid, less what int() cut off:    *)
(* "will offset your existing position with no gain or loss to you"        *)
(* (webapp.py:494-496, position.py:128-139, contract.py persist_side).     *)
OffsetCloses ==
    [][LET o == asked.order
       IN  /\ asked.by = "offset" /\ asked.sure
           /\ order.quantity > 0 /\ order'.quantity = 0 /\ raised' = "none"
           /\ ~ Exists(db', orders)
           => /\ db'.position[o.ct][o.account] = NoHolding
              /\ db'.balance[o.account] \in (asked.due - o.quantity + 1) .. asked.due]_webVars
====
