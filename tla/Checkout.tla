------------------------------ MODULE Checkout ------------------------------
(***************************************************************************)
(* The checkout of one cart: coupons, the choice of shipping, the payment  *)
(* sessions and the placement of the order (workflows/cart_*_coupon.ts,    *)
(* workflows/checkout/cod-checkout.ts, api/middlewares.ts and the two      *)
(* payment providers).                                                     *)
(*                                                                         *)
(* Requests run side by side and meet at every await.  Medusa's own cart   *)
(* and payment workflows are external: each is one step that either takes  *)
(* place or leaves everything as it was, sets the payment collection to    *)
(* the new total and deletes the sessions when that total changed.  The    *)
(* customer who pays, other customers and the promotions' administrator    *)
(* are the environment.                                                    *)
(***************************************************************************)
EXTENDS Integers, FiniteSets, FiniteSetsExt

CONSTANTS
    Requests,       \* requests that may be in progress side by side, of the
                    \* customer and, after the order, of administrators
    Items,          \* variants, one line item of quantity one each
    Eligible,       \* those with metadata.cod_eligible
    AutomaticFor,   \* sets of items that carry an automatic promotion
    Coupons,        \* manual promotion codes
    Price,          \* [Items -> Nat]
    Discount,       \* [Coupons -> Nat], what Medusa takes off for a code
    Options,        \* shipping options
    NamedCod,       \* those whose name or metadata says COD
    TypedCod,       \* those whose code or type says COD
    Fee,            \* [Options -> Nat], what an option costs
    AutoPlusManual, \* PROMO_ALLOW_AUTO_PLUS_MANUAL
    MaxSessions,    \* bounds the payment sessions
    MaxBegun,       \* bounds the requests
    MaxMishaps,     \* bounds the requests that break off and the events outside
    MaxRefunds,     \* bounds the refunds asked of the provider
    None

ASSUME CheckoutAssumption ==
    /\ Eligible \subseteq Items
    /\ AutomaticFor \subseteq SUBSET Items
    /\ Price \in [Items -> Nat]
    /\ Discount \in [Coupons -> Nat]
    /\ IsFiniteSet(Requests)
    /\ NamedCod \cup TypedCod \subseteq Options
    /\ Fee \in [Options -> Nat]
    /\ AutoPlusManual \in BOOLEAN
    /\ {MaxSessions, MaxBegun, MaxMishaps, MaxRefunds} \subseteq Nat
    /\ "none" \notin Options
    /\ None \notin Coupons \cup Options \cup {"none"}

VARIABLES
    cart,        \* items, coupons and shipping option of the cart
    collection,  \* amount of the payment collection, or None
    sessions,    \* [SessionIds -> Session], the payment sessions
    inStock,     \* items available at the warehouse
    usedUp,      \* coupons at their usage limit
    expired,     \* coupons Medusa no longer applies
    req,         \* [Requests -> Request], where each request stands
    order,       \* the order placed, or None
    payment,     \* provider data of the order's payment, or None
    errand,      \* [Requests -> Errand], captures and refunds under way
    authorized,  \* [SessionIds -> Nat], cod.authorized events
    past         \* what happened so far, for the properties (see Past)

vars == <<cart, collection, sessions, inStock, usedUp, expired, req, order,
          payment, errand, authorized, past>>

SessionIds == 1..MaxSessions

Cart == [items: SUBSET Items, coupons: SUBSET Coupons,
         shipping: Options \cup {"none"}]

\* isCodOption over what the checkout loads of an option.  The middleware in
\* front of the choice loads name and metadata only (see OptionEligible).
IsCod(o) == o \in NamedCod \cup TypedCod

Subtotal(c) == MapThenSumSet(LAMBDA i: Price[i], c.items)
DiscountOf(c) == MapThenSumSet(LAMBDA p: Discount[p], c.coupons)
FeeOf(c) == IF c.shipping \in Options THEN Fee[c.shipping] ELSE 0
Total(c) == Subtotal(c) - DiscountOf(c) + FeeOf(c)

\* What may be asked for: the totals of carts.
Amounts == {0} \cup {Total(c): c \in Cart}

\* "deleted" keeps the number of a session from being given again.
Session == [provider: {"cod", "razorpay"},
            status: {"none", "pending", "authorized", "failed", "deleted"},
            amount: Amounts]

NoSession == [provider |-> "cod", status |-> "none", amount |-> 0]

Programs == {"idle", "apply.read", "apply.add", "init.read", "init.delete",
             "init.create", "init.confirm", "shipping.set", "auth.read",
             "auth.authorize", "auth.confirm", "place.read", "place.replace",
             "place.check", "stock", "complete"}

\* x is the argument, saw the cart as it was read, amount the collection's
\* amount as it was read, todo the sessions left to delete, sid the session
\* found, and void the coupons that had run out when the guard began.
Request == [op: {"none", "apply", "shipping", "complete"}, pc: Programs,
            x: Coupons \cup Options \cup {None},
            saw: Cart \cup {None}, amount: Amounts, todo: SUBSET SessionIds,
            sid: SessionIds \cup {None}, void: SUBSET Coupons]

Idle == [op |-> "none", pc |-> "idle", x |-> None, saw |-> None, amount |-> 0,
         todo |-> {}, sid |-> None, void |-> {}]

Past == [begun: 0..MaxBegun, mishaps: 0..MaxMishaps,
         couponRace: BOOLEAN,             \* a code was added to a cart that had changed
         crossed: BOOLEAN,                \* a session was created while another request
                                          \* was about to create one
         outdated: SUBSET SessionIds,     \* created with an amount no longer true
         shared: SUBSET SessionIds,       \* authorized by two requests, or found in
                                      \* place of the one that was authorized
         late: SUBSET Items,              \* added after an option was found fit for COD
         lost: Nat]                       \* refunds carried out whose answer was lost

Payment == [provider: {"cod", "razorpay"},
            state: {"authorized", "captured", "refunded", "canceled"},
            refunds: Nat,                 \* refunds the provider carried out
            recorded: Nat,                \* refunds Medusa records
            asked: 0..MaxRefunds]

\* sent: the provider has carried out the refund that is to be stored.
Errand == [pc: {"idle", "capture", "refund.call", "refund.store"}, sent: BOOLEAN]

NoErrand == [pc |-> "idle", sent |-> FALSE]

OrderRecord == [cart: Cart, checked: Cart \cup {None}, void: SUBSET Coupons,
                provider: {"cod", "razorpay"}, amount: Amounts, outdated: BOOLEAN]

ASSUME NoneAssumption == None \notin Amounts \cup Cart \cup OrderRecord \cup Payment

TypeOK ==
    /\ cart \in Cart
    /\ collection \in Amounts \cup {None}
    /\ sessions \in [SessionIds -> Session]
    /\ inStock \subseteq Items
    /\ usedUp \subseteq Coupons
    /\ expired \subseteq Coupons
    /\ req \in [Requests -> Request]
    /\ order \in OrderRecord \cup {None}
    /\ payment \in Payment \cup {None}
    /\ errand \in [Requests -> Errand]
    /\ authorized \in [SessionIds -> Nat]
    /\ past \in Past

-----------------------------------------------------------------------------
\* Promotions and sessions.

\* enforcePriceIntegrity, for a cart without shipping discounts.
PriceIntegrity(c) == Total(c) >= 0 /\ DiscountOf(c) <= Subtotal(c)

HasAutomatic(c) == c.items \in AutomaticFor

\* Mutation: only automatic promotions are looked for.
StackingNeverRefused(c, code) == AutoPlusManual \/ ~HasAutomatic(c)

\* ensureCouponStackingAllowed.
StackingAllowed(c, code) ==
    /\ Cardinality(c.coupons) <= 1
    /\ c.coupons \subseteq {code}
    /\ AutoPlusManual \/ ~HasAutomatic(c)

Live == {s \in SessionIds: sessions[s].status \notin {"none", "deleted"}}

CodSessions == {s \in Live: sessions[s].provider = "cod"}

\* Mutation: a paid Razorpay payment can be cancelled.
MayCancelPaid(s) == sessions[s].provider = "cod" \/ sessions[s].status # "failed"

\* deletePayment of the two providers: Razorpay's cancelPayment refuses a paid
\* session, and a failed one because FAILED has no transition to CANCELLED.
MayDelete(s) ==
    sessions[s].provider = "cod" \/ sessions[s].status = "pending"

Deleted(set) ==
    [s \in SessionIds |->
        IF s \in set THEN [sessions[s] EXCEPT !.status = "deleted"] ELSE sessions[s]]

Fresh == {s \in SessionIds: sessions[s].status = "none"
                             /\ \A t \in 1..(s - 1): sessions[t].status # "none"}

\* Medusa's refresh of the payment collection when the cart becomes c: with a
\* new total the sessions go, and the change is rejected if one cannot.
Refresh(c) ==
    IF collection \in {None, Total(c)}
    THEN UNCHANGED <<collection, sessions>>
    ELSE collection' = Total(c) /\ sessions' = Deleted(Live)

Rejected(c) ==
    collection \notin {None, Total(c)} /\ \E s \in Live: ~MayDelete(s)

\* A change of the cart by one of Medusa's workflows.
ChangeCart(c) == ~Rejected(c) /\ cart' = c /\ Refresh(c)

\* Mutation: the coupon workflows do not ask for the refresh.
ChangeWithoutRefresh(c) == cart' = c /\ UNCHANGED <<collection, sessions>>

\* updateCartPromotions with force_refresh_payment_collection.
ChangePromotions(c) == ChangeCart(c)

-----------------------------------------------------------------------------
\* Requests and what ends them.

Goto(r, pc) == req' = [req EXCEPT ![r].pc = pc]
Finish(r) == req' = [req EXCEPT ![r] = Idle]
AtPoint(r, pc) == order = None /\ req[r].pc = pc

Start(r, op, pc, x) ==
    /\ order = None
    /\ req[r].pc = "idle"
    /\ past.begun < MaxBegun
    /\ req' = [req EXCEPT ![r] = [Idle EXCEPT !.op = op, !.pc = pc, !.x = x]]
    /\ past' = [past EXCEPT !.begun = @ + 1]

cartVars == <<cart, collection, sessions>>
promoVars == <<usedUp, expired>>
orderVars == <<order, payment, errand>>

\* A request ends without an effect of its own: an error answer, a refused
\* call, a restart of the process.
Abort(r) ==
    /\ req[r].pc # "idle"
    /\ past.mishaps < MaxMishaps
    /\ Finish(r)
    /\ past' = [past EXCEPT !.mishaps = @ + 1]
    /\ UNCHANGED <<cartVars, inStock, promoVars, orderVars, authorized>>

-----------------------------------------------------------------------------
\* Coupons.

BeginApply(r, c) ==
    /\ Start(r, "apply", "apply.read", c)
    /\ UNCHANGED <<cartVars, inStock, promoVars, orderVars, authorized>>

\* cartApplyCouponWorkflow up to the call of updateCartPromotions.  A code that
\* is there already is answered with success.
ApplyRead(r) ==
    /\ AtPoint(r, "apply.read")
    /\ IF StackingAllowed(cart, req[r].x) /\ req[r].x \notin cart.coupons
       THEN req' = [req EXCEPT ![r].pc = "apply.add", ![r].saw = cart]
       ELSE Finish(r)
    /\ UNCHANGED <<cartVars, inStock, promoVars, orderVars, authorized, past>>

\* The ADD.  The price check that follows it takes nothing back.
ApplyAdd(r) ==
    LET with == [cart EXCEPT !.coupons = @ \cup {req[r].x}] IN
    /\ AtPoint(r, "apply.add")
    /\ Finish(r)
    /\ \/ /\ req[r].x \notin expired
          /\ ChangePromotions(with)
          /\ past' = [past EXCEPT !.couponRace = @ \/ cart.coupons # req[r].saw.coupons]
       \/ /\ req[r].x \in expired \/ Rejected(with)
          /\ UNCHANGED <<cartVars, past>>
    /\ UNCHANGED <<inStock, promoVars, orderVars, authorized>>

\* Requests that read nothing before they change the cart.
AtOnce ==
    /\ order = None
    /\ past.begun < MaxBegun
    /\ UNCHANGED <<req, inStock, promoVars, orderVars, authorized>>

\* cartRemoveCouponWorkflow.
RemoveCoupon(c) ==
    /\ AtOnce
    /\ c \in cart.coupons
    /\ ChangePromotions([cart EXCEPT !.coupons = @ \ {c}])
    /\ past' = [past EXCEPT !.begun = @ + 1]

-----------------------------------------------------------------------------
\* Items and shipping.

\* Someone has, or is about to have, an option that was checked as COD.
CodInSight == cart.shipping \in NamedCod \/ \E r \in Requests: req[r].x \in NamedCod

\* checkAvailabilityForAddToCart, then Medusa adds the line item.
AddItem(i) ==
    /\ AtOnce
    /\ i \in inStock \ cart.items
    /\ ChangeCart([cart EXCEPT !.items = @ \cup {i}])
    /\ past' = [past EXCEPT !.begun = @ + 1,
                            !.late = IF CodInSight THEN @ \cup {i} ELSE @]

RemoveItem(i) ==
    /\ AtOnce
    /\ i \in cart.items
    /\ cart.items # {i}
    /\ ChangeCart([cart EXCEPT !.items = @ \ {i}])
    /\ past' = [past EXCEPT !.begun = @ + 1, !.late = @ \ {i}]

\* Mutation: every option may be chosen.
AnyOption(o) == TRUE

\* isShippingOptionEligible on id, name and metadata of the option.
OptionEligible(o) == o \in NamedCod => cart.items \subseteq Eligible

\* POST shipping-methods past the eligibility middleware.
BeginShipping(r, o) ==
    /\ OptionEligible(o)
    /\ Start(r, "shipping", "init.read", o)
    /\ UNCHANGED <<cartVars, inStock, promoVars, orderVars, authorized>>

\* Medusa adds the shipping method after the middlewares.
ShippingSet(r) ==
    LET with == [cart EXCEPT !.shipping = req[r].x] IN
    /\ AtPoint(r, "shipping.set")
    /\ Finish(r)
    /\ \/ ChangeCart(with)
       \/ Rejected(with) /\ UNCHANGED cartVars
    /\ UNCHANGED <<inStock, promoVars, orderVars, authorized, past>>

-----------------------------------------------------------------------------
\* paymentInitWorkflow.

AfterInit(op) == IF op = "shipping" THEN "shipping.set" ELSE "auth.read"

\* Mutation: the collection is not looked at.
CollectionNotAsked == TRUE

HasCollection == collection # None

\* Mutation: the sessions of the collection are left alone.
NothingToDelete == {}

SessionsToDelete == Live

AboutToCreate(others) ==
    \E q \in others: req[q].pc \in {"init.delete", "init.create"}

InitIsCod(r) ==
    IsCod(IF req[r].op = "shipping" THEN req[r].x ELSE cart.shipping)

InitRead(r) ==
    /\ AtPoint(r, "init.read")
    /\ \/ /\ ~InitIsCod(r) \/ (HasCollection /\ CodSessions # {})
          /\ Goto(r, AfterInit(req[r].op))
       \/ /\ InitIsCod(r) /\ ~HasCollection
          /\ Finish(r)
       \/ /\ InitIsCod(r) /\ HasCollection /\ CodSessions = {}
          /\ req' = [req EXCEPT
                 ![r].pc = IF SessionsToDelete = {} THEN "init.create" ELSE "init.delete",
                 ![r].amount = collection,
                 ![r].todo = SessionsToDelete]
    /\ UNCHANGED <<cartVars, inStock, promoVars, orderVars, authorized, past>>

\* One pass of the loop: every session found goes, whatever it stands at,
\* unless it has gone or its provider refuses.
InitDelete(r) ==
    /\ AtPoint(r, "init.delete")
    /\ \E s \in req[r].todo:
          IF s \in Live /\ MayDelete(s)
          THEN /\ sessions' = Deleted({s})
               /\ req' = [req EXCEPT
                      ![r].todo = @ \ {s},
                      ![r].pc = IF req[r].todo = {s} THEN "init.create" ELSE @]
          ELSE Finish(r) /\ UNCHANGED sessions
    /\ UNCHANGED <<cart, collection, inStock, promoVars, orderVars, authorized, past>>

\* createPaymentSession with the amount read at the start, and the provider's
\* initiatePayment.
InitCreate(r) ==
    /\ AtPoint(r, "init.create")
    /\ \E s \in Fresh:
          /\ sessions' = [sessions EXCEPT ![s] =
                 [provider |-> "cod", status |-> "pending", amount |-> req[r].amount]]
          /\ past' = [past EXCEPT
                 !.crossed = @ \/ AboutToCreate(Requests \ {r}),
                 !.outdated = IF req[r].amount = collection THEN @ ELSE @ \cup {s}]
    /\ Goto(r, "init.confirm")
    /\ UNCHANGED <<cart, collection, inStock, promoVars, orderVars, authorized>>

InitConfirm(r) ==
    /\ AtPoint(r, "init.confirm")
    /\ IF CodSessions = {} THEN Finish(r) ELSE Goto(r, AfterInit(req[r].op))
    /\ UNCHANGED <<cartVars, inStock, promoVars, orderVars, authorized, past>>

-----------------------------------------------------------------------------
\* POST complete: paymentInitWorkflow, then paymentAuthorizeWorkflow.

BeginComplete(r) ==
    /\ Start(r, "complete", "init.read", None)
    /\ UNCHANGED <<cartVars, inStock, promoVars, orderVars, authorized>>

IsAuthorized(s) == sessions[s].status = "authorized"

\* Mutation: an authorized session is authorized once more.
NeverAuthorized(s) == FALSE

\* The return before authorizePaymentSession.
AlreadyAuthorized(s) == IsAuthorized(s)

\* Which of several COD sessions comes first is not said.
AuthRead(r) ==
    /\ AtPoint(r, "auth.read")
    /\ \/ ~IsCod(cart.shipping) /\ Goto(r, "place.read")
       \/ IsCod(cart.shipping) /\ CodSessions = {} /\ Finish(r)
       \/ /\ IsCod(cart.shipping)
          /\ \E s \in CodSessions:
                IF AlreadyAuthorized(s)
                THEN Goto(r, "place.read")
                ELSE req' = [req EXCEPT ![r].pc = "auth.authorize", ![r].sid = s]
    /\ UNCHANGED <<cartVars, inStock, promoVars, orderVars, authorized, past>>

\* authorizePaymentSession: it fails for a session that has gone.
AuthAuthorize(r) ==
    LET s == req[r].sid IN
    /\ AtPoint(r, "auth.authorize")
    /\ IF s \in Live
       THEN /\ sessions' = [sessions EXCEPT ![s].status = "authorized"]
            /\ past' = [past EXCEPT
                   !.shared = IF \E q \in Requests \ {r}:
                                     req[q].pc = "auth.authorize" /\ req[q].sid = s
                               THEN @ \cup {s} ELSE @]
            /\ Goto(r, "auth.confirm")
       ELSE Finish(r) /\ UNCHANGED <<sessions, past>>
    /\ UNCHANGED <<cart, collection, inStock, promoVars, orderVars, authorized>>

\* The re-read and the two events.
AuthConfirm(r) ==
    /\ AtPoint(r, "auth.confirm")
    /\ \/ \E s \in CodSessions:
             /\ IsAuthorized(s)
             /\ authorized' = [authorized EXCEPT ![s] = @ + 1]
             /\ past' = [past EXCEPT !.shared = IF s = req[r].sid THEN @ ELSE @ \cup {s}]
             /\ Goto(r, "place.read")
       \/ /\ CodSessions = {} \/ \E s \in CodSessions: ~IsAuthorized(s)
          /\ Finish(r)
          /\ UNCHANGED <<authorized, past>>
    /\ UNCHANGED <<cartVars, inStock, promoVars, orderVars>>

-----------------------------------------------------------------------------
\* orderPlaceWorkflow and the availability check.

CodSessionReady == \E s \in CodSessions: IsAuthorized(s)

\* What follows the promotions' check, on the cart as it is read here.  What was
\* checked of the promotions counts only if it is the cart read for that check.
PlaceDecision(r, read, void) ==
    IF PriceIntegrity(cart) /\ (IsCod(cart.shipping) => CodSessionReady)
    THEN req' = [req EXCEPT ![r].pc = "stock", ![r].saw = IF cart = read THEN cart ELSE None,
                            ![r].void = void]
    ELSE Finish(r)

\* Mutation: the usage limits are not looked up.
UsageNotAsked(c) == TRUE

\* assertCouponUsageLimits.
WithinUsage(c) == c.coupons \cap usedUp = {}

PlaceRead(r) ==
    LET ranOut == usedUp \cup expired IN
    /\ AtPoint(r, "place.read")
    /\ IF cart.coupons = {}
       THEN PlaceDecision(r, cart, ranOut)
       ELSE IF WithinUsage(cart) /\ \E c \in cart.coupons: StackingAllowed(cart, c)
            THEN req' = [req EXCEPT ![r].pc = "place.replace", ![r].saw = cart,
                                    ![r].void = ranOut]
            ELSE Finish(r)
    /\ UNCHANGED <<cartVars, inStock, promoVars, orderVars, authorized, past>>

\* The REPLACE: exactly the codes read before, without those that expired.
PlaceReplace(r) ==
    LET with == [cart EXCEPT !.coupons = req[r].saw.coupons \ expired] IN
    /\ AtPoint(r, "place.replace")
    /\ \/ ChangePromotions(with) /\ Goto(r, "place.check")
       \/ Rejected(with) /\ Finish(r) /\ UNCHANGED cartVars
    /\ UNCHANGED <<inStock, promoVars, orderVars, authorized, past>>

PlaceCheck(r) ==
    /\ AtPoint(r, "place.check")
    /\ IF req[r].saw.coupons \subseteq cart.coupons
       THEN PlaceDecision(r, req[r].saw, req[r].void)
       ELSE Finish(r)
    /\ UNCHANGED <<cartVars, inStock, promoVars, orderVars, authorized, past>>

\* checkAvailabilityForCompleteCart.
StockCheck(r) ==
    /\ AtPoint(r, "stock")
    /\ IF cart.items \subseteq inStock THEN Goto(r, "complete") ELSE Finish(r)
    /\ UNCHANGED <<cartVars, inStock, promoVars, orderVars, authorized, past>>

\* The session Medusa completes the cart with: one that is authorized or, of
\* the COD provider, one it authorizes now.
Payable == {s \in Live: IsAuthorized(s) \/ sessions[s].provider = "cod"}

\* Medusa's completeCart, which reserves the items.  A completed cart refuses
\* whatever other requests still want of it.
Complete(r) ==
    LET able == cart.shipping # "none" /\ cart.items \subseteq inStock IN
    /\ AtPoint(r, "complete")
    /\ \/ /\ able
          /\ req' = [q \in Requests |-> Idle]
          /\ \E s \in Payable:
                /\ order' = [cart |-> cart, checked |-> req[r].saw, void |-> req[r].void,
                             provider |-> sessions[s].provider,
                             amount |-> sessions[s].amount,
                             outdated |-> s \in past.outdated]
                /\ payment' = [provider |-> sessions[s].provider, state |-> "authorized",
                               refunds |-> 0, recorded |-> 0, asked |-> 0]
                /\ sessions' = [sessions EXCEPT ![s].status = "authorized"]
          /\ inStock' = inStock \ cart.items
       \/ /\ ~able \/ Payable = {}
          /\ Finish(r)
          /\ UNCHANGED <<sessions, inStock, order, payment>>
    /\ UNCHANGED <<cart, collection, promoVars, errand, authorized, past>>

-----------------------------------------------------------------------------
\* Razorpay sessions, the customer's payments, and the environment.

\* The storefront asks for a Razorpay session, which takes the place of all
\* others; initiatePayment has Razorpay make an order over its amount.
InitiateRazorpay ==
    /\ AtOnce
    /\ collection # None
    /\ collection > 0
    /\ \A s \in Live: MayDelete(s)
    /\ \E s \in Fresh:
          sessions' = [Deleted(Live) EXCEPT ![s] =
              [provider |-> "razorpay", status |-> "pending", amount |-> collection]]
    /\ past' = [past EXCEPT !.begun = @ + 1,
                            !.crossed = @ \/ AboutToCreate(Requests)]
    /\ UNCHANGED <<cart, collection>>

\* A webhook or the authorize route records the outcome of a payment.
PaymentRecorded(s, status) ==
    /\ order = None
    /\ s \in Live
    /\ sessions[s].provider = "razorpay"
    /\ sessions[s].status = "pending"
    /\ sessions' = [sessions EXCEPT ![s].status = status]
    /\ UNCHANGED <<cart, collection, inStock, promoVars, req, orderVars, authorized, past>>

CreateCollection ==
    /\ order = None
    /\ collection = None
    /\ collection' = Total(cart)
    /\ UNCHANGED <<cart, sessions, inStock, promoVars, req, orderVars, authorized, past>>

Mishap ==
    /\ order = None
    /\ past.mishaps < MaxMishaps
    /\ past' = [past EXCEPT !.mishaps = @ + 1]

SoldElsewhere(i) ==
    /\ Mishap
    /\ i \in inStock
    /\ inStock' = inStock \ {i}
    /\ UNCHANGED <<cartVars, promoVars, req, orderVars, authorized>>

RunsOut(c) ==
    /\ Mishap
    /\ c \notin usedUp \cup expired
    /\ \/ usedUp' = usedUp \cup {c} /\ UNCHANGED expired
       \/ expired' = expired \cup {c} /\ UNCHANGED usedUp
    /\ UNCHANGED <<cartVars, inStock, req, orderVars, authorized>>

-----------------------------------------------------------------------------
\* The payment of the order, through Medusa and the provider of its session.
\* Medusa reads the payment's data, hands them to the provider and stores what
\* it returns: between these points other requests do the same.

checkoutVars == <<cartVars, inStock, promoVars, req, order, authorized>>

Send(r, pc) == errand' = [errand EXCEPT ![r].pc = pc]
Done(r) == errand' = [errand EXCEPT ![r] = NoErrand]

MayCapture(r) == payment # None /\ payment.state = "authorized" /\ errand[r].pc = "idle"

CaptureRead(r) ==
    /\ MayCapture(r)
    /\ Send(r, "capture")
    /\ UNCHANGED <<checkoutVars, payment, past>>

\* capturePayment: a payment Razorpay has captured already counts as success,
\* and the data read are stored as captured, whatever became of them meanwhile.
CaptureStore(r) ==
    /\ errand[r].pc = "capture"
    /\ payment' = [payment EXCEPT !.state = "captured"]
    /\ Done(r)
    /\ UNCHANGED <<checkoutVars, past>>

\* cancelPayment: only COD lets go of an authorized payment.
CancelPayment ==
    /\ payment # None
    /\ payment.state = "authorized"
    /\ payment.provider = "cod"
    /\ payment' = [payment EXCEPT !.state = "canceled"]
    /\ UNCHANGED <<checkoutVars, errand, past>>

\* refundPayment of Razorpay returns at once if the data read say refunded.
AlreadyRefunded == payment.provider = "razorpay" /\ payment.state = "refunded"

RefundRead(r) ==
    /\ payment # None
    /\ errand[r].pc = "idle"
    /\ payment.state \in {"captured", "refunded"}
    /\ payment.asked < MaxRefunds
    /\ payment' = [payment EXCEPT !.asked = @ + 1]
    /\ Send(r, IF AlreadyRefunded THEN "refund.store" ELSE "refund.call")
    /\ UNCHANGED <<checkoutVars, past>>

\* The refund, with no idempotency key.  razorpayRequest sends it again when no
\* answer came, so that it may be carried out twice.
RefundCall(r) ==
    /\ errand[r].pc = "refund.call"
    /\ errand' = [errand EXCEPT ![r] = [pc |-> "refund.store", sent |-> TRUE]]
    /\ \E again \in IF payment.provider = "razorpay" THEN {0, 1} ELSE {0}:
          /\ past.mishaps + again <= MaxMishaps
          /\ payment' = [payment EXCEPT !.refunds = @ + 1 + again]
          /\ past' = [past EXCEPT !.mishaps = @ + again, !.lost = @ + again]
    /\ UNCHANGED checkoutVars

\* Mutation: an error of the call passes for a success, as in capturePayment.
RefundFailsQuietly(r) ==
    /\ errand[r].pc = "refund.call"
    /\ Send(r, "refund.store")
    /\ UNCHANGED <<checkoutVars, payment, past>>

\* The call fails for good, carried out or not, and Medusa stores nothing.
RefundFails(r) ==
    /\ errand[r].pc = "refund.call"
    /\ past.mishaps < MaxMishaps
    /\ Done(r)
    /\ \E n \in IF payment.provider = "razorpay" THEN {0, 1} ELSE {0}:
          /\ payment' = [payment EXCEPT !.refunds = @ + n]
          /\ past' = [past EXCEPT !.mishaps = @ + 1, !.lost = @ + n]
    /\ UNCHANGED checkoutVars

\* Medusa records the refund and stores the data that came back.
RefundStore(r) ==
    /\ errand[r].pc = "refund.store"
    /\ payment' = [payment EXCEPT !.state = "refunded", !.recorded = @ + 1]
    /\ Done(r)
    /\ UNCHANGED <<checkoutVars, past>>

\* The process stops with an answer in hand.
ErrandBreaks(r) ==
    /\ errand[r].pc \in {"capture", "refund.store"}
    /\ past.mishaps < MaxMishaps
    /\ Done(r)
    /\ past' = [past EXCEPT !.mishaps = @ + 1, !.lost = IF errand[r].sent THEN @ + 1 ELSE @]
    /\ UNCHANGED <<checkoutVars, payment>>

-----------------------------------------------------------------------------
Init ==
    /\ cart \in [items: {{i}: i \in Eligible}, coupons: {{}}, shipping: {"none"}]
    /\ collection = None
    /\ sessions = [s \in SessionIds |-> NoSession]
    /\ inStock = Items
    /\ usedUp = {}
    /\ expired = {}
    /\ req = [r \in Requests |-> Idle]
    /\ order = None
    /\ payment = None
    /\ errand = [r \in Requests |-> NoErrand]
    /\ authorized = [s \in SessionIds |-> 0]
    /\ past = [begun |-> 0, mishaps |-> 0, couponRace |-> FALSE, crossed |-> FALSE,
               outdated |-> {}, shared |-> {}, late |-> {}, lost |-> 0]

Advance(r) ==
    \/ ApplyRead(r) \/ ApplyAdd(r) \/ ShippingSet(r)
    \/ InitRead(r) \/ InitDelete(r) \/ InitCreate(r) \/ InitConfirm(r)
    \/ AuthRead(r) \/ AuthAuthorize(r) \/ AuthConfirm(r)
    \/ PlaceRead(r) \/ PlaceReplace(r) \/ PlaceCheck(r)
    \/ StockCheck(r) \/ Complete(r)

Settle(r) ==
    \/ CaptureRead(r) \/ CaptureStore(r)
    \/ RefundRead(r) \/ RefundCall(r) \/ RefundFails(r) \/ RefundStore(r)
    \/ ErrandBreaks(r)

Next ==
    \/ \E r \in Requests: Advance(r) \/ Abort(r) \/ BeginComplete(r) \/ Settle(r)
    \/ \E r \in Requests, c \in Coupons: BeginApply(r, c)
    \/ \E r \in Requests, o \in Options: BeginShipping(r, o)
    \/ \E c \in Coupons: RemoveCoupon(c) \/ RunsOut(c)
    \/ \E i \in Items: AddItem(i) \/ RemoveItem(i) \/ SoldElsewhere(i)
    \/ InitiateRazorpay \/ CreateCollection
    \/ \E s \in SessionIds, status \in {"authorized", "failed"}: PaymentRecorded(s, status)
    \/ CancelPayment

Spec == Init /\ [][Next]_vars

-----------------------------------------------------------------------------
\* Properties.

\* deletePaymentSession is called on every session of the collection, by the
\* switch to COD and by every change of the total, with no look at its status:
\* no sequence of them removes a Razorpay session that holds a payment.
PaidSessionKept ==
    [][\A s \in Live:
          sessions[s].provider = "razorpay" /\ IsAuthorized(s) => IsAuthorized(s)']_vars

\* Whatever changes the cart, the payment collection asks for the cart's total
\* and so does every session, save a COD session that was made with an amount
\* read before the total changed.
SessionsChargeTotal ==
    collection # None =>
        /\ collection = Total(cart)
        /\ \A s \in Live \ past.outdated: sessions[s].amount = collection

\* payment_init leaves the cart with one session, of one provider, as long as
\* no other request creates a session while it is on its way to create one.
OneSession == Cardinality(Live) > 1 => past.crossed

\* A cart has a second manual coupon only if two requests that both saw none
\* added theirs.
OneCouponUnlessRaced == Cardinality(cart.coupons) > 1 => past.couponRace

\* An order whose cart is still the one the guard looked at, in the first and in
\* the second reading of it, obeys the coupon policy, has none but coupons that
\* were usable when the guard began, and charges the cart's total.
PlacedAsChecked ==
    order # None /\ order.cart = order.checked =>
        /\ Cardinality(order.cart.coupons) <= 1
        /\ order.cart.coupons # {} =>
               AutoPlusManual \/ ~HasAutomatic(order.cart)
        /\ order.cart.coupons \cap order.void = {}
        /\ DiscountOf(order.cart) <= Subtotal(order.cart)
        /\ order.outdated \/ order.amount = Total(order.cart)

\* cod.authorized is announced once per session unless two requests authorized
\* the session side by side, or one found it in the place of the session it
\* had authorized.
AuthorizedOnce ==
    \A s \in SessionIds: authorized[s] > 1 => s \in past.shared

\* An order goes out by COD with an item that may not in two ways only: the item
\* came into the cart after the option had been checked, or the option is COD by
\* its code or type, which the check does not load.  Nothing looks at the items again.
CodItemsEligible ==
    order # None /\ order.cart.shipping \in NamedCod =>
        order.cart.items \subseteq Eligible \cup past.late

\* However refunds and captures cross each other and whichever breaks off: what
\* the provider gave back is recorded by Medusa, about to be recorded, or lost
\* with its answer, and nothing is recorded while the provider gave nothing back.
\* (A refund that finds the payment refunded is recorded without one of its own.)
RefundsOnRecord ==
    payment # None =>
        /\ payment.recorded > 0 => payment.refunds > 0
        /\ payment.refunds <=
               payment.recorded + Cardinality({r \in Requests: errand[r].sent}) + past.lost
=============================================================================
