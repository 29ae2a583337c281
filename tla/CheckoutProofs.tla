--------------------------- MODULE CheckoutProofs ---------------------------
(***************************************************************************)
(* What holds of the checkout for any catalogue, any promotions and any    *)
(* number of requests side by side.                                        *)
(***************************************************************************)
EXTENDS Checkout, FiniteSetTheorems, TLAPS

-----------------------------------------------------------------------------
\* The inductive invariant, one part for each concern.

\* What a request carries at the point where it stands.
RequestShape(q) ==
    /\ q.pc \in {"apply.read", "apply.add"} => q.x \in Coupons
    /\ q.pc = "shipping.set" => q.op = "shipping"
    /\ q.op = "shipping" => q.x \in Options
    /\ q.pc \in {"apply.add", "place.replace", "place.check"} => q.saw \in Cart
    /\ q.pc \in {"auth.authorize", "auth.confirm"} => q.sid \in SessionIds

Shape == \A r \in Requests : RequestShape(req[r])

\* Nobody is on an errand about a payment that is not there.
Errands ==
    \A r \in Requests :
        /\ errand[r].pc # "idle" => payment # None
        /\ errand[r].sent => errand[r].pc = "refund.store"

Typed == TypeOK /\ Shape /\ Errands

-----------------------------------------------------------------------------
\* Types.

\* The words of the model belong to the sets they are taken from.
LEMMA Words ==
    /\ {"idle", "apply.read", "apply.add", "init.read", "init.delete",
        "init.create", "init.confirm", "shipping.set", "auth.read",
        "auth.authorize", "auth.confirm", "place.read", "place.replace",
        "place.check", "stock", "complete"} \subseteq Programs
    /\ 0 \in Amounts
  BY DEF Programs, Amounts

LEMMA IdleShape == Idle \in Request /\ RequestShape(Idle)
  BY Words DEF Idle, Request, RequestShape

LEMMA TotalType == \A c \in Cart : Total(c) \in Amounts
  BY DEF Amounts

\* What a step that rebuilds a request starts from.
LEMMA RequestTyped ==
    ASSUME Typed, NEW r \in Requests
    PROVE  req[r] \in Request /\ RequestShape(req[r])
  BY DEF Typed, TypeOK, Shape

\* A request that moves leaves the others where they are.
LEMMA Moved ==
    ASSUME req \in [Requests -> Request], Shape, NEW r \in Requests, NEW q,
           q \in Request, RequestShape(q), req' = [req EXCEPT ![r] = q]
    PROVE  req' \in [Requests -> Request] /\ Shape'
  BY DEF Shape, RequestShape

LEMMA Finished ==
    ASSUME req \in [Requests -> Request], Shape, NEW r \in Requests, Finish(r)
    PROVE  req' \in [Requests -> Request] /\ Shape'
  BY IdleShape, Moved DEF Finish

\* Going on to a point that asks for nothing more keeps the types.
LEMMA Gone ==
    ASSUME req \in [Requests -> Request], Shape, NEW r \in Requests, NEW pc \in Programs,
           Goto(r, pc), RequestShape([req[r] EXCEPT !.pc = pc])
    PROVE  req' \in [Requests -> Request] /\ Shape'
  <1> DEFINE q == [req[r] EXCEPT !.pc = pc]
  <1>1. q \in Request
    BY DEF Request
  <1>2. req' = [req EXCEPT ![r] = q]
    BY DEF Goto
  <1> QED BY <1>1, <1>2, Moved

LEMMA Started ==
    ASSUME req \in [Requests -> Request], Shape, past \in Past, NEW r \in Requests,
           NEW op, NEW pc, NEW x, Start(r, op, pc, x), 
           \/ op = "apply" /\ pc = "apply.read" /\ x \in Coupons
           \/ op = "shipping" /\ pc = "init.read" /\ x \in Options
           \/ op = "complete" /\ pc = "init.read" /\ x = None
    PROVE  req' \in [Requests -> Request] /\ Shape' /\ past' \in Past
  <1> DEFINE q == [Idle EXCEPT !.op = op, !.pc = pc, !.x = x]
  <1>1. q \in Request /\ RequestShape(q)
    BY Words DEF Idle, Request, RequestShape
  <1>2. req' = [req EXCEPT ![r] = q]
    BY DEF Start
  <1>3. past' \in Past
    BY CheckoutAssumption DEF Start, Past
  <1> QED BY <1>1, <1>2, <1>3, Moved

\* A session that is deleted, made or given a status keeps its type.
LEMMA DeletedType ==
    ASSUME sessions \in [SessionIds -> Session], NEW set
    PROVE  Deleted(set) \in [SessionIds -> Session]
  BY DEF Deleted, Session

LEMMA ChangedType ==
    ASSUME TypeOK, NEW c \in Cart, ChangeCart(c)
    PROVE  /\ cart' \in Cart
           /\ collection' \in Amounts \cup {None}
           /\ sessions' \in [SessionIds -> Session]
  BY DeletedType, TotalType DEF TypeOK, ChangeCart, Refresh

\* What is true of every step that leaves the order and its payment alone.
LEMMA TypedCart ==
    ASSUME Typed,
           cart' \in Cart, collection' \in Amounts \cup {None},
           sessions' \in [SessionIds -> Session],
           req' \in [Requests -> Request], Shape',
           past' \in Past,
           UNCHANGED <<inStock, promoVars, orderVars, authorized>>
    PROVE  Typed'
  BY DEF Typed, TypeOK, Errands, promoVars, orderVars

LEMMA TypedCoupons ==
    ASSUME Typed, NEW r \in Requests, ApplyRead(r) \/ ApplyAdd(r)
    PROVE  Typed'
  <1> USE DEF cartVars
  <1>1. CASE ApplyRead(r)
    <2>1. CASE Finish(r)
      BY <1>1, <2>1, Finished, TypedCart DEF ApplyRead, Typed, TypeOK
    <2>2. CASE req' = [req EXCEPT ![r].pc = "apply.add", ![r].saw = cart]
      <3> DEFINE q == [req[r] EXCEPT !.pc = "apply.add", !.saw = cart]
      <3>1. q \in Request /\ RequestShape(q)
        <4>1. cart \in Cart /\ req[r].x \in Coupons
          BY <1>1, RequestTyped DEF ApplyRead, AtPoint, RequestShape, Typed, TypeOK
        <4> QED BY <4>1, RequestTyped, Words DEF Request, RequestShape
      <3>2. req' = [req EXCEPT ![r] = q]
        BY <2>2
      <3> QED BY <1>1, <3>1, <3>2, Moved, TypedCart DEF ApplyRead, Typed, TypeOK
    <2> QED BY <1>1, <2>1, <2>2 DEF ApplyRead
  <1>2. CASE ApplyAdd(r)
    <2> DEFINE with == [cart EXCEPT !.coupons = @ \cup {req[r].x}]
    <2>1. with \in Cart
      BY <1>2 DEF ApplyAdd, AtPoint, Typed, TypeOK, Shape, RequestShape, Cart
    <2>2. req' \in [Requests -> Request] /\ Shape'
      BY <1>2, Finished DEF ApplyAdd, Typed, TypeOK
    <2>3. CASE /\ ChangePromotions(with)
               /\ past' = [past EXCEPT !.couponRace = @ \/ cart.coupons # req[r].saw.coupons]
      <3>1. past' \in Past
        BY <2>3 DEF Typed, TypeOK, Past
      <3> QED BY <1>2, <2>1, <2>2, <2>3, <3>1, ChangedType, TypedCart
          DEF ApplyAdd, ChangePromotions, Typed
    <2>4. CASE UNCHANGED <<cartVars, past>>
      BY <1>2, <2>2, <2>4, TypedCart DEF ApplyAdd, Typed, TypeOK
    <2> QED BY <1>2, <2>3, <2>4 DEF ApplyAdd
  <1> QED BY <1>1, <1>2

LEMMA TypedShipping ==
    ASSUME Typed, NEW r \in Requests, ShippingSet(r)
    PROVE  Typed'
  <1> DEFINE with == [cart EXCEPT !.shipping = req[r].x]
  <1>1. with \in Cart
    BY DEF ShippingSet, AtPoint, Typed, TypeOK, Shape, RequestShape, Cart
  <1>2. req' \in [Requests -> Request] /\ Shape'
    BY Finished DEF ShippingSet, Typed, TypeOK
  <1>3. CASE ChangeCart(with)
    BY <1>1, <1>2, <1>3, ChangedType, TypedCart DEF ShippingSet, Typed, TypeOK
  <1>4. CASE UNCHANGED cartVars
    BY <1>2, <1>4, TypedCart DEF ShippingSet, cartVars, Typed, TypeOK
  <1> QED BY <1>3, <1>4 DEF ShippingSet

\* The four steps of paymentInitWorkflow.
LEMMA TypedInit ==
    ASSUME Typed, NEW r \in Requests,
           InitRead(r) \/ InitDelete(r) \/ InitCreate(r) \/ InitConfirm(r)
    PROVE  Typed'
  <1> USE DEF cartVars
  <1>1. \A op : AfterInit(op) \in Programs
    BY Words DEF AfterInit
  <1>2. \A pc \in {"init.confirm", AfterInit(req[r].op)} :
            RequestShape([req[r] EXCEPT !.pc = pc])
    BY DEF Typed, TypeOK, Shape, RequestShape, AfterInit, Request
  <1>3. CASE InitRead(r)
    <2>1. CASE Finish(r)
      BY <1>3, <2>1, Finished, TypedCart DEF InitRead, Typed, TypeOK
    <2>2. CASE Goto(r, AfterInit(req[r].op))
      BY <1>1, <1>2, <1>3, <2>2, Gone, TypedCart DEF InitRead, Typed, TypeOK
    <2>3. CASE /\ HasCollection
               /\ req' = [req EXCEPT
                      ![r].pc = IF SessionsToDelete = {} THEN "init.create" ELSE "init.delete",
                      ![r].amount = collection,
                      ![r].todo = SessionsToDelete]
      <3> DEFINE pc == IF SessionsToDelete = {} THEN "init.create" ELSE "init.delete"
                 q == [req[r] EXCEPT !.pc = pc, !.amount = collection, !.todo = SessionsToDelete]
      <3>1. q \in Request /\ RequestShape(q)
        <4>1. collection \in Amounts
          BY <2>3 DEF HasCollection, Typed, TypeOK
        <4>2. SessionsToDelete \subseteq SessionIds
          BY DEF SessionsToDelete, Live
        <4>3. pc \in {"init.create", "init.delete"}
          OBVIOUS
        <4> HIDE DEF pc
        <4> QED BY <4>1, <4>2, <4>3, RequestTyped, Words DEF Request, RequestShape
      <3>2. req' = [req EXCEPT ![r] = q]
        BY <2>3
      <3> QED BY <1>3, <3>1, <3>2, Moved, TypedCart DEF InitRead, Typed, TypeOK
    <2> QED BY <1>3, <2>1, <2>2, <2>3 DEF InitRead
  <1>4. CASE InitDelete(r)
    <2>1. CASE Finish(r) /\ UNCHANGED sessions
      BY <1>4, <2>1, Finished, TypedCart DEF InitDelete, Typed, TypeOK
    <2>2. ASSUME NEW s \in req[r].todo, sessions' = Deleted({s}),
                 req' = [req EXCEPT
                      ![r].todo = @ \ {s},
                      ![r].pc = IF req[r].todo = {s} THEN "init.create" ELSE @]
          PROVE  Typed'
      <3> DEFINE pc == IF req[r].todo = {s} THEN "init.create" ELSE req[r].pc
                 q == [req[r] EXCEPT !.todo = @ \ {s}, !.pc = pc]
      <3>1. q \in Request /\ RequestShape(q)
        <4>1. pc \in {"init.create", "init.delete"}
          BY <1>4 DEF InitDelete, AtPoint
        <4> HIDE DEF pc
        <4> QED BY <4>1, RequestTyped, Words DEF Request, RequestShape
      <3>2. req' = [req EXCEPT ![r] = q]
        BY <2>2
      <3> QED BY <1>4, <2>2, <3>1, <3>2, Moved, DeletedType, TypedCart
          DEF InitDelete, Typed, TypeOK
    <2> QED BY <1>4, <2>1, <2>2 DEF InitDelete
  <1>5. CASE InitCreate(r)
    <2>1. req' \in [Requests -> Request] /\ Shape'
      BY <1>2, <1>5, Words, Gone DEF InitCreate, Typed, TypeOK
    <2> DEFINE made == [provider |-> "cod", status |-> "pending", amount |-> req[r].amount]
               crossed == past.crossed \/ AboutToCreate(Requests \ {r})
               outdated(s) == IF req[r].amount = collection THEN past.outdated
                              ELSE past.outdated \cup {s}
    <2>2. PICK s \in SessionIds :
              /\ sessions' = [sessions EXCEPT ![s] = made]
              /\ past' = [past EXCEPT !.crossed = crossed, !.outdated = outdated(s)]
      BY <1>5 DEF InitCreate, Fresh
    <2>3. made \in Session
      BY DEF Typed, TypeOK, Session, Request
    <2>4. crossed \in BOOLEAN
      OBVIOUS
    <2>5. outdated(s) \subseteq SessionIds
      BY DEF Typed, TypeOK, Past
    <2> HIDE DEF made, crossed, outdated
    <2>6. sessions' \in [SessionIds -> Session]
      BY <2>2, <2>3 DEF Typed, TypeOK
    <2>7. past' \in Past
      BY <2>2, <2>4, <2>5 DEF Typed, TypeOK, Past
    <2> QED BY <1>5, <2>1, <2>6, <2>7, TypedCart DEF InitCreate, Typed, TypeOK
  <1>6. CASE InitConfirm(r)
    <2>1. CASE Finish(r)
      BY <1>6, <2>1, Finished, TypedCart DEF InitConfirm, Typed, TypeOK
    <2>2. CASE Goto(r, AfterInit(req[r].op))
      BY <1>1, <1>2, <1>6, <2>2, Gone, TypedCart DEF InitConfirm, Typed, TypeOK
    <2> QED BY <1>6, <2>1, <2>2 DEF InitConfirm
  <1> QED BY <1>3, <1>4, <1>5, <1>6

\* The three steps of paymentAuthorizeWorkflow.
LEMMA TypedAuth ==
    ASSUME Typed, NEW r \in Requests, AuthRead(r) \/ AuthAuthorize(r) \/ AuthConfirm(r)
    PROVE  Typed'
  <1> USE DEF cartVars
  <1>1. RequestShape([req[r] EXCEPT !.pc = "place.read"])
    BY DEF Typed, TypeOK, Shape, RequestShape, Request
  <1>2. CASE AuthRead(r)
    <2>1. CASE Finish(r)
      BY <1>2, <2>1, Finished, TypedCart DEF AuthRead, Typed, TypeOK
    <2>2. CASE Goto(r, "place.read")
      BY <1>1, <1>2, <2>2, Words, Gone, TypedCart DEF AuthRead, Typed, TypeOK
    <2>3. ASSUME NEW s \in CodSessions,
                 req' = [req EXCEPT ![r].pc = "auth.authorize", ![r].sid = s]
          PROVE  Typed'
      <3> DEFINE q == [req[r] EXCEPT !.pc = "auth.authorize", !.sid = s]
      <3>1. q \in Request /\ RequestShape(q)
        <4>1. s \in SessionIds
          BY DEF CodSessions, Live
        <4> QED BY <4>1, RequestTyped, Words DEF Request, RequestShape
      <3>2. req' = [req EXCEPT ![r] = q]
        BY <2>3
      <3> QED BY <1>2, <3>1, <3>2, Moved, TypedCart DEF AuthRead, Typed, TypeOK
    <2> QED BY <1>2, <2>1, <2>2, <2>3 DEF AuthRead
  <1>3. CASE AuthAuthorize(r)
    <2> DEFINE s == req[r].sid
    <2>1. CASE Finish(r) /\ UNCHANGED <<sessions, past>>
      BY <1>3, <2>1, Finished, TypedCart DEF AuthAuthorize, Typed, TypeOK
    <2>2. CASE /\ s \in Live
               /\ sessions' = [sessions EXCEPT ![s].status = "authorized"]
               /\ past' = [past EXCEPT
                   !.shared = IF \E q \in Requests \ {r}:
                                     req[q].pc = "auth.authorize" /\ req[q].sid = s
                               THEN @ \cup {s} ELSE @]
               /\ Goto(r, "auth.confirm")
      <3>1. s \in SessionIds /\ sessions' \in [SessionIds -> Session]
        BY <2>2 DEF Live, Typed, TypeOK, Session
      <3>2. past' \in Past
        BY <2>2, <3>1 DEF Typed, TypeOK, Past
      <3>3. RequestShape([req[r] EXCEPT !.pc = "auth.confirm"])
        BY <3>1 DEF Typed, TypeOK, Shape, RequestShape, Request
      <3>4. req' \in [Requests -> Request] /\ Shape'
        BY <2>2, <3>3, Words, Gone DEF Typed, TypeOK
      <3> QED BY <1>3, <3>1, <3>2, <3>4, TypedCart DEF AuthAuthorize, Typed, TypeOK
    <2> QED BY <1>3, <2>1, <2>2 DEF AuthAuthorize
  <1>4. CASE AuthConfirm(r)
    <2>1. CASE Finish(r) /\ UNCHANGED <<authorized, past>>
      BY <1>4, <2>1, Finished, TypedCart DEF AuthConfirm, Typed, TypeOK
    <2>2. ASSUME NEW s \in CodSessions,
                 authorized' = [authorized EXCEPT ![s] = @ + 1],
                 past' = [past EXCEPT !.shared = IF s = req[r].sid THEN @ ELSE @ \cup {s}],
                 Goto(r, "place.read")
          PROVE  Typed'
      <3>1. s \in SessionIds
        BY DEF CodSessions, Live
      <3>2. past' \in Past
        BY <2>2, <3>1 DEF Typed, TypeOK, Past
      <3>3. authorized' \in [SessionIds -> Nat]
        <4>1. authorized[s] + 1 \in Nat
          BY <3>1 DEF Typed, TypeOK
        <4> QED BY <2>2, <4>1 DEF Typed, TypeOK
      <3>4. req' \in [Requests -> Request] /\ Shape'
        BY <1>1, <2>2, Words, Gone DEF Typed, TypeOK
      <3>5. Errands'
        BY <1>4 DEF AuthConfirm, Errands, Typed, orderVars
      <3> QED BY <1>4, <3>2, <3>3, <3>4, <3>5
          DEF AuthConfirm, Typed, TypeOK, promoVars, orderVars
    <2> QED BY <1>4, <2>1, <2>2 DEF AuthConfirm
  <1> QED BY <1>2, <1>3, <1>4

\* The guard of the placement.
LEMMA DecisionType ==
    ASSUME Typed, NEW r \in Requests, NEW read \in Cart, NEW void \in SUBSET Coupons,
           PlaceDecision(r, read, void)
    PROVE  req' \in [Requests -> Request] /\ Shape'
  <1>1. CASE Finish(r)
    BY <1>1, Finished DEF Typed, TypeOK
  <1>2. CASE req' = [req EXCEPT ![r].pc = "stock",
                                ![r].saw = IF cart = read THEN cart ELSE None,
                                ![r].void = void]
    <2> DEFINE saw == IF cart = read THEN cart ELSE None
               q == [req[r] EXCEPT !.pc = "stock", !.saw = saw, !.void = void]
    <2>1. q \in Request /\ RequestShape(q)
      <3>1. saw \in Cart \cup {None}
        BY DEF Typed, TypeOK
      <3> HIDE DEF saw
      <3> QED BY <3>1, RequestTyped, Words DEF Request, RequestShape
    <2>2. req' = [req EXCEPT ![r] = q]
      BY <1>2
    <2> QED BY <2>1, <2>2, Moved DEF Typed, TypeOK
  <1> QED BY <1>1, <1>2 DEF PlaceDecision

LEMMA TypedPlace ==
    ASSUME Typed, NEW r \in Requests,
           PlaceRead(r) \/ PlaceReplace(r) \/ PlaceCheck(r) \/ StockCheck(r)
    PROVE  Typed'
  <1> USE DEF cartVars
  <1>1. RequestShape([req[r] EXCEPT !.pc = "complete"])
    BY DEF Typed, TypeOK, Shape, RequestShape, Request
  <1>2. CASE PlaceRead(r)
    <2> DEFINE ranOut == usedUp \cup expired
    <2>1. CASE Finish(r)
      BY <1>2, <2>1, Finished, TypedCart DEF PlaceRead, Typed, TypeOK
    <2>2. CASE PlaceDecision(r, cart, ranOut)
      <3>1. cart \in Cart /\ ranOut \in SUBSET Coupons
        BY DEF Typed, TypeOK
      <3> QED BY <1>2, <2>2, <3>1, DecisionType, TypedCart DEF PlaceRead, Typed, TypeOK
    <2>3. CASE req' = [req EXCEPT ![r].pc = "place.replace", ![r].saw = cart, ![r].void = ranOut]
      <3> DEFINE q == [req[r] EXCEPT !.pc = "place.replace", !.saw = cart, !.void = ranOut]
      <3>1. q \in Request /\ RequestShape(q)
        <4>1. cart \in Cart /\ ranOut \in SUBSET Coupons
          BY DEF Typed, TypeOK
        <4> HIDE DEF ranOut
        <4> QED BY <4>1, RequestTyped, Words DEF Request, RequestShape
      <3>2. req' = [req EXCEPT ![r] = q]
        BY <2>3
      <3> QED BY <1>2, <3>1, <3>2, Moved, TypedCart DEF PlaceRead, Typed, TypeOK
    <2> QED BY <1>2, <2>1, <2>2, <2>3 DEF PlaceRead
  <1>3. CASE PlaceReplace(r)
    <2> DEFINE with == [cart EXCEPT !.coupons = req[r].saw.coupons \ expired]
    <2>1. CASE Finish(r) /\ UNCHANGED cartVars
      BY <1>3, <2>1, Finished, TypedCart DEF PlaceReplace, Typed, TypeOK
    <2>2. CASE ChangePromotions(with) /\ Goto(r, "place.check")
      <3>1. req[r].saw \in Cart /\ req[r] \in Request
        BY <1>3 DEF PlaceReplace, AtPoint, Typed, TypeOK, Shape, RequestShape
      <3>2. with \in Cart
        BY <3>1 DEF Typed, TypeOK, Cart
      <3>3. RequestShape([req[r] EXCEPT !.pc = "place.check"])
        BY <3>1 DEF Typed, Shape, RequestShape, Request
      <3>4. req' \in [Requests -> Request] /\ Shape'
        BY <2>2, <3>3, Words, Gone DEF Typed, TypeOK
      <3> QED BY <1>3, <2>2, <3>2, <3>4, ChangedType, TypedCart
          DEF PlaceReplace, ChangePromotions, Typed, TypeOK
    <2> QED BY <1>3, <2>1, <2>2 DEF PlaceReplace
  <1>4. CASE PlaceCheck(r)
    <2>1. CASE Finish(r)
      BY <1>4, <2>1, Finished, TypedCart DEF PlaceCheck, Typed, TypeOK
    <2>2. CASE PlaceDecision(r, req[r].saw, req[r].void)
      <3>1. req[r].saw \in Cart /\ req[r].void \in SUBSET Coupons
        BY <1>4 DEF PlaceCheck, AtPoint, Typed, TypeOK, Shape, RequestShape, Request
      <3> QED BY <1>4, <2>2, <3>1, DecisionType, TypedCart DEF PlaceCheck, Typed, TypeOK
    <2> QED BY <1>4, <2>1, <2>2 DEF PlaceCheck
  <1>5. CASE StockCheck(r)
    <2>1. CASE Finish(r)
      BY <1>5, <2>1, Finished, TypedCart DEF StockCheck, Typed, TypeOK
    <2>2. CASE Goto(r, "complete")
      BY <1>1, <1>5, <2>2, Words, Gone, TypedCart DEF StockCheck, Typed, TypeOK
    <2> QED BY <1>5, <2>1, <2>2 DEF StockCheck
  <1> QED BY <1>2, <1>3, <1>4, <1>5

LEMMA TypedComplete ==
    ASSUME Typed, NEW r \in Requests, Complete(r)
    PROVE  Typed'
  <1>1. req' \in [Requests -> Request] /\ Shape'
    <2>1. CASE Finish(r)
      BY <2>1, Finished DEF Typed, TypeOK
    <2>2. CASE req' = [q \in Requests |-> Idle]
      BY <2>2, IdleShape DEF Shape
    <2> QED BY <2>1, <2>2 DEF Complete
  <1>2. ASSUME NEW s \in Payable,
               order' = [cart |-> cart, checked |-> req[r].saw, void |-> req[r].void,
                         provider |-> sessions[s].provider,
                         amount |-> sessions[s].amount,
                         outdated |-> s \in past.outdated],
               payment' = [provider |-> sessions[s].provider, state |-> "authorized",
                           refunds |-> 0, recorded |-> 0, asked |-> 0],
               sessions' = [sessions EXCEPT ![s].status = "authorized"],
               inStock' = inStock \ cart.items
        PROVE  Typed'
    <2>1. s \in SessionIds /\ sessions[s] \in Session
      BY DEF Payable, Live, Typed, TypeOK
    <2>2. sessions' \in [SessionIds -> Session]
      BY <1>2, <2>1 DEF Typed, TypeOK, Session
    <2>3. /\ cart \in Cart /\ req[r].saw \in Cart \cup {None}
          /\ req[r].void \in SUBSET Coupons
          /\ (s \in past.outdated) \in BOOLEAN
      BY DEF Typed, TypeOK, Request
    <2>4. order' \in OrderRecord
      BY <1>2, <2>1, <2>3 DEF OrderRecord, Session
    <2>5. payment' \in Payment
      BY <1>2, <2>1, CheckoutAssumption DEF Payment, Session
    <2>6. Errands'
      BY <1>2, <2>5, NoneAssumption DEF Complete, Errands, Typed
    <2> QED BY <1>1, <1>2, <2>2, <2>4, <2>5, <2>6 DEF Complete, Typed, TypeOK, promoVars
  <1>3. CASE UNCHANGED <<sessions, inStock, order, payment>>
    BY <1>1, <1>3, TypedCart DEF Complete, Typed, TypeOK, orderVars
  <1> QED BY <1>2, <1>3 DEF Complete

\* A completion that takes effect leaves an order.
LEMMA Placed ==
    ASSUME Typed, NEW r \in Requests, Complete(r), ~UNCHANGED <<sessions, order, payment>>
    PROVE  order' # None
  <1>1. PICK t \in Payable :
            order' = [cart |-> cart, checked |-> req[r].saw, void |-> req[r].void,
                      provider |-> sessions[t].provider,
                      amount |-> sessions[t].amount,
                      outdated |-> t \in past.outdated]
    BY DEF Complete
  <1>2. /\ t \in SessionIds /\ cart \in Cart /\ req[r] \in Request
        /\ (t \in past.outdated) \in BOOLEAN /\ sessions \in [SessionIds -> Session]
    BY DEF Payable, Live, Typed, TypeOK
  <1>3. order' \in OrderRecord
    BY <1>1, <1>2 DEF OrderRecord, Session, Request
  <1> QED BY <1>3, NoneAssumption

\* Requests that start or break off.
LEMMA TypedBegin ==
    ASSUME Typed, NEW r \in Requests,
           \/ \E c \in Coupons : BeginApply(r, c)
           \/ \E o \in Options : BeginShipping(r, o)
           \/ BeginComplete(r) \/ Abort(r)
    PROVE  Typed'
  <1> USE DEF cartVars
  <1>1. ASSUME NEW c \in Coupons, BeginApply(r, c) PROVE Typed'
    <2>1. req' \in [Requests -> Request] /\ Shape' /\ past' \in Past
      BY <1>1, Started DEF BeginApply, Typed, TypeOK
    <2> QED BY <1>1, <2>1, TypedCart DEF BeginApply, Typed, TypeOK
  <1>2. ASSUME NEW o \in Options, BeginShipping(r, o) PROVE Typed'
    <2>1. req' \in [Requests -> Request] /\ Shape' /\ past' \in Past
      BY <1>2, Started DEF BeginShipping, Typed, TypeOK
    <2> QED BY <1>2, <2>1, TypedCart DEF BeginShipping, Typed, TypeOK
  <1>3. CASE BeginComplete(r)
    <2>1. req' \in [Requests -> Request] /\ Shape' /\ past' \in Past
      BY <1>3, Started DEF BeginComplete, Typed, TypeOK
    <2> QED BY <1>3, <2>1, TypedCart DEF BeginComplete, Typed, TypeOK
  <1>4. CASE Abort(r)
    <2>1. req' \in [Requests -> Request] /\ Shape'
      BY <1>4, Finished DEF Abort, Typed, TypeOK
    <2>2. past' \in Past
      BY <1>4, CheckoutAssumption DEF Abort, Typed, TypeOK, Past
    <2> QED BY <1>4, <2>1, <2>2, TypedCart DEF Abort, Typed, TypeOK
  <1> QED BY <1>1, <1>2, <1>3, <1>4

\* Requests of one step.
LEMMA Bounds == MaxBegun \in Nat /\ MaxMishaps \in Nat /\ MaxRefunds \in Nat
  BY CheckoutAssumption

LEMMA OneMoreBegun ==
    ASSUME past \in Past, past.begun < MaxBegun, NEW crossed \in BOOLEAN, NEW late \in SUBSET Items,
           past' = [past EXCEPT !.begun = @ + 1, !.crossed = crossed, !.late = late]
    PROVE  past' \in Past
  <1>1. past.begun + 1 \in 0..MaxBegun
    BY Bounds DEF Past
  <1> QED BY <1>1 DEF Past

LEMMA TypedAtOnce ==
    ASSUME Typed, AtOnce,
           \/ \E c \in Coupons : RemoveCoupon(c)
           \/ \E i \in Items : AddItem(i) \/ RemoveItem(i)
           \/ InitiateRazorpay
    PROVE  Typed'
  <1> USE DEF cartVars
  <1>1. Shape' /\ req' \in [Requests -> Request]
    BY DEF AtOnce, Typed, TypeOK, Shape
  <1>2. ASSUME NEW c \in Cart, ChangeCart(c), past' \in Past
        PROVE  Typed'
    BY <1>1, <1>2, ChangedType, TypedCart DEF AtOnce, Typed, TypeOK
  <1>3. ASSUME NEW c \in Coupons, RemoveCoupon(c) PROVE Typed'
    <2>1. [cart EXCEPT !.coupons = @ \ {c}] \in Cart
      BY DEF Typed, TypeOK, Cart
    <2>2. past' \in Past
      BY <1>3, CheckoutAssumption DEF RemoveCoupon, AtOnce, Typed, TypeOK, Past
    <2> QED BY <1>2, <1>3, <2>1, <2>2 DEF RemoveCoupon, ChangePromotions
  <1>4. ASSUME NEW i \in Items, NEW c \in Cart, NEW late \in SUBSET Items, ChangeCart(c),
               past' = [past EXCEPT !.begun = @ + 1, !.late = late]
        PROVE  Typed'
    <2>1. /\ past' = [past EXCEPT !.begun = @ + 1, !.crossed = past.crossed, !.late = late]
          /\ past.crossed \in BOOLEAN
      BY <1>4 DEF Typed, TypeOK, Past
    <2>2. past' \in Past
      BY <2>1, OneMoreBegun DEF AtOnce, Typed, TypeOK
    <2> QED BY <1>2, <1>4, <2>2
  <1>5. ASSUME NEW i \in Items, AddItem(i) \/ RemoveItem(i) PROVE Typed'
    <2>1. /\ [cart EXCEPT !.items = @ \cup {i}] \in Cart
          /\ [cart EXCEPT !.items = @ \ {i}] \in Cart
      BY DEF Typed, TypeOK, Cart
    <2>2. past.late \in SUBSET Items
      BY DEF Typed, TypeOK, Past
    <2>3. CASE AddItem(i)
      <3> DEFINE late == IF CodInSight THEN past.late \cup {i} ELSE past.late
      <3>1. late \in SUBSET Items
        BY <2>2
      <3>2. past' = [past EXCEPT !.begun = @ + 1, !.late = late]
        BY <2>3 DEF AddItem
      <3> HIDE DEF late
      <3> QED BY <1>4, <2>1, <2>3, <3>1, <3>2 DEF AddItem
    <2>4. CASE RemoveItem(i)
      <3> DEFINE late == past.late \ {i}
      <3>1. late \in SUBSET Items
        BY <2>2
      <3>2. past' = [past EXCEPT !.begun = @ + 1, !.late = late]
        BY <2>4 DEF RemoveItem
      <3> HIDE DEF late
      <3> QED BY <1>4, <2>1, <2>4, <3>1, <3>2 DEF RemoveItem
    <2> QED BY <1>5, <2>3, <2>4
  <1>6. CASE InitiateRazorpay
    <2> DEFINE made == [provider |-> "razorpay", status |-> "pending", amount |-> collection]
               crossed == past.crossed \/ AboutToCreate(Requests)
    <2>1. PICK s \in SessionIds : sessions' = [Deleted(Live) EXCEPT ![s] = made]
      BY <1>6 DEF InitiateRazorpay, Fresh
    <2>2. made \in Session
      BY <1>6 DEF InitiateRazorpay, Typed, TypeOK, Session
    <2>3. past' = [past EXCEPT !.begun = @ + 1, !.crossed = crossed]
      BY <1>6 DEF InitiateRazorpay
    <2>4. crossed \in BOOLEAN
      OBVIOUS
    <2> HIDE DEF made, crossed
    <2>5. sessions' \in [SessionIds -> Session]
      BY <2>1, <2>2, DeletedType DEF Typed, TypeOK
    <2>6. past' \in Past
      <3>1. /\ past' = [past EXCEPT !.begun = @ + 1, !.crossed = crossed,
                                    !.late = past.late]
            /\ past.late \in SUBSET Items
        BY <2>3 DEF Typed, TypeOK, Past
      <3> QED BY <2>4, <3>1, OneMoreBegun DEF AtOnce, Typed, TypeOK
    <2> QED BY <1>1, <1>6, <2>5, <2>6, TypedCart DEF InitiateRazorpay, AtOnce, Typed, TypeOK
  <1> QED BY <1>3, <1>5, <1>6

\* The customer, the administrator and the other customers.
LEMMA TypedAround ==
    ASSUME Typed,
           \/ CreateCollection
           \/ \E s \in SessionIds, status \in {"authorized", "failed"} :
                  PaymentRecorded(s, status)
           \/ \E i \in Items : SoldElsewhere(i)
           \/ \E c \in Coupons : RunsOut(c)
    PROVE  Typed'
  <1> USE DEF cartVars
  <1>1. UNCHANGED req => Shape' /\ req' \in [Requests -> Request]
    BY DEF Typed, TypeOK, Shape
  <1>2. CASE CreateCollection
    BY <1>1, <1>2, TotalType, TypedCart DEF CreateCollection, Typed, TypeOK
  <1>3. ASSUME NEW s \in SessionIds, NEW status \in {"authorized", "failed"},
               PaymentRecorded(s, status)
        PROVE  Typed'
    <2>1. sessions' \in [SessionIds -> Session]
      BY <1>3 DEF PaymentRecorded, Typed, TypeOK, Session
    <2> QED BY <1>1, <1>3, <2>1, TypedCart DEF PaymentRecorded, Typed, TypeOK
  <1>4. ASSUME Mishap PROVE past' \in Past
    BY <1>4, CheckoutAssumption DEF Mishap, Typed, TypeOK, Past
  <1>5. ASSUME NEW i \in Items, SoldElsewhere(i) PROVE Typed'
    <2>1. past' \in Past
      BY <1>4, <1>5 DEF SoldElsewhere
    <2> QED BY <1>1, <1>5, <2>1
        DEF SoldElsewhere, Typed, TypeOK, Errands, promoVars, orderVars
  <1>6. ASSUME NEW c \in Coupons, RunsOut(c) PROVE Typed'
    <2>1. past' \in Past
      BY <1>4, <1>6 DEF RunsOut
    <2>2. usedUp' \subseteq Coupons /\ expired' \subseteq Coupons
      BY <1>6 DEF RunsOut, Typed, TypeOK
    <2> QED BY <1>1, <1>6, <2>1, <2>2 DEF RunsOut, Typed, TypeOK, Errands, orderVars
  <1> QED BY <1>2, <1>3, <1>5, <1>6

\* Captures, cancellations and refunds, one point at a time.
Settlement == CancelPayment \/ \E r \in Requests : Settle(r)

LEMMA SettlementLeaves ==
    ASSUME past \in Past, Settlement
    PROVE  /\ UNCHANGED checkoutVars
           /\ past'.couponRace = past.couponRace /\ past'.crossed = past.crossed
           /\ past'.outdated = past.outdated /\ past'.shared = past.shared
           /\ past'.late = past.late
  <1>1. UNCHANGED checkoutVars
    BY DEF Settlement, Settle, CancelPayment, CaptureRead, CaptureStore, RefundRead, RefundCall,
           RefundFails, RefundStore, ErrandBreaks
  <1>2. \/ UNCHANGED past
        \/ \E m, n : past' = [past EXCEPT !.mishaps = m, !.lost = n]
    BY DEF Settlement, Settle, CancelPayment, CaptureRead, CaptureStore, RefundRead, RefundCall,
           RefundFails, RefundStore, ErrandBreaks
  <1> QED BY <1>1, <1>2 DEF Past

LEMMA TypedPayment ==
    ASSUME Typed, Settlement
    PROVE  Typed' /\ payment' \in Payment
  <1> USE DEF checkoutVars, cartVars, promoVars
  <1>1. ASSUME payment' \in Payment, past' \in Past, NEW r \in Requests, NEW e \in Errand,
               e.sent => e.pc = "refund.store", errand' = [errand EXCEPT ![r] = e],
               UNCHANGED checkoutVars
        PROVE  Typed' /\ payment' \in Payment
    <2>1. TypeOK' /\ Shape'
      BY <1>1 DEF Typed, TypeOK, Shape
    <2>2. Errands'
      BY <1>1, NoneAssumption DEF Errands, Typed, TypeOK
    <2> QED BY <1>1, <2>1, <2>2 DEF Typed
  <1>2. past \in Past /\ NoErrand \in Errand /\ errand \in [Requests -> Errand]
    BY DEF Typed, TypeOK, NoErrand, Errand
  <1>3. CASE CancelPayment
    <2>1. payment' \in Payment
      BY <1>3 DEF CancelPayment, Typed, TypeOK, Payment
    <2>2. payment # None
      BY <1>3 DEF CancelPayment
    <2> QED BY <1>3, <2>1, <2>2, NoneAssumption DEF CancelPayment, Typed, TypeOK, Shape, Errands
  <1>4. ASSUME NEW r \in Requests, Settle(r) PROVE Typed' /\ payment' \in Payment
    <2> DEFINE gone(pc) == [errand[r] EXCEPT !.pc = pc]
    <2>1. payment \in Payment
      BY <1>4 DEF Settle, CaptureRead, CaptureStore, MayCapture, RefundRead, RefundCall,
                  RefundFails, RefundStore, ErrandBreaks, Typed, TypeOK, Errands
    <2>2. ASSUME NEW pc \in {"capture", "refund.call", "refund.store"}, errand[r].pc = "idle",
                 Send(r, pc)
          PROVE  /\ gone(pc) \in Errand
                 /\ gone(pc).sent => gone(pc).pc = "refund.store"
                 /\ errand' = [errand EXCEPT ![r] = gone(pc)]
      BY <1>2, <2>2 DEF Send, Errand, Errands, Typed
    <2> HIDE DEF gone
    <2>3. ASSUME Done(r), payment' \in Payment, past' \in Past, UNCHANGED checkoutVars
          PROVE  Typed' /\ payment' \in Payment
      BY <1>1, <1>2, <2>3 DEF Done, NoErrand
    <2>4. CASE CaptureRead(r)
      BY <1>1, <1>2, <2>1, <2>2, <2>4 DEF CaptureRead, MayCapture
    <2>5. CASE CaptureStore(r) \/ RefundStore(r)
      <3>1. payment' \in Payment
        <4>1. payment.recorded + 1 \in Nat
          BY <2>1 DEF Payment
        <4> QED BY <2>1, <2>5, <4>1 DEF CaptureStore, RefundStore, Payment
      <3>2. Done(r) /\ UNCHANGED <<checkoutVars, past>>
        BY <2>5 DEF CaptureStore, RefundStore
      <3>3. past' \in Past
        BY <1>2, <3>2
      <3>4. UNCHANGED checkoutVars
        BY <3>2
      <3> QED BY <2>3, <3>1, <3>2, <3>3, <3>4
    <2>6. CASE RefundRead(r)
      <3>1. payment' \in Payment
        BY <2>1, <2>6, CheckoutAssumption DEF RefundRead, Payment
      <3> QED BY <1>1, <1>2, <2>2, <2>6, <3>1 DEF RefundRead
    <2>7. CASE RefundCall(r)
      <3> DEFINE e == [pc |-> "refund.store", sent |-> TRUE]
      <3>1. PICK again \in {0, 1} :
               /\ past.mishaps + again <= MaxMishaps
               /\ payment' = [payment EXCEPT !.refunds = @ + 1 + again]
               /\ past' = [past EXCEPT !.mishaps = @ + again, !.lost = @ + again]
        BY <2>7 DEF RefundCall
      <3>2. payment' \in Payment
        <4>1. payment.refunds + 1 + again \in Nat
          BY <2>1 DEF Payment
        <4> QED BY <2>1, <3>1, <4>1 DEF Payment
      <3>3. past' \in Past
        <4>1. past.mishaps + again \in 0..MaxMishaps /\ past.lost + again \in Nat
          BY <1>2, <3>1, CheckoutAssumption DEF Past
        <4> QED BY <1>2, <3>1, <4>1 DEF Past
      <3>4. e \in Errand /\ (e.sent => e.pc = "refund.store")
        BY DEF Errand
      <3>5. errand' = [errand EXCEPT ![r] = e] /\ UNCHANGED checkoutVars
        BY <2>7 DEF RefundCall
      <3> HIDE DEF e
      <3> QED BY <1>1, <3>2, <3>3, <3>4, <3>5
    <2>8. CASE RefundFails(r)
      <3>1. PICK n \in {0, 1} :
               /\ payment' = [payment EXCEPT !.refunds = @ + n]
               /\ past' = [past EXCEPT !.mishaps = @ + 1, !.lost = @ + n]
        BY <2>8 DEF RefundFails
      <3>2. payment' \in Payment
        <4>1. payment.refunds + n \in Nat
          BY <2>1 DEF Payment
        <4> QED BY <2>1, <3>1, <4>1 DEF Payment
      <3>3. past' \in Past
        <4>1. past.mishaps + 1 \in 0..MaxMishaps /\ past.lost + n \in Nat
          BY <1>2, <2>8, CheckoutAssumption DEF RefundFails, Past
        <4> QED BY <1>2, <3>1, <4>1 DEF Past
      <3> QED BY <2>3, <2>8, <3>2, <3>3 DEF RefundFails
    <2>9. CASE ErrandBreaks(r)
      <3> DEFINE lost == IF errand[r].sent THEN past.lost + 1 ELSE past.lost
      <3>1. past.mishaps + 1 \in 0..MaxMishaps /\ lost \in Nat
        BY <1>2, <2>9, CheckoutAssumption DEF ErrandBreaks, Past
      <3>2. past' = [past EXCEPT !.mishaps = @ + 1, !.lost = lost]
        BY <2>9 DEF ErrandBreaks
      <3> HIDE DEF lost
      <3>3. past' \in Past
        BY <1>2, <3>1, <3>2 DEF Past
      <3> QED BY <2>1, <2>3, <2>9, <3>3 DEF ErrandBreaks
    <2> QED BY <1>4, <2>4, <2>5, <2>6, <2>7, <2>8, <2>9 DEF Settle
  <1> QED BY <1>3, <1>4 DEF Settlement

LEMMA TypedAtFirst == Init => Typed
  <1> SUFFICES ASSUME Init PROVE Typed
    OBVIOUS
  <1>1. cart \in Cart
    BY CheckoutAssumption DEF Init, Cart
  <1>2. sessions \in [SessionIds -> Session]
    BY Words DEF Init, NoSession, Session
  <1>3. req \in [Requests -> Request] /\ Shape
    BY IdleShape DEF Init, Shape
  <1>4. past \in Past
    BY CheckoutAssumption DEF Init, Past
  <1>5. errand \in [Requests -> Errand]
    BY DEF Init, NoErrand, Errand
  <1>6. Errands
    BY DEF Init, NoErrand, Errands
  <1> QED BY <1>1, <1>2, <1>3, <1>4, <1>5, <1>6 DEF Init, Typed, TypeOK

LEMMA TypedStep == Typed /\ [Next]_vars => Typed'
  <1> SUFFICES ASSUME Typed, [Next]_vars PROVE Typed'
    OBVIOUS
  <1>1. CASE UNCHANGED vars
    BY <1>1 DEF vars, Typed, TypeOK, Shape, Errands
  <1>2. ASSUME NEW r \in Requests, Advance(r) PROVE Typed'
    BY <1>2, TypedCoupons, TypedShipping, TypedInit, TypedAuth, TypedPlace, TypedComplete
    DEF Advance
  <1>3. ASSUME NEW r \in Requests,
               \/ \E c \in Coupons : BeginApply(r, c)
               \/ \E o \in Options : BeginShipping(r, o)
               \/ BeginComplete(r) \/ Abort(r)
        PROVE  Typed'
    BY <1>3, TypedBegin
  <1>4. ASSUME \/ \E c \in Coupons : RemoveCoupon(c)
               \/ \E i \in Items : AddItem(i) \/ RemoveItem(i)
               \/ InitiateRazorpay
        PROVE  Typed'
    <2>1. AtOnce
      BY <1>4 DEF RemoveCoupon, AddItem, RemoveItem, InitiateRazorpay
    <2> QED BY <1>4, <2>1, TypedAtOnce
  <1>5. ASSUME \/ CreateCollection
               \/ \E s \in SessionIds, status \in {"authorized", "failed"} :
                      PaymentRecorded(s, status)
               \/ \E i \in Items : SoldElsewhere(i)
               \/ \E c \in Coupons : RunsOut(c)
        PROVE  Typed'
    BY <1>5, TypedAround
  <1>6. ASSUME Settlement PROVE Typed'
    BY <1>6, TypedPayment
  <1> QED BY <1>1, <1>2, <1>3, <1>4, <1>5, <1>6 DEF Next, Settlement

-----------------------------------------------------------------------------
\* How a request gets where it stands.

\* The points no part of the invariant speaks of.
Plain == {"idle", "apply.read", "init.read", "init.confirm", "shipping.set", "auth.read",
          "place.read"}

\* The step that brought q to the point where it stands after it.
Arrival(q) ==
    \/ req'[q] = req[q]
    \/ /\ req'[q].pc \in Plain
       /\ \/ req'[q].op = req[q].op /\ req'[q].x = req[q].x /\ req'[q].void = req[q].void
          \/ req'[q].op # "shipping" /\ req'[q].void = {}
          \/ /\ req'[q].x \in NamedCod => cart.items \subseteq Eligible
             /\ req'[q].void = {}
             /\ UNCHANGED cart
    \/ /\ req'[q].op = req[q].op
       /\ req'[q].x = req[q].x
       /\ \/ /\ req'[q].pc = "apply.add" /\ ApplyRead(q)
             /\ req'[q].saw = cart /\ req'[q].void = req[q].void
             /\ StackingAllowed(cart, req[q].x) /\ req[q].x \notin cart.coupons
          \/ /\ req'[q].pc \in {"init.delete", "init.create"} /\ InitRead(q)
             /\ collection # None /\ req'[q].todo = Live /\ req'[q].void = req[q].void
             /\ req'[q].pc = "init.create" => Live = {}
          \/ /\ req'[q].pc \in {"init.delete", "init.create"} /\ InitDelete(q)
             /\ req[q].pc = "init.delete" /\ req'[q].void = req[q].void
             /\ \E s \in req[q].todo :
                    /\ sessions' = Deleted({s}) /\ req'[q].todo = req[q].todo \ {s}
                    /\ req'[q].pc = "init.create" => req[q].todo = {s}
          \/ /\ req'[q].pc = "auth.authorize" /\ AuthRead(q) /\ req'[q].void = req[q].void
             /\ req'[q].sid \in CodSessions /\ ~IsAuthorized(req'[q].sid)
          \/ /\ req'[q].pc = "auth.confirm" /\ AuthAuthorize(q) /\ req'[q].void = req[q].void
             /\ req[q].pc = "auth.authorize"
             /\ req'[q].sid = req[q].sid /\ req[q].sid \in Live
          \/ /\ req'[q].pc = "place.replace" /\ PlaceRead(q)
             /\ req'[q].saw = cart /\ req'[q].void = usedUp \cup expired
             /\ WithinUsage(cart) /\ \E c \in cart.coupons : StackingAllowed(cart, c)
          \/ /\ req'[q].pc = "place.check" /\ PlaceReplace(q) /\ req[q].pc = "place.replace"
             /\ req'[q].saw = req[q].saw /\ req'[q].void = req[q].void
             /\ cart'.coupons = req[q].saw.coupons \ expired
          \/ /\ req'[q].pc = "stock" /\ PlaceRead(q)
             /\ req'[q].saw = cart /\ req'[q].void = usedUp \cup expired
             /\ cart.coupons = {} /\ PriceIntegrity(cart)
          \/ /\ req'[q].pc = "stock" /\ PlaceCheck(q) /\ req[q].pc = "place.check"
             /\ req'[q].saw = None \/ (req'[q].saw = req[q].saw /\ cart = req[q].saw)
             /\ req'[q].void = req[q].void /\ PriceIntegrity(cart)
          \/ /\ req'[q].pc = "complete" /\ StockCheck(q) /\ req[q].pc = "stock"
             /\ req'[q].saw = req[q].saw /\ req'[q].void = req[q].void

\* What Finish and Goto leave behind.
LEMMA AfterFinish ==
    ASSUME Typed, NEW r \in Requests, Finish(r), NEW q \in Requests
    PROVE  Arrival(q) /\ (q # r => req'[q] = req[q]) /\ req'[r] = Idle
  BY DEF Finish, Typed, TypeOK, Idle, Arrival, Plain

LEMMA AfterGoto ==
    ASSUME Typed, NEW r \in Requests, NEW pc, Goto(r, pc), NEW q \in Requests
    PROVE  /\ q # r => req'[q] = req[q]
           /\ req'[r].pc = pc /\ req'[r].op = req[r].op /\ req'[r].x = req[r].x
           /\ req'[r].saw = req[r].saw /\ req'[r].void = req[r].void
           /\ req'[r].sid = req[r].sid /\ req'[r].todo = req[r].todo
  BY DEF Goto, Typed, TypeOK, Request

LEMMA AfterMove ==
    ASSUME Typed, NEW r \in Requests, NEW v, req' = [req EXCEPT ![r] = v], NEW q \in Requests
    PROVE  (q # r => req'[q] = req[q]) /\ req'[r] = v
  BY DEF Typed, TypeOK

LEMMA AfterStart ==
    ASSUME Typed, NEW r \in Requests, NEW op, NEW pc, NEW x, Start(r, op, pc, x),
           NEW q \in Requests
    PROVE  /\ q # r => req'[q] = req[q]
           /\ req'[r].pc = pc /\ req'[r].op = op /\ req'[r].x = x /\ req'[r].void = {}
  BY DEF Start, Typed, TypeOK, Idle

\* A decision for the order stands with the cart it was made of.
Decided(r, read, void) ==
    /\ req'[r].op = req[r].op /\ req'[r].x = req[r].x
    /\ req'[r].pc = "stock"
    /\ req'[r].saw = IF cart = read THEN cart ELSE None
    /\ req'[r].void = void
    /\ PriceIntegrity(cart)

LEMMA AfterDecision ==
    ASSUME Typed, NEW r \in Requests, NEW read, NEW void, PlaceDecision(r, read, void),
           ~Finish(r), NEW q \in Requests
    PROVE  (q # r => req'[q] = req[q]) /\ Decided(r, read, void)
  <1> DEFINE saw == IF cart = read THEN cart ELSE None
             v == [req[r] EXCEPT !.pc = "stock", !.saw = saw, !.void = void]
  <1>1. req' = [req EXCEPT ![r] = v] /\ PriceIntegrity(cart)
    BY DEF PlaceDecision
  <1>2. v.pc = "stock" /\ v.saw = saw /\ v.void = void /\ v.op = req[r].op /\ v.x = req[r].x
    BY DEF Typed, TypeOK, Request
  <1> HIDE DEF v
  <1>3. (q # r => req'[q] = req[q]) /\ req'[r] = v
    BY <1>1, AfterMove
  <1> QED BY <1>1, <1>2, <1>3 DEF Decided

LEMMA Arrivals ==
    ASSUME Typed, [Next]_vars, NEW q \in Requests
    PROVE  Arrival(q)
  <1> USE DEF cartVars
  <1>1. ASSUME UNCHANGED req PROVE Arrival(q)
    BY <1>1 DEF Arrival
  <1>2. ASSUME NEW r \in Requests, NEW pc \in Plain, Goto(r, pc) PROVE Arrival(q)
    BY <1>2, AfterGoto DEF Arrival
  <1>3. ASSUME NEW r \in Requests, BeginApply(r, req'[r].x) \/ BeginComplete(r) PROVE Arrival(q)
    BY <1>3, AfterStart DEF BeginApply, BeginComplete, Arrival, Plain
  <1>4. ASSUME NEW r \in Requests, NEW o \in Options, BeginShipping(r, o)
        PROVE  Arrival(q)
    BY <1>4, AfterStart DEF BeginShipping, OptionEligible, Arrival, Plain
  <1>5. ASSUME NEW r \in Requests, ApplyRead(r) \/ InitRead(r) \/ InitDelete(r) PROVE Arrival(q)
    <2>1. CASE Finish(r)
      BY <2>1, AfterFinish
    <2>2. CASE ApplyRead(r) /\ ~Finish(r)
      BY <2>2 DEF ApplyRead, Typed, TypeOK, Request, Arrival
    <2>3. CASE InitRead(r) /\ ~Finish(r)
      <3>1. AfterInit(req[r].op) \in Plain
        BY DEF AfterInit, Plain
      <3>2. CASE Goto(r, AfterInit(req[r].op))
        BY <1>2, <3>1, <3>2
      <3>3. CASE /\ HasCollection
                 /\ req' = [req EXCEPT
                        ![r].pc = IF SessionsToDelete = {} THEN "init.create" ELSE "init.delete",
                        ![r].amount = collection,
                        ![r].todo = SessionsToDelete]
        <4> DEFINE pc == IF SessionsToDelete = {} THEN "init.create" ELSE "init.delete"
                   v == [req[r] EXCEPT !.pc = pc, !.amount = collection, !.todo = SessionsToDelete]
        <4>1. req' = [req EXCEPT ![r] = v]
          BY <3>3
        <4>2. /\ v.pc \in {"init.delete", "init.create"} /\ (v.pc = "init.create" => Live = {})
              /\ v.todo = Live /\ v.op = req[r].op /\ v.x = req[r].x /\ v.void = req[r].void
          BY DEF SessionsToDelete, Typed, TypeOK, Request
        <4> HIDE DEF v
        <4>3. (q # r => req'[q] = req[q]) /\ req'[r] = v
          BY <4>1, AfterMove
        <4> QED BY <2>3, <3>3, <4>2, <4>3 DEF Arrival, HasCollection
      <3> QED BY <2>3, <3>2, <3>3 DEF InitRead
    <2>4. CASE InitDelete(r) /\ ~Finish(r)
      <3>1. PICK s \in req[r].todo :
                /\ sessions' = Deleted({s})
                /\ req' = [req EXCEPT
                        ![r].todo = @ \ {s},
                        ![r].pc = IF req[r].todo = {s} THEN "init.create" ELSE @]
        BY <2>4 DEF InitDelete
      <3> DEFINE pc == IF req[r].todo = {s} THEN "init.create" ELSE req[r].pc
                 v == [req[r] EXCEPT !.todo = @ \ {s}, !.pc = pc]
      <3>2. req' = [req EXCEPT ![r] = v]
        BY <3>1
      <3>3. /\ req[r].pc = "init.delete" /\ v.pc \in {"init.delete", "init.create"}
            /\ v.pc = "init.create" => req[r].todo = {s}
            /\ v.todo = req[r].todo \ {s}
            /\ v.op = req[r].op /\ v.x = req[r].x /\ v.void = req[r].void
        BY <2>4 DEF InitDelete, AtPoint, Typed, TypeOK, Request
      <3> HIDE DEF v
      <3>4. (q # r => req'[q] = req[q]) /\ req'[r] = v
        BY <3>2, AfterMove
      <3> QED BY <2>4, <3>1, <3>3, <3>4 DEF Arrival
    <2> QED BY <1>5, <2>1, <2>2, <2>3, <2>4
  <1>6. ASSUME NEW r \in Requests, AuthRead(r) \/ AuthAuthorize(r) \/ AuthConfirm(r)
        PROVE  Arrival(q)
    <2>0. "place.read" \in Plain
      BY DEF Plain
    <2>1. CASE Finish(r)
      BY <2>1, AfterFinish
    <2>2. CASE AuthRead(r) /\ ~Finish(r)
      <3>1. ASSUME NEW s \in CodSessions, ~AlreadyAuthorized(s),
                   req' = [req EXCEPT ![r].pc = "auth.authorize", ![r].sid = s]
            PROVE  Arrival(q)
        <4> DEFINE v == [req[r] EXCEPT !.pc = "auth.authorize", !.sid = s]
        <4>1. req' = [req EXCEPT ![r] = v]
          BY <3>1
        <4>2. /\ v.pc = "auth.authorize" /\ v.sid = s
              /\ v.op = req[r].op /\ v.x = req[r].x /\ v.void = req[r].void
          BY DEF Typed, TypeOK, Request
        <4> HIDE DEF v
        <4>3. (q # r => req'[q] = req[q]) /\ req'[r] = v
          BY <4>1, AfterMove
        <4> QED BY <2>2, <3>1, <4>2, <4>3 DEF Arrival, AlreadyAuthorized
      <3> QED BY <1>2, <2>0, <2>2, <3>1 DEF AuthRead
    <2>3. CASE AuthAuthorize(r) /\ ~Finish(r)
      BY <2>3, AfterGoto DEF AuthAuthorize, AtPoint, Arrival
    <2>4. CASE AuthConfirm(r) /\ ~Finish(r)
      BY <1>2, <2>0, <2>4 DEF AuthConfirm
    <2> QED BY <1>6, <2>1, <2>2, <2>3, <2>4
  <1>7. ASSUME NEW r \in Requests,
               PlaceRead(r) \/ PlaceReplace(r) \/ PlaceCheck(r) \/ StockCheck(r)
        PROVE  Arrival(q)
    <2>1. CASE Finish(r)
      BY <2>1, AfterFinish
    <2>2. CASE PlaceRead(r) /\ ~Finish(r)
      <3> DEFINE ranOut == usedUp \cup expired
      <3>1. CASE cart.coupons = {} /\ PlaceDecision(r, cart, ranOut)
        <4>1. (q # r => req'[q] = req[q]) /\ Decided(r, cart, ranOut)
          BY <2>2, <3>1, AfterDecision
        <4> QED BY <2>2, <3>1, <4>1 DEF Arrival, Decided
      <3>2. CASE /\ WithinUsage(cart) /\ \E c \in cart.coupons: StackingAllowed(cart, c)
                 /\ req' = [req EXCEPT ![r].pc = "place.replace", ![r].saw = cart,
                                       ![r].void = ranOut]
        <4> DEFINE v == [req[r] EXCEPT !.pc = "place.replace", !.saw = cart, !.void = ranOut]
        <4>1. req' = [req EXCEPT ![r] = v]
          BY <3>2
        <4>2. /\ v.pc = "place.replace" /\ v.saw = cart /\ v.void = ranOut
              /\ v.op = req[r].op /\ v.x = req[r].x
          <5>1. req[r] \in Request
            BY RequestTyped
          <5> QED BY <5>1 DEF Request
        <4> HIDE DEF v
        <4>3. (q # r => req'[q] = req[q]) /\ req'[r] = v
          BY <4>1, AfterMove
        <4>4. CASE q = r
          BY <2>2, <3>2, <4>2, <4>3, <4>4 DEF Arrival
        <4>5. CASE q # r
          BY <4>3, <4>5 DEF Arrival
        <4> QED BY <4>4, <4>5
      <3> QED BY <2>2, <3>1, <3>2 DEF PlaceRead
    <2>3. CASE PlaceReplace(r) /\ ~Finish(r)
      <3>1. cart'.coupons = req[r].saw.coupons \ expired
        BY <2>3 DEF PlaceReplace, ChangePromotions, ChangeCart, Typed, TypeOK, Cart
      <3>2. Goto(r, "place.check") /\ req[r].pc = "place.replace"
        BY <2>3 DEF PlaceReplace, AtPoint
      <3>3. /\ q # r => req'[q] = req[q]
            /\ req'[r].pc = "place.check"
            /\ req'[r].op = req[r].op /\ req'[r].x = req[r].x
            /\ req'[r].saw = req[r].saw /\ req'[r].void = req[r].void
        BY <3>2, AfterGoto
      <3> QED BY <2>3, <3>1, <3>2, <3>3 DEF Arrival
    <2>4. CASE PlaceCheck(r) /\ ~Finish(r)
      <3>1. PlaceDecision(r, req[r].saw, req[r].void) /\ req[r].pc = "place.check"
        BY <2>4 DEF PlaceCheck, AtPoint
      <3>2. (q # r => req'[q] = req[q]) /\ Decided(r, req[r].saw, req[r].void)
        BY <2>4, <3>1, AfterDecision
      <3> QED BY <2>4, <3>1, <3>2 DEF Arrival, Decided
    <2>5. CASE StockCheck(r) /\ ~Finish(r)
      BY <2>5, AfterGoto DEF StockCheck, AtPoint, Arrival
    <2> QED BY <1>7, <2>1, <2>2, <2>3, <2>4, <2>5
  <1>8. ASSUME NEW r \in Requests, ApplyAdd(r) \/ ShippingSet(r) \/ Complete(r) \/ Abort(r)
        PROVE  Arrival(q)
    <2>1. CASE Finish(r)
      BY <2>1, AfterFinish
    <2>2. CASE req' = [o \in Requests |-> Idle]
      BY <2>2 DEF Idle, Arrival, Plain
    <2> QED BY <1>8, <2>1, <2>2 DEF ApplyAdd, ShippingSet, Complete, Abort
  <1>9. ASSUME NEW r \in Requests, InitCreate(r) \/ InitConfirm(r) PROVE Arrival(q)
    <2>1. AfterInit(req[r].op) \in Plain /\ "init.confirm" \in Plain
      BY DEF AfterInit, Plain
    <2> QED BY <1>2, <1>9, <2>1, AfterFinish DEF InitCreate, InitConfirm
  <1>10. ASSUME \/ \E c \in Coupons : RemoveCoupon(c) \/ RunsOut(c)
                \/ \E i \in Items : AddItem(i) \/ RemoveItem(i) \/ SoldElsewhere(i)
                \/ InitiateRazorpay \/ CreateCollection
                \/ \E s \in SessionIds, status \in {"authorized", "failed"} :
                       PaymentRecorded(s, status)
                \/ Settlement \/ UNCHANGED vars
         PROVE  Arrival(q)
    <2>0. past \in Past
      BY DEF Typed, TypeOK
    <2>1. UNCHANGED req
      BY <1>10, <2>0, SettlementLeaves
      DEF RemoveCoupon, RunsOut, AddItem, RemoveItem, SoldElsewhere, InitiateRazorpay,
          CreateCollection, PaymentRecorded, AtOnce, checkoutVars, vars
    <2> QED BY <1>1, <2>1
  <1>11. ASSUME NEW r \in Requests, NEW c \in Coupons, BeginApply(r, c) PROVE Arrival(q)
    <2>1. req'[r].x = c
      BY <1>11, AfterStart DEF BeginApply
    <2> QED BY <1>3, <1>11, <2>1
  <1> QED BY <1>3, <1>4, <1>5, <1>6, <1>7, <1>8, <1>9, <1>10, <1>11
      DEF Next, Advance, Settlement

-----------------------------------------------------------------------------
\* How the cart, its sessions and the past change.

OtherSteps ==
    \/ \E r \in Requests : \/ ApplyRead(r) \/ InitRead(r) \/ InitConfirm(r) \/ AuthRead(r)
                           \/ AuthConfirm(r) \/ PlaceRead(r) \/ PlaceCheck(r) \/ StockCheck(r)
                           \/ Abort(r) \/ BeginComplete(r)
    \/ \E r \in Requests, c \in Coupons : BeginApply(r, c)
    \/ \E r \in Requests, o \in Options : BeginShipping(r, o)
    \/ \E c \in Coupons : RunsOut(c)
    \/ \E i \in Items : SoldElsewhere(i)
    \/ Settlement \/ UNCHANGED vars

\* What was once noted stays noted.
PastGrows ==
    /\ past.couponRace => past'.couponRace
    /\ past.crossed => past'.crossed
    /\ past.outdated \subseteq past'.outdated
    /\ past.shared \subseteq past'.shared
    /\ past'.late = past.late \/ \E i \in Items : AddItem(i) \/ RemoveItem(i)

\* The steps of OtherSteps leave the cart and its sessions alone.
LEMMA OthersLeaveCart ==
    ASSUME Typed, OtherSteps
    PROVE  UNCHANGED cartVars /\ past'.outdated = past.outdated /\ past'.crossed = past.crossed
  <1> USE DEF cartVars
  <1>1. ASSUME NEW r \in Requests,
               \/ ApplyRead(r) \/ InitRead(r) \/ InitConfirm(r) \/ AuthRead(r)
               \/ AuthConfirm(r) \/ PlaceRead(r) \/ PlaceCheck(r) \/ StockCheck(r)
               \/ Abort(r) \/ BeginComplete(r)
        PROVE  UNCHANGED cartVars /\ past'.outdated = past.outdated /\ past'.crossed = past.crossed
    <2>1. UNCHANGED cartVars
      BY <1>1 DEF ApplyRead, InitRead, InitConfirm, AuthRead, AuthConfirm, PlaceRead, PlaceCheck,
                  StockCheck, Abort, BeginComplete
    <2>2. past'.outdated = past.outdated /\ past'.crossed = past.crossed
      <3>1. CASE AuthConfirm(r)
        BY <3>1 DEF AuthConfirm, Typed, TypeOK, Past
      <3>2. CASE Abort(r) \/ BeginComplete(r)
        BY <3>2 DEF Abort, BeginComplete, Start, Typed, TypeOK, Past
      <3>3. CASE UNCHANGED past
        BY <3>3
      <3> QED BY <1>1, <3>1, <3>2, <3>3 DEF ApplyRead, InitRead, InitConfirm, AuthRead,
                  PlaceRead, PlaceCheck, StockCheck
    <2> QED BY <2>1, <2>2
  <1>2. ASSUME \/ \E r \in Requests, c \in Coupons : BeginApply(r, c)
               \/ \E r \in Requests, o \in Options : BeginShipping(r, o)
               \/ \E c \in Coupons : RunsOut(c)
               \/ \E i \in Items : SoldElsewhere(i)
        PROVE  UNCHANGED cartVars /\ past'.outdated = past.outdated /\ past'.crossed = past.crossed
    BY <1>2 DEF BeginApply, BeginShipping, Start, RunsOut, SoldElsewhere, Mishap, Typed, TypeOK,
                Past
  <1>3. ASSUME Settlement \/ UNCHANGED vars
        PROVE  UNCHANGED cartVars /\ past'.outdated = past.outdated /\ past'.crossed = past.crossed
    BY <1>3, SettlementLeaves DEF checkoutVars, vars, Typed, TypeOK
  <1> QED BY <1>1, <1>2, <1>3 DEF OtherSteps

\* The steps that change the cart do it by ChangeCart.
CartSteps ==
    \/ \E r \in Requests : ApplyAdd(r) \/ ShippingSet(r) \/ PlaceReplace(r)
    \/ \E c \in Coupons : RemoveCoupon(c)
    \/ \E i \in Items : AddItem(i) \/ RemoveItem(i)

LEMMA CartStepChanges ==
    ASSUME Typed, CartSteps
    PROVE  /\ UNCHANGED cartVars \/ ChangeCart(cart')
           /\ past'.outdated = past.outdated /\ past'.crossed = past.crossed
  <1>1. UNCHANGED cartVars \/ ChangeCart(cart')
    BY DEF CartSteps, ApplyAdd, ShippingSet, PlaceReplace, RemoveCoupon, AddItem, RemoveItem,
           ChangePromotions, ChangeCart, Rejected, Refresh, cartVars
  <1>2. past'.outdated = past.outdated /\ past'.crossed = past.crossed
    BY DEF CartSteps, ApplyAdd, ShippingSet, PlaceReplace, RemoveCoupon, AddItem, RemoveItem,
           Typed, TypeOK, Past
  <1> QED BY <1>1, <1>2

\* Every step, by what it does to the sessions.
LEMMA StepKinds ==
    ASSUME [Next]_vars
    PROVE  \/ OtherSteps \/ CartSteps \/ CreateCollection \/ InitiateRazorpay
           \/ \E r \in Requests : \/ InitDelete(r) \/ InitCreate(r)
                                  \/ AuthAuthorize(r) \/ Complete(r)
           \/ \E s \in SessionIds, status \in {"authorized", "failed"} :
                  PaymentRecorded(s, status)
  BY DEF Next, Advance, OtherSteps, CartSteps, Settlement

LEMMA LiveAfterDelete ==
    ASSUME sessions \in [SessionIds -> Session], NEW gone, sessions' = Deleted(gone)
    PROVE  /\ Live' = Live \ gone
           /\ \A s \in SessionIds : /\ s \notin gone => sessions'[s] = sessions[s]
                                    /\ s \in gone => sessions'[s].status = "deleted"
                                    /\ sessions'[s].provider = sessions[s].provider
                                    /\ sessions'[s].amount = sessions[s].amount
  BY DEF Deleted, Live, Session

LEMMA LiveAfterStatus ==
    ASSUME sessions \in [SessionIds -> Session], NEW s \in Live,
           NEW status \in {"authorized", "failed"},
           sessions' = [sessions EXCEPT ![s].status = status]
    PROVE  /\ Live' = Live
           /\ sessions'[s].status = status
           /\ \A t \in SessionIds : /\ sessions'[t].amount = sessions[t].amount
                                    /\ sessions'[t].provider = sessions[t].provider
                                    /\ t # s => sessions'[t] = sessions[t]
  BY DEF Live, Session

LEMMA LiveAfterCreate ==
    ASSUME sessions \in [SessionIds -> Session], NEW s \in Fresh, NEW gone, NEW made \in Session,
           made.status = "pending", sessions' = [Deleted(gone) EXCEPT ![s] = made]
    PROVE  /\ Live' = (Live \ gone) \cup {s}
           /\ sessions'[s] = made
           /\ \A t \in SessionIds : /\ t # s /\ t \notin gone => sessions'[t] = sessions[t]
                                    /\ t # s /\ t \in gone => sessions'[t].status = "deleted"
                                    /\ t # s => /\ sessions'[t].provider = sessions[t].provider
                                                /\ sessions'[t].amount = sessions[t].amount
  <1>1. s \in SessionIds
    BY DEF Fresh
  <1>2. Deleted(gone) \in [SessionIds -> Session]
    BY DeletedType
  <1>3. \A t \in SessionIds \ {s} : sessions'[t] = Deleted(gone)[t]
    BY <1>2
  <1>4. sessions'[s] = made
    BY <1>1, <1>2
  <1> QED BY <1>1, <1>3, <1>4 DEF Deleted, Live, Session

-----------------------------------------------------------------------------
\* Sessions: what they charge, how many there are, and that paid ones stay.

AtMostOne(set) == \A a, b \in set : a = b

LEMMA OneAtMost ==
    ASSUME NEW S, AtMostOne(S)
    PROVE  Cardinality(S) \in {0, 1}
  <1>1. CASE S = {}
    BY <1>1, FS_EmptySet
  <1>2. ASSUME NEW a \in S PROVE Cardinality(S) = 1
    <2>1. S = {a}
      BY DEF AtMostOne
    <2> QED BY <2>1, FS_Singleton
  <1> QED BY <1>1, <1>2

\* On its way to create a session.
Creating(q) == q.pc \in {"init.delete", "init.create"}

Charging ==
    /\ SessionsChargeTotal
    /\ collection = None => Live = {}
    /\ \A r \in Requests : Creating(req[r]) => collection # None

\* The total is the cart's at any time.
LEMMA TotalPrimed == Total(cart)' = Total(cart')
  OBVIOUS

LEMMA ChargingStep ==
    ASSUME Typed, Charging, [Next]_vars
    PROVE  Charging'
  <1>0. /\ sessions \in [SessionIds -> Session] /\ collection \in Amounts \cup {None}
        /\ cart \in Cart /\ None \notin Amounts
    BY NoneAssumption DEF Typed, TypeOK
  <1>1. collection # None => collection' # None
    <2>1. ASSUME CartSteps, collection # None PROVE collection' # None
      <3>1. Typed' /\ \A c \in Cart : Total(c) # None
        BY <1>0, TotalType, TypedStep
      <3> QED BY <2>1, <3>1, CartStepChanges DEF ChangeCart, Refresh, cartVars, Typed, TypeOK
    <2>2. CASE OtherSteps
      BY <2>2, OthersLeaveCart DEF cartVars
    <2> QED BY <2>1, <2>2, StepKinds DEF CreateCollection, InitiateRazorpay, InitDelete,
               InitCreate, AuthAuthorize, Complete, PaymentRecorded
  <1>2. \A r \in Requests : Creating(req'[r]) => collection' # None
    <2> SUFFICES ASSUME NEW r \in Requests, Creating(req'[r]) PROVE collection' # None
      OBVIOUS
    <2>1. Arrival(r)
      BY Arrivals
    <2>2. Creating(req[r]) \/ collection # None
      BY <2>1 DEF Arrival, Creating, Plain
    <2> QED BY <1>1, <2>2 DEF Charging
  <1>3. SessionsChargeTotal' /\ (collection' = None => Live' = {})
    <2>1. CASE UNCHANGED cartVars /\ past'.outdated = past.outdated
      BY <2>1, TotalPrimed DEF cartVars, Charging, SessionsChargeTotal, Live
    <2>2. CASE ChangeCart(cart') /\ past'.outdated = past.outdated
      <3>1. CASE UNCHANGED <<collection, sessions>> /\ collection \in {None, Total(cart')}
        <4> QED BY <2>2, <3>1, TotalPrimed DEF Charging, SessionsChargeTotal, Live
      <3>2. CASE collection' = Total(cart') /\ sessions' = Deleted(Live)
        <4>1. Live' = {}
          BY <1>0, <3>2, LiveAfterDelete
        <4> QED BY <3>2, <4>1, TotalPrimed DEF SessionsChargeTotal
      <3> QED BY <2>2, <3>1, <3>2 DEF ChangeCart, Refresh
    <2>3. CASE CreateCollection
      <3>1. /\ collection' = Total(cart)' /\ collection' # None /\ Live = {} /\ Live' = {}
        BY <1>0, <2>3, TotalType, TotalPrimed DEF CreateCollection, Charging, Live
      <3> QED BY <3>1 DEF SessionsChargeTotal
    <2>4. CASE InitiateRazorpay
      <3> DEFINE made == [provider |-> "razorpay", status |-> "pending", amount |-> collection]
      <3>1. PICK s \in Fresh : sessions' = [Deleted(Live) EXCEPT ![s] = made]
        BY <2>4 DEF InitiateRazorpay
      <3>2. made \in Session /\ made.status = "pending" /\ made.amount = collection
        BY <1>0, <2>4 DEF InitiateRazorpay, Session
      <3> HIDE DEF made
      <3>3. Live' = {s} /\ sessions'[s].amount = collection
        <4>1. Live' = (Live \ Live) \cup {s}
          BY <1>0, <3>1, <3>2, LiveAfterCreate
        <4>2. sessions'[s] = made
          BY <1>0, <3>1, DeletedType DEF Fresh
        <4> QED BY <3>2, <4>1, <4>2
      <3>4. UNCHANGED <<cart, collection>> /\ collection # None
        BY <2>4 DEF InitiateRazorpay
      <3> QED BY <3>3, <3>4, TotalPrimed DEF Charging, SessionsChargeTotal
    <2>5. ASSUME NEW r \in Requests, InitDelete(r)
          PROVE  SessionsChargeTotal' /\ (collection' = None => Live' = {})
      <3>1. UNCHANGED <<cart, collection, past>>
        BY <2>5 DEF InitDelete
      <3>2. \/ UNCHANGED sessions
            \/ \E s \in req[r].todo : sessions' = Deleted({s})
        BY <2>5 DEF InitDelete
      <3>3. Live' \subseteq Live /\ \A s \in Live' : sessions'[s].amount = sessions[s].amount
        BY <1>0, <3>2, LiveAfterDelete DEF Live
      <3> QED BY <3>1, <3>3, TotalPrimed DEF Charging, SessionsChargeTotal
    <2>6. ASSUME NEW r \in Requests, InitCreate(r)
          PROVE  SessionsChargeTotal' /\ (collection' = None => Live' = {})
      <3> DEFINE made == [provider |-> "cod", status |-> "pending", amount |-> req[r].amount]
      <3>1. PICK s \in Fresh :
                /\ sessions' = [sessions EXCEPT ![s] = made]
                /\ past' = [past EXCEPT
                       !.crossed = @ \/ AboutToCreate(Requests \ {r}),
                       !.outdated = IF req[r].amount = collection THEN @ ELSE @ \cup {s}]
        BY <2>6 DEF InitCreate
      <3>2. made \in Session /\ made.status = "pending" /\ made.amount = req[r].amount
        BY DEF Typed, TypeOK, Request, Session
      <3> HIDE DEF made
      <3>3. sessions' = [Deleted({}) EXCEPT ![s] = made]
        BY <1>0, <3>1 DEF Deleted
      <3>4. /\ Live' = Live \cup {s} /\ sessions'[s].amount = req[r].amount
            /\ \A t \in Live' \ {s} : sessions'[t].amount = sessions[t].amount
        BY <1>0, <3>2, <3>3, LiveAfterCreate DEF Live
      <3>5. past'.outdated = IF req[r].amount = collection THEN past.outdated
                             ELSE past.outdated \cup {s}
        BY <3>1 DEF Typed, TypeOK, Past
      <3>6. UNCHANGED <<cart, collection>> /\ collection # None
        BY <2>6 DEF InitCreate, AtPoint, Charging, Creating
      <3> QED BY <3>4, <3>5, <3>6, TotalPrimed DEF Charging, SessionsChargeTotal
    <2>7. ASSUME NEW s \in Live, NEW status \in {"authorized", "failed"},
                 sessions' = [sessions EXCEPT ![s].status = status],
                 UNCHANGED <<cart, collection>>, past'.outdated = past.outdated
          PROVE  SessionsChargeTotal' /\ (collection' = None => Live' = {})
      <3>1. Live' = Live /\ \A t \in Live : sessions'[t].amount = sessions[t].amount
        BY <1>0, <2>7, LiveAfterStatus DEF Live
      <3> QED BY <2>7, <3>1, TotalPrimed DEF Charging, SessionsChargeTotal
    <2>8. ASSUME NEW r \in Requests, AuthAuthorize(r) \/ Complete(r)
          PROVE  SessionsChargeTotal' /\ (collection' = None => Live' = {})
      <3>1. UNCHANGED <<cart, collection>> /\ past'.outdated = past.outdated
        BY <2>8 DEF AuthAuthorize, Complete, Typed, TypeOK, Past
      <3>2. CASE UNCHANGED sessions
        BY <2>1, <3>1, <3>2 DEF cartVars
      <3>3. CASE \E s \in Live : sessions' = [sessions EXCEPT ![s].status = "authorized"]
        BY <2>7, <3>1, <3>3
      <3> QED BY <2>8, <3>2, <3>3 DEF AuthAuthorize, Complete, Payable
    <2>9. ASSUME NEW s \in SessionIds, NEW status \in {"authorized", "failed"},
                 PaymentRecorded(s, status)
          PROVE  SessionsChargeTotal' /\ (collection' = None => Live' = {})
      BY <2>7, <2>9 DEF PaymentRecorded
    <2> QED BY <2>1, <2>2, <2>3, <2>4, <2>5, <2>6, <2>8, <2>9, StepKinds, OthersLeaveCart,
               CartStepChanges
  <1> QED BY <1>2, <1>3 DEF Charging

\* With no two requests creating sessions across each other there is one at most.
Single ==
    ~past.crossed =>
        /\ AtMostOne(Live)
        /\ \A r \in Requests : /\ req[r].pc = "init.delete" => Live \subseteq req[r].todo
                               /\ req[r].pc = "init.create" => Live = {}

LEMMA SingleStep ==
    ASSUME Typed, Single, [Next]_vars
    PROVE  Single'
  <1> SUFFICES ASSUME ~past'.crossed PROVE Single'
    BY DEF Single
  <1>0. sessions \in [SessionIds -> Session]
    BY DEF Typed, TypeOK
  <1>1. ASSUME ~past.crossed, Live' \subseteq Live PROVE Single'
    <2>1. AtMostOne(Live')
      BY <1>1 DEF Single, AtMostOne
    <2>2. ASSUME NEW r \in Requests
          PROVE  /\ req'[r].pc = "init.delete" => Live' \subseteq req'[r].todo
                 /\ req'[r].pc = "init.create" => Live' = {}
      <3>1. Arrival(r)
        BY Arrivals
      <3>2. CASE req'[r] = req[r]
        BY <1>1, <3>2 DEF Single
      <3>3. CASE InitRead(r) /\ req'[r].todo = Live /\ (req'[r].pc = "init.create" => Live = {})
        BY <1>1, <3>3
      <3>4. ASSUME NEW s \in req[r].todo, req[r].pc = "init.delete", sessions' = Deleted({s}),
                   req'[r].todo = req[r].todo \ {s},
                   req'[r].pc = "init.create" => req[r].todo = {s}
            PROVE  /\ req'[r].pc = "init.delete" => Live' \subseteq req'[r].todo
                   /\ req'[r].pc = "init.create" => Live' = {}
        <4>1. Live' = Live \ {s} /\ Live \subseteq req[r].todo
          BY <1>0, <1>1, <3>4, LiveAfterDelete DEF Single
        <4> QED BY <3>4, <4>1
      <3> QED BY <3>1, <3>2, <3>3, <3>4 DEF Arrival, Plain
    <2> QED BY <2>1, <2>2 DEF Single, AtMostOne
  <1>2. ASSUME NEW s \in Fresh, Live' = {s}, \A r \in Requests : ~Creating(req'[r]) PROVE Single'
    BY <1>2 DEF Single, AtMostOne, Creating
  <1>3. CASE OtherSteps \/ CartSteps \/ CreateCollection
    <2>1. past'.crossed = past.crossed
      BY <1>3, OthersLeaveCart, CartStepChanges DEF CreateCollection
    <2>2. Live' \subseteq Live
      <3>1. \/ UNCHANGED sessions
            \/ ChangeCart(cart')
        BY <1>3, OthersLeaveCart, CartStepChanges DEF CreateCollection, cartVars
      <3>2. UNCHANGED sessions \/ sessions' = Deleted(Live)
        BY <3>1 DEF ChangeCart, Refresh
      <3> QED BY <1>0, <3>2, LiveAfterDelete DEF Live
    <2> QED BY <1>1, <2>1, <2>2
  <1>4. ASSUME NEW r \in Requests, InitDelete(r) \/ AuthAuthorize(r) \/ Complete(r) PROVE Single'
    <2>1. past'.crossed = past.crossed
      BY <1>4 DEF InitDelete, AuthAuthorize, Complete, Typed, TypeOK, Past
    <2>2. \/ UNCHANGED sessions
          \/ \E s \in req[r].todo : sessions' = Deleted({s})
          \/ \E s \in Live : sessions' = [sessions EXCEPT ![s].status = "authorized"]
      BY <1>4 DEF InitDelete, AuthAuthorize, Complete, Payable
    <2>3. Live' \subseteq Live
      BY <1>0, <2>2, LiveAfterDelete, LiveAfterStatus DEF Live
    <2> QED BY <1>1, <2>1, <2>3
  <1>5. ASSUME NEW s \in SessionIds, NEW status \in {"authorized", "failed"},
               PaymentRecorded(s, status)
        PROVE  Single'
    <2>1. Live' = Live /\ past'.crossed = past.crossed
      BY <1>0, <1>5, LiveAfterStatus DEF PaymentRecorded
    <2> QED BY <1>1, <2>1
  <1>6. CASE InitiateRazorpay
    <2> DEFINE made == [provider |-> "razorpay", status |-> "pending", amount |-> collection]
    <2>1. PICK s \in Fresh : sessions' = [Deleted(Live) EXCEPT ![s] = made]
      BY <1>6 DEF InitiateRazorpay
    <2>2. made \in Session /\ made.status = "pending"
      BY <1>6 DEF InitiateRazorpay, Typed, TypeOK, Session
    <2> HIDE DEF made
    <2>3. Live' = (Live \ Live) \cup {s}
      BY <1>0, <2>1, <2>2, LiveAfterCreate
    <2>4. ~AboutToCreate(Requests) /\ UNCHANGED req
      BY <1>6 DEF InitiateRazorpay, AtOnce, Typed, TypeOK, Past
    <2> QED BY <1>2, <2>3, <2>4 DEF AboutToCreate, Creating
  <1>7. ASSUME NEW r \in Requests, InitCreate(r) PROVE Single'
    <2> DEFINE made == [provider |-> "cod", status |-> "pending", amount |-> req[r].amount]
    <2>1. PICK s \in Fresh :
              /\ sessions' = [sessions EXCEPT ![s] = made]
              /\ past' = [past EXCEPT
                     !.crossed = @ \/ AboutToCreate(Requests \ {r}),
                     !.outdated = IF req[r].amount = collection THEN @ ELSE @ \cup {s}]
      BY <1>7 DEF InitCreate
    <2>2. made \in Session /\ made.status = "pending"
      BY DEF Typed, TypeOK, Request, Session
    <2> HIDE DEF made
    <2>3. sessions' = [Deleted({}) EXCEPT ![s] = made]
      BY <1>0, <2>1 DEF Deleted
    <2>4. Live' = Live \cup {s}
      BY <1>0, <2>2, <2>3, LiveAfterCreate
    <2>5. past'.crossed = (past.crossed \/ AboutToCreate(Requests \ {r}))
      BY <2>1 DEF Typed, TypeOK, Past
    <2>6. ~past.crossed /\ ~AboutToCreate(Requests \ {r})
      BY <2>5
    <2>7. Live = {}
      BY <1>7, <2>6 DEF InitCreate, AtPoint, Single
    <2>8. ASSUME NEW q \in Requests PROVE ~Creating(req'[q])
      <3>1. q # r => req'[q] = req[q] /\ ~Creating(req[q])
        BY <1>7, <2>6, AfterGoto DEF InitCreate, AboutToCreate, Creating
      <3>2. req'[r].pc = "init.confirm"
        BY <1>7, AfterGoto DEF InitCreate
      <3> QED BY <3>1, <3>2 DEF Creating
    <2> QED BY <1>2, <2>4, <2>7, <2>8
  <1> QED BY <1>3, <1>4, <1>5, <1>6, <1>7, StepKinds

\* Nothing deletes a Razorpay session that holds a payment.
LEMMA PaidKept ==
    ASSUME Typed, [Next]_vars, NEW s \in Live, sessions[s].provider = "razorpay", IsAuthorized(s)
    PROVE  IsAuthorized(s)'
  <1>0. sessions \in [SessionIds -> Session] /\ s \in SessionIds /\ ~MayDelete(s) /\ s \notin Fresh
    BY DEF Typed, TypeOK, Live, MayDelete, IsAuthorized, Fresh
  <1>1. CASE UNCHANGED sessions
    BY <1>1 DEF IsAuthorized
  <1>2. CASE CartSteps
    <2>1. UNCHANGED sessions \/ (~Rejected(cart') /\ collection \notin {None, Total(cart')})
      <3>1. CASE UNCHANGED cartVars
        BY <3>1 DEF cartVars
      <3>2. CASE ChangeCart(cart')
        BY <3>2 DEF ChangeCart, Refresh
      <3> QED BY <1>2, <3>1, <3>2, CartStepChanges
    <2> QED BY <1>0, <1>1, <2>1 DEF Rejected
  <1>3. CASE OtherSteps \/ CreateCollection
    BY <1>1, <1>3, OthersLeaveCart DEF CreateCollection, cartVars
  <1>4. CASE InitiateRazorpay
    BY <1>0, <1>4 DEF InitiateRazorpay
  <1>5. ASSUME NEW r \in Requests, InitDelete(r) PROVE IsAuthorized(s)'
    <2>1. UNCHANGED sessions \/ \E t \in Live : MayDelete(t) /\ sessions' = Deleted({t})
      BY <1>5 DEF InitDelete
    <2>2. ASSUME NEW t \in Live, MayDelete(t), sessions' = Deleted({t}) PROVE IsAuthorized(s)'
      <3>1. s \notin {t}
        BY <1>0, <2>2
      <3>2. sessions'[s] = sessions[s]
        BY <1>0, <2>2, <3>1, LiveAfterDelete
      <3> QED BY <3>2 DEF IsAuthorized
    <2> QED BY <1>1, <2>1, <2>2
  <1>6. ASSUME NEW r \in Requests, InitCreate(r) PROVE IsAuthorized(s)'
    BY <1>0, <1>6 DEF InitCreate, Fresh, IsAuthorized
  <1>7. ASSUME NEW r \in Requests, AuthAuthorize(r) \/ Complete(r) PROVE IsAuthorized(s)'
    <2>1. \/ UNCHANGED sessions
          \/ \E t \in Live : sessions' = [sessions EXCEPT ![t].status = "authorized"]
      BY <1>7 DEF AuthAuthorize, Complete, Payable
    <2> QED BY <1>0, <1>1, <2>1, LiveAfterStatus DEF IsAuthorized
  <1>8. ASSUME NEW t \in SessionIds, NEW status \in {"authorized", "failed"},
               PaymentRecorded(t, status)
        PROVE  IsAuthorized(s)'
    <2>1. t # s
      BY <1>8 DEF PaymentRecorded, IsAuthorized
    <2> QED BY <1>0, <1>8, <2>1, LiveAfterStatus DEF PaymentRecorded, IsAuthorized
  <1> QED BY <1>2, <1>3, <1>4, <1>5, <1>6, <1>7, <1>8, StepKinds

-----------------------------------------------------------------------------
\* What is in the cart.

\* Only CartSteps change the cart, each one part of it.
CartEffect ==
    \/ UNCHANGED cart
    \/ /\ cart'.items = cart.items
       /\ cart'.shipping = cart.shipping
       /\ \/ cart'.coupons \subseteq cart.coupons
          \/ \E r \in Requests :
                 /\ req[r].pc = "apply.add"
                 /\ req[r].x \notin expired
                 /\ cart'.coupons = cart.coupons \cup {req[r].x}
                 /\ ~past'.couponRace => cart.coupons = req[r].saw.coupons
          \/ \E r \in Requests :
                 /\ req[r].pc = "place.replace"
                 /\ cart'.coupons = req[r].saw.coupons \ expired
    \/ /\ cart'.coupons = cart.coupons
       /\ cart'.shipping = cart.shipping
       /\ \E i \in Items : AddItem(i) \/ RemoveItem(i)
       /\ UNCHANGED req
    \/ /\ cart'.coupons = cart.coupons
       /\ cart'.items = cart.items
       /\ \E r \in Requests : req[r].pc = "shipping.set" /\ cart'.shipping = req[r].x

LEMMA CartEffects ==
    ASSUME Typed, [Next]_vars
    PROVE  CartEffect
  <1>0. cart \in Cart /\ past \in Past
    BY DEF Typed, TypeOK
  <1>1. CASE OtherSteps \/ CreateCollection \/ InitiateRazorpay
    BY <1>1, OthersLeaveCart
    DEF CreateCollection, InitiateRazorpay, cartVars, CartEffect
  <1>2. ASSUME NEW r \in Requests,
               InitDelete(r) \/ InitCreate(r) \/ AuthAuthorize(r) \/ Complete(r)
        PROVE  CartEffect
    BY <1>2 DEF InitDelete, InitCreate, AuthAuthorize, Complete, CartEffect
  <1>3. ASSUME NEW s \in SessionIds, NEW status \in {"authorized", "failed"},
               PaymentRecorded(s, status)
        PROVE  CartEffect
    BY <1>3 DEF PaymentRecorded, CartEffect
  <1>4. ASSUME NEW r \in Requests, ApplyAdd(r) PROVE CartEffect
    <2> DEFINE with == [cart EXCEPT !.coupons = @ \cup {req[r].x}]
    <2>1. CASE UNCHANGED cartVars
      BY <2>1 DEF cartVars, CartEffect
    <2>2. CASE /\ req[r].x \notin expired
               /\ cart' = with
               /\ past' = [past EXCEPT !.couponRace = @ \/ cart.coupons # req[r].saw.coupons]
      <3>1. /\ cart'.items = cart.items /\ cart'.shipping = cart.shipping
            /\ cart'.coupons = cart.coupons \cup {req[r].x}
        BY <1>0, <2>2 DEF Cart
      <3>2. ~past'.couponRace => cart.coupons = req[r].saw.coupons
        BY <1>0, <2>2 DEF Past
      <3> QED BY <1>4, <2>2, <3>1, <3>2 DEF ApplyAdd, AtPoint, CartEffect
    <2> QED BY <1>4, <2>1, <2>2 DEF ApplyAdd, ChangePromotions, ChangeCart
  <1>5. ASSUME NEW r \in Requests, ShippingSet(r) PROVE CartEffect
    <2>1. UNCHANGED cart \/ cart' = [cart EXCEPT !.shipping = req[r].x]
      BY <1>5 DEF ShippingSet, ChangeCart, cartVars
    <2>2. req[r].pc = "shipping.set"
      BY <1>5 DEF ShippingSet, AtPoint
    <2> QED BY <1>0, <2>1, <2>2 DEF Cart, CartEffect
  <1>6. ASSUME NEW r \in Requests, PlaceReplace(r) PROVE CartEffect
    <2>1. UNCHANGED cart \/ cart' = [cart EXCEPT !.coupons = req[r].saw.coupons \ expired]
      BY <1>6 DEF PlaceReplace, ChangePromotions, ChangeCart, cartVars
    <2>2. req[r].pc = "place.replace"
      BY <1>6 DEF PlaceReplace, AtPoint
    <2> QED BY <1>0, <2>1, <2>2 DEF Cart, CartEffect
  <1>7. ASSUME NEW c \in Coupons, RemoveCoupon(c) PROVE CartEffect
    <2>1. cart' = [cart EXCEPT !.coupons = @ \ {c}]
      BY <1>7 DEF RemoveCoupon, ChangePromotions, ChangeCart
    <2> QED BY <1>0, <2>1 DEF Cart, CartEffect
  <1>8. ASSUME NEW i \in Items, AddItem(i) \/ RemoveItem(i) PROVE CartEffect
    <2>1. /\ \E items : cart' = [cart EXCEPT !.items = items]
          /\ UNCHANGED req
      BY <1>8 DEF AddItem, RemoveItem, ChangeCart, AtOnce
    <2>2. cart'.coupons = cart.coupons /\ cart'.shipping = cart.shipping
      BY <1>0, <2>1 DEF Cart
    <2> QED BY <1>8, <2>1, <2>2 DEF CartEffect
  <1> QED BY <1>1, <1>2, <1>3, <1>4, <1>5, <1>6, <1>7, <1>8, StepKinds DEF CartSteps

LEMMA PastOnlyGrows ==
    ASSUME Typed, [Next]_vars
    PROVE  PastGrows
  <1>0. past \in Past
    BY DEF Typed, TypeOK
  <1>1. CASE UNCHANGED past
    BY <1>1 DEF PastGrows
  <1>2. ASSUME NEW r \in Requests,
               \/ ApplyAdd(r) \/ InitCreate(r) \/ AuthAuthorize(r) \/ AuthConfirm(r) \/ Abort(r)
               \/ BeginComplete(r)
               \/ \E c \in Coupons : BeginApply(r, c)
               \/ \E o \in Options : BeginShipping(r, o)
        PROVE  PastGrows
    <2>1. CASE ApplyAdd(r)
      <3>1. \/ UNCHANGED past
            \/ past' = [past EXCEPT !.couponRace = @ \/ cart.coupons # req[r].saw.coupons]
        BY <2>1 DEF ApplyAdd
      <3> QED BY <1>0, <1>1, <3>1 DEF PastGrows, Past
    <2>2. CASE InitCreate(r)
      BY <1>0, <2>2 DEF InitCreate, PastGrows, Past
    <2>3. CASE AuthAuthorize(r) \/ AuthConfirm(r)
      BY <1>0, <1>1, <2>3 DEF AuthAuthorize, AuthConfirm, PastGrows, Past
    <2>4. CASE \/ Abort(r) \/ BeginComplete(r)
               \/ \E c \in Coupons : BeginApply(r, c)
               \/ \E o \in Options : BeginShipping(r, o)
      BY <1>0, <2>4 DEF Abort, BeginComplete, BeginApply, BeginShipping, Start, PastGrows, Past
    <2> QED BY <1>2, <2>1, <2>2, <2>3, <2>4
  <1>3. ASSUME \/ \E c \in Coupons : RemoveCoupon(c) \/ RunsOut(c)
               \/ \E i \in Items : AddItem(i) \/ RemoveItem(i) \/ SoldElsewhere(i)
               \/ InitiateRazorpay \/ Settlement
        PROVE  PastGrows
    <2>1. ASSUME NEW i \in Items, AddItem(i) \/ RemoveItem(i) PROVE PastGrows
      <3>1. \E n, late : past' = [past EXCEPT !.begun = n, !.late = late]
        BY <2>1 DEF AddItem, RemoveItem
      <3> QED BY <1>0, <2>1, <3>1 DEF PastGrows, Past
    <2>2. CASE Settlement
      BY <1>0, <2>2, SettlementLeaves DEF PastGrows
    <2>3. ASSUME \/ \E c \in Coupons : RemoveCoupon(c) \/ RunsOut(c)
                 \/ \E i \in Items : SoldElsewhere(i)
                 \/ InitiateRazorpay
          PROVE  PastGrows
      BY <1>0, <2>3 DEF RemoveCoupon, RunsOut, SoldElsewhere, Mishap, InitiateRazorpay, PastGrows,
                        Past
    <2> QED BY <1>3, <2>1, <2>2, <2>3
  <1>4. ASSUME NEW r \in Requests,
               \/ ApplyRead(r) \/ ShippingSet(r) \/ InitRead(r) \/ InitDelete(r) \/ InitConfirm(r)
               \/ AuthRead(r) \/ PlaceRead(r) \/ PlaceReplace(r) \/ PlaceCheck(r)
               \/ StockCheck(r) \/ Complete(r)
        PROVE  UNCHANGED past
    BY <1>4 DEF ApplyRead, ShippingSet, InitRead, InitDelete, InitConfirm, AuthRead, PlaceRead,
                PlaceReplace, PlaceCheck, StockCheck, Complete
  <1>5. ASSUME \/ CreateCollection \/ UNCHANGED vars
               \/ \E s \in SessionIds, status \in {"authorized", "failed"} :
                      PaymentRecorded(s, status)
        PROVE  UNCHANGED past
    BY <1>5 DEF CreateCollection, PaymentRecorded, vars
  <1> QED BY <1>1, <1>2, <1>3, <1>4, <1>5 DEF Next, Advance, Settlement

\* A request is to add its code to the cart it saw without one, and to replace the codes of
\* a cart with one at most.
OneCoupon ==
    /\ ~past.couponRace => AtMostOne(cart.coupons)
    /\ \A r \in Requests :
           /\ req[r].pc = "apply.add" => req[r].saw.coupons = {}
           /\ req[r].pc \in {"place.replace", "place.check"} => AtMostOne(req[r].saw.coupons)

\* One manual coupon beside the one asked for, none beside an automatic promotion.
LEMMA StackingMeans ==
    ASSUME NEW c, NEW p, StackingAllowed(c, p)
    PROVE  c.coupons \subseteq {p} /\ AtMostOne(c.coupons) /\ (AutoPlusManual \/ ~HasAutomatic(c))
  BY DEF StackingAllowed, AtMostOne

LEMMA OneCouponStep ==
    ASSUME Typed, OneCoupon, [Next]_vars
    PROVE  OneCoupon'
  <1>1. ~past'.couponRace => AtMostOne(cart'.coupons)
    <2> SUFFICES ASSUME ~past'.couponRace PROVE AtMostOne(cart'.coupons)
      OBVIOUS
    <2>1. AtMostOne(cart.coupons)
      BY PastOnlyGrows DEF PastGrows, OneCoupon
    <2>2. CartEffect
      BY CartEffects
    <2> QED BY <2>1, <2>2 DEF CartEffect, OneCoupon, AtMostOne
  <1>2. ASSUME NEW r \in Requests
        PROVE  /\ req'[r].pc = "apply.add" => req'[r].saw.coupons = {}
               /\ req'[r].pc \in {"place.replace", "place.check"} => AtMostOne(req'[r].saw.coupons)
    <2>1. Arrival(r)
      BY Arrivals
    <2>2. CASE req'[r] = req[r]
      BY <2>2 DEF OneCoupon
    <2>3. CASE req'[r].pc = "apply.add" /\ req'[r] # req[r]
      BY <2>1, <2>3, StackingMeans DEF Arrival, Plain
    <2>4. CASE req'[r].pc = "place.replace" /\ req'[r] # req[r]
      BY <2>1, <2>4, StackingMeans DEF Arrival, Plain
    <2>5. CASE req'[r].pc = "place.check" /\ req'[r] # req[r]
      BY <2>1, <2>5 DEF Arrival, Plain, OneCoupon
    <2> QED BY <2>2, <2>3, <2>4, <2>5
  <1> QED BY <1>1, <1>2 DEF OneCoupon, AtMostOne

\* What goes or is to go by an option known as COD may, but for what came in since.
Wanted == \/ cart.shipping \in NamedCod
          \/ \E r \in Requests : req[r].op = "shipping" /\ req[r].x \in NamedCod

EligibleForCod == Wanted => cart.items \subseteq Eligible \cup past.late

LEMMA EligibleForCodStep ==
    ASSUME Typed, EligibleForCod, [Next]_vars
    PROVE  EligibleForCod'
  <1> SUFFICES ASSUME Wanted' PROVE cart'.items \subseteq Eligible \cup past'.late
    BY DEF EligibleForCod
  <1>0. cart \in Cart /\ past \in Past
    BY DEF Typed, TypeOK
  <1>1. CartEffect
    BY CartEffects
  <1>2. Wanted => CodInSight
    BY DEF Wanted, CodInSight
  <1>3. Wanted \/ (UNCHANGED cart /\ cart.items \subseteq Eligible)
    <2>1. CASE cart'.shipping \in NamedCod
      <3>1. \A r \in Requests : req[r].pc = "shipping.set" => req[r].op = "shipping"
        BY DEF Typed, Shape, RequestShape
      <3> QED BY <1>1, <2>1, <3>1 DEF CartEffect, Wanted
    <2>2. ASSUME NEW r \in Requests, req'[r].op = "shipping", req'[r].x \in NamedCod
          PROVE  Wanted \/ (UNCHANGED cart /\ cart.items \subseteq Eligible)
      <3>1. Arrival(r)
        BY Arrivals
      <3> QED BY <2>2, <3>1 DEF Arrival, Wanted
    <2> QED BY <2>1, <2>2 DEF Wanted
  <1>4. ASSUME NEW i \in Items, AddItem(i) PROVE cart'.items \subseteq Eligible \cup past'.late
    <2>1. cart'.items = cart.items \cup {i} /\ i \notin cart.items
      BY <1>0, <1>4 DEF AddItem, ChangeCart, Cart
    <2>2. Wanted
      BY <1>3, <2>1
    <2> DEFINE late == IF CodInSight THEN past.late \cup {i} ELSE past.late
    <2>3. past' = [past EXCEPT !.begun = @ + 1, !.late = late]
      BY <1>4 DEF AddItem
    <2>4. late = past.late \cup {i}
      BY <1>2, <2>2
    <2> HIDE DEF late
    <2>5. past'.late = past.late \cup {i}
      BY <1>0, <2>3, <2>4 DEF Past
    <2> QED BY <2>1, <2>2, <2>5 DEF EligibleForCod
  <1>5. ASSUME NEW i \in Items, RemoveItem(i) PROVE cart'.items \subseteq Eligible \cup past'.late
    <2>1. cart'.items = cart.items \ {i} /\ i \in cart.items
      BY <1>0, <1>5 DEF RemoveItem, ChangeCart, Cart
    <2>2. past'.late = past.late \ {i}
      BY <1>0, <1>5 DEF RemoveItem, Past
    <2> QED BY <1>3, <2>1, <2>2 DEF EligibleForCod
  <1>6. ASSUME ~\E i \in Items : AddItem(i) \/ RemoveItem(i)
        PROVE  cart'.items \subseteq Eligible \cup past'.late
    <2>1. past'.late = past.late
      BY <1>6, PastOnlyGrows DEF PastGrows
    <2>2. cart'.items = cart.items
      BY <1>1, <1>6 DEF CartEffect
    <2> QED BY <1>3, <2>1, <2>2 DEF EligibleForCod
  <1> QED BY <1>4, <1>5, <1>6

-----------------------------------------------------------------------------
\* What the guard of the placement found.

\* The policy as the guard sees it: void are the coupons that had run out.
Obeys(c, void) ==
    /\ AtMostOne(c.coupons)
    /\ c.coupons # {} => AutoPlusManual \/ ~HasAutomatic(c)
    /\ c.coupons \cap void = {}
    /\ DiscountOf(c) <= Subtotal(c)

\* A code at its limit passed the guard only if it had expired too, and an expired one does
\* not survive the REPLACE.
Guarded(q) ==
    /\ q.void \subseteq usedUp \cup expired
    /\ q.pc \in {"place.replace", "place.check"} =>
           /\ AutoPlusManual \/ ~HasAutomatic(q.saw)
           /\ q.saw.coupons \cap q.void \subseteq expired
    /\ q.pc = "place.check" => cart.coupons \cap q.void \cap expired = {}
    /\ q.pc \in {"stock", "complete"} /\ q.saw # None => Obeys(q.saw, q.void)

Policy ==
    /\ usedUp \cap expired = {}
    /\ \A r \in Requests : Guarded(req[r])

\* Coupons only run out, and nothing else happens meanwhile.
LEMMA PromosChange ==
    ASSUME Typed, [Next]_vars
    PROVE  \/ UNCHANGED promoVars
           \/ /\ UNCHANGED <<cart, req>>
              /\ \E c \in Coupons \ (usedUp \cup expired) :
                     \/ usedUp' = usedUp \cup {c} /\ UNCHANGED expired
                     \/ expired' = expired \cup {c} /\ UNCHANGED usedUp
  <1>1. ASSUME NEW c \in Coupons, RunsOut(c)
        PROVE  /\ UNCHANGED <<cart, req>>
               /\ \E d \in Coupons \ (usedUp \cup expired) :
                     \/ usedUp' = usedUp \cup {d} /\ UNCHANGED expired
                     \/ expired' = expired \cup {d} /\ UNCHANGED usedUp
    BY <1>1 DEF RunsOut, cartVars
  <1>2. ASSUME NEW r \in Requests,
               \/ Advance(r) \/ Abort(r) \/ BeginComplete(r)
               \/ \E c \in Coupons : BeginApply(r, c)
               \/ \E o \in Options : BeginShipping(r, o)
        PROVE  UNCHANGED promoVars
    BY <1>2 DEF Advance, ApplyRead, ApplyAdd, ShippingSet, InitRead, InitDelete, InitCreate,
           InitConfirm, AuthRead, AuthAuthorize, AuthConfirm, PlaceRead, PlaceReplace, PlaceCheck,
           StockCheck, Complete, Abort, BeginComplete, BeginApply, BeginShipping
  <1>3. ASSUME \/ \E c \in Coupons : RemoveCoupon(c)
               \/ \E i \in Items : AddItem(i) \/ RemoveItem(i) \/ SoldElsewhere(i)
               \/ InitiateRazorpay \/ CreateCollection
               \/ \E s \in SessionIds, status \in {"authorized", "failed"} :
                      PaymentRecorded(s, status)
               \/ UNCHANGED vars
        PROVE  UNCHANGED promoVars
    BY <1>3 DEF RemoveCoupon, AddItem, RemoveItem, SoldElsewhere, InitiateRazorpay,
           CreateCollection, PaymentRecorded, AtOnce, promoVars, vars
  <1>4. CASE Settlement
    BY <1>4, SettlementLeaves DEF Typed, TypeOK, checkoutVars
  <1> QED BY <1>1, <1>2, <1>3, <1>4 DEF Next, Settlement

LEMMA PolicyStep ==
    ASSUME Typed, OneCoupon, Policy, [Next]_vars
    PROVE  Policy'
  <1>1. usedUp' \cap expired' = {} /\ usedUp \subseteq usedUp' /\ expired \subseteq expired'
    BY PromosChange DEF Policy, promoVars
  <1>2. ASSUME NEW r \in Requests PROVE Guarded(req[r])'
    <2> DEFINE q == req[r]
               p == req'[r]
    <2>1. Arrival(r) /\ Guarded(q)
      BY Arrivals DEF Policy
    <2>2. p.void \subseteq usedUp' \cup expired'
      BY <1>1, <2>1 DEF Arrival, Guarded
    <2>3. ASSUME p.pc \in {"place.replace", "place.check"}
          PROVE  /\ AutoPlusManual \/ ~HasAutomatic(p.saw)
                 /\ p.saw.coupons \cap p.void \subseteq expired'
      <3>1. CASE p = q
        BY <1>1, <2>1, <2>3, <3>1 DEF Guarded
      <3>2. CASE /\ p.saw = cart /\ p.void = usedUp \cup expired
                 /\ WithinUsage(cart) /\ \E c \in cart.coupons : StackingAllowed(cart, c)
        BY <1>1, <3>2, StackingMeans DEF WithinUsage
      <3>3. CASE q.pc = "place.replace" /\ p.saw = q.saw /\ p.void = q.void
        BY <1>1, <2>1, <3>3 DEF Guarded
      <3> QED BY <2>1, <2>3, <3>1, <3>2, <3>3 DEF Arrival, Plain
    <2>4. ASSUME p.pc = "place.check"
          PROVE  cart'.coupons \cap p.void \cap expired' = {}
      <3>1. CASE p = q
        <4>1. cart.coupons \cap q.void \cap expired = {} /\ q.void \subseteq usedUp \cup expired
          BY <2>1, <2>4, <3>1 DEF Guarded
        <4>2. CASE UNCHANGED promoVars
          <5>1. CartEffect
            BY CartEffects
          <5>2. cart'.coupons \cap expired \subseteq cart.coupons
            BY <5>1 DEF CartEffect
          <5> QED BY <3>1, <4>1, <4>2, <5>2 DEF promoVars
        <4>3. CASE UNCHANGED cart /\ \E c \in Coupons \ (usedUp \cup expired) :
                        expired' \subseteq expired \cup {c}
          BY <3>1, <4>1, <4>3
        <4> QED BY <4>2, <4>3, PromosChange
      <3>2. CASE p # q
        <4>1. cart'.coupons = q.saw.coupons \ expired /\ PlaceReplace(r)
          BY <2>1, <2>4, <3>2 DEF Arrival, Plain
        <4>2. UNCHANGED expired
          BY <4>1 DEF PlaceReplace, promoVars
        <4> QED BY <4>1, <4>2
      <3> QED BY <3>1, <3>2
    <2>5. ASSUME p.pc \in {"stock", "complete"}, p.saw # None PROVE Obeys(p.saw, p.void)
      <3>1. CASE p = q
        BY <2>1, <2>5, <3>1 DEF Guarded
      <3>2. CASE cart.coupons = {} /\ p.saw = cart /\ PriceIntegrity(cart)
        BY <3>2 DEF Obeys, AtMostOne, PriceIntegrity
      <3>3. CASE /\ q.pc = "place.check" /\ p.saw = q.saw /\ cart = q.saw
                 /\ p.void = q.void /\ PriceIntegrity(cart)
        <4>1. AtMostOne(q.saw.coupons)
          BY <3>3 DEF OneCoupon
        <4> QED BY <2>1, <3>3, <4>1 DEF Guarded, Obeys, PriceIntegrity
      <3>4. CASE q.pc = "stock" /\ p.saw = q.saw /\ p.void = q.void
        BY <2>1, <2>5, <3>4 DEF Guarded
      <3> QED BY <2>1, <2>5, <3>1, <3>2, <3>3, <3>4 DEF Arrival, Plain
    <2> HIDE DEF q
    <2> QED BY <2>2, <2>3, <2>4, <2>5 DEF Guarded, Obeys, AtMostOne
  <1> QED BY <1>1, <1>2 DEF Policy

-----------------------------------------------------------------------------
\* The order and its payment.

OrderSound == PlacedAsChecked /\ CodItemsEligible

LEMMA OrderChanges ==
    ASSUME Typed, [Next]_vars
    PROVE  UNCHANGED order \/ (order = None /\ \E r \in Requests : Complete(r))
  <1>1. CASE OtherSteps
    BY <1>1, SettlementLeaves
    DEF OtherSteps, ApplyRead, InitRead, InitConfirm, AuthRead, AuthConfirm, PlaceRead,
        PlaceCheck, StockCheck, Abort, BeginComplete, BeginApply, BeginShipping, RunsOut,
        SoldElsewhere, checkoutVars, orderVars, vars, Typed, TypeOK
  <1>2. CASE CartSteps
    BY <1>2 DEF CartSteps, ApplyAdd, ShippingSet, PlaceReplace, RemoveCoupon, AddItem, RemoveItem,
           AtOnce, orderVars
  <1> QED BY <1>1, <1>2, StepKinds DEF CreateCollection, InitiateRazorpay, InitDelete, InitCreate,
           AuthAuthorize, Complete, AtPoint, PaymentRecorded, AtOnce, orderVars

LEMMA OrderSoundStep ==
    ASSUME Typed, Charging, EligibleForCod, Policy, OrderSound, [Next]_vars
    PROVE  OrderSound'
  <1>1. CASE UNCHANGED order
    <2>1. PlacedAsChecked'
      BY <1>1 DEF OrderSound, PlacedAsChecked
    <2>2. order # None => past'.late = past.late
      BY PastOnlyGrows DEF PastGrows, AddItem, RemoveItem, AtOnce
    <2> QED BY <1>1, <2>1, <2>2 DEF OrderSound, CodItemsEligible
  <1>2. ASSUME NEW r \in Requests, Complete(r), ~UNCHANGED order PROVE OrderSound'
    <2>1. PICK s \in Payable :
              order' = [cart |-> cart, checked |-> req[r].saw, void |-> req[r].void,
                        provider |-> sessions[s].provider,
                        amount |-> sessions[s].amount,
                        outdated |-> s \in past.outdated]
      BY <1>2 DEF Complete, orderVars
    <2>2. UNCHANGED past /\ req[r].pc = "complete"
      BY <1>2 DEF Complete, AtPoint
    <2>3. cart.shipping \in NamedCod => cart.items \subseteq Eligible \cup past.late
      BY DEF EligibleForCod, Wanted
    <2>4. CodItemsEligible'
      BY <2>1, <2>2, <2>3 DEF CodItemsEligible
    <2>5. ASSUME cart = req[r].saw
          PROVE  /\ Cardinality(cart.coupons) <= 1
                 /\ cart.coupons # {} => AutoPlusManual \/ ~HasAutomatic(cart)
                 /\ cart.coupons \cap req[r].void = {}
                 /\ DiscountOf(cart) <= Subtotal(cart)
      <3>1. req[r].saw # None
        BY <2>5, NoneAssumption DEF Typed, TypeOK
      <3>2. Obeys(cart, req[r].void)
        BY <2>2, <2>5, <3>1 DEF Policy, Guarded
      <3> QED BY <3>2, OneAtMost DEF Obeys
    <2>6. s \in past.outdated \/ sessions[s].amount = Total(cart)
      <3>1. s \in Live /\ collection # None
        BY DEF Payable, Charging
      <3> QED BY <3>1 DEF Charging, SessionsChargeTotal
    <2>7. PlacedAsChecked'
      BY <2>1, <2>5, <2>6 DEF PlacedAsChecked
    <2> QED BY <2>4, <2>7 DEF OrderSound
  <1> QED BY <1>1, <1>2, OrderChanges

\* The errands whose refund Razorpay has carried out.
Sent == {r \in Requests : errand[r].sent}

\* Data that say refunded, and an answer in hand, come of a refund.
RefundSound ==
    /\ order = None => payment = None
    /\ payment # None =>
           /\ payment.state = "refunded" => payment.refunds > 0
           /\ \A r \in Requests : errand[r].pc = "refund.store" => payment.refunds > 0
           /\ payment.recorded > 0 => payment.refunds > 0
           /\ payment.refunds <= payment.recorded + Cardinality(Sent) + past.lost

\* One errand moves: what becomes of the number of those sent.
LEMMA SentCounted ==
    ASSUME Typed, NEW r \in Requests, NEW e \in Errand, errand' = [errand EXCEPT ![r] = e]
    PROVE  /\ Cardinality(Sent) \in Nat /\ Cardinality(Sent)' \in Nat
           /\ (e.sent <=> errand[r].sent) => Cardinality(Sent)' = Cardinality(Sent)
           /\ e.sent /\ ~errand[r].sent => Cardinality(Sent)' = Cardinality(Sent) + 1
           /\ ~e.sent /\ errand[r].sent => Cardinality(Sent)' = Cardinality(Sent) - 1
  <1>1. errand' \in [Requests -> Errand] /\ errand'[r] = e
    BY DEF Typed, TypeOK
  <1>2. \A q \in Requests \ {r} : errand'[q] = errand[q]
    BY DEF Typed, TypeOK
  <1>3. IsFiniteSet(Sent) /\ Cardinality(Sent) \in Nat
    BY CheckoutAssumption, FS_Subset, FS_CardinalityType DEF Sent
  <1>4. Sent' = {q \in Requests : errand'[q].sent}
    BY DEF Sent
  <1>5. CASE e.sent <=> errand[r].sent
    <2>1. Sent' = Sent
      BY <1>1, <1>2, <1>4, <1>5 DEF Sent
    <2> QED BY <1>3, <1>5, <2>1
  <1>6. CASE e.sent /\ ~errand[r].sent
    <2>1. Sent' = Sent \cup {r} /\ r \notin Sent
      BY <1>1, <1>2, <1>4, <1>6 DEF Sent
    <2>2. Cardinality(Sent \cup {r}) = Cardinality(Sent) + 1
      BY <1>3, <2>1, FS_AddElement
    <2> QED BY <1>3, <1>6, <2>1, <2>2
  <1>7. CASE ~e.sent /\ errand[r].sent
    <2>1. Sent' = Sent \ {r} /\ r \in Sent
      BY <1>1, <1>2, <1>4, <1>7 DEF Sent
    <2>2. Cardinality(Sent \ {r}) = Cardinality(Sent) - 1 /\ IsFiniteSet(Sent \ {r})
      BY <1>3, <2>1, FS_RemoveElement
    <2>3. Cardinality(Sent)' \in Nat
      BY <2>1, <2>2, FS_CardinalityType
    <2> QED BY <1>3, <1>7, <2>1, <2>2, <2>3
  <1> QED BY <1>5, <1>6, <1>7

\* What a step of an errand adds to the payment, and what it leaves to be stored.
LEMMA RefundKept ==
    ASSUME Typed, RefundSound, payment \in Payment, payment' \in Payment, past' \in Past,
           NEW r \in Requests, NEW e \in Errand, errand' = [errand EXCEPT ![r] = e],
           UNCHANGED order, payment # None,
           NEW given \in Nat, payment'.refunds = payment.refunds + given,
           NEW noted \in Nat, payment'.recorded = payment.recorded + noted,
           NEW forgot \in Nat, past'.lost = past.lost + forgot,
           \/ e.sent /\ ~errand[r].sent /\ given <= noted + forgot + 1
           \/ ~e.sent /\ errand[r].sent /\ given + 1 <= noted + forgot
           \/ (e.sent <=> errand[r].sent) /\ given <= noted + forgot,
           \/ payment'.refunds > 0
           \/ payment'.state # "refunded" /\ e.pc # "refund.store" /\ noted = 0
    PROVE  RefundSound'
  <1>1. /\ payment.refunds \in Nat /\ payment.recorded \in Nat /\ past.lost \in Nat
        /\ payment'.refunds \in Nat
    BY DEF Payment, Past, Typed, TypeOK
  <1>2. /\ Cardinality(Sent) \in Nat /\ Cardinality(Sent)' \in Nat
        /\ (e.sent <=> errand[r].sent) => Cardinality(Sent)' = Cardinality(Sent)
        /\ e.sent /\ ~errand[r].sent => Cardinality(Sent)' = Cardinality(Sent) + 1
        /\ ~e.sent /\ errand[r].sent => Cardinality(Sent)' = Cardinality(Sent) - 1
    BY SentCounted
  <1>3. payment.refunds <= payment.recorded + Cardinality(Sent) + past.lost
    BY DEF RefundSound
  <1>4. payment'.refunds <= payment'.recorded + Cardinality(Sent)' + past'.lost
    <2>1. CASE e.sent /\ ~errand[r].sent /\ given <= noted + forgot + 1
      BY <1>1, <1>2, <1>3, <2>1
    <2>2. CASE ~e.sent /\ errand[r].sent /\ given + 1 <= noted + forgot
      BY <1>1, <1>2, <1>3, <2>2
    <2>3. CASE (e.sent <=> errand[r].sent) /\ given <= noted + forgot
      BY <1>1, <1>2, <1>3, <2>3
    <2> QED BY <2>1, <2>2, <2>3
  <1>5. order' # None
    BY DEF RefundSound
  <1>6. \A q \in Requests : errand'[q].pc = "refund.store" => payment'.refunds > 0
    <2>1. errand'[r] = e /\ \A q \in Requests \ {r} : errand'[q] = errand[q]
      BY DEF Typed, TypeOK
    <2>2. payment.refunds > 0 => payment'.refunds > 0
      BY <1>1
    <2> QED BY <2>1, <2>2 DEF RefundSound
  <1>7. /\ payment'.state = "refunded" => payment'.refunds > 0
        /\ payment'.recorded > 0 => payment'.refunds > 0
    <2>1. CASE payment'.refunds > 0
      BY <2>1
    <2>2. CASE payment'.state # "refunded" /\ noted = 0
      <3>1. payment.recorded > 0 => payment.refunds > 0
        BY DEF RefundSound
      <3> QED BY <1>1, <2>2, <3>1
    <2> QED BY <2>1, <2>2
  <1> QED BY <1>4, <1>5, <1>6, <1>7 DEF RefundSound

LEMMA RefundStepKept ==
    ASSUME Typed, RefundSound, Settlement
    PROVE  RefundSound'
  <1>0. payment' \in Payment /\ past \in Past /\ past' \in Past /\ UNCHANGED order
    BY TypedPayment, SettlementLeaves DEF checkoutVars, Typed, TypeOK
  <1>1. CASE CancelPayment
    <2>1. payment \in Payment /\ payment # None
      BY <1>1 DEF CancelPayment, Typed, TypeOK
    <2>2. /\ payment'.refunds = payment.refunds /\ payment'.recorded = payment.recorded
          /\ payment'.state = "canceled" /\ UNCHANGED <<errand, past>>
      BY <1>1, <2>1 DEF CancelPayment, Payment
    <2>3. UNCHANGED Sent
      BY <2>2 DEF Sent
    <2> QED BY <1>0, <2>1, <2>2, <2>3 DEF RefundSound
  <1>2. ASSUME NEW r \in Requests, Settle(r) PROVE RefundSound'
    <2>1. payment \in Payment /\ payment # None
      BY <1>2 DEF Settle, CaptureRead, CaptureStore, MayCapture, RefundRead, RefundCall,
                  RefundFails, RefundStore, ErrandBreaks, Typed, TypeOK, Errands
    <2>2. /\ payment.refunds \in Nat /\ payment.recorded \in Nat /\ past.lost \in Nat
          /\ errand[r] \in Errand
      BY <1>0, <2>1 DEF Payment, Past, Typed, TypeOK
    <2>3. /\ errand[r].sent => errand[r].pc = "refund.store"
          /\ errand[r].pc = "refund.store" => payment.refunds > 0
          /\ payment.state = "refunded" => payment.refunds > 0
      BY <2>1 DEF Typed, Errands, RefundSound
    <2>4. /\ NoErrand \in Errand /\ NoErrand.pc = "idle" /\ ~NoErrand.sent
          /\ Done(r) => errand' = [errand EXCEPT ![r] = NoErrand]
      BY DEF NoErrand, Errand, Done
    <2>5. ASSUME NEW pc \in {"capture", "refund.call", "refund.store"}, errand[r].pc = "idle",
                 Send(r, pc)
          PROVE  \E e \in Errand : /\ errand' = [errand EXCEPT ![r] = e]
                                   /\ e.pc = pc /\ ~e.sent /\ ~errand[r].sent
      <3> DEFINE e == [errand[r] EXCEPT !.pc = pc]
      <3>1. e \in Errand /\ e.pc = pc /\ ~e.sent /\ ~errand[r].sent
        BY <2>2, <2>3, <2>5 DEF Errand
      <3>2. errand' = [errand EXCEPT ![r] = e]
        BY <2>5 DEF Send
      <3> HIDE DEF e
      <3> QED BY <3>1, <3>2
    <2>6. ASSUME NEW e \in Errand, errand' = [errand EXCEPT ![r] = e], UNCHANGED past,
                 ~e.sent, ~errand[r].sent,
                 payment'.refunds = payment.refunds, payment'.recorded = payment.recorded,
                 payment'.refunds > 0 \/ (payment'.state # "refunded" /\ e.pc # "refund.store")
          PROVE  RefundSound'
      <3> DEFINE none == 0
      <3>1. /\ none \in Nat /\ none <= none + none /\ none = 0
            /\ payment'.refunds = payment.refunds + none
            /\ payment'.recorded = payment.recorded + none
            /\ past'.lost = past.lost + none
        BY <2>2, <2>6
      <3> HIDE DEF none
      <3> QED BY <1>0, <2>1, <2>6, <3>1, RefundKept
    <2>7. CASE CaptureRead(r)
      <3>1. errand[r].pc = "idle" /\ Send(r, "capture") /\ UNCHANGED <<payment, past>>
            /\ payment.state # "refunded"
        BY <2>7 DEF CaptureRead, MayCapture
      <3>2. PICK e \in Errand : /\ errand' = [errand EXCEPT ![r] = e]
                                /\ e.pc = "capture" /\ ~e.sent /\ ~errand[r].sent
        BY <2>5, <3>1
      <3> QED BY <2>6, <3>1, <3>2
    <2>8. CASE CaptureStore(r)
      <3>1. /\ payment'.state # "refunded" /\ payment'.refunds = payment.refunds
            /\ payment'.recorded = payment.recorded
        BY <2>1, <2>8 DEF CaptureStore, Payment
      <3>2. ~errand[r].sent
        BY <2>3, <2>8 DEF CaptureStore
      <3>3. Done(r) /\ UNCHANGED past
        BY <2>8 DEF CaptureStore
      <3> QED BY <2>4, <2>6, <3>1, <3>2, <3>3
    <2>9. CASE RefundRead(r)
      <3> DEFINE pc == IF AlreadyRefunded THEN "refund.store" ELSE "refund.call"
      <3>1. errand[r].pc = "idle" /\ Send(r, pc) /\ UNCHANGED past
        BY <2>9 DEF RefundRead
      <3>2. /\ payment'.refunds = payment.refunds /\ payment'.recorded = payment.recorded
            /\ payment'.state = payment.state
        BY <2>1, <2>9 DEF RefundRead, Payment
      <3>3. /\ pc \in {"capture", "refund.call", "refund.store"}
            /\ pc = "refund.store" => payment.state = "refunded"
        BY DEF AlreadyRefunded
      <3> HIDE DEF pc
      <3>4. PICK e \in Errand : /\ errand' = [errand EXCEPT ![r] = e]
                                /\ e.pc = pc /\ ~e.sent /\ ~errand[r].sent
        BY <2>5, <3>1, <3>3
      <3>5. payment'.refunds > 0 \/ (payment'.state # "refunded" /\ e.pc # "refund.store")
        BY <2>3, <3>2, <3>3, <3>4
      <3> QED BY <2>6, <3>1, <3>2, <3>4, <3>5
    <2>10. CASE RefundCall(r)
      <3> DEFINE e == [pc |-> "refund.store", sent |-> TRUE]
      <3>1. e \in Errand /\ e.sent /\ ~errand[r].sent
        BY <2>3, <2>10 DEF RefundCall, Errand
      <3>2. errand' = [errand EXCEPT ![r] = e]
        BY <2>10 DEF RefundCall
      <3> HIDE DEF e
      <3>3. PICK again \in {0, 1} :
               /\ payment' = [payment EXCEPT !.refunds = @ + 1 + again]
               /\ past' = [past EXCEPT !.mishaps = @ + again, !.lost = @ + again]
        BY <2>10 DEF RefundCall
      <3>4. /\ payment'.refunds = payment.refunds + (1 + again)
            /\ payment'.recorded = payment.recorded + 0
            /\ past'.lost = past.lost + again
            /\ payment'.refunds > 0
        BY <1>0, <2>1, <2>2, <3>3 DEF Payment, Past
      <3>5. 1 + again \in Nat /\ again \in Nat /\ 1 + again <= 0 + again + 1
        OBVIOUS
      <3> QED BY <1>0, <2>1, <3>1, <3>2, <3>4, <3>5, RefundKept
    <2>11. CASE RefundFails(r)
      <3>1. PICK n \in {0, 1} :
               /\ payment' = [payment EXCEPT !.refunds = @ + n]
               /\ past' = [past EXCEPT !.mishaps = @ + 1, !.lost = @ + n]
        BY <2>11 DEF RefundFails
      <3>2. /\ payment'.refunds = payment.refunds + n
            /\ payment'.recorded = payment.recorded + 0
            /\ past'.lost = past.lost + n
            /\ payment'.state = payment.state
        BY <1>0, <2>1, <2>2, <3>1 DEF Payment, Past
      <3>3. ~errand[r].sent /\ Done(r)
        BY <2>3, <2>11 DEF RefundFails
      <3>4. payment'.refunds > 0 \/ payment'.state # "refunded"
        BY <2>2, <2>3, <3>2
      <3>5. n \in Nat /\ n <= 0 + n
        OBVIOUS
      <3> QED BY <1>0, <2>1, <2>4, <3>2, <3>3, <3>4, <3>5, RefundKept
    <2>12. CASE RefundStore(r)
      <3>1. /\ payment'.refunds = payment.refunds + 0
            /\ payment'.recorded = payment.recorded + 1
            /\ past'.lost = past.lost + 0
        BY <1>0, <2>1, <2>2, <2>12 DEF RefundStore, Payment
      <3>2. payment'.refunds > 0 /\ Done(r)
        BY <2>2, <2>3, <2>12, <3>1 DEF RefundStore
      <3> QED BY <1>0, <2>1, <2>4, <3>1, <3>2, RefundKept
    <2>13. CASE ErrandBreaks(r)
      <3> DEFINE lost == IF errand[r].sent THEN past.lost + 1 ELSE past.lost
      <3>1. past' = [past EXCEPT !.mishaps = @ + 1, !.lost = lost] /\ UNCHANGED payment /\ Done(r)
        BY <2>13 DEF ErrandBreaks
      <3>2. past'.lost = lost
        BY <1>0, <3>1 DEF Past
      <3>3. PICK n \in {0, 1} : past'.lost = past.lost + n /\ (errand[r].sent <=> n = 1)
        BY <2>2, <3>2
      <3>4. payment'.refunds = payment.refunds + 0 /\ payment'.recorded = payment.recorded + 0
        BY <2>2, <3>1
      <3>5. payment'.refunds > 0 \/ payment'.state # "refunded"
        BY <2>3, <3>1
      <3>6. n \in Nat /\ (errand[r].sent => 0 + 1 <= 0 + n) /\ (~errand[r].sent => 0 <= 0 + n)
        BY <3>3
      <3> QED BY <1>0, <2>1, <2>4, <3>1, <3>3, <3>4, <3>5, <3>6, RefundKept
    <2> QED BY <1>2, <2>7, <2>8, <2>9, <2>10, <2>11, <2>12, <2>13 DEF Settle
  <1> QED BY <1>1, <1>2 DEF Settlement

LEMMA RefundSoundStep ==
    ASSUME Typed, RefundSound, [Next]_vars
    PROVE  RefundSound'
  <1>1. ASSUME UNCHANGED <<order, payment, errand>>, past'.lost = past.lost PROVE RefundSound'
    BY <1>1 DEF RefundSound, Sent
  <1>2. ASSUME NEW r \in Requests, Complete(r) PROVE RefundSound'
    <2>1. UNCHANGED <<errand, past>>
      BY <1>2 DEF Complete
    <2>2. CASE UNCHANGED <<order, payment>>
      BY <1>1, <2>1, <2>2
    <2>3. CASE ~UNCHANGED <<order, payment>>
      <3>1. PICK s \in Payable :
                /\ order' = [cart |-> cart, checked |-> req[r].saw, void |-> req[r].void,
                             provider |-> sessions[s].provider,
                             amount |-> sessions[s].amount,
                             outdated |-> s \in past.outdated]
                /\ payment' = [provider |-> sessions[s].provider, state |-> "authorized",
                               refunds |-> 0, recorded |-> 0, asked |-> 0]
        BY <1>2, <2>3 DEF Complete
      <3>2. order' # None
        BY <1>2, <2>3, Placed
      <3>3. order = None /\ payment = None
        BY <1>2 DEF Complete, AtPoint, RefundSound
      <3>4. \A q \in Requests : errand[q].pc = "idle" /\ ~errand[q].sent
        BY <3>3 DEF Typed, Errands
      <3>5. Sent' = {}
        BY <2>1, <3>4 DEF Sent
      <3>6. Cardinality(Sent)' = 0 /\ past.lost \in Nat
        BY <3>5, FS_EmptySet DEF Typed, TypeOK, Past
      <3> QED BY <2>1, <3>1, <3>2, <3>4, <3>6 DEF RefundSound
    <2> QED BY <2>2, <2>3
  <1>3. \/ UNCHANGED <<order, payment, errand>> /\ past'.lost = past.lost
        \/ \E r \in Requests : Complete(r)
        \/ Settlement
    <2>0. past \in Past
      BY DEF Typed, TypeOK
    <2>1. ASSUME OtherSteps, ~Settlement
          PROVE  UNCHANGED <<order, payment, errand>> /\ past'.lost = past.lost
      <3>1. UNCHANGED <<order, payment, errand>>
        BY <2>1 DEF OtherSteps, ApplyRead, InitRead, InitConfirm, AuthRead, AuthConfirm,
           PlaceRead, PlaceCheck, StockCheck, Abort, BeginComplete, BeginApply, BeginShipping,
           RunsOut, SoldElsewhere, orderVars, vars
      <3>2. past'.lost = past.lost
        BY <2>0, <2>1 DEF OtherSteps, ApplyRead, InitRead, InitConfirm, AuthRead, AuthConfirm,
           PlaceRead, PlaceCheck, StockCheck, Abort, BeginComplete, BeginApply, BeginShipping,
           Start, RunsOut, SoldElsewhere, Mishap, vars, Past
      <3> QED BY <3>1, <3>2
    <2>2. CASE CartSteps
      <3>1. UNCHANGED <<order, payment, errand>>
        BY <2>2 DEF CartSteps, ApplyAdd, ShippingSet, PlaceReplace, RemoveCoupon, AddItem,
           RemoveItem, AtOnce, orderVars
      <3>2. past'.lost = past.lost
        BY <2>0, <2>2 DEF CartSteps, ApplyAdd, ShippingSet, PlaceReplace, RemoveCoupon, AddItem,
           RemoveItem, Past
      <3> QED BY <3>1, <3>2
    <2>3. ASSUME \/ CreateCollection \/ InitiateRazorpay
                 \/ \E r \in Requests : InitDelete(r) \/ InitCreate(r) \/ AuthAuthorize(r)
                 \/ \E s \in SessionIds, status \in {"authorized", "failed"} :
                        PaymentRecorded(s, status)
          PROVE  UNCHANGED <<order, payment, errand>> /\ past'.lost = past.lost
      BY <2>0, <2>3 DEF CreateCollection, InitiateRazorpay, InitDelete, InitCreate,
             AuthAuthorize, PaymentRecorded, AtOnce, orderVars, Past
    <2> QED BY <2>1, <2>2, <2>3, StepKinds
  <1> QED BY <1>1, <1>2, <1>3, RefundStepKept

-----------------------------------------------------------------------------
\* The announcements of an authorized COD session.

\* The request is about to authorize session s, or has just done so.
Authorizing(q, s) == q.pc = "auth.authorize" /\ q.sid = s
Announcing(q, s) == q.pc = "auth.confirm" /\ q.sid = s

Spent(s) == sessions[s].status \in {"authorized", "deleted"}

\* A COD session that is not shared is authorized by one request, which announces it.
SessionSound(s) ==
    /\ \A r \in Requests : Authorizing(req[r], s) \/ Announcing(req[r], s) =>
           sessions[s].provider = "cod" /\ sessions[s].status # "none"
    /\ s \notin past.shared =>
           /\ IsAuthorized(s) => \A r \in Requests : ~Authorizing(req[r], s)
           /\ \A r, q \in Requests : Announcing(req[r], s) /\ Announcing(req[q], s) => r = q
           /\ \A r \in Requests : Announcing(req[r], s) => authorized[s] = 0 /\ Spent(s)
           /\ authorized[s] = 0 \/ (authorized[s] = 1 /\ Spent(s))

Announced ==
    /\ AuthorizedOnce
    /\ order = None => \A s \in SessionIds : SessionSound(s)

\* How one session changes.
SessionEffect(s) ==
    \/ sessions'[s] = sessions[s]
    \/ /\ s \in Live /\ sessions'[s].status = "deleted"
       /\ sessions'[s].provider = sessions[s].provider
    \/ sessions[s].status = "none" /\ sessions'[s].status = "pending"
    \/ /\ \E r \in Requests : AuthAuthorize(r) /\ Authorizing(req[r], s)
       /\ sessions'[s].status = "authorized"
       /\ sessions'[s].provider = sessions[s].provider
    \/ /\ sessions[s].provider = "razorpay" /\ sessions[s].status = "pending"
       /\ sessions'[s].status \in {"authorized", "failed"}

LEMMA SessionEffects ==
    ASSUME Typed, [Next]_vars, NEW s \in SessionIds
    PROVE  SessionEffect(s) \/ order' # None
  <1>0. sessions \in [SessionIds -> Session]
    BY DEF Typed, TypeOK
  <1>1. ASSUME UNCHANGED sessions PROVE SessionEffect(s)
    BY <1>1 DEF SessionEffect
  <1>2. ASSUME NEW gone, gone \subseteq Live, sessions' = Deleted(gone) PROVE SessionEffect(s)
    BY <1>0, <1>2, LiveAfterDelete DEF SessionEffect
  <1>3. CASE OtherSteps \/ CartSteps \/ CreateCollection
    <2>1. UNCHANGED sessions \/ sessions' = Deleted(Live)
      BY <1>3, OthersLeaveCart, CartStepChanges DEF CreateCollection, ChangeCart, Refresh, cartVars
    <2> QED BY <1>1, <1>2, <2>1
  <1>4. CASE InitiateRazorpay
    <2> DEFINE made == [provider |-> "razorpay", status |-> "pending", amount |-> collection]
    <2>1. PICK t \in Fresh : sessions' = [Deleted(Live) EXCEPT ![t] = made]
      BY <1>4 DEF InitiateRazorpay
    <2>2. sessions'[s] = IF s = t THEN made ELSE Deleted(Live)[s]
      BY <1>0, <2>1, DeletedType
    <2>3. made.status = "pending"
      OBVIOUS
    <2> HIDE DEF made
    <2> QED BY <1>0, <2>2, <2>3 DEF SessionEffect, Fresh, Deleted, Session
  <1>5. ASSUME NEW r \in Requests, InitDelete(r) PROVE SessionEffect(s)
    <2>1. UNCHANGED sessions \/ \E t \in Live : sessions' = Deleted({t})
      BY <1>5 DEF InitDelete
    <2> QED BY <1>1, <1>2, <2>1
  <1>6. ASSUME NEW r \in Requests, InitCreate(r) PROVE SessionEffect(s)
    BY <1>0, <1>6 DEF InitCreate, Fresh, SessionEffect
  <1>7. ASSUME NEW r \in Requests, AuthAuthorize(r) PROVE SessionEffect(s)
    <2>1. CASE req[r].sid \in Live
               /\ sessions' = [sessions EXCEPT ![req[r].sid].status = "authorized"]
      <3>1. CASE s = req[r].sid
        <4>1. Authorizing(req[r], s)
          BY <1>7, <3>1 DEF AuthAuthorize, AtPoint, Authorizing
        <4>2. sessions'[s].status = "authorized" /\ sessions'[s].provider = sessions[s].provider
          BY <1>0, <2>1, <3>1, LiveAfterStatus
        <4> QED BY <1>7, <4>1, <4>2 DEF SessionEffect
      <3>2. CASE s # req[r].sid
        BY <1>0, <2>1, <3>2, LiveAfterStatus DEF SessionEffect
      <3> QED BY <3>1, <3>2
    <2> QED BY <1>1, <1>7, <2>1 DEF AuthAuthorize
  <1>8. ASSUME NEW r \in Requests, Complete(r) PROVE SessionEffect(s) \/ order' # None
    <2>1. CASE UNCHANGED sessions
      BY <1>1, <2>1
    <2>2. CASE ~UNCHANGED sessions
      BY <1>8, <2>2, Placed
    <2> QED BY <2>1, <2>2
  <1>9. ASSUME NEW t \in SessionIds, NEW status \in {"authorized", "failed"},
               PaymentRecorded(t, status)
        PROVE  SessionEffect(s)
    BY <1>0, <1>9, LiveAfterStatus DEF PaymentRecorded, SessionEffect
  <1> QED BY <1>3, <1>4, <1>5, <1>6, <1>7, <1>8, <1>9, StepKinds

\* Only AuthConfirm announces.
LEMMA AuthorizedChanges ==
    ASSUME Typed, [Next]_vars
    PROVE  \/ UNCHANGED authorized
           \/ /\ UNCHANGED sessions
              /\ \E r \in Requests, t \in CodSessions :
                     /\ req[r].pc = "auth.confirm" /\ req'[r].pc = "place.read"
                     /\ IsAuthorized(t)
                     /\ authorized' = [authorized EXCEPT ![t] = @ + 1]
                     /\ t = req[r].sid \/ t \in past'.shared
  <1>1. ASSUME NEW r \in Requests, AuthConfirm(r)
        PROVE  \/ UNCHANGED authorized
               \/ /\ UNCHANGED sessions
                  /\ \E q \in Requests, t \in CodSessions :
                     /\ req[q].pc = "auth.confirm" /\ req'[q].pc = "place.read"
                     /\ IsAuthorized(t)
                     /\ authorized' = [authorized EXCEPT ![t] = @ + 1]
                     /\ t = req[q].sid \/ t \in past'.shared
    <2>1. CASE UNCHANGED authorized
      BY <2>1
    <2>2. ASSUME NEW t \in CodSessions, IsAuthorized(t),
                 authorized' = [authorized EXCEPT ![t] = @ + 1],
                 past' = [past EXCEPT !.shared = IF t = req[r].sid THEN @ ELSE @ \cup {t}],
                 Goto(r, "place.read")
          PROVE  \E q \in Requests, u \in CodSessions :
                     /\ req[q].pc = "auth.confirm" /\ req'[q].pc = "place.read"
                     /\ IsAuthorized(u)
                     /\ authorized' = [authorized EXCEPT ![u] = @ + 1]
                     /\ u = req[q].sid \/ u \in past'.shared
      <3>1. req[r].pc = "auth.confirm" /\ req'[r].pc = "place.read"
        BY <1>1, <2>2, AfterGoto DEF AuthConfirm, AtPoint
      <3>2. t = req[r].sid \/ t \in past'.shared
        BY <2>2 DEF Typed, TypeOK, Past
      <3> QED BY <2>2, <3>1, <3>2
    <2> QED BY <1>1, <2>1, <2>2 DEF AuthConfirm, cartVars
  <1>2. CASE OtherSteps /\ ~\E r \in Requests : AuthConfirm(r)
    BY <1>2, SettlementLeaves DEF OtherSteps, ApplyRead, InitRead, InitConfirm, AuthRead, PlaceRead,
           PlaceCheck, StockCheck, Abort, BeginComplete, BeginApply, BeginShipping, RunsOut,
           SoldElsewhere, checkoutVars, vars, Typed, TypeOK
  <1>3. CASE CartSteps
    BY <1>3 DEF CartSteps, ApplyAdd, ShippingSet, PlaceReplace, RemoveCoupon, AddItem,
           RemoveItem, AtOnce
  <1> QED BY <1>1, <1>2, <1>3, StepKinds DEF CreateCollection, InitiateRazorpay, InitDelete,
           InitCreate, AuthAuthorize, Complete, PaymentRecorded, AtOnce

\* What AuthAuthorize leaves, when it goes on.
LEMMA AuthAuthorizes ==
    ASSUME Typed, NEW r \in Requests, AuthAuthorize(r), req'[r].pc = "auth.confirm",
           NEW s, s = req[r].sid
    PROVE  /\ s \in Live /\ sessions'[s].status = "authorized"
           /\ sessions'[s].provider = sessions[s].provider
           /\ UNCHANGED authorized
           /\ \A q \in Requests \ {r} : /\ req'[q] = req[q]
                                        /\ Authorizing(req[q], s) => s \in past'.shared
  <1>0. sessions \in [SessionIds -> Session] /\ past \in Past
    BY DEF Typed, TypeOK
  <1>1. ~Finish(r)
    BY AfterFinish DEF Idle
  <1>2. s \in Live /\ sessions' = [sessions EXCEPT ![s].status = "authorized"]
        /\ UNCHANGED authorized /\ Goto(r, "auth.confirm")
    BY <1>1 DEF AuthAuthorize
  <1>3. past' = [past EXCEPT
                   !.shared = IF \E q \in Requests \ {r}:
                                     req[q].pc = "auth.authorize" /\ req[q].sid = s
                               THEN @ \cup {s} ELSE @]
    BY <1>1 DEF AuthAuthorize
  <1>4. \A q \in Requests \ {r} : Authorizing(req[q], s) => s \in past'.shared
    BY <1>0, <1>3 DEF Authorizing, Past
  <1>5. \A q \in Requests \ {r} : req'[q] = req[q]
    BY <1>2, AfterGoto
  <1>6. sessions'[s].status = "authorized" /\ sessions'[s].provider = sessions[s].provider
    BY <1>0, <1>2, LiveAfterStatus DEF Live
  <1> QED BY <1>2, <1>4, <1>5, <1>6

LEMMA SessionSoundStep ==
    ASSUME Typed, [Next]_vars, NEW s \in SessionIds, SessionSound(s), order' = None
    PROVE  SessionSound(s)'
  <1>0. /\ sessions \in [SessionIds -> Session] /\ authorized \in [SessionIds -> Nat]
        /\ past.shared \subseteq past'.shared
    BY PastOnlyGrows DEF Typed, TypeOK, PastGrows
  <1>1. SessionEffect(s)
    BY SessionEffects
  <1>2. ASSUME NEW r \in Requests, Authorizing(req'[r], s)
        PROVE  \/ req'[r] = req[r] /\ Authorizing(req[r], s)
               \/ UNCHANGED sessions /\ s \in CodSessions /\ ~IsAuthorized(s)
    <2>1. Arrival(r)
      BY Arrivals
    <2> QED BY <1>2, <2>1 DEF Arrival, Plain, Authorizing, AuthRead, cartVars
  <1>3. ASSUME NEW r \in Requests, Announcing(req'[r], s)
        PROVE  \/ req'[r] = req[r] /\ Announcing(req[r], s)
               \/ AuthAuthorize(r) /\ Authorizing(req[r], s) /\ req'[r].pc = "auth.confirm"
    <2>1. Arrival(r)
      BY Arrivals
    <2> QED BY <1>3, <2>1 DEF Arrival, Plain, Authorizing, Announcing
  <1>4. ASSUME NEW r \in Requests, Authorizing(req'[r], s) \/ Announcing(req'[r], s)
        PROVE  sessions'[s].provider = "cod" /\ sessions'[s].status # "none"
    <2>1. CASE UNCHANGED sessions /\ s \in CodSessions
      BY <2>1 DEF CodSessions, Live
    <2>2. CASE Authorizing(req[r], s) \/ Announcing(req[r], s)
      <3>1. sessions[s].provider = "cod" /\ sessions[s].status # "none"
        BY <2>2 DEF SessionSound
      <3> QED BY <1>1, <3>1 DEF SessionEffect
    <2> QED BY <1>2, <1>3, <1>4, <2>1, <2>2
  <1>5. ASSUME s \notin past'.shared
        PROVE  /\ IsAuthorized(s)' => \A r \in Requests : ~Authorizing(req'[r], s)
               /\ \A r, q \in Requests : Announcing(req'[r], s) /\ Announcing(req'[q], s) => r = q
               /\ \A r \in Requests : Announcing(req'[r], s) => authorized'[s] = 0 /\ Spent(s)'
               /\ authorized'[s] = 0 \/ (authorized'[s] = 1 /\ Spent(s)')
    <2>0. s \notin past.shared
      BY <1>0, <1>5
    <2>1. /\ IsAuthorized(s) => \A r \in Requests : ~Authorizing(req[r], s)
          /\ \A r, q \in Requests : Announcing(req[r], s) /\ Announcing(req[q], s) => r = q
          /\ \A r \in Requests : Announcing(req[r], s) => authorized[s] = 0 /\ Spent(s)
          /\ authorized[s] = 0 \/ (authorized[s] = 1 /\ Spent(s))
      BY <2>0 DEF SessionSound
    <2>2. Spent(s) => Spent(s)'
      BY <1>1 DEF SessionEffect, Spent, Live
    <2>3. ASSUME NEW r \in Requests, AuthAuthorize(r), Authorizing(req[r], s),
                 req'[r].pc = "auth.confirm"
          PROVE  /\ ~Spent(s) /\ Spent(s)' /\ authorized'[s] = 0
                 /\ \A q \in Requests : Announcing(req'[q], s) => q = r
                 /\ \A q \in Requests : ~Authorizing(req'[q], s)
      <3>1. /\ s \in Live /\ sessions'[s].status = "authorized" /\ UNCHANGED authorized
            /\ \A q \in Requests \ {r} : /\ req'[q] = req[q]
                                         /\ Authorizing(req[q], s) => s \in past'.shared
        BY <2>3, AuthAuthorizes DEF Authorizing
      <3>2. ~Spent(s)
        BY <2>1, <2>3, <3>1 DEF Spent, Live, IsAuthorized
      <3>3. \A q \in Requests : ~Announcing(req[q], s)
        BY <2>1, <3>2
      <3> QED BY <1>5, <2>1, <2>3, <3>1, <3>2, <3>3 DEF Spent, Authorizing, Announcing
    <2>4. ASSUME IsAuthorized(s)', NEW r \in Requests, Authorizing(req'[r], s) PROVE FALSE
      <3>1. req'[r] = req[r] /\ Authorizing(req[r], s)
        BY <1>2, <2>4 DEF IsAuthorized
      <3>2. sessions[s].provider = "cod" /\ sessions[s].status # "none" /\ ~IsAuthorized(s)
        BY <2>1, <3>1 DEF SessionSound
      <3>3. PICK q \in Requests : AuthAuthorize(q) /\ Authorizing(req[q], s)
        BY <1>1, <2>4, <3>2 DEF SessionEffect, IsAuthorized
      <3>4. req'[q].pc = "auth.confirm"
        <4>1. CASE Finish(q) /\ UNCHANGED sessions
          BY <2>4, <3>2, <4>1 DEF IsAuthorized
        <4>2. CASE Goto(q, "auth.confirm")
          BY <4>2, AfterGoto
        <4> QED BY <3>3, <4>1, <4>2 DEF AuthAuthorize
      <3> QED BY <2>3, <2>4, <3>3, <3>4
    <2>5. ASSUME NEW r \in Requests, NEW q \in Requests,
                 Announcing(req'[r], s), Announcing(req'[q], s)
          PROVE  r = q
      BY <1>3, <2>1, <2>3, <2>5
    <2>6. \/ UNCHANGED authorized
          \/ /\ UNCHANGED sessions
             /\ \/ authorized'[s] = authorized[s]
                \/ /\ authorized'[s] = authorized[s] + 1
                   /\ IsAuthorized(s)
                   /\ \E r \in Requests : Announcing(req[r], s) /\ req'[r].pc = "place.read"
      BY <1>0, <1>5, AuthorizedChanges DEF Announcing, CodSessions, Live
    <2>7. authorized'[s] = 0 \/ (authorized'[s] = 1 /\ Spent(s)')
      <3>1. CASE authorized'[s] = authorized[s]
        BY <2>1, <2>2, <3>1
      <3>2. CASE /\ authorized'[s] = authorized[s] + 1
                 /\ IsAuthorized(s)
                 /\ \E r \in Requests : Announcing(req[r], s)
        <4>1. authorized[s] = 0 /\ Spent(s)
          BY <2>1, <3>2
        <4> QED BY <2>2, <3>2, <4>1
      <3> QED BY <2>6, <3>1, <3>2
    <2>8. ASSUME NEW r \in Requests, Announcing(req'[r], s)
          PROVE  authorized'[s] = 0 /\ Spent(s)'
      <3>1. CASE req'[r] = req[r] /\ Announcing(req[r], s)
        <4>1. authorized[s] = 0 /\ Spent(s)
          BY <2>1, <3>1
        <4>2. \A q \in Requests : Announcing(req[q], s) => req'[q].pc = "auth.confirm"
          BY <2>1, <3>1 DEF Announcing
        <4> QED BY <2>2, <2>6, <4>1, <4>2
      <3>2. CASE AuthAuthorize(r) /\ Authorizing(req[r], s) /\ req'[r].pc = "auth.confirm"
        BY <2>3, <3>2
      <3> QED BY <1>3, <2>8, <3>1, <3>2
    <2> QED BY <2>4, <2>5, <2>7, <2>8
  <1> QED BY <1>4, <1>5 DEF SessionSound

LEMMA AnnouncedStep ==
    ASSUME Typed, Announced, [Next]_vars
    PROVE  Announced'
  <1>1. ASSUME order' = None PROVE \A s \in SessionIds : SessionSound(s)'
    <2>1. order = None
      BY <1>1, OrderChanges
    <2> QED BY <1>1, <2>1, SessionSoundStep DEF Announced
  <1>2. AuthorizedOnce'
    <2>1. CASE UNCHANGED authorized
      BY <2>1, PastOnlyGrows DEF Announced, AuthorizedOnce, PastGrows
    <2>2. ASSUME NEW r \in Requests, AuthConfirm(r) PROVE AuthorizedOnce'
      <3>1. order' = None /\ authorized \in [SessionIds -> Nat]
        BY <2>2 DEF AuthConfirm, AtPoint, orderVars, Typed, TypeOK
      <3> QED BY <1>1, <3>1 DEF SessionSound, AuthorizedOnce
    <2>3. UNCHANGED authorized \/ \E r \in Requests : AuthConfirm(r)
      <3>1. CASE OtherSteps
        BY <3>1, SettlementLeaves DEF OtherSteps, ApplyRead, InitRead, InitConfirm, AuthRead, PlaceRead,
           PlaceCheck, StockCheck, Abort, BeginComplete, BeginApply, BeginShipping, RunsOut,
           SoldElsewhere, checkoutVars, vars, Typed, TypeOK
      <3>2. CASE CartSteps
        BY <3>2 DEF CartSteps, ApplyAdd, ShippingSet, PlaceReplace, RemoveCoupon, AddItem,
           RemoveItem, AtOnce
      <3> QED BY <3>1, <3>2, StepKinds DEF CreateCollection, InitiateRazorpay, InitDelete,
           InitCreate, AuthAuthorize, Complete, PaymentRecorded, AtOnce
    <2> QED BY <2>1, <2>2, <2>3
  <1> QED BY <1>1, <1>2 DEF Announced

-----------------------------------------------------------------------------
\* The theorems.

IInv ==
    /\ Typed
    /\ Charging
    /\ Single
    /\ OneCoupon
    /\ Policy
    /\ EligibleForCod
    /\ OrderSound
    /\ RefundSound
    /\ Announced

LEMMA InitInv == Init => IInv
  <1> SUFFICES ASSUME Init PROVE IInv
    OBVIOUS
  <1>1. Typed
    BY TypedAtFirst
  <1>2. Live = {}
    BY DEF Init, NoSession, Live
  <1>3. \A r \in Requests : req[r] = Idle
    BY DEF Init
  <1>4. cart.coupons = {} /\ cart.items \subseteq Eligible
    BY DEF Init
  <1>5. Charging /\ Single
    BY <1>2, <1>3 DEF Init, Idle, Creating, Charging, SessionsChargeTotal, Single, AtMostOne
  <1>6. OneCoupon /\ Policy
    BY <1>3, <1>4 DEF Init, Idle, OneCoupon, AtMostOne, Policy, Guarded
  <1>7. EligibleForCod /\ OrderSound /\ RefundSound
    BY <1>4 DEF Init, EligibleForCod, OrderSound, PlacedAsChecked, CodItemsEligible, RefundSound
  <1>8. Announced
    BY <1>3 DEF Init, Idle, Announced, AuthorizedOnce, SessionSound, Authorizing, Announcing,
                IsAuthorized, NoSession
  <1> QED BY <1>1, <1>5, <1>6, <1>7, <1>8 DEF IInv

LEMMA StepInv == IInv /\ [Next]_vars => IInv'
  BY TypedStep, ChargingStep, SingleStep, OneCouponStep, PolicyStep, EligibleForCodStep,
     OrderSoundStep, RefundSoundStep, AnnouncedStep
  DEF IInv

\* The invariant that all the properties below follow from.
THEOREM Invariance == Spec => []IInv
  BY InitInv, StepInv, PTL DEF Spec

\* The cart, its sessions, the requests in progress and the order have the types of the model,
\* whatever the order the requests' steps come in (workflows/checkout, cart_apply_coupon).
THEOREM TypeCorrect == Spec => []TypeOK
  <1>1. IInv => TypeOK
    BY DEF IInv, Typed
  <1> QED BY <1>1, Invariance, PTL

\* Collection and sessions ask for the cart's total at any time, but for a COD session that
\* payment_init made with an amount it had read before (payment_init.ts).
THEOREM TotalsCharged == Spec => []SessionsChargeTotal
  <1>1. IInv => SessionsChargeTotal
    BY DEF IInv, Charging
  <1> QED BY <1>1, Invariance, PTL

\* A cart has one session at most unless two requests create theirs across each other.
THEOREM SessionIsSingle == Spec => []OneSession
  <1>1. IInv => OneSession
    BY OneAtMost DEF IInv, Single, OneSession
  <1> QED BY <1>1, Invariance, PTL

\* Two manual coupons in a cart take two requests that both saw none (cart_apply_coupon.ts).
THEOREM CouponIsSingle == Spec => []OneCouponUnlessRaced
  <1>1. IInv => OneCouponUnlessRaced
    BY OneAtMost DEF IInv, OneCoupon, OneCouponUnlessRaced
  <1> QED BY <1>1, Invariance, PTL

\* An order placed with the cart both readings of the guard saw obeys the coupon policy.
THEOREM PolicyAtPlacement == Spec => []PlacedAsChecked
  <1>1. IInv => PlacedAsChecked
    BY DEF IInv, OrderSound
  <1> QED BY <1>1, Invariance, PTL

\* An order by an option whose name or metadata says COD holds no ineligible item but one that
\* came into the cart after the option had been checked (middlewares.ts, eligibility.ts).
THEOREM CodOrdersEligible == Spec => []CodItemsEligible
  <1>1. IInv => CodItemsEligible
    BY DEF IInv, OrderSound
  <1> QED BY <1>1, Invariance, PTL

\* cod.authorized goes out once per session that no two requests share.
THEOREM AnnouncedOncePerSession == Spec => []AuthorizedOnce
  <1>1. IInv => AuthorizedOnce
    BY DEF IInv, Announced
  <1> QED BY <1>1, Invariance, PTL

\* With any number of captures and refunds side by side, all that the provider gave back is
\* recorded, to be recorded, or lost with its answer, and nothing is recorded before it gave
\* something back (razorpay-payment, cod-payment).
THEOREM RefundsAreOnRecord == Spec => []RefundsOnRecord
  <1>1. IInv => RefundsOnRecord
    BY DEF IInv, RefundSound, RefundsOnRecord, Sent
  <1> QED BY <1>1, Invariance, PTL

\* No step of any request takes away a Razorpay session that holds a payment.
THEOREM PaidSessionsStay == Spec => PaidSessionKept
  <1>1. IInv /\ [Next]_vars =>
            [\A s \in Live:
                sessions[s].provider = "razorpay" /\ IsAuthorized(s) => IsAuthorized(s)']_vars
    BY PaidKept DEF IInv
  <1> QED BY <1>1, Invariance, PTL DEF Spec, PaidSessionKept
=============================================================================
