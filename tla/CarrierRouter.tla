---------------------------- MODULE CarrierRouter ----------------------------
(***************************************************************************)
(* ShippingProviderRouter (integrations/carriers/router.ts) over the       *)
(* Shiprocket adapter (integrations/carriers/shiprocket.ts): calls that    *)
(* run side by side through one circuit breaker per method, two nested     *)
(* retry loops, one cached token that is refreshed by a single login,      *)
(* calls of two requests, and a cancellation that reads the shipment       *)
(* before it asks the carrier.                                             *)
(*                                                                         *)
(* One provider and one order.  The carrier, the network between, the      *)
(* passing of time and the webhooks that move the stored shipment are the  *)
(* environment.  The carrier knows a booking by the order_id it is sent,   *)
(* so a repeated booking is the same parcel.                               *)
(***************************************************************************)
EXTENDS ShipmentStatus, Sequences, FiniteSets

CONSTANTS
    Calls,             \* the calls, each made once
    Methods,           \* the methods they may call
    RouterAttempts,    \* retryConfig.max_attempts
    AdapterAttempts,   \* retryMaxAttempts
    Threshold,         \* consecutive_failures_threshold
    Window,            \* rolling_window_size
    ErrorRate,         \* error_rate_threshold_percent
    OpenTicks,         \* open_duration_ms, in ticks of the clock
    MaxLogins,         \* bounds the tokens the carrier issues, a configured one among them
    MaxExpiries,       \* bounds how often a token expires or is revoked
    Journey,           \* bounds the statuses the parcel may reach at the carrier
    None

\* RETRYABLE_METHODS, without the health check, which nothing calls.
Reads == {"quote", "lookupShipmentByReference", "track", "getLabel"}

ASSUME RouterAssumption ==
    /\ Methods # {}
    /\ Methods \subseteq Reads \cup {"createShipment", "cancel"}
    /\ RouterAttempts \in Nat \ {0}
    /\ AdapterAttempts \in Nat \ {0}
    /\ Threshold \in Nat \ {0}
    /\ Window \in Nat \ {0}
    /\ ErrorRate \in 1..100
    /\ OpenTicks \in Nat \ {0}
    /\ MaxLogins \in Nat \ {0}
    /\ MaxExpiries \in Nat
    /\ Journey \subseteq ShipmentStatus
    /\ None \notin Calls

VARIABLES
    call,       \* [Calls -> Call], where each call stands
    circuit,    \* [Methods -> Circuit], the router's circuitState
    issued,     \* tokens are numbered in the order the carrier issues them
    floor,      \* the carrier accepts the tokens from this one on
    cache,      \* tokenCache: the token and whether it is still fresh
    refresher,  \* the call whose login is tokenRefreshInFlight, or None
    expiries,   \* tokens that expired or were revoked so far
    enabled,    \* SHIPPING_BOOKING_ENABLED
    static,     \* SHIPROCKET_TOKEN is set: it is token 1, and nobody logs in
    record,     \* status of the stored shipment
    parcel,     \* the carrier's own status of it, or "none"
    late,       \* calls with an abandoned request that may still arrive
    performed   \* calls the carrier performed a request of (history)

carrierVars == <<floor, parcel, late, performed>>
tokenVars == <<issued, cache, refresher>>
settings == <<enabled, static>>
vars == <<call, circuit, issued, floor, cache, refresher, expiries, enabled,
          static, record, parcel, late, performed>>

-----------------------------------------------------------------------------
(* Types.                                                                  *)

Pc == {"idle", "auth", "login", "join", "wire", "back", "save", "done"}

Reply == {"none", "ok", "vague", "unauthorized", "refused", "unmapped",
          "transient", "network"}

Answer == {"none", "ok", "unconfirmed", "failed", "open", "disabled", "refused", "already"}

Token == 0..MaxLogins

Call == [pc : Pc, method : Methods, tries : 0..RouterAttempts,
         two : BOOLEAN, leg : {1, 2}, sends : 0..(AdapterAttempts + 1),
         token : Token, rejected : Token,
         forced : BOOLEAN, refreshed : BOOLEAN, unreplaced : BOOLEAN,
         reply : Reply, answer : Answer]

Circuit == [openFor : 0..OpenTicks, failures : 0..Threshold, outcomes : Seq(BOOLEAN)]

TypeOK ==
    /\ call \in [Calls -> Call]
    /\ circuit \in [Methods -> Circuit]
    /\ issued \in Token
    /\ floor \in 1..(MaxLogins + 1)
    /\ cache \in [token : Token, fresh : BOOLEAN]
    /\ refresher \in Calls \cup {None}
    /\ expiries \in 0..MaxExpiries
    /\ enabled \in BOOLEAN /\ static \in BOOLEAN
    /\ record \in ShipmentStatus
    /\ parcel \in ShipmentStatus \cup {"none"}
    /\ late \subseteq Calls
    /\ performed \subseteq Calls

\* A call that is two has a second request to the carrier, its second leg. The token that
\* was last rejected for it is unreplaced if the login that was to replace it failed.
Unused == [pc |-> "idle", method |-> CHOOSE m \in Methods : TRUE, tries |-> 0,
           two |-> FALSE, leg |-> 1, sends |-> 0, token |-> 0, rejected |-> 0,
           forced |-> FALSE, refreshed |-> FALSE, unreplaced |-> FALSE,
           reply |-> "none", answer |-> "none"]

\* getOrCreateCircuitState
NewCircuit == [openFor |-> 0, failures |-> 0, outcomes |-> <<>>]

Init ==
    /\ call = [c \in Calls |-> Unused]
    /\ circuit = [m \in Methods |-> NewCircuit]
    /\ static \in BOOLEAN
    /\ issued = IF static THEN 1 ELSE 0
    /\ floor = 1
    /\ cache = [token |-> 0, fresh |-> FALSE]
    /\ refresher = None
    /\ expiries = 0
    /\ enabled \in BOOLEAN
    /\ record = "BOOKING_IN_PROGRESS"
    /\ parcel = "none"
    /\ late = {}
    /\ performed = {}

-----------------------------------------------------------------------------
(* The circuit of a method, and who retries what.                          *)

\* state.outcomes.push, and shift when the window is full.
Outcomes(o, outcome) ==
    IF Len(o) < Window THEN Append(o, outcome) ELSE Append(Tail(o), outcome)

Success(k) == [k EXCEPT !.failures = 0, !.outcomes = Outcomes(@, TRUE)]

\* The count is capped at Threshold, the only value it is compared with.
Failure(k) ==
    LET failures == IF k.failures < Threshold THEN k.failures + 1 ELSE Threshold
        outcomes == Outcomes(k.outcomes, FALSE)
        failed == Cardinality({n \in DOMAIN outcomes : ~outcomes[n]})
        opens == \/ failures >= Threshold
                 \/ /\ Len(outcomes) >= Window
                    /\ failed * 100 >= ErrorRate * Len(outcomes)
    IN [openFor |-> IF opens THEN OpenTicks ELSE k.openFor,
        failures |-> failures, outcomes |-> outcomes]

\* RETRYABLE_OPERATION_NAMES of the adapter, without the lookup; and of the router,
\* with createShipment, which the adapter declares idempotent.
AdapterRetries == Reads \ {"lookupShipmentByReference"}
RouterRetries == Reads \cup {"createShipment"}

\* A 2xx that does not say what was asked for is an UPSTREAM_ERROR to these.
NeedsContent == {"createShipment", "getLabel", "quote"}

\* A quote asks for the couriers that serve the route, and is refused if there are none,
\* and then for their rates.
Unserved(r) == r.method = "quote" /\ r.leg = 1 /\ r.reply = "vague"

QuoteGoesOn(r) == r.method = "quote" /\ r.reply = "ok"

\* A label whose URL is missing is generated once more, if the caller allows it.
LabelGoesOn(r) == r.method = "getLabel" /\ r.reply = "vague"

\* A parcel known by its reference alone is looked up before it is tracked.
TrackGoesOn(r) == r.method = "track" /\ r.reply = "ok"

GoesOn(r) == r.two /\ r.leg = 1 /\ (QuoteGoesOn(r) \/ LabelGoesOn(r) \/ TrackGoesOn(r))

\* The requests of a method; the caller of getLabel and track decides.
TwoRequests(m) ==
    IF m \in {"getLabel", "track"} THEN BOOLEAN ELSE {m = "quote"}

Repeatable(r) ==
    r.method \in AdapterRetries /\ ~(r.method = "track" /\ r.two /\ r.leg = 1)

Resend_AnyMethod(r) == r.reply \in {"transient", "network"} /\ r.sends < AdapterAttempts
Resend_OneMore(r) ==
    r.reply \in {"transient", "network"} /\ Repeatable(r) /\ r.sends <= AdapterAttempts + 1

\* isRetryableStatus or isNetworkError in the adapter.
Resend(r) == r.reply \in {"transient", "network"} /\ Repeatable(r) /\ r.sends < AdapterAttempts

\* isRetryableError in the router, which also retries an error nobody could name.
Retry(r) ==
    /\ \/ r.reply \in {"transient", "network", "unmapped"}
       \/ r.reply = "vague" /\ r.method \in NeedsContent /\ ~Unserved(r)
    /\ r.method \in RouterRetries
    /\ r.tries < RouterAttempts

Succeeds(r) == r.reply = "ok" \/ (r.reply = "vague" /\ r.method \notin NeedsContent)

Confirmed_Assumed(r) == TRUE

\* cancelled.cancelled: the carrier's answer says that the parcel is cancelled.
Confirmed(r) == r.reply = "ok"

Result_AnyReturn(r) == "ok"

\* A return that confirms nothing promises nothing to the caller.
Result(r) == IF r.reply = "ok" THEN "ok" ELSE "unconfirmed"

Set(c, r) == call' = [call EXCEPT ![c] = r]

Settled(m, answer) == [Unused EXCEPT !.pc = "done", !.method = m, !.answer = answer]

Settle(c, answer) == Set(c, Settled(call[c].method, answer))

-----------------------------------------------------------------------------
(* A call through the router.                                              *)

\* What a method answers without the carrier, or "none". A cancellation
\* reads the stored shipment: a cancelled one is a success, one under way or without
\* the carrier's id is refused.
Precheck(m, known) ==
    CASE m = "createShipment" /\ ~enabled -> "disabled"
      [] m = "cancel" /\ record = "CANCELLED" -> "already"
      [] m = "cancel" /\ (record \in {"IN_TRANSIT", "DELIVERED"} \/ ~known) -> "refused"
      [] circuit[m].openFor > 0 -> "open"
      [] OTHER -> "none"

\* The carrier's id is stored with its status, or while the status is still that of a
\* booking, when the carrier's answer named none.
IdKnown == IF record = "BOOKING_IN_PROGRESS" THEN {FALSE, parcel # "none"} ELSE {TRUE}

Begin(c) ==
    /\ call[c].pc = "idle"
    /\ \E m \in Methods, known \in IdKnown :
          LET answer == Precheck(m, known)
          IN IF answer # "none"
             THEN Set(c, Settled(m, answer))
             ELSE \E two \in TwoRequests(m) :
                    Set(c, [call[c] EXCEPT !.pc = "auth", !.method = m, !.two = two,
                                           !.tries = 1, !.sends = 1])
    /\ UNCHANGED <<circuit, tokenVars, carrierVars, expiries, settings, record>>

NeedsLogin_CacheOnly(r) == ~static /\ ~cache.fresh

NeedsLogin(r) == ~static /\ (r.forced \/ ~cache.fresh)

\* getAuthToken: a configured or fresh token goes out with the request at once, the
\* configured one even after a 401; otherwise the call waits for the login in flight,
\* or starts it.
Authorise(c) ==
    /\ call[c].pc = "auth"
    /\ \/ /\ ~NeedsLogin(call[c])
          /\ Set(c, [call[c] EXCEPT !.pc = "wire", !.forced = FALSE,
                                    !.token = IF static THEN 1 ELSE cache.token])
          /\ UNCHANGED refresher
       \/ /\ NeedsLogin(call[c])
          /\ refresher # None
          /\ Set(c, [call[c] EXCEPT !.pc = "join"])
          /\ UNCHANGED refresher
       \/ /\ NeedsLogin(call[c])
          /\ refresher = None
          /\ refresher' = c
          /\ Set(c, [call[c] EXCEPT !.pc = "login"])
    /\ UNCHANGED <<circuit, issued, cache, carrierVars, expiries, settings, record>>

\* The login, its own retries included, ends: everybody who waits for it goes on with
\* the token, or has the error for a reply.
Waiting_Alone(c) == {c}

Waiting(c) == {d \in Calls : d = c \/ call[d].pc = "join"}

LoggedIn(c) ==
    /\ call[c].pc = "login"
    /\ issued < MaxLogins
    /\ issued' = issued + 1
    /\ cache' = [token |-> issued', fresh |-> TRUE]
    /\ refresher' = None
    /\ call' = [d \in Calls |->
                   IF d \in Waiting(c)
                   THEN [call[d] EXCEPT !.pc = "wire", !.token = issued', !.forced = FALSE,
                                        !.unreplaced = FALSE]
                   ELSE call[d]]
    /\ UNCHANGED <<circuit, carrierVars, expiries, settings, record>>

\* The cache keeps the token it has, and nobody remembers that it was rejected.
LoginFailed(c) ==
    /\ call[c].pc = "login"
    /\ refresher' = None
    /\ \E reply \in {"refused", "unmapped"} :
          call' = [d \in Calls |->
                     IF d \in Waiting(c)
                     THEN [call[d] EXCEPT !.pc = "back", !.forced = FALSE, !.reply = reply,
                                          !.unreplaced = TRUE]
                     ELSE call[d]]
    /\ UNCHANGED <<circuit, issued, cache, carrierVars, expiries, settings, record>>

Again(r) == [r EXCEPT !.pc = "auth", !.reply = "none", !.token = 0]

\* requestRawJson: after a 401 the adapter resends with a new token, once, and a method
\* it may repeat is resent after a transient error.
Reauthorises(r) == r.reply = "unauthorized" /\ ~r.refreshed

ResendRequest(c) ==
    LET r == call[c]
    IN /\ r.pc = "back"
       /\ \/ /\ Reauthorises(r)
             /\ Set(c, [Again(r) EXCEPT !.sends = @ + 1, !.forced = TRUE, !.refreshed = TRUE,
                                       !.rejected = r.token, !.unreplaced = FALSE])
          \/ /\ Resend(r)
             /\ Set(c, [Again(r) EXCEPT !.sends = @ + 1])
    /\ UNCHANGED <<circuit, tokenVars, carrierVars, expiries, settings, record>>

\* The adapter goes on to the second request of the call.
NextRequest(c) ==
    /\ call[c].pc = "back"
    /\ GoesOn(call[c])
    /\ Set(c, [Again(call[c]) EXCEPT !.leg = 2, !.sends = 1, !.refreshed = FALSE])
    /\ UNCHANGED <<circuit, tokenVars, carrierVars, expiries, settings, record>>

\* invokeWithPolicy: the adapter's result counts for the circuit, unless the error is
\* retried.
Return(c) ==
    LET r == call[c]
    IN /\ r.pc = "back"
       /\ ~Reauthorises(r) /\ ~Resend(r) /\ ~GoesOn(r)
       /\ \/ /\ Succeeds(r)
             /\ circuit' = [circuit EXCEPT ![r.method] = Success(@)]
             /\ IF r.method = "cancel" /\ Confirmed(r)
                THEN Set(c, [r EXCEPT !.pc = "save"])
                ELSE Settle(c, Result(r))
          \/ /\ ~Succeeds(r) /\ Retry(r)
             /\ Set(c, [Again(r) EXCEPT !.tries = @ + 1, !.leg = 1, !.sends = 1,
                                       !.refreshed = FALSE])
             /\ UNCHANGED circuit
          \/ /\ ~Succeeds(r) /\ ~Retry(r)
             /\ circuit' = [circuit EXCEPT ![r.method] = Failure(@)]
             /\ Settle(c, "failed")
    /\ UNCHANGED <<tokenVars, carrierVars, expiries, settings, record>>

\* cancelByShipment stores CANCELLED once the carrier has confirmed; the rank of
\* CANCELLED is the highest, so updateShipmentStatusMonotonic always takes it.
SaveCancelled(c) ==
    /\ call[c].pc = "save"
    /\ record' = "CANCELLED"
    /\ Settle(c, "ok")
    /\ UNCHANGED <<circuit, tokenVars, carrierVars, expiries, settings>>

-----------------------------------------------------------------------------
(* The carrier, the network, the clock and the webhooks.                   *)

\* A booking is known by its order_id; a parcel that has left is not cancelled.
CanPerform(m) ==
    CASE m = "cancel" -> parcel = "CANCELLED" \/ (parcel # "none" /\ "CANCELLED" \in CarrierStep[parcel])
      [] m \in {"track", "getLabel"} -> parcel # "none"
      [] OTHER -> TRUE

Perform(c) ==
    /\ CanPerform(call[c].method)
    /\ performed' = performed \cup {c}
    /\ parcel' = CASE call[c].method = "createShipment" /\ parcel = "none" -> "BOOKED"
                   [] call[c].method = "cancel" -> "CANCELLED"
                   [] OTHER -> parcel

Reject == UNCHANGED <<parcel, performed>>

\* A read leaves no trace at the carrier, so only its answer counts as performing it.
Changes(c) == call[c].method \notin Reads

\* The carrier answers a request; an error may come before or after it performed it.
\* Only a rejected token is still of interest then.
Serve(c) ==
    /\ call[c].pc = "wire"
    /\ \E reply \in Reply \ {"none", "network"} :
          /\ (reply = "unauthorized") <=> (call[c].token < floor)
          /\ reply = "vague" => call[c].method \in NeedsContent \cup {"cancel"}
          /\ \/ reply = "ok" /\ Perform(c)
             \/ reply \in {"vague", "transient"} /\ Changes(c) /\ Perform(c)
             \/ reply # "ok" /\ Reject
          /\ Set(c, [call[c] EXCEPT !.pc = "back", !.reply = reply,
                                    !.token = IF reply = "unauthorized" THEN @ ELSE 0])
    /\ UNCHANGED <<circuit, tokenVars, floor, late, expiries, settings, record>>

\* The connection breaks: the request is lost, was performed, or arrives later.
Break(c) ==
    /\ call[c].pc = "wire"
    /\ \/ Reject /\ UNCHANGED late
       \/ /\ Changes(c)
          /\ call[c].token >= floor
          /\ \/ Perform(c) /\ UNCHANGED late
             \/ Reject /\ late' = late \cup {c}
    /\ Set(c, [call[c] EXCEPT !.pc = "back", !.reply = "network", !.token = 0])
    /\ UNCHANGED <<circuit, tokenVars, floor, expiries, settings, record>>

Arrive(c) ==
    /\ c \in late
    /\ late' = late \ {c}
    /\ Perform(c) \/ (~CanPerform(call[c].method) /\ Reject)
    /\ UNCHANGED <<call, circuit, tokenVars, floor, expiries, settings, record>>

\* The cached token comes within the skew of its expiry, or the carrier revokes
\* every token it has issued.
Expire ==
    /\ expiries < MaxExpiries
    /\ expiries' = expiries + 1
    /\ \/ /\ cache.fresh
          /\ cache' = [cache EXCEPT !.fresh = FALSE]
          /\ UNCHANGED floor
       \/ /\ floor <= issued
          /\ floor' = issued + 1
          /\ UNCHANGED cache
    /\ UNCHANGED <<call, circuit, issued, refresher, parcel, late, performed, settings, record>>

Tick ==
    /\ \E m \in Methods : circuit[m].openFor > 0
    /\ circuit' = [m \in Methods |->
                      [circuit[m] EXCEPT !.openFor = IF @ > 0 THEN @ - 1 ELSE 0]]
    /\ UNCHANGED <<call, tokenVars, carrierVars, expiries, settings, record>>

ParcelMoves ==
    /\ parcel # "none"
    /\ \E st \in CarrierStep[parcel] \cap Journey : parcel' = st
    /\ UNCHANGED <<call, circuit, tokenVars, floor, late, performed, expiries, settings, record>>

\* A booking is recorded or a webhook is applied: the record only moves up in rank.
RecordFollows ==
    /\ parcel # "none"
    /\ Rank[parcel] > Rank[record]
    /\ record' = parcel
    /\ UNCHANGED <<call, circuit, tokenVars, carrierVars, expiries, settings>>

-----------------------------------------------------------------------------

Proceed(c) ==
    Authorise(c) \/ LoggedIn(c) \/ LoginFailed(c) \/ Serve(c) \/ Break(c)
        \/ ResendRequest(c) \/ NextRequest(c) \/ Return(c) \/ SaveCancelled(c)

Next ==
    \/ \E c \in Calls : Begin(c) \/ Proceed(c) \/ Arrive(c)
    \/ Expire \/ Tick \/ ParcelMoves \/ RecordFollows

\* Node's event loop runs what is ready and every fetch settles in the end. Nobody has
\* to call, to move the parcel or to let a request arrive.
Fairness == WF_vars(\E c \in Calls : Proceed(c))

Spec == Init /\ [][Next]_vars /\ Fairness

-----------------------------------------------------------------------------
(* Properties.                                                             *)

\* What a caller sees of a call.
View(r) ==
    CASE r.pc = "idle" -> "idle"
      [] r.pc = "done" /\ r.answer = "ok" -> "ok"
      [] r.pc = "done" /\ r.answer \in {"failed", "unconfirmed"} -> "failed"
      [] r.pc = "done" /\ r.answer \notin {"ok", "failed", "unconfirmed"} -> "local"
      [] OTHER -> "asked"

Seen == [c \in Calls |-> View(call[c])]

Port == INSTANCE CarrierCall WITH state <- Seen

\* Under two retry loops, token refreshes, circuits and late requests a call is still
\* what CarrierCall promises: success means performed, settled locally means never
\* performed, and every call that reaches the carrier is answered.
ImplementsCall == Port!Spec

\* The stored shipment is cancelled only if the carrier's parcel is, although the
\* shipment is read before the carrier is asked and may have moved since.
CancelledAtCarrier == record = "CANCELLED" => parcel = "CANCELLED"

\* Once the carrier has rejected a token for a call, no request of that call carries it
\* again, in whatever leg or round of the router and whoever did the login: unless
\* getAuthToken has a configured token to send, or the login that was to replace the
\* token failed, which leaves it in the cache for the router's next round.
FreshToken ==
    \A c \in Calls :
        call[c].pc = "wire" /\ call[c].token = call[c].rejected =>
            static \/ call[c].unreplaced

\* Calls wait for a login only while the one login is in flight: nobody is left
\* waiting for a refresh that ended.
SingleFlight ==
    /\ \A c \in Calls : call[c].pc = "login" <=> refresher = c
    /\ \A c \in Calls : call[c].pc = "join" => refresher # None

\* The nested loops send at most RouterAttempts rounds of AdapterAttempts requests and
\* one more for a 401; a method nobody may retry is sent once, or twice with a 401.
RetryBudget ==
    \A c \in Calls :
        /\ call[c].method \notin RouterRetries => call[c].tries <= 1
        /\ call[c].sends <= (IF Repeatable(call[c]) THEN AdapterAttempts ELSE 1)
                              + (IF call[c].refreshed THEN 1 ELSE 0)
=============================================================================
