------------------------- MODULE CarrierRouterProofs -------------------------
(***************************************************************************)
(* What holds of the router for any number of calls, any budgets and any   *)
(* carrier, and that it keeps what CarrierCall promises of every call.     *)
(***************************************************************************)
EXTENDS CarrierRouter, SequenceTheorems, TLAPS

\* The budgets leave room for what a call starts with.
LEMMA Ranges ==
    /\ 0 \in Token /\ 1 \in Token
    /\ 0 \in 0..RouterAttempts /\ 1 \in 0..RouterAttempts
    /\ 0 \in 0..(AdapterAttempts + 1) /\ 1 \in 0..(AdapterAttempts + 1)
    /\ 0 \in 0..Threshold
    /\ 0 \in 0..OpenTicks
  BY RouterAssumption DEF Token

LEMMA Words ==
    /\ Pc = {"idle", "auth", "login", "join", "wire", "back", "save", "done"}
    /\ "none" \in Reply /\ "network" \in Reply /\ "refused" \in Reply /\ "unmapped" \in Reply
    /\ "none" \in Answer /\ "ok" \in Answer /\ "failed" \in Answer
  BY DEF Pc, Reply, Answer

\* A call after its request went out, was resent or was settled is a record of the type.
LEMMA UnusedType == Unused \in Call
  <1> DEFINE first == CHOOSE m \in Methods : TRUE
  <1>1. first \in Methods
    BY RouterAssumption
  <1> HIDE DEF first
  <1> QED BY <1>1, Ranges, Words DEF Unused, first, Call

LEMMA AgainType == \A r \in Call : Again(r) \in Call
  BY Ranges, Words DEF Again, Call

LEMMA SettledType ==
    \A m \in Methods, answer \in Answer : Settled(m, answer) \in Call
  BY UnusedType, Words DEF Settled, Call

\* Setting one call leaves the others alone.
LEMMA SetCall ==
    ASSUME call \in [Calls -> Call], NEW c \in Calls, NEW r \in Call, Set(c, r)
    PROVE  /\ call' \in [Calls -> Call]
           /\ call'[c] = r
           /\ \A d \in Calls \ {c} : call'[d] = call[d]
  BY DEF Set

\* The window stays a sequence of outcomes and the count of failures below its cap.
LEMMA OutcomesType ==
    ASSUME NEW o \in Seq(BOOLEAN), NEW outcome \in BOOLEAN
    PROVE  Outcomes(o, outcome) \in Seq(BOOLEAN)
  <1>1. CASE Len(o) < Window
    BY <1>1 DEF Outcomes
  <1>2. CASE ~(Len(o) < Window)
    <2>1. o # << >>
      BY <1>2, RouterAssumption
    <2>2. Tail(o) \in Seq(BOOLEAN)
      BY <2>1
    <2> QED BY <1>2, <2>2 DEF Outcomes
  <1> QED BY <1>1, <1>2

LEMMA CircuitType ==
    ASSUME NEW k \in Circuit
    PROVE  Success(k) \in Circuit /\ Failure(k) \in Circuit
  <1>1. k.outcomes \in Seq(BOOLEAN) /\ k.failures \in 0..Threshold /\ k.openFor \in 0..OpenTicks
    BY DEF Circuit
  <1>2. Outcomes(k.outcomes, TRUE) \in Seq(BOOLEAN) /\ Outcomes(k.outcomes, FALSE) \in Seq(BOOLEAN)
    BY <1>1, OutcomesType
  <1>3. Success(k) \in Circuit
    BY <1>1, <1>2, Ranges DEF Circuit, Success
  <1> DEFINE failures == IF k.failures < Threshold THEN k.failures + 1 ELSE Threshold
  <1>4. failures \in 0..Threshold
    BY <1>1, RouterAssumption
  <1>5. \A opens : (IF opens THEN OpenTicks ELSE k.openFor) \in 0..OpenTicks
    BY <1>1, RouterAssumption
  <1> HIDE DEF failures
  <1>6. Failure(k) \in Circuit
    BY <1>2, <1>4, <1>5 DEF Circuit, Failure, failures
  <1> QED BY <1>3, <1>6

LEMMA NewCircuitType == NewCircuit \in Circuit
  BY Ranges DEF NewCircuit, Circuit

-----------------------------------------------------------------------------
(* Types.                                                                  *)

LEMMA StatusFacts ==
    /\ CarrierStep \in [ShipmentStatus -> SUBSET ShipmentStatus]
    /\ CarrierStep["CANCELLED"] = {}
    /\ {"BOOKING_IN_PROGRESS", "BOOKED", "CANCELLED"} \subseteq ShipmentStatus
  BY DEF CarrierStep, ShipmentStatus

LEMMA InitType == Init => TypeOK
  <1> SUFFICES ASSUME Init PROVE TypeOK
    OBVIOUS
  <1>1. call \in [Calls -> Call] /\ circuit \in [Methods -> Circuit]
    BY UnusedType, NewCircuitType DEF Init
  <1>2. issued \in Token /\ floor \in 1..(MaxLogins + 1) /\ expiries \in 0..MaxExpiries
    BY RouterAssumption DEF Init, Token
  <1>3. cache \in [token : Token, fresh : BOOLEAN]
    BY Ranges DEF Init
  <1> QED BY <1>1, <1>2, <1>3, StatusFacts DEF Init, TypeOK

LEMMA CallTyped == TypeOK => call \in [Calls -> Call] /\ \A c \in Calls : call[c] \in Call
  BY DEF TypeOK

LEMMA BeginType ==
    ASSUME TypeOK, NEW c \in Calls, Begin(c) PROVE TypeOK'
  <1>1. \A m \in Methods, known \in BOOLEAN : Precheck(m, known) \in Answer
    BY DEF Precheck, Answer
  <1>2. IdKnown \subseteq BOOLEAN
    BY DEF IdKnown
  <1>3. \A m \in Methods : TwoRequests(m) \subseteq BOOLEAN
    BY DEF TwoRequests
  <1>4. PICK m \in Methods, known \in IdKnown :
            IF Precheck(m, known) # "none"
            THEN Set(c, Settled(m, Precheck(m, known)))
            ELSE \E two \in TwoRequests(m) :
                    Set(c, [call[c] EXCEPT !.pc = "auth", !.method = m, !.two = two,
                                           !.tries = 1, !.sends = 1])
    BY DEF Begin
  <1>5. call' \in [Calls -> Call]
    <2>1. CASE Precheck(m, known) # "none"
      <3>1. Settled(m, Precheck(m, known)) \in Call
        BY <1>1, <1>2, SettledType
      <3> QED BY <2>1, <3>1, <1>4, SetCall DEF TypeOK
    <2>2. CASE ~(Precheck(m, known) # "none")
      <3>1. PICK two \in TwoRequests(m) :
                Set(c, [call[c] EXCEPT !.pc = "auth", !.method = m, !.two = two,
                                       !.tries = 1, !.sends = 1])
        BY <2>2, <1>4
      <3>2. [call[c] EXCEPT !.pc = "auth", !.method = m, !.two = two,
                            !.tries = 1, !.sends = 1] \in Call
        <4>1. two \in BOOLEAN /\ m \in Methods /\ call[c] \in Call
          BY <1>3, CallTyped
        <4> QED BY <4>1, Ranges, Words DEF Call
      <3> QED BY <3>1, <3>2, SetCall DEF TypeOK
    <2> QED BY <2>1, <2>2
  <1> QED BY <1>5 DEF Begin, TypeOK, tokenVars, carrierVars, settings

LEMMA AuthoriseType ==
    ASSUME TypeOK, NEW c \in Calls, Authorise(c) PROVE TypeOK'
  <1>1. /\ [call[c] EXCEPT !.pc = "wire", !.forced = FALSE,
                         !.token = IF static THEN 1 ELSE cache.token] \in Call
        /\ [call[c] EXCEPT !.pc = "join"] \in Call
        /\ [call[c] EXCEPT !.pc = "login"] \in Call
    <2>1. (IF static THEN 1 ELSE cache.token) \in Token
      BY Ranges DEF TypeOK
    <2> QED BY <2>1, CallTyped, Words DEF Call
  <1>2. call' \in [Calls -> Call]
    BY <1>1 DEF Authorise, TypeOK, Set
  <1> QED BY <1>2 DEF Authorise, TypeOK, carrierVars, settings

LEMMA LoggedInType ==
    ASSUME TypeOK, NEW c \in Calls, LoggedIn(c) PROVE TypeOK'
  <1>1. issued' \in Token
    <2>1. issued \in 0..MaxLogins /\ issued < MaxLogins /\ issued' = issued + 1
      BY DEF LoggedIn, TypeOK, Token
    <2> QED BY <2>1, RouterAssumption DEF Token
  <1>2. \A d \in Calls :
            [call[d] EXCEPT !.pc = "wire", !.token = issued', !.forced = FALSE,
                          !.unreplaced = FALSE] \in Call
    <2> TAKE d \in Calls
    <2>1. call[d] \in Call
      BY CallTyped
    <2> QED BY <1>1, <2>1, Words DEF Call
  <1>3. call' \in [Calls -> Call]
    BY <1>2, CallTyped DEF LoggedIn
  <1>4. cache' \in [token : Token, fresh : BOOLEAN]
    BY <1>1 DEF LoggedIn
  <1> QED BY <1>1, <1>3, <1>4 DEF LoggedIn, TypeOK, carrierVars, settings

LEMMA LoginFailedType ==
    ASSUME TypeOK, NEW c \in Calls, LoginFailed(c) PROVE TypeOK'
  <1>1. PICK reply \in {"refused", "unmapped"} :
            call' = [d \in Calls |->
                        IF d \in Waiting(c)
                        THEN [call[d] EXCEPT !.pc = "back", !.forced = FALSE, !.reply = reply,
                          !.unreplaced = TRUE]
                        ELSE call[d]]
    BY DEF LoginFailed
  <1>2. \A d \in Calls :
            [call[d] EXCEPT !.pc = "back", !.forced = FALSE, !.reply = reply,
                          !.unreplaced = TRUE] \in Call
    <2> TAKE d \in Calls
    <2>1. reply \in Reply /\ call[d] \in Call
      BY CallTyped, Words
    <2> QED BY <2>1, Words DEF Call
  <1>3. call' \in [Calls -> Call]
    BY <1>1, <1>2 DEF TypeOK
  <1> QED BY <1>3 DEF LoginFailed, TypeOK, carrierVars, settings

\* A request is resent within the budget of the adapter, or once more after a 401.
Budget(r) ==
    /\ r.method \notin RouterRetries => r.tries <= 1
    /\ r.sends <= (IF Repeatable(r) THEN AdapterAttempts ELSE 1)
                    + (IF r.refreshed THEN 1 ELSE 0)

LEMMA ResendRequestType ==
    ASSUME TypeOK, NEW c \in Calls, Budget(call[c]), ResendRequest(c) PROVE TypeOK'
  <1> DEFINE r == call[c]
  <1>1. r \in Call /\ Again(r) \in Call
    BY AgainType DEF TypeOK
  <1>2. r.sends + 1 \in 0..(AdapterAttempts + 1)
    <2>1. r.sends \in Nat
      BY <1>1, RouterAssumption DEF Call
    <2>2. CASE Reauthorises(r)
      BY <2>1, <2>2, RouterAssumption DEF Budget, Reauthorises
    <2>3. CASE Resend(r)
      BY <2>1, <2>3, RouterAssumption DEF Resend
    <2> QED BY <2>2, <2>3 DEF ResendRequest
  <1>3. Again(r).sends = r.sends
    BY <1>1 DEF Again, Call
  <1>4. /\ [Again(r) EXCEPT !.sends = @ + 1, !.forced = TRUE, !.refreshed = TRUE,
                            !.rejected = r.token, !.unreplaced = FALSE] \in Call
        /\ [Again(r) EXCEPT !.sends = @ + 1] \in Call
    BY <1>1, <1>2, <1>3 DEF Call
  <1>5. call' \in [Calls -> Call]
    BY <1>4 DEF ResendRequest, TypeOK, Set
  <1> QED BY <1>5 DEF ResendRequest, TypeOK, tokenVars, carrierVars, settings

LEMMA NextRequestType ==
    ASSUME TypeOK, NEW c \in Calls, NextRequest(c) PROVE TypeOK'
  <1>1. Again(call[c]) \in Call
    BY AgainType DEF TypeOK
  <1>2. [Again(call[c]) EXCEPT !.leg = 2, !.sends = 1, !.refreshed = FALSE] \in Call
    BY <1>1, Ranges DEF Call
  <1>3. call' \in [Calls -> Call]
    BY <1>2 DEF NextRequest, TypeOK, Set
  <1> QED BY <1>3 DEF NextRequest, TypeOK, tokenVars, carrierVars, settings

LEMMA ReturnType ==
    ASSUME TypeOK, NEW c \in Calls, Return(c) PROVE TypeOK'
  <1> DEFINE r == call[c]
  <1>1. r \in Call /\ Again(r) \in Call
    BY AgainType DEF TypeOK
  <1>2. r.method \in Methods
    BY <1>1 DEF Call
  <1>3. Result(r) \in Answer
    BY DEF Result, Answer
  <1>4. circuit' \in [Methods -> Circuit]
    BY <1>2, CircuitType DEF Return, TypeOK
  <1>5. call' \in [Calls -> Call]
    <2>1. CASE Set(c, [r EXCEPT !.pc = "save"])
      BY <2>1, <1>1, Words DEF Set, TypeOK, Call
    <2>2. CASE Settle(c, Result(r)) \/ Settle(c, "failed")
      BY <2>2, <1>2, <1>3, SettledType, Words DEF Settle, Set, TypeOK
    <2>3. CASE /\ Retry(r)
               /\ Set(c, [Again(r) EXCEPT !.tries = @ + 1, !.leg = 1, !.sends = 1,
                                          !.refreshed = FALSE])
      <3>1. r.tries + 1 \in 0..RouterAttempts /\ Again(r).tries = r.tries
        BY <2>3, <1>1, RouterAssumption DEF Retry, Again, Call
      <3>2. [Again(r) EXCEPT !.tries = @ + 1, !.leg = 1, !.sends = 1,
                             !.refreshed = FALSE] \in Call
        BY <1>1, <3>1, Ranges DEF Call
      <3> QED BY <2>3, <3>2, SetCall DEF TypeOK
    <2> QED BY <2>1, <2>2, <2>3 DEF Return
  <1> QED BY <1>4, <1>5 DEF Return, TypeOK, tokenVars, carrierVars, settings

LEMMA SaveCancelledType ==
    ASSUME TypeOK, NEW c \in Calls, SaveCancelled(c) PROVE TypeOK'
  <1>1. call[c].method \in Methods
    BY DEF TypeOK, Call
  <1>2. Settled(call[c].method, "ok") \in Call
    BY <1>1, SettledType, Words
  <1>3. call' \in [Calls -> Call]
    BY <1>2 DEF SaveCancelled, Settle, Set, TypeOK
  <1> QED BY <1>3, StatusFacts DEF SaveCancelled, TypeOK, tokenVars, carrierVars, settings

\* The carrier performs a request of a call or rejects it; the parcel stays one of its
\* statuses, and a cancelled parcel stays cancelled.
LEMMA PerformFacts ==
    ASSUME TypeOK, NEW c \in Calls, Perform(c) \/ Reject
    PROVE  /\ parcel' \in ShipmentStatus \cup {"none"}
           /\ performed' \subseteq Calls
           /\ performed \subseteq performed'
           /\ parcel = "CANCELLED" => parcel' = "CANCELLED"
  BY StatusFacts DEF Perform, Reject, TypeOK

LEMMA ServeType ==
    ASSUME TypeOK, NEW c \in Calls, Serve(c) PROVE TypeOK'
  <1>1. PICK reply \in Reply \ {"none", "network"} :
            Set(c, [call[c] EXCEPT !.pc = "back", !.reply = reply,
                                   !.token = IF reply = "unauthorized" THEN @ ELSE 0])
    BY DEF Serve
  <1>2. [call[c] EXCEPT !.pc = "back", !.reply = reply,
                        !.token = IF reply = "unauthorized" THEN @ ELSE 0] \in Call
    <2>1. reply \in Reply /\ call[c] \in Call
      BY CallTyped
    <2>2. (IF reply = "unauthorized" THEN call[c].token ELSE 0) \in Token
      BY <2>1, Ranges DEF Call
    <2> QED BY <2>1, <2>2, Words DEF Call
  <1>3. call' \in [Calls -> Call]
    BY <1>1, <1>2, SetCall DEF TypeOK
  <1>4. Perform(c) \/ Reject
    BY DEF Serve
  <1> QED BY <1>3, <1>4, PerformFacts DEF Serve, TypeOK, tokenVars, settings

LEMMA BreakType ==
    ASSUME TypeOK, NEW c \in Calls, Break(c) PROVE TypeOK'
  <1>1. [call[c] EXCEPT !.pc = "back", !.reply = "network", !.token = 0] \in Call
    <2>1. call[c] \in Call
      BY CallTyped
    <2> QED BY <2>1, Ranges, Words DEF Call
  <1>2. call' \in [Calls -> Call]
    BY <1>1 DEF Break, Set, TypeOK
  <1>3. Perform(c) \/ Reject
    BY DEF Break
  <1> QED BY <1>2, <1>3, PerformFacts DEF Break, TypeOK, tokenVars, settings

LEMMA ArriveType ==
    ASSUME TypeOK, NEW c \in Calls, Arrive(c) PROVE TypeOK'
  <1>1. Perform(c) \/ Reject
    BY DEF Arrive
  <1> QED BY <1>1, PerformFacts DEF Arrive, TypeOK, tokenVars, settings

LEMMA EnvironmentType ==
    ASSUME TypeOK, Expire \/ Tick \/ ParcelMoves \/ RecordFollows PROVE TypeOK'
  <1>1. CASE Expire
    <2>1. expiries' \in 0..MaxExpiries
      BY <1>1, RouterAssumption DEF Expire, TypeOK
    <2>2. floor' \in 1..(MaxLogins + 1)
      BY <1>1, RouterAssumption DEF Expire, TypeOK, Token
    <2>3. cache' \in [token : Token, fresh : BOOLEAN]
      BY <1>1 DEF Expire, TypeOK
    <2> QED BY <1>1, <2>1, <2>2, <2>3 DEF Expire, TypeOK, settings
  <1>2. CASE Tick
    <2>1. \A m \in Methods :
              [circuit[m] EXCEPT !.openFor = IF @ > 0 THEN @ - 1 ELSE 0] \in Circuit
      <3> TAKE m \in Methods
      <3>1. circuit[m] \in Circuit
        BY DEF TypeOK
      <3>2. circuit[m].openFor \in 0..OpenTicks
        BY <3>1 DEF Circuit
      <3>3. (IF circuit[m].openFor > 0 THEN circuit[m].openFor - 1 ELSE 0) \in 0..OpenTicks
        BY <3>2, RouterAssumption
      <3> QED BY <3>1, <3>3 DEF Circuit
    <2>2. circuit' \in [Methods -> Circuit]
      BY <1>2, <2>1 DEF Tick
    <2> QED BY <1>2, <2>2 DEF Tick, TypeOK, tokenVars, carrierVars, settings
  <1>3. CASE ParcelMoves
    BY <1>3, StatusFacts DEF ParcelMoves, TypeOK, tokenVars, settings
  <1>4. CASE RecordFollows
    BY <1>4 DEF RecordFollows, TypeOK, tokenVars, carrierVars, settings
  <1> QED BY <1>1, <1>2, <1>3, <1>4

-----------------------------------------------------------------------------
(* The inductive invariant: what is known of each call.                    *)

\* A token that was rejected for a call is older than the newest one, and than the one the
\* call is about to get, unless a configured token is all there is or the login failed
\* that was to replace it.
Tokens(c) ==
    LET r == call[c]
    IN  /\ r.token <= issued /\ r.rejected <= issued
        /\ r.pc = "wire" => static \/ r.unreplaced \/ r.rejected < r.token
        /\ r.pc \in {"idle", "auth", "login", "join", "back"} /\ ~r.forced =>
              static \/ r.unreplaced \/ r.rejected = 0 \/ r.rejected < issued
        /\ r.forced => r.pc \in {"auth", "login", "join"}

\* The calls that log in and wait.
Flight(c) ==
    /\ call[c].pc = "login" <=> refresher = c
    /\ call[c].pc = "join" => refresher # None

\* What the carrier has done for a call whose answer says so.
Kept(c) ==
    LET r == call[c]
    IN  /\ r.pc = "back" /\ r.reply = "ok" =>
              c \in performed /\ (r.method = "cancel" => parcel = "CANCELLED")
        /\ r.pc = "save" => c \in performed /\ parcel = "CANCELLED"
        /\ c \in late =>
              r.pc # "idle" /\ (r.pc = "done" => r.answer \in {"ok", "failed", "unconfirmed"})

CallInv(c) == Budget(call[c]) /\ Tokens(c) /\ Flight(c) /\ Kept(c)

IInv ==
    /\ TypeOK
    /\ static \/ cache.token = issued
    /\ static \/ (cache.fresh => issued > 0)
    /\ static => issued > 0
    /\ CancelledAtCarrier
    /\ \A c \in Calls : CallInv(c)

LEMMA SettledFields ==
    ASSUME NEW m \in Methods, NEW answer \in Answer
    PROVE  LET r == Settled(m, answer)
           IN  /\ r.pc = "done" /\ r.answer = answer /\ r.method = m
               /\ r.tries = 0 /\ r.sends = 0 /\ r.token = 0 /\ r.rejected = 0
               /\ ~r.forced /\ ~r.refreshed
  BY DEF Settled, Unused

\* A call that is not the one that moves keeps its part of the invariant.
LEMMA OtherCalls ==
    ASSUME TypeOK, TypeOK', NEW d \in Calls, CallInv(d),
           call'[d] = call[d], issued' >= issued, static' = static,
           performed \subseteq performed', parcel = "CANCELLED" => parcel' = "CANCELLED",
           d \in late' => d \in late,
           refresher' = d <=> refresher = d, refresher # None => refresher' # None
    PROVE  CallInv(d)'
  <1>1. issued \in Int /\ issued' \in Int /\ call[d].token \in Int /\ call[d].rejected \in Int
    BY CallTyped, RouterAssumption DEF TypeOK, Call, Token
  <1>2. Tokens(d)'
    BY <1>1 DEF CallInv, Tokens
  <1>3. Budget(call[d])' /\ Flight(d)'
    BY DEF CallInv, Budget, Flight, Repeatable
  <1>4. Kept(d)'
    BY DEF CallInv, Kept
  <1> QED BY <1>2, <1>3, <1>4 DEF CallInv

\* Every step that settles a call without a login and without the carrier.
LEMMA SettledInv ==
    ASSUME TypeOK, TypeOK', NEW c \in Calls, NEW m \in Methods, NEW answer \in Answer,
           call'[c] = Settled(m, answer),
           refresher' # c, c \in late' => answer \in {"ok", "failed", "unconfirmed"}
    PROVE  CallInv(c)'
  <1>1. LET r == call'[c]
        IN  /\ r.pc = "done" /\ r.answer = answer /\ r.tries = 0 /\ r.sends = 0
            /\ r.token = 0 /\ r.rejected = 0 /\ ~r.forced /\ ~r.refreshed
    BY SettledFields
  <1>2. issued' \in Nat
    BY RouterAssumption DEF TypeOK, Token
  <1> QED BY <1>1, <1>2, RouterAssumption DEF CallInv, Budget, Tokens, Flight, Kept

LEMMA BeginInv ==
    ASSUME IInv, NEW c \in Calls, Begin(c) PROVE IInv'
  <1>1. TypeOK'
    BY BeginType DEF IInv
  <1>2. /\ call[c].pc = "idle"
        /\ UNCHANGED <<circuit, tokenVars, carrierVars, expiries, settings, record>>
    BY DEF Begin
  <1>3. /\ call' \in [Calls -> Call]
        /\ \A d \in Calls \ {c} : call'[d] = call[d]
    BY <1>1 DEF Begin, Set, IInv, TypeOK
  <1>4. \A d \in Calls \ {c} : CallInv(d)'
    BY <1>1, <1>2, <1>3, OtherCalls, RouterAssumption DEF IInv, tokenVars, carrierVars, settings, TypeOK, Token
  <1>5. CallInv(c)'
    <2>1. PICK m \in Methods, known \in IdKnown :
            IF Precheck(m, known) # "none"
            THEN Set(c, Settled(m, Precheck(m, known)))
            ELSE \E two \in TwoRequests(m) :
                    Set(c, [call[c] EXCEPT !.pc = "auth", !.method = m, !.two = two,
                                           !.tries = 1, !.sends = 1])
      BY DEF Begin
    <2>2. Precheck(m, known) \in Answer
      BY DEF Precheck, Answer
    <2>3. refresher' # c /\ c \notin late'
      BY <1>2 DEF IInv, CallInv, Flight, Kept, tokenVars, carrierVars, settings
    <2>4. CASE Precheck(m, known) # "none"
      <3>1. call'[c] = Settled(m, Precheck(m, known))
        BY <2>1, <2>4 DEF Set, IInv, TypeOK
      <3> QED BY <3>1, <2>2, <2>3, <1>1, SettledInv DEF IInv
    <2>5. CASE ~(Precheck(m, known) # "none")
      <3>1. PICK two \in TwoRequests(m) :
              Set(c, [call[c] EXCEPT !.pc = "auth", !.method = m, !.two = two,
                                     !.tries = 1, !.sends = 1])
        BY <2>1, <2>5
      <3>2. LET r == call'[c]
            IN  /\ r.pc = "auth" /\ r.tries = 1 /\ r.sends = 1
                /\ r.token = call[c].token /\ r.rejected = call[c].rejected
                /\ r.unreplaced = call[c].unreplaced /\ r.forced = call[c].forced /\ r.refreshed \in BOOLEAN
        BY <3>1, CallTyped DEF Set, IInv, Call
      <3> QED BY <3>2, <2>3, <1>2, RouterAssumption
            DEF IInv, CallInv, Budget, Tokens, Flight, Kept, tokenVars, carrierVars, settings
    <2> QED BY <2>4, <2>5
  <1> QED BY <1>1, <1>2, <1>4, <1>5 DEF IInv, CancelledAtCarrier, tokenVars, carrierVars, settings

\* A step of one call that touches neither the token nor the carrier nor the stored shipment.
LEMMA LocalStep ==
    ASSUME IInv, TypeOK', NEW c \in Calls, NEW r \in Call, Set(c, r),
           r.pc # "login", call[c].pc # "login",
           UNCHANGED <<issued, static, cache, refresher, performed, parcel, late, record>>,
           CallInv(c)'
    PROVE  IInv'
  <1>1. \A d \in Calls \ {c} : call'[d] = call[d]
    BY DEF Set, IInv, TypeOK
  <1>2. \A d \in Calls \ {c} : CallInv(d)'
    BY <1>1, OtherCalls, RouterAssumption DEF IInv, TypeOK, Token
  <1> QED BY <1>2 DEF IInv, CancelledAtCarrier

LEMMA AuthoriseInv ==
    ASSUME IInv, NEW c \in Calls, Authorise(c) PROVE IInv'
  <1> DEFINE r == call[c]
  <1>1. TypeOK' /\ r \in Call
    BY AuthoriseType, CallTyped DEF IInv
  <1>2. /\ r.pc = "auth"
        /\ UNCHANGED <<issued, static, cache, performed, parcel, late, record>>
        /\ CallInv(c)
    BY DEF Authorise, IInv, carrierVars, settings
  <1>3. /\ issued \in Int /\ r.rejected \in Int /\ r.token \in Int
        /\ static \/ cache.token = issued
    BY <1>1, RouterAssumption DEF IInv, TypeOK, Token, Call
  <1>4. \A d \in Calls \ {c} : call'[d] = call[d]
    BY DEF Authorise, Set, IInv, TypeOK
  <1>5. CASE /\ ~NeedsLogin(r)
             /\ Set(c, [r EXCEPT !.pc = "wire", !.forced = FALSE,
                         !.token = IF static THEN 1 ELSE cache.token])
             /\ UNCHANGED refresher
    <2>1. [r EXCEPT !.pc = "wire", !.forced = FALSE,
                         !.token = IF static THEN 1 ELSE cache.token] \in Call
      <3>1. (IF static THEN 1 ELSE cache.token) \in Token
        BY Ranges DEF IInv, TypeOK
      <3> QED BY <3>1, <1>1, Words DEF Call
    <2>2. LET n == call'[c]
          IN  /\ n = [r EXCEPT !.pc = "wire", !.forced = FALSE,
                         !.token = IF static THEN 1 ELSE cache.token]
              /\ n.pc = "wire" /\ n.token \in 0..issued /\ n.rejected = r.rejected
              /\ static \/ n.token = issued
              /\ ~n.forced /\ n.unreplaced = r.unreplaced
      <3>1. cache.token \in Token /\ static \in BOOLEAN /\ (static => issued > 0)
        BY DEF IInv, TypeOK
      <3>2. (IF static THEN 1 ELSE cache.token) \in 0..issued
        BY <3>1, <1>3, RouterAssumption DEF Token
      <3> QED BY <3>1, <3>2, <1>5, <1>1, <1>3 DEF Set, IInv, TypeOK, Call
    <2>3. static \/ r.unreplaced \/ r.rejected < issued
      BY <1>5, <1>2, <1>3 DEF NeedsLogin, CallInv, Tokens, IInv
    <2>4. Tokens(c)'
      BY <2>2, <2>3, <1>2, <1>3 DEF CallInv, Tokens
    <2>5. Budget(call[c])'
      BY <2>2, <1>1, <1>2 DEF CallInv, Budget, Repeatable, Call
    <2>6. Flight(c)' /\ Kept(c)'
      BY <2>2, <1>2, <1>5 DEF CallInv, Flight, Kept
    <2>7. CallInv(c)'
      BY <2>4, <2>5, <2>6 DEF CallInv
    <2>8. [r EXCEPT !.pc = "wire", !.forced = FALSE,
                         !.token = IF static THEN 1 ELSE cache.token].pc # "login"
      BY <1>1 DEF Call
    <2> QED BY <2>1, <2>7, <2>8, <1>1, <1>2, <1>5, LocalStep
  <1>6. CASE /\ refresher # None
             /\ Set(c, [r EXCEPT !.pc = "join"])
             /\ UNCHANGED refresher
    <2>1. [r EXCEPT !.pc = "join"] \in Call
      BY <1>1, Words DEF Call
    <2>2. call'[c] = [r EXCEPT !.pc = "join"]
      BY <1>6 DEF Set, IInv, TypeOK
    <2>3. Budget(call[c])'
      BY <2>2, <1>1, <1>2 DEF CallInv, Budget, Repeatable, Call
    <2>4. Tokens(c)' /\ Flight(c)' /\ Kept(c)'
      BY <2>2, <1>1, <1>2, <1>6 DEF CallInv, Tokens, Flight, Kept, Call
    <2>5. CallInv(c)'
      BY <2>3, <2>4 DEF CallInv
    <2>6. [r EXCEPT !.pc = "join"].pc # "login"
      BY <1>1 DEF Call
    <2> QED BY <2>1, <2>5, <2>6, <1>1, <1>2, <1>6, LocalStep
  <1>7. CASE /\ refresher = None
             /\ refresher' = c
             /\ Set(c, [r EXCEPT !.pc = "login"])
    <2>1. call'[c] = [r EXCEPT !.pc = "login"]
      BY <1>7 DEF Set, IInv, TypeOK
    <2>2. Budget(call[c])'
      BY <2>1, <1>1, <1>2 DEF CallInv, Budget, Repeatable, Call
    <2>3. Tokens(c)' /\ Flight(c)' /\ Kept(c)'
      BY <2>1, <1>1, <1>2, <1>7 DEF CallInv, Tokens, Flight, Kept, Call
    <2>4. \A d \in Calls \ {c} : CallInv(d)'
      BY <1>1, <1>2, <1>3, <1>4, <1>7, OtherCalls, RouterAssumption DEF IInv
    <2> QED BY <2>2, <2>3, <2>4, <1>1, <1>2 DEF IInv, CancelledAtCarrier, CallInv
  <1> QED BY <1>5, <1>6, <1>7 DEF Authorise

LEMMA LoggedInInv ==
    ASSUME IInv, NEW c \in Calls, LoggedIn(c) PROVE IInv'
  <1>1. TypeOK'
    BY LoggedInType DEF IInv
  <1>2. issued' = issued + 1 /\ issued \in Nat
    <2>1. issued' = issued + 1
      BY DEF LoggedIn
    <2>2. issued \in 0..MaxLogins
      BY DEF IInv, TypeOK, Token
    <2> QED BY <2>1, <2>2, RouterAssumption
  <1>3. cache'.token = issued' /\ issued' > 0
    <2>1. cache' = [token |-> issued', fresh |-> TRUE]
      BY DEF LoggedIn
    <2> QED BY <2>1, <1>2
  <1>4. UNCHANGED <<performed, static, parcel, late, record>> /\ refresher' = None
    BY DEF LoggedIn, carrierVars, settings
  <1>5. ASSUME NEW d \in Calls PROVE CallInv(d)'
    <2>1. call[d] \in Call /\ CallInv(d)
      BY CallTyped DEF IInv
    <2>2. call[d].token \in Int /\ call[d].rejected \in Int
      BY <2>1 DEF Call, Token
    <2>3. CASE d \in Waiting(c)
      <3>1. call'[d] = [call[d] EXCEPT !.pc = "wire", !.token = issued', !.forced = FALSE,
                          !.unreplaced = FALSE]
        BY <2>3 DEF LoggedIn
      <3>2. Tokens(d)'
        BY <3>1, <2>1, <2>2, <1>2 DEF CallInv, Tokens, Call
      <3>3. Budget(call[d])'
        BY <3>1, <2>1 DEF CallInv, Budget, Repeatable, Call
      <3>4. Flight(d)'
        BY <3>1, <2>1, <1>4, RouterAssumption DEF Flight, Call
      <3>5. Kept(d)'
        <4>1. call[d].pc \in {"login", "join"}
          BY <2>3 DEF Waiting, LoggedIn
        <4> QED BY <4>1, <3>1, <2>1, <1>4 DEF CallInv, Kept, Call
      <3> QED BY <3>2, <3>3, <3>4, <3>5 DEF CallInv
    <2>4. CASE d \notin Waiting(c)
      <3>1. call'[d] = call[d] /\ call[d].pc # "join" /\ d # c
        BY <2>4 DEF LoggedIn, Waiting
      <3>2. refresher = c /\ call[d].pc # "login"
        BY <3>1, <2>1 DEF IInv, CallInv, Flight, LoggedIn
      <3>3. Tokens(d)'
        BY <3>1, <2>1, <2>2, <1>2, <1>4 DEF CallInv, Tokens
      <3>4. Budget(call[d])' /\ Kept(d)'
        BY <3>1, <2>1, <1>4 DEF CallInv, Budget, Repeatable, Kept
      <3>5. Flight(d)'
        BY <3>1, <3>2, <1>4, RouterAssumption DEF Flight
      <3> QED BY <3>3, <3>4, <3>5 DEF CallInv
    <2> QED BY <2>3, <2>4
  <1> QED BY <1>1, <1>3, <1>4, <1>5 DEF IInv, CancelledAtCarrier

LEMMA LoginFailedInv ==
    ASSUME IInv, NEW c \in Calls, LoginFailed(c) PROVE IInv'
  <1>1. TypeOK'
    BY LoginFailedType DEF IInv
  <1>2. UNCHANGED <<issued, static, cache, performed, parcel, late, record>> /\ refresher' = None
    BY DEF LoginFailed, carrierVars, settings
  <1>3. PICK reply \in {"refused", "unmapped"} :
            call' = [d \in Calls |->
                        IF d \in Waiting(c)
                        THEN [call[d] EXCEPT !.pc = "back", !.forced = FALSE, !.reply = reply,
                          !.unreplaced = TRUE]
                        ELSE call[d]]
    BY DEF LoginFailed
  <1>4. ASSUME NEW d \in Calls PROVE CallInv(d)'
    <2>1. call[d] \in Call /\ CallInv(d)
      BY CallTyped DEF IInv
    <2>2. CASE d \in Waiting(c)
      <3>1. call'[d] = [call[d] EXCEPT !.pc = "back", !.forced = FALSE, !.reply = reply,
                          !.unreplaced = TRUE]
        BY <1>3, <2>2
      <3>2. Tokens(d)'
        BY <3>1, <2>1, <1>2 DEF CallInv, Tokens, Call
      <3>3. Budget(call[d])'
        BY <3>1, <2>1 DEF CallInv, Budget, Repeatable, Call
      <3>4. Flight(d)' /\ Kept(d)'
        BY <3>1, <2>1, <1>2, RouterAssumption DEF CallInv, Flight, Kept, Call
      <3> QED BY <3>2, <3>3, <3>4 DEF CallInv
    <2>3. CASE d \notin Waiting(c)
      <3>1. call'[d] = call[d] /\ call[d].pc # "join" /\ d # c
        BY <1>3, <2>3 DEF Waiting
      <3>2. refresher = c /\ call[d].pc # "login"
        BY <3>1, <2>1 DEF IInv, CallInv, Flight, LoginFailed
      <3>3. Flight(d)'
        BY <3>1, <3>2, <1>2, RouterAssumption DEF Flight
      <3>4. Tokens(d)' /\ Budget(call[d])' /\ Kept(d)'
        BY <3>1, <2>1, <1>2 DEF CallInv, Tokens, Budget, Repeatable, Kept
      <3> QED BY <3>3, <3>4 DEF CallInv
    <2> QED BY <2>2, <2>3
  <1> QED BY <1>1, <1>2, <1>4 DEF IInv, CancelledAtCarrier

\* A call that is sent again starts over with the token.
LEMMA AgainFields ==
    ASSUME NEW r \in Call
    PROVE  /\ Again(r).pc = "auth" /\ Again(r).reply = "none" /\ Again(r).token = 0
           /\ Again(r).method = r.method /\ Again(r).tries = r.tries /\ Again(r).two = r.two
           /\ Again(r).leg = r.leg /\ Again(r).sends = r.sends
           /\ Again(r).rejected = r.rejected /\ Again(r).forced = r.forced
           /\ Again(r).refreshed = r.refreshed /\ Again(r).unreplaced = r.unreplaced
  BY DEF Again, Call

\* A call that waits for its answer and goes back to ask for a token.
LEMMA AskAgain ==
    ASSUME IInv, TypeOK', NEW c \in Calls, NEW n \in Call, Set(c, n),
           UNCHANGED <<issued, static, cache, refresher, performed, parcel, late, record>>,
           call[c].pc = "back", n.pc = "auth", n.token = 0, Budget(n),
           n.rejected <= issued,
           ~n.forced => static \/ n.unreplaced \/ n.rejected = 0 \/ n.rejected < issued
    PROVE  IInv'
  <1>1. call'[c] = n
    BY DEF Set, IInv, TypeOK
  <1>2. Budget(call[c])'
    BY <1>1 DEF Budget, Repeatable
  <1>3. Tokens(c)'
    BY <1>1, RouterAssumption DEF Tokens, IInv, TypeOK, Token
  <1>4. Flight(c)' /\ Kept(c)'
    BY <1>1 DEF IInv, CallInv, Flight, Kept
  <1>5. CallInv(c)'
    BY <1>2, <1>3, <1>4 DEF CallInv
  <1> QED BY <1>5, LocalStep

LEMMA ResendRequestInv ==
    ASSUME IInv, NEW c \in Calls, ResendRequest(c) PROVE IInv'
  <1> DEFINE r == call[c]
  <1>1. r \in Call /\ Again(r) \in Call /\ CallInv(c) /\ Budget(r)
    BY AgainType, CallTyped DEF IInv, CallInv
  <1>2. TypeOK'
    BY <1>1, ResendRequestType DEF IInv
  <1>3. /\ r.pc = "back"
        /\ UNCHANGED <<issued, static, cache, refresher, performed, parcel, late, record>>
    BY DEF ResendRequest, tokenVars, carrierVars, settings
  <1>4. r.sends \in Nat /\ r.token \in Nat /\ r.rejected \in Nat /\ issued \in Nat
    BY <1>1, RouterAssumption DEF Call, Token, IInv, TypeOK
  <1>5. CASE /\ Reauthorises(r)
             /\ Set(c, [Again(r) EXCEPT !.sends = @ + 1, !.forced = TRUE, !.refreshed = TRUE,
                                        !.rejected = r.token, !.unreplaced = FALSE])
    <2> DEFINE n == [Again(r) EXCEPT !.sends = @ + 1, !.forced = TRUE, !.refreshed = TRUE,
                                     !.rejected = r.token, !.unreplaced = FALSE]
    <2>1. call' = [call EXCEPT ![c] = n]
      BY <1>5 DEF Set
    <2>2. n = call'[c] /\ n \in Call
      BY <2>1, <1>2 DEF IInv, TypeOK
    <2>3. /\ n.pc = "auth" /\ n.token = 0 /\ n.forced /\ n.refreshed
          /\ n.rejected = r.token /\ n.sends = r.sends + 1
          /\ n.method = r.method /\ n.tries = r.tries /\ n.two = r.two /\ n.leg = r.leg
      BY <1>1, AgainFields DEF Call
    <2>4. ~r.refreshed
      BY <1>5 DEF Reauthorises
    <2>5. Budget(n)
      BY <2>3, <2>4, <1>1, <1>4, RouterAssumption DEF Budget, Repeatable
    <2>6. n.rejected <= issued
      BY <2>3, <1>1 DEF CallInv, Tokens
    <2>7. Set(c, n)
      BY <1>5
    <2> HIDE DEF n
    <2> QED BY <2>2, <2>3, <2>5, <2>6, <2>7, <1>2, <1>3, AskAgain
  <1>6. CASE /\ Resend(r)
             /\ Set(c, [Again(r) EXCEPT !.sends = @ + 1])
    <2> DEFINE n == [Again(r) EXCEPT !.sends = @ + 1]
    <2>1. call' = [call EXCEPT ![c] = n]
      BY <1>6 DEF Set
    <2>2. n = call'[c] /\ n \in Call
      BY <2>1, <1>2 DEF IInv, TypeOK
    <2>3. /\ n.pc = "auth" /\ n.token = 0 /\ n.refreshed = r.refreshed
          /\ n.rejected = r.rejected /\ n.unreplaced = r.unreplaced /\ n.forced = r.forced
          /\ n.sends = r.sends + 1 /\ n.method = r.method /\ n.tries = r.tries /\ n.two = r.two /\ n.leg = r.leg
      BY <1>1, AgainFields DEF Call
    <2>4. Budget(n)
      BY <2>3, <1>6, <1>1, <1>4, RouterAssumption DEF Budget, Resend, Repeatable
    <2>5. static \/ n.unreplaced \/ n.forced \/ n.rejected = 0 \/ n.rejected < issued
      BY <2>3, <1>6, <1>1, <1>3 DEF CallInv, Tokens, Resend
    <2>6. n.rejected <= issued
      BY <2>3, <1>1 DEF CallInv, Tokens
    <2>7. Set(c, n)
      BY <1>6
    <2> HIDE DEF n
    <2> QED BY <2>2, <2>3, <2>4, <2>5, <2>6, <2>7, <1>2, <1>3, AskAgain
  <1> QED BY <1>5, <1>6 DEF ResendRequest

LEMMA NextRequestInv ==
    ASSUME IInv, NEW c \in Calls, NextRequest(c) PROVE IInv'
  <1> DEFINE r == call[c]
             n == [Again(r) EXCEPT !.leg = 2, !.sends = 1, !.refreshed = FALSE]
  <1>1. r \in Call /\ Again(r) \in Call /\ CallInv(c)
    BY AgainType, CallTyped DEF IInv
  <1>2. TypeOK'
    BY NextRequestType DEF IInv
  <1>3. /\ r.pc = "back" /\ Set(c, n)
        /\ UNCHANGED <<issued, static, cache, refresher, performed, parcel, late, record>>
    BY DEF NextRequest, tokenVars, carrierVars, settings
  <1>4. n = call'[c] /\ n \in Call
    BY <1>2, <1>3 DEF Set, IInv, TypeOK
  <1>5. /\ n.pc = "auth" /\ n.token = 0 /\ n.rejected = r.rejected /\ n.sends = 1
        /\ n.unreplaced = r.unreplaced /\ n.forced = r.forced
        /\ n.method = r.method /\ n.tries = r.tries /\ ~n.refreshed
    BY <1>1, AgainFields DEF Call
  <1>6. Budget(n)
    BY <1>1, <1>5, RouterAssumption DEF CallInv, Budget
  <1>7. /\ n.rejected <= issued
        /\ static \/ n.unreplaced \/ n.forced \/ n.rejected = 0 \/ n.rejected < issued
    BY <1>1, <1>3, <1>5 DEF CallInv, Tokens
  <1> HIDE DEF n
  <1> QED BY <1>2, <1>3, <1>4, <1>5, <1>6, <1>7, AskAgain

LEMMA ReturnInv ==
    ASSUME IInv, NEW c \in Calls, Return(c) PROVE IInv'
  <1> DEFINE r == call[c]
  <1>1. r \in Call /\ Again(r) \in Call /\ CallInv(c) /\ r.method \in Methods
    BY AgainType, CallTyped DEF IInv, Call
  <1>2. TypeOK'
    BY ReturnType DEF IInv
  <1>3. /\ r.pc = "back"
        /\ UNCHANGED <<issued, static, cache, refresher, performed, parcel, late, record>>
    BY DEF Return, tokenVars, carrierVars, settings
  <1>4. refresher' # c
    BY <1>1, <1>3 DEF CallInv, Flight
  <1>5. CASE r.method = "cancel" /\ Confirmed(r) /\ Set(c, [r EXCEPT !.pc = "save"])
    <2> DEFINE n == [r EXCEPT !.pc = "save"]
    <2>1. n = call'[c] /\ n \in Call
      BY <1>2, <1>5 DEF Set, IInv, TypeOK
    <2>2. /\ n.pc = "save" /\ n.token = r.token /\ n.rejected = r.rejected
          /\ n.unreplaced = r.unreplaced
          /\ n.forced = r.forced /\ n.method = r.method /\ n.tries = r.tries
          /\ n.sends = r.sends /\ n.refreshed = r.refreshed /\ n.two = r.two /\ n.leg = r.leg
      BY <1>1 DEF Call
    <2>3. Budget(call[c])' /\ Tokens(c)'
      BY <2>1, <2>2, <1>1, <1>3 DEF CallInv, Budget, Tokens, Repeatable
    <2>4. Flight(c)' /\ Kept(c)'
      BY <2>1, <2>2, <1>1, <1>3, <1>4, <1>5 DEF CallInv, Flight, Kept, Confirmed
    <2>5. CallInv(c)'
      BY <2>3, <2>4 DEF CallInv
    <2>6. Set(c, n)
      BY <1>5
    <2> HIDE DEF n
    <2> QED BY <2>1, <2>2, <2>5, <2>6, <1>2, <1>3, LocalStep
  <1>6. ASSUME NEW answer \in {"ok", "unconfirmed", "failed"}, Settle(c, answer)
        PROVE  IInv'
    <2>1. answer \in Answer
      BY DEF Answer
    <2>2. Set(c, Settled(r.method, answer)) /\ Settled(r.method, answer) \in Call
      BY <1>1, <1>6, <2>1, SettledType DEF Settle
    <2>3. call'[c] = Settled(r.method, answer)
      BY <2>2 DEF Set, IInv, TypeOK
    <2>4. CallInv(c)'
      BY <2>1, <2>3, <1>1, <1>2, <1>4, SettledInv DEF IInv
    <2>5. Settled(r.method, answer).pc # "login"
      BY <1>1, <2>1, SettledFields
    <2> QED BY <2>2, <2>4, <2>5, <1>2, <1>3, LocalStep
  <1>7. CASE /\ Retry(r)
             /\ Set(c, [Again(r) EXCEPT !.tries = @ + 1, !.leg = 1, !.sends = 1,
                                        !.refreshed = FALSE])
    <2> DEFINE n == [Again(r) EXCEPT !.tries = @ + 1, !.leg = 1, !.sends = 1,
                                     !.refreshed = FALSE]
    <2>1. n = call'[c] /\ n \in Call
      BY <1>2, <1>7 DEF Set, IInv, TypeOK
    <2>2. /\ n.pc = "auth" /\ n.token = 0 /\ n.rejected = r.rejected /\ n.sends = 1
          /\ n.unreplaced = r.unreplaced /\ n.forced = r.forced
          /\ n.method = r.method /\ ~n.refreshed
      BY <1>1, AgainFields DEF Call
    <2>3. Budget(n)
      BY <2>2, <1>7, RouterAssumption DEF Budget, Retry
    <2>4. /\ n.rejected <= issued
          /\ static \/ n.unreplaced \/ n.forced \/ n.rejected = 0 \/ n.rejected < issued
      BY <2>2, <1>1, <1>3 DEF CallInv, Tokens
    <2>5. Set(c, n)
      BY <1>7
    <2> HIDE DEF n
    <2> QED BY <2>1, <2>2, <2>3, <2>4, <2>5, <1>2, <1>3, AskAgain
  <1> QED BY <1>5, <1>6, <1>7 DEF Return, Result

LEMMA SaveCancelledInv ==
    ASSUME IInv, NEW c \in Calls, SaveCancelled(c) PROVE IInv'
  <1> DEFINE m == call[c].method
  <1>1. m \in Methods /\ CallInv(c) /\ "ok" \in Answer
    BY CallTyped, Words DEF IInv, Call
  <1>2. TypeOK'
    BY SaveCancelledType DEF IInv
  <1>3. /\ call[c].pc = "save" /\ Set(c, Settled(m, "ok"))
        /\ UNCHANGED <<issued, static, cache, refresher, performed, parcel, late>>
    BY DEF SaveCancelled, Settle, tokenVars, carrierVars, settings
  <1>4. call'[c] = Settled(m, "ok") /\ \A d \in Calls \ {c} : call'[d] = call[d]
    BY <1>3 DEF Set, IInv, TypeOK
  <1>5. refresher' # c /\ parcel = "CANCELLED"
    BY <1>1, <1>3 DEF CallInv, Flight, Kept
  <1>6. CallInv(c)'
    BY <1>1, <1>2, <1>4, <1>5, SettledInv DEF IInv
  <1>7. \A d \in Calls \ {c} : CallInv(d)'
    BY <1>2, <1>3, <1>4, OtherCalls, RouterAssumption DEF IInv, TypeOK, Token
  <1> QED BY <1>2, <1>3, <1>5, <1>6, <1>7 DEF IInv, CancelledAtCarrier

LEMMA ServeInv ==
    ASSUME IInv, NEW c \in Calls, Serve(c) PROVE IInv'
  <1> DEFINE r == call[c]
  <1>1. r \in Call /\ CallInv(c) /\ TypeOK'
    BY CallTyped, ServeType DEF IInv
  <1>2. PICK reply \in Reply \ {"none", "network"} :
            /\ \/ reply = "ok" /\ Perform(c)
               \/ reply \in {"vague", "transient"} /\ Changes(c) /\ Perform(c)
               \/ reply # "ok" /\ Reject
            /\ Set(c, [call[c] EXCEPT !.pc = "back", !.reply = reply,
                                      !.token = IF reply = "unauthorized" THEN @ ELSE 0])
    BY DEF Serve
  <1>3. /\ r.pc = "wire"
        /\ UNCHANGED <<issued, static, cache, refresher, late, record>>
    BY DEF Serve, tokenVars, settings
  <1>4. /\ performed \subseteq performed'
        /\ parcel = "CANCELLED" => parcel' = "CANCELLED"
    BY <1>2, PerformFacts DEF IInv
  <1>5. \A d \in Calls \ {c} : call'[d] = call[d]
    BY <1>2 DEF Set, IInv, TypeOK
  <1> DEFINE n == call'[c]
  <1>6. /\ n.pc = "back" /\ n.reply = reply /\ n.token \in {0, r.token}
        /\ n.rejected = r.rejected /\ n.forced = r.forced /\ n.method = r.method
        /\ n.unreplaced = r.unreplaced
        /\ n.tries = r.tries /\ n.sends = r.sends /\ n.refreshed = r.refreshed
        /\ n.two = r.two /\ n.leg = r.leg /\ n.answer = r.answer
    <2>1. n = [r EXCEPT !.pc = "back", !.reply = reply,
                        !.token = IF reply = "unauthorized" THEN @ ELSE 0]
      BY <1>2 DEF Set, IInv, TypeOK
    <2> QED BY <2>1, <1>1 DEF Call
  <1>7. r.token \in Nat /\ r.rejected \in Nat /\ issued \in Nat
    BY <1>1, RouterAssumption DEF Call, Token, IInv, TypeOK
  <1>8. Tokens(c)'
    BY <1>1, <1>3, <1>6, <1>7 DEF CallInv, Tokens
  <1>9. Budget(call[c])' /\ Flight(c)'
    BY <1>1, <1>3, <1>6 DEF CallInv, Budget, Repeatable, Flight
  <1>10. Kept(c)'
    <2>1. reply = "ok" => c \in performed' /\ (r.method = "cancel" => parcel' = "CANCELLED")
      BY <1>2 DEF Perform
    <2> QED BY <2>1, <1>1, <1>3, <1>6 DEF CallInv, Kept
  <1>11. CallInv(c)'
    BY <1>8, <1>9, <1>10 DEF CallInv
  <1>12. \A d \in Calls \ {c} : CallInv(d)'
    BY <1>1, <1>3, <1>4, <1>5, <1>7, OtherCalls DEF IInv
  <1> QED BY <1>1, <1>3, <1>4, <1>11, <1>12 DEF IInv, CancelledAtCarrier

LEMMA BreakInv ==
    ASSUME IInv, NEW c \in Calls, Break(c) PROVE IInv'
  <1> DEFINE r == call[c]
  <1>1. r \in Call /\ CallInv(c) /\ TypeOK'
    BY CallTyped, BreakType DEF IInv
  <1>2. /\ r.pc = "wire"
        /\ UNCHANGED <<issued, static, cache, refresher, record>>
        /\ late' \subseteq late \cup {c}
        /\ Perform(c) \/ Reject
        /\ Set(c, [r EXCEPT !.pc = "back", !.reply = "network", !.token = 0])
    BY DEF Break, tokenVars, settings
  <1>3. /\ performed \subseteq performed'
        /\ parcel = "CANCELLED" => parcel' = "CANCELLED"
    BY <1>2, PerformFacts DEF IInv
  <1>4. \A d \in Calls \ {c} : call'[d] = call[d]
    BY <1>2 DEF Set, IInv, TypeOK
  <1> DEFINE n == call'[c]
  <1>5. /\ n.pc = "back" /\ n.reply = "network" /\ n.token = 0
        /\ n.rejected = r.rejected /\ n.forced = r.forced /\ n.method = r.method
        /\ n.unreplaced = r.unreplaced
        /\ n.tries = r.tries /\ n.sends = r.sends /\ n.refreshed = r.refreshed
        /\ n.two = r.two /\ n.leg = r.leg
    <2>1. n = [r EXCEPT !.pc = "back", !.reply = "network", !.token = 0]
      BY <1>2 DEF Set, IInv, TypeOK
    <2> QED BY <2>1, <1>1 DEF Call
  <1>6. r.token \in Nat /\ r.rejected \in Nat /\ issued \in Nat
    BY <1>1, RouterAssumption DEF Call, Token, IInv, TypeOK
  <1>7. Tokens(c)'
    BY <1>1, <1>2, <1>5, <1>6 DEF CallInv, Tokens
  <1>8. Budget(call[c])' /\ Flight(c)' /\ Kept(c)'
    BY <1>1, <1>2, <1>5 DEF CallInv, Budget, Repeatable, Flight, Kept
  <1>9. CallInv(c)'
    BY <1>7, <1>8 DEF CallInv
  <1>10. \A d \in Calls \ {c} : CallInv(d)'
    BY <1>1, <1>2, <1>3, <1>4, <1>6, OtherCalls DEF IInv
  <1> QED BY <1>1, <1>2, <1>3, <1>9, <1>10 DEF IInv, CancelledAtCarrier

\* Whatever leaves the calls, the login and the tokens' numbers alone.
LEMMA AroundTheCalls ==
    ASSUME IInv, TypeOK', UNCHANGED <<call, issued, static, refresher>>,
           performed \subseteq performed', late' \subseteq late,
           parcel = "CANCELLED" => parcel' = "CANCELLED"
    PROVE  \A d \in Calls : CallInv(d)'
  BY OtherCalls, RouterAssumption DEF IInv, TypeOK, Token

LEMMA ArriveInv ==
    ASSUME IInv, NEW c \in Calls, Arrive(c) PROVE IInv'
  <1>1. /\ TypeOK'
        /\ UNCHANGED <<call, issued, static, refresher, cache, record>> /\ late' \subseteq late
        /\ Perform(c) \/ Reject
    BY ArriveType DEF Arrive, IInv, tokenVars, settings
  <1>2. /\ performed \subseteq performed'
        /\ parcel = "CANCELLED" => parcel' = "CANCELLED"
    BY <1>1, PerformFacts DEF IInv
  <1> QED BY <1>1, <1>2, AroundTheCalls DEF IInv, CancelledAtCarrier

LEMMA EnvironmentInv ==
    ASSUME IInv, Expire \/ Tick \/ ParcelMoves \/ RecordFollows PROVE IInv'
  <1>1. TypeOK'
    BY EnvironmentType DEF IInv
  <1>2. CASE Expire
    BY <1>1, <1>2, AroundTheCalls DEF Expire, IInv, TypeOK, CancelledAtCarrier, settings
  <1>3. CASE Tick
    BY <1>1, <1>3, AroundTheCalls DEF Tick, IInv, CancelledAtCarrier, tokenVars, carrierVars, settings
  <1>4. CASE ParcelMoves
    <2>1. parcel # "CANCELLED"
      BY <1>4, StatusFacts DEF ParcelMoves
    <2> QED BY <1>1, <1>4, <2>1, AroundTheCalls
          DEF ParcelMoves, IInv, CancelledAtCarrier, tokenVars, settings
  <1>5. CASE RecordFollows
    BY <1>1, <1>5, AroundTheCalls
      DEF RecordFollows, IInv, CancelledAtCarrier, tokenVars, carrierVars, settings
  <1> QED BY <1>2, <1>3, <1>4, <1>5

-----------------------------------------------------------------------------
(* The invariant holds in every reachable state.                           *)

LEMMA InitInv == Init => IInv
  <1> SUFFICES ASSUME Init PROVE IInv
    OBVIOUS
  <1>1. TypeOK
    BY InitType
  <1>2. /\ static \/ cache.token = issued
        /\ static => issued > 0
        /\ ~cache.fresh /\ CancelledAtCarrier
    BY DEF Init, CancelledAtCarrier
  <1>3. ASSUME NEW c \in Calls PROVE CallInv(c)
    <2>1. LET r == call[c]
          IN  /\ r.pc = "idle" /\ r.tries = 0 /\ r.sends = 0 /\ r.token = 0
              /\ r.rejected = 0 /\ ~r.forced /\ ~r.refreshed /\ ~r.unreplaced
      BY DEF Init, Unused
    <2>2. c # None
      BY RouterAssumption
    <2> QED BY <2>1, <2>2, RouterAssumption
          DEF Init, CallInv, Budget, Tokens, Flight, Kept
  <1> QED BY <1>1, <1>2, <1>3 DEF IInv

LEMMA StutterInv == IInv /\ UNCHANGED vars => IInv'
  BY DEF vars, IInv, TypeOK, CallInv, Budget, Repeatable, Tokens, Flight, Kept,
         CancelledAtCarrier

LEMMA NextInv == IInv /\ [Next]_vars => IInv'
  <1> SUFFICES ASSUME IInv, [Next]_vars PROVE IInv'
    OBVIOUS
  <1>1. ASSUME NEW c \in Calls, Proceed(c) PROVE IInv'
    BY <1>1, AuthoriseInv, LoggedInInv, LoginFailedInv, ServeInv, BreakInv,
       ResendRequestInv, NextRequestInv, ReturnInv, SaveCancelledInv DEF Proceed
  <1>2. ASSUME NEW c \in Calls, Begin(c) PROVE IInv'
    BY <1>2, BeginInv
  <1>3. ASSUME NEW c \in Calls, Arrive(c) PROVE IInv'
    BY <1>3, ArriveInv
  <1>4. CASE Expire \/ Tick \/ ParcelMoves \/ RecordFollows
    BY <1>4, EnvironmentInv
  <1>5. CASE UNCHANGED vars
    BY <1>5, StutterInv
  <1> QED BY <1>1, <1>2, <1>3, <1>4, <1>5 DEF Next

\* The strengthening is an invariant: the rejected token of every call is older than
\* the one it goes out with, and an answered call was performed.
THEOREM Invariance == Spec => []IInv
  BY InitInv, NextInv, PTL DEF Spec

\* The calls, the circuits and the token stay what they are, within their budgets.
THEOREM TypeCorrect == Spec => []TypeOK
  <1>1. IInv => TypeOK
    BY DEF IInv
  <1> QED BY <1>1, Invariance, PTL

\* getAuthToken runs one login at a time and leaves nobody waiting for one that ended.
THEOREM LoginsAreSingle == Spec => []SingleFlight
  <1>1. IInv => SingleFlight
    BY DEF IInv, CallInv, Flight, SingleFlight
  <1> QED BY <1>1, Invariance, PTL

\* Whatever the legs, the retries, the logins of others and the revocations, a call goes out
\* again with a token the carrier has rejected for it only if getAuthToken has no other,
\* because one is configured or because the login for a new one failed.
THEOREM TokensAreFresh == Spec => []FreshToken
  <1>1. IInv => FreshToken
    <2> SUFFICES ASSUME IInv, NEW c \in Calls, call[c].pc = "wire",
                        call[c].token = call[c].rejected
                 PROVE  static \/ call[c].unreplaced
      BY DEF FreshToken
    <2>1. call[c].token \in Nat /\ call[c].rejected \in Nat
      BY CallTyped, RouterAssumption DEF IInv, Call, Token
    <2> QED BY <2>1 DEF IInv, CallInv, Tokens
  <1> QED BY <1>1, Invariance, PTL

\* The two retry loops keep to their budgets whatever they are.
THEOREM BudgetsHold == Spec => []RetryBudget
  <1>1. IInv => RetryBudget
    BY DEF IInv, CallInv, Budget, RetryBudget
  <1> QED BY <1>1, Invariance, PTL

\* cancelByShipment stores CANCELLED only when the carrier's parcel is cancelled.
THEOREM CancelledThere == Spec => []CancelledAtCarrier
  <1>1. IInv => CancelledAtCarrier
    BY DEF IInv
  <1> QED BY <1>1, Invariance, PTL

-----------------------------------------------------------------------------
(* The router keeps what CarrierCall promises of every call.               *)

LEMMA Views ==
    ASSUME NEW r
    PROVE  /\ r.pc = "idle" => View(r) = "idle"
           /\ r.pc \notin {"idle", "done"} => View(r) = "asked"
           /\ r.pc = "done" /\ r.answer = "ok" => View(r) = "ok"
           /\ r.pc = "done" /\ r.answer \in {"failed", "unconfirmed"} => View(r) = "failed"
           /\ r.pc = "done" /\ r.answer \notin {"ok", "failed", "unconfirmed"} =>
                 View(r) = "local"
  BY DEF View

LEMMA SeenSet ==
    ASSUME call \in [Calls -> Call], NEW c \in Calls, NEW r, Set(c, r)
    PROVE  Seen' = [Seen EXCEPT ![c] = View(r)]
  BY DEF Set, Seen

\* A call that stays on its way to an answer is still asked.
LEMMA StillAsked ==
    ASSUME call \in [Calls -> Call], NEW c \in Calls, NEW r, Set(c, r),
           call[c].pc \notin {"idle", "done"}, r.pc \notin {"idle", "done"}
    PROVE  Seen' = Seen /\ Seen[c] = "asked"
  <1>1. View(call[c]) = "asked" /\ View(r) = "asked"
    BY Views
  <1>2. Seen[c] = "asked"
    BY <1>1 DEF Seen
  <1>3. Seen' = [Seen EXCEPT ![c] = "asked"]
    BY <1>1, SeenSet
  <1> QED BY <1>2, <1>3 DEF Seen

LEMMA BeginStep ==
    ASSUME IInv, NEW c \in Calls, Begin(c)
    PROVE  Port!Ask(c) \/ Port!SettleLocally(c)
  <1>1. call[c].pc = "idle" /\ performed' = performed /\ call \in [Calls -> Call]
    BY DEF Begin, carrierVars, settings, IInv, TypeOK
  <1>2. Seen[c] = "idle"
    BY <1>1, Views DEF Seen
  <1>3. PICK m \in Methods, known \in IdKnown :
            IF Precheck(m, known) # "none"
            THEN Set(c, Settled(m, Precheck(m, known)))
            ELSE \E two \in TwoRequests(m) :
                    Set(c, [call[c] EXCEPT !.pc = "auth", !.method = m, !.two = two,
                                           !.tries = 1, !.sends = 1])
    BY DEF Begin
  <1>4. CASE Precheck(m, known) # "none"
    <2>1. Precheck(m, known) \in {"disabled", "already", "refused", "open"}
      BY <1>4 DEF Precheck
    <2>2. View(Settled(m, Precheck(m, known))) = "local"
      <3>1. Precheck(m, known) \in Answer
        BY <2>1 DEF Answer
      <3> QED BY <2>1, <3>1, SettledFields, Views
    <2>3. Seen' = [Seen EXCEPT ![c] = "local"]
      BY <1>1, <1>3, <1>4, <2>2, SeenSet
    <2> QED BY <1>1, <1>2, <2>3 DEF Port!SettleLocally
  <1>5. CASE ~(Precheck(m, known) # "none")
    <2>1. PICK two \in TwoRequests(m) :
            Set(c, [call[c] EXCEPT !.pc = "auth", !.method = m, !.two = two,
                                   !.tries = 1, !.sends = 1])
      BY <1>3, <1>5
    <2> DEFINE n == [call[c] EXCEPT !.pc = "auth", !.method = m, !.two = two,
                                    !.tries = 1, !.sends = 1]
    <2>2. n.pc = "auth"
      BY CallTyped DEF IInv, Call
    <2>3. Set(c, n)
      BY <2>1
    <2> HIDE DEF n
    <2>4. Seen' = [Seen EXCEPT ![c] = "asked"]
      BY <1>1, <2>2, <2>3, Views, SeenSet
    <2> QED BY <1>1, <1>2, <2>4 DEF Port!Ask
  <1> QED BY <1>4, <1>5

LEMMA WaitingStep ==
    ASSUME IInv, NEW c \in Calls, Authorise(c) \/ LoggedIn(c) \/ LoginFailed(c)
    PROVE  UNCHANGED <<Seen, performed>>
  <1>1. call \in [Calls -> Call] /\ UNCHANGED performed
    BY DEF Authorise, LoggedIn, LoginFailed, carrierVars, settings, IInv, TypeOK
  <1>2. \A d \in Calls : View(call'[d]) = View(call[d])
    <2> SUFFICES ASSUME NEW d \in Calls, call'[d] # call[d]
                 PROVE  View(call'[d]) = View(call[d])
      OBVIOUS
    <2>1. call[d].pc \in {"auth", "login", "join"}
      BY <1>1 DEF Authorise, LoggedIn, LoginFailed, Waiting, Set
    <2>2. call'[d].pc \in {"wire", "join", "login", "back"}
      <3>1. call[d] \in Call
        BY CallTyped DEF IInv
      <3>2. CASE Authorise(c)
        BY <1>1, <3>1, <3>2 DEF Authorise, Set, Call
      <3>3. CASE LoggedIn(c)
        BY <1>1, <3>1, <3>3 DEF LoggedIn, Call
      <3>4. CASE LoginFailed(c)
        <4>1. PICK reply \in {"refused", "unmapped"} :
                  call' = [e \in Calls |->
                              IF e \in Waiting(c)
                              THEN [call[e] EXCEPT !.pc = "back", !.forced = FALSE, !.reply = reply,
                          !.unreplaced = TRUE]
                              ELSE call[e]]
          BY <3>4 DEF LoginFailed
        <4>2. call'[d] = [call[d] EXCEPT !.pc = "back", !.forced = FALSE, !.reply = reply,
                          !.unreplaced = TRUE]
          BY <4>1
        <4> QED BY <4>2, <3>1 DEF Call
      <3> QED BY <3>2, <3>3, <3>4
    <2> QED BY <2>1, <2>2, Views
  <1> QED BY <1>1, <1>2 DEF Seen

LEMMA ResendStep ==
    ASSUME IInv, NEW c \in Calls, ResendRequest(c) \/ NextRequest(c)
    PROVE  UNCHANGED <<Seen, performed>>
  <1>1. call \in [Calls -> Call] /\ UNCHANGED performed /\ call[c].pc = "back"
    BY DEF ResendRequest, NextRequest, carrierVars, settings, IInv, TypeOK
  <1>2. Again(call[c]).pc = "auth" /\ Again(call[c]) \in Call
    BY AgainFields, AgainType, CallTyped DEF IInv
  <1>3. call'[c].pc = "auth" /\ call' = [call EXCEPT ![c] = call'[c]]
    BY <1>1, <1>2 DEF ResendRequest, NextRequest, Set, Call
  <1> QED BY <1>1, <1>3, StillAsked DEF Set

LEMMA ReturnStep ==
    ASSUME IInv, NEW c \in Calls, Return(c)
    PROVE  Port!Answer(c) \/ UNCHANGED <<Seen, performed>>
  <1> DEFINE r == call[c]
  <1>1. /\ call \in [Calls -> Call] /\ UNCHANGED performed /\ r.pc = "back"
        /\ r \in Call /\ r.method \in Methods /\ CallInv(c)
    BY CallTyped DEF Return, carrierVars, settings, IInv, TypeOK, Call
  <1>2. Seen[c] = "asked"
    BY <1>1, Views DEF Seen
  <1>3. CASE Set(c, [r EXCEPT !.pc = "save"])
    <2>1. [r EXCEPT !.pc = "save"].pc = "save"
      BY <1>1 DEF Call
    <2> QED BY <1>1, <1>3, <2>1, StillAsked
  <1>4. ASSUME NEW answer \in {"ok", "unconfirmed", "failed"}, Settle(c, answer),
               answer = "ok" => c \in performed
        PROVE  Port!Answer(c)
    <2>1. Settled(r.method, answer).pc = "done" /\ Settled(r.method, answer).answer = answer
      <3>1. answer \in Answer
        BY DEF Answer
      <3> QED BY <3>1, <1>1, SettledFields
    <2>2. Seen' = [Seen EXCEPT ![c] = IF answer = "ok" THEN "ok" ELSE "failed"]
      BY <2>1, <1>1, <1>4, SeenSet, Views DEF Settle
    <2> QED BY <2>2, <1>1, <1>2, <1>4 DEF Port!Answer
  <1>5. CASE Set(c, [Again(r) EXCEPT !.tries = @ + 1, !.leg = 1, !.sends = 1,
                                     !.refreshed = FALSE])
    <2> DEFINE n == [Again(r) EXCEPT !.tries = @ + 1, !.leg = 1, !.sends = 1,
                                     !.refreshed = FALSE]
    <2>1. n.pc = "auth"
      BY <1>1, AgainFields, AgainType DEF Call
    <2>2. Set(c, n)
      BY <1>5
    <2> HIDE DEF n
    <2> QED BY <1>1, <2>1, <2>2, StillAsked
  <1>6. Result(r) \in {"ok", "unconfirmed", "failed"} /\ (Result(r) = "ok" => c \in performed)
    BY <1>1 DEF Result, CallInv, Kept
  <1> QED BY <1>3, <1>4, <1>5, <1>6 DEF Return

LEMMA SaveCancelledStep ==
    ASSUME IInv, NEW c \in Calls, SaveCancelled(c)
    PROVE  Port!Answer(c)
  <1>1. /\ call \in [Calls -> Call] /\ UNCHANGED performed /\ call[c].pc = "save"
        /\ call[c].method \in Methods /\ c \in performed
    BY CallTyped DEF SaveCancelled, carrierVars, settings, IInv, TypeOK, Call, CallInv, Kept
  <1>2. Seen[c] = "asked"
    BY <1>1, Views DEF Seen
  <1>3. View(Settled(call[c].method, "ok")) = "ok"
    BY <1>1, Words, SettledFields, Views
  <1>4. Seen' = [Seen EXCEPT ![c] = "ok"]
    BY <1>1, <1>3, SeenSet DEF SaveCancelled, Settle
  <1> QED BY <1>1, <1>2, <1>4 DEF Port!Answer

\* The carrier performs requests of calls that are asked, or were answered while a
\* request was still on its way.
LEMMA CarrierSteps ==
    ASSUME IInv, NEW c \in Calls, Serve(c) \/ Break(c) \/ Arrive(c)
    PROVE  Port!Perform(c) \/ UNCHANGED <<Seen, performed>>
  <1>1. call \in [Calls -> Call] /\ call[c] \in Call /\ CallInv(c)
    BY CallTyped DEF IInv, TypeOK
  <1>2. Perform(c) \/ Reject
    BY DEF Serve, Break, Arrive
  <1>3. performed' = performed \cup {c} \/ performed' = performed
    BY <1>2 DEF Perform, Reject
  <1>4. Seen' = Seen /\ Seen[c] \in {"asked", "ok", "failed"}
    <2>1. CASE Serve(c) \/ Break(c)
      <3>1. call[c].pc = "wire"
        BY <2>1 DEF Serve, Break
      <3>2. call'[c].pc = "back" /\ call' = [call EXCEPT ![c] = call'[c]]
        <4>1. CASE Serve(c)
          <5>1. PICK reply \in Reply :
                    Set(c, [call[c] EXCEPT !.pc = "back", !.reply = reply,
                                           !.token = IF reply = "unauthorized" THEN @ ELSE 0])
            BY <4>1 DEF Serve
          <5> QED BY <5>1, <1>1 DEF Set, Call
        <4>2. CASE Break(c)
          BY <4>2, <1>1 DEF Break, Set, Call
        <4> QED BY <2>1, <4>1, <4>2
      <3> QED BY <1>1, <3>1, <3>2, StillAsked DEF Set
    <2>2. CASE Arrive(c)
      <3>1. call[c].pc # "idle" /\
            (call[c].pc = "done" => call[c].answer \in {"ok", "failed", "unconfirmed"})
        BY <2>2, <1>1 DEF Arrive, CallInv, Kept
      <3>2. View(call[c]) \in {"asked", "ok", "failed"}
        BY <3>1, Views
      <3> QED BY <2>2, <3>2 DEF Arrive, Seen
    <2> QED BY <2>1, <2>2
  <1> QED BY <1>3, <1>4 DEF Port!Perform

LEMMA StepsImplement ==
    IInv /\ [Next]_vars => [Port!Next]_(Port!portVars)
  <1> SUFFICES ASSUME IInv, [Next]_vars
               PROVE  Port!Next \/ UNCHANGED <<Seen, performed>>
    BY DEF Port!portVars
  <1>1. ASSUME NEW c \in Calls, Begin(c) \/ Proceed(c) \/ Arrive(c)
        PROVE  Port!Next \/ UNCHANGED <<Seen, performed>>
    BY <1>1, BeginStep, WaitingStep, ResendStep, ReturnStep, SaveCancelledStep, CarrierSteps
      DEF Proceed, Port!Next
  <1>2. CASE Expire \/ Tick \/ ParcelMoves \/ RecordFollows \/ UNCHANGED vars
    BY <1>2 DEF Expire, Tick, ParcelMoves, RecordFollows, vars, carrierVars, settings, Seen
  <1> QED BY <1>1, <1>2 DEF Next

LEMMA InitImplements == Init => Port!Init
  BY Views DEF Init, Unused, Seen, Port!Init

\* invokeWithPolicy over the adapter is a CarrierCall in every step: success means the
\* carrier performed the call, settled without the carrier means it never does.
THEOREM ImplementsCallSafely == Spec => Port!SafeSpec
  BY InitImplements, StepsImplement, Invariance, PTL DEF Spec, Port!SafeSpec
=============================================================================
