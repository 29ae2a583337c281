------------------------- MODULE OrderAlertsProofs -------------------------
(***************************************************************************)
(* What the dashboard and the detectors show of an order, from the         *)
(* invariant of the order: for any intents, attempts, handlers and         *)
(* failures.                                                               *)
(***************************************************************************)
EXTENDS OrderAlerts, OrderFlowsProofs

-----------------------------------------------------------------------------

\* While nobody works on an intent, its metadata has all the movements there were.
LEMMA AtRest ==
    ASSUME IInv, NEW i \in Intents \ disturbed, ~AtWork(i), NEW m \in Modes
    PROVE  moved[i][m] = IF m \in meta.it[i].moves THEN 1 ELSE 0
  <1>1. HasMovement(i, m) <=> m \in meta.it[i].moves
    BY DEF HasMovement, AtWork, InHand
  <1> QED BY <1>1, MovedIs DEF IInv

LEMMA HeldReturnsSeen ==
    ASSUME IInv, NEW i \in Returns \ disturbed, ~AtWork(i)
    PROVE  /\ OnHold(i) <=> i \in ReturnsQcStuck(All)
           /\ OnHold(i) <=> i \in ReturnsAttention(All)
  <1>1. GoodReturn(meta.it[i])
    BY DEF IInv, Typed, GoodMeta
  <1>2. /\ i \in Intents \ disturbed
        /\ {"to_qc_hold", "qc_hold_to_sellable", "qc_hold_to_damage"} \subseteq Modes
    BY Kinds DEF Modes
  <1>3. OnHold(i) <=> /\ "to_qc_hold" \in meta.it[i].moves
                      /\ "qc_hold_to_sellable" \notin meta.it[i].moves
                      /\ "qc_hold_to_damage" \notin meta.it[i].moves
    BY <1>2, AtRest DEF OnHold
  <1>4. OnHold(i) <=> meta.it[i].state = "received"
    BY <1>1, <1>3 DEF GoodReturn, Passed, Failed
  <1> QED BY <1>4 DEF ReturnsQcStuck, ReturnsAttention, ReceivedBefore, All

LEMMA OwedCashSeen ==
    ASSUME IInv, NEW n \in Attempts, meta.fi[n] = "delivered", CodOwed
    PROVE  CodCapturePending(All) /\ CodAttention(All)
  <1>1. n \in meta.delivered /\ meta.delivered \subseteq Attempts
    BY DEF IInv, Typed, TypeOK, GoodMeta, Metadata
  <1> QED BY <1>1 DEF CodCapturePending, CodAttention, DeliveredBefore, All

\* What makes the fulfillment of order.placed seen: it was announced, its intent is there or
\* its failure is noted.
OnOrder == announced[1] > 0 \/ meta.fi[1] # "none" \/ meta.failed

LEMMA SeenIf == IInv => (RequestSeen <=> OnOrder)
  <1> SUFFICES ASSUME Typed PROVE RequestSeen <=> OnOrder
    BY DEF IInv
  <1>1. CASE meta.fi[1] = "requested"
    BY <1>1, Kinds DEF RequestSeen, FulfillmentsAttention, StuckFulfillments, All, OnOrder
  <1>2. CASE meta.fi[1] # "requested"
    <2>1. OrdersAttention <=> meta.failed
      BY DEF OrdersAttention, HasError, Typed, GoodMeta
    <2>2. 1 \notin StuckFulfillments(All)
      BY <1>2 DEF StuckFulfillments
    <2> QED BY <1>2, <2>1, <2>2 DEF RequestSeen, OnOrder
  <1> QED BY <1>1, <1>2

\* Writing back what was read keeps what makes the order seen, or overwrites it.
LEMMA SeenWritten ==
    ASSUME Typed, NEW a \in Actors, NEW k \in Job, WriteStep(a, k),
           meta.fi[1] # "none" \/ meta.failed
    PROVE  meta'.fi[1] # "none" \/ meta'.failed \/ (At(a, "persist") /\ 1 \in Overwritten(a))
  <1>1. At(a, "persist")
    BY DEF WriteStep, WriteBack
  <1>2. CASE meta.failed
    <2>1. actor[a].snap.failed \/ 1 \in Overwritten(a)
      BY <1>2 DEF Overwritten
    <2> QED BY <1>1, <2>1 DEF WriteStep
  <1>3. CASE meta.fi[1] # "none"
    <2>1. CASE actor[a].snap.fi[1] # meta.fi[1]
      BY <1>1, <2>1, Kinds DEF Overwritten
    <2>2. CASE actor[a].snap.fi[1] = meta.fi[1]
      <3>1. 1 # actor[a].n => meta'.fi[1] = meta.fi[1]
        BY <2>2, Kinds DEF WriteStep
      <3>2. 1 = actor[a].n => LegalAttemptChange(meta.fi[1], meta'.fi[1])
        BY <2>2, Kinds DEF WriteStep
      <3> QED BY <1>3, <3>1, <3>2, Words DEF LegalAttemptChange
    <2> QED BY <2>1, <2>2
  <1> QED BY <1>2, <1>3

\* What a step of an actor can do to the memory of order.placed and to the request.
LEMMA SeenStep ==
    ASSUME Typed, [Next]_vars
    PROVE  /\ known # "done" /\ known' = "done" => OnOrder' \/ \E a \in Actors : NoteLost(a)
           /\ OnOrder /\ ~OnOrder' =>
                \E a \in Actors : At(a, "persist") /\ 1 \in Overwritten(a)
  <1>1. /\ OnOrder <=> announced[1] > 0 \/ meta.fi[1] # "none" \/ meta.failed
        /\ OnOrder' <=> announced'[1] > 0 \/ meta'.fi[1] # "none" \/ meta'.failed
    BY DEF OnOrder
  <1>2. CASE UNCHANGED vars \/ Restart
    <2>1. UNCHANGED <<meta, announced>> /\ (known' = "done" => known = "done")
      BY <1>2 DEF vars, orderVars, Restart
    <2> QED BY <1>1, <2>1
  <1>3. ASSUME NEW a \in Actors, NEW k \in Job, MoveStep(a) \/ PayStep(a, k)
        PROVE  UNCHANGED <<meta, announced, known>>
    BY <1>3 DEF MoveStep, PayStep
  <1>4. ASSUME NEW a \in Actors, NEW k \in Job, JobStep(a, k)
        PROVE  /\ meta' = meta
               /\ announced[1] > 0 => announced'[1] > 0
               /\ known # "done" /\ known' = "done" => OnOrder' \/ NoteLost(a)
    <2>1. /\ meta' = meta
          /\ known # "done" /\ known' = "done" =>
                meta.fi[1] # "none" \/ announced'[1] > 0 \/ NoteLost(a)
      BY <1>4 DEF JobStep
    <2>2. announced' = announced \/ announced' = [announced EXCEPT ![actor[a].n] = @ + 1]
      BY <1>4 DEF JobStep
    <2>3. announced[1] > 0 => announced'[1] > 0
      BY <2>2, Kinds DEF Typed, TypeOK
    <2> QED BY <1>1, <2>1, <2>3
  <1>5. ASSUME NEW a \in Actors, NEW k \in Job, WriteStep(a, k)
        PROVE  /\ announced' = announced
               /\ known # "done" /\ known' = "done" => OnOrder'
               /\ OnOrder => OnOrder' \/ (At(a, "persist") /\ 1 \in Overwritten(a))
    <2>1. announced' = announced /\ (known' = known \/ meta'.failed)
      BY <1>5 DEF WriteStep, WriteBack
    <2> QED BY <1>1, <1>5, <2>1, SeenWritten
  <1>6. CASE \E a \in Actors : Kind(a)
    <2>1. PICK a \in Actors : Kind(a)
      BY <1>6
    <2>2. PICK k \in Job : MoveStep(a) \/ JobStep(a, k) \/ PayStep(a, k) \/ WriteStep(a, k)
      BY <2>1, NoJobType DEF Kind
    <2> QED BY <1>1, <1>3, <1>4, <1>5, <2>2
  <1> QED BY <1>2, <1>6, Kinded

-----------------------------------------------------------------------------
(* Theorems *)

\* Goods of a return that lie on hold while nobody works on it are in the list of the
\* dashboard and in an alert, and nothing else is; so is cash owed for a delivered attempt.
THEOREM OpenWorkIsSeen == Spec => []OpenWorkSeen
  <1>1. IInv => OpenWorkSeen
    BY HeldReturnsSeen, OwedCashSeen DEF OpenWorkSeen
  <1> QED BY <1>1, Invariance, PTL

\* The handler of order.placed is done with an order only when its fulfillment was requested
\* or its failure noted, or when that note failed too; and no flow takes either off the order
\* again, except by storing metadata older than it.
THEOREM FailedRequestsStaySeen == Spec => FailedRequestStaysSeen
  <1>1. IInv /\ [Next]_vars =>
          [/\ known # "done" /\ known' = "done" =>
                OnOrder' \/ \E a \in Actors : NoteLost(a)
           /\ OnOrder /\ ~OnOrder' =>
                \E a \in Actors : At(a, "persist") /\ 1 \in Overwritten(a)]_vars
    BY SeenStep DEF IInv
  <1> QED BY <1>1, SeenIf, Invariance, PTL DEF Spec, FailedRequestStaysSeen
=============================================================================
