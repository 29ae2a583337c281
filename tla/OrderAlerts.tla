---------------------------- MODULE OrderAlerts ----------------------------
(***************************************************************************)
(* What the operations team gets to see of an order: the lists of the      *)
(* dashboard (modules/ops/attention.ts) and the alerts of the scheduled    *)
(* detectors (modules/ops-alert-detectors.ts).  They are two readers of    *)
(* the order's metadata and payment, each with helpers of its own.         *)
(*                                                                         *)
(* Time is the set `old` of attempts and returns whose timestamp has       *)
(* passed the threshold; whatever stays as it is will be among them.       *)
(***************************************************************************)
EXTENDS OrderFlows

\* Cash on delivery that is still to be captured.
CodOwed == cod /\ ~captured

\* The last delivery counts, and an attempt that is on its way back keeps its place in
\* the history.
DeliveredBefore(old) == meta.delivered # {} /\ meta.delivered \subseteq old

ReceivedBefore(i, old) == i \in old /\ meta.it[i].state = "received"

\* Nothing ever takes the error off the order.
HasError == meta.failed

-----------------------------------------------------------------------------
(* The detectors. *)

\* runStuckFulfillmentDetector
StuckFulfillments(old) == {n \in Attempts \cap old : meta.fi[n] = "requested"}

\* runCodCapturePendingDetector
CodCapturePending(old) == CodOwed /\ DeliveredBefore(old)

\* Mutant: a return is stuck once the quality check has passed it.
ReturnsQcStuck_AfterCheck(old) == {i \in Returns \cap old : meta.it[i].state = "qc_passed"}

\* runReturnsQcStuckDetector
ReturnsQcStuck(old) == {i \in Returns : ReceivedBefore(i, old)}

-----------------------------------------------------------------------------
(* The dashboard. *)

\* getOrdersAttention
OrdersAttention == meta.fstate = "pending" \/ HasError

\* getFulfillmentsAttention
FulfillmentsAttention(old) ==
    {n \in Attempts : meta.fi[n] = "delivery_failed"
                          \/ (n \in old /\ meta.fi[n] = "requested")}

\* getCodAttention
CodAttention(old) == CodOwed /\ DeliveredBefore(old)

\* getReturnsAttention
ReturnsAttention(old) == {i \in Returns : ReceivedBefore(i, old)}

-----------------------------------------------------------------------------
(* Properties *)

All == Returns \cup Attempts
AtWork(x) == \E a \in Actors : InHand(a, x)

\* The goods of a return lie on hold: taken in, neither sold again nor written off.
OnHold(i) ==
    /\ moved[i]["to_qc_hold"] = 1
    /\ moved[i]["qc_hold_to_sellable"] = 0
    /\ moved[i]["qc_hold_to_damage"] = 0

\* Goods that lie on hold while nobody works on their return are both alerted on and listed
\* in the end, and so is cash that is owed for a delivered attempt; an alert on a return is
\* never about goods that are not on hold.  Only an intent that two handlers worked on at
\* once, or that lost a write, can go unseen.
OpenWorkSeen ==
    /\ \A i \in Returns \ disturbed :
          ~AtWork(i) =>
              /\ OnHold(i) <=> i \in ReturnsQcStuck(All)
              /\ OnHold(i) <=> i \in ReturnsAttention(All)
    /\ \A n \in Attempts \ disturbed :
          meta.fi[n] = "delivered" /\ CodOwed =>
              CodCapturePending(All) /\ CodAttention(All)

\* The fulfillment of order.placed was announced, has moved on, or somebody is told: of the
\* error by the dashboard, of a request that stays a request by the dashboard and an alert.
RequestSeen ==
    \/ announced[1] > 0
    \/ meta.fi[1] \notin {"none", "requested"}
    \/ OrdersAttention
    \/ 1 \in FulfillmentsAttention(All) \cap StuckFulfillments(All)

\* The handler of order.placed leaves an order that is seen in one of those ways, unless it
\* fails a second time while it notes the failure.  And an order that is seen stays so
\* through every write of the metadata by every flow, unless the data written is older than
\* the note or the request that it erases.  Both ways out are there in the code.
FailedRequestStaysSeen ==
    [][/\ known # "done" /\ known' = "done" => RequestSeen' \/ \E a \in Actors : NoteLost(a)
       /\ RequestSeen /\ ~RequestSeen' =>
            \E a \in Actors : At(a, "persist") /\ 1 \in Overwritten(a)]_vars
=============================================================================
