----------------------------- MODULE OrderFlows -----------------------------
(***************************************************************************)
(* One order whose fulfillment, returns, RTOs and exchanges are worked on  *)
(* by requests and event handlers at the same time. All of them keep their *)
(* state in order.metadata, which each reads as a whole and writes back as *)
(* a whole, and move stock and money in between: a query, a call to the    *)
(* inventory or payment module, the update of the order and the emission   *)
(* of an event are steps of their own, and any of them may fail.           *)
(*                                                                         *)
(* Left out: the idempotency log. An operation already logged is answered  *)
(* without a change, and no state machine leads back to a state, so a      *)
(* repeated operation changes nothing with or without its key; the key     *)
(* decides only whether the answer is an error.                            *)
(***************************************************************************)
EXTENDS OrderWorkflows, FiniteSets

CONSTANTS
    Returns, Rtos, Exchanges,   \* ids of return_intents_v1, rto_intents_v1, exchange_intents_v1
    Attempts,       \* fulfillment attempts, 1 is that of order.placed
    Actors,         \* requests and event handlers in flight
    OtherNotes,     \* reasons an administrator gives for a refund by hand
    None,
    InitialStock,   \* sellable units of the replacement before anything happens
    MaxOpen,        \* bound: intents of one order
    MaxWork,        \* bound: intents, overlaps and faults together
    MaxOverlaps,    \* bound: requests and handlers begun while another one is under way
    MaxRestocks,    \* bound: quality checks of one return passed
    MaxFaults       \* bound: failures and restarts

Intents == Returns \cup Rtos \cup Exchanges
Notes == Returns \cup OtherNotes

ASSUME OrderConstants ==
    /\ Returns \cap Rtos = {} /\ Returns \cap Exchanges = {} /\ Rtos \cap Exchanges = {}
    /\ Attempts \subseteq Nat \ {0} /\ 1 \in Attempts
    /\ Intents \cap Attempts = {}
    /\ Returns \cap OtherNotes = {}
    /\ None \notin Intents \cup Attempts \cup Notes
    /\ InitialStock \in Nat /\ MaxOpen \in Nat /\ MaxWork \in Nat /\ MaxOverlaps \in Nat /\ MaxRestocks \in Nat /\ MaxFaults \in Nat

VARIABLES
    meta,           \* order.metadata: fi (fulfillment_intents_v1) and the attempts whose history
                    \* has a delivery, fstate, fulfillment_last_error_v1, it (the other intents)
    cod,            \* the order is paid on delivery
    captured,       \* the COD payment was captured
    refunds,        \* refunds of the payment, by the note that identifies them
    stock,          \* levels of the inventory module
    refundEvents,   \* return.prepaid_refund_requested events not yet taken off the bus
    announced,      \* fulfillment.requested events emitted, by attempt
    known,          \* processedOrders of the order.placed subscriber
    actor,          \* what a request or handler has in hand
    moved,          \* history: movements carried out, by intent
    disturbed,      \* history: intents and attempts worked on twice at once, left half done,
                    \* or overwritten
    raced,          \* history: notes two actors were about to refund at once
    overbooked,     \* history: two reservations passed the availability check together
    overlaps, faults    \* bounds

orderVars == <<meta, cod, captured, refunds, stock, refundEvents, announced, known>>
vars == <<orderVars, actor, moved, disturbed, raced, overbooked, overlaps, faults>>

NoIntent == [state |-> "none", moves |-> {}, refund |-> "none"]

NoMetadata ==
    [fi |-> [n \in Attempts |-> "none"], fstate |-> "none", failed |-> FALSE, delivered |-> {},
     it |-> [i \in Intents |-> NoIntent]]

NoJob ==
    [pc |-> "idle", op |-> "none", i |-> None, n |-> None, note |-> None, todo |-> << >>,
     snap |-> NoMetadata]

Init ==
    /\ meta = NoMetadata
    /\ cod \in BOOLEAN
    /\ captured = FALSE
    /\ refunds = [note \in Notes |-> 0]
    /\ stock = [NoAdjustment EXCEPT !["sellable"] = InitialStock]
    /\ refundEvents = {}
    /\ announced = [n \in Attempts |-> 0]
    /\ known = "no"
    /\ actor = [a \in Actors |-> NoJob]
    /\ moved = [i \in Intents |-> [m \in Modes |-> 0]]
    /\ disturbed = {}
    /\ raced = {}
    /\ overbooked = FALSE
    /\ overlaps = 0
    /\ faults = 0

-----------------------------------------------------------------------------
(* What every handler does: begin, go on, write the metadata back, end. *)

At(a, pc) == actor[a].pc = pc
InHand(a, x) == actor[a].i = x \/ actor[a].n = x
Overlapped(a, x) == IF \E b \in Actors \ {a} : InHand(b, x) THEN {x} ELSE {}

\* What the order has, with one more.
Opening(x) ==
    {y \in Intents : y = x \/ meta.it[y].state # "none"}
        \cup {n \in Attempts : n = x \/ meta.fi[n] # "none"}

Room(x, trouble) ==
    LET open == Cardinality(Opening(x))
    IN  open <= MaxOpen /\ open + overlaps + faults + trouble <= MaxWork

Take(a, job) == actor' = [actor EXCEPT ![a] = job]
GoTo(a, pc) == actor' = [actor EXCEPT ![a].pc = pc]
End(a) == Take(a, NoJob)

\* What one more request adds to the overlaps.
Overlap == IF \E b \in Actors : ~At(b, "idle") THEN 1 ELSE 0

Begin(a, job) ==
    LET x == IF job.i # None THEN job.i ELSE job.n
    IN  /\ At(a, "idle")
        /\ overlaps + Overlap <= MaxOverlaps
        /\ Room(x, Overlap)
        /\ overlaps' = overlaps + Overlap
        /\ Take(a, job)
        /\ UNCHANGED faults

Quiet == UNCHANGED <<overlaps, faults>>

\* The intents that a write of what the actor has read takes back; the note of a failed
\* request stands for the first attempt.
Overwritten(a) ==
    {i \in Intents : actor[a].snap.it[i] # meta.it[i]}
        \cup {n \in Attempts : actor[a].snap.fi[n] # meta.fi[n]}
        \cup (IF meta.failed /\ ~actor[a].snap.failed THEN {1} ELSE {})

WriteBack(a, new) ==
    /\ At(a, "persist")
    /\ meta' = new
    /\ disturbed' = disturbed \cup Overwritten(a)
    /\ UNCHANGED <<cod, captured, refunds, stock, refundEvents, announced,
                   moved, raced, overbooked>>
    /\ Quiet

WriteNothing(a) ==
    /\ At(a, "persist")
    /\ UNCHANGED <<meta, cod, captured, refunds, stock, refundEvents, announced,
                   moved, disturbed, raced, overbooked>>
    /\ Quiet

CodCaptured == cod /\ captured

\* A request for an operation on an intent, past the checks of that operation.
Admit(a, i, op, pc, note) ==
    /\ Begin(a, [NoJob EXCEPT !.pc = pc, !.op = op, !.i = i, !.note = note, !.snap = meta])
    /\ disturbed' = disturbed \cup Overlapped(a, i)
    /\ UNCHANGED <<orderVars, moved, raced, overbooked>>

-----------------------------------------------------------------------------
(* Returns *)

ReturnRequest(a, i) ==
    /\ meta.it[i].state = "none"
    /\ Admit(a, i, "return_request", "persist", None)

ReturnTransition(a, i, op, pc, note) ==
    /\ meta.it[i].state # "none"
    /\ Target[op] \in ReturnNext[meta.it[i].state]
    /\ Admit(a, i, op, pc, note)

ReturnApprove(a, i) == ReturnTransition(a, i, "return_approve", "persist", None)
ReturnReceive(a, i) == ReturnTransition(a, i, "return_receive", "move", None)
\* Mutant: the refund is asked for, and the goods are not put back into stock.
ReturnQcPass_NoMove(a, i, note) ==
    /\ moved[i]["qc_hold_to_sellable"] < MaxRestocks
    /\ ReturnTransition(a, i, "return_qc_pass", "refund", note)

ReturnQcPass(a, i, note) ==
    /\ moved[i]["qc_hold_to_sellable"] < MaxRestocks
    /\ ReturnTransition(a, i, "return_qc_pass", "move", note)
ReturnQcFail(a, i) == ReturnTransition(a, i, "return_qc_fail", "move", None)
ReturnClose(a, i) == ReturnTransition(a, i, "return_close", "persist", None)

\* applyInventoryMovement: the stock is adjusted before anything is stored.
Adjust(a, adjustment, pc) ==
    /\ At(a, "move")
    /\ stock' = [b \in Buckets |-> stock[b] + adjustment[b]]
    /\ moved' = [moved EXCEPT ![actor[a].i][Movement[actor[a].op]] = @ + 1]
    /\ GoTo(a, pc)
    /\ UNCHANGED <<meta, cod, captured, refunds, refundEvents, announced, known,
                   disturbed, raced, overbooked>>
    /\ Quiet

MoveForReturn(a) ==
    /\ actor[a].i \in Returns
    /\ Adjust(a, ReturnAdjustment(Movement[actor[a].op]),
              IF actor[a].op = "return_qc_pass" THEN "refund" ELSE "persist")

\* The amount and the note identify a refund; every request of the model is for one amount.
AboutToRefund(a, note) ==
    raced' = IF \E b \in Actors \ {a} : At(b, "refunding") /\ actor[b].note = note
             THEN raced \cup {note} ELSE raced

\* recordCodRefundWorkflow inside the quality check: it reads the order again.
RecordCodRefund(a) ==
    /\ At(a, "refund") /\ actor[a].op = "return_qc_pass"
    /\ CodCaptured
    /\ IF refunds[actor[a].note] > 0
       THEN GoTo(a, "persist") /\ UNCHANGED raced
       ELSE GoTo(a, "refunding") /\ AboutToRefund(a, actor[a].note)
    /\ UNCHANGED <<orderVars, moved, disturbed, overbooked>>
    /\ Quiet

\* COD_PAYMENT_NOT_CAPTURED ends the request, with the stock already moved.
CodRefundRejected(a) ==
    /\ At(a, "refund") /\ actor[a].op = "return_qc_pass"
    /\ cod /\ ~captured
    /\ End(a)
    /\ disturbed' = disturbed \cup {actor[a].i}
    /\ UNCHANGED <<orderVars, moved, raced, overbooked>>
    /\ Quiet

\* A prepaid refund is only asked for, before the return itself is stored.
RequestPrepaidRefund(a) ==
    /\ At(a, "refund") /\ actor[a].op = "return_qc_pass"
    /\ ~cod
    /\ refundEvents' = refundEvents \cup {actor[a].i}
    /\ GoTo(a, "persist")
    /\ UNCHANGED <<meta, cod, captured, refunds, stock, announced, known,
                   moved, disturbed, raced, overbooked>>
    /\ Quiet

RefundPayment(a) ==
    /\ At(a, "refunding")
    /\ refunds' = [refunds EXCEPT ![actor[a].note] = @ + 1]
    /\ IF actor[a].op = "cod_refund" THEN End(a) ELSE GoTo(a, "persist")
    /\ UNCHANGED <<meta, cod, captured, stock, refundEvents, announced, known,
                   moved, disturbed, raced, overbooked>>
    /\ Quiet

\* Mutant: a new return is given the state of an approved refund.
NewReturn_Accepted == [NoIntent EXCEPT !.state = "requested", !.refund = "accepted"]

NewReturn == [NoIntent EXCEPT !.state = "requested", !.refund = "pending"]

ReturnAfter(it, op) ==
    CASE op = "return_request" -> NewReturn
      [] op = "return_qc_pass" ->
            [state |-> IF cod THEN "refunded" ELSE "qc_passed",
             moves |-> it.moves \cup MovesOf(op),
             refund |-> IF cod THEN "recorded" ELSE "requested"]
      [] OTHER -> [it EXCEPT !.state = Target[op], !.moves = @ \cup MovesOf(op)]

PersistReturn(a) ==
    LET i == actor[a].i
        snap == actor[a].snap
    IN  /\ i \in Returns
        /\ actor[a].op # "prepaid_refund"
        /\ WriteBack(a, [snap EXCEPT !.it[i] = ReturnAfter(snap.it[i], actor[a].op)])
        /\ End(a)
        /\ UNCHANGED known

\* Mutant: the payment is not searched for the refund.
HasMatchingRefund_NoSearch(i) == FALSE

\* The refunds of the prepaid payment are searched for the reference of the return.
HasMatchingRefund(i) == refunds[i] > 0

\* return.prepaid_refund_requested may be delivered again.
PrepaidRefundRequested(a, i) ==
    /\ i \in refundEvents
    /\ refundEvents' \in {refundEvents, refundEvents \ {i}}
    /\ IF HasMatchingRefund(i)
       THEN Begin(a, NoJob) /\ UNCHANGED <<raced, disturbed>>
       ELSE /\ Begin(a, [NoJob EXCEPT !.pc = "refunding", !.op = "prepaid_refund",
                                      !.i = i, !.note = i, !.snap = meta])
            /\ AboutToRefund(a, i)
            /\ disturbed' = disturbed \cup Overlapped(a, i)
    /\ UNCHANGED <<meta, cod, captured, refunds, stock, announced, known, moved, overbooked>>

\* updateReturnRefundState writes the metadata read before the refund, if it has the return.
UpdateReturnRefundState(a) ==
    LET i == actor[a].i
        snap == actor[a].snap
        known_return == snap.it[i].state # "none"
    IN  /\ actor[a].op = "prepaid_refund"
        /\ IF known_return THEN WriteBack(a, [snap EXCEPT !.it[i].refund = "recorded"])
           ELSE WriteNothing(a)
        /\ End(a)
        /\ UNCHANGED known

-----------------------------------------------------------------------------
(* Returns to origin *)

RtoInitiate(a, i) ==
    /\ ~CodCaptured
    /\ meta.it[i].state = "none"
    /\ Admit(a, i, "rto_initiate", "persist", None)

\* Mutant: the state of the RTO is not looked at.
RtoTransition_AnyState(a, i, op, pc) ==
    /\ meta.it[i].state # "none"
    /\ Admit(a, i, op, pc, None)

RtoTransition(a, i, op, pc) ==
    /\ meta.it[i].state # "none"
    /\ Target[op] \in RtoNext[meta.it[i].state]
    /\ Admit(a, i, op, pc, None)

RtoReceive(a, i) == RtoTransition(a, i, "rto_receive", "move")
RtoQcPass(a, i) == ~CodCaptured /\ RtoTransition(a, i, "rto_qc_pass", "move")
RtoQcFail(a, i) == ~CodCaptured /\ RtoTransition(a, i, "rto_qc_fail", "move")
RtoClose(a, i) == RtoTransition(a, i, "rto_close", "persist")

MoveForRto(a) ==
    /\ actor[a].i \in Rtos
    /\ Adjust(a, RtoAdjustment(Movement[actor[a].op]), "persist")

NewRto == [NoIntent EXCEPT !.state = "initiated"]

RtoAfter(it, op) ==
    IF op = "rto_initiate" THEN NewRto
    ELSE [it EXCEPT !.state = Target[op], !.moves = @ \cup MovesOf(op)]

PersistRto(a) ==
    LET i == actor[a].i
        snap == actor[a].snap
    IN  /\ i \in Rtos
        /\ WriteBack(a, [snap EXCEPT !.it[i] = RtoAfter(snap.it[i], actor[a].op)])
        /\ End(a)
        /\ UNCHANGED known

-----------------------------------------------------------------------------
(* Exchanges *)

ExchangeRequest(a, i) ==
    /\ meta.it[i].state = "none"
    /\ Admit(a, i, "exchange_request", "persist", None)

ExchangeTransition(a, i, op, pc) ==
    /\ meta.it[i].state # "none"
    /\ Target[op] \in ExchangeNext[meta.it[i].state]
    /\ Admit(a, i, op, pc, None)

ExchangeApprove(a, i) == ExchangeTransition(a, i, "exchange_approve", "persist")
ExchangeReceiveReturn(a, i) == ExchangeTransition(a, i, "exchange_receive_return", "move")
\* Mutant: the stock of the replacement is not checked.
ExchangeReserveReplacement_Unchecked(a, i) ==
    ExchangeTransition(a, i, "exchange_reserve_replacement", "move")

ExchangeReserveReplacement(a, i) ==
    ExchangeTransition(a, i, "exchange_reserve_replacement", "check")
ExchangeShipReplacement(a, i) == ExchangeTransition(a, i, "exchange_ship_replacement", "move")
ExchangeClose(a, i) == ExchangeTransition(a, i, "exchange_close", "persist")

Reserving(a) == At(a, "move") /\ actor[a].op = "exchange_reserve_replacement"

\* The replacement must be available; the stock is adjusted in a later call.
AssertReplacementAvailability(a) ==
    /\ At(a, "check")
    /\ IF stock["sellable"] >= 1
       THEN /\ GoTo(a, "move")
            /\ overbooked' = (overbooked \/ \E b \in Actors : Reserving(b))
       ELSE End(a) /\ UNCHANGED overbooked
    /\ UNCHANGED <<orderVars, moved, disturbed, raced>>
    /\ Quiet

MoveForExchange(a) ==
    /\ actor[a].i \in Exchanges
    /\ Adjust(a, ExchangeAdjustment(Movement[actor[a].op]), "persist")

NewExchange == [NoIntent EXCEPT !.state = "requested"]

ExchangeAfter(it, op) ==
    IF op = "exchange_request" THEN NewExchange
    ELSE [it EXCEPT !.state = Target[op], !.moves = @ \cup MovesOf(op)]

PersistExchange(a) ==
    LET i == actor[a].i
        snap == actor[a].snap
    IN  /\ i \in Exchanges
        /\ WriteBack(a, [snap EXCEPT !.it[i] = ExchangeAfter(snap.it[i], actor[a].op)])
        /\ End(a)
        /\ UNCHANGED known

-----------------------------------------------------------------------------
(* Cash on delivery, by an administrator *)

CaptureRequested(a) ==
    /\ cod /\ ~captured
    /\ Begin(a, [NoJob EXCEPT !.pc = "capture", !.op = "cod_capture"])
    /\ UNCHANGED <<orderVars, moved, disturbed, raced, overbooked>>

CaptureCodPayment(a) ==
    /\ At(a, "capture")
    /\ captured' = TRUE
    /\ End(a)
    /\ UNCHANGED <<meta, cod, refunds, stock, refundEvents, announced, known,
                   moved, disturbed, raced, overbooked>>
    /\ Quiet

\* recordCodRefundWorkflow on its own; a refund recorded before is answered without a change.
CodRefund(a, note) ==
    /\ CodCaptured
    /\ refunds[note] = 0
    /\ Begin(a, [NoJob EXCEPT !.pc = "refunding", !.op = "cod_refund", !.note = note])
    /\ AboutToRefund(a, note)
    /\ UNCHANGED <<orderVars, moved, disturbed, overbooked>>

-----------------------------------------------------------------------------
(* Fulfillment requests *)

Tried(m) == {n \in Attempts : m.fi[n] # "none"}

\* The latest attempt, if there is one.
Latest(m) == {n \in Tried(m) : \A k \in Tried(m) : k <= n}

Requesting == {"order_placed", "retry", "rebuild"}

\* A handler or request for an attempt of the fulfillment. What fulfillmentRequestWorkflow
\* reads itself is not read here.
AdmitAttempt(a, n, op, pc) ==
    /\ Begin(a, [NoJob EXCEPT !.pc = pc, !.op = op, !.n = n,
                              !.snap = IF pc = "persist" THEN meta ELSE @])
    /\ disturbed' = disturbed \cup Overlapped(a, n)
    /\ UNCHANGED <<meta, cod, captured, refunds, stock, refundEvents, announced,
                   moved, raced, overbooked>>

\* order.placed may be delivered any number of times; five minutes after its handler is done
\* the order is forgotten, and until then a delivery changes nothing.
OrderPlaced(a) ==
    /\ known # "busy"
    /\ known' = "busy"
    /\ AdmitAttempt(a, 1, "order_placed", "request")

RetryFulfillment(a) ==
    /\ \E n \in Attempts :
        /\ IF Tried(meta) = {} THEN n = 1
           ELSE \E k \in Latest(meta) : meta.fi[k] # "requested" /\ n = k + 1
        /\ AdmitAttempt(a, n, "retry", "request")
    /\ UNCHANGED known

RebuildShipmentContract(a) ==
    /\ IF Tried(meta) = {}
       THEN AdmitAttempt(a, 1, "rebuild", "request")
       ELSE \E n \in Latest(meta) : AdmitAttempt(a, n, "contract", "persist")
    /\ UNCHANGED known

\* The end of fulfillmentRequestWorkflow goes back to whoever called it.
Requested(a) ==
    IF actor[a].op = "rebuild" THEN GoTo(a, "reread") /\ UNCHANGED known
    ELSE End(a) /\ known' = IF actor[a].op = "order_placed" THEN "done" ELSE known

\* Mutant: an intent that exists is requested again.
RequestFulfillment_Again(a) ==
    /\ At(a, "request")
    /\ Take(a, [actor[a] EXCEPT !.pc = "persist", !.snap = meta])
    /\ UNCHANGED <<orderVars, moved, disturbed, raced, overbooked>>
    /\ Quiet

RequestFulfillment(a) ==
    /\ At(a, "request")
    /\ IF meta.fi[actor[a].n] # "none" THEN Requested(a)
       ELSE /\ Take(a, [actor[a] EXCEPT !.pc = "persist", !.snap = meta])
            /\ UNCHANGED known
    /\ UNCHANGED <<meta, cod, captured, refunds, stock, refundEvents, announced,
                   moved, disturbed, raced, overbooked>>
    /\ Quiet

PersistFulfillmentRequest(a) ==
    /\ actor[a].op \in Requesting
    /\ WriteBack(a, [actor[a].snap EXCEPT !.fi[actor[a].n] = "requested",
                                          !.fstate = "requested"])
    /\ Take(a, [actor[a] EXCEPT !.pc = "emit", !.snap = NoMetadata])
    /\ UNCHANGED known

EmitFulfillmentRequested(a) ==
    /\ At(a, "emit")
    /\ announced' = [announced EXCEPT ![actor[a].n] = @ + 1]
    /\ Requested(a)
    /\ UNCHANGED <<meta, cod, captured, refunds, stock, refundEvents,
                   moved, disturbed, raced, overbooked>>
    /\ Quiet

\* The rebuild reads the order again after a request, to compare the two summaries.
RereadForRebuild(a) ==
    /\ At(a, "reread")
    /\ \/ End(a) /\ UNCHANGED disturbed
       \/ \E n \in Latest(meta) :
            /\ Take(a, [actor[a] EXCEPT !.pc = "persist", !.op = "contract",
                                        !.n = n, !.snap = meta])
            /\ disturbed' = disturbed \cup Overlapped(a, n)
    /\ UNCHANGED <<orderVars, moved, raced, overbooked>>
    /\ Quiet

\* Only the summary of the contract is new, which is not part of the model.
PersistContract(a) ==
    /\ actor[a].op = "contract"
    /\ WriteBack(a, actor[a].snap)
    /\ End(a)
    /\ UNCHANGED known

\* After a failure the order.placed handler notes it in the metadata, read again for that.
ReadForPending(a) ==
    /\ At(a, "failed")
    /\ Take(a, [actor[a] EXCEPT !.pc = "persist", !.op = "mark_pending", !.snap = meta])
    /\ UNCHANGED <<orderVars, moved, disturbed, raced, overbooked>>
    /\ Quiet

\* Mutant: the failure is noted in a copy of the metadata that is not stored.
MarkFulfillmentPending_NotStored(a) ==
    /\ actor[a].op = "mark_pending"
    /\ WriteNothing(a)
    /\ End(a)
    /\ known' = "done"

MarkFulfillmentPending(a) ==
    /\ actor[a].op = "mark_pending"
    /\ WriteBack(a, [actor[a].snap EXCEPT !.fstate = "pending", !.failed = TRUE])
    /\ End(a)
    /\ known' = "done"

-----------------------------------------------------------------------------
(* Fulfillment status *)

\* Mutant: a target is stored whatever the status is.
Try_Unchecked(job) ==
    IF job.todo = << >> \/ meta.fi[job.n] = "none" THEN NoJob
    ELSE [job EXCEPT !.pc = "persist", !.snap = meta]

\* One target: the order is read, and without an intent the handler stops. A target that is
\* not allowed is skipped, or ends the request of an administrator, who has just one.
Try(job) ==
    LET from == meta.fi[job.n]
    IN  IF job.todo = << >> \/ from = "none" THEN NoJob
        ELSE IF Head(job.todo) \in FulfillmentNext[from]
        THEN [job EXCEPT !.pc = "persist", !.snap = meta]
        ELSE [job EXCEPT !.pc = "status", !.todo = Tail(@)]

\* A request or an event for a target: the order is read for the first time.
StatusAsked(a, n, targets) ==
    /\ meta.fi[n] # "none"
    /\ Tail(targets) # << >> \/ Head(targets) \in FulfillmentNext[meta.fi[n]]
    /\ Begin(a, Try([NoJob EXCEPT !.op = "status", !.n = n, !.todo = targets]))
    /\ disturbed' = disturbed \cup Overlapped(a, n)
    /\ UNCHANGED <<orderVars, moved, raced, overbooked>>

AdminStatus(a, n, to) == StatusAsked(a, n, <<to>>)
ShippingStatusUpdated(a, n, s) == StatusAsked(a, n, CascadeTargets(StatusMap[s]))

TransitionFulfillmentStatus(a) ==
    /\ At(a, "status")
    /\ Take(a, Try(actor[a]))
    /\ UNCHANGED <<orderVars, moved, disturbed, raced, overbooked>>
    /\ Quiet

\* Mutant: fulfillment_state_v1 keeps the status before.
PersistStatus_StateKept(a) ==
    LET to == Head(actor[a].todo)
    IN  /\ actor[a].op = "status"
        /\ WriteBack(a, [actor[a].snap EXCEPT !.fi[actor[a].n] = to,
                    !.delivered = IF to = "delivered" THEN @ \cup {actor[a].n} ELSE @])
        /\ Take(a, [actor[a] EXCEPT !.pc = "status", !.todo = Tail(@), !.snap = NoMetadata])
        /\ UNCHANGED known

PersistStatus(a) ==
    LET to == Head(actor[a].todo)
    IN  /\ actor[a].op = "status"
        /\ WriteBack(a, [actor[a].snap EXCEPT !.fi[actor[a].n] = to, !.fstate = to,
                    !.delivered = IF to = "delivered" THEN @ \cup {actor[a].n} ELSE @])
        /\ Take(a, [actor[a] EXCEPT !.pc = "status", !.todo = Tail(@),
                                      !.snap = NoMetadata])
        /\ UNCHANGED known

-----------------------------------------------------------------------------
(* Failures *)

\* The stock is adjusted, and the transition that goes with it is not stored.
HalfDone(a) ==
    IF actor[a].pc \in {"refund", "refunding", "persist"} /\ MovesOf(actor[a].op) # {}
    THEN {actor[a].i} ELSE {}

\* A call of the handler fails. The order.placed handler forgets to clean up when it cannot
\* emit its own event. When the request for the fulfillment fails it goes on to note that, and
\* when that fails it ends all the same.
Fail(a) ==
    LET job == actor[a]
        noting == job.pc = "failed" \/ job.op = "mark_pending"
    IN  /\ job.pc # "idle"
        /\ faults < MaxFaults /\ Room(None, 1)
        /\ faults' = faults + 1
        /\ disturbed' = disturbed \cup HalfDone(a)
        /\ \/ /\ job.op = "order_placed" /\ ~noting
              /\ Take(a, [job EXCEPT !.pc = "failed", !.snap = NoMetadata])
              /\ UNCHANGED known
           \/ /\ job.op = "order_placed" => job.pc \in {"request", "failed"}
              /\ End(a)
              /\ known' = IF noting THEN "done" ELSE known
        /\ UNCHANGED <<meta, cod, captured, refunds, stock, refundEvents, announced,
                       moved, raced, overbooked, overlaps>>

\* The note of a failed request is not stored: its read or its write fails, which
\* the handler of order.placed logs and nothing else.
NoteLost(a) ==
    /\ At(a, "failed") \/ actor[a].op = "mark_pending"
    /\ Fail(a)

Restart ==
    /\ faults < MaxFaults /\ Room(None, 1)
    /\ faults' = faults + 1
    /\ actor' = [a \in Actors |-> NoJob]
    /\ known' = "no"
    /\ disturbed' = disturbed \cup UNION {HalfDone(a) : a \in Actors}
    /\ UNCHANGED <<meta, cod, captured, refunds, stock, refundEvents, announced,
                   moved, raced, overbooked, overlaps>>

-----------------------------------------------------------------------------
\* The routes of the administrators and the events, by what they work on.
ReturnRoute(a) ==
    \E i \in Returns :
        \/ ReturnRequest(a, i) \/ ReturnApprove(a, i) \/ ReturnReceive(a, i)
        \/ \E note \in {i} \cup OtherNotes : ReturnQcPass(a, i, note)
        \/ ReturnQcFail(a, i) \/ ReturnClose(a, i)
        \/ PrepaidRefundRequested(a, i)

RtoRoute(a) ==
    \E i \in Rtos :
        RtoInitiate(a, i) \/ RtoReceive(a, i) \/ RtoQcPass(a, i) \/ RtoQcFail(a, i)
            \/ RtoClose(a, i)

ExchangeRoute(a) ==
    \E i \in Exchanges :
        \/ ExchangeRequest(a, i) \/ ExchangeApprove(a, i) \/ ExchangeReceiveReturn(a, i)
        \/ ExchangeReserveReplacement(a, i) \/ ExchangeShipReplacement(a, i)
        \/ ExchangeClose(a, i)

PaymentRoute(a) == CaptureRequested(a) \/ \E note \in OtherNotes : CodRefund(a, note)

FulfillmentRoute(a) ==
    \/ OrderPlaced(a) \/ RetryFulfillment(a) \/ RebuildShipmentContract(a)
    \/ \E n \in Attempts :
        \/ \E to \in FulfillmentStatus : AdminStatus(a, n, to)
        \/ \E s \in DOMAIN StatusMap : ShippingStatusUpdated(a, n, s)

\* An actor is free, and the bounds allow one more.
Asked(a) ==
    /\ At(a, "idle")
    /\ overlaps + Overlap <= MaxOverlaps
    /\ Room(None, Overlap)
    /\ ReturnRoute(a) \/ RtoRoute(a) \/ ExchangeRoute(a) \/ PaymentRoute(a) \/ FulfillmentRoute(a)

\* The next call of what is under way.
Proceed(a) ==
    /\ ~At(a, "idle")
    /\ \/ MoveForReturn(a) \/ RecordCodRefund(a) \/ CodRefundRejected(a)
       \/ RequestPrepaidRefund(a) \/ PersistReturn(a) \/ UpdateReturnRefundState(a)
       \/ MoveForRto(a) \/ PersistRto(a)
       \/ AssertReplacementAvailability(a) \/ MoveForExchange(a) \/ PersistExchange(a)
       \/ CaptureCodPayment(a) \/ RefundPayment(a)
       \/ RequestFulfillment(a) \/ PersistFulfillmentRequest(a) \/ EmitFulfillmentRequested(a)
       \/ RereadForRebuild(a) \/ PersistContract(a)
       \/ ReadForPending(a) \/ MarkFulfillmentPending(a)
       \/ TransitionFulfillmentStatus(a) \/ PersistStatus(a)

Next ==
    \/ \E a \in Actors : Asked(a) \/ Proceed(a) \/ Fail(a)
    \/ Restart

Spec == Init /\ [][Next]_vars
-----------------------------------------------------------------------------
(* Properties *)

Intent ==
    [state : {"none"} \cup DOMAIN ReturnNext \cup DOMAIN RtoNext \cup DOMAIN ExchangeNext,
     moves : SUBSET Modes,
     refund : {"none", "pending", "requested", "recorded"}]

Metadata ==
    [fi : [Attempts -> {"none"} \cup FulfillmentStatus],
     fstate : {"none", "pending"} \cup FulfillmentStatus,
     failed : BOOLEAN, delivered : SUBSET Attempts,
     it : [Intents -> Intent]]

Job ==
    [pc : {"idle", "move", "check", "refund", "refunding", "persist", "capture", "request",
           "emit", "reread", "failed", "status"},
     op : {"none", "return_request", "rto_initiate", "exchange_request", "prepaid_refund",
           "cod_capture", "cod_refund", "contract", "mark_pending", "status"}
            \cup Requesting \cup DOMAIN Target,
     i : Intents \cup {None}, n : Attempts \cup {None}, note : Notes \cup {None},
     todo : Seq(FulfillmentStatus), snap : Metadata]

TypeOK ==
    /\ meta \in Metadata
    /\ cod \in BOOLEAN /\ captured \in BOOLEAN
    /\ refunds \in [Notes -> Nat]
    /\ stock \in [Buckets -> Int]
    /\ refundEvents \subseteq Returns
    /\ announced \in [Attempts -> Nat]
    /\ known \in {"no", "busy", "done"}
    /\ actor \in [Actors -> Job]
    /\ moved \in [Intents -> [Modes -> Nat]]
    /\ disturbed \subseteq Intents \cup Attempts
    /\ raced \subseteq Notes
    /\ overbooked \in BOOLEAN
    /\ overlaps \in 0..MaxOverlaps /\ faults \in 0..MaxFaults

\* The movements an intent records, or is about to: an actor has adjusted the stock and is
\* on its way to store the transition.
Recorded(i) ==
    LET moving == {a \in Actors : actor[a].i = i
                                     /\ actor[a].pc \in {"refund", "refunding", "persist"}}
    IN  meta.it[i].moves \cup UNION {MovesOf(actor[a].op) : a \in moving}

\* However the handlers of an order interleave, and although each of them overwrites the
\* metadata of all of them: a movement of stock is carried out once if the intent records it
\* or an actor is about to record it, and never otherwise, as long as no two actors worked on
\* that very intent at once, none stopped between the two, and none took its record back.
StockMovedOnce ==
    \A i \in Intents \ disturbed :
        LET recorded == Recorded(i)
        IN  \A m \in Modes : moved[i][m] = IF m \in recorded THEN 1 ELSE 0

\* Goods become sellable again only when they came back and were not written off: an intent
\* that nothing disturbed has put into stock what it had put on hold, and nothing in damage.
RestockNeedsPass ==
    \A i \in (Returns \cup Rtos) \ disturbed :
        moved[i]["qc_hold_to_sellable"] > 0 =>
            /\ moved[i]["to_qc_hold"] = 1
            /\ moved[i]["qc_hold_to_damage"] = 0

\* No money goes back before the goods: a refund that names a return, and a return that says
\* its refund is recorded, both come after its goods passed the quality check, and a recorded
\* refund exists at the payment module, whatever failed or was overwritten.
RefundsBacked ==
    \A i \in Returns :
        /\ refunds[i] > 0 => moved[i]["qc_hold_to_sellable"] > 0
        /\ meta.it[i].refund = "recorded" =>
            /\ moved[i]["qc_hold_to_sellable"] > 0
            /\ IF cod THEN \E note \in {i} \cup OtherNotes : refunds[note] > 0
               ELSE refunds[i] > 0

\* A redelivered event, a second request, a request after a failure or a restart: money goes
\* back twice under a note only when two actors were about to refund it at the same time,
\* each having looked for the other's refund before it was there.
RefundedOncePerNote == \A note \in Notes : refunds[note] > 1 => note \in raced

\* An attempt is announced to the fulfillment at most once, by order.placed delivered again,
\* retried or rebuilt by an administrator, unless two of those worked on it at once or the
\* intent was overwritten.
AnnouncedOnce == \A n \in Attempts \ disturbed : announced[n] <= 1

\* fulfillment_state_v1 is the status of an intent or the note of a failed request, and the
\* order never loses the intent it shows while other handlers overwrite the metadata.
ShownStatusIsAnIntents ==
    meta.fstate \in {"none", "pending"} \/ \E n \in Attempts : meta.fi[n] = meta.fstate

\* Exchanges reserve no more than there is, unless two of them pass the availability check
\* before one has taken its unit.
SellableNotNegative == stock["sellable"] >= 0 \/ overbooked

\* The states an intent may go to; a return for which cash is refunded by hand of the quality
\* check passes it and is refunded in one step.
LegalChange(i, s, t) ==
    \/ s = t
    \/ s = "none" /\ t = IF i \in Rtos THEN "initiated" ELSE "requested"
    \/ s # "none" /\ t # "none"
        /\ IF i \in Returns THEN t \in ReturnNext[s] \/ (cod /\ s = "received" /\ t = "refunded")
           ELSE IF i \in Rtos THEN t \in RtoNext[s] ELSE t \in ExchangeNext[s]

LegalAttemptChange(s, t) ==
    \/ s = t
    \/ s = "none" /\ t = "requested"
    \/ s # "none" /\ t # "none" /\ t \in FulfillmentNext[s]

\* A write of the whole metadata moves no intent along a way its state machine does not have,
\* however old the data it was made from, except by taking back what others have stored.
LegalUnlessDisturbed ==
    [][/\ \A i \in Intents \ disturbed' : LegalChange(i, meta.it[i].state, meta'.it[i].state)
       /\ \A n \in Attempts \ disturbed' : LegalAttemptChange(meta.fi[n], meta'.fi[n])]_vars

\* Stock is moved once however often the same request is repeated.
RestockedOnce == \A i \in Returns : moved[i]["qc_hold_to_sellable"] <= 1
=============================================================================
