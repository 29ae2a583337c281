-------------------------- MODULE OrderFlowsProofs --------------------------
(***************************************************************************)
(* What holds of an order for any number of intents, attempts, requests,   *)
(* handlers, failures and restarts, although every one of them overwrites  *)
(* the metadata of all of them.                                            *)
(*                                                                         *)
(* Each step is first shown to be of one of a few kinds (Job, Move, Pay,   *)
(* Write, Restart), described by what it does to the job in hand and to    *)
(* the order. Every part of the invariant is then proved from the kinds.   *)
(***************************************************************************)
EXTENDS OrderFlows, TLAPS

-----------------------------------------------------------------------------
(* What an actor has in hand, and what the metadata may hold. *)

ReturnOps ==
    {"return_approve", "return_receive", "return_qc_pass", "return_qc_fail", "return_close"}
RtoOps == {"rto_receive", "rto_qc_pass", "rto_qc_fail", "rto_close"}
ExchangeOps ==
    {"exchange_approve", "exchange_receive_return", "exchange_reserve_replacement",
     "exchange_ship_replacement", "exchange_close"}

\* The transition tables by operation: what an operation finds.
ReturnLegal(op, s) ==
    \/ op = "return_approve" /\ s = "requested"
    \/ op = "return_receive" /\ s = "approved"
    \/ op \in {"return_qc_pass", "return_qc_fail"} /\ s = "received"
    \/ op = "return_close" /\ s \in {"qc_passed", "qc_failed", "refunded"}

RtoLegal(op, s) ==
    \/ op = "rto_receive" /\ s = "initiated"
    \/ op \in {"rto_qc_pass", "rto_qc_fail"} /\ s = "received"
    \/ op = "rto_close" /\ s \in {"qc_passed", "qc_failed"}

ExchangeLegal(op, s) ==
    \/ op = "exchange_approve" /\ s = "requested"
    \/ op = "exchange_receive_return" /\ s = "approved"
    \/ op = "exchange_reserve_replacement" /\ s = "return_received"
    \/ op = "exchange_ship_replacement" /\ s = "replacement_reserved"
    \/ op = "exchange_close" /\ s \in {"replacement_shipped", "delivered"}

\* The movements an intent records go with its state.
Passed == {"to_qc_hold", "qc_hold_to_sellable"}
Failed == {"to_qc_hold", "qc_hold_to_damage"}

GoodReturn(it) ==
    \/ it.state \in {"none", "requested", "approved"} /\ it.moves = {}
    \/ it.state = "received" /\ it.moves = {"to_qc_hold"}
    \/ it.state \in {"qc_passed", "refunded"} /\ it.moves = Passed
    \/ it.state = "qc_failed" /\ it.moves = Failed
    \/ it.state = "closed" /\ it.moves \in {Passed, Failed}

GoodRto(it) ==
    \/ it.state \in {"none", "initiated"} /\ it.moves = {}
    \/ it.state = "received" /\ it.moves = {"to_qc_hold"}
    \/ it.state = "qc_passed" /\ it.moves = Passed
    \/ it.state = "qc_failed" /\ it.moves = Failed
    \/ it.state = "closed" /\ it.moves \in {Passed, Failed}

Received == {"return_to_qc_hold"}
Reserved == Received \cup {"reserve_replacement"}
Shipped == Reserved \cup {"ship_replacement"}

GoodExchange(it) ==
    \/ it.state \in {"none", "requested", "approved"} /\ it.moves = {}
    \/ it.state = "return_received" /\ it.moves = Received
    \/ it.state = "replacement_reserved" /\ it.moves = Reserved
    \/ it.state \in {"replacement_shipped", "delivered", "closed"} /\ it.moves = Shipped

\* The parts of the metadata agree with each other, in the order and in every copy.
GoodMeta(m) ==
    /\ \A i \in Returns : GoodReturn(m.it[i])
    /\ \A i \in Rtos : GoodRto(m.it[i])
    /\ \A i \in Exchanges : GoodExchange(m.it[i])
    /\ m.fstate \in {"none", "pending"} \/ \E n \in Attempts : m.fi[n] = m.fstate
    /\ \A n \in Attempts : m.fi[n] = "delivered" => n \in m.delivered
    /\ m.fstate = "pending" => m.failed

\* A job on an intent: the operation goes with the state the actor has read.
ReturnJob(j) ==
    LET s == j.snap.it[j.i].state
    IN  /\ j.n = None
        /\ \/ j.op = "return_request" /\ j.pc = "persist" /\ s = "none"
           \/ j.op \in {"return_approve", "return_close"} /\ j.pc = "persist"
                  /\ ReturnLegal(j.op, s)
           \/ j.op \in {"return_receive", "return_qc_fail"} /\ j.pc \in {"move", "persist"}
                  /\ ReturnLegal(j.op, s)
           \/ /\ j.op = "return_qc_pass" /\ j.pc \in {"move", "refund", "refunding", "persist"}
              /\ ReturnLegal(j.op, s)
              /\ j.note \in {j.i} \cup OtherNotes
           \/ j.op = "prepaid_refund" /\ j.pc \in {"refunding", "persist"} /\ j.note = j.i

RtoJob(j) ==
    LET s == j.snap.it[j.i].state
    IN  /\ j.n = None
        /\ \/ j.op = "rto_initiate" /\ j.pc = "persist" /\ s = "none"
           \/ j.op = "rto_close" /\ j.pc = "persist" /\ RtoLegal(j.op, s)
           \/ j.op \in {"rto_receive", "rto_qc_pass", "rto_qc_fail"}
                  /\ j.pc \in {"move", "persist"} /\ RtoLegal(j.op, s)

ExchangeJob(j) ==
    LET s == j.snap.it[j.i].state
    IN  /\ j.n = None
        /\ \/ j.op = "exchange_request" /\ j.pc = "persist" /\ s = "none"
           \/ j.op \in {"exchange_approve", "exchange_close"} /\ j.pc = "persist"
                  /\ ExchangeLegal(j.op, s)
           \/ j.op \in {"exchange_receive_return", "exchange_ship_replacement"}
                  /\ j.pc \in {"move", "persist"} /\ ExchangeLegal(j.op, s)
           \/ j.op = "exchange_reserve_replacement" /\ j.pc \in {"check", "move", "persist"}
                  /\ ExchangeLegal(j.op, s)

\* A job on an attempt.
AttemptJob(j) ==
    LET s == j.snap.fi[j.n]
    IN  /\ j.i = None
        /\ \/ /\ j.op \in Requesting
              /\ j.op = "order_placed" => j.n = 1
              /\ \/ j.pc \in {"request", "emit"}
                 \/ j.pc = "failed" /\ j.op = "order_placed"
                 \/ j.pc = "reread" /\ j.op = "rebuild"
                 \/ j.pc = "persist" /\ s = "none"
           \/ j.op = "contract" /\ j.pc = "persist"
           \/ j.op = "mark_pending" /\ j.pc = "persist" /\ j.n = 1
           \/ /\ j.op = "status"
              /\ \/ j.pc = "status"
                 \/ j.pc = "persist" /\ j.todo # << >> /\ s # "none"
                        /\ Head(j.todo) \in FulfillmentNext[s]

\* A job on neither.
OtherJob(j) ==
    /\ j.i = None /\ j.n = None
    /\ \/ j = NoJob
       \/ j.op = "cod_capture" /\ j.pc = "capture"
       \/ j.op = "cod_refund" /\ j.pc = "refunding" /\ j.note \in OtherNotes

Shape(j) ==
    \/ j.i \in Returns /\ ReturnJob(j)
    \/ j.i \in Rtos /\ RtoJob(j)
    \/ j.i \in Exchanges /\ ExchangeJob(j)
    \/ j.n \in Attempts /\ AttemptJob(j)
    \/ OtherJob(j)

\* What every part of the invariant builds on.
Typed ==
    /\ TypeOK
    /\ GoodMeta(meta)
    /\ \A a \in Actors : GoodMeta(actor[a].snap) /\ Shape(actor[a])

-----------------------------------------------------------------------------
(* The inductive invariant, one part for each concern. *)

Things == Intents \cup Attempts

\* The movement a job has carried out and is on its way to record.
Recording(j) == IF j.pc \in {"refund", "refunding", "persist"} THEN MovesOf(j.op) ELSE {}

\* An intent is worked on by one actor at a time, and what that one has read is still true.
Alone ==
    \A x \in Things \ disturbed, a \in Actors, b \in Actors :
        InHand(a, x) /\ InHand(b, x) => a = b

UpToDate ==
    \A a \in Actors :
        /\ \A i \in Intents \ disturbed :
              actor[a].i = i => actor[a].snap.it[i] = meta.it[i]
        /\ \A n \in Attempts \ disturbed :
              actor[a].n = n /\ At(a, "persist") => actor[a].snap.fi[n] = meta.fi[n]

\* The goods of a return are back on the shelf.
Restocked(i) == moved[i]["qc_hold_to_sellable"] > 0

Refunded(i) ==
    IF cod THEN \E note \in {i} \cup OtherNotes : refunds[note] > 0 ELSE refunds[i] > 0

RecordsBacked(m) ==
    \A i \in Returns : m.it[i].refund = "recorded" => Restocked(i) /\ Refunded(i)

\* Money goes the way of the goods: every job and event that may lead to a refund, or to the
\* record of one, comes after the movement or the refund.
BackedJob(j) ==
    /\ RecordsBacked(j.snap)
    /\ j.op = "return_qc_pass" /\ Recording(j) # {} => Restocked(j.i)
    /\ j.op = "return_qc_pass" /\ j.pc = "persist" /\ cod => refunds[j.note] > 0
    /\ j.op = "prepaid_refund" =>
          /\ ~cod /\ Restocked(j.i)
          /\ j.pc = "persist" => refunds[j.i] > 0

Backed ==
    /\ \A i \in Returns : refunds[i] > 0 => Restocked(i)
    /\ RecordsBacked(meta)
    /\ \A a \in Actors : BackedJob(actor[a])
    /\ \A i \in refundEvents : ~cod /\ Restocked(i)

\* Who is about to refund a note has found it not refunded.
Refunding(a, note) == At(a, "refunding") /\ actor[a].note = note

RefundOnce ==
    \A note \in Notes \ raced :
        /\ refunds[note] <= 1
        /\ \A a \in Actors : Refunding(a, note) =>
              /\ refunds[note] = 0
              /\ \A b \in Actors : Refunding(b, note) => a = b

\* An attempt is announced after it is stored, by the one who has stored it.
Announcing(a, n) == At(a, "emit") /\ actor[a].n = n

Announced ==
    \A n \in Attempts \ disturbed :
        /\ announced[n] <= 1
        /\ announced[n] > 0 => meta.fi[n] # "none"
        /\ \A a \in Actors : Announcing(a, n) => announced[n] = 0 /\ meta.fi[n] # "none"

\* Who is about to reserve a replacement has found one, and nobody else is about to.
Available ==
    ~overbooked =>
        /\ stock["sellable"] >= 0
        /\ \A a \in Actors : Reserving(a) =>
              /\ stock["sellable"] >= 1
              /\ \A b \in Actors : Reserving(b) => a = b

IInv ==
    /\ Typed
    /\ Alone
    /\ UpToDate
    /\ StockMovedOnce
    /\ Backed
    /\ RefundOnce
    /\ Announced
    /\ Available

-----------------------------------------------------------------------------
(* The kinds of steps. *)

InJob(j, x) == j.i = x \/ j.n = x

\* The job j of an actor becomes k; the metadata, the stock and the refunds stay. What the new
\* job has read is new or what the old one had read; a movement carried out is still to be
\* recorded, or the intent counts as disturbed; a refund or a reservation is only begun after
\* the check that goes with it.
JobStep(a, k) ==
    LET j == actor[a]
    IN  /\ actor' = [actor EXCEPT ![a] = k]
        /\ UNCHANGED <<meta, cod, stock, moved, refunds>>
        /\ k \in Job /\ GoodMeta(k.snap) /\ Shape(k)
        /\ disturbed \subseteq disturbed' /\ raced \subseteq raced' /\ (overbooked => overbooked')
        /\ \A x \in Things : InJob(k, x) => InJob(j, x) \/ Overlapped(a, x) \subseteq disturbed'
        /\ k.snap \in {meta, NoMetadata, j.snap}
        /\ k.i \in Intents => k.snap = meta \/ (k.i = j.i /\ k.snap = j.snap)
        /\ k.n \in Attempts /\ k.pc = "persist" => k.snap = meta
        /\ Recording(k) # {} => k.i = j.i /\ k.op = j.op /\ Recording(j) = Recording(k)
        /\ Recording(j) # {} =>
              j.i \in disturbed' \/ (k.i = j.i /\ Recording(k) = Recording(j))
        /\ k.op = "return_qc_pass" /\ k.pc = "persist" => ~cod \/ refunds[k.note] > 0
        /\ k.op = "prepaid_refund" => k.pc = "refunding" /\ k.i \in refundEvents
        /\ \A i \in refundEvents' \ refundEvents :
              j.op = "return_qc_pass" /\ j.pc = "refund" /\ j.i = i /\ ~cod
        /\ k.pc = "refunding" =>
              /\ refunds[k.note] = 0
              /\ (\E b \in Actors \ {a} : Refunding(b, k.note)) => k.note \in raced'
        /\ k.pc = "move" /\ k.op = "exchange_reserve_replacement" =>
              /\ stock["sellable"] >= 1
              /\ (\E b \in Actors : Reserving(b)) => overbooked'
        /\ k.pc # "emit"
        /\ \/ announced' = announced
           \/ j.pc = "emit" /\ announced' = [announced EXCEPT ![j.n] = @ + 1]
        /\ known' = "done" =>
              \/ known = "done" \/ meta.fi[1] # "none" \/ announced'[1] > 0
              \/ NoteLost(a)

\* The stock is adjusted.
MoveStep(a) ==
    LET j == actor[a]
        m == Movement[actor[a].op]
    IN  /\ At(a, "move") /\ j.i \in Intents
        /\ MovesOf(j.op) = {m} /\ m \in Modes /\ m \notin j.snap.it[j.i].moves
        /\ stock' \in [Buckets -> Int]
        /\ stock'["sellable"] >= stock["sellable"] - (IF Reserving(a) THEN 1 ELSE 0)
        /\ moved' = [moved EXCEPT ![j.i][m] = @ + 1]
        /\ GoTo(a, IF j.op = "return_qc_pass" THEN "refund" ELSE "persist")
        /\ Shape(actor'[a])
        /\ UNCHANGED <<meta, cod, captured, refunds, refundEvents, announced, known,
                       disturbed, raced, overbooked>>
        /\ Quiet

\* A refund leaves the job to be stored, or ends it.
PayStep(a, k) ==
    LET j == actor[a]
    IN  /\ At(a, "refunding")
        /\ refunds' = [refunds EXCEPT ![j.note] = @ + 1]
        /\ UNCHANGED <<meta, cod, captured, stock, refundEvents, announced, known,
                       moved, disturbed, raced, overbooked>>
        /\ actor' = [actor EXCEPT ![a] = k] /\ Shape(k) /\ GoodMeta(k.snap)
        /\ \/ k = NoJob /\ j.i = None
           \/ /\ k.pc = "persist" /\ k.i = j.i /\ k.op = j.op
              /\ k.n = None /\ k.note = j.note /\ k.snap = j.snap
              /\ j.i \in Returns

\* The metadata is written back, with what the operation changes in its own intent or attempt.
WriteStep(a, k) ==
    LET j == actor[a]
        snap == actor[a].snap
        new == meta'
    IN  /\ WriteBack(a, new)
        /\ actor' = [actor EXCEPT ![a] = k]
        /\ k \in Job /\ GoodMeta(k.snap) /\ Shape(k)
        /\ new \in Metadata /\ GoodMeta(new)
        /\ k = NoJob \/ (k.i = j.i /\ k.n = j.n /\ k.n \in Attempts
                           /\ k.pc \in {"emit", "status"} /\ k.snap = NoMetadata)
        /\ k.pc = "emit" => snap.fi[j.n] = "none" /\ new.fi[j.n] # "none"
        /\ \A i \in Intents : i # j.i => new.it[i] = snap.it[i]
        /\ \A n \in Attempts : n # j.n => new.fi[n] = snap.fi[n]
        /\ j.i \in Intents =>
              /\ new.it[j.i].moves = snap.it[j.i].moves \cup MovesOf(j.op)
              /\ LegalChange(j.i, snap.it[j.i].state, new.it[j.i].state)
              /\ new.it[j.i].refund = "recorded" =>
                    \/ snap.it[j.i].refund = "recorded"
                    \/ j.op = "return_qc_pass" /\ cod
                    \/ j.op = "prepaid_refund"
        /\ j.n \in Attempts => LegalAttemptChange(snap.fi[j.n], new.fi[j.n])
        /\ snap.failed => new.failed
        /\ known' = known \/ new.failed

Kind(a) ==
    \/ MoveStep(a)
    \/ \E k \in Job : JobStep(a, k) \/ PayStep(a, k) \/ WriteStep(a, k)

-----------------------------------------------------------------------------
(* The tables. *)

LEMMA Kinds ==
    /\ Returns \cap Rtos = {} /\ Returns \cap Exchanges = {} /\ Rtos \cap Exchanges = {}
    /\ Intents \cap Attempts = {}
    /\ Returns \cap OtherNotes = {}
    /\ None \notin Intents /\ None \notin Attempts /\ None \notin Notes
    /\ 1 \in Attempts
    /\ Returns \subseteq Intents /\ Rtos \subseteq Intents /\ Exchanges \subseteq Intents
    /\ Returns \subseteq Notes /\ OtherNotes \subseteq Notes
  BY OrderConstants DEF Intents, Notes

\* The movement of each operation, and none for the others.
LEMMA Moves ==
    /\ MovesOf("return_receive") = {"to_qc_hold"}
    /\ MovesOf("return_qc_pass") = {"qc_hold_to_sellable"}
    /\ MovesOf("return_qc_fail") = {"qc_hold_to_damage"}
    /\ MovesOf("rto_receive") = {"to_qc_hold"}
    /\ MovesOf("rto_qc_pass") = {"qc_hold_to_sellable"}
    /\ MovesOf("rto_qc_fail") = {"qc_hold_to_damage"}
    /\ MovesOf("exchange_receive_return") = {"return_to_qc_hold"}
    /\ MovesOf("exchange_reserve_replacement") = {"reserve_replacement"}
    /\ MovesOf("exchange_ship_replacement") = {"ship_replacement"}
  BY DEF MovesOf, Movement

LEMMA Movements ==
    /\ Movement["return_receive"] = "to_qc_hold"
    /\ Movement["return_qc_pass"] = "qc_hold_to_sellable"
    /\ Movement["return_qc_fail"] = "qc_hold_to_damage"
    /\ Movement["rto_receive"] = "to_qc_hold"
    /\ Movement["rto_qc_pass"] = "qc_hold_to_sellable"
    /\ Movement["rto_qc_fail"] = "qc_hold_to_damage"
    /\ Movement["exchange_receive_return"] = "return_to_qc_hold"
    /\ Movement["exchange_reserve_replacement"] = "reserve_replacement"
    /\ Movement["exchange_ship_replacement"] = "ship_replacement"
  BY DEF Movement

LEMMA NoMoves ==
    \A op \in {"none", "return_request", "rto_initiate", "exchange_request", "prepaid_refund",
               "cod_capture", "cod_refund", "contract", "mark_pending", "status",
               "return_approve", "return_close", "rto_close", "exchange_approve",
               "exchange_close"} \cup Requesting :
        MovesOf(op) = {}
  BY DEF MovesOf, Movement, Requesting

LEMMA MovesAreModes == \A op : MovesOf(op) \subseteq Modes
  BY DEF MovesOf, Movement, Modes

LEMMA Targets ==
    /\ Target["return_approve"] = "approved" /\ Target["return_receive"] = "received"
    /\ Target["return_qc_pass"] = "qc_passed" /\ Target["return_qc_fail"] = "qc_failed"
    /\ Target["return_close"] = "closed"
    /\ Target["rto_receive"] = "received" /\ Target["rto_qc_pass"] = "qc_passed"
    /\ Target["rto_qc_fail"] = "qc_failed" /\ Target["rto_close"] = "closed"
    /\ Target["exchange_approve"] = "approved"
    /\ Target["exchange_receive_return"] = "return_received"
    /\ Target["exchange_reserve_replacement"] = "replacement_reserved"
    /\ Target["exchange_ship_replacement"] = "replacement_shipped"
    /\ Target["exchange_close"] = "closed"
  BY DEF Target

LEMMA ReturnTable ==
    \A op \in ReturnOps, s \in DOMAIN ReturnNext :
        Target[op] \in ReturnNext[s] <=> ReturnLegal(op, s)
  BY DEF ReturnOps, ReturnNext, Target, ReturnLegal

LEMMA RtoTable ==
    \A op \in RtoOps, s \in DOMAIN RtoNext :
        Target[op] \in RtoNext[s] <=> RtoLegal(op, s)
  BY DEF RtoOps, RtoNext, Target, RtoLegal

LEMMA ExchangeTable ==
    \A op \in ExchangeOps, s \in DOMAIN ExchangeNext :
        Target[op] \in ExchangeNext[s] <=> ExchangeLegal(op, s)
  BY DEF ExchangeOps, ExchangeNext, Target, ExchangeLegal

LEMMA Words ==
    /\ DOMAIN ReturnNext = {"requested", "approved", "received", "qc_passed", "qc_failed",
                            "refunded", "closed"}
    /\ DOMAIN RtoNext = {"initiated", "received", "qc_passed", "qc_failed", "closed"}
    /\ DOMAIN ExchangeNext = {"requested", "approved", "return_received",
                              "replacement_reserved", "replacement_shipped", "delivered",
                              "closed"}
    /\ DOMAIN Target = ReturnOps \cup RtoOps \cup ExchangeOps
  BY DEF ReturnNext, RtoNext, ExchangeNext, Target, ReturnOps, RtoOps, ExchangeOps

\* The statuses of an attempt that follow one another.
LEMMA FulfillmentTable ==
    \A s \in FulfillmentStatus : FulfillmentNext[s] \subseteq FulfillmentStatus
  BY DEF FulfillmentStatus, FulfillmentNext

LEMMA Cascades ==
    \A s \in DOMAIN StatusMap :
        CascadeTargets(StatusMap[s]) \in Seq(FulfillmentStatus)
  <1>1. \A s \in DOMAIN StatusMap : StatusMap[s] \in FulfillmentStatus
    BY DEF StatusMap, FulfillmentStatus
  <1>2. \A t \in FulfillmentStatus :
            CascadeTargets(t) \in {<<"ready_for_shipment">>,
                                   <<"ready_for_shipment", "shipped">>,
                                   <<"ready_for_shipment", "shipped", "delivered">>, <<t>>}
    BY DEF CascadeTargets
  <1>3. {"ready_for_shipment", "shipped", "delivered"} \subseteq FulfillmentStatus
    BY DEF FulfillmentStatus
  <1>4. /\ <<"ready_for_shipment">> \in Seq(FulfillmentStatus)
        /\ <<"ready_for_shipment", "shipped">> \in Seq(FulfillmentStatus)
        /\ <<"ready_for_shipment", "shipped", "delivered">> \in Seq(FulfillmentStatus)
        /\ \A t \in FulfillmentStatus : <<t>> \in Seq(FulfillmentStatus)
    BY <1>3
  <1> QED BY <1>1, <1>2, <1>4

LEMMA Operations ==
    {"none", "return_request", "rto_initiate", "exchange_request", "prepaid_refund",
     "cod_capture", "cod_refund", "contract", "mark_pending", "status"} \cap DOMAIN Target = {}
  BY DEF Target

LEMMA Adjustments ==
    /\ \A m \in Modes : /\ ReturnAdjustment(m) \in [Buckets -> Int]
                        /\ RtoAdjustment(m) \in [Buckets -> Int]
                        /\ ExchangeAdjustment(m) \in [Buckets -> Int]
    /\ \A m \in Modes : /\ ReturnAdjustment(m)["sellable"] >= 0
                        /\ RtoAdjustment(m)["sellable"] >= 0
                        /\ m # "reserve_replacement" => ExchangeAdjustment(m)["sellable"] >= 0
    /\ ExchangeAdjustment("reserve_replacement")["sellable"] = -1
    /\ "sellable" \in Buckets
  BY DEF ReturnAdjustment, RtoAdjustment, ExchangeAdjustment, Buckets, NoAdjustment, Modes

-----------------------------------------------------------------------------
(* What a step starts from, and what it leaves well typed. *)

LEMMA Given ==
    ASSUME Typed, NEW a \in Actors
    PROVE  /\ actor[a] \in Job /\ Shape(actor[a])
           /\ GoodMeta(actor[a].snap) /\ actor[a].snap \in Metadata
           /\ GoodMeta(meta) /\ meta \in Metadata
  BY DEF Typed, TypeOK, Job

LEMMA NoMetadataType ==
    NoMetadata \in Metadata /\ GoodMeta(NoMetadata)
  <1>1. NoIntent \in Intent
    BY DEF NoIntent, Intent
  <1>2. NoMetadata \in Metadata
    BY <1>1 DEF NoMetadata, Metadata
  <1>3. GoodMeta(NoMetadata)
    BY Kinds DEF NoMetadata, NoIntent, GoodMeta, GoodReturn, GoodRto, GoodExchange
  <1> QED BY <1>2, <1>3

LEMMA NoJobType ==
    NoJob \in Job /\ Shape(NoJob) /\ GoodMeta(NoJob.snap)
  <1>1. NoJob \in Job
    BY NoMetadataType DEF NoJob, Job
  <1> QED BY <1>1, NoMetadataType DEF NoJob, Shape, OtherJob

LEMMA IdleJob ==
    ASSUME Typed, NEW a \in Actors, At(a, "idle")
    PROVE  actor[a] = NoJob
  BY Given DEF At, Shape, ReturnJob, RtoJob, ExchangeJob, AttemptJob, OtherJob

LEMMA NoRecording ==
    Recording(NoJob) = {}
  BY DEF Recording, NoJob

\* The order is left alone, but for the overlaps and the histories.
LEMMA TypeKept ==
    ASSUME TypeOK, NEW a \in Actors, NEW k \in Job, actor' = [actor EXCEPT ![a] = k],
           UNCHANGED <<meta, cod, captured, refunds, stock, announced, moved>>,
           refundEvents' \subseteq Returns, known' \in {"no", "busy", "done"},
           disturbed' \subseteq Intents \cup Attempts, raced' \subseteq Notes,
           overbooked' \in BOOLEAN, overlaps' \in 0..MaxOverlaps, faults' \in 0..MaxFaults
    PROVE  TypeOK'
  BY DEF TypeOK

LEMMA BeginType ==
    ASSUME TypeOK, NEW a \in Actors, NEW job, Begin(a, job)
    PROVE  /\ overlaps' \in 0..MaxOverlaps /\ faults' \in 0..MaxFaults
           /\ At(a, "idle") /\ actor' = [actor EXCEPT ![a] = job]
  BY OrderConstants DEF TypeOK, Begin, Take, Overlap

LEMMA OverlapType ==
    ASSUME NEW a, NEW x \in Intents \cup Attempts
    PROVE  Overlapped(a, x) \subseteq Intents \cup Attempts
  BY DEF Overlapped

-----------------------------------------------------------------------------
(* Requests and events that begin. *)

\* A job begins with nothing to record, by reading the order if it is to write it back.
LEMMA BegunStep ==
    ASSUME Typed, NEW a \in Actors, NEW k \in Job, Shape(k), GoodMeta(k.snap),
           At(a, "idle"), actor' = [actor EXCEPT ![a] = k],
           UNCHANGED <<meta, cod, captured, refunds, stock, announced, moved, overbooked>>,
           refundEvents' \subseteq refundEvents,
           known' \in {known, "busy"},
           disturbed \subseteq disturbed', raced \subseteq raced',
           \A x \in Things : InJob(k, x) => Overlapped(a, x) \subseteq disturbed',
           k.snap \in {meta, NoMetadata},
           k.i \in Intents => k.snap = meta,
           k.n \in Attempts /\ k.pc = "persist" => k.snap = meta,
           Recording(k) = {},
           k.op = "prepaid_refund" => k.pc = "refunding" /\ k.i \in refundEvents,
           k.pc = "refunding" =>
              /\ refunds[k.note] = 0
              /\ (\E b \in Actors \ {a} : Refunding(b, k.note)) => k.note \in raced',
           k.pc # "move" \/ k.op # "exchange_reserve_replacement",
           k.op # "return_qc_pass" \/ k.pc # "persist",
           k.pc # "emit"
    PROVE  JobStep(a, k)
  <1>1. actor[a] = NoJob
    BY IdleJob
  <1>2. NoJob.pc = "idle" /\ NoJob.op = "none"
    BY DEF NoJob
  <1>3. /\ \A x \in Things :
              InJob(k, x) => InJob(actor[a], x) \/ Overlapped(a, x) \subseteq disturbed'
        /\ k.i \in Intents => k.snap = meta \/ (k.i = actor[a].i /\ k.snap = actor[a].snap)
        /\ Recording(k) = {} /\ Recording(actor[a]) = {}
    BY <1>1, NoRecording
  <1>4. refundEvents' \ refundEvents = {} /\ (overbooked => overbooked') /\ announced' = announced
    OBVIOUS
  <1>5. known' = "done" => known = "done"
    OBVIOUS
  <1> QED BY <1>3, <1>4, <1>5 DEF JobStep

\* What is in hand of an actor that has read the order for an intent.
IntentJob(i, op, pc, note) ==
    [pc |-> pc, op |-> op, i |-> i, n |-> None, note |-> note, todo |-> << >>, snap |-> meta]

LEMMA IntentJobIs ==
    ASSUME NEW i, NEW op, NEW pc, NEW note, NEW k,
           k = [NoJob EXCEPT !.pc = pc, !.op = op, !.i = i, !.note = note, !.snap = meta]
    PROVE  k = IntentJob(i, op, pc, note)
  BY DEF NoJob, IntentJob

LEMMA AdmitStep ==
    ASSUME Typed, NEW a \in Actors, NEW i \in Intents, NEW op, NEW pc, NEW note,
           Admit(a, i, op, pc, note),
           pc \in {"persist", "move", "check"}, note \in Notes \cup {None},
           op \in {"return_request", "rto_initiate", "exchange_request"} \cup DOMAIN Target,
           pc = "persist" => MovesOf(op) = {} /\ op # "return_qc_pass",
           pc = "move" => op # "exchange_reserve_replacement",
           Shape(IntentJob(i, op, pc, note))
    PROVE  TypeOK' /\ \E k \in Job : JobStep(a, k)
  <1> DEFINE k == IntentJob(i, op, pc, note)
  <1>1. TypeOK /\ GoodMeta(meta) /\ meta \in Metadata
    BY DEF Typed, TypeOK
  <1>2. k \in Job
    <2>1. << >> \in Seq(FulfillmentStatus)
      OBVIOUS
    <2>2. i \in Intents \cup {None} /\ None \in Attempts \cup {None}
      OBVIOUS
    <2> QED BY <1>1, <2>1, <2>2 DEF IntentJob, Job
  <1>3. k.pc = pc /\ k.op = op /\ k.i = i /\ k.n = None /\ k.note = note /\ k.snap = meta
    BY DEF IntentJob
  <1>4. [NoJob EXCEPT !.pc = pc, !.op = op, !.i = i, !.note = note, !.snap = meta] = k
    BY IntentJobIs, Zenon
  <1>5. Begin(a, k)
    BY <1>4 DEF Admit
  <1> HIDE DEF k
  <1>6. /\ At(a, "idle") /\ actor' = [actor EXCEPT ![a] = k]
        /\ overlaps' \in 0..MaxOverlaps /\ faults' \in 0..MaxFaults
    BY <1>1, <1>5, BeginType
  <1>7. /\ disturbed' = disturbed \cup Overlapped(a, i)
        /\ UNCHANGED <<orderVars, moved, raced, overbooked>>
    BY DEF Admit
  <1>8. Recording(k) = {}
    BY <1>3 DEF Recording
  <1>9. \A x \in Things : InJob(k, x) => x = i
    BY <1>3, Kinds DEF InJob, Things
  <1>10. op # "prepaid_refund"
    BY Operations
  <1>11. Shape(k) /\ i # None
    BY Kinds DEF k
  <1>12. JobStep(a, k)
    BY <1>1, <1>2, <1>3, <1>6, <1>7, <1>8, <1>9, <1>10, <1>11, BegunStep, Kinds DEF orderVars
  <1>13. TypeOK'
    BY <1>1, <1>2, <1>6, <1>7, OverlapType, TypeKept DEF orderVars, TypeOK
  <1> QED BY <1>2, <1>12, <1>13

\* What the order says of an intent is one of the states of its machine.
LEMMA States ==
    ASSUME Typed
    PROVE  /\ \A i \in Returns : meta.it[i].state \in {"none"} \cup DOMAIN ReturnNext
           /\ \A i \in Rtos : meta.it[i].state \in {"none"} \cup DOMAIN RtoNext
           /\ \A i \in Exchanges : meta.it[i].state \in {"none"} \cup DOMAIN ExchangeNext
  BY Words DEF Typed, GoodMeta, GoodReturn, GoodRto, GoodExchange

LEMMA ReturnBegins ==
    ASSUME Typed, NEW a \in Actors, NEW i \in Returns, NEW op, NEW pc, NEW note,
           ReturnTransition(a, i, op, pc, note),
           \/ op \in {"return_approve", "return_close"} /\ pc = "persist" /\ note = None
           \/ op \in {"return_receive", "return_qc_fail"} /\ pc = "move" /\ note = None
           \/ op = "return_qc_pass" /\ pc = "move" /\ note \in {i} \cup OtherNotes
    PROVE  TypeOK' /\ \E k \in Job : JobStep(a, k)
  <1>1. op \in ReturnOps /\ op \in DOMAIN Target
    BY Words DEF ReturnOps
  <1>2. ReturnLegal(op, meta.it[i].state)
    BY <1>1, States, ReturnTable DEF ReturnTransition
  <1>3. i \in Intents /\ note \in Notes \cup {None}
    BY Kinds
  <1>4. Shape(IntentJob(i, op, pc, note))
    BY <1>2, Kinds DEF Shape, ReturnJob, IntentJob
  <1>5. pc = "persist" => MovesOf(op) = {} /\ op # "return_qc_pass"
    BY NoMoves
  <1> QED BY <1>1, <1>3, <1>4, <1>5, AdmitStep DEF ReturnTransition

LEMMA RtoBegins ==
    ASSUME Typed, NEW a \in Actors, NEW i \in Rtos, NEW op, NEW pc,
           RtoTransition(a, i, op, pc),
           \/ op = "rto_close" /\ pc = "persist"
           \/ op \in {"rto_receive", "rto_qc_pass", "rto_qc_fail"} /\ pc = "move"
    PROVE  TypeOK' /\ \E k \in Job : JobStep(a, k)
  <1>1. op \in RtoOps /\ op \in DOMAIN Target
    BY Words DEF RtoOps
  <1>2. RtoLegal(op, meta.it[i].state)
    BY <1>1, States, RtoTable DEF RtoTransition
  <1>3. i \in Intents
    BY Kinds
  <1>4. Shape(IntentJob(i, op, pc, None))
    BY <1>2, Kinds DEF Shape, RtoJob, IntentJob
  <1>5. pc = "persist" => MovesOf(op) = {} /\ op # "return_qc_pass"
    BY NoMoves
  <1> QED BY <1>1, <1>3, <1>4, <1>5, AdmitStep DEF RtoTransition

LEMMA ExchangeBegins ==
    ASSUME Typed, NEW a \in Actors, NEW i \in Exchanges, NEW op, NEW pc,
           ExchangeTransition(a, i, op, pc),
           \/ op \in {"exchange_approve", "exchange_close"} /\ pc = "persist"
           \/ op \in {"exchange_receive_return", "exchange_ship_replacement"} /\ pc = "move"
           \/ op = "exchange_reserve_replacement" /\ pc = "check"
    PROVE  TypeOK' /\ \E k \in Job : JobStep(a, k)
  <1>1. op \in ExchangeOps /\ op \in DOMAIN Target
    BY Words DEF ExchangeOps
  <1>2. ExchangeLegal(op, meta.it[i].state)
    BY <1>1, States, ExchangeTable DEF ExchangeTransition
  <1>3. i \in Intents
    BY Kinds
  <1>4. Shape(IntentJob(i, op, pc, None))
    BY <1>2, Kinds DEF Shape, ExchangeJob, IntentJob
  <1>5. pc = "persist" => MovesOf(op) = {} /\ op # "return_qc_pass"
    BY NoMoves
  <1> QED BY <1>1, <1>3, <1>4, <1>5, AdmitStep DEF ExchangeTransition

\* A new intent.
LEMMA IntentOpens ==
    ASSUME Typed, NEW a \in Actors, NEW i \in Intents, NEW op,
           meta.it[i].state = "none", Admit(a, i, op, "persist", None),
           \/ i \in Returns /\ op = "return_request"
           \/ i \in Rtos /\ op = "rto_initiate"
           \/ i \in Exchanges /\ op = "exchange_request"
    PROVE  TypeOK' /\ \E k \in Job : JobStep(a, k)
  <1>1. Shape(IntentJob(i, op, "persist", None))
    BY Kinds DEF Shape, ReturnJob, RtoJob, ExchangeJob, IntentJob
  <1>2. MovesOf(op) = {} /\ op # "return_qc_pass"
    BY NoMoves
  <1> QED BY <1>1, <1>2, AdmitStep

LEMMA PrepaidBegins ==
    ASSUME Typed, NEW a \in Actors, NEW i \in Returns, PrepaidRefundRequested(a, i)
    PROVE  TypeOK' /\ \E k \in Job : JobStep(a, k)
  <1>1. TypeOK /\ GoodMeta(meta) /\ meta \in Metadata
    BY DEF Typed, TypeOK
  <1>2. /\ refundEvents' \subseteq refundEvents /\ i \in refundEvents
        /\ UNCHANGED <<meta, cod, captured, refunds, stock, announced, known, moved, overbooked>>
    BY DEF PrepaidRefundRequested
  <1>3. refundEvents' \subseteq Returns
    BY <1>1, <1>2 DEF TypeOK
  <1>4. CASE HasMatchingRefund(i)
    <2>1. Begin(a, NoJob) /\ UNCHANGED <<raced, disturbed>>
      BY <1>4 DEF PrepaidRefundRequested
    <2>2. /\ At(a, "idle") /\ actor' = [actor EXCEPT ![a] = NoJob]
          /\ overlaps' \in 0..MaxOverlaps /\ faults' \in 0..MaxFaults
      BY <1>1, <2>1, BeginType
    <2>3. /\ NoJob.snap = NoMetadata /\ NoJob.i = None /\ NoJob.n = None
          /\ NoJob.pc = "idle" /\ NoJob.op = "none"
      BY DEF NoJob
    <2>4. \A x \in Things : ~InJob(NoJob, x)
      BY <2>3, Kinds DEF InJob, Things
    <2>5. JobStep(a, NoJob)
      BY <1>2, <2>1, <2>2, <2>3, <2>4, NoJobType, NoRecording, Kinds, BegunStep
    <2>6. TypeOK'
      BY <1>1, <1>2, <1>3, <2>1, <2>2, NoJobType, TypeKept DEF TypeOK
    <2> QED BY <2>5, <2>6, NoJobType
  <1>5. CASE ~HasMatchingRefund(i)
    <2> DEFINE k == IntentJob(i, "prepaid_refund", "refunding", i)
    <2>1. [NoJob EXCEPT !.pc = "refunding", !.op = "prepaid_refund", !.i = i, !.note = i,
                        !.snap = meta] = k
      BY IntentJobIs, Zenon
    <2>2. Begin(a, k) /\ AboutToRefund(a, i) /\ disturbed' = disturbed \cup Overlapped(a, i)
      BY <1>5, <2>1 DEF PrepaidRefundRequested
    <2>3. /\ k.pc = "refunding" /\ k.op = "prepaid_refund" /\ k.i = i /\ k.n = None
          /\ k.note = i /\ k.snap = meta
      BY DEF IntentJob
    <2>4. k \in Job
      <3>1. << >> \in Seq(FulfillmentStatus)
        OBVIOUS
      <3>2. i \in Intents \cup {None} /\ i \in Notes \cup {None} /\ None \in Attempts \cup {None}
        BY Kinds
      <3> QED BY <1>1, <3>1, <3>2 DEF IntentJob, Job
    <2>5. Shape(k)
      BY Kinds DEF Shape, ReturnJob, IntentJob
    <2> HIDE DEF k
    <2>6. /\ At(a, "idle") /\ actor' = [actor EXCEPT ![a] = k]
          /\ overlaps' \in 0..MaxOverlaps /\ faults' \in 0..MaxFaults
      BY <1>1, <2>2, BeginType
    <2>7. Recording(k) = {}
      BY <2>3, NoMoves DEF Recording
    <2>8. \A x \in Things : InJob(k, x) => x = i
      BY <2>3, Kinds DEF InJob, Things
    <2>9. /\ raced \subseteq raced' /\ raced' \subseteq raced \cup {i}
          /\ (\E b \in Actors \ {a} : Refunding(b, i)) => i \in raced'
      BY <2>2 DEF AboutToRefund, Refunding
    <2>10. refunds[i] = 0
      BY <1>1, <1>5, Kinds DEF HasMatchingRefund, TypeOK
    <2>11. JobStep(a, k)
      BY <1>1, <1>2, <2>2, <2>3, <2>4, <2>5, <2>6, <2>7, <2>8, <2>9, <2>10, BegunStep, Kinds
    <2>12. TypeOK'
      <3>1. raced' \subseteq Notes /\ disturbed' \subseteq Intents \cup Attempts
        BY <1>1, <2>2, <2>9, OverlapType, Kinds DEF TypeOK
      <3> QED BY <1>1, <1>2, <1>3, <2>4, <2>6, <3>1, TypeKept DEF TypeOK
    <2> QED BY <2>4, <2>11, <2>12
  <1> QED BY <1>4, <1>5

LEMMA CaptureBegins ==
    ASSUME Typed, NEW a \in Actors, CaptureRequested(a)
    PROVE  TypeOK' /\ \E k \in Job : JobStep(a, k)
  <1> DEFINE k == [NoJob EXCEPT !.pc = "capture", !.op = "cod_capture"]
  <1>1. TypeOK /\ GoodMeta(meta)
    BY DEF Typed
  <1>2. /\ k.pc = "capture" /\ k.op = "cod_capture" /\ k.i = None /\ k.n = None
        /\ k.snap = NoMetadata
    BY DEF NoJob
  <1>3. k \in Job
    BY NoJobType DEF Job
  <1>4. Begin(a, k) /\ UNCHANGED <<orderVars, moved, disturbed, raced, overbooked>>
    BY DEF CaptureRequested
  <1> HIDE DEF k
  <1>5. Shape(k)
    BY <1>2 DEF Shape, OtherJob
  <1>6. /\ At(a, "idle") /\ actor' = [actor EXCEPT ![a] = k]
        /\ overlaps' \in 0..MaxOverlaps /\ faults' \in 0..MaxFaults
    BY <1>1, <1>4, BeginType
  <1>7. Recording(k) = {} /\ \A x \in Things : ~InJob(k, x)
    BY <1>2, Kinds DEF Recording, InJob, Things
  <1>8. JobStep(a, k)
    BY <1>2, <1>3, <1>4, <1>5, <1>6, <1>7, NoMetadataType, BegunStep, Kinds DEF orderVars
  <1>9. TypeOK'
    BY <1>1, <1>3, <1>4, <1>6, TypeKept DEF orderVars, TypeOK
  <1> QED BY <1>3, <1>8, <1>9

LEMMA CodRefundBegins ==
    ASSUME Typed, NEW a \in Actors, NEW note \in OtherNotes, CodRefund(a, note)
    PROVE  TypeOK' /\ \E k \in Job : JobStep(a, k)
  <1> DEFINE k == [NoJob EXCEPT !.pc = "refunding", !.op = "cod_refund", !.note = note]
  <1>1. TypeOK /\ GoodMeta(meta)
    BY DEF Typed
  <1>2. /\ k.pc = "refunding" /\ k.op = "cod_refund" /\ k.i = None /\ k.n = None
        /\ k.note = note /\ k.snap = NoMetadata
    BY DEF NoJob
  <1>3. k \in Job
    <2>1. note \in Notes \cup {None}
      BY Kinds
    <2> QED BY <2>1, NoJobType DEF Job
  <1>4. /\ Begin(a, k) /\ UNCHANGED <<orderVars, moved, disturbed, overbooked>>
        /\ AboutToRefund(a, note) /\ refunds[note] = 0
    BY DEF CodRefund
  <1> HIDE DEF k
  <1>5. Shape(k)
    BY <1>2 DEF Shape, OtherJob
  <1>6. /\ At(a, "idle") /\ actor' = [actor EXCEPT ![a] = k]
        /\ overlaps' \in 0..MaxOverlaps /\ faults' \in 0..MaxFaults
    BY <1>1, <1>4, BeginType
  <1>7. Recording(k) = {}
    BY <1>2, NoMoves DEF Recording
  <1>8. \A x \in Things : ~InJob(k, x)
    BY <1>2, Kinds DEF InJob, Things
  <1>9. /\ raced \subseteq raced' /\ raced' \subseteq raced \cup {note}
        /\ (\E b \in Actors \ {a} : Refunding(b, note)) => note \in raced'
    BY <1>4 DEF AboutToRefund, Refunding
  <1>10. JobStep(a, k)
    BY <1>2, <1>3, <1>4, <1>5, <1>6, <1>7, <1>8, <1>9, NoMetadataType, BegunStep, Kinds
    DEF orderVars
  <1>11. TypeOK'
    <2>1. raced' \subseteq Notes
      BY <1>1, <1>9, Kinds DEF TypeOK
    <2> QED BY <1>1, <1>3, <1>4, <1>6, <2>1, TypeKept DEF orderVars, TypeOK
  <1> QED BY <1>3, <1>10, <1>11

-----------------------------------------------------------------------------
(* Requests and events for an attempt. *)

AttemptHeld(n, op, pc, todo, snap) ==
    [pc |-> pc, op |-> op, i |-> None, n |-> n, note |-> None, todo |-> todo, snap |-> snap]

LEMMA AttemptHeldType ==
    ASSUME NEW n \in Attempts, NEW op, NEW pc, NEW todo \in Seq(FulfillmentStatus),
           NEW snap \in Metadata,
           op \in {"contract", "mark_pending", "status"} \cup Requesting,
           pc \in {"request", "emit", "reread", "failed", "persist", "status"}
    PROVE  AttemptHeld(n, op, pc, todo, snap) \in Job
  BY DEF AttemptHeld, Job

LEMMA AttemptBegunStep ==
    ASSUME Typed, NEW a \in Actors, NEW n \in Attempts, NEW k \in Job,
           Begin(a, k), disturbed' = disturbed \cup Overlapped(a, n),
           UNCHANGED <<meta, cod, captured, refunds, stock, refundEvents, announced,
                       moved, raced, overbooked>>,
           known' \in {known, "busy"},
           Shape(k), k.i = None, k.n \in {n, None},
           k.op \in {"contract", "status", "none"} \cup Requesting,
           k.pc \in {"request", "persist", "status", "idle"},
           k.snap = IF k.pc = "persist" THEN meta ELSE NoMetadata
    PROVE  TypeOK' /\ \E q \in Job : JobStep(a, q)
  <1>1. TypeOK /\ GoodMeta(meta)
    BY DEF Typed
  <1>2. /\ At(a, "idle") /\ actor' = [actor EXCEPT ![a] = k]
        /\ overlaps' \in 0..MaxOverlaps /\ faults' \in 0..MaxFaults
    BY <1>1, BeginType
  <1>3. Recording(k) = {}
    BY NoMoves DEF Recording
  <1>4. \A x \in Things : InJob(k, x) => x = n
    BY Kinds DEF InJob, Things
  <1>5. k.op # "prepaid_refund" /\ k.op # "return_qc_pass"
    BY DEF Requesting
  <1>6. JobStep(a, k)
    BY <1>1, <1>2, <1>3, <1>4, <1>5, NoMetadataType, BegunStep, Kinds
  <1>7. TypeOK'
    <2>1. n \in Intents \cup Attempts
      OBVIOUS
    <2>2. disturbed' \subseteq Intents \cup Attempts
      BY <1>1, <2>1, OverlapType DEF TypeOK
    <2> QED BY <1>1, <1>2, <2>2, TypeKept DEF TypeOK
  <1> QED BY <1>6, <1>7

LEMMA AdmitAttemptIs ==
    ASSUME NEW n, NEW op, NEW pc, NEW k,
           k = [NoJob EXCEPT !.pc = pc, !.op = op, !.n = n,
                             !.snap = IF pc = "persist" THEN meta ELSE @]
    PROVE  k = AttemptHeld(n, op, pc, << >>, IF pc = "persist" THEN meta ELSE NoMetadata)
  BY DEF NoJob, AttemptHeld

LEMMA AdmittedAttempt ==
    ASSUME NEW n, NEW op, NEW pc, NEW snap, snap = IF pc = "persist" THEN meta ELSE NoMetadata
    PROVE  [NoJob EXCEPT !.pc = pc, !.op = op, !.n = n,
                         !.snap = IF pc = "persist" THEN meta ELSE @]
              = AttemptHeld(n, op, pc, << >>, snap)
  BY AdmitAttemptIs, Zenon

LEMMA AttemptBeginsWith ==
    ASSUME Typed, NEW a \in Actors, NEW n \in Attempts, NEW op, NEW pc, NEW snap,
           snap = IF pc = "persist" THEN meta ELSE NoMetadata,
           AdmitAttempt(a, n, op, pc), known' \in {known, "busy"},
           \/ op \in Requesting /\ pc = "request" /\ (op = "order_placed" => n = 1)
           \/ op = "contract" /\ pc = "persist"
    PROVE  TypeOK' /\ \E k \in Job : JobStep(a, k)
  <1> DEFINE k == AttemptHeld(n, op, pc, << >>, snap)
  <1>1. meta \in Metadata /\ snap \in Metadata
    BY NoMetadataType DEF Typed, TypeOK
  <1>2. k \in Job
    <2>1. << >> \in Seq(FulfillmentStatus)
      OBVIOUS
    <2>2. op \in {"contract", "mark_pending", "status"} \cup Requesting
      OBVIOUS
    <2>3. pc \in {"request", "emit", "reread", "failed", "persist", "status"}
      OBVIOUS
    <2> QED BY <1>1, <2>1, <2>2, <2>3, AttemptHeldType
  <1>3. [NoJob EXCEPT !.pc = pc, !.op = op, !.n = n,
                      !.snap = IF pc = "persist" THEN meta ELSE @] = k
    BY AdmitAttemptIs, Zenon
  <1>4. /\ Begin(a, k) /\ disturbed' = disturbed \cup Overlapped(a, n)
        /\ UNCHANGED <<meta, cod, captured, refunds, stock, refundEvents, announced,
                       moved, raced, overbooked>>
    BY <1>3 DEF AdmitAttempt
  <1>5. k.pc = pc /\ k.op = op /\ k.i = None /\ k.n = n /\ k.snap = snap
    BY DEF AttemptHeld
  <1>6. Shape(k)
    <2> HIDE DEF k
    <2> QED BY <1>5 DEF Shape, AttemptJob
  <1> HIDE DEF k
  <1> QED BY <1>2, <1>4, <1>5, <1>6, AttemptBegunStep

LEMMA AttemptBegins ==
    ASSUME Typed, NEW a \in Actors, NEW n \in Attempts, NEW op, NEW pc,
           AdmitAttempt(a, n, op, pc), known' \in {known, "busy"},
           \/ op \in Requesting /\ pc = "request" /\ (op = "order_placed" => n = 1)
           \/ op = "contract" /\ pc = "persist"
    PROVE  TypeOK' /\ \E k \in Job : JobStep(a, k)
  BY AttemptBeginsWith

\* What comes of one target.
LEMMA TryResult ==
    ASSUME Typed, NEW job \in Job, job.i = None, job.n \in Attempts, job.op = "status"
    PROVE  /\ Try(job) \in Job /\ Shape(Try(job))
           /\ \/ Try(job) = NoJob
              \/ /\ Try(job).i = None /\ Try(job).n = job.n /\ Try(job).op = "status"
                 /\ \/ Try(job).pc = "persist" /\ Try(job).snap = meta
                    \/ Try(job).pc = "status" /\ Try(job).snap = job.snap
  <1>1. meta \in Metadata
    BY Given DEF Typed, TypeOK
  <1>2. job.todo \in Seq(FulfillmentStatus)
    BY DEF Job
  <1>3. CASE job.todo = << >> \/ meta.fi[job.n] = "none"
    BY <1>3, NoJobType DEF Try
  <1>4. CASE /\ ~(job.todo = << >> \/ meta.fi[job.n] = "none")
             /\ Head(job.todo) \in FulfillmentNext[meta.fi[job.n]]
    <2> DEFINE k == [job EXCEPT !.pc = "persist", !.snap = meta]
    <2>1. Try(job) = k
      BY <1>4 DEF Try
    <2>2. k \in Job
      BY <1>1 DEF Job
    <2>3. /\ k.i = None /\ k.n = job.n /\ k.op = "status" /\ k.pc = "persist" /\ k.snap = meta
          /\ k.todo = job.todo
      BY DEF Job
    <2> HIDE DEF k
    <2>4. Shape(k)
      BY <1>4, <2>3 DEF Shape, AttemptJob
    <2> QED BY <2>1, <2>2, <2>3, <2>4
  <1>5. CASE /\ ~(job.todo = << >> \/ meta.fi[job.n] = "none")
             /\ Head(job.todo) \notin FulfillmentNext[meta.fi[job.n]]
    <2> DEFINE k == [job EXCEPT !.pc = "status", !.todo = Tail(@)]
    <2>1. Try(job) = k
      BY <1>5 DEF Try
    <2>2. Tail(job.todo) \in Seq(FulfillmentStatus)
      BY <1>2, <1>5
    <2>3. k \in Job
      BY <2>2 DEF Job
    <2>4. k.i = None /\ k.n = job.n /\ k.op = "status" /\ k.pc = "status" /\ k.snap = job.snap
      BY DEF Job
    <2> HIDE DEF k
    <2>5. Shape(k)
      BY <2>4 DEF Shape, AttemptJob
    <2> QED BY <2>1, <2>3, <2>4, <2>5
  <1> QED BY <1>3, <1>4, <1>5

LEMMA StatusHeld ==
    ASSUME NEW n, NEW targets, NEW k, k = [NoJob EXCEPT !.op = "status", !.n = n, !.todo = targets]
    PROVE  k = AttemptHeld(n, "status", "idle", targets, NoMetadata)
  BY DEF NoJob, AttemptHeld

LEMMA StatusBegins ==
    ASSUME Typed, NEW a \in Actors, NEW n \in Attempts, NEW targets \in Seq(FulfillmentStatus),
           StatusAsked(a, n, targets)
    PROVE  TypeOK' /\ \E k \in Job : JobStep(a, k)
  <1> DEFINE job == AttemptHeld(n, "status", "idle", targets, NoMetadata)
  <1>1. [NoJob EXCEPT !.op = "status", !.n = n, !.todo = targets] = job
    BY StatusHeld, Zenon
  <1>2. /\ Begin(a, Try(job)) /\ disturbed' = disturbed \cup Overlapped(a, n)
        /\ UNCHANGED <<orderVars, moved, raced, overbooked>>
    BY <1>1 DEF StatusAsked
  <1>3. job \in Job
    BY NoMetadataType DEF AttemptHeld, Job
  <1>4. job.i = None /\ job.n = n /\ job.op = "status" /\ job.snap = NoMetadata
    BY DEF AttemptHeld
  <1> HIDE DEF job
  <1>5. NoJob.i = None /\ NoJob.n = None /\ NoJob.op = "none" /\ NoJob.pc = "idle"
            /\ NoJob.snap = NoMetadata
    BY DEF NoJob
  <1> DEFINE k == Try(job)
  <1>6. k \in Job /\ Shape(k)
    BY <1>3, <1>4, TryResult
  <1>7. \/ k = NoJob
        \/ /\ k.i = None /\ k.n = n /\ k.op = "status"
           /\ \/ k.pc = "persist" /\ k.snap = meta
              \/ k.pc = "status" /\ k.snap = NoMetadata
    BY <1>3, <1>4, TryResult
  <1> HIDE DEF k
  <1>8. /\ k.i = None /\ k.n \in {n, None} /\ k.op \in {"status", "none"}
        /\ k.pc \in {"persist", "status", "idle"}
        /\ k.snap = IF k.pc = "persist" THEN meta ELSE NoMetadata
    BY <1>5, <1>7
  <1>9. Begin(a, k)
    BY <1>2 DEF k
  <1> QED BY <1>2, <1>6, <1>8, <1>9, AttemptBegunStep DEF orderVars

-----------------------------------------------------------------------------
LEMMA AskedStep ==
    ASSUME Typed, NEW a \in Actors, Asked(a)
    PROVE  TypeOK' /\ \E k \in Job : JobStep(a, k)
  <1>1. CASE ReturnRoute(a)
    <2>1. PICK i \in Returns :
            \/ ReturnRequest(a, i) \/ ReturnApprove(a, i) \/ ReturnReceive(a, i)
            \/ \E note \in {i} \cup OtherNotes : ReturnQcPass(a, i, note)
            \/ ReturnQcFail(a, i) \/ ReturnClose(a, i)
            \/ PrepaidRefundRequested(a, i)
      BY <1>1 DEF ReturnRoute
    <2>2. CASE ReturnRequest(a, i)
      BY <2>2, IntentOpens, Kinds DEF ReturnRequest
    <2>3. CASE ReturnApprove(a, i)
      BY <2>3, ReturnBegins DEF ReturnApprove
    <2>4. CASE ReturnReceive(a, i)
      BY <2>4, ReturnBegins DEF ReturnReceive
    <2>5. CASE \E note \in {i} \cup OtherNotes : ReturnQcPass(a, i, note)
      BY <2>5, ReturnBegins DEF ReturnQcPass
    <2>6. CASE ReturnQcFail(a, i)
      BY <2>6, ReturnBegins DEF ReturnQcFail
    <2>7. CASE ReturnClose(a, i)
      BY <2>7, ReturnBegins DEF ReturnClose
    <2>8. CASE PrepaidRefundRequested(a, i)
      BY <2>8, PrepaidBegins
    <2> QED BY <2>1, <2>2, <2>3, <2>4, <2>5, <2>6, <2>7, <2>8
  <1>2. CASE RtoRoute(a)
    <2>1. PICK i \in Rtos : RtoInitiate(a, i) \/ RtoReceive(a, i) \/ RtoQcPass(a, i)
                                \/ RtoQcFail(a, i) \/ RtoClose(a, i)
      BY <1>2 DEF RtoRoute
    <2>2. CASE RtoInitiate(a, i)
      BY <2>2, IntentOpens, Kinds DEF RtoInitiate
    <2>3. CASE RtoReceive(a, i) \/ RtoQcPass(a, i) \/ RtoQcFail(a, i) \/ RtoClose(a, i)
      BY <2>3, RtoBegins DEF RtoReceive, RtoQcPass, RtoQcFail, RtoClose
    <2> QED BY <2>1, <2>2, <2>3
  <1>3. CASE ExchangeRoute(a)
    <2>1. PICK i \in Exchanges :
            \/ ExchangeRequest(a, i) \/ ExchangeApprove(a, i) \/ ExchangeReceiveReturn(a, i)
            \/ ExchangeReserveReplacement(a, i) \/ ExchangeShipReplacement(a, i)
            \/ ExchangeClose(a, i)
      BY <1>3 DEF ExchangeRoute
    <2>2. CASE ExchangeRequest(a, i)
      BY <2>2, IntentOpens, Kinds DEF ExchangeRequest
    <2>3. CASE ExchangeApprove(a, i) \/ ExchangeReceiveReturn(a, i)
                  \/ ExchangeReserveReplacement(a, i) \/ ExchangeShipReplacement(a, i)
                  \/ ExchangeClose(a, i)
      BY <2>3, ExchangeBegins
      DEF ExchangeApprove, ExchangeReceiveReturn, ExchangeReserveReplacement,
          ExchangeShipReplacement, ExchangeClose
    <2> QED BY <2>1, <2>2, <2>3
  <1>4. CASE PaymentRoute(a)
    BY <1>4, CaptureBegins, CodRefundBegins DEF PaymentRoute
  <1>5. CASE OrderPlaced(a)
    <2>1. AdmitAttempt(a, 1, "order_placed", "request") /\ known' = "busy"
      BY <1>5 DEF OrderPlaced
    <2> QED BY <2>1, AttemptBegins, Kinds DEF Requesting
  <1>6. CASE RetryFulfillment(a)
    <2>1. PICK n \in Attempts : AdmitAttempt(a, n, "retry", "request")
      BY <1>6 DEF RetryFulfillment
    <2>2. known' = known
      BY <1>6 DEF RetryFulfillment
    <2> QED BY <2>1, <2>2, AttemptBegins DEF Requesting
  <1>7. CASE RebuildShipmentContract(a)
    <2>1. known' = known
      BY <1>7 DEF RebuildShipmentContract
    <2>2. CASE AdmitAttempt(a, 1, "rebuild", "request")
      BY <2>1, <2>2, AttemptBegins, Kinds DEF Requesting
    <2>3. CASE \E n \in Latest(meta) : AdmitAttempt(a, n, "contract", "persist")
      BY <2>1, <2>3, AttemptBegins DEF Latest, Tried
    <2> QED BY <1>7, <2>2, <2>3 DEF RebuildShipmentContract
  <1>8. CASE \E n \in Attempts :
                 \/ \E to \in FulfillmentStatus : AdminStatus(a, n, to)
                 \/ \E s \in DOMAIN StatusMap : ShippingStatusUpdated(a, n, s)
    <2>1. PICK n \in Attempts :
                 \/ \E to \in FulfillmentStatus : AdminStatus(a, n, to)
                 \/ \E s \in DOMAIN StatusMap : ShippingStatusUpdated(a, n, s)
      BY <1>8
    <2>2. CASE \E to \in FulfillmentStatus : AdminStatus(a, n, to)
      <3>1. PICK to \in FulfillmentStatus : StatusAsked(a, n, <<to>>)
        BY <2>2 DEF AdminStatus
      <3>2. <<to>> \in Seq(FulfillmentStatus)
        OBVIOUS
      <3> QED BY <3>1, <3>2, StatusBegins
    <2>3. CASE \E s \in DOMAIN StatusMap : ShippingStatusUpdated(a, n, s)
      BY <2>3, StatusBegins, Cascades DEF ShippingStatusUpdated
    <2> QED BY <2>1, <2>2, <2>3
  <1> QED BY <1>1, <1>2, <1>3, <1>4, <1>5, <1>6, <1>7, <1>8 DEF Asked, FulfillmentRoute

-----------------------------------------------------------------------------
(* Steps of what is under way, other than writing the order. *)

\* A job that goes on, without having read anything new and without beginning a refund.
LEMMA GoneOnStep ==
    ASSUME Typed, NEW a \in Actors, NEW k \in Job, Shape(k), GoodMeta(k.snap),
           actor' = [actor EXCEPT ![a] = k],
           UNCHANGED <<meta, cod, stock, moved, refunds, refundEvents, announced>>,
           overlaps' = overlaps, faults' \in 0..MaxFaults, captured' \in BOOLEAN,
           raced' = raced, overbooked' = overbooked,
           disturbed \subseteq disturbed', disturbed' \subseteq Things,
           \A x \in Things :
              InJob(k, x) => InJob(actor[a], x) \/ Overlapped(a, x) \subseteq disturbed',
           k.snap \in {meta, NoMetadata, actor[a].snap},
           k.i = None,
           k.n \in Attempts /\ k.pc = "persist" => k.snap = meta,
           Recording(actor[a]) # {} => actor[a].i \in disturbed',
           k.pc \in {"idle", "request", "reread", "failed", "persist", "status"},
           known' \in {"no", "busy", "done"},
           known' = "done" => known = "done" \/ meta.fi[1] # "none" \/ NoteLost(a)
    PROVE  TypeOK' /\ \E q \in Job : JobStep(a, q)
  <1>1. TypeOK
    BY DEF Typed
  <1>2. k.i \notin Intents /\ k.op # "prepaid_refund" /\ k.op # "return_qc_pass"
    BY Kinds DEF Shape, AttemptJob, OtherJob, Requesting, NoJob
  <1>3. Recording(k) = {}
    BY <1>2, Kinds, NoMoves DEF Shape, AttemptJob, OtherJob, Recording, NoJob
  <1>4. JobStep(a, k)
    BY <1>2, <1>3 DEF JobStep
  <1>5. TypeOK'
    BY <1>1 DEF TypeOK, Things
  <1> QED BY <1>4, <1>5

\* What an actor may do next depends on the point where its job stands.
LEMMA Held ==
    ASSUME Typed, NEW a \in Actors
    PROVE  /\ At(a, "capture") => actor[a].i = None /\ actor[a].n = None
           /\ actor[a].pc \in {"request", "emit", "reread", "failed", "status"} =>
                 /\ actor[a].i = None /\ actor[a].n \in Attempts /\ AttemptJob(actor[a])
           /\ At(a, "check") => actor[a].i \in Exchanges /\ ExchangeJob(actor[a])
           /\ At(a, "refund") => actor[a].i \in Returns /\ actor[a].op = "return_qc_pass"
                                    /\ ReturnJob(actor[a])
           /\ At(a, "move") => actor[a].i \in Intents
           /\ actor[a].i \in Returns => ReturnJob(actor[a])
           /\ actor[a].i \in Rtos => RtoJob(actor[a])
           /\ actor[a].i \in Exchanges => ExchangeJob(actor[a])
           /\ actor[a].n \in Attempts => AttemptJob(actor[a])
           /\ actor[a].i = None \/ actor[a].n = None
  <1>1. Shape(actor[a])
    BY Given
  <1>2. CASE actor[a].i \in Returns /\ ReturnJob(actor[a])
    BY <1>2, Kinds DEF At, ReturnJob
  <1>3. CASE actor[a].i \in Rtos /\ RtoJob(actor[a])
    BY <1>3, Kinds DEF At, RtoJob
  <1>4. CASE actor[a].i \in Exchanges /\ ExchangeJob(actor[a])
    BY <1>4, Kinds DEF At, ExchangeJob
  <1>5. CASE actor[a].n \in Attempts /\ AttemptJob(actor[a])
    <2>1. /\ actor[a].i = None
          /\ actor[a].pc \in {"request", "emit", "reread", "failed", "persist", "status"}
      BY <1>5 DEF AttemptJob
    <2> QED BY <1>5, <2>1, Kinds DEF At
  <1>6. CASE OtherJob(actor[a])
    BY <1>6, Kinds DEF At, OtherJob, NoJob
  <1> QED BY <1>1, <1>2, <1>3, <1>4, <1>5, <1>6 DEF Shape

\* A quality check passed, and the refund of a prepaid return, are about a return.
LEMMA RefundJobs ==
    ASSUME NEW j, Shape(j)
    PROVE  /\ j.op = "return_qc_pass" =>
                 /\ j.i \in Returns /\ j.note \in {j.i} \cup OtherNotes /\ j.note \in Notes
                 /\ j.pc \in {"move", "refund", "refunding", "persist"}
           /\ j.op = "prepaid_refund" =>
                 /\ j.i \in Returns /\ j.note = j.i /\ j.pc \in {"refunding", "persist"}
  BY Kinds DEF Shape, ReturnJob, RtoJob, ExchangeJob, AttemptJob, OtherJob, NoJob, Requesting

LEMMA HeldAttempt ==
    ASSUME Typed, NEW a \in Actors,
           actor[a].op \in {"contract", "mark_pending", "status"} \cup Requesting
    PROVE  actor[a].i = None /\ actor[a].n \in Attempts /\ AttemptJob(actor[a])
  <1>1. actor[a].op \in {"contract", "mark_pending", "status", "order_placed", "retry", "rebuild"}
    BY DEF Requesting
  <1>2. ~ReturnJob(actor[a])
    BY <1>1 DEF ReturnJob
  <1>3. ~RtoJob(actor[a])
    BY <1>1 DEF RtoJob
  <1>4. ~ExchangeJob(actor[a])
    BY <1>1 DEF ExchangeJob
  <1>5. ~OtherJob(actor[a])
    BY <1>1 DEF OtherJob, NoJob
  <1> QED BY <1>2, <1>3, <1>4, <1>5, Given DEF Shape, AttemptJob

LEMMA NoJobFields ==
    /\ NoJob.snap = NoMetadata /\ NoJob.i = None /\ NoJob.n = None /\ NoJob.pc = "idle"
    /\ NoJob.op = "none"
    /\ \A x \in Things : ~InJob(NoJob, x)
  BY Kinds DEF NoJob, InJob, Things

\* A job that ends, and leaves nothing to record behind or says so.
LEMMA EndStep ==
    ASSUME Typed, NEW a \in Actors, End(a),
           UNCHANGED <<meta, cod, stock, moved, refunds, refundEvents, announced>>,
           overlaps' = overlaps, faults' \in 0..MaxFaults, captured' \in BOOLEAN,
           raced' = raced, overbooked' = overbooked,
           disturbed \subseteq disturbed', disturbed' \subseteq Things,
           Recording(actor[a]) # {} => actor[a].i \in disturbed',
           known' \in {"no", "busy", "done"},
           known' = "done" => known = "done" \/ meta.fi[1] # "none" \/ NoteLost(a)
    PROVE  TypeOK' /\ \E k \in Job : JobStep(a, k)
  <1>1. actor' = [actor EXCEPT ![a] = NoJob]
    BY DEF End, Take
  <1> QED BY <1>1, NoJobFields, NoJobType, Kinds, GoneOnStep

\* The job with another point to go on from.
LEMMA WithPc ==
    ASSUME Typed, NEW a \in Actors, NEW pc, NEW k, k = [actor[a] EXCEPT !.pc = pc],
           pc \in {"move", "refund", "refunding", "persist", "reread"}
    PROVE  /\ k \in Job /\ GoodMeta(k.snap)
           /\ k.pc = pc /\ k.op = actor[a].op /\ k.i = actor[a].i /\ k.n = actor[a].n
           /\ k.note = actor[a].note /\ k.todo = actor[a].todo /\ k.snap = actor[a].snap
  <1>1. actor[a] \in Job /\ GoodMeta(actor[a].snap)
    BY Given
  <1>2. k \in Job
    BY <1>1 DEF Job
  <1>3. /\ k.pc = pc /\ k.op = actor[a].op /\ k.i = actor[a].i /\ k.n = actor[a].n
        /\ k.note = actor[a].note /\ k.todo = actor[a].todo /\ k.snap = actor[a].snap
    BY <1>1 DEF Job
  <1> QED BY <1>1, <1>2, <1>3

LEMMA AvailabilityStep ==
    ASSUME Typed, NEW a \in Actors, AssertReplacementAvailability(a)
    PROVE  TypeOK' /\ \E k \in Job : JobStep(a, k)
  <1>1. /\ UNCHANGED <<orderVars, moved, disturbed, raced>> /\ UNCHANGED <<overlaps, faults>>
        /\ At(a, "check") /\ TypeOK
    BY DEF AssertReplacementAvailability, Quiet, Typed
  <1>2. actor[a].i \in Exchanges /\ ExchangeJob(actor[a]) /\ Recording(actor[a]) = {}
    BY <1>1, Held DEF At, Recording
  <1>3. actor[a].op = "exchange_reserve_replacement"
    BY <1>1, <1>2 DEF ExchangeJob, At
  <1>4. CASE stock["sellable"] >= 1
    <2> DEFINE k == [actor[a] EXCEPT !.pc = "move"]
    <2>1. /\ k \in Job /\ GoodMeta(k.snap)
          /\ k.pc = "move" /\ k.op = actor[a].op /\ k.i = actor[a].i /\ k.n = actor[a].n
          /\ k.note = actor[a].note /\ k.todo = actor[a].todo /\ k.snap = actor[a].snap
      BY WithPc
    <2>2. /\ actor' = [actor EXCEPT ![a] = k]
          /\ overbooked' = (overbooked \/ \E b \in Actors : Reserving(b))
      BY <1>1, <1>4 DEF AssertReplacementAvailability, GoTo, TypeOK
    <2> HIDE DEF k
    <2>3. Shape(k)
      BY <1>2, <1>3, <2>1 DEF Shape, ExchangeJob
    <2>4. Recording(k) = {} /\ (overbooked => overbooked')
      BY <2>1, <2>2 DEF Recording
    <2>5. \A x \in Things : InJob(k, x) => InJob(actor[a], x)
      BY <2>1 DEF InJob
    <2>6. k.n = None
      BY <1>2, <2>1 DEF ExchangeJob
    <2>7. JobStep(a, k)
      BY <1>1, <1>2, <1>3, <1>4, <2>1, <2>2, <2>3, <2>4, <2>5, <2>6, Kinds
      DEF JobStep, orderVars
    <2>8. TypeOK'
      BY <1>1, <2>1, <2>2 DEF TypeOK, orderVars
    <2> QED BY <2>1, <2>7, <2>8
  <1>5. CASE ~(stock["sellable"] >= 1)
    <2>1. End(a) /\ UNCHANGED overbooked
      BY <1>5 DEF AssertReplacementAvailability
    <2> QED BY <1>1, <1>2, <2>1, EndStep DEF orderVars, TypeOK, Things
  <1> QED BY <1>4, <1>5

LEMMA RecordCodStep ==
    ASSUME Typed, NEW a \in Actors, RecordCodRefund(a)
    PROVE  TypeOK' /\ \E k \in Job : JobStep(a, k)
  <1>1. /\ UNCHANGED <<orderVars, moved, disturbed, overbooked>>
        /\ UNCHANGED <<overlaps, faults>>
        /\ At(a, "refund") /\ TypeOK
    BY DEF RecordCodRefund, Quiet, Typed
  <1>2. /\ actor[a].i \in Returns /\ ReturnJob(actor[a]) /\ actor[a].op = "return_qc_pass"
        /\ actor[a].pc = "refund"
    BY <1>1, Held DEF At
  <1>3. actor[a].note \in {actor[a].i} \cup OtherNotes /\ actor[a].note \in Notes
    BY <1>2, Kinds DEF ReturnJob
  <1>4. PICK pc \in {"persist", "refunding"} :
           /\ actor' = [actor EXCEPT ![a].pc = pc]
           /\ IF refunds[actor[a].note] > 0 THEN pc = "persist" /\ raced' = raced
              ELSE pc = "refunding" /\ AboutToRefund(a, actor[a].note)
    BY DEF RecordCodRefund, GoTo
  <1> DEFINE k == [actor[a] EXCEPT !.pc = pc]
  <1>5. /\ k \in Job /\ GoodMeta(k.snap)
        /\ k.pc = pc /\ k.op = actor[a].op /\ k.i = actor[a].i /\ k.n = actor[a].n
        /\ k.note = actor[a].note /\ k.todo = actor[a].todo /\ k.snap = actor[a].snap
    BY WithPc
  <1>6. actor' = [actor EXCEPT ![a] = k]
    BY <1>1, <1>4 DEF TypeOK
  <1> HIDE DEF k
  <1>7. Shape(k)
    BY <1>2, <1>5 DEF Shape, ReturnJob
  <1>8. Recording(k) = Recording(actor[a])
    BY <1>2, <1>5 DEF Recording
  <1>9. \A x \in Things : InJob(k, x) => InJob(actor[a], x)
    BY <1>5 DEF InJob
  <1>10. /\ raced \subseteq raced' /\ raced' \subseteq Notes
         /\ k.pc = "refunding" /\ (\E b \in Actors \ {a} : Refunding(b, k.note)) =>
                k.note \in raced'
    BY <1>1, <1>3, <1>4, <1>5 DEF AboutToRefund, Refunding, TypeOK
  <1>11. k.pc = "refunding" => refunds[k.note] = 0
    BY <1>1, <1>3, <1>4, <1>5 DEF TypeOK
  <1>12. k.n = None
    BY <1>2, <1>5 DEF ReturnJob
  <1>13. JobStep(a, k)
    BY <1>1, <1>2, <1>4, <1>5, <1>6, <1>7, <1>8, <1>9, <1>10, <1>11, <1>12, Kinds
    DEF JobStep, orderVars
  <1>14. TypeOK'
    BY <1>1, <1>5, <1>6, <1>10 DEF TypeOK, orderVars
  <1> QED BY <1>5, <1>13, <1>14

LEMMA PrepaidAskedStep ==
    ASSUME Typed, NEW a \in Actors, RequestPrepaidRefund(a)
    PROVE  TypeOK' /\ \E k \in Job : JobStep(a, k)
  <1>1. /\ UNCHANGED <<meta, cod, captured, refunds, stock, announced, known,
                       moved, disturbed, raced, overbooked>>
        /\ UNCHANGED <<overlaps, faults>>
        /\ refundEvents' = refundEvents \cup {actor[a].i}
        /\ At(a, "refund") /\ ~cod /\ TypeOK
    BY DEF RequestPrepaidRefund, Quiet, Typed
  <1>2. /\ actor[a].i \in Returns /\ ReturnJob(actor[a]) /\ actor[a].op = "return_qc_pass"
        /\ actor[a].pc = "refund"
    BY <1>1, Held DEF At
  <1> DEFINE k == [actor[a] EXCEPT !.pc = "persist"]
  <1>3. /\ k \in Job /\ GoodMeta(k.snap)
        /\ k.pc = "persist" /\ k.op = actor[a].op /\ k.i = actor[a].i /\ k.n = actor[a].n
        /\ k.note = actor[a].note /\ k.todo = actor[a].todo /\ k.snap = actor[a].snap
    BY WithPc
  <1>4. actor' = [actor EXCEPT ![a] = k]
    BY <1>1 DEF RequestPrepaidRefund, GoTo, TypeOK
  <1> HIDE DEF k
  <1>5. Shape(k)
    BY <1>2, <1>3 DEF Shape, ReturnJob
  <1>6. Recording(k) = Recording(actor[a])
    BY <1>2, <1>3 DEF Recording
  <1>7. \A x \in Things : InJob(k, x) => InJob(actor[a], x)
    BY <1>3 DEF InJob
  <1>8. k.n = None
    BY <1>2, <1>3 DEF ReturnJob
  <1>9. JobStep(a, k)
    BY <1>1, <1>2, <1>3, <1>4, <1>5, <1>6, <1>7, <1>8, Kinds DEF JobStep
  <1>10. TypeOK'
    BY <1>1, <1>2, <1>3, <1>4 DEF TypeOK
  <1> QED BY <1>3, <1>9, <1>10

LEMMA RejectedStep ==
    ASSUME Typed, NEW a \in Actors, CodRefundRejected(a)
    PROVE  TypeOK' /\ \E k \in Job : JobStep(a, k)
  <1>1. actor[a].i \in Things /\ TypeOK
    BY Held, Kinds DEF CodRefundRejected, Typed, Things
  <1> QED BY <1>1, EndStep DEF CodRefundRejected, orderVars, Quiet, TypeOK, Things

LEMMA CaptureStep ==
    ASSUME Typed, NEW a \in Actors, CaptureCodPayment(a)
    PROVE  TypeOK' /\ \E k \in Job : JobStep(a, k)
  <1>1. Recording(actor[a]) = {} /\ TypeOK
    BY DEF CaptureCodPayment, At, Recording, Typed
  <1> QED BY <1>1, EndStep DEF CaptureCodPayment, Quiet, TypeOK, Things

\* updateReturnRefundState without a return writes nothing.
LEMMA NothingStep ==
    ASSUME Typed, NEW a \in Actors, UpdateReturnRefundState(a), WriteNothing(a)
    PROVE  TypeOK' /\ \E k \in Job : JobStep(a, k)
  <1>1. Recording(actor[a]) = {} /\ TypeOK
    BY NoMoves DEF UpdateReturnRefundState, Recording, Typed
  <1> QED BY <1>1, EndStep DEF UpdateReturnRefundState, WriteNothing, Quiet, TypeOK, Things

\* A job on an attempt that goes on with the same attempt.
LEMMA AttemptGoesOn ==
    ASSUME Typed, NEW a \in Actors, NEW k \in Job, actor' = [actor EXCEPT ![a] = k],
           actor[a].pc \in {"request", "reread", "failed", "status"},
           Shape(k), k.i = None, k.n \in {actor[a].n, None},
           k.pc \in {"idle", "reread", "persist", "status"},
           k.snap \in {meta, NoMetadata, actor[a].snap},
           k.pc = "persist" => k.snap = meta,
           UNCHANGED <<orderVars, moved, disturbed, raced, overbooked, overlaps, faults>>
    PROVE  TypeOK' /\ \E q \in Job : JobStep(a, q)
  <1>1. Recording(actor[a]) = {} /\ TypeOK
    BY DEF Recording, Typed
  <1>2. GoodMeta(k.snap)
    BY Given, NoMetadataType
  <1>3. \A x \in Things : InJob(k, x) => InJob(actor[a], x)
    BY Kinds DEF InJob, Things
  <1> QED BY <1>1, <1>2, <1>3, GoneOnStep DEF orderVars, TypeOK, Things

\* What the end of a request does to the job and to the subscriber's memory.
LEMMA RequestedIs ==
    ASSUME Typed, NEW a \in Actors, Requested(a), actor[a].pc \in {"request", "emit"}
    PROVE  \E k \in Job :
              /\ actor' = [actor EXCEPT ![a] = k]
              /\ Shape(k) /\ GoodMeta(k.snap) /\ k.i = None
              /\ k = NoJob \/ (k.n = actor[a].n /\ k.pc = "reread" /\ k.snap = actor[a].snap)
              /\ known' = known \/ (known' = "done" /\ actor[a].n = 1)
  <1>1. actor[a].i = None /\ actor[a].n \in Attempts /\ AttemptJob(actor[a])
    BY Held
  <1>2. CASE actor[a].op = "rebuild"
    <2> DEFINE k == [actor[a] EXCEPT !.pc = "reread"]
    <2>1. /\ k \in Job /\ GoodMeta(k.snap)
          /\ k.pc = "reread" /\ k.op = actor[a].op /\ k.i = actor[a].i /\ k.n = actor[a].n
          /\ k.snap = actor[a].snap
      BY WithPc
    <2>2. actor' = [actor EXCEPT ![a] = k] /\ known' = known
      BY <1>2 DEF Requested, GoTo, Typed, TypeOK
    <2> HIDE DEF k
    <2>3. Shape(k)
      BY <1>1, <1>2, <2>1 DEF Shape, AttemptJob, Requesting
    <2> QED BY <1>1, <2>1, <2>2, <2>3
  <1>3. CASE actor[a].op # "rebuild"
    <2>1. /\ actor' = [actor EXCEPT ![a] = NoJob]
          /\ known' = IF actor[a].op = "order_placed" THEN "done" ELSE known
      BY <1>3 DEF Requested, End, Take
    <2>2. actor[a].op = "order_placed" => actor[a].n = 1
      BY <1>1 DEF AttemptJob, Requesting
    <2> QED BY <2>1, <2>2, NoJobType, NoJobFields
  <1> QED BY <1>2, <1>3

LEMMA RequestStep ==
    ASSUME Typed, NEW a \in Actors, RequestFulfillment(a)
    PROVE  TypeOK' /\ \E k \in Job : JobStep(a, k)
  <1>1. /\ UNCHANGED <<meta, cod, captured, refunds, stock, refundEvents, announced,
                       moved, disturbed, raced, overbooked, overlaps, faults>>
        /\ At(a, "request") /\ TypeOK
    BY DEF RequestFulfillment, Quiet, Typed
  <1>2. /\ actor[a].i = None /\ actor[a].n \in Attempts /\ AttemptJob(actor[a])
        /\ actor[a].pc = "request" /\ Recording(actor[a]) = {}
    BY <1>1, Held DEF At, Recording
  <1>3. CASE meta.fi[actor[a].n] # "none"
    <2>1. PICK k \in Job :
              /\ actor' = [actor EXCEPT ![a] = k]
              /\ Shape(k) /\ GoodMeta(k.snap) /\ k.i = None
              /\ k = NoJob \/ (k.n = actor[a].n /\ k.pc = "reread" /\ k.snap = actor[a].snap)
              /\ known' = known \/ (known' = "done" /\ actor[a].n = 1)
      BY <1>2, <1>3, RequestedIs DEF RequestFulfillment
    <2>2. \A x \in Things : InJob(k, x) => InJob(actor[a], x)
      BY <2>1, NoJobFields, Kinds DEF InJob, Things
    <2>3. /\ known' \in {"no", "busy", "done"}
          /\ known' = "done" => known = "done" \/ meta.fi[1] # "none"
      BY <1>1, <1>3, <2>1 DEF TypeOK
    <2>4. /\ k.pc \in {"idle", "reread"}
          /\ k.snap \in {meta, NoMetadata, actor[a].snap}
      BY <2>1, NoJobFields
    <2> QED BY <1>1, <1>2, <2>1, <2>2, <2>3, <2>4, GoneOnStep DEF TypeOK, Things
  <1>4. CASE meta.fi[actor[a].n] = "none"
    <2> DEFINE k == [actor[a] EXCEPT !.pc = "persist", !.snap = meta]
    <2>1. actor' = [actor EXCEPT ![a] = k] /\ known' = known
      BY <1>4 DEF RequestFulfillment, Take
    <2>2. k \in Job
      BY <1>1, Given DEF Job
    <2>3. k.pc = "persist" /\ k.op = actor[a].op /\ k.i = None /\ k.n = actor[a].n /\ k.snap = meta
      BY <1>2, Given DEF Job
    <2> HIDE DEF k
    <2>4. Shape(k)
      BY <1>2, <1>4, <2>3 DEF Shape, AttemptJob
    <2> QED BY <1>1, <1>2, <2>1, <2>2, <2>3, <2>4, AttemptGoesOn DEF orderVars
  <1> QED BY <1>3, <1>4

LEMMA EmitStep ==
    ASSUME Typed, NEW a \in Actors, EmitFulfillmentRequested(a)
    PROVE  TypeOK' /\ \E k \in Job : JobStep(a, k)
  <1>1. /\ UNCHANGED <<meta, cod, captured, refunds, stock, refundEvents,
                       moved, disturbed, raced, overbooked, overlaps, faults>>
        /\ announced' = [announced EXCEPT ![actor[a].n] = @ + 1]
        /\ At(a, "emit") /\ TypeOK
    BY DEF EmitFulfillmentRequested, Quiet, Typed
  <1>2. /\ actor[a].i = None /\ actor[a].n \in Attempts
        /\ actor[a].pc = "emit" /\ Recording(actor[a]) = {}
    BY <1>1, Held DEF At, Recording
  <1>3. PICK k \in Job :
              /\ actor' = [actor EXCEPT ![a] = k]
              /\ Shape(k) /\ GoodMeta(k.snap) /\ k.i = None
              /\ k = NoJob \/ (k.n = actor[a].n /\ k.pc = "reread" /\ k.snap = actor[a].snap)
              /\ known' = known \/ (known' = "done" /\ actor[a].n = 1)
    BY <1>2, RequestedIs DEF EmitFulfillmentRequested
  <1>4. /\ k.pc \in {"idle", "reread"}
        /\ k.snap \in {meta, NoMetadata, actor[a].snap}
        /\ k.op # "prepaid_refund" /\ k.op # "return_qc_pass" /\ k.i \notin Intents
    BY <1>2, <1>3, NoJobFields, Kinds DEF Shape, AttemptJob, OtherJob, Requesting
  <1>5. Recording(k) = {} /\ \A x \in Things : InJob(k, x) => InJob(actor[a], x)
    BY <1>3, <1>4, NoJobFields, Kinds DEF InJob, Things, Recording
  <1>6. known' = "done" => known = "done" \/ announced'[1] > 0
    <2>1. actor[a].n = 1 => announced'[1] = announced[1] + 1 /\ announced[1] \in Nat
      BY <1>1, <1>2 DEF TypeOK
    <2> QED BY <1>3, <2>1
  <1>7. JobStep(a, k)
    BY <1>1, <1>2, <1>3, <1>4, <1>5, <1>6 DEF JobStep
  <1>8. TypeOK'
    BY <1>1, <1>2, <1>3 DEF TypeOK
  <1> QED BY <1>7, <1>8

LEMMA RereadStep ==
    ASSUME Typed, NEW a \in Actors, RereadForRebuild(a)
    PROVE  TypeOK' /\ \E k \in Job : JobStep(a, k)
  <1>1. /\ UNCHANGED <<orderVars, moved, raced, overbooked, overlaps, faults>>
        /\ At(a, "reread") /\ TypeOK
    BY DEF RereadForRebuild, Quiet, Typed
  <1>2. /\ actor[a].i = None /\ actor[a].n \in Attempts /\ actor[a].pc = "reread"
        /\ Recording(actor[a]) = {}
    BY <1>1, Held DEF At, Recording
  <1>3. CASE End(a) /\ UNCHANGED disturbed
    BY <1>1, <1>2, <1>3, EndStep DEF orderVars, TypeOK, Things
  <1>4. ASSUME NEW n \in Latest(meta),
               Take(a, [actor[a] EXCEPT !.pc = "persist", !.op = "contract",
                                        !.n = n, !.snap = meta]),
               disturbed' = disturbed \cup Overlapped(a, n)
        PROVE  TypeOK' /\ \E k \in Job : JobStep(a, k)
    <2> DEFINE k == [actor[a] EXCEPT !.pc = "persist", !.op = "contract", !.n = n, !.snap = meta]
    <2>1. actor' = [actor EXCEPT ![a] = k] /\ n \in Attempts
      BY <1>4 DEF Take, Latest, Tried
    <2>2. k \in Job
      BY <1>1, <2>1, Given DEF Job
    <2>3. k.pc = "persist" /\ k.op = "contract" /\ k.i = None /\ k.n = n /\ k.snap = meta
      BY <1>2, Given DEF Job
    <2> HIDE DEF k
    <2>4. Shape(k) /\ GoodMeta(k.snap)
      BY <2>1, <2>3, Given DEF Shape, AttemptJob
    <2>5. \A x \in Things : InJob(k, x) => Overlapped(a, x) \subseteq disturbed'
      BY <1>4, <2>3, Kinds DEF InJob, Things
    <2>6. disturbed \subseteq disturbed' /\ disturbed' \subseteq Things
      BY <1>1, <1>4, <2>1, OverlapType DEF TypeOK, Things
    <2> QED BY <1>1, <1>2, <2>1, <2>2, <2>3, <2>4, <2>5, <2>6, GoneOnStep DEF orderVars, TypeOK
  <1> QED BY <1>3, <1>4 DEF RereadForRebuild

LEMMA ReadPendingStep ==
    ASSUME Typed, NEW a \in Actors, ReadForPending(a)
    PROVE  TypeOK' /\ \E k \in Job : JobStep(a, k)
  <1> DEFINE k == [actor[a] EXCEPT !.pc = "persist", !.op = "mark_pending", !.snap = meta]
  <1>1. /\ UNCHANGED <<orderVars, moved, disturbed, raced, overbooked, overlaps, faults>>
        /\ At(a, "failed") /\ actor' = [actor EXCEPT ![a] = k]
    BY DEF ReadForPending, Quiet, Take
  <1>2. /\ actor[a].i = None /\ actor[a].n \in Attempts /\ AttemptJob(actor[a])
        /\ actor[a].pc = "failed"
    BY <1>1, Held DEF At
  <1>3. actor[a].n = 1
    BY <1>2 DEF AttemptJob
  <1>4. k \in Job
    BY Given DEF Job
  <1>5. k.pc = "persist" /\ k.op = "mark_pending" /\ k.i = None /\ k.n = actor[a].n /\ k.snap = meta
    BY <1>2, Given DEF Job
  <1> HIDE DEF k
  <1>6. Shape(k)
    BY <1>2, <1>3, <1>5 DEF Shape, AttemptJob
  <1> QED BY <1>1, <1>2, <1>4, <1>5, <1>6, AttemptGoesOn

LEMMA NextTargetStep ==
    ASSUME Typed, NEW a \in Actors, TransitionFulfillmentStatus(a)
    PROVE  TypeOK' /\ \E k \in Job : JobStep(a, k)
  <1> DEFINE k == Try(actor[a])
  <1>1. /\ UNCHANGED <<orderVars, moved, disturbed, raced, overbooked, overlaps, faults>>
        /\ At(a, "status") /\ actor' = [actor EXCEPT ![a] = k]
    BY DEF TransitionFulfillmentStatus, Quiet, Take
  <1>2. /\ actor[a].i = None /\ actor[a].n \in Attempts /\ actor[a].op = "status"
        /\ actor[a].pc = "status"
    BY <1>1, Held DEF At, AttemptJob, Requesting
  <1>3. k \in Job /\ Shape(k)
    BY <1>2, Given, TryResult
  <1>4. \/ k = NoJob
        \/ /\ k.i = None /\ k.n = actor[a].n
           /\ \/ k.pc = "persist" /\ k.snap = meta
              \/ k.pc = "status" /\ k.snap = actor[a].snap
    BY <1>2, Given, TryResult
  <1> HIDE DEF k
  <1>5. /\ k.i = None /\ k.n \in {actor[a].n, None} /\ k.pc \in {"idle", "persist", "status"}
        /\ k.snap \in {meta, NoMetadata, actor[a].snap}
        /\ k.pc = "persist" => k.snap = meta
    BY <1>4, NoJobFields
  <1> QED BY <1>1, <1>2, <1>3, <1>5, AttemptGoesOn

LEMMA HalfDoneIs ==
    ASSUME Typed, NEW a \in Actors
    PROVE  /\ HalfDone(a) = IF Recording(actor[a]) # {} THEN {actor[a].i} ELSE {}
           /\ HalfDone(a) \subseteq Things
  <1>1. HalfDone(a) = IF Recording(actor[a]) # {} THEN {actor[a].i} ELSE {}
    BY DEF HalfDone, Recording
  <1>2. Recording(actor[a]) # {} => actor[a].i \in Intents
    <2>1. CASE actor[a].i = None
      <3>1. actor[a].op \in {"cod_capture", "cod_refund", "contract", "mark_pending", "status",
                            "none"} \cup Requesting
        BY <2>1, Given, Kinds DEF Shape, AttemptJob, OtherJob, NoJob
      <3> QED BY <3>1, NoMoves DEF Recording
    <2>2. CASE actor[a].i # None
      BY <2>2, Given DEF Job
    <2> QED BY <2>1, <2>2
  <1> QED BY <1>1, <1>2 DEF Things

LEMMA FailStep ==
    ASSUME Typed, NEW a \in Actors, Fail(a)
    PROVE  TypeOK' /\ \E k \in Job : JobStep(a, k)
  <1> DEFINE noting == actor[a].pc = "failed" \/ actor[a].op = "mark_pending"
  <1>1. /\ UNCHANGED <<meta, cod, captured, refunds, stock, refundEvents, announced,
                       moved, raced, overbooked, overlaps>>
        /\ disturbed' = disturbed \cup HalfDone(a)
        /\ TypeOK
    BY DEF Fail, Typed
  <1>2. faults' \in 0..MaxFaults
    BY <1>1, OrderConstants DEF Fail, TypeOK
  <1>3. /\ disturbed \subseteq disturbed' /\ disturbed' \subseteq Things
        /\ Recording(actor[a]) # {} => actor[a].i \in disturbed'
    BY <1>1, HalfDoneIs, Kinds DEF TypeOK, Things
  <1>4. CASE /\ actor[a].op = "order_placed" /\ ~noting
             /\ Take(a, [actor[a] EXCEPT !.pc = "failed", !.snap = NoMetadata])
             /\ UNCHANGED known
    <2> DEFINE k == [actor[a] EXCEPT !.pc = "failed", !.snap = NoMetadata]
    <2>1. actor' = [actor EXCEPT ![a] = k]
      BY <1>4 DEF Take
    <2>2. actor[a].i = None /\ actor[a].n \in Attempts /\ AttemptJob(actor[a])
      <3>1. ~(actor[a].i \in Returns /\ ReturnJob(actor[a]))
        BY <1>4 DEF ReturnJob
      <3>2. ~(actor[a].i \in Rtos /\ RtoJob(actor[a]))
        BY <1>4 DEF RtoJob
      <3>3. ~(actor[a].i \in Exchanges /\ ExchangeJob(actor[a]))
        BY <1>4 DEF ExchangeJob
      <3>4. ~OtherJob(actor[a])
        BY <1>4 DEF OtherJob, NoJob
      <3> QED BY <3>1, <3>2, <3>3, <3>4, Given DEF Shape, AttemptJob
    <2>3. k \in Job
      BY Given, NoMetadataType DEF Job
    <2>4. /\ k.pc = "failed" /\ k.op = "order_placed" /\ k.i = None /\ k.n = actor[a].n
          /\ k.snap = NoMetadata
      BY <1>4, <2>2, Given DEF Job
    <2> HIDE DEF k
    <2>5. Shape(k) /\ GoodMeta(k.snap)
      BY <1>4, <2>2, <2>4, NoMetadataType DEF Shape, AttemptJob, Requesting
    <2>6. \A x \in Things : InJob(k, x) => InJob(actor[a], x)
      BY <2>2, <2>4 DEF InJob
    <2> QED BY <1>1, <1>2, <1>3, <1>4, <2>1, <2>3, <2>4, <2>5, <2>6, GoneOnStep DEF TypeOK
  <1>5. CASE End(a) /\ known' = IF noting THEN "done" ELSE known
    <2>1. /\ known' \in {"no", "busy", "done"}
          /\ known' = "done" => known = "done" \/ NoteLost(a)
      BY <1>1, <1>5 DEF TypeOK, NoteLost, At
    <2> QED BY <1>1, <1>2, <1>3, <1>5, <2>1, EndStep DEF TypeOK
  <1> QED BY <1>4, <1>5 DEF Fail

-----------------------------------------------------------------------------
(* Stock and money. *)

LEMMA AdjustStep ==
    ASSUME Typed, NEW a \in Actors, NEW adjustment \in [Buckets -> Int],
           Adjust(a, adjustment, IF actor[a].op = "return_qc_pass" THEN "refund" ELSE "persist"),
           adjustment["sellable"] >= (IF Reserving(a) THEN -1 ELSE 0),
           actor[a].i \in Intents,
           MovesOf(actor[a].op) = {Movement[actor[a].op]},
           Movement[actor[a].op] \in Modes,
           Movement[actor[a].op] \notin actor[a].snap.it[actor[a].i].moves,
           \A k : (k.i = actor[a].i /\ k.op = actor[a].op /\ k.n = actor[a].n
                     /\ k.note = actor[a].note /\ k.snap = actor[a].snap
                     /\ k.pc = IF actor[a].op = "return_qc_pass" THEN "refund" ELSE "persist")
                    => Shape(k)
    PROVE  TypeOK' /\ MoveStep(a)
  <1> DEFINE pc == IF actor[a].op = "return_qc_pass" THEN "refund" ELSE "persist"
             m == Movement[actor[a].op]
             k == [actor[a] EXCEPT !.pc = pc]
  <1>1. /\ At(a, "move") /\ TypeOK
        /\ stock' = [b \in Buckets |-> stock[b] + adjustment[b]]
        /\ moved' = [moved EXCEPT ![actor[a].i][m] = @ + 1]
        /\ GoTo(a, pc)
        /\ UNCHANGED <<meta, cod, captured, refunds, refundEvents, announced, known,
                       disturbed, raced, overbooked>>
        /\ UNCHANGED <<overlaps, faults>>
    BY DEF Adjust, Quiet, Typed
  <1>2. stock' \in [Buckets -> Int]
    BY <1>1 DEF TypeOK
  <1>3. stock'["sellable"] = stock["sellable"] + adjustment["sellable"]
    BY <1>1, Adjustments
  <1>4. stock["sellable"] \in Int /\ adjustment["sellable"] \in Int
    BY <1>1, Adjustments DEF TypeOK
  <1>5. stock'["sellable"] >= stock["sellable"] - (IF Reserving(a) THEN 1 ELSE 0)
    BY <1>3, <1>4
  <1>6. moved' \in [Intents -> [Modes -> Nat]]
    BY <1>1 DEF TypeOK
  <1>7. /\ k \in Job
        /\ k.pc = pc /\ k.op = actor[a].op /\ k.i = actor[a].i /\ k.n = actor[a].n
        /\ k.note = actor[a].note /\ k.snap = actor[a].snap
    BY WithPc
  <1>8. actor' = [actor EXCEPT ![a] = k] /\ actor'[a] = k
    BY <1>1 DEF GoTo, TypeOK
  <1> HIDE DEF k
  <1>9. Shape(actor'[a])
    BY <1>7, <1>8
  <1>10. MoveStep(a)
    BY <1>1, <1>2, <1>5, <1>9 DEF MoveStep, Quiet
  <1>11. TypeOK'
    BY <1>1, <1>2, <1>6, <1>7, <1>8 DEF TypeOK
  <1> QED BY <1>10, <1>11

LEMMA MoveReturnStep ==
    ASSUME Typed, NEW a \in Actors, MoveForReturn(a)
    PROVE  TypeOK' /\ MoveStep(a)
  <1> DEFINE op == actor[a].op
             i == actor[a].i
  <1>1. i \in Returns /\ i \in Intents /\ ReturnJob(actor[a]) /\ actor[a].pc = "move"
    BY Held, Kinds DEF MoveForReturn, Adjust, At
  <1>2. op \in {"return_receive", "return_qc_pass", "return_qc_fail"}
           /\ ReturnLegal(op, actor[a].snap.it[i].state)
    BY <1>1 DEF ReturnJob
  <1>3. GoodReturn(actor[a].snap.it[i])
    BY <1>1, Given DEF GoodMeta
  <1>4. MovesOf(op) = {Movement[op]} /\ Movement[op] \in Modes
    BY <1>2, Moves, Movements DEF Modes
  <1>5. Movement[op] \notin actor[a].snap.it[i].moves
    BY <1>2, <1>3, Movements DEF GoodReturn, ReturnLegal
  <1>6. /\ ReturnAdjustment(Movement[op]) \in [Buckets -> Int]
        /\ ReturnAdjustment(Movement[op])["sellable"] >= (IF Reserving(a) THEN -1 ELSE 0)
    BY <1>2, <1>4, Adjustments DEF Reserving
  <1>7. \A k : (k.i = i /\ k.op = op /\ k.n = actor[a].n
                  /\ k.note = actor[a].note /\ k.snap = actor[a].snap
                  /\ k.pc = IF op = "return_qc_pass" THEN "refund" ELSE "persist")
                 => Shape(k)
    BY <1>1, <1>2 DEF Shape, ReturnJob
  <1>8. Adjust(a, ReturnAdjustment(Movement[op]),
               IF op = "return_qc_pass" THEN "refund" ELSE "persist")
    BY DEF MoveForReturn
  <1> QED BY <1>1, <1>4, <1>5, <1>6, <1>7, <1>8, AdjustStep

LEMMA MoveRtoStep ==
    ASSUME Typed, NEW a \in Actors, MoveForRto(a)
    PROVE  TypeOK' /\ MoveStep(a)
  <1> DEFINE op == actor[a].op
             i == actor[a].i
  <1>1. i \in Rtos /\ i \in Intents /\ RtoJob(actor[a]) /\ actor[a].pc = "move"
    BY Held, Kinds DEF MoveForRto, Adjust, At
  <1>2. op \in {"rto_receive", "rto_qc_pass", "rto_qc_fail"}
           /\ RtoLegal(op, actor[a].snap.it[i].state)
    BY <1>1 DEF RtoJob
  <1>3. GoodRto(actor[a].snap.it[i])
    BY <1>1, Given DEF GoodMeta
  <1>4. MovesOf(op) = {Movement[op]} /\ Movement[op] \in Modes
    BY <1>2, Moves, Movements DEF Modes
  <1>5. Movement[op] \notin actor[a].snap.it[i].moves
    BY <1>2, <1>3, Movements DEF GoodRto, RtoLegal
  <1>6. /\ RtoAdjustment(Movement[op]) \in [Buckets -> Int]
        /\ RtoAdjustment(Movement[op])["sellable"] >= (IF Reserving(a) THEN -1 ELSE 0)
    BY <1>2, <1>4, Adjustments DEF Reserving
  <1>7. \A k : (k.i = i /\ k.op = op /\ k.n = actor[a].n
                  /\ k.note = actor[a].note /\ k.snap = actor[a].snap
                  /\ k.pc = IF op = "return_qc_pass" THEN "refund" ELSE "persist")
                 => Shape(k)
    BY <1>1, <1>2 DEF Shape, RtoJob
  <1>8. Adjust(a, RtoAdjustment(Movement[op]),
               IF op = "return_qc_pass" THEN "refund" ELSE "persist")
    BY <1>2 DEF MoveForRto
  <1> QED BY <1>1, <1>4, <1>5, <1>6, <1>7, <1>8, AdjustStep

LEMMA MoveExchangeStep ==
    ASSUME Typed, NEW a \in Actors, MoveForExchange(a)
    PROVE  TypeOK' /\ MoveStep(a)
  <1> DEFINE op == actor[a].op
             i == actor[a].i
  <1>1. i \in Exchanges /\ i \in Intents /\ ExchangeJob(actor[a]) /\ actor[a].pc = "move"
    BY Held, Kinds DEF MoveForExchange, Adjust, At
  <1>2. op \in {"exchange_receive_return", "exchange_reserve_replacement",
                "exchange_ship_replacement"}
           /\ ExchangeLegal(op, actor[a].snap.it[i].state)
    BY <1>1 DEF ExchangeJob
  <1>3. GoodExchange(actor[a].snap.it[i])
    BY <1>1, Given DEF GoodMeta
  <1>4. MovesOf(op) = {Movement[op]} /\ Movement[op] \in Modes
    BY <1>2, Moves, Movements DEF Modes
  <1>5. Movement[op] \notin actor[a].snap.it[i].moves
    BY <1>2, <1>3, Movements DEF GoodExchange, ExchangeLegal, Received, Reserved, Shipped
  <1>6. /\ ExchangeAdjustment(Movement[op]) \in [Buckets -> Int]
        /\ ExchangeAdjustment(Movement[op])["sellable"] >= (IF Reserving(a) THEN -1 ELSE 0)
    <2>1. Reserving(a) <=> op = "exchange_reserve_replacement"
      BY <1>1 DEF Reserving, At
    <2>2. op # "exchange_reserve_replacement" => Movement[op] # "reserve_replacement"
      BY <1>2, Movements
    <2> QED BY <1>2, <1>4, <2>1, <2>2, Adjustments, Movements
  <1>7. \A k : (k.i = i /\ k.op = op /\ k.n = actor[a].n
                  /\ k.note = actor[a].note /\ k.snap = actor[a].snap
                  /\ k.pc = IF op = "return_qc_pass" THEN "refund" ELSE "persist")
                 => Shape(k)
    BY <1>1, <1>2 DEF Shape, ExchangeJob
  <1>8. Adjust(a, ExchangeAdjustment(Movement[op]),
               IF op = "return_qc_pass" THEN "refund" ELSE "persist")
    BY <1>2 DEF MoveForExchange
  <1> QED BY <1>1, <1>4, <1>5, <1>6, <1>7, <1>8, AdjustStep

\* Who refunds has a return of its own, or the reason of an administrator.
LEMMA RefundingJob ==
    ASSUME Typed, NEW a \in Actors, At(a, "refunding")
    PROVE  /\ actor[a].n = None /\ actor[a].note \in Notes
           /\ \/ actor[a].op = "cod_refund" /\ actor[a].i = None /\ actor[a].note \in OtherNotes
              \/ /\ actor[a].op = "return_qc_pass" /\ actor[a].i \in Returns
                 /\ actor[a].note \in {actor[a].i} \cup OtherNotes
                 /\ ReturnJob(actor[a])
              \/ /\ actor[a].op = "prepaid_refund" /\ actor[a].i \in Returns
                 /\ actor[a].note = actor[a].i
                 /\ ReturnJob(actor[a])
  <1>1. actor[a].pc = "refunding" /\ Shape(actor[a])
    BY Given DEF At
  <1>2. CASE actor[a].i \in Returns /\ ReturnJob(actor[a])
    BY <1>1, <1>2, Kinds DEF ReturnJob
  <1>3. CASE OtherJob(actor[a])
    BY <1>1, <1>3, Kinds DEF OtherJob, NoJob
  <1>4. ~RtoJob(actor[a]) /\ ~ExchangeJob(actor[a]) /\ ~AttemptJob(actor[a])
    BY <1>1 DEF RtoJob, ExchangeJob, AttemptJob
  <1> QED BY <1>1, <1>2, <1>3, <1>4 DEF Shape

LEMMA RefundStep ==
    ASSUME Typed, NEW a \in Actors, RefundPayment(a)
    PROVE  TypeOK' /\ \E k \in Job : PayStep(a, k)
  <1>1. /\ UNCHANGED <<meta, cod, captured, stock, refundEvents, announced, known,
                       moved, disturbed, raced, overbooked>>
        /\ UNCHANGED <<overlaps, faults>>
        /\ refunds' = [refunds EXCEPT ![actor[a].note] = @ + 1]
        /\ At(a, "refunding") /\ TypeOK
    BY DEF RefundPayment, Quiet, Typed
  <1>2. refunds' \in [Notes -> Nat]
    <2>1. actor[a].note \in Notes /\ refunds \in [Notes -> Nat]
      BY <1>1, RefundingJob DEF TypeOK
    <2> QED BY <1>1, <2>1
  <1>3. CASE actor[a].op = "cod_refund"
    <2>1. actor' = [actor EXCEPT ![a] = NoJob]
      BY <1>3 DEF RefundPayment, End, Take
    <2>2. actor[a].i = None
      BY <1>1, <1>3, RefundingJob
    <2>3. TypeOK'
      BY <1>1, <1>2, <2>1, NoJobType DEF TypeOK
    <2> QED BY <1>1, <2>1, <2>2, <2>3, NoJobType DEF PayStep
  <1>4. CASE actor[a].op # "cod_refund"
    <2> DEFINE k == [actor[a] EXCEPT !.pc = "persist"]
    <2>1. /\ k \in Job /\ GoodMeta(k.snap)
          /\ k.pc = "persist" /\ k.op = actor[a].op /\ k.i = actor[a].i /\ k.n = actor[a].n
          /\ k.note = actor[a].note /\ k.snap = actor[a].snap
      BY WithPc
    <2>2. actor' = [actor EXCEPT ![a] = k]
      BY <1>1, <1>4 DEF RefundPayment, GoTo, TypeOK
    <2> HIDE DEF k
    <2>3. actor[a].i \in Returns /\ ReturnJob(actor[a]) /\ actor[a].n = None
             /\ actor[a].op \in {"return_qc_pass", "prepaid_refund"}
      BY <1>1, <1>4, RefundingJob
    <2>4. Shape(k)
      BY <1>1, <2>1, <2>3 DEF Shape, ReturnJob
    <2>5. TypeOK'
      BY <1>1, <1>2, <2>1, <2>2 DEF TypeOK
    <2> QED BY <1>1, <2>1, <2>2, <2>3, <2>4, <2>5 DEF PayStep
  <1> QED BY <1>3, <1>4

-----------------------------------------------------------------------------
(* Writing the order back. *)

LEMMA OverwrittenType ==
    ASSUME TypeOK, NEW a \in Actors
    PROVE  disturbed \cup Overwritten(a) \subseteq Intents \cup Attempts
  BY Kinds DEF TypeOK, Overwritten

\* What a write leaves typed.
LEMMA WriteType ==
    ASSUME Typed, NEW a \in Actors, WriteBack(a, meta'), meta' \in Metadata,
           NEW k \in Job, actor' = [actor EXCEPT ![a] = k],
           known' \in {"no", "busy", "done"}
    PROVE  TypeOK'
  BY OverwrittenType DEF Typed, TypeOK, WriteBack, Quiet

\* A copy of the metadata with an intent changed.
WithIntent(snap, i, it) == [snap EXCEPT !.it[i] = it]

LEMMA IntentWritten ==
    ASSUME NEW snap \in Metadata, GoodMeta(snap), NEW i \in Intents, NEW it \in Intent,
           i \in Returns => GoodReturn(it), i \in Rtos => GoodRto(it),
           i \in Exchanges => GoodExchange(it),
           NEW new, new = WithIntent(snap, i, it)
    PROVE  /\ new \in Metadata /\ GoodMeta(new)
           /\ new.it[i] = it
           /\ \A x \in Intents : x # i => new.it[x] = snap.it[x]
           /\ new.fi = snap.fi /\ new.failed = snap.failed
  <1>1. /\ new.it = [snap.it EXCEPT ![i] = it]
        /\ new.fi = snap.fi /\ new.failed = snap.failed /\ new.fstate = snap.fstate
        /\ new.delivered = snap.delivered
    BY DEF Metadata, WithIntent
  <1>2. new \in Metadata
    BY DEF Metadata, WithIntent
  <1>3. /\ new.it[i] = it
        /\ \A x \in Intents : x # i => new.it[x] = snap.it[x]
    BY <1>1 DEF Metadata
  <1>4. \A x \in Intents : new.it[x] = IF x = i THEN it ELSE snap.it[x]
    BY <1>3
  <1>5. /\ \A x \in Returns : GoodReturn(new.it[x])
        /\ \A x \in Rtos : GoodRto(new.it[x])
        /\ \A x \in Exchanges : GoodExchange(new.it[x])
    BY <1>4, Kinds DEF GoodMeta
  <1>6. GoodMeta(new)
    BY <1>1, <1>5 DEF GoodMeta
  <1> QED BY <1>1, <1>2, <1>3, <1>6

LEMMA IntentWrittenBack ==
    ASSUME Typed, NEW a \in Actors, NEW i \in Intents, actor[a].i = i, actor[a].n = None,
           NEW it \in Intent,
           i \in Returns => GoodReturn(it), i \in Rtos => GoodRto(it),
           i \in Exchanges => GoodExchange(it),
           NEW snap, snap = actor[a].snap,
           NEW new, new = WithIntent(snap, i, it),
           WriteBack(a, new), End(a), UNCHANGED known,
           it.moves = snap.it[i].moves \cup MovesOf(actor[a].op),
           LegalChange(i, snap.it[i].state, it.state),
           it.refund = "recorded" => \/ snap.it[i].refund = "recorded"
                                     \/ actor[a].op = "return_qc_pass" /\ cod
                                     \/ actor[a].op = "prepaid_refund"
    PROVE  TypeOK' /\ \E k \in Job : WriteStep(a, k)
  <1>1. snap \in Metadata /\ GoodMeta(snap) /\ TypeOK
    BY Given DEF Typed
  <1>2. /\ new \in Metadata /\ GoodMeta(new)
        /\ new.it[i] = it
        /\ \A x \in Intents : x # i => new.it[x] = snap.it[x]
        /\ new.fi = snap.fi /\ new.failed = snap.failed
    BY <1>1, IntentWritten
  <1>3. meta' = new /\ WriteBack(a, meta')
    BY DEF WriteBack
  <1>4. actor' = [actor EXCEPT ![a] = NoJob]
    BY DEF End, Take
  <1>5. known' \in {"no", "busy", "done"}
    BY <1>1 DEF TypeOK
  <1>6. TypeOK'
    BY <1>2, <1>3, <1>4, <1>5, NoJobType, WriteType
  <1>7. actor[a].n \notin Attempts
    BY Kinds
  <1>8. WriteStep(a, NoJob)
    BY <1>2, <1>3, <1>4, <1>7, NoJobType, NoJobFields DEF WriteStep
  <1> QED BY <1>6, <1>8, NoJobType

LEMMA IntentWriteStep ==
    ASSUME Typed, NEW a \in Actors, NEW i \in Intents, actor[a].i = i, actor[a].n = None,
           NEW it \in Intent,
           i \in Returns => GoodReturn(it), i \in Rtos => GoodRto(it),
           i \in Exchanges => GoodExchange(it),
           WriteBack(a, [actor[a].snap EXCEPT !.it[i] = it]), End(a), UNCHANGED known,
           it.moves = actor[a].snap.it[i].moves \cup MovesOf(actor[a].op),
           LegalChange(i, actor[a].snap.it[i].state, it.state),
           it.refund = "recorded" => \/ actor[a].snap.it[i].refund = "recorded"
                                     \/ actor[a].op = "return_qc_pass" /\ cod
                                     \/ actor[a].op = "prepaid_refund"
    PROVE  TypeOK' /\ \E k \in Job : WriteStep(a, k)
  <1>1. [actor[a].snap EXCEPT !.it[i] = it] = WithIntent(actor[a].snap, i, it)
    BY DEF WithIntent
  <1> QED BY <1>1, IntentWrittenBack, Zenon

LEMMA PersistReturnStep ==
    ASSUME Typed, NEW a \in Actors, PersistReturn(a)
    PROVE  TypeOK' /\ \E k \in Job : WriteStep(a, k)
  <1> DEFINE i == actor[a].i
             op == actor[a].op
             s == actor[a].snap.it[i]
             it == ReturnAfter(s, op)
  <1>1. /\ i \in Returns /\ i \in Intents /\ ReturnJob(actor[a]) /\ actor[a].n = None
        /\ actor[a].pc = "persist"
        /\ op # "prepaid_refund"
    BY Held, Kinds DEF PersistReturn, WriteBack, At, ReturnJob
  <1>2. s \in Intent /\ GoodReturn(s)
    BY <1>1, Given DEF Metadata, GoodMeta
  <1>3. /\ WriteBack(a, [actor[a].snap EXCEPT !.it[i] = it]) /\ End(a) /\ UNCHANGED known
        /\ TypeOK
    BY DEF PersistReturn, Typed
  <1>4. cod \in BOOLEAN
    BY <1>3 DEF TypeOK
  <1>5. CASE op = "return_request"
    <2>1. it = [state |-> "requested", moves |-> {}, refund |-> "pending"]
      BY <1>5 DEF ReturnAfter, NewReturn, NoIntent
    <2>2. s.state = "none" /\ s.moves = {}
      BY <1>1, <1>2, <1>5 DEF ReturnJob, GoodReturn
    <2>3. it \in Intent /\ GoodReturn(it)
      BY <2>1, Words DEF Intent, GoodReturn
    <2>4. LegalChange(i, s.state, it.state)
      BY <1>1, <2>1, <2>2, Kinds DEF LegalChange
    <2>5. MovesOf(op) = {}
      BY <1>5, NoMoves
    <2>6. it.moves = s.moves \cup MovesOf(op) /\ it.refund # "recorded"
      BY <2>1, <2>2, <2>5
    <2> HIDE DEF it
    <2> QED BY <1>1, <1>3, <2>3, <2>4, <2>6, Kinds, IntentWriteStep
  <1>6. CASE op = "return_qc_pass"
    <2>1. it = [state |-> IF cod THEN "refunded" ELSE "qc_passed",
                moves |-> s.moves \cup MovesOf(op),
                refund |-> IF cod THEN "recorded" ELSE "requested"]
      BY <1>6 DEF ReturnAfter
    <2>2. s.state = "received" /\ s.moves = {"to_qc_hold"} /\ MovesOf(op) = {"qc_hold_to_sellable"}
      BY <1>1, <1>2, <1>6, Moves DEF ReturnJob, GoodReturn, ReturnLegal
    <2>3. /\ it.state = (IF cod THEN "refunded" ELSE "qc_passed")
          /\ it.moves = s.moves \cup MovesOf(op)
          /\ it.moves = Passed
          /\ it.refund = (IF cod THEN "recorded" ELSE "requested")
      BY <2>1, <2>2 DEF Passed
    <2>4. it \in Intent
      BY <2>1, <2>2, Words DEF Intent, Modes
    <2>5. GoodReturn(it)
      BY <1>4, <2>3 DEF GoodReturn
    <2>6. LegalChange(i, s.state, it.state)
      <3>1. ReturnNext["received"] = {"qc_passed", "qc_failed"}
        BY DEF ReturnNext
      <3>2. it.state = "qc_passed" \/ (cod /\ it.state = "refunded")
        BY <2>3
      <3> QED BY <1>1, <2>2, <3>1, <3>2 DEF LegalChange
    <2>7. it.refund = "recorded" => op = "return_qc_pass" /\ cod
      BY <1>4, <1>6, <2>3
    <2> HIDE DEF it
    <2> QED BY <1>1, <1>3, <2>3, <2>4, <2>5, <2>6, <2>7, Kinds, IntentWriteStep
  <1>7. CASE op \notin {"return_request", "return_qc_pass"}
    <2>1. it = [s EXCEPT !.state = Target[op], !.moves = @ \cup MovesOf(op)]
      BY <1>7 DEF ReturnAfter
    <2>2. /\ it.state = Target[op] /\ it.moves = s.moves \cup MovesOf(op)
          /\ it.refund = s.refund
      BY <1>2, <2>1 DEF Intent
    <2>3. op \in {"return_approve", "return_receive", "return_qc_fail", "return_close"}
             /\ ReturnLegal(op, s.state)
      BY <1>1, <1>7 DEF ReturnJob
    <2>4. GoodReturn(it)
      <3> HIDE DEF it
      <3>1. CASE op = "return_approve"
        <4>1. s.moves = {} /\ MovesOf(op) = {}
          BY <1>2, <2>3, <3>1, NoMoves DEF GoodReturn, ReturnLegal
        <4>2. it.state = "approved" /\ it.moves = {}
          BY <2>2, <3>1, <4>1, Targets
        <4> QED BY <4>2 DEF GoodReturn
      <3>2. CASE op = "return_receive"
        <4>1. s.state = "approved" /\ s.moves = {}
          BY <1>2, <2>3, <3>2 DEF GoodReturn, ReturnLegal
        <4>2. MovesOf(op) = {"to_qc_hold"} /\ it.state = "received"
          BY <2>2, <3>2, Targets, Moves
        <4>3. it.moves = {"to_qc_hold"}
          BY <2>2, <4>1, <4>2
        <4> QED BY <4>2, <4>3 DEF GoodReturn
      <3>3. CASE op = "return_qc_fail"
        <4>1. s.state = "received" /\ s.moves = {"to_qc_hold"}
          BY <1>2, <2>3, <3>3 DEF GoodReturn, ReturnLegal
        <4>2. MovesOf(op) = {"qc_hold_to_damage"} /\ it.state = "qc_failed"
          BY <2>2, <3>3, Targets, Moves
        <4>3. it.moves = Failed
          BY <2>2, <4>1, <4>2 DEF Failed
        <4> QED BY <4>2, <4>3 DEF GoodReturn
      <3>4. CASE op = "return_close"
        <4>1. s.moves \in {Passed, Failed}
          BY <1>2, <2>3, <3>4 DEF GoodReturn, ReturnLegal
        <4>2. MovesOf(op) = {} /\ it.state = "closed"
          BY <2>2, <3>4, Targets, NoMoves
        <4> QED BY <2>2, <4>1, <4>2 DEF GoodReturn
      <3> QED BY <2>3, <3>1, <3>2, <3>3, <3>4
    <2>5. it \in Intent
      <3>1. Target[op] \in DOMAIN ReturnNext
        BY <2>3, Targets, Words
      <3>2. s.moves \cup MovesOf(op) \in SUBSET Modes
        BY <1>2, MovesAreModes DEF Intent
      <3> QED BY <1>2, <2>1, <3>1, <3>2 DEF Intent
    <2>6. LegalChange(i, s.state, it.state)
      <3>1. s.state \in DOMAIN ReturnNext /\ s.state # "none"
        BY <2>3, Words DEF ReturnLegal
      <3>2. it.state \in ReturnNext[s.state] /\ it.state # "none"
        BY <2>2, <2>3, <3>1, ReturnTable, Targets DEF ReturnOps
      <3> QED BY <1>1, <3>1, <3>2 DEF LegalChange
    <2> HIDE DEF it
    <2> QED BY <1>1, <1>3, <2>2, <2>4, <2>5, <2>6, Kinds, IntentWriteStep
  <1> QED BY <1>5, <1>6, <1>7

LEMMA PersistRtoStep ==
    ASSUME Typed, NEW a \in Actors, PersistRto(a)
    PROVE  TypeOK' /\ \E k \in Job : WriteStep(a, k)
  <1> DEFINE i == actor[a].i
             op == actor[a].op
             s == actor[a].snap.it[i]
             it == RtoAfter(s, op)
  <1>1. /\ i \in Rtos /\ i \in Intents /\ RtoJob(actor[a]) /\ actor[a].n = None
        /\ actor[a].pc = "persist"
    BY Held, Kinds DEF PersistRto, WriteBack, At, RtoJob
  <1>2. s \in Intent /\ GoodRto(s)
    BY <1>1, Given DEF Metadata, GoodMeta
  <1>3. WriteBack(a, [actor[a].snap EXCEPT !.it[i] = it]) /\ End(a) /\ UNCHANGED known
    BY DEF PersistRto
  <1>4. CASE op = "rto_initiate"
    <2>1. it = [state |-> "initiated", moves |-> {}, refund |-> "none"]
      BY <1>4 DEF RtoAfter, NewRto, NoIntent
    <2>2. s.state = "none" /\ s.moves = {}
      BY <1>1, <1>2, <1>4 DEF RtoJob, GoodRto
    <2>3. it \in Intent /\ GoodRto(it)
      BY <2>1, Words DEF Intent, GoodRto
    <2>4. LegalChange(i, s.state, it.state)
      BY <1>1, <2>1, <2>2, Kinds DEF LegalChange
    <2>5. MovesOf(op) = {}
      BY <1>4, NoMoves
    <2>6. it.moves = s.moves \cup MovesOf(op) /\ it.refund # "recorded"
      BY <2>1, <2>2, <2>5
    <2> HIDE DEF it
    <2> QED BY <1>1, <1>3, <2>3, <2>4, <2>6, Kinds, IntentWriteStep
  <1>5. CASE op # "rto_initiate"
    <2>1. it = [s EXCEPT !.state = Target[op], !.moves = @ \cup MovesOf(op)]
      BY <1>5 DEF RtoAfter
    <2>2. /\ it.state = Target[op] /\ it.moves = s.moves \cup MovesOf(op)
          /\ it.refund = s.refund
      BY <1>2, <2>1 DEF Intent
    <2>3. op \in RtoOps /\ RtoLegal(op, s.state)
      BY <1>1, <1>5 DEF RtoJob, RtoOps
    <2>4. GoodRto(it)
      <3> HIDE DEF it
      <3>1. CASE op = "rto_receive"
        <4>1. s.state = "initiated" /\ s.moves = {}
          BY <1>2, <2>3, <3>1 DEF GoodRto, RtoLegal
        <4>2. MovesOf(op) = {"to_qc_hold"} /\ it.state = "received"
          BY <2>2, <3>1, Targets, Moves
        <4>3. it.moves = {"to_qc_hold"}
          BY <2>2, <4>1, <4>2
        <4> QED BY <4>2, <4>3 DEF GoodRto
      <3>2. CASE op = "rto_qc_pass"
        <4>1. s.state = "received" /\ s.moves = {"to_qc_hold"}
          BY <1>2, <2>3, <3>2 DEF GoodRto, RtoLegal
        <4>2. MovesOf(op) = {"qc_hold_to_sellable"} /\ it.state = "qc_passed"
          BY <2>2, <3>2, Targets, Moves
        <4>3. it.moves = Passed
          BY <2>2, <4>1, <4>2 DEF Passed
        <4> QED BY <4>2, <4>3 DEF GoodRto
      <3>3. CASE op = "rto_qc_fail"
        <4>1. s.state = "received" /\ s.moves = {"to_qc_hold"}
          BY <1>2, <2>3, <3>3 DEF GoodRto, RtoLegal
        <4>2. MovesOf(op) = {"qc_hold_to_damage"} /\ it.state = "qc_failed"
          BY <2>2, <3>3, Targets, Moves
        <4>3. it.moves = Failed
          BY <2>2, <4>1, <4>2 DEF Failed
        <4> QED BY <4>2, <4>3 DEF GoodRto
      <3>4. CASE op = "rto_close"
        BY <1>2, <2>2, <2>3, <3>4, Targets, NoMoves DEF GoodRto, RtoLegal
      <3> QED BY <2>3, <3>1, <3>2, <3>3, <3>4 DEF RtoOps
    <2>5. it \in Intent
      <3>1. Target[op] \in DOMAIN RtoNext
        BY <2>3, Targets, Words DEF RtoOps
      <3>2. s.moves \cup MovesOf(op) \in SUBSET Modes
        BY <1>2, MovesAreModes DEF Intent
      <3> QED BY <1>2, <2>1, <3>1, <3>2 DEF Intent
    <2>6. LegalChange(i, s.state, it.state)
      <3>1. s.state \in DOMAIN RtoNext /\ s.state # "none"
        BY <2>3, Words DEF RtoLegal
      <3>2. it.state \in RtoNext[s.state] /\ it.state # "none"
        BY <2>2, <2>3, <3>1, RtoTable, Targets DEF RtoOps
      <3> QED BY <1>1, <3>1, <3>2, Kinds DEF LegalChange
    <2> HIDE DEF it
    <2> QED BY <1>1, <1>3, <2>2, <2>4, <2>5, <2>6, Kinds, IntentWriteStep
  <1> QED BY <1>4, <1>5

LEMMA PersistExchangeStep ==
    ASSUME Typed, NEW a \in Actors, PersistExchange(a)
    PROVE  TypeOK' /\ \E k \in Job : WriteStep(a, k)
  <1> DEFINE i == actor[a].i
             op == actor[a].op
             s == actor[a].snap.it[i]
             it == ExchangeAfter(s, op)
  <1>1. /\ i \in Exchanges /\ i \in Intents /\ ExchangeJob(actor[a]) /\ actor[a].n = None
        /\ actor[a].pc = "persist"
    BY Held, Kinds DEF PersistExchange, WriteBack, At, ExchangeJob
  <1>2. s \in Intent /\ GoodExchange(s)
    BY <1>1, Given DEF Metadata, GoodMeta
  <1>3. WriteBack(a, [actor[a].snap EXCEPT !.it[i] = it]) /\ End(a) /\ UNCHANGED known
    BY DEF PersistExchange
  <1>4. CASE op = "exchange_request"
    <2>1. it = [state |-> "requested", moves |-> {}, refund |-> "none"]
      BY <1>4 DEF ExchangeAfter, NewExchange, NoIntent
    <2>2. s.state = "none" /\ s.moves = {}
      BY <1>1, <1>2, <1>4 DEF ExchangeJob, GoodExchange
    <2>3. it \in Intent /\ GoodExchange(it)
      BY <2>1, Words DEF Intent, GoodExchange
    <2>4. LegalChange(i, s.state, it.state)
      BY <1>1, <2>1, <2>2, Kinds DEF LegalChange
    <2>5. MovesOf(op) = {}
      BY <1>4, NoMoves
    <2>6. it.moves = s.moves \cup MovesOf(op) /\ it.refund # "recorded"
      BY <2>1, <2>2, <2>5
    <2> HIDE DEF it
    <2> QED BY <1>1, <1>3, <2>3, <2>4, <2>6, Kinds, IntentWriteStep
  <1>5. CASE op # "exchange_request"
    <2>1. it = [s EXCEPT !.state = Target[op], !.moves = @ \cup MovesOf(op)]
      BY <1>5 DEF ExchangeAfter
    <2>2. /\ it.state = Target[op] /\ it.moves = s.moves \cup MovesOf(op)
          /\ it.refund = s.refund
      BY <1>2, <2>1 DEF Intent
    <2>3. op \in ExchangeOps /\ ExchangeLegal(op, s.state)
      BY <1>1, <1>5 DEF ExchangeJob, ExchangeOps
    <2>4. GoodExchange(it)
      <3> HIDE DEF it
      <3>1. CASE op = "exchange_approve"
        BY <1>2, <2>2, <2>3, <3>1, Targets, NoMoves DEF GoodExchange, ExchangeLegal
      <3>2. CASE op = "exchange_receive_return"
        <4>1. s.state = "approved" /\ s.moves = {}
          BY <1>2, <2>3, <3>2 DEF GoodExchange, ExchangeLegal
        <4>2. MovesOf(op) = {"return_to_qc_hold"} /\ it.state = "return_received"
          BY <2>2, <3>2, Targets, Moves
        <4>3. it.moves = Received
          BY <2>2, <4>1, <4>2 DEF Received
        <4> QED BY <4>2, <4>3 DEF GoodExchange
      <3>3. CASE op = "exchange_reserve_replacement"
        <4>1. s.state = "return_received" /\ s.moves = Received
          BY <1>2, <2>3, <3>3 DEF GoodExchange, ExchangeLegal
        <4>2. MovesOf(op) = {"reserve_replacement"} /\ it.state = "replacement_reserved"
          BY <2>2, <3>3, Targets, Moves
        <4>3. it.moves = Reserved
          BY <2>2, <4>1, <4>2 DEF Reserved
        <4> QED BY <4>2, <4>3 DEF GoodExchange
      <3>4. CASE op = "exchange_ship_replacement"
        <4>1. s.state = "replacement_reserved" /\ s.moves = Reserved
          BY <1>2, <2>3, <3>4 DEF GoodExchange, ExchangeLegal
        <4>2. MovesOf(op) = {"ship_replacement"} /\ it.state = "replacement_shipped"
          BY <2>2, <3>4, Targets, Moves
        <4>3. it.moves = Shipped
          BY <2>2, <4>1, <4>2 DEF Shipped
        <4> QED BY <4>2, <4>3 DEF GoodExchange
      <3>5. CASE op = "exchange_close"
        BY <1>2, <2>2, <2>3, <3>5, Targets, NoMoves DEF GoodExchange, ExchangeLegal
      <3> QED BY <2>3, <3>1, <3>2, <3>3, <3>4, <3>5 DEF ExchangeOps
    <2>5. it \in Intent
      <3>1. Target[op] \in DOMAIN ExchangeNext
        BY <2>3, Targets, Words DEF ExchangeOps
      <3>2. s.moves \cup MovesOf(op) \in SUBSET Modes
        BY <1>2, MovesAreModes DEF Intent
      <3> QED BY <1>2, <2>1, <3>1, <3>2 DEF Intent
    <2>6. LegalChange(i, s.state, it.state)
      <3>1. s.state \in DOMAIN ExchangeNext /\ s.state # "none"
        BY <2>3, Words DEF ExchangeLegal
      <3>2. it.state \in ExchangeNext[s.state] /\ it.state # "none"
        BY <2>2, <2>3, <3>1, ExchangeTable, Targets DEF ExchangeOps
      <3> QED BY <1>1, <3>1, <3>2, Kinds DEF LegalChange
    <2> HIDE DEF it
    <2> QED BY <1>1, <1>3, <2>2, <2>4, <2>5, <2>6, Kinds, IntentWriteStep
  <1> QED BY <1>4, <1>5

LEMMA RecordRefundStep ==
    ASSUME Typed, NEW a \in Actors, UpdateReturnRefundState(a)
    PROVE  TypeOK' /\ \E k \in Job : JobStep(a, k) \/ WriteStep(a, k)
  <1> DEFINE i == actor[a].i
             s == actor[a].snap.it[i]
             it == [s EXCEPT !.refund = "recorded"]
  <1>1. CASE WriteNothing(a)
    BY <1>1, NothingStep
  <1>2. CASE WriteBack(a, [actor[a].snap EXCEPT !.it[i].refund = "recorded"])
    <2>1. /\ actor[a].op = "prepaid_refund" /\ At(a, "persist") /\ End(a) /\ UNCHANGED known
      BY <1>2 DEF UpdateReturnRefundState, WriteBack
    <2>2. i \in Returns /\ actor[a].n = None
      BY <2>1, Given, RefundJobs, Held DEF ReturnJob
    <2>3. s \in Intent /\ GoodReturn(s) /\ i \in Intents
      BY <2>2, Given, Kinds DEF Metadata, GoodMeta
    <2>4. it \in Intent /\ it.state = s.state /\ it.moves = s.moves
      BY <2>3 DEF Intent
    <2>5. GoodReturn(it)
      BY <2>3, <2>4 DEF GoodReturn
    <2>6. WriteBack(a, [actor[a].snap EXCEPT !.it[i] = it])
      BY <1>2
    <2>7. MovesOf(actor[a].op) = {}
      BY <2>1, NoMoves
    <2>8. LegalChange(i, s.state, it.state)
      BY <2>4 DEF LegalChange
    <2> HIDE DEF it
    <2> QED BY <2>1, <2>2, <2>3, <2>4, <2>5, <2>6, <2>7, <2>8, Kinds, IntentWriteStep
  <1> QED BY <1>1, <1>2 DEF UpdateReturnRefundState

\* A write of a job on an attempt, which goes on or ends.
LEMMA AttemptWriteStep ==
    ASSUME Typed, NEW a \in Actors, actor[a].i = None, actor[a].n \in Attempts,
           NEW new \in Metadata, GoodMeta(new), WriteBack(a, new),
           NEW k \in Job, actor' = [actor EXCEPT ![a] = k], Shape(k), GoodMeta(k.snap),
           \/ k = NoJob
           \/ /\ k.i = None /\ k.n = actor[a].n
              /\ k.pc \in {"emit", "status"} /\ k.snap = NoMetadata,
           k.pc = "emit" => actor[a].snap.fi[actor[a].n] = "none" /\ new.fi[actor[a].n] # "none",
           new.it = actor[a].snap.it,
           \A n \in Attempts : n # actor[a].n => new.fi[n] = actor[a].snap.fi[n],
           LegalAttemptChange(actor[a].snap.fi[actor[a].n], new.fi[actor[a].n]),
           actor[a].snap.failed => new.failed,
           known' = known \/ (known' = "done" /\ new.failed)
    PROVE  TypeOK' /\ \E q \in Job : WriteStep(a, q)
  <1>1. meta' = new /\ WriteBack(a, meta')
    BY DEF WriteBack
  <1>2. known' \in {"no", "busy", "done"}
    BY DEF Typed, TypeOK
  <1>3. TypeOK'
    BY <1>1, <1>2, WriteType
  <1>4. actor[a].i \notin Intents
    BY Kinds
  <1>5. WriteStep(a, k)
    BY <1>1, <1>4 DEF WriteStep
  <1> QED BY <1>3, <1>5

LEMMA PersistRequestStep ==
    ASSUME Typed, NEW a \in Actors, PersistFulfillmentRequest(a)
    PROVE  TypeOK' /\ \E k \in Job : WriteStep(a, k)
  <1> DEFINE n == actor[a].n
             snap == actor[a].snap
             new == [snap EXCEPT !.fi[n] = "requested", !.fstate = "requested"]
             k == [actor[a] EXCEPT !.pc = "emit", !.snap = NoMetadata]
  <1>1. /\ actor[a].op \in Requesting /\ At(a, "persist")
        /\ WriteBack(a, new) /\ actor' = [actor EXCEPT ![a] = k] /\ known' = known
    BY DEF PersistFulfillmentRequest, Take, WriteBack
  <1>2. actor[a].i = None /\ n \in Attempts /\ AttemptJob(actor[a]) /\ snap.fi[n] = "none"
    <2>1. actor[a].i = None /\ n \in Attempts /\ AttemptJob(actor[a])
      BY <1>1, HeldAttempt
    <2> QED BY <1>1, <2>1 DEF AttemptJob, Requesting, At
  <1>3. snap \in Metadata /\ GoodMeta(snap)
    BY Given
  <1>4. /\ new \in Metadata /\ new.fi = [snap.fi EXCEPT ![n] = "requested"]
        /\ new.fstate = "requested" /\ new.it = snap.it /\ new.delivered = snap.delivered
        /\ new.failed = snap.failed
    BY <1>3 DEF Metadata, FulfillmentStatus
  <1> HIDE DEF new
  <1>5. /\ GoodMeta(new) /\ new.fi[n] = "requested"
        /\ \A x \in Attempts : x # n => new.fi[x] = snap.fi[x]
    <2>1. /\ new.fi[n] = "requested"
          /\ \A x \in Attempts : x # n => new.fi[x] = snap.fi[x]
      BY <1>2, <1>3, <1>4 DEF Metadata
    <2>2. GoodMeta(new)
      BY <1>2, <1>3, <1>4, <2>1 DEF GoodMeta
    <2> QED BY <2>1, <2>2
  <1>6. k \in Job
    BY Given, NoMetadataType DEF Job
  <1>7. k.pc = "emit" /\ k.op = actor[a].op /\ k.i = None /\ k.n = n /\ k.snap = NoMetadata
    BY <1>2, Given DEF Job
  <1> HIDE DEF k
  <1>8. Shape(k) /\ GoodMeta(k.snap)
    BY <1>1, <1>2, <1>7, NoMetadataType DEF Shape, AttemptJob, Requesting
  <1>9. LegalAttemptChange(snap.fi[n], new.fi[n])
    BY <1>2, <1>5 DEF LegalAttemptChange
  <1> QED BY <1>1, <1>2, <1>4, <1>5, <1>6, <1>7, <1>8, <1>9, AttemptWriteStep

LEMMA PersistContractStep ==
    ASSUME Typed, NEW a \in Actors, PersistContract(a)
    PROVE  TypeOK' /\ \E k \in Job : WriteStep(a, k)
  <1>1. /\ actor[a].op = "contract" /\ At(a, "persist")
        /\ WriteBack(a, actor[a].snap) /\ actor' = [actor EXCEPT ![a] = NoJob] /\ known' = known
    BY DEF PersistContract, End, Take, WriteBack
  <1>2. actor[a].i = None /\ actor[a].n \in Attempts
    BY <1>1, HeldAttempt
  <1> QED BY <1>1, <1>2, Given, NoJobType, NoJobFields, AttemptWriteStep DEF LegalAttemptChange

LEMMA MarkPendingStep ==
    ASSUME Typed, NEW a \in Actors, MarkFulfillmentPending(a)
    PROVE  TypeOK' /\ \E k \in Job : WriteStep(a, k)
  <1> DEFINE snap == actor[a].snap
             new == [snap EXCEPT !.fstate = "pending", !.failed = TRUE]
  <1>1. /\ actor[a].op = "mark_pending" /\ At(a, "persist")
        /\ WriteBack(a, new) /\ actor' = [actor EXCEPT ![a] = NoJob] /\ known' = "done"
    BY DEF MarkFulfillmentPending, End, Take, WriteBack
  <1>2. actor[a].i = None /\ actor[a].n \in Attempts
    BY <1>1, HeldAttempt
  <1>3. /\ new \in Metadata /\ new.fi = snap.fi /\ new.fstate = "pending"
        /\ new.it = snap.it /\ new.delivered = snap.delivered /\ new.failed
    BY Given DEF Metadata
  <1> HIDE DEF new
  <1>4. GoodMeta(new)
    BY <1>3, Given DEF GoodMeta
  <1> QED BY <1>1, <1>2, <1>3, <1>4, NoJobType, NoJobFields, AttemptWriteStep
      DEF LegalAttemptChange

LEMMA PersistStatusStep ==
    ASSUME Typed, NEW a \in Actors, PersistStatus(a)
    PROVE  TypeOK' /\ \E k \in Job : WriteStep(a, k)
  <1> DEFINE n == actor[a].n
             snap == actor[a].snap
             to == Head(actor[a].todo)
             new == [snap EXCEPT !.fi[n] = to, !.fstate = to,
                                 !.delivered = IF to = "delivered" THEN @ \cup {n} ELSE @]
             k == [actor[a] EXCEPT !.pc = "status", !.todo = Tail(@), !.snap = NoMetadata]
  <1>1. /\ actor[a].op = "status" /\ At(a, "persist")
        /\ WriteBack(a, new) /\ actor' = [actor EXCEPT ![a] = k] /\ known' = known
    BY DEF PersistStatus, Take, WriteBack
  <1>2. /\ actor[a].i = None /\ n \in Attempts /\ actor[a].todo # << >> /\ snap.fi[n] # "none"
        /\ to \in FulfillmentNext[snap.fi[n]]
    <2>1. actor[a].i = None /\ n \in Attempts /\ AttemptJob(actor[a])
      BY <1>1, HeldAttempt
    <2> QED BY <1>1, <2>1 DEF AttemptJob, Requesting, At
  <1>3. snap \in Metadata /\ GoodMeta(snap) /\ actor[a].todo \in Seq(FulfillmentStatus)
    BY Given DEF Job
  <1>4. /\ to \in FulfillmentStatus /\ to \notin {"none", "pending"}
        /\ Tail(actor[a].todo) \in Seq(FulfillmentStatus)
    BY <1>2, <1>3 DEF FulfillmentStatus
  <1> HIDE DEF to
  <1>5. /\ new \in Metadata /\ new.fi = [snap.fi EXCEPT ![n] = to]
        /\ new.fstate = to /\ new.it = snap.it /\ new.failed = snap.failed
        /\ new.delivered = IF to = "delivered" THEN snap.delivered \cup {n} ELSE snap.delivered
    BY <1>2, <1>3, <1>4 DEF Metadata
  <1> HIDE DEF new
  <1>6. /\ GoodMeta(new) /\ new.fi[n] = to
        /\ \A x \in Attempts : x # n => new.fi[x] = snap.fi[x]
    <2>1. /\ new.fi[n] = to
          /\ \A x \in Attempts : x # n => new.fi[x] = snap.fi[x]
      BY <1>2, <1>3, <1>5 DEF Metadata
    <2>2. new.fstate = "pending" => new.failed
      BY <1>4, <1>5
    <2>3. GoodMeta(new)
      BY <1>2, <1>3, <1>5, <2>1, <2>2 DEF GoodMeta
    <2> QED BY <2>1, <2>3
  <1>7. k \in Job
    BY <1>4, Given, NoMetadataType DEF Job
  <1>8. k.pc = "status" /\ k.op = "status" /\ k.i = None /\ k.n = n /\ k.snap = NoMetadata
    BY <1>1, <1>2, Given DEF Job
  <1> HIDE DEF k
  <1>9. Shape(k) /\ GoodMeta(k.snap)
    BY <1>2, <1>8, NoMetadataType DEF Shape, AttemptJob
  <1>10. LegalAttemptChange(snap.fi[n], new.fi[n])
    BY <1>2, <1>4, <1>6 DEF LegalAttemptChange
  <1> QED BY <1>1, <1>2, <1>5, <1>6, <1>7, <1>8, <1>9, <1>10, AttemptWriteStep

-----------------------------------------------------------------------------
(* Every step is of one of the kinds, and keeps the types. *)

LEMMA ProceedStep ==
    ASSUME Typed, NEW a \in Actors, Proceed(a)
    PROVE  TypeOK' /\ Kind(a)
  <1>1. CASE MoveForReturn(a) \/ MoveForRto(a) \/ MoveForExchange(a)
    BY <1>1, MoveReturnStep, MoveRtoStep, MoveExchangeStep DEF Kind
  <1>2. CASE RefundPayment(a)
    BY <1>2, RefundStep DEF Kind
  <1>3. CASE PersistReturn(a) \/ PersistRto(a) \/ PersistExchange(a)
    BY <1>3, PersistReturnStep, PersistRtoStep, PersistExchangeStep DEF Kind
  <1>4. CASE PersistFulfillmentRequest(a) \/ PersistContract(a)
                \/ MarkFulfillmentPending(a) \/ PersistStatus(a)
    BY <1>4, PersistRequestStep, PersistContractStep, MarkPendingStep, PersistStatusStep DEF Kind
  <1>5. CASE UpdateReturnRefundState(a)
    BY <1>5, RecordRefundStep DEF Kind
  <1>6. CASE RecordCodRefund(a) \/ CodRefundRejected(a) \/ RequestPrepaidRefund(a)
                \/ AssertReplacementAvailability(a) \/ CaptureCodPayment(a)
    BY <1>6, RecordCodStep, RejectedStep, PrepaidAskedStep, AvailabilityStep, CaptureStep DEF Kind
  <1>7. CASE RequestFulfillment(a) \/ EmitFulfillmentRequested(a) \/ RereadForRebuild(a)
                \/ ReadForPending(a) \/ TransitionFulfillmentStatus(a)
    BY <1>7, RequestStep, EmitStep, RereadStep, ReadPendingStep, NextTargetStep DEF Kind
  <1> QED BY <1>1, <1>2, <1>3, <1>4, <1>5, <1>6, <1>7 DEF Proceed

LEMMA RestartType ==
    ASSUME Typed, Restart
    PROVE  TypeOK'
  <1>1. TypeOK
    BY DEF Typed
  <1>2. actor' \in [Actors -> Job] /\ faults' \in 0..MaxFaults
    BY <1>1, NoJobType, OrderConstants DEF Restart, TypeOK
  <1>3. UNION {HalfDone(a) : a \in Actors} \subseteq Intents \cup Attempts
    BY HalfDoneIs DEF Things
  <1> QED BY <1>1, <1>2, <1>3 DEF Restart, TypeOK

LEMMA Kinded ==
    ASSUME Typed, [Next]_vars
    PROVE  TypeOK' /\ (UNCHANGED vars \/ Restart \/ \E a \in Actors : Kind(a))
  <1>1. CASE UNCHANGED vars
    BY <1>1 DEF Typed, TypeOK, vars, orderVars
  <1>2. CASE Restart
    BY <1>2, RestartType
  <1>3. ASSUME NEW a \in Actors, Asked(a) \/ Proceed(a) \/ Fail(a)
        PROVE  TypeOK' /\ Kind(a)
    BY <1>3, AskedStep, ProceedStep, FailStep DEF Kind
  <1> QED BY <1>1, <1>2, <1>3 DEF Next

\* What the kinds have in common for the other actors.
LEMMA Others ==
    ASSUME TypeOK, NEW a \in Actors, NEW k, actor' = [actor EXCEPT ![a] = k]
    PROVE  actor'[a] = k /\ \A b \in Actors \ {a} : actor'[b] = actor[b]
  BY DEF TypeOK

LEMMA TypedStep ==
    ASSUME Typed, [Next]_vars
    PROVE  Typed'
  <1>1. TypeOK /\ TypeOK' /\ (UNCHANGED vars \/ Restart \/ \E a \in Actors : Kind(a))
    BY Kinded DEF Typed
  <1>2. CASE UNCHANGED vars
    BY <1>1, <1>2 DEF Typed, vars, orderVars
  <1>3. CASE Restart
    BY <1>1, <1>3, NoJobType DEF Restart, Typed
  <1>4. ASSUME NEW a \in Actors, MoveStep(a)
        PROVE  Typed'
    <2>1. meta' = meta /\ actor' = [actor EXCEPT ![a] = actor'[a]] /\ Shape(actor'[a])
             /\ actor'[a].snap = actor[a].snap
      BY <1>1, <1>4 DEF MoveStep, GoTo, TypeOK, Job
    <2> QED BY <1>1, <2>1, Others DEF Typed
  <1>5. ASSUME NEW a \in Actors, NEW k \in Job, JobStep(a, k)
        PROVE  Typed'
    BY <1>1, <1>5, Others DEF Typed, JobStep
  <1>6. ASSUME NEW a \in Actors, NEW k \in Job, PayStep(a, k)
        PROVE  Typed'
    BY <1>1, <1>6, Others DEF Typed, PayStep
  <1>7. ASSUME NEW a \in Actors, NEW k \in Job, WriteStep(a, k)
        PROVE  Typed'
    BY <1>1, <1>7, Others DEF Typed, WriteStep
  <1> QED BY <1>1, <1>2, <1>3, <1>4, <1>5, <1>6, <1>7 DEF Kind

LEMMA InitTyped == Init => Typed
  <1> SUFFICES ASSUME Init PROVE Typed
    OBVIOUS
  <1>1. stock \in [Buckets -> Int]
    BY OrderConstants DEF Init, NoAdjustment, Buckets
  <1>2. overlaps \in 0..MaxOverlaps /\ faults \in 0..MaxFaults
    BY OrderConstants DEF Init
  <1>3. TypeOK
    BY <1>1, <1>2, NoJobType, NoMetadataType DEF Init, TypeOK
  <1> QED BY <1>3, NoJobType, NoMetadataType DEF Init, Typed

-----------------------------------------------------------------------------
(* One actor at a time, with what is still true. *)

\* An actor holds nothing new unless it is alone with it, or that counts as disturbed.
HoldsNoMore(a, k) ==
    \A x \in Things \ disturbed' :
        InJob(k, x) => InJob(actor[a], x) \/ \A b \in Actors \ {a} : ~InHand(b, x)

LEMMA AloneKept ==
    ASSUME Typed, Alone, NEW a \in Actors, NEW k, actor' = [actor EXCEPT ![a] = k],
           disturbed \subseteq disturbed', HoldsNoMore(a, k)
    PROVE  Alone'
  <1> SUFFICES ASSUME NEW x \in Things \ disturbed', NEW b \in Actors, NEW c \in Actors,
                      InJob(actor'[b], x), InJob(actor'[c], x)
               PROVE  b = c
    BY DEF Alone, InHand, InJob, Things
  <1>1. actor'[a] = k /\ \A q \in Actors \ {a} : actor'[q] = actor[q]
    BY Others DEF Typed
  <1>2. x \in Things \ disturbed
    OBVIOUS
  <1>3. CASE b = a /\ c # a
    <2>1. InJob(k, x) /\ InHand(c, x)
      BY <1>1, <1>3 DEF InHand, InJob
    <2>2. InHand(a, x)
      BY <1>3, <2>1 DEF HoldsNoMore, InHand, InJob
    <2> QED BY <1>2, <1>3, <2>1, <2>2 DEF Alone
  <1>4. CASE c = a /\ b # a
    <2>1. InJob(k, x) /\ InHand(b, x)
      BY <1>1, <1>4 DEF InHand, InJob
    <2>2. InHand(a, x)
      BY <1>4, <2>1 DEF HoldsNoMore, InHand, InJob
    <2> QED BY <1>2, <1>4, <2>1, <2>2 DEF Alone
  <1>5. CASE b # a /\ c # a
    BY <1>1, <1>2, <1>5 DEF Alone, InHand, InJob
  <1> QED BY <1>3, <1>4, <1>5

\* What each kind of step does to the actor that takes it.
LEMMA MoveJob ==
    ASSUME Typed, NEW a \in Actors, MoveStep(a)
    PROVE  \E k \in Job :
              /\ actor' = [actor EXCEPT ![a] = k]
              /\ k.pc = IF actor[a].op = "return_qc_pass" THEN "refund" ELSE "persist"
              /\ k.op = actor[a].op /\ k.i = actor[a].i /\ k.n = actor[a].n
              /\ k.note = actor[a].note /\ k.snap = actor[a].snap
  <1> DEFINE pc == IF actor[a].op = "return_qc_pass" THEN "refund" ELSE "persist"
             k == [actor[a] EXCEPT !.pc = pc]
  <1>1. /\ k \in Job
        /\ k.pc = pc /\ k.op = actor[a].op /\ k.i = actor[a].i /\ k.n = actor[a].n
        /\ k.note = actor[a].note /\ k.snap = actor[a].snap
    BY WithPc
  <1>2. actor' = [actor EXCEPT ![a] = k]
    BY DEF MoveStep, GoTo, Typed, TypeOK
  <1> QED BY <1>1, <1>2

LEMMA AloneStep ==
    ASSUME Typed, Alone, [Next]_vars
    PROVE  Alone'
  <1>1. CASE UNCHANGED vars
    BY <1>1 DEF Alone, InHand, vars, Things
  <1>2. CASE Restart
    BY <1>2, NoJobFields DEF Restart, Alone, InHand, InJob, Things
  <1>3. ASSUME NEW a \in Actors, MoveStep(a)
        PROVE  Alone'
    <2>1. PICK k \in Job :
              /\ actor' = [actor EXCEPT ![a] = k]
              /\ k.i = actor[a].i /\ k.n = actor[a].n
      BY <1>3, MoveJob
    <2>2. HoldsNoMore(a, k) /\ disturbed \subseteq disturbed'
      BY <1>3, <2>1 DEF HoldsNoMore, InJob, MoveStep
    <2> QED BY <2>1, <2>2, AloneKept
  <1>4. ASSUME NEW a \in Actors, NEW k \in Job, JobStep(a, k)
        PROVE  Alone'
    <2>1. HoldsNoMore(a, k)
      BY <1>4 DEF JobStep, HoldsNoMore, Overlapped
    <2> QED BY <1>4, <2>1, AloneKept DEF JobStep
  <1>5. ASSUME NEW a \in Actors, NEW k \in Job, PayStep(a, k)
        PROVE  Alone'
    <2>1. HoldsNoMore(a, k)
      BY <1>5, NoJobFields, Kinds DEF PayStep, HoldsNoMore, InJob, Things
    <2> QED BY <1>5, <2>1, AloneKept DEF PayStep
  <1>6. ASSUME NEW a \in Actors, NEW k \in Job, WriteStep(a, k)
        PROVE  Alone'
    <2>1. HoldsNoMore(a, k)
      BY <1>6, NoJobFields DEF WriteStep, HoldsNoMore, InJob
    <2>2. disturbed \subseteq disturbed'
      BY <1>6 DEF WriteStep, WriteBack
    <2> QED BY <1>6, <2>1, <2>2, AloneKept DEF WriteStep
  <1> QED BY <1>1, <1>2, <1>3, <1>4, <1>5, <1>6, Kinded DEF Kind

\* An actor's write changes nothing undisturbed but what it has in hand.
LEMMA WriteKeeps ==
    ASSUME Typed, NEW a \in Actors, NEW k, WriteStep(a, k)
    PROVE  /\ disturbed \subseteq disturbed'
           /\ \A i \in Intents \ disturbed' :
                 /\ actor[a].snap.it[i] = meta.it[i]
                 /\ i # actor[a].i => meta'.it[i] = meta.it[i]
           /\ \A n \in Attempts \ disturbed' :
                 /\ actor[a].snap.fi[n] = meta.fi[n]
                 /\ n # actor[a].n => meta'.fi[n] = meta.fi[n]
           /\ 1 \notin disturbed' => (meta.failed => meta'.failed)
  <1>1. disturbed' = disturbed \cup Overwritten(a)
    BY DEF WriteStep, WriteBack
  <1>2. \A i \in Intents : actor[a].snap.it[i] # meta.it[i] => i \in disturbed'
    BY <1>1 DEF Overwritten
  <1>3. \A n \in Attempts : actor[a].snap.fi[n] # meta.fi[n] => n \in disturbed'
    BY <1>1 DEF Overwritten
  <1>4. 1 \notin disturbed' => (meta.failed => actor[a].snap.failed)
    BY <1>1 DEF Overwritten
  <1> QED BY <1>1, <1>2, <1>3, <1>4 DEF WriteStep

LEMMA UpToDateStep ==
    ASSUME Typed, Alone, UpToDate, [Next]_vars
    PROVE  UpToDate'
  <1>1. CASE UNCHANGED vars
    BY <1>1 DEF UpToDate, At, vars, orderVars
  <1>2. CASE Restart
    <2>1. \A b \in Actors : actor'[b] = NoJob
      BY <1>2 DEF Restart
    <2> QED BY <2>1, NoJobFields, Kinds DEF UpToDate, At
  <1>3. ASSUME NEW a \in Actors, MoveStep(a)
        PROVE  UpToDate'
    <2>1. PICK k \in Job :
              /\ actor' = [actor EXCEPT ![a] = k]
              /\ k.i = actor[a].i /\ k.n = actor[a].n /\ k.snap = actor[a].snap
      BY <1>3, MoveJob
    <2>2. k.n \notin Attempts /\ UNCHANGED <<meta, disturbed>>
      BY <1>3, <2>1, Held, Kinds DEF MoveStep
    <2>3. actor'[a] = k /\ \A b \in Actors \ {a} : actor'[b] = actor[b]
      BY <2>1, Others DEF Typed
    <2> QED BY <2>1, <2>2, <2>3 DEF UpToDate, At
  <1>4. ASSUME NEW a \in Actors, NEW k \in Job, JobStep(a, k)
        PROVE  UpToDate'
    <2>1. actor'[a] = k /\ \A b \in Actors \ {a} : actor'[b] = actor[b]
      BY <1>4, Others DEF Typed, JobStep
    <2>2. meta' = meta /\ disturbed \subseteq disturbed'
      BY <1>4 DEF JobStep
    <2>3. /\ \A i \in Intents \ disturbed' : k.i = i => k.snap.it[i] = meta.it[i]
          /\ \A n \in Attempts \ disturbed' :
                k.n = n /\ k.pc = "persist" => k.snap.fi[n] = meta.fi[n]
      BY <1>4, <2>2 DEF JobStep, UpToDate
    <2> QED BY <2>1, <2>2, <2>3 DEF UpToDate, At
  <1>5. ASSUME NEW a \in Actors, NEW k \in Job, PayStep(a, k)
        PROVE  UpToDate'
    <2>1. actor'[a] = k /\ \A b \in Actors \ {a} : actor'[b] = actor[b]
      BY <1>5, Others DEF Typed, PayStep
    <2>2. UNCHANGED <<meta, disturbed>>
      BY <1>5 DEF PayStep
    <2>3. k.n = None /\ (k.i \in Intents => k.i = actor[a].i /\ k.snap = actor[a].snap)
      BY <1>5, NoJobFields, Kinds DEF PayStep
    <2> QED BY <2>1, <2>2, <2>3, Kinds DEF UpToDate, At
  <1>6. ASSUME NEW a \in Actors, NEW k \in Job, WriteStep(a, k)
        PROVE  UpToDate'
    <2>1. actor'[a] = k /\ \A b \in Actors \ {a} : actor'[b] = actor[b]
      BY <1>6, Others DEF Typed, WriteStep
    <2>2. k.i \notin Intents /\ k.pc # "persist"
      BY <1>6, NoJobFields, Kinds, Held DEF WriteStep
    <2>3. ASSUME NEW b \in Actors, b # a, NEW i \in Intents \ disturbed', actor[b].i = i
          PROVE  actor[b].snap.it[i] = meta'.it[i]
      <3>1. i \notin disturbed /\ i \in Things
        BY <1>6, WriteKeeps DEF Things
      <3>2. actor[a].i # i
        BY <2>3, <3>1 DEF Alone, InHand
      <3> QED BY <1>6, <2>3, <3>1, <3>2, WriteKeeps DEF UpToDate
    <2>4. ASSUME NEW b \in Actors, b # a, NEW n \in Attempts \ disturbed', actor[b].n = n,
                 At(b, "persist")
          PROVE  actor[b].snap.fi[n] = meta'.fi[n]
      <3>1. n \notin disturbed /\ n \in Things
        BY <1>6, WriteKeeps DEF Things
      <3>2. actor[a].n # n
        BY <2>4, <3>1 DEF Alone, InHand
      <3> QED BY <1>6, <2>4, <3>1, <3>2, WriteKeeps DEF UpToDate
    <2> QED BY <2>1, <2>2, <2>3, <2>4 DEF UpToDate, At
  <1> QED BY <1>1, <1>2, <1>3, <1>4, <1>5, <1>6, Kinded DEF Kind

-----------------------------------------------------------------------------
(* Stock. *)

\* The metadata of an intent has a movement, or an actor is about to record it.
HasMovement(i, m) ==
    m \in meta.it[i].moves \/ \E a \in Actors : actor[a].i = i /\ m \in Recording(actor[a])

LEMMA RecordedIs ==
    \A i \in Intents, m \in Modes :
        /\ m \in Recorded(i) <=> HasMovement(i, m)
        /\ m \in Recorded(i)' <=> HasMovement(i, m)'
  <1>1. ASSUME NEW i \in Intents, NEW m \in Modes
        PROVE  m \in Recorded(i) <=> HasMovement(i, m)
    BY DEF Recorded, HasMovement, Recording
  <1>2. ASSUME NEW i \in Intents, NEW m \in Modes
        PROVE  m \in Recorded(i)' <=> HasMovement(i, m)'
    BY DEF Recorded, HasMovement, Recording
  <1> QED BY <1>1, <1>2

LEMMA MovedIs ==
    /\ StockMovedOnce <=> \A i \in Intents \ disturbed, m \in Modes :
            moved[i][m] = IF HasMovement(i, m) THEN 1 ELSE 0
    /\ StockMovedOnce' <=> \A i \in Intents \ disturbed', m \in Modes :
            moved'[i][m] = IF HasMovement(i, m)' THEN 1 ELSE 0
  BY RecordedIs DEF StockMovedOnce

\* A step that leaves the movements and the records of an intent alone.
LEMMA SameMovement ==
    ASSUME Typed, StockMovedOnce, disturbed \subseteq disturbed',
           NEW i \in Intents \ disturbed', NEW m \in Modes,
           moved'[i][m] = moved[i][m], HasMovement(i, m)' <=> HasMovement(i, m)
    PROVE  moved'[i][m] = IF HasMovement(i, m)' THEN 1 ELSE 0
  BY MovedIs

\* What an actor alone with an intent takes along is all there is.
LEMMA AloneHas ==
    ASSUME Alone, NEW a \in Actors, NEW i \in Intents \ disturbed, actor[a].i = i, NEW m
    PROVE  HasMovement(i, m) <=> m \in meta.it[i].moves \/ m \in Recording(actor[a])
  BY DEF Alone, HasMovement, InHand, Things

LEMMA RecordingKept ==
    ASSUME Typed, NEW a \in Actors, NEW k, actor' = [actor EXCEPT ![a] = k],
           NEW i \in Intents, NEW m, meta'.it[i].moves = meta.it[i].moves,
           k.i = i /\ m \in Recording(k) <=> actor[a].i = i /\ m \in Recording(actor[a])
    PROVE  HasMovement(i, m)' <=> HasMovement(i, m)
  <1>1. actor'[a] = k /\ \A b \in Actors \ {a} : actor'[b] = actor[b]
    BY Others DEF Typed
  <1>2. \A b \in Actors : actor'[b].i = i /\ m \in Recording(actor'[b])
                            <=> actor[b].i = i /\ m \in Recording(actor[b])
    BY <1>1
  <1> QED BY <1>2 DEF HasMovement, Recording

LEMMA MovedStep ==
    ASSUME Typed, Alone, UpToDate, StockMovedOnce, [Next]_vars
    PROVE  StockMovedOnce'
  <1>1. CASE UNCHANGED vars
    BY <1>1, MovedIs DEF HasMovement, Recording, vars, orderVars
  <1>2. CASE Restart
    <2>1. /\ UNCHANGED <<meta, moved>> /\ disturbed \subseteq disturbed'
          /\ \A a \in Actors : actor'[a] = NoJob /\ HalfDone(a) \subseteq disturbed'
      BY <1>2 DEF Restart
    <2>2. ASSUME NEW i \in Intents \ disturbed', NEW m \in Modes
          PROVE  moved'[i][m] = IF HasMovement(i, m)' THEN 1 ELSE 0
      <3>1. \A a \in Actors : actor[a].i = i => Recording(actor[a]) = {}
        BY <2>1, <2>2, HalfDoneIs
      <3>2. HasMovement(i, m)' <=> m \in meta.it[i].moves
        BY <2>1, NoRecording DEF HasMovement, Recording
      <3> QED BY <2>1, <3>1, <3>2, SameMovement DEF HasMovement
    <2> QED BY <2>2, MovedIs
  <1>3. ASSUME NEW a \in Actors, MoveStep(a),
               NEW i \in Intents \ disturbed', NEW m \in Modes
        PROVE  moved'[i][m] = IF HasMovement(i, m)' THEN 1 ELSE 0
    <2>1. PICK k \in Job :
              /\ actor' = [actor EXCEPT ![a] = k]
              /\ k.pc = IF actor[a].op = "return_qc_pass" THEN "refund" ELSE "persist"
              /\ k.op = actor[a].op /\ k.i = actor[a].i
      BY <1>3, MoveJob
    <2>2. /\ UNCHANGED <<meta, disturbed>> /\ actor[a].i \in Intents
          /\ MovesOf(actor[a].op) = {Movement[actor[a].op]}
          /\ Movement[actor[a].op] \in Modes
          /\ Movement[actor[a].op] \notin actor[a].snap.it[actor[a].i].moves
          /\ moved' = [moved EXCEPT ![actor[a].i][Movement[actor[a].op]] = @ + 1]
          /\ actor[a].pc = "move"
      BY <1>3 DEF MoveStep, At
    <2>3. Recording(actor[a]) = {} /\ Recording(k) = {Movement[actor[a].op]}
      BY <2>1, <2>2 DEF Recording
    <2>4. moved \in [Intents -> [Modes -> Nat]]
      BY DEF Typed, TypeOK
    <2>5. CASE actor[a].i = i /\ m = Movement[actor[a].op]
      <3>1. m \notin meta.it[i].moves
        BY <2>2, <2>5 DEF UpToDate
      <3>2. ~HasMovement(i, m)
        BY <2>2, <2>3, <2>5, <3>1, AloneHas
      <3>3. moved[i][m] = 0
        BY <2>2, <3>2, MovedIs
      <3>4. moved'[i][m] = 1
        BY <2>2, <2>4, <2>5, <3>3
      <3>5. actor'[a].i = i /\ m \in Recording(actor'[a])
        BY <2>1, <2>3, <2>5, Others DEF Typed
      <3>6. HasMovement(i, m)'
        BY <3>5 DEF HasMovement, Recording
      <3> QED BY <3>4, <3>6
    <2>6. CASE ~(actor[a].i = i /\ m = Movement[actor[a].op])
      <3>1. moved'[i][m] = moved[i][m]
        BY <2>2, <2>4, <2>6
      <3>2. HasMovement(i, m)' <=> HasMovement(i, m)
        BY <2>1, <2>2, <2>3, <2>6, RecordingKept
      <3> QED BY <2>2, <3>1, <3>2, SameMovement
    <2> QED BY <2>5, <2>6
  <1>4. ASSUME NEW a \in Actors, NEW k \in Job, JobStep(a, k),
               NEW i \in Intents \ disturbed', NEW m \in Modes
        PROVE  moved'[i][m] = IF HasMovement(i, m)' THEN 1 ELSE 0
    <2>1. k.i = i /\ m \in Recording(k) <=> actor[a].i = i /\ m \in Recording(actor[a])
      BY <1>4 DEF JobStep
    <2>2. /\ actor' = [actor EXCEPT ![a] = k] /\ UNCHANGED <<meta, moved>>
          /\ disturbed \subseteq disturbed'
      BY <1>4 DEF JobStep
    <2> QED BY <2>1, <2>2, RecordingKept, SameMovement
  <1>5. ASSUME NEW a \in Actors, NEW k \in Job, PayStep(a, k),
               NEW i \in Intents \ disturbed', NEW m \in Modes
        PROVE  moved'[i][m] = IF HasMovement(i, m)' THEN 1 ELSE 0
    <2>1. /\ actor' = [actor EXCEPT ![a] = k] /\ UNCHANGED <<meta, moved, disturbed>>
          /\ actor[a].pc = "refunding"
      BY <1>5 DEF PayStep, At
    <2>2. k.i = i /\ m \in Recording(k) <=> actor[a].i = i /\ m \in Recording(actor[a])
      BY <1>5, <2>1, NoJobFields, NoRecording, Kinds DEF PayStep, Recording
    <2> QED BY <2>1, <2>2, RecordingKept, SameMovement
  <1>6. ASSUME NEW a \in Actors, NEW k \in Job, WriteStep(a, k),
               NEW i \in Intents \ disturbed', NEW m \in Modes
        PROVE  moved'[i][m] = IF HasMovement(i, m)' THEN 1 ELSE 0
    <2>1. /\ actor' = [actor EXCEPT ![a] = k] /\ moved' = moved /\ actor[a].pc = "persist"
          /\ disturbed \subseteq disturbed'
      BY <1>6 DEF WriteStep, WriteBack, At
    <2>2. Recording(k) = {}
      BY <1>6, NoRecording DEF WriteStep, Recording
    <2>3. CASE actor[a].i = i
      <3>1. meta'.it[i].moves = meta.it[i].moves \cup Recording(actor[a])
        <4>1. actor[a].snap.it[i] = meta.it[i]
          BY <1>6, WriteKeeps
        <4>2. meta'.it[i].moves = actor[a].snap.it[i].moves \cup MovesOf(actor[a].op)
          BY <1>6, <2>3 DEF WriteStep
        <4> QED BY <2>1, <4>1, <4>2 DEF Recording
      <3>2. HasMovement(i, m) <=> m \in meta.it[i].moves \/ m \in Recording(actor[a])
        BY <2>1, <2>3, AloneHas
      <3>3. \A b \in Actors \ {a} : actor'[b] = actor[b] /\ actor[b].i # i
        BY <2>1, <2>3, Others DEF Typed, Alone, InHand, Things
      <3>4. HasMovement(i, m)' <=> m \in meta'.it[i].moves
        <4>1. actor'[a] = k
          BY <2>1, Others DEF Typed
        <4>2. \A b \in Actors : ~(actor'[b].i = i /\ m \in Recording(actor'[b]))
          BY <2>2, <3>3, <4>1
        <4> QED BY <4>2 DEF HasMovement, Recording
      <3> QED BY <2>1, <3>1, <3>2, <3>4, SameMovement
    <2>4. CASE actor[a].i # i
      <3>1. meta'.it[i] = meta.it[i]
        BY <1>6, <2>4, WriteKeeps
      <3>2. HasMovement(i, m)' <=> HasMovement(i, m)
        BY <2>1, <2>2, <2>4, <3>1, RecordingKept
      <3> QED BY <2>1, <3>2, SameMovement
    <2> QED BY <2>3, <2>4
  <1> QED BY <1>1, <1>2, <1>3, <1>4, <1>5, <1>6, Kinded, MovedIs DEF Kind

-----------------------------------------------------------------------------
(* Money. *)

LEMMA Grows ==
    ASSUME Typed, [Next]_vars
    PROVE  /\ cod' = cod
           /\ \A i \in Intents, m \in Modes : moved'[i][m] >= moved[i][m]
           /\ \A note \in Notes : refunds'[note] >= refunds[note]
  <1>1. /\ moved \in [Intents -> [Modes -> Nat]] /\ refunds \in [Notes -> Nat]
        /\ \A i \in Intents, m \in Modes : moved[i][m] \in Nat
    BY DEF Typed, TypeOK
  <1>2. CASE UNCHANGED <<cod, moved, refunds>>
    BY <1>1, <1>2
  <1>3. CASE UNCHANGED vars \/ Restart
    BY <1>2, <1>3 DEF vars, orderVars, Restart
  <1>4. ASSUME NEW a \in Actors, MoveStep(a)
        PROVE  /\ cod' = cod
               /\ \A i \in Intents, m \in Modes : moved'[i][m] >= moved[i][m]
               /\ \A note \in Notes : refunds'[note] >= refunds[note]
    <2>1. /\ cod' = cod /\ refunds' = refunds
          /\ moved' = [moved EXCEPT ![actor[a].i][Movement[actor[a].op]] = @ + 1]
      BY <1>4 DEF MoveStep
    <2>2. ASSUME NEW i \in Intents, NEW m \in Modes
          PROVE  moved'[i][m] >= moved[i][m]
      BY <1>1, <2>1
    <2> QED BY <1>1, <2>1, <2>2
  <1>5. ASSUME NEW a \in Actors, NEW k \in Job, JobStep(a, k) \/ WriteStep(a, k)
        PROVE  UNCHANGED <<cod, moved, refunds>>
    BY <1>5 DEF JobStep, WriteStep, WriteBack
  <1>6. ASSUME NEW a \in Actors, NEW k \in Job, PayStep(a, k)
        PROVE  /\ cod' = cod /\ moved' = moved
               /\ \A note \in Notes : refunds'[note] >= refunds[note]
    BY <1>1, <1>6 DEF PayStep
  <1> QED BY <1>1, <1>2, <1>3, <1>4, <1>5, <1>6, Kinded DEF Kind

LEMMA GrowsForReturns ==
    ASSUME Typed, [Next]_vars, NEW i \in Returns
    PROVE  /\ Restocked(i) => Restocked(i)'
           /\ Refunded(i) => Refunded(i)'
           /\ refunds[i] > 0 => refunds'[i] > 0
  <1>1. /\ cod' = cod /\ moved'[i]["qc_hold_to_sellable"] >= moved[i]["qc_hold_to_sellable"]
        /\ \A note \in Notes : refunds'[note] >= refunds[note]
    BY Grows, Kinds DEF Modes
  <1>2. /\ moved \in [Intents -> [Modes -> Nat]] /\ moved' \in [Intents -> [Modes -> Nat]]
        /\ refunds \in [Notes -> Nat] /\ refunds' \in [Notes -> Nat]
    BY Kinded DEF Typed, TypeOK
  <1>3. /\ moved[i]["qc_hold_to_sellable"] \in Nat /\ moved'[i]["qc_hold_to_sellable"] \in Nat
        /\ \A note \in Notes : refunds[note] \in Nat /\ refunds'[note] \in Nat
    BY <1>2, Kinds DEF Modes
  <1>4. \A note \in Notes : refunds[note] > 0 => refunds'[note] > 0
    BY <1>1, <1>3
  <1>5. Restocked(i) => Restocked(i)'
    BY <1>1, <1>3 DEF Restocked
  <1>6. Refunded(i) => Refunded(i)'
    BY <1>1, <1>4, Kinds DEF Refunded
  <1> QED BY <1>4, <1>5, <1>6, Kinds

LEMMA BackedKept ==
    ASSUME Typed, Backed, [Next]_vars, NEW b \in Actors, actor'[b] = actor[b]
    PROVE  BackedJob(actor[b])'
  <1> DEFINE j == actor[b]
  <1>1. BackedJob(j) /\ Shape(j) /\ cod' = cod
    BY Given, Grows DEF Backed
  <1>2. RecordsBacked(j.snap)'
    BY <1>1, GrowsForReturns DEF BackedJob, RecordsBacked
  <1>3. j.op = "return_qc_pass" /\ Recording(j) # {} => Restocked(j.i)'
    BY <1>1, RefundJobs, GrowsForReturns DEF BackedJob
  <1>4. j.op = "return_qc_pass" /\ j.pc = "persist" /\ cod => refunds'[j.note] > 0
    <2>1. ASSUME NEW note \in Notes, refunds[note] > 0 PROVE refunds'[note] > 0
      <3>1. refunds[note] \in Nat /\ refunds'[note] \in Nat
        BY Kinded DEF Typed, TypeOK
      <3> QED BY <2>1, <3>1, Grows
    <2> QED BY <1>1, <2>1, RefundJobs DEF BackedJob
  <1>5. j.op = "prepaid_refund" =>
          /\ ~cod /\ Restocked(j.i)'
          /\ j.pc = "persist" => refunds'[j.i] > 0
    BY <1>1, RefundJobs, GrowsForReturns DEF BackedJob
  <1> QED BY <1>1, <1>2, <1>3, <1>4, <1>5 DEF BackedJob, Recording, RecordsBacked, Restocked

\* All that is left to say of a step: what it does to the actor that takes it, to the refunds
\* and the records, and to the events.
LEMMA BackedIf ==
    ASSUME Typed, Backed, [Next]_vars, NEW a \in Actors, NEW k,
           actor' = [actor EXCEPT ![a] = k], BackedJob(actor[a])', RecordsBacked(meta)',
           \A i \in Returns : refunds'[i] > 0 => refunds[i] > 0 \/ Restocked(i),
           \A i \in refundEvents' : i \in refundEvents \/ (~cod /\ Restocked(i))
    PROVE  Backed'
  <1>1. actor'[a] = k /\ \A b \in Actors \ {a} : actor'[b] = actor[b]
    BY Others DEF Typed
  <1>2. ASSUME NEW b \in Actors PROVE BackedJob(actor[b])'
    BY <1>1, BackedKept DEF BackedJob, Recording, RecordsBacked, Restocked
  <1>3. \A i \in refundEvents' : ~cod' /\ Restocked(i)'
    <2>1. refundEvents' \subseteq Returns /\ cod' = cod
      BY Kinded, Grows DEF TypeOK
    <2> QED BY <2>1, GrowsForReturns DEF Backed
  <1>4. \A i \in Returns : refunds'[i] > 0 => Restocked(i)'
    BY GrowsForReturns DEF Backed
  <1> QED BY <1>2, <1>3, <1>4 DEF Backed

LEMMA RecordsKept ==
    ASSUME Typed, Backed, [Next]_vars, meta' = meta
    PROVE  RecordsBacked(meta)'
  BY GrowsForReturns DEF Backed, RecordsBacked

LEMMA BackedStep ==
    ASSUME Typed, Backed, [Next]_vars
    PROVE  Backed'
  <1>1. CASE UNCHANGED vars
    BY <1>1 DEF Backed, BackedJob, Recording, RecordsBacked, Restocked, Refunded, vars, orderVars
  <1>2. CASE Restart
    <2>1. /\ UNCHANGED <<meta, cod, refunds, refundEvents, moved>>
          /\ \A a \in Actors : actor'[a] = NoJob
      BY <1>2 DEF Restart
    <2>2. \A i \in Returns : NoJob.snap.it[i].refund = "none"
      BY Kinds, NoJobFields DEF NoMetadata, NoIntent
    <2>3. BackedJob(NoJob)'
      BY <2>2, NoJobFields DEF BackedJob, RecordsBacked
    <2> QED BY <2>1, <2>3 DEF Backed, BackedJob, Recording, RecordsBacked, Restocked, Refunded
  <1>3. ASSUME NEW a \in Actors, MoveStep(a)
        PROVE  Backed'
    <2>1. PICK k \in Job :
              /\ actor' = [actor EXCEPT ![a] = k]
              /\ k.pc = IF actor[a].op = "return_qc_pass" THEN "refund" ELSE "persist"
              /\ k.op = actor[a].op /\ k.i = actor[a].i /\ k.snap = actor[a].snap
      BY <1>3, MoveJob
    <2>2. /\ UNCHANGED <<meta, cod, refunds, refundEvents>> /\ At(a, "move")
          /\ moved' = [moved EXCEPT ![actor[a].i][Movement[actor[a].op]] = @ + 1]
      BY <1>3 DEF MoveStep
    <2>3. BackedJob(actor[a]) /\ Shape(actor[a])
      BY Given DEF Backed
    <2>4. actor[a].op # "prepaid_refund"
      BY <2>2, <2>3, RefundJobs DEF At
    <2>5. k.op = "return_qc_pass" => Restocked(k.i)' /\ k.pc # "persist"
      <3>1. CASE actor[a].op = "return_qc_pass"
        <4>1. moved \in [Intents -> [Modes -> Nat]] /\ actor[a].i \in Intents
          BY <2>3, <3>1, RefundJobs, Kinds DEF Typed, TypeOK
        <4>2. moved' = [moved EXCEPT ![actor[a].i]["qc_hold_to_sellable"] = @ + 1]
          BY <2>2, <3>1, Movements
        <4>3. moved[actor[a].i]["qc_hold_to_sellable"] \in Nat
          BY <4>1 DEF Modes
        <4> QED BY <2>1, <3>1, <4>1, <4>2, <4>3 DEF Restocked, Modes
      <3> QED BY <2>1, <3>1
    <2>6. RecordsBacked(k.snap)'
      BY <2>1, <2>3, GrowsForReturns DEF BackedJob, RecordsBacked
    <2>7. BackedJob(actor[a])'
      <3>1. actor'[a] = k
        BY <2>1, Others DEF Typed
      <3>2. BackedJob(k)'
        BY <2>1, <2>4, <2>5, <2>6 DEF BackedJob
      <3> QED BY <3>1, <3>2 DEF BackedJob, Recording, RecordsBacked, Restocked
    <2> QED BY <2>1, <2>2, <2>7, BackedIf, RecordsKept
  <1>4. ASSUME NEW a \in Actors, NEW k \in Job, JobStep(a, k)
        PROVE  Backed'
    <2>1. /\ UNCHANGED <<meta, cod, refunds, moved>> /\ actor' = [actor EXCEPT ![a] = k]
          /\ BackedJob(actor[a]) /\ Shape(actor[a])
      BY <1>4, Given DEF JobStep, Backed
    <2>2. RecordsBacked(k.snap)
      <3>1. RecordsBacked(NoMetadata)
        BY Kinds DEF RecordsBacked, NoMetadata, NoIntent
      <3>2. RecordsBacked(meta) /\ RecordsBacked(actor[a].snap)
        BY <2>1 DEF Backed, BackedJob
      <3>3. k.snap \in {meta, NoMetadata, actor[a].snap}
        BY <1>4 DEF JobStep
      <3> QED BY <3>1, <3>2, <3>3
    <2>3. k.op = "return_qc_pass" /\ Recording(k) # {} => Restocked(k.i)
      BY <1>4, <2>1 DEF JobStep, BackedJob
    <2>4. k.op = "return_qc_pass" /\ k.pc = "persist" /\ cod => refunds[k.note] > 0
      BY <1>4 DEF JobStep
    <2>5. k.op = "prepaid_refund" =>
            /\ ~cod /\ Restocked(k.i)
            /\ k.pc = "persist" => refunds[k.i] > 0
      BY <1>4 DEF JobStep, Backed
    <2>6. BackedJob(actor[a])'
      <3>1. actor'[a] = k
        BY <2>1, Others DEF Typed
      <3>2. RecordsBacked(k.snap)'
        BY <2>2, GrowsForReturns DEF RecordsBacked
      <3> QED BY <2>1, <2>3, <2>4, <2>5, <3>1, <3>2
          DEF BackedJob, Recording, RecordsBacked, Restocked
    <2>7. \A i \in refundEvents' : i \in refundEvents \/ (~cod /\ Restocked(i))
      <3>1. ASSUME NEW i \in refundEvents', i \notin refundEvents PROVE ~cod /\ Restocked(i)
        <4>1. /\ actor[a].op = "return_qc_pass" /\ actor[a].pc = "refund" /\ actor[a].i = i
              /\ ~cod
          BY <1>4, <3>1 DEF JobStep
        <4>2. Recording(actor[a]) # {}
          BY <4>1, Moves DEF Recording
        <4> QED BY <2>1, <4>1, <4>2 DEF BackedJob
      <3> QED BY <3>1
    <2> QED BY <2>1, <2>6, <2>7, BackedIf, RecordsKept
  <1>5. ASSUME NEW a \in Actors, NEW k \in Job, PayStep(a, k)
        PROVE  Backed'
    <2>1. /\ UNCHANGED <<meta, cod, refundEvents, moved>> /\ actor' = [actor EXCEPT ![a] = k]
          /\ refunds' = [refunds EXCEPT ![actor[a].note] = @ + 1]
          /\ At(a, "refunding") /\ BackedJob(actor[a])
      BY <1>5 DEF PayStep, Backed
    <2>2. actor[a].op = "return_qc_pass" => Recording(actor[a]) # {}
      BY <2>1, Moves DEF Recording, At
    <2>3. /\ actor[a].note \in Notes
          /\ actor[a].note \in Returns => actor[a].note = actor[a].i /\ Restocked(actor[a].i)
      BY <2>1, <2>2, RefundingJob, Kinds DEF BackedJob
    <2>4. refunds \in [Notes -> Nat] /\ refunds[actor[a].note] \in Nat
      BY <2>3 DEF Typed, TypeOK
    <2>5. refunds'[actor[a].note] > 0
          /\ \A note \in Notes : note # actor[a].note => refunds'[note] = refunds[note]
      BY <2>1, <2>3, <2>4
    <2>6. BackedJob(actor[a])'
      <3>0. actor'[a] = k
        BY <2>1, Others DEF Typed
      <3>1. CASE k = NoJob
        <4>1. \A i \in Returns : NoJob.snap.it[i].refund = "none"
          BY Kinds, NoJobFields DEF NoMetadata, NoIntent
        <4> QED BY <3>0, <3>1, <4>1, NoJobFields DEF BackedJob, RecordsBacked
      <3>2. CASE /\ k.pc = "persist" /\ k.i = actor[a].i /\ k.op = actor[a].op
                 /\ k.note = actor[a].note /\ k.snap = actor[a].snap
        <4>1. RecordsBacked(k.snap)'
          BY <2>1, <3>2, GrowsForReturns DEF BackedJob, RecordsBacked
        <4>2. k.op = "return_qc_pass" => Restocked(k.i)'
          BY <2>1, <2>2, <3>2 DEF BackedJob, Restocked
        <4>3. k.op = "prepaid_refund" => ~cod /\ Restocked(k.i)' /\ k.note = k.i
          BY <2>1, <3>2, Given, RefundJobs DEF BackedJob, Restocked
        <4> QED BY <2>1, <2>5, <3>0, <3>2, <4>1, <4>2, <4>3
            DEF BackedJob, Recording, RecordsBacked, Restocked
      <3> QED BY <1>5, <3>1, <3>2 DEF PayStep
    <2>7. \A i \in Returns : refunds'[i] > 0 => refunds[i] > 0 \/ Restocked(i)
      BY <2>3, <2>5, Kinds
    <2> QED BY <2>1, <2>6, <2>7, BackedIf, RecordsKept
  <1>6. ASSUME NEW a \in Actors, NEW k \in Job, WriteStep(a, k)
        PROVE  Backed'
    <2>1. /\ UNCHANGED <<cod, refunds, refundEvents, moved>> /\ actor' = [actor EXCEPT ![a] = k]
          /\ At(a, "persist") /\ BackedJob(actor[a]) /\ Shape(actor[a])
      BY <1>6, Given DEF WriteStep, WriteBack, Backed
    <2>2. RecordsBacked(meta)'
      <3> SUFFICES ASSUME NEW i \in Returns, meta'.it[i].refund = "recorded"
                   PROVE  Restocked(i) /\ Refunded(i)
        BY <2>1 DEF RecordsBacked, Restocked, Refunded
      <3>1. CASE actor[a].snap.it[i].refund = "recorded"
        BY <2>1, <3>1 DEF BackedJob, RecordsBacked
      <3>2. CASE actor[a].snap.it[i].refund # "recorded"
        <4>1. i = actor[a].i
          BY <1>6, <3>2, Kinds DEF WriteStep
        <4>2. \/ actor[a].op = "return_qc_pass" /\ cod
              \/ actor[a].op = "prepaid_refund"
          BY <1>6, <3>2, <4>1, Kinds DEF WriteStep
        <4>3. CASE actor[a].op = "return_qc_pass" /\ cod
          <5>1. Recording(actor[a]) # {}
            BY <2>1, <4>3, Moves DEF Recording, At
          <5> QED BY <2>1, <4>1, <4>3, <5>1, RefundJobs DEF BackedJob, Refunded, At
        <4>4. CASE actor[a].op = "prepaid_refund"
          BY <2>1, <4>1, <4>4 DEF BackedJob, Refunded, At
        <4> QED BY <4>2, <4>3, <4>4
      <3> QED BY <3>1, <3>2
    <2>3. BackedJob(actor[a])'
      <3>1. \A i \in Returns : NoMetadata.it[i].refund = "none"
        BY Kinds DEF NoMetadata, NoIntent
      <3>2. k.snap = NoMetadata
        BY <1>6, NoJobFields DEF WriteStep
      <3>3. k.op # "return_qc_pass" /\ k.op # "prepaid_refund"
        BY <1>6, NoJobFields, RefundJobs DEF WriteStep
      <3> QED BY <2>1, <3>1, <3>2, <3>3, Others DEF Typed, BackedJob, RecordsBacked
    <2> QED BY <2>1, <2>2, <2>3, BackedIf
  <1> QED BY <1>1, <1>2, <1>3, <1>4, <1>5, <1>6, Kinded DEF Kind

\* What the refunds of a note and those about to refund it need of a step, when the refunds
\* stay as they are.
LEMMA RefundOnceKept ==
    ASSUME Typed, RefundOnce, NEW a \in Actors, NEW k, actor' = [actor EXCEPT ![a] = k],
           refunds' = refunds, raced \subseteq raced',
           k.pc = "refunding" =>
              /\ refunds[k.note] = 0
              /\ (\E b \in Actors \ {a} : Refunding(b, k.note)) => k.note \in raced'
    PROVE  RefundOnce'
  <1>1. actor'[a] = k /\ \A b \in Actors \ {a} : actor'[b] = actor[b]
    BY Others DEF Typed
  <1> SUFFICES ASSUME NEW note \in Notes \ raced'
               PROVE  /\ refunds[note] <= 1
                      /\ \A c \in Actors : Refunding(c, note)' =>
                            /\ refunds[note] = 0
                            /\ \A b \in Actors : Refunding(b, note)' => c = b
    BY DEF RefundOnce
  <1>2. /\ refunds[note] <= 1
        /\ \A c \in Actors : Refunding(c, note) =>
              /\ refunds[note] = 0
              /\ \A b \in Actors : Refunding(b, note) => c = b
    BY DEF RefundOnce
  <1>3. \A c \in Actors \ {a} : Refunding(c, note)' <=> Refunding(c, note)
    BY <1>1 DEF Refunding, At
  <1>4. Refunding(a, note)' =>
            refunds[note] = 0 /\ \A c \in Actors \ {a} : ~Refunding(c, note)
    BY <1>1 DEF Refunding, At
  <1> QED BY <1>2, <1>3, <1>4

LEMMA RefundOnceStep ==
    ASSUME Typed, RefundOnce, [Next]_vars
    PROVE  RefundOnce'
  <1>1. CASE UNCHANGED vars
    BY <1>1 DEF RefundOnce, Refunding, At, vars, orderVars
  <1>2. CASE Restart
    <2>1. \A b \in Actors : ~At(b, "refunding")'
      BY <1>2, NoJobFields DEF Restart, At
    <2> QED BY <1>2, <2>1 DEF Restart, RefundOnce, Refunding
  <1>3. ASSUME NEW a \in Actors, MoveStep(a)
        PROVE  RefundOnce'
    <2>1. PICK k \in Job :
              /\ actor' = [actor EXCEPT ![a] = k]
              /\ k.pc = IF actor[a].op = "return_qc_pass" THEN "refund" ELSE "persist"
      BY <1>3, MoveJob
    <2>2. k.pc # "refunding" /\ UNCHANGED <<refunds, raced>>
      BY <1>3, <2>1 DEF MoveStep
    <2> QED BY <2>1, <2>2, RefundOnceKept
  <1>4. ASSUME NEW a \in Actors, NEW k \in Job, JobStep(a, k)
        PROVE  RefundOnce'
    <2>1. /\ actor' = [actor EXCEPT ![a] = k] /\ refunds' = refunds /\ raced \subseteq raced'
          /\ k.pc = "refunding" =>
                /\ refunds[k.note] = 0
                /\ (\E b \in Actors \ {a} : Refunding(b, k.note)) => k.note \in raced'
      BY <1>4 DEF JobStep
    <2> QED BY <2>1, RefundOnceKept
  <1>5. ASSUME NEW a \in Actors, NEW k \in Job, PayStep(a, k)
        PROVE  RefundOnce'
    <2>1. /\ actor' = [actor EXCEPT ![a] = k] /\ raced' = raced
          /\ refunds' = [refunds EXCEPT ![actor[a].note] = @ + 1]
          /\ Refunding(a, actor[a].note)
      BY <1>5 DEF PayStep, Refunding
    <2>2. actor'[a] = k /\ \A b \in Actors \ {a} : actor'[b] = actor[b]
      BY <2>1, Others DEF Typed
    <2>3. k.pc # "refunding"
      BY <1>5, NoJobFields DEF PayStep
    <2>4. refunds \in [Notes -> Nat]
      BY DEF Typed, TypeOK
    <2> SUFFICES ASSUME NEW note \in Notes \ raced
                 PROVE  /\ refunds'[note] <= 1
                        /\ \A c \in Actors : Refunding(c, note)' =>
                              /\ refunds'[note] = 0
                              /\ \A b \in Actors : Refunding(b, note)' => c = b
      BY <2>1 DEF RefundOnce
    <2>5. /\ refunds[note] <= 1
          /\ \A c \in Actors : Refunding(c, note) =>
                /\ refunds[note] = 0
                /\ \A b \in Actors : Refunding(b, note) => c = b
      BY DEF RefundOnce
    <2>6. /\ ~Refunding(a, note)'
          /\ \A c \in Actors \ {a} : Refunding(c, note)' <=> Refunding(c, note)
      BY <2>2, <2>3 DEF Refunding, At
    <2>7. CASE note = actor[a].note
      <3>1. refunds[note] = 0 /\ \A c \in Actors \ {a} : ~Refunding(c, note)
        BY <2>1, <2>5, <2>7
      <3>2. refunds'[note] = 1
        BY <2>1, <2>4, <2>7, <3>1
      <3> QED BY <2>6, <3>1, <3>2
    <2>8. CASE note # actor[a].note
      <3>1. refunds'[note] = refunds[note]
        BY <2>1, <2>4, <2>8
      <3> QED BY <2>5, <2>6, <3>1
    <2> QED BY <2>7, <2>8
  <1>6. ASSUME NEW a \in Actors, NEW k \in Job, WriteStep(a, k)
        PROVE  RefundOnce'
    <2>1. k.pc # "refunding" /\ UNCHANGED <<refunds, raced>> /\ actor' = [actor EXCEPT ![a] = k]
      BY <1>6, NoJobFields DEF WriteStep, WriteBack
    <2> QED BY <2>1, RefundOnceKept
  <1> QED BY <1>1, <1>2, <1>3, <1>4, <1>5, <1>6, Kinded DEF Kind

-----------------------------------------------------------------------------
(* Fulfillment requests. *)

\* An attempt that nothing disturbs is not taken back.
LEMMA AttemptStays ==
    ASSUME Typed, NEW a \in Actors, NEW k, WriteStep(a, k), NEW n \in Attempts \ disturbed',
           meta.fi[n] # "none"
    PROVE  meta'.fi[n] # "none"
  <1>1. actor[a].snap.fi[n] = meta.fi[n] /\ (n # actor[a].n => meta'.fi[n] = meta.fi[n])
    BY WriteKeeps
  <1>2. actor[a].n = n => LegalAttemptChange(meta.fi[n], meta'.fi[n])
    BY <1>1 DEF WriteStep
  <1> QED BY <1>1, <1>2 DEF LegalAttemptChange

LEMMA AnnouncedKept ==
    ASSUME Typed, Announced, NEW a \in Actors, NEW k, actor' = [actor EXCEPT ![a] = k],
           disturbed \subseteq disturbed', announced' = announced,
           \A n \in Attempts \ disturbed' : meta.fi[n] # "none" => meta'.fi[n] # "none",
           \A n \in Attempts \ disturbed' :
              k.pc = "emit" /\ k.n = n => announced[n] = 0 /\ meta'.fi[n] # "none"
    PROVE  Announced'
  <1>1. actor'[a] = k /\ \A b \in Actors \ {a} : actor'[b] = actor[b]
    BY Others DEF Typed
  <1> SUFFICES ASSUME NEW n \in Attempts \ disturbed'
               PROVE  /\ announced[n] <= 1
                      /\ announced[n] > 0 => meta'.fi[n] # "none"
                      /\ \A b \in Actors :
                            Announcing(b, n)' => announced[n] = 0 /\ meta'.fi[n] # "none"
    BY DEF Announced
  <1>2. /\ announced[n] <= 1
        /\ announced[n] > 0 => meta.fi[n] # "none"
        /\ \A b \in Actors : Announcing(b, n) => announced[n] = 0 /\ meta.fi[n] # "none"
    BY DEF Announced
  <1> QED BY <1>1, <1>2 DEF Announcing, At

LEMMA AnnouncedStep ==
    ASSUME Typed, Alone, Announced, [Next]_vars
    PROVE  Announced'
  <1>1. CASE UNCHANGED vars
    BY <1>1 DEF Announced, Announcing, At, vars, orderVars
  <1>2. CASE Restart
    <2>1. \A b \in Actors : ~At(b, "emit")'
      BY <1>2, NoJobFields DEF Restart, At
    <2> QED BY <1>2, <2>1 DEF Restart, Announced, Announcing
  <1>3. ASSUME NEW a \in Actors, MoveStep(a)
        PROVE  Announced'
    <2>1. PICK k \in Job :
              /\ actor' = [actor EXCEPT ![a] = k]
              /\ k.pc = IF actor[a].op = "return_qc_pass" THEN "refund" ELSE "persist"
      BY <1>3, MoveJob
    <2>2. k.pc # "emit" /\ UNCHANGED <<meta, announced, disturbed>>
      BY <1>3, <2>1 DEF MoveStep
    <2> QED BY <2>1, <2>2, AnnouncedKept
  <1>4. ASSUME NEW a \in Actors, NEW k \in Job, JobStep(a, k)
        PROVE  Announced'
    <2>1. /\ actor' = [actor EXCEPT ![a] = k] /\ meta' = meta /\ disturbed \subseteq disturbed'
          /\ k.pc # "emit"
          /\ \/ announced' = announced
             \/ /\ actor[a].pc = "emit"
                /\ announced' = [announced EXCEPT ![actor[a].n] = @ + 1]
      BY <1>4 DEF JobStep
    <2>2. CASE announced' = announced
      BY <2>1, <2>2, AnnouncedKept
    <2>3. CASE actor[a].pc = "emit" /\ announced' = [announced EXCEPT ![actor[a].n] = @ + 1]
      <3>1. actor'[a] = k /\ \A b \in Actors \ {a} : actor'[b] = actor[b]
        BY <2>1, Others DEF Typed
      <3>2. announced \in [Attempts -> Nat]
        BY DEF Typed, TypeOK
      <3> SUFFICES ASSUME NEW n \in Attempts \ disturbed'
                   PROVE  /\ announced'[n] <= 1
                          /\ announced'[n] > 0 => meta.fi[n] # "none"
                          /\ \A b \in Actors :
                                Announcing(b, n)' => announced'[n] = 0 /\ meta.fi[n] # "none"
        BY <2>1 DEF Announced
      <3>3. /\ announced[n] <= 1
            /\ announced[n] > 0 => meta.fi[n] # "none"
            /\ \A b \in Actors : Announcing(b, n) => announced[n] = 0 /\ meta.fi[n] # "none"
        BY <2>1 DEF Announced
      <3>4. /\ ~Announcing(a, n)'
            /\ \A b \in Actors \ {a} : Announcing(b, n)' <=> Announcing(b, n)
        BY <2>1, <3>1 DEF Announcing, At
      <3>5. CASE actor[a].n = n
        <4>1. announced[n] = 0 /\ meta.fi[n] # "none"
          BY <2>3, <3>3, <3>5 DEF Announcing, At
        <4>2. announced'[n] = 1
          BY <2>3, <3>2, <3>5, <4>1
        <4>3. \A b \in Actors \ {a} : ~Announcing(b, n)
          BY <2>1, <3>5 DEF Alone, Announcing, InHand, Things
        <4> QED BY <3>4, <4>1, <4>2, <4>3
      <3>6. CASE actor[a].n # n
        <4>1. announced'[n] = announced[n]
          BY <2>3, <3>2, <3>6
        <4> QED BY <3>3, <3>4, <4>1
      <3> QED BY <3>5, <3>6
    <2> QED BY <2>1, <2>2, <2>3
  <1>5. ASSUME NEW a \in Actors, NEW k \in Job, PayStep(a, k)
        PROVE  Announced'
    <2>1. /\ actor' = [actor EXCEPT ![a] = k] /\ k.pc # "emit"
          /\ UNCHANGED <<meta, announced, disturbed>>
      BY <1>5, NoJobFields DEF PayStep
    <2> QED BY <2>1, AnnouncedKept
  <1>6. ASSUME NEW a \in Actors, NEW k \in Job, WriteStep(a, k)
        PROVE  Announced'
    <2>1. /\ actor' = [actor EXCEPT ![a] = k] /\ announced' = announced
          /\ disturbed \subseteq disturbed'
      BY <1>6, WriteKeeps DEF WriteStep, WriteBack
    <2>2. \A n \in Attempts \ disturbed' : meta.fi[n] # "none" => meta'.fi[n] # "none"
      BY <1>6, AttemptStays
    <2>3. ASSUME NEW n \in Attempts \ disturbed', k.pc = "emit", k.n = n
          PROVE  announced[n] = 0 /\ meta'.fi[n] # "none"
      <3>1. actor[a].n = n /\ actor[a].snap.fi[n] = "none" /\ meta'.fi[n] # "none"
        BY <1>6, <2>3, NoJobFields DEF WriteStep
      <3>2. meta.fi[n] = "none"
        BY <1>6, <3>1, WriteKeeps
      <3>3. ~(announced[n] > 0) /\ announced[n] \in Nat
        BY <2>1, <3>2 DEF Announced, Typed, TypeOK
      <3> QED BY <3>1, <3>3
    <2> QED BY <2>1, <2>2, <2>3, AnnouncedKept
  <1> QED BY <1>1, <1>2, <1>3, <1>4, <1>5, <1>6, Kinded DEF Kind

-----------------------------------------------------------------------------
(* The replacement, and the order event. *)

LEMMA AvailableKept ==
    ASSUME Typed, Available, NEW a \in Actors, NEW k, actor' = [actor EXCEPT ![a] = k],
           stock' = stock, overbooked => overbooked',
           k.pc = "move" /\ k.op = "exchange_reserve_replacement" =>
              /\ stock["sellable"] >= 1
              /\ (\E b \in Actors : Reserving(b)) => overbooked'
    PROVE  Available'
  <1>1. actor'[a] = k /\ \A b \in Actors \ {a} : actor'[b] = actor[b]
    BY Others DEF Typed
  <1>2. /\ \A b \in Actors \ {a} : Reserving(b)' <=> Reserving(b)
        /\ Reserving(a)' <=> k.pc = "move" /\ k.op = "exchange_reserve_replacement"
    BY <1>1 DEF Reserving, At
  <1> QED BY <1>2 DEF Available

LEMMA AvailableStep ==
    ASSUME Typed, Available, [Next]_vars
    PROVE  Available'
  <1>1. CASE UNCHANGED vars
    BY <1>1 DEF Available, Reserving, At, vars, orderVars
  <1>2. CASE Restart
    <2>1. \A b \in Actors : ~At(b, "move")'
      BY <1>2, NoJobFields DEF Restart, At
    <2> QED BY <1>2, <2>1 DEF Restart, Available, Reserving
  <1>3. ASSUME NEW a \in Actors, MoveStep(a)
        PROVE  Available'
    <2>1. PICK k \in Job :
              /\ actor' = [actor EXCEPT ![a] = k]
              /\ k.pc = IF actor[a].op = "return_qc_pass" THEN "refund" ELSE "persist"
      BY <1>3, MoveJob
    <2>2. actor'[a] = k /\ \A b \in Actors \ {a} : actor'[b] = actor[b]
      BY <2>1, Others DEF Typed
    <2>3. /\ ~Reserving(a)'
          /\ \A b \in Actors \ {a} : Reserving(b)' <=> Reserving(b)
      BY <2>1, <2>2 DEF Reserving, At
    <2>4. /\ stock["sellable"] \in Int /\ stock'["sellable"] \in Int
          /\ stock'["sellable"] >= stock["sellable"] - (IF Reserving(a) THEN 1 ELSE 0)
          /\ overbooked' = overbooked
      BY <1>3, Adjustments DEF MoveStep, Typed, TypeOK
    <2> QED BY <2>3, <2>4 DEF Available
  <1>4. ASSUME NEW a \in Actors, NEW k \in Job, JobStep(a, k)
        PROVE  Available'
    BY <1>4, AvailableKept DEF JobStep
  <1>5. ASSUME NEW a \in Actors, NEW k \in Job, PayStep(a, k)
        PROVE  Available'
    <2>1. k.pc # "move" /\ actor' = [actor EXCEPT ![a] = k] /\ UNCHANGED <<stock, overbooked>>
      BY <1>5, NoJobFields DEF PayStep
    <2> QED BY <2>1, AvailableKept
  <1>6. ASSUME NEW a \in Actors, NEW k \in Job, WriteStep(a, k)
        PROVE  Available'
    <2>1. k.pc # "move" /\ actor' = [actor EXCEPT ![a] = k] /\ UNCHANGED <<stock, overbooked>>
      BY <1>6, NoJobFields DEF WriteStep, WriteBack
    <2> QED BY <2>1, AvailableKept
  <1> QED BY <1>1, <1>2, <1>3, <1>4, <1>5, <1>6, Kinded DEF Kind

-----------------------------------------------------------------------------
(* The invariant. *)

LEMMA InitInvariant == Init => IInv
  <1> SUFFICES ASSUME Init PROVE IInv
    OBVIOUS
  <1>1. Typed
    BY InitTyped
  <1>2. /\ meta = NoMetadata /\ refundEvents = {} /\ known = "no"
        /\ \A note \in Notes : refunds[note] = 0
        /\ \A n \in Attempts : announced[n] = 0
        /\ \A i \in Intents, m \in Modes : moved[i][m] = 0
        /\ stock["sellable"] = InitialStock
        /\ \A a \in Actors : actor[a] = NoJob
    BY Adjustments DEF Init, NoAdjustment
  <1>3. /\ \A i \in Intents : NoMetadata.it[i].moves = {} /\ NoMetadata.it[i].refund = "none"
        /\ Recording(NoJob) = {}
    BY NoRecording DEF NoMetadata, NoIntent
  <1>4. \A a \in Actors, x \in Things : ~InHand(a, x)
    BY <1>2, NoJobFields DEF InHand, InJob
  <1>5. Alone /\ UpToDate
    BY <1>4 DEF Alone, UpToDate, InHand, Things
  <1>6. StockMovedOnce
    BY <1>2, <1>3, MovedIs DEF HasMovement
  <1>7. Backed
    <2>1. RecordsBacked(NoMetadata)
      BY <1>3, Kinds DEF RecordsBacked
    <2>2. BackedJob(NoJob)
      BY <2>1, NoJobFields DEF BackedJob
    <2> QED BY <1>2, <2>1, <2>2, Kinds DEF Backed
  <1>8. RefundOnce /\ Announced /\ Available
    <2>1. \A a \in Actors : ~At(a, "refunding") /\ ~At(a, "emit") /\ ~At(a, "move")
      BY <1>2, NoJobFields DEF At
    <2>2. RefundOnce /\ Announced
      BY <1>2, <2>1 DEF RefundOnce, Refunding, Announced, Announcing
    <2>3. Available
      BY <1>2, <2>1, OrderConstants DEF Available, Reserving
    <2> QED BY <2>2, <2>3
  <1> QED BY <1>1, <1>5, <1>6, <1>7, <1>8 DEF IInv

LEMMA StepInvariant ==
    ASSUME IInv, [Next]_vars
    PROVE  IInv'
  BY TypedStep, AloneStep, UpToDateStep, MovedStep, BackedStep, RefundOnceStep, AnnouncedStep,
     AvailableStep DEF IInv

-----------------------------------------------------------------------------
(* What follows from the invariant. *)

\* Goods are about to go back on the shelf, or to be written off, only from the hold.
LEMMA FromHold ==
    ASSUME Typed, UpToDate, NEW i \in (Returns \cup Rtos) \ disturbed,
           NEW a \in Actors, actor[a].i = i, NEW m \in Recording(actor[a]),
           m \in {"qc_hold_to_sellable", "qc_hold_to_damage"}
    PROVE  meta.it[i].moves = {"to_qc_hold"} /\ Recording(actor[a]) = {m}
  <1> DEFINE j == actor[a]
  <1>1. m \in MovesOf(j.op) /\ Recording(j) = MovesOf(j.op)
    BY DEF Recording
  <1>2. meta.it[i] = j.snap.it[i] /\ j.snap.it[i] \in Intent
    BY Kinds, Given DEF UpToDate, Metadata
  <1>3. CASE i \in Returns
    <2>1. ReturnJob(j) /\ GoodReturn(j.snap.it[i])
      BY <1>3, Held, Given DEF GoodMeta
    <2>2. j.op \in {"return_request", "return_approve", "return_close", "return_receive",
                    "return_qc_fail", "return_qc_pass", "prepaid_refund"}
      BY <2>1 DEF ReturnJob
    <2>3. j.op \in {"return_qc_pass", "return_qc_fail"}
      BY <1>1, <2>2, Moves, NoMoves
    <2>4. j.snap.it[i].state = "received"
      BY <2>1, <2>3 DEF ReturnJob, ReturnLegal
    <2>5. MovesOf(j.op) = {m}
      BY <1>1, <2>3, Moves
    <2> QED BY <1>1, <1>2, <2>1, <2>4, <2>5 DEF GoodReturn
  <1>4. CASE i \in Rtos
    <2>1. RtoJob(j) /\ GoodRto(j.snap.it[i])
      BY <1>4, Held, Given DEF GoodMeta
    <2>2. j.op \in {"rto_initiate", "rto_close", "rto_receive", "rto_qc_pass", "rto_qc_fail"}
      BY <2>1 DEF RtoJob
    <2>3. j.op \in {"rto_qc_pass", "rto_qc_fail"}
      BY <1>1, <2>2, Moves, NoMoves
    <2>4. j.snap.it[i].state = "received"
      BY <2>1, <2>3 DEF RtoJob, RtoLegal
    <2>5. MovesOf(j.op) = {m}
      BY <1>1, <2>3, Moves
    <2> QED BY <1>1, <1>2, <2>1, <2>4, <2>5 DEF GoodRto
  <1> QED BY <1>3, <1>4

LEMMA RestockFollows == IInv => RestockNeedsPass
  <1> SUFFICES ASSUME IInv, NEW i \in (Returns \cup Rtos) \ disturbed,
                      moved[i]["qc_hold_to_sellable"] > 0
               PROVE  /\ moved[i]["to_qc_hold"] = 1
                      /\ moved[i]["qc_hold_to_damage"] = 0
    BY DEF RestockNeedsPass
  <1>1. Typed /\ Alone /\ UpToDate /\ StockMovedOnce
    BY DEF IInv
  <1>2. /\ i \in Intents \ disturbed
        /\ {"to_qc_hold", "qc_hold_to_sellable", "qc_hold_to_damage"} \subseteq Modes
    BY Kinds DEF Modes
  <1>3. HasMovement(i, "qc_hold_to_sellable")
    BY <1>1, <1>2, MovedIs
  <1>4. CASE "qc_hold_to_sellable" \in meta.it[i].moves
    <2>1. meta.it[i].moves = Passed
      BY <1>1, <1>4 DEF Typed, GoodMeta, GoodReturn, GoodRto, Passed, Failed
    <2>2. \A a \in Actors : actor[a].i = i => "qc_hold_to_damage" \notin Recording(actor[a])
      BY <1>1, <1>4, <2>1, FromHold
    <2>3. HasMovement(i, "to_qc_hold") /\ ~HasMovement(i, "qc_hold_to_damage")
      BY <2>1, <2>2 DEF HasMovement, Passed
    <2> QED BY <1>1, <1>2, <2>3, MovedIs
  <1>5. ASSUME NEW a \in Actors, actor[a].i = i, "qc_hold_to_sellable" \in Recording(actor[a])
        PROVE  /\ moved[i]["to_qc_hold"] = 1
               /\ moved[i]["qc_hold_to_damage"] = 0
    <2>1. meta.it[i].moves = {"to_qc_hold"} /\ Recording(actor[a]) = {"qc_hold_to_sellable"}
      BY <1>1, <1>5, FromHold
    <2>2. HasMovement(i, "to_qc_hold")
      BY <2>1 DEF HasMovement
    <2>3. ~HasMovement(i, "qc_hold_to_damage")
      <3>1. \A m : HasMovement(i, m) <=> m \in meta.it[i].moves \/ m \in Recording(actor[a])
        BY <1>1, <1>2, <1>5, AloneHas
      <3> QED BY <2>1, <3>1
    <2> QED BY <1>1, <1>2, <2>2, <2>3, MovedIs
  <1> QED BY <1>3, <1>4, <1>5 DEF HasMovement

LEMMA BackedFollows == IInv => RefundsBacked
  BY DEF IInv, Backed, RecordsBacked, Restocked, Refunded, RefundsBacked

LEMMA RefundedFollows == IInv => RefundedOncePerNote
  <1> SUFFICES ASSUME IInv, NEW note \in Notes, refunds[note] > 1 PROVE note \in raced
    BY DEF RefundedOncePerNote
  <1>1. refunds[note] \in Nat
    BY DEF IInv, Typed, TypeOK
  <1> QED BY <1>1 DEF IInv, RefundOnce

LEMMA OthersFollow ==
    IInv => TypeOK /\ StockMovedOnce /\ AnnouncedOnce /\ ShownStatusIsAnIntents
                /\ SellableNotNegative
  BY DEF IInv, Typed, GoodMeta, Announced, Available, AnnouncedOnce, ShownStatusIsAnIntents,
         SellableNotNegative

LEMMA LegalStep ==
    ASSUME IInv, [Next]_vars
    PROVE  /\ \A i \in Intents \ disturbed' :
                 LegalChange(i, meta.it[i].state, meta'.it[i].state)
           /\ \A n \in Attempts \ disturbed' : LegalAttemptChange(meta.fi[n], meta'.fi[n])
  <1>1. Typed
    BY DEF IInv
  <1>2. CASE meta' = meta
    BY <1>2 DEF LegalChange, LegalAttemptChange
  <1>3. CASE UNCHANGED vars \/ Restart
    BY <1>2, <1>3 DEF vars, orderVars, Restart
  <1>4. ASSUME NEW a \in Actors, NEW k \in Job, MoveStep(a) \/ JobStep(a, k) \/ PayStep(a, k)
        PROVE  meta' = meta
    BY <1>4 DEF MoveStep, JobStep, PayStep
  <1>5. ASSUME NEW a \in Actors, NEW k \in Job, WriteStep(a, k)
        PROVE  /\ \A i \in Intents \ disturbed' :
                     LegalChange(i, meta.it[i].state, meta'.it[i].state)
               /\ \A n \in Attempts \ disturbed' : LegalAttemptChange(meta.fi[n], meta'.fi[n])
    <2>1. ASSUME NEW i \in Intents \ disturbed'
          PROVE  LegalChange(i, meta.it[i].state, meta'.it[i].state)
      <3>1. actor[a].snap.it[i] = meta.it[i] /\ (i # actor[a].i => meta'.it[i] = meta.it[i])
        BY <1>1, <1>5, WriteKeeps
      <3>2. CASE actor[a].i = i
        BY <1>5, <3>1, <3>2 DEF WriteStep
      <3>3. CASE actor[a].i # i
        BY <3>1, <3>3 DEF LegalChange
      <3> QED BY <3>2, <3>3
    <2>2. ASSUME NEW n \in Attempts \ disturbed'
          PROVE  LegalAttemptChange(meta.fi[n], meta'.fi[n])
      <3>1. actor[a].snap.fi[n] = meta.fi[n] /\ (n # actor[a].n => meta'.fi[n] = meta.fi[n])
        BY <1>1, <1>5, WriteKeeps
      <3>2. CASE actor[a].n = n
        BY <1>5, <3>1, <3>2 DEF WriteStep
      <3>3. CASE actor[a].n # n
        BY <3>1, <3>3 DEF LegalAttemptChange
      <3> QED BY <3>2, <3>3
    <2> QED BY <2>1, <2>2
  <1> QED BY <1>1, <1>2, <1>3, <1>4, <1>5, NoJobType, Kinded DEF Kind

-----------------------------------------------------------------------------
(* No state machine leads back. *)

\* How far a state is along its machine.
Stage ==
    [none |-> 0, requested |-> 1, initiated |-> 1, approved |-> 2, received |-> 3,
     return_received |-> 3, qc_passed |-> 4, qc_failed |-> 4, replacement_reserved |-> 4,
     refunded |-> 5, replacement_shipped |-> 5, delivered |-> 6, closed |-> 7]

AttemptStage ==
    [none |-> 0, requested |-> 1, ready_for_shipment |-> 2, shipped |-> 3, delivered |-> 4,
     delivery_failed |-> 4, rto_initiated |-> 5, rto_delivered |-> 6]

\* An intent or attempt that nothing disturbs never returns to a state it has left.
NoWayBack ==
    [][/\ \A i \in Intents \ disturbed' :
             \/ meta'.it[i].state = meta.it[i].state
             \/ Stage[meta'.it[i].state] > Stage[meta.it[i].state]
       /\ \A n \in Attempts \ disturbed' :
             \/ meta'.fi[n] = meta.fi[n]
             \/ AttemptStage[meta'.fi[n]] > AttemptStage[meta.fi[n]]]_vars

LEMMA StagesGrow ==
    /\ \A s \in DOMAIN ReturnNext : \A t \in ReturnNext[s] : Stage[t] > Stage[s]
    /\ \A s \in DOMAIN RtoNext : \A t \in RtoNext[s] : Stage[t] > Stage[s]
    /\ \A s \in DOMAIN ExchangeNext : \A t \in ExchangeNext[s] : Stage[t] > Stage[s]
    /\ Stage["refunded"] > Stage["received"]
    /\ Stage["requested"] > Stage["none"] /\ Stage["initiated"] > Stage["none"]
  <1>1. \A s \in DOMAIN ReturnNext : \A t \in ReturnNext[s] : Stage[t] > Stage[s]
    BY DEF ReturnNext, Stage
  <1>2. \A s \in DOMAIN RtoNext : \A t \in RtoNext[s] : Stage[t] > Stage[s]
    BY DEF RtoNext, Stage
  <1>3. \A s \in DOMAIN ExchangeNext : \A t \in ExchangeNext[s] : Stage[t] > Stage[s]
    BY DEF ExchangeNext, Stage
  <1> QED BY <1>1, <1>2, <1>3 DEF Stage

LEMMA AttemptStagesGrow ==
    /\ \A s \in FulfillmentStatus : \A t \in FulfillmentNext[s] :
          AttemptStage[t] > AttemptStage[s]
    /\ AttemptStage["requested"] > AttemptStage["none"]
  BY DEF FulfillmentStatus, FulfillmentNext, AttemptStage

\* The states an intent of each kind can have, whatever the metadata was.
LEMMA StatesOfKinds ==
    ASSUME NEW m, GoodMeta(m)
    PROVE  /\ \A i \in Returns : m.it[i].state \in {"none"} \cup DOMAIN ReturnNext
           /\ \A i \in Rtos : m.it[i].state \in {"none"} \cup DOMAIN RtoNext
           /\ \A i \in Exchanges : m.it[i].state \in {"none"} \cup DOMAIN ExchangeNext
  BY Words DEF GoodMeta, GoodReturn, GoodRto, GoodExchange

LEMMA OnlyForward ==
    ASSUME IInv, [Next]_vars
    PROVE  /\ \A i \in Intents \ disturbed' :
                 \/ meta'.it[i].state = meta.it[i].state
                 \/ Stage[meta'.it[i].state] > Stage[meta.it[i].state]
           /\ \A n \in Attempts \ disturbed' :
                 \/ meta'.fi[n] = meta.fi[n]
                 \/ AttemptStage[meta'.fi[n]] > AttemptStage[meta.fi[n]]
  <1>1. ASSUME NEW i \in Intents \ disturbed', meta'.it[i].state # meta.it[i].state
        PROVE  Stage[meta'.it[i].state] > Stage[meta.it[i].state]
    <2> DEFINE s == meta.it[i].state
               t == meta'.it[i].state
    <2>1. LegalChange(i, s, t) /\ s # t
      BY <1>1, LegalStep
    <2>2. /\ i \in Returns => s \in {"none"} \cup DOMAIN ReturnNext
          /\ i \in Rtos => s \in {"none"} \cup DOMAIN RtoNext
          /\ i \in Exchanges => s \in {"none"} \cup DOMAIN ExchangeNext
      BY StatesOfKinds DEF IInv, Typed
    <2> HIDE DEF s, t
    <2>3. CASE s = "none"
      <3>1. t \in {"initiated", "requested"}
        BY <2>1, <2>3 DEF LegalChange
      <3>2. Stage[t] > Stage["none"]
        BY <3>1, StagesGrow
      <3> QED BY <2>3, <3>2 DEF s, t
    <2>4. CASE s # "none"
      <3>1. CASE i \in Returns
        <4>1. s \in DOMAIN ReturnNext
              /\ (t \in ReturnNext[s] \/ (s = "received" /\ t = "refunded"))
          BY <2>1, <2>2, <2>4, <3>1 DEF LegalChange
        <4>2. Stage[t] > Stage[s]
          BY <4>1, StagesGrow
        <4> QED BY <4>2 DEF s, t
      <3>2. CASE i \in Rtos
        <4>1. s \in DOMAIN RtoNext /\ t \in RtoNext[s]
          BY <2>1, <2>2, <2>4, <3>2, Kinds DEF LegalChange
        <4>2. Stage[t] > Stage[s]
          BY <4>1, StagesGrow
        <4> QED BY <4>2 DEF s, t
      <3>3. CASE i \in Exchanges
        <4>1. s \in DOMAIN ExchangeNext /\ t \in ExchangeNext[s]
          BY <2>1, <2>2, <2>4, <3>3, Kinds DEF LegalChange
        <4>2. Stage[t] > Stage[s]
          BY <4>1, StagesGrow
        <4> QED BY <4>2 DEF s, t
      <3> QED BY <3>1, <3>2, <3>3 DEF Intents
    <2> QED BY <2>3, <2>4
  <1>2. ASSUME NEW n \in Attempts \ disturbed', meta'.fi[n] # meta.fi[n]
        PROVE  AttemptStage[meta'.fi[n]] > AttemptStage[meta.fi[n]]
    <2>1. LegalAttemptChange(meta.fi[n], meta'.fi[n])
      BY LegalStep
    <2>2. meta.fi[n] \in {"none"} \cup FulfillmentStatus
      BY DEF IInv, Typed, TypeOK, Metadata
    <2> QED BY <1>2, <2>1, <2>2, AttemptStagesGrow DEF LegalAttemptChange
  <1> QED BY <1>1, <1>2

-----------------------------------------------------------------------------
(* Theorems *)

\* For any intents, attempts, requests and handlers of an order, and any number of failures
\* and restarts: the invariant holds in every state.
THEOREM Invariance == Spec => []IInv
  <1>1. IInv /\ [Next]_vars => IInv'
    BY StepInvariant
  <1> QED BY <1>1, InitInvariant, PTL DEF Spec

\* Every variable of the order keeps its type.
THEOREM TypeCorrect == Spec => []TypeOK
  BY Invariance, OthersFollow, PTL

\* Although each handler adjusts the stock in one call and stores the order it read before in
\* another: a movement is carried out once if the intent records it or an actor is about to,
\* and never otherwise, for every intent that nothing disturbed.
THEOREM StockIsMovedOnce == Spec => []StockMovedOnce
  BY Invariance, OthersFollow, PTL

\* applyInventoryMovement puts goods back into stock only from the hold, and never goods that
\* were written off.
THEOREM RestockedGoodsPassed == Spec => []RestockNeedsPass
  BY Invariance, RestockFollows, PTL

\* No failure, restart or overwritten metadata lets the refund of a return, or the record of
\* one, come before its goods are back.
THEOREM RefundsFollowTheGoods == Spec => []RefundsBacked
  BY Invariance, BackedFollows, PTL

\* The refund of one note is repeated only by two actors who looked for it at the same time.
THEOREM RefundsAreNotRepeated == Spec => []RefundedOncePerNote
  BY Invariance, RefundedFollows, PTL

\* order.placed delivered again, a retry and a rebuild announce an attempt once, unless two
\* of them were at it together or its intent was overwritten.
THEOREM AnnouncedAtMostOnce == Spec => []AnnouncedOnce
  BY Invariance, OthersFollow, PTL

\* fulfillment_state_v1 shows the status of an intent the order has, whoever wrote it last.
THEOREM ShownStatusExists == Spec => []ShownStatusIsAnIntents
  BY Invariance, OthersFollow, PTL

\* assertReplacementAvailability keeps the stock from being oversold, unless two exchanges
\* pass it before either has taken its unit.
THEOREM ReplacementsAreInStock == Spec => []SellableNotNegative
  BY Invariance, OthersFollow, PTL

\* Writing back the whole metadata moves no intent and no attempt along a way its state
\* machine does not have, except by taking back what others have stored.
THEOREM WritesAreLegal == Spec => LegalUnlessDisturbed
  <1>1. IInv /\ [Next]_vars =>
           [/\ \A i \in Intents \ disturbed' :
                  LegalChange(i, meta.it[i].state, meta'.it[i].state)
            /\ \A n \in Attempts \ disturbed' :
                  LegalAttemptChange(meta.fi[n], meta'.fi[n])]_vars
    BY LegalStep
  <1> QED BY <1>1, Invariance, PTL DEF Spec, LegalUnlessDisturbed

\* No operation and no event takes an undisturbed intent back to a state it has left: why an
\* operation asked for twice is refused or changes nothing, even without its idempotency key.
THEOREM NothingComesBack == Spec => NoWayBack
  <1>1. IInv /\ [Next]_vars =>
           [/\ \A i \in Intents \ disturbed' :
                  \/ meta'.it[i].state = meta.it[i].state
                  \/ Stage[meta'.it[i].state] > Stage[meta.it[i].state]
            /\ \A n \in Attempts \ disturbed' :
                  \/ meta'.fi[n] = meta.fi[n]
                  \/ AttemptStage[meta'.fi[n]] > AttemptStage[meta.fi[n]]]_vars
    BY OnlyForward
  <1> QED BY <1>1, Invariance, PTL DEF Spec, NoWayBack
=============================================================================
