-------------------------- MODULE ShipmentBooking --------------------------
(***************************************************************************)
(* A shipment is drafted, booked with the carrier and recorded, while the  *)
(* carrier's webhooks already arrive. Five kinds of actors write the three *)
(* tables: the subscriber that books, webhook requests, the job that       *)
(* replays buffered webhooks, the job that recovers bookings that got      *)
(* stuck, and requests for a label. No transaction spans two statements,   *)
(* so every statement and every call to the carrier is a step of its own.  *)
(***************************************************************************)
EXTENDS ShipmentStatus, FiniteSets, Functions

CONSTANTS
    Shipments,      \* one per order and provider (uq_shipping_shipments_active_order_provider)
    Events,         \* webhook events of the carrier
    Bookers,        \* fulfillment.requested subscribers
    Webhooks,       \* webhook requests in flight
    Replayers,      \* runs of shipping-webhook-replay
    Recoverers,     \* runs of shipping-booking-recovery
    Labels,         \* requests for GET /shipments/:id/label
    Leftover,       \* shipments whose booking an earlier crash may have cut short
    NoShipment,
    NoEvent,
    Limit,          \* SHIPPING_WEBHOOK_REPLAY_BATCH_SIZE
    RecoveryLimit,  \* SHIPPING_BOOKING_RECOVERY_LIMIT
    Failing,        \* events a statement about which may fail every time (fairness only)
    Journey         \* bound: the statuses a parcel may reach at the carrier

\* How an event names its shipment: by provider_shipment_id or provider_awb, by the
\* carrier's order id, by our internal_reference.
Names == {"ids", "order_id", "reference"}

ASSUME ShipmentConstants ==
    /\ Events \subseteq [s : Shipments, status : ShipmentStatus, names : SUBSET Names]
    /\ IsFiniteSet(Shipments) /\ Leftover \subseteq Shipments
    /\ NoShipment \notin Shipments
    /\ NoEvent \notin Events
    /\ Limit \in Nat \ {0}
    /\ RecoveryLimit \in Nat \ {0}
    /\ Failing \subseteq Events
    /\ Journey \subseteq ShipmentStatus
    /\ Bookers \cap (Webhooks \cup Replayers \cup Recoverers \cup Labels) = {}
    /\ Webhooks \cap (Replayers \cup Recoverers \cup Labels) = {}
    /\ Replayers \cap (Recoverers \cup Labels) = {}
    /\ Recoverers \cap Labels = {}

VARIABLES
    carrier,    \* the carrier's own status of each shipment, "none" before it is booked
    sent,       \* events the carrier has issued
    row,        \* table shipping_shipments
    born,       \* ... and the order of created_at, 0 if there is no row
    old,        \* shipments created before the threshold of the recovery job
    log,        \* table shipping_events: the status each event was recorded with
    at,         \* table shipping_webhook_buffer: received_at, 0 if not buffered
    done,       \* ... and processed_at
    work,       \* the actors
    acked,      \* history: events answered with 200
    lost        \* history: events whose status was recorded but not applied, or undone

vars == <<carrier, sent, row, born, old, log, at, done, work, acked, lost>>

external == <<carrier, sent>>
age == <<born, old>>
buffer == <<at, done>>
history == <<acked, lost>>

Overwriters == Bookers \cup Recoverers \cup Labels
Actors == Overwriters \cup Webhooks \cup Replayers

\* A row of shipping_shipments; refs says that the carrier's ids are recorded.
\* is_active stays true: nothing outside the tests rebooks.
Row == [there : BOOLEAN, status : ShipmentStatus, refs : BOOLEAN]
NoRow == [there |-> FALSE, status |-> "DRAFT", refs |-> FALSE]

\* An actor: where it is, its shipment, event and status, the row it has read, what is
\* left of its scan, and as history the shipments it is about to write that somebody
\* else has written since it read or wrote them.
Idle == [pc |-> "idle", s |-> NoShipment, e |-> NoEvent, st |-> "DRAFT", seen |-> NoRow,
         todo |-> {}, stuck |-> {}, stale |-> {}]

DraftRow == [there |-> TRUE, status |-> "BOOKING_IN_PROGRESS", refs |-> FALSE]

\* The events by which the carrier tells of a status.
Tells(s, st) == {e \in Events : e.s = s /\ e.status = st}

\* Told(B): what the carrier has told of the shipments it has booked. Those events that do
\* not name our reference match no draft.
Told(B) == UNION {Tells(s, "BOOKED") : s \in B}

\* The order in which the members of S were stored, 0 for the others of T.
Order(S, T) ==
    {[x \in T |-> IF x \in S THEN f[x] ELSE 0] : f \in Injection(S, 1 .. Cardinality(S))}

\* The tables are empty; or a crash has left the drafts D behind, of which the carrier
\* booked those of B, and in the buffer the events S, which were answered.
Init ==
    /\ \E D \in SUBSET Leftover : \E B \in SUBSET D :
        /\ carrier = [s \in Shipments |-> IF s \in B THEN "BOOKED" ELSE "none"]
        /\ row = [s \in Shipments |-> IF s \in D THEN DraftRow ELSE NoRow]
        /\ born \in Order(D, Shipments)
        /\ sent = Told(B)
        /\ acked \in SUBSET {e \in Told(B) : "reference" \notin e.names}
        /\ IsFiniteSet(acked) /\ at \in Order(acked, Events)
    /\ old = {}
    /\ log = [e \in Events |-> "none"]
    /\ done = {}
    /\ work = [a \in Actors |-> Idle]
    /\ lost = {}

----------------------------------------------------------------------------
(***************************************************************************)
(* The carrier (external) and time.                                        *)
(***************************************************************************)

CarrierMoves(s) ==
    /\ carrier[s] # "none"
    /\ \E st \in CarrierStep[carrier[s]] \cap Journey :
        /\ carrier' = [carrier EXCEPT ![s] = st]
        /\ sent' = sent \cup Tells(s, st)
    /\ UNCHANGED <<row, age, log, buffer, work, history>>

\* The threshold of the recovery job passes the rows in the order they were created.
Age(s) ==
    /\ row[s].there /\ s \notin old
    /\ \A t \in Shipments \ old : row[t].there => born[s] <= born[t]
    /\ old' = old \cup {s}
    /\ UNCHANGED <<external, row, born, log, buffer, work, history>>

----------------------------------------------------------------------------
(***************************************************************************)
(* Writing a row.                                                          *)
(***************************************************************************)

Becomes(a, w) == work' = [work EXCEPT ![a] = w]

\* The actor is about to write what it knows of the shipment.
Holds(w, s) == (w.pc \in {"call", "record", "label"} /\ w.s = s) \/ s \in w.stuck

\* Actor a writes a row, goes on with w, and what others know of the row is outdated.
Write(a, s, r, w) ==
    /\ row' = [row EXCEPT ![s] = r]
    /\ work' = [x \in Actors |->
                    CASE x = a -> [w EXCEPT !.stale = @ \ {s}]
                      [] x # a /\ x \in Overwriters /\ Holds(work[x], s) ->
                            [work[x] EXCEPT !.stale = @ \cup {s}]
                      [] OTHER -> work[x]]

Recorded(s) == {e \in Events : e.s = s /\ log[e] # "none"}

\* markShipmentBookedFromProvider: references and status as given, whatever
\* the row says by now.
Overwrite(a, s, r, w) ==
    /\ Write(a, s, r, w)
    /\ lost' = lost \cup {e \in Recorded(s) : Rank[log[e]] > Rank[r.status]}
    /\ UNCHANGED acked

\* A recorded event whose status is not applied yet waits for its redelivery or
\* its next replay.
GivesUp(a) ==
    lost' = IF work[a].pc \in {"status", "cas"} THEN lost \cup {work[a].e} ELSE lost

\* A request fails or the process dies between two statements.
Abort(a) ==
    /\ work[a].pc # "idle"
    /\ Becomes(a, Idle)
    /\ GivesUp(a)
    /\ UNCHANGED <<external, row, age, log, buffer, acked>>

----------------------------------------------------------------------------
(***************************************************************************)
(* The fulfillment.requested subscriber.                                   *)
(***************************************************************************)

\* Mutation: the carrier is asked before a draft is stored.
BookCheckNoDraft(b, s) ==
    /\ work[b].pc = "idle"
    /\ ~row[s].there
    /\ Becomes(b, [Idle EXCEPT !.pc = "call", !.s = s])
    /\ UNCHANGED <<external, row, age, log, buffer, history>>

\* listActiveShipments, then the order is loaded.
BookCheck(b, s) ==
    /\ work[b].pc = "idle"
    /\ ~row[s].there
    /\ Becomes(b, [Idle EXCEPT !.pc = "insert", !.s = s])
    /\ UNCHANGED <<external, row, age, log, buffer, history>>

Created == {s \in Shipments : row[s].there}

\* Mutation: the insert replaces the draft that is there (ON CONFLICT DO UPDATE).
BookInsertUpserts(b) ==
    /\ work[b].pc = "insert"
    /\ Write(b, work[b].s, DraftRow, [work[b] EXCEPT !.pc = "call"])
    /\ born' = [born EXCEPT ![work[b].s] = Cardinality(Created) + 1]
    /\ UNCHANGED <<external, old, log, buffer, history>>

\* createShipment; the unique indexes refuse a second draft and the request ends.
BookInsert(b) ==
    /\ work[b].pc = "insert"
    /\ ~row[work[b].s].there
    /\ Write(b, work[b].s, DraftRow, [work[b] EXCEPT !.pc = "call"])
    /\ born' = [born EXCEPT ![work[b].s] = Cardinality(Created) + 1]
    /\ UNCHANGED <<external, old, log, buffer, history>>

\* router.createShipment; the answer may be lost on the way back. A call that fails
\* before the carrier has booked is Abort.
BookCall(b) ==
    LET s == work[b].s
    IN  /\ work[b].pc = "call"
        /\ carrier' = [carrier EXCEPT ![s] = "BOOKED"]
        /\ sent' = sent \cup Tells(s, "BOOKED")
        /\ \/ Becomes(b, Idle)
           \/ \E st \in AnswerStatuses("BOOKED") :
                Becomes(b, [work[b] EXCEPT !.pc = "record", !.st = st])
        /\ UNCHANGED <<row, age, log, buffer, acked, lost>>

\* The booking is recorded, by the subscriber or by the recovery job.
Record(a) ==
    /\ work[a].pc = "record"
    /\ Overwrite(a, work[a].s, [there |-> TRUE, status |-> work[a].st, refs |-> TRUE],
                 [work[a] EXCEPT !.pc = "list", !.st = Idle.st])
    /\ UNCHANGED <<external, age, log, buffer>>

----------------------------------------------------------------------------
(***************************************************************************)
(* Webhook requests: processShippingWebhookEvent. A delivery whose token   *)
(* is refused changes nothing and is not modelled.                         *)
(***************************************************************************)

\* findShipmentByProviderRefs
Matches(e) ==
    \/ row[e.s].refs /\ e.names \cap {"ids", "order_id"} # {}
    \/ row[e.s].there /\ "reference" \in e.names

WebhookFind(w, e) ==
    /\ work[w].pc = "idle"
    /\ e \in sent
    /\ Becomes(w, [Idle EXCEPT !.pc = IF Matches(e) THEN "append" ELSE "buffer",
                               !.s = e.s, !.e = e, !.st = e.status])
    /\ UNCHANGED <<external, row, age, log, buffer, history>>

Buffered == {e \in Events : at[e] > 0}
Pending == Buffered \ done

\* bufferWebhookEvent: ON CONFLICT DO NOTHING
WebhookBuffer(w) ==
    LET e == work[w].e
    IN  /\ work[w].pc = "buffer"
        /\ at' = IF at[e] = 0 THEN [at EXCEPT ![e] = Cardinality(Buffered) + 1] ELSE at
        /\ acked' = acked \cup {e}
        /\ Becomes(w, Idle)
        /\ UNCHANGED <<external, row, age, log, done, lost>>

----------------------------------------------------------------------------
(***************************************************************************)
(* Applying an event to its shipment: appendEvent and                      *)
(* updateShipmentStatusMonotonic, for a webhook and for a buffered event.  *)
(***************************************************************************)

\* The index uq_shipping_events_provider_event_id refuses an event that is
\* recorded; the status is brought up to date all the same.
AppendEvent(a) ==
    LET e == work[a].e
    IN  /\ work[a].pc = "append"
        /\ log' = IF log[e] = "none" THEN [log EXCEPT ![e] = work[a].st] ELSE log
        /\ Becomes(a, [work[a] EXCEPT !.pc = "status"])
        /\ UNCHANGED <<external, row, age, buffer, history>>

\* The rest of the work of an actor that is through with its event.
Rest(w) ==
    LET r == [Idle EXCEPT !.todo = w.todo, !.stuck = w.stuck, !.stale = w.stale \cap w.stuck]
    IN  CASE w.todo # {} -> [r EXCEPT !.pc = "next"]
          [] w.todo = {} /\ w.stuck # {} -> [r EXCEPT !.pc = "stuck"]
          [] OTHER -> Idle

\* Mutation: a replayed event is not marked.
SettledUnmarked(a) == IF a \in Webhooks THEN Idle ELSE Rest(work[a])

\* The status is settled: a webhook is answered, a buffered event is marked.
Settled(a) ==
    IF a \in Webhooks THEN Idle ELSE [work[a] EXCEPT !.pc = "mark", !.seen = NoRow]
Answer(a) == acked' = IF a \in Webhooks THEN acked \cup {work[a].e} ELSE acked

\* getShipmentById
ReadStatus(a) ==
    LET r == row[work[a].s]
    IN  /\ work[a].pc = "status"
        /\ IF Rank[work[a].st] <= Rank[r.status]
           THEN Becomes(a, Settled(a)) /\ Answer(a)
           ELSE Becomes(a, [work[a] EXCEPT !.pc = "cas", !.seen = r]) /\ UNCHANGED acked
        /\ UNCHANGED <<external, row, age, log, buffer, lost>>

\* Mutation: UPDATE ... WHERE id = ? without AND status = ?
CasUnguarded(a) ==
    /\ work[a].pc = "cas"
    /\ Write(a, work[a].s, [row[work[a].s] EXCEPT !.status = work[a].st], Settled(a))
    /\ Answer(a)
    /\ UNCHANGED <<external, age, log, buffer, lost>>

\* UPDATE ... WHERE id = ? AND status = ?; a miss is not tried again.
Cas(a) ==
    LET s == work[a].s
    IN  /\ work[a].pc = "cas"
        /\ \/ /\ row[s].status = work[a].seen.status
              /\ Write(a, s, [row[s] EXCEPT !.status = work[a].st], Settled(a))
              /\ UNCHANGED lost
           \/ /\ row[s].status # work[a].seen.status
              /\ Becomes(a, Settled(a))
              /\ lost' = lost \cup {work[a].e}
              /\ UNCHANGED row
        /\ Answer(a)
        /\ UNCHANGED <<external, age, log, buffer>>

----------------------------------------------------------------------------
(***************************************************************************)
(* Replaying buffered events, for one shipment after its booking was       *)
(* recorded, or by the replay job.                                         *)
(***************************************************************************)

\* The first Limit events of S in the order they were received.
Oldest(S) == {e \in S : Cardinality({f \in S : at[f] < at[e]}) < Limit}

\* listPendingWebhookBufferForShipment: by the carrier's ids only.
ListForShipment(a) ==
    /\ work[a].pc = "list"
    /\ Becomes(a, Rest([work[a] EXCEPT
            !.todo = Oldest({e \in Pending : e.s = work[a].s /\ "ids" \in e.names})]))
    /\ UNCHANGED <<external, row, age, log, buffer, history>>

\* listPendingWebhookBufferRecords
ReplayScan(p) ==
    /\ work[p].pc = "idle"
    /\ Pending # {}
    /\ Becomes(p, Rest([Idle EXCEPT !.todo = Oldest(Pending)]))
    /\ UNCHANGED <<external, row, age, log, buffer, history>>

\* Mutation: the event is marked before it is applied.
TakeNextMarks(a, e) ==
    LET w == [work[a] EXCEPT !.todo = @ \ {e}]
    IN  /\ work[a].pc = "next"
        /\ e \in work[a].todo /\ \A f \in work[a].todo : at[e] <= at[f]
        /\ a \in Replayers => Matches(e)
        /\ done' = done \cup {e}
        /\ Becomes(a, [w EXCEPT !.pc = "append", !.s = e.s, !.e = e, !.st = ReplayStatus(e.status)])
        /\ UNCHANGED <<external, row, age, log, at, history>>

\* The replay job looks for the shipment of each event again.
TakeNext(a, e) ==
    LET w == [work[a] EXCEPT !.todo = @ \ {e}]
    IN  /\ work[a].pc = "next"
        /\ e \in work[a].todo /\ \A f \in work[a].todo : at[e] <= at[f]
        /\ a \in Replayers => Matches(e)
        /\ Becomes(a, [w EXCEPT !.pc = "append", !.s = e.s, !.e = e, !.st = ReplayStatus(e.status)])
        /\ UNCHANGED <<external, row, age, log, buffer, history>>

\* The event's backoff is not over, or no shipment matches and retry_count, which
\* only lengthens the backoff, is incremented.
SkipNext(p, e) ==
    /\ work[p].pc = "next" /\ p \in Replayers
    /\ e \in work[p].todo /\ \A f \in work[p].todo : at[e] <= at[f]
    /\ Becomes(p, Rest([work[p] EXCEPT !.todo = @ \ {e}]))
    /\ UNCHANGED <<external, row, age, log, buffer, history>>

\* markBufferedWebhookProcessed
MarkProcessed(a) ==
    /\ work[a].pc = "mark"
    /\ done' = done \cup {work[a].e}
    /\ Becomes(a, Rest(work[a]))
    /\ UNCHANGED <<external, row, age, log, at, history>>

----------------------------------------------------------------------------
(***************************************************************************)
(* runShippingBookingRecovery                                              *)
(***************************************************************************)

\* The first RecoveryLimit rows of S in the order they were created.
FirstCreated(S) == {s \in S : Cardinality({t \in S : born[t] < born[s]}) < RecoveryLimit}

\* Mutation: the comparison with the threshold is turned round.
StuckYoung == FirstCreated({s \in Shipments \ old :
                                row[s].there /\ row[s].status = "BOOKING_IN_PROGRESS"})

\* listStuckBookingInProgress: the oldest first, and no more than the limit. A draft that
\* stays in this status stays on the list.
InProgress == {s \in old : row[s].there /\ row[s].status = "BOOKING_IN_PROGRESS"}
Stuck == FirstCreated(InProgress)

RecoveryScan(r) ==
    /\ work[r].pc = "idle"
    /\ Stuck # {}
    /\ Becomes(r, [Idle EXCEPT !.pc = "stuck", !.stuck = Stuck])
    /\ UNCHANGED <<external, row, age, log, buffer, history>>

\* findShipmentByReference: a 404, or an answer without the carrier's id, is nothing.
Known(s) == carrier[s] # "none"

\* The next shipment of the run, in the order of the list.
Foremost(r, s) == s \in work[r].stuck /\ \A t \in work[r].stuck : born[s] <= born[t]

\* router.lookupShipmentByReference; a reference the carrier does not know is
\* left unresolved.
RecoveryLookup(r, s) ==
    LET w == [work[r] EXCEPT !.stuck = @ \ {s}]
    IN  /\ work[r].pc = "stuck" /\ Foremost(r, s)
        /\ \/ ~Known(s) /\ Becomes(r, Rest(w))
           \/ /\ Known(s)
              /\ \E st \in AnswerStatuses(carrier[s]) :
                    Becomes(r, [w EXCEPT !.pc = "record", !.s = s, !.st = st])
        /\ UNCHANGED <<external, row, age, log, buffer, history>>

\* An error in the lookup, the update or the replay is counted and the loop goes
\* on with the next shipment.
RecoveryFails(r) ==
    /\ work[r].pc # "idle"
    /\ \E S \in IF work[r].pc = "stuck"
               THEN {work[r].stuck \ {s} : s \in {t \in work[r].stuck : Foremost(r, t)}}
               ELSE {work[r].stuck} :
            Becomes(r, Rest([Idle EXCEPT !.stuck = S, !.stale = work[r].stale]))
    /\ GivesUp(r)
    /\ UNCHANGED <<external, row, age, log, buffer, acked>>

----------------------------------------------------------------------------
(***************************************************************************)
(* resolveShipmentLabel: the row is read, the carrier is asked for a label *)
(* unless a fresh one is stored, and the references and the status that    *)
(* were read are written back with the label.                              *)
(***************************************************************************)

\* Mutation: a shipment without the carrier's references is not refused.
LabelReadAnyway(l, s) ==
    /\ work[l].pc = "idle"
    /\ row[s].there
    /\ Becomes(l, [Idle EXCEPT !.pc = "label", !.s = s, !.seen = row[s]])
    /\ UNCHANGED <<external, row, age, log, buffer, history>>

LabelRead(l, s) ==
    /\ work[l].pc = "idle"
    /\ row[s].there /\ row[s].refs
    /\ Becomes(l, [Idle EXCEPT !.pc = "label", !.s = s, !.seen = row[s]])
    /\ UNCHANGED <<external, row, age, log, buffer, history>>

LabelWrite(l) ==
    /\ work[l].pc = "label"
    /\ Overwrite(l, work[l].s, work[l].seen, Idle)
    /\ UNCHANGED <<external, age, log, buffer>>

----------------------------------------------------------------------------
\* processShippingWebhookEvent, once it has its shipment: an event that is logged already
\* goes no further.
Apply(a) == AppendEvent(a) \/ ReadStatus(a) \/ Cas(a)

\* replayBufferedEventsForShipment, one pending record after the other.
Replay(a) == (\E e \in Events : TakeNext(a, e)) \/ MarkProcessed(a)

BookerNext(b) ==
    (\E s \in Shipments : BookCheck(b, s)) \/ BookInsert(b) \/ BookCall(b) \/ Record(b)
        \/ ListForShipment(b) \/ Replay(b) \/ Apply(b)

\* POST of the carrier's webhook. A request without a valid token is refused before
\* anything is read, unless unsigned webhooks are allowed.
WebhookNext(w) == (\E e \in Events : WebhookFind(w, e)) \/ WebhookBuffer(w) \/ Apply(w)

\* runShippingWebhookReplay
ReplayerNext(p) ==
    ReplayScan(p) \/ (\E e \in Events : SkipNext(p, e)) \/ Replay(p) \/ Apply(p)

RecovererNext(r) ==
    RecoveryScan(r) \/ (\E s \in Shipments : RecoveryLookup(r, s)) \/ Record(r)
        \/ RecoveryFails(r) \/ ListForShipment(r) \/ Replay(r) \/ Apply(r)

LabelNext(l) == (\E s \in Shipments : LabelRead(l, s)) \/ LabelWrite(l)

Next ==
    \/ \E s \in Shipments : CarrierMoves(s) \/ Age(s)
    \/ \E b \in Bookers : BookerNext(b)
    \/ \E w \in Webhooks : WebhookNext(w)
    \/ \E p \in Replayers : ReplayerNext(p)
    \/ \E r \in Recoverers : RecovererNext(r)
    \/ \E l \in Labels : LabelNext(l)
    \/ \E a \in Actors : Abort(a)

Spec == Init /\ [][Next]_vars

(***************************************************************************)
(* Fairness. Cron starts the jobs again and again, time passes, and a      *)
(* statement or a call that is tried again and again succeeds again and    *)
(* again (strong, because each run may be aborted), but for the events of  *)
(* Failing. From some time on the process no longer dies in the middle of  *)
(* a recovery run: a step that fails there is caught, and the run goes on  *)
(* with the next shipment. Nothing is assumed of the carrier, of           *)
(* deliveries, bookers and label requests.                                 *)
(***************************************************************************)
Sound(p) == work[p].e \notin Failing
Lost(s) == row[s].there /\ ~row[s].refs

FairSpec ==
    /\ Spec
    /\ \A s \in Shipments : WF_vars(Age(s))
    /\ \A p \in Replayers :
        /\ WF_vars(ReplayerNext(p))
        /\ SF_vars(\E e \in Events \ Failing : TakeNext(p, e))
        /\ SF_vars(\E e \in Events : SkipNext(p, e))
        /\ SF_vars(Sound(p) /\ AppendEvent(p))
        /\ SF_vars(Sound(p) /\ ReadStatus(p))
        /\ SF_vars(Sound(p) /\ Cas(p))
        /\ SF_vars(Sound(p) /\ MarkProcessed(p))
    /\ \A r \in Recoverers :
        /\ WF_vars(RecovererNext(r))
        /\ SF_vars(\E s \in Shipments : Lost(s) /\ Known(s) /\ RecoveryLookup(r, s))
        /\ SF_vars(\E s \in Shipments : Lost(s) /\ work[r].s = s /\ Record(r))
        /\ <>[][Abort(r) => RecovererNext(r)]_vars

----------------------------------------------------------------------------
(***************************************************************************)
(* Properties.                                                             *)
(***************************************************************************)

Applying == {"append", "status", "cas", "mark"}
Phase == {"idle", "insert", "call", "record", "list", "next", "buffer", "stuck", "label"}
            \cup Applying

Work == [pc : Phase, s : Shipments \cup {NoShipment}, e : Events \cup {NoEvent},
         st : ShipmentStatus, seen : Row, todo : SUBSET Events, stuck : SUBSET Shipments,
         stale : SUBSET Shipments]

\* The types of the variables; an actor in the middle of its work knows its
\* shipment, an event is applied only to a row that exists, and a row that is
\* listed, overwritten or processed again exists as well.
WorkOK(w) ==
    /\ w \in Work
    /\ w.pc \in {"insert", "call", "record", "list", "label"} => w.s \in Shipments
    /\ w.pc \in {"call", "record", "list", "label"} => row[w.s].there
    /\ w.pc \in Applying => w.e \in Events /\ w.s = w.e.s /\ row[w.s].there
    /\ w.pc = "buffer" => w.e \in Events
    /\ w.pc = "next" => w.todo # {}
TypeOK ==
    /\ carrier \in [Shipments -> ShipmentStatus \cup {"none"}]
    /\ sent \subseteq Events
    /\ row \in [Shipments -> Row]
    /\ born \in [Shipments -> Nat]
    /\ old \subseteq {s \in Shipments : row[s].there}
    /\ log \in [Events -> ShipmentStatus \cup {"none"}]
    /\ at \in [Events -> Nat]
    /\ done \subseteq Events
    /\ work \in [Actors -> Work]
    /\ \A a \in Actors : WorkOK(work[a])
    /\ acked \subseteq Events
    /\ lost \subseteq Events

\* However often fulfillment.requested is delivered and whichever request fails,
\* one request at most asks the carrier to book a shipment: the draft it inserted
\* shuts out every other.
CarrierAskedOnce ==
    \A b \in Bookers : work[b].pc = "call" =>
        /\ carrier[work[b].s] = "none"
        /\ \A c \in Bookers \ {b} : work[c].pc = "call" => work[c].s # work[b].s

\* An event answered with 200 is not lost between the tables: it is recorded for
\* its shipment, or buffered and still to be replayed, whatever booking, replay and
\* redelivery did in between.
AckedNotLost == \A e \in acked : log[e] # "none" \/ e \in Pending

\* Three tables, five kinds of writers and requests that fail between any two statements
\* are together one inbox: what is answered is kept or recorded, an event is recorded once
\* and never rewritten, and a buffered event is marked only when it is recorded.
Inbox == INSTANCE EventInbox WITH
    Says <- [e \in Events |-> e.status],
    Retold <- [e \in Events |-> ReplayStatus(e.status)],
    issued <- sent, kept <- Buffered, recorded <- log, answered <- acked, settled <- done
ImplementsInbox == Inbox!Spec

\* A shipment is at least where its recorded events say, unless an event is just
\* being applied or its status was lost on the record: the update was given up or
\* missed its row, or somebody wrote an older status over it.
InFlight(e) ==
    \E a \in Actors : /\ work[a].pc \in {"status", "cas"}
                      /\ work[a].e = e
                      /\ Rank[work[a].st] >= Rank[log[e]]
ReflectedUnlessLost ==
    \A e \in Events : log[e] # "none" =>
        Rank[row[e.s].status] >= Rank[log[e]] \/ e \in lost \/ InFlight(e)

\* A shipment falls back to an older status only through an actor that writes what
\* it learnt before somebody else wrote the row.
RegressesOnlyIfStale ==
    [][\A s \in Shipments : Rank[row'[s].status] < Rank[row[s].status] =>
            \E a \in Overwriters : s \in work[a].stale /\ s \notin work'[a].stale]_vars

\* The references of a recorded booking are never erased, also not by a label
\* request that read the row before the booking was recorded.
RefsKept == [][\A s \in Shipments : row[s].refs => row'[s].refs]_vars

\* docs/shipping/providers.md:11: "keep webhook ingestion idempotent and race-safe".
\* An acknowledged event that is recorded, processed and in nobody's hands is
\* reflected in the status of its shipment.
IngestionRaceSafe ==
    \A e \in acked :
        (log[e] # "none" /\ e \notin Pending /\ \A a \in Actors : work[a].e # e)
            => Rank[row[e.s].status] >= Rank[log[e]]

\* docs/shipping/providers.md:128: "if provider booking succeeds but DB update fails,
\* record is recoverable": the references of a shipment the carrier has booked are
\* recorded in the end.
BookingRecovered ==
    \A s \in Shipments :
        (carrier[s] # "none" /\ row[s].there) ~> row[s].refs

\* The recovery job lists a limited number of the oldest drafts. A shipment the carrier
\* has booked is recorded in the end, or a webhook takes it out of the status the job
\* lists, unless again and again RecoveryLimit older drafts, which the carrier never booked
\* or still calls in progress, stand before it.
Crowded(s) == Cardinality({t \in InProgress : born[t] < born[s]}) >= RecoveryLimit
RecoveredUnlessCrowded ==
    \A s \in Shipments :
        \/ []<>Crowded(s)
        \/ (carrier[s] # "none" /\ row[s].there)
                ~> (row[s].refs \/ row[s].status # "BOOKING_IN_PROGRESS")

\* The replay job lists a limited number of the oldest events. A buffered event whose
\* shipment can be found by it is replayed in the end, unless again and again Limit older
\* events that nobody can match, or one older event that fails every time, stand before it.
Before(e) == {f \in Pending : at[f] < at[e]}
HeldUp(e) ==
    \/ Cardinality(Before(e)) >= Limit
    \/ \E f \in Before(e) \cap Failing : Matches(f)
ReplayedUnlessHeldUp ==
    \A e \in Events \ Failing :
        []<>HeldUp(e) \/ ((e \in Buffered /\ Matches(e)) ~> (e \in done))
=============================================================================
