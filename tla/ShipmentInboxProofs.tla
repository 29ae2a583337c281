------------------------ MODULE ShipmentInboxProofs ------------------------
(***************************************************************************)
(* Proof that ShipmentBooking implements EventInbox: every step of the     *)
(* booking, the webhooks, the replay, the recovery and the label requests  *)
(* is a step of the inbox or does not touch it.                            *)
(***************************************************************************)
EXTENDS ShipmentBookingProofs

(***************************************************************************)
(* Where an actor has its event from.                                      *)
(***************************************************************************)

\* A webhook request has it from the carrier, with its status.
Delivers(w) ==
    w.pc \in Applying \cup {"buffer"} => w.e \in sent /\ w.st = w.e.status

\* A replay has it from the buffer, with what is left of its status.
Replays(w) ==
    /\ w.todo \subseteq Buffered
    /\ w.pc \in Applying => w.e \in Buffered /\ w.st = ReplayStatus(w.e.status)

SourceInv ==
    /\ Buffered \subseteq sent
    /\ \A a \in Webhooks : Delivers(work[a])
    /\ \A a \in Actors \ Webhooks : Replays(work[a])

LEMMA KindsOfActors ==
    /\ \A a \in Overwriters \cup Replayers : a \in Actors \ Webhooks
    /\ Webhooks \subseteq Actors
  BY ShipmentConstants DEF Actors, Overwriters

\* The invariant need only be looked at for the actor that takes the step.
LEMMA SourceStep ==
    ASSUME TypeOK, SourceInv, NEW a \in Actors, NEW w \in Work, NEW S, Goes(a, w, S),
           sent \subseteq sent', Buffered \subseteq Buffered', Buffered' \subseteq sent',
           a \in Webhooks => Delivers(w)', a \notin Webhooks => Replays(w)'
    PROVE  SourceInv'
  <1>1. ASSUME NEW x \in Actors, x # a
        PROVE  /\ work'[x].pc = work[x].pc /\ work'[x].e = work[x].e
               /\ work'[x].st = work[x].st /\ work'[x].todo = work[x].todo
    BY <1>1 DEF Goes, TypeOK, Work
  <1>2. ASSUME NEW x \in Webhooks PROVE Delivers(work[x])'
    <2>1. CASE x = a
      BY <2>1 DEF Goes
    <2>2. CASE x # a
      BY <1>1, <2>2, KindsOfActors DEF SourceInv, Delivers
    <2> QED BY <2>1, <2>2
  <1>3. ASSUME NEW x \in Actors \ Webhooks PROVE Replays(work[x])'
    <2>1. CASE x = a
      BY <2>1 DEF Goes
    <2>2. CASE x # a
      BY <1>1, <2>2 DEF SourceInv, Replays
    <2> QED BY <2>1, <2>2
  <1> QED BY <1>2, <1>3 DEF SourceInv

\* An actor that goes on with the same event, or lets go of it, and has no new events
\* on its list but buffered ones.
Continues(w, v) ==
    /\ w.todo \subseteq v.todo \cup Buffered
    /\ \/ w.pc \notin Applying \cup {"buffer"}
       \/ /\ w.pc \in Applying /\ v.pc \in Applying
          /\ w.e = v.e /\ w.st = v.st

LEMMA ContinueStep ==
    ASSUME TypeOK, SourceInv, NEW a \in Actors, NEW w \in Work, NEW S, Goes(a, w, S),
           sent \subseteq sent', at' = at, Continues(w, work[a])
    PROVE  SourceInv'
  <1>1. Buffered' = Buffered /\ Buffered \subseteq sent'
    BY DEF Buffered, SourceInv
  <1>2. a \in Webhooks => Delivers(w)'
    BY DEF SourceInv, Delivers, Continues
  <1>3. a \notin Webhooks => Replays(w)'
    BY <1>1 DEF SourceInv, Replays, Continues
  <1> QED BY <1>1, <1>2, <1>3, SourceStep

\* ... in a step that leaves the tables of events to themselves.
LEMMA QuietlyContinues ==
    ASSUME TypeOK, SourceInv, NEW a \in Actors, NEW w \in Work, Becomes(a, w),
           sent \subseteq sent', at' = at, Continues(w, work[a])
    PROVE  SourceInv'
  BY BecomesGoes, ContinueStep

\* ... and in one that writes a row.
LEMMA WritesAndContinues ==
    ASSUME TypeOK, SourceInv, NEW a \in Actors, NEW s \in Shipments, NEW r \in Row,
           NEW v \in Work, Write(a, s, r, v), sent' = sent, at' = at, Continues(v, work[a])
    PROVE  SourceInv'
  <1> DEFINE w == [v EXCEPT !.stale = @ \ {s}]
  <1>1. /\ w \in Work /\ w.pc = v.pc /\ w.e = v.e /\ w.st = v.st /\ w.todo = v.todo
    BY DEF Work
  <1>2. Goes(a, w, {s})
    BY <1>1, WriteGoes
  <1> HIDE DEF w
  <1>3. Continues(w, work[a])
    BY <1>1 DEF Continues
  <1> QED BY <1>1, <1>2, <1>3, ContinueStep

\* What is left of the work after an event or a shipment.
LEMMA RestContinues ==
    ASSUME NEW v, NEW w \in Work, w.todo \subseteq v.todo \cup Buffered
    PROVE  Rest(w) \in Work /\ Continues(Rest(w), v)
  BY RestFacts DEF Continues, Applying

LEMMA IdleContinues ==
    ASSUME NEW v PROVE Idle \in Work /\ Continues(Idle, v)
  BY IdleType DEF Continues, Idle, Applying

LEMMA SettledContinues ==
    ASSUME TypeOK, NEW a \in Actors, work[a].pc \in {"status", "cas"}
    PROVE  Settled(a) \in Work /\ Continues(Settled(a), work[a])
  <1>1. work[a] \in Work
    BY DEF TypeOK
  <1>2. CASE a \in Webhooks
    BY <1>2, IdleContinues DEF Settled
  <1>3. CASE a \notin Webhooks
    <2>1. Settled(a) = [work[a] EXCEPT !.pc = "mark", !.seen = NoRow]
      BY <1>3 DEF Settled
    <2>2. /\ Settled(a) \in Work /\ Settled(a).pc = "mark" /\ Settled(a).e = work[a].e
          /\ Settled(a).st = work[a].st /\ Settled(a).todo = work[a].todo
      BY <1>1, <2>1, IdleType DEF Work, Phase, Applying
    <2> QED BY <2>2 DEF Continues, Applying
  <1> QED BY <1>2, <1>3

(***************************************************************************)
(* The invariant, step by step.                                            *)
(***************************************************************************)

LEMMA BookerSource ==
    ASSUME TypeOK, SourceInv, NEW b \in Bookers,
           (\E s \in Shipments : BookCheck(b, s)) \/ BookInsert(b) \/ BookCall(b)
    PROVE  SourceInv'
  <1>1. b \in Actors /\ work[b] \in Work /\ WorkOK(work[b])
    BY DEF TypeOK, Actors, Overwriters
  <1>2. ASSUME NEW s \in Shipments, BookCheck(b, s) PROVE SourceInv'
    <2> DEFINE w == [Idle EXCEPT !.pc = "insert", !.s = s]
    <2>1. w \in Work /\ w.pc = "insert" /\ w.todo = {}
      BY IdleType DEF Idle, Work, Phase
    <2>2. Becomes(b, w) /\ sent' = sent /\ at' = at
      BY <1>2 DEF BookCheck, external, buffer
    <2> HIDE DEF w
    <2>3. Continues(w, work[b])
      BY <2>1 DEF Continues, Applying
    <2> QED BY <1>1, <2>1, <2>2, <2>3, QuietlyContinues
  <1>3. CASE BookInsert(b)
    <2> DEFINE w == [work[b] EXCEPT !.pc = "call"]
    <2>1. w \in Work /\ w.pc = "call" /\ w.todo = work[b].todo
      BY <1>1 DEF Work, Phase
    <2>2. /\ Write(b, work[b].s, DraftRow, w) /\ sent' = sent /\ at' = at
          /\ work[b].s \in Shipments
      BY <1>1, <1>3 DEF BookInsert, external, buffer, WorkOK
    <2> HIDE DEF w
    <2>3. Continues(w, work[b])
      BY <2>1 DEF Continues, Applying
    <2> QED BY <1>1, <2>1, <2>2, <2>3, IdleType, WritesAndContinues
  <1>4. CASE BookCall(b)
    <2>1. sent \subseteq sent' /\ at' = at
      BY <1>4 DEF BookCall, buffer
    <2>2. CASE Becomes(b, Idle)
      BY <1>1, <2>1, <2>2, IdleContinues, QuietlyContinues
    <2>3. ASSUME NEW st \in AnswerStatuses("BOOKED"),
                 Becomes(b, [work[b] EXCEPT !.pc = "record", !.st = st])
          PROVE  SourceInv'
      <3> DEFINE w == [work[b] EXCEPT !.pc = "record", !.st = st]
      <3>1. w \in Work /\ w.pc = "record" /\ w.todo = work[b].todo
        BY <1>1 DEF Work, Phase, AnswerStatuses, ShipmentStatus
      <3>2. Becomes(b, w)
        BY <2>3
      <3> HIDE DEF w
      <3>3. Continues(w, work[b])
        BY <3>1 DEF Continues, Applying
      <3> QED BY <1>1, <2>1, <3>1, <3>2, <3>3, QuietlyContinues
    <2> QED BY <1>4, <2>2, <2>3 DEF BookCall
  <1> QED BY <1>2, <1>3, <1>4

LEMMA RecordSource ==
    ASSUME TypeOK, SourceInv, NEW a \in Overwriters, Record(a)
    PROVE  SourceInv'
  <1> DEFINE w == [work[a] EXCEPT !.pc = "list", !.st = Idle.st]
             r == [there |-> TRUE, status |-> work[a].st, refs |-> TRUE]
  <1>1. a \in Actors /\ work[a] \in Work /\ WorkOK(work[a]) /\ work[a].pc = "record"
    BY DEF TypeOK, Actors, Record
  <1>2. /\ w \in Work /\ w.pc = "list" /\ w.todo = work[a].todo
        /\ r \in Row /\ work[a].s \in Shipments
    BY <1>1, IdleType DEF Work, Phase, Row, WorkOK
  <1>3. Write(a, work[a].s, r, w) /\ sent' = sent /\ at' = at
    BY DEF Record, Overwrite, external, buffer
  <1> HIDE DEF w, r
  <1>4. Continues(w, work[a])
    BY <1>2 DEF Continues, Applying
  <1> QED BY <1>1, <1>2, <1>3, <1>4, WritesAndContinues

\* A replay takes what is buffered and not settled.
LEMMA ListSource ==
    ASSUME TypeOK, SourceInv, NEW a \in Actors,
           \/ a \in Overwriters /\ ListForShipment(a)
           \/ a \in Replayers /\ ReplayScan(a)
    PROVE  SourceInv'
  <1>1. work[a] \in Work /\ sent' = sent /\ at' = at
    BY DEF TypeOK, ListForShipment, ReplayScan, external, buffer
  <1>2. \A T \in SUBSET Pending : Oldest(T) \subseteq Buffered /\ Oldest(T) \subseteq Events
    BY DEF Oldest, Pending, Buffered
  <1>3. PICK w \in Work : w.todo \subseteq Buffered /\ Becomes(a, Rest(w))
    <2>1. CASE ListForShipment(a)
      <3> DEFINE T == Oldest({e \in Pending : e.s = work[a].s /\ "ids" \in e.names})
      <3>1. T \subseteq Buffered /\ T \subseteq Events
        BY <1>2
      <3>2. Becomes(a, Rest([work[a] EXCEPT !.todo = T]))
        BY <2>1 DEF ListForShipment
      <3> HIDE DEF T
      <3>3. [work[a] EXCEPT !.todo = T] \in Work /\ [work[a] EXCEPT !.todo = T].todo = T
        BY <1>1, <3>1 DEF Work
      <3> QED BY <3>1, <3>2, <3>3
    <2>2. CASE ReplayScan(a)
      <3> DEFINE T == Oldest(Pending)
      <3>1. T \subseteq Buffered /\ T \subseteq Events
        BY <1>2
      <3>2. Becomes(a, Rest([Idle EXCEPT !.todo = T]))
        BY <2>2 DEF ReplayScan
      <3> HIDE DEF T
      <3>3. [Idle EXCEPT !.todo = T] \in Work /\ [Idle EXCEPT !.todo = T].todo = T
        BY <3>1, IdleType DEF Work
      <3> QED BY <3>1, <3>2, <3>3
    <2> QED BY <2>1, <2>2
  <1>4. Rest(w) \in Work /\ Continues(Rest(w), work[a])
    BY <1>3, RestContinues
  <1> QED BY <1>1, <1>3, <1>4, QuietlyContinues

LEMMA TakeNextSource ==
    ASSUME TypeOK, SourceInv, NEW a \in Overwriters \cup Replayers, NEW e \in Events,
           TakeNext(a, e)
    PROVE  SourceInv'
  <1>1. a \in Actors \ Webhooks /\ work[a] \in Work
    BY KindsOfActors DEF TypeOK
  <1>2. e.s \in Shipments /\ ReplayStatus(e.status) \in ShipmentStatus
    BY ShipmentConstants, RankFacts
  <1>3. PICK v \in Work : v = work[a]
    BY <1>1
  <1> DEFINE u == [v EXCEPT !.todo = @ \ {e}]
             w == [u EXCEPT !.pc = "append", !.s = e.s, !.e = e, !.st = ReplayStatus(e.status)]
  <1>4. u \in Work /\ u.todo \subseteq v.todo
    BY DEF Work
  <1>5. Becomes(a, w) /\ e \in v.todo /\ sent' = sent /\ at' = at
    BY <1>3 DEF TakeNext, external, buffer
  <1> HIDE DEF u
  <1>6. /\ w \in Work /\ w.pc = "append" /\ w.e = e /\ w.st = ReplayStatus(e.status)
        /\ w.todo \subseteq v.todo
    BY <1>2, <1>4 DEF Work, Phase, Applying
  <1> HIDE DEF w
  <1>7. v.todo \subseteq Buffered /\ Buffered' = Buffered /\ Buffered \subseteq sent
    BY <1>1, <1>3, <1>5 DEF Replays, SourceInv, Buffered
  <1>8. Replays(w)'
    BY <1>5, <1>6, <1>7 DEF Replays
  <1>9. Goes(a, w, {})
    BY <1>1, <1>5, <1>6, BecomesGoes
  <1> QED BY <1>1, <1>5, <1>6, <1>7, <1>8, <1>9, SourceStep

LEMMA PassOnSource ==
    ASSUME TypeOK, SourceInv, NEW a \in Actors,
           \/ MarkProcessed(a) \/ \E e \in Events : SkipNext(a, e)
    PROVE  SourceInv'
  <1>1. work[a] \in Work /\ sent' = sent /\ at' = at
    BY DEF TypeOK, MarkProcessed, SkipNext, external, buffer
  <1>2. PICK w \in Work : w.todo \subseteq work[a].todo /\ Becomes(a, Rest(w))
    <2>1. CASE MarkProcessed(a)
      BY <1>1, <2>1 DEF MarkProcessed
    <2>2. ASSUME NEW e \in Events, SkipNext(a, e)
          PROVE  \E w \in Work : w.todo \subseteq work[a].todo /\ Becomes(a, Rest(w))
      <3>1. /\ [work[a] EXCEPT !.todo = @ \ {e}] \in Work
            /\ [work[a] EXCEPT !.todo = @ \ {e}].todo \subseteq work[a].todo
        BY <1>1 DEF Work
      <3> QED BY <2>2, <3>1 DEF SkipNext
    <2> QED BY <2>1, <2>2
  <1>3. Rest(w) \in Work /\ Continues(Rest(w), work[a])
    BY <1>2, RestContinues
  <1> QED BY <1>1, <1>2, <1>3, QuietlyContinues

LEMMA ApplySource ==
    ASSUME TypeOK, SourceInv, NEW a \in Actors, Apply(a)
    PROVE  SourceInv'
  <1>1. work[a] \in Work /\ WorkOK(work[a]) /\ sent' = sent /\ at' = at
    BY DEF TypeOK, Apply, AppendEvent, ReadStatus, Cas, external, buffer
  <1>2. CASE AppendEvent(a)
    <2> DEFINE w == [work[a] EXCEPT !.pc = "status"]
    <2>1. /\ w \in Work /\ w.pc = "status" /\ w.e = work[a].e /\ w.st = work[a].st
          /\ w.todo = work[a].todo
      BY <1>1 DEF Work, Phase, Applying
    <2>2. Becomes(a, w) /\ work[a].pc = "append"
      BY <1>2 DEF AppendEvent
    <2> HIDE DEF w
    <2>3. Continues(w, work[a])
      BY <2>1, <2>2 DEF Continues, Applying
    <2> QED BY <1>1, <2>1, <2>2, <2>3, QuietlyContinues
  <1>3. CASE ReadStatus(a)
    <2> DEFINE w == [work[a] EXCEPT !.pc = "cas", !.seen = row[work[a].s]]
    <2>1. work[a].pc = "status" /\ work[a].s \in Shipments /\ row[work[a].s] \in Row
      BY <1>1, <1>3, ShipmentConstants DEF ReadStatus, WorkOK, Applying, TypeOK
    <2>2. /\ w \in Work /\ w.pc = "cas" /\ w.e = work[a].e /\ w.st = work[a].st
          /\ w.todo = work[a].todo
      BY <1>1, <2>1 DEF Work, Phase, Applying
    <2>3. Becomes(a, Settled(a)) \/ Becomes(a, w)
      BY <1>3 DEF ReadStatus
    <2> HIDE DEF w
    <2>4. Continues(w, work[a])
      BY <2>1, <2>2 DEF Continues, Applying
    <2>5. Settled(a) \in Work /\ Continues(Settled(a), work[a])
      BY <2>1, SettledContinues
    <2> QED BY <1>1, <2>2, <2>3, <2>4, <2>5, QuietlyContinues
  <1>4. CASE Cas(a)
    <2> DEFINE r == [row[work[a].s] EXCEPT !.status = work[a].st]
    <2>1. work[a].pc = "cas" /\ work[a].s \in Shipments
      BY <1>1, <1>4, ShipmentConstants DEF Cas, WorkOK, Applying
    <2>2. r \in Row
      BY <1>1, <2>1 DEF TypeOK, Row, Work
    <2>3. Write(a, work[a].s, r, Settled(a)) \/ Becomes(a, Settled(a))
      BY <1>4 DEF Cas
    <2> HIDE DEF r
    <2>4. Settled(a) \in Work /\ Continues(Settled(a), work[a])
      BY <2>1, SettledContinues
    <2> QED BY <1>1, <2>1, <2>2, <2>3, <2>4, QuietlyContinues, WritesAndContinues
  <1> QED BY <1>2, <1>3, <1>4 DEF Apply

\* A delivery is read by a request, and kept by it.
LEMMA WebhookSource ==
    ASSUME TypeOK, SourceInv, NEW a \in Webhooks,
           (\E e \in Events : WebhookFind(a, e)) \/ WebhookBuffer(a)
    PROVE  SourceInv'
  <1>1. a \in Actors /\ work[a] \in Work /\ WorkOK(work[a])
    BY KindsOfActors DEF TypeOK
  <1>2. ASSUME NEW e \in Events, WebhookFind(a, e) PROVE SourceInv'
    <2>1. PICK pc \in {"append", "buffer"} :
            Becomes(a, [Idle EXCEPT !.pc = pc, !.s = e.s, !.e = e, !.st = e.status])
      BY <1>2 DEF WebhookFind
    <2> DEFINE w == [Idle EXCEPT !.pc = pc, !.s = e.s, !.e = e, !.st = e.status]
    <2>2. e.s \in Shipments /\ e.status \in ShipmentStatus /\ pc \in Phase
      BY <2>1, ShipmentConstants DEF Phase, Applying
    <2>3. w \in Work /\ w.e = e /\ w.st = e.status
      BY <2>2, IdleType DEF Idle, Work
    <2>4. Becomes(a, w) /\ e \in sent /\ sent' = sent /\ at' = at
      BY <1>2, <2>1 DEF WebhookFind, external, buffer
    <2> HIDE DEF w
    <2>5. Goes(a, w, {})
      BY <1>1, <2>3, <2>4, BecomesGoes
    <2>6. Delivers(w)' /\ Buffered' = Buffered /\ Buffered \subseteq sent
      BY <2>3, <2>4 DEF Delivers, Buffered, SourceInv
    <2> QED BY <1>1, <2>3, <2>4, <2>5, <2>6, SourceStep
  <1>3. CASE WebhookBuffer(a)
    <2>1. /\ Becomes(a, Idle) /\ sent' = sent /\ work[a].pc = "buffer"
          /\ at' = at \/ \E n : at' = [at EXCEPT ![work[a].e] = n]
      BY <1>3 DEF WebhookBuffer, external
    <2>2. work[a].e \in sent /\ work[a].e \in Events /\ Buffered \subseteq sent
      BY <1>1, <2>1 DEF SourceInv, Delivers, WorkOK
    <2>3. Buffered \subseteq Buffered' /\ Buffered' \subseteq sent'
      <3>1. \A e \in Events \ {work[a].e} : at'[e] = at[e]
        BY <2>1 DEF TypeOK
      <3>2. at[work[a].e] > 0 => at'[work[a].e] = at[work[a].e]
        BY <1>3, <2>2 DEF WebhookBuffer, TypeOK
      <3> QED BY <2>1, <2>2, <3>1, <3>2 DEF Buffered
    <2>4. Goes(a, Idle, {})
      BY <1>1, <2>1, IdleType, BecomesGoes
    <2>5. Delivers(Idle)'
      BY DEF Delivers, Idle, Applying
    <2> QED BY <1>1, <2>1, <2>3, <2>4, <2>5, IdleType, SourceStep
  <1> QED BY <1>2, <1>3

LEMMA RecoverySource ==
    ASSUME TypeOK, SourceInv, NEW r \in Recoverers,
           RecoveryScan(r) \/ (\E s \in Shipments : RecoveryLookup(r, s)) \/ RecoveryFails(r)
    PROVE  SourceInv'
  <1>1. r \in Actors /\ work[r] \in Work /\ sent' = sent /\ at' = at
    BY DEF TypeOK, Actors, Overwriters, RecoveryScan, RecoveryLookup, RecoveryFails,
           external, buffer
  <1>2. CASE RecoveryScan(r)
    <2> DEFINE w == [Idle EXCEPT !.pc = "stuck", !.stuck = Stuck]
    <2>1. Stuck \subseteq Shipments
      BY DEF Stuck, FirstCreated, InProgress, TypeOK
    <2>2. w \in Work /\ w.pc = "stuck" /\ w.todo = {}
      BY <2>1, IdleType DEF Idle, Work, Phase
    <2>3. Becomes(r, w)
      BY <1>2 DEF RecoveryScan
    <2> HIDE DEF w
    <2>4. Continues(w, work[r])
      BY <2>2 DEF Continues, Applying
    <2> QED BY <1>1, <2>2, <2>3, <2>4, QuietlyContinues
  <1>3. ASSUME NEW s \in Shipments, RecoveryLookup(r, s) PROVE SourceInv'
    <2> DEFINE v == [work[r] EXCEPT !.stuck = @ \ {s}]
    <2>1. v \in Work /\ v.todo = work[r].todo
      BY <1>1 DEF Work
    <2>2. CASE Becomes(r, Rest(v))
      <3> HIDE DEF v
      <3>1. Rest(v) \in Work /\ Continues(Rest(v), work[r])
        BY <2>1, RestContinues
      <3> QED BY <1>1, <2>2, <3>1, QuietlyContinues
    <2>3. ASSUME NEW st \in AnswerStatuses(carrier[s]), Known(s),
                 Becomes(r, [v EXCEPT !.pc = "record", !.s = s, !.st = st])
          PROVE  SourceInv'
      <3> DEFINE w == [v EXCEPT !.pc = "record", !.s = s, !.st = st]
      <3>1. st \in ShipmentStatus
        BY <2>3 DEF TypeOK, Known, AnswerStatuses, ShipmentStatus
      <3> HIDE DEF v
      <3>2. w \in Work /\ w.pc = "record" /\ w.todo = work[r].todo
        BY <2>1, <3>1 DEF Work, Phase
      <3>3. Becomes(r, w)
        BY <2>3
      <3> HIDE DEF w
      <3>4. Continues(w, work[r])
        BY <3>2 DEF Continues, Applying
      <3> QED BY <1>1, <3>2, <3>3, <3>4, QuietlyContinues
    <2> QED BY <1>3, <2>2, <2>3 DEF RecoveryLookup
  <1>4. CASE RecoveryFails(r)
    <2>1. PICK S \in SUBSET work[r].stuck :
            Becomes(r, Rest([Idle EXCEPT !.stuck = S, !.stale = work[r].stale]))
      BY <1>4 DEF RecoveryFails
    <2> DEFINE v == [Idle EXCEPT !.stuck = S, !.stale = work[r].stale]
    <2>2. v \in Work /\ v.todo = {}
      BY <1>1, <2>1, IdleType DEF Idle, Work
    <2>3. Becomes(r, Rest(v))
      BY <2>1
    <2> HIDE DEF v
    <2>4. Rest(v) \in Work /\ Continues(Rest(v), work[r])
      BY <2>2, RestContinues
    <2> QED BY <1>1, <2>3, <2>4, QuietlyContinues
  <1> QED BY <1>2, <1>3, <1>4

LEMMA LabelSource ==
    ASSUME IInv, SourceInv, NEW l \in Labels, LabelNext(l)
    PROVE  SourceInv'
  <1>1. /\ l \in Actors /\ work[l] \in Work /\ WorkOK(work[l]) /\ TypeOK
        /\ sent' = sent /\ at' = at
    BY DEF IInv, TypeOK, Actors, Overwriters, LabelNext, LabelRead, LabelWrite, external, buffer
  <1>2. ASSUME NEW s \in Shipments, LabelRead(l, s) PROVE SourceInv'
    <2> DEFINE w == [Idle EXCEPT !.pc = "label", !.s = s, !.seen = row[s]]
    <2>1. row[s] \in Row
      BY <1>1 DEF TypeOK
    <2>2. w \in Work /\ w.pc = "label" /\ w.todo = {}
      BY <2>1, IdleType DEF Idle, Work, Phase
    <2>3. Becomes(l, w)
      BY <1>2 DEF LabelRead
    <2> HIDE DEF w
    <2>4. Continues(w, work[l])
      BY <2>2 DEF Continues, Applying
    <2> QED BY <1>1, <2>2, <2>3, <2>4, QuietlyContinues
  <1>3. CASE LabelWrite(l)
    <2>1. work[l].s \in Shipments /\ work[l].seen \in Row /\ Write(l, work[l].s, work[l].seen, Idle)
      BY <1>1, <1>3 DEF LabelWrite, Overwrite, WorkOK, Work
    <2> QED BY <1>1, <2>1, IdleContinues, WritesAndContinues
  <1> QED BY <1>2, <1>3 DEF LabelNext

LEMMA NextSource == IInv /\ SourceInv /\ [Next]_vars => SourceInv'
  <1> SUFFICES ASSUME IInv, SourceInv, [Next]_vars PROVE SourceInv'
    OBVIOUS
  <1>0. TypeOK
    BY DEF IInv
  <1> USE DEF Replay, Actors, Overwriters
  <1>1. ASSUME NEW s \in Shipments, CarrierMoves(s) \/ Age(s) PROVE SourceInv'
    <2>1. work' = work /\ sent \subseteq sent' /\ at' = at
      BY <1>1 DEF CarrierMoves, Age, external, buffer
    <2> QED BY <2>1 DEF SourceInv, Delivers, Replays, Buffered
  <1>2. ASSUME NEW b \in Bookers, BookerNext(b) PROVE SourceInv'
    BY <1>0, <1>2, BookerSource, RecordSource, ListSource, TakeNextSource, PassOnSource,
       ApplySource DEF BookerNext
  <1>3. ASSUME NEW w \in Webhooks, WebhookNext(w) PROVE SourceInv'
    BY <1>0, <1>3, WebhookSource, ApplySource DEF WebhookNext
  <1>4. ASSUME NEW p \in Replayers, ReplayerNext(p) PROVE SourceInv'
    BY <1>0, <1>4, ListSource, TakeNextSource, PassOnSource, ApplySource DEF ReplayerNext
  <1>5. ASSUME NEW r \in Recoverers, RecovererNext(r) PROVE SourceInv'
    BY <1>0, <1>5, RecoverySource, RecordSource, ListSource, TakeNextSource, PassOnSource,
       ApplySource DEF RecovererNext
  <1>6. ASSUME NEW l \in Labels, LabelNext(l) PROVE SourceInv'
    BY <1>6, LabelSource
  <1>7. ASSUME NEW a \in Actors, Abort(a) PROVE SourceInv'
    <2>1. Becomes(a, Idle) /\ sent' = sent /\ at' = at
      BY <1>7 DEF Abort, external, buffer
    <2> QED BY <1>0, <2>1, IdleContinues, QuietlyContinues
  <1>8. CASE UNCHANGED vars
    BY <1>8 DEF vars, SourceInv, Delivers, Replays, Buffered
  <1> QED BY <1>1, <1>2, <1>3, <1>4, <1>5, <1>6, <1>7, <1>8 DEF Next

\* What a crash has left in the buffer was sent, and was answered.
LEMMA InitBuffer ==
    ASSUME Init
    PROVE  Buffered = acked /\ acked \subseteq sent /\ sent \subseteq Events
  <1>1. PICK B \in SUBSET Leftover :
            /\ sent = Told(B) /\ acked \subseteq Told(B)
            /\ IsFiniteSet(acked) /\ at \in Order(acked, Events)
    <2>1. PICK D \in SUBSET Leftover : \E B \in SUBSET D :
              /\ sent = Told(B) /\ acked \subseteq Told(B)
              /\ IsFiniteSet(acked) /\ at \in Order(acked, Events)
      BY DEF Init
    <2> QED BY <2>1
  <1>2. Told(B) \subseteq Events
    BY DEF Told, Tells
  <1> QED BY <1>1, <1>2, OrderFacts DEF Buffered

LEMMA InitSource == Init => SourceInv
  <1> SUFFICES ASSUME Init PROVE SourceInv
    OBVIOUS
  <1>1. Buffered \subseteq sent /\ \A a \in Actors : work[a] = Idle
    BY InitBuffer DEF Init
  <1>2. Delivers(Idle) /\ Replays(Idle)
    BY DEF Delivers, Replays, Idle, Applying
  <1> QED BY <1>1, <1>2, KindsOfActors DEF SourceInv

(***************************************************************************)
(* The steps of the inbox.                                                 *)
(***************************************************************************)

\* The inbox is not touched.
Untouched == UNCHANGED <<sent, Buffered, log, acked, done>>

LEMMA BufferedIsAt == at' = at => Buffered' = Buffered
  BY DEF Buffered

\* A webhook request, or nobody, is answered when a status is settled.
LEMMA AnswerIsConfirm ==
    ASSUME IInv, NEW a \in Actors, work[a].pc \in {"status", "cas"}, Answer(a),
           UNCHANGED <<sent, log, at, done>>
    PROVE  Untouched \/ \E e \in Events : Inbox!Confirm(e)
  <1>1. work[a].e \in Events /\ log[work[a].e] # "none"
    BY DEF IInv, TypeOK, WorkOK, WorkersInv, WorkInv, Applying
  <1>2. Buffered' = Buffered
    BY BufferedIsAt
  <1>3. CASE acked' = acked
    BY <1>2, <1>3 DEF Untouched
  <1>4. CASE acked' = acked \cup {work[a].e}
    BY <1>1, <1>2, <1>4 DEF Inbox!Confirm
  <1> QED BY <1>3, <1>4 DEF Answer

LEMMA ApplyIsInbox ==
    ASSUME IInv, SourceInv, NEW a \in Actors, Apply(a)
    PROVE  Untouched \/ Inbox!Next
  <1>1. CASE AppendEvent(a)
    <2>1. work[a].e \in Events /\ work[a].pc \in Applying /\ Buffered' = Buffered
      BY <1>1, BufferedIsAt DEF AppendEvent, IInv, TypeOK, WorkOK, Applying, buffer
    <2>2. /\ UNCHANGED <<sent, acked, done>>
          /\ log' = IF log[work[a].e] = "none"
                    THEN [log EXCEPT ![work[a].e] = work[a].st] ELSE log
      BY <1>1 DEF AppendEvent, external, buffer, history
    <2>3. CASE log[work[a].e] # "none"
      BY <2>1, <2>2, <2>3 DEF Untouched
    <2>4. CASE log[work[a].e] = "none" /\ a \in Webhooks
      <3>1. work[a].e \in sent /\ work[a].st = work[a].e.status
        BY <2>1, <2>4 DEF SourceInv, Delivers
      <3>2. Inbox!EnterDelivered(work[a].e)
        BY <2>1, <2>2, <2>4, <3>1 DEF Inbox!EnterDelivered, Inbox!Enter
      <3> QED BY <2>1, <3>2 DEF Inbox!Next
    <2>5. CASE log[work[a].e] = "none" /\ a \notin Webhooks
      <3>1. work[a].e \in Buffered /\ work[a].st = ReplayStatus(work[a].e.status)
        BY <2>1, <2>5 DEF SourceInv, Replays
      <3>2. Inbox!EnterKept(work[a].e)
        BY <2>1, <2>2, <2>5, <3>1 DEF Inbox!EnterKept, Inbox!Enter
      <3> QED BY <2>1, <3>2 DEF Inbox!Next
    <2> QED BY <2>3, <2>4, <2>5
  <1>2. CASE ReadStatus(a)
    <2>1. work[a].pc = "status" /\ UNCHANGED <<sent, log, at, done>>
      BY <1>2 DEF ReadStatus, external, buffer
    <2>2. Answer(a) \/ acked' = acked
      BY <1>2 DEF ReadStatus
    <2>3. CASE Answer(a)
      BY <2>1, <2>3, AnswerIsConfirm DEF Inbox!Next
    <2>4. CASE acked' = acked
      BY <2>1, <2>4, BufferedIsAt DEF Untouched
    <2> QED BY <2>2, <2>3, <2>4
  <1>3. CASE Cas(a)
    <2>1. work[a].pc = "cas" /\ UNCHANGED <<sent, log, at, done>> /\ Answer(a)
      BY <1>3 DEF Cas, external, buffer
    <2> QED BY <2>1, AnswerIsConfirm DEF Inbox!Next
  <1> QED BY <1>1, <1>2, <1>3 DEF Apply

LEMMA WebhookIsInbox ==
    ASSUME IInv, SourceInv, NEW a \in Webhooks, WebhookBuffer(a)
    PROVE  Inbox!Next
  <1>1. work[a].e \in Events /\ work[a].e \in sent
    BY KindsOfActors DEF IInv, TypeOK, WorkOK, WebhookBuffer, SourceInv, Delivers
  <1>2. /\ UNCHANGED <<sent, log, done>> /\ acked' = acked \cup {work[a].e}
        /\ at' = IF at[work[a].e] = 0
                 THEN [at EXCEPT ![work[a].e] = Cardinality(Buffered) + 1] ELSE at
    BY DEF WebhookBuffer, external
  <1>3. Buffered' = Buffered \cup {work[a].e}
    <2>1. at \in [Events -> Nat] /\ Cardinality(Buffered) \in Nat
      BY FS_CardinalityType DEF IInv, TypeOK, BufferInv
    <2>2. PICK n \in Nat \ {0} :
            at' = IF at[work[a].e] = 0 THEN [at EXCEPT ![work[a].e] = n] ELSE at
      <3> DEFINE m == Cardinality(Buffered) + 1
      <3>1. m \in Nat \ {0}
        BY <2>1
      <3>2. at' = IF at[work[a].e] = 0 THEN [at EXCEPT ![work[a].e] = m] ELSE at
        BY <1>2
      <3> HIDE DEF m
      <3> QED BY <3>1, <3>2
    <2> QED BY <1>1, <2>1, <2>2 DEF Buffered
  <1>4. Inbox!Keep(work[a].e)
    BY <1>1, <1>2, <1>3 DEF Inbox!Keep
  <1> QED BY <1>1, <1>4 DEF Inbox!Next

\* A replay marks an event it holds from the buffer, and that is recorded.
LEMMA ReplayIsInbox ==
    ASSUME IInv, SourceInv, NEW a \in Overwriters \cup Replayers, Replay(a)
    PROVE  Untouched \/ Inbox!Next
  <1>1. ASSUME NEW e \in Events, TakeNext(a, e) PROVE Untouched
    BY <1>1, BufferedIsAt DEF TakeNext, external, buffer, history, Untouched
  <1>2. CASE MarkProcessed(a)
    <2>1. a \in Actors \ Webhooks /\ work[a].pc = "mark"
      BY <1>2, KindsOfActors DEF MarkProcessed
    <2>2. work[a].e \in Events /\ work[a].e \in Buffered /\ log[work[a].e] # "none"
      BY <2>1 DEF IInv, TypeOK, WorkOK, WorkersInv, WorkInv, SourceInv, Replays, Applying
    <2>3. /\ UNCHANGED <<sent, log, at, acked>> /\ done' = done \cup {work[a].e}
      BY <1>2 DEF MarkProcessed, external, history
    <2>4. Inbox!Settle(work[a].e)
      BY <2>2, <2>3, BufferedIsAt DEF Inbox!Settle
    <2> QED BY <2>2, <2>4 DEF Inbox!Next
  <1> QED BY <1>1, <1>2 DEF Replay

\* The other steps do not touch the inbox, but for the events the carrier sends.
LEMMA OtherSteps ==
    ASSUME NEW a,
           \/ \E s \in Shipments : BookCheck(a, s) \/ RecoveryLookup(a, s) \/ LabelRead(a, s)
           \/ BookInsert(a) \/ Record(a) \/ ListForShipment(a) \/ ReplayScan(a)
           \/ \E e \in Events : WebhookFind(a, e) \/ SkipNext(a, e)
           \/ RecoveryScan(a) \/ RecoveryFails(a) \/ LabelWrite(a) \/ Abort(a)
    PROVE  Untouched
  <1>1. UNCHANGED <<sent, at, log, acked, done>>
    BY DEF BookCheck, RecoveryLookup, LabelRead, BookInsert, Record, ListForShipment,
           ReplayScan, WebhookFind, SkipNext, RecoveryScan, RecoveryFails, LabelWrite, Abort,
           Overwrite, external, buffer, history
  <1> QED BY <1>1, BufferedIsAt DEF Untouched

LEMMA CarrierIsInbox ==
    ASSUME IInv,
           \/ \E s \in Shipments : CarrierMoves(s) \/ Age(s)
           \/ \E b \in Bookers : BookCall(b)
    PROVE  Inbox!Issue
  <1>1. sent \subseteq sent' /\ sent' \subseteq Events
    BY DEF CarrierMoves, Age, BookCall, external, Tells, IInv, TypeOK
  <1>2. UNCHANGED <<at, log, acked, done>>
    BY DEF CarrierMoves, Age, BookCall, buffer, history
  <1> QED BY <1>1, <1>2, BufferedIsAt DEF Inbox!Issue

LEMMA NextIsInbox == IInv /\ SourceInv /\ [Next]_vars => Untouched \/ Inbox!Next
  <1> SUFFICES ASSUME IInv, SourceInv, [Next]_vars PROVE Untouched \/ Inbox!Next
    OBVIOUS
  <1> USE DEF Actors, Overwriters
  <1>1. ASSUME NEW s \in Shipments, CarrierMoves(s) \/ Age(s) PROVE Inbox!Next
    BY <1>1, CarrierIsInbox DEF Inbox!Next
  <1>2. ASSUME NEW b \in Bookers, BookerNext(b) PROVE Untouched \/ Inbox!Next
    <2>1. CASE BookCall(b)
      BY <2>1, CarrierIsInbox DEF Inbox!Next
    <2>2. CASE Replay(b) \/ Apply(b)
      BY <2>2, ReplayIsInbox, ApplyIsInbox
    <2>3. CASE (\E s \in Shipments : BookCheck(b, s)) \/ BookInsert(b) \/ Record(b)
                \/ ListForShipment(b)
      BY <2>3, OtherSteps
    <2> QED BY <1>2, <2>1, <2>2, <2>3 DEF BookerNext
  <1>3. ASSUME NEW w \in Webhooks, WebhookNext(w) PROVE Untouched \/ Inbox!Next
    BY <1>3, WebhookIsInbox, ApplyIsInbox, OtherSteps DEF WebhookNext
  <1>4. ASSUME NEW p \in Replayers, ReplayerNext(p) PROVE Untouched \/ Inbox!Next
    BY <1>4, ReplayIsInbox, ApplyIsInbox, OtherSteps DEF ReplayerNext
  <1>5. ASSUME NEW r \in Recoverers, RecovererNext(r) PROVE Untouched \/ Inbox!Next
    BY <1>5, ReplayIsInbox, ApplyIsInbox, OtherSteps DEF RecovererNext
  <1>6. ASSUME NEW l \in Labels, LabelNext(l) PROVE Untouched
    BY <1>6, OtherSteps DEF LabelNext
  <1>7. ASSUME NEW a \in Actors, Abort(a) PROVE Untouched
    BY <1>7, OtherSteps
  <1>8. CASE UNCHANGED vars
    BY <1>8, BufferedIsAt DEF vars, external, buffer, history, Untouched
  <1> QED BY <1>1, <1>2, <1>3, <1>4, <1>5, <1>6, <1>7, <1>8 DEF Next

\* In every state an actor has its event from the carrier or from the buffer.
THEOREM EventsHaveSources == Spec => [](IInv /\ SourceInv)
  <1>1. Init => IInv /\ SourceInv
    BY InitIInv, InitSource
  <1>2. IInv /\ SourceInv /\ [Next]_vars => IInv' /\ SourceInv'
    BY NextIInv, NextSource
  <1> QED BY <1>1, <1>2, PTL DEF Spec

\* The tables, their writers and the requests that fail between two statements are
\* together one inbox: an event is answered only when it is kept or recorded, recorded
\* once, and marked only when it is recorded.
THEOREM TablesAreAnInbox == Spec => ImplementsInbox
  <1>1. Init => Inbox!Init
    BY InitBuffer DEF Init, Inbox!Init
  <1>2. IInv /\ SourceInv /\ [Next]_vars => [Inbox!Next]_(Inbox!inboxVars)
    BY NextIsInbox DEF Untouched, Inbox!inboxVars
  <1> QED BY <1>1, <1>2, EventsHaveSources, PTL DEF Spec, ImplementsInbox, Inbox!Spec
=============================================================================
