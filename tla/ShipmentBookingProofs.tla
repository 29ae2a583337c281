----------------------- MODULE ShipmentBookingProofs -----------------------
(***************************************************************************)
(* Proofs about ShipmentBooking, for any number of shipments, events and   *)
(* actors, and for every way of a parcel.                                  *)
(***************************************************************************)
EXTENDS ShipmentBooking, FiniteSetTheorems, TLAPS

(***************************************************************************)
(* The inductive invariant.                                                *)
(***************************************************************************)

\* What an actor's record says besides its types.
WorkInv(w) ==
    /\ w.pc = "label" => w.seen.there /\ w.seen.refs
    /\ w.pc \in {"status", "cas", "mark"} => log[w.e] # "none"
    /\ w.pc = "cas" => Rank[w.st] > Rank[w.seen.status]
    /\ w.s \notin w.stuck
    /\ \A e \in w.todo : e.s \notin w.stuck /\ row[e.s].there
    /\ w.pc = "buffer" => row[w.e.s].there
WorkersInv == \A a \in Actors : WorkInv(work[a])

\* What an actor is about to write over a row nobody else has written since.
Knows(w, s) ==
    /\ w.pc = "call" /\ w.s = s => row[s].status = "BOOKING_IN_PROGRESS"
    /\ w.pc = "record" /\ w.s = s => Rank[row[s].status] <= Rank[w.st]
    /\ w.pc = "label" /\ w.s = s => row[s] = w.seen
    /\ s \in w.stuck => row[s].status = "BOOKING_IN_PROGRESS"
KnowledgeInv == \A a \in Overwriters : \A s \in Shipments \ work[a].stale : Knows(work[a], s)

RowInv ==
    \A s \in Shipments :
        /\ ~row[s].there => row[s] = NoRow
        /\ carrier[s] # "none" => row[s].there /\ Rank[carrier[s]] >= Rank["BOOKED"]
        /\ \A e \in sent : e.s = s => row[s].there

BufferInv ==
    /\ IsFiniteSet(Buffered)
    /\ \A e \in Buffered : row[e.s].there
    /\ \A e \in done : log[e] # "none"

IInv ==
    /\ TypeOK
    /\ WorkersInv
    /\ KnowledgeInv
    /\ RowInv
    /\ BufferInv
    /\ CarrierAskedOnce
    /\ AckedNotLost
    /\ ReflectedUnlessLost

----------------------------------------------------------------------------
(***************************************************************************)
(* Statuses and records.                                                   *)
(***************************************************************************)

\* Ranks are numbers, a draft ranks lowest, and a parcel never steps below BOOKED.
LEMMA RankFacts ==
    /\ \A st \in ShipmentStatus : Rank[st] \in 0..11
    /\ Rank["DRAFT"] = 0 /\ Rank["BOOKING_IN_PROGRESS"] = 1 /\ Rank["BOOKED"] = 2
    /\ \A st \in ShipmentStatus : \A next \in CarrierStep[st] :
            next \in ShipmentStatus /\ Rank[next] >= Rank["BOOKED"]
    /\ \A st \in ShipmentStatus : ReplayStatus(st) \in ShipmentStatus
BY DEF Rank, ShipmentStatus, CarrierStep, ReplayStatus

LEMMA IdleType == Idle \in Work /\ NoRow \in Row /\ DraftRow \in Row
BY DEF Idle, Work, NoRow, DraftRow, Row, ShipmentStatus, Phase

\* What is left of an actor's work.
LEMMA RestFacts ==
    ASSUME NEW w \in Work
    PROVE  /\ Rest(w) \in Work
           /\ Rest(w).pc \in {"next", "stuck", "idle"}
           /\ Rest(w).pc = "next" => w.todo # {}
           /\ Rest(w).pc = "stuck" => w.stuck # {}
           /\ Rest(w).s = NoShipment /\ Rest(w).e = NoEvent
           /\ Rest(w).todo = w.todo
           /\ Rest(w).stuck = w.stuck
           /\ Rest(w).stale = w.stale \cap w.stuck
BY IdleType DEF Rest, Idle, Work, Phase

LEMMA ActorFacts ==
    ASSUME TypeOK, NEW a \in Actors
    PROVE  work[a] \in Work /\ WorkOK(work[a])
BY DEF TypeOK

\* Writing a row goes on with w and leaves every other actor's record alone, but for
\* noting in it that the row was written.
LEMMA WriteFacts ==
    ASSUME TypeOK, NEW a \in Actors, NEW s \in Shipments, NEW r \in Row, NEW w \in Work,
           Write(a, s, r, w)
    PROVE  /\ row' = [row EXCEPT ![s] = r]
           /\ row' \in [Shipments -> Row]
           /\ work' \in [Actors -> Work]
           /\ work'[a] = [w EXCEPT !.stale = @ \ {s}]
           /\ \A x \in Actors \ {a} :
                /\ work'[x] = [work[x] EXCEPT !.stale = work'[x].stale]
                /\ work[x].stale \subseteq work'[x].stale
                /\ work'[x].stale \subseteq work[x].stale \cup {s}
                /\ x \in Overwriters /\ Holds(work[x], s) => s \in work'[x].stale
<1> USE DEF TypeOK
<1>1. work'[a] = [w EXCEPT !.stale = @ \ {s}]
  BY DEF Write
<1>2. ASSUME NEW x \in Actors \ {a}
      PROVE  /\ work'[x] \in Work
             /\ work'[x] = [work[x] EXCEPT !.stale = work'[x].stale]
             /\ work[x].stale \subseteq work'[x].stale
             /\ work'[x].stale \subseteq work[x].stale \cup {s}
             /\ x \in Overwriters /\ Holds(work[x], s) => s \in work'[x].stale
  <2>0. work[x] \in Work
    OBVIOUS
  <2>1. CASE x \in Overwriters /\ Holds(work[x], s)
    <3>1. work'[x] = [work[x] EXCEPT !.stale = @ \cup {s}]
      BY <2>1 DEF Write
    <3> QED
      BY <2>0, <3>1 DEF Work
  <2>2. CASE ~(x \in Overwriters /\ Holds(work[x], s))
    <3>1. work'[x] = work[x]
      BY <2>2 DEF Write
    <3> QED
      BY <2>0, <2>2, <3>1 DEF Work
  <2> QED
    BY <2>1, <2>2
<1>3. work'[a] \in Work
  BY <1>1 DEF Work
<1>4. work' = [x \in Actors |-> work'[x]]
  BY DEF Write
<1>5. work' \in [Actors -> Work]
  BY <1>2, <1>3, <1>4
<1> QED
  BY <1>1, <1>2, <1>5 DEF Write

----------------------------------------------------------------------------
(***************************************************************************)
(* Steps leave the other actors alone. Goes(a, w): actor a goes on with w  *)
(* and every other actor is where it was, except that the shipments S may  *)
(* have been noted as written.                                             *)
(***************************************************************************)

Goes(a, w, S) ==
    /\ work' \in [Actors -> Work]
    /\ work'[a] = w
    /\ \A x \in Actors \ {a} :
        /\ work'[x] = [work[x] EXCEPT !.stale = work'[x].stale]
        /\ work[x].stale \subseteq work'[x].stale
        /\ work'[x].stale \subseteq work[x].stale \cup S

\* What is there stays there.
Grows ==
    /\ row' \in [Shipments -> Row]
    /\ \A s \in Shipments : row[s].there => row'[s].there
    /\ \A e \in Events : log[e] # "none" => log'[e] = log[e]

LEMMA BecomesGoes ==
    ASSUME TypeOK, NEW a \in Actors, NEW w \in Work, Becomes(a, w)
    PROVE  Goes(a, w, {})
<1>1. work' \in [Actors -> Work] /\ work'[a] = w
  BY DEF TypeOK, Becomes
<1>2. ASSUME NEW x \in Actors \ {a}
      PROVE  work'[x] = work[x] /\ work[x] = [work[x] EXCEPT !.stale = work[x].stale]
  BY DEF TypeOK, Becomes, Work
<1> QED
  BY <1>1, <1>2 DEF Goes

LEMMA WriteGoes ==
    ASSUME TypeOK, NEW a \in Actors, NEW s \in Shipments, NEW r \in Row, NEW v \in Work,
           NEW w \in Work, w = [v EXCEPT !.stale = @ \ {s}], Write(a, s, r, v)
    PROVE  Goes(a, w, {s})
<1>1. work' \in [Actors -> Work] /\ work'[a] = [v EXCEPT !.stale = @ \ {s}]
  BY WriteFacts
<1>2. ASSUME NEW x \in Actors \ {a}
      PROVE  /\ work'[x] = [work[x] EXCEPT !.stale = work'[x].stale]
             /\ work[x].stale \subseteq work'[x].stale
             /\ work'[x].stale \subseteq work[x].stale \cup {s}
  BY WriteFacts
<1> QED
  BY <1>1, <1>2 DEF Goes

\* The types and the consistency of a record need only what grows.
LEMMA OthersStay ==
    ASSUME TypeOK, WorkersInv, Grows,
           NEW a \in Actors, NEW w \in Work, NEW S, Goes(a, w, S), NEW x \in Actors \ {a}
    PROVE  WorkOK(work[x])' /\ WorkInv(work[x])'
<1> DEFINE v == work[x]
<1>1. v \in Work /\ WorkOK(v) /\ WorkInv(v)
  BY DEF TypeOK, WorkersInv
<1>2. /\ work'[x] \in Work
      /\ work'[x].pc = v.pc /\ work'[x].s = v.s /\ work'[x].e = v.e /\ work'[x].st = v.st
      /\ work'[x].seen = v.seen /\ work'[x].todo = v.todo /\ work'[x].stuck = v.stuck
  BY <1>1 DEF Goes, Work
<1>3. WorkOK(work[x])'
  BY <1>1, <1>2, ShipmentConstants DEF WorkOK, Applying, Grows, Work
<1>4. v.pc \in {"status", "cas", "mark"} => v.e \in Events
  BY <1>1 DEF WorkOK, Applying
<1>5. WorkInv(work[x])'
  BY <1>1, <1>2, <1>4, ShipmentConstants DEF WorkInv, WorkOK, Grows, Work
<1> QED
  BY <1>3, <1>5

\* So a step need only be looked at for the actor that takes it.
LEMMA ActorStep ==
    ASSUME TypeOK, WorkersInv, Grows,
           NEW a \in Actors, NEW w \in Work, NEW S, Goes(a, w, S), WorkOK(w)', WorkInv(w)'
    PROVE  (\A x \in Actors : WorkOK(work[x]))' /\ WorkersInv'
<1>1. ASSUME NEW x \in Actors PROVE WorkOK(work[x])' /\ WorkInv(work[x])'
  <2>1. CASE x = a
    BY <2>1 DEF Goes
  <2>2. CASE x # a
    BY <2>2, OthersStay
  <2> QED
    BY <2>1, <2>2
<1> QED
  BY <1>1 DEF WorkersInv

\* What an overwriter knows survives a step of somebody else: a row that is written
\* is noted as written.
LEMMA KnowledgeStep ==
    ASSUME TypeOK, KnowledgeInv, NEW a \in Actors, NEW w \in Work, NEW S, Goes(a, w, S),
           a \in Overwriters => \A s \in Shipments \ w.stale : Knows(w, s)',
           \A x \in Overwriters \ {a} : \A s \in Shipments :
                row'[s] = row[s] \/ ~Holds(work[x], s) \/ s \in work'[x].stale
    PROVE  KnowledgeInv'
<1> SUFFICES ASSUME NEW x \in Overwriters, NEW s \in Shipments \ work'[x].stale
             PROVE  Knows(work[x], s)'
  BY DEF KnowledgeInv
<1>1. CASE x = a
  BY <1>1 DEF Goes
<1>2. CASE x # a
  <2>1. x \in Actors \ {a}
    BY <1>2 DEF Actors
  <2>2. /\ work[x] \in Work
        /\ work'[x] = [work[x] EXCEPT !.stale = work'[x].stale]
        /\ s \notin work[x].stale
    BY <2>1 DEF Goes, TypeOK
  <2>3. /\ work'[x].pc = work[x].pc /\ work'[x].s = work[x].s /\ work'[x].st = work[x].st
        /\ work'[x].seen = work[x].seen /\ work'[x].stuck = work[x].stuck
    BY <2>2 DEF Work
  <2>4. Knows(work[x], s)
    BY <2>2 DEF KnowledgeInv
  <2>5. row'[s] = row[s] \/ ~Holds(work[x], s)
    BY <1>2
  <2>6. CASE row'[s] = row[s]
    BY <2>3, <2>4, <2>6 DEF Knows
  <2>7. CASE ~Holds(work[x], s)
    BY <2>3, <2>7 DEF Knows, Holds
  <2> QED
    BY <2>5, <2>6, <2>7
<1> QED
  BY <1>1, <1>2

\* An actor that applies an event shields it until it lets go of it.
LEMMA InFlightStep ==
    ASSUME TypeOK, NEW a \in Actors, NEW w \in Work, NEW S, Goes(a, w, S),
           NEW e \in Events, InFlight(e), log'[e] = log[e],
           (work[a].pc \in {"status", "cas"} /\ work[a].e = e) =>
                (w.pc \in {"status", "cas"} /\ w.e = e /\ w.st = work[a].st)
    PROVE  InFlight(e)'
<1>1. PICK x \in Actors : /\ work[x].pc \in {"status", "cas"}
                          /\ work[x].e = e
                          /\ Rank[work[x].st] >= Rank[log[e]]
  BY DEF InFlight
<1>2. work'[x].pc \in {"status", "cas"} /\ work'[x].e = e /\ work'[x].st = work[x].st
  <2>1. CASE x = a
    BY <1>1, <2>1 DEF Goes
  <2>2. CASE x # a
    BY <1>1, <2>2 DEF Goes, TypeOK, Work
  <2> QED
    BY <2>1, <2>2
<1> QED
  BY <1>1, <1>2 DEF InFlight

\* A booking request that does not ask the carrier now disturbs no other.
LEMMA AskedStep ==
    ASSUME TypeOK, CarrierAskedOnce, NEW a \in Actors, NEW w \in Work, NEW S, Goes(a, w, S),
           w.pc # "call",
           \A b \in Bookers \ {a} : work[b].pc = "call" => carrier'[work[b].s] = carrier[work[b].s]
    PROVE  CarrierAskedOnce'
<1>1. ASSUME NEW b \in Bookers, work'[b].pc = "call"
      PROVE  b # a /\ work[b].pc = "call" /\ work'[b].s = work[b].s
  <2>1. b # a
    BY <1>1 DEF Goes
  <2>2. b \in Actors \ {a}
    BY <2>1 DEF Actors, Overwriters
  <2> QED
    BY <1>1, <2>1, <2>2 DEF Goes, TypeOK, Work
<1> QED
  BY <1>1 DEF CarrierAskedOnce

\* A step that changes nothing but what its actor is doing, and the answer to an
\* event whose status it settles.
LEMMA QuietStep ==
    ASSUME IInv, NEW a \in Actors, NEW w \in Work, Becomes(a, w),
           UNCHANGED <<external, row, age, log, buffer>>,
           \/ acked' = acked
           \/ work[a].pc \in {"status", "cas"} /\ acked' = acked \cup {work[a].e},
           lost \subseteq lost', lost' \subseteq Events,
           WorkOK(w), WorkInv(w),
           a \in Overwriters => \A s \in Shipments \ w.stale : Knows(w, s),
           w.pc # "call",
           work[a].pc \in {"status", "cas"} =>
                \/ work[a].e \in lost'
                \/ w.pc \in {"status", "cas"} /\ w.e = work[a].e /\ w.st = work[a].st
                \/ Rank[row[work[a].s].status] >= Rank[work[a].st]
    PROVE  IInv'
<1> USE DEF IInv, external, buffer, age
<1>1. Goes(a, w, {})
  BY BecomesGoes
<1>2. Grows
  BY DEF Grows, TypeOK
<1>3. WorkOK(w)' /\ WorkInv(w)'
  BY DEF WorkOK, WorkInv
<1>4. (\A x \in Actors : WorkOK(work[x]))' /\ WorkersInv'
  BY <1>1, <1>2, <1>3, ActorStep
<1>5. work[a].pc \in {"status", "cas"} =>
            work[a].e \in Events /\ work[a].s = work[a].e.s /\ log[work[a].e] # "none"
  BY DEF TypeOK, WorkOK, Applying, WorkersInv, WorkInv
<1>6. TypeOK'
  BY <1>1, <1>4, <1>5 DEF TypeOK, Goes, Buffered
<1>7. KnowledgeInv'
  <2>1. a \in Overwriters => \A s \in Shipments \ w.stale : Knows(w, s)'
    BY DEF Knows
  <2> QED
    BY <1>1, <2>1, KnowledgeStep
<1>8. RowInv' /\ BufferInv' /\ AckedNotLost'
  BY <1>5 DEF RowInv, BufferInv, AckedNotLost, Buffered, Pending
<1>9. CarrierAskedOnce'
  BY <1>1, AskedStep
<1>10. ReflectedUnlessLost'
  <2> SUFFICES ASSUME NEW e \in Events, log[e] # "none", ~(Rank[row[e.s].status] >= Rank[log[e]]),
                      e \notin lost'
               PROVE  InFlight(e)'
    BY DEF ReflectedUnlessLost
  <2>1. PICK x \in Actors : /\ work[x].pc \in {"status", "cas"} /\ work[x].e = e
                            /\ Rank[work[x].st] >= Rank[log[e]]
    BY DEF ReflectedUnlessLost, InFlight
  <2>2. ~(x = a /\ Rank[row[work[a].s].status] >= Rank[work[a].st])
    <3>1. row[e.s].status \in ShipmentStatus /\ work[x].st \in ShipmentStatus /\ log[e] \in ShipmentStatus
      BY ShipmentConstants, ActorFacts DEF TypeOK, Row, Work
    <3> QED
      BY <1>5, <2>1, <3>1, RankFacts
  <2>3. work'[x].pc \in {"status", "cas"} /\ work'[x].e = e /\ work'[x].st = work[x].st
    BY <1>1, <2>1, <2>2 DEF Goes, TypeOK, Work
  <2> QED
    BY <2>1, <2>3 DEF InFlight
<1> QED
  BY <1>4, <1>6, <1>7, <1>8, <1>9, <1>10

----------------------------------------------------------------------------
(***************************************************************************)
(* Steps that only change what an actor is doing.                          *)
(***************************************************************************)

LEMMA IdleFacts ==
    ASSUME TypeOK
    PROVE  /\ WorkOK(Idle) /\ WorkInv(Idle) /\ Idle.pc = "idle"
           /\ \A s \in Shipments : Knows(Idle, s)
BY IdleType DEF WorkOK, WorkInv, Knows, Idle, Applying

\* Giving up an event counts it as lost.
LEMMA GivesUpFacts ==
    ASSUME TypeOK, NEW a \in Actors, GivesUp(a)
    PROVE  /\ lost \subseteq lost' /\ lost' \subseteq Events
           /\ work[a].pc \in {"status", "cas"} => work[a].e \in lost'
BY ActorFacts DEF GivesUp, WorkOK, Applying, TypeOK

LEMMA AbortStep == ASSUME IInv, NEW a \in Actors, Abort(a) PROVE IInv'
<1> USE IdleType, IdleFacts, GivesUpFacts DEF IInv
<1>1. lost \subseteq lost' /\ lost' \subseteq Events
      /\ (work[a].pc \in {"status", "cas"} => work[a].e \in lost')
  BY DEF Abort
<1>2. Becomes(a, Idle) /\ UNCHANGED <<external, row, age, log, buffer, acked>>
  BY DEF Abort
<1> QED
  BY <1>1, <1>2, QuietStep

LEMMA BookCheckStep ==
    ASSUME IInv, NEW b \in Bookers, NEW s \in Shipments, BookCheck(b, s) PROVE IInv'
<1> DEFINE w == [Idle EXCEPT !.pc = "insert", !.s = s]
<1> USE DEF IInv
<1>1. b \in Actors
  BY DEF Actors, Overwriters
<1>2. /\ w \in Work /\ w.pc = "insert" /\ w.s = s /\ w.todo = {} /\ w.stuck = {}
      /\ Becomes(b, w) /\ work[b].pc = "idle"
      /\ UNCHANGED <<external, row, age, log, buffer, acked>> /\ lost' = lost
  BY IdleType DEF BookCheck, Idle, Work, Phase, history
<1>3. WorkOK(w) /\ WorkInv(w)
  BY <1>2 DEF WorkOK, WorkInv, Applying
<1>4. \A t \in Shipments : Knows(w, t)
  BY <1>2 DEF Knows
<1>5. lost \subseteq lost' /\ lost' \subseteq Events
  BY <1>2 DEF TypeOK
<1> HIDE DEF w
<1> QED
  BY <1>1, <1>2, <1>3, <1>4, <1>5, QuietStep

LEMMA WebhookFindStep ==
    ASSUME IInv, NEW x \in Webhooks, NEW e \in Events, WebhookFind(x, e) PROVE IInv'
<1> DEFINE w == [Idle EXCEPT !.pc = IF Matches(e) THEN "append" ELSE "buffer",
                             !.s = e.s, !.e = e, !.st = e.status]
<1> USE DEF IInv
<1>1. x \in Actors /\ x \notin Overwriters
  BY ShipmentConstants DEF Actors, Overwriters
<1>2. e.s \in Shipments /\ e.status \in ShipmentStatus
  BY ShipmentConstants
<1>3. /\ w \in Work /\ w.pc = (IF Matches(e) THEN "append" ELSE "buffer")
      /\ w.s = e.s /\ w.e = e /\ w.todo = {} /\ w.stuck = {}
      /\ Becomes(x, w) /\ work[x].pc = "idle"
      /\ UNCHANGED <<external, row, age, log, buffer, acked>> /\ lost' = lost
  BY <1>2, IdleType DEF WebhookFind, Idle, Work, Phase, Applying, history
<1>4. row[e.s].there
  BY <1>2 DEF WebhookFind, RowInv
<1>5. WorkOK(w) /\ WorkInv(w)
  BY <1>2, <1>3, <1>4 DEF WorkOK, WorkInv, Applying
<1>6. lost \subseteq lost' /\ lost' \subseteq Events
  BY <1>3 DEF TypeOK
<1> HIDE DEF w
<1> QED
  BY <1>1, <1>3, <1>5, <1>6, QuietStep

\* What is left of an actor's work keeps what the invariant says of it.
LEMMA RestStays ==
    ASSUME NEW w \in Work, \A e \in w.todo : e.s \notin w.stuck /\ row[e.s].there,
           \A s \in w.stuck \ w.stale : row[s].status = "BOOKING_IN_PROGRESS"
    PROVE  /\ WorkOK(Rest(w)) /\ WorkInv(Rest(w)) /\ Rest(w).pc # "call"
           /\ \A s \in Shipments \ Rest(w).stale : Knows(Rest(w), s)
<1>1. WorkOK(Rest(w)) /\ Rest(w).pc # "call"
  BY RestFacts DEF WorkOK, Applying
<1>2. WorkInv(Rest(w))
  BY RestFacts, ShipmentConstants DEF WorkInv, Work
<1>3. ASSUME NEW s \in Shipments \ Rest(w).stale PROVE Knows(Rest(w), s)
  BY RestFacts DEF Knows
<1> QED
  BY <1>1, <1>2, <1>3

\* Of a shipment on its list that nobody has written, the recovery job knows the status.
LEMMA StuckFacts ==
    ASSUME TypeOK, KnowledgeInv, NEW a \in Overwriters, NEW s \in work[a].stuck \ work[a].stale
    PROVE  row[s].status = "BOOKING_IN_PROGRESS"
<1>1. a \in Actors
  BY DEF Actors
<1>2. s \in Shipments
  BY <1>1, ActorFacts DEF Work
<1> QED
  BY <1>2 DEF KnowledgeInv, Knows

LEMMA ListForShipmentStep ==
    ASSUME IInv, NEW a \in Overwriters, ListForShipment(a) PROVE IInv'
<1> DEFINE T == Oldest({e \in Pending : e.s = work[a].s /\ "ids" \in e.names})
           w == [work[a] EXCEPT !.todo = T]
<1> USE DEF IInv
<1>1. a \in Actors
  BY DEF Actors
<1>2. work[a] \in Work /\ WorkInv(work[a])
  BY <1>1 DEF TypeOK, WorkersInv
<1>3. T \subseteq Events /\ \A e \in T : e.s = work[a].s /\ row[e.s].there
  BY DEF Oldest, Pending, Buffered, BufferInv
<1> HIDE DEF T
<1>4. w \in Work /\ w.todo = T /\ w.stuck = work[a].stuck /\ w.stale = work[a].stale
  BY <1>2, <1>3 DEF Work
<1>5. /\ Becomes(a, Rest(w)) /\ work[a].pc = "list"
      /\ UNCHANGED <<external, row, age, log, buffer, acked>> /\ lost' = lost
  BY DEF ListForShipment, history, T
<1> HIDE DEF w
<1>6. \A e \in w.todo : e.s \notin w.stuck /\ row[e.s].there
  BY <1>2, <1>3, <1>4 DEF WorkInv
<1>7. \A s \in w.stuck \ w.stale : row[s].status = "BOOKING_IN_PROGRESS"
  BY <1>4, StuckFacts
<1>8. /\ WorkOK(Rest(w)) /\ WorkInv(Rest(w)) /\ Rest(w).pc # "call"
      /\ \A s \in Shipments \ Rest(w).stale : Knows(Rest(w), s)
  BY <1>4, <1>6, <1>7, RestStays
<1>9. Rest(w) \in Work
  BY <1>4, RestFacts
<1> QED
  BY <1>1, <1>5, <1>8, <1>9, QuietStep DEF TypeOK

LEMMA ReplayScanStep == ASSUME IInv, NEW p \in Replayers, ReplayScan(p) PROVE IInv'
<1> DEFINE w == [Idle EXCEPT !.todo = Oldest(Pending)]
<1> USE DEF IInv
<1>1. p \in Actors /\ p \notin Overwriters
  BY ShipmentConstants DEF Actors, Overwriters
<1>2. Oldest(Pending) \subseteq Events
  BY DEF Oldest, Pending, Buffered
<1>3. w \in Work /\ w.stuck = {} /\ \A e \in w.todo : row[e.s].there
  BY <1>2, IdleType DEF Idle, Work, Oldest, Pending, BufferInv
<1>4. /\ Becomes(p, Rest(w)) /\ work[p].pc = "idle"
      /\ UNCHANGED <<external, row, age, log, buffer, acked>> /\ lost' = lost
  BY DEF ReplayScan, history
<1> HIDE DEF w
<1>5. WorkOK(Rest(w)) /\ WorkInv(Rest(w)) /\ Rest(w).pc # "call" /\ Rest(w) \in Work
  BY <1>3, RestStays, RestFacts
<1> QED
  BY <1>1, <1>4, <1>5, QuietStep DEF TypeOK

LEMMA TakeNextStep ==
    ASSUME IInv, NEW a \in Overwriters \cup Replayers, NEW e \in Events, TakeNext(a, e)
    PROVE  IInv'
<1> DEFINE v == [work[a] EXCEPT !.todo = @ \ {e}]
           w == [v EXCEPT !.pc = "append", !.s = e.s, !.e = e, !.st = ReplayStatus(e.status)]
<1> USE DEF IInv
<1>1. a \in Actors
  BY DEF Actors
<1>2. work[a] \in Work /\ WorkInv(work[a])
  BY <1>1 DEF TypeOK, WorkersInv
<1>3. e.s \in Shipments /\ ReplayStatus(e.status) \in ShipmentStatus
  BY ShipmentConstants, RankFacts
<1>4. /\ w \in Work /\ w.pc = "append" /\ w.s = e.s /\ w.e = e
      /\ w.todo \subseteq work[a].todo /\ w.stuck = work[a].stuck /\ w.stale = work[a].stale
  BY <1>2, <1>3 DEF Work, Phase, Applying
<1>5. /\ Becomes(a, w) /\ work[a].pc = "next" /\ e \in work[a].todo
      /\ UNCHANGED <<external, row, age, log, buffer, acked>> /\ lost' = lost
  BY DEF TakeNext, history
<1> HIDE DEF w, v
<1>6. row[e.s].there
  BY <1>2, <1>5 DEF WorkInv
<1>7. WorkOK(w) /\ WorkInv(w)
  BY <1>2, <1>3, <1>4, <1>5, <1>6 DEF WorkOK, WorkInv, Applying
<1>8. a \in Overwriters => \A s \in Shipments \ w.stale : Knows(w, s)
  BY <1>4, StuckFacts DEF Knows
<1> QED
  BY <1>1, <1>4, <1>5, <1>7, <1>8, QuietStep DEF TypeOK

LEMMA SkipNextStep ==
    ASSUME IInv, NEW p \in Replayers, NEW e \in Events, SkipNext(p, e) PROVE IInv'
<1> DEFINE w == [work[p] EXCEPT !.todo = @ \ {e}]
<1> USE DEF IInv
<1>1. p \in Actors /\ p \notin Overwriters
  BY ShipmentConstants DEF Actors, Overwriters
<1>2. work[p] \in Work /\ WorkInv(work[p])
  BY <1>1 DEF TypeOK, WorkersInv
<1>3. w \in Work /\ w.todo \subseteq work[p].todo /\ w.stuck = work[p].stuck
  BY <1>2 DEF Work
<1>4. /\ Becomes(p, Rest(w)) /\ work[p].pc = "next"
      /\ UNCHANGED <<external, row, age, log, buffer, acked>> /\ lost' = lost
  BY DEF SkipNext, history
<1> HIDE DEF w
<1>5. WorkOK(Rest(w)) /\ Rest(w).pc # "call" /\ Rest(w) \in Work
  BY <1>3, RestFacts DEF WorkOK, Applying
<1>6. WorkInv(Rest(w))
  BY <1>2, <1>3, RestFacts, ShipmentConstants DEF WorkInv, Work
<1> QED
  BY <1>1, <1>4, <1>5, <1>6, QuietStep DEF TypeOK

LEMMA RecoveryScanStep == ASSUME IInv, NEW r \in Recoverers, RecoveryScan(r) PROVE IInv'
<1> DEFINE w == [Idle EXCEPT !.pc = "stuck", !.stuck = Stuck]
<1> USE DEF IInv
<1>1. r \in Actors
  BY DEF Actors, Overwriters
<1>2. Stuck \subseteq Shipments /\ \A s \in Stuck : row[s].status = "BOOKING_IN_PROGRESS"
  BY DEF Stuck, FirstCreated, InProgress, TypeOK
<1>3. /\ w \in Work /\ w.pc = "stuck" /\ w.s = NoShipment /\ w.todo = {} /\ w.stuck = Stuck
  BY <1>2, IdleType DEF Idle, Work, Phase
<1>4. /\ Becomes(r, w) /\ work[r].pc = "idle"
      /\ UNCHANGED <<external, row, age, log, buffer, acked>> /\ lost' = lost
  BY DEF RecoveryScan, history
<1> HIDE DEF w
<1>5. WorkOK(w) /\ WorkInv(w)
  BY <1>2, <1>3, ShipmentConstants DEF WorkOK, WorkInv, Applying
<1>6. \A s \in Shipments : Knows(w, s)
  BY <1>2, <1>3 DEF Knows
<1> QED
  BY <1>1, <1>3, <1>4, <1>5, <1>6, QuietStep DEF TypeOK

\* The carrier's answer is no older than the draft.
LEMMA RecoveryLookupStep ==
    ASSUME IInv, NEW r \in Recoverers, NEW s \in Shipments, RecoveryLookup(r, s) PROVE IInv'
<1> DEFINE v == [work[r] EXCEPT !.stuck = @ \ {s}]
<1> USE DEF IInv
<1>1. r \in Actors /\ r \in Overwriters
  BY DEF Actors, Overwriters
<1>2. work[r] \in Work /\ WorkInv(work[r]) /\ WorkOK(work[r])
  BY <1>1 DEF TypeOK, WorkersInv
<1>3. /\ v \in Work /\ v.pc = work[r].pc /\ v.s = work[r].s /\ v.todo = work[r].todo
      /\ v.stuck = work[r].stuck \ {s} /\ v.stale = work[r].stale
  BY <1>2 DEF Work
<1>4. /\ work[r].pc = "stuck" /\ s \in work[r].stuck
      /\ UNCHANGED <<external, row, age, log, buffer, acked>> /\ lost' = lost
  BY DEF RecoveryLookup, Foremost, history
<1>5. /\ \A e \in v.todo : e.s \notin v.stuck /\ row[e.s].there
      /\ \A t \in v.stuck \ v.stale : row[t].status = "BOOKING_IN_PROGRESS"
  BY <1>1, <1>2, <1>3, StuckFacts DEF WorkInv
<1>6. CASE Becomes(r, Rest(v))
  <2>1. /\ WorkOK(Rest(v)) /\ WorkInv(Rest(v)) /\ Rest(v).pc # "call" /\ Rest(v) \in Work
        /\ \A t \in Shipments \ Rest(v).stale : Knows(Rest(v), t)
    BY <1>3, <1>5, RestStays, RestFacts
  <2> QED
    BY <1>1, <1>4, <1>6, <2>1, QuietStep DEF TypeOK
<1>7. ASSUME carrier[s] # "none", NEW st \in AnswerStatuses(carrier[s]),
             Becomes(r, [v EXCEPT !.pc = "record", !.s = s, !.st = st])
      PROVE  IInv'
  <2> DEFINE w == [v EXCEPT !.pc = "record", !.s = s, !.st = st]
  <2>1. st \in ShipmentStatus /\ Rank[st] >= Rank["BOOKING_IN_PROGRESS"]
    <3>1. carrier[s] \in ShipmentStatus /\ Rank[carrier[s]] >= Rank["BOOKED"]
      BY <1>7 DEF TypeOK, RowInv
    <3>2. "BOOKING_IN_PROGRESS" \in ShipmentStatus
      BY DEF ShipmentStatus
    <3> QED
      BY <3>1, <3>2, RankFacts DEF AnswerStatuses
  <2>2. /\ w \in Work /\ w.pc = "record" /\ w.s = s /\ w.st = st /\ w.todo = v.todo
        /\ w.stuck = v.stuck /\ w.stale = v.stale
    BY <1>3, <2>1 DEF Work, Phase
  <2>3. row[s].there
    BY <1>7 DEF RowInv
  <2> HIDE DEF v
  <2>4. WorkOK(w) /\ WorkInv(w)
    BY <1>3, <1>5, <2>2, <2>3 DEF WorkOK, WorkInv, Applying
  <2>5. s \notin v.stale => row[s].status = "BOOKING_IN_PROGRESS"
    BY <1>1, <1>3, <1>4, StuckFacts
  <2>6. \A t \in Shipments \ w.stale : Knows(w, t)
    BY <1>5, <2>1, <2>2, <2>5 DEF Knows
  <2>7. Becomes(r, w)
    BY <1>7
  <2> HIDE DEF w
  <2> QED
    BY <1>1, <1>4, <2>2, <2>4, <2>6, <2>7, QuietStep DEF TypeOK
<1> HIDE DEF v
<1> QED
  BY <1>6, <1>7 DEF RecoveryLookup, Known, v

LEMMA RecoveryFailsStep == ASSUME IInv, NEW r \in Recoverers, RecoveryFails(r) PROVE IInv'
<1> USE DEF IInv
<1>1. r \in Actors /\ r \in Overwriters
  BY DEF Actors, Overwriters
<1>2. work[r] \in Work
  BY <1>1 DEF TypeOK
<1>3. PICK S \in SUBSET work[r].stuck :
            Becomes(r, Rest([Idle EXCEPT !.stuck = S, !.stale = work[r].stale]))
  BY DEF RecoveryFails
<1> DEFINE w == [Idle EXCEPT !.stuck = S, !.stale = work[r].stale]
<1>4. w \in Work /\ w.todo = {} /\ w.stuck = S /\ w.stale = work[r].stale
  BY <1>2, IdleType DEF Idle, Work
<1>5. /\ Becomes(r, Rest(w)) /\ UNCHANGED <<external, row, age, log, buffer, acked>> /\ GivesUp(r)
  BY <1>3 DEF RecoveryFails
<1> HIDE DEF w
<1>6. \A t \in w.stuck \ w.stale : row[t].status = "BOOKING_IN_PROGRESS"
  BY <1>1, <1>4, StuckFacts
<1>7. /\ WorkOK(Rest(w)) /\ WorkInv(Rest(w)) /\ Rest(w).pc # "call" /\ Rest(w) \in Work
      /\ \A t \in Shipments \ Rest(w).stale : Knows(Rest(w), t)
  BY <1>4, <1>6, RestStays, RestFacts
<1> QED
  BY <1>1, <1>5, <1>7, GivesUpFacts, QuietStep

LEMMA LabelReadStep ==
    ASSUME IInv, NEW l \in Labels, NEW s \in Shipments, LabelRead(l, s) PROVE IInv'
<1> DEFINE w == [Idle EXCEPT !.pc = "label", !.s = s, !.seen = row[s]]
<1> USE DEF IInv
<1>1. l \in Actors
  BY DEF Actors, Overwriters
<1>2. row[s] \in Row
  BY DEF TypeOK
<1>3. /\ w \in Work /\ w.pc = "label" /\ w.s = s /\ w.seen = row[s] /\ w.todo = {} /\ w.stuck = {}
  BY <1>2, IdleType DEF Idle, Work, Phase
<1>4. /\ Becomes(l, w) /\ work[l].pc = "idle" /\ row[s].there /\ row[s].refs
      /\ UNCHANGED <<external, row, age, log, buffer, acked>> /\ lost' = lost
  BY DEF LabelRead, history
<1> HIDE DEF w
<1>5. WorkOK(w) /\ WorkInv(w)
  BY <1>3, <1>4 DEF WorkOK, WorkInv, Applying
<1>6. \A t \in Shipments : Knows(w, t)
  BY <1>3 DEF Knows
<1> QED
  BY <1>1, <1>3, <1>4, <1>5, <1>6, QuietStep DEF TypeOK

----------------------------------------------------------------------------
(***************************************************************************)
(* The carrier and time: the actors stay where they are.                   *)
(***************************************************************************)

LEMMA CarrierMovesStep ==
    ASSUME IInv, NEW s \in Shipments, CarrierMoves(s) PROVE IInv'
<1> USE DEF IInv, age
<1>1. PICK st \in CarrierStep[carrier[s]] :
            carrier' = [carrier EXCEPT ![s] = st] /\ sent' = sent \cup Tells(s, st)
  BY DEF CarrierMoves
<1>2. carrier[s] # "none" /\ UNCHANGED <<row, age, log, at, done, work, acked, lost>>
  BY DEF CarrierMoves, buffer, history
<1>3. st \in ShipmentStatus /\ Rank[st] >= Rank["BOOKED"]
  BY <1>2, RankFacts DEF TypeOK
<1>4. TypeOK'
  BY <1>1, <1>2, <1>3 DEF TypeOK, WorkOK, Tells, Buffered
<1>5. RowInv'
  BY <1>1, <1>2, <1>3 DEF RowInv, TypeOK, Tells
<1>6. CarrierAskedOnce'
  BY <1>1, <1>2 DEF CarrierAskedOnce, TypeOK
<1>7. WorkersInv' /\ KnowledgeInv' /\ BufferInv' /\ AckedNotLost' /\ ReflectedUnlessLost'
  BY <1>2 DEF WorkersInv, WorkInv, KnowledgeInv, Knows, BufferInv, AckedNotLost, Buffered,
              Pending, ReflectedUnlessLost, InFlight
<1> QED
  BY <1>4, <1>5, <1>6, <1>7

LEMMA AgeStep == ASSUME IInv, NEW s \in Shipments, Age(s) PROVE IInv'
<1> USE DEF IInv, age
<1>1. /\ row[s].there /\ old' = old \cup {s}
      /\ UNCHANGED <<carrier, sent, row, born, log, at, done, work, acked, lost>>
  BY DEF Age, external, buffer, history
<1>2. TypeOK'
  BY <1>1 DEF TypeOK, WorkOK, Buffered
<1>3. RowInv' /\ WorkersInv' /\ KnowledgeInv' /\ BufferInv'
  BY <1>1 DEF RowInv, WorkersInv, WorkInv, KnowledgeInv, Knows, BufferInv, Buffered
<1>4. CarrierAskedOnce' /\ AckedNotLost' /\ ReflectedUnlessLost'
  BY <1>1 DEF CarrierAskedOnce, AckedNotLost, Pending, Buffered, ReflectedUnlessLost, InFlight
<1> QED
  BY <1>2, <1>3, <1>4

----------------------------------------------------------------------------
(***************************************************************************)
(* Buffering and applying an event.                                        *)
(***************************************************************************)

\* The number the event gets is positive because the buffer is finite.
LEMMA WebhookBufferStep ==
    ASSUME IInv, NEW w \in Webhooks, WebhookBuffer(w) PROVE IInv'
<1> USE DEF IInv, age
<1>1. w \in Actors /\ w \notin Overwriters
  BY ShipmentConstants DEF Actors, Overwriters
<1>2. PICK e \in Events : e = work[w].e /\ work[w].pc = "buffer" /\ row[e.s].there
  BY <1>1 DEF WebhookBuffer, TypeOK, WorkOK, WorkersInv, WorkInv
<1>3. /\ at' = IF at[e] = 0 THEN [at EXCEPT ![e] = Cardinality(Buffered) + 1] ELSE at
      /\ acked' = acked \cup {e} /\ Becomes(w, Idle)
      /\ UNCHANGED <<carrier, sent, row, age, log, done, lost>>
  BY <1>2 DEF WebhookBuffer, external
<1>4. Cardinality(Buffered) \in Nat
  BY FS_CardinalityType DEF BufferInv
<1>5. at' \in [Events -> Nat] /\ Buffered' = Buffered \cup {e}
  <2>1. CASE at[e] = 0
    <3>1. at' = [at EXCEPT ![e] = Cardinality(Buffered) + 1]
      BY <1>3, <2>1
    <3>2. Cardinality(Buffered) + 1 \in Nat /\ Cardinality(Buffered) + 1 > 0
      BY <1>4
    <3> HIDE DEF IInv
    <3>3. at \in [Events -> Nat]
      BY DEF TypeOK, IInv
    <3>4. at' \in [Events -> Nat] /\ \A f \in Events : at'[f] > 0 <=> (at[f] > 0 \/ f = e)
      BY <1>2, <3>1, <3>2, <3>3
    <3> QED
      BY <1>2, <3>4 DEF Buffered
  <2>2. CASE at[e] # 0
    BY <1>2, <1>3, <2>2 DEF TypeOK, Buffered
  <2> QED
    BY <2>1, <2>2
<1>6. Goes(w, Idle, {})
  BY <1>1, <1>3, IdleType, BecomesGoes
<1>7. Grows
  BY <1>3 DEF Grows, TypeOK
<1>8. WorkOK(Idle)' /\ WorkInv(Idle)'
  BY <1>3, IdleFacts DEF WorkOK, WorkInv
<1>9. (\A x \in Actors : WorkOK(work[x]))' /\ WorkersInv'
  BY <1>1, <1>6, <1>7, <1>8, ActorStep, IdleType
<1>10. TypeOK'
  BY <1>2, <1>3, <1>5, <1>6, <1>9 DEF TypeOK, Goes
<1>11. KnowledgeInv'
  BY <1>1, <1>3, <1>6, IdleType, KnowledgeStep
<1>12. BufferInv' /\ AckedNotLost'
  <2>1. IsFiniteSet(Buffered)'
    BY <1>5, FS_AddElement DEF BufferInv
  <2> QED
    BY <1>2, <1>3, <1>5, <2>1 DEF BufferInv, AckedNotLost, Pending
<1>13. RowInv'
  BY <1>3 DEF RowInv
<1>14. CarrierAskedOnce'
  BY <1>1, <1>3, <1>6, AskedStep, IdleType, IdleFacts
<1>15. ReflectedUnlessLost'
  <2> SUFFICES ASSUME NEW f \in Events, log[f] # "none", f \notin lost,
                      ~(Rank[row[f.s].status] >= Rank[log[f]])
               PROVE  InFlight(f)'
    BY <1>3 DEF ReflectedUnlessLost
  <2>1. InFlight(f)
    BY DEF ReflectedUnlessLost
  <2> QED
    BY <1>1, <1>2, <1>3, <1>6, <2>1, InFlightStep, IdleType
<1> QED
  BY <1>9, <1>10, <1>11, <1>12, <1>13, <1>14, <1>15

\* The status of an event that is recorded now is in the actor's hands.
LEMMA AppendEventStep ==
    ASSUME IInv, NEW a \in Actors, AppendEvent(a) PROVE IInv'
<1> USE DEF IInv, age
<1>1. work[a] \in Work /\ WorkOK(work[a]) /\ WorkInv(work[a]) /\ work[a].pc = "append"
  BY DEF AppendEvent, TypeOK, WorkersInv
<1>2. PICK e \in Events : e = work[a].e /\ work[a].s = e.s /\ row[e.s].there
  BY <1>1 DEF WorkOK, Applying
<1>3. PICK w \in Work :
        /\ w = [work[a] EXCEPT !.pc = "status"]
        /\ w.pc = "status" /\ w.e = e /\ w.s = work[a].s /\ w.st = work[a].st
        /\ w.todo = work[a].todo /\ w.stuck = work[a].stuck /\ w.stale = work[a].stale
  <2>1. [work[a] EXCEPT !.pc = "status"] \in Work
    BY <1>1 DEF Work, Phase, Applying
  <2> QED
    BY <1>1, <1>2, <2>1 DEF Work
<1>4. /\ log' = IF log[e] = "none" THEN [log EXCEPT ![e] = work[a].st] ELSE log
      /\ Becomes(a, w) /\ UNCHANGED <<carrier, sent, row, age, at, done, acked, lost>>
  BY <1>2, <1>3 DEF AppendEvent, external, buffer, history
<1>5. work[a].st \in ShipmentStatus /\ "none" \notin ShipmentStatus
  BY <1>1 DEF Work, ShipmentStatus
<1>6. /\ log' \in [Events -> ShipmentStatus \cup {"none"}] /\ log'[e] # "none"
      /\ \A f \in Events : log[f] # "none" => log'[f] = log[f]
      /\ \A f \in Events \ {e} : log'[f] = log[f]
      /\ log[e] = "none" => log'[e] = work[a].st
  BY <1>2, <1>4, <1>5 DEF TypeOK
<1>7. Goes(a, w, {})
  BY <1>3, <1>4, BecomesGoes
<1>8. Grows
  BY <1>4, <1>6 DEF Grows, TypeOK
<1>9. WorkOK(w)' /\ WorkInv(w)'
  BY <1>1, <1>2, <1>3, <1>4, <1>6 DEF WorkOK, WorkInv, Applying
<1>10. (\A x \in Actors : WorkOK(work[x]))' /\ WorkersInv'
  BY <1>3, <1>7, <1>8, <1>9, ActorStep
<1>11. TypeOK'
  BY <1>4, <1>6, <1>7, <1>10 DEF TypeOK, Goes
<1>12. KnowledgeInv'
  <2>1. a \in Overwriters => \A s \in Shipments \ w.stale : Knows(w, s)'
    BY <1>3, <1>4, StuckFacts DEF Knows
  <2> QED
    BY <1>3, <1>4, <1>7, <2>1, KnowledgeStep
<1>13. RowInv' /\ BufferInv' /\ AckedNotLost'
  BY <1>4, <1>6 DEF RowInv, BufferInv, AckedNotLost, Buffered, Pending, TypeOK
<1>14. CarrierAskedOnce'
  BY <1>3, <1>4, <1>7, AskedStep
<1>15. ASSUME NEW f \in Events, log'[f] # "none", f \notin lost,
              ~(Rank[row[f.s].status] >= Rank[log'[f]])
       PROVE  InFlight(f)'
  <2>1. CASE log[f] = "none"
    <3>1. f = e /\ log'[e] = work[a].st
      BY <1>6, <1>15, <2>1
    <3>2. work'[a].pc = "status" /\ work'[a].e = e /\ work'[a].st = work[a].st
      BY <1>3, <1>7 DEF Goes
    <3>3. Rank[work'[a].st] >= Rank[log'[e]]
      BY <1>5, <3>1, <3>2, RankFacts
    <3> QED
      BY <3>1, <3>2, <3>3 DEF InFlight
  <2>2. CASE log[f] # "none"
    <3>1. log'[f] = log[f]
      BY <1>6, <2>2
    <3>2. InFlight(f)
      BY <1>15, <2>2, <3>1 DEF ReflectedUnlessLost
    <3> QED
      BY <1>1, <1>3, <1>7, <3>1, <3>2, InFlightStep
  <2> QED
    BY <2>1, <2>2
<1>16. ReflectedUnlessLost'
  BY <1>4, <1>15 DEF ReflectedUnlessLost
<1> QED
  BY <1>10, <1>11, <1>12, <1>13, <1>14, <1>16

\* An actor that is through with its event goes on from a consistent record.
LEMMA SettledFacts ==
    ASSUME TypeOK, WorkersInv, KnowledgeInv, NEW a \in Actors, work[a].pc \in {"status", "cas"}
    PROVE  /\ Settled(a) \in Work /\ Settled(a).pc \in {"idle", "mark"}
           /\ WorkOK(Settled(a)) /\ WorkInv(Settled(a))
           /\ Settled(a).stuck \subseteq work[a].stuck
           /\ \A s \in Settled(a).stuck : s \notin Settled(a).stale => s \notin work[a].stale
           /\ a \in Overwriters => \A s \in Shipments \ Settled(a).stale : Knows(Settled(a), s)
<1>1. work[a] \in Work /\ WorkOK(work[a]) /\ WorkInv(work[a])
  BY DEF TypeOK, WorkersInv
<1>2. CASE a \in Webhooks
  <2>1. Settled(a) = Idle
    BY <1>2 DEF Settled
  <2> QED
    BY <2>1, IdleType, IdleFacts DEF Idle
<1>3. CASE a \notin Webhooks
  <2> DEFINE w == Settled(a)
  <2>1. w = [work[a] EXCEPT !.pc = "mark", !.seen = NoRow]
    BY <1>3 DEF Settled
  <2>2. /\ w \in Work /\ w.pc = "mark" /\ w.s = work[a].s /\ w.e = work[a].e /\ w.st = work[a].st
        /\ w.todo = work[a].todo /\ w.stuck = work[a].stuck /\ w.stale = work[a].stale
    BY <1>1, <2>1, IdleType DEF Work, Phase, Applying
  <2> HIDE DEF w
  <2>3. WorkOK(w) /\ WorkInv(w)
    BY <1>1, <2>2 DEF WorkOK, WorkInv, Applying
  <2>4. a \in Overwriters => \A s \in Shipments \ w.stale : Knows(w, s)
    BY <2>2, StuckFacts DEF Knows
  <2> QED
    BY <2>2, <2>3, <2>4 DEF w
<1> QED
  BY <1>2, <1>3

LEMMA ReadStatusStep ==
    ASSUME IInv, NEW a \in Actors, ReadStatus(a) PROVE IInv'
<1> DEFINE r == row[work[a].s]
           w == [work[a] EXCEPT !.pc = "cas", !.seen = r]
<1> USE DEF IInv
<1>1. work[a] \in Work /\ WorkOK(work[a]) /\ WorkInv(work[a]) /\ work[a].pc = "status"
  BY DEF ReadStatus, TypeOK, WorkersInv
<1>2. work[a].e \in Events /\ work[a].s = work[a].e.s /\ r.there /\ r \in Row
  BY <1>1, ShipmentConstants DEF WorkOK, Applying, TypeOK
<1>3. r.status \in ShipmentStatus /\ work[a].st \in ShipmentStatus
  BY <1>1, <1>2 DEF Row, Work
<1>4. UNCHANGED <<external, row, age, log, buffer>> /\ lost' = lost
  BY DEF ReadStatus
<1>5. lost \subseteq lost' /\ lost' \subseteq Events
  BY <1>4 DEF TypeOK
<1>6. CASE Rank[work[a].st] <= Rank[r.status]
  <2>1. Becomes(a, Settled(a)) /\ Answer(a)
    BY <1>6 DEF ReadStatus
  <2>2. acked' = acked \/ acked' = acked \cup {work[a].e}
    BY <2>1 DEF Answer
  <2>3. Rank[r.status] >= Rank[work[a].st]
    BY <1>3, <1>6, RankFacts
  <2>4. Settled(a).pc # "call"
    BY <1>1, SettledFacts
  <2> QED
    BY <1>1, <1>4, <1>5, <2>1, <2>2, <2>3, <2>4, SettledFacts, QuietStep
<1>7. CASE ~(Rank[work[a].st] <= Rank[r.status])
  <2>1. Becomes(a, w) /\ acked' = acked
    BY <1>7 DEF ReadStatus
  <2>2. /\ w \in Work /\ w.pc = "cas" /\ w.e = work[a].e /\ w.s = work[a].s /\ w.st = work[a].st
        /\ w.seen = r /\ w.todo = work[a].todo /\ w.stuck = work[a].stuck /\ w.stale = work[a].stale
    BY <1>1, <1>2 DEF Work, Phase, Applying
  <2>3. Rank[work[a].st] > Rank[r.status]
    BY <1>3, <1>7, RankFacts
  <2> HIDE DEF w, r
  <2>4. WorkOK(w) /\ WorkInv(w)
    BY <1>1, <1>2, <2>2, <2>3 DEF WorkOK, WorkInv, Applying
  <2>5. a \in Overwriters => \A s \in Shipments \ w.stale : Knows(w, s)
    BY <2>2, StuckFacts DEF Knows
  <2> QED
    BY <1>1, <1>4, <1>5, <2>1, <2>2, <2>4, <2>5, QuietStep
<1> QED
  BY <1>6, <1>7

\* A marked event is a recorded one.
LEMMA MarkProcessedStep ==
    ASSUME IInv, NEW a \in Overwriters \cup Replayers, MarkProcessed(a) PROVE IInv'
<1> USE DEF IInv, age
<1>1. a \in Actors
  BY DEF Actors
<1>2. PICK v \in Work : v = work[a] /\ WorkOK(v) /\ WorkInv(v) /\ v.pc = "mark"
  BY <1>1 DEF MarkProcessed, TypeOK, WorkersInv
<1>3. v.e \in Events /\ log[v.e] # "none"
  BY <1>2 DEF WorkOK, WorkInv, Applying
<1>4. /\ done' = done \cup {v.e} /\ Becomes(a, Rest(v))
      /\ UNCHANGED <<carrier, sent, row, age, log, at, acked, lost>>
  BY <1>2 DEF MarkProcessed, external, history
<1>5. PICK w \in Work : w = Rest(v)
  BY RestFacts
<1>6. WorkOK(w) /\ w.pc \notin {"call", "status", "cas"}
  BY <1>5, RestFacts DEF WorkOK, Applying
<1>7. WorkInv(w)
  BY <1>2, <1>5, RestFacts, ShipmentConstants DEF WorkInv, Work
<1>8. a \in Overwriters => \A s \in Shipments \ w.stale : Knows(w, s)
  BY <1>2, <1>5, RestFacts, StuckFacts DEF Knows
<1>9. Goes(a, w, {}) /\ Grows
  BY <1>1, <1>4, <1>5, BecomesGoes DEF Grows, TypeOK
<1>10. WorkOK(w)' /\ WorkInv(w)' /\ (a \in Overwriters => \A s \in Shipments \ w.stale : Knows(w, s)')
  BY <1>4, <1>6, <1>7, <1>8 DEF WorkOK, WorkInv, Knows
<1>11. (\A x \in Actors : WorkOK(work[x]))' /\ WorkersInv'
  BY <1>1, <1>9, <1>10, ActorStep
<1>12. TypeOK'
  BY <1>3, <1>4, <1>9, <1>11 DEF TypeOK, Goes
<1>13. KnowledgeInv'
  BY <1>1, <1>4, <1>9, <1>10, KnowledgeStep
<1>14. RowInv' /\ BufferInv' /\ AckedNotLost'
  BY <1>3, <1>4 DEF RowInv, BufferInv, AckedNotLost, Buffered, Pending
<1>15. CarrierAskedOnce'
  BY <1>1, <1>4, <1>6, <1>9, AskedStep
<1>16. ReflectedUnlessLost'
  <2> SUFFICES ASSUME NEW f \in Events, log[f] # "none", f \notin lost,
                      ~(Rank[row[f.s].status] >= Rank[log[f]])
               PROVE  InFlight(f)'
    BY <1>4 DEF ReflectedUnlessLost
  <2>1. InFlight(f)
    BY DEF ReflectedUnlessLost
  <2> QED
    BY <1>1, <1>2, <1>4, <1>9, <2>1, InFlightStep
<1> QED
  BY <1>11, <1>12, <1>13, <1>14, <1>15, <1>16

----------------------------------------------------------------------------
(***************************************************************************)
(* Steps that write a row.                                                 *)
(***************************************************************************)

\* A write keeps the invariant if the row it leaves is no older than its recorded
\* events, or than it was, or the events are counted as lost.
LEMMA WriteStep ==
    ASSUME IInv, NEW a \in Actors, NEW s \in Shipments, NEW r \in Row, NEW v \in Work,
           NEW w \in Work, w = [v EXCEPT !.stale = @ \ {s}],
           Write(a, s, r, v), UNCHANGED <<external, old, log, buffer>>,
           born' \in [Shipments -> Nat],
           \/ acked' = acked
           \/ work[a].pc \in {"status", "cas"} /\ acked' = acked \cup {work[a].e},
           lost \subseteq lost', lost' \subseteq Events,
           r.there, WorkOK(w)', WorkInv(w)',
           a \in Overwriters => \A t \in Shipments \ w.stale : Knows(w, t)',
           CarrierAskedOnce',
           work[a].pc \in {"status", "cas"} =>
                work[a].s = s /\ Rank[r.status] >= Rank[work[a].st],
           \A e \in Events : e.s = s /\ log[e] # "none" =>
                \/ e \in lost'
                \/ Rank[r.status] >= Rank[log[e]]
                \/ Rank[r.status] >= Rank[row[s].status]
    PROVE  IInv'
<1> USE DEF IInv, external, buffer, age
<1>1. /\ Goes(a, w, {s}) /\ row' = [row EXCEPT ![s] = r] /\ row' \in [Shipments -> Row]
      /\ \A x \in Overwriters \ {a} : Holds(work[x], s) => s \in work'[x].stale
  BY WriteFacts DEF Goes, Actors
<1>2. Grows
  BY <1>1 DEF Grows, TypeOK
<1>3. (\A x \in Actors : WorkOK(work[x]))' /\ WorkersInv'
  BY <1>1, <1>2, ActorStep
<1>4. work[a].pc \in {"status", "cas"} =>
            work[a].e \in Events /\ work[a].s = work[a].e.s /\ log[work[a].e] # "none"
  BY DEF TypeOK, WorkOK, Applying, WorkersInv, WorkInv
<1>5. TypeOK'
  BY <1>1, <1>2, <1>3, <1>4 DEF TypeOK, Goes, Grows
<1>6. KnowledgeInv'
  <2>1. ASSUME NEW x \in Overwriters \ {a}, NEW t \in Shipments
        PROVE  row'[t] = row[t] \/ ~Holds(work[x], t) \/ t \in work'[x].stale
    BY <1>1 DEF TypeOK
  <2> QED
    BY <1>1, <2>1, KnowledgeStep
<1>7. RowInv' /\ BufferInv' /\ AckedNotLost'
  BY <1>1, <1>2, <1>4, ShipmentConstants
     DEF RowInv, BufferInv, AckedNotLost, Buffered, Pending, Grows, TypeOK
<1>8. ASSUME NEW e \in Events, log[e] # "none", e \notin lost',
             ~(Rank[row'[e.s].status] >= Rank[log[e]])
      PROVE  InFlight(e)'
  <2>1. e.s \in Shipments /\ log[e] \in ShipmentStatus /\ row[e.s].status \in ShipmentStatus
        /\ r.status \in ShipmentStatus
    BY <1>8, ShipmentConstants DEF TypeOK, Row
  <2>2. row'[e.s] = IF e.s = s THEN r ELSE row[e.s]
    BY <1>1, <2>1 DEF TypeOK
  <2>3. ~(Rank[row[e.s].status] >= Rank[log[e]])
    BY <1>8, <2>1, <2>2, RankFacts
  <2>4. PICK x \in Actors : /\ work[x].pc \in {"status", "cas"} /\ work[x].e = e
                            /\ Rank[work[x].st] >= Rank[log[e]]
    BY <1>8, <2>3 DEF ReflectedUnlessLost, InFlight
  <2>5. x # a
    <3>1. work[x].st \in ShipmentStatus
      BY ActorFacts DEF Work
    <3> QED
      BY <1>4, <1>8, <2>1, <2>2, <2>4, <3>1, RankFacts
  <2>6. work'[x].pc \in {"status", "cas"} /\ work'[x].e = e /\ work'[x].st = work[x].st
    BY <1>1, <2>4, <2>5 DEF Goes, TypeOK, Work
  <2> QED
    BY <2>4, <2>6 DEF InFlight
<1>9. ReflectedUnlessLost'
  BY <1>8 DEF ReflectedUnlessLost
<1> QED
  BY <1>3, <1>5, <1>6, <1>7, <1>9

\* A draft is inserted only where there is none, so the request that inserts it is
\* the only one to ask the carrier.
LEMMA BookInsertStep == ASSUME IInv, NEW b \in Bookers, BookInsert(b) PROVE IInv'
<1> USE DEF IInv
<1>1. b \in Actors /\ b \in Overwriters
  BY DEF Actors, Overwriters
<1>2. PICK u \in Work : u = work[b] /\ WorkOK(u) /\ WorkInv(u) /\ u.pc = "insert"
  BY <1>1 DEF BookInsert, TypeOK, WorkersInv
<1>3. PICK s \in Shipments : s = u.s /\ ~row[s].there
  BY <1>2 DEF BookInsert, WorkOK
<1>4. PICK v \in Work : v = [u EXCEPT !.pc = "call"]
  BY <1>2 DEF Work, Phase
<1>5. PICK w \in Work : w = [v EXCEPT !.stale = @ \ {s}]
  BY DEF Work
<1>6. /\ w.pc = "call" /\ w.s = s /\ w.todo = u.todo /\ w.stuck = u.stuck
      /\ w.stale = u.stale \ {s}
  BY <1>3, <1>4, <1>5 DEF Work
<1>7. /\ Write(b, s, DraftRow, v) /\ UNCHANGED <<external, old, log, buffer>>
      /\ acked' = acked /\ lost' = lost
      /\ born' = [born EXCEPT ![s] = Cardinality(Created) + 1]
  BY <1>2, <1>3, <1>4 DEF BookInsert, history
<1>8. /\ row' = [row EXCEPT ![s] = DraftRow] /\ row' \in [Shipments -> Row]
      /\ Goes(b, w, {s})
  BY <1>1, <1>5, <1>7, WriteFacts, IdleType DEF Goes
<1>9. \A t \in Shipments : row[t].there => row'[t] = row[t]
  BY <1>3, <1>8 DEF TypeOK
<1>10. row'[s] = DraftRow
  BY <1>8 DEF TypeOK
<1>11. DraftRow.there /\ DraftRow.status = "BOOKING_IN_PROGRESS"
  BY DEF DraftRow
<1>12. WorkOK(w)' /\ WorkInv(w)'
  BY <1>2, <1>3, <1>6, <1>9, <1>10, <1>11, ShipmentConstants DEF WorkOK, WorkInv, Applying, Work
<1>13. \A t \in Shipments \ w.stale : Knows(w, t)'
  <2> SUFFICES ASSUME NEW t \in Shipments \ w.stale PROVE Knows(w, t)'
    OBVIOUS
  <2>1. CASE t = s
    BY <1>6, <1>10, <1>11, <2>1 DEF Knows
  <2>2. CASE t # s
    <3>1. row'[t] = row[t]
      BY <1>8, <2>2 DEF TypeOK
    <3>2. t \in w.stuck => row[t].status = "BOOKING_IN_PROGRESS"
      BY <1>1, <1>2, <1>6, <2>2, StuckFacts
    <3> QED
      BY <1>6, <2>2, <3>1, <3>2 DEF Knows
  <2> QED
    BY <2>1, <2>2
<1>14. CarrierAskedOnce'
  <2>1. carrier[s] = "none"
    BY <1>3 DEF RowInv
  <2>2. ASSUME NEW c \in Bookers \ {b}, work'[c].pc = "call"
        PROVE  work[c].pc = "call" /\ work'[c].s = work[c].s /\ work[c].s # s
    <3>1. c \in Actors \ {b}
      BY DEF Actors, Overwriters
    <3>2. work[c].pc = "call" /\ work'[c].s = work[c].s
      BY <1>8, <2>2, <3>1 DEF Goes, TypeOK, Work
    <3>3. row[work[c].s].there
      BY <3>1, <3>2, ActorFacts DEF WorkOK
    <3> QED
      BY <1>3, <3>2, <3>3
  <2>3. work'[b].pc = "call" /\ work'[b].s = s /\ carrier' = carrier
    BY <1>6, <1>7, <1>8 DEF Goes, external
  <2> QED
    BY <2>1, <2>2, <2>3 DEF CarrierAskedOnce
<1>15. Rank[DraftRow.status] >= Rank[row[s].status]
  <2>1. row[s].status = "DRAFT"
    BY <1>3 DEF RowInv, NoRow
  <2> QED
    BY <1>11, <2>1, RankFacts
<1>16. lost \subseteq lost' /\ lost' \subseteq Events
  BY <1>7 DEF TypeOK
<1>17. work[b].pc \notin {"status", "cas"}
  BY <1>2
<1>18. born' \in [Shipments -> Nat]
  <2>1. Cardinality(Created) \in Nat
    BY ShipmentConstants, FS_Subset, FS_CardinalityType DEF Created
  <2> QED
    BY <1>7, <2>1 DEF TypeOK
<1> QED
  BY <1>1, <1>5, <1>7, <1>11, <1>12, <1>13, <1>14, <1>15, <1>16, <1>17, <1>18, IdleType, WriteStep

LEMMA BookCallStep == ASSUME IInv, NEW b \in Bookers, BookCall(b) PROVE IInv'
<1> USE DEF IInv, age
<1>1. b \in Actors /\ b \in Overwriters
  BY DEF Actors, Overwriters
<1>2. PICK u \in Work : u = work[b] /\ WorkOK(u) /\ WorkInv(u) /\ u.pc = "call"
  BY <1>1 DEF BookCall, TypeOK, WorkersInv
<1>3. PICK s \in Shipments : s = u.s /\ row[s].there
  BY <1>2 DEF WorkOK
<1>4. /\ carrier' = [carrier EXCEPT ![s] = "BOOKED"] /\ sent' = sent \cup Tells(s, "BOOKED")
      /\ UNCHANGED <<row, age, log, at, done, acked, lost>>
  BY <1>2, <1>3 DEF BookCall, buffer
<1>5. PICK w \in Work : /\ Becomes(b, w) /\ WorkOK(w) /\ WorkInv(w)
                        /\ w.pc \notin {"call", "status", "cas"}
                        /\ \A t \in Shipments \ w.stale : Knows(w, t)
  <2>1. CASE Becomes(b, Idle)
    BY <2>1, IdleType, IdleFacts
  <2>2. ASSUME NEW st \in AnswerStatuses("BOOKED"),
               Becomes(b, [u EXCEPT !.pc = "record", !.st = st])
        PROVE  \E w \in Work : /\ Becomes(b, w) /\ WorkOK(w) /\ WorkInv(w)
                               /\ w.pc \notin {"call", "status", "cas"}
                               /\ \A t \in Shipments \ w.stale : Knows(w, t)
    <3>1. st \in ShipmentStatus /\ Rank[st] >= Rank["BOOKING_IN_PROGRESS"]
      BY RankFacts DEF AnswerStatuses, ShipmentStatus
    <3>2. PICK w \in Work :
            /\ w = [u EXCEPT !.pc = "record", !.st = st] /\ w.pc = "record" /\ w.s = s /\ w.st = st
            /\ w.todo = u.todo /\ w.stuck = u.stuck /\ w.stale = u.stale
      <4>1. [u EXCEPT !.pc = "record", !.st = st] \in Work
        BY <3>1 DEF Work, Phase
      <4> QED
        BY <1>3, <4>1 DEF Work
    <3>3. WorkOK(w) /\ WorkInv(w)
      BY <1>2, <1>3, <3>2 DEF WorkOK, WorkInv, Applying
    <3>4. s \notin u.stale => row[s].status = "BOOKING_IN_PROGRESS"
      BY <1>1, <1>2, <1>3 DEF KnowledgeInv, Knows
    <3>5. \A t \in Shipments \ w.stale : Knows(w, t)
      BY <1>1, <1>2, <3>1, <3>2, <3>4, StuckFacts DEF Knows
    <3> QED
      BY <2>2, <3>2, <3>3, <3>5
  <2> QED
    BY <1>2, <2>1, <2>2 DEF BookCall
<1>6. Goes(b, w, {}) /\ Grows
  BY <1>1, <1>4, <1>5, BecomesGoes DEF Grows, TypeOK
<1>7. WorkOK(w)' /\ WorkInv(w)' /\ \A t \in Shipments \ w.stale : Knows(w, t)'
  BY <1>4, <1>5 DEF WorkOK, WorkInv, Knows
<1>8. (\A x \in Actors : WorkOK(work[x]))' /\ WorkersInv'
  BY <1>1, <1>6, <1>7, ActorStep
<1>9. TypeOK'
  BY <1>4, <1>6, <1>8 DEF TypeOK, Goes, Tells, ShipmentStatus
<1>10. KnowledgeInv'
  BY <1>1, <1>4, <1>6, <1>7, KnowledgeStep
<1>11. RowInv'
  <2>1. "BOOKED" # "none" /\ Rank["BOOKED"] >= Rank["BOOKED"]
    BY RankFacts
  <2> QED
    BY <1>3, <1>4, <2>1 DEF RowInv, TypeOK, Tells
<1>12. BufferInv' /\ AckedNotLost'
  BY <1>4 DEF BufferInv, AckedNotLost, Buffered, Pending
<1>13. CarrierAskedOnce'
  <2>1. ASSUME NEW c \in Bookers \ {b}, work[c].pc = "call"
        PROVE  carrier'[work[c].s] = carrier[work[c].s]
    <3>1. work[c].s # s /\ work[c].s \in Shipments
      BY <1>2, <1>3, <2>1, ActorFacts DEF CarrierAskedOnce, WorkOK, Actors, Overwriters
    <3> QED
      BY <1>4, <3>1 DEF TypeOK
  <2> QED
    BY <1>1, <1>5, <1>6, <2>1, AskedStep
<1>14. ReflectedUnlessLost'
  <2> SUFFICES ASSUME NEW f \in Events, log[f] # "none", f \notin lost,
                      ~(Rank[row[f.s].status] >= Rank[log[f]])
               PROVE  InFlight(f)'
    BY <1>4 DEF ReflectedUnlessLost
  <2>1. InFlight(f)
    BY DEF ReflectedUnlessLost
  <2> QED
    BY <1>1, <1>2, <1>4, <1>6, <2>1, InFlightStep
<1> QED
  BY <1>8, <1>9, <1>10, <1>11, <1>12, <1>13, <1>14

\* An overwritten row loses only what is counted as lost.
LEMMA OverwriteStep ==
    ASSUME IInv, NEW a \in Overwriters, NEW s \in Shipments, NEW r \in Row, NEW v \in Work,
           NEW w \in Work, w = [v EXCEPT !.stale = @ \ {s}],
           Overwrite(a, s, r, v), UNCHANGED <<external, age, log, buffer>>,
           r.there, WorkOK(w)', WorkInv(w)', w.pc # "call",
           \A t \in Shipments \ w.stale : Knows(w, t)',
           work[a].pc \notin {"status", "cas"}
    PROVE  IInv'
<1> USE DEF IInv, age
<1>1. a \in Actors /\ Write(a, s, r, v) /\ acked' = acked
  BY DEF Actors, Overwrite
<1>2. lost' = lost \cup {e \in Recorded(s) : Rank[log[e]] > Rank[r.status]}
  BY DEF Overwrite
<1>3. lost \subseteq lost' /\ lost' \subseteq Events
  BY <1>2 DEF Recorded, TypeOK
<1>4. ASSUME NEW e \in Events, e.s = s, log[e] # "none", ~(Rank[r.status] >= Rank[log[e]])
      PROVE  e \in lost'
  <2>1. r.status \in ShipmentStatus /\ log[e] \in ShipmentStatus
    BY <1>4 DEF Row, TypeOK
  <2> QED
    BY <1>2, <1>4, <2>1, RankFacts DEF Recorded
<1>5. Goes(a, w, {s})
  BY <1>1, WriteGoes
<1>6. CarrierAskedOnce'
  BY <1>1, <1>5, AskedStep DEF external
<1>7. UNCHANGED <<external, old, log, buffer>> /\ born' \in [Shipments -> Nat]
  BY DEF TypeOK
<1> QED
  BY <1>1, <1>3, <1>4, <1>6, <1>7, WriteStep

LEMMA RecordStep == ASSUME IInv, NEW a \in Overwriters, Record(a) PROVE IInv'
<1> USE DEF IInv
<1>1. a \in Actors
  BY DEF Actors
<1>2. PICK u \in Work : u = work[a] /\ WorkOK(u) /\ WorkInv(u) /\ u.pc = "record"
  BY <1>1 DEF Record, TypeOK, WorkersInv
<1>3. PICK s \in Shipments : s = u.s
  BY <1>2 DEF WorkOK
<1>4. PICK r \in Row : r = [there |-> TRUE, status |-> u.st, refs |-> TRUE]
  BY DEF Row, Work
<1>5. PICK v \in Work : v = [u EXCEPT !.pc = "list", !.st = Idle.st]
  BY IdleType DEF Work, Phase
<1>6. PICK w \in Work : w = [v EXCEPT !.stale = @ \ {s}]
  BY DEF Work
<1>7. /\ w.pc = "list" /\ w.s = s /\ w.todo = u.todo /\ w.stuck = u.stuck
      /\ w.stale = u.stale \ {s}
  BY <1>3, <1>5, <1>6 DEF Work
<1>8. Overwrite(a, s, r, v) /\ UNCHANGED <<external, age, log, buffer>>
  BY <1>2, <1>3, <1>4, <1>5 DEF Record
<1>9. row' = [row EXCEPT ![s] = r] /\ r.there
  BY <1>4, <1>8 DEF Overwrite, Write
<1>10. \A t \in Shipments : row[t].there => row'[t].there
  BY <1>9 DEF TypeOK
<1>11. WorkOK(w)' /\ WorkInv(w)'
  BY <1>2, <1>3, <1>7, <1>9, <1>10, ShipmentConstants
     DEF WorkOK, WorkInv, Applying, Work, TypeOK
<1>12. \A t \in Shipments \ w.stale : Knows(w, t)'
  <2> SUFFICES ASSUME NEW t \in Shipments \ w.stale, t \in w.stuck
               PROVE  row'[t].status = "BOOKING_IN_PROGRESS"
    BY <1>7 DEF Knows
  <2>1. t # s
    BY <1>2, <1>3, <1>7 DEF WorkInv
  <2>2. row[t].status = "BOOKING_IN_PROGRESS"
    BY <1>2, <1>7, <2>1, StuckFacts
  <2> QED
    BY <1>9, <2>1, <2>2 DEF TypeOK
<1> QED
  BY <1>2, <1>6, <1>7, <1>8, <1>9, <1>11, <1>12, OverwriteStep

LEMMA LabelWriteStep == ASSUME IInv, NEW l \in Labels, LabelWrite(l) PROVE IInv'
<1> USE DEF IInv
<1>1. l \in Actors /\ l \in Overwriters
  BY DEF Actors, Overwriters
<1>2. PICK u \in Work : u = work[l] /\ WorkOK(u) /\ WorkInv(u) /\ u.pc = "label"
  BY <1>1 DEF LabelWrite, TypeOK, WorkersInv
<1>3. PICK s \in Shipments, r \in Row : s = u.s /\ r = u.seen /\ r.there
  BY <1>2 DEF WorkOK, WorkInv, Work
<1>4. Overwrite(l, s, r, Idle) /\ UNCHANGED <<external, age, log, buffer>>
  BY <1>2, <1>3 DEF LabelWrite
<1>5. Idle = [Idle EXCEPT !.stale = @ \ {s}] /\ Idle.pc = "idle"
  BY DEF Idle
<1>6. WorkOK(Idle)' /\ WorkInv(Idle)' /\ \A t \in Shipments : Knows(Idle, t)'
  BY IdleType DEF WorkOK, WorkInv, Knows, Idle, Applying
<1> QED
  BY <1>1, <1>2, <1>3, <1>4, <1>5, <1>6, IdleType, OverwriteStep

\* The guarded update: either the row is still where it was read and moves on, or the
\* event is counted as lost.
LEMMA CasStep == ASSUME IInv, NEW a \in Actors, Cas(a) PROVE IInv'
<1> USE DEF IInv, age
<1>1. PICK u \in Work : u = work[a] /\ WorkOK(u) /\ WorkInv(u) /\ u.pc = "cas"
  BY DEF Cas, TypeOK, WorkersInv
<1>2. PICK s \in Shipments : s = u.s /\ row[s].there /\ u.e \in Events
  BY <1>1, ShipmentConstants DEF WorkOK, Applying
<1>3. PICK v \in Work : v = Settled(a)
  BY <1>1, SettledFacts
<1>4. /\ WorkOK(v) /\ WorkInv(v) /\ v.pc \in {"idle", "mark"}
      /\ a \in Overwriters => \A t \in Shipments \ v.stale : Knows(v, t)
  BY <1>1, <1>3, SettledFacts
<1>5. UNCHANGED <<external, age, log, buffer>> /\ (acked' = acked \/ acked' = acked \cup {u.e})
  BY <1>1 DEF Cas, Answer
<1>6. CASE row[s].status # u.seen.status
  <2>1. Becomes(a, v) /\ row' = row /\ lost' = lost \cup {u.e}
    BY <1>1, <1>2, <1>3, <1>6 DEF Cas
  <2>2. lost \subseteq lost' /\ lost' \subseteq Events
    BY <1>2, <2>1 DEF TypeOK
  <2> QED
    BY <1>1, <1>4, <1>5, <2>1, <2>2, QuietStep
<1>7. CASE row[s].status = u.seen.status
  <2>1. PICK r \in Row : r = [row[s] EXCEPT !.status = u.st]
    BY DEF TypeOK, Row, Work
  <2>2. Write(a, s, r, v) /\ lost' = lost
    BY <1>1, <1>2, <1>3, <1>7, <2>1 DEF Cas
  <2>3. PICK w \in Work : w = [v EXCEPT !.stale = @ \ {s}]
    BY DEF Work
  <2>4. /\ w.pc = v.pc /\ w.s = v.s /\ w.e = v.e /\ w.todo = v.todo /\ w.stuck = v.stuck
        /\ w.stale = v.stale \ {s}
    BY <2>3 DEF Work
  <2>5. row[s] \in Row /\ r.there /\ r.status = u.st
    BY <1>2, <2>1 DEF TypeOK, Row
  <2>6. row' = [row EXCEPT ![s] = r] /\ \A t \in Shipments : row[t].there => row'[t].there
    BY <2>2, <2>5 DEF Write, TypeOK
  <2>7. WorkOK(w)' /\ WorkInv(w)'
    <3>1. WorkOK(w)'
      BY <1>4, <2>4, <2>6, ShipmentConstants DEF WorkOK, Applying
    <3>2. w.todo \subseteq Events /\ log' = log
      BY <1>5 DEF Work
    <3> QED
      BY <1>4, <2>4, <2>6, <3>1, <3>2, ShipmentConstants DEF WorkInv
  <2>8. a \in Overwriters => \A t \in Shipments \ w.stale : Knows(w, t)'
    <3> SUFFICES ASSUME a \in Overwriters, NEW t \in Shipments \ w.stale, t \in w.stuck
                 PROVE  row'[t].status = "BOOKING_IN_PROGRESS"
      BY <1>1, <1>3, <2>4, SettledFacts DEF Knows
    <3>1. t \in u.stuck /\ t # s
      BY <1>1, <1>2, <1>3, <2>4, SettledFacts DEF WorkInv
    <3>2. t \notin u.stale
      BY <1>1, <1>3, <2>4, <3>1, SettledFacts
    <3>3. row[t].status = "BOOKING_IN_PROGRESS"
      BY <1>1, <3>1, <3>2, StuckFacts
    <3> QED
      BY <2>6, <3>1, <3>3 DEF TypeOK
  <2>9. Rank[r.status] >= Rank[u.st] /\ Rank[r.status] >= Rank[row[s].status]
    <3>1. u.st \in ShipmentStatus /\ row[s].status \in ShipmentStatus
      BY <2>5 DEF Work, Row
    <3>2. Rank[u.st] > Rank[u.seen.status]
      BY <1>1 DEF WorkInv
    <3> QED
      BY <1>7, <2>5, <3>1, <3>2, RankFacts
  <2>10. CarrierAskedOnce'
    <3>1. Goes(a, w, {s})
      BY <2>2, <2>3, WriteGoes
    <3> QED
      BY <1>4, <1>5, <2>4, <3>1, AskedStep DEF external
  <2>11. lost \subseteq lost' /\ lost' \subseteq Events
    BY <2>2 DEF TypeOK
  <2>12. UNCHANGED <<external, old, log, buffer>> /\ born' \in [Shipments -> Nat]
    BY <1>5 DEF TypeOK
  <2> QED
    BY <1>1, <1>2, <1>5, <2>2, <2>3, <2>5, <2>7, <2>8, <2>9, <2>10, <2>11, <2>12, WriteStep
<1> QED
  BY <1>6, <1>7

----------------------------------------------------------------------------
(***************************************************************************)
(* The invariant is inductive.                                             *)
(***************************************************************************)

\* Nothing is booked, buffered or in hand at the start.
\* A numbering is positive for what it numbers, and zero for the rest.
LEMMA OrderFacts ==
    ASSUME NEW T, NEW S \in SUBSET T, IsFiniteSet(S), NEW f \in Order(S, T)
    PROVE  f \in [T -> Nat] /\ \A x \in T : (f[x] > 0) <=> (x \in S)
<1>1. PICK g \in [S -> 1 .. Cardinality(S)] : f = [x \in T |-> IF x \in S THEN g[x] ELSE 0]
  BY DEF Order, Injection
<1>2. Cardinality(S) \in Nat
  BY FS_CardinalityType
<1>3. \A x \in S : g[x] \in Nat /\ g[x] > 0
  BY <1>1, <1>2
<1> QED
  BY <1>1, <1>3

LEMMA InitIInv == Init => IInv
<1> SUFFICES ASSUME Init PROVE IInv
  OBVIOUS
<1>0. PICK D \in SUBSET Leftover : \E B \in SUBSET D :
        /\ carrier = [s \in Shipments |-> IF s \in B THEN "BOOKED" ELSE "none"]
        /\ row = [s \in Shipments |-> IF s \in D THEN DraftRow ELSE NoRow]
        /\ born \in Order(D, Shipments)
        /\ sent = Told(B)
        /\ acked \subseteq Told(B)
        /\ IsFiniteSet(acked) /\ at \in Order(acked, Events)
  BY DEF Init
<1>1. PICK B \in SUBSET D :
        /\ carrier = [s \in Shipments |-> IF s \in B THEN "BOOKED" ELSE "none"]
        /\ row = [s \in Shipments |-> IF s \in D THEN DraftRow ELSE NoRow]
        /\ born \in Order(D, Shipments)
        /\ sent = Told(B)
        /\ acked \subseteq Told(B)
        /\ IsFiniteSet(acked) /\ at \in Order(acked, Events)
  BY <1>0
<1>2. /\ D \subseteq Shipments /\ IsFiniteSet(D)
      /\ sent \subseteq Events /\ \A e \in sent : e.s \in B
  BY <1>1, ShipmentConstants, FS_Subset DEF Told, Tells
<1>3. /\ born \in [Shipments -> Nat] /\ at \in [Events -> Nat]
      /\ Buffered = acked
  BY <1>1, <1>2, OrderFacts DEF Buffered
<1>4. /\ old = {} /\ log = [e \in Events |-> "none"] /\ done = {} /\ lost = {}
      /\ work = [a \in Actors |-> Idle]
  BY DEF Init
<1>5. \A a \in Actors : work[a] = Idle
  BY <1>4
<1>6. ~NoRow.there /\ DraftRow.there
  BY DEF NoRow, DraftRow
<1>7. \A s \in Shipments :
        /\ s \in D => row[s] = DraftRow
        /\ s \notin D => row[s] = NoRow
        /\ carrier[s] = (IF s \in B THEN "BOOKED" ELSE "none")
  BY <1>1
<1>8. TypeOK
  <2>1. WorkOK(Idle)
    BY IdleType DEF WorkOK, Idle, Applying
  <2>2. carrier \in [Shipments -> ShipmentStatus \cup {"none"}] /\ row \in [Shipments -> Row]
    BY <1>1, IdleType DEF ShipmentStatus
  <2> QED
    BY <1>1, <1>2, <1>3, <1>4, <1>5, <2>1, <2>2, IdleType DEF TypeOK
<1>9. WorkersInv /\ KnowledgeInv
  BY <1>5, <1>8, IdleFacts DEF WorkersInv, KnowledgeInv, Actors
<1>10. RowInv
  <2>1. "BOOKED" \in ShipmentStatus /\ Rank["BOOKED"] >= Rank["BOOKED"]
    BY RankFacts DEF ShipmentStatus
  <2> QED
    BY <1>2, <1>6, <1>7, <2>1 DEF RowInv
<1>11. BufferInv /\ AckedNotLost
  <2>1. \A e \in Buffered : row[e.s].there
    BY <1>1, <1>2, <1>3, <1>6, <1>7
  <2> QED
    BY <1>1, <1>3, <1>4, <2>1 DEF BufferInv, AckedNotLost, Pending
<1>12. CarrierAskedOnce /\ ReflectedUnlessLost
  BY <1>4, <1>5, IdleFacts, <1>8 DEF CarrierAskedOnce, ReflectedUnlessLost, Actors, Overwriters
<1> QED
  BY <1>8, <1>9, <1>10, <1>11, <1>12 DEF IInv

LEMMA ApplyStep == ASSUME IInv, NEW a \in Actors, Apply(a) PROVE IInv'
BY AppendEventStep, ReadStatusStep, CasStep DEF Apply

LEMMA ReplayStep ==
    ASSUME IInv, NEW a \in Overwriters \cup Replayers, Replay(a) PROVE IInv'
BY TakeNextStep, MarkProcessedStep DEF Replay

\* Whatever an actor, the carrier or time does next keeps the invariant.
LEMMA NextIInv == IInv /\ [Next]_vars => IInv'
<1> SUFFICES ASSUME IInv, [Next]_vars PROVE IInv'
  OBVIOUS
<1> USE DEF Actors, Overwriters
<1>1. ASSUME NEW s \in Shipments, CarrierMoves(s) \/ Age(s) PROVE IInv'
  BY <1>1, CarrierMovesStep, AgeStep
<1>2. ASSUME NEW b \in Bookers, BookerNext(b) PROVE IInv'
  BY <1>2, BookCheckStep, BookInsertStep, BookCallStep, RecordStep, ListForShipmentStep,
     ReplayStep, ApplyStep DEF BookerNext
<1>3. ASSUME NEW w \in Webhooks, WebhookNext(w) PROVE IInv'
  BY <1>3, WebhookFindStep, WebhookBufferStep, ApplyStep DEF WebhookNext
<1>4. ASSUME NEW p \in Replayers, ReplayerNext(p) PROVE IInv'
  BY <1>4, ReplayScanStep, SkipNextStep, ReplayStep, ApplyStep DEF ReplayerNext
<1>5. ASSUME NEW r \in Recoverers, RecovererNext(r) PROVE IInv'
  BY <1>5, RecoveryScanStep, RecoveryLookupStep, RecordStep, RecoveryFailsStep,
     ListForShipmentStep, ReplayStep, ApplyStep DEF RecovererNext
<1>6. ASSUME NEW l \in Labels, LabelNext(l) PROVE IInv'
  BY <1>6, LabelReadStep, LabelWriteStep DEF LabelNext
<1>7. ASSUME NEW a \in Actors, Abort(a) PROVE IInv'
  BY <1>7, AbortStep
<1>8. CASE UNCHANGED vars
  BY <1>8 DEF vars, IInv, TypeOK, WorkOK, WorkersInv, WorkInv, KnowledgeInv, Knows, RowInv,
              BufferInv, Buffered, Pending, CarrierAskedOnce, AckedNotLost,
              ReflectedUnlessLost, InFlight
<1> QED
  BY <1>1, <1>2, <1>3, <1>4, <1>5, <1>6, <1>7, <1>8 DEF Next


----------------------------------------------------------------------------
(***************************************************************************)
(* Theorems.                                                               *)
(***************************************************************************)

\* In every state the program reaches the invariant holds.
THEOREM Invariance == Spec => []IInv
<1>1. Init => IInv
  BY InitIInv
<1>2. IInv /\ [Next]_vars => IInv'
  BY NextIInv
<1> QED
  BY <1>1, <1>2, PTL DEF Spec

\* Every actor works on a shipment that is there, whatever the order in which
\* bookings, webhooks, replays, recoveries and label requests take their steps.
THEOREM TypeCorrect == Spec => []TypeOK
<1>1. IInv => TypeOK
  BY DEF IInv
<1> QED
  BY <1>1, Invariance, PTL

\* The draft and its unique index make one request at most ask the carrier for a
\* shipment, however often fulfillment.requested is delivered.
THEOREM CarrierIsAskedOnce == Spec => []CarrierAskedOnce
<1>1. IInv => CarrierAskedOnce
  BY DEF IInv
<1> QED
  BY <1>1, Invariance, PTL

\* An event answered with 200 is recorded for its shipment or still buffered.
THEOREM AcknowledgedNotLost == Spec => []AckedNotLost
<1>1. IInv => AckedNotLost
  BY DEF IInv
<1> QED
  BY <1>1, Invariance, PTL

\* A recorded event is reflected in the status of its shipment, unless it is being
\* applied or is one of those whose update was given up, missed or written over.
THEOREM RecordedIsReflected == Spec => []ReflectedUnlessLost
<1>1. IInv => ReflectedUnlessLost
  BY DEF IInv
<1> QED
  BY <1>1, Invariance, PTL

\* The four actions that write the table of shipments.
LEMMA RowWrites ==
    ASSUME [Next]_vars
    PROVE  \/ row' = row
           \/ \E b \in Bookers : BookInsert(b)
           \/ \E a \in Overwriters : Record(a)
           \/ \E l \in Labels : LabelWrite(l)
           \/ \E a \in Actors : Cas(a)
<1> USE DEF Actors, Overwriters, Apply, Replay, AppendEvent, ReadStatus, TakeNext, MarkProcessed
<1>1. ASSUME NEW s \in Shipments, CarrierMoves(s) \/ Age(s) PROVE row' = row
  BY <1>1 DEF CarrierMoves, Age
<1>2. ASSUME NEW b \in Bookers, BookerNext(b)
      PROVE  row' = row \/ BookInsert(b) \/ Record(b) \/ Cas(b)
  BY <1>2 DEF BookerNext, BookCheck, BookCall, ListForShipment
<1>3. ASSUME NEW w \in Webhooks, WebhookNext(w) PROVE row' = row \/ Cas(w)
  BY <1>3 DEF WebhookNext, WebhookFind, WebhookBuffer
<1>4. ASSUME NEW p \in Replayers, ReplayerNext(p) PROVE row' = row \/ Cas(p)
  BY <1>4 DEF ReplayerNext, ReplayScan, SkipNext
<1>5. ASSUME NEW r \in Recoverers, RecovererNext(r) PROVE row' = row \/ Record(r) \/ Cas(r)
  BY <1>5 DEF RecovererNext, RecoveryScan, RecoveryLookup, RecoveryFails, ListForShipment
<1>6. ASSUME NEW l \in Labels, LabelNext(l) PROVE row' = row \/ LabelWrite(l)
  BY <1>6 DEF LabelNext, LabelRead
<1>7. ASSUME NEW a \in Actors, Abort(a) PROVE row' = row
  BY <1>7 DEF Abort
<1>8. CASE UNCHANGED vars
  BY <1>8 DEF vars
<1> QED
  BY <1>1, <1>2, <1>3, <1>4, <1>5, <1>6, <1>7, <1>8 DEF Next

\* Whatever writes a row keeps the references it has.
LEMMA RefsStep ==
    ASSUME IInv, [Next]_vars, NEW s \in Shipments, row[s].refs PROVE row'[s].refs
<1> USE DEF IInv, Write, Overwrite
<1>1. row \in [Shipments -> Row]
  BY DEF TypeOK
<1>2. CASE row' = row
  BY <1>2
<1>3. ASSUME NEW b \in Bookers, BookInsert(b) PROVE row'[s].refs
  <2>1. ~row[work[b].s].there
    BY <1>3 DEF BookInsert
  <2>2. row[s].there
    BY DEF RowInv, NoRow
  <2> QED
    BY <1>1, <1>3, <2>1, <2>2 DEF BookInsert
<1>4. ASSUME NEW a \in Overwriters, Record(a) PROVE row'[s].refs
  BY <1>1, <1>4 DEF Record
<1>5. ASSUME NEW l \in Labels, LabelWrite(l) PROVE row'[s].refs
  <2>1. work[l].seen.refs
    BY <1>5 DEF LabelWrite, WorkersInv, WorkInv, Actors, Overwriters
  <2> QED
    BY <1>1, <1>5, <2>1 DEF LabelWrite
<1>6. ASSUME NEW a \in Actors, Cas(a) PROVE row'[s].refs
  BY <1>1, <1>6 DEF Cas, Row
<1> QED
  BY <1>2, <1>3, <1>4, <1>5, <1>6, RowWrites

\* The references of a recorded booking are never erased.
THEOREM ReferencesKept == Spec => RefsKept
<1>1. IInv /\ [Next]_vars => [\A s \in Shipments : row[s].refs => row'[s].refs]_vars
  BY RefsStep
<1> QED
  BY <1>1, Invariance, PTL DEF Spec, RefsKept

\* Only an actor that writes over what somebody else has written since it read or
\* wrote it sets a shipment back.
LEMMA RegressStep ==
    ASSUME IInv, [Next]_vars, NEW s \in Shipments, Rank[row'[s].status] < Rank[row[s].status]
    PROVE  \E a \in Overwriters : s \in work[a].stale /\ s \notin work'[a].stale
<1> USE DEF IInv
<1>1. row \in [Shipments -> Row] /\ row[s].status \in ShipmentStatus
  BY DEF TypeOK, Row
<1>2. row' # row
  BY <1>1, RankFacts
<1>3. ASSUME NEW b \in Bookers, BookInsert(b) PROVE FALSE
  <2>1. row' = [row EXCEPT ![work[b].s] = DraftRow] /\ ~row[work[b].s].there
    BY <1>3 DEF BookInsert, Write
  <2>2. CASE s = work[b].s
    <3>1. Rank[row[s].status] = 0 /\ row'[s] = DraftRow
      BY <1>1, <2>1, <2>2, RankFacts DEF RowInv, NoRow
    <3> QED
      BY <3>1, RankFacts DEF DraftRow
  <2>3. CASE s # work[b].s
    BY <1>1, <2>1, <2>3, RankFacts
  <2> QED
    BY <2>2, <2>3
<1>4. ASSUME NEW a \in Actors, Cas(a) PROVE FALSE
  <2>1. PICK u \in Work : u = work[a] /\ u.pc = "cas" /\ Rank[u.st] > Rank[u.seen.status]
    BY <1>4 DEF Cas, TypeOK, WorkersInv, WorkInv
  <2>2. u.st \in ShipmentStatus
    BY DEF Work
  <2>3. row[u.s].status = u.seen.status /\ row' = [row EXCEPT ![u.s].status = u.st]
    BY <1>2, <1>4, <2>1 DEF Cas, Write
  <2>4. CASE s = u.s
    <3>1. row'[s].status = u.st
      BY <1>1, <2>3, <2>4 DEF Row
    <3> QED
      BY <1>1, <2>1, <2>2, <2>3, <2>4, <3>1, RankFacts
  <2>5. CASE s # u.s
    BY <1>1, <2>3, <2>5, RankFacts
  <2> QED
    BY <2>4, <2>5
<1>5. ASSUME NEW a \in Overwriters, Record(a)
      PROVE  s \in work[a].stale /\ s \notin work'[a].stale
  <2>1. PICK u \in Work : u = work[a] /\ u.pc = "record"
    BY <1>5 DEF Record, TypeOK, Actors
  <2>2. /\ row' = [row EXCEPT ![u.s] = [there |-> TRUE, status |-> u.st, refs |-> TRUE]]
        /\ work'[a] = [[u EXCEPT !.pc = "list", !.st = Idle.st] EXCEPT !.stale = @ \ {u.s}]
    BY <1>5, <2>1 DEF Record, Overwrite, Write, Actors
  <2>3. s = u.s
    BY <1>1, <2>2, RankFacts
  <2>4. row'[s].status = u.st /\ u.st \in ShipmentStatus
    BY <1>1, <2>2, <2>3 DEF Work
  <2>5. s \notin u.stale => Rank[row[s].status] <= Rank[u.st]
    BY <2>1, <2>3 DEF KnowledgeInv, Knows
  <2>6. s \in u.stale
    BY <1>1, <2>4, <2>5, RankFacts
  <2>7. s \notin work'[a].stale
    BY <2>2, <2>3 DEF Work
  <2> QED
    BY <2>1, <2>6, <2>7
<1>6. ASSUME NEW l \in Labels, LabelWrite(l)
      PROVE  s \in work[l].stale /\ s \notin work'[l].stale
  <2>1. PICK u \in Work : u = work[l] /\ u.pc = "label"
    BY <1>6 DEF LabelWrite, TypeOK, Actors, Overwriters
  <2>2. row' = [row EXCEPT ![u.s] = u.seen] /\ work'[l] = [Idle EXCEPT !.stale = @ \ {u.s}]
    BY <1>6, <2>1 DEF LabelWrite, Overwrite, Write, Actors, Overwriters
  <2>3. s = u.s
    BY <1>1, <2>2, RankFacts
  <2>4. s \notin u.stale => row[s] = u.seen
    BY <2>1, <2>3 DEF KnowledgeInv, Knows, Overwriters
  <2>5. row'[s] = u.seen
    BY <1>1, <2>2, <2>3
  <2> QED
    BY <1>1, <2>1, <2>2, <2>4, <2>5, RankFacts DEF Idle
<1> QED
  BY <1>2, <1>3, <1>4, <1>5, <1>6, RowWrites DEF Overwriters

\* A shipment falls back to an older status only through such a stale write.
THEOREM OnlyStaleRegress == Spec => RegressesOnlyIfStale
<1>1. IInv /\ [Next]_vars =>
        [\A s \in Shipments : Rank[row'[s].status] < Rank[row[s].status] =>
            \E a \in Overwriters : s \in work[a].stale /\ s \notin work'[a].stale]_vars
  BY RegressStep
<1> QED
  BY <1>1, Invariance, PTL DEF Spec, RegressesOnlyIfStale
=============================================================================
