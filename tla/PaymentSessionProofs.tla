------------------------ MODULE PaymentSessionProofs ------------------------
(***************************************************************************)
(* Proofs about PaymentSession, for any number of sessions, payments,      *)
(* webhook handlers and checkouts.                                         *)
(***************************************************************************)
EXTENDS PaymentSession, TLAPS

(***************************************************************************)
(* The inductive invariant. The properties speak of the rows alone, but a  *)
(* row is written from what an actor read earlier, so the same facts are   *)
(* needed of every snapshot an actor holds, together with why the actor    *)
(* decided to write and, while its snapshot is not stale, that it still    *)
(* equals the row.                                                         *)
(***************************************************************************)

\* P is the provider's state of the payments.
GoodRow(P, s, r) ==
    /\ r \in Row
    /\ Coherent(r)
    /\ r.payment_status \in {"AUTHORIZED", "CAPTURED"} =>
        /\ r.pid \in Attempts
        /\ P[r.pid] \in {"authorized", "captured", "refunded"}
        /\ r.payment_status = "CAPTURED" => P[r.pid] # "authorized"
    /\ r.pid # NoPay => Owner[r.pid] = s

Fresh(a, s, r) == <<a, s>> \notin stale => r = row[s]

RowInv == \A s \in Sessions : GoodRow(pay, s, row[s])

HookOK(w) ==
    LET e == hook[w].ev
        r == hook[w].snap
    IN  /\ hook[w].pc # "idle" => Issued(e)
        /\ hook[w].pc = "apply" =>
            /\ GoodRow(pay, Owner[e[1]], r)
            /\ CanTransition(r.payment_status, NextStatus(r, e))
            /\ Fresh(w, Owner[e[1]], r)
HookInv == \A w \in Handlers : HookOK(w)

RowOfJob == [job.got EXCEPT !.status = ToMedusaStatus(job.got.payment_status)]
JobInv ==
    /\ \A s \in job.todo :
        /\ GoodRow(pay, s, job.rows[s])
        /\ job.rows[s].payment_status \in {"PENDING", "AUTHORIZED"}
        /\ Fresh(Recon, s, job.rows[s])
    /\ job.pc = "apply" =>
        /\ GoodRow(pay, job.cur, RowOfJob)
        /\ CanTransition(job.rows[job.cur].payment_status, job.got.payment_status)

CheckoutOK(c) ==
    LET s == checkout[c].s
        r == checkout[c].snap
    IN  /\ checkout[c].pc # "idle" => Paid(checkout[c].p)
        /\ checkout[c].pc = "authorized" =>
            /\ GoodRow(pay, s, r)
            /\ AlreadyVerified(r) \/ CanTransition(FromRaw(r.raw), "AUTHORIZED")
            /\ Fresh(c, s, r)
CheckoutInv == \A c \in Checkouts : CheckoutOK(c)

EventInv ==
    /\ applied \subseteq processed
    /\ \A w \in Handlers : hook[w].pc # "idle" => hook[w].ev \in processed
    /\ EventAppliedAtMostOnce

IInv == TypeOK /\ RowInv /\ HookInv /\ JobInv /\ CheckoutInv /\ EventInv

----------------------------------------------------------------------------
(***************************************************************************)
(* What the operators on rows return.                                      *)
(***************************************************************************)

\* Each vocabulary is translated into the other one's alphabet.
LEMMA TranslationTypes ==
    /\ \A p \in Status : ToMedusaStatus(p) \in MedusaStatus /\ ToRaw(p) \in RawStatus
    /\ \A m \in MedusaStatus : FromMedusaStatus(m) \in Status
    /\ \A z \in RawStatus : FromRaw(z) \in Status
BY DEF Status, MedusaStatus, RawStatus, ToMedusaStatus, ToRaw, FromMedusaStatus, FromRaw

\* An event maps to a status, and so does the status it leads to.
LEMMA EventTypes ==
    ASSUME NEW e \in Events, NEW r \in Row
    PROVE  /\ e[1] \in Attempts
           /\ EventStatus(e) \in {"AUTHORIZED", "CAPTURED", "FAILED"}
           /\ NextStatus(r, e) \in {"AUTHORIZED", "CAPTURED", "FAILED"}
           /\ EventRaw(e) \in RawStatus
BY DEF Events, EventType, EventStatus, NextStatus, EventRaw, ToRaw, RawStatus

\* The row a webhook writes is a row.
LEMMA RowAfterType ==
    ASSUME NEW e \in Events, NEW r \in Row
    PROVE  RowAfter(r, e) \in Row
<1>1. /\ e[1] \in Attempts
      /\ NextStatus(r, e) \in Status
      /\ EventRaw(e) \in RawStatus
  BY EventTypes DEF Status
<1>2. ToMedusaStatus(NextStatus(r, e)) \in MedusaStatus
  BY <1>1, TranslationTypes
<1> QED
  BY <1>1, <1>2 DEF RowAfter, Row

\* The row the provider's answer is merged into is a row.
LEMMA FetchedRowType ==
    ASSUME TypeOK, NEW r \in Row
    PROVE  FetchedRow(r) \in Row
BY TranslationTypes DEF FetchedRow, TypeOK, Row, RawStatus, MedusaStatus

\* The row a checkout writes is a row.
LEMMA AuthorizedRowType ==
    ASSUME NEW r \in Row, NEW p \in Attempts
    PROVE  AuthorizedRow(r, p) \in Row
BY TranslationTypes DEF AuthorizedRow, Row, RawStatus, MedusaStatus, Status

LEMMA BlankType == \A linked \in BOOLEAN : InitiatedRow(linked) \in Row
BY DEF InitiatedRow, Row, MedusaStatus, Status, RawStatus

----------------------------------------------------------------------------
(***************************************************************************)
(* Type correctness.                                                       *)
(***************************************************************************)

LEMMA InitType == Init => TypeOK
<1> SUFFICES ASSUME Init PROVE TypeOK
  OBVIOUS
<1> USE ConstantsAssumption
<1>1. Blank \in Row
  BY BlankType DEF Blank
<1>2. IdleHook \in HookState
  BY <1>1 DEF IdleHook, HookState
<1>3. IdleJob \in JobState
  BY <1>1 DEF IdleJob, JobState
<1>4. IdleCheckout \in CheckoutState
  BY <1>1 DEF IdleCheckout, CheckoutState
<1> QED
  BY <1>1, <1>2, <1>3, <1>4 DEF Init, TypeOK, IdleHook, IdleJob, IdleCheckout

LEMMA NextType == TypeOK /\ [Next]_vars => TypeOK'
<1> SUFFICES ASSUME TypeOK, [Next]_vars PROVE TypeOK'
  OBVIOUS
<1> USE ConstantsAssumption DEF TypeOK
<1>0. Blank \in Row /\ IdleHook \in HookState /\ IdleJob \in JobState
        /\ IdleCheckout \in CheckoutState
  BY BlankType DEF Blank, IdleHook, HookState, IdleJob, JobState, IdleCheckout, CheckoutState
<1>1. ASSUME NEW s \in Sessions, InitiatePayment(s) PROVE TypeOK'
  <2>1. \A linked \in BOOLEAN : InitiatedRow(linked) \in Row
    BY BlankType
  <2> QED
    BY <1>1, <2>1 DEF InitiatePayment, Actors
<1>2. ASSUME NEW s \in Sessions, DeleteSession(s) PROVE TypeOK'
  BY <1>2 DEF DeleteSession
<1>3. ASSUME NEW s \in Sessions, Age(s) PROVE TypeOK'
  BY <1>3 DEF Age
<1>4. ASSUME NEW p \in Attempts, ProviderAuthorizes(p) PROVE TypeOK'
  BY <1>4 DEF ProviderAuthorizes, PayMoves
<1>5. ASSUME NEW p \in Attempts, ProviderFails(p) PROVE TypeOK'
  BY <1>5 DEF ProviderFails, PayMoves
<1>6. ASSUME NEW p \in Attempts, ProviderCaptures(p) PROVE TypeOK'
  BY <1>6 DEF ProviderCaptures, PayMoves
<1>7. ASSUME NEW p \in Attempts, ProviderRefunds(p) PROVE TypeOK'
  BY <1>7 DEF ProviderRefunds, PayMoves
<1>8. ASSUME NEW w \in Handlers, NEW e \in Events, WebhookMark(w, e) PROVE TypeOK'
  BY <1>8 DEF WebhookMark, HookState
<1>9. ASSUME NEW w \in Handlers, WebhookRead(w) PROVE TypeOK'
  <2>1. hook[w] \in HookState /\ hook[w].ev \in Events /\ Owner[hook[w].ev[1]] \in Sessions
    BY <1>9 DEF WebhookRead, Events
  <2>2. row[Owner[hook[w].ev[1]]] \in Row
    BY <2>1
  <2>3. hook' \in [Handlers -> HookState]
    BY <1>0, <1>9, <2>1, <2>2 DEF WebhookRead, HookState
  <2>4. \A v \in Handlers : hook'[v].pc # "idle" => hook'[v].ev \in Events
    BY <1>9, <2>1 DEF WebhookRead, IdleHook, HookState
  <2> QED
    BY <1>9, <2>3, <2>4 DEF WebhookRead, Reads
<1>10. ASSUME NEW w \in Handlers, WebhookWrite(w) PROVE TypeOK'
  <2>1. hook[w] \in HookState /\ hook[w].ev \in Events /\ Owner[hook[w].ev[1]] \in Sessions
    BY <1>10 DEF WebhookWrite, Events
  <2>2. RowAfter(hook[w].snap, hook[w].ev) \in Row
    BY <2>1, RowAfterType DEF HookState
  <2> QED
    BY <1>0, <1>10, <2>1, <2>2 DEF WebhookWrite, WriteRow, IdleHook, Actors
<1>11. ASSUME NEW w \in Handlers, WebhookAbort(w) PROVE TypeOK'
  BY <1>0, <1>11 DEF WebhookAbort, IdleHook
<1>12. ASSUME JobScan PROVE TypeOK'
  <2>1. PICK S \in SUBSET Candidates :
          /\ job' = [job EXCEPT !.pc = "scan", !.todo = S,
                         !.rows = [s \in Sessions |-> IF s \in S THEN row[s] ELSE Blank]]
          /\ Reads(Recon, S)
    BY <1>12 DEF JobScan
  <2>2. S \subseteq Sessions
    BY DEF Candidates
  <2>3. job' \in JobState /\ job'.pc = "scan"
    BY <1>0, <2>1, <2>2 DEF JobState
  <2> QED
    BY <1>12, <2>1, <2>3 DEF JobScan, Reads
<1>13. ASSUME NEW s \in Sessions PROVE DoneWith(s) \in JobState /\ DoneWith(s).pc # "apply"
  BY <1>0 DEF DoneWith, JobState, IdleJob
<1>14. ASSUME NEW s \in Sessions, JobFetch(s) PROVE TypeOK'
  <2>1. job.rows[s] \in Row
    BY DEF JobState
  <2>2. FetchedRow(job.rows[s]) \in Row
    BY <2>1, FetchedRowType
  <2>3. job' \in JobState /\ (job'.pc = "apply" => job'.cur \in job'.todo)
    BY <1>13, <1>14, <2>2 DEF JobFetch, JobState
  <2> QED
    BY <1>14, <2>3 DEF JobFetch
<1>15. ASSUME JobWrite PROVE TypeOK'
  <2>1. job.cur \in Sessions /\ job.got \in Row
    BY <1>15 DEF JobWrite, JobState
  <2>2. [job.got EXCEPT !.status = ToMedusaStatus(job.got.payment_status)] \in Row
    BY <2>1, TranslationTypes DEF Row
  <2> QED
    BY <1>13, <1>15, <2>1, <2>2 DEF JobWrite, WriteRow, Actors
<1>16. ASSUME JobAbort PROVE TypeOK'
  BY <1>0, <1>16 DEF JobAbort, IdleJob
<1>17. ASSUME NEW c \in Checkouts, NEW p \in Attempts, CheckoutStart(c, p) PROVE TypeOK'
  BY <1>17 DEF CheckoutStart, CheckoutState
<1>18. ASSUME NEW c \in Checkouts, CheckoutRead(c) PROVE TypeOK'
  <2>1. checkout[c] \in CheckoutState /\ checkout[c].s \in Sessions /\ checkout[c].p \in Attempts
          /\ checkout[c].s = Owner[checkout[c].p]
    BY <1>18 DEF CheckoutRead
  <2>2. checkout' \in [Checkouts -> CheckoutState]
    BY <1>0, <1>18, <2>1 DEF CheckoutRead, CheckoutState
  <2>3. \A d \in Checkouts : checkout'[d].pc # "idle" =>
            checkout'[d].p \in Attempts /\ checkout'[d].s = Owner[checkout'[d].p]
    BY <1>18, <2>1 DEF CheckoutRead, CheckoutState, IdleCheckout
  <2> QED
    BY <1>18, <2>2, <2>3 DEF CheckoutRead, Reads
<1>19. ASSUME NEW c \in Checkouts, CheckoutWrite(c) PROVE TypeOK'
  <2>1. checkout[c] \in CheckoutState /\ checkout[c].s \in Sessions /\ checkout[c].p \in Attempts
    BY <1>19 DEF CheckoutWrite
  <2>2. AuthorizedRow(checkout[c].snap, checkout[c].p) \in Row
    BY <2>1, AuthorizedRowType DEF CheckoutState
  <2> QED
    BY <1>0, <1>19, <2>1, <2>2 DEF CheckoutWrite, WriteRow, IdleCheckout, Actors
<1>20. ASSUME NEW c \in Checkouts, CheckoutAbort(c) PROVE TypeOK'
  BY <1>0, <1>20 DEF CheckoutAbort, IdleCheckout
<1>21. CASE UNCHANGED vars
  BY <1>21 DEF vars
<1>22. ASSUME NEW c \in Checkouts, NEW e \in Events, HookPayment(c, e) PROVE TypeOK'
  <2> DEFINE k == [checkout[c] EXCEPT !.pc = "called", !.s = Owner[e[1]], !.p = e[1],
                                     !.signed = FALSE]
  <2>1. e[1] \in Attempts /\ Owner[e[1]] \in Sessions
    BY DEF Events
  <2>4. checkout' = checkout \/ checkout' = [checkout EXCEPT ![c] = k]
    BY <1>22 DEF HookPayment
  <2>6. checkout[c] \in CheckoutState
    OBVIOUS
  <2>5. k \in CheckoutState /\ k.p = e[1] /\ k.s = Owner[e[1]]
    BY <2>1, <2>6 DEF CheckoutState
  <2>2. checkout' \in [Checkouts -> CheckoutState]
    <3>1. CASE checkout' = checkout
      BY <3>1
    <3>2. CASE checkout' = [checkout EXCEPT ![c] = k]
      <4> HIDE DEF k
      <4> QED
        BY <2>5, <3>2
    <3> QED
      BY <2>4, <3>1, <3>2
  <2>3. \A d \in Checkouts : checkout'[d].pc # "idle" =>
            checkout'[d].p \in Attempts /\ checkout'[d].s = Owner[checkout'[d].p]
    <3>1. CASE checkout' = checkout
      BY <3>1
    <3>2. CASE checkout' = [checkout EXCEPT ![c] = k]
      <4> HIDE DEF k
      <4> QED
        BY <2>1, <2>5, <3>2
    <3> QED
      BY <2>4, <3>1, <3>2
  <2> QED
    BY <1>22, <2>2, <2>3 DEF HookPayment
<1> QED
  BY <1>1, <1>2, <1>3, <1>4, <1>5, <1>6, <1>7, <1>8, <1>9, <1>10, <1>11, <1>12, <1>14,
     <1>15, <1>16, <1>17, <1>18, <1>19, <1>20, <1>21, <1>22
  DEF Next, SessionNext, ProviderNext, WebhookNext, JobNext, CheckoutNext

\* Every variable keeps its type, whatever the actors do.
THEOREM TypeCorrect == Spec => []TypeOK
BY InitType, NextType, PTL DEF Spec

----------------------------------------------------------------------------
(***************************************************************************)
(* What a step leaves alone.                                               *)
(***************************************************************************)

\* A payment at Razorpay only moves forward.
PayForward ==
    \A p \in Attempts :
        \/ pay'[p] = pay[p]
        \/ pay[p] = "created" /\ pay'[p] \in {"authorized", "failed"}
        \/ pay[p] = "authorized" /\ pay'[p] = "captured"
        \/ pay[p] = "captured" /\ pay'[p] = "refunded"

LEMMA NextPayForward == TypeOK /\ [Next]_vars => PayForward
<1> SUFFICES ASSUME TypeOK, [Next]_vars PROVE PayForward
  OBVIOUS
<1>1. CASE ProviderNext
  BY <1>1 DEF TypeOK, PayForward, ProviderNext, ProviderAuthorizes, ProviderFails,
       ProviderCaptures, ProviderRefunds, PayMoves
<1>2. pay' = pay => PayForward
  BY DEF PayForward
<1>3. SessionNext \/ WebhookNext \/ JobNext \/ CheckoutNext => pay' = pay
  BY DEF SessionNext, InitiatePayment, DeleteSession, Age, WebhookNext, WebhookMark,
       WebhookRead, WebhookWrite, WebhookAbort, JobNext, JobScan, JobFetch, JobWrite,
       JobAbort, CheckoutNext, CheckoutStart, HookPayment, CheckoutRead, CheckoutWrite, CheckoutAbort
<1> QED
  BY <1>1, <1>2, <1>3 DEF Next, vars

\* A good row stays good.
LEMMA GoodForward ==
    ASSUME PayForward, NEW s \in Sessions, NEW r, GoodRow(pay, s, r)
    PROVE  GoodRow(pay', s, r)
BY DEF PayForward, GoodRow

\* An issued event stays issued.
LEMMA IssuedForward ==
    ASSUME PayForward, NEW e \in Events, Issued(e)
    PROVE  Issued(e)'
BY DEF PayForward, Issued, Events, EventType

\* The step leaves what actor a knows of the rows as it was: it may make a's
\* reading stale, but does not change a row behind a reading that counts as fresh.
Undisturbed(a) ==
    \A s \in Sessions :
        <<a, s>> \notin stale' => <<a, s>> \notin stale /\ row'[s] = row[s]

LEMMA WriteUndisturbs ==
    ASSUME TypeOK, NEW b \in Actors, NEW s \in Sessions, NEW r, WriteRow(b, s, r)
    PROVE  \A a \in Actors \ {b} : Undisturbed(a)
BY DEF TypeOK, WriteRow, Undisturbed

LEMMA ReadUndisturbs ==
    ASSUME NEW b \in Actors, NEW S \in SUBSET Sessions, Reads(b, S), row' = row
    PROVE  \A a \in Actors \ {b} : Undisturbed(a)
BY DEF Reads, Undisturbed

LEMMA IdleUndisturbs ==
    ASSUME row' = row, stale' = stale
    PROVE  \A a : Undisturbed(a)
BY DEF Undisturbed

\* Customers, Razorpay and time disturb no actor.
LEMMA EnvironmentUndisturbs ==
    ASSUME TypeOK, SessionNext \/ ProviderNext
    PROVE  /\ \A a \in Actors : Undisturbed(a)
           /\ UNCHANGED <<processed, hook, job, checkout, applied>>
<1>1. ASSUME NEW s \in Sessions, InitiatePayment(s)
      PROVE  \A a \in Actors : Undisturbed(a)
  BY <1>1 DEF InitiatePayment, Undisturbed, TypeOK
<1>2. ASSUME NEW s \in Sessions, DeleteSession(s) \/ Age(s) PROVE row' = row /\ stale' = stale
  BY <1>2 DEF DeleteSession, Age
<1>3. ProviderNext => row' = row /\ stale' = stale
  BY DEF ProviderNext, ProviderAuthorizes, ProviderFails, ProviderCaptures, ProviderRefunds,
       PayMoves
<1>4. UNCHANGED <<processed, hook, job, checkout, applied>>
  BY DEF SessionNext, InitiatePayment, DeleteSession, Age, ProviderNext, ProviderAuthorizes,
       ProviderFails, ProviderCaptures, ProviderRefunds, PayMoves
<1> QED
  BY <1>1, <1>2, <1>3, <1>4, IdleUndisturbs DEF SessionNext

\* A webhook handler disturbs no one else.
WebhookStep(w) ==
    (\E e \in Events : WebhookMark(w, e)) \/ WebhookRead(w) \/ WebhookWrite(w) \/ WebhookAbort(w)

LEMMA WebhookUndisturbs ==
    ASSUME TypeOK, NEW w \in Handlers, WebhookStep(w)
    PROVE  /\ \A a \in Actors \ {w} : Undisturbed(a)
           /\ \A v \in Handlers \ {w} : hook'[v] = hook[v]
           /\ UNCHANGED <<job, checkout>>
<1> USE ConstantsAssumption
<1>1. w \in Actors
  BY DEF Actors
<1>2. ASSUME hook[w].pc # "idle" PROVE Owner[hook[w].ev[1]] \in Sessions
  BY <1>2 DEF TypeOK, Events
<1>3. CASE WebhookRead(w)
  BY <1>1, <1>2, <1>3, ReadUndisturbs DEF WebhookRead, TypeOK
<1>4. CASE WebhookWrite(w)
  BY <1>1, <1>2, <1>4, WriteUndisturbs DEF WebhookWrite, TypeOK
<1>5. CASE (\E e \in Events : WebhookMark(w, e)) \/ WebhookAbort(w)
  BY <1>5, IdleUndisturbs DEF WebhookMark, WebhookAbort, TypeOK
<1> QED
  BY <1>3, <1>4, <1>5 DEF WebhookStep

\* Neither does the job.
LEMMA JobUndisturbs ==
    ASSUME TypeOK, JobNext
    PROVE  /\ \A a \in Actors \ {Recon} : Undisturbed(a)
           /\ UNCHANGED <<processed, hook, checkout, applied>>
<1>1. Recon \in Actors
  BY DEF Actors
<1>2. CASE JobScan
  <2>1. PICK S \in SUBSET Candidates : Reads(Recon, S)
    BY <1>2 DEF JobScan
  <2>2. S \subseteq Sessions
    BY DEF Candidates, TypeOK
  <2> QED
    BY <1>1, <1>2, <2>1, <2>2, ReadUndisturbs DEF JobScan
<1>3. CASE JobWrite
  <2>1. job.cur \in Sessions
    BY <1>3 DEF JobWrite, TypeOK, JobState
  <2> QED
    BY <1>1, <1>3, <2>1, WriteUndisturbs DEF JobWrite
<1>4. CASE (\E s \in Sessions : JobFetch(s)) \/ JobAbort
  BY <1>4, IdleUndisturbs DEF JobFetch, JobAbort
<1> QED
  BY <1>2, <1>3, <1>4 DEF JobNext

\* Nor a checkout.
CheckoutStep(c) ==
    (\E p \in Attempts : CheckoutStart(c, p)) \/ (\E e \in Events : HookPayment(c, e))
        \/ CheckoutRead(c) \/ CheckoutWrite(c) \/ CheckoutAbort(c)

LEMMA CheckoutUndisturbs ==
    ASSUME TypeOK, NEW c \in Checkouts, CheckoutStep(c)
    PROVE  /\ \A a \in Actors \ {c} : Undisturbed(a)
           /\ \A d \in Checkouts \ {c} : checkout'[d] = checkout[d]
           /\ UNCHANGED <<processed, hook, job, applied>>
<1> USE ConstantsAssumption
<1>1. c \in Actors
  BY DEF Actors
<1>2. ASSUME checkout[c].pc # "idle" PROVE checkout[c].s \in Sessions
  BY <1>2 DEF TypeOK
<1>3. CASE CheckoutRead(c)
  BY <1>1, <1>2, <1>3, ReadUndisturbs DEF CheckoutRead, TypeOK
<1>4. CASE CheckoutWrite(c)
  BY <1>1, <1>2, <1>4, WriteUndisturbs DEF CheckoutWrite, TypeOK
<1>5. CASE (\E p \in Attempts : CheckoutStart(c, p)) \/ (\E e \in Events : HookPayment(c, e))
              \/ CheckoutAbort(c)
  BY <1>5, IdleUndisturbs DEF CheckoutStart, HookPayment, CheckoutAbort, TypeOK
<1> QED
  BY <1>3, <1>4, <1>5 DEF CheckoutStep

----------------------------------------------------------------------------
(***************************************************************************)
(* What an actor writes is good if what it read was.                       *)
(***************************************************************************)

LEMMA RowAfterGood ==
    ASSUME TypeOK, NEW e \in Events, NEW r, Issued(e), GoodRow(pay, Owner[e[1]], r)
    PROVE  GoodRow(pay, Owner[e[1]], RowAfter(r, e))
<1> DEFINE q == RowAfter(r, e)
<1> USE ConstantsAssumption
<1>1. q \in Row /\ e[1] \in Attempts
  BY RowAfterType, EventTypes DEF GoodRow
<1>2. /\ q.payment_status = NextStatus(r, e)
      /\ q.status = ToMedusaStatus(NextStatus(r, e))
      /\ q.raw = EventRaw(e)
      /\ q.pid = e[1]
  BY DEF GoodRow, Row, RowAfter
<1>3. NextStatus(r, e) \in {"AUTHORIZED", "CAPTURED", "FAILED"}
  BY EventTypes DEF GoodRow
<1>4. FromMedusaStatus(q.status) = q.payment_status
  BY <1>2, <1>3 DEF FromMedusaStatus, ToMedusaStatus
<1>5. \/ FromRaw(q.raw) = q.payment_status
      \/ q.raw = "captured" /\ q.payment_status = "AUTHORIZED"
  BY <1>2, EventTypes DEF GoodRow, NextStatus, EventRaw, FromRaw, ToRaw
<1>6. q.payment_status \in {"AUTHORIZED", "CAPTURED"} =>
        /\ pay[e[1]] \in {"authorized", "captured", "refunded"}
        /\ q.payment_status = "CAPTURED" => pay[e[1]] # "authorized"
  BY <1>2 DEF NextStatus, EventStatus, Issued, Events, EventType
<1> QED
  BY <1>1, <1>2, <1>4, <1>5, <1>6 DEF GoodRow, Coherent

LEMMA AuthorizedRowGood ==
    ASSUME TypeOK, NEW p \in Attempts, NEW r, Paid(p), GoodRow(pay, Owner[p], r),
           AlreadyVerified(r) \/ CanTransition(FromRaw(r.raw), "AUTHORIZED")
    PROVE  /\ GoodRow(pay, Owner[p], AuthorizedRow(r, p))
           /\ CanTransition(r.payment_status, AuthorizedRow(r, p).payment_status)
<1> DEFINE q == AuthorizedRow(r, p)
<1> USE ConstantsAssumption
<1>1. q \in Row
  BY AuthorizedRowType DEF GoodRow
<1>2. CASE AlreadyVerified(r)
  <2>1. r.payment_status \in {"AUTHORIZED", "CAPTURED"}
    BY <1>2 DEF AlreadyVerified, GoodRow, Coherent, Row, RawStatus, FromRaw
  <2>2. q = [r EXCEPT !.status = ToMedusaStatus(r.payment_status)]
    BY <1>2 DEF AuthorizedRow
  <2>3. /\ q.payment_status = r.payment_status /\ q.raw = r.raw /\ q.pid = r.pid
        /\ q.status = ToMedusaStatus(r.payment_status)
    BY <2>2 DEF GoodRow, Row
  <2> QED
    BY <1>1, <2>1, <2>3 DEF GoodRow, Coherent, ToMedusaStatus, FromMedusaStatus, CanTransition
<1>3. CASE ~AlreadyVerified(r)
  <2>1. /\ q.payment_status = "AUTHORIZED" /\ q.raw = "authorized" /\ q.pid = p
        /\ q.status = "authorized"
    BY <1>3 DEF AuthorizedRow, GoodRow, Row
  <2>2. r.payment_status \in {"PENDING", "AUTHORIZED"}
    BY <1>3 DEF CanTransition, AllowedTransitions, GoodRow, Coherent, Row, RawStatus, FromRaw
  <2> QED
    BY <1>1, <2>1, <2>2
    DEF GoodRow, Coherent, FromRaw, FromMedusaStatus, CanTransition, AllowedTransitions, Paid
<1> QED
  BY <1>2, <1>3

LEMMA FetchedRowGood ==
    ASSUME TypeOK, NEW s \in Sessions, NEW r, GoodRow(pay, s, r),
           r.payment_status \in {"PENDING", "AUTHORIZED"},
           Applies(FromMedusaStatus(r.status), FetchedRow(r).payment_status)
    PROVE  LET got == FetchedRow(r)
           IN  /\ GoodRow(pay, s, [got EXCEPT !.status = ToMedusaStatus(got.payment_status)])
               /\ CanTransition(r.payment_status, got.payment_status)
<1> DEFINE got == FetchedRow(r)
           q == [got EXCEPT !.status = ToMedusaStatus(got.payment_status)]
<1> USE ConstantsAssumption
<1>1. r \in Row /\ got \in Row
  BY FetchedRowType DEF GoodRow
<1>2. FromMedusaStatus(r.status) = r.payment_status
  BY DEF GoodRow, Coherent
<1>3. got # r
  BY <1>1, <1>2 DEF Applies
<1>4. /\ r.pid \in Attempts
      /\ got = [r EXCEPT !.raw = pay[r.pid], !.payment_status = FromRaw(pay[r.pid])]
  BY <1>1, <1>3 DEF FetchedRow, Row
<1>5. got.raw = pay[r.pid] /\ got.payment_status = FromRaw(pay[r.pid]) /\ got.pid = r.pid
  BY <1>1, <1>4 DEF Row
<1>6. CanTransition(r.payment_status, got.payment_status)
  BY <1>2 DEF Applies
<1>7. got.payment_status \in {"PENDING", "AUTHORIZED", "CAPTURED", "FAILED", "CANCELLED"}
  BY <1>6 DEF CanTransition, AllowedTransitions
<1>8. /\ q.status = ToMedusaStatus(got.payment_status)
      /\ q.payment_status = got.payment_status /\ q.raw = got.raw /\ q.pid = got.pid
      /\ q \in Row
  BY <1>1, TranslationTypes DEF Row
<1>9. Coherent(q)
  BY <1>5, <1>7, <1>8 DEF Coherent, ToMedusaStatus, FromMedusaStatus
<1>10. pay[r.pid] \in {"created", "authorized", "captured", "failed", "refunded"}
  BY <1>4 DEF TypeOK
<1>11. q.payment_status \in {"AUTHORIZED", "CAPTURED"} =>
         /\ pay[q.pid] \in {"authorized", "captured", "refunded"}
         /\ q.payment_status = "CAPTURED" => pay[q.pid] # "authorized"
  BY <1>5, <1>8, <1>10 DEF FromRaw
<1> QED
  BY <1>4, <1>5, <1>6, <1>8, <1>9, <1>11 DEF GoodRow

----------------------------------------------------------------------------
(***************************************************************************)
(* The inductive step, one part of the invariant at a time.                *)
(***************************************************************************)

LEMMA InitiatedGood ==
    ASSUME NEW s \in Sessions, NEW linked \in BOOLEAN, NEW P
    PROVE  GoodRow(P, s, InitiatedRow(linked))
BY BlankType DEF InitiatedRow, GoodRow, Coherent, FromMedusaStatus, FromRaw

LEMMA InitIInv == Init => IInv
<1> SUFFICES ASSUME Init PROVE IInv
  OBVIOUS
<1>1. RowInv
  BY InitiatedGood DEF Init, RowInv, Blank
<1>2. HookInv /\ CheckoutInv /\ JobInv /\ EventInv
  BY DEF Init, HookInv, HookOK, CheckoutInv, CheckoutOK, JobInv, EventInv,
       EventAppliedAtMostOnce, IdleHook, IdleJob, IdleCheckout
<1> QED
  BY <1>1, <1>2, InitType DEF IInv

LEMMA RowStep == IInv /\ [Next]_vars => RowInv'
<1> SUFFICES ASSUME IInv, [Next]_vars PROVE RowInv'
  OBVIOUS
<1> USE DEF IInv
<1>1. PayForward
  BY NextPayForward
<1>2. ASSUME row' = row PROVE RowInv'
  BY <1>1, <1>2, GoodForward DEF RowInv
<1>3. ASSUME NEW a, NEW s \in Sessions, NEW r, WriteRow(a, s, r), GoodRow(pay, s, r), pay' = pay
      PROVE  RowInv'
  BY <1>3 DEF RowInv, WriteRow, TypeOK
<1>4. ASSUME NEW s \in Sessions, InitiatePayment(s) PROVE RowInv'
  BY <1>4, InitiatedGood DEF InitiatePayment, RowInv, TypeOK
<1>5. ASSUME NEW w \in Handlers, WebhookWrite(w) PROVE RowInv'
  <2> DEFINE e == hook[w].ev
  <2>1. /\ e \in Events /\ Owner[e[1]] \in Sessions
        /\ Issued(e) /\ GoodRow(pay, Owner[e[1]], hook[w].snap)
    BY <1>5, ConstantsAssumption DEF WebhookWrite, HookInv, HookOK, TypeOK, Events
  <2>2. GoodRow(pay, Owner[e[1]], RowAfter(hook[w].snap, e))
    BY <2>1, RowAfterGood
  <2> QED
    BY <1>3, <1>5, <2>1, <2>2 DEF WebhookWrite
<1>6. ASSUME JobWrite PROVE RowInv'
  <2>1. job.cur \in Sessions /\ GoodRow(pay, job.cur, RowOfJob)
    BY <1>6 DEF JobWrite, JobInv, TypeOK, JobState
  <2> QED
    BY <1>3, <1>6, <2>1 DEF JobWrite, RowOfJob
<1>7. ASSUME NEW c \in Checkouts, CheckoutWrite(c) PROVE RowInv'
  <2> DEFINE s == checkout[c].s
             p == checkout[c].p
  <2>1. /\ s \in Sessions /\ p \in Attempts /\ s = Owner[p] /\ Paid(p)
        /\ GoodRow(pay, s, checkout[c].snap)
        /\ \/ AlreadyVerified(checkout[c].snap)
           \/ CanTransition(FromRaw(checkout[c].snap.raw), "AUTHORIZED")
    BY <1>7, ConstantsAssumption DEF CheckoutWrite, CheckoutInv, CheckoutOK, TypeOK
  <2>2. GoodRow(pay, s, AuthorizedRow(checkout[c].snap, p))
    BY <2>1, AuthorizedRowGood
  <2> QED
    BY <1>3, <1>7, <2>1, <2>2 DEF CheckoutWrite
<1>8. CASE UNCHANGED vars
  BY <1>2, <1>8 DEF vars
<1>9. CASE ProviderNext
  BY <1>2, <1>9 DEF ProviderNext, ProviderAuthorizes, ProviderFails, ProviderCaptures,
       ProviderRefunds, PayMoves
<1>10. CASE SessionNext
  BY <1>2, <1>4, <1>10 DEF SessionNext, DeleteSession, Age
<1>11. CASE WebhookNext
  BY <1>2, <1>5, <1>11 DEF WebhookNext, WebhookMark, WebhookRead, WebhookAbort
<1>12. CASE JobNext
  BY <1>2, <1>6, <1>12 DEF JobNext, JobScan, JobFetch, JobAbort
<1>13. CASE CheckoutNext
  BY <1>2, <1>7, <1>13 DEF CheckoutNext, CheckoutStart, HookPayment, CheckoutRead, CheckoutAbort
<1> QED
  BY <1>8, <1>9, <1>10, <1>11, <1>12, <1>13 DEF Next

\* A handler that does not move keeps its part of the invariant.
LEMMA HookFrame ==
    ASSUME TypeOK, PayForward, NEW w \in Handlers, HookOK(w), hook'[w] = hook[w], Undisturbed(w)
    PROVE  HookOK(w)'
<1> DEFINE e == hook[w].ev
           s == Owner[e[1]]
<1> SUFFICES ASSUME hook[w].pc # "idle" PROVE HookOK(w)'
  BY DEF HookOK
<1>1. e \in Events /\ s \in Sessions
  BY ConstantsAssumption DEF TypeOK, Events
<1>2. Issued(e)
  BY DEF HookOK
<1>3. Issued(hook[w].ev)'
  BY <1>1, <1>2 DEF Issued, PayForward, Events, EventType
<1>4. ASSUME hook[w].pc = "apply"
      PROVE  /\ GoodRow(pay', s, hook[w].snap)
             /\ CanTransition(hook[w].snap.payment_status, NextStatus(hook[w].snap, e))
             /\ <<w, s>> \notin stale' => hook[w].snap = row'[s]
  BY <1>1, <1>4, GoodForward DEF HookOK, Fresh, Undisturbed
<1> QED
  BY <1>3, <1>4 DEF HookOK, Fresh

LEMMA HookStep == IInv /\ [Next]_vars => HookInv'
<1> SUFFICES ASSUME IInv, [Next]_vars PROVE HookInv'
  OBVIOUS
<1> USE ConstantsAssumption DEF IInv
<1>1. PayForward
  BY NextPayForward
<1>2. ASSUME NEW w \in Handlers, hook'[w] = hook[w], Undisturbed(w) PROVE HookOK(w)'
  BY <1>1, <1>2, HookFrame DEF HookInv
<1>3. \A w \in Handlers : w \in Actors /\ w # Recon /\ w \notin Checkouts
  BY DEF Actors
<1>4. CASE UNCHANGED vars
  BY <1>2, <1>4, IdleUndisturbs DEF HookInv, vars
<1>5. CASE SessionNext \/ ProviderNext
  BY <1>2, <1>3, <1>5, EnvironmentUndisturbs DEF HookInv
<1>6. CASE JobNext
  BY <1>2, <1>3, <1>6, JobUndisturbs DEF HookInv
<1>7. ASSUME NEW c \in Checkouts, CheckoutStep(c) PROVE HookInv'
  BY <1>2, <1>3, <1>7, CheckoutUndisturbs DEF HookInv
<1>8. ASSUME NEW w \in Handlers, WebhookStep(w) PROVE HookInv'
  <2>1. \A v \in Handlers \ {w} : HookOK(v)'
    BY <1>2, <1>3, <1>8, WebhookUndisturbs
  <2>2. ASSUME NEW e \in Events, WebhookMark(w, e) PROVE HookOK(w)'
    BY <2>2 DEF WebhookMark, HookOK, TypeOK, HookState, Issued
  <2>3. ASSUME WebhookRead(w) PROVE HookOK(w)'
    <3> DEFINE e == hook[w].ev
               s == Owner[e[1]]
    <3>1. s \in Sessions /\ Issued(e) /\ GoodRow(pay, s, row[s])
      BY <2>3 DEF WebhookRead, HookInv, HookOK, RowInv, TypeOK, Events
    <3>2. CASE life[s] = "live" /\ Applies(row[s].payment_status, NextStatus(row[s], e))
      <4>1. hook'[w] = [hook[w] EXCEPT !.pc = "apply", !.snap = row[s]]
        BY <2>3, <3>2 DEF WebhookRead, TypeOK
      <4>2. hook'[w].pc = "apply" /\ hook'[w].ev = e /\ hook'[w].snap = row[s]
        BY <4>1 DEF TypeOK, HookState
      <4> QED
        BY <2>3, <3>1, <3>2, <4>2 DEF WebhookRead, HookOK, Issued, Fresh, Applies
    <3>3. CASE ~(life[s] = "live" /\ Applies(row[s].payment_status, NextStatus(row[s], e)))
      BY <2>3, <3>3 DEF WebhookRead, HookOK, IdleHook, TypeOK
    <3> QED
      BY <3>2, <3>3
  <2>4. ASSUME WebhookWrite(w) \/ WebhookAbort(w) PROVE HookOK(w)'
    BY <2>4 DEF WebhookWrite, WebhookAbort, HookOK, IdleHook, TypeOK
  <2> QED
    BY <1>8, <2>1, <2>2, <2>3, <2>4 DEF HookInv, WebhookStep
<1> QED
  BY <1>4, <1>5, <1>6, <1>7, <1>8 DEF Next, WebhookNext, WebhookStep, CheckoutNext, CheckoutStep

\* The job, while others move.
LEMMA JobFrame ==
    ASSUME TypeOK, PayForward, JobInv, job' = job, Undisturbed(Recon)
    PROVE  JobInv'
<1>1. job.todo \subseteq Sessions /\ (job.pc = "apply" => job.cur \in Sessions)
  BY DEF TypeOK, JobState
<1>2. ASSUME NEW s \in job.todo
      PROVE  /\ GoodRow(pay', s, job.rows[s])
             /\ job.rows[s].payment_status \in {"PENDING", "AUTHORIZED"}
             /\ <<Recon, s>> \notin stale' => job.rows[s] = row'[s]
  BY <1>1, GoodForward DEF JobInv, Fresh, Undisturbed
<1>3. ASSUME job.pc = "apply"
      PROVE  /\ GoodRow(pay', job.cur, RowOfJob)
             /\ CanTransition(job.rows[job.cur].payment_status, job.got.payment_status)
  BY <1>1, <1>3, GoodForward DEF JobInv
<1> QED
  BY <1>2, <1>3 DEF JobInv, Fresh, RowOfJob

\* Being done with a candidate leaves the others as they were read.
LEMMA DoneWithGood ==
    ASSUME TypeOK, NEW s \in job.todo, job' = DoneWith(s)
    PROVE  /\ job'.pc # "apply"
           /\ job'.todo \subseteq job.todo \ {s}
           /\ \A r \in job'.todo : job'.rows[r] = job.rows[r]
BY DEF DoneWith, IdleJob, TypeOK, JobState

LEMMA JobStep == IInv /\ [Next]_vars => JobInv'
<1> SUFFICES ASSUME IInv, [Next]_vars PROVE JobInv'
  OBVIOUS
<1> USE ConstantsAssumption DEF IInv
<1>1. PayForward
  BY NextPayForward
<1>2. ASSUME job' = job, Undisturbed(Recon) PROVE JobInv'
  BY <1>1, <1>2, JobFrame
<1>3. Recon \in Actors /\ Recon \notin Handlers /\ Recon \notin Checkouts
  BY DEF Actors
<1>4. CASE UNCHANGED vars
  BY <1>2, <1>4, IdleUndisturbs DEF vars
<1>5. CASE SessionNext \/ ProviderNext
  BY <1>2, <1>3, <1>5, EnvironmentUndisturbs
<1>6. ASSUME NEW w \in Handlers, WebhookStep(w) PROVE JobInv'
  BY <1>2, <1>3, <1>6, WebhookUndisturbs
<1>7. ASSUME NEW c \in Checkouts, CheckoutStep(c) PROVE JobInv'
  BY <1>2, <1>3, <1>7, CheckoutUndisturbs
<1>8. CASE JobScan
  <2>1. PICK S \in SUBSET Candidates :
          /\ job' = [job EXCEPT !.pc = "scan", !.todo = S,
                         !.rows = [s \in Sessions |-> IF s \in S THEN row[s] ELSE Blank]]
          /\ Reads(Recon, S)
    BY <1>8 DEF JobScan
  <2>2. /\ job'.pc = "scan" /\ job'.todo = S
        /\ \A s \in S : s \in Sessions /\ job'.rows[s] = row[s]
    BY <2>1 DEF TypeOK, JobState, Candidates
  <2>3. ASSUME NEW s \in S
        PROVE  GoodRow(pay, s, row[s]) /\ row[s].payment_status \in {"PENDING", "AUTHORIZED"}
    BY <2>2, <2>3 DEF Candidates, RowInv, GoodRow, Coherent
  <2> QED
    BY <1>8, <2>2, <2>3 DEF JobInv, JobScan, Fresh
<1>9. ASSUME NEW s \in job.todo, job' = DoneWith(s), pay' = pay,
             \A r \in job.todo \ {s} : <<Recon, r>> \notin stale' =>
                 <<Recon, r>> \notin stale /\ row'[r] = row[r]
      PROVE  JobInv'
  <2>1. /\ job'.pc # "apply"
        /\ \A r \in job'.todo : r \in job.todo \ {s} /\ job'.rows[r] = job.rows[r]
    BY <1>9, DoneWithGood
  <2> QED
    BY <1>9, <2>1 DEF JobInv, Fresh
<1>10. ASSUME NEW s \in Sessions, JobFetch(s) PROVE JobInv'
  <2> DEFINE r == job.rows[s]
             got == FetchedRow(r)
  <2>1. /\ s \in job.todo /\ GoodRow(pay, s, r)
        /\ r.payment_status \in {"PENDING", "AUTHORIZED"}
    BY <1>10 DEF JobFetch, JobInv
  <2>2. CASE Applies(FromMedusaStatus(r.status), got.payment_status)
    <3>1. job' = [job EXCEPT !.pc = "apply", !.cur = s, !.got = got]
      BY <1>10, <2>2 DEF JobFetch
    <3>2. /\ job'.cur = s /\ job'.got = got /\ job'.todo = job.todo /\ job'.rows = job.rows
      BY <3>1 DEF TypeOK, JobState
    <3>3. /\ GoodRow(pay, s, [got EXCEPT !.status = ToMedusaStatus(got.payment_status)])
          /\ CanTransition(r.payment_status, got.payment_status)
      BY <2>1, <2>2, FetchedRowGood
    <3>4. UNCHANGED <<pay, row, stale>>
      BY <1>10 DEF JobFetch
    <3> QED
      BY <3>2, <3>3, <3>4 DEF JobInv, Fresh, RowOfJob
  <2>3. CASE ~Applies(FromMedusaStatus(r.status), got.payment_status)
    BY <1>9, <1>10, <2>1, <2>3 DEF JobFetch
  <2> QED
    BY <2>2, <2>3
<1>11. CASE JobWrite
  <2>1. job.cur \in job.todo /\ job.todo \subseteq Sessions
    BY <1>11 DEF JobWrite, TypeOK, JobState
  <2> QED
    BY <1>3, <1>9, <1>11, <2>1 DEF JobWrite, WriteRow, TypeOK
<1>12. CASE JobAbort
  BY <1>12 DEF JobAbort, JobInv, IdleJob
<1> QED
  BY <1>4, <1>5, <1>6, <1>7, <1>8, <1>10, <1>11, <1>12
  DEF Next, WebhookNext, WebhookStep, JobNext, CheckoutNext, CheckoutStep

LEMMA CheckoutFrame ==
    ASSUME TypeOK, PayForward, NEW c \in Checkouts, CheckoutOK(c),
           checkout'[c] = checkout[c], Undisturbed(c)
    PROVE  CheckoutOK(c)'
<1> DEFINE s == checkout[c].s
           r == checkout[c].snap
<1> SUFFICES ASSUME checkout[c].pc # "idle" PROVE CheckoutOK(c)'
  BY DEF CheckoutOK
<1>1. s \in Sessions /\ checkout[c].p \in Attempts
  BY ConstantsAssumption DEF TypeOK
<1>2. Paid(checkout[c].p)'
  BY <1>1 DEF CheckoutOK, Paid, PayForward
<1>3. ASSUME checkout[c].pc = "authorized"
      PROVE  GoodRow(pay', s, r) /\ (<<c, s>> \notin stale' => r = row'[s])
  BY <1>1, <1>3, GoodForward DEF CheckoutOK, Fresh, Undisturbed
<1> QED
  BY <1>2, <1>3 DEF CheckoutOK, Fresh, AlreadyVerified

LEMMA CheckoutsStep == IInv /\ [Next]_vars => CheckoutInv'
<1> SUFFICES ASSUME IInv, [Next]_vars PROVE CheckoutInv'
  OBVIOUS
<1> USE ConstantsAssumption DEF IInv
<1>1. PayForward
  BY NextPayForward
<1>2. ASSUME NEW c \in Checkouts, checkout'[c] = checkout[c], Undisturbed(c)
      PROVE  CheckoutOK(c)'
  BY <1>1, <1>2, CheckoutFrame DEF CheckoutInv
<1>3. \A c \in Checkouts : c \in Actors /\ c # Recon /\ c \notin Handlers
  BY DEF Actors
<1>4. CASE UNCHANGED vars
  BY <1>2, <1>4, IdleUndisturbs DEF CheckoutInv, vars
<1>5. CASE SessionNext \/ ProviderNext
  BY <1>2, <1>3, <1>5, EnvironmentUndisturbs DEF CheckoutInv
<1>6. CASE JobNext
  BY <1>2, <1>3, <1>6, JobUndisturbs DEF CheckoutInv
<1>7. ASSUME NEW w \in Handlers, WebhookStep(w) PROVE CheckoutInv'
  BY <1>2, <1>3, <1>7, WebhookUndisturbs DEF CheckoutInv
<1>8. ASSUME NEW c \in Checkouts, CheckoutStep(c) PROVE CheckoutInv'
  <2>1. \A d \in Checkouts \ {c} : CheckoutOK(d)'
    BY <1>2, <1>3, <1>8, CheckoutUndisturbs
  <2>2. ASSUME NEW p \in Attempts, CheckoutStart(c, p) PROVE CheckoutOK(c)'
    BY <2>2 DEF CheckoutStart, CheckoutOK, TypeOK, CheckoutState, Paid
  <2>5. ASSUME NEW e \in Events, HookPayment(c, e) PROVE CheckoutOK(c)'
    <3> DEFINE k == [checkout[c] EXCEPT !.pc = "called", !.s = Owner[e[1]], !.p = e[1],
                                       !.signed = FALSE]
    <3>1. CASE HookAction(e) = "authorize"
      <4>1. checkout'[c] = k /\ k.pc = "called" /\ k.p = e[1]
        BY <2>5, <3>1 DEF HookPayment, TypeOK, CheckoutState
      <4>2. e[2] \in EventType /\ e[2] # "order.paid" /\ e[2] # "payment.failed"
        BY <3>1 DEF HookAction, Events
      <4>3. Paid(e[1]) /\ pay' = pay
        BY <2>5, <4>2 DEF HookPayment, OnTheBus, Issued, EventType, Paid
      <4> QED
        BY <4>1, <4>3 DEF CheckoutOK, Paid
    <3>2. CASE HookAction(e) # "authorize"
      BY <2>5, <3>2 DEF HookPayment, CheckoutOK
    <3> QED
      BY <3>1, <3>2
  <2>3. ASSUME CheckoutRead(c) PROVE CheckoutOK(c)'
    <3> DEFINE s == checkout[c].s
               Goes == /\ life[s] = "live"
                       /\ \/ AlreadyVerified(row[s])
                          \/ /\ Signed(checkout[c])
                             /\ CanTransition(FromRaw(row[s].raw), "AUTHORIZED")
    <3>1. s \in Sessions /\ Paid(checkout[c].p) /\ GoodRow(pay, s, row[s])
      BY <2>3 DEF CheckoutRead, CheckoutInv, CheckoutOK, RowInv, TypeOK
    <3>2. CASE Goes
      <4>1. checkout'[c] = [checkout[c] EXCEPT !.pc = "authorized", !.snap = row[s]]
        BY <2>3, <3>2 DEF CheckoutRead, TypeOK
      <4>2. /\ checkout'[c].pc = "authorized" /\ checkout'[c].s = s
            /\ checkout'[c].p = checkout[c].p /\ checkout'[c].snap = row[s]
        BY <4>1 DEF TypeOK, CheckoutState
      <4> QED
        BY <2>3, <3>1, <3>2, <4>2 DEF CheckoutRead, CheckoutOK, Paid, Fresh, AlreadyVerified
    <3>3. CASE ~Goes
      BY <2>3, <3>3 DEF CheckoutRead, CheckoutOK, IdleCheckout, TypeOK
    <3> QED
      BY <3>2, <3>3
  <2>4. ASSUME CheckoutWrite(c) \/ CheckoutAbort(c) PROVE CheckoutOK(c)'
    BY <2>4 DEF CheckoutWrite, CheckoutAbort, CheckoutOK, IdleCheckout, TypeOK
  <2> QED
    BY <1>8, <2>1, <2>2, <2>3, <2>4, <2>5 DEF CheckoutInv, CheckoutStep
<1> QED
  BY <1>4, <1>5, <1>6, <1>7, <1>8 DEF Next, WebhookNext, WebhookStep, CheckoutNext, CheckoutStep

LEMMA EventStep == IInv /\ [Next]_vars => EventInv'
<1> SUFFICES ASSUME IInv, [Next]_vars PROVE EventInv'
  OBVIOUS
<1> USE DEF IInv, EventInv, EventAppliedAtMostOnce
<1>1. ASSUME UNCHANGED <<processed, hook, applied>> PROVE EventInv'
  BY <1>1
<1>2. ASSUME NEW w \in Handlers, NEW e \in Events, WebhookMark(w, e) PROVE EventInv'
  <2>1. /\ \A v \in Handlers \ {w} : hook'[v] = hook[v]
        /\ hook'[w].ev = e /\ e \notin processed
        /\ processed' = processed \cup {e} /\ applied' = applied
    BY <1>2 DEF WebhookMark, TypeOK, HookState
  <2> QED
    BY <2>1
<1>3. ASSUME NEW w \in Handlers, WebhookRead(w) PROVE EventInv'
  <2>1. /\ \A v \in Handlers \ {w} : hook'[v] = hook[v]
        /\ hook[w].pc # "idle"
        /\ hook'[w].pc = "idle" \/ hook'[w].ev = hook[w].ev
        /\ processed' = processed /\ applied' = applied
    BY <1>3 DEF WebhookRead, TypeOK, HookState, IdleHook
  <2> QED
    BY <2>1
<1>4. ASSUME NEW w \in Handlers, WebhookWrite(w) \/ WebhookAbort(w) PROVE EventInv'
  <2>1. /\ \A v \in Handlers \ {w} : hook'[v] = hook[v]
        /\ hook[w].pc # "idle" /\ hook'[w].pc = "idle"
        /\ processed' = processed /\ applied' \in {applied, applied \cup {hook[w].ev}}
    BY <1>4 DEF WebhookWrite, WebhookAbort, TypeOK, IdleHook
  <2> QED
    BY <2>1
<1>5. CASE SessionNext \/ ProviderNext
  BY <1>1, <1>5, EnvironmentUndisturbs
<1>6. CASE JobNext
  BY <1>1, <1>6, JobUndisturbs
<1>7. ASSUME NEW c \in Checkouts, CheckoutStep(c) PROVE EventInv'
  BY <1>1, <1>7, CheckoutUndisturbs
<1>8. CASE UNCHANGED vars
  BY <1>1, <1>8 DEF vars
<1> QED
  BY <1>2, <1>3, <1>4, <1>5, <1>6, <1>7, <1>8 DEF Next, WebhookNext, CheckoutNext, CheckoutStep

THEOREM Invariance == Spec => []IInv
<1>1. IInv /\ [Next]_vars => IInv'
  BY NextType, RowStep, HookStep, JobStep, CheckoutsStep, EventStep DEF IInv
<1> QED
  BY <1>1, InitIInv, PTL DEF Spec

----------------------------------------------------------------------------
(***************************************************************************)
(* The properties.                                                         *)
(***************************************************************************)

\* The three places a status is stored in agree, whoever wrote the row last.
THEOREM ReadersAlwaysAgree == Spec => []ReadersAgree
<1>1. IInv => ReadersAgree
  BY DEF IInv, RowInv, GoodRow, ReadersAgree
<1> QED
  BY <1>1, Invariance, PTL

\* A session counts as paid only with a payment of its own that Razorpay
\* has authorized, and as captured only if Razorpay captured it.
THEOREM PaidSessionsNamePayments == Spec => []PaidSessionNamesItsPayment
<1>1. IInv => PaidSessionNamesItsPayment
  BY ConstantsAssumption DEF IInv, RowInv, GoodRow, PaidSessionNamesItsPayment, PaidBy, Paid
<1> QED
  BY <1>1, Invariance, PTL

\* No webhook event takes effect twice.
THEOREM EventsAppliedAtMostOnce == Spec => []EventAppliedAtMostOnce
<1>1. IInv => EventAppliedAtMostOnce
  BY DEF IInv, EventInv
<1> QED
  BY <1>1, Invariance, PTL

\* A write of a fresh reading follows the state machine.
LEMMA FreshWritesAreLegal ==
    ASSUME IInv, [Next]_vars, NEW s \in Sessions, life[s] = "live", StatusMoves(s)
    PROVE  \E a \in Actors : <<a, s>> \in stale /\ <<a, s>> \notin stale'
<1> USE ConstantsAssumption DEF IInv
<1>1. ASSUME row'[s] = row[s] PROVE FALSE
  BY <1>1 DEF StatusMoves, CanTransition
<1>2. ASSUME NEW a \in Actors, NEW q \in Sessions, NEW r, WriteRow(a, q, r),
             <<a, q>> \notin stale => CanTransition(row[q].payment_status, r.payment_status)
      PROVE  \E b \in Actors : <<b, s>> \in stale /\ <<b, s>> \notin stale'
  <2>1. q = s /\ row'[s] = r
    BY <1>1, <1>2 DEF WriteRow, TypeOK
  <2>2. <<a, s>> \in stale /\ <<a, s>> \notin stale'
    BY <1>2, <2>1 DEF WriteRow, StatusMoves
  <2> QED
    BY <2>2
<1>3. ASSUME NEW w \in Handlers, WebhookWrite(w)
      PROVE  \E b \in Actors : <<b, s>> \in stale /\ <<b, s>> \notin stale'
  <2> DEFINE e == hook[w].ev
             r == hook[w].snap
             q == Owner[e[1]]
  <2>1. /\ w \in Actors /\ q \in Sessions /\ r \in Row
        /\ CanTransition(r.payment_status, NextStatus(r, e))
        /\ <<w, q>> \notin stale => r = row[q]
    BY <1>3 DEF WebhookWrite, HookInv, HookOK, Fresh, GoodRow, TypeOK, Events, Actors
  <2>2. RowAfter(r, e).payment_status = NextStatus(r, e)
    BY <2>1 DEF RowAfter, Row
  <2>3. WriteRow(w, q, RowAfter(r, e))
    BY <1>3 DEF WebhookWrite
  <2> QED
    BY <1>2, <2>1, <2>2, <2>3
<1>4. ASSUME JobWrite
      PROVE  \E b \in Actors : <<b, s>> \in stale /\ <<b, s>> \notin stale'
  <2> DEFINE q == job.cur
  <2>1. /\ Recon \in Actors /\ q \in job.todo /\ q \in Sessions /\ job.got \in Row
        /\ CanTransition(job.rows[q].payment_status, job.got.payment_status)
        /\ <<Recon, q>> \notin stale => job.rows[q] = row[q]
    BY <1>4 DEF JobWrite, JobInv, Fresh, TypeOK, JobState, Actors
  <2>2. RowOfJob.payment_status = job.got.payment_status
    BY <2>1 DEF RowOfJob, Row
  <2>3. WriteRow(Recon, q, RowOfJob)
    BY <1>4 DEF JobWrite, RowOfJob
  <2> QED
    BY <1>2, <2>1, <2>2, <2>3
<1>5. ASSUME NEW c \in Checkouts, CheckoutWrite(c)
      PROVE  \E b \in Actors : <<b, s>> \in stale /\ <<b, s>> \notin stale'
  <2> DEFINE q == checkout[c].s
             p == checkout[c].p
             r == checkout[c].snap
  <2>1. /\ c \in Actors /\ q \in Sessions /\ p \in Attempts /\ q = Owner[p] /\ Paid(p)
        /\ GoodRow(pay, q, r)
        /\ AlreadyVerified(r) \/ CanTransition(FromRaw(r.raw), "AUTHORIZED")
        /\ <<c, q>> \notin stale => r = row[q]
    BY <1>5 DEF CheckoutWrite, CheckoutInv, CheckoutOK, Fresh, TypeOK, Actors
  <2>2. CanTransition(r.payment_status, AuthorizedRow(r, p).payment_status)
    BY <2>1, AuthorizedRowGood
  <2>3. WriteRow(c, q, AuthorizedRow(r, p))
    BY <1>5 DEF CheckoutWrite
  <2> QED
    BY <1>2, <2>1, <2>2, <2>3
<1>6. CASE UNCHANGED vars
  BY <1>1, <1>6 DEF vars
<1>7. CASE SessionNext
  <2>1. ASSUME NEW q \in Sessions, InitiatePayment(q) PROVE row'[s] = row[s]
    BY <2>1 DEF InitiatePayment, TypeOK
  <2> QED
    BY <1>1, <1>7, <2>1 DEF SessionNext, DeleteSession, Age
<1>8. CASE ProviderNext
  BY <1>1, <1>8 DEF ProviderNext, ProviderAuthorizes, ProviderFails, ProviderCaptures,
       ProviderRefunds, PayMoves
<1>9. CASE WebhookNext
  BY <1>1, <1>3, <1>9 DEF WebhookNext, WebhookMark, WebhookRead, WebhookAbort
<1>10. CASE JobNext
  BY <1>1, <1>4, <1>10 DEF JobNext, JobScan, JobFetch, JobAbort
<1>11. CASE CheckoutNext
  BY <1>1, <1>5, <1>11 DEF CheckoutNext, CheckoutStart, HookPayment, CheckoutRead, CheckoutAbort
<1> QED
  BY <1>6, <1>7, <1>8, <1>9, <1>10, <1>11 DEF Next

\* Only a lost update takes a session against the state machine.
THEOREM OnlyLostUpdatesAreIllegal == Spec => IllegalOnlyIfStale
<1>1. IInv /\ [Next]_vars =>
        [\A s \in Sessions : (life[s] = "live" /\ StatusMoves(s)) =>
            \E a \in Actors : <<a, s>> \in stale /\ <<a, s>> \notin stale']_vars
  BY FreshWritesAreLegal
<1> QED
  BY <1>1, Invariance, PTL DEF Spec, IllegalOnlyIfStale
=============================================================================
