--------------------------- MODULE PaymentSession ---------------------------
(***************************************************************************)
(* The life of Razorpay payment sessions. A session is one database row    *)
(* that three kinds of actors read, decide about and overwrite without a   *)
(* lock: the webhook pipeline (one handler per delivery), the              *)
(* reconciliation job, and the checkout route or Medusa's payment hook     *)
(* that authorizes the session.                                            *)
(* Every database or provider call is a step of its own, so a step of      *)
(* another actor may fall between a read and the write it leads to.        *)
(***************************************************************************)
EXTENDS PaymentStateMachine, Naturals, FiniteSets

CONSTANTS
    Sessions,      \* payment sessions of the shop
    Attempts,      \* payments a customer makes at Razorpay
    Owner,         \* the session each payment is made for (notes.session_id)
    Handlers,      \* webhook requests in flight at the same time
    Checkouts,     \* authorize requests in flight at the same time
    HookEvents,    \* events Razorpay also sends to /hooks/payment
    Recon,         \* the reconciliation job
    NoPay,         \* "no razorpay_payment_id in the session data"
    NoSession,
    MaxSessions    \* PAYMENTS_RECONCILIATION_MAX_SESSIONS

ASSUME ConstantsAssumption ==
    /\ Owner \in [Attempts -> Sessions]
    /\ NoPay \notin Attempts
    /\ NoSession \notin Sessions
    /\ Recon \notin Handlers \cup Checkouts
    /\ Handlers \cap Checkouts = {}
    /\ MaxSessions \in Nat \ {0}

VARIABLES
    pay,        \* Razorpay's own state of each payment
    life,       \* whether a session row exists
    row,        \* the session rows
    aged,       \* sessions not updated for PAYMENTS_RECONCILIATION_STUCK_MINUTES
    processed,  \* table payment_webhook_events
    hooked,     \* table razorpay_webhook_events
    hook,       \* webhook handlers
    job,        \* the reconciliation job
    checkout,   \* authorizations, by the browser or by /hooks/payment
    applied,    \* history: events whose effect was written to a row
    stale       \* history: <<actor, session>> where the row was overwritten
                \* after the actor last read it

vars == <<pay, life, row, aged, processed, hooked, hook, job, checkout, applied, stale>>

EventType == {"payment.authorized", "payment.captured", "order.paid", "payment.failed"}
Events == Attempts \X EventType

Actors == Handlers \cup Checkouts \cup {Recon}

(***************************************************************************)
(* A row: session.status, and the fields of session.data that decisions    *)
(* depend on. proof stands for verified_at or authorized_at being set,     *)
(* linked for an order id in the data (order_id, completed_order_id).      *)
(***************************************************************************)
Row == [status : MedusaStatus, payment_status : Status, raw : RawStatus,
        pid : Attempts \cup {NoPay}, proof : BOOLEAN, linked : BOOLEAN]

InitiatedRow(linked) ==
    [status |-> "pending", payment_status |-> "PENDING", raw |-> "created",
     pid |-> NoPay, proof |-> FALSE, linked |-> linked]

Blank == InitiatedRow(FALSE)

IdleHook == [pc |-> "idle", ev |-> <<NoPay, "payment.failed">>, snap |-> Blank]
IdleJob == [pc |-> "idle", todo |-> {}, rows |-> [s \in Sessions |-> Blank],
            cur |-> NoSession, got |-> Blank]
IdleCheckout == [pc |-> "idle", s |-> NoSession, p |-> NoPay, signed |-> FALSE,
                 snap |-> Blank]

Init ==
    /\ pay = [p \in Attempts |-> "created"]
    /\ life = [s \in Sessions |-> "none"]
    /\ row = [s \in Sessions |-> Blank]
    /\ aged = {}
    /\ processed = {}
    /\ hooked = {}
    /\ hook = [w \in Handlers |-> IdleHook]
    /\ job = IdleJob
    /\ checkout = [c \in Checkouts |-> IdleCheckout]
    /\ applied = {}
    /\ stale = {}

----------------------------------------------------------------------------
(***************************************************************************)
(* Reading and writing a row. updatePaymentSession overwrites status and   *)
(* data with what it is given and touches updated_at.                      *)
(***************************************************************************)

WriteRow(a, s, r) ==
    /\ life[s] = "live"
    /\ row' = [row EXCEPT ![s] = r]
    /\ aged' = aged \ {s}
    /\ stale' = (stale \cup (Actors \X {s})) \ {<<a, s>>}

Reads(a, S) == stale' = stale \ ({a} \X S)

\* Razorpay's initiatePayment, called when Medusa creates the session.
InitiatePayment(s) ==
    /\ life[s] = "none"
    /\ life' = [life EXCEPT ![s] = "live"]
    /\ \E linked \in BOOLEAN : row' = [row EXCEPT ![s] = InitiatedRow(linked)]
    /\ stale' = stale \cup (Actors \X {s})
    /\ UNCHANGED <<pay, aged, processed, hook, job, checkout, applied, hooked>>

\* Deleting the session (a cart switching to cash on delivery) asks the
\* provider first; cancelPayment refuses a paid or failed payment.
DeleteSession(s) ==
    /\ life[s] = "live"
    /\ row[s].raw \in {"created", "canceled"}
    /\ life' = [life EXCEPT ![s] = "deleted"]
    /\ UNCHANGED <<pay, row, aged, processed, hook, job, checkout, applied, stale, hooked>>

\* The row's updated_at falls behind the threshold of the job.
Age(s) ==
    /\ life[s] = "live" /\ s \notin aged
    /\ aged' = aged \cup {s}
    /\ UNCHANGED <<pay, life, row, processed, hook, job, checkout, applied, stale, hooked>>

----------------------------------------------------------------------------
(***************************************************************************)
(* Razorpay (external). A customer may need several payments for one order *)
(* and at most one of them succeeds.                                       *)
(***************************************************************************)

Paid(p) == pay[p] \in {"authorized", "captured", "refunded"}

PayMoves(p, from, to) ==
    /\ pay[p] = from
    /\ life[Owner[p]] # "none"
    /\ pay' = [pay EXCEPT ![p] = to]
    /\ UNCHANGED <<life, row, aged, processed, hook, job, checkout, applied, stale, hooked>>

ProviderAuthorizes(p) ==
    /\ \A q \in Attempts : Owner[q] = Owner[p] => ~Paid(q)
    /\ PayMoves(p, "created", "authorized")
ProviderFails(p) == PayMoves(p, "created", "failed")
ProviderCaptures(p) == PayMoves(p, "authorized", "captured")
ProviderRefunds(p) == PayMoves(p, "captured", "refunded")

\* The webhooks Razorpay has issued; it may deliver one late, twice or never.
Issued(e) ==
    LET z == pay[e[1]]
    IN  CASE e[2] = "payment.authorized" -> z \in {"authorized", "captured", "refunded"}
          [] e[2] \in {"payment.captured", "order.paid"} -> z \in {"captured", "refunded"}
          [] e[2] = "payment.failed" -> z = "failed"

----------------------------------------------------------------------------
(***************************************************************************)
(* processSharedPaymentWebhook. A delivery whose signature or mapping is   *)
(* refused changes nothing and is not modelled.                            *)
(***************************************************************************)

\* toPaymentStatusFromRazorpayEvent
EventStatus(e) ==
    CASE e[2] = "payment.authorized" -> "AUTHORIZED"
      [] e[2] \in {"payment.captured", "order.paid"} -> "CAPTURED"
      [] e[2] = "payment.failed" -> "FAILED"

\* Mutation: the canonical status stored where Razorpay's own word belongs.
EventRawUnconverted(e) == EventStatus(e)

\* entity.status of the payment the event carries
EventRaw(e) == ToRaw(EventStatus(e))

\* resolveNextPaymentStatus: a capture that no order is linked to yet counts
\* as an authorization only.
NextStatus(r, e) ==
    IF EventStatus(e) = "CAPTURED" /\ ~r.linked THEN "AUTHORIZED" ELSE EventStatus(e)

\* Mutation: ...providerRefs spread before ...session.data.
RowAfterKeepsRefs(r, e) ==
    [r EXCEPT !.status = ToMedusaStatus(NextStatus(r, e)),
              !.payment_status = NextStatus(r, e)]

\* The row the pipeline writes: the snapshot, the provider references and the
\* new status. toRazorpayRefs stamps authorized_at unless the payment failed.
RowAfter(r, e) ==
    [r EXCEPT !.status = ToMedusaStatus(NextStatus(r, e)),
              !.payment_status = NextStatus(r, e),
              !.raw = EventRaw(e),
              !.pid = e[1],
              !.proof = @ \/ EventRaw(e) # "failed"]

\* Mutation: the insert into payment_webhook_events is not checked.
WebhookMarkAnyway(w, e) ==
    /\ hook[w].pc = "idle"
    /\ Issued(e)
    /\ processed' = processed \cup {e}
    /\ hook' = [hook EXCEPT ![w] = [@ EXCEPT !.pc = "marked", !.ev = e]]
    /\ UNCHANGED <<pay, life, row, aged, job, checkout, applied, stale, hooked>>

\* markProcessed: INSERT ... ON CONFLICT DO NOTHING. A delivery of a recorded
\* event is acknowledged and changes nothing.
WebhookMark(w, e) ==
    /\ hook[w].pc = "idle"
    /\ Issued(e) /\ e \notin processed
    /\ processed' = processed \cup {e}
    /\ hook' = [hook EXCEPT ![w] = [@ EXCEPT !.pc = "marked", !.ev = e]]
    /\ UNCHANGED <<pay, life, row, aged, job, checkout, applied, stale, hooked>>

\* getPaymentSessionState and the transition: a missing session is an error, an
\* invalid or idempotent transition ends the request with nothing written.
WebhookRead(w) ==
    LET s == Owner[hook[w].ev[1]]
        r == row[s]
    IN  /\ hook[w].pc = "marked"
        /\ hook' = [hook EXCEPT ![w] =
                        IF life[s] = "live"
                             /\ Applies(r.payment_status, NextStatus(r, hook[w].ev))
                        THEN [@ EXCEPT !.pc = "apply", !.snap = r]
                        ELSE IdleHook]
        /\ Reads(w, {s})
        /\ UNCHANGED <<pay, life, row, aged, processed, job, checkout, applied, hooked>>

WebhookWrite(w) ==
    /\ hook[w].pc = "apply"
    /\ WriteRow(w, Owner[hook[w].ev[1]], RowAfter(hook[w].snap, hook[w].ev))
    /\ applied' = applied \cup {hook[w].ev}
    /\ hook' = [hook EXCEPT ![w] = IdleHook]
    /\ UNCHANGED <<pay, life, processed, job, checkout, hooked>>

\* The process dies, or a database call of the request throws.
WebhookAbort(w) ==
    /\ hook[w].pc # "idle"
    /\ hook' = [hook EXCEPT ![w] = IdleHook]
    /\ UNCHANGED <<pay, life, row, aged, processed, job, checkout, applied, stale, hooked>>

----------------------------------------------------------------------------
(***************************************************************************)
(* runStuckPaymentReconciliation: one query for all sessions, then the     *)
(* candidates one after the other, each decided on the row of that query.  *)
(***************************************************************************)

\* Mutation: only sessions that never left pending are candidates.
CandidatesPendingOnly ==
    {s \in aged : life[s] = "live" /\ FromMedusaStatus(row[s].status) = "PENDING"}

Candidates ==
    {s \in aged : life[s] = "live"
                    /\ FromMedusaStatus(row[s].status) \in {"PENDING", "AUTHORIZED"}}

\* getPaymentStatus and mergePaymentData: without a payment id the provider is
\* not asked; an invalid transition of the raw status leaves the data alone.
FetchedRow(r) ==
    IF r.pid # NoPay /\ CanTransition(FromRaw(r.raw), FromRaw(pay[r.pid]))
    THEN [r EXCEPT !.raw = pay[r.pid], !.payment_status = FromRaw(pay[r.pid])]
    ELSE r

JobScan ==
    /\ job.pc = "idle"
    /\ \E S \in SUBSET Candidates :
        /\ S # {}
        /\ \/ S = Candidates
           \/ Cardinality(S) = MaxSessions
        /\ Cardinality(S) <= MaxSessions
        /\ job' = [job EXCEPT !.pc = "scan", !.todo = S,
                              !.rows = [s \in Sessions |->
                                            IF s \in S THEN row[s] ELSE Blank]]
        /\ Reads(Recon, S)
    /\ UNCHANGED <<pay, life, row, aged, processed, hook, checkout, applied, hooked>>

DoneWith(s) ==
    IF job.todo = {s}
    THEN IdleJob
    ELSE [pc |-> "scan", todo |-> job.todo \ {s}, rows |-> [job.rows EXCEPT ![s] = Blank],
          cur |-> NoSession, got |-> Blank]

JobFetch(s) ==
    LET r == job.rows[s]
        got == FetchedRow(r)
    IN  /\ job.pc = "scan" /\ s \in job.todo
        /\ job' = IF Applies(FromMedusaStatus(r.status), got.payment_status)
                  THEN [job EXCEPT !.pc = "apply", !.cur = s, !.got = got]
                  ELSE DoneWith(s)
        /\ UNCHANGED <<pay, life, row, aged, processed, hook, checkout, applied, stale, hooked>>

JobWrite ==
    /\ job.pc = "apply"
    /\ WriteRow(Recon, job.cur,
                [job.got EXCEPT !.status = ToMedusaStatus(job.got.payment_status)])
    /\ job' = DoneWith(job.cur)
    /\ UNCHANGED <<pay, life, processed, hook, checkout, applied, hooked>>

\* The provider cannot be reached, the update throws or the process dies: the
\* rest of the scan is given up.
JobAbort ==
    /\ job.pc # "idle"
    /\ job' = IdleJob
    /\ UNCHANGED <<pay, life, row, aged, processed, hook, checkout, applied, stale, hooked>>

----------------------------------------------------------------------------
(***************************************************************************)
(* POST /store/carts/:id/payments/razorpay/authorize and Medusa's own hook *)
(* for payments, and the provider's authorizePayment both of them reach    *)
(* through the payment module.                                             *)
(***************************************************************************)

Completed(r) ==
    r.status \in {"authorized", "captured"} \/ r.raw \in {"authorized", "captured"} \/ r.proof

AlreadyVerified(r) == r.proof /\ r.pid # NoPay /\ r.raw \in {"authorized", "captured"}

\* The browser returns from Razorpay with a signature for payment p. A completed
\* session is answered at once.
CheckoutStart(c, p) ==
    /\ checkout[c].pc = "idle"
    /\ Paid(p) /\ life[Owner[p]] = "live"
    /\ ~Completed(row[Owner[p]])
    /\ checkout' = [checkout EXCEPT ![c] =
                        [@ EXCEPT !.pc = "called", !.s = Owner[p], !.p = p,
                                  !.signed = TRUE]]
    /\ UNCHANGED <<pay, life, row, aged, processed, hook, job, applied, stale, hooked>>

\* POST /hooks/payment puts the event on the bus, which delivers it some seconds later,
\* and again if its handler fails.
OnTheBus(e) == Issued(e) /\ e \in HookEvents

\* mapWebhookAction
HookAction(e) ==
    CASE e[2] \in {"payment.authorized", "payment.captured"} -> "authorize"
      [] e[2] = "payment.failed" -> "none"
      [] e[2] = "order.paid" -> "not_supported"

\* getWebhookActionAndData notes the event in a table of its own, so that a repeated
\* delivery changes nothing, and leaves the rest to Medusa, which authorizes the session
\* as it would for a browser that brings no signature.
HookPayment(c, e) ==
    /\ checkout[c].pc = "idle"
    /\ OnTheBus(e) /\ e \notin hooked
    /\ HookAction(e) # "not_supported"
    /\ hooked' = hooked \cup {e}
    /\ checkout' = IF HookAction(e) = "authorize"
                   THEN [checkout EXCEPT ![c] = [@ EXCEPT !.pc = "called", !.s = Owner[e[1]],
                                                          !.p = e[1], !.signed = FALSE]]
                   ELSE checkout
    /\ UNCHANGED <<pay, life, row, aged, processed, hook, job, applied, stale>>

\* resolveAuthorizePayload and verifyCheckoutSignature: Razorpay signs the order and the
\* payment for the browser, once it has authorized the payment.
Signed(k) == k.signed

\* The payment module reads the session again and calls authorizePayment, which
\* throws on an invalid transition of the raw status.
CheckoutRead(c) ==
    LET s == checkout[c].s
        r == row[s]
    IN  /\ checkout[c].pc = "called"
        /\ checkout' = [checkout EXCEPT ![c] =
                            IF life[s] = "live"
                                 /\ \/ AlreadyVerified(r)
                                    \/ /\ Signed(checkout[c])
                                       /\ CanTransition(FromRaw(r.raw), "AUTHORIZED")
                            THEN [@ EXCEPT !.pc = "authorized", !.snap = r]
                            ELSE IdleCheckout]
        /\ Reads(c, {s})
        /\ UNCHANGED <<pay, life, row, aged, processed, hook, job, applied, hooked>>

AuthorizedRow(r, p) ==
    IF AlreadyVerified(r)
    THEN [r EXCEPT !.status = ToMedusaStatus(r.payment_status)]
    ELSE [r EXCEPT !.status = "authorized", !.payment_status = "AUTHORIZED",
                   !.raw = "authorized", !.pid = p, !.proof = TRUE]

CheckoutWrite(c) ==
    /\ checkout[c].pc = "authorized"
    /\ WriteRow(c, checkout[c].s, AuthorizedRow(checkout[c].snap, checkout[c].p))
    /\ checkout' = [checkout EXCEPT ![c] = IdleCheckout]
    /\ UNCHANGED <<pay, life, processed, hook, job, applied, hooked>>

CheckoutAbort(c) ==
    /\ checkout[c].pc # "idle"
    /\ checkout' = [checkout EXCEPT ![c] = IdleCheckout]
    /\ UNCHANGED <<pay, life, row, aged, processed, hook, job, applied, stale, hooked>>

----------------------------------------------------------------------------
SessionNext == \E s \in Sessions : InitiatePayment(s) \/ DeleteSession(s) \/ Age(s)

ProviderNext ==
    \E p \in Attempts : ProviderAuthorizes(p) \/ ProviderFails(p)
                            \/ ProviderCaptures(p) \/ ProviderRefunds(p)

WebhookNext ==
    \E w \in Handlers : \/ \E e \in Events : WebhookMark(w, e)
                        \/ WebhookRead(w) \/ WebhookWrite(w) \/ WebhookAbort(w)

JobNext == JobScan \/ (\E s \in Sessions : JobFetch(s)) \/ JobWrite \/ JobAbort

CheckoutNext ==
    \E c \in Checkouts : \/ \E p \in Attempts : CheckoutStart(c, p)
                         \/ \E e \in Events : HookPayment(c, e)
                         \/ CheckoutRead(c) \/ CheckoutWrite(c) \/ CheckoutAbort(c)

Next == SessionNext \/ ProviderNext \/ WebhookNext \/ JobNext \/ CheckoutNext

Spec == Init /\ [][Next]_vars

(***************************************************************************)
(* Fairness. The cron schedule starts the job again and again (weak) and   *)
(* time passes; a call to Razorpay and the database update behind it       *)
(* succeed again and again if they are tried again and again (strong),     *)
(* because each run of the job may be aborted. Nothing is assumed of       *)
(* customers, of webhook deliveries or of checkouts.                       *)
(***************************************************************************)
FairSpec ==
    /\ Spec
    /\ \A s \in Sessions : WF_vars(Age(s)) /\ SF_vars(JobFetch(s))
    /\ WF_vars(JobScan)
    /\ SF_vars(JobWrite)
----------------------------------------------------------------------------
(***************************************************************************)
(* Properties.                                                             *)
(***************************************************************************)

HookState == [pc : {"idle", "marked", "apply"},
              ev : Events \cup {<<NoPay, "payment.failed">>}, snap : Row]
JobState == [pc : {"idle", "scan", "apply"}, todo : SUBSET Sessions,
             rows : [Sessions -> Row], cur : Sessions \cup {NoSession}, got : Row]
CheckoutState == [pc : {"idle", "called", "authorized"}, s : Sessions \cup {NoSession},
                  p : Attempts \cup {NoPay}, signed : BOOLEAN, snap : Row]

\* The types of the variables; an actor in the middle of a request knows which
\* event or session the request is about.
TypeOK ==
    /\ pay \in [Attempts -> {"created", "authorized", "captured", "failed", "refunded"}]
    /\ life \in [Sessions -> {"none", "live", "deleted"}]
    /\ row \in [Sessions -> Row]
    /\ aged \subseteq Sessions
    /\ processed \subseteq Events
    /\ hooked \subseteq Events
    /\ hook \in [Handlers -> HookState]
    /\ \A w \in Handlers : hook[w].pc # "idle" => hook[w].ev \in Events
    /\ job \in JobState
    /\ job.pc = "apply" => job.cur \in job.todo
    /\ checkout \in [Checkouts -> CheckoutState]
    /\ \A c \in Checkouts :
        checkout[c].pc # "idle" => checkout[c].p \in Attempts /\ checkout[c].s = Owner[checkout[c].p]
    /\ applied \subseteq Events
    /\ stale \subseteq Actors \X Sessions

\* The webhook pipeline decides from data.payment_status, the job from
\* session.status and the provider service from data.razorpay_payment_status.
\* Whoever wrote the row last, the three never tell conflicting stories: the
\* first two name the same status, and the raw status may only run ahead of
\* them, when the capture of an unlinked session was recorded as authorization.
Coherent(r) ==
    /\ FromMedusaStatus(r.status) = r.payment_status
    /\ \/ FromRaw(r.raw) = r.payment_status
       \/ r.raw = "captured" /\ r.payment_status = "AUTHORIZED"
ReadersAgree == \A s \in Sessions : Coherent(row[s])

\* A session that counts as paid names the payment that paid it: a session is
\* AUTHORIZED or CAPTURED only with the id of a payment of its own that Razorpay
\* has authorized, and CAPTURED only if Razorpay has captured that payment, no
\* matter which requests overlapped and which failed payments came before.
PaidBy(s, r) ==
    r.payment_status \in {"AUTHORIZED", "CAPTURED"} =>
        /\ r.pid \in Attempts
        /\ Owner[r.pid] = s
        /\ Paid(r.pid)
        /\ r.payment_status = "CAPTURED" => pay[r.pid] # "authorized"
PaidSessionNamesItsPayment == \A s \in Sessions : PaidBy(s, row[s])

\* However often Razorpay delivers an event, and whatever fails in between, it is
\* written to its session at most once: no handler works on an event that was
\* applied or that another handler works on.
EventAppliedAtMostOnce ==
    \A w \in Handlers : hook[w].pc # "idle" =>
        /\ hook[w].ev \notin applied
        /\ \A v \in Handlers \ {w} : hook[v].pc # "idle" => hook[v].ev # hook[w].ev

\* A session's status moves along the state machine, except where an actor
\* overwrites a row that changed after it had read it: lost updates are the only
\* source of illegal transitions.
StatusMoves(s) == ~CanTransition(row[s].payment_status, row'[s].payment_status)
IllegalOnlyIfStale ==
    [][\A s \in Sessions : (life[s] = "live" /\ StatusMoves(s)) =>
            \E a \in Actors : <<a, s>> \in stale /\ <<a, s>> \notin stale']_vars

\* docs/payments/webhooks.md:97: "transitions flow through shared state machine
\* only", and invalid backward ones are skipped. Stated of the stored status.
NoIllegalTransition ==
    [][\A s \in Sessions : life[s] = "live" => ~StatusMoves(s)]_vars

\* docs/payments/reconciliation.md:5: reconciliation "is the safety net for missed
\* or delayed webhooks": a captured payment does not leave its session PENDING.
SafetyNet ==
    \A p \in Attempts :
        (pay[p] = "captured" /\ life[Owner[p]] = "live" /\ row[Owner[p]].payment_status = "PENDING")
            ~> (row[Owner[p]].payment_status # "PENDING" \/ life[Owner[p]] # "live")

\* Once a session names its payment, the job finishes what the webhook left
\* undone (its CAPTURED event lost, or taken for an authorization because no order
\* was linked): if the payment stays captured, the session becomes CAPTURED.
CapturedEventually ==
    \A p \in Attempts :
        (pay[p] = "captured" /\ row[Owner[p]].payment_status = "AUTHORIZED" /\ row[Owner[p]].pid = p)
            ~> (row[Owner[p]].payment_status # "AUTHORIZED" \/ pay[p] = "refunded")
=============================================================================
