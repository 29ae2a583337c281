------------------------ MODULE PaymentStateMachine ------------------------
(***************************************************************************)
(* The pure part of payments: the canonical statuses, the transitions      *)
(* between them, and the three vocabularies a status is spelled in (the    *)
(* canonical one, Medusa's session status, Razorpay's raw status).         *)
(***************************************************************************)

Status == {"PENDING", "AUTHORIZED", "CAPTURED", "FAILED", "CANCELLED", "REFUNDED"}

MedusaStatus == {"pending", "authorized", "captured", "error", "canceled"}

RawStatus == {"created", "authorized", "captured", "failed", "canceled", "refunded"}

AllowedTransitions ==
    ({"PENDING"} \X {"AUTHORIZED", "CAPTURED", "FAILED", "CANCELLED"})
        \cup ({"AUTHORIZED"} \X {"CAPTURED", "FAILED", "CANCELLED"})
        \cup ({"CAPTURED"} \X {"REFUNDED"})

\* canTransition: staying put is always allowed.
CanTransition(from, to) == from = to \/ <<from, to>> \in AllowedTransitions

\* Mutation: only asks whether the status changes.
AppliesAnyChange(from, to) == from # to

\* applyTransition in its "noop" mode writes exactly when the transition is
\* valid and changes the status.
Applies(from, to) == from # to /\ CanTransition(from, to)

\* Mutation: REFUNDED and CAPTURED share a case; CAPTURED is stored as authorized.
ToMedusaStatusForgetsCapture(p) ==
    CASE p \in {"AUTHORIZED", "CAPTURED"} -> "authorized"
      [] p = "REFUNDED"  -> "captured"
      [] p = "FAILED"    -> "error"
      [] p = "CANCELLED" -> "canceled"
      [] p = "PENDING"   -> "pending"

\* The session status a canonical status is stored under. It is not injective:
\* CAPTURED and REFUNDED share one.
ToMedusaStatus(p) ==
    CASE p = "AUTHORIZED" -> "authorized"
      [] p \in {"CAPTURED", "REFUNDED"} -> "captured"
      [] p = "FAILED"    -> "error"
      [] p = "CANCELLED" -> "canceled"
      [] p = "PENDING"   -> "pending"

FromMedusaStatus(m) ==
    CASE m = "authorized" -> "AUTHORIZED"
      [] m = "captured"   -> "CAPTURED"
      [] m = "error"      -> "FAILED"
      [] m = "canceled"   -> "CANCELLED"
      [] m = "pending"    -> "PENDING"

FromRaw(z) ==
    CASE z = "created"    -> "PENDING"
      [] z = "authorized" -> "AUTHORIZED"
      [] z = "captured"   -> "CAPTURED"
      [] z = "failed"     -> "FAILED"
      [] z = "canceled"   -> "CANCELLED"
      [] z = "refunded"   -> "REFUNDED"

ToRaw(p) ==
    CASE p = "PENDING"    -> "created"
      [] p = "AUTHORIZED" -> "authorized"
      [] p = "CAPTURED"   -> "captured"
      [] p = "FAILED"     -> "failed"
      [] p = "CANCELLED"  -> "canceled"
      [] p = "REFUNDED"   -> "refunded"
=============================================================================
