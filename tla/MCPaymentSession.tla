-------------------------- MODULE MCPaymentSession --------------------------
(***************************************************************************)
(* Small instances of PaymentSession: the payments of each session are     *)
(* given by a function, which a configuration file cannot write down.      *)
(***************************************************************************)
EXTENDS PaymentSession, TLC

\* Every payment is made for the one session.
OneSessionOwner == [p \in Attempts |-> CHOOSE s \in Sessions : TRUE]
CONSTANTS s1, s2, p1, p2

\* Two sessions, of which the customer of the first one pays.
TwoSessionOwner == [p \in Attempts |-> s1]

\* Razorpay reports one capture to Medusa's own hook as well.
HookedCapture == {<<p1, "payment.captured">>}

\* Handlers run the same code.
HandlerSymmetry == Permutations(Handlers)
=============================================================================
