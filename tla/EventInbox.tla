----------------------------- MODULE EventInbox -----------------------------
(***************************************************************************)
(* What the carrier and an operator may rely on when an event is sent to   *)
(* the webhook, whatever bookings, replays, redeliveries and failed        *)
(* requests do meanwhile.  An event is answered only once it is kept for   *)
(* later or recorded.  It is recorded once, with what it says, or with     *)
(* what can still be told of it if it had been kept.  It is struck off     *)
(* the kept events only when it is recorded, and nothing kept, recorded or *)
(* answered is ever taken back.                                            *)
(***************************************************************************)

CONSTANTS
    Events,
    Says,         \* the status of each event as it is delivered
    Retold        \* ... and as it is read again from what was kept of it

VARIABLES
    issued,       \* the events the carrier has sent
    kept,         \* the events kept for later
    recorded,     \* the status each event is recorded with, or "none"
    answered,     \* the events the carrier was told to have arrived
    settled       \* the kept events that need no further attention

inboxVars == <<issued, kept, recorded, answered, settled>>

\* What was kept and answered before a crash is still there.
Init ==
    /\ issued \subseteq Events
    /\ kept \subseteq issued
    /\ recorded = [e \in Events |-> "none"]
    /\ answered = kept
    /\ settled = {}

Issue ==
    /\ issued \subseteq issued' /\ issued' \subseteq Events
    /\ UNCHANGED <<kept, recorded, answered, settled>>

Keep(e) ==
    /\ e \in issued
    /\ kept' = kept \cup {e}
    /\ answered' = answered \cup {e}
    /\ UNCHANGED <<issued, recorded, settled>>

Enter(e, status) ==
    /\ recorded[e] = "none"
    /\ recorded' = [recorded EXCEPT ![e] = status]
    /\ UNCHANGED <<issued, kept, answered, settled>>

EnterDelivered(e) == e \in issued /\ Enter(e, Says[e])

EnterKept(e) == e \in kept /\ Enter(e, Retold[e])

Confirm(e) ==
    /\ recorded[e] # "none"
    /\ answered' = answered \cup {e}
    /\ UNCHANGED <<issued, kept, recorded, settled>>

Settle(e) ==
    /\ e \in kept /\ recorded[e] # "none"
    /\ settled' = settled \cup {e}
    /\ UNCHANGED <<issued, kept, recorded, answered>>

Next ==
    \/ Issue
    \/ \E e \in Events :
        Keep(e) \/ EnterDelivered(e) \/ EnterKept(e) \/ Confirm(e) \/ Settle(e)

Spec == Init /\ [][Next]_inboxVars
=============================================================================
