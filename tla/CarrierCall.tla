----------------------------- MODULE CarrierCall -----------------------------
(***************************************************************************)
(* What a caller of the carrier router may rely on, whatever the retries,  *)
(* token refreshes and circuits behind it: a call is settled without the   *)
(* carrier, or asked of it and answered in the end; a success was          *)
(* performed by the carrier; and what was settled without the carrier is   *)
(* never performed for that call.  A failure promises nothing: the carrier *)
(* may have performed the request, or perform it after the answer.         *)
(***************************************************************************)
EXTENDS Naturals

CONSTANT Calls

VARIABLES
    state,        \* [Calls -> State]
    performed     \* the calls the carrier performed a request of

portVars == <<state, performed>>

State == {"idle", "asked", "ok", "failed", "local"}

Init ==
    /\ state = [c \in Calls |-> "idle"]
    /\ performed = {}

Ask(c) ==
    /\ state[c] = "idle"
    /\ state' = [state EXCEPT ![c] = "asked"]
    /\ UNCHANGED performed

\* Refused by a check, or settled from what the shop already knows.
SettleLocally(c) ==
    /\ state[c] = "idle"
    /\ state' = [state EXCEPT ![c] = "local"]
    /\ UNCHANGED performed

\* The carrier may perform a request again: it is retried, or arrives late.
Perform(c) ==
    /\ state[c] \in {"asked", "ok", "failed"}
    /\ performed' = performed \cup {c}
    /\ UNCHANGED state

Answer(c) ==
    /\ state[c] = "asked"
    /\ \/ /\ c \in performed
          /\ state' = [state EXCEPT ![c] = "ok"]
       \/ state' = [state EXCEPT ![c] = "failed"]
    /\ UNCHANGED performed

Next == \E c \in Calls : Ask(c) \/ SettleLocally(c) \/ Perform(c) \/ Answer(c)

SafeSpec == Init /\ [][Next]_portVars

\* A call asked of the carrier is answered in the end.
Spec == SafeSpec /\ \A c \in Calls : []<>(state[c] # "asked")
=============================================================================
