---------------------------- MODULE MCOrderFlows ----------------------------
(***************************************************************************)
(* Small instances of OrderFlows and OrderAlerts.                          *)
(***************************************************************************)
EXTENDS OrderAlerts, TLC

\* Requests and handlers run the same code, whoever takes them.
ActorSymmetry == Permutations(Actors)
=============================================================================
