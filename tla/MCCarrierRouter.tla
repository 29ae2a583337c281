--------------------------- MODULE MCCarrierRouter ---------------------------
(***************************************************************************)
(* Two calls of the kinds the router treats differently: one that changes  *)
(* something and is retried, one that is never retried, and a read that    *)
(* may take two requests.  One parcel, which may leave.                    *)
(***************************************************************************)
EXTENDS CarrierRouter

MCMethods == {"createShipment", "cancel", "track"}
MCJourney == {"PICKUP_SCHEDULED", "IN_TRANSIT"}
=============================================================================
