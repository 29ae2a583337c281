--------------------------- MODULE ShipmentStatus ---------------------------
(***************************************************************************)
(* The statuses of a shipment, the rank that decides which of two statuses *)
(* is the newer one, and what becomes of a status on its way through the   *)
(* adapter of the carrier and through the webhook buffer.                  *)
(***************************************************************************)
EXTENDS Naturals

ShipmentStatus ==
    {"DRAFT", "BOOKING_IN_PROGRESS", "BOOKED", "PICKUP_SCHEDULED", "IN_TRANSIT", "OFD",
     "FAILED", "RTO_INITIATED", "RTO_IN_TRANSIT", "RTO_DELIVERED", "DELIVERED", "CANCELLED"}

\* SHIPMENT_STATUS_ORDER
Rank ==
    [st \in ShipmentStatus |->
        CASE st = "DRAFT" -> 0 [] st = "BOOKING_IN_PROGRESS" -> 1 [] st = "BOOKED" -> 2
          [] st = "PICKUP_SCHEDULED" -> 3 [] st = "IN_TRANSIT" -> 4 [] st = "OFD" -> 5
          [] st = "FAILED" -> 6 [] st = "RTO_INITIATED" -> 7 [] st = "RTO_IN_TRANSIT" -> 8
          [] st = "RTO_DELIVERED" -> 9 [] st = "DELIVERED" -> 10 [] st = "CANCELLED" -> 11]

\* What a parcel may do next at the carrier (external).
CarrierStep ==
    [st \in ShipmentStatus |->
        CASE st = "BOOKED" -> {"PICKUP_SCHEDULED", "CANCELLED"}
          [] st = "PICKUP_SCHEDULED" -> {"IN_TRANSIT", "CANCELLED"}
          [] st = "IN_TRANSIT" -> {"OFD"}
          [] st = "OFD" -> {"DELIVERED", "FAILED"}
          [] st = "FAILED" -> {"OFD", "RTO_INITIATED"}
          [] st = "RTO_INITIATED" -> {"RTO_IN_TRANSIT"}
          [] st = "RTO_IN_TRANSIT" -> {"RTO_DELIVERED"}
          [] OTHER -> {}]

\* The status a booking or lookup answer is read as: an answer without a status,
\* or with one the adapter does not know, counts as BOOKING_IN_PROGRESS.
AnswerStatuses(st) == {st, "BOOKING_IN_PROGRESS"}

\* A buffered event keeps its type, not its status, and the type is mapped again
\* when the event is replayed; "rto_in_transit" meets the test for "in_transit"
\* before its own.
ReplayStatus(st) == IF st = "RTO_IN_TRANSIT" THEN "IN_TRANSIT" ELSE st
=============================================================================
