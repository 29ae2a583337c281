------------------------- MODULE MCShipmentBooking -------------------------
(* Small instances of ShipmentBooking. *)
EXTENDS ShipmentBooking, TLC

CONSTANTS s1, s2

Event(s, st, names) == [s |-> s, status |-> st, names |-> names]

\* Two events of one parcel: the first also names our reference, the second says less when
\* it is read again from the buffer.
TwoEvents ==
    {Event(s1, "PICKUP_SCHEDULED", {"ids", "reference"}), Event(s1, "RTO_IN_TRANSIT", {"ids"})}

\* Events that name the parcel in the carrier's words only.
IdEvents == {Event(s1, "PICKUP_SCHEDULED", {"ids"}), Event(s1, "IN_TRANSIT", {"ids"})}

\* One event that names our reference.
ReferenceEvent == {Event(s1, "PICKUP_SCHEDULED", {"ids", "reference"})}

\* The buffer a crash leaves: an event of each of two parcels by the carrier's order id, one
\* about which a statement may fail every time, and one that names nothing we know.
Refused == Event(s2, "BOOKED", {"order_id"})
QueuedEvents == {Refused, Event(s1, "BOOKED", {"order_id"}), Event(s1, "BOOKED", {})}
RefusedEvents == {Refused}

\* Bounds on the way of a parcel.
Short == {"PICKUP_SCHEDULED"}
Middle == {"PICKUP_SCHEDULED", "IN_TRANSIT"}
Back == {"PICKUP_SCHEDULED", "IN_TRANSIT", "OFD", "FAILED", "RTO_INITIATED", "RTO_IN_TRANSIT"}

Crowd == Permutations(Bookers)
=============================================================================
