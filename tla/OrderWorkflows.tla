--------------------------- MODULE OrderWorkflows ---------------------------
(***************************************************************************)
(* The four workflows whose state is kept in order.metadata: fulfillment,  *)
(* returns, returns to origin and exchanges. Their states, the transitions *)
(* each of them allows, the operations that ask for a transition, the      *)
(* stock an operation moves, and what a status of the carrier asks of the  *)
(* fulfillment.                                                            *)
(***************************************************************************)
EXTENDS ShipmentStatus, Integers, Sequences

FulfillmentStatus ==
    {"requested", "ready_for_shipment", "shipped", "delivered", "delivery_failed",
     "rto_initiated", "rto_delivered"}

FulfillmentNext ==
    [requested |-> {"ready_for_shipment"},
     ready_for_shipment |-> {"shipped"},
     shipped |-> {"delivered", "delivery_failed"},
     delivered |-> {"rto_initiated"},
     delivery_failed |-> {"rto_initiated"},
     rto_initiated |-> {"rto_delivered"},
     rto_delivered |-> {}]

\* The fulfillment status a status of the shipment stands for, for those that have one.
StatusMap ==
    [BOOKED |-> "ready_for_shipment", PICKUP_SCHEDULED |-> "ready_for_shipment",
     IN_TRANSIT |-> "shipped", OFD |-> "shipped",
     DELIVERED |-> "delivered", FAILED |-> "delivery_failed", CANCELLED |-> "delivery_failed",
     RTO_INITIATED |-> "rto_initiated", RTO_IN_TRANSIT |-> "rto_initiated",
     RTO_DELIVERED |-> "rto_delivered"]

\* A target on the way forward is reached through the statuses before it; the others are
\* tried directly.
CascadeTargets(target) ==
    CASE target = "ready_for_shipment" -> <<"ready_for_shipment">>
      [] target = "shipped" -> <<"ready_for_shipment", "shipped">>
      [] target = "delivered" -> <<"ready_for_shipment", "shipped", "delivered">>
      [] OTHER -> <<target>>

ReturnNext ==
    [requested |-> {"approved"},
     approved |-> {"received"},
     received |-> {"qc_passed", "qc_failed"},
     qc_passed |-> {"refunded", "closed"},
     qc_failed |-> {"closed"},
     refunded |-> {"closed"},
     closed |-> {}]

\* Mutant: goods that failed the check may pass it after all.
RtoNext_SecondCheck ==
    [initiated |-> {"received"},
     received |-> {"qc_passed", "qc_failed"},
     qc_passed |-> {"closed"},
     qc_failed |-> {"closed", "qc_passed"},
     closed |-> {}]

RtoNext ==
    [initiated |-> {"received"},
     received |-> {"qc_passed", "qc_failed"},
     qc_passed |-> {"closed"},
     qc_failed |-> {"closed"},
     closed |-> {}]

\* No operation leads to "delivered".
ExchangeNext ==
    [requested |-> {"approved"},
     approved |-> {"return_received"},
     return_received |-> {"replacement_reserved"},
     replacement_reserved |-> {"replacement_shipped"},
     replacement_shipped |-> {"delivered", "closed"},
     delivered |-> {"closed"},
     closed |-> {}]

-----------------------------------------------------------------------------
\* The state an operation on a return, an RTO or an exchange asks for.
Target ==
    [return_approve |-> "approved", return_receive |-> "received",
     return_qc_pass |-> "qc_passed", return_qc_fail |-> "qc_failed", return_close |-> "closed",
     rto_receive |-> "received", rto_qc_pass |-> "qc_passed", rto_qc_fail |-> "qc_failed",
     rto_close |-> "closed",
     exchange_approve |-> "approved", exchange_receive_return |-> "return_received",
     exchange_reserve_replacement |-> "replacement_reserved",
     exchange_ship_replacement |-> "replacement_shipped", exchange_close |-> "closed"]

\* The movement of stock it causes, for those that cause one.
Movement ==
    [return_receive |-> "to_qc_hold", return_qc_pass |-> "qc_hold_to_sellable",
     return_qc_fail |-> "qc_hold_to_damage",
     rto_receive |-> "to_qc_hold", rto_qc_pass |-> "qc_hold_to_sellable",
     rto_qc_fail |-> "qc_hold_to_damage",
     exchange_receive_return |-> "return_to_qc_hold",
     exchange_reserve_replacement |-> "reserve_replacement",
     exchange_ship_replacement |-> "ship_replacement"]

Modes ==
    {"to_qc_hold", "qc_hold_to_sellable", "qc_hold_to_damage",
     "return_to_qc_hold", "reserve_replacement", "ship_replacement"}

MovesOf(op) == IF op \in DOMAIN Movement THEN {Movement[op]} ELSE {}

\* Stock locations, and what one unit of a movement adds to each of them.
Buckets == {"sellable", "qc_hold", "damage", "exchange_hold"}

NoAdjustment == [b \in Buckets |-> 0]

ReturnAdjustment(mode) ==
    CASE mode = "to_qc_hold" -> [NoAdjustment EXCEPT !["qc_hold"] = 1]
      [] mode = "qc_hold_to_sellable" ->
            [NoAdjustment EXCEPT !["qc_hold"] = -1, !["sellable"] = 1]
      [] mode = "qc_hold_to_damage" ->
            [NoAdjustment EXCEPT !["qc_hold"] = -1, !["damage"] = 1]
      [] OTHER -> NoAdjustment

\* The RTO workflow has its own copy of the same three movements.
RtoAdjustment(mode) == ReturnAdjustment(mode)

ExchangeAdjustment(mode) ==
    CASE mode = "return_to_qc_hold" -> [NoAdjustment EXCEPT !["qc_hold"] = 1]
      [] mode = "reserve_replacement" ->
            [NoAdjustment EXCEPT !["sellable"] = -1, !["exchange_hold"] = 1]
      [] mode = "ship_replacement" -> [NoAdjustment EXCEPT !["exchange_hold"] = -1]
      [] OTHER -> NoAdjustment
=============================================================================
