--------------------------- MODULE DeliveryStatus ---------------------------
(***************************************************************************)
(* The vocabulary every component shares: the statuses of a delivery, and  *)
(* the tables by which the three API processes decide what may happen in   *)
(* each of them.  There is no central state machine in the code: every     *)
(* service carries its own list, translated here one by one.               *)
(***************************************************************************)

(* A delivery identifier for which MongoDB holds no document. *)
Absent == "absent"

(* DeliveryStatusEnum. *)
Status ==
    {"pending", "searching_rider", "rider_accepted", "rider_assigned",
     "rider_en_route_pickup", "rider_arrived_pickup", "awaiting_payment",
     "payment_confirmed", "pickup_in_progress", "picked_up", "in_transit",
     "rider_arrived_dropoff", "delivery_in_progress", "delivered",
     "completed", "cancelled", "failed", "scheduled"}

(* VALID_TRANSITIONS: where updateDeliveryStatus lets a rider go next.     *)
(* A status without an entry in the table has no successor.                *)
RiderTransitions(s) ==
    CASE s = "rider_accepted"        -> {"rider_en_route_pickup"}
      [] s = "rider_assigned"        -> {"rider_en_route_pickup"}
      [] s = "rider_en_route_pickup" -> {"rider_arrived_pickup"}
      [] s = "rider_arrived_pickup"  -> {"awaiting_payment", "pickup_in_progress"}
      [] s = "payment_confirmed"     -> {"pickup_in_progress"}
      [] s = "pickup_in_progress"    -> {"picked_up"}
      [] s = "picked_up"             -> {"in_transit"}
      [] s = "in_transit"            -> {"rider_arrived_dropoff"}
      [] s = "rider_arrived_dropoff" -> {"delivery_in_progress"}
      [] s = "delivery_in_progress"  -> {"delivered"}
      [] s = "delivered"             -> {"completed"}
      [] OTHER                       -> {}

(* allowedStatuses of initiatePayment: when a delivery may still be paid.  *)
PaymentAllowed ==
    {"awaiting_payment", "rider_arrived_pickup", "scheduled", "pending",
     "searching_rider", "rider_accepted", "rider_assigned",
     "rider_en_route_pickup"}

(* nonCancellableStatuses of the customer's cancelDelivery. *)
NonCancellable == {"delivered", "completed", "cancelled"}

(* The statuses in which acceptDelivery finds a delivery "available". *)
OpenToRiders == {"searching_rider", "pending"}

(* validStatuses of assignRider in admin-api. *)
AssignableByAdmin == {"scheduled", "pending", "searching_rider"}
=============================================================================
