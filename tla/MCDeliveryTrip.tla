--------------------------- MODULE MCDeliveryTrip ---------------------------
(* TLC's view of DeliveryTrip: which constants may be exchanged.           *)
EXTENDS DeliveryTrip, TLC

Symmetry == Permutations(Riders) \union Permutations(Requests)
=============================================================================
