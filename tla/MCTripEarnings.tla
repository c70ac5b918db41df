--------------------------- MODULE MCTripEarnings ---------------------------
(* Numbers for TLC: a delivery costs 4 and its rider gets 3, of which he   *)
(* withdraws 2, so that the earning is split.                              *)
EXTENDS TripEarnings, TLC

MCPrice == [d \in Deliveries |-> 4]

Symmetry == Permutations(Requests) \union Permutations(Tasks)
=============================================================================
