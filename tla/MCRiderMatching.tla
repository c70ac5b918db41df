-------------------------- MODULE MCRiderMatching --------------------------
(* Instances of RiderMatching for TLC. *)
EXTENDS RiderMatching, TLC

(* Tasks are alike, and so are requests and riders.  Liveness is checked   *)
(* without symmetry.                                                       *)
Symmetry == Permutations(Tasks) \union Permutations(Requests) \union Permutations(Riders)
=============================================================================
