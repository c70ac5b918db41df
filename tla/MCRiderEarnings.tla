-------------------------- MODULE MCRiderEarnings --------------------------
(* Numbers for TLC: two deliveries whose payouts, after commission and     *)
(* rounding, are 2 and 3, so that a withdrawal of 4 takes one of them and  *)
(* splits the other.                                                       *)
EXTENDS RiderEarnings, TLC

CONSTANTS d1, d2

MCPrice == d1 :> 3 @@ d2 :> 4

Symmetry == Permutations(Requests) \union Permutations(References)
=============================================================================
