------------------------ MODULE MCPaymentSettlement ------------------------
(* Instances of PaymentSettlement for TLC. *)
EXTENDS PaymentSettlement, TLC

(* Handlers are alike, and so are payments: a state and its image under a  *)
(* permutation of either satisfy the same invariants and action properties.*)
(* Liveness is checked without symmetry.                                   *)
Symmetry == Permutations(Handlers) \union Permutations(Payments)
=============================================================================
