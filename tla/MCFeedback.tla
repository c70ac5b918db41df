----------------------------- MODULE MCFeedback -----------------------------
(* Requests are alike, and so are deliveries. *)
EXTENDS Feedback, TLC

Symmetry == Permutations(Requests) \union Permutations(Deliveries)
=============================================================================
