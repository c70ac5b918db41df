--------------------------- MODULE MCWalletLedger ---------------------------
(* One funding of 3 pays for one of two deliveries of 2 each, or a part of *)
(* both: what is left is worth a race.                                     *)
EXTENDS WalletLedger, TLC

MCPrice  == [d \in Deliveries |-> 2]
MCAmount == [f \in Fundings |-> 3]

Symmetry == Permutations(Requests)
=============================================================================
