------------------------- MODULE MCDeliveryGateway -------------------------
(* TLC's view of DeliveryGateway: which constants may be exchanged.        *)
EXTENDS DeliveryGateway, TLC

Symmetry == Permutations(Services) \union Permutations(Sockets)
=============================================================================
