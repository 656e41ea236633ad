-------------------------- MODULE MCGatewayPublisher --------------------------
(* Model-checking instance of GatewayPublisher: interchangeable constants. *)
EXTENDS GatewayPublisher, TLC

Symmetry == Permutations(Handlers) \cup Permutations(Workers)
=============================================================================
