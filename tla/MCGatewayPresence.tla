--------------------------- MODULE MCGatewayPresence ---------------------------
(* Model-checking instance of GatewayPresence: interchangeable constants. *)
EXTENDS GatewayPresence, TLC

Symmetry == Permutations(Clients) \cup Permutations(Users)
=============================================================================
