--------------------------- MODULE MCGatewaySession ---------------------------
(* Model-checking instance of GatewaySession: interchangeable constants. *)
EXTENDS GatewaySession, TLC

Symmetry == Permutations(Clients) \cup Permutations(Users) \cup Permutations(Sessions)
=============================================================================
