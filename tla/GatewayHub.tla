------------------------------ MODULE GatewayHub ------------------------------
(***************************************************************************)
(* What the views of the gateway share (internal/gateway/hub.go): its      *)
(* connections, the users behind them, and the registry.                   *)
(***************************************************************************)
CONSTANTS
  Clients,  \* connections; each is opened once
  Users,
  None

ASSUME HubAssumption == None \notin Users \cup Clients

VARIABLE registered  \* Hub.clients
=============================================================================
