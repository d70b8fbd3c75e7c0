-------------------------- MODULE MCHubConnections --------------------------
(* HubConnections on a small instance: two sockets let one hub reconnect, a  *)
(* third is another hub's.                                                   *)
EXTENDS HubConnections
=============================================================================
