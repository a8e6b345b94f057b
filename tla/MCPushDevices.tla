--------------------------- MODULE MCPushDevices ---------------------------
(* Push notifications with the members and browsers of a configuration.    *)
EXTENDS PushDevices
=============================================================================
