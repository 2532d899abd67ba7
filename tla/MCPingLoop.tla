----------------------------- MODULE MCPingLoop -----------------------------
(* Instances of PingLoop for TLC. *)
EXTENDS PingLoop

CONSTANTS a, b

=============================================================================
