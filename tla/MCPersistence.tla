---------------------------- MODULE MCPersistence ----------------------------
(* Instances of Persistence for TLC; the bounds are in the configurations. *)
EXTENDS Persistence, TLC

=============================================================================
