---------------------------- MODULE MCDiscovery ----------------------------
(* Discovery with the bounds of the configurations. *)
EXTENDS Discovery
=============================================================================
