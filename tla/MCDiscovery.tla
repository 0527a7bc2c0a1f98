---------------------------- MODULE MCDiscovery ----------------------------
(* The instances of Discovery that TLC checks. *)
EXTENDS Discovery
=============================================================================
