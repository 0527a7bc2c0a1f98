----------------------------- MODULE MCRegistry -----------------------------
(* The instances of Registry that TLC checks. *)
EXTENDS Registry, TLC

\* The containers of a service and the registry's request slots are alike.
Symmetry == Permutations(Addresses) \cup Permutations(Handlers)
=============================================================================
