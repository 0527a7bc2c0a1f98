----------------------------- MODULE MCSessions -----------------------------
(* The instance of Sessions that TLC checks. *)
EXTENDS Sessions, TLC

\* The tokens and the slots for requests are alike.
Symmetry == Permutations(Tokens) \cup Permutations(Requests)
=============================================================================
