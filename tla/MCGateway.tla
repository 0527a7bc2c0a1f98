----------------------------- MODULE MCGateway ------------------------------
(* Gateway for TLC: sign-ups, and passwords, are interchangeable. *)
EXTENDS Gateway, TLC

Symmetry == Permutations(SignUps) \cup Permutations(Passwords)

\* The clock stands still when no call is left that can reach the limiter: what
\* the limiter and its observers would do then is seen by nobody.
ClockNeeded == Clock => \E c \in Calls : front[c].pc \in {"idle", "limit"}
=============================================================================
