----------------------------- MODULE MCProfiles -----------------------------
(* The instances of Profiles that TLC checks. *)
EXTENDS Profiles, TLC

\* The users, the texts and the slots for requests are alike.
Symmetry ==
    Permutations(Users) \cup Permutations(Texts) \cup Permutations(Requests)
=============================================================================
