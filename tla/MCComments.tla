----------------------------- MODULE MCComments -----------------------------
(* The instances of Comments that TLC checks. *)
EXTENDS Comments, TLC

\* Comments, posts, users and the slots for deletions are alike.
Symmetry ==
    Permutations(Comments) \cup Permutations(Posts)
    \cup Permutations(Users) \cup Permutations(Deletions)
=============================================================================
