------------------------------ MODULE MCPosts ------------------------------
(* The instances of Posts that TLC checks. *)
EXTENDS Posts, TLC

\* The ids, the users and the slots for requests are alike.
Symmetry ==
    Permutations(Ids) \cup Permutations(Users) \cup Permutations(Requests)
=============================================================================
