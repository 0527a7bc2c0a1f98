----------------------------- MODULE Ownership -----------------------------
(***************************************************************************)
(* What the other services may rely on about posts: a post is nobody's     *)
(* until it is stored, then its author's, the same for good, until it is   *)
(* deleted; an id never comes back.                                        *)
(***************************************************************************)
CONSTANTS Posts, Users, Nobody

VARIABLES
    owner,    \* whose each post is
    gone      \* the posts that were deleted

Init ==
    /\ owner = [p \in Posts |-> Nobody]
    /\ gone = {}

Appear(p, u) ==
    /\ owner[p] = Nobody /\ p \notin gone
    /\ owner' = [owner EXCEPT ![p] = u]
    /\ UNCHANGED gone

Vanish(p) ==
    /\ owner[p] # Nobody
    /\ owner' = [owner EXCEPT ![p] = Nobody]
    /\ gone' = gone \cup {p}

Next == \E p \in Posts : Vanish(p) \/ \E u \in Users : Appear(p, u)

Spec == Init /\ [][Next]_<<owner, gone>>
=============================================================================
