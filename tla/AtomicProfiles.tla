--------------------------- MODULE AtomicProfiles ---------------------------
(***************************************************************************)
(* What a client of the user-profile service may rely on: a GET or a PUT   *)
(* does what it does in one step between its request and its answer.  A    *)
(* GET that is answered with success has the text of the last PUT that did *)
(* its work, or none before the first; a PUT that fails or is lost did     *)
(* all of its work or nothing, and does nothing later.                     *)
(***************************************************************************)
CONSTANTS Users, Texts, Requests, Null

VARIABLES
    profile,    \* the text of each user's profile
    req         \* the requests, with the text of a PUT or of the answer

store == <<profile, req>>

NoRequest == [pc |-> "idle", op |-> "get", user |-> Null, text |-> Null]

Init ==
    /\ profile = [u \in Users |-> Null]
    /\ req = [r \in Requests |-> NoRequest]

Ask(r, op, u, t) ==
    /\ req[r].pc = "idle"
    /\ req' = [req EXCEPT ![r] = [pc |-> "asked", op |-> op, user |-> u, text |-> t]]
    /\ UNCHANGED profile

Tell(r, answer, t) ==
    req' = [req EXCEPT ![r] = [pc |-> answer, op |-> req[r].op,
                               user |-> req[r].user, text |-> t]]

Get(r) ==
    /\ req[r].pc = "asked" /\ req[r].op = "get"
    /\ Tell(r, "ok", profile[req[r].user])
    /\ UNCHANGED profile

\* The text is written: success, or an error that came after it.
Put(r) ==
    /\ req[r].pc = "asked" /\ req[r].op = "update"
    /\ profile' = [profile EXCEPT ![req[r].user] = req[r].text]
    /\ \E answer \in {"ok", "failed"} : Tell(r, answer, req[r].text)

Fail(r) ==
    /\ req[r].pc = "asked"
    /\ Tell(r, "failed", req[r].text)
    /\ UNCHANGED profile

Forget(r) ==
    /\ req[r].pc \in {"ok", "failed"}
    /\ req' = [req EXCEPT ![r] = NoRequest]
    /\ UNCHANGED profile

\* The requests that are out get no answer.
Lose == req' = [r \in Requests |-> NoRequest] /\ UNCHANGED profile

\* A handler's work between request and answer.
Unseen == UNCHANGED store

Next ==
    \/ Unseen
    \/ Lose
    \/ \E r \in Requests :
          \/ Get(r) \/ Put(r) \/ Fail(r) \/ Forget(r)
          \/ \E u \in Users : \/ Ask(r, "get", u, Null)
                              \/ \E t \in Texts : Ask(r, "update", u, t)

Spec == Init /\ [][Next]_store
=============================================================================
