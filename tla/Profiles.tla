------------------------------ MODULE Profiles ------------------------------
(***************************************************************************)
(* The user-profile service: GetProfile and UpdateProfile, which run one   *)
(* statement at a time on the table profiles, interleaved with each other. *)
(* Both create the row of a user who has none.  A row has the text columns *)
(* of a profile as one value, and CreateProfile leaves them all NULL.      *)
(***************************************************************************)
CONSTANTS
    Users, Texts,       \* who has a profile, and what it can say
    Requests,           \* slots for the requests in progress
    NoRow, NullRow,     \* no row, and a row whose text columns are NULL
    Null                \* the user and the text of an idle slot

ASSUME RowsAssumption ==
    /\ NoRow # NullRow /\ {NoRow, NullRow} \cap Texts = {}
    /\ Null \notin Users \cup Texts

VARIABLES
    profiles,   \* the table: what the row of each user holds
    req         \* the requests in progress, with the text to write or to answer

vars == <<profiles, req>>

Rows == Texts \cup {NoRow, NullRow}
Answers == {"ok", "failed"}
Pcs == {"idle", "read", "create", "update"} \cup Answers

NoRequest == [pc |-> "idle", op |-> "get", user |-> Null, text |-> Null]
RequestType == [pc : Pcs, op : {"get", "update"},
                user : Users \cup {Null}, text : Texts \cup {Null}]

Init ==
    /\ profiles = [u \in Users |-> NoRow]
    /\ req = [r \in Requests |-> NoRequest]

Goto(r, pc) == req' = [req EXCEPT ![r].pc = pc]

\* A GET of the profile of u, by anyone.
Get(r, u) ==
    /\ req[r].pc = "idle"
    /\ req' = [req EXCEPT ![r] = [pc |-> "read", op |-> "get",
                                  user |-> u, text |-> Null]]
    /\ UNCHANGED profiles

\* A PUT of u's own profile.
Put(r, u, t) ==
    /\ req[r].pc = "idle"
    /\ req' = [req EXCEPT ![r] = [pc |-> "read", op |-> "update",
                                  user |-> u, text |-> t]]
    /\ UNCHANGED profiles

\* Mutation: a GET goes on to the update.
AfterReadUpdates(r) == "update"

AfterRead(r) == IF req[r].op = "get" THEN "ok" ELSE "update"

\* Mutation: a NULL is read as an empty text.
GetProfileCoalesces(r) ==
    /\ req[r].pc = "read"
    /\ Goto(r, IF profiles[req[r].user] = NoRow THEN "create" ELSE AfterRead(r))
    /\ UNCHANGED profiles

\* The request goes on with the row it read; a GET answers with its text.
Found(r, row) ==
    req' = [req EXCEPT ![r] =
              [req[r] EXCEPT !.pc = AfterRead(r),
                             !.text = IF req[r].op = "get" THEN row ELSE @]]

\* GetProfileByUserID: no row is no error; a NULL cannot be scanned into a
\* Go string and is one.
GetProfileByUserID(r) ==
    /\ req[r].pc = "read"
    /\ LET row == profiles[req[r].user]
       IN  \/ row = NoRow /\ Goto(r, "create")
           \/ row = NullRow /\ Goto(r, "failed")
           \/ row \in Texts /\ Found(r, row)
    /\ UNCHANGED profiles

\* Mutation: ON CONFLICT DO NOTHING.
CreateProfileIgnores(r) ==
    /\ req[r].pc = "create"
    /\ profiles' = [profiles EXCEPT ![req[r].user] = IF @ = NoRow THEN NullRow ELSE @]
    /\ Goto(r, AfterRead(r))

\* Mutation: the INSERT replaces a row that is there.
CreateProfileReplaces(r) ==
    /\ req[r].pc = "create"
    /\ profiles' = [profiles EXCEPT ![req[r].user] = NullRow]
    /\ Goto(r, AfterRead(r))

\* CreateProfile: user_id is UNIQUE, so a second INSERT is an error.  A GET
\* answers with an empty profile, the one that was inserted.
CreateProfile(r) ==
    /\ req[r].pc = "create"
    /\ \/ /\ profiles[req[r].user] = NoRow
          /\ profiles' = [profiles EXCEPT ![req[r].user] = NullRow]
          /\ Goto(r, AfterRead(r))
       \/ /\ profiles[req[r].user] # NoRow
          /\ Goto(r, "failed")
          /\ UNCHANGED profiles

\* UpdateProfile: every text column is written; the row RETURNed is the
\* answer, and there is an error when there is none.
UpdateProfile(r) ==
    /\ req[r].pc = "update"
    /\ \/ /\ profiles[req[r].user] # NoRow
          /\ profiles' = [profiles EXCEPT ![req[r].user] = req[r].text]
          /\ Goto(r, "ok")
       \/ /\ profiles[req[r].user] = NoRow
          /\ Goto(r, "failed")
          /\ UNCHANGED profiles

Answer(r) ==
    /\ req[r].pc \in Answers
    /\ req' = [req EXCEPT ![r] = NoRequest]
    /\ UNCHANGED profiles

\* A statement returns an error, after or without taking effect.
StatementFails(r) ==
    /\ req[r].pc \in {"read", "create", "update"}
    /\ \/ UNCHANGED profiles
       \/ /\ req[r].pc = "create" /\ profiles[req[r].user] = NoRow
          /\ profiles' = [profiles EXCEPT ![req[r].user] = NullRow]
       \/ /\ req[r].pc = "update" /\ profiles[req[r].user] # NoRow
          /\ profiles' = [profiles EXCEPT ![req[r].user] = req[r].text]
    /\ Goto(r, "failed")

\* The service stops between any two statements and starts again.
Restart ==
    /\ req' = [r \in Requests |-> NoRequest]
    /\ UNCHANGED profiles

HandlerStep(r) ==
    \/ \E u \in Users : Get(r, u)
    \/ \E u \in Users, t \in Texts : Put(r, u, t)
    \/ GetProfileByUserID(r) \/ CreateProfile(r) \/ UpdateProfile(r)
    \/ Answer(r)

CalmNext == \E r \in Requests : HandlerStep(r)

Next == CalmNext \/ Restart \/ \E r \in Requests : StatementFails(r)

Spec == Init /\ [][Next]_vars

\* The service with no fault at all.
CalmSpec == Init /\ [][CalmNext]_vars

-----------------------------------------------------------------------------
(* Properties *)

\* Every variable has its type; a slot in use has a user, and a text when it
\* updates.
TypeOK ==
    /\ profiles \in [Users -> Rows]
    /\ req \in [Requests -> RequestType]
    /\ \A r \in Requests : req[r].pc # "idle" =>
          /\ req[r].user # Null
          /\ req[r].op = "update" => req[r].text # Null
          /\ req[r].pc = "update" => req[r].op = "update"

\* A profile that an update wrote is never lost to the automatic creation of
\* a request that read before the row existed: it goes on holding a text.
UpdateKept ==
    [][\A u \in Users : profiles[u] \in Texts => profiles'[u] \in Texts]_vars

\* The row of u holds NULLs and no request is past reading it.
Stuck(u) ==
    /\ profiles[u] = NullRow
    /\ \A r \in Requests : req[r].pc = "update" => req[r].user # u

\* What automatic creation leaves behind for good: once the row holds NULLs
\* and no update is about to write it, every later GET and every later PUT
\* of that profile fails at its read, in every order, and so it stays.
StuckStays ==
    [][\A u \in Users : Stuck(u) =>
          /\ Stuck(u)'
          /\ \A r \in Requests :
                req'[r].pc = "ok" /\ req[r].pc # "ok" => req[r].user # u]_vars

\* Overlapping requests look to their clients as if each did its work in one
\* step: a GET never answers with an empty or an old profile when an update
\* was answered before it began, although it reads and creates the row in two
\* statements.
Abstract == INSTANCE AtomicProfiles WITH
    profile <- [u \in Users |-> IF profiles[u] \in Texts THEN profiles[u] ELSE Null],
    req <- [r \in Requests |-> [req[r] EXCEPT !.pc =
                IF @ \in {"read", "create", "update"} THEN "asked" ELSE @]]

IsRegister == Abstract!Spec

\* The README of the service (user-profile/README.md:7): get a user's profile
\* by ID.  Without a fault, a GET of a profile is answered with it.
GetAnswered ==
    \A r \in Requests : req[r].op = "get" => req[r].pc # "failed"
=============================================================================
