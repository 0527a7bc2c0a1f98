--------------------------- MODULE ProfilesProofs ---------------------------
(***************************************************************************)
(* Profiles, for every number of users, texts and overlapping requests:    *)
(* the type invariant is inductive, and with it the table keeps what an    *)
(* update wrote, an unreadable row stays unreadable, and requests look as  *)
(* if each did its work in one step.                                       *)
(***************************************************************************)
EXTENDS Profiles, TLAPS

LEMMA InitType == Init => TypeOK
BY RowsAssumption DEF Init, TypeOK, Rows, RequestType, NoRequest, Pcs, Answers

-----------------------------------------------------------------------------
\* A step of the code in user-profile's handlers keeps the types: one that
\* moves a request along leaves its operation, user and text alone.
LEMMA GotoType ==
    ASSUME TypeOK, NEW r \in Requests, NEW pc \in Pcs, Goto(r, pc),
           req[r].pc # "idle",
           pc = "update" => req[r].op = "update",
           profiles' \in [Users -> Rows]
    PROVE  TypeOK'
<1>1. req'[r] = [req[r] EXCEPT !.pc = pc] /\ req' \in [Requests -> RequestType]
  BY DEF TypeOK, Goto, RequestType
<1>2. \A q \in Requests : q # r => req'[q] = req[q]
  BY DEF TypeOK, Goto
<1>3. req'[r].pc = pc /\ req'[r].op = req[r].op
      /\ req'[r].user = req[r].user /\ req'[r].text = req[r].text
  BY <1>1 DEF TypeOK, RequestType
<1> QED
  BY <1>1, <1>2, <1>3 DEF TypeOK

\* Where a request goes after its read or its INSERT.
LEMMA AfterReadType ==
    ASSUME TypeOK, NEW r \in Requests
    PROVE  /\ AfterRead(r) \in Pcs
           /\ AfterRead(r) = "update" => req[r].op = "update"
BY DEF TypeOK, RequestType, AfterRead, Pcs, Answers

LEMMA FoundType ==
    ASSUME TypeOK, NEW r \in Requests, NEW row \in Texts, Found(r, row),
           req[r].pc # "idle", UNCHANGED profiles
    PROVE  /\ TypeOK'
           /\ req'[r] = [pc |-> AfterRead(r), op |-> req[r].op, user |-> req[r].user,
                         text |-> IF req[r].op = "get" THEN row ELSE req[r].text]
           /\ \A q \in Requests : q # r => req'[q] = req[q]
<1>1. /\ req'[r] = [pc |-> AfterRead(r), op |-> req[r].op, user |-> req[r].user,
                    text |-> IF req[r].op = "get" THEN row ELSE req[r].text]
      /\ \A q \in Requests : q # r => req'[q] = req[q]
  BY DEF TypeOK, Found, RequestType
<1>2. req'[r] \in RequestType
  BY <1>1, AfterReadType DEF TypeOK, RequestType
<1>3. req' \in [Requests -> RequestType]
  BY <1>1, <1>2 DEF TypeOK, Found
<1> QED
  BY <1>1, <1>3, AfterReadType, RowsAssumption DEF TypeOK

LEMMA NextType == TypeOK /\ [Next]_vars => TypeOK'
<1> SUFFICES ASSUME TypeOK, [Next]_vars PROVE TypeOK'
  OBVIOUS
<1>1. ASSUME NEW r \in Requests, NEW u \in Users, Get(r, u) PROVE TypeOK'
  BY <1>1, RowsAssumption DEF Get, TypeOK, RequestType, NoRequest, Pcs
<1>2. ASSUME NEW r \in Requests, NEW u \in Users, NEW t \in Texts, Put(r, u, t)
      PROVE  TypeOK'
  BY <1>2, RowsAssumption DEF Put, TypeOK, RequestType, NoRequest, Pcs
<1>3. ASSUME NEW r \in Requests, GetProfileByUserID(r) PROVE TypeOK'
  <2>1. ASSUME NEW pc \in {"create", "failed"}, Goto(r, pc) PROVE TypeOK'
    BY <1>3, <2>1, GotoType DEF GetProfileByUserID, TypeOK, Pcs, Answers
  <2>2. ASSUME NEW row \in Texts, Found(r, row) PROVE TypeOK'
    BY <1>3, <2>2, FoundType DEF GetProfileByUserID
  <2> QED
    BY <1>3, <2>1, <2>2 DEF GetProfileByUserID
<1>4. ASSUME NEW r \in Requests, CreateProfile(r) PROVE TypeOK'
  <2>1. PICK pc \in {"failed", AfterRead(r)} : Goto(r, pc)
    BY <1>4 DEF CreateProfile
  <2>2. pc \in Pcs /\ (pc = "update" => req[r].op = "update")
    BY <2>1, AfterReadType DEF Pcs, Answers
  <2>3. profiles' \in [Users -> Rows]
    BY <1>4 DEF CreateProfile, TypeOK, Rows
  <2> QED
    BY <1>4, <2>1, <2>2, <2>3, GotoType DEF CreateProfile
<1>5. ASSUME NEW r \in Requests, UpdateProfile(r) PROVE TypeOK'
  <2>1. PICK pc \in Answers : Goto(r, pc)
    BY <1>5 DEF UpdateProfile, Answers
  <2>2. profiles' \in [Users -> Rows]
    BY <1>5 DEF UpdateProfile, TypeOK, Rows, RequestType
  <2> QED
    BY <1>5, <2>1, <2>2, GotoType DEF UpdateProfile, Answers, Pcs
<1>6. ASSUME NEW r \in Requests, Answer(r) PROVE TypeOK'
  BY <1>6 DEF Answer, TypeOK, RequestType, NoRequest, Pcs
<1>7. ASSUME NEW r \in Requests, StatementFails(r) PROVE TypeOK'
  <2>1. profiles' \in [Users -> Rows]
    BY <1>7 DEF StatementFails, TypeOK, Rows, RequestType
  <2> QED
    BY <1>7, <2>1, GotoType DEF StatementFails, Answers, Pcs
<1>8. CASE Restart
  BY <1>8 DEF Restart, TypeOK, RequestType, NoRequest, Pcs
<1>9. CASE UNCHANGED vars
  BY <1>9 DEF vars, TypeOK
<1> QED
  BY <1>1, <1>2, <1>3, <1>4, <1>5, <1>6, <1>7, <1>8, <1>9
     DEF Next, CalmNext, HandlerStep

\* Every variable has its type in every reachable state.
THEOREM ProfilesTypeCorrect == Spec => []TypeOK
<1>1. Init => TypeOK
  BY InitType
<1>2. TypeOK /\ [Next]_vars => TypeOK'
  BY NextType
<1> QED
  BY <1>1, <1>2, PTL DEF Spec

-----------------------------------------------------------------------------
\* What a step may do to the row of a user: CreateProfile fills an absent
\* one with NULLs, UpdateProfile writes a text over one that is there.
LEMMA RowStep ==
    ASSUME TypeOK, [Next]_vars, NEW u \in Users
    PROVE  \/ profiles'[u] = profiles[u]
           \/ profiles[u] = NoRow /\ profiles'[u] = NullRow
           \/ /\ profiles'[u] \in Texts
              /\ \E r \in Requests : req[r].pc = "update" /\ req[r].user = u
<1>1. ASSUME NEW r \in Requests, CreateProfile(r)
      PROVE  \/ profiles'[u] = profiles[u]
             \/ profiles[u] = NoRow /\ profiles'[u] = NullRow
  BY <1>1 DEF CreateProfile, TypeOK
<1>2. ASSUME NEW r \in Requests, UpdateProfile(r)
      PROVE  \/ profiles'[u] = profiles[u]
             \/ /\ profiles'[u] \in Texts
                /\ req[r].pc = "update" /\ req[r].user = u
  BY <1>2 DEF UpdateProfile, TypeOK, RequestType
<1>3. ASSUME NEW r \in Requests, StatementFails(r)
      PROVE  \/ profiles'[u] = profiles[u]
             \/ profiles[u] = NoRow /\ profiles'[u] = NullRow
             \/ /\ profiles'[u] \in Texts
                /\ req[r].pc = "update" /\ req[r].user = u
  BY <1>3 DEF StatementFails, TypeOK, RequestType
<1>4. ASSUME NEW r \in Requests,
             \/ \E v \in Users : Get(r, v)
             \/ \E v \in Users, t \in Texts : Put(r, v, t)
             \/ GetProfileByUserID(r) \/ Answer(r)
      PROVE  profiles' = profiles
  BY <1>4 DEF Get, Put, GetProfileByUserID, Answer
<1>5. ASSUME Restart \/ UNCHANGED vars PROVE profiles' = profiles
  BY <1>5 DEF Restart, vars
<1> QED
  BY <1>1, <1>2, <1>3, <1>4, <1>5 DEF Next, CalmNext, HandlerStep

\* A profile that an update wrote is not lost to automatic creation.
THEOREM UpdatesKept == Spec => UpdateKept
<1>1. TypeOK /\ [Next]_vars
        => [\A u \in Users : profiles[u] \in Texts => profiles'[u] \in Texts]_vars
  BY RowStep, RowsAssumption
<1> QED
  BY <1>1, ProfilesTypeCorrect, PTL DEF Spec, UpdateKept

-----------------------------------------------------------------------------
\* While the row of u holds NULLs, no step makes a request about u ready to
\* update or answers it with success, unless it was ready to update before.
LEMMA ReadFails ==
    ASSUME TypeOK, [Next]_vars, NEW r \in Requests, NEW u \in Users,
           profiles[u] = NullRow, req[r].pc = "update" => req[r].user # u
    PROVE  /\ req'[r].pc = "update" => req'[r].user # u
           /\ req'[r].pc = "ok" /\ req[r].pc # "ok" => req[r].user # u
<1> DEFINE Fine == /\ req'[r].pc = "update" => req'[r].user # u
                   /\ req'[r].pc = "ok" /\ req[r].pc # "ok" => req[r].user # u
<1>0. SUFFICES Fine
  OBVIOUS
<1>1. ASSUME NEW q \in Requests,
             \/ \E v \in Users : Get(q, v)
             \/ \E v \in Users, t \in Texts : Put(q, v, t)
             \/ Answer(q)
      PROVE  Fine
  <2>1. req'[r] = req[r] \/ req'[r].pc \in {"idle", "read"}
    <3>1. ASSUME NEW v \in Users, Get(q, v)
          PROVE  req'[r] = req[r] \/ req'[r].pc \in {"idle", "read"}
      BY <3>1 DEF TypeOK, Get, NoRequest
    <3>2. ASSUME NEW v \in Users, NEW t \in Texts, Put(q, v, t)
          PROVE  req'[r] = req[r] \/ req'[r].pc \in {"idle", "read"}
      BY <3>2 DEF TypeOK, Put
    <3>3. ASSUME Answer(q)
          PROVE  req'[r] = req[r] \/ req'[r].pc \in {"idle", "read"}
      BY <3>3 DEF TypeOK, Answer, NoRequest
    <3> QED
      BY <1>1, <3>1, <3>2, <3>3
  <2> QED
    BY <2>1
<1>2. ASSUME NEW q \in Requests, q # r,
             \/ GetProfileByUserID(q) \/ CreateProfile(q) \/ UpdateProfile(q)
             \/ StatementFails(q)
      PROVE  Fine
  <2>1. req'[r] = req[r]
    BY <1>2 DEF TypeOK, GetProfileByUserID, Found, CreateProfile, UpdateProfile,
                StatementFails, Goto
  <2> QED
    BY <2>1
<1>3. ASSUME GetProfileByUserID(r) PROVE Fine
  <2>1. CASE req[r].user = u
    <3>1. req'[r].pc = "failed"
      BY <1>3, <2>1, RowsAssumption
         DEF GetProfileByUserID, Goto, TypeOK, RequestType
    <3> QED
      BY <3>1
  <2>2. CASE req[r].user # u
    <3>1. req'[r].user = req[r].user
      <4>1. ASSUME NEW pc, Goto(r, pc) PROVE req'[r].user = req[r].user
        BY <4>1 DEF Goto, TypeOK, RequestType
      <4>2. ASSUME NEW row \in Texts, Found(r, row) PROVE req'[r].user = req[r].user
        BY <4>2 DEF Found, TypeOK, RequestType
      <4> QED
        BY <1>3, <4>1, <4>2 DEF GetProfileByUserID
    <3> QED
      BY <2>2, <3>1
  <2> QED
    BY <2>1, <2>2
<1>4. ASSUME CreateProfile(r) PROVE Fine
  <2>1. CASE req[r].user = u
    <3>1. req'[r].pc = "failed"
      BY <1>4, <2>1, RowsAssumption DEF CreateProfile, Goto, TypeOK, RequestType
    <3> QED
      BY <3>1
  <2>2. CASE req[r].user # u
    <3>1. req'[r].user = req[r].user
      BY <1>4 DEF CreateProfile, Goto, TypeOK, RequestType
    <3> QED
      BY <2>2, <3>1
  <2> QED
    BY <2>1, <2>2
<1>5. ASSUME UpdateProfile(r) PROVE Fine
  <2>1. req[r].user # u /\ req'[r].user = req[r].user
    BY <1>5 DEF UpdateProfile, Goto, TypeOK, RequestType
  <2> QED
    BY <2>1
<1>6. ASSUME StatementFails(r) PROVE Fine
  <2>1. req'[r].pc = "failed"
    BY <1>6 DEF StatementFails, Goto, TypeOK, RequestType
  <2> QED
    BY <2>1
<1>7. ASSUME Restart PROVE Fine
  BY <1>7 DEF Restart, NoRequest
<1>8. ASSUME UNCHANGED vars PROVE Fine
  BY <1>8 DEF vars
<1> QED
  BY <1>1, <1>2, <1>3, <1>4, <1>5, <1>6, <1>7, <1>8
     DEF Next, CalmNext, HandlerStep

\* What automatic creation leaves behind stays: every later GET and PUT of a
\* profile whose row holds NULLs fails.
THEOREM StuckRowsStay == Spec => StuckStays
<1> DEFINE Stays == \A u \in Users : Stuck(u) =>
             /\ Stuck(u)'
             /\ \A r \in Requests :
                   req'[r].pc = "ok" /\ req[r].pc # "ok" => req[r].user # u
<1>1. ASSUME TypeOK, [Next]_vars, NEW u \in Users, Stuck(u)
      PROVE  /\ Stuck(u)'
             /\ \A r \in Requests :
                   req'[r].pc = "ok" /\ req[r].pc # "ok" => req[r].user # u
  <2>1. profiles[u] = NullRow
        /\ \A r \in Requests : req[r].pc = "update" => req[r].user # u
    BY <1>1 DEF Stuck
  <2>2. profiles'[u] = NullRow
    BY <1>1, <2>1, RowStep, RowsAssumption
  <2>3. \A r \in Requests :
           /\ req'[r].pc = "update" => req'[r].user # u
           /\ req'[r].pc = "ok" /\ req[r].pc # "ok" => req[r].user # u
    BY <1>1, <2>1, ReadFails
  <2> QED
    BY <2>2, <2>3 DEF Stuck
<1>2. TypeOK /\ [Next]_vars => [Stays]_vars
  BY <1>1
<1> QED
  BY <1>2, ProfilesTypeCorrect, PTL DEF Spec, StuckStays

-----------------------------------------------------------------------------
(* Overlapping requests implement AtomicProfiles.                          *)

\* What a client sees of the two variables.
ProfileSeen == [u \in Users |-> IF profiles[u] \in Texts THEN profiles[u] ELSE Null]
ReqSeen == [r \in Requests |-> [req[r] EXCEPT !.pc =
                IF @ \in {"read", "create", "update"} THEN "asked" ELSE @]]
Store == <<ProfileSeen, ReqSeen>>

PcSeen(pc) == IF pc \in {"read", "create", "update"} THEN "asked" ELSE pc

\* A GET has no text before it is answered.
Blank == \A r \in Requests :
            req[r].op = "get" /\ req[r].pc \in {"read", "create"} => req[r].text = Null

IInv == TypeOK /\ Blank

LEMMA SeenTypes ==
    ASSUME TypeOK
    PROVE  \A r \in Requests :
              ReqSeen[r] = [pc |-> PcSeen(req[r].pc), op |-> req[r].op,
                               user |-> req[r].user, text |-> req[r].text]
BY DEF TypeOK, RequestType, ReqSeen, PcSeen

\* Request r gets an answer or the next statement, and keeps the rest.
Becomes(r, pc, text) ==
    /\ req' = [req EXCEPT ![r] = [pc |-> pc, op |-> req[r].op,
                                  user |-> req[r].user, text |-> text]]
    /\ req[r].pc \in {"read", "create", "update"}

LEMMA GotoBecomes ==
    ASSUME TypeOK, NEW r \in Requests, NEW pc, Goto(r, pc),
           req[r].pc \in {"read", "create", "update"}
    PROVE  Becomes(r, pc, req[r].text)
<1>1. [req[r] EXCEPT !.pc = pc] = [pc |-> pc, op |-> req[r].op,
                                   user |-> req[r].user, text |-> req[r].text]
  BY DEF TypeOK, RequestType
<1> QED
  BY <1>1 DEF Goto, Becomes

LEMMA BecomesSeen ==
    ASSUME TypeOK, NEW r \in Requests, NEW pc, NEW text, Becomes(r, pc, text)
    PROVE  /\ ReqSeen[r].pc = "asked" /\ ReqSeen[r].op = req[r].op
           /\ ReqSeen[r].user = req[r].user /\ ReqSeen[r].text = req[r].text
           /\ ReqSeen' = [ReqSeen EXCEPT ![r] =
                            [pc |-> PcSeen(pc), op |-> ReqSeen[r].op,
                             user |-> ReqSeen[r].user, text |-> text]]
<1>1. ReqSeen[r] = [pc |-> "asked", op |-> req[r].op,
                    user |-> req[r].user, text |-> req[r].text]
  BY SeenTypes DEF Becomes, PcSeen
<1>2. /\ req'[r] = [pc |-> pc, op |-> req[r].op, user |-> req[r].user, text |-> text]
      /\ \A q \in Requests : q # r => req'[q] = req[q]
  BY DEF Becomes, TypeOK, RequestType
<1>3. ReqSeen'[r] = [pc |-> PcSeen(pc), op |-> req[r].op, user |-> req[r].user,
                     text |-> text]
  BY <1>2 DEF ReqSeen, PcSeen
<1>4. \A q \in Requests : q # r => ReqSeen'[q] = ReqSeen[q]
  BY <1>2 DEF ReqSeen
<1>5. /\ ReqSeen = [q \in Requests |-> ReqSeen[q]]
      /\ ReqSeen' = [q \in Requests |-> ReqSeen'[q]]
  BY DEF ReqSeen
<1> HIDE DEF ReqSeen
<1> QED
  BY <1>1, <1>3, <1>4, <1>5

LEMMA FoundBecomes ==
    ASSUME TypeOK, NEW r \in Requests, NEW row \in Texts, Found(r, row),
           req[r].pc = "read", UNCHANGED profiles
    PROVE  Becomes(r, AfterRead(r), IF req[r].op = "get" THEN row ELSE req[r].text)
<1>1. req'[r] = [pc |-> AfterRead(r), op |-> req[r].op, user |-> req[r].user,
                 text |-> IF req[r].op = "get" THEN row ELSE req[r].text]
  BY FoundType
<1>2. req' = [req EXCEPT ![r] = req'[r]]
  BY DEF Found, TypeOK
<1> QED
  BY <1>1, <1>2 DEF Becomes

\* A statement that is not the last of its request is not seen.
LEMMA UnseenStep ==
    ASSUME TypeOK, NEW r \in Requests, NEW pc \in {"read", "create", "update"},
           Becomes(r, pc, req[r].text)
    PROVE  ReqSeen' = ReqSeen
<1>1. ReqSeen[r] = [pc |-> "asked", op |-> req[r].op,
                    user |-> req[r].user, text |-> req[r].text]
  BY SeenTypes DEF Becomes, PcSeen
<1>2. [pc |-> PcSeen(pc), op |-> ReqSeen[r].op, user |-> ReqSeen[r].user,
       text |-> req[r].text] = ReqSeen[r]
  BY <1>1 DEF PcSeen
<1>3. ReqSeen = [q \in Requests |-> ReqSeen[q]]
  BY DEF ReqSeen
<1>4. ReqSeen' = [ReqSeen EXCEPT ![r] = ReqSeen[r]]
  BY <1>2, BecomesSeen DEF PcSeen
<1> HIDE DEF ReqSeen
<1> QED
  BY <1>3, <1>4

\* A row that is absent or full of NULLs is a profile without a text.
LEMMA RowSeen ==
    ASSUME TypeOK, NEW r \in Requests,
           profiles[req[r].user] = NoRow,
           profiles' = [profiles EXCEPT ![req[r].user] = NullRow]
    PROVE  ProfileSeen' = ProfileSeen
BY RowsAssumption DEF ProfileSeen, TypeOK

-----------------------------------------------------------------------------
LEMMA BlankInit == Init => Blank
BY DEF Init, Blank, NoRequest

LEMMA BlankStep ==
    ASSUME TypeOK, Blank, [Next]_vars
    PROVE  Blank'
<1>1. ASSUME NEW r \in Requests, NEW pc, NEW text, Becomes(r, pc, text),
             req[r].op = "get" /\ pc \in {"read", "create"} => text = req[r].text
      PROVE  Blank'
  <2>1. /\ req'[r].pc = pc /\ req'[r].op = req[r].op /\ req'[r].text = text
        /\ \A q \in Requests : q # r => req'[q] = req[q]
    BY <1>1 DEF Becomes, TypeOK, RequestType
  <2>2. req[r].op = "get" => req[r].text = Null
    BY <1>1 DEF Becomes, Blank, TypeOK
  <2> QED
    BY <1>1, <2>1, <2>2 DEF Blank
<1>2. ASSUME NEW r \in Requests, NEW pc, Goto(r, pc),
             req[r].pc \in {"read", "create", "update"}
      PROVE  Blank'
  BY <1>1, <1>2, GotoBecomes
<1>3. ASSUME NEW r \in Requests, GetProfileByUserID(r) PROVE Blank'
  <2>1. ASSUME NEW row \in Texts, Found(r, row) PROVE Blank'
    <3>1. Becomes(r, AfterRead(r), IF req[r].op = "get" THEN row ELSE req[r].text)
      BY <1>3, <2>1, FoundBecomes DEF GetProfileByUserID
    <3> QED
      BY <1>1, <3>1 DEF AfterRead
  <2> QED
    BY <1>2, <1>3, <2>1 DEF GetProfileByUserID
<1>4. ASSUME NEW r \in Requests,
             CreateProfile(r) \/ UpdateProfile(r) \/ StatementFails(r)
      PROVE  Blank'
  BY <1>2, <1>4 DEF CreateProfile, UpdateProfile, StatementFails
<1>5. ASSUME NEW r \in Requests, NEW u \in Users, Get(r, u) PROVE Blank'
  BY <1>5 DEF Get, Blank, TypeOK, NoRequest
<1>6. ASSUME NEW r \in Requests, NEW u \in Users, NEW t \in Texts, Put(r, u, t)
      PROVE  Blank'
  BY <1>6 DEF Put, Blank, TypeOK
<1>7. ASSUME NEW r \in Requests, Answer(r) PROVE Blank'
  BY <1>7 DEF Answer, Blank, TypeOK, NoRequest
<1>8. ASSUME Restart \/ UNCHANGED vars PROVE Blank'
  BY <1>8 DEF Restart, vars, Blank, NoRequest
<1> QED
  BY <1>3, <1>4, <1>5, <1>6, <1>7, <1>8 DEF Next, CalmNext, HandlerStep

-----------------------------------------------------------------------------
\* An answer of request r, and what it did to the profile.
LEMMA FailAtomic ==
    ASSUME TypeOK, NEW r \in Requests, Becomes(r, "failed", req[r].text),
           ProfileSeen' = ProfileSeen
    PROVE  Abstract!Fail(r)
<1>1. /\ ReqSeen[r].pc = "asked"
      /\ ReqSeen' = [ReqSeen EXCEPT ![r] =
                       [pc |-> "failed", op |-> ReqSeen[r].op,
                        user |-> ReqSeen[r].user, text |-> ReqSeen[r].text]]
  BY BecomesSeen DEF PcSeen
<1> QED
  BY <1>1 DEF Abstract!Fail, Abstract!Tell, ProfileSeen, ReqSeen

LEMMA GetAtomic ==
    ASSUME TypeOK, NEW r \in Requests, req[r].op = "get",
           Becomes(r, "ok", ProfileSeen[req[r].user]), ProfileSeen' = ProfileSeen
    PROVE  Abstract!Get(r)
<1>1. /\ ReqSeen[r].pc = "asked" /\ ReqSeen[r].op = "get"
      /\ ReqSeen' = [ReqSeen EXCEPT ![r] =
                       [pc |-> "ok", op |-> ReqSeen[r].op, user |-> ReqSeen[r].user,
                        text |-> ProfileSeen[ReqSeen[r].user]]]
  BY BecomesSeen DEF PcSeen
<1> QED
  BY <1>1 DEF Abstract!Get, Abstract!Tell, ProfileSeen, ReqSeen

LEMMA PutAtomic ==
    ASSUME TypeOK, NEW r \in Requests, NEW answer \in {"ok", "failed"},
           req[r].op = "update", Becomes(r, answer, req[r].text),
           profiles' = [profiles EXCEPT ![req[r].user] = req[r].text]
    PROVE  Abstract!Put(r)
<1>1. req[r].text \in Texts
  BY DEF TypeOK, RequestType, Becomes
<1>2. ProfileSeen' = [ProfileSeen EXCEPT ![req[r].user] = req[r].text]
  BY <1>1 DEF ProfileSeen, TypeOK
<1>3. PcSeen(answer) = answer
  BY DEF PcSeen
<1>4. /\ ReqSeen[r].pc = "asked" /\ ReqSeen[r].op = "update"
      /\ ProfileSeen' = [ProfileSeen EXCEPT ![ReqSeen[r].user] = ReqSeen[r].text]
      /\ ReqSeen' = [ReqSeen EXCEPT ![r] =
                       [pc |-> answer, op |-> ReqSeen[r].op,
                        user |-> ReqSeen[r].user, text |-> ReqSeen[r].text]]
  <2>1. /\ ReqSeen[r].pc = "asked" /\ ReqSeen[r].op = req[r].op
        /\ ReqSeen[r].user = req[r].user /\ ReqSeen[r].text = req[r].text
        /\ ReqSeen' = [ReqSeen EXCEPT ![r] =
                         [pc |-> PcSeen(answer), op |-> ReqSeen[r].op,
                          user |-> ReqSeen[r].user, text |-> req[r].text]]
    BY BecomesSeen
  <2> QED
    BY <1>2, <1>3, <2>1
<1> QED
  BY <1>4 DEF Abstract!Put, Abstract!Tell, ProfileSeen, ReqSeen

\* A step towards an answer leaves what a client sees.
LEMMA OnTheWay ==
    ASSUME TypeOK, NEW r \in Requests, NEW pc \in {"read", "create", "update"},
           Goto(r, pc), req[r].pc \in {"read", "create", "update"},
           ProfileSeen' = ProfileSeen
    PROVE  Abstract!Next
<1>1. ReqSeen' = ReqSeen
  BY GotoBecomes, UnseenStep
<1>2. Abstract!Unseen
  BY <1>1 DEF Abstract!Unseen, Abstract!store, ProfileSeen, ReqSeen
<1> QED
  BY <1>2 DEF Abstract!Next

LEMMA ReadAtomic ==
    ASSUME IInv, NEW r \in Requests, GetProfileByUserID(r)
    PROVE  Abstract!Next
<1>1. ProfileSeen' = ProfileSeen
  BY DEF GetProfileByUserID, ProfileSeen
<1>2. CASE Goto(r, "create")
  BY <1>1, <1>2, OnTheWay DEF IInv, GetProfileByUserID
<1>3. CASE Goto(r, "failed")
  <2>1. Abstract!Fail(r)
    BY <1>1, <1>3, GotoBecomes, FailAtomic DEF IInv, GetProfileByUserID
  <2> QED
    BY <2>1 DEF Abstract!Next
<1>4. ASSUME profiles[req[r].user] \in Texts, Found(r, profiles[req[r].user])
      PROVE  Abstract!Next
  <2>1. Becomes(r, AfterRead(r),
                IF req[r].op = "get" THEN profiles[req[r].user] ELSE req[r].text)
    BY <1>4, FoundBecomes DEF IInv, GetProfileByUserID
  <2>2. CASE req[r].op = "get"
    <3>1. req[r].user \in Users
      BY DEF IInv, TypeOK, RequestType, GetProfileByUserID
    <3>2. profiles[req[r].user] = ProfileSeen[req[r].user]
      BY <1>4, <3>1 DEF ProfileSeen
    <3>3. Abstract!Get(r)
      BY <1>1, <2>1, <2>2, <3>2, GetAtomic DEF IInv, AfterRead
    <3> QED
      BY <3>3 DEF Abstract!Next
  <2>3. CASE req[r].op # "get"
    <3>1. ReqSeen' = ReqSeen
      BY <2>1, <2>3, UnseenStep DEF IInv, AfterRead
    <3>2. Abstract!Unseen
      BY <1>1, <3>1 DEF Abstract!Unseen, Abstract!store, ProfileSeen, ReqSeen
    <3> QED
      BY <3>2 DEF Abstract!Next
  <2> QED
    BY <2>2, <2>3
<1> QED
  BY <1>2, <1>3, <1>4 DEF GetProfileByUserID

LEMMA CreateAtomic ==
    ASSUME IInv, NEW r \in Requests, CreateProfile(r)
    PROVE  Abstract!Next
<1>1. CASE Goto(r, "failed") /\ UNCHANGED profiles
  <2>1. ProfileSeen' = ProfileSeen
    BY <1>1 DEF ProfileSeen
  <2>2. Abstract!Fail(r)
    BY <1>1, <2>1, GotoBecomes, FailAtomic DEF IInv, CreateProfile
  <2> QED
    BY <2>2 DEF Abstract!Next
<1>2. ASSUME profiles[req[r].user] = NoRow, Goto(r, AfterRead(r)),
             profiles' = [profiles EXCEPT ![req[r].user] = NullRow]
      PROVE  Abstract!Next
  <2>1. ProfileSeen' = ProfileSeen
    BY <1>2, RowSeen DEF IInv
  <2>2. CASE req[r].op = "get"
    <3>1. req[r].user \in Users /\ req[r].text = Null
      BY <2>2 DEF IInv, TypeOK, RequestType, CreateProfile, Blank
    <3>2. ProfileSeen[req[r].user] = req[r].text
      BY <1>2, <3>1, RowsAssumption DEF ProfileSeen
    <3>3. Becomes(r, "ok", req[r].text)
      BY <1>2, <2>2, GotoBecomes DEF IInv, AfterRead, CreateProfile
    <3>4. Abstract!Get(r)
      BY <2>1, <2>2, <3>2, <3>3, GetAtomic DEF IInv
    <3> QED
      BY <3>4 DEF Abstract!Next
  <2>3. CASE req[r].op # "get"
    BY <1>2, <2>1, <2>3, OnTheWay DEF IInv, AfterRead, CreateProfile
  <2> QED
    BY <2>2, <2>3
<1> QED
  BY <1>1, <1>2 DEF CreateProfile

LEMMA UpdateAtomic ==
    ASSUME IInv, NEW r \in Requests, UpdateProfile(r)
    PROVE  Abstract!Next
<1>1. CASE Goto(r, "failed") /\ UNCHANGED profiles
  <2>1. ProfileSeen' = ProfileSeen
    BY <1>1 DEF ProfileSeen
  <2>2. Abstract!Fail(r)
    BY <1>1, <2>1, GotoBecomes, FailAtomic DEF IInv, UpdateProfile
  <2> QED
    BY <2>2 DEF Abstract!Next
<1>2. ASSUME Goto(r, "ok"),
             profiles' = [profiles EXCEPT ![req[r].user] = req[r].text]
      PROVE  Abstract!Next
  <2>1. req[r].op = "update"
    BY DEF IInv, TypeOK, UpdateProfile
  <2>2. Abstract!Put(r)
    BY <1>2, <2>1, GotoBecomes, PutAtomic DEF IInv, UpdateProfile
  <2> QED
    BY <2>2 DEF Abstract!Next
<1> QED
  BY <1>1, <1>2 DEF UpdateProfile

LEMMA FailedAtomic ==
    ASSUME IInv, NEW r \in Requests, StatementFails(r)
    PROVE  Abstract!Next
<1>1. Becomes(r, "failed", req[r].text)
  BY GotoBecomes DEF IInv, StatementFails
<1>2. CASE ProfileSeen' = ProfileSeen
  <2>1. Abstract!Fail(r)
    BY <1>1, <1>2, FailAtomic DEF IInv
  <2> QED
    BY <2>1 DEF Abstract!Next
<1>3. CASE req[r].pc = "update"
           /\ profiles' = [profiles EXCEPT ![req[r].user] = req[r].text]
  <2>1. req[r].op = "update"
    BY <1>3 DEF IInv, TypeOK
  <2>2. Abstract!Put(r)
    BY <1>1, <1>3, <2>1, PutAtomic DEF IInv
  <2> QED
    BY <2>2 DEF Abstract!Next
<1>4. profiles' = profiles => ProfileSeen' = ProfileSeen
  BY DEF ProfileSeen
<1> QED
  BY <1>2, <1>3, <1>4, RowSeen DEF IInv, StatementFails

\* A new request, or one that is over: it looks as it is.
Shown(q) == [q EXCEPT !.pc =
                IF @ \in {"read", "create", "update"} THEN "asked" ELSE @]

LEMMA SlotSeen ==
    ASSUME TypeOK, NEW r \in Requests, NEW q, req' = [req EXCEPT ![r] = q]
    PROVE  ReqSeen' = [ReqSeen EXCEPT ![r] = Shown(q)]
<1>1. req'[r] = q /\ \A p \in Requests : p # r => req'[p] = req[p]
  BY DEF TypeOK
<1>2. /\ ReqSeen = [p \in Requests |-> Shown(req[p])]
      /\ ReqSeen' = [p \in Requests |-> Shown(req'[p])]
  BY DEF ReqSeen, Shown
<1> QED
  BY <1>1, <1>2

\* A slot that is idle, or whose request has its answer, looks so.
LEMMA EndsSeen ==
    ASSUME TypeOK, NEW r \in Requests, req[r].pc \in Answers \cup {"idle"}
    PROVE  ReqSeen[r].pc = req[r].pc
BY DEF TypeOK, RequestType, ReqSeen, Answers

Asks(r, op, u, t) ==
    /\ \/ op = "get" /\ t = Null
       \/ op = "update" /\ t \in Texts
    /\ req[r].pc = "idle" /\ UNCHANGED profiles
    /\ req' = [req EXCEPT ![r] = [pc |-> "read", op |-> op, user |-> u, text |-> t]]

LEMMA AskAtomic ==
    ASSUME IInv, NEW r \in Requests, NEW op, NEW u \in Users, NEW t, Asks(r, op, u, t)
    PROVE  Abstract!Next
<1>1. /\ ReqSeen[r].pc = "idle" /\ ProfileSeen' = ProfileSeen
      /\ ReqSeen' = [ReqSeen EXCEPT ![r] =
                       [pc |-> "asked", op |-> op, user |-> u, text |-> t]]
  <2> DEFINE q == [pc |-> "read", op |-> op, user |-> u, text |-> t]
             s == [pc |-> "asked", op |-> op, user |-> u, text |-> t]
  <2>1. s = Shown(q)
    BY DEF Shown
  <2>2. ReqSeen[r].pc = "idle" /\ ProfileSeen' = ProfileSeen
    BY EndsSeen DEF IInv, Asks, ProfileSeen
  <2>3. req' = [req EXCEPT ![r] = q]
    BY DEF Asks
  <2> HIDE DEF q, s
  <2>4. ReqSeen' = [ReqSeen EXCEPT ![r] = s]
    BY <2>1, <2>3, SlotSeen DEF IInv
  <2> QED
    BY <2>2, <2>4 DEF s
<1>2. Abstract!Ask(r, op, u, t)
  BY <1>1 DEF Abstract!Ask, ProfileSeen, ReqSeen
<1> QED
  BY <1>2 DEF Abstract!Next, Asks

LEMMA ForgetAtomic ==
    ASSUME IInv, NEW r \in Requests, Answer(r)
    PROVE  Abstract!Next
<1>1. /\ ReqSeen[r].pc \in {"ok", "failed"} /\ ProfileSeen' = ProfileSeen
      /\ ReqSeen' = [ReqSeen EXCEPT ![r] = NoRequest]
  <2>1. NoRequest = Shown(NoRequest)
    BY DEF NoRequest, Shown
  <2>2. ReqSeen[r].pc \in {"ok", "failed"} /\ ProfileSeen' = ProfileSeen
    BY EndsSeen DEF IInv, Answer, Answers, ProfileSeen
  <2>3. ReqSeen' = [ReqSeen EXCEPT ![r] = NoRequest]
    BY <2>1, SlotSeen DEF IInv, Answer
  <2> QED
    BY <2>2, <2>3
<1>2. Abstract!Forget(r)
  BY <1>1 DEF Abstract!Forget, Abstract!NoRequest, NoRequest, ProfileSeen, ReqSeen
<1> QED
  BY <1>2 DEF Abstract!Next

LEMMA LoseAtomic ==
    ASSUME Restart
    PROVE  Abstract!Next
<1>1. ReqSeen' = [r \in Requests |-> NoRequest] /\ ProfileSeen' = ProfileSeen
  BY DEF Restart, ReqSeen, ProfileSeen, NoRequest
<1>2. Abstract!Lose
  BY <1>1 DEF Abstract!Lose, Abstract!NoRequest, NoRequest, ProfileSeen, ReqSeen
<1> QED
  BY <1>2 DEF Abstract!Next

LEMMA AtomicInit == Init => Abstract!Init
BY RowsAssumption DEF Init, NoRequest, Abstract!Init, Abstract!NoRequest

LEMMA AtomicStep == IInv /\ [Next]_vars => [Abstract!Next]_Store
<1> SUFFICES ASSUME IInv, [Next]_vars PROVE [Abstract!Next]_Store
  OBVIOUS
<1>1. ASSUME UNCHANGED vars PROVE UNCHANGED Store
  BY <1>1 DEF vars, Store, ProfileSeen, ReqSeen
<1>2. ASSUME NEW r \in Requests, NEW u \in Users, Get(r, u) PROVE Abstract!Next
  <2>1. Asks(r, "get", u, Null)
    BY <1>2 DEF Get, Asks
  <2> QED
    BY <2>1, AskAtomic
<1>3. ASSUME NEW r \in Requests, NEW u \in Users, NEW t \in Texts, Put(r, u, t)
      PROVE  Abstract!Next
  <2>1. Asks(r, "update", u, t)
    BY <1>3 DEF Put, Asks
  <2> QED
    BY <2>1, AskAtomic
<1> QED
  BY <1>1, <1>2, <1>3, ReadAtomic, CreateAtomic, UpdateAtomic, FailedAtomic,
     ForgetAtomic, LoseAtomic DEF Next, CalmNext, HandlerStep

\* Overlapping requests look to their clients as if each did its work in one
\* step between its request and its answer (AtomicProfiles).
THEOREM ProfilesAreRegisters == Spec => IsRegister
<1>1. Init => IInv
  BY InitType, BlankInit DEF IInv
<1>2. IInv /\ [Next]_vars => IInv'
  BY NextType, BlankStep DEF IInv
<1>3. Init => Abstract!Init
  BY AtomicInit
<1>4. IInv /\ [Next]_vars => [Abstract!Next]_Store
  BY AtomicStep
<1> QED
  BY <1>1, <1>2, <1>3, <1>4, PTL
     DEF Spec, IsRegister, Abstract!Spec, Abstract!store, Store, ProfileSeen, ReqSeen
=============================================================================
