---------------------------- MODULE PostsProofs ----------------------------
(***************************************************************************)
(* Posts, for every number of posts, users, tags and overlapping requests  *)
(* and every page size: types, the implementation of Ownership, that only  *)
(* authors write, and what a reader of the lists gets.                     *)
(***************************************************************************)
EXTENDS Posts, FiniteSetTheorems, TLAPS

\* A post that is or may be stored has an author.
PostOK == \A p \in Ids : post[p].pc \in {"insert", "stored"} => post[p].owner \in Users

\* A request is about a post that was stored once, and one that has passed
\* UpdatePost's check comes from its author.
RequestOK(r) ==
    req[r].pc # "idle" =>
        /\ req[r].id \in Ids /\ req[r].by \in Users
        /\ post[req[r].id].pc \in {"stored", "gone"}
        /\ req[r].pc = "update" /\ Stored(req[r].id)
              => post[req[r].id].owner = req[r].by

IInv == TypeOK /\ PostOK /\ \A r \in Requests : RequestOK(r)

\* What may happen to one post in one step.
Changes(p) ==
    \/ post'[p] = post[p]
    \/ /\ post[p].pc = "none" /\ post'[p].pc = "insert" /\ post'[p].owner \in Users
       /\ now < post'[p].at /\ post'[p].at <= now'
    \/ post[p].pc = "insert" /\ post'[p].pc = "failed"
    \/ /\ post[p].pc \in {"insert", "stored"} /\ post'[p].pc = "stored"
       /\ post'[p].owner = post[p].owner /\ post'[p].at = post[p].at
    \/ post[p].pc = "stored" /\ post'[p].pc = "gone"

PostTypes == [Ids -> [pc : {"none", "insert", "stored", "gone", "failed"},
                      owner : Users \cup {Nobody}, tags : Bodies, at : Nat]]
RequestTypes == [Requests -> [pc : {"idle", "read", "update", "delete"},
                              id : Ids \cup {Nobody}, by : Users \cup {Nobody},
                              tags : Bodies]]

\* What a step of a handler does: it changes one post at most, but for a
\* restart, which makes INSERTs fail, and keeps the rest of the invariant.
Effect ==
    /\ post' \in PostTypes /\ req' \in RequestTypes
    /\ now' \in Nat /\ now <= now' /\ faults' \in 0..MaxFaults
    /\ \A p \in Ids : Changes(p)
    /\ \A r \in Requests : RequestOK(r)'
    /\ \/ \E p \in Ids : \A q \in Ids : q # p => post'[q] = post[q]
       \/ \A p \in Ids : post'[p] = post[p] \/ post'[p].pc = "failed"

LEMMA NoTagsBody == NoTags \in Bodies
BY DEF Bodies

LEMMA InitInv == Init => IInv
BY PostsAssumption, NoTagsBody
   DEF Init, IInv, TypeOK, PostOK, RequestOK, NoPost, NoRequest, NoList, Lists

-----------------------------------------------------------------------------
\* A request that ends, or that goes on, leaves the posts to others.
LEMMA SamePosts ==
    ASSUME IInv, UNCHANGED post, now' \in Nat, now <= now', faults' \in 0..MaxFaults,
           req' \in RequestTypes, \A r \in Requests : RequestOK(r)'
    PROVE  Effect
BY DEF Effect, IInv, TypeOK, PostTypes, Changes

\* One post changes in a way that keeps the requests about it.
LEMMA OnePost ==
    ASSUME IInv, NEW p \in Ids, Changes(p),
           post' = [post EXCEPT ![p] = post'[p]], post' \in PostTypes,
           now' \in Nat, now <= now', faults' \in 0..MaxFaults,
           req' \in RequestTypes,
           \A r \in Requests : req'[r] = req[r] \/ req'[r].pc = "idle"
    PROVE  Effect
<1>1. \A q \in Ids : q # p => post'[q] = post[q]
  BY DEF IInv, TypeOK
<1>2. \A q \in Ids : Changes(q)
  BY <1>1 DEF Changes
<1>3. ASSUME NEW r \in Requests PROVE RequestOK(r)'
  <2>1. CASE req'[r].pc = "idle"
    BY <2>1 DEF RequestOK
  <2>2. CASE req'[r] = req[r]
    BY <1>2, <2>2 DEF IInv, RequestOK, Changes, Stored
  <2> QED
    BY <2>1, <2>2
<1> QED
  BY <1>1, <1>2, <1>3 DEF Effect

LEMMA OverRequests ==
    ASSUME IInv, NEW r \in Requests, Over(r)
    PROVE  /\ req' \in RequestTypes
           /\ req'[r].pc = "idle"
           /\ \A q \in Requests : q # r => req'[q] = req[q]
BY NoTagsBody DEF Over, IInv, TypeOK, RequestTypes, NoRequest

\* The UPDATE and the DELETE of a request that found its row.
LEMMA WriteChanges ==
    ASSUME IInv, NEW r \in Requests, req[r].pc # "idle", Writable(r), Write(r)
    PROVE  /\ req[r].id \in Ids /\ Changes(req[r].id) /\ post' \in PostTypes
           /\ post' = [post EXCEPT ![req[r].id] = post'[req[r].id]]
           /\ post'[req[r].id].pc = "stored"
<1> DEFINE p == req[r].id
<1>1. p \in Ids /\ req[r].tags \in Bodies /\ post[p].pc = "stored"
  BY DEF IInv, TypeOK, RequestOK, Writable, Stored
<1>2. post' = [post EXCEPT ![p] = [post[p] EXCEPT !.tags = req[r].tags]]
  BY DEF Write
<1> HIDE DEF p
<1>3. post'[p] = [post[p] EXCEPT !.tags = req[r].tags] /\ post' \in PostTypes
  BY <1>1, <1>2 DEF IInv, TypeOK, PostTypes
<1>4. /\ post'[p].pc = "stored" /\ post'[p].owner = post[p].owner
      /\ post'[p].at = post[p].at
  BY <1>1, <1>3 DEF IInv, TypeOK
<1> QED
  BY <1>1, <1>2, <1>3, <1>4 DEF Changes, p

LEMMA RemoveChanges ==
    ASSUME IInv, NEW r \in Requests, req[r].pc # "idle", Own(r), Remove(r)
    PROVE  /\ req[r].id \in Ids /\ Changes(req[r].id) /\ post' \in PostTypes
           /\ post' = [post EXCEPT ![req[r].id] = post'[req[r].id]]
           /\ post'[req[r].id].pc = "gone"
BY NoTagsBody DEF IInv, TypeOK, RequestOK, Own, Remove, Stored, Changes, PostTypes, NoPost

LEMMA FaultCounts == IInv /\ Fault => faults' \in 0..MaxFaults
BY PostsAssumption DEF IInv, TypeOK, Fault

LEMMA WriterEffect == IInv /\ WriterStep => Effect
<1> SUFFICES ASSUME IInv, WriterStep PROVE Effect
  OBVIOUS
<1> USE DEF IInv
<1>1. ASSUME NEW p \in Ids, NEW u \in Users, NEW tags \in Bodies, BeginCreate(p, u, tags)
      PROVE  Effect
  <2>1. /\ post' \in PostTypes /\ Changes(p)
        /\ post' = [post EXCEPT ![p] = post'[p]] /\ now' \in Nat /\ now <= now'
    BY <1>1 DEF BeginCreate, TypeOK, PostTypes, Changes
  <2> QED
    BY <1>1, <2>1, OnePost DEF BeginCreate, TypeOK, RequestTypes
<1>2. ASSUME NEW p \in Ids, InsertPost(p) PROVE Effect
  <2>1. /\ post' \in PostTypes /\ Changes(p)
        /\ post' = [post EXCEPT ![p] = post'[p]]
    <3>1. CASE post[p].tags = NoTags
      BY <1>2, <3>1, NoTagsBody DEF InsertPost, TypeOK, PostTypes, Changes, Failed, NoPost
    <3>2. CASE post[p].tags # NoTags
      <4>1. post' = [post EXCEPT ![p] = [post[p] EXCEPT !.pc = "stored"]]
        BY <1>2, <3>2 DEF InsertPost
      <4>2. post'[p] = [post[p] EXCEPT !.pc = "stored"] /\ post' \in PostTypes
        BY <4>1 DEF TypeOK, PostTypes
      <4> QED
        BY <1>2, <4>1, <4>2 DEF InsertPost, TypeOK, Changes
    <3> QED
      BY <3>1, <3>2
  <2>2. /\ now' = now /\ now \in Nat /\ req' = req /\ req \in RequestTypes
        /\ faults' \in 0..MaxFaults
    BY <1>2 DEF InsertPost, TypeOK, RequestTypes
  <2> QED
    BY <2>1, <2>2, OnePost
<1>3. ASSUME NEW p \in Ids, CreateFails(p) PROVE Effect
  <2>1. CASE post' = [post EXCEPT ![p] = Failed]
    <3>1. /\ post' \in PostTypes /\ Changes(p)
          /\ post' = [post EXCEPT ![p] = post'[p]]
      BY <1>3, <2>1, NoTagsBody
         DEF CreateFails, TypeOK, PostTypes, Changes, Failed, NoPost
    <3> QED
      BY <1>3, <3>1, OnePost, FaultCounts DEF CreateFails, TypeOK, RequestTypes
  <2>2. CASE post' = [post EXCEPT ![p].pc = "stored"]
    <3>1. post'[p] = [post[p] EXCEPT !.pc = "stored"] /\ post' \in PostTypes
      BY <2>2 DEF TypeOK, PostTypes
    <3>2. Changes(p) /\ post' = [post EXCEPT ![p] = post'[p]]
      BY <1>3, <2>2, <3>1 DEF CreateFails, TypeOK, Changes
    <3> QED
      BY <1>3, <3>1, <3>2, OnePost, FaultCounts DEF CreateFails, TypeOK, RequestTypes
  <2> QED
    BY <1>3, <2>1, <2>2 DEF CreateFails
<1>4. ASSUME NEW r \in Requests, NEW pc \in {"read", "delete"}, NEW p \in Ids,
             NEW u \in Users, NEW tags \in Bodies, Begin(r, pc, p, u, tags)
      PROVE  Effect
  <2>1. req' \in RequestTypes
    BY <1>4 DEF Begin, TypeOK, RequestTypes
  <2>2. ASSUME NEW q \in Requests PROVE RequestOK(q)'
    BY <1>4, <2>2 DEF Begin, TypeOK, RequestOK, Stored
  <2> QED
    BY <1>4, <2>1, <2>2, SamePosts DEF Begin, TypeOK
<1>5. ASSUME NEW r \in Requests, ReadPost(r) PROVE Effect
  <2>1. CASE Over(r)
    <3>1. \A q \in Requests : RequestOK(q)'
      BY <1>5, <2>1, OverRequests DEF ReadPost, RequestOK, Stored
    <3> QED
      BY <1>5, <2>1, <3>1, OverRequests, SamePosts DEF ReadPost, TypeOK
  <2>2. CASE Own(r) /\ req' = [req EXCEPT ![r].pc = "update"]
    <3>1. req' \in RequestTypes
      BY <2>2 DEF TypeOK, RequestTypes
    <3>2. \A q \in Requests : RequestOK(q)'
      BY <1>5, <2>2 DEF ReadPost, RequestOK, Stored, Own, TypeOK
    <3> QED
      BY <1>5, <3>1, <3>2, SamePosts DEF ReadPost, TypeOK
  <2> QED
    BY <1>5, <2>1, <2>2 DEF ReadPost
<1>6. ASSUME NEW r \in Requests, UNCHANGED post, Over(r),
             now' \in Nat, now <= now', faults' \in 0..MaxFaults
      PROVE  Effect
  <2>1. \A q \in Requests : RequestOK(q)'
    BY <1>6, OverRequests DEF RequestOK, Stored
  <2> QED
    BY <1>6, <2>1, OverRequests, SamePosts
<1>7. ASSUME NEW r \in Requests, UpdateRow(r) PROVE Effect
  <2>1. CASE UNCHANGED post
    BY <1>6, <1>7, <2>1 DEF UpdateRow, TypeOK
  <2>2. CASE Writable(r) /\ Write(r)
    BY <1>7, <2>2, WriteChanges, OverRequests, OnePost DEF UpdateRow, TypeOK
  <2> QED
    BY <1>7, <2>1, <2>2 DEF UpdateRow
<1>8. ASSUME NEW r \in Requests, DeleteRow(r) PROVE Effect
  <2>1. CASE UNCHANGED post
    BY <1>6, <1>8, <2>1 DEF DeleteRow, TypeOK
  <2>2. CASE Own(r) /\ Remove(r)
    BY <1>8, <2>2, RemoveChanges, OverRequests, OnePost DEF DeleteRow, TypeOK
  <2> QED
    BY <1>8, <2>1, <2>2 DEF DeleteRow
<1>9. ASSUME NEW r \in Requests, StatementFails(r) PROVE Effect
  <2>1. CASE UNCHANGED post
    BY <1>6, <1>9, <2>1, FaultCounts DEF StatementFails, TypeOK
  <2>2. CASE Writable(r) /\ Write(r)
    BY <1>9, <2>2, WriteChanges, OverRequests, OnePost, FaultCounts
       DEF StatementFails, TypeOK
  <2>3. CASE Own(r) /\ Remove(r)
    BY <1>9, <2>3, RemoveChanges, OverRequests, OnePost, FaultCounts
       DEF StatementFails, TypeOK
  <2> QED
    BY <1>9, <2>1, <2>2, <2>3 DEF StatementFails
<1>10. CASE Restart
  <2>1. /\ post' \in PostTypes /\ req' \in RequestTypes
        /\ \A p \in Ids : Changes(p)
        /\ \A p \in Ids : post'[p] = post[p] \/ post'[p].pc = "failed"
    BY <1>10, NoTagsBody
       DEF Restart, TypeOK, PostTypes, RequestTypes, Changes, Failed, NoPost, NoRequest
  <2>2. \A r \in Requests : RequestOK(r)'
    BY <1>10 DEF Restart, RequestOK, NoRequest
  <2> QED
    BY <1>10, <2>1, <2>2, FaultCounts DEF Effect, Restart, TypeOK
<1> QED
  BY <1>1, <1>2, <1>3, <1>4, <1>5, <1>7, <1>8, <1>9, <1>10, NoTagsBody DEF WriterStep

-----------------------------------------------------------------------------
\* The lists are finite, and so are their pages.
LEMMA Finite ==
    ASSUME NEW S, S \subseteq Ids
    PROVE  IsFiniteSet(S) /\ Cardinality(S) \in Nat
BY PostsAssumption, FS_Subset, FS_CardinalityType DEF PostsAssumption

LEMMA ReaderTypes ==
    IInv /\ ReaderStep =>
        /\ list' \in [pc : {"idle", "count", "select", "read"}, of : Lists,
                      page : Nat \ {0}, total : Nat]
        /\ seen' \subseteq Ids /\ stable' \subseteq Ids /\ again' \in Nat
        /\ moves' \in [in : Nat, out : Nat] /\ faults' \in 0..MaxFaults
        /\ UNCHANGED <<now, post, req>>
<1> SUFFICES ASSUME IInv, ReaderStep
             PROVE  /\ list' \in [pc : {"idle", "count", "select", "read"},
                                  of : Lists, page : Nat \ {0}, total : Nat]
                    /\ seen' \subseteq Ids /\ stable' \subseteq Ids /\ again' \in Nat
                    /\ moves' \in [in : Nat, out : Nat] /\ faults' \in 0..MaxFaults
                    /\ UNCHANGED <<now, post, req>>
  OBVIOUS
<1> USE DEF IInv, TypeOK
<1>1. \A l \in Lists : Listed(l) \subseteq Ids /\ Cardinality(Listed(l)) \in Nat
  BY Finite DEF Listed
<1>2. CASE \E l \in Lists : OpenList(l)
  <2>1. PICK l \in Lists : OpenList(l)
    BY <1>2
  <2>2. list' = [pc |-> "count", of |-> l, page |-> 1, total |-> 0]
    BY <2>1 DEF OpenList, NoList
  <2>3. /\ seen' = {} /\ again' = 0 /\ stable' = Listed(l)
        /\ moves' = [in |-> 0, out |-> 0] /\ UNCHANGED <<now, post, req, faults>>
    BY <2>1 DEF OpenList
  <2> QED
    BY <1>1, <2>2, <2>3
<1>3. CASE CountPosts
  BY <1>1, <1>3 DEF CountPosts
<1>4. CASE SelectPage
  <2> DEFINE page == Page(list.of, list.page)
  <2>1. page \subseteq Ids /\ Cardinality(page \cap seen) \in Nat
    BY Finite DEF Page, Listed
  <2>2. list' \in [pc : {"read", "count"}, of : Lists, page : Nat \ {0}, total : Nat]
    <3> DEFINE last == Cardinality(page) < PageSize
    <3>1. list' = [list EXCEPT !.pc = IF last THEN "read" ELSE "count",
                               !.page = IF last THEN @ ELSE @ + 1]
      BY <1>4 DEF SelectPage
    <3>2. CASE last
      <4>1. list' = [list EXCEPT !.pc = "read", !.page = list.page]
        BY <3>1, <3>2
      <4> QED
        BY <4>1
    <3>3. CASE ~last
      <4>1. list' = [list EXCEPT !.pc = "count", !.page = list.page + 1]
        BY <3>1, <3>3
      <4>2. list.page + 1 \in Nat \ {0}
        OBVIOUS
      <4> QED
        BY <4>1, <4>2
    <3> QED
      BY <3>2, <3>3
  <2>3. seen' = seen \cup page /\ again' = again + Cardinality(page \cap seen)
    BY <1>4 DEF SelectPage
  <2> HIDE DEF page
  <2> QED
    BY <1>4, <2>1, <2>2, <2>3 DEF SelectPage
<1>5. CASE PageFails
  BY <1>5, FaultCounts DEF PageFails
<1>6. CASE CloseList
  BY <1>6 DEF CloseList, NoList, Lists
<1> QED
  BY <1>2, <1>3, <1>4, <1>5, <1>6 DEF ReaderStep

LEMMA ObserveTypes ==
    ASSUME IInv, Observe
    PROVE  stable' \subseteq Ids /\ moves' \in [in : Nat, out : Nat]
<1> DEFINE before == Listed(list.of)
           after == Listed(list.of)'
<1>1. /\ Cardinality(after \ before) \in Nat
      /\ Cardinality(before \ after) \in Nat
  BY Finite DEF Listed
<1>2. CASE list.pc \in {"count", "select"}
  <2>1. stable' = stable \cap after
        /\ moves' = [in |-> moves.in + Cardinality(after \ before),
                     out |-> moves.out + Cardinality(before \ after)]
    BY <1>2 DEF Observe
  <2> HIDE DEF before, after
  <2> QED
    BY <1>1, <2>1 DEF IInv, TypeOK
<1>3. CASE list.pc \notin {"count", "select"}
  BY <1>3 DEF Observe, IInv, TypeOK
<1> QED
  BY <1>2, <1>3

LEMMA NextInv == IInv /\ [Next]_vars => IInv'
<1> SUFFICES ASSUME IInv, [Next]_vars PROVE IInv'
  OBVIOUS
<1>1. CASE ReaderStep
  <2>1. TypeOK'
    BY <1>1, ReaderTypes DEF IInv, TypeOK
  <2>2. PostOK' /\ \A r \in Requests : RequestOK(r)'
    BY <1>1, ReaderTypes DEF IInv, PostOK, RequestOK, Stored
  <2> QED
    BY <2>1, <2>2 DEF IInv
<1>2. CASE WriterStep /\ UNCHANGED reader /\ Observe
  <2>1. Effect
    BY <1>2, WriterEffect
  <2>2. TypeOK'
    BY <1>2, <2>1, ObserveTypes
       DEF Effect, PostTypes, RequestTypes, IInv, TypeOK, reader
  <2>3. PostOK'
    BY <2>1 DEF Effect, Changes, IInv, PostOK
  <2> QED
    BY <2>1, <2>2, <2>3 DEF Effect, IInv
<1>3. CASE UNCHANGED vars
  BY <1>3 DEF vars, reader, IInv, TypeOK, PostOK, RequestOK, Stored
<1> QED
  BY <1>1, <1>2, <1>3 DEF Next

LEMMA Invariant == Spec => []IInv
BY InitInv, NextInv, PTL DEF Spec

\* Every reachable state of the post service and its reader is type-correct.
THEOREM PostsTypeCorrect == Spec => []TypeOK
BY Invariant, PTL DEF IInv

-----------------------------------------------------------------------------
\* Whose each post is, and which are gone, as Ownership has them.
Owners == [p \in Ids |-> IF Stored(p) THEN post[p].owner ELSE Nobody]
Gone == {p \in Ids : post[p].pc = "gone"}

\* A step stores one post, deletes one or does neither.
LEMMA OwnershipStep ==
    ASSUME IInv, [Next]_vars
    PROVE  Abstract!Next \/ UNCHANGED <<Owners, Gone>>
<1>1. CASE ReaderStep \/ UNCHANGED vars
  BY <1>1, ReaderTypes DEF vars, Owners, Gone, Stored
<1>2. CASE WriterStep
  <2>1. Effect
    BY <1>2, WriterEffect
  <2>2. CASE \A p \in Ids : post'[p] = post[p] \/ post'[p].pc = "failed"
    <3>1. \A p \in Ids : /\ Stored(p)' <=> Stored(p)
                         /\ Stored(p) => post'[p].owner = post[p].owner
                         /\ post'[p].pc = "gone" <=> post[p].pc = "gone"
      BY <2>1, <2>2 DEF Effect, Changes, Stored
    <3> QED
      BY <3>1 DEF Owners, Gone
  <2>3. ASSUME NEW p \in Ids, \A q \in Ids : q # p => post'[q] = post[q]
        PROVE  Abstract!Next \/ UNCHANGED <<Owners, Gone>>
    <3>1. CASE post[p].pc = "insert" /\ post'[p].pc = "stored"
               /\ post'[p].owner = post[p].owner
      <4>1. post[p].owner \in Users
        BY <3>1 DEF IInv, PostOK
      <4>2. Owners[p] = Nobody /\ p \notin Gone /\ UNCHANGED Gone
        BY <2>3, <3>1 DEF Owners, Gone, Stored
      <4>3. Owners' = [Owners EXCEPT ![p] = post[p].owner]
        BY <2>3, <3>1 DEF Owners, Stored
      <4>4. \E u \in Users : /\ Owners[p] = Nobody /\ p \notin Gone
                              /\ Owners' = [Owners EXCEPT ![p] = u]
                              /\ UNCHANGED Gone
        BY <4>1, <4>2, <4>3
      <4>5. \E u \in Users : Abstract!Appear(p, u)
        BY <4>4 DEF Abstract!Appear, Owners, Gone
      <4> QED
        BY <4>5 DEF Abstract!Next
    <3>2. CASE post[p].pc = "stored" /\ post'[p].pc = "gone"
      <4>1. Owners[p] # Nobody
        BY <3>2, PostsAssumption DEF IInv, PostOK, Owners, Stored, PostsAssumption
      <4>2. Owners' = [Owners EXCEPT ![p] = Nobody] /\ Gone' = Gone \cup {p}
        BY <2>3, <3>2 DEF Owners, Gone, Stored
      <4>3. Abstract!Vanish(p)
        BY <4>1, <4>2 DEF Abstract!Vanish, Owners, Gone
      <4> QED
        BY <4>3 DEF Abstract!Next
    <3>3. CASE \/ post'[p] = post[p]
               \/ post[p].pc = "none" /\ post'[p].pc = "insert"
               \/ post[p].pc = "insert" /\ post'[p].pc = "failed"
               \/ /\ post[p].pc = "stored" /\ post'[p].pc = "stored"
                  /\ post'[p].owner = post[p].owner
      <4>1. \A q \in Ids : /\ Stored(q)' <=> Stored(q)
                           /\ Stored(q) => post'[q].owner = post[q].owner
                           /\ post'[q].pc = "gone" <=> post[q].pc = "gone"
        BY <2>3, <3>3 DEF Stored
      <4> QED
        BY <4>1 DEF Owners, Gone
    <3> QED
      BY <2>1, <3>1, <3>2, <3>3 DEF Effect, Changes
  <2> QED
    BY <2>1, <2>2, <2>3 DEF Effect
<1> QED
  BY <1>1, <1>2 DEF Next

LEMMA OwnershipInit == Init => Abstract!Init
BY DEF Init, Abstract!Init, Stored, NoPost

\* However updates, deletions and restarts overlap, the post service
\* implements Ownership: a post keeps its author, a deleted one stays gone.
THEOREM PostsImplementOwnership == Spec => IsOwnership
<1>1. IInv /\ [Next]_vars => [Abstract!Next]_<<Owners, Gone>>
  BY OwnershipStep
<1>2. UNCHANGED <<Owners, Gone>> => UNCHANGED <<Owners, Gone>>
  OBVIOUS
<1> QED
  BY <1>1, OwnershipInit, Invariant, PTL
     DEF Spec, IsOwnership, Abstract!Spec, Owners, Gone

-----------------------------------------------------------------------------
\* A stored post only changes when a request of its author ends.
LEMMA AuthorStep ==
    ASSUME IInv, WriterStep, NEW p \in Ids, Stored(p), post'[p] # post[p]
    PROVE  \E r \in Requests :
               req[r].id = p /\ req[r].by = post[p].owner /\ Over(r)
<1> DEFINE Theirs(r) == req[r].id = p /\ req[r].by = post[p].owner /\ Over(r)
<1> USE DEF IInv, TypeOK
<1>1. ASSUME NEW q \in Ids,
             \/ InsertPost(q) \/ CreateFails(q)
             \/ \E u \in Users, tags \in Bodies : BeginCreate(q, u, tags)
      PROVE  FALSE
  <2>1. post[q].pc \in {"none", "insert"} /\ \A x \in Ids : x # q => post'[x] = post[x]
    BY <1>1 DEF InsertPost, CreateFails, BeginCreate
  <2> QED
    BY <2>1 DEF Stored
<1>2. ASSUME NEW r \in Requests, req[r].pc = "update", Writable(r), Write(r), Over(r)
      PROVE  Theirs(r)
  <2>1. req[r].id = p
    BY <1>2 DEF Write, Writable
  <2> QED
    BY <1>2, <2>1 DEF RequestOK
<1>3. ASSUME NEW r \in Requests, Own(r), Remove(r), Over(r) PROVE Theirs(r)
  <2>1. req[r].id = p
    BY <1>3 DEF Remove, Own
  <2> QED
    BY <1>3, <2>1 DEF Own
<1>4. CASE Restart
  BY <1>4 DEF Restart, Stored
<1>5. ASSUME NEW r \in Requests,
             \/ ReadPost(r) \/ UpdateRow(r) \/ DeleteRow(r) \/ StatementFails(r)
             \/ \E x \in Ids, u \in Users, pc \in {"read", "delete"},
                   tags \in Bodies : Begin(r, pc, x, u, tags)
      PROVE  Theirs(r)
  BY <1>2, <1>3, <1>5 DEF ReadPost, UpdateRow, DeleteRow, StatementFails, Begin
<1> QED
  BY <1>1, <1>4, <1>5, NoTagsBody DEF WriterStep

\* Only a request of its author changes or deletes a post, at UpdatePost's
\* second statement as at its first.
THEOREM AuthorsOnly == Spec => OnlyAuthorsWrite
<1> DEFINE A == \A p \in Ids : Stored(p) /\ post'[p] # post[p] =>
                   \E r \in Requests :
                       req[r].id = p /\ req[r].by = post[p].owner /\ Over(r)
<1>1. IInv /\ [Next]_vars => [A]_vars
  <2> SUFFICES ASSUME IInv, Next PROVE A
    OBVIOUS
  <2>1. CASE ReaderStep
    BY <2>1, ReaderTypes
  <2>2. CASE WriterStep
    BY <2>2, AuthorStep
  <2> QED
    BY <2>1, <2>2 DEF Next
<1> QED
  BY <1>1, Invariant, PTL DEF Spec, OnlyAuthorsWrite

-----------------------------------------------------------------------------
(* The reader.  Of the list as it is now, the posts before the offset are   *)
(* those whose place is in the pages that have been read; the rest is       *)
(* ahead.  A post that enters or leaves the list moves one other post, at   *)
(* most, over the offset.                                                   *)

\* When the posts were created, and the n newest of a set of posts.
At == [p \in Ids |-> post[p].at]
Newest(a, S, n) == {p \in S : Cardinality({q \in S : a[q] > a[p]}) < n}

Current == Listed(list.of)
Offset == (list.page - 1) * PageSize
Passed == Newest(At, Current, Offset)
Ahead == Current \ Passed

\* No two posts share a time stamp.
AtOK ==
    \A p \in Ids : post[p].pc \in {"insert", "stored"} =>
        /\ post[p].at <= now
        /\ \A q \in Ids : /\ q # p
                          /\ post[q].pc \in {"insert", "stored"}
                          => post[q].at # post[p].at

Unread == Cardinality((stable \cap Passed) \ seen)
Skipped == Cardinality(Passed \ seen)
ToRepeat == Cardinality(Ahead \cap seen)
Departed == Cardinality(seen \ Current)
Got == Cardinality(seen \cup Ahead)

\* Of the posts passed, no more are unread than have moved back over the
\* offset, and of the posts ahead, no more have been read than have moved
\* forward; the total is the number of posts that are read or ahead, but for
\* what moved since.
ReadingOK ==
    list.pc \in {"count", "select"} =>
        /\ stable \subseteq Current
        /\ Unread <= moves.out
        /\ again + ToRepeat <= moves.in
        /\ Skipped <= moves.in + moves.out
        /\ Departed <= moves.out
        /\ list.pc = "select" =>
              /\ list.total <= Got + moves.in + moves.out
              /\ Got <= list.total + moves.in + moves.out

ReadOK == FewMissed /\ FewRepeated /\ TotalAgrees

RInv == IInv /\ AtOK /\ ReadingOK /\ ReadOK

\* Counting posts.
LEMMA Counts ==
    ASSUME NEW S, NEW T, S \subseteq Ids, T \subseteq Ids
    PROVE  /\ Cardinality(S) \in Nat
           /\ S \subseteq T => Cardinality(S) <= Cardinality(T)
           /\ \A x : S \subseteq T \cup {x} => Cardinality(S) <= Cardinality(T) + 1
           /\ Cardinality(S \cup T) <= Cardinality(S) + Cardinality(T)
           /\ S \cap T = {} => Cardinality(S \cup T) = Cardinality(S) + Cardinality(T)
<1>1. /\ IsFiniteSet(S) /\ Cardinality(S) \in Nat
      /\ IsFiniteSet(T) /\ Cardinality(T) \in Nat
  BY Finite
<1>2. S \subseteq T => Cardinality(S) <= Cardinality(T)
  BY <1>1, FS_Subset
<1>3. ASSUME NEW x, S \subseteq T \cup {x}
      PROVE  Cardinality(S) <= Cardinality(T) + 1
  <2>1. /\ IsFiniteSet(T \cup {x}) /\ Cardinality(T \cup {x}) \in Nat
        /\ Cardinality(T \cup {x}) <= Cardinality(T) + 1
    <3>1. /\ IsFiniteSet(T \cup {x})
          /\ Cardinality(T \cup {x}) =
                IF x \in T THEN Cardinality(T) ELSE Cardinality(T) + 1
      BY <1>1, FS_AddElement
    <3>2. Cardinality(T \cup {x}) \in Nat
      BY <3>1, FS_CardinalityType
    <3> QED
      BY <1>1, <3>1, <3>2
  <2>2. Cardinality(S) <= Cardinality(T \cup {x})
    BY <1>3, <2>1, FS_Subset
  <2> QED
    BY <1>1, <2>1, <2>2
<1>4. /\ Cardinality(S \cup T) = Cardinality(S) + Cardinality(T) - Cardinality(S \cap T)
      /\ Cardinality(S \cap T) \in Nat
  BY <1>1, FS_Union, FS_Intersection, FS_CardinalityType
<1>5. S \cap T = {} => Cardinality(S \cap T) = 0
  BY FS_EmptySet
<1> QED
  BY <1>1, <1>2, <1>3, <1>4, <1>5

\* A set of posts whose time stamps are known and distinct.
Dated(a, S) ==
    /\ S \subseteq Ids
    /\ \A p \in S : a[p] \in Nat
    /\ \A p, q \in S : p # q => a[p] # a[q]

\* There are n among the n newest, or all there are.
LEMMA NewestSize ==
    ASSUME NEW a, NEW S, Dated(a, S), NEW n \in Nat
    PROVE  /\ Newest(a, S, n) \subseteq S
           /\ Cardinality(Newest(a, S, n)) <= n
           /\ Newest(a, S, n) # S => Cardinality(Newest(a, S, n)) = n
<1> DEFINE R(p) == Cardinality({q \in S : a[q] > a[p]})
           k == Cardinality(S)
           N == Newest(a, S, n)
<1>0. /\ IsFiniteSet(S) /\ k \in Nat /\ S \subseteq Ids
      /\ \A p \in S : a[p] \in Nat
      /\ \A p, q \in S : p # q => a[p] # a[q]
  BY Finite DEF Dated
<1>1. ASSUME NEW p \in S PROVE R(p) \in 0..k-1
  <2> DEFINE T == {q \in S : a[q] > a[p]}
  <2>1. T \subseteq S /\ p \notin T
    BY <1>0
  <2>2. Cardinality(T) \in Nat /\ Cardinality(T) <= k /\ Cardinality(T) # k
    BY <1>0, <2>1, FS_Subset, FS_CardinalityType
  <2> HIDE DEF T, k
  <2>3. Cardinality(T) \in 0..k-1
    BY <1>0, <2>2
  <2> QED
    BY <2>3 DEF T
<1>2. ASSUME NEW p \in S, NEW r \in S, a[p] > a[r] PROVE R(p) < R(r)
  <2> DEFINE T == {q \in S : a[q] > a[p]}
             U == {q \in S : a[q] > a[r]}
  <2>1. T \subseteq U /\ U \subseteq S /\ p \in U /\ p \notin T
    BY <1>0, <1>2
  <2>2. IsFiniteSet(U)
    BY <1>0, <2>1, FS_Subset
  <2>3. Cardinality(T) <= Cardinality(U) /\ Cardinality(T) # Cardinality(U)
    BY <2>1, <2>2, FS_Subset
  <2>4. Cardinality(T) \in Nat /\ Cardinality(U) \in Nat
    BY <2>1, <2>2, FS_Subset, FS_CardinalityType
  <2> HIDE DEF T, U
  <2>5. Cardinality(T) < Cardinality(U)
    BY <2>3, <2>4
  <2> QED
    BY <2>5 DEF T, U
<1>3. \A p, r \in S : R(p) = R(r) => p = r
  <2> SUFFICES ASSUME NEW p \in S, NEW r \in S, p # r PROVE R(p) # R(r)
    OBVIOUS
  <2>1. a[p] > a[r] \/ a[r] > a[p]
    BY <1>0
  <2>2. R(p) < R(r) \/ R(r) < R(p)
    BY <1>2, <2>1
  <2>3. R(p) \in Nat /\ R(r) \in Nat
    BY <1>0, <1>1
  <2> HIDE DEF R
  <2> QED
    BY <2>2, <2>3
<1>4. N \subseteq S /\ N = {p \in S : R(p) < n}
  BY DEF Newest
<1>5. [p \in S |-> R(p)] \in Surjection(S, 0..k-1)
  <2> DEFINE f == [p \in S |-> R(p)]
  <2>1. f \in Injection(S, 0..k-1)
    <3> HIDE DEF R
    <3> QED
      BY <1>1, <1>3 DEF Injection, IsInjective
  <2>2. IsFiniteSet(0..k-1) /\ Cardinality(0..k-1) = k
    <3> HIDE DEF k
    <3> QED
      BY <1>0, FS_Interval
  <2> QED
    BY <2>1, <2>2, FS_Injection
<1> HIDE DEF N
<1>6. [p \in N |-> R(p)] \in Injection(N, 0..n-1)
  <2> HIDE DEF R
  <2>1. \A p \in N : R(p) \in 0..n-1
    BY <1>0, <1>1, <1>4
  <2> QED
    BY <1>3, <1>4, <2>1 DEF Injection, IsInjective
<1>7. IsFiniteSet(0..n-1) /\ Cardinality(0..n-1) = n
  BY FS_Interval
<1>8. Cardinality(N) <= n
  BY <1>6, <1>7, FS_Injection
<1>9. ASSUME N # S PROVE Cardinality(N) = n
  <2> HIDE DEF R
  <2>1. PICK p \in S : ~(R(p) < n)
    BY <1>4, <1>9
  <2>2. R(p) \in 0..k-1 /\ n < k
    <3> HIDE DEF k
    <3> QED
      BY <1>0, <1>1, <2>1
  <2>3. ASSUME NEW i \in 0..n-1 PROVE \E q \in N : R(q) = i
    <3>1. i \in 0..k-1
      <4> HIDE DEF k
      <4> QED
        BY <1>0, <2>2
    <3>2. PICK q \in S : R(q) = i
      BY <1>5, <3>1 DEF Surjection
    <3> QED
      BY <1>4, <3>2
  <2>4. [q \in N |-> R(q)] \in Surjection(N, 0..n-1)
    BY <1>6, <2>3 DEF Surjection, Injection
  <2> QED
    BY <1>6, <1>7, <2>4, FS_Injection
<1> QED
  BY <1>4, <1>8, <1>9 DEF N

\* A post that enters a list, or leaves it, moves no more than one other over
\* an offset, and none if its own place is behind it.
LEMMA NewestAfter ==
    ASSUME NEW a, NEW S, NEW q, q \notin S, Dated(a, S \cup {q}), NEW n \in Nat
    PROVE  LET fewer == Newest(a, S, n)
               more == Newest(a, S \cup {q}, n)
           IN  /\ more \ {q} \subseteq fewer
               /\ \E x : fewer \ more \subseteq {x}
               /\ q \notin more => more = fewer
<1> DEFINE M == S \cup {q}
           fewer == Newest(a, S, n)
           more == Newest(a, M, n)
<1>1. Dated(a, M) /\ Dated(a, S)
  BY DEF Dated
<1>2. IsFiniteSet(M) /\ IsFiniteSet(S)
  BY <1>1, Finite DEF Dated
<1>3. ASSUME NEW p \in more, p # q PROVE p \in fewer
  <2> DEFINE T == {r \in S : a[r] > a[p]}
             U == {r \in M : a[r] > a[p]}
  <2>1. p \in S /\ Cardinality(U) < n
    BY <1>3 DEF Newest
  <2>2. T \subseteq U /\ U \subseteq M
    OBVIOUS
  <2>3. IsFiniteSet(U)
    BY <1>2, <2>2, FS_Subset
  <2>4. Cardinality(T) <= Cardinality(U)
    BY <2>2, <2>3, FS_Subset
  <2>5. Cardinality(T) \in Nat /\ Cardinality(U) \in Nat
    BY <2>2, <2>3, FS_Subset, FS_CardinalityType
  <2> HIDE DEF T, U
  <2>6. Cardinality(T) < n
    BY <2>1, <2>4, <2>5
  <2> QED
    BY <2>1, <2>6 DEF Newest, T
<1>4. /\ more \subseteq M /\ (more # M => Cardinality(more) = n)
      /\ fewer \subseteq S /\ Cardinality(fewer) <= n
  <2>1. /\ more \subseteq M /\ (more # M => Cardinality(more) = n)
    BY <1>1, NewestSize
  <2>2. fewer \subseteq S /\ Cardinality(fewer) <= n
    BY <1>1, NewestSize
  <2> QED
    BY <2>1, <2>2
<1> HIDE DEF fewer, more
<1>5. IsFiniteSet(more) /\ IsFiniteSet(fewer)
  BY <1>2, <1>4, FS_Subset
<1>6. Cardinality(more) \in Nat /\ Cardinality(fewer) \in Nat
  BY <1>5, FS_CardinalityType
<1>7. ASSUME q \notin more PROVE more = fewer
  <2>1. more # M /\ more \subseteq fewer
    BY <1>3, <1>7
  <2>2. Cardinality(more) <= Cardinality(fewer)
    BY <1>5, <2>1, FS_Subset
  <2>3. Cardinality(more) = Cardinality(fewer)
    BY <1>4, <1>6, <2>1, <2>2
  <2> QED
    BY <1>5, <2>1, <2>3, FS_Subset
<1>8. \E x : fewer \ more \subseteq {x}
  <2>1. CASE more = M
    BY <1>4, <2>1
  <2>2. CASE more # M
    <3> DEFINE kept == more \ {q}
               out == fewer \ more
    <3>1. kept \cap out = {} /\ kept \cup out = fewer
      BY <1>3, <1>4
    <3>2. IsFiniteSet(kept) /\ IsFiniteSet(out)
      BY <1>5, FS_Subset
    <3>3. Cardinality(kept) \in Nat /\ Cardinality(out) \in Nat
      BY <3>2, FS_CardinalityType
    <3>4. Cardinality(more) <= Cardinality(kept) + 1
      <4>1. Cardinality(kept) = IF q \in more THEN Cardinality(more) - 1
                                              ELSE Cardinality(more)
        BY <1>5, FS_RemoveElement
      <4> HIDE DEF kept
      <4> QED
        BY <1>6, <4>1
    <3>5. Cardinality(fewer) = Cardinality(kept) + Cardinality(out)
      <4>1. Cardinality(kept \cup out) =
               Cardinality(kept) + Cardinality(out) - Cardinality(kept \cap out)
        BY <3>2, FS_Union
      <4>2. Cardinality(kept \cap out) = 0
        BY <3>1, FS_EmptySet
      <4>3. Cardinality(kept \cup out) = Cardinality(fewer)
        BY <3>1
      <4> DEFINE c == Cardinality(kept)
                 d == Cardinality(out)
                 e == Cardinality(kept \cap out)
                 f == Cardinality(fewer)
      <4>4. c \in Nat /\ d \in Nat /\ e = 0 /\ f = c + d - e
        BY <3>3, <4>1, <4>2, <4>3
      <4> HIDE DEF c, d, e, f
      <4>5. f = c + d
        BY <4>4
      <4> QED
        BY <4>5 DEF c, d, f
    <3> HIDE DEF kept
    <3>6. Cardinality(out) = 0 \/ Cardinality(out) = 1
      <4> HIDE DEF out
      <4> QED
        BY <1>4, <1>6, <2>2, <3>3, <3>4, <3>5
    <3> QED
      BY <3>2, <3>6, FS_EmptySet, FS_Singleton
  <2> QED
    BY <2>1, <2>2
<1> QED
  BY <1>3, <1>7, <1>8 DEF fewer, more

\* M is the list S and q; more and fewer are what is before the offset in the
\* one and in the other, and x has moved over it; read and old are any posts.
Shift(S, M, q, fewer, more, x, read, old) ==
    /\ M = S \cup {q} /\ M \subseteq Ids /\ q \notin S
    /\ more \subseteq M /\ fewer \subseteq S
    /\ more \ {q} \subseteq fewer /\ fewer \ more \subseteq {x}
    /\ q \notin more => more = fewer
    /\ read \subseteq Ids /\ old \subseteq Ids

\* What that does to the counts of the invariant.
LEMMA CountsAfter ==
    ASSUME NEW S, NEW M, NEW q, NEW fewer, NEW more, NEW x, NEW read, NEW old,
           Shift(S, M, q, fewer, more, x, read, old)
    PROVE  /\ q \notin old => Cardinality((old \cap more) \ read)
                              <= Cardinality((old \cap fewer) \ read)
           /\ Cardinality(((old \cap S) \cap fewer) \ read)
                 <= Cardinality((old \cap more) \ read) + 1
           /\ Cardinality((M \ more) \cap read) <= Cardinality((S \ fewer) \cap read) + 1
           /\ Cardinality((S \ fewer) \cap read) <= Cardinality((M \ more) \cap read)
           /\ Cardinality(more \ read) <= Cardinality(fewer \ read) + 1
           /\ Cardinality(fewer \ read) <= Cardinality(more \ read) + 1
           /\ Cardinality(read \ M) <= Cardinality(read \ S)
           /\ Cardinality(read \ S) <= Cardinality(read \ M) + 1
           /\ Cardinality(read \cup (S \ fewer)) <= Cardinality(read \cup (M \ more))
           /\ Cardinality(read \cup (M \ more)) <= Cardinality(read \cup (S \ fewer)) + 1
<1> USE DEF Shift
<1>1. q \notin old => Cardinality((old \cap more) \ read)
                      <= Cardinality((old \cap fewer) \ read)
  <2> DEFINE T == (old \cap more) \ read
             U == (old \cap fewer) \ read
  <2>1. T \subseteq Ids /\ U \subseteq Ids /\ (q \notin old => T \subseteq U)
    OBVIOUS
  <2> QED
    BY <2>1, Counts
<1>2. Cardinality(((old \cap S) \cap fewer) \ read)
         <= Cardinality((old \cap more) \ read) + 1
  <2> DEFINE T == ((old \cap S) \cap fewer) \ read
             U == (old \cap more) \ read
  <2>1. T \subseteq Ids /\ U \subseteq Ids /\ T \subseteq U \cup {x}
    OBVIOUS
  <2> QED
    BY <2>1, Counts
<1>3. \E y : (M \ more) \subseteq (S \ fewer) \cup {y}
  BY DEF Newest
<1>4. (S \ fewer) \subseteq (M \ more)
  OBVIOUS
<1>5. Cardinality((M \ more) \cap read) <= Cardinality((S \ fewer) \cap read) + 1
  <2> DEFINE T == (M \ more) \cap read
             U == (S \ fewer) \cap read
  <2>1. T \subseteq Ids /\ U \subseteq Ids /\ \E y : T \subseteq U \cup {y}
    BY <1>3
  <2> QED
    BY <2>1, Counts
<1>6. Cardinality((S \ fewer) \cap read) <= Cardinality((M \ more) \cap read)
  <2> DEFINE T == (S \ fewer) \cap read
             U == (M \ more) \cap read
  <2>1. T \subseteq Ids /\ U \subseteq Ids /\ T \subseteq U
    BY <1>4
  <2> QED
    BY <2>1, Counts
<1>7. Cardinality(more \ read) <= Cardinality(fewer \ read) + 1
  <2> DEFINE T == more \ read
             U == fewer \ read
  <2>1. T \subseteq Ids /\ U \subseteq Ids /\ T \subseteq U \cup {q}
    OBVIOUS
  <2> QED
    BY <2>1, Counts
<1>8. Cardinality(fewer \ read) <= Cardinality(more \ read) + 1
  <2> DEFINE T == fewer \ read
             U == more \ read
  <2>1. T \subseteq Ids /\ U \subseteq Ids /\ T \subseteq U \cup {x}
    OBVIOUS
  <2> QED
    BY <2>1, Counts
<1>9. Cardinality(read \ M) <= Cardinality(read \ S)
  <2> DEFINE T == read \ M
             U == read \ S
  <2>1. T \subseteq Ids /\ U \subseteq Ids /\ T \subseteq U
    OBVIOUS
  <2> QED
    BY <2>1, Counts
<1>10. Cardinality(read \ S) <= Cardinality(read \ M) + 1
  <2> DEFINE T == read \ S
             U == read \ M
  <2>1. T \subseteq Ids /\ U \subseteq Ids /\ T \subseteq U \cup {q}
    OBVIOUS
  <2> QED
    BY <2>1, Counts
<1>11. Cardinality(read \cup (S \ fewer)) <= Cardinality(read \cup (M \ more))
  <2> DEFINE T == read \cup (S \ fewer)
             U == read \cup (M \ more)
  <2>1. T \subseteq Ids /\ U \subseteq Ids /\ T \subseteq U
    BY <1>4
  <2> QED
    BY <2>1, Counts
<1>12. Cardinality(read \cup (M \ more)) <= Cardinality(read \cup (S \ fewer)) + 1
  <2> DEFINE T == read \cup (M \ more)
             U == read \cup (S \ fewer)
  <2>1. T \subseteq Ids /\ U \subseteq Ids /\ \E y : T \subseteq U \cup {y}
    BY <1>3
  <2> QED
    BY <2>1, Counts
<1> QED
  BY <1>1, <1>2, <1>5, <1>6, <1>7, <1>8, <1>9, <1>10, <1>11, <1>12

-----------------------------------------------------------------------------
(* The steps of the writers, seen from the list that is being read. *)

LEMMA AtStep == IInv /\ AtOK /\ [Next]_vars => AtOK'
<1> SUFFICES ASSUME IInv, AtOK, [Next]_vars PROVE AtOK'
  OBVIOUS
<1>1. CASE ReaderStep \/ UNCHANGED vars
  <2>1. UNCHANGED <<now, post>>
    BY <1>1, ReaderTypes DEF vars
  <2> QED
    BY <2>1 DEF AtOK
<1>2. CASE WriterStep
  <2>1. Effect
    BY <1>2, WriterEffect
  <2>2. /\ now \in Nat /\ now' \in Nat /\ now <= now'
        /\ \A p \in Ids : post[p].at \in Nat /\ post'[p].at \in Nat
    BY <2>1 DEF Effect, PostTypes, IInv, TypeOK
  <2>3. CASE \A p \in Ids : post'[p] = post[p] \/ post'[p].pc = "failed"
    <3> DEFINE Made(p) == post[p].pc \in {"insert", "stored"}
               Made1(p) == post'[p].pc \in {"insert", "stored"}
    <3>1. \A p \in Ids : Made1(p) => Made(p) /\ post'[p].at = post[p].at
      BY <2>3
    <3>2. \A p \in Ids : Made(p) =>
             post[p].at <= now /\ \A q \in Ids : q # p /\ Made(q) => post[q].at # post[p].at
      BY DEF AtOK
    <3>3. \A p \in Ids : Made1(p) =>
             post'[p].at <= now' /\ \A q \in Ids : q # p /\ Made1(q) => post'[q].at # post'[p].at
      <4> HIDE DEF Made, Made1
      <4> QED
        BY <2>2, <3>1, <3>2
    <3> QED
      BY <3>3 DEF AtOK
  <2>4. ASSUME NEW p \in Ids, \A q \in Ids : q # p => post'[q] = post[q] PROVE AtOK'
    <3> DEFINE Made(q) == post[q].pc \in {"insert", "stored"}
               Made1(q) == post'[q].pc \in {"insert", "stored"}
    <3>1. \A q \in Ids : q # p => (Made1(q) <=> Made(q)) /\ post'[q].at = post[q].at
      BY <2>4
    <3>2. Made1(p) => \/ Made(p) /\ post'[p].at = post[p].at
                      \/ now < post'[p].at /\ post'[p].at <= now'
      BY <2>1 DEF Effect, Changes
    <3>3. \A q \in Ids : Made(q) =>
             post[q].at <= now /\ \A r \in Ids : r # q /\ Made(r) => post[r].at # post[q].at
      BY DEF AtOK
    <3>4. \A q \in Ids : Made1(q) =>
             post'[q].at <= now' /\ \A r \in Ids : r # q /\ Made1(r) => post'[r].at # post'[q].at
      <4> HIDE DEF Made, Made1
      <4> QED
        BY <2>2, <3>1, <3>2, <3>3
    <3> QED
      BY <3>4 DEF AtOK
  <2> QED
    BY <2>1, <2>3, <2>4 DEF Effect
<1> QED
  BY <1>1, <1>2 DEF Next

LEMMA NewestAgree ==
    ASSUME NEW a, NEW b, NEW S, \A p \in S : a[p] = b[p], NEW n
    PROVE  Newest(a, S, n) = Newest(b, S, n)
<1>1. ASSUME NEW p \in S PROVE {q \in S : a[q] > a[p]} = {q \in S : b[q] > b[p]}
  OBVIOUS
<1> QED
  BY <1>1 DEF Newest

LEMMA CurrentDated == IInv /\ AtOK => Dated(At, Current)
BY DEF IInv, TypeOK, AtOK, Dated, At, Current, Listed, Stored

\* A step of a writer lets one post into the list, or out of it, or neither;
\* the others keep their time stamps.
LEMMA ListAfter ==
    ASSUME IInv, Effect, UNCHANGED list
    PROVE  \/ Current' = Current /\ \A p \in Current : At'[p] = At[p]
           \/ \E q \in Ids : /\ q \notin Current /\ Current' = Current \cup {q}
                             /\ \A p \in Current : At'[p] = At[p]
           \/ \E q \in Ids : /\ q \notin Current' /\ Current = Current' \cup {q}
                             /\ \A p \in Current' : At'[p] = At[p]
<1>1. /\ Current = {p \in Ids : Stored(p) /\ \/ list.of = All \/ post[p].owner = list.of
                                              \/ list.of \in post[p].tags}
      /\ Current' = {p \in Ids : post'[p].pc = "stored"
                           /\ \/ list.of = All \/ post'[p].owner = list.of
                              \/ list.of \in post'[p].tags}
      /\ \A p \in Ids : At[p] = post[p].at /\ At'[p] = post'[p].at
  BY DEF Current, Listed, Stored, At
<1>2. CASE \A p \in Ids : post'[p] = post[p] \/ post'[p].pc = "failed"
  <2>1. \A p \in Ids : post'[p] # post[p] => post[p].pc = "insert" /\ post'[p].pc = "failed"
    BY <1>2 DEF Effect, Changes
  <2> QED
    BY <1>1, <2>1 DEF Stored
<1>3. ASSUME NEW p \in Ids, \A q \in Ids : q # p => post'[q] = post[q]
      PROVE  \/ Current' = Current /\ \A q \in Current : At'[q] = At[q]
             \/ /\ p \notin Current /\ Current' = Current \cup {p}
                /\ \A q \in Current : At'[q] = At[q]
             \/ /\ p \notin Current' /\ Current = Current' \cup {p}
                /\ \A q \in Current' : At'[q] = At[q]
  <2>1. \A q \in Ids : q # p => /\ q \in Current' <=> q \in Current
                               /\ At'[q] = At[q]
    BY <1>1, <1>3 DEF Stored
  <2>2. Current \subseteq Ids /\ Current' \subseteq Ids
    BY <1>1
  <2>3. p \in Current /\ p \in Current' => At'[p] = At[p]
    BY <1>1 DEF Effect, Changes, Stored
  <2> HIDE DEF Current, At
  <2>4. CASE p \in Current /\ p \in Current'
    BY <2>1, <2>2, <2>3, <2>4
  <2>5. CASE p \in Current /\ p \notin Current'
    BY <2>1, <2>2, <2>5
  <2>6. CASE p \notin Current /\ p \in Current'
    BY <2>1, <2>2, <2>6
  <2>7. CASE p \notin Current /\ p \notin Current'
    BY <2>1, <2>2, <2>7
  <2> QED
    BY <2>4, <2>5, <2>6, <2>7
<1> QED
  BY <1>2, <1>3 DEF Effect

\* The numbers the invariant is about.
LEMMA Numbers ==
    ASSUME IInv
    PROVE  /\ Offset \in Nat
           /\ Current \subseteq Ids /\ Passed \subseteq Current /\ Ahead \subseteq Current
           /\ seen \subseteq Ids /\ stable \subseteq Ids
           /\ Unread \in Nat /\ Skipped \in Nat /\ ToRepeat \in Nat
           /\ Departed \in Nat /\ Got \in Nat
           /\ again \in Nat /\ moves.in \in Nat /\ moves.out \in Nat
           /\ list.total \in Nat
<1>1. /\ list.page - 1 \in Nat /\ PageSize \in Nat
      /\ again \in Nat /\ moves.in \in Nat /\ moves.out \in Nat /\ list.total \in Nat
      /\ seen \subseteq Ids /\ stable \subseteq Ids
  BY PostsAssumption DEF IInv, TypeOK
<1>2. Offset \in Nat
  <2>1. \A m, n \in Nat : m * n \in Nat
    OBVIOUS
  <2> QED
    BY <1>1, <2>1 DEF Offset
<1>3. Current \subseteq Ids /\ Passed \subseteq Current /\ Ahead \subseteq Current
  BY DEF Current, Listed, Passed, Newest, Ahead
<1>4. Unread \in Nat /\ Skipped \in Nat /\ ToRepeat \in Nat /\ Departed \in Nat /\ Got \in Nat
  <2> HIDE DEF Current, Passed, Ahead
  <2> QED
    BY <1>1, <1>3, Finite DEF Unread, Skipped, ToRepeat, Departed, Got
<1> QED
  BY <1>1, <1>2, <1>3, <1>4

\* The counts when a post enters the list.
LEMMA EnterCounts ==
    ASSUME IInv, AtOK, IInv', AtOK', UNCHANGED reader, stable \subseteq Current,
           stable' = stable, NEW q \in Ids, q \notin Current,
           Current' = Current \cup {q}, \A p \in Current : At'[p] = At[p]
    PROVE  /\ Unread' <= Unread /\ ToRepeat' <= ToRepeat + 1
           /\ Skipped' <= Skipped + 1 /\ Departed' <= Departed
           /\ Got <= Got' /\ Got' <= Got + 1
<1>1. /\ Offset \in Nat /\ Offset' = Offset /\ seen' = seen /\ seen \subseteq Ids
      /\ stable \subseteq Ids /\ Current' \subseteq Ids
  BY Numbers DEF Offset, reader, Current, Listed
<1>2. Dated(At', Current')
  BY DEF IInv, TypeOK, AtOK, Dated, At, Current, Listed, Stored
<1>3. /\ Passed = Newest(At', Current, Offset)
      /\ Passed' = Newest(At', Current', Offset)
  BY <1>1, NewestAgree DEF Passed
<1> DEFINE a == At'
           S == Current
           M == Current'
           G == Passed
           H == Passed'
<1> HIDE DEF a, S, M, G, H
<1>4. /\ H \ {q} \subseteq G
      /\ \E x : G \ H \subseteq {x}
      /\ q \notin H => H = G
  <2>1. Dated(a, S \cup {q}) /\ q \notin S /\ Offset \in Nat
    BY <1>1, <1>2 DEF a, S, M
  <2>2. G = Newest(a, S, Offset) /\ H = Newest(a, S \cup {q}, Offset)
    BY <1>3 DEF a, S, M, G, H
  <2> QED
    BY <2>1, <2>2, NewestAfter
<1>5. PICK x : G \ H \subseteq {x}
  BY <1>4
<1>6. H \subseteq M /\ G \subseteq S /\ M = S \cup {q} /\ M \subseteq Ids /\ q \notin S
      /\ q \notin stable
  BY <1>1 DEF H, M, G, S, Passed, Newest
<1>7. /\ Cardinality((stable \cap H) \ seen) <= Cardinality((stable \cap G) \ seen)
      /\ Cardinality((M \ H) \cap seen) <= Cardinality((S \ G) \cap seen) + 1
      /\ Cardinality(H \ seen) <= Cardinality(G \ seen) + 1
      /\ Cardinality(seen \ M) <= Cardinality(seen \ S)
      /\ Cardinality(seen \cup (S \ G)) <= Cardinality(seen \cup (M \ H))
      /\ Cardinality(seen \cup (M \ H)) <= Cardinality(seen \cup (S \ G)) + 1
  <2>1. Shift(S, M, q, G, H, x, seen, stable)
    BY <1>1, <1>4, <1>5, <1>6 DEF Shift
  <2> QED
    BY <1>6, <2>1, CountsAfter
<1> QED
  BY <1>1, <1>7 DEF Unread, Skipped, ToRepeat, Departed, Got, Ahead, S, M, G, H

\* And when one leaves it.
LEMMA LeaveCounts ==
    ASSUME IInv, AtOK, IInv', UNCHANGED reader, stable \subseteq Current,
           stable' = stable \cap Current', NEW q \in Ids, q \notin Current',
           Current = Current' \cup {q}, \A p \in Current' : At'[p] = At[p]
    PROVE  /\ Unread' <= Unread + 1 /\ ToRepeat' <= ToRepeat
           /\ Skipped' <= Skipped + 1 /\ Departed' <= Departed + 1
           /\ Got' <= Got /\ Got <= Got' + 1
<1>1. /\ Offset \in Nat /\ Offset' = Offset /\ seen' = seen /\ seen \subseteq Ids
      /\ stable \subseteq Ids /\ Current \subseteq Ids
  BY Numbers DEF Offset, reader
<1>2. Dated(At, Current)
  BY CurrentDated
<1>3. /\ Passed = Newest(At, Current, Offset)
      /\ Passed' = Newest(At, Current', Offset)
  BY <1>1, NewestAgree DEF Passed
<1> DEFINE a == At
           S == Current'
           M == Current
           G == Passed'
           H == Passed
<1> HIDE DEF a, S, M, G, H
<1>4. /\ H \ {q} \subseteq G
      /\ \E x : G \ H \subseteq {x}
      /\ q \notin H => H = G
  <2>1. Dated(a, S \cup {q}) /\ q \notin S /\ Offset \in Nat
    BY <1>1, <1>2 DEF a, S, M
  <2>2. G = Newest(a, S, Offset) /\ H = Newest(a, S \cup {q}, Offset)
    BY <1>3 DEF a, S, M, G, H
  <2> QED
    BY <2>1, <2>2, NewestAfter
<1>5. PICK x : G \ H \subseteq {x}
  BY <1>4
<1>6. H \subseteq M /\ G \subseteq S /\ M = S \cup {q} /\ M \subseteq Ids /\ q \notin S
  BY <1>1, <1>3 DEF H, M, G, S, Newest
<1>7. /\ Cardinality(((stable \cap S) \cap G) \ seen)
            <= Cardinality((stable \cap H) \ seen) + 1
      /\ Cardinality((S \ G) \cap seen) <= Cardinality((M \ H) \cap seen)
      /\ Cardinality(G \ seen) <= Cardinality(H \ seen) + 1
      /\ Cardinality(seen \ S) <= Cardinality(seen \ M) + 1
      /\ Cardinality(seen \cup (S \ G)) <= Cardinality(seen \cup (M \ H))
      /\ Cardinality(seen \cup (M \ H)) <= Cardinality(seen \cup (S \ G)) + 1
  <2>1. Shift(S, M, q, G, H, x, seen, stable)
    BY <1>1, <1>4, <1>5, <1>6 DEF Shift
  <2> QED
    BY <1>6, <2>1, CountsAfter
<1> QED
  BY <1>1, <1>7 DEF Unread, Skipped, ToRepeat, Departed, Got, Ahead, S, M, G, H

LEMMA ReadingWriter ==
    ASSUME RInv, IInv', AtOK', WriterStep, UNCHANGED reader, Observe
    PROVE  ReadingOK' /\ ReadOK'
<1> USE DEF RInv
<1>1. UNCHANGED <<list, seen, again>> /\ Effect
  BY WriterEffect DEF reader
<1>2. CASE list.pc \notin {"count", "select"}
  <2>1. UNCHANGED <<stable, moves>>
    BY <1>2 DEF Observe
  <2> QED
    BY <1>1, <1>2, <2>1 DEF ReadingOK, ReadOK, FewMissed, FewRepeated, TotalAgrees
<1>3. CASE list.pc \in {"count", "select"}
  <2>1. ReadOK'
    BY <1>1, <1>3 DEF ReadOK, FewMissed, FewRepeated, TotalAgrees
  <2>2. /\ stable' = stable \cap Current'
        /\ moves' = [in |-> moves.in + Cardinality(Current' \ Current),
                     out |-> moves.out + Cardinality(Current \ Current')]
    BY <1>1, <1>3 DEF Observe, Current
  <2>3. /\ stable \subseteq Current /\ Unread <= moves.out
        /\ again + ToRepeat <= moves.in /\ Skipped <= moves.in + moves.out
        /\ Departed <= moves.out
        /\ list.pc = "select" =>
              /\ list.total <= Got + moves.in + moves.out
              /\ Got <= list.total + moves.in + moves.out
    BY <1>3 DEF ReadingOK
  <2>4. Cardinality({}) = 0 /\ \A x : Cardinality({x}) = 1
    BY FS_EmptySet, FS_Singleton
  <2>5. /\ Unread' \in Nat /\ Skipped' \in Nat /\ ToRepeat' \in Nat
        /\ Departed' \in Nat /\ Got' \in Nat /\ Offset' = Offset
    <3>1. Current' \subseteq Ids /\ Passed' \subseteq Current' /\ Ahead' \subseteq Current'
          /\ seen' \subseteq Ids
      BY DEF Current, Listed, Passed, Newest, Ahead, IInv, TypeOK
    <3> QED
      BY <1>1, <3>1, Finite DEF Unread, Skipped, ToRepeat, Departed, Got, Offset
  <2> HIDE DEF RInv
  <2>6. IInv /\ AtOK
    BY DEF RInv
  <2>10. /\ moves'.in = moves.in + Cardinality(Current' \ Current)
         /\ moves'.out = moves.out + Cardinality(Current \ Current')
         /\ moves.in \in Nat /\ moves.out \in Nat
    <3>1. moves.in \in Nat /\ moves.out \in Nat
      BY <2>6, Numbers
    <3> HIDE DEF Current
    <3> QED
      BY <2>2, <3>1
  <2>7. CASE Current' = Current /\ \A p \in Current : At'[p] = At[p]
    <3>1. Passed' = Passed
      BY <2>5, <2>7, NewestAgree DEF Passed
    <3>2. stable' = stable /\ Current \ Current' = {} /\ Current' \ Current = {}
      BY <2>2, <2>3, <2>7
    <3>3. /\ Unread' = Unread /\ Skipped' = Skipped /\ ToRepeat' = ToRepeat
          /\ Departed' = Departed /\ Got' = Got
      BY <1>1, <2>7, <3>1, <3>2 DEF Unread, Skipped, ToRepeat, Departed, Got, Ahead
    <3>4. moves'.in = moves.in /\ moves'.out = moves.out
      <4>1. Cardinality(Current' \ Current) = 0 /\ Cardinality(Current \ Current') = 0
        BY <2>4, <3>2
      <4> QED
        BY <2>10, <4>1
    <3> QED
      BY <1>1, <2>1, <2>3, <2>7, <3>2, <3>3, <3>4 DEF ReadingOK
  <2>8. ASSUME NEW q \in Ids, q \notin Current, Current' = Current \cup {q},
               \A p \in Current : At'[p] = At[p]
        PROVE  ReadingOK'
    <3>1. /\ stable' = stable /\ stable' \subseteq Current'
          /\ Current \ Current' = {} /\ Current' \ Current = {q}
      BY <2>2, <2>3, <2>8
    <3>2. moves'.in = moves.in + 1 /\ moves'.out = moves.out
      <4>1. Cardinality(Current' \ Current) = 1 /\ Cardinality(Current \ Current') = 0
        BY <2>4, <3>1
      <4> QED
        BY <2>10, <4>1
    <3>3. /\ Unread' <= Unread /\ ToRepeat' <= ToRepeat + 1
          /\ Skipped' <= Skipped + 1 /\ Departed' <= Departed
          /\ Got <= Got' /\ Got' <= Got + 1
      BY <2>3, <2>6, <2>8, <3>1, EnterCounts
    <3>4. /\ Unread' <= moves'.out
          /\ again' + ToRepeat' <= moves'.in /\ Skipped' <= moves'.in + moves'.out
          /\ Departed' <= moves'.out
          /\ list'.pc = "select" =>
                /\ list'.total <= Got' + moves'.in + moves'.out
                /\ Got' <= list'.total + moves'.in + moves'.out
      BY <1>1, <2>3, <2>5, <2>6, <3>2, <3>3, Numbers
    <3> QED
      BY <3>1, <3>4 DEF ReadingOK
  <2>9. ASSUME NEW q \in Ids, q \notin Current', Current = Current' \cup {q},
               \A p \in Current' : At'[p] = At[p]
        PROVE  ReadingOK'
    <3>1. /\ stable' \subseteq Current'
          /\ Current' \ Current = {} /\ Current \ Current' = {q}
      BY <2>2, <2>9
    <3>2. moves'.in = moves.in /\ moves'.out = moves.out + 1
      <4>1. Cardinality(Current' \ Current) = 0 /\ Cardinality(Current \ Current') = 1
        BY <2>4, <3>1
      <4> QED
        BY <2>10, <4>1
    <3>3. /\ Unread' <= Unread + 1 /\ ToRepeat' <= ToRepeat
          /\ Skipped' <= Skipped + 1 /\ Departed' <= Departed + 1
          /\ Got' <= Got /\ Got <= Got' + 1
      BY <2>2, <2>3, <2>6, <2>9, LeaveCounts
    <3>4. /\ Unread' <= moves'.out
          /\ again' + ToRepeat' <= moves'.in /\ Skipped' <= moves'.in + moves'.out
          /\ Departed' <= moves'.out
          /\ list'.pc = "select" =>
                /\ list'.total <= Got' + moves'.in + moves'.out
                /\ Got' <= list'.total + moves'.in + moves'.out
      BY <1>1, <2>3, <2>5, <2>6, <3>2, <3>3, Numbers
    <3> QED
      BY <3>1, <3>4 DEF ReadingOK
  <2> QED
    BY <1>1, <2>1, <2>6, <2>7, <2>8, <2>9, ListAfter
<1> QED
  BY <1>2, <1>3

-----------------------------------------------------------------------------
(* The steps of the reader. *)

\* A page is what lies between its offset and the next one; after one that is
\* not full nothing is left.
LEMMA PageIs ==
    ASSUME IInv, AtOK
    PROVE  LET page == Page(list.of, list.page)
               next == Newest(At, Current, Offset + PageSize)
           IN  /\ next = Passed \cup page /\ Passed \cap page = {}
               /\ next \subseteq Current
               /\ Cardinality(page) < PageSize => next = Current
<1> DEFINE page == Page(list.of, list.page)
           next == Newest(At, Current, Offset + PageSize)
           R(p) == Cardinality({q \in Current : At[q] > At[p]})
<1>1. /\ PageSize \in Nat /\ Offset \in Nat
      /\ list.page * PageSize = Offset + PageSize
  <2>1. \A m, n \in Nat : (m + 1) * n = m * n + n
    OBVIOUS
  <2>2. /\ list.page - 1 \in Nat /\ (list.page - 1) + 1 = list.page /\ PageSize \in Nat
    BY PostsAssumption DEF IInv, TypeOK
  <2>3. ((list.page - 1) + 1) * PageSize = (list.page - 1) * PageSize + PageSize
    BY <2>1, <2>2
  <2> QED
    BY <2>2, <2>3, Numbers DEF Offset
<1>2. Current \subseteq Ids /\ \A p \in Current : R(p) \in Nat /\ R(p) = Rank(p, list.of)
  <2>1. Current \subseteq Ids
    BY DEF Current, Listed
  <2>2. ASSUME NEW p \in Current PROVE R(p) \in Nat /\ R(p) = Rank(p, list.of)
    <3>1. {q \in Current : At[q] > At[p]} \subseteq Ids
      BY <2>1
    <3>2. {q \in Current : At[q] > At[p]} = {q \in Listed(list.of) : post[q].at > post[p].at}
      BY <2>1 DEF Current, At
    <3> QED
      BY <3>1, <3>2, Finite DEF Rank
  <2> QED
    BY <2>1, <2>2
<1>3. /\ page = {p \in Current : Rank(p, list.of) \in Offset .. (Offset + PageSize) - 1}
      /\ next = {p \in Current : R(p) < Offset + PageSize}
      /\ Passed = {p \in Current : R(p) < Offset}
  BY <1>1 DEF Page, Newest, Passed, Offset, Current
<1>4. next = Passed \cup page /\ Passed \cap page = {} /\ next \subseteq Current
  <2> HIDE DEF R, page, next
  <2> QED
    BY <1>1, <1>2, <1>3
<1>5. ASSUME Cardinality(page) < PageSize, next # Current PROVE FALSE
  <2>1. Dated(At, Current)
    BY CurrentDated
  <2>2. Cardinality(next) = Offset + PageSize
    BY <1>1, <1>5, <2>1, NewestSize
  <2>3. Cardinality(Passed) <= Offset
    BY <1>1, <2>1, NewestSize DEF Passed
  <2> HIDE DEF page, next
  <2>4. Passed \subseteq Ids /\ page \subseteq Ids
    BY <1>2, <1>4
  <2>5. /\ Cardinality(next) = Cardinality(Passed) + Cardinality(page)
        /\ Cardinality(Passed) \in Nat /\ Cardinality(page) \in Nat
    BY <1>4, <2>4, Counts
  <2> QED
    BY <1>1, <1>5, <2>2, <2>3, <2>5
<1> QED
  BY <1>4, <1>5

LEMMA ReadingSelect ==
    ASSUME RInv, IInv', SelectPage
    PROVE  ReadingOK' /\ ReadOK'
<1> DEFINE page == Page(list.of, list.page)
           last == Cardinality(page) < PageSize
           next == Newest(At, Current, Offset + PageSize)
<1>0. IInv /\ AtOK /\ ReadingOK
  BY DEF RInv
<1>1. /\ next = Passed \cup page /\ Passed \cap page = {}
      /\ next \subseteq Current /\ (last => next = Current)
  BY <1>0, PageIs
<1>2. /\ list.pc = "select" /\ seen' = seen \cup page
      /\ again' = again + Cardinality(page \cap seen)
      /\ list' = [list EXCEPT !.pc = IF last THEN "read" ELSE "count",
                             !.page = IF last THEN list.page ELSE list.page + 1]
      /\ UNCHANGED <<post, stable, moves>>
  BY DEF SelectPage
<1>3. /\ list'.of = list.of /\ list'.total = list.total
      /\ list'.pc = (IF last THEN "read" ELSE "count")
      /\ list'.page = IF last THEN list.page ELSE list.page + 1
  <2> HIDE DEF last, page
  <2> QED
    BY <1>0, <1>2 DEF IInv, TypeOK
<1>4. Current' = Current /\ At' = At
  BY <1>2, <1>3 DEF Current, Listed, Stored, At
<1>5. Current \subseteq Ids /\ page \subseteq Current /\ seen \subseteq Ids /\ stable \subseteq Ids
      /\ Passed \subseteq Current
  BY <1>0, <1>1, Numbers
<1>6. /\ stable \subseteq Current /\ Unread <= moves.out
      /\ again + ToRepeat <= moves.in /\ Skipped <= moves.in + moves.out
      /\ Departed <= moves.out
      /\ list.total <= Got + moves.in + moves.out
      /\ Got <= list.total + moves.in + moves.out
  BY <1>0, <1>2 DEF ReadingOK
<1> HIDE DEF last, page, next
\* The same counts with the page behind the offset.
<1>7. Cardinality((stable \cap next) \ seen') <= Unread
  <2>1. (stable \cap next) \ seen' \subseteq (stable \cap Passed) \ seen
    BY <1>1, <1>2
  <2> QED
    BY <1>5, <2>1, Counts DEF Unread
<1>8. Cardinality(next \ seen') <= Skipped
  <2>1. next \ seen' \subseteq Passed \ seen
    BY <1>1, <1>2
  <2>2. next \ seen' \subseteq Ids /\ Passed \ seen \subseteq Ids
    BY <1>1, <1>5
  <2> QED
    BY <2>1, <2>2, Counts DEF Skipped
<1>9. again' + Cardinality((Current \ next) \cap seen') = again + ToRepeat
  <2> DEFINE T == page \cap seen
             U == (Current \ next) \cap seen'
  <2>1. T \cup U = Ahead \cap seen /\ T \cap U = {}
    BY <1>1, <1>2, <1>5 DEF Ahead
  <2>2. T \subseteq Ids /\ U \subseteq Ids
    BY <1>5
  <2>3. /\ Cardinality(T \cup U) = Cardinality(T) + Cardinality(U)
        /\ Cardinality(T) \in Nat /\ Cardinality(U) \in Nat
    BY <2>1, <2>2, Counts
  <2>4. ToRepeat = Cardinality(T \cup U)
    BY <2>1 DEF ToRepeat
  <2>5. again' = again + Cardinality(T) /\ again \in Nat
    BY <1>0, <1>2, Numbers
  <2> DEFINE c == Cardinality(T)
             d == Cardinality(U)
  <2>6. /\ c \in Nat /\ d \in Nat /\ ToRepeat = c + d /\ again' = again + c
    BY <2>3, <2>4, <2>5
  <2> HIDE DEF c, d
  <2>7. again' + d = again + ToRepeat
    BY <2>5, <2>6
  <2> QED
    BY <2>7 DEF d
<1>10. seen' \ Current = seen \ Current
  BY <1>2, <1>5
<1>11. Cardinality((Current \ next) \cap seen') \in Nat
  BY <1>5, Finite
<1>12. CASE ~last
  <2>1. Offset' = Offset + PageSize
    <3>1. \A m, n \in Nat : (m + 1) * n = m * n + n
      OBVIOUS
    <3>2. list.page - 1 \in Nat /\ PageSize \in Nat
          /\ (list.page + 1) - 1 = (list.page - 1) + 1
      BY <1>0, PostsAssumption DEF IInv, TypeOK
    <3>3. ((list.page - 1) + 1) * PageSize = (list.page - 1) * PageSize + PageSize
      BY <3>1, <3>2
    <3> QED
      BY <1>3, <1>12, <3>2, <3>3 DEF Offset
  <2>2. Passed' = next /\ Ahead' = Current \ next
    BY <1>4, <2>1 DEF Passed, Ahead, next
  <2>3. /\ Unread' <= Unread /\ Skipped' <= Skipped /\ Departed' = Departed
        /\ again' + ToRepeat' = again + ToRepeat /\ ToRepeat' \in Nat
    BY <1>2, <1>4, <1>7, <1>8, <1>9, <1>10, <1>11, <2>2
       DEF Unread, Skipped, Departed, ToRepeat
  <2>4. Unread' \in Nat /\ Skipped' \in Nat
    BY <1>1, <1>2, <1>4, <1>5, <2>2, Finite DEF Unread, Skipped
  <2>5. ReadingOK'
    BY <1>0, <1>2, <1>3, <1>4, <1>6, <1>12, <2>3, <2>4, Numbers DEF ReadingOK
  <2> QED
    BY <1>3, <1>12, <2>5 DEF ReadOK, FewMissed, FewRepeated, TotalAgrees
<1>13. CASE last
  <2>1. stable \ seen' = (stable \cap next) \ seen'
    BY <1>1, <1>6, <1>13
  <2>2. Cardinality(stable' \ seen') <= moves'.out
    <3>1. Cardinality(stable \ seen') <= Unread /\ Cardinality(stable \ seen') \in Nat
      BY <1>5, <1>7, <2>1, Finite
    <3> QED
      BY <1>0, <1>2, <1>6, <3>1, Numbers
  <2>3. again' <= moves'.in
    BY <1>0, <1>2, <1>6, <1>9, <1>11, Numbers DEF IInv, TypeOK
  <2>4. Cardinality(seen') = Got
    <3>1. seen' = seen \cup Ahead
      BY <1>1, <1>2, <1>5, <1>13 DEF Ahead
    <3> QED
      BY <3>1 DEF Got
  <2>5. ReadOK'
    BY <1>2, <1>3, <1>6, <2>2, <2>3, <2>4 DEF ReadOK, FewMissed, FewRepeated, TotalAgrees
  <2> QED
    BY <1>3, <1>13, <2>5 DEF ReadingOK
<1> QED
  BY <1>12, <1>13

\* Nothing is behind the first offset.
LEMMA ReadingOpen ==
    ASSUME RInv, IInv', NEW l \in Lists, OpenList(l)
    PROVE  ReadingOK' /\ ReadOK'
<1>1. /\ list' = [NoList EXCEPT !.pc = "count", !.of = l] /\ seen' = {}
      /\ again' = 0 /\ stable' = Listed(l) /\ moves' = [in |-> 0, out |-> 0]
      /\ UNCHANGED post
  BY DEF OpenList
<1>2. /\ list'.pc = "count" /\ list'.of = l /\ list'.page = 1
      /\ moves'.in = 0 /\ moves'.out = 0
  BY <1>1 DEF NoList
<1>3. Current' = Listed(l) /\ Listed(l) \subseteq Ids
  BY <1>1, <1>2 DEF Current, Listed, Stored
<1>4. Passed' = {}
  <2>1. Offset' = 0
    BY <1>2, PostsAssumption DEF Offset
  <2>2. \A p \in Current' : Cardinality({q \in Current' : At'[q] > At'[p]}) \in Nat
    <3> HIDE DEF Current
    <3>1. ASSUME NEW p \in Current'
          PROVE  {q \in Current' : At'[q] > At'[p]} \subseteq Ids
      BY <1>3
    <3> QED
      BY <3>1, Finite
  <2>3. Passed' = {p \in Current' : Cardinality({q \in Current' : At'[q] > At'[p]}) < 0}
    BY <2>1 DEF Passed, Newest
  <2> HIDE DEF Current, At, Passed
  <2>4. ASSUME NEW p \in Passed' PROVE FALSE
    <3>1. /\ Cardinality({q \in Current' : At'[q] > At'[p]}) \in Nat
          /\ Cardinality({q \in Current' : At'[q] > At'[p]}) < 0
      BY <2>2, <2>3, <2>4
    <3> QED
      BY <3>1
  <2> QED
    BY <2>4
<1>5. /\ Unread' = 0 /\ Skipped' = 0 /\ ToRepeat' = 0 /\ Departed' = 0
  <2>1. /\ (stable' \cap Passed') \ seen' = {} /\ Passed' \ seen' = {}
        /\ Ahead' \cap seen' = {} /\ seen' \ Current' = {}
    BY <1>1, <1>4
  <2> QED
    BY <2>1, FS_EmptySet DEF Unread, Skipped, ToRepeat, Departed
<1>6. ReadingOK'
  BY <1>1, <1>2, <1>3, <1>5 DEF ReadingOK
<1> QED
  BY <1>2, <1>6 DEF ReadOK, FewMissed, FewRepeated, TotalAgrees

\* The total differs from the posts read and ahead by those read that have
\* left, and those behind the offset that are unread.
LEMMA ReadingCount ==
    ASSUME RInv, IInv', CountPosts
    PROVE  ReadingOK' /\ ReadOK'
<1>0. IInv /\ AtOK /\ ReadingOK
  BY DEF RInv
<1>1. /\ list.pc = "count"
      /\ list' = [list EXCEPT !.pc = "select", !.total = Cardinality(Current)]
      /\ UNCHANGED <<post, seen, again, stable, moves>>
  BY DEF CountPosts, Current
<1>2. /\ list'.pc = "select" /\ list'.of = list.of /\ list'.page = list.page
      /\ list'.total = Cardinality(Current)
  <2> HIDE DEF Current
  <2> QED
    BY <1>0, <1>1 DEF IInv, TypeOK
<1>3. /\ Current' = Current /\ At' = At /\ Offset' = Offset
  BY <1>1, <1>2 DEF Current, Listed, Stored, At, Offset
<1>4. /\ Passed' = Passed /\ Ahead' = Ahead
  BY <1>3 DEF Passed, Ahead
<1>5. /\ Unread' = Unread /\ Skipped' = Skipped /\ ToRepeat' = ToRepeat
      /\ Departed' = Departed /\ Got' = Got
  BY <1>1, <1>3, <1>4 DEF Unread, Skipped, ToRepeat, Departed, Got
<1>6. /\ Current \subseteq Ids /\ Passed \subseteq Current /\ seen \subseteq Ids
      /\ Skipped \in Nat /\ Departed \in Nat /\ Got \in Nat
      /\ moves.in \in Nat /\ moves.out \in Nat
  BY <1>0, Numbers
<1>7. Cardinality(Current) \in Nat /\ Cardinality(Current) <= Got + Skipped
  <2> DEFINE T == seen \cup Ahead
             U == Passed \ seen
  <2>1. /\ Current \subseteq T \cup U /\ T \subseteq Ids /\ U \subseteq Ids
        /\ T \cup U \subseteq Ids
    BY <1>6 DEF Ahead
  <2>2. Cardinality(T) = Got /\ Cardinality(U) = Skipped
    BY DEF Got, Skipped
  <2> HIDE DEF Current, T, U
  <2>3. /\ Cardinality(Current) \in Nat /\ Cardinality(T \cup U) \in Nat
        /\ Cardinality(Current) <= Cardinality(T \cup U)
    BY <1>6, <2>1, Counts
  <2>4. Cardinality(T \cup U) <= Cardinality(T) + Cardinality(U)
    BY <2>1, Counts
  <2> DEFINE c == Cardinality(Current)
             d == Cardinality(T \cup U)
  <2>5. c \in Nat /\ d \in Nat /\ c <= d /\ d <= Got + Skipped
    BY <2>2, <2>3, <2>4
  <2> HIDE DEF c, d
  <2>6. c \in Nat /\ c <= Got + Skipped
    BY <1>6, <2>5
  <2> QED
    BY <2>6 DEF c
<1>8. Got <= Cardinality(Current) + Departed
  <2> DEFINE T == seen \cup Ahead
             U == seen \ Current
  <2>1. T \subseteq Current \cup U /\ T \subseteq Ids /\ U \subseteq Ids
        /\ Current \cup U \subseteq Ids
    BY <1>6 DEF Ahead
  <2>2. Cardinality(T) = Got /\ Cardinality(U) = Departed
    BY DEF Got, Departed
  <2> HIDE DEF Current, T, U
  <2>3. /\ Cardinality(Current \cup U) \in Nat
        /\ Cardinality(T) <= Cardinality(Current \cup U)
    BY <1>6, <2>1, Counts
  <2>4. Cardinality(Current \cup U) <= Cardinality(Current) + Cardinality(U)
    BY <1>6, <2>1, Counts
  <2> DEFINE c == Cardinality(Current)
             d == Cardinality(Current \cup U)
  <2>5. c \in Nat /\ d \in Nat /\ Got <= d /\ d <= c + Departed
    BY <1>7, <2>2, <2>3, <2>4
  <2> HIDE DEF c, d
  <2>6. Got <= c + Departed
    BY <1>6, <2>5
  <2> QED
    BY <2>6 DEF c
<1>9. /\ stable \subseteq Current /\ Unread <= moves.out
      /\ again + ToRepeat <= moves.in /\ Skipped <= moves.in + moves.out
      /\ Departed <= moves.out
  BY <1>0, <1>1 DEF ReadingOK
<1>10. /\ list'.total <= Got + moves.in + moves.out
       /\ Got <= list'.total + moves.in + moves.out
  <2> HIDE DEF Current, Got, Skipped, Departed
  <2> QED
    BY <1>2, <1>6, <1>7, <1>8, <1>9
<1> HIDE DEF Current, Unread, Skipped, ToRepeat, Departed, Got
<1>11. ReadingOK'
  BY <1>1, <1>3, <1>5, <1>9, <1>10 DEF ReadingOK
<1> QED
  BY <1>2, <1>11 DEF ReadOK, FewMissed, FewRepeated, TotalAgrees

\* A page that fails is counted again, and the list that is closed is over.
LEMMA ReadingRest ==
    ASSUME RInv, \/ PageFails \/ CloseList \/ UNCHANGED vars
    PROVE  ReadingOK' /\ ReadOK'
<1>1. CASE PageFails
  <2>1. /\ list.pc = "select" /\ list' = [list EXCEPT !.pc = "count"]
        /\ UNCHANGED <<post, seen, again, stable, moves>>
    BY <1>1 DEF PageFails
  <2>2. list'.pc = "count" /\ list'.of = list.of /\ list'.page = list.page
    BY <2>1 DEF RInv, IInv, TypeOK
  <2>3. Current' = Current /\ At' = At /\ Offset' = Offset
    BY <2>1, <2>2 DEF Current, Listed, Stored, At, Offset
  <2>4. Passed' = Passed /\ Ahead' = Ahead
    BY <2>3 DEF Passed, Ahead
  <2>5. /\ Unread' = Unread /\ Skipped' = Skipped /\ ToRepeat' = ToRepeat
        /\ Departed' = Departed
    BY <2>1, <2>3, <2>4 DEF Unread, Skipped, ToRepeat, Departed
  <2>6. /\ stable \subseteq Current /\ Unread <= moves.out
        /\ again + ToRepeat <= moves.in /\ Skipped <= moves.in + moves.out
        /\ Departed <= moves.out
    BY <2>1 DEF RInv, ReadingOK
  <2> HIDE DEF Current, Unread, Skipped, ToRepeat, Departed
  <2>7. ReadingOK'
    BY <2>1, <2>2, <2>3, <2>5, <2>6 DEF ReadingOK
  <2> QED
    BY <2>2, <2>7 DEF ReadOK, FewMissed, FewRepeated, TotalAgrees
<1>2. CASE CloseList
  <2>1. list'.pc = "idle"
    BY <1>2 DEF CloseList, NoList
  <2> QED
    BY <2>1 DEF ReadingOK, ReadOK, FewMissed, FewRepeated, TotalAgrees
<1>3. CASE UNCHANGED vars
  <2>1. UNCHANGED <<post, list, seen, again, stable, moves>>
    BY <1>3 DEF vars, reader
  <2>2. Current' = Current /\ At' = At /\ Offset' = Offset
    BY <2>1 DEF Current, Listed, Stored, At, Offset
  <2>3. Passed' = Passed /\ Ahead' = Ahead
    BY <2>2 DEF Passed, Ahead
  <2>4. ReadingOK'
    BY <2>1, <2>2, <2>3 DEF RInv, ReadingOK, Unread, Skipped, ToRepeat, Departed, Got
  <2> QED
    BY <2>1, <2>4 DEF RInv, ReadOK, FewMissed, FewRepeated, TotalAgrees
<1> QED
  BY <1>1, <1>2, <1>3

LEMMA ReadingInit == Init => RInv
<1> SUFFICES ASSUME Init PROVE RInv
  OBVIOUS
<1>1. list.pc = "idle" /\ \A p \in Ids : post[p].pc = "none"
  BY DEF Init, NoList, NoPost
<1> QED
  BY <1>1, InitInv
     DEF RInv, AtOK, ReadingOK, ReadOK, FewMissed, FewRepeated, TotalAgrees

LEMMA ReadingNext == RInv /\ [Next]_vars => RInv'
<1> SUFFICES ASSUME RInv, [Next]_vars PROVE RInv'
  OBVIOUS
<1>1. IInv' /\ AtOK'
  BY NextInv, AtStep DEF RInv
<1>2. ReadingOK' /\ ReadOK'
  <2>1. CASE UNCHANGED vars
    BY <2>1, ReadingRest
  <2>2. CASE ReaderStep
    BY <1>1, <2>2, ReadingOpen, ReadingCount, ReadingSelect, ReadingRest
       DEF ReaderStep
  <2>3. CASE WriterStep /\ UNCHANGED reader /\ Observe
    BY <1>1, <2>3, ReadingWriter
  <2> QED
    BY <2>1, <2>2, <2>3 DEF Next
<1> QED
  BY <1>1, <1>2 DEF RInv

LEMMA Reading == Spec => []ReadOK
<1>1. RInv => ReadOK
  BY DEF RInv
<1> QED
  BY <1>1, ReadingInit, ReadingNext, PTL DEF Spec

\* A reader of all the pages of a list misses, of the posts that stay in it,
\* no more than have left it meanwhile.
THEOREM ReadersMissFew == Spec => []FewMissed
<1>1. ReadOK => FewMissed
  BY DEF ReadOK
<1> QED
  BY <1>1, Reading, PTL

\* It gets no more posts twice than have entered the list meanwhile.
THEOREM ReadersRepeatFew == Spec => []FewRepeated
<1>1. ReadOK => FewRepeated
  BY DEF ReadOK
<1> QED
  BY <1>1, Reading, PTL

\* The total on the last page is the number of the posts in the pages, but
\* for those that entered the list or left it meanwhile.
THEOREM TotalsAgree == Spec => []TotalAgrees
<1>1. ReadOK => TotalAgrees
  BY DEF ReadOK
<1> QED
  BY <1>1, Reading, PTL
=============================================================================
