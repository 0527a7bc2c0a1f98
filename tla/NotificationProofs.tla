------------------------- MODULE NotificationProofs -------------------------
(***************************************************************************)
(* Comments and Notification, for every number of comments, deletions,     *)
(* posts and users and any number of faults: a comment is deleted once and *)
(* announced once, nothing is lost without a fault, and the mails are the  *)
(* lossy stream of Notices.                                                *)
(***************************************************************************)
EXTENDS Notification, TLAPS

USE DEF posts

\* A comment is stored before Publish writes its event, which is on the wire or
\* announced, not both, or lost by a fault; a deletion that was answered 200 took
\* the row away.
CommentOK(c) ==
    /\ create[c].pc = "fetch" => create[c].post \in Posts
    /\ create[c].pc \in {"none", "fetch", "insert"} => row[c] = "never"
    /\ create[c].pc \in {"publish"} \cup Handed => row[c] # "never"
    /\ deleted[c] <= 1
    /\ deleted[c] = 1 => row[c] = "gone"
    /\ create[c].pc \notin Handed => Places(c) = {} /\ ~OnWire(c)
    /\ OnWire(c) => Places(c) = {}
    /\ Places(c) # {} => \E i \in DOMAIN published : Places(c) = {i}
    /\ create[c].pc \in Handed /\ faults = 0 => OnWire(c) \/ Places(c) # {}

\* No event is on the wire twice.
WireOK == \A i, j \in DOMAIN wire : wire[i] = wire[j] => i = j

\* A deletion is about a comment that was stored, and past the check comes
\* from its author.
DeletionOK(d) ==
    /\ del[d].pc # "idle"
          => del[d].comment \in Comments /\ row[del[d].comment] # "never"
    /\ del[d].pc \in {"delete", "deleted"} => del[d].by = create[del[d].comment].by

ServiceOK == /\ \A c \in Comments : CommentOK(c)
             /\ WireOK
             /\ \A d \in Deletions : DeletionOK(d)

CInv == TypeOK /\ ServiceOK

CreateTypes == [pc : CreatePcs, post : Posts \cup {Nobody}, by : Users \cup {Nobody},
                author : Users \cup {Nobody}]
DeleteTypes == [pc : DeletePcs, comment : Comments \cup {Nobody}, by : Users \cup {Nobody}]

LEMMA CInitInv == Init => CInv
<1> SUFFICES ASSUME Init PROVE CInv
  OBVIOUS
<1>1. TypeOK
  <2>1. NoCreate \in CreateTypes /\ NoDeletion \in DeleteTypes
    BY DEF NoCreate, NoDeletion, CreateTypes, DeleteTypes, CreatePcs, DeletePcs
  <2>2. /\ owner \in [Posts -> Users \cup {Nobody}] /\ gone \subseteq Posts
        /\ row \in [Comments -> {"never", "stored", "gone"}]
        /\ create \in [Comments -> CreateTypes] /\ del \in [Deletions -> DeleteTypes]
        /\ deleted \in [Comments -> Nat] /\ channel \in BOOLEAN /\ bound \in BOOLEAN
    BY <2>1 DEF Init, PostService!Init
  <2>3. /\ wire \in Seq(Comments) /\ queue \in Seq(Comments)
        /\ published \in Seq(Comments)
        /\ since \subseteq Comments /\ faults \in 0..MaxFaults
    BY CommentsAssumption DEF Init
  <2> QED
    BY <2>2, <2>3 DEF TypeOK, CreateTypes, DeleteTypes
<1>2. ServiceOK
  BY DEF Init, ServiceOK, CommentOK, WireOK, DeletionOK, NoCreate, NoDeletion, Places,
         OnWire, Handed
<1> QED
  BY <1>1, <1>2 DEF CInv

-----------------------------------------------------------------------------
\* The steps of the comment service, by what they do.  One that begins a
\* comment, or moves it on without a row or an event.
Advances(c) ==
    /\ create' = [create EXCEPT ![c] = create'[c]] /\ create'[c] \in CreateTypes
    /\ UNCHANGED <<row, del, deleted, published, wire>>
    /\ \/ /\ create[c].pc = "none" /\ create'[c].pc = "fetch"
          /\ create'[c].post \in Posts
       \/ /\ create'[c].by = create[c].by
          /\ \/ create[c].pc = "fetch" /\ create'[c].pc \in {"insert", "failed"}
             \/ create[c].pc = "insert" /\ create'[c].pc = "failed"
             \/ create[c].pc = "publish" /\ create'[c].pc = "failed"

\* One that inserts its row.
Stores(c) ==
    /\ create[c].pc = "insert"
    /\ create' = [create EXCEPT ![c].pc = create'[c].pc]
    /\ create'[c].pc \in {"publish", "failed"}
    /\ row' = [row EXCEPT ![c] = "stored"]
    /\ UNCHANGED <<del, deleted, published, wire>>

\* One that writes its event to the connection, answers it, or announces it.
Hands(c) ==
    /\ create[c].pc = "publish"
    /\ create' = [create EXCEPT ![c].pc = "answer"]
    /\ wire' = Append(wire, c)
    /\ UNCHANGED <<row, del, deleted, published>>

Answers(c) ==
    /\ create[c].pc = "answer"
    /\ create' = [create EXCEPT ![c].pc = "created"]
    /\ UNCHANGED <<row, del, deleted, published, wire>>

Announces(c) ==
    /\ wire # <<>> /\ c = Head(wire)
    /\ wire' = Tail(wire)
    /\ published' = Append(published, c)
    /\ UNCHANGED <<row, create, del, deleted>>

\* One of a deletion that keeps the row, or takes it away.
Looks(d) ==
    /\ del' = [del EXCEPT ![d] = del'[d]] /\ del'[d] \in DeleteTypes
    /\ UNCHANGED <<row, create, deleted, published, wire>>
    /\ \/ del'[d].pc = "idle"
       \/ /\ del[d].pc = "idle" /\ del'[d].pc = "read"
          /\ del'[d].comment \in Comments /\ row[del'[d].comment] # "never"
       \/ /\ del[d].pc = "read" /\ del'[d].pc = "delete"
          /\ del'[d].comment = del[d].comment
          /\ del'[d].by = create[del[d].comment].by
       \/ /\ del[d].pc \in {"read", "delete"} /\ del'[d].pc \in {"refused", "failed"}
          /\ del'[d].comment = del[d].comment

Deletes(d) ==
    LET c == del[d].comment
    IN  /\ del[d].pc = "delete" /\ row[c] = "stored"
        /\ row' = [row EXCEPT ![c] = "gone"]
        /\ del' = [del EXCEPT ![d].pc = del'[d].pc]
        /\ \/ del'[d].pc = "deleted" /\ deleted' = [deleted EXCEPT ![c] = @ + 1]
           \/ del'[d].pc = "failed" /\ UNCHANGED deleted
        /\ UNCHANGED <<create, published, wire>>

\* One that leaves the comments alone, and loses what is on the wire or not.
Quiet ==
    /\ UNCHANGED <<row, create, del, deleted, published>>
    /\ wire' = wire \/ (wire' = <<>> /\ faults' # 0)

ServiceEffect ==
    /\ faults' = 0 => faults = 0
    /\ \/ \E c \in Comments : \/ Advances(c) \/ Stores(c)
                              \/ Hands(c) \/ Answers(c) \/ Announces(c)
       \/ \E d \in Deletions : Looks(d) \/ Deletes(d)
       \/ RestartService
       \/ Quiet

\* The variables that only have a type.
RestType == /\ owner \in [Posts -> Users \cup {Nobody}] /\ gone \subseteq Posts
            /\ channel \in BOOLEAN /\ bound \in BOOLEAN
            /\ queue \in Seq(Comments) /\ since \subseteq Comments
            /\ faults \in 0..MaxFaults

LEMMA FaultRest ==
    ASSUME TypeOK, Fault
    PROVE  since' \subseteq Comments /\ faults' \in 0..MaxFaults /\ faults' # 0
BY CommentsAssumption DEF Fault, TypeOK

LEMMA ServiceSteps ==
    ASSUME CInv, ServiceNext \/ RestartBroker
    PROVE  ServiceEffect /\ RestType'
<1> USE CommentsAssumption DEF CInv, TypeOK
<1>1. ASSUME NEW c \in Comments, NEW p \in Posts, NEW u \in Users, BeginCreate(c, p, u)
      PROVE  ServiceEffect /\ RestType'
  <2>0. create'[c] = [pc |-> "fetch", post |-> p, by |-> u, author |-> Nobody]
    BY <1>1 DEF BeginCreate
  <2>1. Advances(c)
    BY <1>1, <2>0 DEF BeginCreate, Advances, CreateTypes, CreatePcs, broker
  <2> QED
    BY <1>1, <2>1 DEF BeginCreate, ServiceEffect, RestType, broker
<1>2. ASSUME NEW c \in Comments, FetchPost(c) PROVE ServiceEffect /\ RestType'
  <2>0. create[c].post \in Posts /\ create[c].pc = "fetch"
    BY <1>2 DEF FetchPost, ServiceOK, CommentOK
  <2>1. create'[c] = [create[c] EXCEPT !.pc = "insert", !.author = owner[create[c].post]]
    BY <1>2 DEF FetchPost
  <2>2. owner[create[c].post] \in Users \cup {Nobody} /\ create[c] \in CreateTypes
    BY <2>0 DEF CreateTypes
  <2>3. create'[c] \in CreateTypes
    BY <2>1, <2>2 DEF CreateTypes, CreatePcs
  <2>4. create'[c].by = create[c].by /\ create'[c].pc = "insert"
    BY <2>1, <2>2 DEF CreateTypes
  <2>5. Advances(c)
    BY <1>2, <2>0, <2>3, <2>4 DEF FetchPost, Advances, broker
  <2> QED
    BY <1>2, <2>5 DEF FetchPost, ServiceEffect, RestType, broker
<1>3. ASSUME NEW c \in Comments, InsertComment(c) PROVE ServiceEffect /\ RestType'
  <2>1. Stores(c)
    BY <1>3 DEF InsertComment, Stores, broker
  <2> QED
    BY <1>3, <2>1 DEF InsertComment, ServiceEffect, RestType, broker
<1>4. ASSUME NEW c \in Comments, PublishNewComment(c) PROVE ServiceEffect /\ RestType'
  <2>1. Hands(c)
    BY <1>4 DEF PublishNewComment, Hands
  <2> QED
    BY <1>4, <2>1 DEF PublishNewComment, ServiceEffect, RestType
<1>17. ASSUME NEW c \in Comments, AnswerCreate(c) PROVE ServiceEffect /\ RestType'
  <2>1. Answers(c)
    BY <1>17 DEF AnswerCreate, Answers, broker
  <2> QED
    BY <1>17, <2>1 DEF AnswerCreate, ServiceEffect, RestType, broker
<1>18. CASE Route
  <2>0. wire # <<>> /\ Head(wire) \in Comments
    BY <1>18 DEF Route
  <2>1. Announces(Head(wire))
    BY <1>18 DEF Route, Announces, service
  <2>2. queue' \in Seq(Comments) /\ since' \subseteq Comments
    <3>1. Append(queue, Head(wire)) \in Seq(Comments)
      BY <2>0
    <3>2. \/ queue' = Append(queue, Head(wire)) /\ since' = since \cup {Head(wire)}
          \/ queue' = queue /\ since' = since
      BY <1>18 DEF Route
    <3> QED
      BY <2>0, <3>1, <3>2
  <2>3. RestType'
    BY <1>18, <2>2 DEF Route, RestType
  <2> QED
    BY <1>18, <2>0, <2>1, <2>3 DEF Route, ServiceEffect
<1>5. ASSUME NEW c \in Comments, PublishRefused(c) PROVE ServiceEffect /\ RestType'
  <2>1. Advances(c)
    BY <1>5 DEF PublishRefused, Advances, CreateTypes, CreatePcs, broker
  <2> QED
    BY <1>5, <2>1 DEF PublishRefused, ServiceEffect, RestType, broker
<1>6. ASSUME NEW d \in Deletions, NEW c \in Comments, NEW u \in Users, BeginDelete(d, c, u)
      PROVE  ServiceEffect /\ RestType'
  <2>1. row[c] # "never"
    BY <1>6 DEF BeginDelete
  <2>2. Looks(d)
    BY <1>6, <2>1 DEF BeginDelete, Looks, DeleteTypes, DeletePcs, broker
  <2> QED
    BY <1>6, <2>2 DEF BeginDelete, ServiceEffect, RestType, broker
<1>7. ASSUME NEW d \in Deletions, ReadComment(d) PROVE ServiceEffect /\ RestType'
  <2>1. Looks(d)
    BY <1>7 DEF ReadComment, Looks, DeleteTypes, DeletePcs, broker
  <2> QED
    BY <1>7, <2>1 DEF ReadComment, ServiceEffect, RestType, broker
<1>8. ASSUME NEW d \in Deletions, DeleteRow(d) PROVE ServiceEffect /\ RestType'
  <2>1. CASE del[d].comment \in stored
    <3>1. Deletes(d)
      BY <1>8, <2>1 DEF DeleteRow, Deletes, stored, broker
    <3> QED
      BY <1>8, <3>1 DEF DeleteRow, ServiceEffect, RestType, broker
  <2>2. CASE del[d].comment \notin stored
    <3>0. /\ del[d].pc = "delete" /\ del' = [del EXCEPT ![d].pc = "refused"]
          /\ UNCHANGED <<row, create, deleted, broker>>
      BY <1>8, <2>2 DEF DeleteRow
    <3>1. Looks(d)
      BY <3>0 DEF Looks, DeleteTypes, DeletePcs, broker
    <3> QED
      BY <1>8, <3>1 DEF DeleteRow, ServiceEffect, RestType, broker
  <2> QED
    BY <2>1, <2>2
<1>9. ASSUME NEW d \in Deletions, AnswerDelete(d) PROVE ServiceEffect /\ RestType'
  <2>1. Looks(d)
    BY <1>9 DEF AnswerDelete, Looks, DeleteTypes, DeletePcs, NoDeletion, broker
  <2> QED
    BY <1>9, <2>1 DEF AnswerDelete, ServiceEffect, RestType, broker
<1>10. ASSUME NEW p \in Posts, DeletePost(p) \/ \E u \in Users : CreatePost(p, u)
       PROVE  ServiceEffect /\ RestType'
  BY <1>10 DEF DeletePost, CreatePost, PostService!Vanish, PostService!Appear,
               ServiceEffect, Quiet, RestType, broker, service
<1>11. ASSUME NEW c \in Comments, CreateFails(c) PROVE ServiceEffect /\ RestType'
  <2>1. CASE UNCHANGED row
    <3>0. /\ create[c].pc \in {"fetch", "insert"}
          /\ create' = [create EXCEPT ![c].pc = "failed"]
          /\ UNCHANGED <<row, del, deleted, published, wire>>
      BY <1>11, <2>1 DEF CreateFails
    <3>1. Advances(c)
      BY <3>0 DEF Advances, CreateTypes, CreatePcs
    <3> QED
      BY <1>11, <3>1 DEF CreateFails, Fault, ServiceEffect, RestType
  <2>2. CASE create[c].pc = "insert" /\ row' = [row EXCEPT ![c] = "stored"]
    <3>1. Stores(c)
      BY <1>11, <2>2 DEF CreateFails, Stores
    <3> QED
      BY <1>11, <3>1 DEF CreateFails, Fault, ServiceEffect, RestType
  <2> QED
    BY <1>11, <2>1, <2>2 DEF CreateFails
<1>12. ASSUME NEW d \in Deletions, DeleteFails(d) PROVE ServiceEffect /\ RestType'
  <2>1. CASE UNCHANGED row
    <3>1. Looks(d)
      BY <1>12, <2>1 DEF DeleteFails, Looks, DeleteTypes, DeletePcs
    <3> QED
      BY <1>12, <3>1 DEF DeleteFails, Fault, ServiceEffect, RestType
  <2>2. CASE /\ del[d].pc = "delete" /\ row[del[d].comment] = "stored"
             /\ row' = [row EXCEPT ![del[d].comment] = "gone"]
    <3>1. Deletes(d)
      BY <1>12, <2>2 DEF DeleteFails, Deletes
    <3> QED
      BY <1>12, <3>1 DEF DeleteFails, Fault, ServiceEffect, RestType
  <2> QED
    BY <1>12, <2>1, <2>2 DEF DeleteFails
<1>14. CASE LoseChannel
  <2>1. RestType' /\ faults' # 0
    BY <1>14, FaultRest DEF LoseChannel, RestType
  <2> QED
    BY <1>14, <2>1 DEF LoseChannel, ServiceEffect, Quiet, service
<1>15. CASE RestartService
  <2>1. RestType' /\ faults' # 0
    BY <1>15, FaultRest DEF RestartService, RestType
  <2> QED
    BY <1>15, <2>1 DEF ServiceEffect
<1>16. CASE RestartBroker
  <2>1. RestType' /\ faults' # 0
    <3>1. <<>> \in Seq(Comments)
      OBVIOUS
    <3> QED
      BY <1>16, <3>1, FaultRest DEF RestartBroker, RestType
  <2> QED
    BY <1>16, <2>1 DEF RestartBroker, ServiceEffect, Quiet, service
<1> QED
  BY <1>1, <1>2, <1>3, <1>4, <1>5, <1>6, <1>7, <1>8, <1>9, <1>10, <1>11, <1>12,
     <1>14, <1>15, <1>16, <1>17, <1>18
     DEF ServiceNext, CalmNext, CreateStep, DeleteStep

-----------------------------------------------------------------------------
\* An event has a place of its own and leaves the others theirs.
LEMMA NewPlace ==
    ASSUME published \in Seq(Comments), NEW c \in Comments,
           published' = Append(published, c)
    PROVE  /\ Len(published) \in Nat /\ DOMAIN published = 1..Len(published)
           /\ DOMAIN published' = 1..Len(published) + 1
           /\ \A i \in 1..Len(published) : published'[i] = published[i]
           /\ published'[Len(published) + 1] = c
           /\ \A x \in Comments : x # c => Places(x)' = Places(x)
           /\ Places(c) = {} => Places(c)' = {Len(published) + 1}
<1>1. /\ Len(published) \in Nat /\ DOMAIN published = 1..Len(published)
      /\ DOMAIN published' = 1..Len(published) + 1
      /\ \A i \in 1..Len(published) : published'[i] = published[i]
      /\ published'[Len(published) + 1] = c
  OBVIOUS
<1>2. ASSUME NEW x \in Comments, x # c PROVE Places(x)' = Places(x)
  BY <1>1, <1>2 DEF Places
<1>3. ASSUME Places(c) = {} PROVE Places(c)' = {Len(published) + 1}
  BY <1>1, <1>3 DEF Places
<1> QED
  BY <1>1, <1>2, <1>3

\* What becomes of the wire when an event joins it, leaves it, or all are lost.
LEMMA WireJoins ==
    ASSUME wire \in Seq(Comments), WireOK, NEW c \in Comments, ~OnWire(c),
           wire' = Append(wire, c)
    PROVE  /\ wire' \in Seq(Comments) /\ WireOK'
           /\ \A x \in Comments : OnWire(x)' <=> OnWire(x) \/ x = c
<1>1. /\ Append(wire, c) \in Seq(Comments) /\ Len(wire) \in Nat
      /\ DOMAIN wire = 1..Len(wire)
      /\ DOMAIN Append(wire, c) = 1..Len(wire) + 1
      /\ \A i \in 1..Len(wire) : Append(wire, c)[i] = wire[i]
      /\ Append(wire, c)[Len(wire) + 1] = c
  OBVIOUS
<1>2. \A i \in 1..Len(wire) + 1 : i \in 1..Len(wire) \/ i = Len(wire) + 1
  BY <1>1
<1>3. WireOK'
  BY <1>1, <1>2 DEF WireOK, OnWire
<1>4. ASSUME NEW x \in Comments PROVE OnWire(x)' <=> OnWire(x) \/ x = c
  <2>1. Len(wire) + 1 \in 1..Len(wire) + 1 /\ 1..Len(wire) \subseteq 1..Len(wire) + 1
    BY <1>1
  <2> QED
    BY <1>1, <1>2, <2>1 DEF OnWire
<1> QED
  BY <1>1, <1>3, <1>4

LEMMA WireLeaves ==
    ASSUME wire \in Seq(Comments), WireOK, wire # <<>>, wire' = Tail(wire),
           NEW c \in Comments, c = Head(wire)
    PROVE  /\ wire' \in Seq(Comments) /\ WireOK' /\ OnWire(c) /\ ~OnWire(c)'
           /\ \A x \in Comments : x # c => (OnWire(x)' <=> OnWire(x))
<1>1. /\ Tail(wire) \in Seq(Comments) /\ Len(wire) \in Nat /\ Len(wire) >= 1
      /\ DOMAIN wire = 1..Len(wire) /\ DOMAIN Tail(wire) = 1..Len(wire) - 1
      /\ c = wire[1]
      /\ \A i \in 1..Len(wire) - 1 : Tail(wire)[i] = wire[i + 1] /\ i + 1 \in 1..Len(wire)
  OBVIOUS
<1>2. 1 \in 1..Len(wire) /\ \A i \in 1..Len(wire) : i = 1 \/ i - 1 \in 1..Len(wire) - 1
  BY <1>1
<1>3. WireOK'
  BY <1>1 DEF WireOK
<1>4. OnWire(c) /\ ~OnWire(c)'
  <2>1. \A i \in 1..Len(wire) - 1 : wire'[i] # wire[1]
    BY <1>1, <1>2 DEF WireOK
  <2> QED
    BY <1>1, <1>2, <2>1 DEF OnWire
<1>5. ASSUME NEW x \in Comments, x # c PROVE OnWire(x)' <=> OnWire(x)
  <2>1. OnWire(x)' => OnWire(x)
    BY <1>1 DEF OnWire
  <2>2. ASSUME NEW i \in 1..Len(wire), wire[i] = x PROVE OnWire(x)'
    <3>1. i - 1 \in 1..Len(wire) - 1 /\ Tail(wire)[i - 1] = wire[(i - 1) + 1]
          /\ (i - 1) + 1 = i
      BY <1>1, <1>2, <1>5, <2>2
    <3> QED
      BY <1>1, <2>2, <3>1 DEF OnWire
  <2> QED
    BY <1>1, <2>1, <2>2 DEF OnWire
<1> QED
  BY <1>1, <1>3, <1>4, <1>5

LEMMA WireStays ==
    ASSUME wire' = wire, WireOK
    PROVE  WireOK' /\ \A x : OnWire(x)' <=> OnWire(x)
BY DEF WireOK, OnWire

LEMMA WireLost ==
    ASSUME wire' = <<>>
    PROVE  wire' \in Seq(Comments) /\ WireOK' /\ \A x : ~OnWire(x)'
BY DEF WireOK, OnWire

\* The types of what a step of the service may change.
Types == /\ row \in [Comments -> {"never", "stored", "gone"}]
         /\ create \in [Comments -> CreateTypes] /\ del \in [Deletions -> DeleteTypes]
         /\ deleted \in [Comments -> Nat]

LEMMA ServiceTypes ==
    ASSUME CInv, ServiceEffect, RestType'
    PROVE  TypeOK'
<1>0. Types /\ published \in Seq(Comments) /\ wire \in Seq(Comments)
  BY DEF CInv, TypeOK, CreateTypes, DeleteTypes, Types
<1> DEFINE WP == wire' \in Seq(Comments) /\ published' \in Seq(Comments)
<1>1. ASSUME NEW c \in Comments, Advances(c) PROVE Types' /\ WP
  BY <1>0, <1>1 DEF Advances, Types
<1>2. ASSUME NEW c \in Comments, Stores(c) PROVE Types' /\ WP
  <2>0. PICK pc \in {"publish", "failed"} : create' = [create EXCEPT ![c].pc = pc]
    BY <1>2 DEF Stores
  <2>1. create' \in [Comments -> CreateTypes]
    BY <1>0, <2>0 DEF CreateTypes, CreatePcs, Types
  <2> QED
    BY <1>0, <1>2, <2>1 DEF Stores, Types
<1>3. ASSUME NEW c \in Comments, Hands(c) \/ Answers(c) PROVE Types' /\ WP
  <2>0. PICK pc \in {"answer", "created"} : create' = [create EXCEPT ![c].pc = pc]
    BY <1>3 DEF Hands, Answers
  <2>1. create' \in [Comments -> CreateTypes]
    BY <1>0, <2>0 DEF CreateTypes, CreatePcs, Handed, Types
  <2>2. /\ row' = row /\ del' = del /\ deleted' = deleted /\ published' = published
        /\ wire' = Append(wire, c) \/ wire' = wire
    BY <1>3 DEF Hands, Answers
  <2>3. Append(wire, c) \in Seq(Comments)
    BY <1>0
  <2> QED
    BY <1>0, <2>1, <2>2, <2>3 DEF Types
<1>9. ASSUME NEW c \in Comments, Announces(c) PROVE Types' /\ WP
  <2>1. Append(published, c) \in Seq(Comments) /\ Tail(wire) \in Seq(Comments)
    BY <1>0, <1>9 DEF Announces
  <2> QED
    BY <1>0, <1>9, <2>1 DEF Announces, Types
<1>4. ASSUME NEW d \in Deletions, Looks(d) PROVE Types' /\ WP
  BY <1>0, <1>4 DEF Looks, Types
<1>5. ASSUME NEW d \in Deletions, Deletes(d) PROVE Types' /\ WP
  <2>0. PICK pc \in {"deleted", "failed"} : del' = [del EXCEPT ![d].pc = pc]
    BY <1>5 DEF Deletes
  <2>1. del' \in [Deletions -> DeleteTypes]
    BY <1>0, <2>0 DEF DeleteTypes, DeletePcs, Types
  <2>2. deleted' \in [Comments -> Nat]
    BY <1>0, <1>5 DEF Deletes, Types
  <2> QED
    BY <1>0, <1>5, <2>1, <2>2 DEF Deletes, Types
<1>6. ASSUME RestartService PROVE Types' /\ WP
  <2>1. ASSUME NEW c \in Comments PROVE create'[c] \in CreateTypes
    <3>1. PICK pc \in {create[c].pc, "failed", "unheard"} :
              create'[c] = [create[c] EXCEPT !.pc = pc]
      <4>1. create[c] = [create[c] EXCEPT !.pc = create[c].pc]
        BY <1>0 DEF CreateTypes, Types
      <4> QED
        BY <1>6, <4>1 DEF RestartService
    <3> QED
      BY <1>0, <3>1 DEF CreateTypes, CreatePcs, Handed, Types
  <2>2. create' \in [Comments -> CreateTypes]
    BY <1>6, <2>1 DEF RestartService
  <2>3. NoDeletion \in DeleteTypes
    BY DEF NoDeletion, DeleteTypes, DeletePcs
  <2>4. del' \in [Deletions -> DeleteTypes]
    BY <1>6, <2>3 DEF RestartService
  <2>5. row' = row /\ deleted' = deleted /\ published' = published /\ wire' = <<>>
    BY <1>6 DEF RestartService
  <2>6. Types' /\ <<>> \in Seq(Comments)
    BY <1>0, <2>2, <2>4, <2>5 DEF Types
  <2> QED
    BY <1>0, <2>5, <2>6
<1>7. ASSUME Quiet PROVE Types' /\ WP
  <2>1. Types' /\ published' = published /\ <<>> \in Seq(Comments)
    BY <1>0, <1>7 DEF Types, Quiet
  <2> QED
    BY <1>0, <1>7, <2>1 DEF Quiet
<1>8. Types' /\ WP
  BY <1>1, <1>2, <1>3, <1>4, <1>5, <1>6, <1>7, <1>9 DEF ServiceEffect
<1> QED
  BY <1>8 DEF RestType, Types, TypeOK, CreateTypes, DeleteTypes

LEMMA PlacesStay ==
    ASSUME published' = published, NEW x
    PROVE  Places(x)' = Places(x)
BY DEF Places

\* What a step leaves of the events of a comment.
LEMMA EventsStay ==
    ASSUME WireOK, NEW x, published' = published, wire' = wire
    PROVE  Places(x)' = Places(x) /\ (OnWire(x)' <=> OnWire(x)) /\ WireOK'
BY PlacesStay, WireStays

\* A comment whose row, creation and deletions stay, while its event is where it
\* was, or is lost by a fault.
LEMMA CommentKept ==
    ASSUME NEW x, CommentOK(x), faults' = 0 => faults = 0,
           create'[x] = create[x], row'[x] = row[x], deleted'[x] = deleted[x],
           published' = published \/ DOMAIN published \subseteq DOMAIN published',
           Places(x)' = Places(x),
           (OnWire(x)' <=> OnWire(x)) \/ (~OnWire(x)' /\ faults' # 0)
    PROVE  CommentOK(x)'
BY DEF CommentOK

\* The comment that moves, and the wire.
LEMMA CommentsStay ==
    ASSUME CInv, ServiceEffect, NEW x \in Comments
    PROVE  CommentOK(x)' /\ WireOK'
<1>0. /\ CommentOK(x) /\ WireOK /\ deleted[x] \in Nat
      /\ published \in Seq(Comments) /\ wire \in Seq(Comments)
      /\ row \in [Comments -> {"never", "stored", "gone"}]
      /\ create \in [Comments -> CreateTypes] /\ deleted \in [Comments -> Nat]
      /\ faults' = 0 => faults = 0
      /\ \A c \in Comments : CommentOK(c)
  BY DEF CInv, TypeOK, ServiceOK, ServiceEffect, CreateTypes
<1>1. ASSUME NEW c \in Comments, Advances(c) PROVE CommentOK(x)' /\ WireOK'
  <2>0. Places(x)' = Places(x) /\ (OnWire(x)' <=> OnWire(x)) /\ WireOK' /\ row' = row
        /\ deleted' = deleted /\ published' = published
    BY <1>0, <1>1, EventsStay DEF Advances
  <2>1. CASE x = c
    <3>1. create'[x].pc \in {"fetch", "insert", "failed"} /\ create[x].pc \notin Handed
      BY <1>1, <2>1 DEF Advances, Handed
    <3>2. create[x].pc = "publish" => create'[x].pc = "failed"
      BY <1>1, <2>1 DEF Advances
    <3>3. create'[x].pc = "fetch" => create'[x].post \in Posts
      BY <1>1, <2>1 DEF Advances
    <3>4. create'[x].pc \in {"fetch", "insert"} => create[x].pc \in {"none", "fetch"}
      BY <1>1, <2>1 DEF Advances
    <3> QED
      BY <1>0, <2>0, <3>1, <3>2, <3>3, <3>4 DEF CommentOK, Handed
  <2>2. CASE x # c
    <3>1. create'[x] = create[x]
      BY <1>0, <1>1, <2>2 DEF Advances
    <3> QED
      BY <1>0, <2>0, <3>1, CommentKept
  <2> QED
    BY <2>1, <2>2
<1>2. ASSUME NEW c \in Comments, Stores(c) PROVE CommentOK(x)' /\ WireOK'
  <2>0. Places(x)' = Places(x) /\ (OnWire(x)' <=> OnWire(x)) /\ WireOK'
        /\ deleted' = deleted /\ published' = published
    BY <1>0, <1>2, EventsStay DEF Stores
  <2>1. CASE x = c
    <3>1. row'[x] = "stored" /\ row[x] = "never" /\ deleted[x] = 0
      BY <1>0, <1>2, <2>1 DEF Stores, CommentOK
    <3>2. create'[x].pc \in {"publish", "failed"} /\ create[x].pc \notin Handed
      BY <1>2, <2>1 DEF Stores, Handed
    <3> QED
      BY <1>0, <2>0, <3>1, <3>2 DEF CommentOK, Handed
  <2>2. CASE x # c
    <3>1. create'[x] = create[x] /\ row'[x] = row[x]
      BY <1>0, <1>2, <2>2 DEF Stores
    <3> QED
      BY <1>0, <2>0, <3>1, CommentKept
  <2> QED
    BY <2>1, <2>2
<1>3. ASSUME NEW c \in Comments, Hands(c) PROVE CommentOK(x)' /\ WireOK'
  <2>0. /\ Places(x)' = Places(x) /\ deleted' = deleted /\ published' = published
        /\ row' = row /\ wire' = Append(wire, c)
    BY <1>3, PlacesStay DEF Hands
  <2>1. ~OnWire(c) /\ Places(c) = {} /\ create[c].pc = "publish" /\ row[c] # "never"
    BY <1>0, <1>3 DEF Hands, CommentOK, Handed
  <2>2. WireOK' /\ (OnWire(x)' <=> OnWire(x) \/ x = c)
    BY <1>0, <2>0, <2>1, WireJoins
  <2>3. CASE x = c
    <3>1. create'[x].pc = "answer"
      BY <1>0, <1>3, <2>3 DEF Hands, CreateTypes
    <3> QED
      BY <1>0, <2>0, <2>1, <2>2, <2>3, <3>1 DEF CommentOK, Handed
  <2>4. CASE x # c
    <3>1. create'[x] = create[x]
      BY <1>3, <2>4 DEF Hands
    <3> QED
      BY <1>0, <2>0, <2>2, <2>4, <3>1, CommentKept
  <2> QED
    BY <2>3, <2>4
<1>4. ASSUME NEW c \in Comments, Answers(c) PROVE CommentOK(x)' /\ WireOK'
  <2>0. Places(x)' = Places(x) /\ (OnWire(x)' <=> OnWire(x)) /\ WireOK' /\ row' = row
        /\ deleted' = deleted /\ published' = published
    BY <1>0, <1>4, EventsStay DEF Answers
  <2>1. CASE x = c
    <3>1. create'[x].pc = "created" /\ create[x].pc = "answer"
      BY <1>0, <1>4, <2>1 DEF Answers, CreateTypes
    <3> QED
      BY <1>0, <2>0, <3>1 DEF CommentOK, Handed
  <2>2. CASE x # c
    <3>1. create'[x] = create[x]
      BY <1>4, <2>2 DEF Answers
    <3> QED
      BY <1>0, <2>0, <3>1, CommentKept
  <2> QED
    BY <2>1, <2>2
<1>5. ASSUME NEW c \in Comments, Announces(c) PROVE CommentOK(x)' /\ WireOK'
  <2>0. /\ published' = Append(published, c) /\ wire' = Tail(wire) /\ c = Head(wire)
        /\ wire # <<>> /\ create' = create /\ row' = row /\ deleted' = deleted
    BY <1>5 DEF Announces
  <2>1. /\ WireOK' /\ OnWire(c) /\ ~OnWire(c)'
        /\ x # c => (OnWire(x)' <=> OnWire(x))
    BY <1>0, <2>0, WireLeaves
  <2>2. Places(c) = {} /\ create[c].pc \in Handed
    BY <1>0, <2>1 DEF CommentOK
  <2>3. CASE x = c
    <3>1. Places(x)' = {Len(published) + 1} /\ Len(published) + 1 \in DOMAIN published'
      BY <1>0, <2>0, <2>2, <2>3, NewPlace
    <3> QED
      BY <1>0, <2>0, <2>1, <2>2, <2>3, <3>1 DEF CommentOK
  <2>4. CASE x # c
    <3>1. Places(x)' = Places(x) /\ DOMAIN published \subseteq DOMAIN published'
      BY <1>0, <2>0, <2>4, NewPlace
    <3> QED
      BY <1>0, <2>0, <2>1, <2>4, <3>1, CommentKept
  <2> QED
    BY <2>1, <2>3, <2>4
<1>6. ASSUME NEW d \in Deletions, Looks(d) PROVE CommentOK(x)' /\ WireOK'
  <2>1. Places(x)' = Places(x) /\ (OnWire(x)' <=> OnWire(x)) /\ WireOK' /\ row' = row
        /\ deleted' = deleted /\ published' = published /\ create' = create
    BY <1>0, <1>6, EventsStay DEF Looks
  <2> QED
    BY <1>0, <2>1, CommentKept
<1>7. ASSUME NEW d \in Deletions, Deletes(d) PROVE CommentOK(x)' /\ WireOK'
  <2>0. Places(x)' = Places(x) /\ (OnWire(x)' <=> OnWire(x)) /\ WireOK'
        /\ published' = published /\ create' = create
    BY <1>0, <1>7, EventsStay DEF Deletes
  <2>1. CASE x = del[d].comment
    <3>1. row[x] = "stored" /\ row'[x] = "gone" /\ deleted[x] = 0
      BY <1>0, <1>7, <2>1 DEF Deletes, CommentOK
    <3>2. deleted'[x] \in {0, 1}
      BY <1>0, <1>7, <2>1, <3>1 DEF Deletes
    <3> QED
      BY <1>0, <2>0, <3>1, <3>2 DEF CommentOK
  <2>2. CASE x # del[d].comment
    <3>1. row'[x] = row[x] /\ deleted'[x] = deleted[x]
      BY <1>0, <1>7, <2>2 DEF Deletes
    <3> QED
      BY <1>0, <2>0, <3>1, CommentKept
  <2> QED
    BY <2>1, <2>2
<1>8. CASE RestartService
  <2>0. /\ row' = row /\ deleted' = deleted /\ published' = published
        /\ wire' = <<>> /\ faults' # 0
    <3>1. faults \in Nat
      BY CommentsAssumption DEF CInv, TypeOK
    <3> QED
      BY <1>8, <3>1 DEF RestartService, Fault
  <2>1. Places(x)' = Places(x) /\ WireOK' /\ ~OnWire(x)'
    BY <2>0, PlacesStay, WireLost
  <2>2. CASE create'[x] = create[x]
    BY <1>0, <2>0, <2>1, <2>2, CommentKept
  <2>3. CASE create'[x].pc = "failed" /\ create[x].pc \notin Handed
    BY <1>0, <2>0, <2>1, <2>3 DEF CommentOK, Handed
  <2>4. CASE create'[x].pc = "unheard" /\ create[x].pc = "answer"
    BY <1>0, <2>0, <2>1, <2>4 DEF CommentOK, Handed
  <2>5. \/ create'[x] = create[x]
        \/ create'[x].pc = "failed" /\ create[x].pc \notin Handed
        \/ create'[x].pc = "unheard" /\ create[x].pc = "answer"
    BY <1>0, <1>8 DEF RestartService, Handed, CreateTypes
  <2> QED
    BY <2>2, <2>3, <2>4, <2>5, <2>1
<1>9. CASE Quiet
  <2>0. /\ row' = row /\ create' = create /\ deleted' = deleted /\ published' = published
        /\ wire' = wire \/ (wire' = <<>> /\ faults' # 0)
    BY <1>9 DEF Quiet
  <2>1. Places(x)' = Places(x)
    BY <2>0, PlacesStay
  <2>2. WireOK' /\ ((OnWire(x)' <=> OnWire(x)) \/ (~OnWire(x)' /\ faults' # 0))
    BY <1>0, <2>0, WireStays, WireLost
  <2> QED
    BY <1>0, <2>0, <2>1, <2>2, CommentKept
<1> QED
  BY <1>1, <1>2, <1>3, <1>4, <1>5, <1>6, <1>7, <1>8, <1>9 DEF ServiceEffect

\* What a deletion is about stays: its author, and that it was stored.
LEMMA OthersStay ==
    ASSUME CInv, ServiceEffect, NEW x \in Comments, row[x] # "never"
    PROVE  row'[x] # "never" /\ create'[x].by = create[x].by
<1>0. /\ create[x].pc \notin {"none", "fetch", "insert"}
      /\ create \in [Comments -> CreateTypes]
      /\ row \in [Comments -> {"never", "stored", "gone"}]
  BY DEF CInv, TypeOK, ServiceOK, CommentOK, CreateTypes
<1>1. ASSUME NEW c \in Comments, \/ Advances(c) \/ Stores(c) \/ Hands(c)
                                \/ Answers(c) \/ Announces(c)
      PROVE  row'[x] # "never" /\ create'[x].by = create[x].by
  <2>1. CASE Advances(c)
    BY <1>0, <2>1 DEF Advances
  <2>2. CASE Stores(c)
    BY <1>0, <2>2 DEF Stores
  <2>3. CASE Hands(c)
    BY <1>0, <2>3 DEF Hands, CreateTypes
  <2>4. CASE Answers(c)
    BY <1>0, <2>4 DEF Answers, CreateTypes
  <2>5. CASE Announces(c)
    BY <2>5 DEF Announces
  <2> QED
    BY <1>1, <2>1, <2>2, <2>3, <2>4, <2>5
<1>2. ASSUME NEW d \in Deletions, Looks(d) \/ Deletes(d)
      PROVE  row'[x] # "never" /\ create'[x].by = create[x].by
  BY <1>0, <1>2 DEF Looks, Deletes
<1>3. CASE RestartService
  BY <1>0, <1>3 DEF RestartService, CreateTypes
<1>4. CASE Quiet
  BY <1>4 DEF Quiet
<1> QED
  BY <1>1, <1>2, <1>3, <1>4 DEF ServiceEffect

LEMMA DeletionsStay ==
    ASSUME CInv, ServiceEffect, NEW x \in Deletions
    PROVE  DeletionOK(x)'
<1> USE DEF CInv, TypeOK
<1>0. DeletionOK(x) /\ \A c \in Comments : row[c] # "never" =>
                           row'[c] # "never" /\ create'[c].by = create[c].by
  BY OthersStay DEF ServiceOK
<1>1. CASE del'[x] = del[x]
  BY <1>0, <1>1 DEF DeletionOK
<1>2. ASSUME NEW c \in Comments, \/ Advances(c) \/ Stores(c) \/ Hands(c)
                                \/ Answers(c) \/ Announces(c)
      PROVE  del'[x] = del[x]
  BY <1>2 DEF Advances, Stores, Hands, Answers, Announces
<1>3. ASSUME NEW d \in Deletions, Looks(d) \/ Deletes(d), d # x PROVE del'[x] = del[x]
  BY <1>3 DEF Looks, Deletes
<1>4. CASE Looks(x)
  <2>1. row' = row /\ create' = create
    BY <1>4 DEF Looks
  <2> QED
    BY <1>0, <1>4, <2>1 DEF Looks, DeletionOK
<1>5. CASE Deletes(x)
  <2>1. /\ del'[x].pc \in {"deleted", "failed"} /\ del[x].pc = "delete"
        /\ del'[x].comment = del[x].comment /\ del'[x].by = del[x].by
    BY <1>5 DEF Deletes
  <2> QED
    BY <1>0, <2>1 DEF DeletionOK
<1>6. CASE RestartService
  BY <1>6 DEF RestartService, NoDeletion, DeletionOK
<1>7. CASE Quiet
  BY <1>1, <1>7 DEF Quiet
<1> QED
  BY <1>1, <1>2, <1>3, <1>4, <1>5, <1>6, <1>7 DEF ServiceEffect

LEMMA EffectInv ==
    ASSUME CInv, ServiceEffect, RestType'
    PROVE  CInv'
<1>1. WireOK'
  <2>1. CASE Comments = {}
    <3>1. wire' \in Seq(Comments)
      BY ServiceTypes DEF TypeOK
    <3>2. DOMAIN wire' = 1..Len(wire') /\ \A i \in DOMAIN wire' : wire'[i] \in Comments
      BY <3>1
    <3> QED
      BY <2>1, <3>2 DEF WireOK
  <2>2. CASE Comments # {}
    BY <2>2, CommentsStay
  <2> QED
    BY <2>1, <2>2
<1> QED
  BY <1>1, ServiceTypes, CommentsStay, DeletionsStay DEF CInv, ServiceOK

LEMMA CNextInv == CInv /\ [Next]_vars => CInv'
<1> SUFFICES ASSUME CInv, [Next]_vars PROVE CInv'
  OBVIOUS
<1>1. CASE Next
  BY <1>1, ServiceSteps, EffectInv DEF Next
<1>2. CASE UNCHANGED vars
  BY <1>2, EffectInv DEF vars, service, broker, ServiceEffect, Quiet, RestType, CInv, TypeOK
<1> QED
  BY <1>1, <1>2

LEMMA CInvariant == Spec => []CInv
BY CInitInv, CNextInv, PTL DEF Spec

\* Every variable of the comment service and the exchange has its type.
THEOREM CommentsTypeCorrect == Spec => []TypeOK
<1>1. CInv => TypeOK
  BY DEF CInv
<1> QED
  BY <1>1, CInvariant, PTL

LEMMA OnceEach == CInv => DeletedOnce /\ AnnouncedOnce
<1> SUFFICES ASSUME CInv PROVE DeletedOnce /\ AnnouncedOnce
  OBVIOUS
<1>0. /\ \A c \in Comments : CommentOK(c) /\ row[c] \in {"never", "stored", "gone"}
      /\ \A d \in Deletions : DeletionOK(d)
  BY DEF CInv, TypeOK, ServiceOK
<1>1. DeletedOnce
  BY <1>0 DEF CommentOK, DeletionOK, DeletedOnce, Listed, stored
<1>2. AnnouncedOnce
  BY <1>0 DEF CommentOK, AnnouncedOnce
<1> QED
  BY <1>1, <1>2

\* However deletions overlap, one is told that it deleted the comment.
THEOREM CommentsDeletedOnce == Spec => []DeletedOnce
BY OnceEach, CInvariant, PTL

\* At most one announcement, after the row is stored and never after 500; 201
\* means announced or on the way unless something failed.
THEOREM CommentsAnnouncedOnce == Spec => []AnnouncedOnce
BY OnceEach, CInvariant, PTL

-----------------------------------------------------------------------------
(* The authors, and the post service that Ownership stands for. *)

\* A comment is about a post that has been there.  Once that was looked up, the
\* event names its author, or it is deleted.
AuthorOK(c) ==
    LET p == create[c].post
    IN  /\ create[c].pc \in {"fetch", "insert", "publish"} \cup Handed
              => p \in Posts /\ (owner[p] # Nobody \/ p \in gone)
        /\ create[c].pc \in {"insert", "publish"} \cup Handed
              => create[c].author = owner[p] \/ p \in gone

AInv == /\ CInv
        /\ \A p \in gone : owner[p] = Nobody
        /\ \A c \in Comments : AuthorOK(c)

\* A step that leaves a creation's post and author alone.
Keeps(c) ==
    \/ create'[c] = create[c]
    \/ create'[c].pc \notin {"fetch", "insert", "publish"} \cup Handed
    \/ /\ create[c].pc \in {"insert", "publish"} \cup Handed
       /\ create'[c].post = create[c].post /\ create'[c].author = create[c].author

LEMMA AuthorKept ==
    ASSUME NEW c \in Comments, AuthorOK(c), UNCHANGED posts, Keeps(c)
    PROVE  AuthorOK(c)'
BY DEF AuthorOK, Keeps

LEMMA AuthorStep ==
    ASSUME AInv, Next, CInv'
    PROVE  AInv'
<1> USE DEF CInv, TypeOK
<1>1. ASSUME NEW c \in Comments, NEW p \in Posts, NEW u \in Users, BeginCreate(c, p, u)
      PROVE  AInv'
  <2>1. /\ create'[c] = [pc |-> "fetch", post |-> p, by |-> u, author |-> Nobody]
        /\ \A x \in Comments : x # c => create'[x] = create[x]
        /\ UNCHANGED posts /\ (owner[p] # Nobody \/ p \in gone)
    BY <1>1 DEF BeginCreate
  <2>2. AuthorOK(c)'
    BY <2>1 DEF AuthorOK, Handed
  <2>3. ASSUME NEW x \in Comments, x # c PROVE AuthorOK(x)'
    BY <2>1, <2>3, AuthorKept DEF AInv, Keeps
  <2> QED
    BY <2>1, <2>2, <2>3 DEF AInv
<1>2. ASSUME NEW c \in Comments, FetchPost(c) PROVE AInv'
  <2>1. /\ create[c].pc = "fetch"
        /\ create'[c] = [create[c] EXCEPT !.pc = "insert",
                                         !.author = owner[create[c].post]]
        /\ \A x \in Comments : x # c => create'[x] = create[x]
        /\ UNCHANGED posts
    BY <1>2 DEF FetchPost
  <2>2. AuthorOK(c)'
    <3>1. create[c] \in CreateTypes
      BY DEF AInv, CreateTypes
    <3>2. /\ create'[c].post = create[c].post
          /\ create'[c].author = owner[create[c].post]
      BY <2>1, <3>1 DEF CreateTypes
    <3> QED
      BY <2>1, <3>2 DEF AInv, AuthorOK, Handed
  <2>3. ASSUME NEW x \in Comments, x # c PROVE AuthorOK(x)'
    BY <2>1, <2>3, AuthorKept DEF AInv, Keeps
  <2> QED
    BY <2>1, <2>2, <2>3 DEF AInv
<1>3. ASSUME NEW p \in Posts, DeletePost(p) PROVE AInv'
  <2>1. /\ gone' = gone \cup {p} /\ owner'[p] = Nobody
        /\ \A x \in Posts : x # p => owner'[x] = owner[x]
        /\ create' = create
    BY <1>3 DEF DeletePost, PostService!Vanish, service
  <2>2. ASSUME NEW c \in Comments PROVE AuthorOK(c)'
    BY <2>1 DEF AInv, AuthorOK
  <2> QED
    BY <2>1, <2>2 DEF AInv
<1>4. ASSUME NEW p \in Posts, NEW u \in Users, CreatePost(p, u) PROVE AInv'
  <2>1. /\ gone' = gone /\ p \notin gone /\ owner[p] = Nobody
        /\ \A x \in Posts : x # p => owner'[x] = owner[x]
        /\ create' = create
    BY <1>4 DEF CreatePost, PostService!Appear, service
  <2>2. ASSUME NEW c \in Comments PROVE AuthorOK(c)'
    BY <2>1 DEF AInv, AuthorOK
  <2> QED
    BY <2>1, <2>2 DEF AInv
<1>5. ASSUME UNCHANGED posts, \A c \in Comments : Keeps(c) PROVE AInv'
  <2>1. ASSUME NEW c \in Comments PROVE AuthorOK(c)'
    BY <1>5, AuthorKept DEF AInv
  <2> QED
    BY <1>5, <2>1 DEF AInv
<1>6. ASSUME NEW c \in Comments,
             \/ InsertComment(c) \/ PublishNewComment(c) \/ PublishRefused(c)
             \/ CreateFails(c) \/ AnswerCreate(c)
      PROVE  UNCHANGED posts /\ \A x \in Comments : Keeps(x)
  <2>1. /\ UNCHANGED posts
        /\ \A x \in Comments : x # c => create'[x] = create[x]
    BY <1>6 DEF InsertComment, PublishNewComment, PublishRefused, CreateFails, AnswerCreate
  <2>2. Keeps(c)
    <3>1. create[c] \in CreateTypes
      BY DEF AInv, CreateTypes
    <3>2. \/ /\ create[c].pc \in {"insert", "publish"} \cup Handed
             /\ \E pc \in CreatePcs : create'[c] = [create[c] EXCEPT !.pc = pc]
          \/ create'[c] = [create[c] EXCEPT !.pc = "failed"]
      BY <1>6, <3>1 DEF AInv, InsertComment, PublishNewComment, PublishRefused,
                        CreateFails, AnswerCreate, CreatePcs, Handed
    <3> QED
      BY <3>1, <3>2 DEF CreateTypes, Keeps, Handed
  <2> QED
    BY <2>1, <2>2 DEF Keeps
<1>7. ASSUME \/ \E d \in Deletions : DeleteStep(d) \/ DeleteFails(d)
             \/ Route \/ LoseChannel \/ RestartBroker
      PROVE  UNCHANGED posts /\ \A x \in Comments : Keeps(x)
  <2>1. UNCHANGED posts /\ create' = create
    BY <1>7 DEF DeleteStep, BeginDelete, ReadComment, DeleteRow, AnswerDelete,
                DeleteFails, Route, LoseChannel, RestartBroker, service
  <2> QED
    BY <2>1 DEF Keeps
<1>8. ASSUME RestartService PROVE UNCHANGED posts /\ \A x \in Comments : Keeps(x)
  <2>1. ASSUME NEW x \in Comments PROVE Keeps(x)
    <3>1. create[x] \in CreateTypes
      BY DEF AInv, CreateTypes
    <3>2. \/ create'[x] = create[x]
          \/ create'[x] = [create[x] EXCEPT !.pc = "failed"]
          \/ create[x].pc = "answer" /\ create'[x] = [create[x] EXCEPT !.pc = "unheard"]
      BY <1>8 DEF RestartService
    <3> QED
      BY <3>1, <3>2 DEF CreateTypes, Keeps, Handed
  <2> QED
    BY <1>8, <2>1 DEF RestartService
<1> QED
  BY <1>1, <1>2, <1>3, <1>4, <1>5, <1>6, <1>7, <1>8
     DEF Next, ServiceNext, CalmNext, CreateStep

LEMMA AInvariant == Spec => []AInv
<1>1. Init => AInv
  <2>1. Init => /\ gone = {}
                /\ \A c \in Comments : create[c].pc = "none"
    BY DEF Init, PostService!Init, NoCreate
  <2> QED
    BY <2>1, CInitInv DEF AInv, AuthorOK, Handed
<1>2. AInv /\ [Next]_vars => AInv'
  <2> SUFFICES ASSUME AInv, [Next]_vars PROVE AInv'
    OBVIOUS
  <2>1. CInv'
    BY CNextInv DEF AInv
  <2>2. CASE Next
    BY <2>1, <2>2, AuthorStep
  <2>3. CASE UNCHANGED vars
    <3>1. UNCHANGED posts /\ create' = create
      BY <2>3 DEF vars, service
    <3>2. \A c \in Comments : AuthorOK(c)'
      BY <3>1, AuthorKept DEF AInv, Keeps
    <3> QED
      BY <2>1, <3>1, <3>2 DEF AInv
  <2> QED
    BY <2>2, <2>3
<1> QED
  BY <1>1, <1>2, PTL DEF Spec

LEMMA NamesAuthors == AInv => AuthorsNamed
BY DEF AInv, AuthorOK, AuthorsNamed

\* An event names the author of its post, or the post was deleted.
THEOREM CommentsNameAuthors == Spec => []AuthorsNamed
BY NamesAuthors, AInvariant, PTL

-----------------------------------------------------------------------------
\* The pipeline from the queue to the mails: cr are the comments announced, p
\* their places among the events, b the buffer, k the delivery in hand, q the
\* queue and m the mails.
Sent(p, m) == IF m = <<>> THEN 0 ELSE p[Last(m)]

\* The place of the latest event that has left the buffer.
Floor(p, k, m) == IF k.pc = "idle" THEN Sent(p, m) ELSE p[k.comment]

Within(cr, s) == \A i \in 1..Len(s) : s[i] \in cr

Above(p, n, s) == \A i \in 1..Len(s) : n < p[s[i]]

Rising(p, s) == \A i, j \in 1..Len(s) : i < j => p[s[i]] < p[s[j]]

Lined(p, n, b, q) ==
    /\ Above(p, n, b) /\ Above(p, n, q)
    /\ Rising(p, b) /\ Rising(p, q)
    /\ \A i \in 1..Len(b) : Above(p, p[b[i]], q)

\* Everything in the pipeline was announced, in the order it is in.
Flow(cr, p, b, k, q, m) ==
    /\ Within(cr, b) /\ Within(cr, q) /\ Within(cr, m)
    /\ k.pc # "idle" => k.comment \in cr /\ Sent(p, m) < p[k.comment]
    /\ Lined(p, Floor(p, k, m), b, q)

LEMMA AppendAt ==
    ASSUME NEW S, NEW s \in Seq(S), NEW e \in S
    PROVE  /\ Append(s, e) \in Seq(S) /\ Len(s) \in Nat
           /\ Len(Append(s, e)) = Len(s) + 1
           /\ \A i \in 1..Len(s) : Append(s, e)[i] = s[i]
           /\ Append(s, e)[Len(s) + 1] = e
           /\ Append(s, e) # <<>>
OBVIOUS

LEMMA TailAt ==
    ASSUME NEW S, NEW s \in Seq(S), s # <<>>
    PROVE  /\ Tail(s) \in Seq(S) /\ Len(s) \in Nat /\ Len(s) >= 1
           /\ Len(Tail(s)) = Len(s) - 1
           /\ Head(s) = s[1] /\ Head(s) \in S
           /\ \A i \in 1..Len(s) - 1 : Tail(s)[i] = s[i + 1]
OBVIOUS

LEMMA PrefixAt ==
    ASSUME NEW S, NEW s \in Seq(S), NEW t \in Prefixes(s)
    PROVE  /\ t \in Seq(S) /\ Len(s) \in Nat /\ Len(t) \in 0..Len(s)
           /\ \A i \in 1..Len(t) : t[i] = s[i]
<1>1. PICK l \in 0..Len(s) : t = SubSeq(s, 1, l)
  BY DEF Prefixes
<1> QED
  BY <1>1

LEMMA LastAt ==
    ASSUME NEW S, NEW s \in Seq(S), s # <<>>
    PROVE  Len(s) \in Nat /\ Len(s) >= 1 /\ Last(s) = s[Len(s)] /\ Last(s) \in S
BY DEF Last

\* More comments are announced, and the old ones keep their places.
LEMMA FlowMoves ==
    ASSUME NEW cr, NEW cr2, NEW p, NEW p2, NEW b \in Seq(Comments), NEW k,
           NEW q \in Seq(Comments), NEW m \in Seq(Comments),
           Flow(cr, p, b, k, q, m), cr \subseteq cr2, \A c \in cr : p2[c] = p[c]
    PROVE  /\ Flow(cr2, p2, b, k, q, m)
           /\ Sent(p2, m) = Sent(p, m)
<1>1. m # <<>> => Last(m) \in cr
  BY LastAt DEF Flow, Within
<1>2. Sent(p2, m) = Sent(p, m) /\ Floor(p2, k, m) = Floor(p, k, m)
  BY <1>1 DEF Sent, Floor, Flow
<1>3. Lined(p2, Floor(p2, k, m), b, q)
  BY <1>2 DEF Flow, Lined, Above, Rising, Within
<1> QED
  BY <1>2, <1>3 DEF Flow, Within

\* A new event, whose place is above all the others, joins the queue.
LEMMA FlowPublish ==
    ASSUME NEW cr, NEW p, NEW p2, NEW b \in Seq(Comments), NEW k,
           NEW q \in Seq(Comments), NEW m \in Seq(Comments), NEW c \in Comments,
           NEW n \in Nat, Flow(cr, p, b, k, q, m), c \notin cr, p2[c] = n + 1,
           \A x \in cr : p2[x] = p[x] /\ p[x] \in 0..n
    PROVE  Flow(cr \cup {c}, p2, b, k, Append(q, c), m)
<1>1. Flow(cr \cup {c}, p2, b, k, q, m)
  BY FlowMoves
<1>2. /\ Len(q) \in Nat /\ Len(Append(q, c)) = Len(q) + 1
      /\ \A i \in 1..Len(q) : Append(q, c)[i] = q[i]
      /\ Append(q, c)[Len(q) + 1] = c
  BY AppendAt
<1>3. Floor(p2, k, m) \in 0..n
  <2>1. m # <<>> => Last(m) \in cr
    BY LastAt DEF Flow, Within
  <2> QED
    BY <2>1 DEF Floor, Sent, Flow
<1>4. \A i \in 1..Len(b) : p2[b[i]] \in 0..n
  BY DEF Flow, Within
<1>5. \A i \in 1..Len(q) : p2[q[i]] \in 0..n
  BY DEF Flow, Within
<1>6. \A i \in 1..Len(q) + 1 : i \in 1..Len(q) \/ i = Len(q) + 1
  BY <1>2
<1>7. Within(cr \cup {c}, Append(q, c))
  BY <1>1, <1>2, <1>6 DEF Flow, Within
<1>8. Above(p2, Floor(p2, k, m), Append(q, c))
  BY <1>1, <1>2, <1>3, <1>6 DEF Flow, Lined, Above
<1>9. Rising(p2, Append(q, c))
  BY <1>1, <1>2, <1>5, <1>6 DEF Flow, Lined, Rising
<1>10. \A i \in 1..Len(b) : Above(p2, p2[b[i]], Append(q, c))
  BY <1>1, <1>2, <1>4, <1>6 DEF Flow, Lined, Above
<1> QED
  BY <1>1, <1>7, <1>8, <1>9, <1>10 DEF Flow, Lined

\* The broker sends the next message.
LEMMA FlowDeliver ==
    ASSUME NEW cr, NEW p, NEW b \in Seq(Comments), NEW k,
           NEW q \in Seq(Comments), NEW m, q # <<>>, Flow(cr, p, b, k, q, m)
    PROVE  Flow(cr, p, Append(b, Head(q)), k, Tail(q), m)
<1>1. /\ Len(q) \in Nat /\ Len(q) >= 1 /\ Len(Tail(q)) = Len(q) - 1
      /\ Head(q) = q[1] /\ Head(q) \in Comments
      /\ \A i \in 1..Len(q) - 1 : Tail(q)[i] = q[i + 1] /\ i + 1 \in 1..Len(q)
  BY TailAt
<1>2. /\ Len(b) \in Nat /\ Len(Append(b, Head(q))) = Len(b) + 1
      /\ \A i \in 1..Len(b) : Append(b, Head(q))[i] = b[i]
      /\ Append(b, Head(q))[Len(b) + 1] = q[1]
  BY <1>1, AppendAt
<1>3. \A i \in 1..Len(b) + 1 : i \in 1..Len(b) \/ i = Len(b) + 1
  BY <1>2
<1>4. 1 \in 1..Len(q)
  BY <1>1
<1>5. Within(cr, Append(b, Head(q))) /\ Within(cr, Tail(q))
  BY <1>1, <1>2, <1>3, <1>4 DEF Flow, Within
<1>6. Above(p, Floor(p, k, m), Append(b, Head(q))) /\ Above(p, Floor(p, k, m), Tail(q))
  BY <1>1, <1>2, <1>3, <1>4 DEF Flow, Lined, Above
<1>7. Rising(p, Append(b, Head(q)))
  BY <1>2, <1>3, <1>4 DEF Flow, Lined, Rising, Above
<1>8. Rising(p, Tail(q))
  BY <1>1 DEF Flow, Lined, Rising
<1>9. \A i \in 1..Len(b) + 1 : Above(p, p[Append(b, Head(q))[i]], Tail(q))
  BY <1>1, <1>2, <1>3, <1>4 DEF Flow, Lined, Rising, Above
<1> QED
  BY <1>2, <1>5, <1>6, <1>7, <1>8, <1>9 DEF Flow, Lined

\* The goroutine takes the next delivery.
LEMMA FlowTake ==
    ASSUME NEW cr, NEW p \in [Comments -> Nat], NEW b \in Seq(Comments), NEW k, NEW k2,
           NEW q \in Seq(Comments), NEW m \in Seq(Comments), b # <<>>,
           k.pc = "idle", k2.pc # "idle", k2.comment = Head(b), Flow(cr, p, b, k, q, m)
    PROVE  Flow(cr, p, Tail(b), k2, q, m)
<1>1. /\ Len(b) \in Nat /\ Len(b) >= 1 /\ Len(Tail(b)) = Len(b) - 1
      /\ Head(b) = b[1] /\ Head(b) \in Comments
      /\ \A i \in 1..Len(b) - 1 : Tail(b)[i] = b[i + 1] /\ i + 1 \in 1..Len(b)
  BY TailAt
<1>2. 1 \in 1..Len(b)
  BY <1>1
<1>3. Head(b) \in cr /\ Sent(p, m) < p[Head(b)] /\ Floor(p, k2, m) = p[b[1]]
  BY <1>1, <1>2 DEF Flow, Within, Lined, Above, Floor
<1>4. Within(cr, Tail(b))
  BY <1>1 DEF Flow, Within
<1>5. Above(p, p[b[1]], Tail(b)) /\ Above(p, p[b[1]], q)
  BY <1>1, <1>2 DEF Flow, Lined, Above, Rising
<1>6. Rising(p, Tail(b))
  BY <1>1 DEF Flow, Lined, Rising
<1>7. \A i \in 1..Len(Tail(b)) : Above(p, p[Tail(b)[i]], q)
  BY <1>1 DEF Flow, Lined
<1> QED
  BY <1>3, <1>4, <1>5, <1>6, <1>7 DEF Flow, Lined

\* A mail is sent about the delivery in hand.
LEMMA FlowSend ==
    ASSUME NEW cr, NEW p \in [Comments -> Nat], NEW b \in Seq(Comments), NEW k, NEW k2,
           NEW q \in Seq(Comments), NEW m \in Seq(Comments), k.comment \in Comments,
           k.pc # "idle", k2.pc = "idle", Flow(cr, p, b, k, q, m)
    PROVE  /\ Flow(cr, p, b, k2, q, Append(m, k.comment))
           /\ Sent(p, Append(m, k.comment)) = p[k.comment]
<1>1. /\ Len(m) \in Nat /\ Len(Append(m, k.comment)) = Len(m) + 1
      /\ \A i \in 1..Len(m) : Append(m, k.comment)[i] = m[i]
      /\ Append(m, k.comment)[Len(m) + 1] = k.comment /\ Append(m, k.comment) # <<>>
  BY AppendAt
<1>2. Last(Append(m, k.comment)) = k.comment
  BY <1>1 DEF Last
<1>3. /\ Sent(p, Append(m, k.comment)) = p[k.comment]
      /\ Floor(p, k2, Append(m, k.comment)) = Floor(p, k, m)
  BY <1>1, <1>2 DEF Sent, Floor
<1>4. Within(cr, Append(m, k.comment))
  <2>1. \A i \in 1..Len(m) + 1 : i \in 1..Len(m) \/ i = Len(m) + 1
    BY <1>1
  <2> QED
    BY <1>1, <2>1 DEF Flow, Within
<1> QED
  BY <1>3, <1>4 DEF Flow

\* The delivery in hand is dropped, or goes on.
LEMMA FlowDrop ==
    ASSUME NEW cr, NEW p \in [Comments -> Nat], NEW b \in Seq(Comments), NEW k, NEW k2,
           NEW q \in Seq(Comments), NEW m \in Seq(Comments), k2.pc = "idle",
           cr \subseteq Comments, Flow(cr, p, b, k, q, m)
    PROVE  Flow(cr, p, b, k2, q, m)
<1>1. Floor(p, k2, m) = Sent(p, m) /\ Sent(p, m) <= Floor(p, k, m)
      /\ Sent(p, m) \in Nat /\ Floor(p, k, m) \in Nat
  <2>1. m # <<>> => Last(m) \in Comments
    BY LastAt
  <2> QED
    BY <2>1 DEF Flow, Floor, Sent
<1>2. /\ \A i \in 1..Len(b) : p[b[i]] \in Nat
      /\ \A i \in 1..Len(q) : p[q[i]] \in Nat
  BY DEF Flow, Within
<1> QED
  BY <1>1, <1>2 DEF Flow, Lined, Above

\* Deliveries, or the queue, are lost.
LEMMA FlowCut ==
    ASSUME NEW cr, NEW p, NEW b \in Seq(Comments), NEW t \in Prefixes(b), NEW k,
           NEW q \in Seq(Comments), NEW m, Flow(cr, p, b, k, q, m)
    PROVE  Flow(cr, p, t, k, q, m) /\ Flow(cr, p, t, k, <<>>, m)
<1>1. \A i \in 1..Len(t) : t[i] = b[i] /\ i \in 1..Len(b)
  BY PrefixAt
<1>2. Len(<<>>) = 0 /\ 1..0 = {}
  OBVIOUS
<1> QED
  BY <1>1, <1>2 DEF Flow, Lined, Within, Above, Rising

-----------------------------------------------------------------------------
(* The pipeline of the specification. *)

announced == {c \in Comments : Places(c) # {}}

place == [c \in Comments |-> IF Places(c) = {} THEN 0 ELSE PositionOf(c)]

ConsumerTypes == /\ worker \in {"down", "up", "deaf"}
                 /\ current \in [pc : {"idle", "lookup", "send"},
                                 comment : Comments \cup {Nobody}]
                 /\ current.pc # "idle" => current.comment \in Comments
                 /\ errored \subseteq Comments

FlowOK == Flow(announced, place, buffer, current, queue, mails)

\* On its way, mailed, or about a post that was missing.
Cared(c) == \/ \E i \in 1..Len(queue) : queue[i] = c
            \/ \E i \in 1..Len(buffer) : buffer[i] = c
            \/ current.pc # "idle" /\ current.comment = c
            \/ \E i \in 1..Len(mails) : mails[i] = c
            \/ create[c].author = Nobody

NInv == /\ CInv /\ ConsumerTypes
        /\ buffer \in Seq(Comments) /\ mails \in Seq(Comments)
        /\ FlowOK
        /\ \A c \in since : c \in announced /\ Cared(c)

LEMMA PlaceType ==
    ASSUME CInv
    PROVE  /\ place \in [Comments -> Nat]
           /\ Len(published) \in Nat /\ DOMAIN published = 1..Len(published)
           /\ \A c \in announced : /\ place[c] = PositionOf(c)
                                 /\ place[c] \in 1..Len(published)
                                 /\ published[place[c]] = c
                                 /\ Places(c) = {place[c]}
<1>1. published \in Seq(Comments)
  BY DEF CInv, TypeOK
<1>2. Len(published) \in Nat /\ DOMAIN published = 1..Len(published)
  BY <1>1
<1>3. ASSUME NEW c \in Comments, Places(c) # {} PROVE PositionOf(c) \in Places(c)
  BY <1>3 DEF Places, PositionOf
<1>4. ASSUME NEW c \in Comments PROVE place[c] \in Nat
  BY <1>2, <1>3 DEF place, Places
<1>5. ASSUME NEW c \in announced
      PROVE  /\ place[c] = PositionOf(c) /\ place[c] \in 1..Len(published)
             /\ published[place[c]] = c /\ Places(c) = {place[c]}
  <2>0. c \in Comments
    BY DEF announced
  <2>1. PICK i \in DOMAIN published : Places(c) = {i}
    BY <2>0 DEF announced, CInv, ServiceOK, CommentOK
  <2> QED
    BY <1>2, <1>3, <2>0, <2>1 DEF place, Places
<1> QED
  BY <1>2, <1>4, <1>5 DEF place

\* What a step of the comment service does to the places.
LEMMA PlacesMove ==
    ASSUME CInv, ServiceEffect, RestType'
    PROVE  /\ \A c \in announced : /\ c \in announced'
                                   /\ create'[c].author = create[c].author
                                   /\ place'[c] = place[c]
           /\ \A c \in Comments : Announces(c) =>
                  /\ c \notin announced /\ announced' = announced \cup {c}
                  /\ place'[c] = Len(published) + 1
<1>0. /\ published \in Seq(Comments) /\ wire \in Seq(Comments) /\ WireOK
      /\ create \in [Comments -> CreateTypes]
      /\ \A c \in Comments : CommentOK(c)
  BY DEF CInv, TypeOK, ServiceOK, CreateTypes
<1>1. \/ published' = published
      \/ \E c \in Comments : Announces(c)
  BY DEF ServiceEffect, Advances, Stores, Hands, Answers, Looks, Deletes, RestartService, Quiet
<1>2. ASSUME NEW c \in announced PROVE create'[c].author = create[c].author
  <2>1. c \in Comments /\ create[c].pc \in Handed /\ create[c] \in CreateTypes
    BY <1>0 DEF announced, CommentOK
  <2>2. ASSUME NEW x \in Comments, Advances(x) \/ Stores(x) \/ Hands(x) PROVE create'[c] = create[c]
    BY <1>0, <2>1, <2>2 DEF Advances, Stores, Hands, Handed
  <2>3. ASSUME NEW x \in Comments, Answers(x) PROVE create'[c].author = create[c].author
    BY <1>0, <2>1, <2>3 DEF Answers, CreateTypes
  <2>4. CASE RestartService
    BY <2>1, <2>4 DEF RestartService, CreateTypes
  <2> QED
    BY <2>2, <2>3, <2>4 DEF ServiceEffect, Announces, Looks, Deletes, Quiet
<1>3. ASSUME NEW x \in Comments, Announces(x)
      PROVE  /\ Places(x) = {} /\ Places(x)' = {Len(published) + 1}
             /\ \A c \in Comments : x # c => Places(c)' = Places(c)
  <2>1. OnWire(x)
    BY <1>0, <1>3, WireLeaves DEF Announces
  <2>2. Places(x) = {}
    BY <1>0, <2>1 DEF CommentOK
  <2>3. published' = Append(published, x)
    BY <1>3 DEF Announces
  <2> QED
    BY <1>0, <2>2, <2>3, NewPlace
<1>4. ASSUME NEW c \in Comments, NEW i, Places(c)' = {i} PROVE place'[c] = i
  <2>1. PositionOf(c)' \in Places(c)'
    BY <1>4 DEF Places, PositionOf
  <2> QED
    BY <1>4, <2>1 DEF place
<1>5. ASSUME NEW c \in announced PROVE c \in announced' /\ place'[c] = place[c]
  <2>1. c \in Comments /\ Places(c) = {place[c]}
    BY PlaceType DEF announced
  <2>2. Places(c)' = Places(c)
    BY <1>1, <1>3, <2>1, PlacesStay
  <2> QED
    BY <1>4, <2>1, <2>2 DEF announced
<1>6. ASSUME NEW c \in Comments, Announces(c)
      PROVE  /\ c \notin announced /\ announced' = announced \cup {c}
             /\ place'[c] = Len(published) + 1
  BY <1>3, <1>4, <1>6 DEF announced
<1> QED
  BY <1>2, <1>5, <1>6

\* What it does to the queue.
LEMMA ServiceFlow ==
    ASSUME CInv, ServiceNext
    PROVE  \/ queue' = queue /\ (since' = since \/ since' = {})
           \/ \E c \in Comments : /\ Announces(c) /\ queue' = Append(queue, c)
                                  /\ since' = since \cup {c}
<1>1. ASSUME Route
      PROVE  \/ queue' = queue /\ since' = since
             \/ \E c \in Comments : /\ Announces(c) /\ queue' = Append(queue, c)
                                    /\ since' = since \cup {c}
  <2>1. Head(wire) \in Comments
    BY <1>1 DEF Route, CInv, TypeOK
  <2>2. Announces(Head(wire))
    BY <1>1 DEF Route, Announces, service
  <2> QED
    BY <1>1, <2>1, <2>2 DEF Route
<1>2. ASSUME NEW c \in Comments, CreateStep(c) PROVE queue' = queue /\ since' = since
  BY <1>2 DEF CreateStep, FetchPost, InsertComment, PublishNewComment, PublishRefused,
              AnswerCreate, broker
<1>3. ASSUME NEW c \in Comments, NEW p \in Posts, NEW u \in Users, BeginCreate(c, p, u)
      PROVE  queue' = queue /\ since' = since
  BY <1>3 DEF BeginCreate, broker
<1>4. ASSUME NEW d \in Deletions, DeleteStep(d) PROVE queue' = queue /\ since' = since
  BY <1>4 DEF DeleteStep, BeginDelete, ReadComment, DeleteRow, AnswerDelete, broker
<1>5. ASSUME NEW p \in Posts, DeletePost(p) \/ \E u \in Users : CreatePost(p, u)
      PROVE  queue' = queue /\ since' = since
  BY <1>5 DEF DeletePost, CreatePost, broker
<1>6. ASSUME NEW c \in Comments, CreateFails(c)
      PROVE  queue' = queue /\ since' = {}
  BY <1>6 DEF CreateFails, Fault
<1>7. ASSUME NEW d \in Deletions, DeleteFails(d) PROVE queue' = queue /\ since' = {}
  BY <1>7 DEF DeleteFails, Fault
<1>8. ASSUME LoseChannel \/ RestartService PROVE queue' = queue /\ since' = {}
  BY <1>8 DEF LoseChannel, RestartService, Fault
<1> QED
  BY <1>1, <1>2, <1>3, <1>4, <1>5, <1>6, <1>7, <1>8 DEF ServiceNext, CalmNext

LEMMA NInitInv == NInit => NInv
<1> SUFFICES ASSUME NInit PROVE NInv
  OBVIOUS
<1>1. CInv
  BY CInitInv DEF NInit
<1>2. ConsumerTypes /\ buffer = <<>> /\ mails = <<>> /\ queue = <<>> /\ since = {}
  BY DEF NInit, Init, ConsumerTypes, Idle
<1>3. <<>> \in Seq(Comments) /\ Len(<<>>) = 0 /\ 1..0 = {}
  OBVIOUS
<1>4. FlowOK
  BY <1>2, <1>3 DEF NInit, Idle, FlowOK, Flow, Within, Lined, Above, Rising
<1> QED
  BY <1>1, <1>2, <1>3, <1>4 DEF NInv

LEMMA ServiceKeeps ==
    ASSUME NInv, ServiceNext, UNCHANGED consumer
    PROVE  NInv'
<1>1. CInv /\ ServiceEffect /\ RestType'
  BY ServiceSteps DEF NInv
<1>2. CInv'
  BY <1>1, EffectInv
<1>3. /\ \A c \in announced : /\ c \in announced'
                              /\ create'[c].author = create[c].author
                              /\ place'[c] = place[c]
      /\ \A c \in Comments : Announces(c) =>
             /\ c \notin announced /\ announced' = announced \cup {c}
             /\ place'[c] = Len(published) + 1
  BY <1>1, PlacesMove
<1>4. /\ buffer \in Seq(Comments) /\ mails \in Seq(Comments) /\ queue \in Seq(Comments)
      /\ announced \subseteq announced' /\ announced \subseteq Comments /\ FlowOK
  BY <1>1, <1>3 DEF NInv, CInv, TypeOK, announced
<1>5. /\ buffer' = buffer /\ mails' = mails /\ current' = current
      /\ worker' = worker /\ errored' = errored
  BY DEF consumer
<1>6. ConsumerTypes'
  BY <1>5 DEF NInv, ConsumerTypes
<1>7. ASSUME queue' = queue, since' = since \/ since' = {}
      PROVE  FlowOK' /\ \A c \in since' : c \in announced' /\ Cared(c)'
  <2>1. Flow(announced', place', buffer, current, queue, mails)
    BY <1>3, <1>4, FlowMoves DEF FlowOK
  <2>2. FlowOK'
    BY <1>5, <1>7, <2>1 DEF FlowOK
  <2>3. ASSUME NEW c \in since' PROVE c \in announced' /\ Cared(c)'
    <3>1. c \in announced /\ Cared(c)
      BY <1>7, <2>3 DEF NInv
    <3> QED
      BY <1>3, <1>5, <1>7, <3>1 DEF Cared
  <2> QED
    BY <2>2, <2>3
<1>8. ASSUME NEW c \in Comments, Announces(c), queue' = Append(queue, c),
             since' = since \cup {c}
      PROVE  FlowOK' /\ \A x \in since' : x \in announced' /\ Cared(x)'
  <2>1. /\ Len(published) \in Nat
        /\ \A x \in announced : place[x] \in 0..Len(published)
    <3>1. CInv
      BY <1>1
    <3> QED
      BY <3>1, PlaceType
  <2>2. Flow(announced \cup {c}, place', buffer, current, Append(queue, c), mails)
    BY <1>3, <1>4, <1>8, <2>1, FlowPublish DEF FlowOK
  <2>3. announced' = announced \cup {c}
    BY <1>3, <1>8
  <2>4. FlowOK'
    BY <1>5, <1>8, <2>2, <2>3 DEF FlowOK
  <2>5. /\ Len(queue) \in Nat /\ Len(Append(queue, c)) = Len(queue) + 1
        /\ \A i \in 1..Len(queue) : Append(queue, c)[i] = queue[i]
        /\ Append(queue, c)[Len(queue) + 1] = c
    BY <1>4, AppendAt
  <2>6. c \in announced' /\ Cared(c)'
    BY <1>3, <1>8, <2>5 DEF Cared
  <2>7. ASSUME NEW x \in since PROVE x \in announced' /\ Cared(x)'
    <3>1. x \in announced /\ Cared(x) /\ create'[x].author = create[x].author
      BY <1>3, <2>7 DEF NInv
    <3>2. \A i \in 1..Len(queue) : i \in 1..Len(queue) + 1
      BY <2>5
    <3> QED
      BY <1>3, <1>5, <1>8, <2>5, <3>1, <3>2 DEF Cared
  <2> QED
    BY <1>8, <2>4, <2>6, <2>7
<1>9. FlowOK' /\ \A c \in since' : c \in announced' /\ Cared(c)'
  BY <1>1, <1>7, <1>8, ServiceFlow
<1> QED
  BY <1>2, <1>4, <1>5, <1>6, <1>9 DEF NInv

\* Steps of the others leave the comments and their places.
LEMMA QuietKeeps ==
    ASSUME CInv, RestType', Quiet, faults' = 0 => faults = 0
    PROVE  CInv' /\ announced' = announced /\ place' = place
<1>1. CInv'
  BY EffectInv DEF ServiceEffect
<1>2. \A c \in Comments : Places(c)' = Places(c) /\ PositionOf(c)' = PositionOf(c)
  BY DEF Places, PositionOf, Quiet
<1> QED
  BY <1>1, <1>2 DEF announced, place

LEMMA WorkerTypes ==
    ASSUME NInv
    PROVE  /\ buffer \in Seq(Comments) /\ mails \in Seq(Comments)
           /\ queue \in Seq(Comments) /\ announced \subseteq Comments
           /\ place \in [Comments -> Nat] /\ CInv /\ ConsumerTypes /\ FlowOK
           /\ RestType
BY PlaceType DEF NInv, CInv, TypeOK, announced, RestType

LEMMA WorkerKeeps ==
    ASSUME NInv, WorkerStep
    PROVE  NInv'
<1>0. /\ buffer \in Seq(Comments) /\ mails \in Seq(Comments)
      /\ queue \in Seq(Comments) /\ announced \subseteq Comments
      /\ place \in [Comments -> Nat] /\ CInv /\ ConsumerTypes /\ FlowOK
      /\ RestType
  BY WorkerTypes
<1>1. CASE Deliver
  <2>1. /\ queue # <<>> /\ queue' = Tail(queue) /\ buffer' = Append(buffer, Head(queue))
        /\ UNCHANGED <<posts, service, channel, wire, bound, published, since, faults>>
        /\ UNCHANGED <<worker, current, mails, errored>>
    BY <1>1 DEF Deliver
  <2>2. /\ Tail(queue) \in Seq(Comments) /\ Len(queue) \in Nat /\ Len(queue) >= 1
        /\ Len(Tail(queue)) = Len(queue) - 1
        /\ Head(queue) = queue[1] /\ Head(queue) \in Comments
        /\ \A i \in 1..Len(queue) - 1 : Tail(queue)[i] = queue[i + 1]
    BY <1>0, <2>1, TailAt
  <2>3. /\ Append(buffer, Head(queue)) \in Seq(Comments) /\ Len(buffer) \in Nat
        /\ Len(Append(buffer, Head(queue))) = Len(buffer) + 1
        /\ \A i \in 1..Len(buffer) : Append(buffer, Head(queue))[i] = buffer[i]
        /\ Append(buffer, Head(queue))[Len(buffer) + 1] = Head(queue)
    BY <1>0, <2>2, AppendAt
  <2>4. RestType'
    BY <1>0, <2>1, <2>2 DEF RestType
  <2>5. CInv' /\ announced' = announced /\ place' = place
    BY <1>0, <2>1, <2>4, QuietKeeps DEF Quiet, service
  <2>6. FlowOK'
    BY <1>0, <2>1, <2>5, FlowDeliver DEF FlowOK
  <2>7. ASSUME NEW c \in since' PROVE c \in announced' /\ Cared(c)'
    <3>1. c \in announced /\ Cared(c) /\ create' = create
      BY <2>1, <2>7 DEF NInv, service
    <3>2. ASSUME NEW i \in 1..Len(queue), queue[i] = c PROVE Cared(c)'
      <4>1. CASE i = 1
        BY <2>1, <2>2, <2>3, <3>2, <4>1 DEF Cared
      <4>2. CASE i # 1
        <5>1. i - 1 \in 1..Len(queue) - 1 /\ Tail(queue)[i - 1] = c
          BY <2>2, <3>2, <4>2
        <5> QED
          BY <2>1, <2>2, <5>1 DEF Cared
      <4> QED
        BY <4>1, <4>2
    <3>3. ASSUME NEW i \in 1..Len(buffer), buffer[i] = c PROVE Cared(c)'
      <4>1. i \in 1..Len(buffer) + 1 /\ Append(buffer, Head(queue))[i] = c
        BY <2>3, <3>3
      <4> QED
        BY <2>1, <2>3, <4>1 DEF Cared
    <3> QED
      BY <2>1, <2>5, <3>1, <3>2, <3>3 DEF Cared
  <2>8. ConsumerTypes'
    BY <1>0, <2>1 DEF ConsumerTypes
  <2> QED
    BY <1>0, <2>1, <2>3, <2>5, <2>6, <2>7, <2>8 DEF NInv
<1>2. CASE Take
  <2>1. /\ current.pc = "idle" /\ buffer # <<>> /\ buffer' = Tail(buffer)
        /\ current' = [pc |-> "lookup", comment |-> Head(buffer)]
        /\ UNCHANGED <<vars, worker, mails, errored>>
    BY <1>2 DEF Take
  <2>2. /\ Tail(buffer) \in Seq(Comments) /\ Len(buffer) \in Nat /\ Len(buffer) >= 1
        /\ Len(Tail(buffer)) = Len(buffer) - 1
        /\ Head(buffer) = buffer[1] /\ Head(buffer) \in Comments
        /\ \A i \in 1..Len(buffer) - 1 : Tail(buffer)[i] = buffer[i + 1]
    BY <1>0, <2>1, TailAt
  <2>4. RestType' /\ queue' = queue /\ since' = since /\ create' = create
    BY <1>0, <2>1 DEF RestType, vars, service, broker
  <2>5. CInv' /\ announced' = announced /\ place' = place
    BY <1>0, <2>1, <2>4, QuietKeeps DEF Quiet, vars, service, broker
  <2>6. FlowOK'
    <3>1. current'.pc # "idle" /\ current'.comment = Head(buffer)
      BY <2>1
    <3> QED
      BY <1>0, <2>1, <2>4, <2>5, <3>1, FlowTake DEF FlowOK
  <2>7. ASSUME NEW c \in since' PROVE c \in announced' /\ Cared(c)'
    <3>1. c \in announced /\ Cared(c)
      BY <2>4, <2>7 DEF NInv
    <3>2. ASSUME NEW i \in 1..Len(buffer), buffer[i] = c PROVE Cared(c)'
      <4>1. CASE i = 1
        BY <2>1, <2>2, <3>2, <4>1 DEF Cared
      <4>2. CASE i # 1
        <5>1. i - 1 \in 1..Len(buffer) - 1 /\ Tail(buffer)[i - 1] = c
          BY <2>2, <3>2, <4>2
        <5> QED
          BY <2>1, <2>2, <5>1 DEF Cared
      <4> QED
        BY <4>1, <4>2
    <3> QED
      BY <2>1, <2>4, <2>5, <3>1, <3>2 DEF Cared
  <2>8. ConsumerTypes'
    BY <1>0, <2>1, <2>2 DEF ConsumerTypes
  <2> QED
    BY <1>0, <2>1, <2>2, <2>5, <2>6, <2>7, <2>8 DEF NInv
<1>3. CASE GetUserEmail
  <2>1. /\ current.pc = "lookup"
        /\ UNCHANGED <<vars, worker, buffer, mails>>
        /\ \/ current' = [current EXCEPT !.pc = "send"] /\ errored' = errored
           \/ /\ create[current.comment].author = Nobody
              /\ current' = Idle /\ errored' = errored \cup {current.comment}
    BY <1>3 DEF GetUserEmail, GiveUp
  <2>4. RestType' /\ queue' = queue /\ since' = since /\ create' = create
    BY <1>0, <2>1 DEF RestType, vars, service, broker
  <2>5. CInv' /\ announced' = announced /\ place' = place
    BY <1>0, <2>1, <2>4, QuietKeeps DEF Quiet, vars, service, broker
  <2>2. CASE current' = [current EXCEPT !.pc = "send"] /\ errored' = errored
    <3>1. current'.pc = "send" /\ current'.comment = current.comment
      BY <1>0, <2>2 DEF ConsumerTypes
    <3>2. FlowOK'
      BY <1>0, <2>1, <2>4, <2>5, <3>1 DEF FlowOK, Flow, Floor
    <3>3. ASSUME NEW c \in since' PROVE c \in announced' /\ Cared(c)'
      <4>1. c \in announced /\ Cared(c)
        BY <2>4, <3>3 DEF NInv
      <4> QED
        BY <2>1, <2>4, <2>5, <3>1, <4>1 DEF Cared
    <3>4. ConsumerTypes'
      BY <1>0, <2>1, <2>2, <3>1 DEF ConsumerTypes
    <3> QED
      BY <1>0, <2>1, <2>5, <3>2, <3>3, <3>4 DEF NInv
  <2>3. CASE /\ create[current.comment].author = Nobody
             /\ current' = Idle /\ errored' = errored \cup {current.comment}
    <3>1. current'.pc = "idle"
      BY <2>3 DEF Idle
    <3>2. FlowOK'
      BY <1>0, <2>1, <2>4, <2>5, <3>1, FlowDrop DEF FlowOK
    <3>3. ASSUME NEW c \in since' PROVE c \in announced' /\ Cared(c)'
      <4>1. c \in announced /\ Cared(c)
        BY <2>4, <3>3 DEF NInv
      <4> QED
        BY <2>1, <2>3, <2>4, <2>5, <3>1, <4>1 DEF Cared
    <3>4. ConsumerTypes'
      BY <1>0, <2>1, <2>3, <3>1 DEF ConsumerTypes, Idle
    <3> QED
      BY <1>0, <2>1, <2>5, <3>2, <3>3, <3>4 DEF NInv
  <2> QED
    BY <2>1, <2>2, <2>3
<1>4. CASE SendNotification
  <2>1. /\ current.pc = "send" /\ mails' = Append(mails, current.comment)
        /\ current' = Idle /\ UNCHANGED <<vars, worker, buffer, errored>>
    BY <1>4 DEF SendNotification
  <2>2. current'.pc = "idle" /\ current.comment \in Comments /\ current.pc # "idle"
    BY <1>0, <2>1 DEF Idle, ConsumerTypes
  <2>3. /\ Append(mails, current.comment) \in Seq(Comments) /\ Len(mails) \in Nat
        /\ Len(Append(mails, current.comment)) = Len(mails) + 1
        /\ \A i \in 1..Len(mails) : Append(mails, current.comment)[i] = mails[i]
        /\ Append(mails, current.comment)[Len(mails) + 1] = current.comment
    BY <1>0, <2>2, AppendAt
  <2>4. RestType' /\ queue' = queue /\ since' = since /\ create' = create
    BY <1>0, <2>1 DEF RestType, vars, service, broker
  <2>5. CInv' /\ announced' = announced /\ place' = place
    BY <1>0, <2>1, <2>4, QuietKeeps DEF Quiet, vars, service, broker
  <2>6. FlowOK'
    BY <1>0, <2>1, <2>2, <2>4, <2>5, FlowSend DEF FlowOK
  <2>7. ASSUME NEW c \in since' PROVE c \in announced' /\ Cared(c)'
    <3>1. c \in announced /\ Cared(c)
      BY <2>4, <2>7 DEF NInv
    <3>2. \A i \in 1..Len(mails) : i \in 1..Len(mails) + 1
      BY <2>3
    <3>3. ASSUME \E i \in 1..Len(mails) : mails[i] = c PROVE Cared(c)'
      BY <2>1, <2>3, <3>2, <3>3 DEF Cared
    <3>4. ASSUME current.comment = c PROVE Cared(c)'
      BY <2>1, <2>3, <3>4 DEF Cared
    <3> QED
      BY <2>1, <2>4, <2>5, <3>1, <3>3, <3>4 DEF Cared
  <2>8. ConsumerTypes'
    BY <1>0, <2>1, <2>2 DEF ConsumerTypes, Idle
  <2> QED
    BY <1>0, <2>1, <2>3, <2>5, <2>6, <2>7, <2>8 DEF NInv
<1> QED
  BY <1>1, <1>2, <1>3, <1>4 DEF WorkerStep

\* A fault, or a start, keeps the order: what it loses, it loses from an end.
LEMMA FaultKeeps ==
    ASSUME NInv, Quiet, faults' # 0, RestType',
           worker' \in {"down", "up", "deaf"}, errored' \subseteq Comments,
           buffer' \in Prefixes(buffer), queue' = queue \/ queue' = <<>>,
           \/ current' = current /\ mails' = mails
           \/ current' = Idle /\ mails' = mails
           \/ /\ current' = Idle /\ current.pc = "send"
              /\ mails' = Append(mails, current.comment),
           since' = {}
    PROVE  NInv'
<1>0. /\ buffer \in Seq(Comments) /\ mails \in Seq(Comments)
      /\ queue \in Seq(Comments) /\ announced \subseteq Comments
      /\ place \in [Comments -> Nat] /\ CInv /\ ConsumerTypes /\ FlowOK
  BY WorkerTypes
<1>1. CInv' /\ announced' = announced /\ place' = place
  BY <1>0, QuietKeeps
<1>2. buffer' \in Seq(Comments)
  BY <1>0, PrefixAt
<1>3. mails' \in Seq(Comments) /\ Flow(announced, place, buffer, current', queue, mails')
  <2>1. CASE current' = current /\ mails' = mails
    BY <1>0, <2>1 DEF FlowOK
  <2>2. CASE current' = Idle /\ mails' = mails
    <3>1. current'.pc = "idle"
      BY <2>2 DEF Idle
    <3> QED
      BY <1>0, <2>2, <3>1, FlowDrop DEF FlowOK
  <2>3. CASE /\ current' = Idle /\ current.pc = "send"
             /\ mails' = Append(mails, current.comment)
    <3>1. current'.pc = "idle" /\ current.pc # "idle" /\ current.comment \in Comments
      BY <1>0, <2>3 DEF Idle, ConsumerTypes
    <3>2. Append(mails, current.comment) \in Seq(Comments)
      BY <1>0, <3>1, AppendAt
    <3> QED
      BY <1>0, <2>3, <3>1, <3>2, FlowSend DEF FlowOK
  <2> QED
    BY <2>1, <2>2, <2>3
<1>4. FlowOK'
  <2>1. /\ Flow(announced, place, buffer', current', queue, mails')
        /\ Flow(announced, place, buffer', current', <<>>, mails')
    BY <1>0, <1>3, FlowCut
  <2>2. Flow(announced, place, buffer', current', queue', mails')
    BY <2>1
  <2> QED
    BY <1>1, <2>2 DEF FlowOK
<1>5. ConsumerTypes'
  BY <1>0 DEF ConsumerTypes, Idle
<1> QED
  BY <1>1, <1>2, <1>3, <1>4, <1>5 DEF NInv

LEMMA PrefixesOf ==
    ASSUME NEW S, NEW s \in Seq(S)
    PROVE  s \in Prefixes(s) /\ <<>> \in Prefixes(s)
<1>1. Len(s) \in 0..Len(s) /\ 0 \in 0..Len(s) /\ SubSeq(s, 1, Len(s)) = s
      /\ SubSeq(s, 1, 0) = <<>>
  OBVIOUS
<1> QED
  BY <1>1 DEF Prefixes

LEMMA NNextInv == NInv /\ [NNext]_nvars => NInv'
<1> SUFFICES ASSUME NInv, [NNext]_nvars PROVE NInv'
  OBVIOUS
<1>0. /\ buffer \in Seq(Comments) /\ mails \in Seq(Comments)
      /\ queue \in Seq(Comments) /\ CInv /\ ConsumerTypes /\ FlowOK /\ RestType
      /\ TypeOK
  BY WorkerTypes DEF CInv
<1>1. buffer \in Prefixes(buffer) /\ <<>> \in Prefixes(buffer)
  BY <1>0, PrefixesOf
<1>2. CASE ServiceNext /\ UNCHANGED consumer
  BY <1>2, ServiceKeeps
<1>3. CASE RestartBroker /\ Deafen
  <2>0. faults' # 0
    BY <1>0, <1>3, FaultRest DEF RestartBroker
  <2>1. Quiet /\ queue' = <<>> /\ since' = {}
    BY <1>3, <2>0 DEF RestartBroker, Quiet, service, Fault
  <2>2. /\ worker' \in {"down", "up", "deaf"} /\ buffer' \in Prefixes(buffer)
        /\ current' = current /\ mails' = mails /\ errored' = errored
    BY <1>0, <1>3 DEF Deafen, ConsumerTypes
  <2>3. RestType'
    BY <1>0, <1>3, ServiceSteps
  <2> QED
    BY <1>0, <2>0, <2>1, <2>2, <2>3, FaultKeeps DEF ConsumerTypes
<1>4. CASE StartWorker
  <2>1. /\ worker' = "up" /\ bound' = TRUE
        /\ UNCHANGED <<posts, service, channel, wire, queue, published, since, faults>>
        /\ UNCHANGED <<buffer, current, mails, errored>>
    BY <1>4 DEF StartWorker
  <2>2. RestType'
    BY <1>0, <2>1 DEF RestType
  <2>3. CInv' /\ announced' = announced /\ place' = place
    BY <1>0, <2>1, <2>2, QuietKeeps DEF Quiet, service
  <2>4. FlowOK' /\ ConsumerTypes'
    BY <1>0, <2>1, <2>3 DEF FlowOK, ConsumerTypes
  <2>5. ASSUME NEW c \in since' PROVE c \in announced' /\ Cared(c)'
    <3>1. c \in announced /\ Cared(c)
      BY <2>1, <2>5 DEF NInv
    <3> QED
      BY <2>1, <2>3, <3>1 DEF Cared, service
  <2> QED
    BY <1>0, <2>1, <2>3, <2>4, <2>5 DEF NInv
<1>5. CASE WorkerStep
  BY <1>5, WorkerKeeps
<1>6. CASE HandlingFails
  <2>0. faults' # 0
    BY <1>0, <1>6, FaultRest DEF HandlingFails
  <2>1. /\ Quiet /\ queue' = queue
        /\ buffer' = buffer /\ worker' = worker /\ current' = Idle /\ since' = {}
        /\ errored' = errored \cup {current.comment} /\ current.pc # "idle"
        /\ \/ mails' = mails
           \/ current.pc = "send" /\ mails' = Append(mails, current.comment)
    BY <1>6 DEF HandlingFails, GiveUp, Quiet, service, Fault
  <2>2. RestType'
    BY <1>0, <1>6, <2>1, FaultRest DEF RestType, HandlingFails
  <2>3. errored' \subseteq Comments /\ worker' \in {"down", "up", "deaf"}
    BY <1>0, <2>1 DEF ConsumerTypes
  <2> QED
    BY <1>1, <2>0, <2>1, <2>2, <2>3, FaultKeeps
<1>7. CASE StopWorker
  <2>0. faults' # 0
    BY <1>0, <1>7, FaultRest DEF StopWorker
  <2>1. /\ Quiet /\ queue' = queue
        /\ buffer' = <<>> /\ worker' = "down" /\ current' = Idle /\ since' = {}
        /\ errored' = errored /\ mails' = mails
    BY <1>7 DEF StopWorker, Quiet, service, Fault
  <2>2. RestType'
    BY <1>0, <1>7, <2>1, FaultRest DEF RestType, StopWorker
  <2> QED
    BY <1>0, <1>1, <2>0, <2>1, <2>2, FaultKeeps DEF ConsumerTypes
<1>8. CASE LoseConnection
  <2>0. faults' # 0
    BY <1>0, <1>8, FaultRest DEF LoseConnection
  <2>1. /\ Quiet /\ queue' = queue
        /\ buffer' \in Prefixes(buffer) /\ worker' \in {"down", "up", "deaf"}
        /\ current' = current /\ since' = {}
        /\ errored' = errored /\ mails' = mails
    BY <1>0, <1>8 DEF LoseConnection, Deafen, Quiet, service, Fault, ConsumerTypes
  <2>2. RestType'
    BY <1>0, <1>8, <2>1, FaultRest DEF RestType, LoseConnection
  <2> QED
    BY <1>0, <2>0, <2>1, <2>2, FaultKeeps DEF ConsumerTypes
<1>9. CASE UNCHANGED nvars
  <2>1. Quiet /\ UNCHANGED <<row, create, del, deleted, published>> /\ UNCHANGED consumer
        /\ UNCHANGED <<posts, channel, bound, queue, since, faults>>
    BY <1>9 DEF nvars, vars, Quiet, service, broker
  <2>2. RestType'
    BY <1>0, <2>1 DEF RestType
  <2>3. CInv' /\ announced' = announced /\ place' = place
    BY <1>0, <2>1, <2>2, QuietKeeps
  <2>4. FlowOK' /\ ConsumerTypes'
    BY <1>0, <2>1, <2>3 DEF FlowOK, ConsumerTypes, consumer
  <2>5. ASSUME NEW c \in since' PROVE c \in announced' /\ Cared(c)'
    <3>1. c \in announced /\ Cared(c)
      BY <2>1, <2>5 DEF NInv
    <3> QED
      BY <2>1, <2>3, <3>1 DEF Cared, consumer
  <2> QED
    BY <1>0, <2>1, <2>3, <2>4, <2>5 DEF NInv, consumer
<1> QED
  BY <1>2, <1>3, <1>4, <1>5, <1>6, <1>7, <1>8, <1>9 DEF NNext

LEMMA NInvariant == NSpec => []NInv
BY NInitInv, NNextInv, PTL DEF NSpec

\* Every variable of the notification service and its producer has its type.
THEOREM NotificationTypeCorrect == NSpec => []NTypeOK
<1>1. NInv => NTypeOK
  BY DEF NInv, CInv, NTypeOK, ConsumerTypes
<1> QED
  BY <1>1, NInvariant, PTL

\* A comment routed since the last fault is on its way, mailed, or about a
\* post that was missing.
THEOREM NotificationLosesNothing == NSpec => []NothingLost
<1>1. NInv => NothingLost
  <2> SUFFICES ASSUME NInv, NEW c \in since
               PROVE  Pending(c) \/ Mailed(c) \/ create[c].author = Nobody
    BY DEF NothingLost
  <2>1. Cared(c) /\ queue \in Seq(Comments)
        /\ buffer \in Seq(Comments) /\ mails \in Seq(Comments)
    BY DEF NInv, CInv, TypeOK
  <2>2. /\ DOMAIN queue = 1..Len(queue) /\ DOMAIN buffer = 1..Len(buffer)
        /\ DOMAIN mails = 1..Len(mails)
    BY <2>1
  <2> QED
    BY <2>1, <2>2 DEF Cared, Pending, Mailed, ToSet
<1> QED
  BY <1>1, NInvariant, PTL

-----------------------------------------------------------------------------
(* Behind the queue, the comment service is what it is by itself; and a mail   *)
(* goes to whom its comment names.                                             *)

\* A mail that is being sent, or was, has someone to go to.
Addressed ==
    /\ current.pc = "send" => create[current.comment].author \in Users
    /\ \A i \in 1..Len(mails) : create[mails[i]].author \in Users

MInv == NInv /\ AInv /\ Addressed

LEMMA AuthorsBehindQueue ==
    ASSUME NInv, NInv', AInv, [NNext]_nvars
    PROVE  AInv'
<1>1. CInv'
  BY DEF NInv
<1>2. CASE ServiceNext \/ RestartBroker
  BY <1>1, <1>2, AuthorStep DEF Next
<1>3. ASSUME UNCHANGED <<posts, create>> PROVE AInv'
  <2>1. \A c \in Comments : AuthorOK(c)'
    BY <1>3, AuthorKept DEF AInv, Keeps
  <2> QED
    BY <1>1, <1>3, <2>1 DEF AInv
<1>4. CASE \/ StartWorker \/ WorkerStep \/ HandlingFails \/ StopWorker
           \/ LoseConnection \/ UNCHANGED nvars
  BY <1>3, <1>4
     DEF StartWorker, WorkerStep, Deliver, Take, GetUserEmail, SendNotification,
         HandlingFails, StopWorker, LoseConnection, nvars, vars, service
<1> QED
  BY <1>2, <1>4 DEF NNext

\* What is in hand or mailed was announced, and keeps its author.
LEMMA ServiceAddressed ==
    ASSUME NInv, Addressed, ServiceNext \/ RestartBroker, UNCHANGED <<current, mails>>
    PROVE  Addressed'
<1>1. \A c \in announced : create'[c].author = create[c].author
  BY ServiceSteps, PlacesMove DEF NInv
<1>2. /\ current.pc = "send" => current.comment \in announced
      /\ \A i \in 1..Len(mails) : mails[i] \in announced
  BY DEF NInv, FlowOK, Flow, Within
<1> QED
  BY <1>1, <1>2 DEF Addressed

LEMMA MailAddressed ==
    ASSUME NInv, Addressed, UNCHANGED create,
           \/ current'.pc # "send" \/ current' = current
           \/ /\ current'.comment = current.comment
              /\ create[current.comment].author \in Users,
           \/ mails' = mails
           \/ current.pc = "send" /\ mails' = Append(mails, current.comment)
    PROVE  Addressed'
<1>1. \A i \in 1..Len(mails') : create[mails'[i]].author \in Users
  <2>1. CASE mails' = mails
    BY <2>1 DEF Addressed
  <2>2. CASE current.pc = "send" /\ mails' = Append(mails, current.comment)
    <3>1. mails \in Seq(Comments) /\ current.comment \in Comments
      BY <2>2 DEF NInv, ConsumerTypes
    <3>2. /\ Len(mails') = Len(mails) + 1 /\ Len(mails) \in Nat
          /\ mails'[Len(mails) + 1] = current.comment
          /\ \A i \in 1..Len(mails) : mails'[i] = mails[i]
      BY <2>2, <3>1, AppendAt
    <3> QED
      BY <2>2, <3>2 DEF Addressed
  <2> QED
    BY <2>1, <2>2
<1>2. current'.pc = "send" => create[current'.comment].author \in Users
  BY DEF Addressed
<1> QED
  BY <1>1, <1>2 DEF Addressed

LEMMA MNextInv == MInv /\ [NNext]_nvars => MInv'
<1> SUFFICES ASSUME MInv, [NNext]_nvars PROVE MInv'
  OBVIOUS
<1>0. NInv /\ NInv' /\ AInv /\ AInv' /\ Addressed
  BY NNextInv, AuthorsBehindQueue DEF MInv
<1>1. CASE ServiceNext /\ UNCHANGED consumer
  BY <1>0, <1>1, ServiceAddressed DEF consumer, MInv
<1>2. CASE RestartBroker /\ Deafen
  BY <1>0, <1>2, ServiceAddressed DEF Deafen, MInv
<1>3. CASE StartWorker \/ Deliver
  BY <1>0, <1>3, MailAddressed DEF StartWorker, Deliver, service, MInv
<1>4. CASE Take
  BY <1>0, <1>4, MailAddressed DEF Take, vars, service, MInv
<1>5. CASE GetUserEmail
  <2>1. /\ UNCHANGED <<create, mails>> /\ current \in [pc : {"idle", "lookup", "send"},
                                                      comment : Comments \cup {Nobody}]
        /\ \/ /\ create[current.comment].author \in Users
              /\ current' = [current EXCEPT !.pc = "send"]
           \/ current' = Idle
    BY <1>0, <1>5 DEF GetUserEmail, GiveUp, vars, service, NInv, ConsumerTypes
  <2>2. \/ current'.pc # "send"
        \/ /\ current'.comment = current.comment
           /\ create[current.comment].author \in Users
    BY <2>1 DEF Idle
  <2> QED
    BY <1>0, <2>1, <2>2, MailAddressed DEF MInv
<1>6. CASE SendNotification
  BY <1>0, <1>6, MailAddressed DEF SendNotification, Idle, vars, service, MInv
<1>7. CASE HandlingFails
  BY <1>0, <1>7, MailAddressed DEF HandlingFails, GiveUp, Idle, service, MInv
<1>8. CASE StopWorker \/ LoseConnection
  BY <1>0, <1>8, MailAddressed DEF StopWorker, LoseConnection, Deafen, Idle, service, MInv
<1>9. CASE UNCHANGED nvars
  BY <1>0, <1>9, MailAddressed DEF nvars, consumer, vars, service, MInv
<1> QED
  BY <1>1, <1>2, <1>3, <1>4, <1>5, <1>6, <1>7, <1>8, <1>9 DEF NNext, WorkerStep

LEMMA MInvariant == NSpec => []MInv
<1>1. NInit => MInv
  <2>1. NInit => AInv
    BY CInitInv DEF NInit, Init, PostService!Init, NoCreate, AInv, AuthorOK, Handed
  <2>2. NInit => Addressed
    BY DEF NInit, Idle, Addressed
  <2> QED
    BY <2>1, <2>2, NInitInv DEF MInv
<1> QED
  BY <1>1, MNextInv, PTL DEF NSpec

\* A mail goes to the author of the post, about a comment that is there.
THEOREM MailsAreTrue == NSpec => []MailsTrue
<1>1. MInv => MailsTrue
  <2> SUFFICES ASSUME MInv, NEW c \in ToSet(mails)
               PROVE  /\ create[c].pc \in Handed /\ row[c] # "never"
                      /\ create[c].author \in Users
                      /\ owner[create[c].post] \in {Nobody, create[c].author}
    BY DEF MailsTrue
  <2>1. PICK i \in 1..Len(mails) : mails[i] = c
    <3>1. mails \in Seq(Comments)
      BY DEF MInv, NInv
    <3> QED
      BY <3>1 DEF ToSet
  <2>2. c \in announced /\ create[c].author \in Users
    BY <2>1 DEF MInv, NInv, FlowOK, Flow, Within, Addressed
  <2>3. c \in Comments /\ create[c].pc \in Handed
    BY <2>2 DEF announced, MInv, NInv, CInv, ServiceOK, CommentOK
  <2>4. row[c] # "never"
    BY <2>3 DEF MInv, NInv, CInv, ServiceOK, CommentOK
  <2>5. owner[create[c].post] \in {Nobody, create[c].author}
    BY <2>3 DEF MInv, AInv, AuthorOK
  <2> QED
    BY <2>2, <2>3, <2>4, <2>5
<1> QED
  BY <1>1, MInvariant, PTL

\* What is true of the comment service by itself is true in front of the queue:
\* nothing the broker or the worker does disturbs it.
THEOREM CommentsHoldUnderNotification ==
    NSpec => [](DeletedOnce /\ AnnouncedOnce /\ AuthorsNamed)
<1>1. MInv => DeletedOnce /\ AnnouncedOnce /\ AuthorsNamed
  BY OnceEach, NamesAuthors DEF MInv, NInv
<1> QED
  BY <1>1, MInvariant, PTL

-----------------------------------------------------------------------------
(* The pipeline implements Notices. *)

Written == {c \in Comments : row[c] # "never"}
LastMail == IF mails = <<>> THEN 0 ELSE PositionOf(Last(mails))

\* Where the last mail was, in the terms of the invariant.
LEMMA LastMailSent ==
    ASSUME NInv
    PROVE  LastMail = Sent(place, mails)
<1>1. mails # <<>> => Last(mails) \in announced
  BY LastAt DEF NInv, FlowOK, Flow, Within
<1>2. \A c \in announced : place[c] = PositionOf(c)
  BY PlaceType DEF NInv
<1> QED
  BY <1>1, <1>2 DEF LastMail, Sent

LEMMA LastMailStays ==
    ASSUME NInv, mails' = mails, \A c \in announced : place'[c] = place[c],
           \A c \in announced : PositionOf(c)' = place'[c]
    PROVE  LastMail' = LastMail
<1>1. mails # <<>> => Last(mails) \in announced
  BY LastAt DEF NInv, FlowOK, Flow, Within
<1>2. \A c \in announced : place[c] = PositionOf(c)
  BY PlaceType DEF NInv
<1> QED
  BY <1>1, <1>2 DEF LastMail

\* A step of the comment service writes, announces or stutters.
LEMMA ServiceNotices ==
    ASSUME NInv, ServiceEffect, RestType', mails' = mails
    PROVE  Abstract!Next \/ UNCHANGED <<Written, published, LastMail, mails>>
<1> USE DEF CInv, TypeOK
<1>0. CInv
  BY DEF NInv
<1>1. CInv'
  BY <1>0, EffectInv
<1>2. \A c \in announced : c \in announced' /\ place'[c] = place[c]
  BY <1>0, PlacesMove
<1>3. \A c \in announced : PositionOf(c)' = place'[c]
  <2>1. ASSUME NEW c \in announced PROVE PositionOf(c)' = place'[c]
    <3>1. c \in Comments /\ c \in announced'
      BY <1>2, <2>1 DEF announced
    <3>2. Places(c)' # {}
      BY <3>1 DEF announced
    <3> QED
      BY <3>1, <3>2 DEF place
  <2> QED
    BY <2>1
<1>4. LastMail' = LastMail
  BY <1>2, <1>3, LastMailStays
<1>5. ASSUME NEW c \in Comments, Stores(c) PROVE Abstract!Next
  <2>1. row[c] = "never" /\ row' = [row EXCEPT ![c] = "stored"] /\ published' = published
    BY <1>0, <1>5 DEF Stores, ServiceOK, CommentOK
  <2>2. c \notin Written /\ Written' = Written \cup {c}
    BY <1>0, <2>1 DEF Written
  <2>3. Abstract!Write(c)
    BY <1>4, <2>1, <2>2 DEF Abstract!Write, Written, LastMail
  <2> QED
    BY <2>3 DEF Abstract!Next
<1>6. ASSUME NEW c \in Comments, Announces(c) PROVE Abstract!Next
  <2>0. OnWire(c)
    BY <1>0, <1>6, WireLeaves DEF Announces, ServiceOK
  <2>1. row[c] # "never" /\ row' = row /\ Places(c) = {} /\ published' = Append(published, c)
    BY <1>0, <1>6, <2>0 DEF Announces, ServiceOK, CommentOK
  <2>2. c \in Written /\ Written' = Written
    BY <2>1 DEF Written
  <2>3. \A i \in DOMAIN published : published[i] # c
    BY <2>1 DEF Places
  <2>4. Abstract!Announce(c)
    BY <1>4, <2>1, <2>2, <2>3 DEF Abstract!Announce, Written, LastMail
  <2> QED
    BY <2>4 DEF Abstract!Next
<1>7. ASSUME published' = published, Written' = Written
      PROVE  UNCHANGED <<Written, published, LastMail, mails>>
  BY <1>4, <1>7
<1>8. ASSUME NEW c \in Comments, Advances(c) \/ Hands(c) \/ Answers(c)
      PROVE  published' = published /\ Written' = Written
  BY <1>8 DEF Advances, Hands, Answers, Written
<1>9. ASSUME NEW d \in Deletions, Looks(d) PROVE published' = published /\ Written' = Written
  BY <1>9 DEF Looks, Written
<1>10. ASSUME NEW d \in Deletions, Deletes(d) PROVE published' = published /\ Written' = Written
  <2>1. /\ row[del[d].comment] = "stored" /\ row' = [row EXCEPT ![del[d].comment] = "gone"]
        /\ published' = published
    BY <1>10 DEF Deletes
  <2>2. \A x \in Comments : row'[x] # "never" <=> row[x] # "never"
    BY <1>0, <2>1
  <2> QED
    BY <2>1, <2>2 DEF Written
<1>11. ASSUME RestartService \/ Quiet
       PROVE  published' = published /\ Written' = Written
  BY <1>11 DEF RestartService, Quiet, Written
<1> QED
  BY <1>5, <1>6, <1>7, <1>8, <1>9, <1>10, <1>11 DEF ServiceEffect

\* A step of the notification service mails or stutters.
LEMMA MailNotices ==
    ASSUME NInv, NInv', UNCHANGED <<row, create, published>>,
           \/ mails' = mails
           \/ current.pc # "idle" /\ mails' = Append(mails, current.comment)
    PROVE  Abstract!Next \/ UNCHANGED <<Written, published, LastMail, mails>>
<1>0. Written' = Written /\ \A c \in Comments : PositionOf(c)' = PositionOf(c)
  BY DEF Written, PositionOf
<1>1. CASE mails' = mails
  <2>1. mails # <<>> => Last(mails) \in Comments
    BY LastAt DEF NInv
  <2> QED
    BY <1>0, <1>1, <2>1 DEF LastMail
<1>2. CASE current.pc # "idle" /\ mails' = Append(mails, current.comment)
  <2>1. /\ current.comment \in announced /\ current.comment \in Comments
        /\ Sent(place, mails) < place[current.comment] /\ mails \in Seq(Comments)
    BY <1>2 DEF NInv, FlowOK, Flow, announced
  <2>2. /\ place[current.comment] = PositionOf(current.comment)
        /\ place[current.comment] \in DOMAIN published
        /\ published[place[current.comment]] = current.comment
    BY <2>1, PlaceType DEF NInv
  <2>3. mails' # <<>> /\ Last(mails') = current.comment
    BY <1>2, <2>1, AppendAt DEF Last
  <2>4. LastMail' = place[current.comment]
    BY <1>0, <2>1, <2>2, <2>3 DEF LastMail
  <2>5. LastMail < place[current.comment]
    BY <2>1, LastMailSent
  <2>6. Abstract!Mail(place[current.comment])
    BY <1>0, <1>2, <2>2, <2>4, <2>5 DEF Abstract!Mail, LastMail, Written
  <2> QED
    BY <2>2, <2>6 DEF Abstract!Next
<1> QED
  BY <1>1, <1>2

LEMMA NoticesStep ==
    ASSUME NInv, NInv', [NNext]_nvars
    PROVE  Abstract!Next \/ UNCHANGED <<Written, published, LastMail, mails>>
<1>1. CASE ServiceNext /\ UNCHANGED consumer
  <2>1. CInv
    BY DEF NInv
  <2>2. ServiceEffect /\ RestType' /\ mails' = mails
    BY <1>1, <2>1, ServiceSteps DEF consumer
  <2> QED
    BY <2>2, ServiceNotices
<1>2. CASE RestartBroker /\ Deafen
  BY <1>2, MailNotices DEF RestartBroker, Deafen, service
<1>3. CASE StartWorker
  BY <1>3, MailNotices DEF StartWorker, service
<1>4. CASE Deliver
  BY <1>4, MailNotices DEF Deliver, service
<1>5. CASE Take \/ GetUserEmail
  BY <1>5, MailNotices DEF Take, GetUserEmail, vars, service, broker
<1>6. CASE SendNotification
  BY <1>6, MailNotices DEF SendNotification, vars, service, broker
<1>7. CASE HandlingFails
  BY <1>7, MailNotices DEF HandlingFails, service
<1>8. CASE StopWorker \/ LoseConnection
  BY <1>8, MailNotices DEF StopWorker, LoseConnection, Deafen, service
<1>9. CASE UNCHANGED nvars
  BY <1>9, MailNotices DEF nvars, consumer, vars, service, broker
<1> QED
  BY <1>1, <1>2, <1>3, <1>4, <1>5, <1>6, <1>7, <1>8, <1>9 DEF NNext, WorkerStep

LEMMA NoticesInit == NInit => Abstract!Init
BY DEF NInit, Init, Abstract!Init, Written, LastMail

\* However the handlers, the broker and the worker interleave, and whatever
\* faults there are, the mails are a lossy, ordered stream of announcements.
THEOREM MailsAreLossyStream == NSpec => IsLossyStream
<1>1. NInv /\ NInv' /\ [NNext]_nvars
          => [Abstract!Next]_<<Written, published, LastMail, mails>>
  BY NoticesStep
<1> QED
  BY <1>1, NoticesInit, NInvariant, PTL
     DEF NSpec, IsLossyStream, Abstract!Spec, Abstract!notices, Written, LastMail
=============================================================================
