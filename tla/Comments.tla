------------------------------ MODULE Comments ------------------------------
(***************************************************************************)
(* The comment service and the exchange it publishes to.  CreateComment    *)
(* fetches the post from the post service, inserts the comment and         *)
(* publishes an event, one after the other and with nothing to undo the    *)
(* insert; DeleteComment reads the comment before it deletes it.  Handlers *)
(* run concurrently and share one AMQP channel, which the client locks for *)
(* each Publish and which nothing opens again once it is closed.  Posts    *)
(* come and go as Ownership says, which the post service implements.       *)
(* A Publish is not confirmed: it returns when the event is written to the *)
(* connection, the handler answers 201, and the broker routes the event    *)
(* later, or never if the connection is lost before.                       *)
(***************************************************************************)
EXTENDS Naturals, Sequences

CONSTANTS
    Comments,     \* the ids that uuid.New gives, one per request to create
    Deletions,    \* slots for the requests to delete
    Posts, Users,
    Nobody,       \* the owner of a post that is not there
    MaxFaults     \* bound: faults in one behaviour

ASSUME CommentsAssumption == Nobody \notin Users /\ MaxFaults \in Nat

VARIABLES
    owner,      \* the post service: who owns each post,
    gone,       \* and which were deleted
    row,        \* the table comments, by id; its columns are in create
    create,     \* CreateComment, for each comment
    del,        \* the DeleteComment requests
    deleted,    \* history: how many requests were told they deleted it
    channel,    \* the publisher's AMQP channel is open
    wire,       \* the events written to it that the broker has not routed
    bound,      \* notification_queue is declared and bound
    queue,      \* notification_queue
    published,  \* history: the comments whose event the broker got, in order
    since,      \* history: those routed to the queue since the last fault
    faults

PostService == INSTANCE Ownership

posts == <<owner, gone>>
service == <<row, create, del, deleted>>
broker == <<channel, wire, bound, queue, published, since>>
vars == <<posts, service, broker, faults>>

\* A creation whose Publish returned: it is about to be answered 201, was, or
\* was cut off before.  "failed" was answered 500, or cut off before Publish.
Handed == {"answer", "created", "unheard"}
CreatePcs == {"none", "fetch", "insert", "publish", "failed"} \cup Handed
DeletePcs == {"idle", "read", "delete", "deleted", "refused", "failed"}

NoCreate == [pc |-> "none", post |-> Nobody, by |-> Nobody, author |-> Nobody]
NoDeletion == [pc |-> "idle", comment |-> Nobody, by |-> Nobody]

\* The rows of the table.
stored == {c \in Comments : row[c] = "stored"}

\* GetCommentsByPost: the comments of a post.
Listed(p) == {c \in stored : create[c].post = p}

\* The places of a comment among the events, and whether one is on its way.
Places(c) == {i \in DOMAIN published : published[i] = c}
OnWire(c) == \E i \in DOMAIN wire : wire[i] = c

Init ==
    /\ PostService!Init
    /\ row = [c \in Comments |-> "never"]
    /\ create = [c \in Comments |-> NoCreate]
    /\ del = [d \in Deletions |-> NoDeletion]
    /\ deleted = [c \in Comments |-> 0]
    /\ channel = TRUE /\ wire = <<>> /\ bound = FALSE
    /\ queue = <<>> /\ published = <<>> /\ since = {}
    /\ faults = 0

-----------------------------------------------------------------------------
(* CreateComment *)

\* Someone who saw the post comments on it, perhaps after it was deleted; an id
\* that never was one is answered like that of a deleted post.
BeginCreate(c, p, u) ==
    /\ create[c].pc = "none"
    /\ owner[p] # Nobody \/ p \in gone
    /\ create' = [create EXCEPT ![c] = [pc |-> "fetch", post |-> p, by |-> u,
                                        author |-> Nobody]]
    /\ UNCHANGED <<posts, row, del, deleted, broker, faults>>

\* Mutation: the event takes the post for its author.
FetchPostId(c) ==
    /\ create[c].pc = "fetch"
    /\ create' = [create EXCEPT ![c].pc = "insert",
                                ![c].author = create[c].post]
    /\ UNCHANGED <<posts, row, del, deleted, broker, faults>>

\* Mutation: the event names the one who comments.
FetchPostCommenter(c) ==
    /\ create[c].pc = "fetch"
    /\ create' = [create EXCEPT ![c].pc = "insert",
                                ![c].author = create[c].by]
    /\ UNCHANGED <<posts, row, del, deleted, broker, faults>>

\* getPost: the post service answers 200 also when there is no such post,
\* with data that decodes to a post nobody owns.
FetchPost(c) ==
    /\ create[c].pc = "fetch"
    /\ create' = [create EXCEPT ![c].pc = "insert",
                                ![c].author = owner[create[c].post]]
    /\ UNCHANGED <<posts, row, del, deleted, broker, faults>>

InsertComment(c) ==
    /\ create[c].pc = "insert"
    /\ row' = [row EXCEPT ![c] = "stored"]
    /\ create' = [create EXCEPT ![c].pc = "publish"]
    /\ UNCHANGED <<posts, del, deleted, broker, faults>>

\* Mutation: the handler may publish its event a second time.
PublishAgain(c) ==
    /\ create[c].pc = "publish" /\ channel
    /\ create' = [create EXCEPT ![c].pc = IF OnWire(c) THEN "answer" ELSE @]
    /\ wire' = Append(wire, c)
    /\ UNCHANGED <<posts, row, del, deleted, channel, bound, queue, published>>
    /\ UNCHANGED <<since, faults>>

\* PublishNewComment on an open channel returns when the event is written.
PublishNewComment(c) ==
    /\ create[c].pc = "publish" /\ channel
    /\ create' = [create EXCEPT ![c].pc = "answer"]
    /\ wire' = Append(wire, c)
    /\ UNCHANGED <<posts, row, del, deleted, channel, bound, queue, published>>
    /\ UNCHANGED <<since, faults>>

\* PublishNewComment on a closed channel: 500, and the comment stays.
PublishRefused(c) ==
    /\ create[c].pc = "publish" /\ ~channel
    /\ create' = [create EXCEPT ![c].pc = "failed"]
    /\ UNCHANGED <<posts, row, del, deleted, broker, faults>>

\* 201, whatever became of the event.
AnswerCreate(c) ==
    /\ create[c].pc = "answer"
    /\ create' = [create EXCEPT ![c].pc = "created"]
    /\ UNCHANGED <<posts, row, del, deleted, broker, faults>>

\* The broker takes the next event: the fanout exchange routes it to the queues
\* that are bound, and drops it when none is.
Route ==
    /\ wire # <<>>
    /\ wire' = Tail(wire)
    /\ published' = Append(published, Head(wire))
    /\ IF bound THEN /\ queue' = Append(queue, Head(wire))
                     /\ since' = since \cup {Head(wire)}
                ELSE UNCHANGED <<queue, since>>
    /\ UNCHANGED <<posts, service, channel, bound, faults>>

-----------------------------------------------------------------------------
(* DeleteComment *)

\* Someone who saw the comment, now or before it went, asks to delete it.
BeginDelete(d, c, u) ==
    /\ del[d].pc = "idle"
    /\ row[c] # "never"
    /\ del' = [del EXCEPT ![d] = [pc |-> "read", comment |-> c, by |-> u]]
    /\ UNCHANGED <<posts, row, create, deleted, broker, faults>>

\* GetCommentByID, and the comparison with the comment's author.
ReadComment(d) ==
    /\ del[d].pc = "read"
    /\ LET c == del[d].comment
       IN  del' = [del EXCEPT ![d].pc =
                     IF c \in stored /\ create[c].by = del[d].by
                     THEN "delete" ELSE "refused"]
    /\ UNCHANGED <<posts, row, create, deleted, broker, faults>>

\* Mutation: the rows affected are not looked at.
DeleteRowUnchecked(d) ==
    /\ del[d].pc = "delete"
    /\ LET c == del[d].comment
       IN  /\ row' = [row EXCEPT ![c] = "gone"]
           /\ del' = [del EXCEPT ![d].pc = "deleted"]
           /\ deleted' = [deleted EXCEPT ![c] = @ + 1]
    /\ UNCHANGED <<posts, create, broker, faults>>

\* PostgresStore.DeleteComment: no row affected is 404.
DeleteRow(d) ==
    /\ del[d].pc = "delete"
    /\ LET c == del[d].comment
       IN  IF c \in stored
           THEN /\ row' = [row EXCEPT ![c] = "gone"]
                /\ del' = [del EXCEPT ![d].pc = "deleted"]
                /\ deleted' = [deleted EXCEPT ![c] = @ + 1]
           ELSE /\ del' = [del EXCEPT ![d].pc = "refused"]
                /\ UNCHANGED <<row, deleted>>
    /\ UNCHANGED <<posts, create, broker, faults>>

AnswerDelete(d) ==
    /\ del[d].pc \in {"deleted", "refused", "failed"}
    /\ del' = [del EXCEPT ![d] = NoDeletion]
    /\ UNCHANGED <<posts, row, create, deleted, broker, faults>>

-----------------------------------------------------------------------------
(* The post service, and faults. *)

CreatePost(p, u) ==
    /\ PostService!Appear(p, u)
    /\ UNCHANGED <<service, broker, faults>>

DeletePost(p) ==
    /\ PostService!Vanish(p)
    /\ UNCHANGED <<service, broker, faults>>

Fault ==
    /\ faults < MaxFaults
    /\ faults' = faults + 1
    /\ since' = {}

\* The post service does not answer, or a statement fails, after or without
\* taking effect.
CreateFails(c) ==
    /\ Fault
    /\ create[c].pc \in {"fetch", "insert"}
    /\ create' = [create EXCEPT ![c].pc = "failed"]
    /\ \/ UNCHANGED row
       \/ create[c].pc = "insert" /\ row' = [row EXCEPT ![c] = "stored"]
    /\ UNCHANGED <<posts, del, deleted, channel, wire, bound, queue, published>>

DeleteFails(d) ==
    /\ Fault
    /\ del[d].pc \in {"read", "delete"}
    /\ del' = [del EXCEPT ![d].pc = "failed"]
    /\ \/ UNCHANGED row
       \/ /\ del[d].pc = "delete" /\ row[del[d].comment] = "stored"
          /\ row' = [row EXCEPT ![del[d].comment] = "gone"]
    /\ UNCHANGED <<posts, create, deleted, channel, wire, bound, queue, published>>

\* The connection breaks, or the broker closes the channel: what it has not
\* routed by then it never gets, and Publish returns an error from now on.
LoseChannel ==
    /\ Fault
    /\ channel /\ channel' = FALSE
    /\ wire' = <<>>
    /\ UNCHANGED <<posts, service, bound, queue, published>>

\* The broker restarts: the queue is durable, its messages are not.
RestartBroker ==
    /\ Fault
    /\ channel' = FALSE
    /\ wire' = <<>> /\ queue' = <<>>
    /\ UNCHANGED <<posts, service, bound, published>>

\* The comment service stops wherever its handlers are, and starts again
\* with a new channel.
RestartService ==
    /\ Fault
    /\ create' = [c \in Comments |->
                    CASE create[c].pc \in {"fetch", "insert", "publish"} ->
                           [create[c] EXCEPT !.pc = "failed"]
                      [] create[c].pc = "answer" ->
                           [create[c] EXCEPT !.pc = "unheard"]
                      [] OTHER -> create[c]]
    /\ del' = [d \in Deletions |-> NoDeletion]
    /\ channel' = TRUE
    /\ wire' = <<>>
    /\ UNCHANGED <<posts, row, deleted, bound, queue, published>>

-----------------------------------------------------------------------------
CreateStep(c) ==
    \/ FetchPost(c) \/ InsertComment(c)
    \/ PublishNewComment(c) \/ PublishRefused(c) \/ AnswerCreate(c)

DeleteStep(d) ==
    \/ \E c \in Comments, u \in Users : BeginDelete(d, c, u)
    \/ ReadComment(d) \/ DeleteRow(d) \/ AnswerDelete(d)

\* The steps that are not faults.
CalmNext ==
    \/ \E c \in Comments : CreateStep(c)
                           \/ \E p \in Posts, u \in Users : BeginCreate(c, p, u)
    \/ \E d \in Deletions : DeleteStep(d)
    \/ Route
    \/ \E p \in Posts : DeletePost(p) \/ \E u \in Users : CreatePost(p, u)

\* Every step but the broker's own restart.
ServiceNext ==
    \/ CalmNext
    \/ \E c \in Comments : CreateFails(c)
    \/ \E d \in Deletions : DeleteFails(d)
    \/ LoseChannel \/ RestartService

Next == ServiceNext \/ RestartBroker

Spec == Init /\ [][Next]_vars

-----------------------------------------------------------------------------
(* Properties *)

\* Every variable has its type.
TypeOK ==
    /\ owner \in [Posts -> Users \cup {Nobody}] /\ gone \subseteq Posts
    /\ row \in [Comments -> {"never", "stored", "gone"}]
    /\ create \in [Comments -> [pc : CreatePcs, post : Posts \cup {Nobody},
                                by : Users \cup {Nobody},
                                author : Users \cup {Nobody}]]
    /\ del \in [Deletions -> [pc : DeletePcs, comment : Comments \cup {Nobody},
                              by : Users \cup {Nobody}]]
    /\ deleted \in [Comments -> Nat]
    /\ channel \in BOOLEAN /\ bound \in BOOLEAN
    /\ wire \in Seq(Comments) /\ queue \in Seq(Comments)
    /\ published \in Seq(Comments)
    /\ since \subseteq Comments
    /\ faults \in 0..MaxFaults

\* However requests to delete a comment overlap, one at most is told that it
\* deleted it, only its author is, and after that no list has the comment.
DeletedOnce ==
    \A c \in Comments :
        /\ deleted[c] <= 1
        /\ deleted[c] = 1 => \A p \in Posts : c \notin Listed(p)
        /\ \A d \in Deletions :
               del[d].pc = "deleted" /\ del[d].comment = c
                   => del[d].by = create[c].by

\* A comment is announced once at most, and only if it was stored and Publish
\* returned.  So one whose creation was answered 500 (handlers.go:129, 147) or
\* cut off before is never announced, now or later, although it may be stored:
\* a client that tries again stores it twice and notifies the author once.  201
\* (handlers.go:152) promises less: that the comment was stored, and that it is
\* announced or on its way for as long as nothing has failed since the start.
AnnouncedOnce ==
    \A c \in Comments :
        /\ create[c].pc \notin Handed => Places(c) = {} /\ ~OnWire(c)
        /\ create[c].pc \in Handed =>
               /\ row[c] # "never"
               /\ OnWire(c) => Places(c) = {}
               /\ \A i, j \in Places(c) : i = j
               /\ faults = 0 => OnWire(c) \/ Places(c) # {}

\* An event names the author of the post for as long as there is the post,
\* although the post was looked up statements earlier; it names nobody, and the
\* notice is dropped, only if the post was deleted and stays so.
AuthorsNamed ==
    \A c \in Comments :
        create[c].pc \in {"insert", "publish"} \cup Handed =>
            LET p == create[c].post
            IN  /\ owner[p] \in {Nobody, create[c].author}
                /\ create[c].author = Nobody => p \in gone
=============================================================================
