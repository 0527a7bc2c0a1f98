------------------------------- MODULE Posts -------------------------------
(***************************************************************************)
(* The post service: CreatePost, UpdatePost and DeletePost, which run one  *)
(* statement at a time on the table posts, interleaved with each other,    *)
(* and a client that reads a paginated list (all posts, those of a user or *)
(* those with a tag) page after page, each with a COUNT and a SELECT.      *)
(* Title and content are left out; the tags decide what a list holds.      *)
(***************************************************************************)
EXTENDS Integers, FiniteSets

CONSTANTS
    Ids,           \* the ids that uuid.New gives, one per request to create
    Users, Tags,
    Nobody,        \* nobody's id
    All,           \* the list of all posts
    Null,          \* the NULL of PostgreSQL
    Requests,      \* slots for the updates and the deletions in progress
    PageSize,      \* 1 to 100
    MaxMoves,      \* bound: posts that enter or leave a list being read
    MaxFaults      \* bound: faults in one behaviour

ASSUME PostsAssumption ==
    /\ Nobody \notin Users /\ IsFiniteSet(Ids)
    /\ Users \cap Tags = {} /\ {All, Null} \cap (Users \cup Tags) = {}
    /\ PageSize \in Nat \ {0} /\ MaxMoves \in Nat /\ MaxFaults \in Nat

VARIABLES
    now,       \* the time stamps given so far; no two creations share one
    post,      \* CreatePost, for each id, and then the row of the post
    req,       \* the updates and the deletions in progress
    list,      \* the list being read and the statement that is next
    seen,      \* history: the posts in the pages read so far
    again,     \* history: how many rows of them had been seen before
    stable,    \* history: the posts in the list since the reader began
    moves,     \* history: how many posts entered and left it since
    faults

reader == <<list, seen, again>>
vars == <<now, post, req, reader, stable, moves, faults>>

\* A body without tags: a nil slice, which is NULL for PostgreSQL.
NoTags == {Null}
Bodies == (SUBSET Tags) \cup {NoTags}
Lists == {All} \cup Users \cup Tags

NoPost == [pc |-> "none", owner |-> Nobody, tags |-> NoTags, at |-> 0]
Failed == [NoPost EXCEPT !.pc = "failed"]
NoRequest == [pc |-> "idle", id |-> Nobody, by |-> Nobody, tags |-> NoTags]
\* Mutation: pages are counted from 0.
NoListFromZero == [pc |-> "idle", of |-> All, page |-> 0, total |-> 0]

NoList == [pc |-> "idle", of |-> All, page |-> 1, total |-> 0]

Stored(p) == post[p].pc = "stored"

\* The row of the request is there and belongs to its sender.
Own(r) == Stored(req[r].id) /\ post[req[r].id].owner = req[r].by

Writable(r) == Stored(req[r].id) /\ req[r].tags # NoTags

\* What UPDATE and DELETE do to the row; created_at stays.
Write(r) == post' = [post EXCEPT ![req[r].id].tags = req[r].tags]
Remove(r) == post' = [post EXCEPT ![req[r].id] = [NoPost EXCEPT !.pc = "gone"]]

\* The WHERE of the three lists.
Listed(l) ==
    {p \in Ids : Stored(p) /\ (l = All \/ post[p].owner = l \/ l \in post[p].tags)}

\* ORDER BY created_at DESC.
Rank(p, l) == Cardinality({q \in Listed(l) : post[q].at > post[p].at})

\* Mutation: an offset that starts one row late.
PageLate(l, n) ==
    {p \in Listed(l) : Rank(p, l) \in (n - 1) * PageSize + 1 .. n * PageSize}

\* Mutation: a page holds one row more than the next one skips.
PageLong(l, n) ==
    {p \in Listed(l) : Rank(p, l) \in (n - 1) * PageSize .. n * PageSize}

\* LIMIT and OFFSET of the page n.
Page(l, n) ==
    {p \in Listed(l) : Rank(p, l) \in (n - 1) * PageSize .. n * PageSize - 1}

Init ==
    /\ now = 0
    /\ post = [p \in Ids |-> NoPost]
    /\ req = [r \in Requests |-> NoRequest]
    /\ list = NoList /\ seen = {} /\ again = 0
    /\ stable = {} /\ moves = [in |-> 0, out |-> 0]
    /\ faults = 0

-----------------------------------------------------------------------------
(* The handlers that write. *)

\* CreatePost takes the time before its INSERT.
BeginCreate(p, u, tags) ==
    /\ post[p].pc = "none"
    /\ now' = now + 1
    /\ post' = [post EXCEPT ![p] = [pc |-> "insert", owner |-> u, tags |-> tags,
                                    at |-> now + 1]]
    /\ UNCHANGED <<req, faults>>

\* A post without tags is NULL in a column that is NOT NULL: 500.
InsertPost(p) ==
    /\ post[p].pc = "insert"
    /\ post' = [post EXCEPT ![p] = IF @.tags = NoTags THEN Failed
                                   ELSE [@ EXCEPT !.pc = "stored"]]
    /\ UNCHANGED <<now, req, faults>>

\* Someone who saw the post asks to change or to delete it.
Begin(r, pc, p, u, tags) ==
    /\ req[r].pc = "idle" /\ post[p].pc \in {"stored", "gone"}
    /\ req' = [req EXCEPT ![r] = [pc |-> pc, id |-> p, by |-> u, tags |-> tags]]
    /\ UNCHANGED <<now, post, faults>>

\* The answer is sent.
Over(r) == req' = [req EXCEPT ![r] = NoRequest]

\* Mutation: whose post it is is not looked at.
ReadPostUnchecked(r) ==
    /\ req[r].pc = "read"
    /\ \/ Stored(req[r].id) /\ req' = [req EXCEPT ![r].pc = "update"]
       \/ ~Stored(req[r].id) /\ Over(r)
    /\ UNCHANGED <<now, post, faults>>

\* UpdatePost reads the post, panics when there is none, which gin answers
\* with 500, and refuses with 403 to change another's.
ReadPost(r) ==
    /\ req[r].pc = "read"
    /\ \/ Own(r) /\ req' = [req EXCEPT ![r].pc = "update"]
       \/ ~Own(r) /\ Over(r)
    /\ UNCHANGED <<now, post, faults>>

\* Mutation: the UPDATE inserts a row that is missing.
UpdateRowUpserts(r) ==
    /\ req[r].pc = "update"
    /\ \/ /\ req[r].tags # NoTags
          /\ post' = [post EXCEPT ![req[r].id] =
                        [pc |-> "stored", owner |-> req[r].by,
                         tags |-> req[r].tags, at |-> @.at]]
       \/ req[r].tags = NoTags /\ UNCHANGED post
    /\ Over(r)
    /\ UNCHANGED <<now, faults>>

\* PostgresStore.UpdatePost, WHERE id and user_id are those of the row that
\* was read.  No row affected and a NULL for the tags are answered 500.
UpdateRow(r) ==
    /\ req[r].pc = "update"
    /\ \/ Writable(r) /\ Write(r)
       \/ ~Writable(r) /\ UNCHANGED post
    /\ Over(r)
    /\ UNCHANGED <<now, faults>>

\* PostgresStore.DeletePost, WHERE id and user_id are those of the request.
\* No row affected is answered 404.
DeleteRow(r) ==
    /\ req[r].pc = "delete"
    /\ \/ Own(r) /\ Remove(r)
       \/ ~Own(r) /\ UNCHANGED post
    /\ Over(r)
    /\ UNCHANGED <<now, faults>>

Fault == faults < MaxFaults /\ faults' = faults + 1

\* A statement returns an error, after or without taking effect.
CreateFails(p) ==
    /\ Fault
    /\ post[p].pc = "insert"
    /\ \/ post' = [post EXCEPT ![p] = Failed]
       \/ post[p].tags # NoTags /\ post' = [post EXCEPT ![p].pc = "stored"]
    /\ UNCHANGED <<now, req>>

StatementFails(r) ==
    /\ Fault
    /\ req[r].pc # "idle"
    /\ Over(r)
    /\ \/ UNCHANGED post
       \/ req[r].pc = "update" /\ Writable(r) /\ Write(r)
       \/ req[r].pc = "delete" /\ Own(r) /\ Remove(r)
    /\ UNCHANGED now

\* The service stops wherever its handlers are, and starts again.
Restart ==
    /\ Fault
    /\ req' = [r \in Requests |-> NoRequest]
    /\ post' = [p \in Ids |-> IF post[p].pc = "insert" THEN Failed ELSE post[p]]
    /\ UNCHANGED now

-----------------------------------------------------------------------------
(* The reader: GetAllPosts, GetPostsByUser, GetPostsByTag. *)

OpenList(l) ==
    /\ list.pc = "idle"
    /\ list' = [NoList EXCEPT !.pc = "count", !.of = l]
    /\ seen' = {} /\ again' = 0
    /\ stable' = Listed(l) /\ moves' = [in |-> 0, out |-> 0]
    /\ UNCHANGED <<now, post, req, faults>>

\* Mutation: the COUNT has no WHERE.
CountPostsOfAll ==
    /\ list.pc = "count"
    /\ list' = [list EXCEPT !.pc = "select", !.total = Cardinality(Listed(All))]
    /\ UNCHANGED <<now, post, req, seen, again, stable, moves, faults>>

CountPosts ==
    /\ list.pc = "count"
    /\ list' = [list EXCEPT !.pc = "select", !.total = Cardinality(Listed(list.of))]
    /\ UNCHANGED <<now, post, req, seen, again, stable, moves, faults>>

\* A page that is not full is the last one.
SelectPage ==
    /\ list.pc = "select"
    /\ LET page == Page(list.of, list.page)
           last == Cardinality(page) < PageSize
       IN  /\ list' = [list EXCEPT !.pc = IF last THEN "read" ELSE "count",
                                   !.page = IF last THEN @ ELSE @ + 1]
           /\ seen' = seen \cup page
           /\ again' = again + Cardinality(page \cap seen)
    /\ UNCHANGED <<now, post, req, stable, moves, faults>>

\* One of the two statements fails: the page is asked for again.
PageFails ==
    /\ Fault
    /\ list.pc = "select"
    /\ list' = [list EXCEPT !.pc = "count"]
    /\ UNCHANGED <<now, post, req, seen, again, stable, moves>>

CloseList ==
    /\ list.pc = "read"
    /\ list' = NoList
    /\ seen' = {} /\ again' = 0 /\ stable' = {} /\ moves' = [in |-> 0, out |-> 0]
    /\ UNCHANGED <<now, post, req, faults>>

ReaderStep ==
    \/ \E l \in Lists : OpenList(l)
    \/ CountPosts \/ SelectPage \/ PageFails \/ CloseList

\* The history variables follow what a step of a writer does to the list.
Observe ==
    LET before == Listed(list.of)
        after == Listed(list.of)'
    IN  IF list.pc \in {"count", "select"}
        THEN /\ stable' = stable \cap after
             /\ moves' = [in |-> moves.in + Cardinality(after \ before),
                          out |-> moves.out + Cardinality(before \ after)]
             /\ moves'.in + moves'.out <= MaxMoves
        ELSE UNCHANGED <<stable, moves>>

WriterStep ==
    \/ \E p \in Ids : \/ InsertPost(p) \/ CreateFails(p)
                      \/ \E u \in Users, tags \in Bodies : BeginCreate(p, u, tags)
    \/ \E r \in Requests :
          \/ ReadPost(r) \/ UpdateRow(r) \/ DeleteRow(r) \/ StatementFails(r)
          \/ \E p \in Ids, u \in Users :
                \/ Begin(r, "delete", p, u, NoTags)
                \/ \E tags \in Bodies : Begin(r, "read", p, u, tags)
    \/ Restart

Next == ReaderStep \/ (WriterStep /\ UNCHANGED reader /\ Observe)

Spec == Init /\ [][Next]_vars

-----------------------------------------------------------------------------
(* Properties *)

\* Every variable has its type.
TypeOK ==
    /\ now \in Nat
    /\ post \in [Ids -> [pc : {"none", "insert", "stored", "gone", "failed"},
                         owner : Users \cup {Nobody}, tags : Bodies, at : Nat]]
    /\ req \in [Requests -> [pc : {"idle", "read", "update", "delete"},
                             id : Ids \cup {Nobody}, by : Users \cup {Nobody},
                             tags : Bodies]]
    /\ list \in [pc : {"idle", "count", "select", "read"}, of : Lists,
                 page : Nat \ {0}, total : Nat]
    /\ seen \subseteq Ids /\ stable \subseteq Ids /\ again \in Nat
    /\ moves \in [in : Nat, out : Nat]
    /\ faults \in 0..MaxFaults

\* A reader of all the pages of a list misses, of the posts that were in it
\* all the time, at most one for every post that left it meanwhile, whether
\* it was deleted or lost its tag: with nothing leaving it misses none.
FewMissed ==
    list.pc = "read" => Cardinality(stable \ seen) <= moves.out

\* And it gets a post twice at most once for every post that entered the
\* list, also one that was stored late and entered it in the middle.
FewRepeated ==
    list.pc = "read" => again <= moves.in

\* The total that the last page carries is the number of different posts in
\* the pages, give or take those that entered and left.
TotalAgrees ==
    list.pc = "read" =>
        LET got == Cardinality(seen)
        IN  /\ list.total <= got + moves.in + moves.out
            /\ got <= list.total + moves.in + moves.out

\* However updates, deletions and restarts overlap, a post keeps its author
\* and a deleted one does not come back.
Abstract == INSTANCE Ownership WITH
    Posts <- Ids,
    owner <- [p \in Ids |-> IF Stored(p) THEN post[p].owner ELSE Nobody],
    gone <- {p \in Ids : post[p].pc = "gone"}

IsOwnership == Abstract!Spec

\* Only a request of its author changes or deletes a post.
OnlyAuthorsWrite ==
    [][\A p \in Ids : Stored(p) /\ post'[p] # post[p] =>
          \E r \in Requests :
              req[r].id = p /\ req[r].by = post[p].owner /\ Over(r)]_vars
=============================================================================
