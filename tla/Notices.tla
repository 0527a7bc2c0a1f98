------------------------------ MODULE Notices ------------------------------
(***************************************************************************)
(* What the author of a post may rely on: the mails about comments are a   *)
(* lossy stream.  A comment is announced once, after it was stored; a mail *)
(* is about an announced comment, and mails keep the order of the          *)
(* announcements, so that none is sent twice.  Any of them may be missing. *)
(***************************************************************************)
EXTENDS Naturals, Sequences

CONSTANT Comments

VARIABLES
    written,      \* the comments that were ever stored
    announced,    \* the announcements, in order
    last,         \* the announcement that the last mail was about
    mailed        \* the comments that mails were sent about, in order

notices == <<written, announced, last, mailed>>

Init ==
    /\ written = {}
    /\ announced = <<>>
    /\ last = 0
    /\ mailed = <<>>

Write(c) ==
    /\ c \notin written
    /\ written' = written \cup {c}
    /\ UNCHANGED <<announced, last, mailed>>

Announce(c) ==
    /\ c \in written
    /\ \A i \in DOMAIN announced : announced[i] # c
    /\ announced' = Append(announced, c)
    /\ UNCHANGED <<written, last, mailed>>

\* Announcements between last and i never get their mail.
Mail(i) ==
    /\ last < i
    /\ last' = i
    /\ mailed' = Append(mailed, announced[i])
    /\ UNCHANGED <<written, announced>>

Next ==
    \/ \E c \in Comments : Write(c) \/ Announce(c)
    \/ \E i \in DOMAIN announced : Mail(i)

Spec == Init /\ [][Next]_notices
=============================================================================
