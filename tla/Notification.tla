---------------------------- MODULE Notification ----------------------------
(***************************************************************************)
(* The notification service, behind the queue that Comments publishes to.  *)
(* It consumes with auto-ack: the broker forgets a message as soon as it   *)
(* has sent it, the client buffers what arrives, and one goroutine handles *)
(* the messages one after the other: it asks the auth service for the      *)
(* author's email and sends a mail.  A message whose handling fails is     *)
(* logged.  When the connection is lost the goroutine ends, and the        *)
(* process waits on its channel forever without it.                        *)
(***************************************************************************)
EXTENDS Comments, SequencesExt

VARIABLES
    worker,     \* "down", consuming ("up") or without a connection ("deaf")
    buffer,     \* the deliveries that wait in the client
    current,    \* the comment being handled, and the step it is at
    mails,      \* history: the comments that mails were sent about
    errored     \* history: the comments whose handling returned an error

consumer == <<worker, buffer, current, mails, errored>>
nvars == <<vars, consumer>>

Idle == [pc |-> "idle", comment |-> Nobody]

NInit ==
    /\ Init
    /\ worker = "down"
    /\ buffer = <<>>
    /\ current = Idle
    /\ mails = <<>>
    /\ errored = {}

\* main: connect, declare exchange and queue, bind, consume.
StartWorker ==
    /\ worker = "down"
    /\ worker' = "up"
    /\ bound' = TRUE
    /\ UNCHANGED <<posts, service, channel, wire, queue, published, since, faults>>
    /\ UNCHANGED <<buffer, current, mails, errored>>

\* The broker sends the next message, and with auto-ack forgets it.
Deliver ==
    /\ worker = "up" /\ queue # <<>>
    /\ queue' = Tail(queue)
    /\ buffer' = Append(buffer, Head(queue))
    /\ UNCHANGED <<posts, service, channel, wire, bound, published, since, faults>>
    /\ UNCHANGED <<worker, current, mails, errored>>

\* Mutation: a delivery is taken while another is being handled.
TakeAnyTime ==
    /\ buffer # <<>>
    /\ current' = [pc |-> "lookup", comment |-> Head(buffer)]
    /\ buffer' = Tail(buffer)
    /\ UNCHANGED <<vars, worker, mails, errored>>

\* The goroutine takes the next delivery.
Take ==
    /\ current.pc = "idle" /\ buffer # <<>>
    /\ current' = [pc |-> "lookup", comment |-> Head(buffer)]
    /\ buffer' = Tail(buffer)
    /\ UNCHANGED <<vars, worker, mails, errored>>

\* handleMessage returned an error: it is logged, and that is all.
GiveUp ==
    /\ errored' = errored \cup {current.comment}
    /\ current' = Idle

\* Mutation: an author that auth does not know is asked for again.
GetUserEmailAgain ==
    /\ current.pc = "lookup"
    /\ create[current.comment].author \in Users
    /\ current' = [current EXCEPT !.pc = "send"]
    /\ UNCHANGED <<vars, worker, buffer, mails, errored>>

\* Mutation: the status of auth's answer is not looked at.
GetUserEmailUnchecked ==
    /\ current.pc = "lookup"
    /\ current' = [current EXCEPT !.pc = "send"]
    /\ UNCHANGED <<vars, worker, buffer, mails, errored>>

\* getUserEmail: auth answers 404 for an author it does not know.
GetUserEmail ==
    /\ current.pc = "lookup"
    /\ \/ /\ create[current.comment].author \in Users
          /\ current' = [current EXCEPT !.pc = "send"]
          /\ UNCHANGED errored
       \/ /\ create[current.comment].author = Nobody
          /\ GiveUp
    /\ UNCHANGED <<vars, worker, buffer, mails>>

\* Mutation: the mail is recorded under its addressee.
SendToAuthor ==
    /\ current.pc = "send"
    /\ mails' = Append(mails, create[current.comment].author)
    /\ current' = Idle
    /\ UNCHANGED <<vars, worker, buffer, errored>>

SendNotification ==
    /\ current.pc = "send"
    /\ mails' = Append(mails, current.comment)
    /\ current' = Idle
    /\ UNCHANGED <<vars, worker, buffer, errored>>

WorkerStep == Deliver \/ Take \/ GetUserEmail \/ SendNotification

-----------------------------------------------------------------------------
(* Faults. *)

\* Mutation: a message whose handling failed goes back to the buffer.
HandlingFailsRequeues ==
    /\ Fault
    /\ current.pc # "idle"
    /\ errored' = errored \cup {current.comment}
    /\ current' = Idle
    /\ buffer' = Append(buffer, current.comment)
    /\ \/ UNCHANGED mails
       \/ current.pc = "send" /\ mails' = Append(mails, current.comment)
    /\ UNCHANGED <<posts, service, channel, wire, bound, queue, published>>
    /\ UNCHANGED worker

\* auth or the mail server fails; a mail may have been sent all the same.
HandlingFails ==
    /\ Fault
    /\ current.pc # "idle"
    /\ GiveUp
    /\ \/ UNCHANGED mails
       \/ current.pc = "send" /\ mails' = Append(mails, current.comment)
    /\ UNCHANGED <<posts, service, channel, wire, bound, queue, published>>
    /\ UNCHANGED <<worker, buffer>>

\* The process ends: the deliveries it holds are gone.
StopWorker ==
    /\ Fault
    /\ worker # "down"
    /\ worker' = "down"
    /\ buffer' = <<>>
    /\ current' = Idle
    /\ UNCHANGED <<posts, service, channel, wire, bound, queue, published>>
    /\ UNCHANGED <<mails, errored>>

\* The client closes the deliveries: the goroutine still gets some of them.
Deafen ==
    /\ worker' = IF worker = "up" THEN "deaf" ELSE worker
    /\ buffer' \in Prefixes(buffer)
    /\ UNCHANGED <<current, mails, errored>>

LoseConnection ==
    /\ Fault
    /\ worker = "up"
    /\ Deafen
    /\ UNCHANGED <<posts, service, channel, wire, bound, queue, published>>

NNext ==
    \/ ServiceNext /\ UNCHANGED consumer
    \/ RestartBroker /\ Deafen
    \/ StartWorker \/ WorkerStep
    \/ HandlingFails \/ StopWorker \/ LoseConnection

NSpec == NInit /\ [][NNext]_nvars

\* The handlers of the comment service run, the broker routes and delivers, and
\* the goroutine handles what it gets; nobody starts a service.
NFairness ==
    /\ \A c \in Comments : WF_nvars(CreateStep(c) /\ UNCHANGED consumer)
    /\ WF_nvars(Route /\ UNCHANGED consumer) /\ WF_nvars(Deliver)
    /\ WF_nvars(Take \/ GetUserEmail \/ SendNotification)

FairNSpec == NSpec /\ NFairness

-----------------------------------------------------------------------------
(* Properties *)

\* Every variable has its type.
NTypeOK ==
    /\ TypeOK
    /\ worker \in {"down", "up", "deaf"}
    /\ buffer \in Seq(Comments)
    /\ current \in [pc : {"idle", "lookup", "send"},
                    comment : Comments \cup {Nobody}]
    /\ mails \in Seq(Comments)
    /\ errored \subseteq Comments

Pending(c) == c \in ToSet(queue) \cup ToSet(buffer) \cup {current.comment}
Mailed(c) == c \in ToSet(mails)

\* Mails are a lossy, ordered stream of the announced comments: the handlers
\* that publish concurrently, the queue, the buffer and every restart between
\* them neither swap two mails nor send one twice.
PositionOf(c) == CHOOSE i \in DOMAIN published : published[i] = c

Abstract == INSTANCE Notices WITH
    written <- {c \in Comments : row[c] # "never"},
    announced <- published,
    last <- IF mails = <<>> THEN 0 ELSE PositionOf(Last(mails)),
    mailed <- mails

IsLossyStream == Abstract!Spec

\* Who gets a mail is the author of the post, whatever came of the post since
\* it was looked up, and the mail is about a comment that was stored and whose
\* creation was answered 201, is about to be, or was cut off on the way there:
\* no notice of a comment that was answered with 500, nor to someone auth does
\* not know.
MailsTrue ==
    \A c \in ToSet(mails) :
        /\ create[c].pc \in Handed /\ row[c] # "never"
        /\ create[c].author \in Users
        /\ owner[create[c].post] \in {Nobody, create[c].author}

\* Nothing is lost without a fault: a comment that was routed to the queue
\* after the last one is on its way, was mailed, or its post was missing.
NothingLost ==
    \A c \in since :
        Pending(c) \/ Mailed(c) \/ create[c].author = Nobody

\* A message that cannot be handled does not hold up those behind it: while
\* the worker is connected and no fault happens, a comment whose event is on its
\* way gets its mail, or is one whose author is not known.
NoticeArrives ==
    \A c \in Comments :
        (OnWire(c) \/ c \in since) /\ worker = "up"
            ~> \/ Mailed(c) \/ create[c].author = Nobody
               \/ worker # "up"
               \/ ~OnWire(c) /\ c \notin since

\* The notification service's README (notification/README.md:13): robust error
\* handling with message requeuing.  A message to a known author whose handling
\* failed is on the queue again, or has been handled since.
FailedIsRequeued ==
    \A c \in errored :
        create[c].author \in Users => Pending(c) \/ Mailed(c)
=============================================================================
