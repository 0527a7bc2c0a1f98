--------------------------- MODULE AtomicAccounts ---------------------------
(***************************************************************************)
(* What a client of the auth service may rely on: a sign-up, a login or a  *)
(* lookup does what it does in one step between its request and its        *)
(* answer, as if no other was under way.  An account is there from one     *)
(* step on, with its id and password; an answer tells of the accounts at   *)
(* the step that gave it; a call that is lost or fails did all of it or    *)
(* nothing, and does nothing later.                                        *)
(***************************************************************************)
CONSTANTS SignUps, Reads, Emails, Passwords, Nobody

VARIABLES
    account,    \* the account of each email
    signup,     \* the calls to sign up
    read        \* the calls to log in or to look an account up

calls == <<account, signup, read>>

NoAccount == [id |-> Nobody, password |-> Nobody]
NoSignUp == [pc |-> "none", email |-> Nobody, password |-> Nobody]
NoRead == [pc |-> "none", email |-> Nobody, password |-> Nobody, sub |-> Nobody]

Init ==
    /\ account = [e \in Emails |-> NoAccount]
    /\ signup = [i \in SignUps |-> NoSignUp]
    /\ read = [r \in Reads |-> NoRead]

AskSignUp(i, e, p) ==
    /\ signup[i].pc = "none"
    /\ signup' = [signup EXCEPT ![i] = [pc |-> "asked", email |-> e, password |-> p]]
    /\ UNCHANGED <<account, read>>

AskLogin(r, e, p) ==
    /\ read[r].pc = "none"
    /\ read' = [read EXCEPT ![r] = [pc |-> "login", email |-> e, password |-> p,
                                    sub |-> Nobody]]
    /\ UNCHANGED <<account, signup>>

AskLookup(r, i) ==
    /\ read[r].pc = "none"
    /\ read' = [read EXCEPT ![r] = [NoRead EXCEPT !.pc = "lookup", !.sub = i]]
    /\ UNCHANGED <<account, signup>>

\* Nothing is kept of a call that ends before it did anything, but how it ended.
Ended(how) == [NoSignUp EXCEPT !.pc = how]

TellSignUp(i, answer) == signup' = [signup EXCEPT ![i].pc = answer]

\* The account is made: 201, or an error that came after it.
Create(i) ==
    LET e == signup[i].email
    IN  /\ signup[i].pc = "asked" /\ account[e] = NoAccount
        /\ account' = [account EXCEPT ![e] = [id |-> i, password |-> signup[i].password]]
        /\ \E answer \in {"created", "failed"} : TellSignUp(i, answer)
        /\ UNCHANGED read

\* Nothing is done: 409 if there is an account, or an error.
Refuse(i) ==
    /\ signup[i].pc = "asked"
    /\ \/ account[signup[i].email] # NoAccount /\ TellSignUp(i, "conflict")
       \/ TellSignUp(i, "failed")
       \/ signup' = [signup EXCEPT ![i] = Ended("unhashed")]
    /\ UNCHANGED <<account, read>>

TellRead(r, answer, i) == read' = [read EXCEPT ![r].pc = answer, ![r].sub = i]

\* A token for the account, if the password is its own.
Login(r) ==
    /\ read[r].pc = "login"
    /\ LET a == account[read[r].email]
       IN  \/ /\ a # NoAccount /\ a.password = read[r].password
              /\ TellRead(r, "ok", a.id)
           \/ /\ a # NoAccount => a.password # read[r].password
              /\ TellRead(r, "refused", read[r].sub)
    /\ UNCHANGED <<account, signup>>

Lookup(r) ==
    /\ read[r].pc = "lookup"
    /\ \E answer \in {"found", "refused"} :
          /\ answer = "found" <=> \E e \in Emails : account[e].id = read[r].sub
          /\ TellRead(r, answer, read[r].sub)
    /\ UNCHANGED <<account, signup>>

FailRead(r) ==
    /\ read[r].pc \in {"login", "lookup"}
    /\ TellRead(r, "failed", read[r].sub)
    /\ UNCHANGED <<account, signup>>

\* The calls that are out get no answer.
Lose ==
    /\ signup' = [i \in SignUps |-> IF signup[i].pc = "asked"
                                    THEN Ended("lost") ELSE signup[i]]
    /\ read' = [r \in Reads |-> IF read[r].pc \in {"login", "lookup"}
                                THEN [NoRead EXCEPT !.pc = "lost"] ELSE read[r]]
    /\ UNCHANGED account

\* A handler's work between request and answer.
Unseen == UNCHANGED calls

Next ==
    \/ Unseen
    \/ \E i \in SignUps : \/ Create(i) \/ Refuse(i)
                          \/ \E e \in Emails, p \in Passwords : AskSignUp(i, e, p)
    \/ \E r \in Reads : \/ Login(r) \/ Lookup(r) \/ FailRead(r)
                        \/ \E e \in Emails, p \in Passwords : AskLogin(r, e, p)
                        \/ \E i \in SignUps : AskLookup(r, i)
    \/ Lose

Spec == Init /\ [][Next]_calls
=============================================================================
