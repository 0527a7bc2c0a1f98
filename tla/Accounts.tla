------------------------------ MODULE Accounts ------------------------------
(***************************************************************************)
(* The accounts of the auth service: SignUp looks for a user with the      *)
(* email and inserts one, two statements with a bcrypt hash between them,  *)
(* Login reads the user and compares the password, GetUserByID reads one   *)
(* by id.  Handlers interleave statement by statement; what keeps an email *)
(* to one account is the UNIQUE of the table alone, because SignUp ignores *)
(* the error of its lookup.                                                *)
(***************************************************************************)
EXTENDS Naturals

CONSTANTS
    SignUps,     \* the requests to sign up, by the id uuid.New gives to each
    Reads,       \* the requests to log in or to look a user up
    Emails, Passwords,
    LongEmails,  \* the emails that do not fit the column, VARCHAR(255)
    Nobody,      \* no user
    MaxFaults    \* bound: faults in one behaviour

ASSUME AccountsAssumption ==
    /\ SignUps \cap Reads = {} /\ Nobody \notin SignUps \cup Emails \cup Passwords
    /\ LongEmails \subseteq Emails
    /\ MaxFaults \in Nat

VARIABLES
    users,    \* the table users: the id of the row with each email
    signup,   \* SignUp, for each id; the row of the id has its columns
    read,     \* Login and GetUserByID
    faults

vars == <<users, signup, read, faults>>

NoSignUp == [pc |-> "none", email |-> Nobody, password |-> Nobody]

\* sub: the user a token names, or the id that is looked up.
\* known: the account was there, with this password or id, at the start.
\* hit: the query of this request failed.
NoRead == [pc |-> "none", email |-> Nobody, password |-> Nobody, sub |-> Nobody,
           known |-> FALSE, hit |-> FALSE]

Init ==
    /\ users = [e \in Emails |-> Nobody]
    /\ signup = [i \in SignUps |-> NoSignUp]
    /\ read = [r \in Reads |-> NoRead]
    /\ faults = 0

\* The row with this email: its id, and its password_hash.
Has(e) == users[e] # Nobody
PasswordOf(e) == signup[users[e]].password
Stored(i) == \E e \in Emails : users[e] = i

\* Of a request that is cut off, or refused before its INSERT, only that is kept.
Ended(how) == [NoSignUp EXCEPT !.pc = how]

\* The table takes this row: its email fits, and is UNIQUE.
Fits(i) == signup[i].email \notin LongEmails
Takes(i) == Fits(i) /\ ~Has(signup[i].email)

-----------------------------------------------------------------------------
(* SignUp *)

BeginSignUp(i, e, p) ==
    /\ signup[i].pc = "none"
    /\ signup' = [signup EXCEPT ![i] = [pc |-> "find", email |-> e, password |-> p]]
    /\ UNCHANGED <<users, read, faults>>

\* GetUserByEmail: a user that is found is answered with 409; no rows is an
\* error, and an error is no user.
FindUser(i) ==
    /\ signup[i].pc = "find"
    /\ signup' = [signup EXCEPT ![i].pc =
                    IF Has(signup[i].email) THEN "conflict" ELSE "insert"]
    /\ UNCHANGED <<users, read, faults>>

\* bcrypt refuses a password of more than 72 bytes: 500.
HashFails(i) ==
    /\ signup[i].pc = "insert"
    /\ signup' = [signup EXCEPT ![i] = Ended("unhashed")]
    /\ UNCHANGED <<users, read, faults>>

\* Mutation: INSERT ... ON CONFLICT DO UPDATE.
CreateUserUpserts(i) ==
    /\ signup[i].pc = "insert" /\ Fits(i)
    /\ users' = [users EXCEPT ![signup[i].email] = i]
    /\ signup' = [signup EXCEPT ![i].pc = "created"]
    /\ UNCHANGED <<read, faults>>

\* Mutation: INSERT ... ON CONFLICT DO NOTHING.
CreateUserIgnores(i) ==
    /\ signup[i].pc = "insert" /\ Fits(i)
    /\ users' = IF Has(signup[i].email) THEN users
                ELSE [users EXCEPT ![signup[i].email] = i]
    /\ signup' = [signup EXCEPT ![i].pc = "created"]
    /\ UNCHANGED <<read, faults>>

\* CreateUser: a row that the table does not take is an error, answered with
\* 500; nothing before it looks at the length of the email.
CreateUser(i) ==
    /\ signup[i].pc = "insert"
    /\ \/ /\ Takes(i)
          /\ users' = [users EXCEPT ![signup[i].email] = i]
          /\ signup' = [signup EXCEPT ![i].pc = "created"]
       \/ /\ ~Takes(i)
          /\ signup' = [signup EXCEPT ![i].pc = "failed"]
          /\ UNCHANGED users
    /\ UNCHANGED <<read, faults>>

-----------------------------------------------------------------------------
(* Login and GetUserByID *)

BeginLogin(r, e, p) ==
    /\ read[r].pc = "none"
    /\ read' = [read EXCEPT ![r] = [NoRead EXCEPT
                  !.pc = "login", !.email = e, !.password = p,
                  !.known = Has(e) /\ PasswordOf(e) = p]]
    /\ UNCHANGED <<users, signup, faults>>

BeginLookup(r, i) ==
    /\ read[r].pc = "none"
    /\ read' = [read EXCEPT ![r] = [NoRead EXCEPT
                  !.pc = "lookup", !.sub = i, !.known = Stored(i)]]
    /\ UNCHANGED <<users, signup, faults>>

\* Mutation: no user with the email is not told from a user.
LoginUnchecked(r) ==
    /\ read[r].pc = "login"
    /\ read' = [read EXCEPT ![r].pc = "ok", ![r].sub = users[read[r].email]]
    /\ UNCHANGED <<users, signup, faults>>

\* GetUserByEmail and the comparison: a token that names the user's id, or
\* 401 for no user and for another password.
Login(r) ==
    /\ read[r].pc = "login"
    /\ LET e == read[r].email
       IN  \/ /\ Has(e) /\ PasswordOf(e) = read[r].password
              /\ read' = [read EXCEPT ![r].pc = "ok", ![r].sub = users[e]]
           \/ /\ Has(e) => PasswordOf(e) # read[r].password
              /\ read' = [read EXCEPT ![r].pc = "refused"]
    /\ UNCHANGED <<users, signup, faults>>

\* GetUserByID: no rows is 404.
GetUserByID(r) ==
    /\ read[r].pc = "lookup"
    /\ read' = [read EXCEPT ![r].pc =
                  IF Stored(read[r].sub) THEN "found" ELSE "refused"]
    /\ UNCHANGED <<users, signup, faults>>

-----------------------------------------------------------------------------
(* Faults *)

Fault == faults < MaxFaults /\ faults' = faults + 1

\* The query of the lookup fails: SignUp goes on as if there was no user.
FindFails(i) ==
    /\ Fault
    /\ signup[i].pc = "find"
    /\ signup' = [signup EXCEPT ![i].pc = "insert"]
    /\ UNCHANGED <<users, read>>

\* Mutation: an INSERT that returned an error is tried again.
CreateFailsRetried(i) ==
    /\ Fault
    /\ signup[i].pc = "insert"
    /\ \/ UNCHANGED users
       \/ /\ Takes(i)
          /\ users' = [users EXCEPT ![signup[i].email] = i]
    /\ UNCHANGED <<signup, read>>

\* The INSERT returns an error, after or without taking effect: 500.
CreateFails(i) ==
    /\ Fault
    /\ signup[i].pc = "insert"
    /\ signup' = [signup EXCEPT ![i].pc = "failed"]
    /\ \/ UNCHANGED users
       \/ /\ Takes(i)
          /\ users' = [users EXCEPT ![signup[i].email] = i]
    /\ UNCHANGED read

\* The query fails: 401 for a login, 500 for a lookup.
ReadFails(r) ==
    /\ Fault
    /\ read[r].pc \in {"login", "lookup"}
    /\ read' = [read EXCEPT ![r].pc = "refused", ![r].hit = TRUE]
    /\ UNCHANGED <<users, signup>>

\* The service stops wherever its handlers are, and starts again.
Restart ==
    /\ Fault
    /\ signup' = [i \in SignUps |->
                    IF signup[i].pc \in {"find", "insert"}
                    THEN Ended("lost") ELSE signup[i]]
    /\ read' = [r \in Reads |->
                  IF read[r].pc \in {"login", "lookup"}
                  THEN [NoRead EXCEPT !.pc = "lost"] ELSE read[r]]
    /\ UNCHANGED users

HandlerStep ==
    \/ \E i \in SignUps : \/ FindUser(i) \/ HashFails(i) \/ CreateUser(i)
                          \/ FindFails(i) \/ CreateFails(i)
    \/ \E r \in Reads : Login(r) \/ GetUserByID(r) \/ ReadFails(r)
    \/ Restart

Next ==
    \/ \E i \in SignUps, e \in Emails, p \in Passwords : BeginSignUp(i, e, p)
    \/ \E r \in Reads : \/ \E e \in Emails, p \in Passwords : BeginLogin(r, e, p)
                        \/ \E i \in SignUps : BeginLookup(r, i)
    \/ HandlerStep

Spec == Init /\ [][Next]_vars

-----------------------------------------------------------------------------
(* Properties *)

\* Every variable has its type; a request in progress has its fields.
TypeOK ==
    /\ users \in [Emails -> SignUps \cup {Nobody}]
    /\ signup \in [SignUps -> [pc : {"none", "find", "insert", "created",
                                     "conflict", "unhashed", "failed", "lost"},
                               email : Emails \cup {Nobody},
                               password : Passwords \cup {Nobody}]]
    /\ read \in [Reads -> [pc : {"none", "login", "lookup", "ok", "found",
                                  "refused", "lost"},
                           email : Emails \cup {Nobody},
                           password : Passwords \cup {Nobody},
                           sub : SignUps \cup {Nobody},
                           known : BOOLEAN, hit : BOOLEAN]]
    /\ faults \in 0..MaxFaults

\* An account is for good: no sign-up that comes later, overlaps or is tried
\* again takes an email over or changes the password behind it.
AccountsKept ==
    [][\A e \in Emails : Has(e) =>
          users'[e] = users[e] /\ signup'[users[e]].password = PasswordOf(e)]_vars

\* What a client that signs up may conclude from its answer (auth
\* handlers.go:60 to 78): 201, the account of the email is its own; 409, it is
\* another's.  "Failed to process password", a 500, says that nothing was done.
\* "Failed to create user", the other 500, leaves it open, but for this: if no
\* fault has occurred, the account is that of a sign-up that was faster, or the
\* email is too long for the table and has no account, ever.
AnswersTell ==
    \A i \in SignUps :
        LET e == signup[i].email
        IN  /\ signup[i].pc = "created" => users[e] = i
            /\ signup[i].pc = "conflict" => users[e] \notin {Nobody, i}
            /\ signup[i].pc = "failed" /\ faults = 0 =>
                   users[e] \notin {Nobody, i} \/ ~Fits(i)
            /\ \A f \in Emails : users[f] = i =>
                   f = e /\ Fits(i) /\ signup[i].pc \in {"created", "failed"}

\* A login or a lookup that begins when the account is there sees it, unless
\* its own query fails; a token names the account of the email it was asked
\* for with, and is not issued for another password.
ReadsSeeWrites ==
    \A r \in Reads :
        LET q == read[r]
        IN  /\ q.pc = "refused" /\ q.known => q.hit
            /\ q.pc = "ok" => /\ users[q.email] = q.sub /\ Has(q.email)
                              /\ PasswordOf(q.email) = q.password
            /\ q.pc = "found" => Stored(q.sub)

\* However the statements of the handlers fall between each other, clients see
\* every call done in one step (auth handlers.go:60 to 78): the lookup of a
\* sign-up and its INSERT, seconds of bcrypt apart, act as one, and an INSERT
\* that is answered with 500 takes effect by then or never.
Abstract == INSTANCE AtomicAccounts WITH
    account <- [e \in Emails |-> [id |-> users[e], password |->
                  IF Has(e) THEN PasswordOf(e) ELSE Nobody]],
    signup <- [i \in SignUps |-> [signup[i] EXCEPT !.pc =
                  IF @ \in {"find", "insert"} THEN "asked" ELSE @]],
    read <- [r \in Reads |->
                  [pc |-> IF read[r].hit THEN "failed" ELSE read[r].pc,
                   email |-> read[r].email, password |-> read[r].password,
                   sub |-> read[r].sub]]

IsAtomic == Abstract!Spec
=============================================================================
