--------------------------- MODULE GatewayProofs ----------------------------
(***************************************************************************)
(* Accounts, the limiter and the gateway in front of both, for every       *)
(* number of requests, emails, clients and addresses, any number of faults *)
(* and every burst and rate.  First each of the two by itself: an account  *)
(* is for good, answers tell the truth, what is read is what was written;  *)
(* the rate is kept.  Then the composition, whose steps are steps of       *)
(* Accounts and of Limiter: what is proved of the two holds for it, and it *)
(* adds what they say about each other.                                    *)
(***************************************************************************)
EXTENDS Gateway, TLAPS

-----------------------------------------------------------------------------
(* Accounts. *)

SignUpTypes == [pc : {"none", "find", "insert", "created", "conflict",
                      "unhashed", "failed", "lost"},
                email : Emails \cup {Nobody}, password : Passwords \cup {Nobody}]
ReadTypes == [pc : {"none", "login", "lookup", "ok", "found", "refused", "lost"},
              email : Emails \cup {Nobody}, password : Passwords \cup {Nobody},
              sub : SignUps \cup {Nobody}, known : BOOLEAN, hit : BOOLEAN]

\* The states of a sign-up without columns.
Bare == {"none", "unhashed", "lost"}

\* A request that has begun has its email; an id to look up is one; a query
\* that failed has ended its request.
FieldsOK ==
    /\ \A i \in SignUps : signup[i].pc \notin Bare => signup[i].email \in Emails
    /\ \A r \in Reads : /\ read[r].pc \in {"login", "ok"} => read[r].email \in Emails
                        /\ read[r].pc \in {"lookup", "found"} => read[r].sub \in SignUps
                        /\ read[r].hit => read[r].pc = "refused"

\* What a read knew when it began is still there when it reads.
KnownStays ==
    \A r \in Reads :
        /\ read[r].pc = "login" /\ read[r].known
              => Has(read[r].email) /\ PasswordOf(read[r].email) = read[r].password
        /\ read[r].pc = "lookup" /\ read[r].known => Stored(read[r].sub)

IInv == TypeOK /\ FieldsOK /\ AnswersTell /\ KnownStays /\ ReadsSeeWrites

\* A row belongs to the sign-up that inserted it, which is over.
LEMMA Owner ==
    ASSUME IInv, NEW e \in Emails, Has(e)
    PROVE  /\ users[e] \in SignUps
           /\ signup[users[e]].email = e
           /\ signup[users[e]].pc \in {"created", "failed"}
<1>1. users[e] \in SignUps
  BY DEF IInv, TypeOK, Has
<1> QED
  BY <1>1 DEF IInv, AnswersTell

LEMMA InitInv == Init => IInv
<1> SUFFICES ASSUME Init PROVE IInv
  OBVIOUS
<1>1. TypeOK
  BY AccountsAssumption DEF Init, TypeOK, NoSignUp, NoRead
<1>2. FieldsOK /\ KnownStays /\ ReadsSeeWrites
  BY DEF Init, FieldsOK, KnownStays, ReadsSeeWrites, NoSignUp, NoRead, Bare
<1>3. AnswersTell
  BY AccountsAssumption DEF Init, AnswersTell, NoSignUp
<1> QED
  BY <1>1, <1>2, <1>3 DEF IInv

-----------------------------------------------------------------------------
\* What a step does to a sign-up: it begins, or moves on without a row, or its
\* INSERT is answered with or without an error, with or without a row.
Begins(i) ==
    /\ signup[i].pc = "none" /\ signup'[i].pc = "find"
    /\ signup'[i].email \in Emails /\ signup'[i].password \in Passwords
    /\ UNCHANGED users

Columns(i) ==
    signup'[i].email = signup[i].email /\ signup'[i].password = signup[i].password

Moves(i) ==
    /\ Columns(i) /\ UNCHANGED users
    /\ signup[i].pc = "find" /\ signup'[i].pc \in {"conflict", "insert"}
    /\ signup'[i].pc = "conflict" => Has(signup[i].email)

Unhashed(i) ==
    /\ UNCHANGED users
    /\ signup[i].pc = "insert" /\ signup'[i] = Ended("unhashed")

Refused(i) ==
    /\ Columns(i) /\ UNCHANGED users
    /\ signup[i].pc = "insert" /\ signup'[i].pc = "failed"
    /\ ~Takes(i) \/ faults' > 0

Inserts(i) ==
    /\ Columns(i)
    /\ Takes(i)
    /\ users' = [users EXCEPT ![signup[i].email] = i]
    /\ signup[i].pc = "insert"
    /\ signup'[i].pc = "created" \/ (signup'[i].pc = "failed" /\ faults' > 0)

SignUpStep(i) ==
    /\ signup' = [signup EXCEPT ![i] = signup'[i]] /\ signup'[i] \in SignUpTypes
    /\ Begins(i) \/ Moves(i) \/ Unhashed(i) \/ Refused(i) \/ Inserts(i)
    /\ UNCHANGED read

\* What a step does to a read.
ReadStep(r) ==
    LET q == read[r]
        n == read'[r]
    IN  /\ read' = [read EXCEPT ![r] = n] /\ n \in ReadTypes
        /\ \/ /\ q.pc = "none" /\ n.pc = "login" /\ n.email \in Emails
              /\ n.known => Has(n.email) /\ PasswordOf(n.email) = n.password
           \/ /\ q.pc = "none" /\ n.pc = "lookup" /\ n.sub \in SignUps
              /\ n.known => Stored(n.sub)
           \/ /\ q.pc = "login" /\ n.pc = "ok" /\ n.email = q.email
              /\ Has(q.email) /\ n.sub = users[q.email]
              /\ n.password = q.password /\ PasswordOf(q.email) = q.password
           \/ /\ q.pc = "lookup" /\ n.pc = "found" /\ n.sub = q.sub
              /\ Stored(q.sub)
           \/ q.pc \in {"login", "lookup"} /\ n.pc = "refused" /\ (n.known => n.hit)
        /\ n.hit => n.pc = "refused"
        /\ UNCHANGED <<users, signup>>

Effect ==
    /\ faults' \in 0..MaxFaults /\ faults' >= faults
    /\ \/ \E i \in SignUps : SignUpStep(i)
       \/ \E r \in Reads : ReadStep(r)
       \/ Restart

\* Every step is one of these, or changes nothing.
LEMMA StepEffect ==
    ASSUME IInv, Next
    PROVE  Effect
<1> USE DEF IInv, TypeOK
<1>1. ASSUME NEW i \in SignUps, NEW e \in Emails, NEW p \in Passwords,
             BeginSignUp(i, e, p)
      PROVE  Effect
  <2>1. SignUpStep(i)
    BY <1>1 DEF BeginSignUp, SignUpStep, SignUpTypes, Begins
  <2> QED
    BY <1>1, <2>1 DEF BeginSignUp, Effect
<1>2. ASSUME NEW i \in SignUps, FindUser(i) PROVE Effect
  <2>1. signup'[i] = [signup[i] EXCEPT !.pc =
                        IF Has(signup[i].email) THEN "conflict" ELSE "insert"]
    BY <1>2 DEF FindUser
  <2>2. signup'[i] \in SignUpTypes /\ Moves(i)
    BY <1>2, <2>1 DEF FindUser, SignUpTypes, Moves, Columns
  <2>3. SignUpStep(i)
    BY <1>2, <2>2 DEF FindUser, SignUpStep
  <2> QED
    BY <1>2, <2>3 DEF FindUser, Effect
<1>3. ASSUME NEW i \in SignUps, HashFails(i) PROVE Effect
  <2>1. signup'[i] = Ended("unhashed")
    BY <1>3 DEF HashFails
  <2>2. SignUpStep(i)
    BY <1>3, <2>1 DEF HashFails, SignUpStep, SignUpTypes, Unhashed, Ended, NoSignUp
  <2> QED
    BY <1>3, <2>2 DEF HashFails, Effect
<1>4. ASSUME NEW i \in SignUps, CreateUser(i) PROVE Effect
  <2>1. CASE Takes(i)
    <3>1. signup'[i] = [signup[i] EXCEPT !.pc = "created"]
      BY <1>4, <2>1 DEF CreateUser
    <3>2. SignUpStep(i)
      BY <1>4, <2>1, <3>1 DEF CreateUser, SignUpStep, SignUpTypes, Inserts, Columns
    <3> QED
      BY <1>4, <3>2 DEF CreateUser, Effect
  <2>2. CASE ~Takes(i)
    <3>1. signup'[i] = [signup[i] EXCEPT !.pc = "failed"]
      BY <1>4, <2>2 DEF CreateUser
    <3>2. SignUpStep(i)
      BY <1>4, <2>2, <3>1 DEF CreateUser, SignUpStep, SignUpTypes, Refused, Columns
    <3> QED
      BY <1>4, <3>2 DEF CreateUser, Effect
  <2> QED
    BY <2>1, <2>2
<1>5. ASSUME NEW i \in SignUps, FindFails(i) PROVE Effect
  <2>1. signup'[i] = [signup[i] EXCEPT !.pc = "insert"]
    BY <1>5 DEF FindFails
  <2>2. SignUpStep(i)
    BY <1>5, <2>1 DEF FindFails, SignUpStep, SignUpTypes, Moves, Columns
  <2> QED
    BY <1>5, <2>2, AccountsAssumption DEF FindFails, Fault, Effect
<1>6. ASSUME NEW i \in SignUps, CreateFails(i) PROVE Effect
  <2>1. signup'[i] = [signup[i] EXCEPT !.pc = "failed"] /\ faults' > 0
    BY <1>6 DEF CreateFails, Fault
  <2>2. SignUpStep(i)
    BY <1>6, <2>1 DEF CreateFails, SignUpStep, SignUpTypes, Refused, Inserts, Columns
  <2> QED
    BY <1>6, <2>2, AccountsAssumption DEF CreateFails, Fault, Effect
<1>7. ASSUME NEW r \in Reads, NEW e \in Emails, NEW p \in Passwords,
             BeginLogin(r, e, p)
      PROVE  Effect
  <2>1. read'[r] = [NoRead EXCEPT !.pc = "login", !.email = e, !.password = p,
                                  !.known = Has(e) /\ PasswordOf(e) = p]
    BY <1>7 DEF BeginLogin
  <2>2. (Has(e) /\ PasswordOf(e) = p) \in BOOLEAN
    OBVIOUS
  <2>3. read'[r] \in ReadTypes
    BY <2>1, <2>2 DEF ReadTypes, NoRead
  <2>4. ReadStep(r)
    BY <1>7, <2>1, <2>3 DEF BeginLogin, ReadStep, NoRead
  <2> QED
    BY <1>7, <2>4 DEF BeginLogin, Effect
<1>8. ASSUME NEW r \in Reads, NEW i \in SignUps, BeginLookup(r, i) PROVE Effect
  <2>1. read'[r] = [NoRead EXCEPT !.pc = "lookup", !.sub = i, !.known = Stored(i)]
    BY <1>8 DEF BeginLookup
  <2>2. Stored(i) \in BOOLEAN
    BY DEF Stored
  <2>3. read'[r] \in ReadTypes
    BY <2>1, <2>2 DEF ReadTypes, NoRead
  <2>4. ReadStep(r)
    BY <1>8, <2>1, <2>3 DEF BeginLookup, ReadStep, NoRead
  <2> QED
    BY <1>8, <2>4 DEF BeginLookup, Effect
<1>9. ASSUME NEW r \in Reads, Login(r) PROVE Effect
  <2>0. read[r].email \in Emails
    BY <1>9 DEF Login, FieldsOK
  <2>1. CASE Has(read[r].email) /\ PasswordOf(read[r].email) = read[r].password
    <3>1. read'[r] = [read[r] EXCEPT !.pc = "ok", !.sub = users[read[r].email]]
      BY <1>9, <2>1 DEF Login
    <3>2. ReadStep(r)
      BY <1>9, <2>0, <2>1, <3>1 DEF Login, ReadStep, ReadTypes, FieldsOK
    <3> QED
      BY <1>9, <3>2 DEF Login, Effect
  <2>2. CASE ~(Has(read[r].email) /\ PasswordOf(read[r].email) = read[r].password)
    <3>1. read'[r] = [read[r] EXCEPT !.pc = "refused"] /\ ~read[r].known
      BY <1>9, <2>2 DEF Login, KnownStays
    <3>2. ReadStep(r)
      BY <1>9, <3>1 DEF Login, ReadStep, ReadTypes, FieldsOK
    <3> QED
      BY <1>9, <3>2 DEF Login, Effect
  <2> QED
    BY <2>1, <2>2
<1>10. ASSUME NEW r \in Reads, GetUserByID(r) PROVE Effect
  <2>1. read'[r] = [read[r] EXCEPT !.pc =
                      IF Stored(read[r].sub) THEN "found" ELSE "refused"]
    BY <1>10 DEF GetUserByID
  <2>2. ReadStep(r)
    BY <1>10, <2>1 DEF GetUserByID, ReadStep, ReadTypes, KnownStays, FieldsOK
  <2> QED
    BY <1>10, <2>2 DEF GetUserByID, Effect
<1>11. ASSUME NEW r \in Reads, ReadFails(r) PROVE Effect
  <2>1. read'[r] = [read[r] EXCEPT !.pc = "refused", !.hit = TRUE]
    BY <1>11 DEF ReadFails
  <2>2. ReadStep(r)
    BY <1>11, <2>1 DEF ReadFails, ReadStep, ReadTypes
  <2> QED
    BY <1>11, <2>2, AccountsAssumption DEF ReadFails, Fault, Effect
<1>12. CASE Restart
  BY <1>12, AccountsAssumption DEF Restart, Fault, Effect
<1> QED
  BY <1>1, <1>2, <1>3, <1>4, <1>5, <1>6, <1>7, <1>8, <1>9, <1>10, <1>11, <1>12
     DEF Next, HandlerStep

-----------------------------------------------------------------------------
\* A row stays, with its owner's columns; and with it what is known of it.
LEMMA RowsStay ==
    ASSUME IInv, Effect, NEW e \in Emails, Has(e)
    PROVE  /\ users'[e] = users[e] /\ Has(e)'
           /\ signup'[users[e]] = signup[users[e]]
           /\ PasswordOf(e)' = PasswordOf(e)
<1>1. /\ users[e] \in SignUps /\ users \in [Emails -> SignUps \cup {Nobody}]
      /\ signup \in [SignUps -> SignUpTypes]
      /\ signup[users[e]].pc \in {"created", "failed"}
  BY Owner DEF IInv, TypeOK, SignUpTypes
<1>2. users'[e] = users[e] /\ signup'[users[e]] = signup[users[e]]
  <2>1. ASSUME NEW i \in SignUps, SignUpStep(i)
        PROVE  users'[e] = users[e] /\ signup'[users[e]] = signup[users[e]]
    BY <1>1, <2>1 DEF SignUpStep, Begins, Moves, Unhashed, Refused, Inserts, Takes, Has
  <2>2. ASSUME NEW r \in Reads, ReadStep(r)
        PROVE  users'[e] = users[e] /\ signup'[users[e]] = signup[users[e]]
    BY <2>2 DEF ReadStep
  <2>3. CASE Restart
    BY <1>1, <2>3 DEF Restart
  <2> QED
    BY <2>1, <2>2, <2>3 DEF Effect
<1> QED
  BY <1>2 DEF Has, PasswordOf

LEMMA StoredStays ==
    ASSUME IInv, Effect, NEW i \in SignUps, Stored(i)
    PROVE  Stored(i)'
<1>1. PICK e \in Emails : users[e] = i
  BY DEF Stored
<1>2. Has(e)
  BY <1>1, AccountsAssumption DEF Has
<1> QED
  BY <1>1, <1>2, RowsStay DEF Stored

\* Types, and the fields of the requests.
LEMMA TypesKept == IInv /\ Effect => TypeOK' /\ FieldsOK'
<1> SUFFICES ASSUME IInv, Effect PROVE TypeOK' /\ FieldsOK'
  OBVIOUS
<1> USE DEF IInv, TypeOK, FieldsOK
<1>1. ASSUME NEW i \in SignUps, SignUpStep(i) PROVE TypeOK' /\ FieldsOK'
  <2>1. signup' \in [SignUps -> SignUpTypes]
    BY <1>1 DEF SignUpStep, SignUpTypes
  <2>2. users' \in [Emails -> SignUps \cup {Nobody}]
    BY <1>1 DEF SignUpStep, Begins, Moves, Unhashed, Refused, Inserts
  <2>3. \A j \in SignUps : signup'[j].pc \notin Bare => signup'[j].email \in Emails
    BY <1>1 DEF SignUpStep, Begins, Moves, Unhashed, Refused, Inserts, Columns, Bare,
                Ended, NoSignUp
  <2> QED
    BY <1>1, <2>1, <2>2, <2>3 DEF SignUpStep, SignUpTypes, Effect
<1>2. ASSUME NEW r \in Reads, ReadStep(r) PROVE TypeOK' /\ FieldsOK'
  <2>1. read' \in [Reads -> ReadTypes]
    BY <1>2 DEF ReadStep, ReadTypes
  <2>2. \A q \in Reads : /\ read'[q].pc \in {"login", "ok"} => read'[q].email \in Emails
                         /\ read'[q].pc \in {"lookup", "found"} => read'[q].sub \in SignUps
                         /\ read'[q].hit => read'[q].pc = "refused"
    BY <1>2 DEF ReadStep
  <2> QED
    BY <1>2, <2>1, <2>2 DEF ReadStep, ReadTypes, Effect
<1>3. CASE Restart
  <2>1. \A i \in SignUps : signup'[i] = signup[i] \/ signup'[i] = Ended("lost")
    BY <1>3 DEF Restart
  <2>2. \A r \in Reads : read'[r] = read[r] \/ read'[r] = [NoRead EXCEPT !.pc = "lost"]
    BY <1>3 DEF Restart
  <2>3. signup' \in [SignUps -> SignUpTypes] /\ read' \in [Reads -> ReadTypes]
    BY <1>3, <2>1, <2>2 DEF Restart, Ended, NoSignUp, NoRead, SignUpTypes, ReadTypes
  <2> QED
    BY <1>3, <2>1, <2>2, <2>3
       DEF Restart, Effect, Ended, NoSignUp, NoRead, SignUpTypes, ReadTypes, Bare
<1> QED
  BY <1>1, <1>2, <1>3 DEF Effect

\* Answers go on telling the truth: those given, because rows stay, and a new
\* one, because of what the statement saw.
LEMMA AnswersKept == IInv /\ Effect => AnswersTell'
<1> SUFFICES ASSUME IInv, Effect, NEW j \in SignUps
             PROVE  LET e == signup'[j].email
                    IN  /\ signup'[j].pc = "created" => users'[e] = j
                        /\ signup'[j].pc = "conflict" => users'[e] \notin {Nobody, j}
                        /\ signup'[j].pc = "failed" /\ faults' = 0
                              => users'[e] \notin {Nobody, j} \/ e \in LongEmails
                        /\ \A f \in Emails : users'[f] = j =>
                               /\ f = e /\ e \notin LongEmails
                               /\ signup'[j].pc \in {"created", "failed"}
  BY DEF AnswersTell, Fits
<1> DEFINE Tells ==
      LET e == signup'[j].email
      IN  /\ signup'[j].pc = "created" => users'[e] = j
          /\ signup'[j].pc = "conflict" => users'[e] \notin {Nobody, j}
          /\ signup'[j].pc = "failed" /\ faults' = 0
                => users'[e] \notin {Nobody, j} \/ e \in LongEmails
          /\ \A f \in Emails : users'[f] = j =>
                 /\ f = e /\ e \notin LongEmails
                 /\ signup'[j].pc \in {"created", "failed"}
<1>0. /\ signup[j].pc \notin Bare => signup[j].email \in Emails
      /\ signup \in [SignUps -> SignUpTypes]
      /\ users \in [Emails -> SignUps \cup {Nobody}]
      /\ faults \in Nat /\ faults' \in Nat /\ faults' >= faults
  BY AccountsAssumption DEF IInv, FieldsOK, TypeOK, SignUpTypes, Effect
<1>1. /\ signup[j].pc = "created" => users[signup[j].email] = j
      /\ signup[j].pc = "conflict" => users[signup[j].email] \notin {Nobody, j}
      /\ signup[j].pc = "failed" /\ faults = 0
            => users[signup[j].email] \notin {Nobody, j} \/ signup[j].email \in LongEmails
      /\ \A f \in Emails : users[f] = j =>
             /\ f = signup[j].email /\ f \notin LongEmails
             /\ signup[j].pc \in {"created", "failed"}
  BY DEF IInv, AnswersTell, Fits
<1>2. \A e \in Emails : users[e] # Nobody => users'[e] = users[e]
  BY RowsStay DEF Has
<1>3. ASSUME NEW i \in SignUps, SignUpStep(i) PROVE Tells
  <2>1. CASE i # j
    <3>1. signup'[j] = signup[j]
      BY <1>0, <1>3, <2>1 DEF SignUpStep
    <3>2. \A f \in Emails : users'[f] = j <=> users[f] = j
      BY <1>0, <1>3, <2>1, AccountsAssumption
         DEF SignUpStep, Begins, Moves, Unhashed, Refused, Inserts, Takes, Has
    <3> QED
      BY <1>0, <1>1, <1>2, <3>1, <3>2, AccountsAssumption DEF Bare
  <2>2. CASE i = j
    <3>1. CASE Begins(j)
      BY <1>1, <3>1 DEF Begins
    <3>2. CASE Moves(j) \/ Unhashed(j)
      BY <1>0, <1>1, <3>2
         DEF Moves, Unhashed, Ended, NoSignUp, Columns, Bare, Has
    <3>3. CASE Refused(j)
      BY <1>0, <1>1, <3>3 DEF Refused, Takes, Fits, Columns, Has, Bare
    <3>4. CASE Inserts(j)
      <4>1. users'[signup[j].email] = j /\ signup'[j].email = signup[j].email
        BY <1>0, <3>4 DEF Inserts, Columns, Bare
      <4>2. \A f \in Emails : f # signup[j].email => users'[f] # j
        BY <1>0, <1>1, <3>4 DEF Inserts, Takes, Has
      <4> QED
        BY <1>0, <3>4, <4>1, <4>2 DEF Inserts, Takes, Fits
    <3> QED
      BY <1>3, <2>2, <3>1, <3>2, <3>3, <3>4 DEF SignUpStep
  <2> QED
    BY <2>1, <2>2
<1>4. ASSUME NEW r \in Reads, ReadStep(r) PROVE Tells
  BY <1>0, <1>1, <1>4 DEF ReadStep
<1>5. CASE Restart
  BY <1>0, <1>1, <1>5 DEF Restart, Ended, NoSignUp
<1> QED
  BY <1>3, <1>4, <1>5 DEF Effect

\* Reads go on seeing what they knew, and what they answered stays so.
ReadOK(q) ==
    LET k == read[q]
    IN  /\ k.pc = "login" /\ k.known => Has(k.email) /\ PasswordOf(k.email) = k.password
        /\ k.pc = "lookup" /\ k.known => Stored(k.sub)
        /\ k.pc = "refused" /\ k.known => k.hit
        /\ k.pc = "ok" => /\ users[k.email] = k.sub /\ Has(k.email)
                          /\ PasswordOf(k.email) = k.password
        /\ k.pc = "found" => Stored(k.sub)

LEMMA ReadsKept == IInv /\ Effect => KnownStays' /\ ReadsSeeWrites'
<1> SUFFICES ASSUME IInv, Effect, NEW q \in Reads PROVE ReadOK(q)'
  BY DEF KnownStays, ReadsSeeWrites, ReadOK
<1>0. read \in [Reads -> ReadTypes]
  BY DEF IInv, TypeOK, ReadTypes
<1>1. /\ read[q].pc \in {"login", "ok"} => read[q].email \in Emails
      /\ read[q].pc \in {"lookup", "found"} => read[q].sub \in SignUps
  BY DEF IInv, FieldsOK
<1>2. ReadOK(q)
  BY DEF IInv, KnownStays, ReadsSeeWrites, ReadOK
<1>3. \A e \in Emails : Has(e) => /\ users'[e] = users[e] /\ Has(e)'
                                  /\ PasswordOf(e)' = PasswordOf(e)
  BY RowsStay
<1>4. \A i \in SignUps : Stored(i) => Stored(i)'
  BY StoredStays
<1>5. CASE read'[q] = read[q]
  BY <1>1, <1>2, <1>3, <1>4, <1>5 DEF ReadOK
<1>6. CASE ReadStep(q)
  BY <1>0, <1>1, <1>2, <1>3, <1>4, <1>6 DEF ReadStep, ReadOK
<1>7. CASE Restart
  <2>1. read'[q] = read[q] \/ read'[q].pc = "lost"
    BY <1>0, <1>7 DEF Restart, ReadTypes, NoRead
  <2> QED
    BY <1>5, <2>1 DEF ReadOK
<1>8. ASSUME NEW r \in Reads, ReadStep(r), r # q PROVE read'[q] = read[q]
  BY <1>0, <1>8 DEF ReadStep
<1>9. ASSUME NEW i \in SignUps, SignUpStep(i) PROVE read'[q] = read[q]
  BY <1>9 DEF SignUpStep
<1> QED
  BY <1>5, <1>6, <1>7, <1>8, <1>9 DEF Effect

LEMMA NextInv == IInv /\ [Next]_vars => IInv'
<1> SUFFICES ASSUME IInv, [Next]_vars PROVE IInv'
  OBVIOUS
<1>1. CASE Next
  BY <1>1, StepEffect, TypesKept, AnswersKept, ReadsKept DEF IInv
<1>2. CASE UNCHANGED vars
  BY <1>2 DEF vars, IInv, TypeOK, FieldsOK, AnswersTell, KnownStays, ReadsSeeWrites,
              Has, PasswordOf, Stored, Fits
<1> QED
  BY <1>1, <1>2

LEMMA Invariant == Spec => []IInv
BY InitInv, NextInv, PTL DEF Spec

-----------------------------------------------------------------------------
\* Every variable has its type in every reachable state.
THEOREM AccountsTypeCorrect == Spec => []TypeOK
<1>1. IInv => TypeOK
  BY DEF IInv
<1> QED
  BY <1>1, Invariant, PTL

\* 201, 409 and the two 500s mean for the table what AnswersTell says: without a
\* fault an account is missing after a 500 for too long an email or password only.
THEOREM AnswersAreTrue == Spec => []AnswersTell
<1>1. IInv => AnswersTell
  BY DEF IInv
<1> QED
  BY <1>1, Invariant, PTL

\* A login or a lookup sees every account that was there when it began.
THEOREM ReadsAreTrue == Spec => []ReadsSeeWrites
<1>1. IInv => ReadsSeeWrites
  BY DEF IInv
<1> QED
  BY <1>1, Invariant, PTL

\* An account and its password are for good.
THEOREM AccountsStay == Spec => AccountsKept
<1>1. IInv /\ [Next]_vars
        => [\A e \in Emails : Has(e) =>
               users'[e] = users[e] /\ signup'[users[e]].password = PasswordOf(e)]_vars
  BY StepEffect, RowsStay DEF PasswordOf
<1> QED
  BY <1>1, Invariant, PTL DEF Spec, AccountsKept

-----------------------------------------------------------------------------
(* Accounts behaves as AtomicAccounts does. *)

\* What a client sees of the three variables.
AccountsSeen == [e \in Emails |-> [id |-> users[e], password |->
                    IF Has(e) THEN PasswordOf(e) ELSE Nobody]]
SignUpsSeen == [i \in SignUps |-> [signup[i] EXCEPT !.pc =
                    IF @ \in {"find", "insert"} THEN "asked" ELSE @]]
ReadsSeen == [r \in Reads |->
                    [pc |-> IF read[r].hit THEN "failed" ELSE read[r].pc,
                     email |-> read[r].email, password |-> read[r].password,
                     sub |-> read[r].sub]]
Seen == <<AccountsSeen, SignUpsSeen, ReadsSeen>>

\* A step that leaves the table alone leaves the accounts: their passwords do
\* not change.
LEMMA AccountsSeenKept ==
    ASSUME IInv, Effect, UNCHANGED users
    PROVE  AccountsSeen' = AccountsSeen
<1>1. ASSUME NEW e \in Emails
      PROVE  /\ Has(e)' <=> Has(e)
             /\ Has(e) => PasswordOf(e)' = PasswordOf(e)
  BY RowsStay DEF Has
<1> QED
  BY <1>1 DEF AccountsSeen

\* A sign-up between its request and its answer is one that was asked for.
LEMMA SignUpSeen ==
    ASSUME IInv, NEW i \in SignUps
    PROVE  /\ SignUpsSeen[i].email = signup[i].email
           /\ SignUpsSeen[i].password = signup[i].password
           /\ signup[i].pc \in {"find", "insert"} => SignUpsSeen[i].pc = "asked"
           /\ signup[i].pc = "none" => SignUpsSeen[i].pc = "none"
BY DEF IInv, TypeOK, SignUpsSeen

LEMMA SignUpTold ==
    ASSUME IInv, NEW i \in SignUps, SignUpStep(i), Columns(i)
    PROVE  /\ signup'[i].pc \notin {"find", "insert"}
                 => SignUpsSeen' = [SignUpsSeen EXCEPT ![i].pc = signup'[i].pc]
           /\ signup[i].pc = "find" /\ signup'[i].pc = "insert"
                 => SignUpsSeen' = SignUpsSeen
           /\ ReadsSeen' = ReadsSeen
<1>1. /\ signup \in [SignUps -> SignUpTypes] /\ signup'[i] \in SignUpTypes
      /\ signup' = [signup EXCEPT ![i] = signup'[i]]
  BY DEF IInv, TypeOK, SignUpTypes, SignUpStep
<1>2. ASSUME NEW j \in SignUps, j # i PROVE signup'[j] = signup[j]
  BY <1>1, <1>2
<1>3. ASSUME signup'[i].pc \notin {"find", "insert"}
      PROVE  SignUpsSeen' = [SignUpsSeen EXCEPT ![i].pc = signup'[i].pc]
  <2>1. SignUpsSeen'[i] = [SignUpsSeen[i] EXCEPT !.pc = signup'[i].pc]
    BY <1>1, <1>3 DEF SignUpsSeen, SignUpTypes, Columns
  <2>2. \A j \in SignUps : j # i => SignUpsSeen'[j] = SignUpsSeen[j]
    BY <1>2 DEF SignUpsSeen
  <2> QED
    BY <2>1, <2>2 DEF SignUpsSeen
<1>4. ASSUME signup[i].pc = "find", signup'[i].pc = "insert"
      PROVE  SignUpsSeen' = SignUpsSeen
  BY <1>1, <1>2, <1>4 DEF SignUpsSeen, SignUpTypes, Columns
<1>5. ReadsSeen' = ReadsSeen
  BY DEF SignUpStep, ReadsSeen
<1> QED
  BY <1>3, <1>4, <1>5

LEMMA SignUpAtomic ==
    ASSUME IInv, Effect, NEW i \in SignUps, SignUpStep(i)
    PROVE  Abstract!Next
<1>0. /\ SignUpsSeen[i].email = signup[i].email
      /\ SignUpsSeen[i].password = signup[i].password
      /\ signup[i].pc \in {"find", "insert"} => SignUpsSeen[i].pc = "asked"
      /\ signup[i].pc = "none" => SignUpsSeen[i].pc = "none"
  BY SignUpSeen
<1>1. /\ signup[i].pc \notin Bare => signup[i].email \in Emails
      /\ signup \in [SignUps -> SignUpTypes] /\ signup'[i] \in SignUpTypes
      /\ signup' = [signup EXCEPT ![i] = signup'[i]] /\ UNCHANGED read
      /\ users \in [Emails -> SignUps \cup {Nobody}]
  BY DEF IInv, FieldsOK, TypeOK, SignUpTypes, SignUpStep
<1>2. \A e \in Emails : Has(e) => AccountsSeen[e] # [id |-> Nobody, password |-> Nobody]
  BY DEF AccountsSeen, Has
<1>3. ASSUME Begins(i) PROVE Abstract!Next
  <2>1. PICK e \in Emails, p \in Passwords :
               signup'[i] = [pc |-> "find", email |-> e, password |-> p]
    BY <1>1, <1>3 DEF Begins, SignUpTypes
  <2>2. SignUpsSeen' = [SignUpsSeen EXCEPT ![i] =
                          [pc |-> "asked", email |-> e, password |-> p]]
    <3>1. SignUpsSeen'[i] = [pc |-> "asked", email |-> e, password |-> p]
      BY <2>1 DEF SignUpsSeen
    <3>2. \A j \in SignUps : j # i => SignUpsSeen'[j] = SignUpsSeen[j]
      BY <1>1 DEF SignUpsSeen
    <3> QED
      BY <3>1, <3>2 DEF SignUpsSeen
  <2>3. AccountsSeen' = AccountsSeen /\ ReadsSeen' = ReadsSeen
    BY <1>1, <1>3, AccountsSeenKept DEF Begins, ReadsSeen
  <2>4. SignUpsSeen[i].pc = "none"
    BY <1>0, <1>3 DEF Begins
  <2>5. Abstract!AskSignUp(i, e, p)
    BY <2>2, <2>3, <2>4 DEF Abstract!AskSignUp, AccountsSeen, SignUpsSeen, ReadsSeen
  <2> QED
    BY <2>5 DEF Abstract!Next
<1>4. ASSUME Moves(i) \/ Refused(i) PROVE Abstract!Next
  <2>1. /\ Columns(i) /\ AccountsSeen' = AccountsSeen
        /\ SignUpsSeen[i].pc = "asked" /\ signup[i].email \in Emails
    BY <1>0, <1>1, <1>4, AccountsSeenKept DEF Moves, Refused, Bare
  <2>2. CASE signup[i].pc = "find" /\ signup'[i].pc = "insert"
    <3>1. SignUpsSeen' = SignUpsSeen /\ ReadsSeen' = ReadsSeen
      BY <2>1, <2>2, SignUpTold
    <3>2. Abstract!Unseen
      BY <2>1, <3>1 DEF Abstract!Unseen, Abstract!calls, AccountsSeen, SignUpsSeen, ReadsSeen
    <3> QED
      BY <3>2 DEF Abstract!Next
  <2>3. CASE \/ signup'[i].pc = "conflict" /\ Has(signup[i].email)
             \/ signup'[i].pc = "failed"
    <3>1. /\ SignUpsSeen' = [SignUpsSeen EXCEPT ![i].pc = signup'[i].pc]
          /\ ReadsSeen' = ReadsSeen
      BY <2>1, <2>3, SignUpTold
    <3>2. signup'[i].pc = "conflict" => AccountsSeen[SignUpsSeen[i].email]
                                          # [id |-> Nobody, password |-> Nobody]
      BY <1>0, <1>2, <2>1, <2>3
    <3>3. Abstract!Refuse(i)
      BY <2>1, <2>3, <3>1, <3>2
         DEF Abstract!Refuse, Abstract!TellSignUp, Abstract!NoAccount,
             AccountsSeen, SignUpsSeen, ReadsSeen
    <3> QED
      BY <3>3 DEF Abstract!Next
  <2> QED
    BY <1>4, <2>2, <2>3 DEF Moves, Refused
<1>5. ASSUME Inserts(i) PROVE Abstract!Next
  <2>1. /\ Columns(i) /\ signup[i].email \in Emails /\ ~Has(signup[i].email)
        /\ SignUpsSeen[i].pc = "asked" /\ signup'[i].pc \in {"created", "failed"}
        /\ users' = [users EXCEPT ![signup[i].email] = i]
    BY <1>0, <1>1, <1>5 DEF Inserts, Takes, Bare
  <2>2. /\ SignUpsSeen' = [SignUpsSeen EXCEPT ![i].pc = signup'[i].pc]
        /\ ReadsSeen' = ReadsSeen
    BY <2>1, SignUpTold
  <2>3. AccountsSeen[SignUpsSeen[i].email] = [id |-> Nobody, password |-> Nobody]
    BY <1>0, <2>1 DEF AccountsSeen, Has
  <2>4. AccountsSeen' = [AccountsSeen EXCEPT ![SignUpsSeen[i].email] =
                           [id |-> i, password |-> SignUpsSeen[i].password]]
    <3>1. ASSUME NEW f \in Emails, f # signup[i].email
          PROVE  AccountsSeen'[f] = AccountsSeen[f]
      <4>1. users'[f] = users[f] /\ (Has(f)' <=> Has(f))
        BY <1>1, <2>1, <3>1 DEF Has
      <4>2. Has(f) => PasswordOf(f)' = PasswordOf(f)
        BY RowsStay
      <4> QED
        BY <4>1, <4>2 DEF AccountsSeen
    <3>2. PICK e \in Emails : e = signup[i].email
      BY <2>1
    <3>3. AccountsSeen'[e] = [id |-> i, password |-> signup[i].password]
      <4>1. users'[e] = i /\ signup'[i].password = signup[i].password /\ i # Nobody
        BY <1>1, <2>1, <3>2, AccountsAssumption DEF Columns
      <4> QED
        BY <4>1 DEF AccountsSeen, Has, PasswordOf
    <3> QED
      BY <1>0, <2>1, <3>1, <3>2, <3>3 DEF AccountsSeen
  <2>5. Abstract!Create(i)
    BY <2>1, <2>2, <2>3, <2>4
       DEF Abstract!Create, Abstract!TellSignUp, Abstract!NoAccount,
           AccountsSeen, SignUpsSeen, ReadsSeen
  <2> QED
    BY <2>5 DEF Abstract!Next
<1>6. ASSUME Unhashed(i) PROVE Abstract!Next
  <2>1. AccountsSeen' = AccountsSeen /\ SignUpsSeen[i].pc = "asked"
    BY <1>0, <1>6, AccountsSeenKept DEF Unhashed
  <2>2. signup'[i] = [pc |-> "unhashed", email |-> Nobody, password |-> Nobody]
    BY <1>6 DEF Unhashed, Ended, NoSignUp
  <2>3. /\ SignUpsSeen'[i] = signup'[i]
        /\ \A j \in SignUps : j # i => SignUpsSeen'[j] = SignUpsSeen[j]
    BY <1>1, <2>2 DEF SignUpsSeen
  <2>4. /\ SignUpsSeen' = [SignUpsSeen EXCEPT ![i] = signup'[i]]
        /\ ReadsSeen' = ReadsSeen
    BY <1>1, <2>3 DEF SignUpsSeen, ReadsSeen
  <2>5. Abstract!Refuse(i)
    BY <2>1, <2>2, <2>4
       DEF Abstract!Refuse, Abstract!Ended, Abstract!NoSignUp,
           AccountsSeen, SignUpsSeen, ReadsSeen
  <2> QED
    BY <2>5 DEF Abstract!Next
<1> QED
  BY <1>3, <1>4, <1>5, <1>6 DEF SignUpStep

\* A read that has not failed looks as it is.
LEMMA ReadSeen ==
    ASSUME IInv, NEW r \in Reads
    PROVE  /\ read[r].pc # "refused" => ReadsSeen[r].pc = read[r].pc /\ ~read[r].hit
           /\ ReadsSeen[r].email = read[r].email
           /\ ReadsSeen[r].password = read[r].password
           /\ ReadsSeen[r].sub = read[r].sub
BY DEF IInv, FieldsOK, ReadsSeen

\* A step of one read, by what is seen of it.
LEMMA ReadTold ==
    ASSUME IInv, NEW r \in Reads, NEW q, read' = [read EXCEPT ![r] = q],
           UNCHANGED <<users, signup>>
    PROVE  /\ ReadsSeen' = [ReadsSeen EXCEPT ![r] =
                 [pc |-> IF q.hit THEN "failed" ELSE q.pc, email |-> q.email,
                  password |-> q.password, sub |-> q.sub]]
           /\ AccountsSeen' = AccountsSeen /\ SignUpsSeen' = SignUpsSeen
<1>1. AccountsSeen' = AccountsSeen /\ SignUpsSeen' = SignUpsSeen
  BY DEF AccountsSeen, SignUpsSeen, Has, PasswordOf
<1>2. read'[r] = q /\ \A k \in Reads : k # r => read'[k] = read[k]
  BY DEF IInv, TypeOK
<1>3. ReadsSeen' = [ReadsSeen EXCEPT ![r] =
                 [pc |-> IF q.hit THEN "failed" ELSE q.pc, email |-> q.email,
                  password |-> q.password, sub |-> q.sub]]
  BY <1>2 DEF ReadsSeen
<1> QED
  BY <1>1, <1>3

\* An answer changes of a read its state and the id, or says that it failed.
Answers(r, pc, sub, hit) ==
    /\ read' = [read EXCEPT ![r] = [read[r] EXCEPT !.pc = pc, !.sub = sub, !.hit = hit]]
    /\ UNCHANGED <<users, signup>>

Told(r, answer, sub) ==
    /\ ReadsSeen' = [ReadsSeen EXCEPT ![r].pc = answer, ![r].sub = sub]
    /\ AccountsSeen' = AccountsSeen /\ SignUpsSeen' = SignUpsSeen

LEMMA ReadAnswered ==
    ASSUME IInv, NEW r \in Reads, NEW pc, NEW sub, NEW hit \in BOOLEAN,
           Answers(r, pc, sub, hit)
    PROVE  Told(r, IF hit THEN "failed" ELSE pc, sub)
<1> DEFINE q == [read[r] EXCEPT !.pc = pc, !.sub = sub, !.hit = hit]
           n == [pc |-> IF hit THEN "failed" ELSE pc, email |-> read[r].email,
                 password |-> read[r].password, sub |-> sub]
<1>1. /\ q.pc = pc /\ q.sub = sub /\ q.hit = hit /\ q.email = read[r].email
      /\ q.password = read[r].password
  BY DEF IInv, TypeOK
<1>2. read' = [read EXCEPT ![r] = q] /\ UNCHANGED <<users, signup>>
  BY DEF Answers
<1>3. /\ ReadsSeen' = [ReadsSeen EXCEPT ![r] = n]
      /\ AccountsSeen' = AccountsSeen /\ SignUpsSeen' = SignUpsSeen
  <2> HIDE DEF q
  <2> QED
    BY <1>1, <1>2, ReadTold
<1>4. PICK state, id : ReadsSeen[r] = [pc |-> state, email |-> read[r].email,
                                       password |-> read[r].password, sub |-> id]
  BY DEF ReadsSeen
<1>5. n = [ReadsSeen[r] EXCEPT !.pc = IF hit THEN "failed" ELSE pc, !.sub = sub]
  <2>1. PICK answer : answer = IF hit THEN "failed" ELSE pc
    OBVIOUS
  <2>2. PICK m : m = [ReadsSeen[r] EXCEPT !.pc = answer]
    OBVIOUS
  <2>3. m = [pc |-> answer, email |-> read[r].email,
             password |-> read[r].password, sub |-> id]
    BY <1>4, <2>2
  <2>4. [m EXCEPT !.sub = sub] = [pc |-> answer, email |-> read[r].email,
                                  password |-> read[r].password, sub |-> sub]
    BY <2>3
  <2> QED
    BY <2>1, <2>2, <2>4
<1>6. [ReadsSeen EXCEPT ![r] = n]
        = [ReadsSeen EXCEPT ![r].pc = IF hit THEN "failed" ELSE pc, ![r].sub = sub]
  BY <1>5 DEF ReadsSeen
<1> QED
  BY <1>3, <1>6 DEF Told

LEMMA ReadAtomic ==
    ASSUME IInv, NEW r \in Reads,
           \/ \E e \in Emails, p \in Passwords : BeginLogin(r, e, p)
           \/ \E i \in SignUps : BeginLookup(r, i)
           \/ Login(r) \/ GetUserByID(r) \/ ReadFails(r)
    PROVE  Abstract!Next
<1>0. /\ read[r].pc # "refused" => ReadsSeen[r].pc = read[r].pc /\ ~read[r].hit
      /\ ReadsSeen[r].email = read[r].email
      /\ ReadsSeen[r].password = read[r].password
      /\ ReadsSeen[r].sub = read[r].sub
      /\ read[r] \in ReadTypes
  BY ReadSeen DEF IInv, TypeOK, ReadTypes
<1>1. ASSUME NEW e \in Emails, NEW p \in Passwords, BeginLogin(r, e, p)
      PROVE  Abstract!Next
  <2>1. /\ ReadsSeen' = [ReadsSeen EXCEPT ![r] = [pc |-> "login", email |-> e,
                                                  password |-> p, sub |-> Nobody]]
        /\ AccountsSeen' = AccountsSeen /\ SignUpsSeen' = SignUpsSeen
    <3> DEFINE q == [NoRead EXCEPT !.pc = "login", !.email = e, !.password = p,
                                   !.known = Has(e) /\ PasswordOf(e) = p]
    <3>1. q.pc = "login" /\ q.email = e /\ q.password = p /\ q.sub = Nobody /\ ~q.hit
      BY DEF NoRead
    <3>2. read' = [read EXCEPT ![r] = q] /\ UNCHANGED <<users, signup>>
      BY <1>1 DEF BeginLogin
    <3> QED
      BY <3>1, <3>2, ReadTold
  <2>2. ReadsSeen[r].pc = "none"
    BY <1>0, <1>1 DEF BeginLogin
  <2>3. Abstract!AskLogin(r, e, p)
    BY <2>1, <2>2 DEF Abstract!AskLogin, AccountsSeen, SignUpsSeen, ReadsSeen
  <2> QED
    BY <2>3 DEF Abstract!Next
<1>2. ASSUME NEW i \in SignUps, BeginLookup(r, i) PROVE Abstract!Next
  <2>1. /\ ReadsSeen' = [ReadsSeen EXCEPT ![r] = [pc |-> "lookup", email |-> Nobody,
                                                  password |-> Nobody, sub |-> i]]
        /\ AccountsSeen' = AccountsSeen /\ SignUpsSeen' = SignUpsSeen
    <3> DEFINE q == [NoRead EXCEPT !.pc = "lookup", !.sub = i, !.known = Stored(i)]
    <3>1. /\ q.pc = "lookup" /\ q.email = Nobody /\ q.password = Nobody
          /\ q.sub = i /\ ~q.hit
      BY DEF NoRead
    <3>2. read' = [read EXCEPT ![r] = q] /\ UNCHANGED <<users, signup>>
      BY <1>2 DEF BeginLookup
    <3> QED
      BY <3>1, <3>2, ReadTold
  <2>2. ReadsSeen[r].pc = "none"
    BY <1>0, <1>2 DEF BeginLookup
  <2>3. Abstract!AskLookup(r, i)
    BY <2>1, <2>2
       DEF Abstract!AskLookup, Abstract!NoRead, AccountsSeen, SignUpsSeen, ReadsSeen
  <2> QED
    BY <2>3 DEF Abstract!Next
<1>4. ASSUME Login(r) PROVE Abstract!Next
  <2> DEFINE e == read[r].email
             Right == Has(e) /\ PasswordOf(e) = read[r].password
  <2>1. /\ ReadsSeen[r].pc = "login" /\ ~read[r].hit /\ read[r].pc = "login"
        /\ e \in Emails /\ UNCHANGED <<users, signup>>
    BY <1>0, <1>4 DEF Login, IInv, FieldsOK
  <2>2. AccountsSeen[e] = [id |-> users[e], password |->
                             IF Has(e) THEN PasswordOf(e) ELSE Nobody]
    BY <2>1 DEF AccountsSeen
  <2>3. Right => /\ AccountsSeen[e] # [id |-> Nobody, password |-> Nobody]
                 /\ AccountsSeen[e].password = read[r].password
                 /\ AccountsSeen[e].id = users[e]
    BY <2>2 DEF Has
  <2>4. ~Right => (AccountsSeen[e] # [id |-> Nobody, password |-> Nobody]
                      => AccountsSeen[e].password # read[r].password)
    BY <2>2 DEF Has
  <2>5. CASE Right
    <3>1. Answers(r, "ok", users[e], FALSE)
      <4>1. read' = [read EXCEPT ![r] = [read[r] EXCEPT !.pc = "ok", !.sub = users[e]]]
        BY <1>0, <1>4, <2>1, <2>5 DEF Login, IInv, TypeOK
      <4>2. [read[r] EXCEPT !.pc = "ok", !.sub = users[e]]
               = [read[r] EXCEPT !.pc = "ok", !.sub = users[e], !.hit = FALSE]
        BY <1>0, <2>1 DEF ReadTypes
      <4> QED
        BY <2>1, <4>1, <4>2 DEF Answers
    <3>2. Told(r, "ok", users[e])
      BY <3>1, ReadAnswered
    <3>3. Abstract!Login(r)
      BY <1>0, <2>1, <2>3, <2>5, <3>2
         DEF Abstract!Login, Abstract!TellRead, Abstract!NoAccount, Told,
             AccountsSeen, SignUpsSeen, ReadsSeen
    <3> QED
      BY <3>3 DEF Abstract!Next
  <2>6. CASE ~Right
    <3>1. Answers(r, "refused", read[r].sub, FALSE)
      <4>1. read' = [read EXCEPT ![r] = [read[r] EXCEPT !.pc = "refused"]]
        BY <1>4, <2>1, <2>6 DEF Login, IInv, TypeOK
      <4>2. [read[r] EXCEPT !.pc = "refused"]
               = [read[r] EXCEPT !.pc = "refused", !.sub = read[r].sub, !.hit = FALSE]
        BY <1>0, <2>1 DEF ReadTypes
      <4> QED
        BY <2>1, <4>1, <4>2 DEF Answers
    <3>2. Told(r, "refused", read[r].sub)
      BY <3>1, ReadAnswered
    <3>3. Abstract!Login(r)
      BY <1>0, <2>1, <2>4, <2>6, <3>2
         DEF Abstract!Login, Abstract!TellRead, Abstract!NoAccount, Told,
             AccountsSeen, SignUpsSeen, ReadsSeen
    <3> QED
      BY <3>3 DEF Abstract!Next
  <2> QED
    BY <2>5, <2>6
<1>5. ASSUME GetUserByID(r) PROVE Abstract!Next
  <2> DEFINE answer == IF Stored(read[r].sub) THEN "found" ELSE "refused"
  <2>1. /\ ReadsSeen[r].pc = "lookup" /\ ~read[r].hit
        /\ Answers(r, answer, read[r].sub, FALSE)
    BY <1>0, <1>5 DEF GetUserByID, ReadTypes, Answers
  <2>2. Told(r, answer, read[r].sub)
    <3> HIDE DEF answer
    <3> QED
      BY <2>1, ReadAnswered
  <2>3. /\ answer \in {"found", "refused"}
        /\ answer = "found" <=> \E e \in Emails : AccountsSeen[e].id = ReadsSeen[r].sub
    BY <1>0 DEF AccountsSeen, Stored
  <2>4. Abstract!Lookup(r)
    <3> HIDE DEF answer
    <3> QED
      BY <1>0, <2>1, <2>2, <2>3
         DEF Abstract!Lookup, Abstract!TellRead, Told, AccountsSeen, SignUpsSeen, ReadsSeen
  <2> QED
    BY <2>4 DEF Abstract!Next
<1>6. ASSUME ReadFails(r) PROVE Abstract!Next
  <2>1. /\ ReadsSeen[r].pc \in {"login", "lookup"}
        /\ Answers(r, "refused", read[r].sub, TRUE)
    BY <1>0, <1>6 DEF ReadFails, ReadTypes, Answers
  <2>2. Told(r, "failed", read[r].sub)
    BY <2>1, ReadAnswered
  <2>3. Abstract!FailRead(r)
    BY <1>0, <2>1, <2>2
       DEF Abstract!FailRead, Abstract!TellRead, Told, AccountsSeen, SignUpsSeen, ReadsSeen
  <2> QED
    BY <2>3 DEF Abstract!Next
<1> QED
  BY <1>1, <1>2, <1>4, <1>5, <1>6

\* A restart loses the calls that are out.
LEMMA RestartAtomic ==
    ASSUME IInv, Effect, Restart
    PROVE  Abstract!Next
<1> DEFINE LostRead == [pc |-> "lost", email |-> Nobody, password |-> Nobody,
                        sub |-> Nobody]
<1>1. AccountsSeen' = AccountsSeen
  BY AccountsSeenKept DEF Restart
<1>2. SignUpsSeen' = [i \in SignUps |-> IF SignUpsSeen[i].pc = "asked"
                        THEN Ended("lost") ELSE SignUpsSeen[i]]
  <2>1. ASSUME NEW i \in SignUps
        PROVE  SignUpsSeen'[i] = IF SignUpsSeen[i].pc = "asked"
                        THEN Ended("lost") ELSE SignUpsSeen[i]
    <3>1. signup[i] \in SignUpTypes
      BY DEF IInv, TypeOK, SignUpTypes
    <3>2. CASE signup[i].pc \in {"find", "insert"}
      <4>1. signup'[i] = Ended("lost")
        BY <3>2 DEF Restart
      <4> QED
        BY <3>1, <3>2, <4>1 DEF SignUpsSeen, SignUpTypes, Ended, NoSignUp
    <3>3. CASE signup[i].pc \notin {"find", "insert"}
      <4>1. signup'[i] = signup[i]
        BY <3>3 DEF Restart
      <4> QED
        BY <3>1, <3>3, <4>1 DEF SignUpsSeen, SignUpTypes
    <3> QED
      BY <3>2, <3>3
  <2> QED
    BY <2>1 DEF SignUpsSeen
<1>3. ReadsSeen' = [r \in Reads |-> IF ReadsSeen[r].pc \in {"login", "lookup"}
                        THEN LostRead ELSE ReadsSeen[r]]
  <2>1. ASSUME NEW r \in Reads
        PROVE  ReadsSeen'[r] = IF ReadsSeen[r].pc \in {"login", "lookup"}
                        THEN LostRead ELSE ReadsSeen[r]
    <3>1. read[r] \in ReadTypes /\ (read[r].hit => read[r].pc = "refused")
      BY DEF IInv, TypeOK, FieldsOK, ReadTypes
    <3>2. CASE read[r].pc \in {"login", "lookup"}
      <4>1. read'[r] = [NoRead EXCEPT !.pc = "lost"]
        BY <3>2 DEF Restart
      <4> QED
        BY <3>1, <3>2, <4>1 DEF ReadsSeen, ReadTypes, NoRead
    <3>3. CASE read[r].pc \notin {"login", "lookup"}
      <4>1. read'[r] = read[r]
        BY <3>3 DEF Restart
      <4> QED
        BY <3>1, <3>3, <4>1 DEF ReadsSeen, ReadTypes
    <3> QED
      BY <3>2, <3>3
  <2> QED
    BY <2>1 DEF ReadsSeen
<1>4. Abstract!Lose
  BY <1>1, <1>2, <1>3
     DEF Abstract!Lose, Abstract!Ended, Abstract!NoSignUp, Abstract!NoRead, Ended,
         NoSignUp, AccountsSeen, SignUpsSeen, ReadsSeen
<1> QED
  BY <1>4 DEF Abstract!Next

LEMMA AtomicInit == Init => Abstract!Init
<1> SUFFICES ASSUME Init PROVE Abstract!Init
  OBVIOUS
<1>1. AccountsSeen = [e \in Emails |-> [id |-> Nobody, password |-> Nobody]]
  BY DEF Init, AccountsSeen, Has
<1>2. SignUpsSeen = [i \in SignUps |-> NoSignUp]
  BY DEF Init, SignUpsSeen, NoSignUp
<1>3. ReadsSeen = [r \in Reads |-> [pc |-> "none", email |-> Nobody,
                                    password |-> Nobody, sub |-> Nobody]]
  BY DEF Init, ReadsSeen, NoRead
<1> QED
  BY <1>1, <1>2, <1>3
     DEF Abstract!Init, Abstract!NoAccount, Abstract!NoSignUp, Abstract!NoRead, NoSignUp,
         AccountsSeen, SignUpsSeen, ReadsSeen

LEMMA AtomicStep == IInv /\ [Next]_vars => [Abstract!Next]_Seen
<1> SUFFICES ASSUME IInv, [Next]_vars PROVE [Abstract!Next]_Seen
  OBVIOUS
<1>1. CASE Next
  <2>1. Effect
    BY <1>1, StepEffect
  <2>2. ASSUME NEW i \in SignUps,
               \/ \E e \in Emails, p \in Passwords : BeginSignUp(i, e, p)
               \/ FindUser(i) \/ HashFails(i) \/ CreateUser(i)
               \/ FindFails(i) \/ CreateFails(i)
        PROVE  Abstract!Next
    <3>1. signup' # signup
      <4>1. signup'[i].pc # signup[i].pc
        BY <2>2 DEF BeginSignUp, FindUser, HashFails, CreateUser, FindFails,
                    CreateFails, Ended, NoSignUp, IInv, TypeOK
      <4> QED
        BY <4>1
    <3>2. ~\E r \in Reads : ReadStep(r)
      BY <3>1 DEF ReadStep
    <3> QED
      BY <2>1, <3>2, SignUpAtomic, RestartAtomic DEF Effect
  <2> QED
    BY <1>1, <2>1, <2>2, ReadAtomic, RestartAtomic DEF Next, HandlerStep
<1>2. CASE UNCHANGED vars
  BY <1>2 DEF vars, Seen, AccountsSeen, SignUpsSeen, ReadsSeen, Has, PasswordOf
<1> QED
  BY <1>1, <1>2

\* Clients see sign-ups, logins and lookups done in one step each.
THEOREM ServiceIsAtomic == Spec => IsAtomic
<1>1. IInv /\ [Next]_vars => [Abstract!Next]_Seen
  BY AtomicStep
<1> QED
  BY <1>1, AtomicInit, Invariant, PTL
     DEF Spec, IsAtomic, Abstract!Spec, Abstract!calls, Seen,
         AccountsSeen, SignUpsSeen, ReadsSeen

-----------------------------------------------------------------------------
(* The limiter, and the gateway. *)

\* What the window has let through and what is left of the bucket.
Budget == passed * TokenTicks + Tokens(Watched) <= Full + age

\* At the pace of the rate, only the last request may be missing.
PaceOK == /\ paced => Tokens(Watched) >= Full - TokenTicks + idle
          /\ ~limited

LInv == LTypeOK /\ Budget /\ PaceOK

LEMMA Constants ==
    /\ TokenTicks \in Nat /\ TokenTicks > 0 /\ Full \in Nat /\ Full >= TokenTicks
    /\ Watched \in Addresses /\ Window \in Nat
<1>1. Burst \in Nat /\ Burst > 0 /\ TokenTicks \in Nat /\ TokenTicks > 0
  BY LimiterAssumption
<1>2. \A m, n \in Nat : m > 0 => m * n \in Nat /\ m * n >= n
  OBVIOUS
<1> QED
  BY <1>1, <1>2, LimiterAssumption DEF Full

LEMMA OneMore == \A m, n \in Nat : (m + 1) * n = m * n + n /\ m * n \in Nat /\ 0 * n = 0
OBVIOUS

LEMMA LInitInv == LInit => LInv
<1> SUFFICES ASSUME LInit PROVE LInv
  OBVIOUS
<1>1. Tokens(Watched) = Full /\ passed * TokenTicks = 0
  BY Constants, OneMore DEF LInit, Tokens
<1>2. LTypeOK
  <2>1. Full \in 0..Full /\ TokenTicks \in 0..TokenTicks /\ 0 \in 0..Window
    BY Constants
  <2>2. bucket \in [Addresses -> 0..Full]
    BY <2>1 DEF LInit
  <2>3. paced \in BOOLEAN /\ limited \in BOOLEAN
    BY DEF LInit
  <2> QED
    BY <2>1, <2>2, <2>3 DEF LInit, LTypeOK
<1>3. Tokens(Watched) >= Full - TokenTicks + idle
  BY <1>1, Constants DEF LInit
<1>4. PaceOK
  BY <1>3 DEF LInit, PaceOK
<1>5. Budget
  BY <1>1, Constants DEF LInit, Budget
<1> QED
  BY <1>2, <1>4, <1>5 DEF LInv

\* A bucket holds no less than nothing and no more than the burst.
LEMMA TokensType ==
    ASSUME LTypeOK, NEW a \in Addresses
    PROVE  Tokens(a) \in 0..Full
BY Constants DEF LTypeOK, Tokens

LEMMA AllowInv ==
    ASSUME LInv, NEW a \in Addresses, Allow(a)
    PROVE  LInv'
<1> USE Constants
<1>0. Tokens(a) \in 0..Full /\ Tokens(Watched) \in 0..Full /\ LTypeOK
  BY TokensType DEF LInv
<1>1. /\ Tokens(a)' = Tokens(a) - TokenTicks
      /\ bucket' \in [Addresses -> 0..Full] /\ visitors' \subseteq Addresses
  BY <1>0 DEF Allow, Draw, LTypeOK, Tokens
<1>2. passed * TokenTicks \in Nat /\ (passed + 1) * TokenTicks = passed * TokenTicks + TokenTicks
  BY <1>0, OneMore DEF LTypeOK
<1>3. CASE a = Watched
  BY <1>0, <1>1, <1>2, <1>3 DEF Allow, Observe, LInv, LTypeOK, Budget, PaceOK, window, pace
<1>4. CASE a # Watched
  <2>1. Tokens(Watched)' = Tokens(Watched)
    BY <1>0, <1>4 DEF Allow, Draw, LTypeOK, Tokens
  <2> QED
    BY <1>0, <1>1, <1>4, <2>1 DEF Allow, Observe, LInv, LTypeOK, Budget, PaceOK, pace
<1> QED
  BY <1>3, <1>4

LEMMA RefuseInv ==
    ASSUME LInv, NEW a \in Addresses, Refuse(a)
    PROVE  LInv'
<1> USE Constants
<1>0. Tokens(a) \in 0..Full /\ Tokens(Watched) \in 0..Full /\ LTypeOK
  BY TokensType DEF LInv
<1>1. a \in visitors /\ visitors' = visitors
  BY <1>0 DEF Refuse, Tokens
<1>2. Tokens(Watched)' = Tokens(Watched)
  BY <1>1 DEF Refuse, Tokens
<1>3. CASE a = Watched
  <2>1. ~(paced /\ idle = TokenTicks)
    BY <1>0, <1>3 DEF Refuse, LInv, LTypeOK, PaceOK
  <2>2. ~paced' /\ paced' \in BOOLEAN
    BY <1>3, <2>1 DEF Refuse, Observe
  <2>3. ~limited' /\ limited' \in BOOLEAN
    BY <1>3, <2>2 DEF Refuse, Observe, LInv, PaceOK
  <2> QED
    BY <1>0, <1>1, <1>2, <1>3, <2>2, <2>3
       DEF Refuse, Observe, LInv, LTypeOK, Budget, PaceOK
<1>4. CASE a # Watched
  BY <1>0, <1>1, <1>2, <1>4 DEF Refuse, Observe, LInv, LTypeOK, Budget, PaceOK, pace
<1> QED
  BY <1>3, <1>4

LEMMA TickInv == LInv /\ Tick => LInv'
<1> SUFFICES ASSUME LInv, Tick PROVE LInv'
  OBVIOUS
<1> USE Constants
<1>0. Tokens(Watched) \in 0..Full /\ LTypeOK
  BY TokensType DEF LInv
<1>1. /\ bucket' \in [Addresses -> 0..Full] /\ visitors' \subseteq Addresses
      /\ Tokens(Watched)' \in {Tokens(Watched), Tokens(Watched) + 1}
      /\ Tokens(Watched)' = Tokens(Watched) => Tokens(Watched) = Full
      /\ Tokens(Watched)' \in 0..Full
  BY <1>0 DEF Tick, Refill, LTypeOK, Tokens
<1>2. LTypeOK'
  BY <1>0, <1>1 DEF Tick, LTypeOK
<1>3. Budget'
  <2>2. CASE age < Window /\ age' = age + 1 /\ passed' = passed
    BY <1>0, <1>1, <2>2, OneMore DEF LInv, LTypeOK, Budget
  <2>3. CASE age' = 0 /\ passed' = 0
    BY <1>1, <2>3, OneMore DEF Budget
  <2> QED
    BY <1>0, <2>2, <2>3 DEF Tick, LTypeOK
<1>4. PaceOK'
  BY <1>0, <1>1 DEF Tick, LInv, LTypeOK, PaceOK
<1> QED
  BY <1>2, <1>3, <1>4 DEF LInv

LEMMA LNextInv == LInv /\ [LNext]_lvars => LInv'
<1> SUFFICES ASSUME LInv, [LNext]_lvars PROVE LInv'
  OBVIOUS
<1> USE Constants
<1>0. Tokens(Watched) \in 0..Full /\ LTypeOK
  BY TokensType DEF LInv
<1>1. CASE OpenWindow
  BY <1>0, <1>1, OneMore
     DEF OpenWindow, LInv, LTypeOK, Budget, PaceOK, Tokens, limiter, pace
<1>2. CASE RestartLimiter
  BY <1>0, <1>2, OneMore
     DEF RestartLimiter, LInv, LTypeOK, Budget, PaceOK, Tokens, pace
<1>3. CASE UNCHANGED lvars
  BY <1>3 DEF lvars, limiter, window, pace, LInv, LTypeOK, Budget, PaceOK, Tokens
<1> QED
  BY <1>1, <1>2, <1>3, AllowInv, RefuseInv, TickInv DEF LNext

LEMMA LInvariant == LSpec => []LInv
BY LInitInv, LNextInv, PTL DEF LSpec

-----------------------------------------------------------------------------
\* In no window does an address get more than the burst and the rate.
THEOREM LimiterKeepsRate == LSpec => []RateBound
<1>1. LInv => RateBound
  <2> SUFFICES ASSUME LInv PROVE RateBound
    OBVIOUS
  <2>1. Tokens(Watched) \in 0..Full
    BY TokensType, Constants DEF LInv
  <2>2. passed * TokenTicks \in Nat
    BY Constants, OneMore DEF LInv, LTypeOK
  <2> QED
    BY <2>1, <2>2, Constants DEF LInv, LTypeOK, Budget, RateBound
<1> QED
  BY <1>1, LInvariant, PTL

\* An address that keeps to the rate is never refused.
THEOREM LimiterIsFair == LSpec => []PacedNeverLimited
<1>1. LInv => PacedNeverLimited
  BY DEF LInv, PaceOK, PacedNeverLimited
<1> QED
  BY <1>1, LInvariant, PTL

-----------------------------------------------------------------------------
\* The composition.  A call that the auth service has not heard of is untouched
\* by it; one that waits for the limiter has got past the token check.
FrontTypes == [Calls -> [pc : Own \cup {"idle", "limit", "route", "out", "answered"},
                         from : Addresses \cup {Nobody}]]

Before == {"idle", "limit", "route", "denied"}

FrontOK ==
    \A c \in Calls :
        /\ front[c].pc \in Before => /\ c \in SignUps => signup[c] = NoSignUp
                                     /\ c \in Reads => read[c] = NoRead
        /\ front[c].pc = "limit" => front[c].from \in admitted

GInv ==
    /\ front \in FrontTypes /\ admitted \subseteq Addresses
    /\ FrontOK /\ EntriesEarned

LEMMA GInitInv == GInit => GInv
<1> SUFFICES ASSUME GInit PROVE GInv
  OBVIOUS
<1>1. front \in FrontTypes
  BY DEF GInit, FrontTypes, At, Own
<1> QED
  BY <1>1 DEF GInit, GInv, FrontOK, EntriesEarned, Init, LInit, At

\* What a step does to the front of a call.
LEMMA FrontStep ==
    ASSUME GInv, NEW c \in Calls,
           NEW pc \in Own \cup {"idle", "limit", "route", "out", "answered"}, Goes(c, pc)
    PROVE  /\ front' \in FrontTypes
           /\ front'[c] = At(pc)
           /\ \A d \in Calls : d # c => front'[d] = front[d]
BY DEF GInv, FrontTypes, Goes, At

\* The auth service leaves alone what it has not heard of.
LEMMA BackendUntouched ==
    ASSUME HandlerStep, NEW c \in Calls,
           TypeOK, c \in SignUps => signup[c] = NoSignUp, c \in Reads => read[c] = NoRead
    PROVE  /\ c \in SignUps => signup'[c] = NoSignUp
           /\ c \in Reads => read'[c] = NoRead
<1>1. ASSUME NEW i \in SignUps,
             FindUser(i) \/ HashFails(i) \/ CreateUser(i) \/ FindFails(i) \/ CreateFails(i)
      PROVE  /\ c \in SignUps => signup'[c] = NoSignUp
             /\ c \in Reads => read'[c] = NoRead
  <2>1. signup[i].pc \in {"find", "insert"} /\ UNCHANGED read
    BY <1>1 DEF FindUser, HashFails, CreateUser, FindFails, CreateFails
  <2>2. signup' = [signup EXCEPT ![i] = signup'[i]]
    BY <1>1 DEF FindUser, HashFails, CreateUser, FindFails, CreateFails, TypeOK
  <2>3. c # i
    BY <2>1 DEF NoSignUp
  <2> QED
    BY <2>1, <2>2, <2>3 DEF TypeOK
<1>2. ASSUME NEW r \in Reads, Login(r) \/ GetUserByID(r) \/ ReadFails(r)
      PROVE  /\ c \in SignUps => signup'[c] = NoSignUp
             /\ c \in Reads => read'[c] = NoRead
  <2>1. read[r].pc \in {"login", "lookup"} /\ UNCHANGED signup
    BY <1>2 DEF Login, GetUserByID, ReadFails
  <2>2. read' = [read EXCEPT ![r] = read'[r]]
    BY <1>2 DEF Login, GetUserByID, ReadFails, TypeOK
  <2>3. c # r
    BY <2>1 DEF NoRead
  <2> QED
    BY <2>1, <2>2, <2>3 DEF TypeOK
<1>3. CASE Restart
  BY <1>3 DEF Restart, NoSignUp, NoRead
<1> QED
  BY <1>1, <1>2, <1>3 DEF HandlerStep

\* A call that goes out touches no other.
LEMMA CallAlone ==
    ASSUME TypeOK, NEW c \in Calls, Call(c), NEW d \in Calls, d # c
    PROVE  /\ d \in SignUps => signup'[d] = signup[d]
           /\ d \in Reads => read'[d] = read[d]
BY DEF Call, BeginSignUp, BeginLogin, BeginLookup, TypeOK

-----------------------------------------------------------------------------
\* A step of the gateway is a step of Accounts and of Limiter, or none.
LEMMA StepsAre ==
    ASSUME GInv, [GNext]_gvars
    PROVE  [Next]_vars /\ [LNext]_lvars
<1>1. ASSUME NEW c \in Calls, NEW a \in Addresses, Arrive(c, a)
      PROVE  UNCHANGED <<vars, lvars>>
  BY <1>1 DEF Arrive
<1>2. ASSUME NEW c \in Calls, Limit(c) PROVE UNCHANGED vars /\ LNext
  <2>1. front[c].from \in Addresses
    BY <1>2 DEF Limit, GInv, FrontOK
  <2> QED
    BY <1>2, <2>1 DEF Limit, LNext
<1>3. ASSUME NEW c \in Calls, Route(c) PROVE [Next]_vars /\ UNCHANGED lvars
  BY <1>3 DEF Route, Call, Next
<1>4. ASSUME NEW c \in Calls, Relay(c) \/ GiveUp(c) PROVE UNCHANGED <<vars, lvars>>
  BY <1>4 DEF Relay, GiveUp
<1>5. CASE Backend
  BY <1>5 DEF Backend, Next
<1>6. CASE Clock
  BY <1>6 DEF Clock, LNext
<1>7. CASE RestartGateway
  BY <1>7 DEF RestartGateway, LNext
<1>8. CASE UNCHANGED gvars
  BY <1>8 DEF gvars
<1> QED
  BY <1>1, <1>2, <1>3, <1>4, <1>5, <1>6, <1>7, <1>8 DEF GNext

LEMMA GNextInv == TypeOK /\ GInv /\ [GNext]_gvars => GInv'
<1> SUFFICES ASSUME TypeOK, GInv, [GNext]_gvars PROVE GInv'
  OBVIOUS
<1> USE DEF GInv
<1>1. ASSUME NEW c \in Calls, NEW a \in Addresses, Arrive(c, a) PROVE GInv'
  <2>1. CASE Passes(c, a) /\ admitted' = admitted \cup {a}
    <3>1. front' \in FrontTypes
      BY <2>1 DEF Passes, FrontTypes, Own
    <3>2. FrontOK'
      BY <1>1, <2>1 DEF Arrive, Passes, FrontTypes, FrontOK, Before, vars
    <3> QED
      BY <1>1, <2>1, <3>1, <3>2 DEF Arrive, EntriesEarned, lvars, limiter
  <2>2. CASE Goes(c, "denied") /\ UNCHANGED admitted
    <3>1. /\ front' \in FrontTypes /\ front'[c].pc = "denied"
          /\ \A d \in Calls : d # c => front'[d] = front[d]
      BY <2>2, FrontStep DEF At, Own
    <3>2. FrontOK'
      BY <1>1, <2>2, <3>1 DEF Arrive, FrontOK, Before, vars
    <3> QED
      BY <1>1, <2>2, <3>1, <3>2 DEF Arrive, EntriesEarned, lvars, limiter
  <2> QED
    BY <1>1, <2>1, <2>2 DEF Arrive
<1>2. ASSUME NEW c \in Calls, Limit(c) PROVE GInv'
  <2>1. PICK pc \in {"route", "denied"} : Goes(c, pc)
    BY <1>2 DEF Limit
  <2>2. /\ front' \in FrontTypes /\ front'[c].pc = pc
        /\ \A d \in Calls : d # c => front'[d] = front[d]
    BY <2>1, FrontStep DEF At, Own
  <2>3. FrontOK'
    BY <1>2, <2>2 DEF Limit, FrontOK, Before, vars
  <2>4. visitors' = visitors \cup {front[c].from}
    BY <1>2 DEF Limit, Allow, Refuse
  <2> QED
    BY <1>2, <2>2, <2>3, <2>4 DEF Limit, FrontOK, EntriesEarned
<1>3. ASSUME NEW c \in Calls, Route(c) PROVE GInv'
  <2>1. CASE Goes(c, "denied") /\ UNCHANGED vars
    <3>1. /\ front' \in FrontTypes /\ front'[c].pc = "denied"
          /\ \A d \in Calls : d # c => front'[d] = front[d]
      BY <2>1, FrontStep DEF At, Own
    <3>2. FrontOK'
      BY <1>3, <2>1, <3>1 DEF Route, FrontOK, Before, vars
    <3> QED
      BY <1>3, <3>1, <3>2 DEF Route, EntriesEarned, lvars, limiter
  <2>2. CASE Goes(c, "out") /\ Call(c)
    <3>1. /\ front' \in FrontTypes /\ front'[c].pc = "out"
          /\ \A d \in Calls : d # c => front'[d] = front[d]
      BY <2>2, FrontStep DEF At, Own
    <3>2. FrontOK'
      <4>1. ASSUME NEW d \in Calls
            PROVE  /\ front'[d].pc \in Before => /\ d \in SignUps => signup'[d] = NoSignUp
                                                 /\ d \in Reads => read'[d] = NoRead
                   /\ front'[d].pc = "limit" => front'[d].from \in admitted'
        <5>1. CASE d = c
          BY <3>1, <5>1 DEF Before
        <5>2. CASE d # c
          BY <1>3, <2>2, <3>1, <5>2, CallAlone DEF Route, FrontOK
        <5> QED
          BY <5>1, <5>2
      <4> QED
        BY <4>1 DEF FrontOK
    <3> QED
      BY <1>3, <3>1, <3>2 DEF Route, EntriesEarned, lvars, limiter
  <2> QED
    BY <1>3, <2>1, <2>2 DEF Route
<1>4. ASSUME NEW c \in Calls, Relay(c) \/ GiveUp(c) PROVE GInv'
  <2>1. PICK pc \in {"answered", "gaveup"} : Goes(c, pc)
    BY <1>4 DEF Relay, GiveUp
  <2>2. /\ front' \in FrontTypes /\ front'[c].pc = pc
        /\ \A d \in Calls : d # c => front'[d] = front[d]
    BY <2>1, FrontStep DEF At, Own
  <2>3. FrontOK'
    BY <1>4, <2>2 DEF Relay, GiveUp, FrontOK, Before, vars
  <2> QED
    BY <1>4, <2>2, <2>3 DEF Relay, GiveUp, EntriesEarned, lvars, limiter
<1>5. CASE Backend
  <2>1. ASSUME NEW c \in Calls
        PROVE  /\ front'[c].pc \in Before => /\ c \in SignUps => signup'[c] = NoSignUp
                                             /\ c \in Reads => read'[c] = NoRead
               /\ front'[c].pc = "limit" => front'[c].from \in admitted'
    <3>1. front' = front /\ admitted' = admitted /\ HandlerStep
      BY <1>5 DEF Backend
    <3>2. CASE front[c].pc \in Before
      BY <3>1, <3>2, BackendUntouched DEF FrontOK
    <3>3. CASE front[c].pc \notin Before
      BY <3>1, <3>3 DEF FrontOK
    <3> QED
      BY <3>2, <3>3
  <2>2. FrontOK'
    BY <2>1 DEF FrontOK
  <2> QED
    BY <1>5, <2>2 DEF Backend, EntriesEarned, lvars, limiter
<1>6. CASE Clock
  <2>1. visitors' = visitors
    BY <1>6 DEF Clock, Tick, OpenWindow, limiter
  <2> QED
    BY <1>6, <2>1 DEF Clock, FrontOK, EntriesEarned, vars
<1>7. CASE RestartGateway
  <2>1. front' \in FrontTypes
    BY <1>7 DEF RestartGateway, FrontTypes, At, Own
  <2>2. \A c \in Calls : front'[c] = front[c] \/ front'[c].pc = "gaveup"
    BY <1>7 DEF RestartGateway, FrontTypes, At
  <2>3. FrontOK'
    BY <1>7, <2>2 DEF RestartGateway, FrontOK, Before, vars
  <2> QED
    BY <1>7, <2>1, <2>3 DEF RestartGateway, RestartLimiter, EntriesEarned
<1>8. CASE UNCHANGED gvars
  BY <1>8 DEF gvars, vars, lvars, limiter, FrontOK, EntriesEarned
<1> QED
  BY <1>1, <1>2, <1>3, <1>4, <1>5, <1>6, <1>7, <1>8 DEF GNext

LEMMA GInvariant == GSpec => [](IInv /\ LInv /\ GInv)
<1>1. GInit => IInv /\ LInv /\ GInv
  BY InitInv, LInitInv, GInitInv DEF GInit
<1>2. IInv /\ LInv /\ GInv /\ [GNext]_gvars => (IInv /\ LInv /\ GInv)'
  <2>1. IInv => TypeOK
    BY DEF IInv
  <2> QED
    BY <2>1, StepsAre, NextInv, LNextInv, GNextInv
<1> QED
  BY <1>1, <1>2, PTL DEF GSpec

-----------------------------------------------------------------------------
\* Through the gateway, the accounts behave as they do by themselves.
THEOREM GatewayImplementsAccounts == GSpec => Spec
<1>1. GInit => Init
  BY DEF GInit
<1>2. GInv /\ [GNext]_gvars => [Next]_vars
  BY StepsAre
<1> QED
  BY <1>1, <1>2, GInvariant, PTL DEF GSpec, Spec

\* Through the gateway too, clients see each call of the auth service done in
\* one step: what it gives up on after 10 or 15 seconds was done or is lost.
THEOREM GatewayIsAtomic == GSpec => IsAtomic
BY GatewayImplementsAccounts, ServiceIsAtomic, PTL

\* Behind the token check, the limiter behaves as it does by itself.
THEOREM GatewayImplementsLimiter == GSpec => LSpec
<1>1. GInit => LInit
  BY DEF GInit
<1>2. GInv /\ [GNext]_gvars => [LNext]_lvars
  BY StepsAre
<1> QED
  BY <1>1, <1>2, GInvariant, PTL DEF GSpec, LSpec

\* Every variable of the composition has its type.
THEOREM GatewayTypeCorrect == GSpec => []GTypeOK
<1>1. IInv /\ LInv /\ GInv => GTypeOK
  BY DEF IInv, LInv, GInv, GTypeOK, FrontTypes
<1> QED
  BY <1>1, GInvariant, PTL

\* Nothing is done for a call that the gateway itself has answered 401, 429,
\* 503 or 500.
THEOREM RefusedCallsDoNothing == GSpec => []NothingDone
<1>1. IInv /\ GInv => NothingDone
  <2> SUFFICES ASSUME IInv, GInv, NEW c \in Calls, front[c].pc = "denied"
               PROVE  /\ c \in SignUps => signup[c] = NoSignUp /\ ~Stored(c)
                      /\ c \in Reads => read[c] = NoRead
    BY DEF NothingDone
  <2>0. front[c].pc \in Before
    BY DEF Own, Before
  <2>1. /\ c \in SignUps => signup[c] = NoSignUp
        /\ c \in Reads => read[c] = NoRead
    BY <2>0 DEF GInv, FrontOK
  <2>2. ASSUME c \in SignUps PROVE ~Stored(c)
    BY <2>1, <2>2 DEF IInv, AnswersTell, Stored, NoSignUp
  <2> QED
    BY <2>1, <2>2
<1> QED
  BY <1>1, GInvariant, PTL

\* The token check comes before the map of limiters.
THEOREM LimitersAreEarned == GSpec => []EntriesEarned
<1>1. GInv => EntriesEarned
  BY DEF GInv
<1> QED
  BY <1>1, GInvariant, PTL
=============================================================================
