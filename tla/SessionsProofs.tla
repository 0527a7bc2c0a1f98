--------------------------- MODULE SessionsProofs ---------------------------
(* Theorems about Sessions. *)
EXTENDS Sessions, RedisProofs

\* The token's entry, if Redis has not lost it, lasts as long as the token.
Covered(t) == t \in lost \/ ExpiryOf(t) <= Now + redis[t].ttl

\* A request is about an issued token, and what Logout computed still covers
\* it when the SET comes, and after.
RequestOK(r) ==
    LET t == req[r].tok
    IN  req[r].pc # "idle" =>
           /\ t \in Tokens /\ exp[t] # 0
           /\ req[r].pc = "set" => exp[t] <= sec + req[r].ttl
           /\ req[r].pc = "done" => Covered(t)
           /\ req[r].after => t \in loggedOut \ lost
           /\ req[r].pc = "served" /\ req[r].after => Expired(t)

IInv ==
    /\ TypeOK
    /\ \A t \in Tokens : exp[t] <= sec + TokenLife
    /\ \A r \in Requests : RequestOK(r)
    /\ \A t \in loggedOut : exp[t] # 0 /\ Covered(t)

\* What the proofs use of the assumption about the constants.
LEMMA Constants ==
    /\ TokenLife \in Nat /\ TicksPerSecond \in Nat /\ 0 < TicksPerSecond
    /\ MaxSec \in Nat /\ MaxFaults \in Nat
BY SessionAssumption DEF SessionAssumption

\* Seconds turn into ticks monotonically and distributively.
LEMMA Ticks ==
    ASSUME NEW a \in Nat, NEW b \in Nat
    PROVE  /\ a * TicksPerSecond \in Nat
           /\ (a + b) * TicksPerSecond = a * TicksPerSecond + b * TicksPerSecond
           /\ (a + 1) * TicksPerSecond = a * TicksPerSecond + TicksPerSecond
           /\ a <= b => a * TicksPerSecond <= b * TicksPerSecond
<1>1. a * TicksPerSecond \in Nat
  BY Constants
<1>2. /\ (a + b) * TicksPerSecond = a * TicksPerSecond + b * TicksPerSecond
      /\ (a + 1) * TicksPerSecond = a * TicksPerSecond + TicksPerSecond
  BY Constants
<1>3. ASSUME a <= b PROVE a * TicksPerSecond <= b * TicksPerSecond
  <2>1. PICK d \in Nat : b = a + d
    BY <1>3, b = a + (b - a)
  <2>2. b * TicksPerSecond = a * TicksPerSecond + d * TicksPerSecond
    BY <2>1, Constants
  <2>3. d * TicksPerSecond \in Nat
    BY Constants
  <2> QED
    BY <1>1, <2>2, <2>3
<1> QED
  BY <1>1, <1>2, <1>3

LEMMA InitInv == Init => IInv
<1> SUFFICES ASSUME Init PROVE IInv
  OBVIOUS
<1>1. MaxTTL \in Nat
  BY Constants, Ticks DEF MaxTTL
<1>2. redis \in Databases(Tokens, {Blacklisted}, MaxTTL)
  BY <1>1 DEF Init, Databases, Absent
<1>3. TypeOK
  BY <1>2, Constants DEF Init, TypeOK, RequestType, NoRequest, Pcs
<1> QED
  BY <1>3, Constants DEF Init, IInv, RequestOK, NoRequest

\* The types the steps below are about.
LEMMA Types ==
    ASSUME IInv
    PROVE  /\ sec \in Nat /\ sub \in Nat /\ sub < TicksPerSecond /\ Now \in Nat
           /\ MaxTTL \in Nat
           /\ redis \in Databases(Tokens, {Blacklisted}, MaxTTL)
           /\ exp \in [Tokens -> Nat] /\ req \in [Requests -> RequestType]
           /\ \A t \in Tokens : redis[t].ttl \in 0..MaxTTL /\ ExpiryOf(t) \in Nat
           /\ \A r \in Requests : req[r].pc # "idle" => req[r].tok \in Tokens
<1>1. /\ sec \in Nat /\ sub \in Nat /\ sub < TicksPerSecond
      /\ exp \in [Tokens -> Nat] /\ req \in [Requests -> RequestType]
      /\ redis \in Databases(Tokens, {Blacklisted}, MaxTTL)
  BY Constants DEF IInv, TypeOK
<1>2. Now \in Nat /\ MaxTTL \in Nat /\ \A t \in Tokens : ExpiryOf(t) \in Nat
  BY <1>1, Constants, Ticks DEF Now, MaxTTL, ExpiryOf
<1>3. \A t \in Tokens : redis[t].ttl \in 0..MaxTTL
  BY <1>1, <1>2, EntryAfter
<1>4. \A r \in Requests : req[r].pc # "idle" => req[r].tok \in Tokens
  BY DEF IInv, RequestOK
<1> QED
  BY <1>1, <1>2, <1>3, <1>4

\* A tick moves the clock by one.
LEMMA OneTick ==
    ASSUME IInv, Tick
    PROVE  Now' = Now + 1 /\ sec' \in Nat /\ sec <= sec' /\ sec' <= MaxSec
           /\ sub' \in 0..(TicksPerSecond - 1)
<1>1. CASE sub + 1 < TicksPerSecond /\ sub' = sub + 1 /\ sec' = sec
  BY <1>1, Types, Constants, Ticks DEF Now, Tick
<1>2. CASE sub + 1 = TicksPerSecond /\ sub' = 0 /\ sec' = sec + 1
  <2>1. (sec + 1) * TicksPerSecond = sec * TicksPerSecond + TicksPerSecond
    BY Types, Ticks
  <2>2. sec * TicksPerSecond \in Nat
    BY Types, Ticks
  <2>3. Now' = (sec + 1) * TicksPerSecond + 0 /\ Now = sec * TicksPerSecond + sub
    BY <1>2 DEF Now
  <2>4. Now' = Now + 1
    BY <1>2, <2>1, <2>2, <2>3, Types, Constants
  <2> QED
    BY <1>2, <2>4, Types, Constants DEF Tick
<1> QED
  BY <1>1, <1>2 DEF Tick

\* Time does not leave a token uncovered: what a tick takes from the entry it
\* adds to the clock.
LEMMA CoveredTick ==
    ASSUME IInv, Tick, NEW t \in Tokens, Covered(t)
    PROVE  Covered(t)'
<1>1. redis'[t].ttl = IF redis[t].ttl > 1 THEN redis[t].ttl - 1 ELSE 0
  BY Types, EntryAfter DEF Tick
<1>2. ExpiryOf(t)' = ExpiryOf(t) /\ lost' = lost
  BY DEF Tick, ExpiryOf
<1>3. /\ Now' = Now + 1 /\ Now \in Nat /\ ExpiryOf(t) \in Nat
      /\ redis[t].ttl \in Nat
  BY Types, OneTick
<1>4. CASE t \in lost
  BY <1>2, <1>4 DEF Covered
<1>5. CASE ExpiryOf(t) <= Now + redis[t].ttl
  <2>1. ExpiryOf(t) <= Now' + redis'[t].ttl
    BY <1>1, <1>3, <1>5
  <2> QED
    BY <1>2, <2>1 DEF Covered
<1> QED
  BY <1>4, <1>5 DEF Covered

\* The SET of a logout covers its token, however late it comes.
LEMMA CoveredSet ==
    ASSUME IInv, NEW r \in Requests, req[r].pc = "set", UNCHANGED <<clock, exp>>,
           lost' = lost \ {req[r].tok},
           redis' = SetEx(redis, req[r].tok, Blacklisted, req[r].ttl * TicksPerSecond),
           NEW t \in Tokens
    PROVE  /\ redis' \in Databases(Tokens, {Blacklisted}, MaxTTL)
           /\ t = req[r].tok \/ Covered(t) => Covered(t)'
<1>1. PICK x \in Tokens, secs \in 0..TokenLife : x = req[r].tok /\ secs = req[r].ttl
  BY Types DEF RequestType
<1>2. /\ secs \in Nat /\ secs <= TokenLife /\ TokenLife \in Nat /\ sec \in Nat
      /\ exp[x] \in Nat /\ exp[x] <= sec + secs
  BY <1>1, Types, Constants DEF IInv, RequestOK
<1>3. secs * TicksPerSecond \in 0..MaxTTL
  <2>1. secs * TicksPerSecond \in Nat /\ TokenLife * TicksPerSecond \in Nat
    BY <1>2, Ticks
  <2>2. secs * TicksPerSecond <= TokenLife * TicksPerSecond
    BY <1>2, Ticks
  <2> QED
    BY <2>1, <2>2 DEF MaxTTL
<1>4. redis' = SetEx(redis, x, Blacklisted, secs * TicksPerSecond)
  BY <1>1
<1>5. redis' \in Databases(Tokens, {Blacklisted}, MaxTTL)
  <2>1. SetEx(redis, x, Blacklisted, secs * TicksPerSecond)
            \in Databases(Tokens, {Blacklisted}, MaxTTL)
    BY <1>3, Types, DatabaseClosed
  <2> QED
    BY <1>4, <2>1
<1>6. redis'[t].ttl = IF t = x THEN secs * TicksPerSecond ELSE redis[t].ttl
  <2>1. SetEx(redis, x, Blacklisted, secs * TicksPerSecond)[t].ttl
            = IF t = x THEN secs * TicksPerSecond ELSE redis[t].ttl
    <3>1. PICK n \in 0..MaxTTL : n = secs * TicksPerSecond
      BY <1>3
    <3>2. SetEx(redis, x, Blacklisted, n)[t].ttl = IF t = x THEN n ELSE redis[t].ttl
      <4>1. redis \in [Tokens -> [val : {Blacklisted, Nil}, ttl : 0..MaxTTL]]
        BY Types DEF Databases
      <4> QED
        BY <4>1 DEF SetEx
    <3> QED
      BY <3>1, <3>2
  <2> QED
    BY <1>4, <2>1
<1>7. UNCHANGED <<ExpiryOf(t), Now>>
  BY DEF ExpiryOf, Now, clock
<1>8. ASSUME t = x PROVE Covered(t)'
  <2>1. exp[x] * TicksPerSecond <= (sec + secs) * TicksPerSecond
    <3>1. sec + secs \in Nat
      BY <1>2
    <3> QED
      BY <1>2, <3>1, Ticks
  <2>2. (sec + secs) * TicksPerSecond = sec * TicksPerSecond + secs * TicksPerSecond
    BY <1>2, Ticks
  <2>3. ExpiryOf(t) <= Now + secs * TicksPerSecond
    <3>1. /\ sec * TicksPerSecond \in Nat /\ secs * TicksPerSecond \in Nat
          /\ exp[x] * TicksPerSecond \in Nat /\ sub \in Nat
      BY <1>2, Types, Ticks
    <3> QED
      BY <1>8, <2>1, <2>2, <3>1 DEF ExpiryOf, Now
  <2> QED
    BY <1>6, <1>7, <1>8, <2>3 DEF Covered
<1>9. ASSUME t # x, Covered(t) PROVE Covered(t)'
  BY <1>1, <1>6, <1>7, <1>9 DEF Covered
<1> QED
  BY <1>1, <1>5, <1>8, <1>9

\* An absent key uncovers a token only when it is over.
LEMMA AbsentIsOver ==
    ASSUME IInv, NEW t \in Tokens, Covered(t), ~Exists(redis, t)
    PROVE  Expired(t) \/ t \in lost
BY Types DEF Covered, Expired, Exists

\* What a step that leaves the clock and the tokens alone keeps of the
\* requests it leaves alone.
LEMMA OthersKept ==
    ASSUME IInv, NEW q \in Requests, req'[q] = req[q], UNCHANGED <<clock, exp>>,
           lost' \subseteq lost, loggedOut \subseteq loggedOut',
           \A t \in Tokens : Covered(t) => Covered(t)'
    PROVE  RequestOK(q)'
<1>1. req[q].pc # "idle" => req[q].tok \in Tokens
  BY Types
<1>2. \A t \in Tokens : Expired(t)' <=> Expired(t)
  BY DEF Expired, ExpiryOf, Now, clock
<1> QED
  BY <1>1, <1>2 DEF IInv, RequestOK, clock

\* Coverage depends on the clock, the tokens, what was lost and the entries.
LEMMA CoveredKept ==
    ASSUME UNCHANGED <<clock, exp, lost, redis>>
    PROVE  \A t : Covered(t) => Covered(t)'
BY DEF Covered, ExpiryOf, Now, clock

LEMMA NextInv == IInv /\ [Next]_vars => IInv'
<1> SUFFICES ASSUME IInv, [Next]_vars PROVE IInv'
  OBVIOUS
<1>1. ASSUME NEW t \in Tokens, Login(t) PROVE IInv'
  <2>1. TypeOK'
    <3>1. sec + TokenLife \in 0..(MaxSec + TokenLife)
      BY Constants DEF IInv, TypeOK
    <3> QED
      BY <1>1, <3>1 DEF Login, IInv, TypeOK, clock
  <2>2. \A u \in Tokens : exp'[u] <= sec + TokenLife /\ (u # t => exp'[u] = exp[u])
    BY <1>1, Types, Constants DEF Login, IInv
  <2>3. \A u \in Tokens \ {t} : /\ Covered(u)' <=> Covered(u)
                                /\ Expired(u)' <=> Expired(u)
    BY <1>1, <2>2 DEF Login, clock, Covered, Expired, ExpiryOf, Now
  <2>4. ASSUME NEW q \in Requests PROVE RequestOK(q)'
    BY <1>1, <2>2, <2>3 DEF Login, IInv, RequestOK, clock
  <2>5. \A u \in loggedOut : exp'[u] # 0 /\ Covered(u)'
    BY <1>1, <2>2, <2>3 DEF Login, IInv, TypeOK
  <2> QED
    BY <1>1, <2>1, <2>2, <2>4, <2>5 DEF Login, clock, IInv
<1>2. ASSUME NEW r \in Requests, NEW t \in Tokens, NEW kind \in {"use", "logout"},
             Arrive(r, t, kind)
      PROVE  IInv'
  <2>1. UNCHANGED <<clock, exp, lost, redis, loggedOut>>
    BY <1>2 DEF Arrive
  <2>2. TypeOK'
    BY <1>2, Constants DEF Arrive, IInv, TypeOK, RequestType, Pcs, clock
  <2>3. ASSUME NEW q \in Requests PROVE RequestOK(q)'
    <3>1. CASE q = r
      BY <1>2, <3>1, Types DEF Arrive, RequestOK
    <3>2. CASE q # r
      BY <1>2, <2>1, <3>2, CoveredKept, OthersKept, Types DEF Arrive
    <3> QED
      BY <3>1, <3>2
  <2> QED
    BY <2>1, <2>2, <2>3, CoveredKept DEF IInv, TypeOK, clock
<1>3. ASSUME NEW r \in Requests,
             GateParse(r) \/ GateCheck(r) \/ LogoutParse(r) \/ LogoutTTL(r)
      PROVE  IInv'
  <2>1. UNCHANGED <<clock, exp, lost, redis, loggedOut, faults>>
    BY <1>3 DEF GateParse, GateCheck, LogoutParse, LogoutTTL
  <2>2. /\ req[r].tok \in Tokens /\ exp[req[r].tok] # 0 /\ exp[req[r].tok] \in Nat
        /\ exp[req[r].tok] <= sec + TokenLife
        /\ req[r].after => req[r].tok \in loggedOut \ lost
    BY <1>3, Types DEF GateParse, GateCheck, LogoutParse, LogoutTTL, IInv, RequestOK
  <2>3. PICK pc \in Pcs, ttl \in 0..TokenLife :
           /\ req' = [req EXCEPT ![r].pc = pc, ![r].ttl = ttl]
           /\ pc = "set" => exp[req[r].tok] <= sec + ttl
           /\ pc = "done" => Expired(req[r].tok)
           /\ pc = "served" => ~Exists(redis, req[r].tok)
    <3>1. req[r] \in RequestType
      BY Types
    <3>2. CASE GateParse(r) \/ LogoutParse(r)
      <4>1. PICK pc \in {"refused", "check", "ttl"} : req' = [req EXCEPT ![r].pc = pc]
        BY <3>2 DEF GateParse, LogoutParse, Goto
      <4>2. req' = [req EXCEPT ![r].pc = pc, ![r].ttl = req[r].ttl]
        BY <3>1, <4>1, Types DEF RequestType
      <4> QED
        BY <3>1, <4>1, <4>2 DEF RequestType, Pcs
    <3>3. CASE GateCheck(r)
      <4>1. PICK pc \in {"refused", "auth", "served"} :
               /\ req' = [req EXCEPT ![r].pc = pc]
               /\ pc = "served" => ~Exists(redis, req[r].tok)
        BY <3>3 DEF GateCheck, Goto
      <4>2. req' = [req EXCEPT ![r].pc = pc, ![r].ttl = req[r].ttl]
        BY <3>1, <4>1, Types DEF RequestType
      <4> QED
        BY <3>1, <4>1, <4>2 DEF RequestType, Pcs
    <3>4. CASE LogoutTTL(r)
      <4>1. PICK t \in Tokens : t = req[r].tok
        BY <2>2
      <4>2. exp[t] \in Nat /\ exp[t] <= sec + TokenLife /\ sec \in Nat /\ TokenLife \in Nat
        BY <2>2, <4>1, Types, Constants
      <4>3. CASE exp[t] - sec <= 0
        <5>0. exp[t] <= sec
          BY <4>2, <4>3
        <5>1. exp[t] * TicksPerSecond <= sec * TicksPerSecond
          BY <5>0, <4>2, Ticks
        <5>2. sec * TicksPerSecond \in Nat /\ exp[t] * TicksPerSecond \in Nat /\ sub \in Nat
          BY <4>2, Types, Ticks
        <5>3. Expired(t)
          BY <5>1, <5>2 DEF Expired, ExpiryOf, Now
        <5>4. req' = [req EXCEPT ![r].pc = "done", ![r].ttl = 0] /\ 0 \in 0..TokenLife
          BY <3>4, <4>1, <4>2, <4>3 DEF LogoutTTL
        <5> QED
          BY <4>1, <5>3, <5>4 DEF Pcs
      <4>4. CASE ~(exp[t] - sec <= 0)
        <5>1. req' = [req EXCEPT ![r].pc = "set", ![r].ttl = exp[t] - sec]
          BY <3>4, <4>1, <4>4 DEF LogoutTTL
        <5>2. exp[t] - sec \in 0..TokenLife /\ exp[t] <= sec + (exp[t] - sec)
          BY <4>2, <4>4
        <5> QED
          BY <4>1, <5>1, <5>2 DEF Pcs
      <4> QED
        BY <4>3, <4>4
    <3> QED
      BY <1>3, <3>2, <3>3, <3>4
  <2>4. TypeOK'
    BY <2>1, <2>3 DEF IInv, TypeOK, RequestType, clock
  <2>5. ASSUME NEW q \in Requests PROVE RequestOK(q)'
    <3>1. CASE q = r
      <4>1. /\ req'[r].pc = pc /\ req'[r].ttl = ttl /\ req'[r].tok = req[r].tok
            /\ req'[r].after = req[r].after
        BY <2>3, Types DEF RequestType
      <4>2. pc = "done" => Covered(req[r].tok)
        BY <2>2, <2>3, Types DEF Expired, Covered
      <4>3. pc = "served" /\ req[r].after => Expired(req[r].tok)
        BY <2>2, <2>3, AbsentIsOver DEF IInv
      <4> QED
        BY <2>1, <2>2, <2>3, <3>1, <4>1, <4>2, <4>3
           DEF RequestOK, clock, Expired, Covered, ExpiryOf, Now
    <3>2. CASE q # r
      BY <2>1, <2>3, <3>2, CoveredKept, OthersKept, Types
    <3> QED
      BY <3>1, <3>2
  <2> QED
    BY <2>1, <2>4, <2>5, CoveredKept DEF IInv, TypeOK, clock
<1>4. ASSUME NEW r \in Requests, LogoutSet(r) PROVE IInv'
  <2>1. /\ UNCHANGED <<clock, exp, loggedOut, faults>> /\ req[r].pc = "set"
        /\ lost' = lost \ {req[r].tok}
        /\ redis' = SetEx(redis, req[r].tok, Blacklisted, req[r].ttl * TicksPerSecond)
        /\ req' = [req EXCEPT ![r].pc = "done"]
    BY <1>4 DEF LogoutSet, Goto
  <2>2. req[r].tok \in Tokens
    BY <2>1, Types
  <2>3. \A t \in Tokens : t = req[r].tok \/ Covered(t) => Covered(t)'
    BY <2>1, CoveredSet
  <2>4. redis' \in Databases(Tokens, {Blacklisted}, MaxTTL)
    BY <2>1, <2>2, CoveredSet
  <2>5. TypeOK'
    BY <2>1, <2>4 DEF IInv, TypeOK, RequestType, Pcs, clock
  <2>6. ASSUME NEW q \in Requests PROVE RequestOK(q)'
    <3>1. CASE q = r
      <4>1. /\ req'[r].pc = "done" /\ req'[r].tok = req[r].tok
            /\ req'[r].after = req[r].after
        BY <2>1, Types DEF RequestType
      <4> QED
        BY <2>1, <2>2, <2>3, <3>1, <4>1 DEF IInv, RequestOK
    <3>2. CASE q # r
      BY <2>1, <2>3, <3>2, OthersKept, Types
    <3> QED
      BY <3>1, <3>2
  <2> QED
    BY <2>1, <2>3, <2>5, <2>6 DEF IInv, TypeOK, clock
<1>5. ASSUME NEW r \in Requests, Answer(r) PROVE IInv'
  <2>1. /\ UNCHANGED <<clock, exp, lost, redis, faults>> /\ loggedOut \subseteq loggedOut'
        /\ req' = [req EXCEPT ![r] = NoRequest]
        /\ loggedOut' \subseteq Tokens
        /\ \A t \in loggedOut' : exp[t] # 0 /\ Covered(t)
    BY <1>5, Types DEF Answer, IInv, RequestOK, TypeOK
  <2>2. TypeOK'
    BY <2>1, Constants DEF IInv, TypeOK, RequestType, NoRequest, Pcs, clock
  <2>3. ASSUME NEW q \in Requests PROVE RequestOK(q)'
    <3>1. CASE q = r
      BY <2>1, <3>1, Types DEF RequestOK, NoRequest
    <3>2. CASE q # r
      BY <2>1, <3>2, CoveredKept, OthersKept, Types
    <3> QED
      BY <3>1, <3>2
  <2> QED
    BY <2>1, <2>2, <2>3, CoveredKept DEF IInv, clock
<1>6. ASSUME NEW r \in Requests, RedisFails(r) PROVE IInv'
  <2>1. /\ UNCHANGED <<clock, exp, loggedOut>>
        /\ req' = [req EXCEPT ![r].pc = "refused"] /\ faults' \in 0..MaxFaults
        /\ \/ UNCHANGED <<redis, lost>>
           \/ /\ req[r].pc = "set" /\ lost' = lost \ {req[r].tok}
              /\ redis' = SetEx(redis, req[r].tok, Blacklisted,
                                req[r].ttl * TicksPerSecond)
    BY <1>6, Constants DEF RedisFails, Goto, Fault, IInv, TypeOK
  <2>2. req[r].pc # "idle" /\ req[r].tok \in Tokens
    BY <1>6, Types DEF RedisFails
  <2>3. \A t \in Tokens : Covered(t) => Covered(t)'
    BY <2>1, CoveredSet, CoveredKept
  <2>4. redis' \in Databases(Tokens, {Blacklisted}, MaxTTL)
    BY <2>1, <2>2, CoveredSet, Types
  <2>5. TypeOK'
    BY <2>1, <2>4 DEF IInv, TypeOK, RequestType, Pcs, clock
  <2>6. ASSUME NEW q \in Requests PROVE RequestOK(q)'
    <3>1. CASE q = r
      <4>1. /\ req'[r].pc = "refused" /\ req'[r].tok = req[r].tok
            /\ req'[r].after = req[r].after
        BY <2>1, Types DEF RequestType
      <4> QED
        BY <2>1, <2>2, <3>1, <4>1 DEF IInv, RequestOK
    <3>2. CASE q # r
      BY <2>1, <2>3, <3>2, OthersKept, Types
    <3> QED
      BY <3>1, <3>2
  <2> QED
    BY <2>1, <2>3, <2>5, <2>6 DEF IInv, TypeOK, clock
<1>7. CASE RedisRestarts
  <2>1. PICK gone \in SUBSET Tokens :
           /\ redis' = Without(redis, gone) /\ lost' = lost \cup gone
           /\ req' = [r \in Requests |->
                        [req[r] EXCEPT !.after = @ /\ req[r].tok \notin gone]]
    BY <1>7 DEF RedisRestarts
  <2>2. UNCHANGED <<clock, exp, loggedOut>> /\ faults' \in 0..MaxFaults
    BY <1>7, Constants DEF RedisRestarts, Fault, IInv, TypeOK
  <2>3. \A t \in Tokens : Covered(t) => Covered(t)'
    <3>1. \A t \in Tokens \ gone : redis'[t].ttl = redis[t].ttl
      BY <2>1, Types, EntryAfter
    <3> QED
      BY <2>1, <2>2, <3>1 DEF Covered, ExpiryOf, Now, clock
  <2>4. redis' \in Databases(Tokens, {Blacklisted}, MaxTTL)
    BY <2>1, Types, DatabaseClosed
  <2>5. ASSUME NEW q \in Requests PROVE req'[q] \in RequestType /\ RequestOK(q)'
    <3>1. PICK after \in BOOLEAN :
             /\ req'[q] = [req[q] EXCEPT !.after = after]
             /\ after => req[q].after /\ req[q].tok \notin gone
      BY <2>1, Types DEF RequestType
    <3>2. req[q] \in RequestType
      BY Types
    <3>3. /\ req'[q].pc = req[q].pc /\ req'[q].tok = req[q].tok
          /\ req'[q].ttl = req[q].ttl /\ req'[q].after = after
      BY <3>1, <3>2 DEF RequestType
    <3>4. req'[q] \in RequestType
      BY <3>1, <3>2 DEF RequestType
    <3>5. /\ req[q].pc # "idle" => req[q].tok \in Tokens
          /\ \A t \in Tokens : Expired(t)' <=> Expired(t)
      BY <2>2, Types DEF Expired, ExpiryOf, Now, clock
    <3> QED
      BY <2>1, <2>2, <2>3, <3>1, <3>3, <3>4, <3>5 DEF IInv, RequestOK, clock
  <2>6. req' \in [Requests -> RequestType]
    BY <2>1, <2>5
  <2>7. TypeOK'
    BY <2>1, <2>2, <2>4, <2>6 DEF IInv, TypeOK, clock
  <2> QED
    BY <2>2, <2>3, <2>5, <2>7 DEF IInv, TypeOK, clock
<1>8. CASE Tick
  <2>1. UNCHANGED <<exp, req, loggedOut, lost, faults>> /\ redis' = Aged(redis)
    BY <1>8 DEF Tick
  <2>2. \A t \in Tokens : Covered(t) => Covered(t)'
    BY <1>8, CoveredTick
  <2>3. redis' \in Databases(Tokens, {Blacklisted}, MaxTTL)
    BY <2>1, Types, DatabaseClosed
  <2>4. TypeOK'
    BY <1>8, <2>1, <2>3, OneTick, Constants DEF IInv, TypeOK
  <2>5. \A t \in Tokens : Expired(t) => Expired(t)'
    BY <1>8, <2>1, OneTick, Types DEF Expired, ExpiryOf
  <2>6. /\ sec \in Nat /\ sec' \in Nat /\ sec <= sec'
        /\ \A t \in Tokens : exp[t] \in Nat
    BY <1>8, Types, OneTick
  <2>7. ASSUME NEW q \in Requests PROVE RequestOK(q)'
    <3>1. req[q].pc # "idle" => req[q].tok \in Tokens
      BY Types
    <3>2. req[q].ttl \in Nat
      BY Types, Constants DEF RequestType
    <3> QED
      BY <2>1, <2>2, <2>5, <2>6, <3>1, <3>2 DEF IInv, RequestOK
  <2>8. \A t \in Tokens : exp'[t] <= sec' + TokenLife
    BY <2>1, <2>6, Constants DEF IInv
  <2> QED
    BY <2>1, <2>2, <2>4, <2>7, <2>8 DEF IInv, TypeOK
<1>9. CASE UNCHANGED vars
  BY <1>9 DEF vars, clock, IInv, TypeOK, RequestOK, Covered, Now, ExpiryOf, Expired
<1> QED
  BY <1>1, <1>2, <1>3, <1>4, <1>5, <1>6, <1>7, <1>8, <1>9 DEF Next, RequestStep

\* Every variable of the specification keeps its type.
THEOREM SessionsTypeCorrect == Spec => []TypeOK
<1>1. IInv => TypeOK
  BY DEF IInv
<1> QED
  BY InitInv, NextInv, <1>1, PTL DEF Spec

\* The entry that a logout leaves in Redis lasts as long as its token.
THEOREM BlacklistLasts == Spec => []BlacklistOutlives
<1>1. IInv => BlacklistOutlives
  BY DEF IInv, BlacklistOutlives, Covered
<1> QED
  BY InitInv, NextInv, <1>1, PTL DEF Spec

\* No request made after an acknowledged logout gets through before the token
\* expires, whatever the interleaving of the gateway's and auth's steps.
THEOREM LogoutIsEffective == Spec => []NoUseAfterLogout
<1>1. IInv => NoUseAfterLogout
  BY DEF IInv, RequestOK, NoUseAfterLogout
<1> QED
  BY InitInv, NextInv, <1>1, PTL DEF Spec
=============================================================================
