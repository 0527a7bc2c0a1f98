--------------------------- MODULE RegistryProofs ---------------------------
(* Theorems about Registry. *)
EXTENDS Registry, RedisProofs

\* A free slot holds no request; a request is about a service.
ReqOK ==
    \A h \in Handlers : \/ req[h] = NoRequest
                        \/ /\ req[h].pc # "idle"
                           /\ req[h].name \in Services
                           /\ req[h].addr \in Addresses

\* There is an attempt left as long as registerService makes one.
AttemptOK ==
    \A s \in Services :
        phase[s] \in {"register", "registering"} => attempt[s] < RetryAttempts

\* The request a client waits for is one of its own, of the right kind.
CallOK ==
    \A s \in Services :
        /\ call[s] = NoCall <=> phase[s] \notin {"registering", "beating"}
        /\ call[s] # NoCall =>
              /\ req[call[s]].pc # "idle" /\ req[call[s]].name = s
              /\ phase[s] = "beating" =>
                    /\ req[call[s]].op = "heartbeat"
                    /\ req[call[s]].pc \notin {"exists", "set", "created"}

Shape == TypeOK /\ ReqOK /\ AttemptOK /\ CallOK

\* A service that runs is not down, and what it left behind is no older than
\* its last moment.
StopOK ==
    /\ \A s \in Services : Alive(s) => downFor[s] = 0
    /\ \A h \in Handlers :
          req[h].pc # "idle" => downFor[req[h].name] <= req[h].age

\* How much time the entry of an undisturbed service has left: what passed
\* since the SET that is being acknowledged, since the EXPIRE that is, or
\* since whichever of them came before the heartbeat that is due.
HeldLease(s) ==
    LET ttl == redis[s].ttl
        r == req[call[s]]
    IN  /\ ack[s] # "none" => phase[s] \in {"beat", "beating"}
        /\ phase[s] = "registering" /\ clean[s] /\ r.pc = "created"
              => ttl + r.age >= ServiceTTL
        /\ ack[s] = "created" /\ clean[s] /\ phase[s] = "beat"
              => ttl + HeartbeatDelay + MaxLatency >= timer[s] + ServiceTTL
        /\ ack[s] = "created" /\ clean[s] /\ phase[s] = "beating"
              => /\ timer[s] + r.age = HeartbeatDelay
                 /\ \/ /\ r.pc \in {"refresh", "expire"}
                       /\ ttl + HeartbeatDelay + MaxLatency + r.age >= ServiceTTL
                    \/ /\ r.pc = "ok"
                       /\ ttl + r.age >= ServiceTTL

LeaseOK == \A s \in Services : HeldLease(s)

\* What the proofs use of the assumptions about the constants.
LEMMA Times ==
    /\ ServiceTTL \in Nat /\ HeartbeatDelay \in Nat /\ RetryDelay \in Nat
    /\ RetryAttempts \in Nat /\ MaxLatency \in Nat /\ MaxFaults \in Nat
    /\ 0 < ServiceTTL /\ 0 < RetryAttempts /\ 0 < MaxLatency
    /\ MaxLatency < HeartbeatDelay
    /\ HeartbeatDelay + 2 * MaxLatency < ServiceTTL
    /\ DownCap \in Nat /\ ServiceTTL + MaxLatency <= DownCap
    /\ NoCall \notin Handlers
BY NamesAssumption, TimingAssumption DEF NamesAssumption, TimingAssumption

LEMMA ShapeInit == Init => Shape
<1> SUFFICES ASSUME Init PROVE Shape
  OBVIOUS
<1>1. redis \in Databases(Keys, Values, ServiceTTL)
  BY Times DEF Init, Databases, Absent
<1>2. req \in [Handlers -> Requests]
  BY Times DEF Init, Requests, NoRequest
<1>3. TypeOK
  BY Times, <1>1, <1>2 DEF Init, TypeOK, Phases
<1>4. ReqOK /\ AttemptOK /\ CallOK
  BY Times DEF Init, ReqOK, AttemptOK, CallOK
<1> QED
  BY <1>3, <1>4 DEF Shape

\* The commands of the handlers keep the database well formed.
LEMMA RedisShape ==
    ASSUME Shape, NEW h \in Handlers, req[h].pc # "idle"
    PROVE  /\ SetEx(redis, req[h].name, req[h].addr, ServiceTTL)
                \in Databases(Keys, Values, ServiceTTL)
           /\ Expire(redis, req[h].name, ServiceTTL)
                \in Databases(Keys, Values, ServiceTTL)
<1>1. redis \in Databases(Keys, Values, ServiceTTL)
  BY DEF Shape, TypeOK
<1>2. ServiceTTL \in Nat /\ ServiceTTL \in 0..ServiceTTL
  BY Times
<1>3. req[h].addr \in Values
  BY DEF Shape, ReqOK, NoRequest, Values
<1> QED
  BY <1>1, <1>2, <1>3, DatabaseClosed

\* A request that moves to another program counter keeps its shape, unless a
\* heartbeat strays into a registration.
LEMMA GotoShape ==
    ASSUME Shape, NEW h \in Handlers, NEW pc \in RedisPcs \cup Replies,
           req[h].pc # "idle", Goto(h, pc), UNCHANGED client,
           req[h].op = "heartbeat" /\ req[h].pc \notin {"exists", "set", "created"}
               => pc \notin {"exists", "set", "created"}
    PROVE  /\ req' \in [Handlers -> Requests]
           /\ ReqOK' /\ AttemptOK' /\ CallOK'
<1> USE DEF Shape, TypeOK, Goto
<1>1. req' \in [Handlers -> Requests]
  BY Times DEF Requests
<1>2. ReqOK'
  BY DEF ReqOK, NoRequest, RedisPcs, Replies, Requests
<1>3. AttemptOK'
  BY DEF AttemptOK, client
<1>4. CallOK'
  <2> SUFFICES ASSUME NEW s \in Services, call[s] # NoCall
               PROVE  /\ req'[call[s]].pc # "idle" /\ req'[call[s]].name = s
                      /\ phase[s] = "beating" =>
                            /\ req'[call[s]].op = "heartbeat"
                            /\ req'[call[s]].pc \notin {"exists", "set", "created"}
    BY DEF CallOK, client
  <2>1. req[call[s]] \in Requests /\ call[s] \in Handlers
    OBVIOUS
  <2>2. CASE call[s] = h
    BY <2>1, <2>2 DEF CallOK, Requests, RedisPcs, Replies
  <2>3. CASE call[s] # h
    BY <2>1, <2>3 DEF CallOK
  <2> QED
    BY <2>2, <2>3
<1> QED
  BY <1>1, <1>2, <1>3, <1>4

\* So does one that starts in a free slot, for a client that had none out.
LEMMA SendShape ==
    ASSUME Shape, NEW s \in Services, NEW h \in Handlers,
           NEW operation \in {"register", "heartbeat"}, NEW pc \in {"exists", "refresh"},
           call[s] = NoCall, Send(s, h, operation, pc),
           UNCHANGED <<addr, attempt>>,
           \/ phase' = [phase EXCEPT ![s] = "registering"] /\ attempt[s] < RetryAttempts
           \/ /\ phase' = [phase EXCEPT ![s] = "beating"]
              /\ operation = "heartbeat" /\ pc = "refresh"
    PROVE  /\ req' \in [Handlers -> Requests]
           /\ call' \in [Services -> Handlers \cup {NoCall}]
           /\ ReqOK' /\ AttemptOK' /\ CallOK'
<1> USE DEF Shape, TypeOK, Send, Idle
<1>1. req' \in [Handlers -> Requests]
  BY Times DEF Requests, RedisPcs
<1>2. ReqOK'
  BY DEF ReqOK, NoRequest
<1>3. AttemptOK'
  BY DEF AttemptOK
<1>4. CallOK'
  <2> SUFFICES ASSUME NEW t \in Services
               PROVE  /\ call'[t] = NoCall <=> phase'[t] \notin {"registering", "beating"}
                      /\ call'[t] # NoCall =>
                            /\ req'[call'[t]].pc # "idle" /\ req'[call'[t]].name = t
                            /\ phase'[t] = "beating" =>
                                  /\ req'[call'[t]].op = "heartbeat"
                                  /\ req'[call'[t]].pc \notin {"exists", "set", "created"}
    BY DEF CallOK
  <2>1. CASE t = s
    BY Times, <2>1 DEF CallOK
  <2>2. CASE t # s
    <3>1. call'[t] = call[t] /\ phase'[t] = phase[t]
      BY <2>2
    <3>2. call[t] # NoCall => call[t] # h
      BY DEF CallOK
    <3> QED
      BY <3>1, <3>2 DEF CallOK
  <2> QED
    BY <2>1, <2>2
<1> QED
  BY <1>1, <1>2, <1>3, <1>4

\* So does one that ends, answered or aborted.
LEMMA EndShape ==
    ASSUME Shape, NEW h \in Handlers, req[h].pc # "idle",
           req' = [req EXCEPT ![h] = NoRequest],
           NEW answer,
           IF call[req[h].name] = h THEN Receive(req[h].name, answer)
                                    ELSE UNCHANGED <<client, ack>>
    PROVE  /\ req' \in [Handlers -> Requests]
           /\ phase' \in [Services -> Phases]
           /\ attempt' \in [Services -> 0..RetryAttempts]
           /\ timer' \in [Services -> 0..(HeartbeatDelay + RetryDelay)]
           /\ call' \in [Services -> Handlers \cup {NoCall}]
           /\ ack' \in [Services -> {"none", "refreshed", "created"}]
           /\ addr' = addr
           /\ ReqOK' /\ AttemptOK' /\ CallOK'
<1> USE DEF Shape, TypeOK
<1> DEFINE s == req[h].name
<1>1. req' \in [Handlers -> Requests]
  BY Times DEF Requests, NoRequest
<1>2. ReqOK'
  BY DEF ReqOK
<1>3. s \in Services
  BY DEF ReqOK, NoRequest
<1>4. \A t \in Services : call[t] = h => t = s
  BY Times DEF CallOK
<1>5. CASE call[s] = h
  <2>1. phase[s] \in {"registering", "beating"}
    BY Times, <1>3, <1>5 DEF CallOK
  <2>2. /\ phase' \in [Services -> Phases]
        /\ attempt' \in [Services -> 0..RetryAttempts]
        /\ timer' \in [Services -> 0..(HeartbeatDelay + RetryDelay)]
        /\ call' = [call EXCEPT ![s] = NoCall]
        /\ ack' \in [Services -> {"none", "refreshed", "created"}]
        /\ addr' = addr
    BY Times, <1>3, <1>5 DEF Receive, AttemptFailed, StartHeartbeat, Phases, AttemptOK
  <2>3. AttemptOK'
    BY Times, <1>3, <1>5 DEF Receive, AttemptFailed, StartHeartbeat, AttemptOK
  <2>4. /\ phase'[s] \in {"beat", "retry"}
        /\ \A t \in Services \ {s} : phase'[t] = phase[t]
    BY Times, <1>3, <1>5 DEF Receive, AttemptFailed, StartHeartbeat
  <2>5. CallOK'
    BY <1>3, <1>4, <2>2, <2>4 DEF CallOK
  <2> QED
    BY <1>1, <1>2, <2>2, <2>3, <2>5
<1>6. CASE call[s] # h
  BY <1>1, <1>2, <1>3, <1>4, <1>6 DEF client, CallOK, AttemptOK
<1> QED
  BY <1>5, <1>6

LEMMA ShapeStep == Shape /\ [Next]_vars => Shape'
<1> SUFFICES ASSUME Shape, [Next]_vars PROVE Shape'
  OBVIOUS
<1> USE DEF Shape, TypeOK
<1>1. ASSUME NEW s \in Services, Start(s) PROVE Shape'
  BY Times, <1>1 DEF Start, Phases, ReqOK, AttemptOK, CallOK
<1>2. ASSUME NEW s \in Services, Stop(s) PROVE Shape'
  BY Times, <1>2 DEF Stop, Phases, ReqOK, AttemptOK, CallOK
<1>3. ASSUME NEW s \in Services, PostRegister(s) PROVE Shape'
  <2>1. PICK h \in Handlers : Send(s, h, "register", "exists")
    BY <1>3 DEF PostRegister
  <2>2. call[s] = NoCall /\ attempt[s] < RetryAttempts
    BY <1>3 DEF PostRegister, CallOK, AttemptOK
  <2>3. /\ req' \in [Handlers -> Requests]
        /\ call' \in [Services -> Handlers \cup {NoCall}]
        /\ ReqOK' /\ AttemptOK' /\ CallOK'
    BY <1>3, <2>1, <2>2, SendShape DEF PostRegister
  <2> QED
    BY <1>3, <2>3 DEF PostRegister, Phases
<1>4. ASSUME NEW s \in Services, PostHeartbeat(s) PROVE Shape'
  <2>1. PICK h \in Handlers : Send(s, h, "heartbeat", "refresh")
    BY <1>4 DEF PostHeartbeat
  <2>2. call[s] = NoCall
    BY <1>4 DEF PostHeartbeat, CallOK
  <2>3. /\ req' \in [Handlers -> Requests]
        /\ call' \in [Services -> Handlers \cup {NoCall}]
        /\ ReqOK' /\ AttemptOK' /\ CallOK'
    BY <1>4, <2>1, <2>2, SendShape DEF PostHeartbeat
  <2>4. /\ phase' \in [Services -> Phases]
        /\ timer' \in [Services -> 0..(HeartbeatDelay + RetryDelay)]
    BY Times, <1>4 DEF PostHeartbeat, Phases
  <2> QED
    BY <1>4, <2>3, <2>4 DEF PostHeartbeat, history
<1>5. ASSUME NEW s \in Services, Wake(s) PROVE Shape'
  BY Times, <1>5 DEF Wake, StartHeartbeat, Phases, history, ReqOK, AttemptOK, CallOK
<1>6. ASSUME NEW s \in Services, SendFails(s) PROVE Shape'
  BY Times, <1>6 DEF SendFails, Fault, AttemptFailed, Phases, ReqOK, AttemptOK, CallOK
<1>7. ASSUME NEW s \in Services, AnswerLost(s) PROVE Shape'
  BY Times, <1>7 DEF AnswerLost, Fault, Receive, AttemptFailed, StartHeartbeat, Phases,
              ReqOK, AttemptOK, CallOK
<1>8. ASSUME NEW h \in Handlers, RegisterExists(h) PROVE Shape'
  <2>1. /\ req' \in [Handlers -> Requests]
        /\ ReqOK' /\ AttemptOK' /\ CallOK'
    BY <1>8, GotoShape DEF RegisterExists, RedisPcs
  <2> QED
    BY <1>8, <2>1 DEF RegisterExists, client, history
<1>9. ASSUME NEW h \in Handlers, RegisterSet(h) PROVE Shape'
  <2>1. /\ req' \in [Handlers -> Requests]
        /\ ReqOK' /\ AttemptOK' /\ CallOK'
    BY <1>9, GotoShape DEF RegisterSet, Replies
  <2>2. redis' \in Databases(Keys, Values, ServiceTTL)
    BY <1>9, RedisShape DEF RegisterSet
  <2> QED
    BY <1>9, <2>1, <2>2 DEF RegisterSet, client, history
<1>10. ASSUME NEW h \in Handlers, UpdateTTLExists(h) PROVE Shape'
  <2>1. /\ req' \in [Handlers -> Requests]
        /\ ReqOK' /\ AttemptOK' /\ CallOK'
    BY <1>10, GotoShape DEF UpdateTTLExists, RedisPcs, Replies
  <2> QED
    BY <1>10, <2>1 DEF UpdateTTLExists, client, history
<1>11. ASSUME NEW h \in Handlers, UpdateTTLExpire(h) PROVE Shape'
  <2>1. /\ req' \in [Handlers -> Requests]
        /\ ReqOK' /\ AttemptOK' /\ CallOK'
    BY <1>11, GotoShape DEF UpdateTTLExpire, Replies
  <2>2. redis' \in Databases(Keys, Values, ServiceTTL)
    BY <1>11, RedisShape DEF UpdateTTLExpire
  <2> QED
    BY <1>11, <2>1, <2>2 DEF UpdateTTLExpire, client, history
<1>12. ASSUME NEW h \in Handlers, Reply(h) PROVE Shape'
  <2>1. /\ req[h].pc # "idle"
        /\ req' = [req EXCEPT ![h] = NoRequest]
        /\ IF call[req[h].name] = h THEN Receive(req[h].name, req[h].pc)
                                    ELSE UNCHANGED <<client, ack>>
        /\ UNCHANGED <<redis, clean, downFor, own, faults>>
    BY <1>12 DEF Reply, Replies
  <2> QED
    BY <2>1, EndShape
<1>13. ASSUME NEW h \in Handlers, RedisFails(h) PROVE Shape'
  <2>1. /\ req' \in [Handlers -> Requests]
        /\ ReqOK' /\ AttemptOK' /\ CallOK'
    BY <1>13, GotoShape DEF RedisFails, Replies, RedisPcs
  <2>2. redis' \in Databases(Keys, Values, ServiceTTL)
    BY <1>13, RedisShape DEF RedisFails, RedisPcs
  <2> QED
    BY Times, <1>13, <2>1, <2>2 DEF RedisFails, Fault, client
<1>14. ASSUME NEW h \in Handlers, Abort(h) PROVE Shape'
  <2>1. /\ req[h].pc # "idle"
        /\ req' = [req EXCEPT ![h] = NoRequest]
        /\ IF call[req[h].name] = h THEN Receive(req[h].name, "lost")
                                    ELSE UNCHANGED <<client, ack>>
        /\ UNCHANGED <<redis, downFor, own>>
        /\ Fault(Callers(h))
    BY <1>14 DEF Abort, Idle
  <2>2. faults' \in 0..MaxFaults /\ clean' \in [Services -> BOOLEAN]
    BY Times, <2>1 DEF Fault
  <2> QED
    BY <2>1, <2>2, EndShape
<1>15. CASE RedisRestarts
  BY Times, <1>15 DEF RedisRestarts, Fault, Without, Absent, Databases, client,
               ReqOK, AttemptOK, CallOK
<1>16. CASE Tick
  <2>1. redis' \in Databases(Keys, Values, ServiceTTL)
    BY Times, <1>16, DatabaseClosed DEF Tick
  <2>2. req' \in [Handlers -> Requests]
    BY Times, <1>16 DEF Tick, NothingDue, Idle, Requests
  <2>3. timer' \in [Services -> 0..(HeartbeatDelay + RetryDelay)]
    <3>1. \A s \in Services : phase[s] \in Waiting => timer[s] > 0
      BY <1>16 DEF Tick, NothingDue
    <3>2. timer' = [s \in Services |->
                      IF phase[s] \in Waiting THEN timer[s] - 1 ELSE timer[s]]
      BY <1>16 DEF Tick
    <3> QED
      BY Times, <3>1, <3>2
  <2>7. downFor' \in [Services -> 0..DownCap]
    <3>1. downFor' = [s \in Services |->
                        IF Alive(s) \/ downFor[s] = DownCap THEN downFor[s]
                                                            ELSE downFor[s] + 1]
      BY <1>16 DEF Tick
    <3>2. DownCap \in Nat /\ downFor \in [Services -> 0..DownCap]
      BY Times
    <3> QED
      BY <3>1, <3>2
  <2>4. ReqOK'
    BY Times, <1>16 DEF Tick, ReqOK, Idle, NoRequest
  <2>5. \A h \in Handlers : /\ req'[h].pc = req[h].pc /\ req'[h].op = req[h].op
                            /\ req'[h].name = req[h].name
    BY Times, <1>16 DEF Tick, Requests
  <2>6. AttemptOK' /\ CallOK'
    BY <1>16, <2>5 DEF Tick, AttemptOK, CallOK
  <2> QED
    BY <1>16, <2>1, <2>2, <2>3, <2>4, <2>6, <2>7 DEF Tick
<1>17. CASE UNCHANGED vars
  BY <1>17 DEF vars, client, history, ReqOK, AttemptOK, CallOK
<1> QED
  BY <1>1, <1>2, <1>3, <1>4, <1>5, <1>6, <1>7, <1>8, <1>9, <1>10, <1>11,
     <1>12, <1>13, <1>14, <1>15, <1>16, <1>17
     DEF Next, ClientStep, HandlerStep

\* Every variable of the specification keeps its type.
THEOREM TypeCorrect == Spec => []TypeOK
<1>1. Shape => TypeOK
  BY DEF Shape
<1> QED
  BY ShapeInit, ShapeStep, <1>1, PTL DEF Spec

\* What the commands do to the time the entry of s has left.
LEMMA TtlAfter ==
    ASSUME Shape, NEW s \in Services, NEW n \in Services
    PROVE  /\ redis[s].ttl \in 0..ServiceTTL
           /\ \A v \in Values : SetEx(redis, n, v, ServiceTTL)[s].ttl =
                        IF s = n THEN ServiceTTL ELSE redis[s].ttl
           /\ Expire(redis, n, ServiceTTL)[s].ttl =
                        IF s = n /\ redis[s].ttl > 0 THEN ServiceTTL ELSE redis[s].ttl
           /\ Aged(redis)[s].ttl = IF redis[s].ttl > 1 THEN redis[s].ttl - 1 ELSE 0
           /\ \A lost \in SUBSET Keys : Without(redis, lost)[s].ttl =
                        IF s \in lost THEN 0 ELSE redis[s].ttl
<1>1. redis \in Databases(Keys, Values, ServiceTTL) /\ s \in Keys /\ n \in Keys
  BY DEF Shape, TypeOK, Keys
<1>2. ServiceTTL \in Nat /\ ServiceTTL \in 0..ServiceTTL
  BY Times
<1>3. \A lost \in SUBSET Keys : Without(redis, lost)[s] = IF s \in lost THEN Absent ELSE redis[s]
  BY <1>1, <1>2, EntryAfter
<1> QED
  BY <1>1, <1>2, <1>3, EntryAfter DEF Absent

\* A request that moves on changes its program counter only.
LEMMA GotoKeeps ==
    ASSUME Shape, NEW h \in Handlers, NEW pc, req[h].pc # "idle", Goto(h, pc)
    PROVE  \A g \in Handlers :
              /\ req'[g].name = req[g].name /\ req'[g].age = req[g].age
              /\ req'[g].pc = IF g = h THEN pc ELSE req[g].pc
              /\ req'[g].pc # "idle" => req[g].pc # "idle"
BY DEF Shape, TypeOK, Requests, Goto

\* The calls of a step, in the terms the two invariants below need.
LEMMA Ages ==
    ASSUME Shape, NEW h \in Handlers
    PROVE  /\ req[h].age \in 0..MaxLatency
           /\ req[h].pc # "idle" => req[h].name \in Services
           /\ \A s \in Services : call[s] = h => req[h].pc # "idle" /\ req[h].name = s
BY Times DEF Shape, TypeOK, Requests, ReqOK, CallOK, NoRequest

LEMMA StopInit == Init => StopOK /\ DeadForgotten
BY DEF Init, StopOK, DeadForgotten, Alive, Listed, Exists, Absent, NoRequest, Keys

LEMMA StopStep ==
    Shape /\ StopOK /\ DeadForgotten /\ [Next]_vars => StopOK' /\ DeadForgotten'
<1> SUFFICES ASSUME Shape, StopOK, DeadForgotten, [Next]_vars
             PROVE  StopOK' /\ DeadForgotten'
  OBVIOUS
<1> USE DEF StopOK, DeadForgotten, Alive, Listed, Exists
<1>0. /\ downFor \in [Services -> 0..DownCap] /\ req \in [Handlers -> Requests]
      /\ phase \in [Services -> Phases] /\ DownCap \in Nat
      /\ \A s \in Services : redis[s].ttl \in 0..ServiceTTL
  BY Times, TtlAfter DEF Shape, TypeOK
<1>1. ASSUME NEW s \in Services, Start(s) PROVE StopOK' /\ DeadForgotten'
  BY <1>0, <1>1, Ages DEF Start
<1>2. ASSUME NEW s \in Services, Stop(s) PROVE StopOK' /\ DeadForgotten'
  BY Times, <1>0, <1>2 DEF Stop
<1>3. ASSUME NEW s \in Services, PostRegister(s) \/ PostHeartbeat(s)
      PROVE  StopOK' /\ DeadForgotten'
  BY <1>0, <1>3 DEF PostRegister, PostHeartbeat, Send, Idle, history
<1>4. ASSUME NEW s \in Services, Wake(s) \/ SendFails(s) \/ AnswerLost(s)
      PROVE  StopOK' /\ DeadForgotten'
  BY <1>0, <1>4 DEF Wake, SendFails, AnswerLost, AttemptFailed, StartHeartbeat,
                    Receive, history
<1>5. ASSUME NEW h \in Handlers, RegisterExists(h) \/ UpdateTTLExists(h)
      PROVE  StopOK' /\ DeadForgotten'
  BY <1>0, <1>5, GotoKeeps DEF RegisterExists, UpdateTTLExists, client, history
<1>6. ASSUME NEW h \in Handlers, RegisterSet(h) \/ UpdateTTLExpire(h) \/ RedisFails(h)
      PROVE  StopOK' /\ DeadForgotten'
  <2>1. /\ req[h].name \in Services /\ req[h].age \in 0..MaxLatency
        /\ downFor[req[h].name] <= req[h].age
    BY <1>6, Ages DEF RegisterSet, UpdateTTLExpire, RedisFails, RedisPcs
  <2>2. UNCHANGED <<phase, downFor>>
    BY <1>6 DEF RegisterSet, UpdateTTLExpire, RedisFails, client, history
  <2>6. req[h].addr \in Values
    BY <1>6 DEF RegisterSet, UpdateTTLExpire, RedisFails, RedisPcs, Shape, ReqOK,
                NoRequest, Values
  <2>3. \A s \in Services : \/ redis'[s].ttl = redis[s].ttl
                            \/ s = req[h].name /\ redis'[s].ttl = ServiceTTL
    BY <1>6, <2>1, <2>6, TtlAfter DEF RegisterSet, UpdateTTLExpire, RedisFails
  <2>4. DeadForgotten'
    BY Times, <1>0, <2>1, <2>2, <2>3
  <2>5. StopOK'
    BY <1>0, <1>6, <2>2, GotoKeeps DEF RegisterSet, UpdateTTLExpire, RedisFails, RedisPcs
  <2> QED
    BY <2>4, <2>5
<1>7. ASSUME NEW h \in Handlers, Reply(h) \/ Abort(h)
      PROVE  StopOK' /\ DeadForgotten'
  <2>1. UNCHANGED <<redis, downFor>> /\ req' = [req EXCEPT ![h] = NoRequest]
    BY <1>7 DEF Reply, Abort
  <2>2. req[h].name \in Services
    BY <1>7, Ages DEF Reply, Replies, Abort, Idle
  <2>3. \A s \in Services : phase'[s] = "down" <=> phase[s] = "down"
    BY <1>0, <1>7, <2>2 DEF Reply, Abort, Receive, AttemptFailed, StartHeartbeat, client
  <2> QED
    BY <1>0, <2>1, <2>3 DEF NoRequest
<1>8. CASE RedisRestarts
  <2>1. \A s \in Services : redis'[s].ttl = redis[s].ttl \/ redis'[s].ttl = 0
    BY <1>8, TtlAfter DEF RedisRestarts
  <2> QED
    BY <1>0, <1>8, <2>1 DEF RedisRestarts, client
<1>9. CASE Tick
  <2>1. \A s \in Services :
           /\ phase'[s] = phase[s]
           /\ redis'[s].ttl = IF redis[s].ttl > 1 THEN redis[s].ttl - 1 ELSE 0
           /\ downFor'[s] = IF phase[s] # "down" \/ downFor[s] = DownCap
                            THEN downFor[s] ELSE downFor[s] + 1
    BY <1>9, TtlAfter DEF Tick
  <2>2. \A h \in Handlers :
           /\ req'[h].pc = req[h].pc /\ req'[h].name = req[h].name
           /\ req[h].pc # "idle" => req'[h].age = req[h].age + 1
    BY <1>0, <1>9 DEF Tick, Idle, Requests
  <2>3. DeadForgotten'
    BY Times, <1>0, <2>1
  <2>4. ASSUME NEW h \in Handlers, req[h].pc # "idle"
        PROVE  downFor'[req[h].name] <= req[h].age + 1
    BY Times, <1>0, <2>1, <2>4, Ages
  <2>5. StopOK'
    BY <2>1, <2>2, <2>4
  <2> QED
    BY <2>3, <2>5
<1>10. CASE UNCHANGED vars
  BY <1>10 DEF vars, client, history
<1> QED
  BY <1>1, <1>2, <1>3, <1>4, <1>5, <1>6, <1>7, <1>8, <1>9, <1>10
     DEF Next, ClientStep, HandlerStep

\* A stopped service is out of the registry ServiceTTL + MaxLatency ticks
\* after its stop, whatever requests it left behind.
THEOREM DeadServicesForgotten == Spec => []DeadForgotten
BY ShapeInit, ShapeStep, StopInit, StopStep, PTL DEF Spec

\* A service that is listed under its own address only has no request under
\* another either.
OwnOK ==
    /\ OwnAddress
    /\ \A h \in Handlers :
          req[h].pc # "idle" /\ own[req[h].name] => req[h].addr = addr[req[h].name]

\* What the commands do to the address in the entry of s.
LEMMA ValueKept ==
    ASSUME Shape, NEW s \in Services, NEW n \in Services
    PROVE  /\ \A v \in Values : SetEx(redis, n, v, ServiceTTL)[s].val =
                        IF s = n THEN v ELSE redis[s].val
           /\ Expire(redis, n, ServiceTTL)[s].val = redis[s].val
           /\ redis[s].ttl > 1 => Aged(redis)[s].val = redis[s].val
           /\ \A lost \in SUBSET Keys :
                 s \notin lost => Without(redis, lost)[s] = redis[s]
<1>1. redis \in Databases(Keys, Values, ServiceTTL) /\ s \in Keys /\ n \in Keys
  BY DEF Shape, TypeOK, Keys
<1>2. ServiceTTL \in Nat /\ ServiceTTL \in 0..ServiceTTL
  BY Times
<1>3. redis[s].ttl > 1 => Aged(redis)[s].val = redis[s].val
  BY <1>1 DEF Aged, Databases
<1>4. \A lost \in SUBSET Keys : s \notin lost => Without(redis, lost)[s] = redis[s]
  BY <1>1, <1>2, EntryAfter
<1> QED
  BY <1>1, <1>2, <1>3, <1>4, EntryAfter

LEMMA OwnInit == Init => OwnOK
BY DEF Init, OwnOK, OwnAddress, Listed, Exists, Absent, NoRequest, Keys

LEMMA OwnStep ==
    Shape /\ StopOK /\ DeadForgotten /\ OwnOK /\ [Next]_vars => OwnOK'
<1> SUFFICES ASSUME Shape, StopOK, DeadForgotten, OwnOK, [Next]_vars
             PROVE  OwnOK'
  OBVIOUS
<1> USE DEF OwnOK, OwnAddress, Listed, Exists
<1>0. /\ downFor \in [Services -> 0..DownCap] /\ req \in [Handlers -> Requests]
      /\ addr \in [Services -> Addresses] /\ own \in [Services -> BOOLEAN]
      /\ \A s \in Services : redis[s].ttl \in 0..ServiceTTL
  BY Times, TtlAfter DEF Shape, TypeOK
<1>1. ASSUME NEW s \in Services, Start(s) PROVE OwnOK'
  <2>1. PICK a \in Addresses :
           /\ addr' = [addr EXCEPT ![s] = a]
           /\ own' = [own EXCEPT ![s] = Forgotten(s) \/ (own[s] /\ a = addr[s])]
    BY <1>1 DEF Start
  <2>2. ~Alive(s) /\ UNCHANGED <<redis, req>>
    BY <1>1 DEF Start, Alive
  <2>3. ASSUME Forgotten(s)
        PROVE  /\ ~Listed(s)
               /\ \A h \in Handlers : req[h].pc # "idle" => req[h].name # s
    <3>1. downFor[s] \in Nat /\ downFor[s] >= ServiceTTL + MaxLatency
      BY <1>0, <2>3 DEF Forgotten
    <3>2. ~Listed(s)
      BY Times, <1>0, <2>2, <3>1 DEF DeadForgotten
    <3>3. ASSUME NEW h \in Handlers, req[h].pc # "idle" PROVE req[h].name # s
      BY Times, <3>1, <3>3, Ages DEF StopOK
    <3> QED
      BY <3>2, <3>3
  <2>4. OwnAddress'
    BY <1>0, <2>1, <2>2, <2>3
  <2>5. ASSUME NEW h \in Handlers, req[h].pc # "idle", own'[req[h].name]
        PROVE  req[h].addr = addr'[req[h].name]
    BY <1>0, <2>1, <2>3, <2>5, Ages
  <2> QED
    BY <2>2, <2>4, <2>5
<1>2. ASSUME NEW s \in Services,
             Stop(s) \/ Wake(s) \/ SendFails(s) \/ AnswerLost(s)
      PROVE  OwnOK'
  BY <1>2 DEF Stop, Wake, SendFails, AnswerLost, AttemptFailed, StartHeartbeat,
              Receive, history
<1>3. ASSUME NEW s \in Services, PostRegister(s) \/ PostHeartbeat(s)
      PROVE  OwnOK'
  BY <1>0, <1>3 DEF PostRegister, PostHeartbeat, Send, history
<1>4. ASSUME NEW h \in Handlers, NEW pc, Goto(h, pc), req[h].pc # "idle",
             UNCHANGED <<addr, own>>,
             \A s \in Services : own[s] /\ redis'[s].ttl > 0 => redis'[s].val = addr[s]
      PROVE  OwnOK'
  <2>1. \A g \in Handlers : /\ req'[g].name = req[g].name /\ req'[g].addr = req[g].addr
                            /\ req'[g].pc # "idle" => req[g].pc # "idle"
    BY <1>0, <1>4 DEF Goto, Requests
  <2> QED
    BY <1>4, <2>1
<1>5. ASSUME NEW h \in Handlers, RegisterExists(h) \/ UpdateTTLExists(h)
      PROVE  OwnOK'
  BY <1>4, <1>5 DEF RegisterExists, UpdateTTLExists, client, history
<1>6. ASSUME NEW h \in Handlers, RegisterSet(h) \/ UpdateTTLExpire(h) \/ RedisFails(h)
      PROVE  OwnOK'
  <2>1. req[h].pc # "idle" /\ req[h].name \in Services /\ req[h].addr \in Values
    BY <1>6 DEF RegisterSet, UpdateTTLExpire, RedisFails, RedisPcs, Shape, ReqOK,
                NoRequest, Values
  <2>2. \A s \in Services :
           \/ /\ redis'[s].val = redis[s].val
              /\ redis'[s].ttl > 0 => redis[s].ttl > 0
           \/ s = req[h].name /\ redis'[s].val = req[h].addr
    BY <1>0, <1>6, <2>1, ValueKept, TtlAfter DEF RegisterSet, UpdateTTLExpire, RedisFails
  <2>3. UNCHANGED <<addr, own>> /\ \E pc : Goto(h, pc)
    BY <1>6 DEF RegisterSet, UpdateTTLExpire, RedisFails, client, history
  <2> QED
    BY <1>4, <2>1, <2>2, <2>3
<1>7. ASSUME NEW h \in Handlers, Reply(h) \/ Abort(h) PROVE OwnOK'
  <2>1. UNCHANGED <<redis, own>> /\ req' = [req EXCEPT ![h] = NoRequest]
    BY <1>7 DEF Reply, Abort
  <2>2. addr' = addr
    BY <1>7 DEF Reply, Abort, Receive, client
  <2> QED
    BY <1>0, <2>1, <2>2 DEF NoRequest
<1>8. CASE RedisRestarts
  <2>1. \A s \in Services : redis'[s] = redis[s] \/ redis'[s].ttl = 0
    BY <1>8, TtlAfter, ValueKept DEF RedisRestarts
  <2> QED
    BY <1>8, <2>1 DEF RedisRestarts, client
<1>9. CASE Tick
  <2>1. \A s \in Services : redis'[s].ttl > 0
                              => redis[s].ttl > 0 /\ redis'[s].val = redis[s].val
    BY <1>0, <1>9, TtlAfter, ValueKept DEF Tick
  <2>2. \A h \in Handlers :
           /\ req'[h].pc = req[h].pc /\ req'[h].name = req[h].name
           /\ req'[h].addr = req[h].addr
    BY <1>0, <1>9 DEF Tick, Idle, Requests
  <2> QED
    BY <1>9, <2>1, <2>2 DEF Tick
<1>10. CASE UNCHANGED vars
  BY <1>10 DEF vars, client, history
<1> QED
  BY <1>1, <1>2, <1>3, <1>5, <1>6, <1>7, <1>8, <1>9, <1>10
     DEF Next, ClientStep, HandlerStep

\* A service is listed under the address of its container, unless it came up
\* under another one before its predecessor was forgotten: what a stopped
\* container left in the registry or on its way there is gone by then.
THEOREM ListedUnderOwnAddress == Spec => []OwnAddress
<1>1. OwnOK => OwnAddress
  BY DEF OwnOK
<1> QED
  BY ShapeInit, ShapeStep, StopInit, StopStep, OwnInit, OwnStep, <1>1, PTL DEF Spec

LEMMA LeaseInit == Init => LeaseOK
BY DEF Init, LeaseOK, HeldLease

\* The types that the lease of s is about.
LEMMA LeaseTypes ==
    ASSUME Shape, NEW s \in Services
    PROVE  /\ phase \in [Services -> Phases] /\ timer \in [Services -> Nat]
           /\ call \in [Services -> Handlers \cup {NoCall}]
           /\ req \in [Handlers -> Requests]
           /\ ack \in [Services -> {"none", "refreshed", "created"}]
           /\ clean \in [Services -> BOOLEAN]
           /\ redis[s].ttl \in 0..ServiceTTL
           /\ \A h \in Handlers : /\ req[h].age \in 0..MaxLatency
                                  /\ req[h].pc # "idle" => req[h].name \in Services
BY Times, TtlAfter, Ages DEF Shape, TypeOK

\* The lease of an acknowledged, undisturbed service is a present key.
LEMMA HeldIsListed ==
    ASSUME Shape, NEW s \in Services, HeldLease(s), ack[s] = "created", clean[s]
    PROVE  redis[s].ttl > 0
<1>1. CASE phase[s] = "beat"
  BY Times, LeaseTypes, <1>1 DEF HeldLease
<1>2. CASE phase[s] = "beating"
  <2>1. call[s] \in Handlers
    BY LeaseTypes, <1>2 DEF Shape, CallOK
  <2> DEFINE age == req[call[s]].age
  <2>2. age \in 0..MaxLatency
    BY LeaseTypes, <2>1
  <2>3. \/ redis[s].ttl + HeartbeatDelay + MaxLatency + age >= ServiceTTL
        \/ redis[s].ttl + age >= ServiceTTL
    BY <1>2 DEF HeldLease
  <2> HIDE DEF age
  <2> QED
    BY Times, LeaseTypes, <2>2, <2>3
<1> QED
  BY LeaseTypes, <1>1, <1>2 DEF HeldLease

\* A lease can only gain from another request's SET or EXPIRE.
LEMMA HeldGains ==
    ASSUME Shape, NEW s \in Services, HeldLease(s),
           ack'[s] = ack[s], clean'[s] => clean[s], phase'[s] = phase[s],
           timer'[s] = timer[s], call'[s] = call[s],
           call[s] # NoCall => req'[call[s]] = req[call[s]],
           redis'[s].ttl \in Nat, clean'[s] => redis'[s].ttl >= redis[s].ttl
    PROVE  HeldLease(s)'
<1>1. phase[s] \in {"registering", "beating"} => req'[call[s]] = req[call[s]]
  BY DEF Shape, CallOK
<1>2. \A h \in Handlers : req[h].age \in Nat
  BY Times, LeaseTypes
<1>3. phase[s] \in {"registering", "beating"} => call[s] \in Handlers
  BY LeaseTypes DEF Shape, CallOK
<1> QED
  BY Times, LeaseTypes, <1>1, <1>2, <1>3 DEF HeldLease

\* A tick takes as much from the entry as it adds to the age of the request
\* or takes from the timer.
LEMMA HeldTick ==
    ASSUME Shape, NEW s \in Services, HeldLease(s), Tick
    PROVE  HeldLease(s)'
<1>1. /\ phase'[s] = phase[s] /\ ack'[s] = ack[s] /\ clean'[s] = clean[s]
      /\ call'[s] = call[s]
  BY DEF Tick
<1>2. phase[s] \in {"beat", "beating"} =>
         /\ timer[s] \in Nat /\ timer[s] > 0 /\ timer'[s] = timer[s] - 1
  BY LeaseTypes DEF Tick, NothingDue, Waiting
<1>3. /\ redis[s].ttl \in Nat
      /\ redis'[s].ttl = IF redis[s].ttl > 1 THEN redis[s].ttl - 1 ELSE 0
  BY Times, TtlAfter DEF Tick
<1>4. CASE phase[s] = "beat"
  BY Times, <1>1, <1>2, <1>3, <1>4 DEF HeldLease
<1>5. CASE phase[s] \in {"registering", "beating"}
  <2>1. PICK h \in Handlers : h = call[s] /\ req[h].pc # "idle"
    BY LeaseTypes, <1>5 DEF Shape, CallOK
  <2>2. /\ req[h].age \in Nat /\ req[h].age < MaxLatency
        /\ req'[h].pc = req[h].pc /\ req'[h].age = req[h].age + 1
    BY <2>1, LeaseTypes DEF Tick, NothingDue, Idle, Requests
  <2>3. req[call[s]] = req[h] /\ req'[call'[s]] = req'[h]
    BY <1>1, <2>1
  <2>4. CASE phase[s] = "registering"
    BY Times, <1>1, <1>3, <2>2, <2>3, <2>4 DEF HeldLease
  <2>5. CASE phase[s] = "beating"
    <3>1. SUFFICES ASSUME ack[s] = "created", clean[s]
                   PROVE  /\ timer'[s] + req'[h].age = HeartbeatDelay
                          /\ \/ /\ req'[h].pc \in {"refresh", "expire"}
                                /\ redis'[s].ttl + HeartbeatDelay + MaxLatency
                                      + req'[h].age >= ServiceTTL
                             \/ /\ req'[h].pc = "ok"
                                /\ redis'[s].ttl + req'[h].age >= ServiceTTL
      BY <1>1, <2>3, <2>5 DEF HeldLease
    <3>2. /\ timer[s] + req[h].age = HeartbeatDelay
          /\ \/ /\ req[h].pc \in {"refresh", "expire"}
                /\ redis[s].ttl + HeartbeatDelay + MaxLatency + req[h].age >= ServiceTTL
             \/ /\ req[h].pc = "ok"
                /\ redis[s].ttl + req[h].age >= ServiceTTL
      BY <2>3, <2>5, <3>1 DEF HeldLease
    <3>3. timer'[s] + req'[h].age = HeartbeatDelay
      BY Times, <1>2, <2>2, <2>5, <3>2
    <3>4. redis[s].ttl > 1
      BY Times, <1>3, <2>2, <3>2
    <3> QED
      BY Times, <1>3, <2>2, <3>2, <3>3, <3>4
  <2> QED
    BY <1>5, <2>4, <2>5
<1>6. CASE phase[s] \notin {"beat", "registering", "beating"}
  BY <1>1, <1>6 DEF HeldLease
<1> QED
  BY <1>4, <1>5, <1>6

LEMMA LeaseStep == Shape /\ LeaseOK /\ [Next]_vars => LeaseOK'
<1> SUFFICES ASSUME Shape, LeaseOK, [Next]_vars, NEW s \in Services
             PROVE  HeldLease(s)'
  BY DEF LeaseOK
<1>0. HeldLease(s)
  BY DEF LeaseOK
<1> USE Times, LeaseTypes
<1>1. ASSUME NEW t \in Services, t # s,
             \/ Start(t) \/ Stop(t) \/ PostRegister(t) \/ PostHeartbeat(t)
             \/ Wake(t) \/ SendFails(t) \/ AnswerLost(t)
      PROVE  HeldLease(s)'
  <2>1. /\ ack'[s] = ack[s] /\ clean'[s] = clean[s] /\ phase'[s] = phase[s]
        /\ timer'[s] = timer[s] /\ call'[s] = call[s] /\ redis' = redis
    BY <1>1 DEF Start, Stop, PostRegister, PostHeartbeat, Wake, SendFails, AnswerLost,
                Send, AttemptFailed, StartHeartbeat, Receive, Fault, history
  <2>2. call[s] # NoCall => req'[call[s]] = req[call[s]]
    BY <1>1 DEF Start, Stop, PostRegister, PostHeartbeat, Wake, SendFails, AnswerLost,
                Send, Idle, Shape, CallOK
  <2> QED
    BY <1>0, <2>1, <2>2, HeldGains
<1>2. ASSUME Start(s) \/ Stop(s) \/ PostRegister(s) \/ Wake(s) PROVE HeldLease(s)'
  BY <1>0, <1>2 DEF Start, Stop, PostRegister, Wake, Send, StartHeartbeat, history, HeldLease
<1>3. ASSUME PostHeartbeat(s) PROVE HeldLease(s)'
  <2>1. PICK h \in Handlers : Send(s, h, "heartbeat", "refresh")
    BY <1>3 DEF PostHeartbeat
  <2>2. /\ call'[s] = h /\ req'[h].pc = "refresh" /\ req'[h].age = 0
        /\ phase'[s] = "beating" /\ timer'[s] = HeartbeatDelay /\ timer[s] = 0
        /\ phase[s] = "beat" /\ UNCHANGED <<redis, ack, clean>>
    BY <1>3, <2>1 DEF PostHeartbeat, Send, history
  <2> QED
    BY <1>0, <2>2 DEF HeldLease
<1>4. ASSUME SendFails(s) \/ AnswerLost(s) PROVE HeldLease(s)'
  BY <1>0, <1>4 DEF SendFails, AnswerLost, Fault, AttemptFailed, StartHeartbeat,
                    Receive, HeldLease
<1>5. ASSUME NEW h \in Handlers, call[s] # h,
             HandlerStep(h) \/ RedisFails(h) \/ Abort(h)
      PROVE  HeldLease(s)'
  <2>1. req[h].pc # "idle" /\ req[h].name \in Services
    BY <1>5 DEF HandlerStep, RegisterExists, RegisterSet, UpdateTTLExists,
                UpdateTTLExpire, Reply, Replies, RedisFails, RedisPcs, Abort, Idle
  <2>2. call[s] # NoCall => req'[call[s]] = req[call[s]]
    BY <1>5 DEF HandlerStep, RegisterExists, RegisterSet, UpdateTTLExists,
                UpdateTTLExpire, Reply, RedisFails, Abort, Goto
  <2>3. call[req[h].name] = h => req[h].name # s
    BY <1>5
  <2>4. /\ ack'[s] = ack[s] /\ phase'[s] = phase[s] /\ timer'[s] = timer[s]
        /\ call'[s] = call[s] /\ clean'[s] = clean[s]
    BY <1>5, <2>1, <2>3 DEF HandlerStep, RegisterExists, RegisterSet, UpdateTTLExists,
                UpdateTTLExpire, Reply, RedisFails, Abort, Receive, AttemptFailed,
                StartHeartbeat, Fault, Callers, client, history
  <2>5. req[h].addr \in Values
    BY <2>1 DEF Shape, ReqOK, NoRequest, Values
  <2>6. redis'[s].ttl \in {redis[s].ttl, ServiceTTL}
    BY <1>5, <2>1, <2>5, TtlAfter DEF HandlerStep, RegisterExists, RegisterSet,
                UpdateTTLExists, UpdateTTLExpire, Reply, RedisFails, Abort
  <2> QED
    BY <1>0, <2>2, <2>4, <2>6, HeldGains
<1>6. ASSUME NEW h \in Handlers, call[s] = h, HandlerStep(h) PROVE HeldLease(s)'
  <2>1. /\ req[h].name = s /\ req[h].pc # "idle" /\ req[h].addr \in Values
        /\ phase[s] \in {"registering", "beating"}
        /\ phase[s] = "beating" => req[h].pc \notin {"exists", "set", "created"}
    BY <1>6 DEF Shape, ReqOK, CallOK, NoRequest, Values
  <2>2. ASSUME NEW pc, Goto(h, pc), UNCHANGED <<client, history>>
        PROVE  /\ phase'[s] = phase[s] /\ timer'[s] = timer[s] /\ ack'[s] = ack[s]
               /\ clean'[s] = clean[s] /\ call'[s] = h
               /\ req'[h].pc = pc /\ req'[h].age = req[h].age
    BY <1>6, <2>1, <2>2, GotoKeeps DEF client, history
  <2>3. CASE RegisterExists(h)
    BY <1>0, <1>6, <2>1, <2>2, <2>3 DEF RegisterExists, HeldLease
  <2>4. CASE RegisterSet(h)
    <3>1. redis'[s].ttl = ServiceTTL
      BY <2>1, <2>4, TtlAfter DEF RegisterSet
    <3> QED
      BY <1>0, <1>6, <2>1, <2>2, <2>4, <3>1 DEF RegisterSet, HeldLease
  <2>5. CASE UpdateTTLExists(h)
    <3>1. ack[s] = "created" /\ clean[s] => Listed(s)
      BY <1>0, HeldIsListed DEF Listed, Exists
    <3> QED
      BY <1>0, <1>6, <2>1, <2>2, <2>5, <3>1 DEF UpdateTTLExists, HeldLease
  <2>6. CASE UpdateTTLExpire(h)
    <3>1. redis'[s].ttl = IF redis[s].ttl > 0 THEN ServiceTTL ELSE redis[s].ttl
      BY <2>1, <2>6, TtlAfter DEF UpdateTTLExpire
    <3>2. ack[s] = "created" /\ clean[s] => redis[s].ttl > 0
      BY <1>0, HeldIsListed
    <3> QED
      BY <1>0, <1>6, <2>1, <2>2, <2>6, <3>1, <3>2 DEF UpdateTTLExpire, HeldLease
  <2>7. CASE Reply(h)
    <3>1. Receive(s, req[h].pc) /\ UNCHANGED <<redis, clean>>
      BY <1>6, <2>1, <2>7 DEF Reply
    <3>2. CASE phase[s] = "registering"
      <4>1. ack[s] = "none"
        BY <1>0, <3>2 DEF HeldLease
      <4>2. CASE req[h].pc = "created"
        BY <1>0, <1>6, <3>1, <3>2, <4>2 DEF Receive, StartHeartbeat, HeldLease
      <4>3. CASE req[h].pc # "created"
        BY <3>1, <3>2, <4>1, <4>3 DEF Receive, StartHeartbeat, AttemptFailed, HeldLease
      <4> QED
        BY <4>2, <4>3
    <3>3. CASE phase[s] = "beating"
      <4>1. phase'[s] = "beat" /\ UNCHANGED <<timer, ack>>
        BY <3>1, <3>3 DEF Receive
      <4> QED
        BY <1>0, <1>6, <2>7, <3>1, <3>3, <4>1 DEF Reply, Replies, HeldLease
    <3> QED
      BY <2>1, <3>2, <3>3
  <2> QED
    BY <1>6, <2>3, <2>4, <2>5, <2>6, <2>7 DEF HandlerStep
<1>7. ASSUME NEW h \in Handlers, call[s] = h, RedisFails(h) \/ Abort(h)
      PROVE  HeldLease(s)'
  <2>1. clean'[s] = FALSE
    BY <1>7 DEF RedisFails, Abort, Fault, Callers
  <2>2. CASE RedisFails(h)
    BY <1>0, <2>1, <2>2 DEF RedisFails, client, HeldLease
  <2>3. CASE Abort(h)
    <3>1. req[h].name = s /\ Receive(s, "lost")
      BY <1>7, <2>3 DEF Abort, Shape, CallOK
    <3> QED
      BY <1>0, <2>1, <3>1 DEF Receive, StartHeartbeat, AttemptFailed, HeldLease
  <2> QED
    BY <1>7, <2>2, <2>3
<1>8. CASE RedisRestarts
  <2>1. PICK lost \in SUBSET Keys : redis' = Without(redis, lost) /\ Fault(lost)
    BY <1>8 DEF RedisRestarts
  <2>2. redis'[s].ttl = IF s \in lost THEN 0 ELSE redis[s].ttl
    BY <2>1, TtlAfter
  <2>3. clean'[s] => clean[s] /\ s \notin lost
    BY <2>1 DEF Fault
  <2> QED
    BY <1>0, <1>8, <2>2, <2>3, HeldGains DEF RedisRestarts, client
<1>9. CASE Tick
  BY <1>0, <1>9, HeldTick
<1>10. CASE UNCHANGED vars
  BY <1>0, <1>10, HeldGains DEF vars, client, history
<1> QED
  BY <1>1, <1>2, <1>3, <1>4, <1>5, <1>6, <1>7, <1>8, <1>9, <1>10
     DEF Next, ClientStep

\* A fresh registration stays listed: no interleaving of the handlers, and no
\* latency within the bound, lets the entry of an acknowledged and undisturbed
\* service expire.
THEOREM FreshLeasesHeld == Spec => []FreshLeaseHeld
<1>1. Shape /\ LeaseOK => FreshLeaseHeld
  BY HeldIsListed DEF LeaseOK, FreshLeaseHeld, Listed, Exists
<1> QED
  BY ShapeInit, ShapeStep, LeaseInit, LeaseStep, <1>1, PTL DEF Spec
=============================================================================
