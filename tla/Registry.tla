------------------------------ MODULE Registry ------------------------------
(***************************************************************************)
(* Service registration: the service-registry server, whose handlers run   *)
(* Redis commands one at a time and interleaved with each other, and the   *)
(* registration client that auth, post, comment and user-profile each      *)
(* carry a copy of (registerService, startHeartbeat).                      *)
(*                                                                         *)
(* Time is discrete.  An entry lives ServiceTTL ticks, a heartbeat is sent *)
(* every HeartbeatDelay ticks, and a request is over after at most         *)
(* MaxLatency ticks: Tick waits for what is due.  Lost requests, broken    *)
(* connections, failing Redis commands and Redis restarts each cost one of *)
(* MaxFaults; a service may crash and be recreated any number of times.    *)
(***************************************************************************)
EXTENDS Redis, Integers

CONSTANTS
    Services,         \* service names, each run by one container
    Addresses,        \* http://<hostname>:8080; a new container, a new one
    OtherKeys,        \* keys that other programs keep in the same database
    OtherVal,         \* what they hold, which is not a registration
    Handlers,         \* slots for the requests the registry is serving
    NoCall,           \* the client has no request out
    ServiceTTL, HeartbeatDelay, RetryDelay, RetryAttempts,
    MaxLatency,       \* bound: ticks from sending a request to its end
    DownCap,          \* bound: the count of ticks since a stop ends there
    MaxFaults         \* bound: faults in one behaviour

ASSUME NamesAssumption ==
    /\ Services \cap OtherKeys = {}
    /\ Nil \notin Addresses \cup {OtherVal}
    /\ NoCall \notin Handlers

\* In the source 60 s, 30 s, 5 s and 5 attempts.  What the lease needs is
\* that a heartbeat period and two latencies fit in the time to live.
ASSUME TimingAssumption ==
    /\ {ServiceTTL, HeartbeatDelay, RetryDelay, RetryAttempts, MaxLatency}
           \subseteq Nat \ {0}
    /\ MaxFaults \in Nat
    /\ DownCap \in Nat /\ ServiceTTL + MaxLatency <= DownCap
    /\ MaxLatency < HeartbeatDelay
    /\ HeartbeatDelay + 2 * MaxLatency < ServiceTTL

VARIABLES
    redis,     \* the database
    phase,     \* where each service's registration goroutine is
    addr,      \* the address of each service's current container
    attempt,   \* failed attempts of registerService so far
    timer,     \* ticks until the sleep ends or the ticker fires
    call,      \* the handler serving the service's outstanding request
    req,       \* the requests the registry is serving
    ack,       \* history: how the service's registration was acknowledged
    clean,     \* history: no fault hit the service since it asked for that
    downFor,   \* history: ticks since the service went down
    own,       \* history: no earlier container can be listed in its place
    faults     \* faults so far

client == <<phase, addr, attempt, timer, call>>
history == <<ack, clean, downFor, own>>
vars == <<redis, client, req, history, faults>>

Keys == Services \cup OtherKeys
Values == Addresses \cup {OtherVal}

Phases == {"down", "register", "registering", "retry", "beat", "beating"}
Waiting == {"retry", "beat", "beating"}     \* phases with a timer running
RedisPcs == {"exists", "set", "refresh", "expire"}
Replies == {"created", "ok", "notfound", "failed"}

NoRequest == [pc |-> "idle", op |-> "none", name |-> Nil, addr |-> Nil, age |-> 0]
Requests == [pc : RedisPcs \cup Replies \cup {"idle"},
             op : {"none", "register", "heartbeat"},
             name : Services \cup {Nil}, addr : Addresses \cup {Nil},
             age : 0..MaxLatency]

Idle(h) == req[h].pc = "idle"
Listed(s) == Exists(redis, s)
Alive(s) == phase[s] # "down"

Init ==
    /\ redis = [k \in Keys |-> Absent]
    /\ phase = [s \in Services |-> "down"]
    /\ addr \in [Services -> Addresses]
    /\ attempt = [s \in Services |-> 0]
    /\ timer = [s \in Services |-> 0]
    /\ call = [s \in Services |-> NoCall]
    /\ req = [h \in Handlers |-> NoRequest]
    /\ ack = [s \in Services |-> "none"]
    /\ clean = [s \in Services |-> FALSE]
    /\ downFor = [s \in Services |-> DownCap]
    /\ own = [s \in Services |-> TRUE]
    /\ faults = 0

-----------------------------------------------------------------------------
(* The registration client. *)

\* Nothing that an earlier container of s sent is left in the registry.
Forgotten(s) == downFor[s] >= ServiceTTL + MaxLatency

\* main starts the goroutine that registers; docker gave the container a
\* host name, the same one (restart) or another (recreate).
Start(s) ==
    /\ phase[s] = "down"
    /\ \E a \in Addresses :
          /\ addr' = [addr EXCEPT ![s] = a]
          /\ own' = [own EXCEPT ![s] = Forgotten(s) \/ (own[s] /\ a = addr[s])]
    /\ phase' = [phase EXCEPT ![s] = "register"]
    /\ attempt' = [attempt EXCEPT ![s] = 0]
    /\ downFor' = [downFor EXCEPT ![s] = 0]
    /\ UNCHANGED <<redis, timer, call, req, ack, clean, faults>>

\* SIGTERM or a crash: nothing is deregistered, the request that was out
\* goes on being served.
Stop(s) ==
    /\ phase[s] # "down"
    /\ phase' = [phase EXCEPT ![s] = "down"]
    /\ timer' = [timer EXCEPT ![s] = 0]
    /\ call' = [call EXCEPT ![s] = NoCall]
    /\ ack' = [ack EXCEPT ![s] = "none"]
    /\ clean' = [clean EXCEPT ![s] = FALSE]
    /\ UNCHANGED <<redis, addr, attempt, req, downFor, own, faults>>

Send(s, h, operation, pc) ==
    /\ Idle(h)
    /\ req' = [req EXCEPT ![h] = [pc |-> pc, op |-> operation, name |-> s,
                                  addr |-> addr[s], age |-> 0]]
    /\ call' = [call EXCEPT ![s] = h]

\* registerService posts to /register.
PostRegister(s) ==
    /\ phase[s] = "register"
    /\ \E h \in Handlers : Send(s, h, "register", "exists")
    /\ phase' = [phase EXCEPT ![s] = "registering"]
    /\ clean' = [clean EXCEPT ![s] = TRUE]
    /\ UNCHANGED <<redis, addr, attempt, timer, ack, downFor, own, faults>>

\* The ticker fires: post to /heartbeat.  The ticker goes on meanwhile.
PostHeartbeat(s) ==
    /\ phase[s] = "beat" /\ timer[s] = 0
    /\ \E h \in Handlers : Send(s, h, "heartbeat", "refresh")
    /\ phase' = [phase EXCEPT ![s] = "beating"]
    /\ timer' = [timer EXCEPT ![s] = HeartbeatDelay]
    /\ UNCHANGED <<redis, addr, attempt, history, faults>>

\* An attempt that did not get 200 or 201: sleep, also after the last one.
AttemptFailed(s) ==
    /\ phase' = [phase EXCEPT ![s] = "retry"]
    /\ attempt' = [attempt EXCEPT ![s] = @ + 1]
    /\ timer' = [timer EXCEPT ![s] = RetryDelay]

\* startHeartbeat: the first heartbeat comes after a whole period.
StartHeartbeat(s) ==
    /\ phase' = [phase EXCEPT ![s] = "beat"]
    /\ timer' = [timer EXCEPT ![s] = HeartbeatDelay]

\* Mutation: one attempt too many.
WakeOnceMore(s) ==
    /\ phase[s] = "retry" /\ timer[s] = 0
    /\ \/ /\ attempt[s] <= RetryAttempts
          /\ phase' = [phase EXCEPT ![s] = "register"]
          /\ UNCHANGED timer
       \/ /\ attempt[s] > RetryAttempts
          /\ StartHeartbeat(s)
    /\ UNCHANGED <<redis, addr, attempt, call, req, history, faults>>

\* Mutation: the heartbeats start after the first failure.
WakeGivesUp(s) ==
    /\ phase[s] = "retry" /\ timer[s] = 0
    /\ StartHeartbeat(s)
    /\ UNCHANGED <<redis, addr, attempt, call, req, history, faults>>

\* The sleep is over: the next attempt, or, when there is none left, the
\* heartbeats all the same.
Wake(s) ==
    /\ phase[s] = "retry" /\ timer[s] = 0
    /\ \/ /\ attempt[s] < RetryAttempts
          /\ phase' = [phase EXCEPT ![s] = "register"]
          /\ UNCHANGED timer
       \/ /\ attempt[s] = RetryAttempts
          /\ StartHeartbeat(s)
    /\ UNCHANGED <<redis, addr, attempt, call, req, history, faults>>

\* http.Post returns to s with the answer of its request.  A heartbeat's
\* status is not looked at.
Receive(s, answer) ==
    /\ call' = [call EXCEPT ![s] = NoCall]
    /\ \/ /\ phase[s] = "registering" /\ answer \in {"created", "ok"}
          /\ StartHeartbeat(s)
          /\ ack' = [ack EXCEPT ![s] =
                       IF answer = "created" THEN "created" ELSE "refreshed"]
          /\ UNCHANGED attempt
       \/ /\ phase[s] = "registering" /\ answer \notin {"created", "ok"}
          /\ AttemptFailed(s)
          /\ UNCHANGED ack
       \/ /\ phase[s] = "beating"
          /\ phase' = [phase EXCEPT ![s] = "beat"]
          /\ UNCHANGED <<attempt, timer, ack>>
    /\ UNCHANGED addr

-----------------------------------------------------------------------------
(* Faults. *)

\* A fault that hits the services in hit.
Fault(hit) ==
    /\ faults < MaxFaults
    /\ faults' = faults + 1
    /\ clean' = [s \in Services |-> clean[s] /\ s \notin hit]

\* The services that wait for the answer of h.
Callers(h) == {s \in Services : call[s] = h}

\* The request never reached the registry.
SendFails(s) ==
    /\ Fault({s})
    /\ \/ /\ phase[s] = "register"
          /\ AttemptFailed(s)
       \/ /\ phase[s] = "beat" /\ timer[s] = 0
          /\ timer' = [timer EXCEPT ![s] = HeartbeatDelay]
          /\ UNCHANGED <<phase, attempt>>
    /\ UNCHANGED <<redis, addr, call, req, ack, downFor, own>>

\* The answer is lost; the handler goes on.
AnswerLost(s) ==
    /\ Fault({s})
    /\ call[s] # NoCall
    /\ Receive(s, "lost")
    /\ UNCHANGED <<redis, req, downFor, own>>

-----------------------------------------------------------------------------
(* The registry's handlers, one Redis command per step. *)

Goto(h, pc) == req' = [req EXCEPT ![h].pc = pc]

\* RedisStore.RegisterService: EXISTS.  A present key makes the handler
\* refresh its time to live instead.
RegisterExists(h) ==
    /\ req[h].pc = "exists"
    /\ Goto(h, IF Listed(req[h].name) THEN "refresh" ELSE "set")
    /\ UNCHANGED <<redis, client, history, faults>>

\* Mutation: a registration gets time for two heartbeats that fail.
RegisterSetLonger(h) ==
    /\ req[h].pc = "set"
    /\ redis' = SetEx(redis, req[h].name, req[h].addr, 2 * ServiceTTL)
    /\ Goto(h, "created")
    /\ UNCHANGED <<client, history, faults>>

\* RedisStore.RegisterService: SET with the time to live.
RegisterSet(h) ==
    /\ req[h].pc = "set"
    /\ redis' = SetEx(redis, req[h].name, req[h].addr, ServiceTTL)
    /\ Goto(h, "created")
    /\ UNCHANGED <<client, history, faults>>

\* RedisStore.UpdateTTL: EXISTS.  An absent key is 404 for a heartbeat and
\* 500 for a registration.
UpdateTTLExists(h) ==
    /\ req[h].pc = "refresh"
    /\ Goto(h, IF Listed(req[h].name) THEN "expire"
               ELSE IF req[h].op = "heartbeat" THEN "notfound" ELSE "failed")
    /\ UNCHANGED <<redis, client, history, faults>>

\* Mutation: the EXPIRE is forgotten.
UpdateTTLForgets(h) ==
    /\ req[h].pc = "expire"
    /\ Goto(h, "ok")
    /\ UNCHANGED <<redis, client, history, faults>>

\* Mutation: the EXPIRE adds to the time that is left.
UpdateTTLAdds(h) ==
    /\ req[h].pc = "expire"
    /\ redis' = Expire(redis, req[h].name, redis[req[h].name].ttl + ServiceTTL)
    /\ Goto(h, "ok")
    /\ UNCHANGED <<client, history, faults>>

\* RedisStore.UpdateTTL: EXPIRE, whose 0 for an absent key is not an error.
UpdateTTLExpire(h) ==
    /\ req[h].pc = "expire"
    /\ redis' = Expire(redis, req[h].name, ServiceTTL)
    /\ Goto(h, "ok")
    /\ UNCHANGED <<client, history, faults>>

\* The answer is sent; a client that still waits gets it.
Reply(h) ==
    /\ req[h].pc \in Replies
    /\ req' = [req EXCEPT ![h] = NoRequest]
    /\ IF call[req[h].name] = h
       THEN Receive(req[h].name, req[h].pc)
       ELSE UNCHANGED <<client, ack>>
    /\ UNCHANGED <<redis, clean, downFor, own, faults>>

\* A Redis command returns an error, after or without taking effect.
RedisFails(h) ==
    /\ Fault(Callers(h))
    /\ req[h].pc \in RedisPcs
    /\ \/ UNCHANGED redis
       \/ /\ req[h].pc = "set"
          /\ redis' = SetEx(redis, req[h].name, req[h].addr, ServiceTTL)
       \/ /\ req[h].pc = "expire"
          /\ redis' = Expire(redis, req[h].name, ServiceTTL)
    /\ Goto(h, "failed")
    /\ UNCHANGED <<client, ack, downFor, own>>

\* The registry stops, or gin cancels the request: the handler is gone.
Abort(h) ==
    /\ Fault(Callers(h))
    /\ ~Idle(h)
    /\ req' = [req EXCEPT ![h] = NoRequest]
    /\ IF call[req[h].name] = h
       THEN Receive(req[h].name, "lost")
       ELSE UNCHANGED <<client, ack>>
    /\ UNCHANGED <<redis, downFor, own>>

\* Redis restarts from its last snapshot: the keys written since are lost.
RedisRestarts ==
    /\ \E lost \in SUBSET Keys \ {{}} :
          /\ redis' = Without(redis, lost)
          /\ Fault(lost)
    /\ UNCHANGED <<client, req, ack, downFor, own>>

-----------------------------------------------------------------------------
\* Time does not pass what is due: a post to make, a timer that ran out, a
\* request at the end of its latency.
NothingDue ==
    /\ \A s \in Services : /\ phase[s] # "register"
                           /\ phase[s] \in Waiting => timer[s] > 0
    /\ \A h \in Handlers : req[h].age < MaxLatency

Tick ==
    /\ NothingDue
    /\ redis' = Aged(redis)
    /\ timer' = [s \in Services |->
                   IF phase[s] \in Waiting THEN timer[s] - 1 ELSE timer[s]]
    /\ req' = [h \in Handlers |->
                 IF Idle(h) THEN req[h] ELSE [req[h] EXCEPT !.age = @ + 1]]
    /\ downFor' = [s \in Services |->
                     IF Alive(s) \/ downFor[s] = DownCap THEN downFor[s]
                                                         ELSE downFor[s] + 1]
    /\ UNCHANGED <<phase, addr, attempt, call, ack, clean, own, faults>>

ClientStep(s) == PostRegister(s) \/ PostHeartbeat(s) \/ Wake(s)
HandlerStep(h) ==
    \/ RegisterExists(h) \/ RegisterSet(h)
    \/ UpdateTTLExists(h) \/ UpdateTTLExpire(h) \/ Reply(h)

Next ==
    \/ \E s \in Services : \/ ClientStep(s) \/ Start(s) \/ Stop(s)
                           \/ SendFails(s) \/ AnswerLost(s)
    \/ \E h \in Handlers : HandlerStep(h) \/ RedisFails(h) \/ Abort(h)
    \/ RedisRestarts
    \/ Tick

Spec == Init /\ [][Next]_vars

\* The goroutines run, the requests are served and time passes; nothing
\* makes a fault, a stop or a start happen.
Fairness ==
    /\ \A s \in Services : WF_vars(ClientStep(s))
    /\ \A h \in Handlers : WF_vars(HandlerStep(h))
    /\ WF_vars(Tick)

FairSpec == Spec /\ Fairness

-----------------------------------------------------------------------------
(* Properties *)

\* Every variable has its type.
TypeOK ==
    /\ redis \in Databases(Keys, Values, ServiceTTL)
    /\ phase \in [Services -> Phases]
    /\ addr \in [Services -> Addresses]
    /\ attempt \in [Services -> 0..RetryAttempts]
    /\ timer \in [Services -> 0..(HeartbeatDelay + RetryDelay)]
    /\ call \in [Services -> Handlers \cup {NoCall}]
    /\ req \in [Handlers -> Requests]
    /\ ack \in [Services -> {"none", "refreshed", "created"}]
    /\ clean \in [Services -> BOOLEAN]
    /\ downFor \in [Services -> 0..DownCap]
    /\ own \in [Services -> BOOLEAN]
    /\ faults \in 0..MaxFaults

\* A service whose registration was answered 201, and whose heartbeats have
\* not been hit by a fault, is listed: the heartbeat period and the latencies
\* of the SET and of the EXPIRE never add up to the time to live.
FreshLeaseHeld ==
    \A s \in Services : ack[s] = "created" /\ clean[s] => Listed(s)

\* A service that stopped is forgotten in time: a request it left behind may
\* still refresh its entry, but the entry is gone ServiceTTL + MaxLatency
\* ticks after the stop.
DeadForgotten ==
    \A s \in Services :
        ~Alive(s) /\ Listed(s)
            => redis[s].ttl + downFor[s] <= ServiceTTL + MaxLatency

\* What the registry lists a service under is the address of its container,
\* although a registration that finds the key present does not write its own
\* (handlers.go:68): so it is for a first container, for one with the host name
\* of the one before, and for one that starts when that has been forgotten.
OwnAddress ==
    \A s \in Services : own[s] /\ Listed(s) => redis[s].val = addr[s]

\* registerService gets there: a service that starts is acknowledged, or is
\* stopped, whenever the faults leave one attempt for the registration whose
\* key expires under it and one for the registration that succeeds.
RegistrationCompletes ==
    \A s \in Services :
        phase[s] = "register" ~> ack[s] # "none" \/ ~Alive(s)

\* The registry's README (service-registry/README.md:63): periodic heartbeats
\* keep a service alive in the registry.  A service that sends them is listed
\* again and again.  (An entry may be missing although the registration was
\* treated as successful, as the comment at handlers.go:67 has it.)
HeartbeatsKeepListed ==
    \A s \in Services :
        phase[s] \in {"beat", "beating"} ~> Listed(s) \/ ~Alive(s)
=============================================================================
