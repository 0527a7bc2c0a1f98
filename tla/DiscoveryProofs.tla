-------------------------- MODULE DiscoveryProofs ---------------------------
(***************************************************************************)
(* The gateway's routing table, for every number of services, handlers and *)
(* keys and all times that keep the assumptions of Registry and Discovery. *)
(* What the table says is as old as the answer it was taken from, so that  *)
(* each bound is carried along the refresh: the entry of the database, the *)
(* answer being put together, the table.                                   *)
(***************************************************************************)
EXTENDS Discovery, RegistryProofs

\* A service's key holds a registration, and a value as long as it is there
\* and no longer.
ValOK ==
    \A s \in Services : /\ redis[s].val \in Addresses \cup {Nil}
                        /\ redis[s].ttl > 0 <=> redis[s].val \in Addresses

RInv == Shape /\ StopOK /\ DeadForgotten /\ LeaseOK /\ ValOK /\ OwnOK

DTypes ==
    /\ table \in [Services -> Addresses \cup {Nil}]
    /\ refresh \in 0..RefreshInterval
    /\ fetch \in [pc : {"idle", "keys", "get", "ok", "failed"},
                  todo : SUBSET Keys,
                  found : [Services -> Addresses \cup {Nil}],
                  age : 0..MaxLatency]
    /\ missed \in BOOLEAN
    /\ leasedFor \in [Services -> 0..LeaseCap]

\* The ticker and the request began together.
Together == fetch.pc # "idle" => refresh + fetch.age = RefreshInterval

LeaseTimes == \A s \in Services : leasedFor[s] > 0 => Leased(s)

\* An address to route to, and that of the service's container if the registry
\* lists no other.
Right(s, a) == a # Nil /\ (own[s] => a = addr[s])

\* What is listed now was there when it was read; a service that held its
\* lease before KEYS has been read or is still to be.
FoundOK ==
    \A s \in Services :
        /\ fetch.pc # "idle" /\ fetch.found[s] # Nil /\ ~Alive(s)
              => downFor[s] < ServiceTTL + MaxLatency + fetch.age
        /\ fetch.pc \in {"get", "ok"} /\ leasedFor[s] > fetch.age
              => Right(s, fetch.found[s]) \/ (fetch.pc = "get" /\ s \in fetch.todo)

\* Ticks since the request began that brought the table.
Since == IF fetch.pc = "idle" THEN RefreshInterval - refresh
                              ELSE RefreshInterval + fetch.age

TableOK ==
    \A s \in Services :
        ~missed => /\ table[s] # Nil /\ ~Alive(s)
                         => downFor[s] < ServiceTTL + MaxLatency + Since
                   /\ leasedFor[s] > Since => Right(s, table[s])

DInv == RInv /\ DTypes /\ Together /\ LeaseTimes /\ FoundOK /\ TableOK

LEMMA RefreshTimes ==
    /\ RefreshInterval \in Nat /\ RefreshInterval > 0 /\ MaxLatency < RefreshInterval
    /\ LeaseCap = RefreshInterval + MaxLatency + 1
    /\ Nil \notin Addresses /\ OtherVal # Nil
    /\ \A k \in OtherKeys : k \notin Services
BY Times, RefreshAssumption, NamesAssumption
   DEF RefreshAssumption, NamesAssumption, LeaseCap

-----------------------------------------------------------------------------
(* What the registry's steps leave true of the database. *)

LEMMA ValInit == Init => ValOK
BY RefreshTimes DEF Init, ValOK, Absent, Keys

\* The entry of a service after each of the commands.
LEMMA ValueAfter ==
    ASSUME Shape, ValOK, NEW h \in Handlers, req[h].pc # "idle", NEW s \in Services
    PROVE  /\ LET db == SetEx(redis, req[h].name, req[h].addr, ServiceTTL)
              IN  /\ db[s].val \in Addresses \cup {Nil}
                  /\ db[s].ttl > 0 <=> db[s].val \in Addresses
           /\ LET db == Expire(redis, req[h].name, ServiceTTL)
              IN  /\ db[s].val \in Addresses \cup {Nil}
                  /\ db[s].ttl > 0 <=> db[s].val \in Addresses
<1>1. /\ redis \in Databases(Keys, Values, ServiceTTL) /\ s \in Keys
      /\ req[h].name \in Services /\ req[h].name \in Keys
      /\ req[h].addr \in Addresses /\ req[h].addr \in Values
  BY DEF Shape, TypeOK, Keys, Values, ReqOK, NoRequest
<1>2. ServiceTTL \in Nat /\ ServiceTTL \in 0..ServiceTTL /\ ServiceTTL > 0
  BY Times
<1> DEFINE n == req[h].name
           a == req[h].addr
<1>3. /\ SetEx(redis, n, a, ServiceTTL)[s].val = IF s = n THEN a ELSE redis[s].val
      /\ SetEx(redis, n, a, ServiceTTL)[s].ttl = IF s = n THEN ServiceTTL ELSE redis[s].ttl
  BY <1>1, <1>2, EntryAfter
<1>4. /\ Expire(redis, n, ServiceTTL)[s].val = redis[s].val
      /\ Expire(redis, n, ServiceTTL)[s].ttl =
               IF s = n /\ redis[s].ttl > 0 THEN ServiceTTL ELSE redis[s].ttl
  BY <1>1, <1>2, EntryAfter
<1>5. redis[s].ttl \in Nat
  BY <1>1, <1>2, EntryAfter
<1> QED
  BY <1>1, <1>2, <1>3, <1>4, <1>5 DEF ValOK

LEMMA ValStep == Shape /\ ValOK /\ [Next]_vars => ValOK'
<1> SUFFICES ASSUME Shape, ValOK, [Next]_vars PROVE ValOK'
  OBVIOUS
<1>0. redis \in [Keys -> [val : Values \cup {Nil}, ttl : 0..ServiceTTL]]
  BY DEF Shape, TypeOK, Databases
<1>1. CASE redis' = redis
  BY <1>1 DEF ValOK
<1>2. ASSUME NEW h \in Handlers, RegisterSet(h) \/ UpdateTTLExpire(h) \/ RedisFails(h)
      PROVE  ValOK'
  BY <1>2, ValueAfter DEF RegisterSet, UpdateTTLExpire, RedisFails, RedisPcs, ValOK
<1>3. CASE RedisRestarts
  BY <1>0, <1>3, RefreshTimes DEF RedisRestarts, Without, Absent, ValOK, Keys
<1>4. CASE Tick
  BY <1>0, <1>4, Times, RefreshTimes DEF Tick, Aged, Absent, ValOK, Keys
<1>5. CASE \E s \in Services : \/ ClientStep(s) \/ Start(s) \/ Stop(s)
                              \/ SendFails(s) \/ AnswerLost(s)
  BY <1>1, <1>5 DEF ClientStep, PostRegister, PostHeartbeat, Wake, Start, Stop,
                    SendFails, AnswerLost
<1>6. ASSUME NEW h \in Handlers,
             RegisterExists(h) \/ UpdateTTLExists(h) \/ Reply(h) \/ Abort(h)
      PROVE  ValOK'
  BY <1>1, <1>6 DEF RegisterExists, UpdateTTLExists, Reply, Abort
<1> QED
  BY <1>1, <1>2, <1>3, <1>4, <1>5, <1>6 DEF Next, HandlerStep, vars

LEMMA RStep == RInv /\ [Next]_vars => RInv'
BY ShapeStep, StopStep, LeaseStep, ValStep, OwnStep DEF RInv

\* A failed refresh and a restart of the gateway cost a fault and leave the
\* registry alone.
LEMMA RFault ==
    ASSUME RInv, Fault({}), UNCHANGED <<redis, client, req, ack, downFor, own>>
    PROVE  RInv' /\ clean' = clean
<1>1. clean' = clean
  BY DEF Fault, RInv, Shape, TypeOK
<1>2. faults' \in 0..MaxFaults
  BY Times DEF Fault, RInv, Shape, TypeOK
<1>3. Shape'
  BY <1>1, <1>2 DEF RInv, Shape, TypeOK, ReqOK, AttemptOK, CallOK, client
<1>4. StopOK' /\ DeadForgotten' /\ ValOK' /\ OwnOK'
  BY DEF RInv, StopOK, DeadForgotten, ValOK, OwnOK, OwnAddress, Alive, Listed, client
<1>5. LeaseOK'
  BY <1>1 DEF RInv, LeaseOK, HeldLease, client
<1> QED
  BY <1>1, <1>3, <1>4, <1>5 DEF RInv

\* So does a logout, whose key is not a service's.
LEMMA RLogout == ASSUME RInv, NEW k \in OtherKeys, Logout(k) PROVE RInv'
<1>1. PICK t \in 1..ServiceTTL : redis' = SetEx(redis, k, OtherVal, t)
  BY DEF Logout
<1>2. redis \in Databases(Keys, Values, ServiceTTL) /\ k \in Keys /\ OtherVal \in Values
  BY DEF RInv, Shape, TypeOK, Keys, Values
<1>3. ServiceTTL \in Nat /\ t \in 0..ServiceTTL
  BY Times
<1>4. redis' \in Databases(Keys, Values, ServiceTTL)
  BY <1>1, <1>2, <1>3, DatabaseClosed
<1>5. \A s \in Services : redis'[s] = redis[s]
  BY <1>1, <1>2, RefreshTimes DEF SetEx, Databases, Keys
<1>6. UNCHANGED <<client, req, history, faults>>
  BY DEF Logout
<1>7. Shape'
  BY <1>4, <1>6 DEF RInv, Shape, TypeOK, ReqOK, AttemptOK, CallOK, client, history
<1>8. StopOK' /\ DeadForgotten' /\ ValOK' /\ OwnOK'
  BY <1>5, <1>6 DEF RInv, StopOK, DeadForgotten, ValOK, OwnOK, OwnAddress, Alive, Listed,
                    Exists, client, history
<1>9. LeaseOK'
  BY <1>5, <1>6 DEF RInv, LeaseOK, HeldLease, client, history
<1> QED
  BY <1>7, <1>8, <1>9 DEF RInv

-----------------------------------------------------------------------------
(* The gateway's steps. *)

\* What the history variable counts.
LEMMA Observed ==
    ASSUME leasedFor \in [Services -> 0..LeaseCap], NEW n \in {0, 1}, Observe(n)
    PROVE  /\ leasedFor' \in [Services -> 0..LeaseCap]
           /\ \A s \in Services : /\ leasedFor'[s] <= leasedFor[s] + n
                                  /\ leasedFor'[s] > 0 => Leased(s)'
<1>1. LeaseCap \in Nat
  BY Times, RefreshTimes
<1>2. ASSUME NEW s \in Services
      PROVE  /\ leasedFor'[s] \in 0..LeaseCap
             /\ leasedFor'[s] <= leasedFor[s] + n
             /\ leasedFor'[s] > 0 => Leased(s)'
  <2>1. leasedFor'[s] = IF ~Leased(s)' THEN 0
                        ELSE IF leasedFor[s] = LeaseCap THEN LeaseCap
                        ELSE leasedFor[s] + n
    BY DEF Observe
  <2> HIDE DEF Leased
  <2> QED
    BY <1>1, <2>1
<1>3. leasedFor' \in [Services -> 0..LeaseCap]
  BY <1>2 DEF Observe
<1> QED
  BY <1>2, <1>3

\* No step but a tick adds to the time a service is down: it is 0 when the
\* service stops.
LEMMA DownAfter ==
    ASSUME RInv, NEW s \in Services, ~Alive(s)',
           RegistryStep \/ UNCHANGED <<client, downFor, own>>
    PROVE  downFor'[s] = downFor[s] /\ (Alive(s) => downFor[s] = 0)
<1>1. Alive(s) => downFor[s] = 0
  BY DEF RInv, StopOK
<1>2. CASE UNCHANGED <<client, downFor, own>>
  BY <1>1, <1>2
<1>3. CASE \E t \in Services : Start(t)
  <2>1. PICK t \in Services : Start(t)
    BY <1>3
  <2>2. t # s
    BY <2>1 DEF Start, Alive, RInv, Shape, TypeOK
  <2> QED
    BY <1>1, <2>1, <2>2 DEF Start, RInv, Shape, TypeOK
<1>4. CASE RegistryStep /\ ~\E t \in Services : Start(t)
  <2>1. downFor' = downFor
    BY <1>4 DEF RegistryStep, ClientStep, PostRegister, PostHeartbeat, Wake, Stop,
                SendFails, AnswerLost, HandlerStep, RegisterExists, RegisterSet,
                UpdateTTLExists, UpdateTTLExpire, Reply, RedisFails, Abort,
                RedisRestarts, history
  <2> QED
    BY <1>1, <2>1
<1> QED
  BY <1>2, <1>3, <1>4

\* A service that holds its lease has the container it had before the step.
LEMMA LeasedStays ==
    ASSUME RInv, NEW s \in Services, Leased(s)',
           RegistryStep \/ Tick \/ UNCHANGED <<client, downFor, own>>
    PROVE  own'[s] = own[s] /\ addr'[s] = addr[s]
<1>1. CASE UNCHANGED <<client, downFor, own>>
  BY <1>1 DEF client
<1>2. CASE \E t \in Services : Start(t)
  <2>1. PICK t \in Services : Start(t)
    BY <1>2
  <2>2. ack[t] = "none" /\ ack' = ack
    BY <2>1 DEF Start, RInv, LeaseOK, HeldLease
  <2>3. t # s
    BY <2>2 DEF Leased
  <2> QED
    BY <2>1, <2>3 DEF Start, RInv, Shape, TypeOK
<1>3. CASE (RegistryStep \/ Tick) /\ ~\E t \in Services : Start(t)
  BY <1>3 DEF RegistryStep, ClientStep, PostRegister, PostHeartbeat, Wake, Stop,
              SendFails, AnswerLost, HandlerStep, RegisterExists, RegisterSet,
              UpdateTTLExists, UpdateTTLExpire, Reply, RedisFails, Abort,
              RedisRestarts, Receive, Tick, client, history
<1> QED
  BY <1>1, <1>2, <1>3

\* The types of what the bounds compare.
LEMMA Numbers ==
    ASSUME RInv, DTypes
    PROVE  /\ ServiceTTL \in Nat /\ ServiceTTL > 0 /\ MaxLatency \in Nat
           /\ RefreshInterval \in Nat /\ RefreshInterval > MaxLatency
           /\ refresh \in Nat /\ refresh <= RefreshInterval
           /\ fetch.age \in Nat /\ fetch.age <= MaxLatency
           /\ Since \in Nat
           /\ \A s \in Services : downFor[s] \in Nat /\ leasedFor[s] \in Nat
BY Times, RefreshTimes DEF RInv, Shape, TypeOK, DTypes, Since

LEMMA DInitInv == DInit => DInv
<1> SUFFICES ASSUME DInit PROVE DInv
  OBVIOUS
<1> USE DEF DInit, NoFetch, NoTable
<1>1. RInv
  BY ShapeInit, StopInit, LeaseInit, ValInit, OwnInit DEF RInv
<1>2. DTypes
  <2>1. refresh \in 0..RefreshInterval /\ 0 \in 0..MaxLatency /\ 0 \in 0..LeaseCap
    BY Times, RefreshTimes
  <2> QED
    BY <2>1 DEF DTypes
<1>3. Together /\ LeaseTimes /\ FoundOK /\ TableOK
  BY DEF Together, LeaseTimes, FoundOK, TableOK
<1> QED
  BY <1>1, <1>2, <1>3 DEF DInv

\* A step of the registry, or a logout: the gateway waits.
LEMMA RegistryKeeps ==
    ASSUME DInv, RInv', UNCHANGED gateway, Observe(0),
           RegistryStep \/ UNCHANGED <<client, downFor, own>>
    PROVE  DInv'
<1> USE DEF DInv
<1>1. UNCHANGED <<table, refresh, fetch, missed>>
  BY DEF gateway
<1>2. /\ leasedFor' \in [Services -> 0..LeaseCap]
      /\ \A s \in Services : /\ leasedFor'[s] <= leasedFor[s]
                             /\ leasedFor'[s] > 0 => Leased(s)'
  <2>1. leasedFor \in [Services -> 0..LeaseCap]
    BY DEF DTypes
  <2>2. /\ leasedFor' \in [Services -> 0..LeaseCap]
        /\ \A s \in Services : /\ leasedFor'[s] <= leasedFor[s] + 0
                               /\ leasedFor'[s] > 0 => Leased(s)'
    BY <2>1, Observed
  <2> QED
    BY <2>1, <2>2, Numbers
<1>3. DTypes' /\ Together' /\ LeaseTimes'
  BY <1>1, <1>2 DEF DTypes, Together, LeaseTimes
<1>4. Since' = Since
  BY <1>1 DEF Since
<1>5. \A s \in Services : leasedFor'[s] \in Nat /\ leasedFor[s] \in Nat
  BY <1>3, Numbers DEF DTypes
<1>6. ASSUME NEW s \in Services, ~Alive(s)'
      PROVE  /\ downFor'[s] = downFor[s]
             /\ Alive(s) => downFor'[s] < ServiceTTL
  BY <1>6, DownAfter, Numbers
<1>7. \A s \in Services : leasedFor'[s] > 0 => \A a : Right(s, a) => Right(s, a)'
  BY <1>2, LeasedStays DEF Right
<1>8. FoundOK'
  <2>1. fetch.age \in Nat /\ fetch' = fetch
    BY <1>1, Numbers
  <2> QED
    BY <1>2, <1>5, <1>6, <1>7, <2>1, Numbers DEF FoundOK
<1>9. TableOK'
  <2>1. Since \in Nat
    BY Numbers
  <2> QED
    BY <1>1, <1>2, <1>4, <1>5, <1>6, <1>7, <2>1, Numbers DEF TableOK
<1> QED
  BY <1>3, <1>8, <1>9

\* A step of the gateway, of which no time passes and the registry knows
\* nothing: the answer and the table are what has to be looked at.
LEMMA GatewayKeeps ==
    ASSUME DInv, RInv', UNCHANGED <<client, downFor, own>>, Observe(0),
           /\ table' \in [Services -> Addresses \cup {Nil}]
           /\ refresh' \in 0..RefreshInterval
           /\ fetch' \in [pc : {"idle", "keys", "get", "ok", "failed"},
                         todo : SUBSET Keys,
                         found : [Services -> Addresses \cup {Nil}],
                         age : 0..MaxLatency]
           /\ missed' \in BOOLEAN,
           fetch'.pc # "idle" => refresh' + fetch'.age = RefreshInterval,
           \A s \in Services :
              /\ fetch'.found[s] # Nil /\ ~Alive(s)
                    => downFor[s] < ServiceTTL + MaxLatency + fetch'.age
              /\ fetch'.pc \in {"get", "ok"} /\ leasedFor[s] > fetch'.age
                    => Right(s, fetch'.found[s]) \/ (fetch'.pc = "get" /\ s \in fetch'.todo),
           \A s \in Services :
              ~missed' => /\ table'[s] # Nil /\ ~Alive(s)
                               => downFor[s] < ServiceTTL + MaxLatency + Since'
                          /\ leasedFor[s] > Since' => Right(s, table'[s])
    PROVE  DInv'
<1> USE DEF DInv
<1>1. /\ leasedFor' \in [Services -> 0..LeaseCap]
      /\ \A s \in Services : /\ leasedFor'[s] <= leasedFor[s]
                             /\ leasedFor'[s] > 0 => Leased(s)'
  <2>1. leasedFor \in [Services -> 0..LeaseCap]
    BY DEF DTypes
  <2>2. /\ leasedFor' \in [Services -> 0..LeaseCap]
        /\ \A s \in Services : /\ leasedFor'[s] <= leasedFor[s] + 0
                               /\ leasedFor'[s] > 0 => Leased(s)'
    BY <2>1, Observed
  <2> QED
    BY <2>1, <2>2, Numbers
<1>2. DTypes' /\ Together' /\ LeaseTimes'
  BY <1>1 DEF DTypes, Together, LeaseTimes
<1>3. /\ \A s \in Services : leasedFor'[s] \in Nat /\ leasedFor[s] \in Nat
      /\ Since' \in Nat /\ fetch'.age \in Nat
  BY <1>2, Numbers DEF DTypes, Since
<1>4. \A s \in Services : Alive(s)' <=> Alive(s)
  BY DEF Alive, client
<1>5. \A s \in Services : \A a : Right(s, a)' <=> Right(s, a)
  BY DEF Right, client
<1>6. FoundOK'
  BY <1>1, <1>3, <1>4, <1>5 DEF FoundOK
<1>7. TableOK'
  BY <1>1, <1>3, <1>4, <1>5 DEF TableOK
<1> QED
  BY <1>2, <1>6, <1>7

LEMMA RefreshKeeps == ASSUME DInv, RInv', Refresh, Observe(0) PROVE DInv'
<1>1. /\ UNCHANGED <<client, downFor, own, table, missed>>
      /\ refresh = 0 /\ fetch.pc = "idle" /\ refresh' = RefreshInterval
      /\ fetch' = [NoFetch EXCEPT !.pc = "keys"]
  BY DEF Refresh, vars, history
<1>2. /\ fetch'.pc = "keys" /\ fetch'.todo = {} /\ fetch'.found = NoTable /\ fetch'.age = 0
      /\ fetch' \in [pc : {"idle", "keys", "get", "ok", "failed"},
                    todo : SUBSET Keys,
                    found : [Services -> Addresses \cup {Nil}],
                    age : 0..MaxLatency]
  BY <1>1, Times DEF NoFetch, NoTable
<1>3. refresh' \in 0..RefreshInterval /\ refresh' + fetch'.age = RefreshInterval
  BY <1>1, <1>2, RefreshTimes
<1>4. Since' = Since
  BY <1>1, <1>2, RefreshTimes DEF Since
<1>5. \A s \in Services : NoTable[s] = Nil
  BY DEF NoTable
<1>6. /\ table' \in [Services -> Addresses \cup {Nil}] /\ missed' \in BOOLEAN
  BY <1>1 DEF DInv, DTypes
<1>7. \A s \in Services :
         ~missed' => /\ table'[s] # Nil /\ ~Alive(s)
                          => downFor[s] < ServiceTTL + MaxLatency + Since'
                     /\ leasedFor[s] > Since' => Right(s, table'[s])
  BY <1>1, <1>4 DEF DInv, TableOK
<1> QED
  BY <1>1, <1>2, <1>3, <1>5, <1>6, <1>7, GatewayKeeps

\* A leased service is a present key.
LEMMA LeasedIsThere ==
    ASSUME DInv, NEW s \in Services, leasedFor[s] > 0
    PROVE  Exists(redis, s) /\ Right(s, redis[s].val)
<1>1. ack[s] = "created" /\ clean[s]
  BY DEF DInv, LeaseTimes, Leased
<1>2. redis[s].ttl > 0
  BY <1>1, HeldIsListed DEF DInv, RInv, LeaseOK
<1> QED
  BY <1>2, RefreshTimes DEF Right, Listed, Exists, DInv, RInv, ValOK, OwnOK, OwnAddress

LEMMA ListKeysKeeps == ASSUME DInv, RInv', ListKeys, Observe(0) PROVE DInv'
<1> DEFINE present == {k \in Keys : Exists(redis, k)}
<1>1. /\ UNCHANGED <<client, downFor, own, table, missed, refresh>>
      /\ fetch.pc = "keys"
      /\ fetch' = [fetch EXCEPT !.todo = present,
                                !.pc = IF present = {} THEN "ok" ELSE "get"]
  BY DEF ListKeys, vars, history
<1>2. /\ fetch'.pc = (IF present = {} THEN "ok" ELSE "get") /\ fetch'.todo = present
      /\ fetch'.found = fetch.found /\ fetch'.age = fetch.age
      /\ fetch' \in [pc : {"idle", "keys", "get", "ok", "failed"},
                    todo : SUBSET Keys,
                    found : [Services -> Addresses \cup {Nil}],
                    age : 0..MaxLatency]
  BY <1>1 DEF DInv, DTypes
<1>3. \A s \in Services : leasedFor[s] > fetch.age => s \in present
  BY LeasedIsThere, Numbers DEF Keys, DInv
<1>4. Since' = Since
  BY <1>1, <1>2 DEF Since
<1>5. \A s \in Services :
         /\ fetch'.found[s] # Nil /\ ~Alive(s)
               => downFor[s] < ServiceTTL + MaxLatency + fetch'.age
         /\ fetch'.pc \in {"get", "ok"} /\ leasedFor[s] > fetch'.age
               => Right(s, fetch'.found[s]) \/ (fetch'.pc = "get" /\ s \in fetch'.todo)
  BY <1>1, <1>2, <1>3 DEF DInv, FoundOK
<1>6. /\ table' \in [Services -> Addresses \cup {Nil}] /\ missed' \in BOOLEAN
      /\ refresh' \in 0..RefreshInterval /\ refresh' + fetch'.age = RefreshInterval
  BY <1>1, <1>2 DEF DInv, DTypes, Together
<1>7. \A s \in Services :
         ~missed' => /\ table'[s] # Nil /\ ~Alive(s)
                          => downFor[s] < ServiceTTL + MaxLatency + Since'
                     /\ leasedFor[s] > Since' => Right(s, table'[s])
  BY <1>1, <1>4 DEF DInv, TableOK
<1> QED
  BY <1>1, <1>2, <1>5, <1>6, <1>7, GatewayKeeps

LEMMA ReadKeyKeeps ==
    ASSUME DInv, RInv', NEW k \in Keys, ReadKey(k), Observe(0)
    PROVE  DInv'
<1>1. /\ UNCHANGED <<client, downFor, own, table, missed, refresh>>
      /\ fetch.pc = "get" /\ k \in fetch.todo
  BY DEF ReadKey, vars, history
<1>2. /\ table' \in [Services -> Addresses \cup {Nil}] /\ missed' \in BOOLEAN
      /\ refresh' \in 0..RefreshInterval
      /\ refresh' + fetch.age = RefreshInterval
  BY <1>1 DEF DInv, DTypes, Together
<1>3. ASSUME fetch'.age = fetch.age, fetch'.pc # "idle"
      PROVE  \A s \in Services :
                ~missed' => /\ table'[s] # Nil /\ ~Alive(s)
                                 => downFor[s] < ServiceTTL + MaxLatency + Since'
                            /\ leasedFor[s] > Since' => Right(s, table'[s])
  <2>1. Since' = Since
    BY <1>1, <1>3 DEF Since
  <2> QED
    BY <1>1, <2>1 DEF DInv, TableOK
<1>4. CASE Exists(redis, k) /\ k \notin Services
  <2>1. fetch' = [NoFetch EXCEPT !.pc = "failed", !.age = fetch.age]
    BY <1>4 DEF ReadKey
  <2>2. /\ fetch'.pc = "failed" /\ fetch'.found = NoTable /\ fetch'.age = fetch.age
        /\ fetch' \in [pc : {"idle", "keys", "get", "ok", "failed"},
                      todo : SUBSET Keys,
                      found : [Services -> Addresses \cup {Nil}],
                      age : 0..MaxLatency]
    BY <2>1 DEF NoFetch, NoTable, DInv, DTypes
  <2>3. \A s \in Services :
           /\ fetch'.found[s] # Nil /\ ~Alive(s)
                 => downFor[s] < ServiceTTL + MaxLatency + fetch'.age
           /\ fetch'.pc \in {"get", "ok"} /\ leasedFor[s] > fetch'.age
                 => Right(s, fetch'.found[s]) \/ (fetch'.pc = "get" /\ s \in fetch'.todo)
    BY <2>2 DEF NoTable
  <2> QED
    BY <1>1, <1>2, <1>3, <2>2, <2>3, GatewayKeeps
<1>5. CASE ~(Exists(redis, k) /\ k \notin Services)
  <2> DEFINE rest == fetch.todo \ {k}
             read == [s \in Services |->
                        IF s = k THEN redis[k].val ELSE fetch.found[s]]
  <2>1. fetch' = [fetch EXCEPT !.todo = rest,
                               !.pc = IF rest = {} THEN "ok" ELSE "get",
                               !.found = read]
    BY <1>5 DEF ReadKey
  <2>2. read \in [Services -> Addresses \cup {Nil}]
    BY DEF DInv, DTypes, RInv, ValOK
  <2>3. /\ fetch'.pc = (IF rest = {} THEN "ok" ELSE "get") /\ fetch'.todo = rest
        /\ fetch'.found = read /\ fetch'.age = fetch.age
        /\ fetch' \in [pc : {"idle", "keys", "get", "ok", "failed"},
                      todo : SUBSET Keys,
                      found : [Services -> Addresses \cup {Nil}],
                      age : 0..MaxLatency]
    <3> HIDE DEF read
    <3> QED
      BY <2>1, <2>2 DEF DInv, DTypes
  <2>4. ASSUME NEW s \in Services, read[s] # Nil, ~Alive(s)
        PROVE  downFor[s] < ServiceTTL + MaxLatency + fetch.age
    <3>1. CASE s = k
      <4>1. redis[s].val # Nil
        BY <2>4, <3>1
      <4>2. redis[s].ttl \in Nat /\ (redis[s].ttl = 0 \/ redis[s].ttl > 0)
        BY Times, TtlAfter DEF DInv, RInv
      <4>3. redis[s].ttl > 0 => redis[s].ttl + downFor[s] <= ServiceTTL + MaxLatency
        BY <2>4 DEF DInv, RInv, DeadForgotten, Listed, Exists
      <4>4. redis[s].ttl > 0
        BY <3>1, <4>1 DEF DInv, RInv, ValOK
      <4> QED
        BY <4>2, <4>3, <4>4, Numbers DEF DInv
    <3>2. CASE s # k
      BY <1>1, <2>4, <3>2 DEF DInv, FoundOK
    <3> QED
      BY <3>1, <3>2
  <2>5. ASSUME NEW s \in Services, leasedFor[s] > fetch.age
        PROVE  Right(s, read[s]) \/ s \in rest
    <3>1. CASE s = k
      BY <2>5, <3>1, LeasedIsThere, Numbers, RefreshTimes DEF DInv
    <3>2. CASE s # k
      BY <1>1, <2>5, <3>2 DEF DInv, FoundOK
    <3> QED
      BY <3>1, <3>2
  <2>6. \A s \in Services :
           /\ fetch'.found[s] # Nil /\ ~Alive(s)
                 => downFor[s] < ServiceTTL + MaxLatency + fetch'.age
           /\ fetch'.pc \in {"get", "ok"} /\ leasedFor[s] > fetch'.age
                 => Right(s, fetch'.found[s]) \/ (fetch'.pc = "get" /\ s \in fetch'.todo)
    <3> HIDE DEF read
    <3> QED
      BY <2>3, <2>4, <2>5
  <2> HIDE DEF read, rest
  <2> QED
    BY <1>1, <1>2, <1>3, <2>3, <2>6, GatewayKeeps
<1> QED
  BY <1>4, <1>5

LEMMA UpdateTableKeeps == ASSUME DInv, RInv', UpdateTable, Observe(0) PROVE DInv'
<1>1. /\ UNCHANGED <<client, downFor, own, refresh>> /\ fetch' = NoFetch
      /\ fetch.pc \in {"ok", "failed"}
      /\ table' = IF fetch.pc = "ok" THEN fetch.found ELSE table
      /\ missed' = (fetch.pc = "failed")
  BY DEF UpdateTable, vars, history
<1>2. /\ fetch'.pc = "idle" /\ fetch'.found = NoTable
      /\ fetch' \in [pc : {"idle", "keys", "get", "ok", "failed"},
                    todo : SUBSET Keys,
                    found : [Services -> Addresses \cup {Nil}],
                    age : 0..MaxLatency]
  BY <1>1, Times DEF NoFetch, NoTable
<1>3. /\ table' \in [Services -> Addresses \cup {Nil}] /\ missed' \in BOOLEAN
      /\ refresh' \in 0..RefreshInterval
  BY <1>1 DEF DInv, DTypes
<1>4. Since' = fetch.age
  <2>1. refresh + fetch.age = RefreshInterval /\ Since' = RefreshInterval - refresh
    BY <1>1, <1>2 DEF DInv, Together, Since
  <2> QED
    BY <2>1, Numbers DEF DInv
<1>5. \A s \in Services :
         ~missed' => /\ table'[s] # Nil /\ ~Alive(s)
                          => downFor[s] < ServiceTTL + MaxLatency + Since'
                     /\ leasedFor[s] > Since' => Right(s, table'[s])
  BY <1>1, <1>4 DEF DInv, FoundOK
<1>6. \A s \in Services : NoTable[s] = Nil
  BY DEF NoTable
<1> QED
  BY <1>1, <1>2, <1>3, <1>5, <1>6, GatewayKeeps

\* A refresh that fails, or a gateway that starts anew, promises nothing until
\* the next answer.
LEMMA GatewayFaultKeeps ==
    ASSUME DInv, RefreshFails \/ RestartGateway, Observe(0)
    PROVE  DInv'
<1>1. /\ Fault({}) /\ UNCHANGED <<redis, client, req, ack, downFor, own>>
      /\ fetch' = NoFetch /\ missed' = TRUE
      /\ table' = table \/ table' = NoTable
      /\ refresh' = refresh \/ refresh' = 0
  BY DEF RefreshFails, RestartGateway
<1>2. RInv'
  BY <1>1, RFault DEF DInv
<1>3. /\ fetch'.pc = "idle" /\ fetch'.found = NoTable
      /\ fetch' \in [pc : {"idle", "keys", "get", "ok", "failed"},
                    todo : SUBSET Keys,
                    found : [Services -> Addresses \cup {Nil}],
                    age : 0..MaxLatency]
  BY <1>1, Times DEF NoFetch, NoTable
<1>4. /\ table' \in [Services -> Addresses \cup {Nil}] /\ missed' \in BOOLEAN
      /\ refresh' \in 0..RefreshInterval
  BY <1>1, RefreshTimes DEF DInv, DTypes, NoTable
<1>5. \A s \in Services : NoTable[s] = Nil
  BY DEF NoTable
<1> QED
  BY <1>1, <1>2, <1>3, <1>4, <1>5, GatewayKeeps

\* A tick adds one to the age of everything.
LEMMA TickKeeps == ASSUME DInv, RInv', GatewayTick, Observe(1) PROVE DInv'
<1> USE DEF DInv
<1>1. /\ Tick /\ refresh > 0 /\ fetch.age < MaxLatency /\ refresh' = refresh - 1
      /\ fetch' = IF fetch.pc = "idle" THEN fetch ELSE [fetch EXCEPT !.age = fetch.age + 1]
      /\ UNCHANGED <<table, missed, phase>>
  BY DEF GatewayTick, Tick
<1>2. fetch.age \in Nat /\ fetch.age + 1 \in 0..MaxLatency
  BY <1>1, Numbers
<1>3. /\ fetch'.pc = fetch.pc /\ fetch'.todo = fetch.todo /\ fetch'.found = fetch.found
      /\ fetch'.age = IF fetch.pc = "idle" THEN fetch.age ELSE fetch.age + 1
      /\ fetch' \in [pc : {"idle", "keys", "get", "ok", "failed"},
                    todo : SUBSET Keys,
                    found : [Services -> Addresses \cup {Nil}],
                    age : 0..MaxLatency]
  BY <1>1, <1>2 DEF DTypes
<1>4. refresh' \in 0..RefreshInterval
  BY <1>1, Numbers
<1>5. /\ leasedFor' \in [Services -> 0..LeaseCap]
      /\ \A s \in Services : /\ leasedFor'[s] <= leasedFor[s] + 1
                             /\ leasedFor'[s] > 0 => Leased(s)'
  BY Observed DEF DTypes
<1>6. DTypes' /\ LeaseTimes'
  BY <1>1, <1>3, <1>4, <1>5 DEF DTypes, LeaseTimes
<1>7. Together'
  BY <1>1, <1>3, Numbers DEF Together
<1>8. Since' = Since + 1
  BY <1>1, <1>3, Numbers DEF Since
<1>9. ASSUME NEW s \in Services
      PROVE  /\ Alive(s)' <=> Alive(s)
             /\ \A a : Right(s, a)' <=> Right(s, a)
             /\ downFor'[s] \in Nat /\ downFor'[s] <= downFor[s] + 1
             /\ leasedFor'[s] \in Nat /\ leasedFor'[s] <= leasedFor[s] + 1
  <2>1. downFor'[s] = IF Alive(s) \/ downFor[s] = DownCap THEN downFor[s]
                                                          ELSE downFor[s] + 1
    BY <1>1 DEF Tick
  <2>2. Alive(s)' <=> Alive(s)
    BY <1>1 DEF Alive
  <2>3. leasedFor'[s] \in Nat /\ leasedFor'[s] <= leasedFor[s] + 1
    BY <1>5
  <2>4. \A a : Right(s, a)' <=> Right(s, a)
    BY <1>1 DEF Tick, Right
  <2> QED
    BY <2>1, <2>2, <2>3, <2>4, Numbers
<1>10. FoundOK'
  <2> SUFFICES ASSUME NEW s \in Services
               PROVE  /\ fetch.pc # "idle" /\ fetch.found[s] # Nil /\ ~Alive(s)
                            => downFor'[s] < ServiceTTL + MaxLatency + fetch'.age
                      /\ fetch.pc \in {"get", "ok"} /\ leasedFor'[s] > fetch'.age
                            => \/ Right(s, fetch.found[s])
                               \/ fetch.pc = "get" /\ s \in fetch.todo
    BY <1>3, <1>9 DEF FoundOK
  <2>1. CASE fetch.pc = "idle"
    BY <2>1
  <2>2. CASE fetch.pc # "idle"
    <3>1. fetch'.age = fetch.age + 1
      BY <1>3, <2>2
    <3> QED
      BY <1>9, <3>1, Numbers DEF FoundOK
  <2> QED
    BY <2>1, <2>2
<1>11. TableOK'
  <2> SUFFICES ASSUME NEW s \in Services, ~missed
               PROVE  /\ table[s] # Nil /\ ~Alive(s)
                            => downFor'[s] < ServiceTTL + MaxLatency + (Since + 1)
                      /\ leasedFor'[s] > Since + 1 => Right(s, table[s])
    BY <1>1, <1>8, <1>9 DEF TableOK
  <2> QED
    BY <1>9, Numbers DEF TableOK
<1> QED
  BY <1>6, <1>7, <1>10, <1>11

-----------------------------------------------------------------------------

LEMMA DStep == DInv /\ [DNext]_dvars => DInv'
<1> SUFFICES ASSUME DInv, [DNext]_dvars PROVE DInv'
  OBVIOUS
<1>1. ASSUME UNCHANGED vars \/ Next PROVE RInv'
  BY <1>1, RStep DEF DInv
<1>2. CASE RegistryStep /\ Observe(0)
  <2>1. Next /\ UNCHANGED gateway
    BY <1>2 DEF RegistryStep, Next
  <2> QED
    BY <1>1, <1>2, <2>1, RegistryKeeps
<1>3. CASE GatewayStep /\ Observe(0)
  <2>1. UNCHANGED vars
    BY <1>3 DEF GatewayStep, Refresh, ListKeys, ReadKey, UpdateTable
  <2> QED
    BY <1>1, <1>3, <2>1, RefreshKeeps, ListKeysKeeps, ReadKeyKeeps, UpdateTableKeeps
       DEF GatewayStep
<1>4. CASE (RefreshFails \/ RestartGateway) /\ Observe(0)
  BY <1>4, GatewayFaultKeeps
<1>5. ASSUME NEW k \in OtherKeys, Logout(k), Observe(0) PROVE DInv'
  <2>1. RInv'
    BY <1>5, RLogout DEF DInv
  <2>2. UNCHANGED gateway /\ UNCHANGED <<client, downFor, own>>
    BY <1>5 DEF Logout, history
  <2> QED
    BY <1>5, <2>1, <2>2, RegistryKeeps
<1>6. CASE GatewayTick /\ Observe(1)
  <2>1. Next
    BY <1>6 DEF GatewayTick, Next
  <2> QED
    BY <1>1, <1>6, <2>1, TickKeeps
<1>7. CASE UNCHANGED dvars
  <2>1. UNCHANGED vars /\ UNCHANGED gateway /\ leasedFor' = leasedFor
    BY <1>7 DEF dvars
  <2>2. RInv' /\ UNCHANGED <<table, refresh, fetch, missed>>
        /\ UNCHANGED <<phase, addr, ack, clean, downFor, own>>
    BY <1>1, <2>1 DEF gateway, vars, client, history
  <2> QED
    BY <2>1, <2>2 DEF DInv, DTypes, Together, LeaseTimes, Leased, FoundOK, TableOK,
                      Since, Alive, Right
<1> QED
  BY <1>2, <1>3, <1>4, <1>5, <1>6, <1>7 DEF DNext

LEMMA DInvariant == DSpec => []DInv
BY DInitInv, DStep, PTL DEF DSpec

\* Every variable of the registry and of the gateway keeps its type.
THEOREM DiscoveryTypeCorrect == DSpec => []DTypeOK
<1>1. DInv => DTypeOK
  BY DEF DInv, RInv, Shape, DTypes, DTypeOK
<1> QED
  BY DInvariant, <1>1, PTL

\* The gateway routes to no service that has been down for the time to live,
\* a refresh interval and two latencies, unless its last refresh failed.
THEOREM StoppedAreForgotten == DSpec => []RoutesForgotten
<1>1. DInv => RoutesForgotten
  <2> SUFFICES ASSUME DInv, NEW s \in Services, table[s] # Nil, ~Alive(s), ~missed
               PROVE  downFor[s] < ServiceTTL + RefreshInterval + 2 * MaxLatency
    BY DEF RoutesForgotten
  <2>1. downFor[s] < ServiceTTL + MaxLatency + Since
    BY DEF DInv, TableOK
  <2>2. Since <= RefreshInterval + MaxLatency
    BY Numbers DEF DInv, Since
  <2> QED
    BY <2>1, <2>2, Numbers DEF DInv
<1> QED
  BY DInvariant, <1>1, PTL

\* What the table says of a service that has held its lease that long.
LEMMA TableRight ==
    ASSUME DInv, NEW s \in Services, leasedFor[s] = LeaseCap, ~missed
    PROVE  Right(s, table[s])
<1>1. Since <= RefreshInterval + MaxLatency
  BY Numbers DEF DInv, Since
<1>2. leasedFor[s] > Since
  BY <1>1, Numbers, RefreshTimes DEF DInv
<1> QED
  BY <1>2 DEF DInv, TableOK

\* The gateway routes to every service that has held its lease for a refresh
\* interval and a latency, unless its last refresh failed.
THEOREM LeasedAreRouted == DSpec => []RoutesHeld
<1>1. DInv => RoutesHeld
  BY TableRight DEF RoutesHeld, Right
<1> QED
  BY DInvariant, <1>1, PTL

\* And it routes to the container of the service, unless that came up under
\* another address before its predecessor was forgotten.
THEOREM RoutedToOwnAddress == DSpec => []RoutesOwn
<1>1. DInv => RoutesOwn
  BY TableRight DEF RoutesOwn, Right
<1> QED
  BY DInvariant, <1>1, PTL

\* The registry keeps its own promises in a database that holds the keys of
\* logged-out tokens too, and with a gateway that reads and restarts.
THEOREM RegistryHoldsUnderDiscovery ==
    DSpec => [](FreshLeaseHeld /\ DeadForgotten /\ OwnAddress)
<1>1. DInv => FreshLeaseHeld /\ DeadForgotten /\ OwnAddress
  BY HeldIsListed DEF DInv, RInv, LeaseOK, FreshLeaseHeld, Listed, Exists, OwnOK
<1> QED
  BY DInvariant, <1>1, PTL
=============================================================================
