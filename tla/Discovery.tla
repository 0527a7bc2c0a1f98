----------------------------- MODULE Discovery -----------------------------
(***************************************************************************)
(* The gateway's view of the registry, on top of Registry: refreshLoop     *)
(* asks GET /services once at start and at every tick of a ticker, the     *)
(* registry's GetServices answers with KEYS "*" and one GET per key, and   *)
(* the gateway replaces its routing table with a complete answer and keeps *)
(* it otherwise.  The other program of the database is the auth service,   *)
(* which keeps the jti of a logged-out token there.                        *)
(***************************************************************************)
EXTENDS Registry, FiniteSets

CONSTANT RefreshInterval      \* 20 s in the source

ASSUME RefreshAssumption ==
    RefreshInterval \in Nat /\ MaxLatency < RefreshInterval

VARIABLES
    table,      \* Discovery.services, name to address
    refresh,    \* ticks until the refresh ticker fires
    fetch,      \* the GET /services that is out
    missed,     \* history: the gateway's last refresh brought no table
    leasedFor   \* history: ticks the service has held its lease

gateway == <<table, refresh, fetch, missed>>
dvars == <<vars, gateway, leasedFor>>

NoTable == [s \in Services |-> Nil]
NoFetch == [pc |-> "idle", todo |-> {}, found |-> NoTable, age |-> 0]
LeaseCap == RefreshInterval + MaxLatency + 1

DInit ==
    /\ Init
    /\ table = NoTable
    /\ refresh = 0
    /\ fetch = NoFetch
    /\ missed = TRUE
    /\ leasedFor = [s \in Services |-> 0]

\* Mutation: the ticker starts anew when the request may be over.
RefreshLate ==
    /\ refresh = 0 /\ fetch.pc = "idle"
    /\ fetch' = [NoFetch EXCEPT !.pc = "keys"]
    /\ refresh' = RefreshInterval + MaxLatency
    /\ UNCHANGED <<vars, table, missed>>

\* The ticker fires, or the gateway has just started: GET /services.
Refresh ==
    /\ refresh = 0 /\ fetch.pc = "idle"
    /\ fetch' = [NoFetch EXCEPT !.pc = "keys"]
    /\ refresh' = RefreshInterval
    /\ UNCHANGED <<vars, table, missed>>

\* RedisStore.GetServices: KEYS "*" names every key of the database.
ListKeys ==
    /\ fetch.pc = "keys"
    /\ LET present == {k \in Keys : Exists(redis, k)}
       IN  fetch' = [fetch EXCEPT !.todo = present,
                                  !.pc = IF present = {} THEN "ok" ELSE "get"]
    /\ UNCHANGED <<vars, table, refresh, missed>>

\* Mutation: a key that expired since ends the loop.
ReadKeyBreaks(k) ==
    /\ fetch.pc = "get" /\ k \in fetch.todo
    /\ LET rest == IF Exists(redis, k) THEN fetch.todo \ {k} ELSE {}
       IN  fetch' = [fetch EXCEPT
               !.todo = rest,
               !.pc = IF rest = {} THEN "ok" ELSE "get",
               !.found = [s \in Services |-> IF s = k THEN redis[k].val ELSE @[s]]]
    /\ UNCHANGED <<vars, table, refresh, missed>>

\* RedisStore.GetServices: GET of the next key.  One that expired since is
\* skipped; one that does not hold a registration fails the whole request.
ReadKey(k) ==
    /\ fetch.pc = "get" /\ k \in fetch.todo
    /\ LET rest == fetch.todo \ {k}
       IN  IF Exists(redis, k) /\ k \notin Services
           THEN fetch' = [NoFetch EXCEPT !.pc = "failed", !.age = fetch.age]
           ELSE fetch' = [fetch EXCEPT
                    !.todo = rest,
                    !.pc = IF rest = {} THEN "ok" ELSE "get",
                    !.found = [s \in Services |->
                                 IF s = k THEN redis[k].val ELSE @[s]]]
    /\ UNCHANGED <<vars, table, refresh, missed>>

\* Mutation: the answer is merged into the table.
UpdateTableMerges ==
    /\ fetch.pc \in {"ok", "failed"}
    /\ table' = [s \in Services |->
                   IF fetch.found[s] # Nil THEN fetch.found[s] ELSE table[s]]
    /\ missed' = (fetch.pc = "failed")
    /\ fetch' = NoFetch
    /\ UNCHANGED <<vars, refresh>>

\* Mutation: only the first answer is taken.
UpdateTableOnce ==
    /\ fetch.pc \in {"ok", "failed"}
    /\ table' = IF fetch.pc = "ok" /\ missed THEN fetch.found ELSE table
    /\ missed' = (fetch.pc = "failed")
    /\ fetch' = NoFetch
    /\ UNCHANGED <<vars, refresh>>

\* Discovery.refresh: a complete answer replaces the table, any other answer
\* leaves it alone.
UpdateTable ==
    /\ fetch.pc \in {"ok", "failed"}
    /\ table' = IF fetch.pc = "ok" THEN fetch.found ELSE table
    /\ missed' = (fetch.pc = "failed")
    /\ fetch' = NoFetch
    /\ UNCHANGED <<vars, refresh>>

\* The request, its answer or one of its Redis commands fails.
RefreshFails ==
    /\ fetch.pc # "idle"
    /\ Fault({})
    /\ fetch' = NoFetch
    /\ missed' = TRUE
    /\ UNCHANGED <<redis, client, req, ack, downFor, own, table, refresh>>

\* A new gateway starts with an empty table and refreshes at once.
RestartGateway ==
    /\ Fault({})
    /\ table' = NoTable
    /\ refresh' = 0
    /\ fetch' = NoFetch
    /\ missed' = TRUE
    /\ UNCHANGED <<redis, client, req, ack, downFor, own>>

\* auth's Logout keeps a jti in the database for as long as its token lasts.
Logout(k) ==
    /\ \E t \in 1..ServiceTTL : redis' = SetEx(redis, k, OtherVal, t)
    /\ UNCHANGED <<client, req, history, faults, gateway>>

GatewayTick ==
    /\ refresh > 0
    /\ fetch.age < MaxLatency
    /\ Tick
    /\ refresh' = refresh - 1
    /\ fetch' = IF fetch.pc = "idle" THEN fetch ELSE [fetch EXCEPT !.age = @ + 1]
    /\ UNCHANGED <<table, missed>>

GatewayStep ==
    Refresh \/ ListKeys \/ (\E k \in Keys : ReadKey(k)) \/ UpdateTable

RegistryStep ==
    /\ \/ \E s \in Services : \/ ClientStep(s) \/ Start(s) \/ Stop(s)
                              \/ SendFails(s) \/ AnswerLost(s)
       \/ \E h \in Handlers : HandlerStep(h) \/ RedisFails(h) \/ Abort(h)
       \/ RedisRestarts
    /\ UNCHANGED gateway

\* What a lease is: acknowledged with 201 and not hit by a fault since.
Leased(s) == ack[s] = "created" /\ clean[s]

\* The history variable leasedFor counts the ticks of the step just taken.
Observe(ticks) ==
    leasedFor' = [s \in Services |->
        IF ~Leased(s)' THEN 0
        ELSE IF leasedFor[s] = LeaseCap THEN LeaseCap ELSE leasedFor[s] + ticks]

DNext ==
    \/ /\ \/ RegistryStep \/ GatewayStep \/ RefreshFails \/ RestartGateway
          \/ \E k \in OtherKeys : Logout(k)
       /\ Observe(0)
    \/ GatewayTick /\ Observe(1)

DSpec == DInit /\ [][DNext]_dvars

DFairness ==
    /\ \A s \in Services : WF_dvars(ClientStep(s) /\ UNCHANGED gateway /\ Observe(0))
    /\ \A h \in Handlers : WF_dvars(HandlerStep(h) /\ UNCHANGED gateway /\ Observe(0))
    /\ WF_dvars(GatewayStep /\ Observe(0))
    /\ WF_dvars(GatewayTick /\ Observe(1))

FairDSpec == DSpec /\ DFairness

-----------------------------------------------------------------------------
(* Properties *)

\* Every variable has its type.
DTypeOK ==
    /\ TypeOK
    /\ table \in [Services -> Addresses \cup {Nil}]
    /\ refresh \in 0..RefreshInterval
    /\ fetch \in [pc : {"idle", "keys", "get", "ok", "failed"},
                  todo : SUBSET Keys,
                  found : [Services -> Addresses \cup {Nil}],
                  age : 0..MaxLatency]
    /\ missed \in BOOLEAN
    /\ leasedFor \in [Services -> 0..LeaseCap]

\* The gateway stops routing to a service that stopped: its entry lasts
\* ServiceTTL and a request left behind, the answer that still lists it comes
\* within a latency, and the next one a refresh interval later, unless the
\* refresh fails.
RoutesForgotten ==
    \A s \in Services :
        table[s] # Nil /\ ~Alive(s) /\ ~missed
            => downFor[s] < ServiceTTL + RefreshInterval + 2 * MaxLatency

\* The gateway routes to every service that has held its lease for a refresh
\* interval and a latency, unless the refresh fails: KEYS and the GETs, with
\* heartbeats and expiries between them, never miss a leased service.
RoutesHeld ==
    \A s \in Services :
        leasedFor[s] = LeaseCap /\ ~missed => table[s] # Nil

\* It routes to the container of the service, not to one before it, when the
\* registry can list no other (OwnAddress): an address of an earlier container
\* does not stay in the table for longer than that in the registry.
RoutesOwn ==
    \A s \in Services :
        leasedFor[s] = LeaseCap /\ ~missed /\ own[s] => table[s] = addr[s]

\* A service that was acknowledged gets a route, or is stopped, or is hit by
\* a fault, or has a logged-out token keep the registry from answering.
RouteAppears ==
    \A s \in Services :
        Leased(s) ~> \/ table[s] # Nil \/ ~Leased(s)
                     \/ \E k \in OtherKeys : Exists(redis, k)

\* The registry's README (service-registry/README.md:64): /services discovers
\* the currently available services.  Without a fault the gateway's request
\* for them is answered with a list.
ServicesAnswered == faults = 0 => fetch.pc # "failed"
=============================================================================
