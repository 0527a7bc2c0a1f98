------------------------------ MODULE Sessions ------------------------------
(***************************************************************************)
(* Sessions: auth's Login issues a token that carries its expiry in whole  *)
(* seconds, auth's Logout keeps the token's jti in Redis for the seconds   *)
(* it has left, and the gateway's jwtAuthMiddleware lets a request through *)
(* when its token parses and its jti is not in Redis.  The steps of a      *)
(* request take any time.                                                  *)
(*                                                                         *)
(* The clock has TicksPerSecond ticks in a second: time.Now().Unix() is    *)
(* sec, the comparison with the expiry when a token is parsed and the time *)
(* to live that Redis keeps see every tick.                                *)
(***************************************************************************)
EXTENDS Redis, Integers

CONSTANTS
    Tokens,           \* the jti of the tokens that Login may issue
    Requests,         \* slots for the requests in progress
    Blacklisted,      \* the value Logout writes
    TokenLife,        \* 24 h, in seconds
    TicksPerSecond,
    MaxSec,           \* bound: the clock stops there
    MaxFaults         \* bound: faults in one behaviour

ASSUME SessionAssumption ==
    /\ {TokenLife, TicksPerSecond} \subseteq Nat \ {0}
    /\ MaxSec \in Nat /\ MaxFaults \in Nat
    /\ Nil # Blacklisted

VARIABLES
    sec, sub,      \* the clock: the second and the tick in it
    redis,         \* the blacklist
    exp,           \* the exp claim of each token, 0 when it is not issued
    req,           \* the requests in progress
    loggedOut,     \* history: the tokens whose logout was answered with 200
    lost,          \* history: the entries a Redis restart may have lost and
                   \* no logout has written again
    faults

clock == <<sec, sub>>
vars == <<clock, redis, exp, req, loggedOut, lost, faults>>

Now == sec * TicksPerSecond + sub
ExpiryOf(t) == exp[t] * TicksPerSecond
Expired(t) == ExpiryOf(t) <= Now
MaxTTL == TokenLife * TicksPerSecond

Pcs == {"idle", "parse", "check", "auth", "ttl", "set", "done", "served", "refused"}

\* after: the request was made when its token was already logged out, and no
\* restart of Redis has lost the entry since.
\* ttl: Logout's ttlSeconds.
NoRequest == [pc |-> "idle", kind |-> "use", tok |-> Nil, after |-> FALSE, ttl |-> 0]
RequestType == [pc : Pcs, kind : {"use", "logout"}, tok : Tokens \cup {Nil},
                after : BOOLEAN, ttl : 0..TokenLife]

Init ==
    /\ sec = 0 /\ sub = 0
    /\ redis = [t \in Tokens |-> Absent]
    /\ exp = [t \in Tokens |-> 0]
    /\ req = [r \in Requests |-> NoRequest]
    /\ loggedOut = {} /\ lost = {}
    /\ faults = 0

Goto(r, pc) == req' = [req EXCEPT ![r].pc = pc]

\* Login: exp is time.Now().Add(24 h).Unix().
Login(t) ==
    /\ exp[t] = 0
    /\ exp' = [exp EXCEPT ![t] = sec + TokenLife]
    /\ UNCHANGED <<clock, redis, req, loggedOut, lost, faults>>

\* A client sends a request with its token to the gateway.
Arrive(r, t, kind) ==
    /\ req[r].pc = "idle" /\ exp[t] # 0
    /\ req' = [req EXCEPT ![r] = [pc |-> "parse", kind |-> kind, tok |-> t,
                                  after |-> t \in loggedOut \ lost, ttl |-> 0]]
    /\ UNCHANGED <<clock, redis, exp, loggedOut, lost, faults>>

\* jwtAuthMiddleware: parseJWT takes a token until its expiry.
GateParse(r) ==
    /\ req[r].pc = "parse"
    /\ Goto(r, IF Expired(req[r].tok) THEN "refused" ELSE "check")
    /\ UNCHANGED <<clock, redis, exp, loggedOut, lost, faults>>

\* jwtAuthMiddleware: GET of the jti; a value refuses the request, none lets
\* it through to its service.
GateCheck(r) ==
    /\ req[r].pc = "check"
    /\ Goto(r, IF Exists(redis, req[r].tok) THEN "refused"
               ELSE IF req[r].kind = "logout" THEN "auth" ELSE "served")
    /\ UNCHANGED <<clock, redis, exp, loggedOut, lost, faults>>

\* auth parses the token once more, in AuthMiddleware and in Logout.
LogoutParse(r) ==
    /\ req[r].pc = "auth"
    /\ Goto(r, IF Expired(req[r].tok) THEN "refused" ELSE "ttl")
    /\ UNCHANGED <<clock, redis, exp, loggedOut, lost, faults>>

\* Mutation: a token with no time left is kept with the time it has.
LogoutTTLUnchecked(r) ==
    /\ req[r].pc = "ttl"
    /\ req' = [req EXCEPT ![r].pc = "set", ![r].ttl = exp[req[r].tok] - sec]
    /\ UNCHANGED <<clock, redis, exp, loggedOut, lost, faults>>

\* Mutation: a token in its last second needs no entry.
LogoutTTLEarly(r) ==
    /\ req[r].pc = "ttl"
    /\ LET left == exp[req[r].tok] - sec
       IN  req' = [req EXCEPT ![r].pc = IF left <= 1 THEN "done" ELSE "set",
                              ![r].ttl = IF left <= 1 THEN 0 ELSE left]
    /\ UNCHANGED <<clock, redis, exp, loggedOut, lost, faults>>

\* Mutation: whole seconds until the expiry, rounded down.
LogoutTTLRounded(r) ==
    /\ req[r].pc = "ttl"
    /\ LET left == (ExpiryOf(req[r].tok) - Now) \div TicksPerSecond
       IN  req' = [req EXCEPT ![r].pc = IF left <= 0 THEN "done" ELSE "set",
                              ![r].ttl = IF left <= 0 THEN 0 ELSE left]
    /\ UNCHANGED <<clock, redis, exp, loggedOut, lost, faults>>

\* Logout: ttlSeconds from the whole second of the clock; a token with none
\* left needs no entry.
LogoutTTL(r) ==
    /\ req[r].pc = "ttl"
    /\ LET left == exp[req[r].tok] - sec
       IN  req' = [req EXCEPT ![r].pc = IF left <= 0 THEN "done" ELSE "set",
                              ![r].ttl = IF left <= 0 THEN 0 ELSE left]
    /\ UNCHANGED <<clock, redis, exp, loggedOut, lost, faults>>

\* Logout: SET of the jti with ttlSeconds.
LogoutSet(r) ==
    /\ req[r].pc = "set"
    /\ redis' = SetEx(redis, req[r].tok, Blacklisted, req[r].ttl * TicksPerSecond)
    /\ lost' = lost \ {req[r].tok}
    /\ Goto(r, "done")
    /\ UNCHANGED <<clock, exp, loggedOut, faults>>

\* The client gets the answer, or is gone: a proxy timeout, a lost answer.
Answer(r) ==
    /\ req[r].pc \in {"done", "served", "refused"}
    /\ req' = [req EXCEPT ![r] = NoRequest]
    /\ \/ req[r].pc = "done" /\ loggedOut' = loggedOut \cup {req[r].tok}
       \/ UNCHANGED loggedOut
    /\ UNCHANGED <<clock, redis, exp, lost, faults>>

Fault == faults < MaxFaults /\ faults' = faults + 1

\* A Redis command returns an error: 500, after or without the SET.
RedisFails(r) ==
    /\ Fault
    /\ req[r].pc \in {"check", "set"}
    /\ \/ UNCHANGED <<redis, lost>>
       \/ /\ req[r].pc = "set"
          /\ redis' = SetEx(redis, req[r].tok, Blacklisted,
                            req[r].ttl * TicksPerSecond)
          /\ lost' = lost \ {req[r].tok}
    /\ Goto(r, "refused")
    /\ UNCHANGED <<clock, exp, loggedOut>>

\* Redis restarts from its last snapshot.
RedisRestarts ==
    /\ Fault
    /\ \E gone \in SUBSET Tokens \ {{}} :
          /\ redis' = Without(redis, gone)
          /\ lost' = lost \cup gone
          /\ req' = [r \in Requests |->
                       [req[r] EXCEPT !.after = @ /\ req[r].tok \notin gone]]
    /\ UNCHANGED <<clock, exp, loggedOut>>

Tick ==
    /\ sec < MaxSec
    /\ \/ sub + 1 < TicksPerSecond /\ sub' = sub + 1 /\ sec' = sec
       \/ sub + 1 = TicksPerSecond /\ sub' = 0 /\ sec' = sec + 1
    /\ redis' = Aged(redis)
    /\ UNCHANGED <<exp, req, loggedOut, lost, faults>>

RequestStep(r) ==
    \/ \E t \in Tokens, kind \in {"use", "logout"} : Arrive(r, t, kind)
    \/ GateParse(r) \/ GateCheck(r)
    \/ LogoutParse(r) \/ LogoutTTL(r) \/ LogoutSet(r) \/ Answer(r)

Next ==
    \/ \E t \in Tokens : Login(t)
    \/ \E r \in Requests : RequestStep(r) \/ RedisFails(r)
    \/ RedisRestarts
    \/ Tick

Spec == Init /\ [][Next]_vars

-----------------------------------------------------------------------------
(* Properties *)

\* Every variable has its type.
TypeOK ==
    /\ sec \in 0..MaxSec /\ sub \in 0..(TicksPerSecond - 1)
    /\ redis \in Databases(Tokens, {Blacklisted}, MaxTTL)
    /\ exp \in [Tokens -> 0..(MaxSec + TokenLife)]
    /\ req \in [Requests -> RequestType]
    /\ loggedOut \subseteq Tokens /\ lost \subseteq Tokens
    /\ faults \in 0..MaxFaults

\* Logout invalidates the token (auth handlers.go:179): a request made after
\* the logout was answered does not get through while the token could still
\* be used, unless Redis has lost the entry and no logout wrote it again since.
\* Rounding, two logouts of one token and the time between the steps of the
\* gateway and of auth never open a gap.
NoUseAfterLogout ==
    \A r \in Requests :
        req[r].pc = "served" /\ req[r].after => Expired(req[r].tok)

\* The entry of a logged-out token lasts at least as long as the token.
BlacklistOutlives ==
    \A t \in loggedOut \ lost : ExpiryOf(t) <= Now + redis[t].ttl
=============================================================================
