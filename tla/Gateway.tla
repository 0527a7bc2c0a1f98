------------------------------ MODULE Gateway -------------------------------
(***************************************************************************)
(* The calls of clients on the accounts, through the gateway: the token    *)
(* check, then the rate limiter, then the proxy.  Only the last one makes  *)
(* the auth service do anything, and it waits no longer than its timeouts, *)
(* while the handler it called goes on.                                    *)
(***************************************************************************)
EXTENDS Accounts, Limiter

Calls == SignUps \cup Reads

VARIABLES
    front,      \* each call in the gateway; its address until it is limited
    admitted    \* history: the addresses that got past the token check

gvars == <<vars, lvars, front, admitted>>

\* The gateway's own answers: "denied" is 401, 429, 503 and 500, which leave a
\* call at the gateway, "gaveup" is 502, or no answer.
Own == {"denied", "gaveup"}

At(pc) == [pc |-> pc, from |-> Nobody]

GInit ==
    /\ Init /\ LInit
    /\ front = [c \in Calls |-> At("idle")]
    /\ admitted = {}

Goes(c, pc) == front' = [front EXCEPT ![c] = At(pc)]
Passes(c, a) == front' = [front EXCEPT ![c] = [pc |-> "limit", from |-> a]]

\* Mutation: the rate limiter comes before the token check.
ArriveLimitsFirst(c, a) ==
    /\ front[c].pc = "idle"
    /\ \/ /\ Passes(c, a)
          /\ admitted' = admitted \cup {a}
          /\ UNCHANGED lvars
       \/ /\ c \in Reads
          /\ Goes(c, "denied")
          /\ Allow(a)
          /\ UNCHANGED admitted
    /\ UNCHANGED vars

\* jwtAuthMiddleware: login and sign-up are open; the rest needs a token, 401,
\* that has not been revoked, 401, for all that Redis says, 500 if it does not.
Arrive(c, a) ==
    /\ front[c].pc = "idle"
    /\ \/ /\ Passes(c, a)
          /\ admitted' = admitted \cup {a}
       \/ /\ c \in Reads
          /\ Goes(c, "denied")
          /\ UNCHANGED admitted
    /\ UNCHANGED <<vars, lvars>>

\* The handlers that the proxy calls.
Call(c) ==
    \/ c \in SignUps /\ \E e \in Emails, p \in Passwords : BeginSignUp(c, e, p)
    \/ /\ c \in Reads
       /\ \/ \E e \in Emails, p \in Passwords : BeginLogin(c, e, p)
          \/ \E i \in SignUps : BeginLookup(c, i)

\* Mutation: 429 is written and the handlers after it run all the same.
LimitGoesOn(c) ==
    /\ front[c].pc = "limit"
    /\ \/ Allow(front[c].from) /\ Goes(c, "route") /\ UNCHANGED vars
       \/ Refuse(front[c].from) /\ Goes(c, "denied") /\ Call(c)
    /\ UNCHANGED admitted

\* The rate limiting middleware: 429 without a token.
Limit(c) ==
    /\ front[c].pc = "limit"
    /\ \/ Allow(front[c].from) /\ Goes(c, "route")
       \/ Refuse(front[c].from) /\ Goes(c, "denied")
    /\ UNCHANGED <<vars, admitted>>

\* makeProxyHandler: the service is not in the table, 503, its address is not a
\* URL, 500, or the call goes out.
Route(c) ==
    /\ front[c].pc = "route"
    /\ \/ Goes(c, "denied") /\ UNCHANGED vars
       \/ Goes(c, "out") /\ Call(c)
    /\ UNCHANGED <<lvars, admitted>>

\* The handler of the call has written its answer.
Done(c) ==
    \/ c \in SignUps /\ signup[c].pc \in {"created", "conflict", "unhashed", "failed"}
    \/ c \in Reads /\ read[c].pc \in {"ok", "found", "refused"}

Relay(c) ==
    /\ front[c].pc = "out" /\ Done(c)
    /\ Goes(c, "answered")
    /\ UNCHANGED <<vars, lvars, admitted>>

\* ErrorHandler: the connection is refused or lost, no header comes in 10 s or
\* the context ends after 15 s.
GiveUp(c) ==
    /\ front[c].pc = "out"
    /\ Goes(c, "gaveup")
    /\ UNCHANGED <<vars, lvars, admitted>>

Backend == HandlerStep /\ UNCHANGED <<lvars, front, admitted>>

Clock == (Tick \/ OpenWindow) /\ UNCHANGED <<vars, front, admitted>>

\* The gateway stops and starts again: its clients are cut off, its limiters
\* forgotten; the auth service is not told.
RestartGateway ==
    /\ RestartLimiter
    /\ front' = [c \in Calls |-> IF front[c].pc \in {"limit", "route", "out"}
                                 THEN At("gaveup") ELSE front[c]]
    /\ UNCHANGED <<vars, admitted>>

GNext ==
    \/ \E c \in Calls : \/ \E a \in Addresses : Arrive(c, a)
                        \/ Limit(c) \/ Route(c) \/ Relay(c) \/ GiveUp(c)
    \/ Backend \/ Clock \/ RestartGateway

GSpec == GInit /\ [][GNext]_gvars

-----------------------------------------------------------------------------
(* Properties *)

\* Every variable has its type, those of the two parts too.
GTypeOK ==
    /\ TypeOK /\ LTypeOK
    /\ front \in [Calls -> [pc : Own \cup {"idle", "limit", "route", "out", "answered"},
                            from : Addresses \cup {Nobody}]]
    /\ admitted \subseteq Addresses

\* A client that is told 401, 429, 503 or the gateway's own 500 may try again:
\* nothing was done for it by the auth service, now or later.  What leaves it in
\* doubt is 502, and a 500 of the service that the gateway hands on.
NothingDone ==
    \A c \in Calls : front[c].pc = "denied" =>
        /\ c \in SignUps => signup[c] = NoSignUp /\ ~Stored(c)
        /\ c \in Reads => read[c] = NoRead

\* The map of limiters (main.go:136), which never shrinks, has entries for
\* addresses with a token or on an open path only: who is turned away by the
\* token check costs the gateway no memory.
EntriesEarned == visitors \subseteq admitted
=============================================================================
