------------------------------ MODULE Limiter ------------------------------
(***************************************************************************)
(* The gateway's rate limiter, ipRateLimiter: a token bucket for each      *)
(* address that has sent a request, made full at the first one and kept    *)
(* for as long as the gateway runs.  A bucket gains one token in TokenTicks *)
(* ticks; it is counted in ticks, so that a request costs TokenTicks.      *)
(*                                                                         *)
(* Two observers follow one address: a window of up to Window ticks in     *)
(* which its requests are counted, and the pace at which they come.        *)
(***************************************************************************)
EXTENDS Integers

CONSTANTS
    Addresses,
    Watched,       \* the address that is observed
    Burst,         \* 60 in the source
    TokenTicks,    \* a second in the source
    Window         \* bound: ticks for which requests are counted

ASSUME LimiterAssumption ==
    /\ Watched \in Addresses
    /\ {Burst, TokenTicks} \subseteq Nat \ {0} /\ Window \in Nat

VARIABLES
    visitors,   \* the addresses in the map
    bucket,     \* the tokens of each limiter, in ticks
    age,        \* history: ticks since the window was opened
    passed,     \* history: requests of Watched let through in it
    idle,       \* history: ticks since the last request of Watched
    paced,      \* history: its requests have been TokenTicks apart
    limited     \* history: one of its requests was refused while they were

limiter == <<visitors, bucket>>
window == <<age, passed>>
pace == <<idle, paced, limited>>
lvars == <<limiter, window, pace>>

Full == Burst * TokenTicks

LInit ==
    /\ visitors = {}
    /\ bucket = [a \in Addresses |-> Full]
    /\ age = 0 /\ passed = 0
    /\ idle = TokenTicks /\ paced = TRUE /\ limited = FALSE

\* Mutation: every request gets a limiter of its own.
TokensAnew(a) == Full

\* getLimiter: the limiter of the address, or a new one, which is full.
Tokens(a) == IF a \in visitors THEN bucket[a] ELSE Full

\* Mutation: one bucket is drawn from for all addresses.
DrawFromAll(a) == bucket' = [b \in Addresses |-> Tokens(a) - TokenTicks]

\* Allow takes one token, when there is one.
Draw(a) == bucket' = [bucket EXCEPT ![a] = Tokens(a) - TokenTicks]

\* The observers see a request of a.
Observe(a, pass) ==
    \/ /\ a = Watched
       /\ passed' = IF pass THEN passed + 1 ELSE passed
       /\ idle' = 0
       /\ paced' = (paced /\ idle = TokenTicks)
       /\ limited' = (limited \/ (~pass /\ paced'))
    \/ a # Watched /\ UNCHANGED <<passed, pace>>

\* The middleware: getLimiter and Allow let the request of a through.
Allow(a) ==
    /\ Tokens(a) >= TokenTicks
    /\ visitors' = visitors \cup {a}
    /\ Draw(a)
    /\ Observe(a, TRUE)
    /\ UNCHANGED age

\* Or they refuse it, with 429.
Refuse(a) ==
    /\ Tokens(a) < TokenTicks
    /\ visitors' = visitors \cup {a}
    /\ Observe(a, FALSE)
    /\ UNCHANGED <<bucket, age>>

\* The window that is looked at starts here.
OpenWindow ==
    /\ age' = 0 /\ passed' = 0
    /\ UNCHANGED <<limiter, pace>>

\* Mutation: a bucket is not capped.
RefillUncapped(a) == bucket[a] + 1

\* A bucket gains a token in TokenTicks ticks, up to the burst.
Refill(a) == IF bucket[a] < Full THEN bucket[a] + 1 ELSE Full

Tick ==
    /\ bucket' = [a \in Addresses |-> Refill(a)]
    /\ idle' = IF idle < TokenTicks THEN idle + 1 ELSE idle
    /\ \/ age < Window /\ age' = age + 1 /\ UNCHANGED passed
       \/ age = Window /\ age' = 0 /\ passed' = 0
    /\ UNCHANGED <<visitors, paced, limited>>

\* A new gateway has no limiters; the window ends with the old one.
RestartLimiter ==
    /\ visitors' = {}
    /\ bucket' = [a \in Addresses |-> Full]
    /\ age' = 0 /\ passed' = 0
    /\ UNCHANGED pace

LNext ==
    \/ \E a \in Addresses : Allow(a) \/ Refuse(a)
    \/ OpenWindow \/ Tick \/ RestartLimiter

LSpec == LInit /\ [][LNext]_lvars

-----------------------------------------------------------------------------
(* Properties *)

\* Every variable has its type.
LTypeOK ==
    /\ visitors \subseteq Addresses
    /\ bucket \in [Addresses -> 0..Full]
    /\ age \in 0..Window /\ passed \in Nat
    /\ idle \in 0..TokenTicks
    /\ paced \in BOOLEAN /\ limited \in BOOLEAN

\* In no window of the clock, wherever it starts, does one address get more
\* requests through than the burst and one for every TokenTicks of it.  For
\* the minute that /health/detailed names (main.go:494) that is 120.
RateBound == passed * TokenTicks <= Full + age

\* An address whose requests come no faster than the rate is never refused,
\* whatever the other addresses send.
PacedNeverLimited == ~limited
=============================================================================
