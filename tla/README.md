# Verification of the blogger microservices

TLA+ models of the services under `src/server/`, the TLC configurations that
check them on small instances, and TLAPS proofs of what matters most about
them. Paths below are relative to `src/server/`.

## 1. Inventory

| Component | State | Operations | Correct when |
|---|---|---|---|
| **Service registry** (`service-registry/`) | Redis keys `name -> {address}`, 60 s to live | `POST /register` (EXISTS, then SET, or EXISTS + EXPIRE when the key is there), `POST /heartbeat` (EXISTS, EXPIRE), `GET /services` (KEYS `*`, one GET per key) | a service that keeps its lease is listed, a stopped one is forgotten in bounded time |
| **Registration client** (`registerService`, `startHeartbeat` in `auth`, `post`, `comment`, `user-profile` `main.go`) | attempts, ticker | five attempts 5 s apart, then a heartbeat every 30 s whatever the attempts gave | it is acknowledged when the registry can be reached |
| **Gateway discovery** (`api-gateway/main.go:35-111`) | `Discovery.services` under a mutex | a refresh at start and every 20 s; a failed one keeps the table | it routes to services with a lease and, in time, to no others |
| **Gateway authentication** (`jwtAuthMiddleware`) | none of its own; reads the blacklist | parse the JWT, GET its jti | no logged-out token gets through |
| **Gateway proxy** (`makeProxyHandler`, the chain of middleware) | the calls in progress | token check, rate limit, lookup of the address, forward; 10 s for the header, 15 s in all | a call that the gateway refused did nothing behind it |
| **Gateway rate limiter** (`ipRateLimiter`) | a token bucket for each address that has called | `getLimiter`, `Allow` | the rate and the burst are kept for each address; who keeps the rate is not refused |
| **Gateway health pages** | none | read the table, ask the services | |
| **Auth sessions** (`Login`, `AuthMiddleware`, `Logout`) | jti blacklist in the registry's Redis database | issue, parse, blacklist for the seconds left | a logout lasts as long as the token |
| **Auth accounts** (`SignUp`, `Login`, `GetUserByID`) | table `users`, UNIQUE email | sign-up: lookup, bcrypt, INSERT; login and lookup: one SELECT | one account for each email, for good; an answer says what is true of it |
| **Post service** | table `posts` | create, get, update, delete, three paginated lists | owners only change posts; pages list what is there |
| **Post cache** (`post/internal/store/redis.go`) | - | called by nothing | |
| **Comment service** | table `comments` | `CreateComment` (fetch the post, INSERT, publish, 201), `DeleteComment` (read, DELETE), lists | a comment is announced at most once, and never if its creation was answered 500; deleted at most once |
| **Event publisher, exchange** | one AMQP channel, fanout exchange, `notification_queue` | `PublishNewComment`, which is not confirmed; `Reconnect` is called by nothing | events keep their order |
| **Notification service** | deliveries buffered in the client | consume with auto-ack, look the author up, send a mail; one goroutine, one message at a time | mails are a subsequence of the events |
| **User-profile service** | table `profiles`, UNIQUE `user_id` | `GetProfile`, `UpdateProfile`: both read, create a missing row, then answer or update | an update is not lost, a profile can be read |
| **Deployment** | - | compose files, health checks | |

How they interact:

- HTTP calls through the gateway (client to service) and directly (comment to
  post for the author of a post, notification to auth for an email, every
  service to the registry).
- One **Redis database** holds the registrations *and* the blacklist: the
  registry lists the keys of both, the gateway reads both.
- One **AMQP queue** connects the comment service to the notification service.
- Each service has its own PostgreSQL tables; no handler opens a transaction,
  so that handlers interleave statement by statement.

What is hard: the registry's EXISTS / SET / EXPIRE sequences race with expiry
and with each other; leases, heartbeats, latencies and refreshes are timed by
four independent clocks; nothing is deregistered at a stop; a request outlives
the client that sent it; a logout mixes whole seconds (`Unix()`) with the full
clock; auto-ack trades every crash of the consumer for lost messages; a Publish that
returns is no promise that the broker has the event;
read-then-write handlers run without transactions; the proxy gives a call up
while its handler goes on; a COUNT and a SELECT, and two pages of one list,
see different tables. `PROJECT.json` lists each
of these at its line.

## 2. Modules

```
Redis  <- Registry <- Discovery      Ownership <- Comments <- Notification
   \--- Sessions                         |                       |
Accounts, Limiter <- Gateway             | refined by            | refines
   | refines                             Posts                   Notices
AtomicAccounts
Profiles -- refines --> AtomicProfiles

RedisProofs <- RegistryProofs <- DiscoveryProofs      PostsProofs
    \--------- SessionsProofs                         ProfilesProofs
GatewayProofs (Accounts, Limiter and Gateway)
NotificationProofs (Comments and Notification)
```

`X <- Y` reads "Y EXTENDS X" (Comments has an INSTANCE of Ownership). `MCx` instantiates `x` for TLC; the `.cfg` files
give the constants. A definition that begins with the comment *Mutation* is a
plausible wrong version of the definition after it, and is used by no
specification: it is there to show that the properties can fail.

**Redis** - external, from the commands the services issue. A database is a
function from keys to a value and the ticks left; no ticks is no key. Every
operator is one atomic command; `Expire` of an absent key changes nothing and
is no error, as with go-redis.

**Registry** - `service-registry` and its clients. `phase`, `attempt`, `timer`
and `call` are the client goroutine: `register`, `registering`, `retry` are
the loop of `registerService`, `beat` and `beating` that of `startHeartbeat`.
`req` holds the requests being served, with `pc` at the next Redis command:
`RegisterExists`, `RegisterSet`, `UpdateTTLExists`, `UpdateTTLExpire`, `Reply`.
Between any two of them other handlers, expiry and faults may come. `Stop` does
not touch `req`: the handler of a dead client's request goes on. `own` is a history
variable: it is true of a service whose containers, since it was last `Forgotten`, have all
had the address of the present one.

**Discovery** - Registry and the gateway's `refreshLoop`: `Refresh`,
`ListKeys` (KEYS), `ReadKey` (one GET), `UpdateTable`. It also has the other
program of the database, `Logout`. It is a composition, not an
interleaving: `GatewayTick` is the registry's `Tick` with the gateway's timers.

**Sessions** - the token through `Login`, the gateway (`GateParse`,
`GateCheck`) and `Logout` (`LogoutParse`, `LogoutTTL`, `LogoutSet`). A second
has `TicksPerSecond` ticks: `sec` is what `Unix()` returns, `Now` what the
parser compares with. `loggedOut` and `lost` are history variables: the tokens a
logout has been answered for, and those whose entry a Redis restart may have
taken and no logout has written again.

**Accounts** - the table `users` as a function from emails to ids, and a
record for each request. `FindUser` is SignUp's lookup, `HashFails` and
`CreateUser` what comes after it; `FindFails` is the lookup whose error SignUp
takes for "no user". The INSERT alone decides (`Takes`): the email is UNIQUE,
and `LongEmails` are those that pass the request's binding, which looks at the
form and not at the length, and do not fit `VARCHAR(255)`. Of a sign-up that
bcrypt refuses (a password of more than 72 bytes), or that is cut off, only that
is kept. `known` in a read is what was true when it began.
**AtomicAccounts** is what a client may rely on: a call does all its work in one
step between its request and its answer, or nothing. Accounts implements it with
its pending reads and sign-ups as the calls that are out. A sign-up whose INSERT
took effect but whose answer is an error did its work; one whose lookup failed goes
on to the INSERT, which decides.

**Limiter** - the buckets, counted in ticks so that a token costs
`TokenTicks`; `Allow` and `Refuse` are the two outcomes of the middleware.
`window` and `pace` are two observers of one address: requests let through in a
window that may start at any time, and whether they came at the rate.
`rate.Limiter` is external: a bucket refilled continuously, seen at whole ticks.

**Gateway** - Accounts and Limiter behind one another. `Arrive` is the token
check, blacklist included, `Limit` the rate limiter, `Route` the lookup of the
address and the call, `Relay` its answer, `GiveUp` the error handler. `denied` is every
answer that the gateway gives before it calls: 401, 429, 503, and 500 when Redis
does not answer or the address is not a URL; no property tells them apart. The call starts a handler of
Accounts, which goes on after a `GiveUp` or a `RestartGateway`; a step of the
clock is the Limiter's. The table of routes is Discovery's: here the lookup of
an address may fail at any time. `GSpec` implements both `Spec` and `LSpec`.

**Posts** - the handlers that write, by statement, and a client that goes
through a paginated list. `post` is a creation and then its row; `Begin`,
`ReadPost`, `UpdateRow` and `DeleteRow` are the requests on it. A list is its
WHERE (`Listed`) and the position that ORDER BY gives (`Rank`), a page the
positions that LIMIT and OFFSET select. The reader asks for page after page until one
is not full; `stable` and `moves` are history variables of what happens to its
list meanwhile. Time stamps are distinct: two creations in one microsecond,
whose order no statement fixes, are left out. **Ownership** is what the
other services rely on: an id is nobody's, then its author's, then gone.

**Comments** - `CreateComment` and `DeleteComment` by statement, the AMQP
channel and the exchange. `PublishNewComment` writes the event to the connection
(`wire`) and returns; the handler then answers 201 (`AnswerCreate`), and the broker
takes the event when it takes it (`Route`) and puts it on the queue if there is
one. The last two come in either order, and faults
between the three: `LoseChannel`, `RestartBroker` and `RestartService` take what is on
the wire, so that a creation may be answered 201 and never announced, and
`RestartService` may leave one announced and not answered (`unheard`). The posts that are commented on take the steps of
Ownership, `CreatePost` and `DeletePost`, at any time: what Comments assumes of
the post service is what Posts is proved to implement. **Notification** adds the consumer: `Deliver` is the
broker's auto-ack delivery, `Take` the next turn of `for d := range msgs`,
`GetUserEmail` and `SendNotification` the handler. **Notices** is what a post's
author may rely on: a lossy stream in order. Notification refines it with
`written` the comments ever stored, `announced` the published events, and
`last` the position of the last mail in them.

**Profiles** - `GetProfile` and `UpdateProfile` by statement. A row is one
value: a text, `NullRow` (the row `CreateProfile` makes) or `NoRow`. A request holds
the text a PUT writes or a GET answers; the GET that creates the row answers none.
**AtomicProfiles** is a register for each user: a request answered 200 read or
wrote it in one step.

## 3. Runs

| Run | Instance | Shows |
|---|---|---|
| `registry` | 1 service, 2 containers, 2 handlers, 2 faults; 8/3/1/2 ticks for TTL/heartbeat/retry/latency | type correctness; a lease hit by no fault is held (`FreshLeaseHeld`); what a stopped service left is gone within TTL + latency (`DeadForgotten`); a service that follows no other address within that time is listed under its own (`OwnAddress`) |
| `registry_beats` | no faults, fair | *violated* `HeartbeatsKeepListed`: EXISTS, expiry, EXPIRE: the registration is answered 200 without an entry, and no heartbeat ever repairs it |
| `discovery` | 1 service, 1 handler, 3 attempts, 1 logged-out token, 1 fault, fair | `RoutesForgotten`, `RoutesHeld` also when the blacklist makes answers fail; registrations complete and routes appear |
| `discovery_logout` | no faults | *violated* `ServicesAnswered`: a logout makes `GET /services` fail |
| `sessions` | 1 token, 3 requests, 2 ticks a second, 1 fault | no use after a logout, entries outlive tokens, also when Redis loses the entry of a logout between two others |
| `gateway` | 2 sign-ups, 2 emails, one of them too long for the table, 1 login or lookup, 2 addresses, burst 1, a token every 2 ticks, 1 fault | accounts are for good (`AccountsKept`), answers are true (`AnswersTell`, `ReadsSeeWrites`), the rate holds and a paced client is never refused (`RateBound`, `PacedNeverLimited`), a call the gateway denied did nothing (`NothingDone`), memory is spent only on addresses past the token check (`EntriesEarned`); the calls refine `AtomicAccounts` (`IsAtomic`) |
| `posts` | 2 posts, 2 users, 2 requests, 1 tag, pages of 1, 2 moves, 1 fault | updates and deletions between each other's statements: Posts refines Ownership, only authors write; a reader of all pages misses no more posts than left (`FewMissed`), repeats no more than entered (`FewRepeated`), and the total agrees up to both |
| `comments` | 2 comments on 1 post, 2 deletions, 2 users, 2 faults | overlapping deletions: at most one is answered 200, to the author, and no list has the comment after that (`DeletedOnce`); a comment is announced at most once, and only after its Publish returned, so never if it was answered 500, while 201 promises an announcement until the first fault only (`AnnouncedOnce`); its event names the author of the post, or the post was deleted (`AuthorsNamed`) |
| `notification` | 2 comments on 1 post, 3 faults, fair | the stream of mails refines `Notices`; a mail is about a stored comment whose Publish returned and goes to the author of its post (`MailsTrue`); nothing is lost without a fault; mails arrive, and a bad message holds up none |
| `notification_requeue` | 1 comment, 1 fault | *violated* `FailedIsRequeued`: nothing is requeued |
| `profiles` | 2 users, 2 texts, 3 requests | an update is never undone by automatic creation; a NULL row stays for good; the requests refine `AtomicProfiles` (`IsRegister`) |
| `profiles_get` | 1 request, no faults | *violated* `GetAnswered`: the second GET of a profile fails |

**Bounds, and why they are enough.** Services do not share keys or clients, and
the handlers of two services touch disjoint state: one service with two
handlers has every race on a key, and a second service would only add
product states (the proofs of Registry are for any number). Two handlers are
what a lost answer needs: the old registration and its retry. `discovery` has
one: the gateway reads what the handlers write, and how they race is the
question of `registry`. Three attempts are one for the key that expires under a
refresh, one for the fault and one that succeeds. The times keep
the order of the real ones (60 s, 30 s, 5 s, 20 s) and the inequality
`HeartbeatDelay + 2 * MaxLatency < ServiceTTL`, tight or one tick from it.
`MaxLatency` bounds a request: the clients are `http.Post` without a timeout,
so the bound is an assumption about the network, stated in
`TimingAssumption`. `MaxFaults` caps
lost requests and answers, failing commands and restarts; two of them are what
the longest scenario needs (a lost answer, then a failing command of its
retry). `DownCap` ends a history counter past every value a property compares
it with. One token is enough for Sessions: no step reads another's entry, and
two logouts of it with one use need three requests. No request of `posts`
touches two posts, and two requests are an update with a deletion between its
statements; two posts in pages of one have a page boundary between them, two
moves are a post that leaves and one that enters. `MaxMoves` only ends a
reading that would be disturbed forever. Every call of `gateway` is made once,
so a burst of one is what three calls can exhaust; the rate and the burst of
the source (1 and 60) are instances of what is proved. Two sign-ups with one
email are the race; the second email is one that the table does not take. The
action constraint `ClockNeeded` stops the clock once no call is left that can
reach the limiter: what a bucket does after the last call is seen by nobody.
`Window` bounds the observer, not the limiter. Two comments are
the least that can be announced in one order and mailed in another, or of which
one can hold up the next; three faults are a connection lost on either side of
the broker and a message that fails. That the same holds of a message between
two others is proved. Comments share no state but the channel and the post they
are on, and one post is enough for a deletion between two of its comments. Symmetry is used in
the runs without liveness and without CHOOSE only.

**Deadlock** is checked except where the modelled clients really end: every
comment is made (`Comments`, `Notification`), the clock has reached its bound
(`Sessions`), every call has its answer (`Gateway`).

**Fairness.** Weak, on what the schedulers run: a client goroutine that is not
blocked, a handler whose request arrived, the broker's delivery to a consumer,
the consumer's loop, and time. Nothing makes a fault, a start, a stop or a
request happen. `Next` has faults at any time; because they are bounded, a
liveness property speaks of what happens after the last one.

## 4. Findings

1. *A heartbeat does not keep a service listed* once its key is lost:
   `startHeartbeat` ignores 404, and the key can be lost with no fault at all
   between EXISTS and EXPIRE (`service-registry/internal/store/redis.go:76`).
2. *A logout breaks discovery.* `GetServices` fails on the value `blacklisted`
   of a jti in the same database (`service-registry/internal/store/redis.go:96`)
   until that token expires. The gateway keeps its last table, and a gateway
   that starts meanwhile has none.
3. *No message is requeued*, although `notification/README.md:13` says so.
4. *A profile that a GET created cannot be read again*: NULL columns do not
   scan into strings (`user-profile/internal/store/postgres.go:61`).

Also seen in the models, where no document says otherwise: a container that is
recreated within the time to live stays listed under its old address, because
`RegisterService` refreshes a present key and drops the new address
(`service-registry/internal/handlers/handlers.go:69`), and the heartbeats keep
the old one alive - `OwnAddress` says when this cannot happen: if the service was
down for a time to live and a latency, or came back on its address; a missing post is answered 200 and makes `UpdatePost` panic;
a post without tags cannot be stored; after its AMQP channel is closed the
comment service stores comments, answers 500 and announces nothing; Publish is not
confirmed (`comment/internal/publisher/rabbitmq.go:74`), so that a creation answered
201 may never be announced if the connection is lost, and an event that comes
before the queue is first bound is dropped; an email of more than 255 characters
passes the binding, and its sign-up is answered 500, "Failed to create user", each
time it is tried (`auth/internal/store/postgres.go:33`); a login
whose query failed is answered 401, like a wrong password
(`auth/internal/handlers/handlers.go:94`); `/health/detailed` says "60 requests per
minute" (`api-gateway/main.go:494`, and the comment at 367) and the limiter, a burst of 60 and one more
each second, lets 120 through in a minute, as `RateBound` says and no more;
the notification service asks for emails with a client that has no timeout
(`notification/internal/service/notification.go:62`).

## 5. Proofs

All are for any number of services, addresses, tokens, users, posts, comments
and requests, any bound on the faults, and any times, rates and page sizes that
satisfy the ASSUMEs of their modules.

| Theorem | Statement |
|---|---|
| `RegistryProofs!TypeCorrect` | `Spec => []TypeOK` |
| `RegistryProofs!FreshLeasesHeld` | `Spec => []FreshLeaseHeld` |
| `RegistryProofs!DeadServicesForgotten` | `Spec => []DeadForgotten` |
| `RegistryProofs!ListedUnderOwnAddress` | `Spec => []OwnAddress` |
| `SessionsProofs!SessionsTypeCorrect` | `Spec => []TypeOK` |
| `SessionsProofs!BlacklistLasts` | `Spec => []BlacklistOutlives` |
| `SessionsProofs!LogoutIsEffective` | `Spec => []NoUseAfterLogout` |
| `PostsProofs!PostsTypeCorrect` | `Spec => []TypeOK` |
| `PostsProofs!PostsImplementOwnership` | `Spec => IsOwnership` (refinement of Ownership) |
| `PostsProofs!AuthorsOnly` | `Spec => OnlyAuthorsWrite` |
| `PostsProofs!ReadersMissFew`, `ReadersRepeatFew`, `TotalsAgree` | `Spec => []FewMissed`, `[]FewRepeated`, `[]TotalAgrees` |
| `DiscoveryProofs!DiscoveryTypeCorrect` | `DSpec => []DTypeOK` |
| `DiscoveryProofs!StoppedAreForgotten` | `DSpec => []RoutesForgotten` |
| `DiscoveryProofs!LeasedAreRouted` | `DSpec => []RoutesHeld` |
| `DiscoveryProofs!RoutedToOwnAddress` | `DSpec => []RoutesOwn` |
| `DiscoveryProofs!RegistryHoldsUnderDiscovery` | `DSpec => [](FreshLeaseHeld /\ DeadForgotten /\ OwnAddress)` |
| `GatewayProofs!AccountsTypeCorrect` | `Spec => []TypeOK` |
| `GatewayProofs!AnswersAreTrue` | `Spec => []AnswersTell` |
| `GatewayProofs!ReadsAreTrue` | `Spec => []ReadsSeeWrites` |
| `GatewayProofs!AccountsStay` | `Spec => AccountsKept` |
| `GatewayProofs!ServiceIsAtomic`, `GatewayIsAtomic` | `Spec => IsAtomic`, `GSpec => IsAtomic` (refinement of AtomicAccounts) |
| `GatewayProofs!LimiterKeepsRate` | `LSpec => []RateBound` |
| `GatewayProofs!LimiterIsFair` | `LSpec => []PacedNeverLimited` |
| `GatewayProofs!GatewayImplementsAccounts`, `GatewayImplementsLimiter` | `GSpec => Spec`, `GSpec => LSpec` |
| `GatewayProofs!GatewayTypeCorrect` | `GSpec => []GTypeOK` |
| `GatewayProofs!RefusedCallsDoNothing` | `GSpec => []NothingDone` |
| `GatewayProofs!LimitersAreEarned` | `GSpec => []EntriesEarned` |
| `NotificationProofs!CommentsTypeCorrect` | `Spec => []TypeOK` |
| `NotificationProofs!CommentsDeletedOnce` | `Spec => []DeletedOnce` |
| `NotificationProofs!CommentsAnnouncedOnce` | `Spec => []AnnouncedOnce` |
| `NotificationProofs!CommentsNameAuthors` | `Spec => []AuthorsNamed` |
| `NotificationProofs!NotificationTypeCorrect` | `NSpec => []NTypeOK` |
| `NotificationProofs!NotificationLosesNothing` | `NSpec => []NothingLost` |
| `NotificationProofs!MailsAreLossyStream` | `NSpec => IsLossyStream` (refinement of Notices) |
| `NotificationProofs!MailsAreTrue` | `NSpec => []MailsTrue` |
| `NotificationProofs!CommentsHoldUnderNotification` | `NSpec => [](DeletedOnce /\ AnnouncedOnce /\ AuthorsNamed)` |
| `ProfilesProofs!ProfilesTypeCorrect` | `Spec => []TypeOK` |
| `ProfilesProofs!UpdatesKept` | `Spec => UpdateKept` |
| `ProfilesProofs!StuckRowsStay` | `Spec => StuckStays` |
| `ProfilesProofs!ProfilesAreRegisters` | `Spec => IsRegister` (refinement of AtomicProfiles) |

*Registry.* `Shape` is the type invariant with what ties a client to the
request it waits for (`ReqOK`, `AttemptOK`, `CallOK`): without it a reply could
change the phase of a client that waits for another. `StopOK` says that a
request left behind is at least as old as the stop, and with it `DeadForgotten` is
inductive. `FreshLeaseHeld` is not inductive: `HeldLease` says how much of the
lease is left in each phase: while a service waits for its heartbeat, the
entry's age is at most the time since the last heartbeat and one latency;
while the heartbeat is out, at most another latency more. That the sum stays
below the time to live is the second part of `TimingAssumption`. `OwnOK` adds to
`OwnAddress` that the requests under way carry the address of the present
container too; a container may start with `own` true only when `StopOK`
says that nothing of an earlier one is left.

*Sessions.* `RequestOK` follows a logout through its steps: what `LogoutTTL`
computes from the whole second is at least what the token has left, and remains so
while the request waits, because the clock only goes on; a shorter time to
live of a second logout still covers the token. `IInv` adds that `exp` is never
more than a token's life away, which bounds the time to live. A request is
`after` a logout if the token was logged out and its entry was not lost when it
arrived; a restart that loses the entry ends this, a later logout that writes it
again makes it true for the requests that follow. Products of
seconds and ticks are handled once, in the lemma `Ticks`.

*Posts.* `RequestOK` says that a request is about a post that was stored, and
that one past UpdatePost's check still has its author's row or none. `Changes`
lists what a step may do to one post and `Effect` that it does so to one post
at most, but for a restart; both refinement and `OnlyAuthorsWrite` follow from
them. For the reader, `ReadingOK` looks at the list as it is now. Its posts
before the offset of the next page are `Passed`, the others `Ahead`. Of the
passed ones no more are unread than have moved back over the offset, of those
ahead no more are read than have moved forward, and the total is what is read or
ahead but for the two. It rests on two lemmas about places: of distinct time
stamps the first n of a list are n or all (`NewestSize`), and one post that
enters or leaves a list moves at most one other over an offset
(`NewestAfter`); `PageIs` says that a page is what lies between two offsets,
and that nothing is ahead after a page that is not full.

*Discovery.* A table is as old as the answer it was taken from, and this as the
keys that were listed. `FoundOK` bounds what an answer under way may still
hold by the age of its request, `TableOK` what the table holds by the ticks since
the request that brought it (`Since`); they rest on the invariants of
Registry, which a logout's key does not touch. `Right` says of an address found
or routed to that it is the service's own whenever `own` holds; while a service
has its lease no container of it starts, so that neither its address nor `own`
changes (`LeasedStays`), and a table built within the lease stays right. `RInv`
is the inductive invariant of Registry, carried through the steps of Discovery,
so that what it gives holds there too.

*Gateway.* For Accounts, `KnownStays` says that an account that was there when a
read began is still there when it reads; rows never change owner, which gives
`AccountsKept`. For the limiter, `Budget` weighs what the window let through
and what the bucket still holds against the burst and the window's age, and
`PaceOK` says that of a client that keeps the rate the bucket lacks one token at
most. The composition is shown to implement both parts, so their theorems hold
of it. A step of Accounts is a step of AtomicAccounts under a mapping that
forgets how far a handler has got: the INSERT is the step of a sign-up, the SELECT
that of a read. A login whose query failed is answered 401 without having looked at
an account: the mapping shows it as failed (`hit`), and every other 401 is a true
refusal.
`FrontOK` adds that a call that has not got through the proxy has no
handler.

*Notification.* `CommentOK` and `DeletionOK` follow the handlers of the comment
service. `CommentOK` has it that an event is on the wire or among the published
ones only after its Publish returned, and never in both, `WireOK` that none is on
the wire twice: so `Route` announces what was not announced before
(`WireLeaves`), and the events a fault takes from the wire never come again
(`WireLost`), which is why a 201 promises an announcement only until then; `AuthorOK` ties each of them to the post it looked up, with Ownership's
promise that a deleted post does not come back. `Flow` says that the places of
mails, of the message in hand, of the buffer and of the queue rise, in this
order, among the published events: so every mail is a later one than the last,
which is the step of Notices. `Addressed` says that each mail has someone to go to;
that its comment was stored and its Publish returned comes from `Flow` and `CommentOK`, and that
its author is the post's from `AuthorOK`, which `MInv` carries behind the queue:
the steps of the consumer do not touch what they speak of.

*Profiles.* The type invariant is inductive with the request's operation in it;
the two action properties then follow for each action. For the refinement an absent
row and one of NULLs are both a profile without a text; `Blank` says that a GET has
none before it is answered, so that the one that creates the row answers what the
register holds at its INSERT. The slower of two INSERTs fails on UNIQUE, which
is a request that did nothing.

*RedisProofs* has two lemmas about databases: they are closed under the
commands, and what entry a command leaves.

**Model-checked only.** Liveness: `RegistrationCompletes`, `RouteAppears`,
`NoticeArrives`. The prover has no rules for fairness. **Proved only.** `RoutesOwn`
says something only of a service with two addresses, and with two of them the
run `discovery`, which also checks liveness, does not end in useful time; the
safety part alone does, with 4.6 million states, and `RoutesOwn` holds in it.

**Assumed of the environment.** A statement whose connection is lost has taken
effect by the time its error is seen, or never does: PostgreSQL could still
be running it, and a late INSERT or UPDATE is not among the steps of `Accounts`,
`Posts`, `Profiles` and `Comments`. `IsAtomic` and `IsRegister` say that a call
that failed does nothing later, and rest on this. An event that
the broker has not routed when its connection is lost is lost with it. The
services' requests to each other end (`TimingAssumption`, the fairness of
`NoticeArrives`), although their clients have no timeout. What the properties do
not promise: an event before the queue is first bound, one on the wire when a
connection is lost, and what a stopped worker had buffered, are lost in the
models as in the code, and `NothingLost` and `NoticeArrives` begin at the
queue and end at a fault. Giving up a registration takes as many faults as
attempts, which no run has: `RegistrationCompletes` is about fewer.

## 6. Not modelled

- The gateway's health pages keep no state: they show what Discovery's table
  and the services say at the moment. Headers, paths and CORS rules are tables.
- `ValidateToken` only reads its token. The post cache is called by nothing; compose files and images have no
  behaviour here.
- bcrypt, JWT signatures, JSON and HTTP formats: a token parses until it
  expires, a body decodes to its fields.
- Request validation that only rejects a request before any state is read.
- Listing comments, `/health` of the registry: single reads.

## 7. Plan

The plan of the first version is done: accounts, the limiter and the gateway in
front of them, the proofs about Comments, Notification, Discovery and the lists
of Posts, Comments on Ownership, and every safety property of a run is a
theorem. What could be added:

1. **All handlers behind Gateway.** Only the calls on the accounts go through the
   proxy here; the other services' handlers would go through the same
   `Route`, `Relay` and `GiveUp`, and the argument of `NothingDone` is the same.
2. **Routes and calls together.** Gateway lets the lookup of an address fail at
   any time, and Discovery says when it need not; nothing yet states how long a
   client may see 503 after a service started.
3. **The client of the lists**, which may ask for any page. A page beyond
   the width of `int` is not modelled: nothing in the code bounds it
   (`post/internal/store/postgres.go:226`).
