# matfix in TLA+

matfix is a relay between HTTP clients and the Matrix accounts it holds: clients
submit messages (`POST /v1/send`), wait for events (`/v1/receive`), or send a message
and wait for the answer (`/v1/ask`). It keeps its state in one SQLite file and runs
as one process that may be stopped or killed at any time.

These modules model the parts of it in which order, failure and restarts matter. TLC
checks them on small instances, and TLAPS proves the main results for all values of
the constants. `PROJECT.json` lists components, runs, hazards, theorems, and for every
definition the lines of the source it stands for. Paths below are relative to
`src/internal/`, unless they begin with `cmd/` or `docs/`.

## The system

| part | state | operations | talks to |
|---|---|---|---|
| API gateway (`api/`) | token bucket per key | authenticate, limit, authorise, `send`, `receive`, `ask` | key table, submission, correlation |
| Admin socket (`admin/`) | key table (`api_keys`) | create, revoke, rotate, list, inspect | persistence |
| Submission (`submission/`) | none | `Submit`, `SendDirect` | queue, accounts, engine |
| Outbound queue (`queue/`) | table `outbound_queue`, a wake-up channel of capacity one | `Enqueue`, `Pull`, `ScheduleRetry`, `UpdateState`, `RecoverOnStartup` | workers, event bus |
| Worker pool (`worker/`) | the job in each worker's hand | a pass over all accounts, wake-up, stop | queue, accounts, engine, event bus |
| Accounts (`account/`) | per account available or failed, with its client | `StartAll`, `StopAll`, `Get` | engine, sync, crypto |
| Engine (`engine/`) | `m.direct` at the homeserver | send, find or create a DM room | homeserver |
| Event bus (`bus/`) | subscriptions behind a RWMutex, a buffered channel and a goroutine each | `Publish`, `Subscribe`, `Unsubscribe` | everybody |
| Sync loop (`sync/`) | stored token, table `event_cache` | one `/sync` after the other, normalise, publish, mark, store the token | homeserver, event bus |
| Correlation (`correlation/`) | handles in two maps, table `correlation_state` | register, route, wait, time out, sweep | event bus, API gateway |
| Startup, shutdown (`cmd/matfix/`) | where `main` is | migrate, recover, start and stop the parts in order | all |
| Migrations (`persistence/migrate.go`) | table `schema_migrations`, and the schema itself | apply a file and record it, in one transaction | SQLite |

Configuration, media, crypto, logging and metrics, the wire types and `matfixctl`
have no protocol of their own.

What is hard in this code, and for which part:

* **Queue and workers.** Workers race for rows; the homeserver may have stored a message
  whose answer is lost; the process may die between the answer and the row's update; a
  shutdown cancels the context of a send in flight; a wake-up token is dropped when the
  channel is full. Correct means: a row being sent has one holder, attempts and
  duplicates are accounted for, a job is given up only after its retries, nothing
  settled changes any more, and an accepted job is settled in the end.
* **Event bus.** `Unsubscribe` closes a channel that a `Publish` may be about to send on;
  a slow handler must cost only its own events; a waiting writer blocks new readers.
* **Correlation.** An event, a timer, the sweep and a client that leaves settle one
  handle at once, through a `sync.Once`, two maps and a row in the database; a crash
  leaves rows without a handle.
* **Sync loop.** A crash, a cancellation or a failed statement between "published",
  "marked as seen" and "token stored". Nothing the token has passed may be missing,
  and each duplicate needs a reason.
* **Direct rooms.** Calls of one account read `m.direct`, create a room, read again and write
  back, with nothing that holds the two together; the homeserver may carry out a write
  after its answer was given up.
* **Startup and shutdown.** The process dies within a migration or between two starts;
  some accounts fail while the loops of others already run; the servers and the
  correlation manager start on goroutines; requests outlive the deadline of a shutdown.
* **Gateway.** Keys change while requests are looked up; rotation is two writes without
  a transaction; an ask acts before it can still fail; the filter language is evaluated
  by a switch over event types.

## Modules

| module | what it is | from |
|---|---|---|
| `OutboundQueue` | the table, submit calls, workers, recovery, startup and shutdown | `queue/`, `worker/`, `submission/manager.go`, `persistence/store.go`, `cmd/matfix/` |
| `Delivery` | what a client is promised: accepted, at least sent or given up, settled for good | abstract, implemented by `OutboundQueue` |
| `EventChannel` | one bounded FIFO with a handler per subscription | abstract, and a component of the next two |
| `EventBus` | `localBus` at the grain of its RWMutex | `bus/local.go` |
| `Correlation` | asks and receives, on top of `EventChannel` | `correlation/`, `api/ask.go`, `api/receive.go` |
| `Waiting` | what a call that waits for events can rely on: decided once, given the first events it wants, a receive at its limit or deadline (see Findings) | abstract, implemented by `Correlation` |
| `SyncLoop` | the loop of one account with its token and its cache | `sync/` |
| `Feed` | what listeners are promised of an account's events: each at least once or given up, rooms in order except that receipts may be late, a position that only goes forward | abstract, implemented by `SyncLoop` |
| `Filter` | filters: from the request, validated, evaluated; and what the guide says of them | `correlation/filter.go`, `api/receive.go` |
| `Gateway` | keys, operators, requests, limits; extends `Filter` | `api/`, `admin/routes/keys.go` |
| `DirectRooms` | the calls of `ResolveRoom` for users, and the versions of `m.direct` | `engine/rooms.go` |
| `Migrations` | `Migrate`, file by file; a component of the next | `persistence/migrate.go` |
| `Daemon` | the life of the process: the steps of `main` and `shutdown`, accounts, parts, requests | `cmd/matfix/`, `account/`, `persistence/db.go` |
| `OutboundQueueProofs`, `EventBusProofs`, `CorrelationProofs`, `SyncLoopProofs`, `FilterProofs`, `GatewayProofs`, `DirectRoomsProofs`, `DaemonProofs` | the theorems | |
| `MC...` | instances for TLC | |

**How state corresponds.** A table is a variable per column that matters (`state`,
`retry`, `row`, `stored`, `cache`, `keys`). A goroutine is a program counter and what it
has in local variables (`wpc`, `wjob`, `wretry`; `loop`, `since`, `next`, `left`). A Go
channel is a sequence with a capacity, or a Boolean for one of capacity one (`notify`).
A map under a lock is a set (`live`, `registered`). An action is what happens between
two points at which another goroutine, the database or the homeserver can intervene: a
database statement, a call to the homeserver, a critical section. Where a statement may
fail, the failure is a disjunct of its action, and `MaxFaults` bounds how often runs take
it. `MaxBoots` bounds the starts of the process.

Variables grouped as history (`delivered`, `lost`, `tries`, `restored`, `announced`;
`published`, `unsafe`, `skipped`, `run`; `log`, `since`; `refused`, `ended`, `load`;
`looked`; `leftBy`) are what an observer counts. No guard reads them, except where they bound a run.

**Time** is an order of events. A retry time is `later` until `Elapse` makes it `due`;
a deadline passes once; a second refills the buckets. In the gateway `load` is a leaky
counter of the requests let through, so that "at most a burst plus the rate, over any
span" is an invariant.

In `DirectRooms` the account data event is the sequence of its versions (`history`), each
with the call that wrote it and the version it was built on. In `Daemon` a part only runs
or does not; what it does while it runs is in the module about it. `OutboundQueue`,
`SyncLoop` and `Correlation` have a start and an end of the process of their own, in
the order of `main`, as far as it concerns them; `Daemon` is the module that has
all of that order.

Simplifications a reader should know of:

* Payloads, room names, timestamps and back-off values are abstracted; a regular
  expression is the set of bodies it matches.
* A sweep with nothing due is left out, since it changes nothing.
* The `EncryptionFailure` events that a failed decryption publishes (two, to which
  nobody subscribes) are counted apart (`failures`); the event they are about is given up
  and not marked as seen.
* A response names the events of a room in three sections, and the loop dispatches the state
  first, then the time line, then the receipts. The state is older than the time line; of
  it only memberships matter, and each of them is an event of its own here, also one that
  a later membership has replaced. A receipt event holds any number of receipts and Go
  visits them in any order; here each receipt is one event, and those of a
  response come in any order.
* What `ResolveRoom` does within a request of the gateway is one effect, `created`, whatever
  became of the room and of the write of `m.direct`; `DirectRooms` has the calls.
* A handler on the bus may hang for ever in `EventBus`; in `Correlation` it is the code of
  `handleEvent`, which blocks only on the map's lock and the database.
* The rate of a key never changes, since nothing updates the permissions of a row, and
  so the branch of `rateLimiter.allow` that replaces a limiter is never taken.
* `CorrelationManager.Stop` runs when `main` returns; in `Daemon` it is part of the end
  of the process.
* Only matfix writes `m.direct`; other clients of the account are left out.
* The first of a user's rooms is taken without a look at who is in it, and so membership
  is left out.
* Requests to submit are structurally valid; one that is not is refused before anything
  is looked up.
* A client that disconnects in the middle of a statement is a statement that fails.

## Runs

| run | instance | question |
|---|---|---|
| `queue_recovery` | 1 job, 2 workers, 1 retry, 3 starts, 1 fault, 1 panic | Is a claim exclusive, is every attempt and copy accounted for, does a settled job stay so? |
| `queue_submit` | 2 submits of one key, 1 worker, 2 starts, 1 fault | Is there one job per key, and does the queue implement `Delivery`? |
| `queue_liveness` | 1 job, 2 accounts, 1 worker, 2 starts | Is an accepted job settled, does a shutdown end? |
| `event_bus` | 2 publishers, 2 subscriptions, capacity 2, 3 events | Is nothing sent on a closed channel, does the bus implement bounded FIFOs, does every call return? |
| `correlation_routing` | 1 ask, 1 receive of limit 1, 2 events | Is no event missed, does the first match win, do result, answer and row agree, does the manager implement `Waiting`? |
| `correlation_recovery` | 1 receive of limit 2, channel of 1, 2 starts, 1 fault | Does the manager implement `Waiting` through a restart, does every call return, every handle leave the map, every row settle? |
| `sync_loop` | 5 events in 2 rooms, time lines of 1 event, 2 starts, 1 fault | Is nothing lost, is each duplicate explained, is a room's order kept but for receipts, does the loop implement `Feed`, is every event dispatched? |
| `gateway` | 2 operators, 1 client with 5 requests, 2 keys, 2 permissions, 13 events | Do revocation, rotation, limits and refusals hold, do filters select what the guide says? |
| `direct_rooms` | 4 calls, 2 users, 2 faults | Which room is taken, and what can `m.direct` lose? |
| `daemon` | 2 starts with binaries of 1 or 2 schema files, 2 accounts, 1 worker, 1 request of each server, 1 fault | Is the schema applied once, does nothing run before what it needs, does a shutdown serve and end? |
| `queue_noclient`, `queue_drain` | the smallest that show it | see Findings |

**Why the bounds are enough.** Each is the smallest at which the interesting case
occurs. Two workers race for one row; a third start lets a job be recovered, claimed,
and recovered again; one fault placed anywhere covers each failing statement; one retry
lets a job fail, wait and be exhausted. Two events are enough for a first and a later
match, and for a receive that reaches its limit while its timer fires. In `sync_loop`
a time line of one event makes a gap wherever two come between two responses: the membership
of the first room then comes as state, and in the second the event that has to be decrypted
may be left out; a receipt (never marked) comes after the message that follows it when
one response has both, and before it when each has its own; and the second start replays
a batch. In `gateway` the five requests hold filters with every predicate, every
combinator, an empty list and an expression that does not compile, and the second key
is the replacement of the first; a rotation that finds the table full stands for an
`INSERT` that fails. In `direct_rooms` three calls for one user let a second room be
recorded and a third call choose between them, the fourth is about another user, whose
room a stale write can drop, and with two faults a read and a write may fail. In
`daemon` the second start may bring a binary with one file more or less, one account
can fail while the other's loop runs, and both servers can have a request in progress
when the signal comes. One client suffices, since requests share only the
table and the buckets, and the proofs treat any number. What the bounds cannot show, for
instance that no third worker breaks a claim, the theorems do.

`CHECK_DEADLOCK FALSE` is in every configuration: once the inputs of an instance are used
up and the process is at rest or down for the last time, nothing has to happen.

**Fairness.** Weak fairness of each goroutine that can take a step: Go schedules runnable
goroutines, timers and tickers fire, calls to the homeserver return (with an answer or an
error; a homeserver that keeps a connection open for ever is outside of the assumption).
`Boot` is fair, because the guide has systemd restart the process
(`docs/user-guide.md:331`). Not fair: clients, operators, crashes, failing statements, events of the
homeserver, handlers on the bus. In `EventBus` only the calls of publishers and owners
are fair, and `CallersReturn` holds although handlers may hang. In
`SyncLoop` only the loop is. In `Daemon` the steps of `main`, the 30 seconds, the exit of
workers and the correlation manager's goroutine are fair; requests are not and may take
for ever, and nothing makes a signal come. The liveness of correlation is checked with a receive: an ask
differs from it only in that its first match settles it, and waits, times out and leaves
the map in the same way; the safety run has one of each.

## What the properties say

Queue. `SingleHolder`: a job in a worker's hand is in `sending`, in no other worker's hand, and
its retry count is the one the worker read.
`AttemptsAccounted`: claims are retries plus recoveries plus the attempt in progress or
the last. `DeadLetterExhausted`: no job is given up early. `DuplicatesExplained`: more
than one copy at the homeserver needs a lost answer or a recovery. `EventsTruthful`: what
the bus was told is true of the table and the homeserver. `StrandedPaid` and
`AttemptsBounded`, which are proved and in no run's configuration: while the workers run, a
row in `sending` that no worker has was paid for with a database error or a panic; and a
job is sent at most once per retry and once per start of the process. `FinalStays`: recovery and
workers leave settled rows alone. `OneJobPerKey`. `ImplementsDelivery`. `JobsSettle`: in a
process that stays up, a job is settled; `ShutdownEnds`.

Bus. `NoSendOnClosed`; `PublisherOrder`: a handler sees one publisher's events in order,
with gaps only; `ImplementsChannels`; `CallersReturn`: publishers and owners of
subscriptions get through, even if every handler hangs.

Correlation. `NothingMissed`: what an open handle wants of the events since it entered the
map is on its way to it, or collected, or the receive is full; here and below these are
the events taken from the channel after the handle is in the map (`since`), and an event
that a goroutine already looks the map up for is seen or not. `FirstMatchWins`; `OutcomeAgrees`: result,
answer to the client and final row tell the same story, whoever won the once.
`ImplementsWaiting`: seen by a client, the manager decides each call once, as expired only
past its deadline and as resolved only when it has enough, one event for an ask and the
limit for a receive (the guide promises more, see Findings); gives it, per type, the first
events it wants and none twice; and lets the row follow the decision or be pruned.
`CallsReturn`, `HandlesReleased`, `RowsSettle`.

Three invariants are proved and are in no run's configuration. `CollectedSound`: a
receive collects once and in the order of the bus. `NobodyHangs`: whoever waits, waits for
a step that nothing blocks, so that the liveness properties rest on fairness alone.
`EchoNeverAnswers` (gateway): an ask never answers itself, a consequence of
`DeliveredAsDocumented`.

Sync. `NoneLost`: every event behind a stored token was published, the homeserver left
it out of a limited response, or it could not be decrypted, in which case no listener ever
sees it; `DuplicatesExplained`: publications beyond the first are
covered by lost marks and failed lookups; `RoomOrder`: within one process nothing is
published twice, and when an event of a room's state or time line is published, all that
was published of the room before is older; only a receipt may come after later messages,
those of its own response. `ImplementsFeed`: seen from the bus, the loop only hands
out, gives up, starts over, or moves its stored token forward past what is settled, and
receipts (`Late`) are the only items that may come behind later ones;
`EventsDispatched`: in a process that stays up, every event is published or left out by the
homeserver, and only an encrypted event of others may end as undecryptable instead.

Gateway. `RevokedRefused`: no request that comes after a revocation was answered gets past
the lookup; `KeysAccounted`: a key that works no more was deleted, has a replacement, is
just being rotated, or its rotation broke off between its two writes;
`RateBounded`; `RefusedUntouched`: 401, 403 and 429 come before any effect, and a request that
is told 400 or 500 has left neither a job nor a handle: a receive nothing, a send at most
the room that `ResolveRoom` created before `Enqueue` failed, and an ask that room and its
message;
`DeliveredAsDocumented`: the compiled filter selects exactly the events that a direct
reading of section 10 of the user's guide does, except that no event of its own account's
user reaches an ask.

Direct rooms. `RoomsOfUser`: nobody's message goes to a room made for somebody else;
`LossExplained`: a room leaves its place in `m.direct` only through a write that was built
on an older version or on a read that failed; `FirstRoomStays`: without such a write
everyone who looks takes the room that was recorded first.

Daemon. `SchemaExact`: over all starts each schema file took effect once, in order, and
`schema_migrations` says so; `PartsReady`: loops that were not told to stop, workers and
servers find the database open and the tables of their binary there (a cancelled loop may still be
dispatching when the database closes; its statements then fail, and `NoneLost` says that
the token is not ahead of it), and workers find no job that an earlier
process left in `sending`; `AccountsDecided`: nothing is served before each account is up or
given up (up means that its client, crypto and sync manager are made, see Findings), and none that was given up keeps a loop; `DrainServed`: a request in progress
keeps what it may be waiting for until 30 seconds have passed; `LifeCycleEnds`: a start
ends in service or in an exit, a shutdown ends even if requests never do, and all
subscriptions come to be made (not that nothing is published before, see Findings).

## Proofs

The eight proof modules treat arbitrary sets of workers, requests, publishers,
subscriptions, events, operators, clients, keys, users and accounts, and arbitrary bounds. The
assumptions are the named `ASSUME`s of the modules: capacities and bounds are numbers,
names that stand for "none" are no members of the sets, a filter is a list of nodes that
refer to later nodes only, and inbound events have one of the types the code compares.

* **`OutboundQueueProofs`.** `SingleHolder` is not inductive: a worker that writes an
  outcome must be known to hold its row, and recovery must be known to run without
  workers. `IInv` joins the type invariant, that submits which have not inserted have no
  row, exclusiveness, the accounts of attempts and copies, and that a report in progress
  is true. Every safety property of the runs follows, as do `FinalStays` (an action
  property) and `ImplementsDelivery`: each step of the queue is a step of `Delivery` or
  leaves the client's view alone. `StrandedPaid` counts: a step of a worker strands at most
  its own job (`WorkerStrands`), and only where `faults` or `panics` grows with it;
  recovery leaves none (`NoneStranded`). `AttemptsBounded` follows from
  `AttemptsAccounted` and `RestoredAfterwards`, that recoveries are fewer than starts.
* **`EventBusProofs`.** `LockHolds` says that a publisher with sends to do is a reader, a
  writer inside is alone, and exactly the registered channels are open. `NoSendOnClosed`
  and the refinement to `EventChannel` follow. `PublisherOrder` needs `OrderInv`, which
  also places the event that a publisher has in hand behind all that it sent before.
* **`CorrelationProofs`.** The type invariant needs `TargetsWanted`: a handler is on its way
  only to handles that want the event in its hand. `OutcomeAgrees` follows from `Agrees`,
  which says for each phase of a handle's `sync.Once` what result, verdict and row can be, and
  from `Filled`, that a goroutine that resolves a receive was spawned by the event that
  filled it. The three properties of routing share `RoutingInv`: a channel holds the end of the
  log of its type (`LogInv`), no goroutine knows a handle before it is in the map (`MapInv`), and what
  lies between `since` and the events taken from the channel has reached the handle
  (`ReachedInv`); `FirstInv` and `CollectInv` say the same of the answer of an ask and of the
  sequence of a receive. For `ImplementsWaiting` they are joined by `PlacedInv` (how a
  call's place, its handle and its row go together, and that nothing is settled as expired
  before its deadline) and `GatherInv` (what a receive holds at each moment is a list of
  first events); each step is then a step of `Waiting` or leaves the client's view alone.
  `NobodyHangs` follows from `HangInv`: a call that waits has its handle in the map or a
  decision, a goroutine inside a once has not finished it, and one that is through holds
  nothing.
* **`SyncLoopProofs`.** `NoneLost` needs to know where the loop is: `Phases` ties the batch
  in hand to the phase, `TokenHonest` says that the token in memory has passed only what
  was published or left out, apart from the batch in hand, and `CacheHonest` that only
  published events are marked. `RoomOrder` also needs `RunBehind`, that what this process
  published of a room lies before what it has still to dispatch of its state and time line. For `ImplementsFeed` they are
  joined by `TokenForward`, that a token in hand is not older than the stored one.
  All of it leaves the receipts of a batch where they come, after the rest.
* **`DirectRoomsProofs`.** The three properties are inductive once `Places` ties what a call
  has seen and created to where it is. The work is in what a write does to the versions:
  `UpdatedBegins` (the new version begins like the one it was built on) and `PutGrows`.
* **`DaemonProofs`.** `Inv` joins what is true at each step of `main`: `SchemaInv` (up to the
  file `Migrate` is at all are recorded, and an open transaction is about one that is not),
  `DbInv`, `AccountInv` (from `accounts` to the stop, loops run for exactly the available
  accounts), `WorkerInv`, `LeftInv`, `ServerInv`, and `CallInv`: a request in progress keeps
  `main` from going on until it is late.
* **`FilterProofs`.** `MatchesSelected`: the recursive evaluation of a compiled filter is what
  the guide's reading selects, for trees of any size. A node refers to later nodes only, so
  the proofs are by induction from the last node: if the evaluation were wrong
  somewhere, there would be a last such node (`LastNode`, from the least number principle,
  which is an instance of well-founded minimality). `EvaluationExists` shows that the
  recursive function is defined, `ConsistentUnique` that only one set of nodes satisfies
  the guide's equations. `RequestedSelects` and `WithoutEchoSelects` say what the handlers'
  own rewriting of a filter, and the exclusion an ask adds, do to what it selects.
* **`GatewayProofs`.** `RowsStay` (the table only grows, permissions never change, revoked
  stays revoked) lets the steps of operators, requests and time be treated apart.
  `AnsweredIsStored` carries a revocation from the answer to the lookup, `Balanced` (load
  plus tokens is at most the burst) is the strengthening of `RateBounded`, and `Progress`
  says what a request has done at each place. `DeliveredAsDocumented` takes `FilterProofs`
  to the filters that requests register (`HandleSelects`); `EchoNeverAnswers` is its case for
  asks.

Type correctness is a theorem of each of the seven modules with a specification; the runs
spend their time on the other properties. Every invariant, action property and refinement
that a passing run checks is also a theorem.

Only model-checked: liveness (`JobsSettle`, `ShutdownEnds`, `CallersReturn`, `CallsReturn`,
`HandlesReleased`, `RowsSettle`, `EventsDispatched`, `LifeCycleEnds`), since fairness and
`ENABLED` are out of the prover's reach, and the two runs of Findings, which are
counterexamples.

## Findings

* `queue_noclient`. Jobs of an account without a client are not put back "so it can be
  tried later" (`worker/worker.go:86`): each look costs a retry, and the job is
  dead-lettered with no send tried and no event published.
* `queue_drain`. `WorkerPool.Stop` cancels before it waits, so an orderly shutdown aborts a
  send in flight and leaves its row `sending`; `cmd/matfix/shutdown.go:24` says the pool
  waits for in-flight jobs.

Smaller differences between text and code met on the way, without a run:

* Two submits of one idempotency key that both pass both lookups: the second `INSERT` meets
  the unique index and its caller gets 400, where the guide promises the first job's id
  (`docs/user-guide.md:407`, `submission/manager.go:127`).
* `DeleteExpired` removes pending rows only; resolved and expired rows, which the comment at
  `correlation/cleanup.go:59` says it prunes, stay for ever.
* The guide has a shutdown stop the sync loops and then close the database
  (`docs/user-guide.md:316`); `StopAll` cancels the loops and does not wait for them.
* The status of an account is decided once, at startup. A server that cannot bind its address
  is only logged, and the process stays up without it.
* The library's client never gets the crypto manager, and `EncryptEvent` has no caller.
* `PullNext` claims a row before it is decoded: a payload that cannot be decoded leaves the
  row `sending` until the next start, which does the same again.
* The guide's "max attempts" (`docs/user-guide.md:204`) is `max_retries + 1`;
  `queue/retry.go:29` says "reached or exceeded" and compares with `>`;
  `dead_letter_threshold` is read by nothing.
* `api/ask.go:18-19` and `docs/user-guide.md:489` say that an ask matches replies to its own
  message by default; the handler never passes `OutboundEventID`, so the default is not
  applied. The `idempotency_key` of an ask is ignored.
* An ask whose filter is invalid answers 500 after its message was sent.
* A receive "blocks until the first matching event arrives, the limit is reached, or the
  timeout expires" (`docs/user-guide.md:433`). In the code the first event
  only joins the others: `correlation/receive.go:117` returns at the limit, and without a
  limit, or with one of more than one, the call stays until its deadline. `Waiting` and
  `ImplementsWaiting` say what the code does.
* Undecryptable events are to be exposed without their body and to "still appear in `receive`
  responses" (`docs/user-guide.md:1223`, `:1350`). `sync/normalize.go:86-119` publishes
  only `EncryptionFailure`, which is no inbound event and to which nothing subscribes, so
  that no client hears of them; `undecryptable_handling` is read by nothing.
* Receipts are published after the messages of the same response that are later
  (`sync/loop.go:98-106`), which `RoomOrder` and `Feed` allow.
* A send that is told 400 because its `INSERT` failed, and an ask whose send failed, may have created
  a direct room, invited its user and rewritten `m.direct` (`submission/manager.go:122-131`,
  `engine/rooms.go:78-111`).
* `rooms` of a key is to limit destinations and `event_types` what it may subscribe to
  (`docs/user-guide.md:360-361`); the handlers compare `rooms` with the filter's root of a receive or
  an ask only, and nothing reads `event_types`.
* The guide has each account authenticated at startup (`docs/user-guide.md:305`). `NewClient`
  makes no call to the homeserver, and a failed key restore is only logged, so an account
  with a wrong token counts as available, and "if all accounts fail" does not include it.
* The guide has the correlation manager subscribe before the API is bound
  (`docs/user-guide.md:309-311`). `cmd/matfix/main.go:137` runs it on a goroutine, after the
  sync loops; an event published before its type is subscribed to is heard by no handle.
* `docs/user-guide.md:741` calls rotation atomic; it is two writes.
* An empty `any_of` or `all_of` is to be refused; `requestFilterToCorrelation` drops it
  before `validate` sees it. `sender_id: {}` is refused for a receive and accepted for
  an ask, which adds its own exclusion first.
* The guide's "never matches" for a predicate that does not apply turns into "always
  matches" below `not`; the code and `Selected` agree on that.
* The ADR stores the sync token before events are published; the code publishes first, which
  is what makes `NoneLost` hold.
* A reply that arrives between `SendDirect` and `RegisterAsk` is not seen by the ask.
* `Unsubscribe` lets events that are already in the buffer through. Order between events of
  different types is not kept for a receive.

## Plan

Done: the queue with its workers, the bus, correlation, the sync loop, filters and the
gateway, direct rooms, and the life of the process with migrations and accounts, each
with its run and, for safety, its proofs, and the abstract specifications
(`Delivery`, `EventChannel`, `Feed`, `Waiting`) with their refinements.

Next, in this order:

1. The back-off of `queue/retry.go` as a function over integers of a width: it doubles
   nanoseconds and overflows below the cap, and nothing validates the intervals.
2. Liveness under load: fresh jobs sort before due retries (`persistence/store.go:241`),
   so that a retry may starve under a steady stream.
3. The sanitiser of `engine/html.go` as a recursive function on trees, against the list of
   what may be left of a document.

## Not modelled

Wire types, configuration, logging and metrics have no state that a property is about;
media is an upload; crypto is a wrapper of a library and seen only as "started or not" and
"decrypted or not"; `matfixctl` formats answers of the admin socket. The content of a send
is a payload here. `Prune` and `ProcessSyncResponse` have no caller.
