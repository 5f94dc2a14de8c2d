# A TLA+ model of mini-seller

mini-seller is a small sell-side bid server in Go: it takes OpenRTB bid
requests over HTTP, answers with a mock bid response, and brings libraries for
calling buyers, for running work in goroutine pools, for retrying and breaking
circuits, and for rate limits and sessions kept in Redis. This directory holds
TLA+ models of its parts, the TLC configurations that check them, and TLAPS
proofs of the safety properties they check, for every value of the constants.
Paths below are relative to the repository's `internal/` unless they start
otherwise.

    tlc -config Pool.cfg MCWorkerPool            # a run: a cfg and its MC module
    tlapm WorkerPoolProofs.tla                   # the proofs of a ...Proofs module

`PROJECT.json` lists the runs, for each definition the lines of source it
models, the hazards the properties are aimed at, and the disagreements between
code and documentation that a run exhibits.

## 1. Inventory

| Component | State | Operations | What is hard | What makes it correct |
|---|---|---|---|---|
| Worker pool (`workerpool/pool.go`) | jobs channel, quit channel, isRunning, WaitGroup, monitor | Start, Stop, Submit, SubmitTask, worker, processJobSafely | task, context and Stop race; a result channel is sent to and closed in two steps; Stop may time out; restarts | a job is answered exactly once, truthfully; workers survive jobs and end after Stop; counters are exact |
| Batches (`workerpool/bid_pool.go`, `ProcessBatch` in `pool.go`) | result map, error count, one goroutine per item, one forwarder per job | ProcessMultipleBidRequests, ProcessBatch | the context ends while results arrive; the pool stops under the batch; equal IDs | every ID has a true result on return; nothing is counted twice; no goroutine waits for ever |
| Goroutine monitor (`monitoring/goroutine_monitor.go`) | two counters per name, a loop | Start, Stop, TrackGoroutineStart/End, CheckForLeaks | order of untracking and WaitGroup; restart after cancel | counters equal the live goroutines |
| Bid processor (`processor/concurrent.go`) | request channel, workers, a result slice per request | Start, Stop, SubmitBidRequest, ProcessBidRequest, ProcessBidRequestsConcurrently | a slice is returned while goroutines still write it; full queue; submit after Stop | complete slices unless the context ended; first bid wins; Stop drains |
| Buyer client (`buyers/generic_buyer.go`) | token bucket, four Prometheus counters | SendBidRequest | shared limiter, retries after a timeout, redirects that Do follows, error paths that skip counters | no auction repeated once it was answered; counters agree with returns; every call returns |
| Error handling (`errorhandling/handler.go`) | breaker state, failures, lastFailure; a map of fallbacks | ExecuteWithRetry, Allow, RecordSuccess, RecordFailure; ErrorRecovery; TimeoutHandler | Allow drops its lock twice; late results; an operation that outlives its timeout | opens, holds and closes when it should; recovers; an answer is that of the call's own attempts |
| Redis limiter (`redis/redis_limiter.go`) | one counter key with expiry | Allow, Reset | check and increment are two requests; the pipeline may fail half way, and go-redis sends it again | bounded excess over the limit; a blocked key is released |
| Sessions (`storage/storage.go`) | one key per session with expiry | Create, Get, Update, Delete, SetSessionData, ExtendSession | read, change, write without a transaction; clock against TTL | sessions live as long as ExpiresAt says; writes are not lost |
| Bid request handler (`handlers/bidrequest.go`, `bidresponse.go`; `middleware/rate_limit.go`, `error.go`) | RequestStats, SimpleMetrics, one token bucket for every route | BidRequestHandler, generateSimpleBid, RateLimiterMiddleware, WriteErrorResponse | counters taken under several critical sections; panics and the deferred function | counters exact at every moment; the answer agrees with the request |
| Health check (`handlers/health.go`) | none | HealthHandler, checkRedisHealth, MetricsHandler | marks; a status that may only be raised; a limiter before it that bids and probes share | a probe that was let in is answered what the ping and the counters say |
| Synchronisation helpers (`sync/safe_operations.go`) | WaitGroup, error list, cancel function; map, counter | Coordinator, SafeExecution, ErrorCollector; SafeMap, SafeCounter | timeout against completion; Go beside Wait; retries after the context is done | Wait sees every end and every error; only a misuse panics; nothing is left behind but stuck operations |
| HTTP server (`cmd/server/server.go`, `main.go`) | signals channel, listener, connections | NewServer, Start, shutdown | a signal at any moment; the listener's goroutine against the shutdown; requests in flight | a signal is heeded; code 0 cuts nobody off; no request ends the process |
| Configuration (`config/config.go`) | Config | LoadConfig, validateConfig, getters | Config is set before it is validated; three sources | nobody is served under a refused one |
| Errors (`errors/errors.go`) | none | constructors, LogError, ToJSON | a critical error ends the process when it is logged | none is logged for a request |
| Cache (`cache/cache.go`), Redis client (`redis/client.go`) | the client | Set, Get, Delete, Exists; Connect, Close | none: single Redis commands | - |
| Other middleware, logging, string builder, models | none | headers, log lines, buffers | - | - |

How they interact. `main` loads the configuration and starts the server; the
server's router calls the middleware and then the handlers, which share
RequestStats and the global metrics. The health check reads both, and like
every route it stands behind the one rate limiter. The bid
processor calls buyer clients in goroutines. `BidWorkerPool` submits the tasks
of a batch to a `WorkerPool`, which reports to a `GoroutineMonitor`. The limiter,
the sessions and the cache share one Redis connection. Of these libraries only
the handlers, the middleware, the metrics and the health check are reached from
`main` today; the others are used by their tests. The limiter's and the
handler's error answers go through WriteErrorResponse, which logs them with
LogError.

## 2. Modules

| Module | Models | State that corresponds |
|---|---|---|
| `JobService` | what a pool promises a caller: a job is accepted or refused, executed only if accepted, answered once and truthfully | abstract |
| `WorkerPool` | `pool.go`, with what it asks of the monitor | `queue` is `wp.jobs`, `pc`/`holding` the worker goroutines, `task` the goroutine of processJobSafely, `waiter` the goroutine Stop starts for `wg.Wait`, `chan`/`closed` the Result channels |
| `BidBatch` | `ProcessBatch` and `ProcessMultipleBidRequests` | `item` the goroutine of an item, `forwarder` that of ProcessBidRequest; the pool is `JobService` |
| `BidProcessor` | `concurrent.go` | `results` the slice each buyer's goroutine writes, `allDone` the channel done, `stored` the map of the batch |
| `BuyerClient` | `generic_buyer.go` | the four counters, `tokens` of the limiter, `pc`/`attempt` of each call, `hops` the requests one Do has made; `sent`, `reposted` and `heard` are history |
| `CircuitBreaker` | the breaker and ExecuteWithRetry | `state`, `failures`; `elapsed` for the comparison with lastFailure |
| `RedisRateLimiter` | `redis_limiter.go` | `count` and `ttl` of the key; `retry` go-redis's attempts, `lateIncr` and `lateExpire` what the server still has of those that failed; `recent`, `age` and `extra` are history |
| `SessionStore` | `storage.go` | `present`, `stored`, `ttl` of the key; `copy` is a call's local session |
| `BidRequestHandler` | the limiter, the handler with parsing, response and metrics, the probes of /health and /metrics | `tokens` of the limiter, `activeRequests`, `totalRequests`, `failedRequests` of RequestStats, `recorded`, `recordedErrors` of SimpleMetrics |
| `Server` (extends `BidRequestHandler`) | main, configuration, start-up, listener, signals, shutdown, error severities, with the handler inside | `config` is config.Config, `stage` where main is, `listener` the goroutine of ListenAndServe, `signals` the channel, `connected` net/http's connections, `exit` the exit code |
| `Coordinator` | Coordinator and ErrorCollector, with the WaitGroup | `counter` of the WaitGroup, `op` the goroutine of Go, `wait` a call of Wait or the goroutine WaitWithTimeout starts for it, `caller` who called it; `before` and `raced` are history |
| `GuardedOperation` | one operation inside SafeExecution.Execute, ExecuteWithTimeout and ExecuteWithFallback | `call` and `attempt` the loop of Execute, `task` the goroutine of an attempt, `done` its channel |
| `CoordinatedOperations` | the two composed: what Go runs is a guarded call, and the coordinator's context is the call's | |
| `MC...` | the instance of each for TLC: small sets and symmetry | |
| `WorkerPoolProofs`, `BidBatchProofs`, `BidProcessorProofs`, `BuyerClientProofs`, `RedisRateLimiterProofs`, `SessionStoreProofs` | theorems about the module each is named after | |
| `ServerProofs` | theorems about `Server` and the `BidRequestHandler` inside it | |
| `ErrorHandlingProofs` | theorems about `CircuitBreaker` and `CoordinatedOperations` | |

`WorkerPool` is shown to implement `JobService` (`ImplementsService`, with the
refinement mapping at the end of the module) and `BidBatch` is built over
`JobService` by INSTANCE, so that the two together say what a batch over the
real pool does. The batch's use of the pool is narrower than the service: its
jobs share the batch's context, which `JobAnswers` adds. `CoordinatedOperations`
takes `Coordinator` and `GuardedOperation` by INSTANCE and joins their actions:
the step in which a call returns is the one in which the goroutine of Go learns
its error. `Server` extends `BidRequestHandler` and takes its actions whole,
each only while the process is up.

Conventions. An action is one critical section, one channel operation or one
command of a server; the variables an action does not name are in UNCHANGED. A
`select` with several ready branches is a disjunction. A panic that is
recovered ends the goroutine the way its deferred functions say; one that is
not sets `crash`, or, when only a caller's own goroutine is concerned, ends that
caller's call. Each module keeps, beside a definition, variants of it with a
plausible slip: they are not part of a specification, and `PROJECT.json`
("mutants") says which property each of them breaks.

### What is abstracted

- Time is a choice (`CtxDone`, `Elapse`, timers of Stop and backoff) except in
  the two Redis modules, where it is counted in units of which the TTLs are
  multiples.
- Payloads, prices other than the response's floor rule, JSON and log lines are
  left out; what a buyer or a decoder may answer is a small set of outcomes.
- `Start` of the pool is one step: it holds the mutex, and no step of a worker
  it has started can be seen before its end except work that could as well come
  after. The goroutine that refuses a job sends and closes in one step, because
  nobody else writes that channel.
- `wp.Stop` reads the configuration; it is taken to be loaded, as `main` does.
- The Result and Context a caller hands to `Submit` are not nil.
- A loop that starts goroutines is one step; the goroutines then interleave.
- Prometheus counters can be registered once per process, so there is one
  `BuyerClient`.
- `failures` of the breaker stops at MaxFailures: the code only compares it
  with that value. The session's remaining time stops at `-Extra`, beyond which
  an extension cannot bring it back.
- A connection of the server carries one request; one that is kept open and idle
  is closed by Shutdown at once, and has nothing to lose. The last step of a
  request includes the flush of its answer.
- A probe of /health or /metrics passes the limiter like a request for a bid, and
  changes nothing else. Its route is one step (`Probe`), the one that reads the
  counters; what it finds of Redis, the goroutines and the memory comes with the
  probe, from `Probes`.
- A command or pipeline that go-redis sent may be done with its reply lost, or
  be executed after the attempt has failed. A SET of a session that was done and
  is sent again may be done any time later, and crosses the calls of others like
  the first; what others write between the two crosses it. One that is executed
  after its call returned is the SET of a client that was as long on its way
  with the same session: the model has it with one client more. A DEL that comes
  late is a Reset, or a deletion, of that moment.
- `MaxHops` bounds the requests that net/http makes in one Do; it is 10 in
  net/http. An answer that is no redirect, or one that cannot be followed, is the
  answer Do returns.
- Redis expires a key exactly when its TTL ends. SET, GET, INCR, EXPIRE and DEL
  are atomic; a pipeline is not.

## 3. Runs

Safety runs use symmetry where the constants do not tell the elements apart;
runs with liveness do not. CHECK_DEADLOCK FALSE stands in the cfgs of
systems that may come to rest: all calls made, or the pool stopped.

| Run | Instance | Checks |
|---|---|---|
| `pool` | two workers, one Start and one Stop, three jobs: one that may hang and has no deadline, one that may hang and has one, one that returns | true answers, a clean graceful Stop, answers while the pool runs, the ends of workers and task goroutines |
| `pool_restart` | one worker per Start, two Starts, a queue of two, three jobs of which two share a channel of capacity one | types, what ends a worker, exact counters, refinement of `JobService` |
| `batch` | up to three items, two with one ID; direct or forwarded, with a deadline or not | accounting, return, the ends of forwarders |
| `processor_queue` | one worker per Start, two Starts, two buyers, a queue of two, three requests, Stop | the best answer, a drained queue, an answer for everybody |
| `processor_batch` | two buyers, a batch of two requests with one ID beside one queued request | no nil dereference, holes only on timeout, return |
| `buyer` | two calls, one with a deadline, a bucket of one, up to three requests in one Do | exact counters, no request after an answer, return |
| `breaker` | three callers, two failures, one retry | when it opens and holds; recovery |
| `limiter` | three clients, limit 3, expiry after 2 units, one retry of a pipeline, two commands lost or late, Reset | bounds on counter and window, release |
| `limiter_stuck` | one client, limit 1, the three retries of go-redis, four commands lost or late | violated: a key that blocks for ever |
| `session` | two clients, two keys, TTL and extension of two units | expiry against ExpiresAt, no valid session under a key that never expires, what only a race loses |
| `server` | seven setups of which two are valid, two signals, a listener that may fail, two requests, a bucket of one, for each request one input for each way through the handler or a probe on each side of each mark | counters, metrics, health, replies, versions; configuration, exit codes, signals |
| `coordinated` | one call inside all wrappers with one retry, whose attempts may never return; one bare call that heeds its context; a Wait and a WaitWithTimeout | what Wait sees, whose answer a call returns, what panics, what is left behind |

Why the bounds are enough. Two workers and three jobs are two jobs in hands and
one queued, which is what a double delivery, an overtaking or a missed decrement
needs; a queue of two with three jobs overflows while a job is held. Two Starts
give workers of two generations after a Stop that timed out, and the old
`wg.Wait` beside the new `wg.Add`. Two jobs on one channel of capacity one meet
it closed and full, and with them `WorkersSurvive` is checked with its exception
happening. Three callers of the breaker are one inside `Allow`, one between its
operation and its record, and one failing. Three clients of the limiter race in
every gap of each other's calls, and two units of time let an expiry fall into
each. One retry sends a pipeline again, and two lost commands are two attempts
that fail after their INCR, or one whose INCR and EXPIRE both come late
(`MaxLost` bounds the commands of failed attempts in the life of a key, not how
often an attempt fails before them); a third would only repeat them, and the
proofs have no such bound. Two calls of the buyer client compete for one token,
and the one without a deadline waits; two redirects of an attempt are one that
POSTs again and one, before or after, that does not. Two requests meet in every
place of the handler, and a bucket of one refuses the second or, refilled, lets
it in beside the first, each of them a bid or a probe. The sample is 1 instead
of the 10 of the code, so that two requests reach both sides of the mark; the
parser is a function of the input, so that one input for each way through it
stands for the rest. Two signals are one that is received and one that comes
before, meanwhile or after; the channel holds one. Setups that are refused end
in two steps, so that only the valid ones multiply. One wrapped and one bare
operation give every panic, error and late answer beside another operation; two
Waits are what a WaitGroup needs to be misused, and one of them may be left
behind by its timeout.

### What the models show of the code

- *Redis limiter.* With N clients the counter may exceed the limit by N - 1, and
  by one more for each attempt that failed after its INCR: go-redis sends the
  whole pipeline again, up to three times, since `redis/client.go` (20-24) leaves
  its MaxRetries alone, so that one Allow may increment four times
  (`BoundedOvershoot`). Calls that returned true exceed the limit by at most
  2N - 1 in a window; what is sent again only refuses more of them
  (`WindowBound`). The check and the increment are two requests
  (redis_limiter.go:46-54), so the limit is not exact, although the integration
  test of line 237 expects it to be. A key that has an expiry lets callers in
  again (`ExpiringIsReleased`), but when the connection fails between INCR and
  EXPIRE on a fresh key, and the attempts after it fail too, it never does
  (`limiter_stuck`).
- *Sessions.* `UnracedKeepsAll` is the most SetSessionData and ExtendSession
  guarantee. Two that overlap lose a key or an extension, and one that overlaps
  a DeleteSession brings the session back (storage.go:117-137, 155-164): the
  property has its premise, and does not forbid these.
- *Worker pool.* Nothing recreates `wp.quit` or the monitor's context: after
  Stop and Start the new workers end at once while Submit accepts jobs nobody
  will take, the monitor loop ends, and the next Stop panics (pool.go:58-113). A
  `wg.Wait` that a timed-out Stop left behind panics when the restart adds to
  the WaitGroup as it returns (pool.go:96, `WaiterReturns`). The model has all
  four, and no property forbids them; the properties about a running pool are
  checked for one Start. A closed Result channel that jobs share ends the worker
  that sends to it, although pool.go:228 means to ignore that.
- *Bid processor.* A slice that ProcessBidRequest returns because the context
  ended has nil entries that goroutines still write (concurrent.go:111-116);
  `HolesOnlyOnTimeout` says this is the only way, and workers are safe from it
  because their context never ends. That the caller then reads a slice which
  changes under it is a data race that no property forbids.
- *Circuit breaker.* `failures` is reset by successes only, so that failures of
  any age open it, where handler.go:25 counts them per minute; a call may be
  rejected by a breaker that another caller closed between the two unlocks of
  Allow; a late success of an older call zeroes `failures` while the breaker is
  open, so that one failed probe may leave it half open.
- *Buyer client.* Errors of the endpoint, the status and the body are not counted
  as failed; a refusal by the limiter is counted twice, in two steps (lines 69 and
  70), between which the limiter's counter is ahead. `CountersConsistent` has
  each counter exact, in that gap too. The http.Client has no CheckRedirect
  (32-35), so a buyer that answers 307 or 308 has the same bid request POSTed
  again inside Do, wherever it points, and a chain that fails is tried
  again by the loop: `NoRepeatAfterAnswer` bounds these by the redirects, and
  says that nothing is POSTed after an answer that Do returned.
- *Handler.* A request that fails to parse is recorded twice in the metrics,
  once as a success: `StatsExact` states the counts as they are. An unsupported
  version is answered with 400, where `miniSeller.yaml` (326-344) has 422, and
  no answer is a 204.
  `source` and `regs` are looked at before `rwdd`, so that a rewarded request may
  be taken for 2.5 or 2.4.
- *Health.* A ping that fails after more than two seconds, as one that times out
  after the configured five does, is a warning (206), and one that fails at once
  takes the instance out of service (503): `HealthJudges` states both. `main`
  never calls redis.Connect, so that the running server has no client and a probe
  that is let in is answered 503. The limiter of server.go:95 stands before /health
  and /metrics too (113-114), with one bucket for all routes: probes take the
  tokens of bids, and a healthy instance with many bids answers probes with 429.
  `HealthJudges` says that an empty bucket is the only reason for that.
- *Server.* A second signal is dropped, or stays in the channel: it never
  hurries a shutdown. A listener that fails while requests run ends the process
  under them with code 1 (server.go:54-58), and so does a drain that takes too
  long, although the next poll might find nobody left. An address that cannot be
  bound is code 1 also after the shutdown began. `ExitExplained` says these are
  the only ways a client is cut off. A signal before NewServer kills the
  process, when nobody is connected yet.
- *Configuration.* A wrong variable is refused even if the file has a good value.
  The files the repository keeps are in `config/environments`, which is not
  among the paths LoadConfig searches, so that the process started from the
  repository runs on defaults. The rates and bursts are not validated. Debug
  never changes the log level, because logging.level has a default.
- *Coordinator.* A Wait may miss nothing that was started before it, but Go at a
  counter of zero beside a Wait panics or escapes it, and a WaitWithTimeout that
  gave up leaves such a Wait behind (safe_operations.go:278-292). Execute goes on
  with its attempts after its context is done; with operations that heed the
  context they are short. No package uses these helpers yet.
- *Monitor.* CheckForLeaks compares active with started goroutines, so that a
  healthy running pool, whose workers are all active, is always reported
  (goroutine_monitor.go). It only logs.

### Fairness

The Go scheduler runs every goroutine that can run: each item, forwarder, caller
and worker has weak fairness for its steps as one action, so that a `select` may
prefer one branch for ever. Timers fire. A task or operation returns unless it is
in `Hanging` (or `Deaf`, for an attempt that ignores its context); a context ends
only if it carries a deadline. A caller that holds a channel reads it. Nothing
makes anybody call Start, Stop, Submit, Go, Wait or Cancel, send a signal or a
request, or keep the address free. `WorkerPool`, `CoordinatedOperations` and
`Server` have one fairness for all steps the code must take. It is enough, and
asks for no more than one for each goroutine, because none of those steps can be
taken for ever: a run in which any of them stays possible is not fair, so
in the end there is none, and the properties say what is true then
(`<>[]`). In
`BuyerClient` a grant of the limiter is strongly fair: the limiter reserves
tokens in the order of the calls. In `BidBatch` an open pool executes what it
accepted, which `AnsweredWhileRunning` shows of a pool that was not restarted
and whose workers are not wedged. In `BidProcessor` the goroutines of one request
share one fairness: they take finitely many steps and none disables another.

## 4. Proofs

Every safety property that a passing run checks, invariant or action property,
is also a theorem, for every number of workers, jobs, clients, calls, requests
and retries and every value of the limits. Each module of proofs has the same
plan: an inductive invariant; a lemma that Init has it; lemmas that each action,
or each group of actions that leave the same variables alone, keeps each part of
it; and theorems that read the properties off it.

**Worker pool** (`WorkerPoolProofs`).

- `TypeCorrect == Spec => []TypeOK`. The type invariant carries `HandsMatch`
  (a worker holds a job exactly while it runs or closes it) and
  `GenerationsMatch` (the workers that exist are those of the Starts so far),
  which the other proofs need.
- `JobsStayInPlace == Spec => []JobsInPlace`, the inductive invariant of the jobs.
  Neither `HonestAnswer` nor `WorkersSurvive` is inductive: that a worker never
  sends to a closed channel depends on the channel being closed only by the
  worker that holds its job, hence on a job being held by one worker, hence on
  its being queued once, hence on its being submitted once and not both queued
  and refused. `QueueInv`, `HandsInv`, `RefusalInv` and `AnswerInv` say this for
  each place a job can be in. Steps of Start, Stop, the monitor and idle workers
  leave the jobs alone (`JobsUntouched`); every other step moves one job, and
  each conjunct is proved for that job and for the others.
- `AnswersAreHonest == Spec => []HonestAnswer`, a conjunct of it, and
  `WorkersOutliveJobs == Spec => []WorkersSurvive`: a worker ends only after Stop
  closed quit, or after a Result channel that callers share was closed.
- `CountersStayExact == Spec => []CountersExact`: the WaitGroup and the monitor
  count what is alive, by the library's facts about cardinality.
  `GracefulStopsAreClean` follows from it, with the invariant that the goroutine
  of `wg.Wait` has returned only when nobody was alive (`DrainedInv`).
- `NoCopyLostOrMade == Spec => []ExactlyOneCopy`. JobsInPlace says "at most one
  place"; the missing half, "at least one while the caller waits", is
  `PlacesInv`, an invariant of its own.
- `PoolImplementsService == Spec => ImplementsService`: the pool is a `JobService`
  under the refinement mapping of the module. Each action is one action of the
  service or a stutter, by the invariants above.

**Batches** (`BidBatchProofs`). `BatchIsAccounted == Spec => []BatchInv`, over
every pool that is a `JobService`. That a returned batch has a result for every
ID is not inductive; `Accounts` is: the results, the error count and the tracked
goroutines are those of the items that have stored, however the items interleave
(`Membership`, `Attributed`, `Earned`, `Totals`). `BatchUsesService == Spec =>
Pool!Spec`: a batch asks nothing of a pool that the service does not do. With
`PoolImplementsService` the chain from pool to batch is proved but for the
context, which `JobAnswers` adds.

**Bid processor** (`BidProcessorProofs`). `SlicesAreComplete` is
`[]HolesOnlyOnTimeout`, `CallersGetBestAnswer` is `[]BestAnswer`,
`StopLeavesNothing` is `StopDrains`. The inductive invariant `ProcessorInv` says
of each request where it is: in the queue and untouched (`InQueue`), in one
worker's hands (`InHand`), answered with what its buyers' results call for
(`OnChannel`), and attended to while its caller waits (`Attended`). `BestAnswer`
alone is not inductive: the answer on a channel stays due only because the
slice is complete when the worker reads it (`Full`), and only one worker ever
writes it. `StopDrains` needs `Staff`: a worker ended because the channel was
closed and empty. That among the bids there is a first one is the
well-foundedness of the naturals, from the library.

**Buyer client** (`BuyerClientProofs`). `ClientCountersConsistent ==
Spec => []BuyerInv` and `NoAuctionRepeated == Spec => []NoRepeatAfterAnswer`, by
`Loop`: a call has sent at most one request for each attempt, and one more for each
redirect that asked for it; each attempt has made at most `MaxHops`; and a call
that heard an answer has left the loop. The counters are sums over the calls by
what they return, with the calls between the two counters of a refusal apart.

**Error handling** (`ErrorHandlingProofs`). `BreakerTypes`, `ClosedIsBelowMax ==
BreakerSpec => []ClosedBelowMax` and `OpenHolds == BreakerSpec =>
OpenLastsResetTimeout`. The invariant is the types, the bound itself and
`RetriesLeft`, that a call waits only with a retry left, without which the
attempts would not keep their type. `OpenHolds` shows that of all steps only
Upgrade leaves Open, and that it looks at the time again.
For the coordinator, `CoordinatedTypes`, `CallersGetTheirOwn == Spec =>
[]AnswerIsOwn`, `NoCrashUnlessMisused == Spec => []CrashOnlyByMisuse` and
`WaitsSeeAll == Spec => WaitSeesAll`. The invariant `CoordinatedInv` has a part
for each component and one that links them. `CallFits` relates a call to all of
its attempts: those before the last were lost, the result of one that was given
up lies in its own channel. `Orderly` is the protocol of the WaitGroup without a
race: only one goroutine wakes the sleepers, at a counter of zero, and no Wait has
passed the counter while an operation it waits for runs. `Linked` says that the
goroutine of Go is where its call is, and whose errors are collected.

**Redis limiter** (`RedisRateLimiterProofs`). `OvershootIsBounded == Spec =>
[]LimiterInv` and `WindowIsBounded == Spec => []WindowBound`, for every number of
retries, with attempts that fail anywhere in the pipeline and commands that come
late. `BoundedOvershoot` is inductive with `extra` on its right side: an attempt
that fails after its INCR gives its increment away and may make another. The bound
on a window needs `Outlived`, that a key which expires has outlived every call
counted in a window, and `Covered`, that the calls of a window and the increments
no call owns are in the counter but for one of each client.

**Sessions** (`SessionStoreProofs`). `NoSessionLostEarly == Spec => []SessionInv`
and `UncrossedCallsLoseNothing == Spec => UnracedKeepsAll`, by `Kept`: whoever is
about to write asks for an expiry not before ExpiresAt, and whoever was not
crossed since it read the session holds all that is stored, also after a SET of its
own whose reply was lost.

**Server and handler** (`ServerProofs`). `HandlerInService == ServerSpec => Spec`:
each step of the server is one of the routes or leaves their variables alone, so
that what is proved of them holds in the server. `CountersExactInService`
is `[]ServerInv`, which joins the types and `StatsExact`; `RepliesAreHonest`,
`EveryExitExplained` and `OnlyValidIsServed` are `[]ReplyHonest`,
`[]ExitExplained` and `[]ServesOnlyValid`, and `HealthIsJudged == ServerSpec =>
HealthJudges` is about every step that answers a probe. `HandlerInv` relates
each request's place to what was counted for it, and its reply to its input, with
probes in no count;
`ProcessInv` is what main has passed by, and why the process ended.

The proofs rest on the assumptions that stand in the modules, and TLC evaluates
them on every run. Sets of jobs, items, requests, operations and Waits are
arbitrary, and finite where the code counts them. Distinguished values ("no
job", a shared channel) are not jobs. Limits are what the code makes them:
`Requested` of the two pools is any integer; the limiter's `Limit` and
`Duration`, the sessions' `TTL` and `Extra`, and the handler's `Burst` are
positive, as all of the repository's tests and configurations have them;
`MaxRetries` and `MaxLost` of the limiter are any naturals, and `MaxHops` is
positive; MaxFailures is positive because with 0 a breaker would start closed at
its bound, and the repository's one caller of NewCircuitBreaker passes 5.
Inputs, probes and setups are records of the fields the code looks at. The
bounds of the models (`MaxStarts`, `MaxSignals`, `MaxLeft`) are arbitrary too.

Only model-checked: liveness (`AnsweredWhileRunning`, `NothingLeftBehind` of the
pool, the batch and the coordinator, `Recovers`, `ExpiringIsReleased`,
`Answered`, `BatchReturns`, `EveryCallReturns`, `SignalHeeded`) and the run that
exhibits a violation. The installed prover has neither ENABLED nor the rules of
fairness, and no induction over data; no module declares a RECURSIVE operator.

## 5. Plan

What is left: a second look at the seams. The batch is proved over `JobService`,
whose answers may be a context's error at any time, while `JobAnswers` allows one
only when the batch's context is done; a service with contexts would close that
gap. `Coordinator` and `GuardedOperation` have invariants only together; each
could promise its part alone. Of liveness, what can be proved is that the steps
the fairness conditions name lead down a measure, which would leave only the
temporal argument to TLC.

## 6. Not modelled

- Logging, string builder, models, the CORS, logging and request-ID middleware:
  formatting, constants and headers, without a decision or a state between
  calls. The cache: single commands of Redis with an expiry. The temporary data
  of storage.go (19-51: SetTempData, GetTempData, DeleteTempData): one SET, GET or
  DEL of a key that nothing else uses, without a caller. The connection of
  redis.Client, Prometheus and net/http are external; the modules model their
  commands and calls where they matter.
- SafeMap and SafeCounter, whose methods are one critical section each, and
  ErrorCollector.Clear and FirstError, which nothing calls.
- The settings LoadConfig does not validate: they are read like the two that
  it does, and are constants of the modules that use them.
- The length of backoffs (handler.go:83-97): a wait ends some time later,
  whatever its length; attempts are too few in the repository's configurations
  for the doubling to overflow.
- GetStats, CheckForLeaks and GetGoroutineStats, which only read and log;
  response times and PerformanceMetrics, which nothing decides on.
