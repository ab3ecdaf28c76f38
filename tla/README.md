# TLA+ specifications of goupter

goupter is a Go toolkit for services: an application object that starts and
stops servers, gin middleware, gRPC interceptors, caches, configuration,
discovery, messaging and logging. This directory models the parts of it that
keep state between calls, checks them with TLC on small instances, and proves
the most important invariants with TLAPS for every instance.

    tlc -workers 2 -config AppLifecycle.cfg MCAppLifecycle.tla
    tlapm AppLifecycle_proofs.tla

## 1. Inventory

### Rate limiters (`pkg/server/middleware/ratelimit.go`)

* State. `IPRateLimiter.limiters`, a map from key to `*TokenBucket` under an
  RWMutex; each bucket has tokens and `lastTime` under its own mutex.
  `SlidingWindowLimiter.windows`, a map from key to count and start under one
  mutex.
* Operations. `AllowN` of each, and a `cleanup` goroutine of each.
* Hard. `getLimiter` reads under the read lock, drops it, takes the write lock
  and looks again; `AllowN` charges the bucket after every map lock is released;
  `cleanup` holds the map lock while it takes the bucket locks.
* Correct when. A key is not granted more than its burst, its refill and what the
  requests overtaken by cleanup ask for, concurrent first requests end with one
  bucket, keys do not pay for each other, cleanup of windows changes no answer,
  and every request is answered.

### Timeout middleware (`pkg/server/middleware/timeout.go`)

* State. A buffered response (status, body, `timedOut`) under a mutex, the
  original writer, channels `done` and `panicChan`.
* Operations. A worker goroutine runs the handlers on a copy of the context; the
  server's goroutine selects over panic, end and deadline, then commits the
  buffer, re-panics, or calls the timeout handler, which may be the user's.
* Hard. All three sources can be ready at once; the handlers go on after the
  deadline; gin continues the original context when the middleware returns.
* Correct when. Output is committed whole or not at all, a timeout page that was
  written stands, the decision does not wait for the handlers, no goroutine leaks.

### Application lifecycle (`pkg/app/app.go`, `pkg/server/http.go`, `grpc.go`)

* State. `running`, the server pointers, registration, the stores (cache and
  database), hooks.
* Operations. `Run` (hooks, two server goroutines, registration, wait for a
  signal) and `Shutdown` (hooks, deregister, drain both servers, close stores)
  under one deadline. Both may be called from several goroutines.
* Hard. `Shutdown` reads `s.server` while the goroutine of `Start` assigns it;
  hooks fail halfway; draining races its deadline.
* Correct when. A run is shut down once, the service is deregistered before its
  listener closes, stores outlive requests, and Shutdown ends.

### Caches (`pkg/cache`)

* State. `memoryCache.data` under an RWMutex with lazy expiry and a cleanup
  goroutine; a Redis server; `multiLevelCache.levels`, with no lock.
* Operations. Get with backfill of the upper levels, Set, Delete, Expire, SetNX,
  Incr and the batch forms.
* Hard. Every multi-level call is a sequence of calls on levels that other
  goroutines interleave with; Redis calls fail; TTL is asked after the value.
* Correct when. A write that was reported as done is what readers see, the
  levels disagree for a bounded time only, and no value outlives its expiry.

### Configuration (`pkg/config`)

* State. The center's configuration and the package's global one, each under a
  lock of its own; the Consul index the watcher waits on; callbacks. A file's
  configuration is made once, from defaults and text, and validated.
* Operations. `Load`, `Watch` with its goroutine, the refresh loop, `Stop`,
  `OnChange`; `Load` of a file with `setDefaults`; the rules of the validator.
* Hard. Load, the watcher and the refresh loop write both copies in several
  steps; a watcher inside a blocking query outlives Stop; some rules relate two
  fields of which a file sets one and a default the other.
* Correct when. Both copies agree and do not go back, a callback sees changes in
  order, a watched key is caught up with, and what the defaults make is valid.

### Peripheral clients

| Part | State | Hard | Correct when |
|---|---|---|---|
| Health manager `pkg/app/health.go` | cached liveness and readiness with expiry | a slow check caches after `ClearCache` or after a newer check; a probe whose client left | an answer is of bounded age, and "up" was true of every checker |
| Discovery `pkg/discovery/consul.go` | map of watcher cancel functions | a cancelled watcher is inside a blocking query | a name has one watcher that nobody cancelled, and it shows what stays |
| NATS client `pkg/mq/nats.go` | subscription map | the map is written after the subscription exists, and cleared before it ends | Unsubscribe and Close reach every subscription |
| JWT `pkg/auth/jwt` | blacklist in a cache that fails or lags | entry and token end by themselves, at different times | a revoked token is refused until it expires |

### A request's way (`pkg/server/middleware`, `pkg/server/interceptor`)

* State. One for each request: the place in the chain, the writer the chain has
  put in front of the response, what was written. Shared: the metrics, the pool
  of gzip writers, and the limiters above.
* Hard. A panic unwinds the chain through deferred functions in an order that
  depends on the configuration; a gzip writer goes to another request; an
  answer is collected until it is long enough to compress.
* Correct when. Metrics add up, every answered request has left a line that says
  what the client got (as far as the log can know it), and a client can read what
  was written for it.

### Logging (`pkg/log`)

* State. The fields a logger was given, the level, hooks, a sampling counter,
  sensitive keys, and the channel of an asynchronous hook.
* Hard. Wrappers (names, hooks, sampling, masking) in any order; fields handed
  over long before a call; a hook that hangs with the channel full.
* Correct when. No sensitive string gets below a masking wrapper whole, a call
  comes back, and lines carry the ids of their request.

### Without state worth a model

TLS and profiling set-up, options, database calls and models, error tables,
response formatting, the code generator and the examples.

### How the parts meet

The lifecycle owns the servers, the registration and the stores, and closes them
in the order the model checks. A request goes through the middleware of
`HttpChain` (or the interceptors of `GrpcChain`): the limiters decide first, the
timeout middleware then runs the handlers, which use the caches. The limiters,
the timeout middleware and the caches have modules of their own, because each
has an inside the chain does not see: the chain sees an answer of a limiter, the
lifecycle sees a request as served or not. The blacklist of the JWT
authenticator is a cache; `JwtAuthenticator` takes of it only that entries
end and calls fail, which `MemoryCache` and `MultiLevelCache` treat in full.

## 2. Plan

Order: lifecycle of the process and of one request first, then shared data, then
the peripheral clients. All of the following is written.

1. `IPRateLimiter`, `SlidingWindowLimiter`, `TimeoutMiddleware`,
   `AppLifecycle`, `CacheEntries` with `MultiLevelCache`.
2. `ConfigCenter` and `ConfigFile`; `HealthManager`; `NatsClient` and
   `ServiceWatch`; `JwtAuthenticator`.
3. `MemoryCache`, with the gap between a read's lookup and its test, and
   `CachePromise`, the abstract specification it implements.
4. `HttpChain` and `GrpcChain`, the composition of what a request meets;
   `LogPipeline` and `AsyncHook`.
5. Theorems about every safety property of the passing runs, and the refinement of
   `CachePromise`; section 7.

What is left to do: a module for `WindowSampler`; an abstract specification for the
timeout middleware (a call that ends once, by its deadline).

No module uses a RECURSIVE operator, so each can be proved about.

## 3. Modules and the code

| Module | Code | State | Actions |
|---|---|---|---|
| `IPRateLimiter` | ratelimit.go, token buckets | `limiters`, bucket contents, the map lock, each caller's place in `AllowN`, the sweep | `Arrive`, `Take`, `Lookup`, `CreateFound`, `CreateNew`, `Allow`, `SweepStart`, `SweepVisit`, `SweepEnd`, `Tick` |
| `SlidingWindowLimiter` | ratelimit.go, windows | `windows` | `AllowFresh`, `AllowInWindow`, `Refuse`, `Cleanup`, `Tick` |
| `TimeoutMiddleware` | timeout.go | buffer, response, channels, the two runs of the handlers | handler steps, `HandlerPanics`, `SendPanic`, `CloseDone`, `ContextEnds`, `SelectPanic`, `SelectDone`, `SelectTimeout` |
| `AppLifecycle` | app.go, http.go, grpc.go | `running`, place of each caller, both servers, registration, stores, requests, deadline | one per step of `Run` and `Shutdown`, of the server goroutines, and of requests |
| `CacheEntries` | memory.go, redis.go | none: operators on one entry | |
| `MultiLevelCache` | multi.go | one entry for each level, each client's call | `BeginWrite`, `WriteStep`, `SetNXRefused`, `SetNXWon`, `SetNXCopy`, `Incr`, `BeginGet`, `GetLookup`, `GetTTL`, `GetFill`, `Cleanup`, `Tick` |
| `CachePromise` | cache.go, the interface | a map with expiry, a read under way | one per operation, `Begin` and `End` of a read |
| `MemoryCache` | memory.go | map of addresses, items, the read under way | `Set`, `SetNX`, `Incr`, `Delete`, `Expire`, `ExpireTorn`, `Cleanup`, `Tick`, `Lookup`, `Test`, `MGet` |
| `ConfigCenter` | config/consul.go | the key, both copies, the index, watchers, loaders | `Put`, `Save`, `Delete`, `LoadGet`, `LoadStep`, `Watch`, `WatchAgain`, `WatchReply`, `WatchStep`, `OnChange`, `Stop`, `RefreshEnd` |
| `ConfigFile` | config.go, validator.go | a file, a value | `Write` a setting, `Ask` about a value; `setDefaults`, `Load` and the rules are operators |
| `HealthManager` | health.go | registered checkers, caches, each probe's check | `Register`, `Hit`, `Miss`, `List`, `CheckUp`, `CheckDown`, `CacheResponse`, `Answered`, `ClearCache` |
| `ServiceWatch` | discovery/consul.go | the entry of `watchers`, contexts, each goroutine | `Watch`, `Cancel`, `Close`, `End`, `Query`, `Again`, `Reply`, `Callback`, and Consul's `Change` and `Restore` |
| `NatsClient` | mq/nats.go | the map, live subscriptions, each caller's operation | `Subscribe`, `QueueSubscribe`, `Store`, `Unsubscribe`, `UnsubscribeCall`, `CloseMap`, `CloseConn` |
| `JwtAuthenticator` | auth/jwt/jwt.go | tokens left, the blacklist, each caller | `GenerateToken`, `RefreshToken`, `Authenticate`, `Exists`, `ExistsFails`, `Accepted`, `RevokeToken`, `RevokeSet`, `RevokeFails`, `RevokeNothing` |
| `HttpChain` | auth.go, compress.go, cors.go, logger.go, metrics.go, recovery.go, security.go, RateLimitWithConfig | each request's place and response, metrics, gzip writers | one per middleware on the way in, and one for what it does on the way out |
| `GrpcChain` | interceptor.go | one call | one per interceptor, unary and stream |
| `LogPipeline` | log: masker, hook, sampler, named, zap, logger | wrappers, preset fields, level, hooks, sensitive keys | `With`, `WithContext`, `Named`, `SetLevel`, `AddHook`, `AddSensitiveKey`, `Log` |
| `AsyncHook` | log/hook.go | the channel, the hook's goroutine, goroutines that log | `Call`, `Fire`, `Write`, `Take`, `Stop`, `Returns`, `Close` |

An action is as large as the code holds a lock (or makes one call on another
component). `MC*` modules add symmetry sets, or put parts together that share
nothing: in `MCParts`, `MCBackground` and `MCRequests` a behaviour takes the
steps of one part. Operators marked "(Faulty variant of ...)" are slips the code
could have made (a dropped guard, a lost reset); each property of a passing run
fails once its variant stands in for the original, so no property holds
vacuously. Variables marked "(history)" only record.

Abstractions to know of:

* Token buckets count whole tokens, and the clock ticks in whole units; refill is
  exact where the code rounds floats.
* Names and payloads are model values. A handler's output is one item per write.
* In `TimeoutMiddleware` the timeout handler is `writeJSONResponse` or the user's
  (`TimeoutWithCustomResponse`): it sends a status and a page, one of them or
  nothing, and it may panic.
* In `AppLifecycle` the data race on `HTTPServer.server` is an interleaving: the
  reader sees nil or the server. A panic of `Run` is an end of its own. A
  signal before `signal.Notify` ends the process and is not a behaviour.
* In `MultiLevelCache` one key is followed, MSet and MDelete being Set and
  Delete at it. A tick is half a second, as Redis answers TTL in whole seconds
  and rounds. A lookup on one level is one step; `memoryCache.Get` tests the expiry
  just after it dropped its lock, which can only add a miss. Get treats every
  error as a miss, as the code does. Overlapping writers are allowed, and
  `WritesStick` then promises nothing until the next write.
* In `MemoryCache` values are numbers and time is the ticks an item has left. The
  race of `Expire` with a read's test is `ExpireTorn`: half of the new time can
  be seen, which reads as expired. A term that is not positive is over at once
  (`Lapse` of the promise). `MGet` asks each key's expiry at a moment of its own, so
  a key about to lapse may be missed. Addresses without a pointer are used again.
* In `ConfigCenter` nobody else writes the global configuration: no `config.Load` of
  a file and no other center while this one runs (`config.go:253-255`).
* In `HealthManager` checkers heed their context; health.go does not make them.
* `ConfigFile` knows values by the classes its rules tell apart (which formats
  a string has, empty or not, below or above a bound). The rules are translated
  one by one; what a URL is, is not.
* In `HttpChain` and `GrpcChain` what one layer alone reads of a request is chosen
  when it asks, so a chain covers every method, address, token and encoding.
  The panics are those of handlers: the few a middleware itself could raise (a
  validator of BearerAuth that returns neither an AuthInfo nor an error) are not.
* A Recovery without a logger leaves no line: such chains are in `Quiet`. The loggers
  of the gRPC interceptors are there, as without one the interceptor itself panics.
* In `GrpcChain` an error is a status, the end of a context, or another. The log
  says `status.Code` of it (`CodeOf`), and grpc tells the client its own code
  (`ClientCodes`, action `Reply`), which differs for the errors of a context. A
  `RecoveryFunc` may return any error, or none: then there is neither error nor
  response, which grpc sends as an empty message or cannot encode.
* In `LogPipeline` a field is a key with a value that is no string, or a string of
  a length and with a first "@" somewhere; a masked one has a number of bytes in the
  clear (`Kept`), by the type of its key.

## 4. Runs

| Run | Instance | Shows |
|---|---|---|
| `IPRateLimiter` | 2 callers, 2 keys, 2 buckets, 2 ticks, under fairness | `RateBound`: all a key is granted stays within burst, refill and what the requests that held its bucket when cleanup dropped it ask for, although buckets are dropped and remade. `HeldIsRegisteredOrForgotten`: concurrent misses end with one bucket. `KeysIsolated`. `Answered`: every request is answered while cleanup repeats |
| `TimeoutMiddleware` | 2 handlers, any timeout handler, under fairness | `AllOrNothing`, `TimeoutStatusStands`, `BufferSealed`, and `NeitherWaits`: the decision comes by the deadline, and a worker that panicked ends |
| `TimeoutOneResponse` | same | violated: the middleware does not abort the original context, so gin runs the handlers again behind the response |
| `AppLifecycle` | 2 callers of Run, 1 of Shutdown, 1 request for each server, under fairness | `OneShutdownPerRun`, `DeregisteredBeforeClosed`, `StoresOutliveRequests`, and `ShutdownEnds` although requests hang |
| `MultiLevelCache` | memory over a failing Redis, 2 writers, 1 reader, 3 writes, 5 ticks | `WritesStick`: a reported, unoverlapped write is on the last level, and what an upper level shows otherwise expires. `LeaseBound`: backfilling invents no lifetime |
| `MultiLevelDelete` | no failures, 1 writer, 1 reader | violated: a backfill in flight puts a deleted key back |
| `ConfigCenter` | 2 watchers, 1 loader or refresh loop, 1 callback, index up to 3, under fairness | `CopiesAgree` and `NoStepBack` but where updates overlapped, `CallbacksInOrder`, `OneLateNotification` after Stop, `CatchesUp` with the key |
| `Parts` | see below | `LiveIsReachable`, `AnswersAreFresh`, `RulesAgree`, `RevokedIsRefused`, `MaskedBelow` |
| `Background` | see below, under fairness | `OneWatcher`, `ShowsLatest`, `KeepsPromise` (the refinement), `LogCallsReturn` |
| `Requests` | see below | `TwiceTheLimit`, `CleanupInvisible`, `MetricsAddUp`, `LinesTellTheAnswer`, `ClientReadsAnswer` |
| `PanicIsAnswered` | as `Requests` | violated: with Gzip inside Recovery the error page of a panic stays in a closed writer |
| `RequestIDStands` | as `Parts` | violated: trace id and request id are kept under equal keys of the context |

`Parts`: two users of a NATS client with two topics of which one is the key of
the other's queue, and three subscriptions, so that a key is subscribed,
overwritten and ended; two probes over two checkers with a cache of two ticks, so
that a check can outlive another's answer; every file of up to two settings, as no
rule relates more fields; two callers and two tokens, so that one revokes while
the other asks; a logger under three orders of wrappers, with a sampling rate of
two, two hooks, one preset field, and strings at and beside the lengths the masking
rules tell apart.

`Background`: two calls of Watch (one replaces the other) and an index up to 4,
which can be restored once; a memory cache with two keys and three items, so that
an old and a new item of a key and one of the other exist together; two
goroutines that log over a channel of two.

`Requests`: a window limiter with 5 ticks and windows of 2, with sizes below,
at and above the limit; two requests in four chains, one of which has a Recovery
without a logger (two requests are needed for a writer that changes hands), answers up to three pieces with a least length of
two; a call in three chains of interceptors.

The `MC` instances have two of whatever competes. Two callers are enough to miss
a key together, two keys to confuse buckets, and two buckets to drop one and
create another while the first is held. In the lifecycle, two Runs are needed for
a second admission; the Shutdown of a signal and the one from outside are the two
that race. In the cache, three writes make set, delete, set possible around one
Get, two writers overlap, and ticks 1 to 5 let both ttls (2 and 4) pass in part or
whole. Clock, write and request bounds are guards named `Max...`; they end the
exploration and are not in the code. Deadlock checking is off where the system
stops for good (requests used up, application stopped).

What the counterexamples do not say: each is one schedule the code permits. The
reports quote the line of the repository that promises otherwise. Seen on the way
and left without a run of their own:

* a caller that holds a token bucket over a cleanup is served from it although its
  key has a new one; `RateBound` counts what such callers ask for. Cleanup compares
  stored tokens, so it keeps every used bucket;
* `HTTPServer.Stop` that finds `s.server` nil does nothing, and the server then
  starts; a Shutdown that overtakes Run leaves the service registered; a failing
  start hook leaves `running` set;
* after a timeout the second run of the handlers has no deadline, and if the
  user's timeout handler wrote no body, it sets the status and writes the answer;
* overlapped updates can leave the center's configuration and the global one
  different until the next update that runs alone;
* a second subscription of a key hides the first from Unsubscribe and Close;
* a probe whose client has gone caches "down" for the others;
* a failed lookup in the blacklist accepts a revoked token;
* a configuration file with idle connections above the default of open ones is
  refused, though it sets only one of them;
* an id or card number of ten bytes, and the e-mail of a one-letter name, pass the
  masker whole: there is nothing between the parts it keeps;
* a gRPC call that ends with its context's error is logged as Unknown, and its client
  hears DeadlineExceeded or Canceled;
* `Expire` on memory revives an expired item, and TTL may answer for a newer value
  than the one Get read, which is why `LeaseBound` speaks of the key;
* `Save` of the configuration center writes Go field names, of which `Load` finds
  only some again;
* a Consul restored to a lower index is not heard by a watcher until it passes
  its old one;
* an empty answer whose type is to be compressed gets a gzip trailer without
  `Content-Encoding`;
* an authenticator made by the plugin has no blacklist.

## 5. Refinement

`MemoryCache` implements `CachePromise` (property `KeepsPromise`, an INSTANCE with
`content` mapped to what a `Get` alone would answer, and `lapsed` to the value of an
item that has expired and still is in the map). The promise: every change is one
step, also expiry; a read takes time and answers what the key held at some moment
of it, or not found; MGet is one step and so never sees half of an MSet, though it
may miss what lapses with the next tick. The
mapping shows the two places where the code is looser than a plain map: a read
that tests its item after it let go of the lock, and `Expire` on an item that has
lapsed.

## 6. Fairness

Only the liveness properties need it.

* `IPRateLimiter`: strong fairness of taking the lock, since Go's RWMutex lets no
  waiter starve, and weak fairness of the steps inside and of cleanup's sweep,
  which has no blocking call. Callers need not arrive.
* `TimeoutMiddleware`: weak fairness of the runtime's steps (timer, select, the
  deferred functions). Handlers have none: they may hang.
* `AppLifecycle`: weak fairness of the steps of Shutdown and its deadline, which
  the runtime's timer ends. Requests have none.
* `ConfigCenter` and `ServiceWatch`: weak fairness of the goroutines and the
  ticker; strong fairness of a reply to a query, as Consul may fail now and then
  but not for ever. The key and the service need not change.
* `AsyncHook`: weak fairness of the goroutines that log and of the hook's
  select. The wrapped hook has none: it may hang.
* The other modules state safety only; their goroutines run at any speed.

## 7. Theorems

`IPRateLimiter_proofs` (for all sets of keys, callers and buckets, all
capacities and rates, with no bound on time but the named clock bound):
`TypeCorrect`, `RateIsBounded`, `HeldBucketIsKnown`, `KeysAreIsolated`.
The invariant `IInv` consists of `TypeOK`, `ClockOK` (no bucket was updated in the
future), `PointersOK` (a registered or held bucket is an allocated one), `SweepOK`
(the map does not change while cleanup ranges over it), `AccountOK` (see below),
and the two checked invariants `HeldIsRegisteredOrForgotten` and
`KeysIsolated`. The account of a key: what it was granted, plus what its callers
with a dropped bucket still may charge (`Owed`), plus the tokens of its registered
bucket, is at most the capacity, the refill up to the bucket's last update and what
overtaken requests asked for; without a bucket, the refill up to now and what they
asked for. `RateBound` alone is not inductive: a charge needs the account, and the
account needs to know that cleanup drops only a full bucket, and that a dropped one
is never registered again (`ForgottenOK`), so that every grant is either from the
registered bucket or owed to a request that was counted when its bucket was dropped.

`AppLifecycle_proofs` (any number of callers): `TypeCorrect`,
`ShutdownIsExclusive`, `DeregistersFirst`, `StoresClosedLast`. `IInv` is
`TypeInv` (types, and the balance: Runs admitted are the Shutdowns begun plus one
if the application is running), `OneStopping`, `Departing`, `ListenerClosed` and
`Drained`, which tie a caller's place in Run or Shutdown to what it has already
done (deregistered, closed the listener, drained or run out of time). Without the
balance two callers could be inside Shutdown at once.

`TimeoutMiddleware_proofs` (any number of handlers and writes): `TypeCorrect`,
`OutputIsAllOrNothing`, `TimeoutResponseStands`, and `BufferIsSealed` for the action
property. `IInv` is `Shape` (types, and the lengths of what was written),
`SelectOnce` (the decision and the place of the server's goroutine agree, and
nothing reached the client before), `PanicReported` (a panic is in the channel
before `done` is closed, so a commit follows no panic), `TimeoutAnswered` and
`CommittedWhole`. `AllOrNothing` is not inductive: without `PanicReported` a closed
`done` could hide a panic, and without `SelectOnce` two decisions could mix.
`TimeoutAnswered` says of a timeout page that was written that it leads the response
with its status; where the timeout handler wrote no body it says nothing, as there
the second run of the handlers answers.

`MultiLevelCache_proofs` (any number of levels, faulty or not, of clients, values
and ttls): `TypeCorrect`, `WritesAreNotUndone`, `BackfillsEnd`. `IInv` is `TypeInv`,
`Sticks` and `Leased`. `Sticks` follows the levels a write has passed (`Progress`:
each of them shows its value or something that expires, unless the write was
marked), what the last finished write left while nobody replaces contents
(`Settled`), and that two writes under way are both marked (`OverlapMarked`).
`Leased` refines the bound of `LeaseBound` by level: an entry copied up from
level m to level l is allowed one more delay and one more rounding for each level
between them, and a backfill under way carries the bound of the level it read.
Only with that slack for each level does a step up keep the bound.

`ConfigCenter_proofs` (any number of watchers, loaders, callbacks and writes):
`TypeCorrect`, `TheCopiesAgree`, `OneComesLate`, and `CopiesGoForward` and
`CallbacksGoForward` for the action properties. `Inv` adds `Order` (no copy and no
reply in anyone's hands is newer than the key), `Copies` (who updates alone holds a
reply at least as new as both copies; past the first copy, the center's copy is
that reply), `OneActive` (of all watch goroutines ever started one is active: the
others have ended, or will at the next look at the stop channel) and `Fresh` (a
goroutine about to notify has news no callback saw). The proof does not go through
the actions one by one: each is shown to be of one of four kinds, `Quiet` (no reply
is taken or put anywhere), `Takes`, `SetsCenter` and `SetsGlobal`, and the
invariant is proved for the kinds. `Alone(t)` says that nobody else updates and
nobody has begun since t did; that is what the exception for overlaps in the two
properties amounts to, and neither is inductive without it.

`Parts_proofs` (any users, topics, subscriptions, checkers, probes, tokens,
callers, stacks of wrappers, hooks and keys): `TypeCorrect`,
`SubscriptionsCanBeEnded`, `HealthAnswersAreFresh`, `ConfigurationRulesAgree`,
`RevokedTokensAreRefused`, `SensitiveIsMasked`. Each part has an invariant, and a
step of the composition is a step of one part. `NatsInv` says what an operation
has in its hands between the map and the connection. `HealthInv` adds age and
remaining time of a cached answer, and says that a check that may still answer up
has every checker it did not see up among those that are down or left to ask.
`JwtInv` says that the entry of a revoked token outlasts it, and a caller about to
write one holds at least the time the token has left, since tokens and entries end
by themselves. `LogInv` says that the fields `With` left at the bottom were masked
when a masking wrapper was above, by the type their key had then. For `RulesAgree` TLC tries files of up to two
settings; the proof covers files with any of them.

`Requests_proofs` (any keys, sizes, limit and window length; any requests, writers
and chains): `TypeCorrect`, `WindowsGiveTwiceTheLimit`, `TheMetricsAddUp`,
`AnswersAreLogged`, `ClientsReadTheirAnswer`, and `CleanupIsInvisible` for the action
property. For the
windows, `KeyOK` relates the count of a window to what its key was granted: what
was granted since it opened is its count, nothing came after its end, at most the
limit in the window length before it opened. `TwiceTheLimit` alone is not
inductive, since a new window must know of the one before. `granted` is cumulative,
so that no sum over an interval occurs. For cleanup the argument is one lemma: a
window twice its length old has expired, as has a missing one, and AllowN opens a
new one in either case. For the HTTP chain, `ReqOK` says what each place in the
chain knows of a request: inside Logger it has no line, outside it one, unless it
was skipped; in the gauge are the requests inside the metrics middleware. That a
gzip writer is left for every request (`WriterIsLeft`) is a pigeonhole argument over
the writers in use.

`ClientReadsAnswer` speaks of a response that is done; `AnswerInv` says what leads
there while no handler has panicked. On its way to the handler a request has written
nothing (`Untouched`). From then on it is `Good`: without a gzip writer its body is
what was given, as it is; with one, all of it is in the buffer and nothing was sent
(`Held`), or all of it is in the body and compressed, and the header said so before
anything was sent (`Zipped`). Past Close, or at the end, it is `Readable`: plain, or
compressed with the end of the stream behind it. `Fits` is the part about several
requests: up to Close (`Opened`) a writer is out of the pool and writes to the request
that has it, so that nobody writes into the response of another. After a panic this
is false, since Recovery writes through a writer that was given back; the run
`PanicIsAnswered` shows what comes of it. `WritesSound` is the lemma about
`gzipWriter.Write`, one for each of its four ways.

For the gRPC chain, `RecoveryOutside` and `LoggingOutside` follow a call through the
two orders of Recovery and Logging up to `Reply`: the code of a line and the code of
the client are both made from the error the chain returns, by different functions.

`Background_proofs` (any number of calls of Watch; any keys, values, terms and
addresses): `OneWatcherAlways`, `TypeCorrect`, and `MemoryKeepsItsPromise`, the
refinement of `CachePromise`. `WatchInv` adds to `OneWatcher` that a goroutine has
counted no list before it was cancelled (`after[c] = 0`), nor while it still owes
one from the query it was waiting for (`Owes`); without the second part nothing
would keep a cancelled goroutine from a second answered query. For the refinement,
`MemoryInv` says that keys share no item (`MapOK`), and what a read under way may
answer (`ReaderOK`): the value of the item it took the pointer of is among those
its key had since, unless the item has expired, and only the key that was read can
bring that item back. Each action is then a step of the promise: `Cleanup` is
`Forget`, since it takes away only what no caller could see; `ExpireTorn` is
`Expire`; an `Expire` whose term is not positive is `Lapse`; `Lookup` and `Test` are `Begin` and `End`; the rest keep their names.
`BecomesMaps` and `BecomesKeeps` carry what all writes have in common.

The assumptions are those the modules name, and TLC evaluates each of them:
positive or natural parameters (the cache time of the health manager, the window
length, terms given to the memory cache but for those over at once), finitely many
callers of the limiter, whose requests are summed, distinguished values that are not
ordinary ones, chains with each middleware once, and a gzip writer for each
request, as `sync.Pool` makes a new one when it has none.

Only model-checked: every liveness property (`Answered`, `NeitherWaits`,
`ShutdownEnds`, `CatchesUp`, `ShowsLatest`, `LogCallsReturn`), which is out of reach
of the prover together with ENABLED. The runs that expect a violation say what does
not hold and have no theorem.

## 8. Not modelled

* Out of a model's reach or without state: TLS, profiling, options, database
  calls, error codes and response formats, the code generator, the examples, the
  adapters to other loggers, encoders and output files.
* Left out of modelled files: environment variables and getters of the
  configuration; a second `Stop` of the center, which panics; publishing and
  requests of the NATS client, the load balancer of discovery and its reads, which
  change nothing that is kept; signatures and the registry of plugins of the
  authenticator; a token refreshed from a revoked one, which is a new token; the
  page that prints the metrics; latencies; header texts (CORS writes its Max-Age
  as a rune); the reading of request bodies by `LoggerWithConfig`; `ContextTimeout`.
* State not followed: the request body, the values behind `Keys` and the reuse of
  gin's context after a timeout, which the worker may still hold
  (`timeout.go:295`); the registry of named loggers; the replacement of the
  default logger by Init while others read it (`zap.go:211-232`); `WindowSampler`,
  whose property is a count in a window as in the window limiter. A signal
  before `signal.Notify` ends the process without a deregistration.
