# A TLA+ model of the NeoAxios starter kit

The starter kit is a set of Python packages for web services. Most of its code is mapping,
validation and formatting. What is hard to get right in it is a small number of components that
keep shared state, in Redis, in a cache or in a process, and update it from many coroutines at
once across awaits that may fail. This project models those components, checks the models with
TLC and proves the most important results about them with TLAPS.

Paths below are relative to `src/neo-packages/`.

## 1. Inventory

### Components with state worth modelling

| component | code | state | operations | module |
|---|---|---|---|---|
| circuit breaker | `foundation/resilience-kit/.../circuit_breaker/async_redis_backend.py` | four Redis keys with a time to live (state, failure count, last failure, half-open lock); a local copy in each process | `execute`, `allow_request`, `record_success`, `record_failure`, `reset`, `get_metrics` | `CircuitBreaker` |
| rate limiters in Redis | `.../ratelimit/enforcer.py`, `.../ratelimit/backends/redis.py`, `.../ratelimit/algorithms/` | a counter, a sorted set, or a hash of tokens and a timestamp, with a time to live | `check` of the three algorithms, `scoped_cleanup` | `FixedWindow`, `SlidingWindow`, `TokenBucket`, `RateLimitEnforcer` |
| secret store | `foundation/secret_store/.../core.py` | cache of secrets, login flag, two asyncio locks; Vault | `get_secret`, `rotate_secret`, `clear_cache` | `SecretStore` |
| idempotency middleware | `foundation/fastapi_kit/.../middleware.py` | cached responses, shared by processes; the buffered request and streamed response of each request | one request | `Idempotency` |
| role and permission cache | `foundation/fastapi_kit/.../auth/authz/dependencies.py`, `.../authz/cache.py`, `.../authn/decoders/providers/azure.py`; `foundation/secure_cache/.../security/signing.py` | entries with a time to live, the prefix index that finds them | lookup and fill, invalidation by prefix and by key | `RoleCache` |
| Azure Graph clients | `.../authn/decoders/providers/azure.py`, `azure_graph.py` | a bounded table of clients, a lock; the access tokens of the tenants | role lookup with its attempts, eviction, close | `GraphClient` |
| flight recorder | `logging/neoaxios_logging/flight_recorder/flight_recorder.py` | a buffer, its lock, a chain of timer threads | emit, flush, switching of buffering, exit, fork | `FlightRecorder` |
| build coordinator and cache | `neoaxios-build/.../build/coordinator.py`, `dependency.py`, `cache.py` | levels of packages, a pool of workers, cache entries by key, `dist/` directories | order, build, restore, publish, save | `BuildCoordinator` |
| graceful shutdown | `foundation/fastapi_kit/.../shutdown.py` | registry of shutdown events, its lock, the process's signal handler | registration, signals, clean-up | `Shutdown` |
| rate limiters in memory | `.../ratelimit/backends/memory.py` | dictionaries under an asyncio lock | the same as in Redis | not modelled |
| replay, tampering, canary | `foundation/secure_cache/.../security/` | sequence numbers in Redis and locally, a canary entry, a recovery counter | next, verify, check, recover | not modelled |
| OIDC keys | `foundation/fastapi_kit/.../authn/decoders/oidc_cache.py` | cached key sets | get, fetch, cache, invalidate | not modelled |

The other parts are in section 7 and, one by one, in `PROJECT.json`.

### How they interact

The HTTP rate limiter of the FastAPI kit calls the algorithms of the resilience kit and answers
503 when their backend raises. The circuit breaker is called by services around any function;
its defaults come from the secure cache. The idempotency middleware and the role cache use a
cache backend that the application connects while it starts, and the middleware takes the tenant
from the identity that authentication left in the request. A decoder that misses the role cache
asks `GraphClient` for the roles and puts what it got, or the nothing that a failed lookup gave,
into the cache. `Shutdown` runs the clean-up callbacks of an application, among them the closing
of clients and stores. The components do not call each other beyond that: what they share is
Redis. Everything that uses Redis meets the same environment: single commands, scripts and
transactions are atomic, pipelines are not; keys expire by the server's clock, while timestamps
are the client's; a round trip that fails may have been applied.

### What is hard

* **Check, then act across awaits.** The breaker decides on a state it read two round trips
  earlier, the secret store fills a cache with what it read before an await, the idempotency
  middleware writes under a key that it looked up before the application ran, the role cache
  stores what was fetched before an invalidation, a build stores under a key computed before it.
* **Several writes for one decision.** Counting a failure and opening the circuit; creating a
  window and charging it; a cache entry and its index.
* **Half-failures.** A command that is applied and whose answer is lost; a task that is
  cancelled between two steps; a response that is cut between two chunks; a worker that dies
  while it copies a file.
* **Expiry racing with use.** Every key has a time to live, and it ends between any two
  commands.
* **Two clocks.** Redis orders the scripts, the clients make the timestamps.
* **Asynchronous entry.** A signal, a timer's thread or a fork comes between any two steps of
  what runs.

### What makes each component correct

* Circuit breaker: an opening is not lost, a half-open circuit has somebody who ends it, and no
  failure makes the circuit reject for ever.
* Rate limiters: what is granted stays in the budget, in any window and over any window
  boundary, but for what late timestamps and short lifetimes are known to lend; a wait that a
  denial was told suffices.
* Secret store: no fill undoes a rotation, staleness is bounded, every call ends.
* Idempotency: what was answered and stored is not run again; a replay answers the request that
  gets it, and is whole; every request ends.
* Role cache: an invalidation finds every entry it covers; what it cannot find does not live for
  ever.
* Graph clients: nobody is given a closed client, none is forgotten while open, a token that was
  refused is not sent again, every lookup ends.
* Flight recorder: no event is lost or written twice, errors are written before `emit` returns,
  the others in time.
* Build: what is reported as built is of the sources of its time, what is restored has the key
  that was asked for, dependencies come first.
* Shutdown: no signal is swallowed, none wedges the process once a lifespan is up, every
  clean-up ends.

## 2. Plan

Done:

1. `CircuitBreaker` and its proofs.
2. `WindowBudget` (abstract) and `FixedWindow`, shown to implement it, with proofs.
3. `SlidingWindow` and `TokenBucket`, and their proofs; `RateLimitEnforcer` composes the three.
4. `SecretStore` and its proofs.
5. `Idempotency` and its proofs.
6. `RoleCache` and its proofs, in place of the planned cache of OIDC keys, which no decoder
   calls.
7. `GraphClient` and its proofs.
8. `FlightRecorder` and its proofs.
9. `BuildCoordinator` and its proofs.
10. `Shutdown` and its proofs.

Every safety invariant and action property that a run checks is stated by a theorem. What is
worth proving next is a bound on what late timestamps lend a token bucket per window:
`ConstantRate` counts the scripts that moved the clock of the bucket back, and nothing in the
code bounds their number.

Modules worth writing next: the memory backend as a second implementation of `WindowBudget`; the
canary monitor and the sequence numbers of `secure_cache/security`, once some code of the kit
composes them.

## 3. Modules

| module | models | about |
|---|---|---|
| `CircuitBreaker` | circuit breaker | one action per await of `execute`, per recording call, for reset, metrics and time |
| `CircuitBreakerProofs` | | type correctness and the two safety invariants |
| `RateLimit`, `LimitScript` | | what the limiters share: clients, limit, window and costs; a key with a lifetime and requests that reach a script late |
| `WindowBudget` | | what a fixed-window limiter promises: open a window, grant within it |
| `FixedWindow` | `atomic_fixed_window_check`, `scoped_cleanup` | the pipeline, command by command |
| `SlidingWindow` | `atomic_check_and_add` and its script | one action per script, late timestamps |
| `TokenBucket` | `atomic_token_bucket_check` and its script | exact fractions of tokens, late timestamps |
| `RateLimitEnforcer` | `RateLimitEnforcer` | one of the three algorithms, for good |
| `RateLimitProofs` | | type correctness of the three limiters; the fixed window implements `WindowBudget` and grants at most two windows' worth; the sliding window's rolling bound; both waits; the bucket's rate and when its key lives long enough |
| `SecretStore` | `VaultSecretStore` | the lock as a queue, one action per await |
| `SecretStoreProofs` | | type correctness, no stale fill, bounded staleness |
| `Idempotency` | `IdempotencyMiddleware`, over a cache that raises or the kit's signing cache | one action per await of a request |
| `IdempotencyProofs` | | type correctness, no re-execution, own and whole replays |
| `RoleCache` | `RoleEnrichmentStore`, `_resolve_and_cache_permissions`, `AuthCacheHelper`, `SigningCacheWrapper` | one action per key that is read, written or deleted |
| `GraphClient` | `AzureADDecoder`'s table, `GraphAPIClient` | one action per await of a lookup, of an eviction and of close |
| `FlightRecorder` | `FlightRecorder` | under the buffer's lock one action per append, per writing and per clearing; the reset after a fork in four steps under no lock; one action per step of a timer's thread |
| `BuildCoordinator` | `BuildCoordinator`, `BuildCache`, the dependency graph | one action per step of `execute_build`, the levels, edits, deaths |
| `Shutdown` | `shutdown.py` | one action per step of a registration, of the global handler and of a clean-up; signals between any two |
| `RoleLookupProofs` | | of `RoleCache`: type correctness, the index outlives its entries, an invalidation succeeds; of `GraphClient`: type correctness, the table, the open clients, the refused tokens |
| `FlightRecorderProofs` | | type correctness, events are accounted for, errors are written |
| `BuildCoordinatorProofs` | | type correctness, the order of the levels, a success publishes what it says |
| `ShutdownProofs` | | type correctness, no signal is swallowed, until when the process may be wedged |
| `MC...` | | the instance of each module for TLC |

Operators whose comment starts with `Bug:` are not part of a specification. Each one is a change
of the operator after it that a mistake in the code would make, kept so that every property is
known to fail for some such mistake (`mutants` in `PROJECT.json`).

### CircuitBreaker

`circuit`, `failures`, `lastAge` are the values of three keys, and `ttl` gives the time each of
the four keys has left; an absent key has the value its reader takes it for. `pc` is the await a
worker is at inside `execute`; a worker holds nothing else across awaits but the timestamp in
`stamp`. Timestamps are ages, saturated at the recovery timeout, the only value they are
compared with. `record_success`, `record_failure`, `_transition_to_open` and `reset` are
MULTI/EXEC transactions, therefore single steps; opening is a second transaction after counting.
`AllowRequestError` and `RecordError` are a round trip that fails, applied or not: the first
rejects (or runs, with `fail_open`) and the second is swallowed. `Cancel` ends a worker at any
await, and records nothing. `disturbed` is a history variable: some round trip failed or
somebody was cancelled. `local` is the copy `get_metrics` may show, and decides nothing.

### WindowBudget and FixedWindow

`FixedWindow` splits a check into `SetIfAbsent` and `DecrBy`, since the pipeline is not a
transaction: other clients, the expiry of the key and `Cleanup` come in between. `value` and
`ttl` are the counter and its lifetime in the numbers of Redis (-2 no key, -1 no expiry). A
denied request has decremented too. `Fail` loses the second half of a check. The TTL command
that ends the pipeline only computes a reply and is left out. The refinement mapping to
`WindowBudget` takes the cost granted since the key was created for `used`, and the key's
lifetime for `left`.

### SlidingWindow and TokenBucket

The scripts are atomic, but work with a time the client took before it sent them
(`token_bucket.py:217`, before the await). `Delay` is how late a script may run, in any order;
`LimitScript` has the requests of both (`Sent`, `Over`, `Late`) and the lifetime of their key
(`life`). Definitions of the same kind have the limiter's name in front (`SlidingInit`,
`BucketInit`), since one module composes the three. `SlidingWindow` counts the members of the
sorted set by the true age of their scores. `TokenBucket` counts in units of 1/Window token, so
that a tick refills exactly `Capacity` units and no division is rounded. Three histories say
what it may grant too much: `ideal` is a bucket refilled by true time, `late` counts the scripts
that moved `last_refill` back (`redis.py:93`, `:108`), and `early` the keys that ended before
their bucket was surely full.

### RateLimitEnforcer

An enforcer is given an algorithm when it is made, and what that raises is raised again. The
clients of a key are those of one configuration, so that `algorithm` never changes; the other
two limiters then stand still.

### SecretStore

The tasks at `_lock` are a queue whose head holds the lock. `phase` is where the holder is:
before the cache, before a login, before a read, or with an answer of Vault on its way back.
`Fill` inserts at the time the answer arrives. `Write` and `TokenExpires` are Vault's side.
`old` counts for how long a value has been superseded in Vault, `floor` is the version at the
last eviction; both are histories.

### Idempotency

A request is in one of seven phases. `Arrive` is everything up to the lookup: passing through
(another method, no key, no identity), the refusal without a cache, and the buffering of the
body, which a disconnect cuts and which is then used as it is. `Hit` replays, or refuses a value
it cannot read. `GetFails` retries once and then refuses. `Miss` is a `get` that answers None:
because there is nothing, or because the signing cache has swallowed an error
(`signing.py:315-317`); the history `blind` names the requests it happened to. `Send` forwards a
chunk, and leads to `Store` after the last one of a 2xx response: the client has its answer
first. `StoreFails` is swallowed, the write applied or not. `Abort` ends a request at any await.
`Lose` and `Tick` are the cache's eviction and expiry. `settled` and `guarded` are histories:
the key has a response that was stored by a request which is over, and the request came in while
that was so.

`CacheKey` is the text that the code joins: tenant, colon, key, and a hash of the target, query
and body that are joined in the same way (`Text`), an empty query and an oversized body left
out. Tenants, keys, targets and queries are sequences of characters, in which only `Colon`
matters. The two hashes are constants, any functions at all: collisions are not excluded, and
the properties say what they need of a hash.

### RoleCache

An entry of a user is a version of the roles and the ticks it has left; `index` has the lifetime
of the index key of each prefix and user. `SigningCacheWrapper.set` is `Store` and then one
`Index` per prefix, from the shortest to the longest; an index key that cannot be written is
only logged (`IndexFails`), a value that cannot be written ends the set (`StoreFails`, written
or not), and a task may be cancelled at any of these awaits (`Quit`). `BeginPrefix`, `Scan`,
`Delete` and `Unindex` are `invalidate_by_prefix`: it reads the index, deletes the values, then
the index keys. `BeginKey` is `delete`, whose index deletions are best effort. One invalidation
runs at a time. `loose` is a history: the users one of whose sets did not write everything or
met an invalidation, until their entry is gone; `since` is the version an invalidation began
with. What the entries hold beside a version, their signatures and the batch operations, which
no caller uses, are left out.

### GraphClient

`table` is the `OrderedDict` of clients, the least recently used first. `_graph_clients_lock` is
`lock`, and it is kept while an evicted client is closed (`Evict`, then `Closed` or
`CloseFails`). A request is up to `MaxRetries + 1` attempts: `Attempt` takes the client's token
lock, `Get` reads the store, `Login` asks for a new token, `SetToken` stores it, and `Answer`,
`Retry` or `Refused` end the attempt; a refusal deletes the stored token once in a request
(`Refuse`, `Drop`). Clients are not reference counted: a task goes on with the client it was
given although it has been evicted, and then fails (`Fails`). `dropped` is a history, of the
clients whose closing failed or was cancelled. `CloseAll` is the decoder's `close`, which closes
the clients of the table one by one under the lock. `CancelClose` ends it while it awaits one of
them: the lock is released, and the clients it came to are closed, but still in the table. `cut`
is the history that names them.

### FlightRecorder

`emit` reads `_buffering_enabled` (`Emit`), then adds the event under the lock (`Add`) and
flushes if it must (`Added`), or writes it by itself (`Direct`). `FlushLocked` writes the events
one by one, and `Clear` empties the buffer after the last; a write that raises leaves the buffer
as it was, with a part of it written. Writes raise at any time (`MaxFailures`), or always for
the events in `Faulty`. `Ends` is what a call does when its flush is over. A timer is a thread:
it fires, flushes, reads without the lock whether buffering is on, and starts its successor, or
cannot, which ends the chain. `Cancel` of a timer has no effect once its thread runs.

`Fork` keeps the forking thread and neither timers nor events; the first calls in the child set
the recorder up again under no lock: each that finds the flag set (`Reset`) clears it
(`ClearFlag`), puts a new list in the place of the buffer (`SwapBuffer`) and a new lock in the
place of the lock (`SwapLock`). The locks are numbered, `lock` is the current one, and `ref` is
what each thread has read or holds: a thread may have any lock that was current since its call
began. What is read as the buffer is another list as soon as it is swapped. `emitted`, `shaken`,
`raised` and `broken` are histories: the events whose `emit` has returned, those added while a
reset was under way or beside a call with an older lock, whether a write has raised, and whether
a timer could not be started. Nested contexts, the table of active instances and the files are
left out.

### BuildCoordinator

A wheel is named by the sources it was built from, and `KeyOf` gives the cache key of each tree
of sources: any function, since the code's key leaves out files that the wheel depends on and,
by contents, comes back when an edit is taken back. `graph` is any graph: what
`build_dependency_graph` found. `NextLevels` is one iteration of `topological_sort`;
`StartLevel` gives a level to the pool when the one before has ended, however it ended.
`ComputeKey`, `RestoreFromCache`, `BuildWheel`, `SyncWheel`, `RunContracts` and `SaveToCache`
are `execute_build`, each with its failures, and `Torn` is what a copy that was cut leaves.
`Kill` is a worker that dies (the pool breaks, and the level has no more results), or the
command being interrupted. `Edit` changes sources at any time, to any others. Two histories:
`since` has the sources a package had from the computation of its key to the end of its build,
and `spoilt` the keys under which half a wheel was saved last, or one built while the sources
changed. The branch-wide cache of wheels changes no result, and the index of the cache is read
only by the statistics: both are left out.

### Shutdown

`Lock`, `Install`, `Append` are `register_app_shutdown`, `RegisterSignalHandlers` the handler
that each lifespan installs after it; the applications in `Alone` call the former and nothing
else, as the docstring at `shutdown.py:77-78` recommends. `Signal` runs the handler that is
installed: an application's own sets its event; the one for all asks for `_registry_lock`
(`waiting`: a signal may come inside the handler for the one before, so there may be several
calls), takes it (`HandlerLocks`), sets the events of the registry (`Notify`) and releases it
(`HandlerUnlocks`). `nested` says that a call began inside the one that holds the lock. Handlers
run in the main thread, so that no application there takes a step while one is under way
(`Runs`); an application in a thread of its own goes on, but cannot install handlers.
`Callback`, `Resume`, `Timeout` and `End` are the clean-up under `wait_for`. `Stop` is the
server's decision to end a lifespan. A signal that meets no handler of this file is left out.

## 4. Runs

| run | instance | shows |
|---|---|---|
| `breaker` | 3 workers, threshold 2, recovery 2, key lifetime 3; 922 036 states | an opening is not lost and a half-open circuit is attended, until a round trip fails; and, whatever fails, OPEN and HALF_OPEN end |
| `rate_limit` | 3 clients, limit 3, window 4, costs 1 and 2, scripts up to 1 tick late, bucket's lifetime 4; 128 412 states | the pipelines implement the abstract budget, at most twice the limit in any window's length; the rolling bound up to the delay; what a bucket lends; both waits suffice |
| `secret_store` | 2 tasks, 2 secrets, 2 versions, lifetime 2 | no stale fill, bounded staleness, every call ends |
| `idempotency` | 2 requests at a time; 5 operations, whose tenants, keys and paths have colons, with a small or an oversized body; 2 chunks | no re-execution, own and whole replays, every request ends |
| `role_cache` | 2 users, a tenant's and a user's prefix, 1 request, lifetime 2; about 730 000 states | the index outlives what it indexes, a successful invalidation has removed what is old, stale roles end |
| `graph_client` | 2 tasks, 2 tenants, room for 1 of 3 clients, 1 retry, 2 tokens; about 5.5 million states | the table is good whenever it is unlocked, no open client is forgotten, a refused token is not sent again |
| `graph_lookups_end` | the same with 1 token; 936 540 states | every lookup ends |
| `flight_recorder` | 2 threads, an error and 2 other events, a buffer of 2, 5 timers, 1 switch, forks, writes that succeed; about 8 million states | no event is lost or doubled, errors are written at once |
| `flight_recorder_time` | 2 threads, an event that always raises and one other, 1 more failing write, forks; about 306 000 states | the events are accounted for in spite of writes that raise, and written in time |
| `flight_recorder_switch` | 2 threads, 2 events, 1 switch, no failures | violation: an event is buffered after buffering was disabled |
| `build` | 2 packages, all 16 graphs, 3 trees of sources with 2 keys, 2 workers, 2 runs, trouble in one package at a time; about 9 million states | a success publishes what it says, edges come first |
| `shutdown` | 3 applications in the main thread, one of which only registers itself, 1 in another, 2 callbacks, 3 signals; about 536 000 states | no signal is swallowed, the main thread is wedged at most until a lifespan is up, every clean-up ends |

`SlidingWindow`, `TokenBucket`, `GraphClient`, `BuildCoordinator` and `Shutdown` state their
types (`SlidingTypeOK`, `BucketTypeOK`, `GraphTypeOK`, `TypeOK`) without a run that reports
them, and `TokenBucket` states `NoEarlyEnd` so; all are proved.

**Why the bounds are enough.** Each hazard needs two actors, or three: one that acts between two
steps of another, and one that is affected. With three workers and a threshold of two, the
breaker has a worker that is counting, one that is probing and one that arrives. A recovery
timeout of 2 and a lifetime of 3 let each key expire before and after each other key. The
breaker's workers share one breaker object: the local copies of others decide nothing.

Three clients are enough for two pipelines, or two late scripts, to be cut by a third. A window
of four ticks has a boundary with room on both sides. A bucket's lifetime of one window is
shorter than `NoEarlyEnd` asks for, so that keys do end early, and with a delay of one tick
scripts do run out of order: `MaxLate` and `MaxEarly` are how often.

Requests of `idempotency` reuse their slots, so that two slots give histories of any length; a
time to live of one tick lets an entry expire before or after any other step, and 2 chunks tell
a first from a last one. Tenant `a` with key `b:c` and tenant `a:b` with key `c` have one text;
a third tenant has the first one's key. In `role_cache` the second actor is the invalidation;
one user is under two prefixes and one under one of them, and a lifetime of 2 lets an index key
die a tick before its value if anything allows it.

In `graph_client` the table is full with one client, so that each task evicts what the other
uses; a third name is for the client that is still used and in no table, as many as
`GraphAssumption` asks for. A second token is what a retry is given after a refusal.
`LookupsEnd` has a run of its own with one token, so that it can be checked in time: what a
lookup waits for are locks and attempts, and a login that finds no token left ends like one that
fails.

Five timers are what `ConfigAssumption` asks for with one switch and two threads: one for each
thread that may set the recorder up in a child, one for each switch, the name `current` still
has, and one that is free. Writes do not raise in `flight_recorder`: a write that raises ends
the promise that nothing is written twice, and the run that has them, `flight_recorder_time`,
checks `Accounted` too. That run has no switches, after which `WrittenInTime` promises nothing,
and its constraint `StillInside` does not follow what happens after the context is left, for the
same reason.

Two packages give every shape of an edge: none, one, a cycle, a package behind a cycle, a
package that needs itself; the second run meets what the first left. Of the three trees of a
package two have one key, so that there are edits that the key shows, edits that it does not,
and edits that are taken back. The constraint `OneInTrouble` says that edits, failures and cuts
meet one of the packages only, whichever it is: packages share nothing but the pool and the
order of the levels. The proofs are without it.

An application in the main thread that is the first, one that replaces its handler, one that has
only registered itself and one that cannot install any handler are the cases of a registration;
three signals are one that is handled, one that comes inside the handler, and one more. `Floor`
(how far denied requests are counted below zero), `RecentCap` (how far a history is counted),
`MaxLate`, `MaxEarly`, `MaxVersion` (versions in Vault and of roles), `MaxTokens`,
`MaxFailures`, `MaxSwitches`, `MaxRuns` and `MaxSignals` are the bounds of the models
themselves. No proof depends on their values.

**Fairness.** Time passes (`Tick`), and an await that was started ends: the Redis and HTTP
clients have socket timeouts, so that it returns or raises. This is weak fairness of the
disjunction of all outcomes, never of the good one. Nobody is obliged to call anything, to
succeed, to reset or to clean up. For the idempotency middleware this takes an application that
answers or raises some day, which a server's timeout has to provide. `role_cache` asks for
nothing but time: neither requests nor invalidations need to go on. The tasks of `graph_client`
have strong fairness, since asyncio's locks are first come, first served, and a task that waits
for one gets it although others take it in between. Timers fire, threads that are in a flush or
a reset go on, and a timer's thread gets the buffer's lock although others take it in between.
In `shutdown` a thread runs on and the timeout of a clean-up comes; signals, the end of a
lifespan and what a callback awaits need not. A callback is assumed to end when it is cancelled:
`wait_for` (`shutdown.py:253`) only cancels it and then waits for it, so that one which swallows
its cancellation would keep the clean-up from ending.

**Deadlock** is checked but for `build`, whose runs of the command are exhausted some day, and
`shutdown`, where lifespans end and a registration may wedge.

## 5. Proofs

Every theorem holds for all values of the constants that satisfy the assumptions of its module
(`ConfigAssumption`; `GraphAssumption`; `LimitAssumption`, `DelayAssumption`, `FloorAssumption`
and `TimeoutAssumption` for the limiters), without bounds on workers, clients, tasks or
requests. Two of them are about names: `GraphClient` and `FlightRecorder` have finitely many
names for objects that the code creates without end, and ask that one is free when it is needed.
The proofs show that this number of names is enough (`FreeName`, `TimerInv`), so that no
creation is disabled by the model. Related components share a module of proofs, which extends
them: they have no variable in common but what the two limiters with scripts take from
`LimitScript`, and no theorem is about both.

* `CircuitBreakerProofs`. `TypeOK` is inductive: every primitive that writes the keys keeps the
  lifetimes in their ranges. Given the types, `OpeningNotLost` and `NoOrphanHalfOpen` are
  inductive too, which is why they say more than the reader may need: the first that the state
  key lives at least as long as the count (the expiry of the state key alone would close the
  circuit over its threshold), the second names every await from which a worker ends the
  half-open state. A step either keeps what they rest on, or renews it, or clears the count.
* `RateLimitProofs`, the fixed window. The inductive invariant is `CounterInv`: while the
  counter has a lifetime, what was granted and what is left add up to at most the limit, and a
  counter without a lifetime is negative, so it only denies. `ImplementsBudget` follows step by
  step: a step of a pipeline opens, grants, ticks, forgets, or changes nothing of the budget.
  For `BoundaryBurst`, `BurstInv` cuts the history at the age the open window has: the part
  since it opened is at most what it has granted, the part before it at most one limit.
* `RateLimitProofs`, sums. These properties are about sums over ages, which the community
  modules define by recursion over sets. What is needed of them (`SumFirst`, `SumSplit`,
  `SumLess`, `SumAdd`, `SumShift`) is proved by taking a smallest counterexample among the
  subsets of a finite set, which exists because strict inclusion is well-founded there
  (`Smallest`): an induction that needs no theorem with an operator for a parameter.
* `RateLimitProofs`, the sliding window. `LogInv`: the members are within the limit; for
  whatever was granted in the last `n` ticks there are members of at most `n + Delay` ticks; and
  the key outlives both. Late members are kept too long rather than too short, which is what
  `RollingBound` rests on. It holds for every delay, and says nothing any more when the delay
  reaches the window. `RetryAfterSufficesForOne` needs only the types and the bound: after the
  wait, the oldest member is gone.
* `RateLimitProofs`, the token bucket. All of it holds for any delay and any lifetime of the
  key. The rate (`BucketRate`) says how much the bucket lends at most: the longest delay's
  refill once, and again for every script that moved `last_refill` back, and a whole bucket for
  every key that ended early. `RateInv`: the ideal bucket, and what was lent so far, hold as
  much as a request of the longest delay could find now (`Potential`). `BucketLives`: a lifetime
  of a window and the longest delay is enough for no key to end early, which the default of two
  windows gives up to a delay of one window; an explicit `timeout_seconds` below it does not.
* `SecretStoreProofs`. `CacheInv`: only a get is past the entry and it holds the lock, an answer
  is not superseded for longer than it is old, and no answer on its way is older than the last
  eviction. That is why the lock must be kept across the round trip: `Rotate` needs to be the
  holder, so no answer is on its way.
* `IdempotencyProofs`. `SettledInv`: a settled key has a response that lives at least as long as
  the history says. So the lookup of a guarded request does not miss but blindly (`GuardInv`,
  `BlindInv`), and a failing cache refuses. `StoredInv` and `StoringInv` carry the whole 2xx
  response from the last chunk to the lookup. `ReplayIsOwnHolds` takes the joined texts apart
  again: the parts of two equal texts are equal up to the first colon of either
  (`SplitAtColon`), so tenants without one are told apart whatever the keys have, and the hash
  of a body is what follows the last colon. Of the hash of the whole it uses nothing, since the
  property names what it must tell apart.
* `RoleLookupProofs`, the role cache. `CacheInv` says of every user who is not `loose` that each
  index key lives as long as the entry or is still owed by the request that set it, that nobody
  sets an entry the invalidation covers while it runs, and that a covered entry is to be deleted
  once the index has been read. So `Scan` cannot miss an entry, and the entries set since the
  invalidation began are no older than `since`. The other users need nothing but that `since` is
  not ahead of the roles: they are why `loose` is needed in the properties.
* `RoleLookupProofs`, the Graph clients. `GraphInv` is about the table and whoever closes: a
  task that evicts or closes holds the lock, an evicted client is in the table no more and the
  table has room for the one that comes, and every open client is in the table, being closed by
  such a task, or dropped; a client of the table is open, or was closed by a close that is under
  way or was cut. That is `OpenIsKept`, and gives `TableIsGood` when the lock is free.
  `GraphTokenInv`: a token that is about to be stored is new, neither stored for any tenant, nor
  held by another task, nor refused to any; so no late store brings a refused token back, and
  the retry does not send it.
* `FlightRecorderProofs`. `EventInv` is about locks and places. `Locked`: a lock has one holder;
  and once the resets in a child are over and everybody in a call has read the current lock,
  whoever holds it is alone with the buffer. Until then, everything in the buffer is `shaken`.
  `Kept` follows an event of a call from its append to its writing: unless shaken it is in the
  buffer or written, and, as long as no write raised, not both except between the writing and
  the clearing of one flush. `Accounted` and `CriticalIsWritten` are parts of it. For the types,
  `TimerInv` counts the threads of timers: with those that a reset is about to start there are
  never more than switches and threads together, so that a name is free whenever a timer is
  created; a fork leaves none. `SizeInv`: until a write raises, the buffer is below its size
  whenever nobody holds a lock.
* `BuildCoordinatorProofs`. `EdgesFirst` is inductive: `NextLevels` takes packages without
  remaining dependencies, and when there are none, what remains is itself a set in which every
  package needs another, which is the exception the property names. For `SuccessIsCurrent`,
  `WheelInv` follows one package through `execute_build`: the cache entry of a key that is not
  spoilt holds nothing or a wheel of sources with that key (`Fits`), and so do the `dist/`
  directories after a hit; a built wheel is of sources in `since`. A save mends the key or
  spoils it, and a death that cuts a save spoils it. Nothing is used of `KeyOf` but that it is a
  function.
* `ShutdownProofs`. `StartInv`: one application of the main thread starts at a time, and the
  lock belongs to the one that is between its installation and its registration. `HandlerInv`:
  the handler for all is in place, and its calls are under way, only until a lifespan of the
  main thread is up; a call is nested only while another holds the lock; and once the handler is
  installed some event is registered or just being registered. That gives both properties; the
  first would fail if the lock were released in between. `AwaitInv` (no callback is counted
  twice) is only needed for the types.

What is only model-checked: the liveness properties (`LeavesHalfOpen`, `LeavesOpen`, `CallsEnd`,
`RequestsEnd`, `StaleEnds`, `LookupsEnd`, `WrittenInTime`, `CleanupEnds`), since fairness is out
of the prover's reach.

## 6. Findings

One disagreement is the subject of a violation run and quoted in `PROJECT.json`: **switching
buffering off** (`flight_recorder_switch`). `emit` reads `_buffering_enabled` before it takes
the lock. `disable_buffering` may flush and switch in between, and the event is then put into a
buffer that nothing flushes any more, although the docstring says that all buffered events are
written and that the operation is thread-safe.

The following was met while modelling. The models contain it, and the properties above hold in
spite of it, or name it as their exception; no run is spent on it.

Circuit breaker and rate limiters:

* A reset between counting a failure and opening the circuit leaves it OPEN without
  `last_failure`. `allow_request` then never probes; `LeavesOpen` shows that the expiry of the
  state key ends it.
* `half_open_max_calls` is never read, and the lock that stands for it expires while the probe
  runs: two probes may run at once.
* `allow_request` compares the recovery timeout with a failure it read in an earlier round trip:
  a circuit may become half-open right after a newer failure.
* When the key of a fixed window expires between SET NX EX and DECRBY, DECRBY creates it without
  a lifetime and below zero, and every later request is denied, although the docstring says that
  the window's lifetime heals it.
* The script of the token bucket moves `last_refill` back when an older timestamp arrives later
  (`redis.py:93`, `:108`), and the next request refills the interval again, although
  `token_bucket.py:62` has the tokens "refilled at a constant rate". `ConstantRate` counts what
  that lends (`late`).
* An explicit `timeout_seconds` below the window lets the key expire before its bucket has
  filled, and a full one takes its place: `early`.
* The wait of the sliding window is computed for the oldest member, which frees one unit:
  `RetryAfterSufficesForOne` is about requests of cost one.

Idempotency:

* Nothing marks a key as in progress, and the response is stored after the client has it, so
  that two requests of one key are both processed if they overlap. A client that disconnects
  during an upload leaves a part of the body, which the application is handed as the whole.
* With the kit's signing cache a lookup that fails is a miss: `get` returns None on every error
  (`signing.py:315-317`), and the application is run again although its response is stored,
  contrary to the fail-closed comment at `middleware.py:462`. `NoReexecution` exempts these
  requests (`blind`) and no others.
* The key joins its parts with colons that they may contain themselves
  (`middleware.py:386-394`): tenant `a` with key `b:c` and tenant `a:b` with key `c` share their
  responses, although `:263-264` says that they are scoped by tenant; so do a path with a colon
  and a path with a query. `ReplayIsOwn` says what holds all the same.

Graph clients:

* A `close` that is cancelled while it awaits a client leaves those it came to closed in the
  table, with the lock free (`azure.py:1907-1916`); lookups are then given a closed client until
  it is evicted: `cut`.
* A 401 in the last attempt deletes the token and fails, without trying a new one; the deletion
  may hit a newer token that another task has just stored.

Role cache:

* An entry that is set while an invalidation runs may lose its index; later invalidations then
  return 0 for it until its time to live ends. `loose` names these entries.
* A Graph lookup that failed is cached as one that found no roles, for a time to live
  (`azure.py:1265-1280`).
* Permissions are a frozenset where they are resolved and come back from Redis as a list, which
  `identity.permissions | ...` does not take; a frozenset is not serializable to JSON in the
  signing `set` (`dependencies.py:161-172`, `:325-330`).

Flight recorder:

* The reset after a fork (`flight_recorder.py:694-712`) replaces the buffer and its lock under
  no lock. An event that another thread of the child appends to the replaced list is lost, an
  error too, although `:798-799` promises its flush, and a flush of the old list may clear the
  new one: `shaken`.
* An event that always raises makes the whole buffer be written again at every interval, and
  what is behind it in the buffer is never written.
* When buffering is disabled and enabled again while a timer's thread runs (`:889`, `:1226`), it
  may be left without a timer, although `:1203` says that one is started, or with two chains of
  them. A successor that cannot be started ends the chain for good (`:894-896`).
* A timer may outlive the context.

Build:

* `build_dependency_graph` names a dependency `neoaxios-x` (`dependency.py:91-92`) while the
  nodes of the graph are directories: the order ignores edges to packages whose directory is
  named otherwise, contrary to `:106-107`. `EdgesFirst` is about the edges the graph has.
* A cycle may be broken at a package that is only behind it.
* The key leaves out sources that the wheel depends on: flat modules in the package's root,
  which `cache.py:170` promises (`:178-206`, `:338-347`), `setup.py` and others. An edit of
  these restores the old wheel, against "100% accurate" (`:460`). `SuccessIsCurrent` asks of a
  hit that its sources have the key, for any key.
* A wheel is saved under the key from before its build (`coordinator.py:263`). When sources are
  edited meanwhile and then taken back, a later run restores the wheel of the edit, with
  `--verify-cache` at least: `spoilt`.
* Any `*.whl` makes an entry a hit: a copy that was cut (`cache.py:574`) leaves half a wheel
  that later runs restore, although `:505` returns True for a valid cache. These keys are
  `spoilt` too.
* An error of the copy after a hit, or of the key, escapes `execute_build`, and the package has
  no result, although `coordinator.py:535` has one per package.
* Wheels are published before their contracts are validated, later levels are built after
  failures, and wheels of earlier versions stay in `dist/` unless forced.

Shutdown:

* Each lifespan replaces the handler for all applications by its own (`shutdown.py:145`): only
  the last application of the main thread hears of a signal, although `:95-98` says that all
  receive it and none overwrites.
* While the handler for all is in place, a signal during a registration in the main thread makes
  it wait for the lock that its own thread holds, and so does a signal that comes inside the
  handler (`:59-68`), in spite of "Thread-safe" (`:50`). `WedgedOnlyBeforeUp` shows that this
  ends with the first lifespan of the main thread. Where applications only call
  `register_app_shutdown`, as `:77-78` and `:105-109` recommend, it does not end.
* An application in another thread that starts first is never registered.
* Nothing in the repository waits for `shutdown_event`, and the handlers replace the server's
  own.
* A synchronous callback that blocks is not cut by the timeout.

## 7. Limits of the models, and what is not modelled

* A cancelled worker's command may still be applied by Redis. The breaker's model covers this by
  `AllowRequestError` and `RecordError`, except for the local copy.
* A command that Redis applies long after the client gave up is applied at most when the error
  is raised, not later.
* Clients' clocks differ only by the delay of a request; skew between hosts is not modelled
  apart from it.
* After a cancelled login, the thread may still set a token; it may not set it later than the
  cancellation in the model.
* The bytes of responses and headers are not modelled; of the texts of a cache key only the
  colons are.
* A corrupt cached response is a choice at the lookup, not a state of the cache.
* One invalidation of the role cache runs at a time.
* A synchronous clean-up callback returns, and an asynchronous one ends when it is cancelled.
* SIGTERM and SIGINT are one signal. A signal before any handler of `shutdown.py` is installed
  is left out.
* The size of the recorder's buffer is fixed, although `enable_buffering` may change it
  (`:1221`); the flush interval is positive.
* `GraphClient` numbers tokens in the order of their issue and never issues one twice.
* An edit of sources is one step, and so is the computation of a key.
* A bucket's `late` and a key's `early` are counted, not bounded: how often they happen is the
  network's and the configuration's.

**Not modelled.** The largest part of the repository keeps no state between calls, so that there
are no histories for a model checker to explore:

* authentication configuration and its schemas, configuration, secure configuration, Stripe
  errors, the claims of tenants, Keycloak and Auth0, authorization policies, the other
  middleware: mappings and validations of their input, read once at start-up or once per
  request. A model would restate them case by case;
* docker builds, the command line, the logbook and the diagnostics, the test foundation: input
  and output;
* signatures, encryption, the checks of tokens: cryptography.

With state, and left out:

* the rate limiters in memory: the Redis ones without clients that fail or clocks that differ;
* `exponential_backoff.py`: a sequential loop against a clock;
* `oidc_cache.py`: nothing in the repository calls it, so that the interleavings would be
  invented;
* canary, sequence numbers and tamper state of `secure_cache/security`: no code of the kit
  composes them. Their hazards are listed: a canary is stored once and expires, and a sequence
  number is checked against a bounded local table;
* the connections of the cache backends: they appear as an environment that fails.
