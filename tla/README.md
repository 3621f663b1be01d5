# A TLA+ model of kMcache

kMcache is an asyncio cache library: a `CacheManager` in every application
process puts a local LRU cache (L1) in front of a Redis server that the processes
share (L2), loads missing values once with a single flight per process and a
distributed lock across processes, refreshes stale values in the background,
guards each backend with a circuit breaker, and broadcasts invalidations over
Redis pub/sub.

This directory holds TLA+ modules of those parts, the TLC configurations that
check them on small instances, and theorems about them that TLAPS proves for all
instances. `PROJECT.json` lists the runs, the theorems, for every definition the
source lines it stands for, and the mutants: for every property of a passing run
a plausible mistake in the code, written beside the definition it replaces under
the comment "Fault", with which the property fails.

    tlc -workers 2 -config MCGetOrLoadLock.cfg MCGetOrLoad
    tlapm GetOrLoadProofs.tla

## Inventory

| part | source | state | operations | modelled in |
|---|---|---|---|---|
| single flight | `coordination/singleflight.py` | `_futures`: key -> future | `do` | `SingleFlight` |
| circuit breaker | `features/circuit_breaker.py`, `_run_backend_call` | `state`, `failure_count`, `opened_at`, `half_open_calls` | `allow`, `record_success`, `record_failure` | `CircuitBreaker` |
| get_or_load, lock, refresh | `manager.py`, `backends/redis.py` | L1, L2, the Redis lock, `_lock_tokens`, the background tasks | `get_or_load`, `_background_refresh`, `acquire_lock`, `release_lock` | `GetOrLoad` |
| writes and invalidation | `manager.py`, `features/broadcast.py` | L1, L2, what is on its way to the listeners | `get`, `set`, `set_many`, `delete`, `delete_many`, `delete_prefix`, `clear`, `publish`, `_listen`; `get_or_load` and `_background_refresh` as readers and writers of the key | `Invalidation` |
| lifecycle, warmup, batch reads | `manager.py`, `features/broadcast.py`, `features/warmup.py`, `integrations/fastapi.py` | `_background_tasks`, the listener, its subscription | `start`, `close`, `warmup`, `run_periodic`, `get_many_or_load`, the lifespan | `Lifecycle` |
| envelopes and policies | `models.py`, `features/avalanche.py`, `manager.py` | creation and hard expiry of an envelope, the deadline in Redis | `_resolve_policy`, `apply_ttl_jitter`, `remaining_ttl`, `is_hard_expired`, `expire` | `Expiry`; soft expiry in `GetOrLoad` |
| local backend | `backends/local.py` | `_entries`, an ordered dictionary | all | `LocalCache` |
| Redis backend | `backends/redis.py` | entries and locks on the server | its commands | as commands of `GetOrLoad`, `Invalidation` and `Expiry` |
| serialization, compression | `serialization/`, `compression/` | - | `dumps`, `loads` | no: sequential conversions |
| configuration | `config.py` | - | `from_mapping`, validation | its ranges are the ASSUMEs |
| observability | `observability/` | counters | hooks | no: they change nothing of the above |
| decorators, FastAPI dependency and health route | `integrations/` | - | wrappers | no: they only call the manager |
| key locks, subscriber base | `coordination/locks.py`, `coordination/pubsub.py` | - | - | no: nothing uses them |

How they interact. The tasks of one process share its L1, single-flight group,
breakers and token table, and run one at a time between two awaits that suspend.
Processes share Redis: the entries, the locks and the channel. `get_or_load` calls
the single flight with a factory that takes the lock, calls the loader and writes
both layers; a soft-expired hit spawns a task that calls the same single flight.
Writes publish an event, which the listener task of every other process turns into
a removal from its L1. Loads and refreshes
publish nothing, and neither does a `get` that deletes an expired entry by key. The application starts the manager,
which starts the listener and the warmups, and closes it, which cancels the
background tasks one after the other, then the listener, then closes the backends.

What is hard. Nearly everything a manager does is a read-suspend-write sequence
(a GET whose answer is copied to L1 later, a miss followed by a lock, an expired
entry deleted by key), every command may fail before or after it was executed,
`CancelledError` is no `Exception` and passes by every `except Exception`, a lock
may expire under its holder, a listener may die silently, `start` and `close` may
raise half-way, and the expiry of an envelope is counted by the clock of the process
that built it, that of its entry by Redis. `PROJECT.json` lists
these hazards at their lines with the properties that cover them.

What makes each part correct: one execution of the loader per process and key, and
everybody gets its result (single flight); the lock protects its holder and is
given back on every path (lock); an expired answer or fallback only after a failure,
and every task ends (get_or_load); the breaker opens, probes within its limit and
recovers (breaker); Redis never goes back to what a completed write replaced, and a
stale L1 entry or a value that is gone has one of a few named causes (invalidation);
`close` ends and what it leaves running has a named cause (lifecycle); nothing is
served beyond the time it was granted, and Redis and the envelope agree on that time
up to named differences (expiry); eviction takes the least recently used entries (L1).

## The modules

### SingleFlight

A member of `Calls` is one call of `do(key, factory)` in a task of its own. The lock
around `_futures` is never contended (no await inside), so entering `do` is one step
(`Lead`, `Follow`, `FollowFinished`), the end of the factory with the except and
finally clauses is one (`Return`, `Raise`, `CancelOwner`), and waking a waiter is one
(`Wake`). `CancelWaiter` is `Task.cancel()` on a task that awaits the shared future:
asyncio cancels that future. `future`, `joined`, `futures` are the code's variables;
`produced` and `asked` are history.

### CircuitBreaker

A member of `Calls` is a task that calls the backend again and again through
`_run_backend_call`. `Admit` is `allow()` that does not raise; `Succeed`, `Fail` and
`Cancel` are the ends of the awaited call. Time is `elapsed`, the ticks since
`opened_at`, which stops at `RecoveryTimeout` because the code only compares it with
that. `probing` and `lost` are history: which calls the present half-open episode let
through and how many of them were cancelled.

### GetOrLoad

One cache key, several instances, one Redis. Each request may spawn one refresh; both
are `Tasks`. `at` is where a task stands:

| place | in the code |
|---|---|
| `read` | awaiting the GET of `get_or_load` |
| `spawned` | `_background_refresh` was scheduled |
| `lock`, `relock` | awaiting SET NX, first and second attempt |
| `sleep`, `poll`, `drop` | in `_wait_for_populated_value`: sleeping, awaiting GET, awaiting DEL of an expired entry |
| `load`, `store` | awaiting the loader, awaiting SET |
| `unlock` | awaiting the script of `release_lock` |
| `wait` | awaiting the shared future |

The module holds an INSTANCE of `SingleFlight`, whose calls are the tasks and whose
keys are the instances, and its actions are conjoined with the flight's actions. An
envelope is named by the task that loaded it, and `age` says whether it is fresh, soft
expired or hard expired. A Redis read is two steps (`Read`, when the server answers,
and `ReadFirst` or `Polled`, when the task goes on), since the answer may be out of
date; of the other commands the code uses only whether they failed, and a failed
command may have been executed. `Faults` chooses what may happen in a run: errors of
Redis and of the loader, expiry of the lock, eviction, ageing, crashes.

Abstractions: `enable_stale` is TRUE and Redis is configured; the default hooks do not
suspend; errors of Redis and of its breaker look alike; the lock expires at any time;
a loaded None is a value like others (null caching only chooses another ttl); an
abandoned command is executed at once or never; a serialization error does not occur.

### Invalidation

One cache key again, calls of every kind on several instances, and the events. `home`
and `kind` of a call are chosen when it starts. L1 operations are part of the step
they are in; each Redis command is a step that may fail, executed or not. `at` is the
place of a call:

| place | in the code |
|---|---|
| `read` | awaiting the GET of `get` or `get_or_load` |
| `wait`, `poll` | in `_wait_for_populated_value`: sleeping or asking for the lock, awaiting GET |
| `purge` | awaiting the DEL of an entry that was found hard expired |
| `load`, `write` | awaiting the loader, awaiting SET or the pipeline of `mset` |
| `remove`, `scan`, `delete` | awaiting DEL, SCAN, the DEL of what was found |
| `publish`, `rest` | awaiting PUBLISH for this key, for the batch's other keys |

There are three ways to a loader. `StartRead` and `Resume` are `_get_envelope_with_source`:
a miss leads `get_or_load` there, and so does a hard-expired envelope, which it returns
from the search while `get` pops it from L1 or deletes it from Redis by key (`Purge`,
whatever the key holds by then). `StartRefresh` is `_background_refresh`: any load that
was a hit may have scheduled it, it does not look into the caches first, and it overwrites
its own L1 and Redis without an event. The lock and the single flight are replaced by
something looser: whoever is to load may call the loader (`load`) or wait for somebody
else to populate the key (`wait`), at any time, as often as it likes.

`over` holds the envelopes whose time has ended. From then on Redis may drop the entry
(`RedisDrops`; early or late, as its deadline is truncated and counted anew by each
write), and a task that looks at the envelope may find it expired or, by a clock that is
behind, not yet. An entry that L1 evicts is missing when L1 is looked at (`StartRead`,
`Poll`), and until then nothing depends on it, so that these steps evict it. That the
soft time of an envelope is over needs no state here, as it only allows a refresh.

`inbox` is what Redis has sent to a listener and `listener` what it is doing with a prefix
event (it deletes the prefix from Redis too, with a scan and a DEL). `ListenerFails` ends
the task, as any exception in `_listen` does, or loses what was sent while a connection is
made anew. Instances have distinct identifiers. Left out: a loader that raises, a
cancelled call, both of which write nothing from then on; `expire`, which the manager does
not export; and that an envelope expires between two looks at it that no await separates.

A batch is seen from one of its keys. `set_many` and `delete_many` write all keys with
one command (`mset` is a MULTI pipeline), so for the one key the command is that of the
single call; then they publish key by key and stop at the first error. The key may be
anywhere in the batch: an error that `Publish` chooses stands for one of a key before it
as well, and the events of the keys behind it are `PublishRest`.
`preceded`, `failed`, `lost`, `untold` and `purged` are history that the properties speak
of: `untold` holds the envelopes that left Redis without an event (dropped, purged, or
overwritten by a load or a refresh), `purged` the calls that deleted by key what they had
found expired.

### Lifecycle

One manager and the application that starts it, uses it and closes it, any number of
times. `app` is the await at which the application's task stands: `subscribe`,
`warmup`, `lifespan` in starting, `cancel`, `unlisten`, `unsubscribe`, `backends` in
closing, and `serving`, `failed` (start or the warmup raised), `aborted` (close raised)
and `down`. `tracked` is `_background_tasks`, `listener` and `pubsub` are
`_listener_task` and `_pubsub`. A member of `Refreshes` is a task of
`_schedule_background_refresh`, of `Periodics` one of `run_periodic`.

That a task ended and that its done-callback removed it from `_background_tasks` are two
steps (`TaskEnds` or `PeriodicFails`, then `Discard`), for asyncio calls the callback in
a later iteration: in between the task is listed, and `await task` of `close()` raises
what the task raised. `CancelNext(S)` is the loop of `close()` from one await to the
next; it may take the listed tasks in any order, as the set is not ordered. A task that
is cancelled ends some steps later, and may have scheduled a refresh before.
`CallBatch`, `ChildEnds`, `BatchResumes` and `CancelBatch` are `get_many_or_load`: its
tasks are not tracked by the manager, and are awaited in order; the caller stands at
that of key `waits`. That a task ended and that the caller goes on are two steps again
(`ChildEnds`, then `BatchResumes`, which passes over the tasks that returned meanwhile).
`Task.cancel()` on the caller cancels the task it awaits if that one runs. If it has ended
and the wake-up is pending, asyncio sets a flag that the caller meets, at the latest, at
that wake-up: it raises `CancelledError` at line 404 whatever the task returned, and
cancels no task. Nothing reads the flag before, so `CancelBatch` raises at once.

Abstractions: what a load does is left to `GetOrLoad`, here it returns, raises, or ends
cancelled since another waiter of its flight was cancelled; the warmup of one start is
one load, for the first failure ends it; the application does not cancel `start` or
`close`, and does not close a manager while its own call of `get_many_or_load` waits;
`Start` comes when the callbacks of the tasks that ended have run, for an iteration of
the event loop has passed since the manager was closed.

### Expiry

One key, the instances with their clocks (`Offset`), the L1 of each, one entry of Redis
with its deadline. `Lifetimes` is what `_resolve_policy`, `_resolve_ttl` and
`apply_ttl_jitter` come to, `Remaining` is `remaining_ttl`: truncated to seconds, never
negative. `TimePasses` may come between any two steps, so that a command takes any time
and `Build` and `WriteFront`, which read the clock one after the other, may read two
times. A GET is three steps (sent, executed, answered), a SET and a DEL two. `expire` of
the Redis backend is a GET and a SET in that order, that of the L1 changes the envelope
from its creation on. The manager exports no `expire`; the backends do, and their tests
call it.

`until` (how long the value was granted), `late`, `waited` (how long commands took),
`seen` and `gone` (which values had left Redis) are history. Abstractions: a second is
`Second` ticks; Redis's clock runs with the true time; commands do not fail (that is
`Invalidation`); the None of a loader is the alternative `NullLifetimes` of `Build`, with
`null_ttl` and no jitter.

### LocalCache

`order` is the ordered dictionary, oldest first; of an envelope only `expired` is
kept. Every operation is one action, for none suspends under the lock. `since` is
history: which other keys were used since each key was last used. `Without` takes keys
out of the list by the places that stay, in ascending order.

`LeastRecentlyUsed` is what such a cache promises, without a list: the keys that are
`held`, and for every key those that are `newer`, used after it was last used. A use of
some keys makes them newer than all others and evicts every key that `max_size` of the
keys there are newer than; nothing else evicts. `LocalCache` implements it with `newer`
mapped to the history `since`: the code, which keeps no history, must evict by its list
what the history says. `get`, `get_stale` and `expire` are uses of one key, `mset` is a
use of several at once.

## What the runs show

All runs but the `violation` ones pass. Deadlock is not checked where the calls of an
instance are all over at some point and nothing is left to do.

| run | bounds | shows |
|---|---|---|
| `single_flight` | 4 calls, 2 keys, 1 value, any cancellations | `OneLoadPerKey`, `RegistryIsExact`, `ResultIsTheFlights`, `CancellationHasACause`; under fairness `WaitersReturn` |
| `circuit_breaker` | 4 tasks, threshold 2, timeout 2, limit 2, 4 failures, 3 cancellations | `StateMatchesCount`, `ProbesBounded`, `WedgedOnlyByCancellation`, `FailureReopens`; under fairness `Recovers` |
| `get_or_load_lock` | 3 requests on 2 instances, Redis errors, lock expiry, 1 cancellable request | `LockProtects`, `ReleaseOnlyOwn` |
| `get_or_load_failures` | 3 requests on 1 instance, loader errors, evictions, 2 cancellable, 2 fallbacks | `StaleOnlyOnFailure`, and that the module implements `SingleFlight` |
| `get_or_load_refresh` | 2 requests on 2 instances, 2 polls, ageing, loader errors, crashes | `NoLockLeftBehind`; under fairness `TasksEnd` |
| `invalidation` | 3 calls of 6 kinds, sets repeated, on 2 instances, evictions, 1 failure or 1 envelope whose time ends | `RedisNeverGoesBack`, `StaleHasACause`, `ReadYourWrites`, `CoherentWhenSettled`, `VanishesWithACause` |
| `lifecycle` | 2 starts, 2 refreshes, a batch of 2, every feature and every fault | `ClosedIsQuiet`, `LeftBehindHasACause`, `OnePeriodic`, `UnattendedHasACause`; under fairness `CloseEnds` |
| `expiry` | 3 calls of 6 kinds on 2 instances, a second of 2 ticks, 4 ticks, clocks 1 tick apart, ttls of 1 and 2 seconds and none | `DeadlineFollowsEnvelope`, `DropHasACause`, `RevivedHasACause`, `ServedInTime`, `RefusedHasACause` |
| `local_cache` | 4 keys, 2 places, batches up to 4 keys | `KeptWhileRecent`, and that the module implements `LeastRecentlyUsed` |

Why the bounds are enough. Four calls hold an owner, two waiters of which one is
cancelled, and a late comer, on one key or two. Four tasks hold a full half-open
episode (three calls at limit 2) and a call from before it, and four failures let the
breaker trip twice. The lock needs two instances, and a second task on one of them to
show that it does not share the first one's token; more polls only repeat the same
step, so one is enough but where termination is the question. In `Invalidation` two
calls are enough for a stale backfill and a third one for a write that precedes both, or
for a load that schedules a refresh; two instances for an event. One failure, of a command
or a listener, is enough since a second could only hide the effect of the first; one
envelope whose time ends is enough for Redis to drop it, for a `get` to find it expired
and for a `set` to take its place before the DEL. `MaxTroubles` keeps the two apart: of
the properties that allow failures none speaks of what left Redis, but for
`VanishesWithACause`, which asks of the call that stored that it had none; the proofs
have no such bound. A run may hold any number of `set` calls and at most one of each kind
in `Once`: `get`, which deletes what it finds expired, `load`, `refresh`, `delete_many`
and `delete_prefix`. The other three kinds add little: `set_many` is to `set` what
`delete_many` is to `delete`, whose steps are the same up to the events of the rest; a
`clear` is a `delete_prefix` of which the listeners only empty L1.
`Lifecycle` needs a second start, to come upon what the first one left, a refresh that
ends and one that is scheduled while `close` is under way, and a batch with a key behind
the one that fails. `Expiry` needs three calls for a value that is written, read and
deleted or prolonged meanwhile; half a second of clock difference and of delay are
less than the truncation of `remaining_ttl` and two of them reach it, and four ticks hold
the life of a ttl of one second with a slow command, and of one of two seconds. The type invariants (`SFTypeOK`, ...) are
checked with the runs and are the base of the proofs.

Liveness assumes that the event loop runs every task that can go on, that Redis
answers or the client's `socket_timeout` raises, that a loader ends, that time passes,
and in `Recovers` that calls keep coming. For `CloseEnds` only a cancelled task has to
end (the loads it is in are cancelled with it), not a task that merely runs, and the
commands of `close` have to be answered. Cancellations, crashes, expiries, evictions
and failures are never assumed to happen.

In `Recovers` a refused call is no step, so weak fairness of `Admit` means: while
calls are admissible, one will come. `TasksEnd` needs no fairness of the lock: after
`Polls` polls and one more attempt a task loads without it.

### Where the code does not do what it says

Three runs expect a violation; each finding of `PROJECT.json` quotes the line.

* `single_flight_orphans`: the waiters of a flight whose owner is cancelled wait for
  ever, although `do` returns "the shared result". (`close()` cancels refreshes, which
  own flights.)
* `get_or_load_no_refresh`: a refresh that does not get the lock takes the stale
  envelope for the refreshed one, and is recorded as a success.
* `expiry_short_ttl`: `set` with a ttl of one second asks Redis for an expiry of zero
  seconds, which Redis refuses: the value is in L1 only.

Of some other behaviours that a reader may not expect the properties name the bound or
the cause: a half-open episode lets `half_open_max_calls + 1` calls through
(`ProbesBounded`); two instances that miss together may both load, one after the other
(`LockProtects`); the handler of a prefix event, said to delete from the local
backends, deletes from Redis too, with what was set since, and a read that finds an
envelope expired deletes by key what may be a fresh one (`VanishesWithACause`); a
background refresh tells no other instance of the new value (`CoherentWhenSettled`); a
cancelled `get_many_or_load` may cancel none of its tasks (`UnattendedHasACause`); after
the listener has died every `close` raises (`LeftBehindHasACause`); an `expire` of the
Redis backend brings a value back that was deleted meanwhile (`RevivedHasACause`).

## What is proved

TLAPS proves the following for any number of calls, instances, keys and values and any
bounds, from the named ASSUMEs alone (null values are distinct from the others,
configured limits are positive, bounds are natural numbers).

* `SingleFlightProofs`: `OneLoadPerKey`, `RegistryIsExact`, `ResultIsTheFlights`,
  `CancellationHasACause`, and `FlightEndsWithItsOwner`, which no run checks. The
  invariant `SFInv` adds what the listed properties need of each other: a call that loads has registered its own future,
  a future is done only with what its factory produced or because a waiter of it was
  asked to cancel, and every call joined a flight of its own key.
* `CircuitBreakerProofs`: `StateMatchesCount`, `ProbesBounded`,
  `WedgedOnlyByCancellation`, `FailureReopens`. The invariant accounts for the probes:
  every call that an episode let through is still at the backend or was cancelled (any
  other end of it ends the episode), and `half_open_calls` counts all of them but the
  first. So a breaker at its limit with no call left has lost them all.
* `GetOrLoadProofs`: `LockProtects`, `OneFactoryPerInstance`, `ReleaseOnlyOwn`,
  `NoLockLeftBehind`, and `ImplementsSingleFlight`, the refinement: initial states are
  initial states of the flights, and every step is a step of one of them or leaves all
  of them alone. `LockProtects` is not inductive: that the token table still holds the
  task's own token needs that no other task of the instance is in the lock protocol,
  which needs `FlightLink` (a task is in the factory exactly while it leads the flight of
  its instance), which needs `RefreshLink` (a refresh is spawned once); and that a task
  still is in its try block needs `LockLink` (it leaves by way of `unlock` only).
* `StaleProofs`: `StaleOnlyOnFailure`, by composing the two levels. By the refinement a
  step of `GetOrLoad` is a step of the flights, so that `SFInv` holds of them beside
  `GLInv`: a flight that returns an error had a load that failed, and one that returns
  `InvalidStateError` had a future that a waiter cancelled. `EndedForAReason` carries that
  reason from the moment a request ends on, and is stable because a call that is over,
  and the calls that were asked to cancel (`AskedOutside`), keep the flight they joined.
* `InvalidationProofs`: `RedisNeverGoesBack`, `VanishesWithACause`, `StaleHasACause`,
  `ReadYourWrites`, `CoherentWhenSettled`. The invariant says
  that what a call is preceded by has ended (`Precedence`), so that a write that is still running can only
  bring its own envelope to Redis, and that from the success of its command on a write
  keeps out what is older (`Settles`). For `VanishesWithACause` an
  event in an inbox is that of a call that has published, a listener that scans or
  deletes has handled the event of a prefix deletion, and a call counts as stored from
  the success of its command on, so that what empties Redis later overlaps or follows it.
  An envelope that Redis drops after a call stored is not older than that call (`Settles`),
  and neither is one that a read which started later found expired (`ReadsAreFresh`); so
  its DEL takes away something newer only when the read overlapped the call.
  `StaleHasACause`, `ReadYourWrites`: a read that starts after a write gets nothing older
  from Redis (`ReadsAreFresh`), since the write settled it before; so only a read across
  the write takes something older to an L1 that knows of the write (`L1Settles`) or to a
  reader there (`AnswersSettle`). `CoherentWhenSettled` restricts the history, and so is
  proved of the calls so far (`Calm`): a read or a load runs alone then, so that what it
  saw is still true (`CallsAgree`), and an L1 that differs from Redis will be emptied by an
  event on its way or by a call that has yet to publish one (`Agrees`), or holds an
  envelope of `untold`, which only grows.
* `LifecycleProofs`: `ClosedIsQuiet`, `LeftBehindHasACause`, `OnePeriodic`,
  `UnattendedHasACause`. The invariant says that every task that is alive is tracked;
  that in the loop of `close` those that are neither listed nor awaited were scheduled
  late; and that after the loop no task is alive but those; that every task of a batch
  before the one the caller awaits has returned (`BatchProgress`), so that whoever is left
  unattended stands behind the one at which the caller stopped. A start comes after a close,
  so no periodic warmup is alive when it makes one.
* `ExpiryProofs`: `DeadlineFollowsEnvelope`, `DropHasACause`, `RevivedHasACause`,
  `ServedInTime`, `RefusedHasACause`, for any clock differences, ttls, jitter and number
  of ticks to a second. The invariant relates, for every command on its way, the seconds
  it asks for to the envelope it carries (by the truncation of `Remaining`), and every
  envelope in a cache or in a call to the time its value was granted.
* `LocalCacheProofs`: `KeptWhileRecent` and `ImplementsLRU`, for any keys and any
  `max_size`. Both rest on `OrderIsRecency`: a key was not used since any key behind it
  in the list was. The list without some keys is shown, by the ranks of the places that
  stay (`RankFacts`, `AscendingFacts`), to hold the others in their order. An entry that
  is evicted has `max_size` entries behind it, which are different keys used since
  (`EvictedIsOld`). For the refinement, what stands behind a key in the list is what the
  history has newer than it among the keys there are (`NewerIsBehind`); the lemmas say
  what a removal, an append and an eviction make of it (`BehindWithout`,
  `BehindAppended`, `BehindEvicted`), and that a hit never evicts (`TouchImplements`).

Each proof has one step per action of the next-state relation; what several actions do
(entering and leaving a flight, taking the lock, a command that fails) is a lemma.

Only model-checked: the liveness properties (`WaitersReturn`, `Recovers`, `TasksEnd`, `CloseEnds`),
which are out of the prover's reach. Every invariant and refinement that a run checks
is also proved.

## Not modelled

* Serialization and compression: sequential, without shared state. What matters to the
  rest is that `loads` may raise an error that is no `BackendError`; the hazard is
  listed, and no property covers it.
* Configuration parsing, metrics, events and logging, the decorators, the FastAPI
  dependency and health route: they parse, observe or wrap. The default hooks do not
  suspend, which the atomicity of the actions relies on; a hook that awaits or raises
  would add steps and failures.
* `coordination/locks.py` and `coordination/pubsub.py`: nothing uses them.
* `get_many` (a gather of `get`), `mget` and `exists`.
* A run that has `clear` and the lock together: `clear` deletes the locks among the keys,
  which to `GetOrLoad` is an expiry of the lock.
* Equal `instance_id`s, a clock that is set back.

What would come next: one breaker shared by the commands of all tasks of a process in
`GetOrLoad`, where a command now fails on its own, and a clock that is set back in
`CircuitBreaker` and `Expiry`.
