----------------------------- MODULE GetOrLoad -----------------------------
(***************************************************************************)
(* CacheManager.get_or_load and the background refresh it schedules, for   *)
(* one cache key, on several instances that share one Redis server.  Each  *)
(* instance has an L1 (LocalCacheBackend), a SingleFlightGroup and a table *)
(* of lock tokens; Redis holds the L2 entry and the distributed lock.      *)
(*                                                                         *)
(* A task runs without interruption up to the next await that suspends: a  *)
(* Redis command, a sleep, the loader or the shared future.  L1 operations *)
(* and the default (no-op) hooks do not suspend.  An action is one such    *)
(* stretch.  A Redis read is split in two, since what the server answered  *)
(* may be out of date when the task goes on; of the other commands the     *)
(* task uses no more than "done or failed".  Redis and circuit breaker     *)
(* errors look alike here, and either the command was executed or not.     *)
(*                                                                         *)
(* An envelope is identified with the task that loaded it (or Seed), for   *)
(* tasks load at most once, and its value with the envelope.               *)
(***************************************************************************)
EXTENDS Naturals

CONSTANTS
    Instances,      \* the application processes
    Requests,       \* the calls of get_or_load
    HomeOf,         \* the instance that each request runs on
    Fallbacks,      \* the requests that pass a fallback
    Cancellable,    \* the tasks that may be cancelled
    Faults,         \* what may happen, of "redis" and "loader" errors, "crash",
                    \* "expire" (of the lock), "evict" and "age" (of envelopes)
    Polls,          \* int(lock_timeout / lock_sleep_interval), at least 1
    Seed,           \* the envelope that was stored before
    SeedAges,       \* how old it may be ("unborn": there was none)
    Default,        \* the value of every fallback
    Unread,         \* Redis has not answered a read yet
    None

\* Each request may schedule one background refresh, a task of its own.
Tasks == Requests \X {"request", "refresh"}
Request(r) == <<r, "request">>
Refresh(c) == <<c[1], "refresh">>
IsRequest(c) == c[2] = "request"
Home(c) == HomeOf[c[1]]

Envelopes == Tasks \cup {Seed}
Results == Envelopes \cup {Default}

ASSUME HomeAssumption == HomeOf \in [Requests -> Instances]
ASSUME PollsAssumption == Polls \in Nat \ {0}
ASSUME DistinctAssumption ==
    /\ None \notin Results \cup Instances \cup {Unread}
    /\ Unread \notin Results
    /\ Seed \notin Tasks
    /\ SeedAges \subseteq {"unborn", "fresh", "soft", "hard"}
    /\ Cancellable \subseteq Tasks

VARIABLES
    up,         \* the instances that have not crashed
    at,         \* where each task stands
    l1,         \* the L1 entry of each instance
    l2,         \* the Redis entry
    age,        \* of each envelope: "unborn", "fresh", "soft" or "hard" (expired)
    lock,       \* the Redis lock: the task whose token it holds
    tokens,     \* redis_backend._lock_tokens of each instance, likewise
    guarded,    \* the tasks inside the try block of a lock they acquired
    expired,    \* history: the tasks whose lock expired while they were guarded
    reply,      \* what Redis answered to a task's read, until the task goes on
    stale,      \* the expired envelope that a task found before it loads
    polls,      \* how often a task will still look for another's value
    outcome,    \* how the try block of a guarded task ended
    answer,     \* what each task returned or raised
    futures, key, phase, joined, future, produced, returned, asked

\* The SingleFlightGroup of every instance: a flight's key is the instance.
Flights == INSTANCE SingleFlight
               WITH Calls <- Tasks, Keys <- Instances, Values <- Results

cacheVars == <<l1, l2, age>>
lockVars == <<lock, tokens, guarded, expired>>
flightVars == <<futures, key, phase, joined, future, produced, returned, asked>>
vars == <<up, cacheVars, lockVars, at, reply, stale, polls, outcome, answer,
          flightVars>>

Pending == Flights!Pending
Value(e) == Flights!Value(e)
Error == Flights!Error
Cancelled == Flights!Cancelled

-----------------------------------------------------------------------------

Init ==
    /\ up = Instances
    /\ at = [c \in Tasks |-> "idle"]
    /\ \E a \in SeedAges :
           age = [e \in Envelopes |-> IF e = Seed THEN a ELSE "unborn"]
    /\ l1 \in [Instances -> IF age[Seed] = "unborn" THEN {None} ELSE {None, Seed}]
    /\ l2 \in IF age[Seed] = "unborn" THEN {None} ELSE {None, Seed}
    /\ lock = None
    /\ tokens = [i \in Instances |-> None]
    /\ guarded = {}
    /\ expired = {}
    /\ reply = [c \in Tasks |-> Unread]
    /\ stale = [c \in Tasks |-> None]
    /\ polls = [c \in Tasks |-> 0]
    /\ outcome = [c \in Tasks |-> Pending]
    /\ answer = [c \in Tasks |-> Pending]
    /\ Flights!SFInit

\* A task of a live instance stands at one of these places.
Runs(c, places) == Home(c) \in up /\ at[c] \in places

-----------------------------------------------------------------------------
\* Entering and leaving the flight

Unexpired(e) == e # None /\ age[e] # "hard"

\* Fault: the except clause catches CancelledError too.
ResolveEverything(c, result) ==
    IF IsRequest(c) /\ result.kind # "value" /\ stale[c] # None THEN Value(stale[c])
    ELSE result

\* What get_or_load answers when do() ended with this result: on an exception
\* the expired envelope if there is one, else the fallback.  CancelledError is
\* no Exception.  A refresh only records whether do() failed.
Resolve(c, result) ==
    IF ~IsRequest(c) \/ result.kind \in {"value", "cancelled"} THEN result
    ELSE IF stale[c] # None THEN Value(stale[c])
    ELSE IF c[1] \in Fallbacks THEN Value(Default)
    ELSE result

\* self._singleflight.do(key, ...): lead a flight, or wait for the one there is.
EnterFlight(c) ==
    \/ /\ Flights!Lead(c, Home(c))
       /\ at' = [at EXCEPT ![c] = "lock"]
       /\ UNCHANGED answer
    \/ /\ Flights!Follow(c, Home(c))
       /\ at' = [at EXCEPT ![c] = "wait"]
       /\ UNCHANGED answer
    \/ /\ Flights!FollowFinished(c, Home(c))
       /\ at' = [at EXCEPT ![c] = "end"]
       /\ answer' = [answer EXCEPT ![c] = returned'[c]]  \* CancelledError

\* The factory of a flight ends, and with it the task that leads the flight.
Finish(c, result) ==
    /\ \/ result.kind = "value" /\ Flights!Return(c, result.value)
       \/ result.kind = "error" /\ Flights!Raise(c)
       \/ result.kind = "cancelled" /\ Flights!CancelOwner(c)
    /\ answer' = [answer EXCEPT ![c] = Resolve(c, returned'[c])]
    /\ at' = [at EXCEPT ![c] = "end"]

\* Fault: the lock is released after a result, not in a finally clause.
LeaveWithoutFinally(c, result) ==
    IF c \in guarded' /\ result.kind = "value"
       THEN /\ at' = [at EXCEPT ![c] = "unlock"]
            /\ outcome' = [outcome EXCEPT ![c] = result]
            /\ UNCHANGED <<answer, flightVars>>
       ELSE Finish(c, result) /\ UNCHANGED outcome

\* The end of the factory, by way of the finally clause that releases the lock.
Leave(c, result) ==
    IF c \in guarded'
       THEN /\ at' = [at EXCEPT ![c] = "unlock"]
            /\ outcome' = [outcome EXCEPT ![c] = result]
            /\ UNCHANGED <<answer, flightVars>>
       ELSE Finish(c, result) /\ UNCHANGED outcome

\* A waiter wakes up.
Wake(c) ==
    /\ Runs(c, {"wait"})
    /\ Flights!Wake(c)
    /\ at' = [at EXCEPT ![c] = "end"]
    /\ answer' = [answer EXCEPT ![c] = Resolve(c, returned'[c])]
    /\ UNCHANGED <<up, cacheVars, lockVars, reply, stale, polls, outcome>>

-----------------------------------------------------------------------------
\* Reading the cache first

\* A live envelope is returned; a soft-expired one schedules a refresh, unless
\* a flight of the key is registered at this moment.
Hit(c, e) ==
    LET refreshes == age[e] = "soft" /\ futures[Home(c)] = None
    IN  /\ answer' = [answer EXCEPT ![c] = Value(e)]
        /\ at' = [at EXCEPT ![c] = "end",
                            ![Refresh(c)] = IF refreshes THEN "spawned" ELSE @]
        /\ stale' = [stale EXCEPT ![Refresh(c)] = IF refreshes THEN e ELSE @]
        /\ UNCHANGED flightVars

\* get_or_load up to its first suspension.  get_stale gives the L1 entry even
\* when it is hard expired, and then Redis is not asked.
Start(c) ==
    /\ Runs(c, {"idle"}) /\ IsRequest(c)
    /\ LET e == l1[Home(c)]
       IN  \/ e = None /\ at' = [at EXCEPT ![c] = "read"]
                       /\ UNCHANGED <<stale, answer, flightVars>>
           \/ Unexpired(e) /\ Hit(c, e)
           \/ e # None /\ ~Unexpired(e) /\ EnterFlight(c)
                       /\ stale' = [stale EXCEPT ![c] = e]
    /\ UNCHANGED <<up, cacheVars, lockVars, reply, polls, outcome>>

\* Redis answers a GET; an error is taken for a miss.
Read(c) ==
    /\ Runs(c, {"read", "poll"})
    /\ reply[c] = Unread
    /\ \E e \in {l2} \cup (IF "redis" \in Faults THEN {None} ELSE {}) :
           reply' = [reply EXCEPT ![c] = e]
    /\ UNCHANGED <<up, cacheVars, lockVars, at, stale, polls, outcome, answer,
                   flightVars>>

\* The rest of get_or_load's read: a live reply is copied to L1.
ReadFirst(c) ==
    /\ Runs(c, {"read"}) /\ reply[c] # Unread
    /\ reply' = [reply EXCEPT ![c] = Unread]
    /\ IF Unexpired(reply[c])
          THEN Hit(c, reply[c]) /\ l1' = [l1 EXCEPT ![Home(c)] = reply[c]]
          ELSE /\ EnterFlight(c)
               /\ stale' = [stale EXCEPT ![c] = reply[c]]
               /\ UNCHANGED l1
    /\ UNCHANGED <<up, l2, age, lockVars, polls, outcome>>

\* Fault: the refresh registers its flight without looking for one under way.
StartRefreshAnyway(c) ==
    /\ Runs(c, {"spawned"})
    /\ futures' = [futures EXCEPT ![Home(c)] = c]
    /\ key' = [key EXCEPT ![c] = Home(c)]
    /\ joined' = [joined EXCEPT ![c] = c]
    /\ phase' = [phase EXCEPT ![c] = "loading"]
    /\ at' = [at EXCEPT ![c] = "lock"]
    /\ UNCHANGED <<up, cacheVars, lockVars, reply, stale, polls, outcome, answer,
                   future, produced, returned, asked>>

\* _background_refresh starts.
StartRefresh(c) ==
    /\ Runs(c, {"spawned"})
    /\ EnterFlight(c)
    /\ UNCHANGED <<up, cacheVars, lockVars, reply, stale, polls, outcome>>

-----------------------------------------------------------------------------
\* Waiting for another instance's value, under and after the distributed lock

\* _get_envelope up to its read of Redis.  An expired L1 entry is removed.
LookUp(c) ==
    LET e == l1[Home(c)]
    IN  IF Unexpired(e)
           THEN Leave(c, Value(e)) /\ UNCHANGED l1
           ELSE /\ at' = [at EXCEPT ![c] = "poll"]
                /\ l1' = [l1 EXCEPT ![Home(c)] = None]
                /\ UNCHANGED <<outcome, answer, flightVars>>

\* Faults: polling for ever; counting on after the last poll.
PollForEver(c) ==
    /\ at' = [at EXCEPT ![c] = IF polls[c] > 0 THEN "sleep" ELSE "load"]
    /\ UNCHANGED polls

CountOn(c) ==
    /\ at' = [at EXCEPT ![c] = CASE polls[c] > 1 -> "sleep"
                                 [] polls[c] = 1 -> "relock"
                                 [] polls[c] = 0 -> "load"]
    /\ polls' = [polls EXCEPT ![c] = @ - 1]

\* Nothing was found: poll again, or try the lock again, or load after all.
NotFound(c) ==
    /\ at' = [at EXCEPT ![c] = IF polls[c] > 1 THEN "sleep"
                              ELSE IF polls[c] = 1 THEN "relock" ELSE "load"]
    /\ polls' = [polls EXCEPT ![c] = IF @ > 0 THEN @ - 1 ELSE @]

\* Fault: SET without NX.
LockTaken(c) ==
    /\ lock' = c
    /\ tokens' = [tokens EXCEPT ![Home(c)] = c]
    /\ guarded' = guarded \cup {c}

\* SET key token NX PX.  On an error the lock may be taken without the instance
\* having a token for it.
LockWon(c) ==
    /\ lock = None
    /\ lock' = c
    /\ tokens' = [tokens EXCEPT ![Home(c)] = c]
    /\ guarded' = guarded \cup {c}

LockLost(c) ==
    /\ \/ lock # None /\ UNCHANGED lock
       \/ "redis" \in Faults /\ lock' \in {lock, IF lock = None THEN c ELSE lock}
    /\ UNCHANGED <<tokens, guarded>>

\* _load_and_store_with_lock: the winner loads at once, without a second look at
\* the cache; the others wait.
TryLock(c) ==
    /\ Runs(c, {"lock"})
    /\ \/ LockWon(c) /\ at' = [at EXCEPT ![c] = "load"] /\ UNCHANGED polls
       \/ /\ LockLost(c)
          /\ at' = [at EXCEPT ![c] = "sleep"]
          /\ polls' = [polls EXCEPT ![c] = Polls]
    /\ UNCHANGED <<up, cacheVars, expired, reply, stale, outcome, answer, flightVars>>

\* lock_sleep_interval is over.
Poll(c) ==
    /\ Runs(c, {"sleep"})
    /\ UNCHANGED <<up, l2, age, lockVars, reply, stale, polls>>
    /\ LookUp(c)

\* The second attempt, after the polls: whoever gets the lock, and whoever does
\* not, looks at the cache once more.
TryLockAgain(c) ==
    /\ Runs(c, {"relock"})
    /\ LockWon(c) \/ LockLost(c)
    /\ UNCHANGED <<up, l2, age, expired, reply, stale, polls>>
    /\ LookUp(c)

\* The rest of _get_envelope: a live reply is copied to L1 and returned, an
\* expired one is to be deleted from Redis.
Polled(c) ==
    /\ Runs(c, {"poll"}) /\ reply[c] # Unread
    /\ reply' = [reply EXCEPT ![c] = Unread]
    /\ UNCHANGED <<up, l2, age, lockVars, stale>>
    /\ \/ /\ Unexpired(reply[c])
          /\ l1' = [l1 EXCEPT ![Home(c)] = reply[c]]
          /\ Leave(c, Value(reply[c]))
          /\ UNCHANGED polls
       \/ /\ reply[c] = None
          /\ NotFound(c)
          /\ UNCHANGED <<l1, outcome, answer, flightVars>>
       \/ /\ reply[c] # None /\ ~Unexpired(reply[c])
          /\ at' = [at EXCEPT ![c] = "drop"]
          /\ UNCHANGED <<l1, polls, outcome, answer, flightVars>>

\* A Redis write that may fail, before or after the server executed it.
Written(old, new) == IF "redis" \in Faults THEN {old, new} ELSE {new}

\* DEL of the entry that was read, whatever the entry is by now.
Drop(c) ==
    /\ Runs(c, {"drop"})
    /\ l2' \in Written(l2, None)
    /\ NotFound(c)
    /\ UNCHANGED <<up, l1, age, lockVars, reply, stale, outcome, answer, flightVars>>

-----------------------------------------------------------------------------
\* Loading, storing, releasing the lock

\* The loader returns; _write_envelope stores to L1 and goes on to Redis.
LoaderReturns(c) ==
    /\ Runs(c, {"load"})
    /\ age' = [age EXCEPT ![c] = "fresh"]
    /\ l1' = [l1 EXCEPT ![Home(c)] = c]
    /\ at' = [at EXCEPT ![c] = "store"]
    /\ UNCHANGED <<up, l2, lockVars, reply, stale, polls, outcome, answer, flightVars>>

\* The loader raises or times out.  A request's fallback is taken right here, and
\* is the result of the flight.
LoaderRaises(c) ==
    /\ "loader" \in Faults
    /\ Runs(c, {"load"})
    /\ UNCHANGED <<up, cacheVars, lockVars, reply, stale, polls>>
    /\ Leave(c, IF IsRequest(c) /\ c[1] \in Fallbacks THEN Value(Default) ELSE Error)

\* SET of the new envelope; L1 has it, so an error of Redis goes unnoticed.
Store(c) ==
    /\ Runs(c, {"store"})
    /\ l2' \in Written(l2, c)
    /\ UNCHANGED <<up, l1, age, lockVars, reply, stale, polls>>
    /\ Leave(c, Value(c))

\* Fault: DEL without comparing the token.
ReleasedAnyway(c) == None

\* The script of release_lock: delete the lock if it holds our token.
Released(c) == IF lock = tokens[Home(c)] THEN None ELSE lock

\* release_lock forgets the token even when the script fails.
Unlock(c) ==
    /\ Runs(c, {"unlock"})
    /\ lock' \in Written(lock, Released(c))
    /\ tokens' = [tokens EXCEPT ![Home(c)] = None]
    /\ guarded' = guarded \ {c}
    /\ Finish(c, outcome[c])
    /\ UNCHANGED <<up, cacheVars, expired, reply, stale, polls, outcome>>

-----------------------------------------------------------------------------
\* Cancellation

\* Before the flight the task just ends; one that waits for the shared future
\* cancels that and goes on from Wake.
CancelOutside(c) ==
    /\ \/ /\ Runs(c, {"read", "spawned"})
          /\ at' = [at EXCEPT ![c] = "end"]
          /\ answer' = [answer EXCEPT ![c] = Cancelled]
          /\ reply' = [reply EXCEPT ![c] = Unread]
          /\ UNCHANGED flightVars
       \/ /\ Runs(c, {"wait"})
          /\ Flights!CancelWaiter(c)
          /\ UNCHANGED <<at, answer, reply>>
    /\ UNCHANGED <<up, cacheVars, lockVars, stale, polls, outcome>>

\* In the factory, a command that was sent may still be executed; a guarded task
\* goes on to release the lock.
CancelFactory(c) ==
    /\ Runs(c, {"lock", "sleep", "relock", "poll", "drop", "load", "store"})
    /\ lock' \in {lock} \cup
           (IF at[c] \in {"lock", "relock"} /\ lock = None THEN {c} ELSE {})
    /\ l2' \in {l2} \cup (CASE at[c] = "store" -> {c}
                            [] at[c] = "drop" -> {None}
                            [] OTHER -> {})
    /\ reply' = [reply EXCEPT ![c] = Unread]
    /\ UNCHANGED <<up, l1, age, tokens, guarded, expired, stale, polls>>
    /\ Leave(c, Cancelled)

\* A task that is cancelled while it releases the lock forgets the token.
CancelUnlock(c) ==
    /\ Runs(c, {"unlock"})
    /\ lock' \in {lock, Released(c)}
    /\ tokens' = [tokens EXCEPT ![Home(c)] = None]
    /\ guarded' = guarded \ {c}
    /\ Finish(c, Cancelled)
    /\ UNCHANGED <<up, cacheVars, expired, reply, stale, polls, outcome>>

Cancel(c) ==
    /\ c \in Cancellable
    /\ CancelOutside(c) \/ CancelFactory(c) \/ CancelUnlock(c)

-----------------------------------------------------------------------------
\* The environment

\* The lock's time to live is over, whether or not its holder is done.
LockExpires ==
    /\ "expire" \in Faults
    /\ lock # None
    /\ lock' = None
    /\ expired' = expired \cup ({lock} \cap guarded)
    /\ UNCHANGED <<up, cacheVars, tokens, guarded, at, reply, stale, polls, outcome,
                   answer, flightVars>>

\* Time passes for an envelope.
Age(e) ==
    /\ "age" \in Faults
    /\ age[e] \in {"fresh", "soft"}
    /\ age' = [age EXCEPT ![e] = IF @ = "fresh" THEN "soft" ELSE "hard"]
    /\ UNCHANGED <<up, l1, l2, lockVars, at, reply, stale, polls, outcome, answer,
                   flightVars>>

\* The LRU bound of an L1, or the time to live or memory bound of Redis.
Evict ==
    /\ "evict" \in Faults
    /\ \/ l2 # None /\ l2' = None /\ UNCHANGED l1
       \/ \E i \in Instances :
              l1[i] # None /\ l1' = [l1 EXCEPT ![i] = None] /\ UNCHANGED l2
    /\ UNCHANGED <<up, age, lockVars, at, reply, stale, polls, outcome, answer,
                   flightVars>>

\* An instance dies; its tasks take no further step.
Crash(i) ==
    /\ "crash" \in Faults
    /\ i \in up
    /\ up' = up \ {i}
    /\ UNCHANGED <<cacheVars, lockVars, at, reply, stale, polls, outcome, answer,
                   flightVars>>

-----------------------------------------------------------------------------

\* What a task does by itself once it was started.
Proceed(c) ==
    \/ Read(c) \/ ReadFirst(c) \/ StartRefresh(c)
    \/ TryLock(c) \/ Poll(c) \/ TryLockAgain(c) \/ Polled(c) \/ Drop(c)
    \/ LoaderReturns(c) \/ LoaderRaises(c) \/ Store(c) \/ Unlock(c)
    \/ Wake(c)

Next ==
    \/ \E c \in Tasks : Start(c) \/ Proceed(c) \/ Cancel(c)
    \/ LockExpires
    \/ \E e \in Envelopes : Age(e)
    \/ Evict
    \/ \E i \in Instances : Crash(i)

\* The event loop of a live instance runs every task that can go on; Redis
\* answers or times out, and the loader ends.
Fairness == \A c \in Tasks : WF_vars(Proceed(c))

Spec == Init /\ [][Next]_vars

FairSpec == Spec /\ Fairness

-----------------------------------------------------------------------------

Places == {"idle", "read", "spawned", "lock", "sleep", "relock", "poll", "drop",
           "load", "store", "unlock", "wait", "end"}

FactoryPlaces == {"lock", "sleep", "relock", "poll", "drop", "load", "store", "unlock"}

\* Every variable of this module holds a value of its kind.
GLTypeOK ==
    /\ up \subseteq Instances
    /\ at \in [Tasks -> Places]
    /\ l1 \in [Instances -> Envelopes \cup {None}]
    /\ l2 \in Envelopes \cup {None}
    /\ age \in [Envelopes -> {"unborn", "fresh", "soft", "hard"}]
    /\ lock \in Tasks \cup {None}
    /\ tokens \in [Instances -> Tasks \cup {None}]
    /\ guarded \subseteq Tasks
    /\ expired \subseteq Tasks
    /\ reply \in [Tasks -> Envelopes \cup {None, Unread}]
    /\ stale \in [Tasks -> Envelopes \cup {None}]
    /\ polls \in [Tasks -> 0..Polls]
    /\ outcome \in [Tasks -> Flights!Outcomes \cup {Pending}]
    /\ answer \in [Tasks -> Flights!Outcomes \cup {Pending}]

\* The distributed lock protects: while a task is inside the try block of a lock
\* it acquired, and that lock did not expire, Redis holds the task's own token and
\* the instance remembers it.  Hence two such tasks never overlap, whatever is
\* cancelled, lost, expired or crashed.
LockProtects ==
    \A c \in guarded \ expired : lock = c /\ tokens[Home(c)] = c

\* Nobody but its holder, and the time to live, removes a lock: a task whose lock
\* expired never releases the lock that another one took meanwhile.
ReleaseOnlyOwn ==
    [][lock # None /\ lock' # lock =>
           /\ lock' = None
           /\ \/ at[lock] = "unlock" /\ at'[lock] = "end"
              \/ at' = at /\ LockExpires]_vars

\* Without lost replies and cancellations a lock belongs to a task that will still
\* release it: no path out of the try block leaves the lock behind.
NoLockLeftBehind ==
    lock # None /\ "redis" \notin Faults /\ Cancellable = {} =>
        lock \in guarded /\ at[lock] # "end"

\* A task is in the factory of a flight exactly while it leads one, so that an
\* instance never runs two loads, or two lock protocols, for the key.
OneFactoryPerInstance ==
    \A c, d \in Tasks :
        /\ at[c] \in FactoryPlaces
        /\ at[d] \in FactoryPlaces
        /\ Home(c) = Home(d)
        => c = d /\ futures[Home(c)] = c

\* Requests and refreshes use the single-flight groups of their instances as
\* SingleFlight says: whatever the cache, the lock and the fallbacks do around
\* them, a flight is entered, ended and cancelled by its own calls only.
ImplementsSingleFlight == Flights!SFSpec

\* get_or_load falls back on the expired envelope it found only when the load of
\* its flight failed, or when it led the flight and one of its waiters was
\* cancelled, which makes the leader fail.  (The flight itself may also have
\* loaded that envelope, and been slow to release its lock.)
StaleOnlyOnFailure ==
    \A c \in Tasks :
        /\ IsRequest(c)
        /\ stale[c] # None
        /\ answer[c] = Value(stale[c])
        /\ answer[c] # returned[c]
        =>
            \/ produced[joined[c]] = Error
            \/ \E d \in asked \ {c} : joined[d] = c /\ joined[c] = c

\* Every request is answered and every refresh ends, unless the instance crashes
\* or the task that led the flight was cancelled.  A lock whose holder died, or
\* that is held again and again, delays the others but never stops them.
TasksEnd ==
    \A c \in Tasks :
        at[c] \notin {"idle", "end"} ~>
            \/ at[c] = "end"
            \/ Home(c) \notin up
            \/ \E d \in Cancellable : Home(d) = Home(c) /\ produced[d] = Cancelled

\* "Refreshes the stale cache in the background" (the docstring of
\* _background_refresh): a refresh that is recorded as a success got some other
\* envelope than the one that is to be refreshed.
RefreshRefreshes ==
    \A c \in Tasks : ~IsRequest(c) /\ answer[c].kind = "value" =>
        answer[c] # Value(stale[c])

=============================================================================
