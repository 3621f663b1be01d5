----------------------------- MODULE Lifecycle -----------------------------
(***************************************************************************)
(* The tasks of one CacheManager: what start() and close() begin, await    *)
(* and cancel, between them the background refreshes, the periodic warmup, *)
(* the listener of the broadcaster and the tasks of get_many_or_load.      *)
(*                                                                         *)
(* The application is a task that starts the manager, serves and closes    *)
(* it, as the lifespan of integrations/fastapi.py does, perhaps again and  *)
(* again.  It closes a manager when its own calls are over.  `app' is the  *)
(* await at which that task is suspended; what it does up to the next one  *)
(* is one step.  Of a load only matters whether it raises, and of a read   *)
(* whether it schedules a refresh.                                         *)
(***************************************************************************)
EXTENDS Naturals

CONSTANTS
    Refreshes,  \* the tasks of _schedule_background_refresh
    Periodics,  \* the tasks of run_periodic, one for each start: bounds the starts
    BatchSize,  \* the number of keys of the call of get_many_or_load
    Features,   \* what is configured, of AllFeatures
    Faults,     \* what may fail, of AllFaults
    None

\* Broadcasting, warmup in start(), warmup after start() (by the lifespan), and the
\* periodic warmup.
AllFeatures == {"broadcast", "startup", "lifespan", "periodic"}

\* get_message or the handler of the listener, a Redis command of start() or close(),
\* a loader; a load that several share, as another of them is cancelled.
AllFaults == {"listener", "redis", "loader", "sharer"}

Tasks == Refreshes \cup Periodics
Children == 1..BatchSize

ASSUME FeaturesAssumption == Features \subseteq AllFeatures /\ Faults \subseteq AllFaults
ASSUME BatchAssumption == BatchSize \in Nat
ASSUME TasksAssumption == Refreshes \cap Periodics = {} /\ None \notin Tasks

VARIABLES
    app,        \* where the application's task is
    pubsub,     \* is there a self._pubsub?
    listener,   \* self._listener_task: "none", "running", "cancelling" or "dead"
    task,       \* of each task: "none", "running", "cancelling", "failed" or "ended"
    tracked,    \* self._background_tasks
    todo,       \* close(): the tasks it has not come to yet
    awaited,    \* close(): the task it awaits
    call,       \* the call of get_many_or_load
    child,      \* the tasks it creates
    waits,      \* the one of them that the caller awaits
    late        \* history: the refreshes scheduled after close() listed the tasks

closeVars == <<todo, awaited>>
batchVars == <<call, child, waits>>
lifeVars == <<app, pubsub, listener, task, tracked, closeVars, batchVars, late>>

Closing == {"cancel", "unlisten", "unsubscribe", "backends"}

Alive(t) == task[t] \in {"running", "cancelling"}

\* How a get_or_load may end without a value.
LoadFailures ==
    (IF "loader" \in Faults THEN {"failed"} ELSE {})
    \cup (IF "sharer" \in Faults THEN {"cancelled"} ELSE {})

LifeInit ==
    /\ app = "down"
    /\ pubsub = FALSE
    /\ listener = "none"
    /\ task = [t \in Tasks |-> "none"]
    /\ tracked = {}
    /\ todo = {}
    /\ awaited = None
    /\ call = "idle"
    /\ child = [k \in Children |-> "idle"]
    /\ waits = 1
    /\ late = {}

-----------------------------------------------------------------------------
\* start()

\* Fault: the periodic task is not added to the background tasks.
StartUntracked ==
    /\ app' = IF "lifespan" \in Features THEN "lifespan" ELSE "serving"
    /\ IF "periodic" \in Features
          THEN \E p \in Periodics : task[p] = "none" /\ task' = [task EXCEPT ![p] = "running"]
          ELSE UNCHANGED task
    /\ UNCHANGED tracked

\* The rest of _start_warmup_tasks, and of start().
StartPeriodic ==
    /\ app' = IF "lifespan" \in Features THEN "lifespan" ELSE "serving"
    /\ IF "periodic" \in Features
          THEN \E p \in Periodics :
                   /\ task[p] = "none"
                   /\ task' = [task EXCEPT ![p] = "running"]
                   /\ tracked' = tracked \cup {p}
          ELSE UNCHANGED <<task, tracked>>

\* _start_warmup_tasks.
WarmUp ==
    IF "startup" \in Features
       THEN app' = "warmup" /\ UNCHANGED <<task, tracked>>
       ELSE StartPeriodic

\* The broadcaster subscribes unless it has a listener task, dead or alive.  (The
\* callbacks of tasks that ended have run since the manager was closed.)
Start ==
    /\ app \in {"down", "aborted"}
    /\ \E p \in Periodics : task[p] = "none"
    /\ \A t \in tracked : Alive(t)
    /\ IF "broadcast" \in Features /\ listener = "none"
          THEN /\ app' = "subscribe" /\ pubsub' = TRUE
               /\ UNCHANGED <<task, tracked>>
          ELSE WarmUp /\ UNCHANGED pubsub
    /\ UNCHANGED <<listener, closeVars, batchVars, late>>

\* SUBSCRIBE, then the listener is started.
Subscribe ==
    /\ app = "subscribe"
    /\ \/ listener' = "running" /\ WarmUp
       \/ /\ "redis" \in Faults
          /\ app' = "failed"
          /\ UNCHANGED <<listener, task, tracked>>
    /\ UNCHANGED <<pubsub, closeVars, batchVars, late>>

\* The items of the warmup are loaded one after the other; the first that raises ends
\* start(), and what was started so far goes on.
WarmupRaises == LoadFailures # {} /\ app' = "failed"

StartupWarmup ==
    /\ app = "warmup"
    /\ \/ StartPeriodic
       \/ WarmupRaises /\ UNCHANGED <<task, tracked>>
    /\ UNCHANGED <<pubsub, listener, closeVars, batchVars, late>>

\* Likewise the warmup of the lifespan, which does not close the manager either.
LifespanWarmup ==
    /\ app = "lifespan"
    /\ \/ app' = "serving"
       \/ WarmupRaises
    /\ UNCHANGED <<pubsub, listener, task, tracked, closeVars, batchVars, late>>

-----------------------------------------------------------------------------
\* get_many_or_load

\* One task for each key; the caller awaits the first.
CallBatch ==
    /\ app = "serving" /\ call = "idle"
    /\ call' = IF BatchSize = 0 THEN "returned" ELSE "waiting"
    /\ child' = [k \in Children |-> "running"]
    /\ waits' = 1
    /\ UNCHANGED <<app, pubsub, listener, task, tracked, closeVars, late>>

Runs(k) == child[k] \in {"running", "cancelling"}

\* A task ends.  One that was cancelled raises, unless its loader kept the CancelledError
\* to itself.
ChildEnds(k) ==
    /\ Runs(k)
    /\ \E result \in {"value"} \cup LoadFailures
                     \cup (IF child[k] = "cancelling" THEN {"cancelled"} ELSE {}) :
           child' = [child EXCEPT ![k] = result]
    /\ UNCHANGED <<app, pubsub, listener, task, tracked, closeVars, call, waits, late>>

\* The tasks from the awaited one on returned, up to that of key w.
Reaches(w) == w >= waits /\ \A j \in waits..(w - 1) : child[j] = "value"

\* The call raises what the task raised.
Raises(w) ==
    \/ child[w] = "failed" /\ call' = "raised"
    \/ child[w] = "cancelled" /\ call' = "cancelled"

\* Fault: the first failure of any task is raised.
BatchResumesAtAny ==
    /\ call = "waiting"
    /\ \/ Reaches(BatchSize + 1) /\ call' = "returned" /\ UNCHANGED waits
       \/ \E w \in Children : waits' = w /\ Raises(w)
       \/ \E w \in Children :
              /\ w > waits /\ Reaches(w) /\ Runs(w)
              /\ waits' = w /\ UNCHANGED call
    /\ UNCHANGED <<app, pubsub, listener, task, tracked, closeVars, child, late>>

\* The caller is resumed when the task it awaits has ended.  It does not suspend at tasks
\* that returned; at the first that raised it raises, and those behind run on with nobody
\* to await them.
BatchResumes ==
    /\ call = "waiting" /\ ~Runs(waits)
    /\ \/ Reaches(BatchSize + 1) /\ call' = "returned" /\ UNCHANGED waits
       \/ \E w \in Children :
              /\ Reaches(w) /\ waits' = w
              /\ Raises(w) \/ (Runs(w) /\ UNCHANGED call)
    /\ UNCHANGED <<app, pubsub, listener, task, tracked, closeVars, child, late>>

\* The caller is cancelled.  If the task it awaits runs, that one is cancelled in its
\* place; if it has ended and the caller was not resumed yet, the caller raises
\* CancelledError where it stands, and cancels none.
CancelBatch ==
    /\ call = "waiting"
    /\ \/ /\ child[waits] = "running"
          /\ child' = [child EXCEPT ![waits] = "cancelling"]
          /\ UNCHANGED call
       \/ /\ ~Runs(waits)
          /\ call' = "cancelled"
          /\ UNCHANGED child
    /\ UNCHANGED <<app, pubsub, listener, task, tracked, closeVars, waits, late>>

-----------------------------------------------------------------------------
\* Background tasks

\* Some get_or_load is under way that may find a soft-expired envelope: of the
\* application, of a warmup or of get_many_or_load.
Reading ==
    \/ app \in {"warmup", "lifespan", "serving"}
    \/ \E p \in Periodics : task[p] = "running"
    \/ \E k \in Children : Runs(k)

\* _schedule_background_refresh.
Schedule(t) ==
    /\ task[t] = "none" /\ Reading
    /\ task' = [task EXCEPT ![t] = "running"]
    /\ tracked' = tracked \cup {t}
    /\ late' = IF app \in Closing \cup {"down", "aborted"} THEN late \cup {t} ELSE late
    /\ UNCHANGED <<app, pubsub, listener, closeVars, batchVars>>

\* A refresh ends by itself, and raises nothing; a task that is cancelled ends.
TaskEnds(t) ==
    /\ task[t] = "cancelling" \/ (t \in Refreshes /\ task[t] = "running")
    /\ task' = [task EXCEPT ![t] = "ended"]
    /\ UNCHANGED <<app, pubsub, listener, tracked, closeVars, batchVars, late>>

\* run_periodic ends when an item raises, or is cancelled.
PeriodicFails(t) ==
    /\ task[t] = "running"
    /\ \E failure \in LoadFailures :
           task' = [task EXCEPT ![t] = IF failure = "failed" THEN "failed" ELSE "ended"]
    /\ UNCHANGED <<app, pubsub, listener, tracked, closeVars, batchVars, late>>

\* The callback of a task that ended runs, in a later iteration of the event loop.
Discard(t) ==
    /\ t \in tracked /\ task[t] \in {"failed", "ended"}
    /\ tracked' = tracked \ {t}
    /\ UNCHANGED <<app, pubsub, listener, task, closeVars, batchVars, late>>

\* An exception of get_message or of the handler ends the listener task.
ListenerDies ==
    /\ "listener" \in Faults
    /\ listener = "running"
    /\ listener' = "dead"
    /\ UNCHANGED <<app, pubsub, task, tracked, closeVars, batchVars, late>>

-----------------------------------------------------------------------------
\* close()

\* close() raises, and leaves what it has not come to.
Abort == app' = "aborted" /\ todo' = {} /\ awaited' = None

\* Fault: the subscription is given up before the listener.
UnsubscribeFirst ==
    /\ todo' = {} /\ awaited' = None
    /\ pubsub' = FALSE
    /\ app' = IF listener = "none" THEN "backends" ELSE "unlisten"
    /\ UNCHANGED listener

\* The broadcaster is closed: its listener is cancelled and awaited, and if it died
\* its exception is raised here.  Then there is the subscription to give up.
CloseBroadcaster ==
    \/ /\ listener = "dead"
       /\ Abort
       /\ UNCHANGED <<listener, pubsub>>
    \/ /\ listener # "dead"
       /\ todo' = {} /\ awaited' = None
       /\ app' = IF listener = "running" THEN "unlisten"
                 ELSE IF pubsub THEN "unsubscribe" ELSE "backends"
       /\ listener' = IF listener = "running" THEN "cancelling" ELSE listener
       /\ UNCHANGED pubsub

\* Fault: the tasks are awaited but not cancelled.
AwaitNext(S) ==
    \/ /\ \E t \in S :
              /\ task[t] = "running"
              /\ todo' = S \ {t}
              /\ awaited' = t
       /\ app' = "cancel"
       /\ UNCHANGED <<listener, pubsub, task>>
    \/ /\ \E t \in S : task[t] = "failed"
       /\ Abort
       /\ UNCHANGED <<listener, pubsub, task>>
    \/ (\A t \in S : task[t] = "ended") /\ CloseBroadcaster /\ UNCHANGED task

\* The loop over the listed tasks, from these on: one that runs is cancelled and
\* awaited; one that ended is not waited for, but what it raised is raised.
CancelNext(S) ==
    \/ /\ \E t \in S :
              /\ task[t] = "running"
              /\ task' = [task EXCEPT ![t] = "cancelling"]
              /\ todo' = S \ {t}
              /\ awaited' = t
       /\ app' = "cancel"
       /\ UNCHANGED <<listener, pubsub>>
    \/ /\ \E t \in S : task[t] = "failed"
       /\ Abort
       /\ UNCHANGED <<listener, pubsub, task>>
    \/ (\A t \in S : task[t] = "ended") /\ CloseBroadcaster /\ UNCHANGED task

\* Fault: a broken broadcaster is noticed before the tasks are cancelled.
CloseBroadcasterFirst ==
    /\ app \in {"serving", "failed", "aborted"} /\ call # "waiting"
    /\ late' = {}
    /\ IF listener = "dead" THEN Abort /\ UNCHANGED <<listener, pubsub, task>>
                            ELSE CancelNext(tracked)
    /\ UNCHANGED <<tracked, batchVars>>

Close ==
    /\ app \in {"serving", "failed", "aborted"} /\ call # "waiting"
    /\ late' = {}
    /\ CancelNext(tracked)
    /\ UNCHANGED <<tracked, batchVars>>

\* Fault: the CancelledError of the task is not suppressed.
AwaitedRaises ==
    /\ app = "cancel" /\ task[awaited] = "ended"
    /\ Abort
    /\ UNCHANGED <<pubsub, listener, task, tracked, batchVars, late>>

\* The task that close() awaits has ended.
AwaitedEnds ==
    /\ app = "cancel" /\ task[awaited] = "ended"
    /\ CancelNext(todo)
    /\ UNCHANGED <<tracked, batchVars, late>>

ListenerEnds ==
    /\ app = "unlisten"
    /\ listener' = "none"
    /\ app' = "unsubscribe"
    /\ UNCHANGED <<pubsub, task, tracked, closeVars, batchVars, late>>

\* UNSUBSCRIBE; then the client of the broadcaster is closed.
Unsubscribe ==
    /\ app = "unsubscribe"
    /\ \/ pubsub' = FALSE /\ app' = "backends"
       \/ "redis" \in Faults /\ app' = "aborted" /\ UNCHANGED pubsub
    /\ UNCHANGED <<listener, task, tracked, closeVars, batchVars, late>>

\* The backends are closed, Redis first.
CloseBackends ==
    /\ app = "backends"
    /\ \/ app' = "down"
       \/ "redis" \in Faults /\ app' = "aborted"
    /\ UNCHANGED <<pubsub, listener, task, tracked, closeVars, batchVars, late>>

-----------------------------------------------------------------------------

LifeNext ==
    \/ Start \/ Subscribe \/ StartupWarmup \/ LifespanWarmup
    \/ CallBatch \/ BatchResumes \/ CancelBatch \/ \E k \in Children : ChildEnds(k)
    \/ \E t \in Refreshes : Schedule(t)
    \/ \E t \in Periodics : PeriodicFails(t)
    \/ \E t \in Tasks : TaskEnds(t) \/ Discard(t)
    \/ ListenerDies
    \/ Close \/ AwaitedEnds \/ ListenerEnds \/ Unsubscribe \/ CloseBackends

LifeSpec == LifeInit /\ [][LifeNext]_lifeVars

\* The event loop runs what can go on: a cancelled task ends, and close() is resumed;
\* Redis answers or its client gives up.
LifeFairness ==
    /\ \A t \in Tasks : WF_lifeVars(task[t] = "cancelling" /\ TaskEnds(t))
    /\ WF_lifeVars(AwaitedEnds)
    /\ WF_lifeVars(ListenerEnds)
    /\ WF_lifeVars(Unsubscribe)
    /\ WF_lifeVars(CloseBackends)

LifeFairSpec == LifeSpec /\ LifeFairness

-----------------------------------------------------------------------------

\* Every variable holds a value of its kind, close() is in its loop exactly while it
\* awaits a task, and a listener that runs has a subscription to read from.
LifeTypeOK ==
    /\ app \in {"down", "subscribe", "warmup", "lifespan", "serving", "failed", "aborted"}
               \cup Closing
    /\ pubsub \in BOOLEAN
    /\ listener \in {"none", "running", "cancelling", "dead"}
    /\ task \in [Tasks -> {"none", "running", "cancelling", "failed", "ended"}]
    /\ tracked \subseteq Tasks
    /\ todo \subseteq Tasks
    /\ awaited \in Tasks \cup {None}
    /\ app = "cancel" <=> awaited # None
    /\ listener = "cancelling" <=> app = "unlisten"
    /\ listener # "none" => pubsub
    /\ call \in {"idle", "waiting", "returned", "raised", "cancelled"}
    /\ child \in [Children -> {"idle", "running", "cancelling", "value", "failed", "cancelled"}]
    /\ waits \in Nat \ {0} /\ (call = "waiting" => waits \in Children)
    /\ late \subseteq Refreshes

\* When close() has returned, the listener and its subscription are gone, and of the
\* background tasks only those live on that were scheduled while close() was under
\* way or later, by a warmup that it had yet to cancel or by a task that nobody awaits.
ClosedIsQuiet ==
    app = "down" =>
        /\ listener = "none" /\ ~pubsub
        /\ \A t \in Tasks : Alive(t) => t \in late

\* A close() that raised has still ended every background task and the listener, or
\* has found it dead, unless it was the exception of a periodic warmup that it raised:
\* that of a broken listener, or of Redis, comes after all of them.
LeftBehindHasACause ==
    app = "aborted" /\ (listener = "running" \/ \E t \in Tasks : Alive(t) /\ t \notin late)
        => \E p \in Periodics : task[p] = "failed"

\* However often the manager is started and closed, and even if close() raises in
\* between, no two periodic warmups run at a time.
OnePeriodic == \A p, q \in Periodics : Alive(p) /\ Alive(q) => p = q

\* A task of get_many_or_load is left without anybody to await it only when the task
\* of a key before it failed or was cancelled, or when the caller was cancelled between the
\* return of the task it awaited and its own resumption: then no task is cancelled.
UnattendedHasACause ==
    \A k \in Children :
        Runs(k) /\ call # "waiting" =>
            \/ \E j \in 1..(k - 1) : child[j] \in {"failed", "cancelled"}
            \/ call = "cancelled" /\ waits < k /\ child[waits] = "value"

\* close() ends, whatever the tasks do that it cancels.
CloseEnds == app \in Closing ~> app \in {"down", "aborted"}

=============================================================================
