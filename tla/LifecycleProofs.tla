-------------------------- MODULE LifecycleProofs --------------------------
(***************************************************************************)
(* What Lifecycle promises, for any number of tasks, starts and keys and   *)
(* whatever may fail.                                                      *)
(*                                                                         *)
(* The properties are about the moments at which close() is over; they     *)
(* follow from what holds while it is under way: every task that lives is  *)
(* tracked, so the tasks it lists are all there are, and one that lives    *)
(* later is in its list still, or came too late for it.                    *)
(***************************************************************************)
EXTENDS Lifecycle, TLAPS

\* No task escapes the bookkeeping, and a refresh does not fail.
TasksTracked ==
    /\ \A t \in Tasks : Alive(t) => t \in tracked
    /\ \A t \in Tasks : task[t] = "failed" => t \in Periodics

\* What is left to do after the loop of close(), and how far close() has come.
CloseProgress ==
    /\ \A t \in Tasks : app = "cancel" /\ Alive(t) => t \in todo \cup {awaited} \cup late
    /\ \A t \in Tasks :
           app \in {"unlisten", "unsubscribe", "backends", "down"} /\ Alive(t) => t \in late
    /\ app \in {"unsubscribe", "backends", "down", "subscribe"} => listener = "none"
    /\ app \in {"backends", "down"} => ~pubsub
    /\ app = "subscribe" => pubsub
    /\ app # "cancel" => todo = {}

\* Of the tasks that are tracked, or that close() has listed, one at most is periodic,
\* and it is gone when the next is about to start.
PeriodicProgress ==
    /\ \A p, q \in Periodics :
           /\ p \in tracked \cup todo \cup {awaited}
           /\ q \in tracked \cup todo \cup {awaited}
           => p = q
    /\ \A p \in Periodics : app \in {"down", "aborted"} => ~Alive(p)
    /\ \A p \in Periodics : app \in {"subscribe", "warmup"} => p \notin tracked

\* Nothing runs for a batch before it is called, and only the task that the caller awaits
\* is cancelled.
BatchProgress ==
    \A k \in Children : /\ call = "idle" => child[k] = "idle"
                        /\ call # "idle" => child[k] # "idle"
                        /\ child[k] = "cancelling" => call = "waiting" /\ k = waits
                        /\ call = "waiting" /\ k < waits => child[k] = "value"

LifeInv ==
    /\ LifeTypeOK
    /\ TasksTracked
    /\ CloseProgress
    /\ PeriodicProgress
    /\ LeftBehindHasACause

BatchInv == BatchProgress /\ UnattendedHasACause

-----------------------------------------------------------------------------

\* The invariant holds initially.
LEMMA LifeInitInv == LifeInit => LifeInv
<1> SUFFICES ASSUME LifeInit PROVE LifeInv
    OBVIOUS
<1>1. \A t \in Tasks : task[t] = "none" /\ ~Alive(t)
  BY DEF LifeInit, Alive
<1>2. waits \in Nat \ {0} /\ (call = "waiting" => waits \in Children)
  BY DEF LifeInit
<1>2a. LifeTypeOK
  BY <1>2 DEF LifeInit, LifeTypeOK, Closing
<1>3. TasksTracked /\ CloseProgress /\ LeftBehindHasACause
  BY <1>1 DEF LifeInit, TasksTracked, CloseProgress, LeftBehindHasACause
<1>4. PeriodicProgress
  BY <1>1, TasksAssumption DEF LifeInit, PeriodicProgress, Tasks
<1> QED
  BY <1>2a, <1>3, <1>4 DEF LifeInv

\* The end of start(): the tasks do not change, or one periodic task is added while no
\* other is tracked.
LEMMA WarmUpKeeps ==
    ASSUME LifeInv, StartPeriodic \/ WarmUp,
           \A p \in Periodics : p \notin tracked,
           listener' \in {"none", "running", "dead"}, listener' # "none" => pubsub',
           app \notin Closing, pubsub' \in BOOLEAN, UNCHANGED <<closeVars, batchVars, late>>
    PROVE  LifeInv'
<1> USE DEF LifeInv
<1>a. awaited = None /\ todo = {}
  BY DEF LifeTypeOK, CloseProgress, Closing
<1>b. UNCHANGED <<todo, awaited, call, child, waits, late>>
  BY DEF closeVars, batchVars
<1>1. CASE "startup" \in Features /\ WarmUp
  <2>1. app' = "warmup" /\ UNCHANGED <<task, tracked>>
    BY <1>1 DEF WarmUp
  <2>2. LifeTypeOK'
    BY <1>a, <1>b, <2>1 DEF LifeTypeOK, Closing
  <2>3. TasksTracked' /\ CloseProgress' /\ LeftBehindHasACause'
    BY <1>a, <1>b, <2>1 DEF TasksTracked, CloseProgress, LeftBehindHasACause, Alive
  <2>4. PeriodicProgress'
    BY <1>a, <1>b, <2>1 DEF PeriodicProgress, Alive
  <2> QED
    BY <2>2, <2>3, <2>4
<1>2. CASE StartPeriodic
  <2>1. app' \in {"lifespan", "serving"}
    BY <1>2 DEF StartPeriodic
  <2>2. CASE "periodic" \in Features
    <3>1. PICK p \in Periodics : /\ task[p] = "none"
                                 /\ task' = [task EXCEPT ![p] = "running"]
                                 /\ tracked' = tracked \cup {p}
      BY <1>2, <2>2 DEF StartPeriodic
    <3>2. p \in Tasks /\ task'[p] = "running" /\ \A t \in Tasks : t # p => task'[t] = task[t]
      BY <1>a, <1>b, <3>1 DEF LifeTypeOK, Tasks
    <3>3. LifeTypeOK'
      BY <1>a, <1>b, <2>1, <3>1, <3>2 DEF LifeTypeOK, Closing
    <3>4. TasksTracked' /\ CloseProgress' /\ LeftBehindHasACause'
      BY <1>a, <1>b, <2>1, <3>1, <3>2
         DEF TasksTracked, CloseProgress, LeftBehindHasACause, Alive
    <3>5. PeriodicProgress'
      BY <1>a, <1>b, <2>1, <3>1, <3>2, TasksAssumption DEF PeriodicProgress, Tasks
    <3> QED
      BY <3>3, <3>4, <3>5
  <2>3. CASE "periodic" \notin Features
    <3>1. UNCHANGED <<task, tracked>>
      BY <1>2, <2>3 DEF StartPeriodic
    <3>2. LifeTypeOK'
      BY <1>a, <1>b, <2>1, <3>1 DEF LifeTypeOK, Closing
    <3>3. TasksTracked' /\ CloseProgress' /\ LeftBehindHasACause'
      BY <1>a, <1>b, <2>1, <3>1 DEF TasksTracked, CloseProgress, LeftBehindHasACause, Alive
    <3>4. PeriodicProgress'
      BY <1>a, <1>b, <2>1, <3>1 DEF PeriodicProgress
    <3> QED
      BY <3>2, <3>3, <3>4
  <2> QED
    BY <2>2, <2>3
<1> QED
  BY <1>1, <1>2 DEF WarmUp

\* The loop of close() and what follows it, from a list S that holds every living task
\* but the late ones.
LEMMA CancelKeeps ==
    ASSUME LifeInv, NEW S \in SUBSET Tasks, CancelNext(S),
           S \subseteq tracked \cup todo,
           \A t \in Tasks : Alive(t) => t \in S \cup late',
           late' \subseteq Refreshes, app # "unlisten", UNCHANGED <<tracked, batchVars>>
    PROVE  LifeInv'
<1> USE DEF LifeInv
<1>1. \A t \in Tasks : t \in late' => t \notin Periodics
  BY TasksAssumption
<1>2. CASE \E t \in S : task[t] = "running" /\ app' = "cancel"
                        /\ task' = [task EXCEPT ![t] = "cancelling"]
                        /\ todo' = S \ {t} /\ awaited' = t
                        /\ UNCHANGED <<listener, pubsub>>
  <2>1. PICK t \in S : /\ task[t] = "running"
                       /\ task' = [task EXCEPT ![t] = "cancelling"]
                       /\ todo' = S \ {t} /\ awaited' = t
    BY <1>2
  <2>2. app' = "cancel" /\ UNCHANGED <<listener, pubsub>>
    BY <1>2
  <2>3. task'[t] = "cancelling" /\ \A u \in Tasks : u # t => task'[u] = task[u]
    BY <2>1 DEF LifeTypeOK
  <2>4. LifeTypeOK'
    BY <2>1, <2>2, TasksAssumption DEF LifeTypeOK, Closing, batchVars
  <2>5. TasksTracked' /\ CloseProgress' /\ LeftBehindHasACause'
    BY <2>1, <2>2, <2>3 DEF TasksTracked, CloseProgress, LeftBehindHasACause, Alive
  <2>6. PeriodicProgress'
    BY <2>1, <2>2 DEF PeriodicProgress
  <2> QED
    BY <2>4, <2>5, <2>6
<1>3. CASE (\E t \in S : task[t] = "failed") /\ Abort /\ UNCHANGED <<listener, pubsub, task>>
  <2>1. PICK t \in S : task[t] = "failed"
    BY <1>3
  <2>2. t \in Periodics /\ app' = "aborted" /\ todo' = {} /\ awaited' = None
    BY <1>3, <2>1 DEF TasksTracked, Abort
  <2>3. \A p \in Periodics : ~Alive(p)
    <3>1. SUFFICES ASSUME NEW p \in Periodics, Alive(p) PROVE FALSE
      OBVIOUS
    <3>2. p \in S
      BY <1>1, <3>1 DEF Tasks
    <3> QED
      BY <2>1, <2>2, <3>1, <3>2 DEF PeriodicProgress, Alive
  <2>4. LifeTypeOK'
    BY <1>3, <2>2 DEF LifeTypeOK, Closing, batchVars
  <2>5. TasksTracked' /\ CloseProgress' /\ LeftBehindHasACause'
    BY <1>3, <2>1, <2>2 DEF TasksTracked, CloseProgress, LeftBehindHasACause, Alive
  <2>6. PeriodicProgress'
    BY <1>3, <2>2, <2>3, TasksAssumption DEF PeriodicProgress, Alive, Tasks
  <2> QED
    BY <2>4, <2>5, <2>6
<1>4. CASE (\A t \in S : task[t] = "ended") /\ CloseBroadcaster /\ UNCHANGED task
  <2>1. \A t \in Tasks : Alive(t) => t \in late'
    BY <1>4 DEF Alive
  <2>2. \A p \in Periodics : ~Alive(p)
    BY <1>1, <2>1 DEF Tasks
  <2>3. todo' = {} /\ awaited' = None /\ UNCHANGED <<task, pubsub>>
    BY <1>4 DEF CloseBroadcaster, Abort
  <2>4. /\ app' \in {"aborted", "unlisten", "unsubscribe", "backends"}
        /\ app' = "aborted" => listener' = "dead" /\ listener = "dead"
        /\ app' = "unlisten" => listener' = "cancelling" /\ listener = "running"
        /\ app' \in {"unsubscribe", "backends"} => listener' = "none"
        /\ app' = "backends" => ~pubsub'
    BY <1>4 DEF CloseBroadcaster, Abort, LifeTypeOK
  <2>5. LifeTypeOK'
    BY <2>3, <2>4 DEF LifeTypeOK, Closing, batchVars
  <2>6. TasksTracked' /\ CloseProgress' /\ LeftBehindHasACause'
    BY <2>1, <2>3, <2>4 DEF TasksTracked, CloseProgress, LeftBehindHasACause, Alive
  <2>7. PeriodicProgress'
    BY <2>2, <2>3, <2>4, TasksAssumption DEF PeriodicProgress, Alive, Tasks
  <2> QED
    BY <2>5, <2>6, <2>7
<1> QED
  BY <1>2, <1>3, <1>4 DEF CancelNext

-----------------------------------------------------------------------------

\* The steps of close() that the lemma is about.
LEMMA CloseKeeps == LifeInv /\ (Close \/ AwaitedEnds) => LifeInv'
<1>1. ASSUME LifeInv, Close PROVE LifeInv'
  <2>1. \A t \in Tasks : Alive(t) => t \in tracked
    BY <1>1 DEF LifeInv, TasksTracked
  <2>2. tracked \in SUBSET Tasks
    BY <1>1 DEF LifeInv, LifeTypeOK
  <2> QED
    BY <1>1, <2>1, <2>2, CancelKeeps DEF Close
<1>2. ASSUME LifeInv, AwaitedEnds PROVE LifeInv'
  <2>1. todo \in SUBSET Tasks /\ late \subseteq Refreshes
    BY <1>2 DEF LifeInv, LifeTypeOK
  <2>2. \A t \in Tasks : Alive(t) => t \in todo \cup late
    BY <1>2 DEF LifeInv, CloseProgress, AwaitedEnds, Alive
  <2> QED
    BY <1>2, <2>1, <2>2, CancelKeeps DEF AwaitedEnds
<1> QED
  BY <1>1, <1>2

\* Every step preserves the invariant.
LEMMA LifeStepInv == LifeInv /\ [LifeNext]_lifeVars => LifeInv'
<1> SUFFICES ASSUME LifeInv, [LifeNext]_lifeVars PROVE LifeInv'
    OBVIOUS
<1> USE DEF LifeInv
<1>1. CASE Start
  <2>1. \A p \in Periodics : p \notin tracked
    BY <1>1 DEF Start, PeriodicProgress, TasksTracked, Tasks
  <2>2. app \notin Closing /\ pubsub' \in BOOLEAN /\ UNCHANGED <<listener, closeVars, batchVars, late>>
    BY <1>1 DEF Start, Closing, LifeTypeOK
  <2>3. CASE "broadcast" \in Features /\ listener = "none"
    <3>1. /\ app' = "subscribe" /\ pubsub' = TRUE
          /\ UNCHANGED <<listener, task, tracked, todo, awaited, call, child, waits, late>>
      BY <1>1, <2>3 DEF Start, closeVars, batchVars
    <3>2. LifeTypeOK'
      BY <2>2, <3>1 DEF LifeTypeOK, Closing
    <3>3. TasksTracked' /\ CloseProgress' /\ LeftBehindHasACause'
      BY <2>2, <2>3, <3>1 DEF TasksTracked, CloseProgress, LeftBehindHasACause, Alive, Closing
    <3>4. PeriodicProgress'
      BY <2>1, <3>1 DEF PeriodicProgress
    <3> QED
      BY <3>2, <3>3, <3>4
  <2>4. CASE ~("broadcast" \in Features /\ listener = "none")
    <3>1. WarmUp /\ UNCHANGED pubsub
      BY <1>1, <2>4 DEF Start
    <3>2. listener' \in {"none", "running", "dead"} /\ (listener' # "none" => pubsub')
      BY <2>2, <3>1 DEF LifeTypeOK, Closing
    <3> QED
      BY <2>1, <2>2, <3>1, <3>2, WarmUpKeeps
  <2> QED
    BY <2>3, <2>4
<1>2. CASE Subscribe
  <2>1. /\ app = "subscribe" /\ app \notin Closing /\ listener = "none"
        /\ \A p \in Periodics : p \notin tracked
    BY <1>2 DEF Subscribe, Closing, CloseProgress, PeriodicProgress
  <2>2. UNCHANGED <<pubsub, closeVars, batchVars, late>>
    BY <1>2 DEF Subscribe
  <2>3. CASE listener' = "running" /\ WarmUp
    <3>1. pubsub' \in BOOLEAN /\ pubsub'
      BY <1>2, <2>2 DEF LifeTypeOK, CloseProgress, Subscribe
    <3> QED
      BY <2>1, <2>2, <2>3, <3>1, WarmUpKeeps
  <2>4. CASE app' = "failed" /\ UNCHANGED <<listener, task, tracked>>
    <3>1. UNCHANGED <<pubsub, listener, task, tracked, todo, awaited, call, child, waits, late>>
      BY <2>2, <2>4 DEF closeVars, batchVars
    <3>2. LifeTypeOK'
      BY <2>1, <2>4, <3>1 DEF LifeTypeOK, Closing
    <3>3. TasksTracked' /\ CloseProgress' /\ LeftBehindHasACause' /\ PeriodicProgress'
      BY <2>1, <2>4, <3>1 DEF TasksTracked, CloseProgress, LeftBehindHasACause,
         PeriodicProgress, Alive, Closing
    <3> QED
      BY <3>2, <3>3
  <2> QED
    BY <1>2, <2>3, <2>4 DEF Subscribe
<1>3. CASE StartupWarmup
  <2>1. /\ app = "warmup" /\ app \notin Closing
        /\ \A p \in Periodics : p \notin tracked
        /\ UNCHANGED <<pubsub, listener, closeVars, batchVars, late>>
    BY <1>3 DEF StartupWarmup, Closing, PeriodicProgress
  <2>2. CASE StartPeriodic
    <3>1. /\ listener' \in {"none", "running", "dead"} /\ (listener' # "none" => pubsub')
          /\ pubsub' \in BOOLEAN
      BY <2>1 DEF LifeTypeOK, Closing
    <3> QED
      BY <2>1, <2>2, <3>1, WarmUpKeeps
  <2>3. CASE WarmupRaises /\ UNCHANGED <<task, tracked>>
    <3>1. app' = "failed" /\ UNCHANGED <<task, tracked, todo, awaited, call, child, waits>>
      BY <2>1, <2>3 DEF WarmupRaises, closeVars, batchVars
    <3>2. LifeTypeOK'
      BY <2>1, <3>1 DEF LifeTypeOK, Closing
    <3>3. TasksTracked' /\ CloseProgress' /\ LeftBehindHasACause' /\ PeriodicProgress'
      BY <2>1, <3>1 DEF TasksTracked, CloseProgress, LeftBehindHasACause,
         PeriodicProgress, Alive, Closing
    <3> QED
      BY <3>2, <3>3
  <2> QED
    BY <1>3, <2>2, <2>3 DEF StartupWarmup
<1>4. CASE LifespanWarmup
  <2>1. /\ app = "lifespan" /\ app' \in {"serving", "failed"}
        /\ UNCHANGED <<pubsub, listener, task, tracked, todo, awaited, call, child, waits, late>>
    BY <1>4 DEF LifespanWarmup, WarmupRaises, closeVars, batchVars
  <2>2. LifeTypeOK'
    BY <2>1 DEF LifeTypeOK, Closing
  <2>3. TasksTracked' /\ CloseProgress' /\ LeftBehindHasACause' /\ PeriodicProgress'
    BY <2>1 DEF TasksTracked, CloseProgress, LeftBehindHasACause, PeriodicProgress, Alive
  <2> QED
    BY <2>2, <2>3
<1>5. CASE CallBatch \/ BatchResumes \/ CancelBatch \/ \E k \in Children : ChildEnds(k)
  <2>1. UNCHANGED <<app, pubsub, listener, task, tracked, todo, awaited, late>>
    BY <1>5 DEF CallBatch, BatchResumes, CancelBatch, ChildEnds, closeVars
  <2>2. /\ call' \in {"idle", "waiting", "returned", "raised", "cancelled"}
        /\ child' \in [Children -> {"idle", "running", "cancelling", "value", "failed", "cancelled"}]
    BY <1>5 DEF CallBatch, BatchResumes, Raises, CancelBatch, ChildEnds, LifeTypeOK, LoadFailures
  <2>3. waits' \in Nat \ {0} /\ (call' = "waiting" => waits' \in Children)
    <3>1. CASE CallBatch
      BY <3>1, BatchAssumption DEF CallBatch, Children
    <3>2. CASE BatchResumes
      BY <3>2, BatchAssumption DEF BatchResumes, LifeTypeOK, Children
    <3>3. CASE CancelBatch \/ \E k \in Children : ChildEnds(k)
      BY <3>3 DEF CancelBatch, ChildEnds, LifeTypeOK
    <3> QED
      BY <1>5, <3>1, <3>2, <3>3
  <2>4. LifeTypeOK'
    BY <2>1, <2>2, <2>3 DEF LifeTypeOK, Closing
  <2>5. TasksTracked' /\ CloseProgress' /\ LeftBehindHasACause' /\ PeriodicProgress'
    BY <2>1 DEF TasksTracked, CloseProgress, LeftBehindHasACause, PeriodicProgress, Alive
  <2> QED
    BY <2>4, <2>5
<1>6. ASSUME NEW t \in Refreshes, Schedule(t) PROVE LifeInv'
  <2>1. /\ task[t] = "none" /\ task' = [task EXCEPT ![t] = "running"]
        /\ tracked' = tracked \cup {t}
        /\ late' = IF app \in Closing \cup {"down", "aborted"} THEN late \cup {t} ELSE late
        /\ UNCHANGED <<app, pubsub, listener, todo, awaited, call, child, waits>>
    BY <1>6 DEF Schedule, closeVars, batchVars
  <2>2. /\ t \in Tasks /\ t \notin Periodics
        /\ task'[t] = "running" /\ \A u \in Tasks : u # t => task'[u] = task[u]
    BY <2>1, TasksAssumption DEF LifeTypeOK, Tasks
  <2>3. LifeTypeOK'
    BY <2>1, <2>2 DEF LifeTypeOK, Closing
  <2>4. TasksTracked' /\ CloseProgress'
    BY <2>1, <2>2 DEF TasksTracked, CloseProgress, Alive, Closing
  <2>5. LeftBehindHasACause'
    <3>1. SUFFICES ASSUME app = "aborted",
                          listener = "running" \/ \E u \in Tasks : Alive(u)' /\ u \notin late'
                   PROVE  \E p \in Periodics : task'[p] = "failed"
      BY <2>1 DEF LeftBehindHasACause
    <3>2. listener = "running" \/ \E u \in Tasks : Alive(u) /\ u \notin late
      BY <2>1, <2>2, <3>1 DEF Alive
    <3>3. PICK p \in Periodics : task[p] = "failed"
      BY <3>1, <3>2 DEF LeftBehindHasACause
    <3> QED
      BY <2>2, <3>3 DEF Tasks
  <2>6. PeriodicProgress'
    BY <2>1, <2>2 DEF PeriodicProgress, Alive, Tasks
  <2> QED
    BY <2>3, <2>4, <2>5, <2>6
<1>7. ASSUME NEW t \in Tasks, TaskEnds(t) \/ (t \in Periodics /\ PeriodicFails(t)) PROVE LifeInv'
  <2>1. /\ task[t] \in {"running", "cancelling"} /\ task' = [task EXCEPT ![t] = task'[t]]
        /\ task'[t] \in {"failed", "ended"} /\ (task'[t] = "failed" => t \in Periodics)
        /\ UNCHANGED <<app, pubsub, listener, tracked, todo, awaited, call, child, waits, late>>
    BY <1>7 DEF TaskEnds, PeriodicFails, LoadFailures, LifeTypeOK, closeVars, batchVars
  <2>2. \A u \in Tasks : u # t => task'[u] = task[u]
    BY <2>1 DEF LifeTypeOK
  <2>3. LifeTypeOK'
    BY <2>1 DEF LifeTypeOK, Closing
  <2>4. TasksTracked' /\ CloseProgress'
    BY <2>1, <2>2 DEF TasksTracked, CloseProgress, Alive
  <2>5. LeftBehindHasACause'
    <3>1. \A u \in Tasks : Alive(u)' => Alive(u)
      BY <2>1, <2>2 DEF Alive
    <3>2. \A p \in Periodics : task[p] = "failed" => task'[p] = "failed"
      BY <2>1, <2>2 DEF Tasks
    <3> QED
      BY <2>1, <3>1, <3>2 DEF LeftBehindHasACause
  <2>6. PeriodicProgress'
    BY <2>1, <2>2 DEF PeriodicProgress, Alive, Tasks
  <2> QED
    BY <2>3, <2>4, <2>5, <2>6
<1>8. ASSUME NEW t \in Tasks, Discard(t) PROVE LifeInv'
  <2>1. /\ task[t] \in {"failed", "ended"} /\ tracked' = tracked \ {t}
        /\ UNCHANGED <<app, pubsub, listener, task, todo, awaited, call, child, waits, late>>
    BY <1>8 DEF Discard, closeVars, batchVars
  <2>2. LifeTypeOK'
    BY <2>1 DEF LifeTypeOK, Closing
  <2>3. TasksTracked' /\ CloseProgress' /\ LeftBehindHasACause' /\ PeriodicProgress'
    BY <2>1 DEF TasksTracked, CloseProgress, LeftBehindHasACause, PeriodicProgress, Alive
  <2> QED
    BY <2>2, <2>3
<1>9. CASE ListenerDies \/ ListenerEnds \/ Unsubscribe \/ CloseBackends
  <2>1. UNCHANGED <<task, tracked, todo, awaited, call, child, waits, late>>
    BY <1>9 DEF ListenerDies, ListenerEnds, Unsubscribe, CloseBackends, closeVars, batchVars
  <2>2. LifeTypeOK'
    BY <1>9, <2>1 DEF LifeTypeOK, Closing, CloseProgress, ListenerDies, ListenerEnds,
       Unsubscribe, CloseBackends
  <2>3. TasksTracked'
    BY <2>1 DEF TasksTracked, Alive
  <2>4. CloseProgress'
    BY <1>9, <2>1 DEF CloseProgress, Alive, ListenerDies, ListenerEnds, Unsubscribe, CloseBackends
  <2>5. LeftBehindHasACause'
    BY <1>9, <2>1 DEF LeftBehindHasACause, CloseProgress, Alive, ListenerDies, ListenerEnds,
       Unsubscribe, CloseBackends
  <2>6. PeriodicProgress'
    <3>1. CASE ListenerDies
      BY <2>1, <3>1 DEF PeriodicProgress, Alive, ListenerDies
    <3>2. CASE ListenerEnds \/ Unsubscribe \/ CloseBackends
      <4>1. \A p \in Periodics : ~Alive(p)
        BY <3>2, TasksAssumption DEF CloseProgress, LifeTypeOK, ListenerEnds, Unsubscribe,
           CloseBackends, Tasks
      <4>2. app' \notin {"subscribe", "warmup"}
        BY <3>2 DEF ListenerEnds, Unsubscribe, CloseBackends
      <4> QED
        BY <2>1, <4>1, <4>2 DEF PeriodicProgress, Alive
    <3> QED
      BY <1>9, <3>1, <3>2
  <2> QED
    BY <2>2, <2>3, <2>4, <2>5, <2>6
<1>10. CASE UNCHANGED lifeVars
  <2>1. LifeTypeOK'
    BY <1>10 DEF lifeVars, closeVars, batchVars, LifeTypeOK, Closing
  <2>2. TasksTracked' /\ CloseProgress' /\ LeftBehindHasACause' /\ PeriodicProgress'
    BY <1>10 DEF lifeVars, closeVars, batchVars, TasksTracked, CloseProgress,
       LeftBehindHasACause, PeriodicProgress, Alive
  <2> QED
    BY <2>1, <2>2
<1> QED
  BY <1>1, <1>2, <1>3, <1>4, <1>5, <1>6, <1>7, <1>8, <1>9, <1>10, CloseKeeps
     DEF LifeNext, Tasks

-----------------------------------------------------------------------------

\* The tasks of a batch: those in front of the one that the caller awaits returned.
LEMMA BatchInitInv == LifeInit => BatchInv
BY DEF LifeInit, BatchInv, BatchProgress, UnattendedHasACause, Runs

LEMMA BatchStepInv == LifeTypeOK /\ BatchInv /\ [LifeNext]_lifeVars => BatchInv'
<1> SUFFICES ASSUME LifeTypeOK, BatchInv, [LifeNext]_lifeVars PROVE BatchInv'
    OBVIOUS
<1> USE BatchAssumption DEF BatchInv, BatchProgress, UnattendedHasACause, Children, Runs
<1>1. CASE CallBatch
  BY <1>1 DEF CallBatch
<1>2. ASSUME NEW k \in Children, ChildEnds(k) PROVE BatchInv'
  <2>1. /\ UNCHANGED <<call, waits>> /\ child[k] \in {"running", "cancelling"}
        /\ \A j \in Children : j # k => child'[j] = child[j]
    BY <1>2 DEF ChildEnds, LifeTypeOK
  <2>2. child'[k] \in {"value", "failed", "cancelled"}
    BY <1>2 DEF ChildEnds, LifeTypeOK, LoadFailures
  <2>3. BatchProgress'
    BY <2>1, <2>2 DEF LifeTypeOK
  <2>4. UnattendedHasACause'
    <3>1. SUFFICES ASSUME NEW i \in Children, child'[i] \in {"running", "cancelling"},
                          call # "waiting"
                   PROVE  \/ \E j \in 1..(i - 1) : child'[j] \in {"failed", "cancelled"}
                          \/ call = "cancelled" /\ waits < i /\ child'[waits] = "value"
      BY <2>1
    <3>2. i # k /\ child[i] \in {"running", "cancelling"}
      BY <2>1, <2>2, <3>1
    <3>3. CASE \E j \in 1..(i - 1) : child[j] \in {"failed", "cancelled"}
      BY <2>1, <3>3
    <3>4. CASE call = "cancelled" /\ waits < i /\ child[waits] = "value"
      <4>1. waits \in Children /\ waits # k
        BY <2>1, <3>4 DEF LifeTypeOK
      <4> QED
        BY <2>1, <3>4, <4>1
    <3> QED
      BY <3>1, <3>2, <3>3, <3>4
  <2> QED
    BY <2>3, <2>4
<1>3. CASE BatchResumes
  <2>1. UNCHANGED child /\ call = "waiting" /\ ~Runs(waits) /\ waits \in Children
    BY <1>3 DEF BatchResumes, LifeTypeOK
  <2>2. CASE Reaches(BatchSize + 1) /\ call' = "returned" /\ UNCHANGED waits
    <3>1. \A k \in Children : child[k] = "value"
      BY <2>1, <2>2 DEF Reaches
    <3> QED
      BY <2>1, <2>2, <3>1
  <2>3. ASSUME NEW w \in Children, Reaches(w), waits' = w, Raises(w) \/ (Runs(w) /\ UNCHANGED call)
        PROVE  BatchInv'
    <3>1. \A k \in Children : k < w => child[k] = "value"
      BY <2>1, <2>3 DEF Reaches
    <3>2. \A k \in Children : child[k] = "cancelling" => FALSE
      BY <2>1
    <3>3. CASE Raises(w)
      <4>1. call' \notin {"idle", "waiting"} /\ child[w] \in {"failed", "cancelled"}
        BY <3>3 DEF Raises
      <4>2. \A k \in Children : Runs(k) => w \in 1..(k - 1)
        BY <3>1, <4>1
      <4> QED
        BY <2>1, <3>2, <4>1, <4>2
    <3>4. CASE Runs(w) /\ UNCHANGED call
      BY <2>1, <2>3, <3>1, <3>2, <3>4
    <3> QED
      BY <2>3, <3>3, <3>4
  <2> QED
    BY <1>3, <2>2, <2>3 DEF BatchResumes
<1>4. CASE CancelBatch
  <2>1. call = "waiting" /\ waits' = waits /\ waits \in Children
    BY <1>4 DEF CancelBatch, LifeTypeOK
  <2>2. CASE child[waits] = "running" /\ child' = [child EXCEPT ![waits] = "cancelling"]
             /\ UNCHANGED call
    <3>1. child'[waits] = "cancelling" /\ \A j \in Children : j # waits => child'[j] = child[j]
      BY <2>1, <2>2 DEF LifeTypeOK
    <3> QED
      BY <2>1, <2>2, <3>1
  <2>3. CASE ~Runs(waits) /\ call' = "cancelled" /\ UNCHANGED child
    <3>1. child[waits] \in {"idle", "value", "failed", "cancelled"}
      BY <2>1, <2>3 DEF LifeTypeOK
    <3>2. \A k \in Children : Runs(k) => waits < k /\ waits \in 1..(k - 1)
      BY <2>1, <2>3
    <3>3. child[waits] # "idle"
      BY <2>1
    <3> QED
      BY <2>1, <2>3, <3>1, <3>2, <3>3
  <2> QED
    BY <1>4, <2>2, <2>3 DEF CancelBatch
<1>5. ASSUME UNCHANGED batchVars PROVE BatchInv'
  BY <1>5 DEF batchVars
<1> QED
  BY <1>1, <1>2, <1>3, <1>4, <1>5
     DEF LifeNext, lifeVars, Start, Subscribe, StartupWarmup, LifespanWarmup, Schedule, TaskEnds,
         PeriodicFails, Discard, ListenerDies, Close, AwaitedEnds, ListenerEnds, Unsubscribe,
         CloseBackends

-----------------------------------------------------------------------------

\* Every variable keeps its type, close() awaits a task exactly while it is in its loop
\* over the background tasks, and a listener that runs has its subscription.
THEOREM LifeTypeCorrect == LifeSpec => []LifeTypeOK
<1>1. LifeInv => LifeTypeOK
  BY DEF LifeInv
<1> QED
  BY LifeInitInv, LifeStepInv, <1>1, PTL DEF LifeSpec

\* When close() returned, the broadcaster is closed and only tasks that were scheduled
\* too late for it live on.
THEOREM LifeClosedIsQuiet == LifeSpec => []ClosedIsQuiet
<1>1. LifeInv => ClosedIsQuiet
  BY DEF LifeInv, CloseProgress, ClosedIsQuiet
<1> QED
  BY LifeInitInv, LifeStepInv, <1>1, PTL DEF LifeSpec

\* A close() that raised leaves the listener or a listed task running only if a periodic
\* warmup has failed.
THEOREM LifeLeftBehind == LifeSpec => []LeftBehindHasACause
<1>1. LifeInv => LeftBehindHasACause
  BY DEF LifeInv
<1> QED
  BY LifeInitInv, LifeStepInv, <1>1, PTL DEF LifeSpec

\* No two periodic warmups of a manager run at a time.
THEOREM LifeOnePeriodic == LifeSpec => []OnePeriodic
<1>1. LifeInv => OnePeriodic
  BY DEF LifeInv, TasksTracked, PeriodicProgress, OnePeriodic, Tasks
<1> QED
  BY LifeInitInv, LifeStepInv, <1>1, PTL DEF LifeSpec

\* A task of get_many_or_load that nobody awaits stands behind one that failed or was
\* cancelled, or behind one that returned to a caller which was cancelled meanwhile.
THEOREM LifeUnattended == LifeSpec => []UnattendedHasACause
<1>1. LifeInit => LifeTypeOK /\ BatchInv
  BY LifeInitInv, BatchInitInv DEF LifeInv
<1>2. BatchInv => UnattendedHasACause
  BY DEF BatchInv
<1> QED
  BY <1>1, <1>2, BatchStepInv, LifeTypeCorrect, PTL DEF LifeSpec

=============================================================================
