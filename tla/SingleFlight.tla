---------------------------- MODULE SingleFlight ----------------------------
(***************************************************************************)
(* SingleFlightGroup of kmcache/coordination/singleflight.py: concurrent   *)
(* calls of do(key, factory) share one execution of the factory.           *)
(*                                                                         *)
(* A member of Calls is one call of do(), run by one asyncio task.  The    *)
(* bodies of "async with self._lock" hold no await, so the lock is never   *)
(* contended and each of the following is one step of the event loop:      *)
(* entering do(), ending the factory together with the finally clause, and *)
(* waking a task that awaited the future.                                  *)
(*                                                                         *)
(* A future is identified with the call that created it.                   *)
(***************************************************************************)
CONSTANTS
    Calls,      \* the calls of do()
    Keys,       \* the cache keys
    Values,     \* what a factory can return
    None        \* "no call", "no key" or "no value"

ASSUME NoneAssumption == None \notin Calls /\ None \notin Keys

VARIABLES
    futures,    \* self._futures: key -> the call whose future is registered
    key,        \* the key argument of each call
    phase,      \* where each call stands in do()
    joined,     \* the local variable "future": the call that created it
    future,     \* the state of the future each call created
    produced,   \* history: how the factory of each call ended
    returned,   \* how each call of do() ended
    asked       \* history: the calls whose task was asked to cancel

sfVars == <<futures, key, phase, joined, future, produced, returned, asked>>

-----------------------------------------------------------------------------

\* The state of a future, and the end of a factory or of a call, is a record.
Pending == [kind |-> "pending", value |-> None]
Value(v) == [kind |-> "value", value |-> v]
Error == [kind |-> "error", value |-> None]
Cancelled == [kind |-> "cancelled", value |-> None]
InvalidState == [kind |-> "invalid_state", value |-> None]

Failures == {Error, Cancelled, InvalidState}
Outcomes == {Value(v) : v \in Values} \cup Failures

-----------------------------------------------------------------------------

SFInit ==
    /\ futures = [k \in Keys |-> None]
    /\ key = [c \in Calls |-> None]
    /\ phase = [c \in Calls |-> "new"]
    /\ joined = [c \in Calls |-> None]
    /\ future = [c \in Calls |-> Pending]
    /\ produced = [c \in Calls |-> Pending]
    /\ returned = [c \in Calls |-> Pending]
    /\ asked = {}

\* Fault: a future that is done counts as absent while its flight still loads.
PendingInFlight(k) == futures[k] # None /\ future[futures[k]] = Pending

\* self._futures.get(key) finds a future.
InFlight(k) == futures[k] # None

\* A call that finds no registered future registers one and owns the flight.
Lead(c, k) ==
    /\ phase[c] = "new"
    /\ ~InFlight(k)
    /\ futures' = [futures EXCEPT ![k] = c]
    /\ key' = [key EXCEPT ![c] = k]
    /\ joined' = [joined EXCEPT ![c] = c]
    /\ phase' = [phase EXCEPT ![c] = "loading"]
    /\ UNCHANGED <<future, produced, returned, asked>>

\* A call that finds a registered future that is still pending awaits it.
Follow(c, k) ==
    /\ phase[c] = "new"
    /\ InFlight(k)
    /\ future[futures[k]] = Pending
    /\ key' = [key EXCEPT ![c] = k]
    /\ joined' = [joined EXCEPT ![c] = futures[k]]
    /\ phase' = [phase EXCEPT ![c] = "waiting"]
    /\ UNCHANGED <<futures, future, produced, returned, asked>>

\* Awaiting a future that is already done does not suspend the call.  (Only a
\* future that a waiter cancelled is both registered and done.)
FollowFinished(c, k) ==
    /\ phase[c] = "new"
    /\ InFlight(k)
    /\ future[futures[k]] # Pending
    /\ key' = [key EXCEPT ![c] = k]
    /\ joined' = [joined EXCEPT ![c] = futures[k]]
    /\ returned' = [returned EXCEPT ![c] = future[futures[k]]]
    /\ phase' = [phase EXCEPT ![c] = "done"]
    /\ UNCHANGED <<futures, future, produced, asked>>

\* Fault: no finally clause.
EndWithoutUnregister(c, result) ==
    /\ returned' = [returned EXCEPT ![c] = result]
    /\ phase' = [phase EXCEPT ![c] = "done"]
    /\ UNCHANGED <<futures, key, joined>>

\* The finally clause: self._futures.pop(key, None), and the call is over.
Unregister(c, result) ==
    /\ futures' = [futures EXCEPT ![key[c]] = None]
    /\ returned' = [returned EXCEPT ![c] = result]
    /\ phase' = [phase EXCEPT ![c] = "done"]
    /\ UNCHANGED <<key, joined>>

\* Faults: the future takes the bare value; an exception becomes a value; an
\* exception cancels the future; an exception leaves the future pending.
SettleBare(c, result) == future' = [future EXCEPT ![c] = result.value]

SettleWithDefault(c, result) ==
    future' = [future EXCEPT ![c] = CHOOSE r \in Outcomes : r.kind = "value"]

SettleByCancelling(c, result) ==
    future' = [future EXCEPT ![c] = IF result = Error THEN Cancelled ELSE result]

SettleValuesOnly(c, result) ==
    future' = [future EXCEPT ![c] = IF result = Error THEN @ ELSE result]

\* future.set_result or future.set_exception on a pending future.
Settle(c, result) == future' = [future EXCEPT ![c] = result]

\* The factory returned a value or raised an Exception.  Its future takes the
\* result, unless a waiter cancelled it meanwhile: then set_result raises
\* InvalidStateError, and so does set_exception in the except clause.
Complete(c, result) ==
    /\ phase[c] = "loading"
    /\ produced' = [produced EXCEPT ![c] = result]
    /\ IF future[c] = Pending
          THEN Settle(c, result) /\ Unregister(c, result)
          ELSE UNCHANGED future /\ Unregister(c, InvalidState)
    /\ UNCHANGED asked

Return(c, v) == Complete(c, Value(v))

Raise(c) == Complete(c, Error)

\* The owner's task is cancelled inside the factory.  CancelledError is not an
\* Exception, so the except clause is passed over and only finally runs: the
\* future stays pending for ever.
CancelOwner(c) ==
    /\ phase[c] = "loading"
    /\ asked' = asked \cup {c}
    /\ produced' = [produced EXCEPT ![c] = Cancelled]
    /\ Unregister(c, Cancelled)
    /\ UNCHANGED future

\* A waiter's task is cancelled.  Task.cancel() cancels the future the task
\* awaits, which is the shared one, unless that is done already.
CancelWaiter(c) ==
    /\ phase[c] = "waiting"
    /\ c \notin asked
    /\ asked' = asked \cup {c}
    /\ future' = [future EXCEPT ![joined[c]] =
                      IF @ = Pending THEN Cancelled ELSE @]
    /\ UNCHANGED <<futures, key, phase, joined, produced, returned>>

\* The event loop wakes a waiter whose future is done.
Wake(c) ==
    /\ phase[c] = "waiting"
    /\ future[joined[c]] # Pending
    /\ returned' = [returned EXCEPT ![c] =
                        IF c \in asked THEN Cancelled ELSE future[joined[c]]]
    /\ phase' = [phase EXCEPT ![c] = "done"]
    /\ UNCHANGED <<futures, key, joined, future, produced, asked>>

Do(c, k) == Lead(c, k) \/ Follow(c, k) \/ FollowFinished(c, k)

FactoryEnds(c) == Raise(c) \/ \E v \in Values : Return(c, v)

SFNext ==
    \E c \in Calls :
        \/ \E k \in Keys : Do(c, k)
        \/ FactoryEnds(c)
        \/ CancelOwner(c)
        \/ CancelWaiter(c)
        \/ Wake(c)

\* The event loop runs every ready task, and a factory is assumed to end.
SFFairness == \A c \in Calls : WF_sfVars(FactoryEnds(c)) /\ WF_sfVars(Wake(c))

SFSpec == SFInit /\ [][SFNext]_sfVars

SFFairSpec == SFSpec /\ SFFairness

-----------------------------------------------------------------------------

\* Every variable holds a value of its kind.
SFTypeOK ==
    /\ futures \in [Keys -> Calls \cup {None}]
    /\ key \in [Calls -> Keys \cup {None}]
    /\ phase \in [Calls -> {"new", "loading", "waiting", "done"}]
    /\ joined \in [Calls -> Calls \cup {None}]
    /\ future \in [Calls -> Outcomes \cup {Pending}]
    /\ produced \in [Calls -> Outcomes \cup {Pending}]
    /\ returned \in [Calls -> Outcomes \cup {Pending}]
    /\ asked \subseteq Calls

\* "The same key is loaded only once at any moment" (the class docstring): no
\* interleaving of joins, failures and cancellations has two calls executing
\* the factory of one key.
OneLoadPerKey ==
    \A c, d \in Calls :
        /\ phase[c] = "loading"
        /\ phase[d] = "loading"
        /\ key[c] = key[d]
        => c = d

\* The registry names exactly the flights under way: the finally clause leaves
\* no entry behind, and no call removes the entry of another's flight.
RegistryIsExact ==
    /\ \A k \in Keys : futures[k] # None =>
           phase[futures[k]] = "loading" /\ key[futures[k]] = k
    /\ \A c \in Calls : phase[c] = "loading" => futures[key[c]] = c

\* A call that got a value or the loader's exception got what the factory of
\* the flight it joined ended with, and that flight was for its own key.
ResultIsTheFlights ==
    \A c \in Calls : returned[c].kind \in {"value", "error"} =>
        /\ key[joined[c]] = key[c]
        /\ returned[c] = produced[joined[c]]

\* A call is cancelled, or its owner fails with InvalidStateError, only when a
\* call of the same flight was asked to cancel.
CancellationHasACause ==
    \A c \in Calls : returned[c].kind \in {"cancelled", "invalid_state"} =>
        \E d \in asked : joined[d] = joined[c]

\* A flight's registration ends only when the call that leads it ends, whatever
\* its waiters do.
FlightEndsWithItsOwner ==
    [][\A k \in Keys :
           futures[k] # None /\ futures'[k] # futures[k] =>
               futures'[k] = None /\ phase'[futures[k]] = "done"]_sfVars

\* Every waiter is woken at last, unless the owner of its flight was cancelled.
WaitersReturn ==
    \A c, o \in Calls :
        (phase[c] = "waiting" /\ joined[c] = o) ~>
            (phase[c] = "done" \/ produced[o] = Cancelled)

\* "Returns the shared result of the computation" (the docstring of do): every
\* call that waits for the result of a flight gets an answer.
EveryWaiterReturns ==
    \A c \in Calls : (phase[c] = "waiting") ~> (phase[c] = "done")

=============================================================================
