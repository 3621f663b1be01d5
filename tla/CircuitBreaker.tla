--------------------------- MODULE CircuitBreaker ---------------------------
(***************************************************************************)
(* CircuitBreaker of kmcache/features/circuit_breaker.py, as the manager   *)
(* uses it in _run_backend_call: one breaker per backend, allow() before   *)
(* the backend is called, record_success() or record_failure() after.      *)
(*                                                                         *)
(* allow() and record_*() are synchronous, hence one step each; between    *)
(* them the task awaits the backend and any other call may start or end.   *)
(* A member of Calls is a task that calls the backend again and again.     *)
(* A refused call changes nothing and is not a step.                       *)
(***************************************************************************)
EXTENDS Naturals, FiniteSets

CONSTANTS
    Calls,              \* the tasks that call the backend
    FailureThreshold,   \* failures in a row that open the breaker
    RecoveryTimeout,    \* clock ticks before an open breaker admits a probe
    HalfOpenMaxCalls,   \* config.half_open_max_calls
    MaxFailures,        \* bound on failure_count, which nothing else bounds
    MaxCancels,         \* bound on the calls whose task is cancelled
    None                \* opened_at is None

\* CircuitBreakerConfig.__post_init__ refuses values that are not positive.
ASSUME ConfigAssumption ==
    /\ FailureThreshold \in Nat \ {0}
    /\ RecoveryTimeout \in Nat \ {0}
    /\ HalfOpenMaxCalls \in Nat \ {0}

ASSUME BoundAssumption ==
    /\ MaxFailures \in Nat
    /\ MaxCancels \in Nat
    /\ None \notin Nat
    /\ IsFiniteSet(Calls)

VARIABLES
    state,          \* "closed", "open" or "half_open"
    failureCount,
    elapsed,        \* now - opened_at, up to RecoveryTimeout; None when closed
    halfOpenCalls,
    executing,      \* the calls that were admitted and await the backend
    probing,        \* history: those admitted in the present half-open episode
    lost,           \* history: this episode's calls that ended by cancellation
    cancels,        \* history: all calls that ended by cancellation
    healthy         \* the backend no longer fails

cbVars == <<state, failureCount, elapsed, halfOpenCalls, executing, probing,
            lost, cancels, healthy>>

-----------------------------------------------------------------------------

CBInit ==
    /\ state = "closed"
    /\ failureCount = 0
    /\ elapsed = None
    /\ halfOpenCalls = 0
    /\ executing = {}
    /\ probing = {}
    /\ lost = 0
    /\ cancels = 0
    /\ healthy = FALSE

-----------------------------------------------------------------------------
\* allow()

AdmitClosed(c) ==
    /\ state = "closed"
    /\ UNCHANGED <<state, failureCount, elapsed, halfOpenCalls, probing, lost>>

\* Fault: the half-open breaker forgets the failures that opened it.
StartRecoveryAfresh(c) ==
    /\ state = "open"
    /\ elapsed = RecoveryTimeout
    /\ state' = "half_open"
    /\ failureCount' = 0
    /\ halfOpenCalls' = 0
    /\ probing' = {c}
    /\ lost' = 0
    /\ UNCHANGED elapsed

\* The first call after the recovery timeout turns the breaker half-open; it is
\* let through without being counted in half_open_calls.
StartRecovery(c) ==
    /\ state = "open"
    /\ elapsed = RecoveryTimeout
    /\ state' = "half_open"
    /\ halfOpenCalls' = 0
    /\ probing' = {c}
    /\ lost' = 0
    /\ UNCHANGED <<failureCount, elapsed>>

\* Fault: the limit itself is let through.
LimitPassed == halfOpenCalls > HalfOpenMaxCalls

LimitReached == halfOpenCalls >= HalfOpenMaxCalls

AdmitProbe(c) ==
    /\ state = "half_open"
    /\ ~LimitReached
    /\ halfOpenCalls' = halfOpenCalls + 1
    /\ probing' = probing \cup {c}
    /\ UNCHANGED <<state, failureCount, elapsed, lost>>

Admit(c) ==
    /\ c \notin executing
    /\ executing' = executing \cup {c}
    /\ AdmitClosed(c) \/ StartRecovery(c) \/ AdmitProbe(c)
    /\ UNCHANGED <<cancels, healthy>>

-----------------------------------------------------------------------------
\* record_success(), record_failure(), and the end of a call

\* A half-open episode is over; the calls it admitted are late ones from now on.
EndEpisode == probing' = {} /\ lost' = 0

\* Faults: a success does not forget the failures; it does not close.
ResetKeepingCount ==
    /\ state' = "closed"
    /\ elapsed' = None
    /\ halfOpenCalls' = 0
    /\ EndEpisode
    /\ UNCHANGED failureCount

ResetCountOnly ==
    /\ failureCount' = 0
    /\ UNCHANGED <<state, elapsed, halfOpenCalls, probing, lost>>

\* record_success(), whatever the state was when the call was admitted.
RecordSuccess ==
    /\ state' = "closed"
    /\ failureCount' = 0
    /\ elapsed' = None
    /\ halfOpenCalls' = 0
    /\ EndEpisode

\* The threshold is reached, or was before: opened_at is set (again).
Trip ==
    /\ state' = "open"
    /\ elapsed' = 0
    /\ halfOpenCalls' = 0
    /\ EndEpisode

RecordFailure(c) ==
    /\ failureCount' = failureCount + 1
    /\ IF failureCount' >= FailureThreshold
          THEN Trip
          ELSE /\ probing' = probing \ {c}
               /\ UNCHANGED <<state, elapsed, halfOpenCalls, lost>>

Leave(c) ==
    /\ c \in executing
    /\ executing' = executing \ {c}

Succeed(c) ==
    /\ Leave(c)
    /\ RecordSuccess
    /\ UNCHANGED <<cancels, healthy>>

Fail(c) ==
    /\ ~healthy
    /\ failureCount < MaxFailures
    /\ Leave(c)
    /\ RecordFailure(c)
    /\ UNCHANGED <<cancels, healthy>>

\* CancelledError is not an Exception: neither outcome is recorded.
Cancel(c) ==
    /\ cancels < MaxCancels
    /\ cancels' = cancels + 1
    /\ Leave(c)
    /\ probing' = probing \ {c}
    /\ lost' = IF c \in probing THEN lost + 1 ELSE lost
    /\ UNCHANGED <<state, failureCount, elapsed, halfOpenCalls, healthy>>

-----------------------------------------------------------------------------

\* utc_timestamp() advances.
Tick ==
    /\ elapsed # None
    /\ elapsed < RecoveryTimeout
    /\ elapsed' = elapsed + 1
    /\ UNCHANGED <<state, failureCount, halfOpenCalls, executing, probing, lost,
                   cancels, healthy>>

\* The environment: the backend is repaired and no call fails any more.
Repair ==
    /\ ~healthy
    /\ healthy' = TRUE
    /\ UNCHANGED <<state, failureCount, elapsed, halfOpenCalls, executing, probing,
                   lost, cancels>>

CBNext ==
    \/ \E c \in Calls : Admit(c) \/ Succeed(c) \/ Fail(c) \/ Cancel(c)
    \/ Tick
    \/ Repair

\* Time passes, calls keep coming, and a call that was admitted ends: the redis
\* client has socket timeouts.
CBFairness ==
    /\ WF_cbVars(Tick)
    /\ WF_cbVars(\E c \in Calls : Admit(c))
    /\ \A c \in Calls : WF_cbVars(Succeed(c) \/ Fail(c))

CBSpec == CBInit /\ [][CBNext]_cbVars

CBFairSpec == CBSpec /\ CBFairness

-----------------------------------------------------------------------------

\* Every variable holds a value of its kind.
CBTypeOK ==
    /\ state \in {"closed", "open", "half_open"}
    /\ failureCount \in 0..MaxFailures
    /\ elapsed \in 0..RecoveryTimeout \cup {None}
    /\ halfOpenCalls \in 0..HalfOpenMaxCalls
    /\ executing \subseteq Calls
    /\ probing \subseteq Calls
    /\ lost \in Nat
    /\ cancels \in 0..MaxCancels
    /\ healthy \in BOOLEAN

\* The three fields agree, whatever late results arrive: the breaker is closed
\* exactly while fewer failures than the threshold stand against the backend,
\* and it remembers when it opened exactly while it is not closed.
StateMatchesCount ==
    /\ state = "closed" <=> failureCount < FailureThreshold
    /\ state = "closed" <=> elapsed = None

\* A half-open episode lets at most HalfOpenMaxCalls + 1 calls through to the
\* backend, those that were cancelled included, however calls interleave: one more
\* than "half-open call limit" says, as the call that opens the episode is not counted.
ProbesBounded == Cardinality(probing) + lost <= HalfOpenMaxCalls + 1

\* The breaker refuses every call and no call is left that could change that.
Wedged == state = "half_open" /\ LimitReached /\ probing = {}

\* A breaker wedges in no way but one: every call of the half-open episode was
\* cancelled, so that neither outcome was recorded.
WedgedOnlyByCancellation == Wedged => lost = HalfOpenMaxCalls + 1

\* A failure that arrives while the breaker is half-open, of a probe or of a
\* call admitted long before, opens it again: no failed probe is forgiven.
FailureReopens ==
    [][state = "half_open" /\ failureCount' > failureCount => state' = "open"]_cbVars

\* Once the backend is healthy the breaker closes, unless it wedged.
Recovers == healthy ~> (state = "closed" \/ Wedged)

=============================================================================
