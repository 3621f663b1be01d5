------------------------ MODULE CircuitBreakerProofs ------------------------
(***************************************************************************)
(* What CircuitBreaker promises, for any tasks, thresholds and limits.     *)
(*                                                                         *)
(* The bound on the calls of a half-open episode is not inductive.  What   *)
(* is: every call the episode let through is either still at the backend   *)
(* or was cancelled, and half_open_calls counts all of them but the first. *)
(***************************************************************************)
EXTENDS CircuitBreaker, FiniteSetTheorems, TLAPS

\* Where the calls of the half-open episode are.
ProbesAccounted ==
    /\ probing \subseteq executing
    /\ state = "half_open" => Cardinality(probing) + lost = halfOpenCalls + 1
    /\ state # "half_open" => probing = {} /\ lost = 0

CBInv == CBTypeOK /\ StateMatchesCount /\ ProbesAccounted

-----------------------------------------------------------------------------

\* Sets of calls are finite, and a call more or less changes their size by one.
LEMMA CallSets ==
    ASSUME NEW S, S \subseteq Calls
    PROVE  /\ Cardinality(S) \in Nat
           /\ \A c : c \notin S => Cardinality(S \cup {c}) = Cardinality(S) + 1
           /\ \A c \in S : Cardinality(S \ {c}) = Cardinality(S) - 1
<1>1. IsFiniteSet(S)
  BY FS_Subset, BoundAssumption
<1> QED
  BY <1>1, FS_CardinalityType, FS_AddElement, FS_RemoveElement

LEMMA NoCalls == Cardinality({}) = 0
BY FS_EmptySet

\* The invariant holds initially.
LEMMA CBInitInv == CBInit => CBInv
<1> SUFFICES ASSUME CBInit PROVE CBInv
    OBVIOUS
<1>1. CBTypeOK
  <2>1. healthy \in BOOLEAN
    BY DEF CBInit
  <2> QED
    BY <2>1, ConfigAssumption, BoundAssumption DEF CBInit, CBTypeOK
<1>2. StateMatchesCount
  BY ConfigAssumption DEF CBInit, StateMatchesCount
<1>3. ProbesAccounted
  BY DEF CBInit, ProbesAccounted
<1> QED
  BY <1>1, <1>2, <1>3 DEF CBInv

\* Every step preserves the invariant.
LEMMA CBStepInv == CBInv /\ [CBNext]_cbVars => CBInv'
<1> SUFFICES ASSUME CBInv, [CBNext]_cbVars PROVE CBInv'
    OBVIOUS
<1> USE ConfigAssumption, BoundAssumption DEF CBInv, CBTypeOK, StateMatchesCount
<1>1. ASSUME NEW c \in Calls, Admit(c)
      PROVE  CBInv'
  <2>1. CASE AdmitClosed(c)
    BY <1>1, <2>1 DEF Admit, AdmitClosed, ProbesAccounted
  <2>2. CASE StartRecovery(c)
    <3>1. Cardinality({c}) = 1
      BY FS_Singleton
    <3> QED
      BY <1>1, <2>2, <3>1 DEF Admit, StartRecovery, ProbesAccounted
  <2>3. CASE AdmitProbe(c)
    <3>1. Cardinality(probing \cup {c}) = Cardinality(probing) + 1
      BY <1>1, CallSets DEF Admit, ProbesAccounted
    <3>2. Cardinality(probing) \in Nat
      BY CallSets
    <3>3. CBTypeOK' /\ StateMatchesCount'
      BY <1>1, <2>3 DEF Admit, AdmitProbe, LimitReached
    <3>4. ProbesAccounted'
      BY <1>1, <2>3, <3>1, <3>2 DEF Admit, AdmitProbe, ProbesAccounted
    <3> QED
      BY <3>3, <3>4
  <2> QED
    BY <1>1, <2>1, <2>2, <2>3 DEF Admit
<1>2. ASSUME NEW c \in Calls, Succeed(c)
      PROVE  CBInv'
  BY <1>2 DEF Succeed, Leave, RecordSuccess, EndEpisode, ProbesAccounted
<1>3. ASSUME NEW c \in Calls, Fail(c)
      PROVE  CBInv'
  <2>1. CASE failureCount + 1 >= FailureThreshold
    BY <1>3, <2>1 DEF Fail, Leave, RecordFailure, Trip, EndEpisode, ProbesAccounted
  <2>2. CASE failureCount + 1 < FailureThreshold
    <3>1. state = "closed" /\ probing = {}
      BY <2>2 DEF ProbesAccounted
    <3> QED
      BY <1>3, <2>2, <3>1 DEF Fail, Leave, RecordFailure, ProbesAccounted
  <2> QED
    BY <2>1, <2>2
<1>4. ASSUME NEW c \in Calls, Cancel(c)
      PROVE  CBInv'
  <2>1. CBTypeOK' /\ StateMatchesCount'
    BY <1>4 DEF Cancel, Leave
  <2>2. ProbesAccounted'
    <3>1. CASE c \in probing
      <4>1. Cardinality(probing \ {c}) = Cardinality(probing) - 1
        BY <3>1, CallSets
      <4>2. Cardinality(probing) \in Nat
        BY CallSets
      <4> QED
        BY <1>4, <3>1, <4>1, <4>2 DEF Cancel, Leave, ProbesAccounted
    <3>2. CASE c \notin probing
      <4>1. probing \ {c} = probing
        BY <3>2
      <4> QED
        BY <1>4, <3>2, <4>1 DEF Cancel, Leave, ProbesAccounted
    <3> QED
      BY <3>1, <3>2
  <2> QED
    BY <2>1, <2>2
<1>5. CASE Tick
  BY <1>5 DEF Tick, ProbesAccounted
<1>6. CASE Repair
  BY <1>6 DEF Repair, ProbesAccounted
<1>7. CASE UNCHANGED cbVars
  BY <1>7 DEF cbVars, ProbesAccounted
<1> QED
  BY <1>1, <1>2, <1>3, <1>4, <1>5, <1>6, <1>7 DEF CBNext

-----------------------------------------------------------------------------

\* The invariant, from which the theorems follow.
LEMMA CBInvariant == CBSpec => []CBInv
<1> QED
  BY CBInitInv, CBStepInv, PTL DEF CBSpec

\* Type correctness; half_open_calls never exceeds its limit.
THEOREM CBTypeCorrect == CBSpec => []CBTypeOK
BY CBInvariant, PTL DEF CBInv

\* The breaker is closed exactly while failure_count is below the threshold.
THEOREM CBStateMatchesCount == CBSpec => []StateMatchesCount
BY CBInvariant, PTL DEF CBInv

\* An episode lets half_open_max_calls + 1 calls through, and no more.
THEOREM CBProbesBounded == CBSpec => []ProbesBounded
<1>1. CBInv => ProbesBounded
  <2> SUFFICES ASSUME CBInv PROVE ProbesBounded
    OBVIOUS
  <2>1. CASE state = "half_open"
    BY <2>1, CallSets, ConfigAssumption
       DEF CBInv, CBTypeOK, ProbesAccounted, ProbesBounded
  <2>2. CASE state # "half_open"
    BY <2>2, NoCalls, ConfigAssumption DEF CBInv, ProbesAccounted, ProbesBounded
  <2> QED
    BY <2>1, <2>2
<1> QED
  BY <1>1, CBInvariant, PTL

\* A breaker that refuses everything with no call outstanding lost all the calls
\* of its episode to cancellation.
THEOREM CBWedgedOnlyByCancellation == CBSpec => []WedgedOnlyByCancellation
<1>1. CBInv => WedgedOnlyByCancellation
  BY NoCalls, ConfigAssumption
     DEF CBInv, CBTypeOK, ProbesAccounted, WedgedOnlyByCancellation, Wedged, LimitReached
<1> QED
  BY <1>1, CBInvariant, PTL

\* A failure that is recorded while the breaker is half-open opens it again.
THEOREM CBFailureReopens == CBSpec => FailureReopens
<1>1. CBInv /\ [CBNext]_cbVars =>
        [state = "half_open" /\ failureCount' > failureCount => state' = "open"]_cbVars
  <2> SUFFICES ASSUME CBInv, CBNext, state = "half_open", failureCount' > failureCount
               PROVE  state' = "open"
    BY DEF cbVars
  <2>1. PICK c \in Calls : Fail(c)
    BY ConfigAssumption DEF CBInv, CBTypeOK, CBNext, Admit, AdmitClosed, StartRecovery,
       AdmitProbe, Succeed, RecordSuccess, Cancel, Tick, Repair
  <2> QED
    BY <2>1, ConfigAssumption
       DEF CBInv, CBTypeOK, StateMatchesCount, Fail, RecordFailure, Trip
<1> QED
  BY <1>1, CBInvariant, PTL DEF CBSpec, FailureReopens

=============================================================================
