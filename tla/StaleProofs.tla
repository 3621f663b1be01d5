----------------------------- MODULE StaleProofs -----------------------------
(***************************************************************************)
(* When get_or_load answers with an expired envelope, for any instances,   *)
(* requests, faults and cancellations.  The answer comes from the flight,  *)
(* so the proof composes the invariants of the two levels: GLInv says      *)
(* where a task stands, and the invariant of SingleFlightProofs says why   *)
(* its flight failed.  EndedForAReason is the link between them.           *)
(***************************************************************************)
EXTENDS GetOrLoadProofs

\* The single-flight groups once more, with what was proved about them.
Groups == INSTANCE SingleFlightProofs
              WITH Calls <- Tasks, Keys <- Instances, Values <- Results

\* The load of the task's flight failed, or one of its waiters was cancelled.
Explained(c) ==
    \/ produced[joined[c]] = Error
    \/ \E d \in asked \ {c} : joined[d] = c /\ joined[c] = c

\* The places before a task enters its flight.
Before == {"idle", "read", "spawned"}

\* Only a task that waits for a flight, or has left it, was asked to cancel.
AskedOutside == \A d \in asked : phase[d] \in {"waiting", "done"}

\* A request holds an expired envelope from the moment it enters its flight, and
\* ends with what the flight returned, or for one of the two reasons.
EndedForAReason ==
    \A c \in Tasks : IsRequest(c) =>
        /\ at[c] \in Before => stale[c] = None
        /\ at[c] # "end" => answer[c] = Pending
        /\ at[c] = "end" /\ stale[c] # None =>
               phase[c] = "done" /\ (answer[c] = returned[c] \/ Explained(c))

StaleInv == GLInv /\ Groups!SFInv /\ AskedOutside /\ EndedForAReason

-----------------------------------------------------------------------------
\* The two instances of SingleFlight are the same

LEMMA NoneFacts == None \notin Tasks /\ None \notin Instances
BY EnvelopeFacts

LEMMA SameOutcomes ==
    /\ Groups!Pending = Pending /\ Groups!Error = Error
    /\ Groups!Cancelled = Cancelled
    /\ Groups!Outcomes = Flights!Outcomes
BY DEF Pending, Error, Cancelled, Groups!Pending, Groups!Error, Groups!Cancelled,
   Groups!InvalidState, Groups!Value, Groups!Failures, Groups!Outcomes,
   Flights!Pending, Flights!Error, Flights!Cancelled, Flights!InvalidState,
   Flights!Value, Flights!Failures, Flights!Outcomes

LEMMA SameInit == Flights!SFInit <=> Groups!SFInit
BY DEF Flights!SFInit, Groups!SFInit, Flights!Pending, Groups!Pending

LEMMA SameNext == Flights!SFNext <=> Groups!SFNext
BY DEF Flights!SFNext, Flights!Do, Flights!Lead, Flights!Follow, Flights!FollowFinished,
   Flights!InFlight, Flights!FactoryEnds, Flights!Raise, Flights!Return,
   Flights!Complete, Flights!Settle, Flights!Unregister, Flights!CancelOwner,
   Flights!CancelWaiter, Flights!Wake, Flights!Pending, Flights!Error,
   Flights!Cancelled, Flights!InvalidState, Flights!Value,
   Groups!SFNext, Groups!Do, Groups!Lead, Groups!Follow, Groups!FollowFinished,
   Groups!InFlight, Groups!FactoryEnds, Groups!Raise, Groups!Return,
   Groups!Complete, Groups!Settle, Groups!Unregister, Groups!CancelOwner,
   Groups!CancelWaiter, Groups!Wake, Groups!Pending, Groups!Error,
   Groups!Cancelled, Groups!InvalidState, Groups!Value

LEMMA GroupsStep == GLInv /\ [Next]_vars => [Groups!SFNext]_(Groups!sfVars)
BY GLFlightStep, SameNext DEF Flights!sfVars, Groups!sfVars

-----------------------------------------------------------------------------
\* What a step of the single-flight groups does

\* A call that is over stays as it is, and so does the reason it ended for.
LEMMA DoneIsKept ==
    ASSUME Groups!SFInv, AskedOutside, [Groups!SFNext]_(Groups!sfVars)
    PROVE  /\ AskedOutside'
           /\ \A c \in Tasks : phase[c] = "done" =>
                 /\ phase'[c] = "done"
                 /\ returned'[c] = returned[c]
                 /\ Explained(c) => Explained(c)'
<1> USE NoneFacts DEF Groups!SFInv, Groups!SFTypeOK
<1>1. /\ asked \subseteq asked'
      /\ \A c \in Tasks : phase[c] # "new" => joined'[c] = joined[c]
      /\ \A c \in Tasks : phase[c] = "done" =>
            phase'[c] = "done" /\ returned'[c] = returned[c] /\ produced'[c] = produced[c]
  BY DEF Groups!SFNext, Groups!sfVars, Groups!Do, Groups!Lead, Groups!Follow,
     Groups!FollowFinished, Groups!FactoryEnds, Groups!Raise, Groups!Return,
     Groups!Complete, Groups!Settle, Groups!Unregister, Groups!CancelOwner,
     Groups!CancelWaiter, Groups!Wake
<1>2. AskedOutside'
  BY DEF AskedOutside, Groups!SFNext, Groups!sfVars, Groups!Do, Groups!Lead,
     Groups!Follow, Groups!FollowFinished, Groups!FactoryEnds, Groups!Raise,
     Groups!Return, Groups!Complete, Groups!Settle, Groups!Unregister,
     Groups!CancelOwner, Groups!CancelWaiter, Groups!Wake
<1>3. ASSUME NEW c \in Tasks, phase[c] = "done", Explained(c)
      PROVE  Explained(c)'
  <2>1. joined[c] \in Tasks /\ phase[joined[c]] \in {"loading", "done"}
    BY <1>3 DEF Groups!JoinedOwnKey
  <2>2. ASSUME produced[joined[c]] = Error PROVE produced'[joined'[c]] = Error
    <3>1. Error # Groups!Pending
      BY DEF Error, Flights!Error, Groups!Pending
    <3>2. phase[joined[c]] = "done"
      BY <2>1, <2>2, <3>1 DEF Groups!FuturesFollowFactories
    <3> QED
      BY <1>1, <1>3, <2>1, <2>2, <3>2
  <2>3. ASSUME NEW d \in asked \ {c}, joined[d] = c, joined[c] = c
        PROVE  d \in asked' /\ joined'[d] = c /\ joined'[c] = c
    BY <1>1, <1>3, <2>3 DEF AskedOutside
  <2> QED
    BY <1>3, <2>2, <2>3 DEF Explained, Error, Flights!Error
<1> QED
  BY <1>1, <1>2, <1>3

\* A call that its flight ends with an exception other than CancelledError has one
\* of the two reasons.
LEMMA FailureExplained ==
    ASSUME Groups!SFInv, Groups!SFInv', AskedOutside,
           [Groups!SFNext]_(Groups!sfVars), NEW c \in Tasks,
           phase[c] \in {"loading", "waiting"}, phase'[c] = "done",
           returned'[c].kind \notin {"value", "cancelled"}
    PROVE  Explained(c)'
<1> USE NoneFacts DEF Groups!SFInv, Groups!SFTypeOK
<1>1. CASE returned'[c].kind = "error"
  <2>1. returned'[c] = produced'[joined'[c]]
    BY <1>1 DEF Groups!ResultIsTheFlights
  <2>2. returned'[c] = Error
    <3>1. returned'[c] \in Groups!Outcomes \cup {Groups!Pending}
      OBVIOUS
    <3>2. returned'[c] # Groups!Pending
      BY <1>1 DEF Groups!Pending
    <3> QED
      BY <1>1, <3>1, <3>2, SameOutcomes, OutcomeFacts
  <2> QED
    BY <2>1, <2>2 DEF Explained, Error, Flights!Error
<1>2. CASE returned'[c].kind # "error"
  <2>1. PICK d \in Tasks :
            \/ Groups!FactoryEnds(d) \/ Groups!CancelOwner(d) \/ Groups!Wake(d)
    BY DEF Groups!SFNext, Groups!sfVars, Groups!Do, Groups!Lead, Groups!Follow,
       Groups!FollowFinished, Groups!CancelWaiter
  <2>2. d = c
    BY <2>1 DEF Groups!FactoryEnds, Groups!Raise, Groups!Return, Groups!Complete,
       Groups!Unregister, Groups!CancelOwner, Groups!Wake
  <2>3. CASE Groups!Wake(c)
    <3>1. returned'[c] \in {Groups!Cancelled, future[joined[c]]}
      BY <2>3 DEF Groups!Wake
    <3>2. /\ joined[c] \in Tasks
          /\ future[joined[c]] \in Groups!Outcomes
          /\ future[joined[c]] # Groups!InvalidState
      BY <2>3 DEF Groups!Wake, Groups!JoinedOwnKey, Groups!FuturesFollowFactories
    <3> QED
      BY <1>2, <3>1, <3>2 DEF Groups!Outcomes, Groups!Failures, Groups!Value,
         Groups!Cancelled, Groups!Error
  <2>4. CASE Groups!CancelOwner(c)
    BY <2>4 DEF Groups!CancelOwner, Groups!Unregister, Groups!Cancelled
  <2>5. CASE Groups!FactoryEnds(c)
    <3>1. future[c] # Groups!Pending
      <4>1. PICK r : Groups!Complete(c, r) /\ r.kind \in {"value", "error"}
        <5>1. CASE Groups!Raise(c)
          <6>1. Groups!Complete(c, Groups!Error) /\ Groups!Error.kind = "error"
            BY <5>1 DEF Groups!Raise, Groups!Error
          <6> QED
            BY <6>1
        <5>2. ASSUME NEW v \in Results, Groups!Return(c, v)
              PROVE  \E r : Groups!Complete(c, r) /\ r.kind \in {"value", "error"}
          <6>1. Groups!Complete(c, Groups!Value(v)) /\ Groups!Value(v).kind = "value"
            BY <5>2 DEF Groups!Return, Groups!Value
          <6> QED
            BY <6>1
        <5> QED
          BY <2>5, <5>1, <5>2 DEF Groups!FactoryEnds
      <4>2. future[c] = Groups!Pending => returned'[c] = r
        BY <4>1 DEF Groups!Complete, Groups!Unregister
      <4> QED
        BY <1>2, <4>1, <4>2
    <3>2. /\ phase[c] = "loading"
          /\ joined' = joined /\ asked' = asked
      BY <2>5 DEF Groups!FactoryEnds, Groups!Raise, Groups!Return, Groups!Complete,
         Groups!Unregister
    <3>3. future[c] = Groups!Cancelled /\ joined[c] = c
      BY <3>1, <3>2 DEF Groups!FuturesFollowFactories, Groups!JoinedOwnKey
    <3>4. PICK e \in asked : joined[e] = c
      BY <3>3 DEF Groups!CancelledByAWaiter
    <3>5. e # c
      BY <3>2, <3>4 DEF AskedOutside
    <3> QED
      BY <3>2, <3>3, <3>4, <3>5 DEF Explained
  <2> QED
    BY <2>1, <2>2, <2>3, <2>4, <2>5
<1> QED
  BY <1>1, <1>2

-----------------------------------------------------------------------------
\* What a step does to one task

Stays(d) == at'[d] = at[d] /\ answer'[d] = answer[d] /\ stale'[d] = stale[d]

GoesOn(d) ==
    /\ at[d] # "end" /\ at'[d] # "end"
    /\ answer'[d] = answer[d]
    /\ at'[d] \in Before => at[d] \in Before /\ stale'[d] = stale[d]

EndsBefore(d) == at[d] \in Before /\ at'[d] = "end" /\ stale'[d] = stale[d]

EndsAtOnce(d) == at'[d] = "end" /\ phase'[d] = "done" /\ answer'[d] = returned'[d]

EndsWithFlight(d) ==
    /\ phase[d] \in {"loading", "waiting"} /\ phase'[d] = "done"
    /\ at'[d] = "end"
    /\ answer'[d] = Resolve(d, returned'[d])
    /\ stale'[d] = stale[d]

Moves(d) == Stays(d) \/ GoesOn(d) \/ EndsBefore(d) \/ EndsAtOnce(d) \/ EndsWithFlight(d)

LEMMA HitMoves ==
    ASSUME GLInv, NEW c \in Tasks, NEW e, IsRequest(c), at[c] \in Before, Hit(c, e),
           NEW d \in Tasks, IsRequest(d)
    PROVE  Moves(d)
<1>1. Refresh(c) # d /\ Refresh(c) # c
  BY RefreshFacts, TaskFacts
<1>2. /\ stale'[d] = stale[d]
      /\ d # c => at'[d] = at[d] /\ answer'[d] = answer[d]
      /\ at'[c] = "end"
  BY <1>1 DEF Hit, GLInv, GLTypeOK
<1> QED
  BY <1>2 DEF Moves, Stays, EndsBefore

LEMMA EnterMoves ==
    ASSUME GLInv, NEW c \in Tasks, at[c] \in Before, EnterFlight(c),
           NEW d \in Tasks, d # c => stale'[d] = stale[d]
    PROVE  Moves(d)
<1> USE DEF GLInv, GLTypeOK
<1>1. CASE d # c
  <2>1. at'[d] = at[d] /\ answer'[d] = answer[d]
    BY <1>1 DEF EnterFlight
  <2> QED
    BY <1>1, <2>1 DEF Moves, Stays
<1>2. CASE d = c /\ at' = [at EXCEPT ![c] = "end"]
  <2>1. Flights!FollowFinished(c, Home(c)) /\ answer' = [answer EXCEPT ![c] = returned'[c]]
    BY <1>2 DEF EnterFlight
  <2>2. phase'[c] = "done"
    BY <2>1 DEF Flights!FollowFinished, Flights!SFTypeOK
  <2> QED
    BY <1>2, <2>1, <2>2 DEF Moves, EndsAtOnce
<1>3. CASE d = c /\ at' # [at EXCEPT ![c] = "end"]
  <2>1. at'[c] \in {"lock", "wait"} /\ answer'[c] = answer[c]
    BY <1>3 DEF EnterFlight
  <2> QED
    BY <1>3, <2>1 DEF Moves, GoesOn, Before
<1> QED
  BY <1>1, <1>2, <1>3

LEMMA FinishMoves ==
    ASSUME GLInv, NEW c \in Tasks, at[c] \in FactoryPlaces, NEW r, Finish(c, r),
           UNCHANGED stale, NEW d \in Tasks
    PROVE  Moves(d)
<1> USE DEF GLInv, GLTypeOK
<1>1. CASE d # c
  BY <1>1 DEF Finish, Moves, Stays
<1>2. CASE d = c
  <2>1. phase[c] = "loading"
    BY DEF FlightLink
  <2>2. phase'[c] = "done"
    BY DEF Finish, Flights!Return, Flights!Raise, Flights!CancelOwner, Flights!Complete,
       Flights!Unregister, Flights!SFTypeOK
  <2>3. at'[c] = "end" /\ answer'[c] = Resolve(c, returned'[c])
    BY DEF Finish
  <2> QED
    BY <1>2, <2>1, <2>2, <2>3 DEF Moves, EndsWithFlight
<1> QED
  BY <1>1, <1>2

LEMMA StayMoves ==
    ASSUME GLInv, NEW c \in Tasks, at[c] \in FactoryPlaces, NEW p \in FactoryPlaces,
           at' = [at EXCEPT ![c] = p], UNCHANGED <<answer, stale>>, NEW d \in Tasks
    PROVE  Moves(d)
BY DEF Moves, Stays, GoesOn, Before, FactoryPlaces, GLInv, GLTypeOK

LEMMA LeaveMoves ==
    ASSUME GLInv, NEW c \in Tasks, at[c] \in FactoryPlaces, NEW r, Leave(c, r),
           UNCHANGED stale, NEW d \in Tasks
    PROVE  Moves(d)
<1>1. CASE c \in guarded'
  <2>1. at' = [at EXCEPT ![c] = "unlock"] /\ answer' = answer
    BY <1>1 DEF Leave
  <2> QED
    BY <2>1, StayMoves DEF FactoryPlaces
<1>2. CASE c \notin guarded'
  BY <1>2, FinishMoves DEF Leave
<1> QED
  BY <1>1, <1>2

LEMMA LookUpMoves ==
    ASSUME GLInv, NEW c \in Tasks, at[c] \in FactoryPlaces, LookUp(c),
           UNCHANGED stale, NEW d \in Tasks
    PROVE  Moves(d)
<1>1. CASE Unexpired(l1[Home(c)])
  BY <1>1, LeaveMoves DEF LookUp
<1>2. CASE ~Unexpired(l1[Home(c)])
  <2>1. at' = [at EXCEPT ![c] = "poll"] /\ answer' = answer
    BY <1>2 DEF LookUp
  <2> QED
    BY <2>1, StayMoves DEF FactoryPlaces
<1> QED
  BY <1>1, <1>2

LEMMA NotFoundMoves ==
    ASSUME GLInv, NEW c \in Tasks, at[c] \in FactoryPlaces, NotFound(c),
           UNCHANGED <<answer, stale>>, NEW d \in Tasks
    PROVE  Moves(d)
<1>1. PICK p \in {"sleep", "relock", "load"} : at' = [at EXCEPT ![c] = p]
  BY NotFoundStep
<1> QED
  BY <1>1, StayMoves DEF FactoryPlaces

LEMMA StepMoves ==
    ASSUME GLInv, [Next]_vars, NEW d \in Tasks, IsRequest(d)
    PROVE  Moves(d)
<1>1. ASSUME NEW c \in Tasks, Start(c) PROVE Moves(d)
  <2>1. at[c] = "idle" /\ IsRequest(c)
    BY <1>1 DEF Start, Runs
  <2>2. CASE l1[Home(c)] = None
    <3>1. at' = [at EXCEPT ![c] = "read"] /\ UNCHANGED <<stale, answer>>
      BY <1>1, <2>2 DEF Start, Unexpired
    <3> QED
      BY <2>1, <3>1 DEF Moves, Stays, GoesOn, Before, GLInv, GLTypeOK
  <2>3. CASE Unexpired(l1[Home(c)])
    <3>1. Hit(c, l1[Home(c)])
      BY <1>1, <2>3 DEF Start, Unexpired
    <3> QED
      BY <2>1, <3>1, HitMoves DEF Before
  <2>4. CASE l1[Home(c)] # None /\ ~Unexpired(l1[Home(c)])
    <3>1. EnterFlight(c) /\ stale' = [stale EXCEPT ![c] = l1[Home(c)]]
      BY <1>1, <2>4 DEF Start
    <3> QED
      BY <2>1, <3>1, EnterMoves DEF Before, GLInv, GLTypeOK
  <2> QED
    BY <2>2, <2>3, <2>4
<1>2. ASSUME NEW c \in Tasks, ReadFirst(c) PROVE Moves(d)
  <2>1. at[c] = "read" /\ IsRequest(c)
    BY <1>2 DEF ReadFirst, Runs, GLInv, RefreshLink
  <2>2. CASE Unexpired(reply[c])
    BY <1>2, <2>1, <2>2, HitMoves DEF ReadFirst, Before
  <2>3. CASE ~Unexpired(reply[c])
    <3>1. EnterFlight(c) /\ stale' = [stale EXCEPT ![c] = reply[c]]
      BY <1>2, <2>3 DEF ReadFirst
    <3> QED
      BY <2>1, <3>1, EnterMoves DEF Before, GLInv, GLTypeOK
  <2> QED
    BY <2>2, <2>3
<1>3. ASSUME NEW c \in Tasks, StartRefresh(c) PROVE Moves(d)
  BY <1>3, EnterMoves DEF StartRefresh, Runs, Before
<1>4. ASSUME NEW c \in Tasks, TryLock(c) PROVE Moves(d)
  <2>1. PICK p \in {"load", "sleep"} : at' = [at EXCEPT ![c] = p]
    BY <1>4 DEF TryLock
  <2> QED
    BY <1>4, <2>1, StayMoves DEF TryLock, Runs, FactoryPlaces
<1>5. ASSUME NEW c \in Tasks, Poll(c) \/ TryLockAgain(c) PROVE Moves(d)
  BY <1>5, LookUpMoves DEF Poll, TryLockAgain, Runs, FactoryPlaces
<1>6. ASSUME NEW c \in Tasks, Polled(c) PROVE Moves(d)
  <2>1. at[c] \in FactoryPlaces /\ stale' = stale
    BY <1>6 DEF Polled, Runs, FactoryPlaces
  <2>2. \/ Leave(c, Value(reply[c]))
        \/ NotFound(c) /\ answer' = answer
        \/ at' = [at EXCEPT ![c] = "drop"] /\ answer' = answer
    BY <1>6 DEF Polled
  <2> QED
    BY <2>1, <2>2, LeaveMoves, NotFoundMoves, StayMoves DEF FactoryPlaces
<1>7. ASSUME NEW c \in Tasks, Drop(c) PROVE Moves(d)
  BY <1>7, NotFoundMoves DEF Drop, Runs, FactoryPlaces
<1>8. ASSUME NEW c \in Tasks, LoaderReturns(c) PROVE Moves(d)
  BY <1>8, StayMoves DEF LoaderReturns, Runs, FactoryPlaces
<1>9. ASSUME NEW c \in Tasks, LoaderRaises(c) \/ Store(c) \/ CancelFactory(c) PROVE Moves(d)
  <2>1. at[c] \in FactoryPlaces /\ stale' = stale
    BY <1>9 DEF LoaderRaises, Store, CancelFactory, Runs, FactoryPlaces
  <2>2. \E r : Leave(c, r)
    BY <1>9 DEF LoaderRaises, Store, CancelFactory
  <2> QED
    BY <2>1, <2>2, LeaveMoves
<1>10. ASSUME NEW c \in Tasks, Unlock(c) \/ CancelUnlock(c) PROVE Moves(d)
  BY <1>10, FinishMoves DEF Unlock, CancelUnlock, Runs, FactoryPlaces
<1>11. ASSUME NEW c \in Tasks, Wake(c) PROVE Moves(d)
  <2>1. /\ phase[c] = "waiting" /\ phase'[c] = "done"
        /\ at' = [at EXCEPT ![c] = "end"]
        /\ answer' = [answer EXCEPT ![c] = Resolve(c, returned'[c])]
        /\ stale' = stale
    BY <1>11 DEF Wake, Flights!Wake, GLInv, Flights!SFTypeOK
  <2> QED
    BY <2>1 DEF Moves, Stays, EndsWithFlight, GLInv, GLTypeOK
<1>12. ASSUME NEW c \in Tasks, CancelOutside(c) PROVE Moves(d)
  BY <1>12 DEF CancelOutside, Runs, Moves, Stays, EndsBefore, Before, GLInv, GLTypeOK
<1>13. ASSUME UNCHANGED <<at, answer, stale>> PROVE Moves(d)
  BY <1>13 DEF Moves, Stays
<1>14. ASSUME NEW c \in Tasks, Read(c) PROVE Moves(d)
  BY <1>14, <1>13 DEF Read
<1>15. CASE LockExpires \/ Evict \/ (\E e \in Envelopes : Age(e))
            \/ (\E i \in Instances : Crash(i)) \/ UNCHANGED vars
  BY <1>15, <1>13 DEF LockExpires, Evict, Age, Crash, vars
<1> QED
  BY <1>1, <1>2, <1>3, <1>4, <1>5, <1>6, <1>7, <1>8, <1>9, <1>10, <1>11, <1>12, <1>14, <1>15
     DEF Next, Proceed, Cancel

-----------------------------------------------------------------------------
\* The invariant and the theorem

LEMMA StaleInitInv == Init => StaleInv
<1> SUFFICES ASSUME Init PROVE StaleInv
  OBVIOUS
<1>1. GLInv
  BY GLInitInv
<1>2. Groups!SFInv
  BY SameInit, NoneFacts, Groups!SFInitInv DEF Init
<1>3. AskedOutside
  BY DEF Init, Flights!SFInit, AskedOutside
<1>4. EndedForAReason
  BY DEF Init, EndedForAReason
<1> QED
  BY <1>1, <1>2, <1>3, <1>4 DEF StaleInv

LEMMA StaleStepInv == StaleInv /\ [Next]_vars => StaleInv'
<1> SUFFICES ASSUME StaleInv, [Next]_vars PROVE StaleInv'
  OBVIOUS
<1>1. GLInv'
  BY GLStepInv DEF StaleInv
<1>2. [Groups!SFNext]_(Groups!sfVars)
  BY GroupsStep DEF StaleInv
<1>3. Groups!SFInv'
  BY <1>2, NoneFacts, Groups!SFStepInv DEF StaleInv
<1>4. /\ AskedOutside'
      /\ \A c \in Tasks : phase[c] = "done" =>
            /\ phase'[c] = "done"
            /\ returned'[c] = returned[c]
            /\ Explained(c) => Explained(c)'
  BY <1>2, DoneIsKept DEF StaleInv
<1>5. ASSUME NEW c \in Tasks, IsRequest(c)
      PROVE  /\ at'[c] \in Before => stale'[c] = None
             /\ at'[c] # "end" => answer'[c] = Pending
             /\ at'[c] = "end" /\ stale'[c] # None =>
                    phase'[c] = "done" /\ (answer'[c] = returned'[c] \/ Explained(c)')
  <2> USE <1>5 DEF StaleInv, EndedForAReason
  <2>1. CASE Stays(c)
    BY <2>1, <1>4 DEF Stays
  <2>2. CASE GoesOn(c)
    BY <2>2 DEF GoesOn
  <2>3. CASE EndsBefore(c)
    BY <2>3 DEF EndsBefore, Before
  <2>4. CASE EndsAtOnce(c)
    BY <2>4 DEF EndsAtOnce, Before
  <2>5. CASE EndsWithFlight(c)
    <3>1. \/ answer'[c] = returned'[c]
          \/ returned'[c].kind \notin {"value", "cancelled"}
      BY <2>5 DEF EndsWithFlight, Resolve
    <3>2. returned'[c].kind \notin {"value", "cancelled"} => Explained(c)'
      BY <2>5, <1>2, <1>3, FailureExplained DEF EndsWithFlight
    <3> QED
      BY <2>5, <3>1, <3>2 DEF EndsWithFlight, Before
  <2> QED
    BY <2>1, <2>2, <2>3, <2>4, <2>5, StepMoves DEF Moves
<1>6. EndedForAReason'
  BY <1>5 DEF EndedForAReason, Pending, Flights!Pending, Before, IsRequest
<1> QED
  BY <1>1, <1>3, <1>4, <1>6 DEF StaleInv

\* Nobody is given an expired envelope while the load of the flight succeeds,
\* except a leader whose waiter was cancelled: for any number of requests, and
\* whatever expires, fails, crashes or is cancelled.
THEOREM GLStaleOnlyOnFailure == Spec => []StaleOnlyOnFailure
<1>1. StaleInv => StaleOnlyOnFailure
  <2> SUFFICES ASSUME StaleInv, NEW c \in Tasks, IsRequest(c), stale[c] # None,
                      answer[c] = Value(stale[c]), answer[c] # returned[c]
               PROVE  Explained(c)
    BY DEF StaleOnlyOnFailure, Explained
  <2>1. answer[c] # Pending
    BY DEF Value, Flights!Value, Pending, Flights!Pending
  <2> QED
    BY <2>1 DEF StaleInv, EndedForAReason
<1> QED
  BY <1>1, StaleInitInv, StaleStepInv, PTL DEF Spec

=============================================================================
