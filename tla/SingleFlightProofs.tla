------------------------- MODULE SingleFlightProofs -------------------------
(***************************************************************************)
(* What SingleFlight promises, for any calls, keys and values.             *)
(*                                                                         *)
(* The invariants of the runs are not inductive by themselves.  SFInv adds *)
(* what a step relies on: which futures can still be settled, and that the *)
(* calls of a flight agree on its key.                                     *)
(***************************************************************************)
EXTENDS SingleFlight, TLAPS

\* A future takes a value or an error only from the factory of its flight, and
\* while the flight loads it is pending, unless a waiter cancelled it.
FuturesFollowFactories ==
    \A c \in Calls :
        /\ future[c].kind \in {"value", "error"} => future[c] = produced[c]
        /\ phase[c] = "loading" => future[c] \in {Pending, Cancelled}
        /\ phase[c] \in {"new", "loading"} => produced[c] = Pending
        /\ future[c] # Pending => phase[c] \in {"loading", "done"}
        /\ future[c] # InvalidState

\* A call has joined a flight of its own key, and one whose leader has begun.
JoinedOwnKey ==
    \A c \in Calls :
        /\ phase[c] = "new" => key[c] = None /\ joined[c] = None
        /\ phase[c] # "new" =>
               /\ key[c] \in Keys
               /\ joined[c] \in Calls
               /\ key[joined[c]] = key[c]
               /\ phase[joined[c]] \in {"loading", "done"}
        /\ phase[c] = "loading" => joined[c] = c
        /\ phase[c] # "done" => returned[c] = Pending

\* A future is cancelled by a call that waits for it.
CancelledByAWaiter ==
    \A c \in Calls : future[c] = Cancelled => \E d \in asked : joined[d] = c

SFInv ==
    /\ SFTypeOK
    /\ RegistryIsExact
    /\ FuturesFollowFactories
    /\ JoinedOwnKey
    /\ ResultIsTheFlights
    /\ CancelledByAWaiter
    /\ CancellationHasACause

-----------------------------------------------------------------------------

\* The records for outcomes differ in their kinds.
LEMMA OutcomeKinds ==
    /\ Pending.kind = "pending" /\ Error.kind = "error"
    /\ Cancelled.kind = "cancelled" /\ InvalidState.kind = "invalid_state"
    /\ \A v : Value(v).kind = "value"
BY DEF Pending, Error, Cancelled, InvalidState, Value

\* Every outcome is of one of four kinds.
LEMMA OutcomeCases ==
    ASSUME NEW r \in Outcomes
    PROVE  /\ r.kind \in {"value", "error", "cancelled", "invalid_state"}
           /\ r.kind = "error" => r = Error
           /\ r.kind = "cancelled" => r = Cancelled
           /\ r.kind = "invalid_state" => r = InvalidState
           /\ r # Pending
BY DEF Outcomes, Failures, Pending, Error, Cancelled, InvalidState, Value

\* What futures, factories and calls can end with.
LEMMA OutcomeMembers ==
    /\ {Error, Cancelled, InvalidState} \subseteq Outcomes
    /\ \A v \in Values : Value(v) \in Outcomes
BY DEF Outcomes, Failures

\* The invariant holds initially.
LEMMA SFInitInv == SFInit => SFInv
<1> SUFFICES ASSUME SFInit PROVE SFInv
    OBVIOUS
<1>1. SFTypeOK /\ RegistryIsExact
  BY NoneAssumption DEF SFInit, SFTypeOK, RegistryIsExact
<1>2. FuturesFollowFactories /\ JoinedOwnKey /\ CancelledByAWaiter
  BY OutcomeKinds DEF SFInit, FuturesFollowFactories, JoinedOwnKey,
     CancelledByAWaiter, Pending, Cancelled, InvalidState
<1>3. ResultIsTheFlights /\ CancellationHasACause
  BY OutcomeKinds DEF SFInit, ResultIsTheFlights, CancellationHasACause
<1> QED
  BY <1>1, <1>2, <1>3 DEF SFInv

\* Every step preserves the invariant.
LEMMA SFStepInv == SFInv /\ [SFNext]_sfVars => SFInv'
<1> SUFFICES ASSUME SFInv, [SFNext]_sfVars PROVE SFInv'
    OBVIOUS
<1> USE DEF SFInv
<1>1. ASSUME NEW c \in Calls, NEW k \in Keys, Lead(c, k)
      PROVE  SFInv'
  <2>1. SFTypeOK'
    BY <1>1, OutcomeMembers DEF SFTypeOK, JoinedOwnKey, Lead, InFlight
  <2>2. RegistryIsExact'
    BY <1>1, NoneAssumption
       DEF RegistryIsExact, SFTypeOK, JoinedOwnKey, Lead, InFlight
  <2>3. FuturesFollowFactories'
    BY <1>1, OutcomeKinds
       DEF FuturesFollowFactories, SFTypeOK, JoinedOwnKey, Lead, InFlight
  <2>4. JoinedOwnKey'
    BY <1>1, NoneAssumption
       DEF JoinedOwnKey, SFTypeOK, RegistryIsExact, Lead, InFlight
  <2>5. ResultIsTheFlights'
    BY <1>1, OutcomeKinds
       DEF ResultIsTheFlights, SFTypeOK, RegistryIsExact,
           FuturesFollowFactories, JoinedOwnKey, Lead, InFlight
  <2>6. CancelledByAWaiter'
    BY <1>1, NoneAssumption, OutcomeKinds
       DEF CancelledByAWaiter, SFTypeOK, FuturesFollowFactories, JoinedOwnKey,
           Lead, InFlight
  <2>7. CancellationHasACause'
    BY <1>1, NoneAssumption, OutcomeKinds, OutcomeCases
       DEF CancellationHasACause, SFTypeOK, RegistryIsExact,
           FuturesFollowFactories, JoinedOwnKey, CancelledByAWaiter, Lead,
           InFlight
  <2> QED
    BY <2>1, <2>2, <2>3, <2>4, <2>5, <2>6, <2>7
<1>2. ASSUME NEW c \in Calls, NEW k \in Keys, Follow(c, k)
      PROVE  SFInv'
  <2>1. SFTypeOK'
    BY <1>2, OutcomeMembers DEF SFTypeOK, JoinedOwnKey, Follow, InFlight
  <2>2. RegistryIsExact'
    BY <1>2, NoneAssumption
       DEF RegistryIsExact, SFTypeOK, JoinedOwnKey, Follow, InFlight
  <2>3. FuturesFollowFactories'
    BY <1>2, OutcomeKinds
       DEF FuturesFollowFactories, SFTypeOK, JoinedOwnKey, Follow, InFlight
  <2>4. JoinedOwnKey'
    BY <1>2, NoneAssumption
       DEF JoinedOwnKey, SFTypeOK, RegistryIsExact, Follow, InFlight
  <2>5. ResultIsTheFlights'
    BY <1>2, OutcomeKinds
       DEF ResultIsTheFlights, SFTypeOK, RegistryIsExact,
           FuturesFollowFactories, JoinedOwnKey, Follow, InFlight
  <2>6. CancelledByAWaiter'
    BY <1>2, NoneAssumption, OutcomeKinds
       DEF CancelledByAWaiter, SFTypeOK, FuturesFollowFactories, JoinedOwnKey,
           Follow, InFlight
  <2>7. CancellationHasACause'
    BY <1>2, NoneAssumption, OutcomeKinds, OutcomeCases
       DEF CancellationHasACause, SFTypeOK, RegistryIsExact,
           FuturesFollowFactories, JoinedOwnKey, CancelledByAWaiter, Follow,
           InFlight
  <2> QED
    BY <2>1, <2>2, <2>3, <2>4, <2>5, <2>6, <2>7
<1>3. ASSUME NEW c \in Calls, NEW k \in Keys, FollowFinished(c, k)
      PROVE  SFInv'
  <2>1. SFTypeOK'
    BY <1>3, OutcomeMembers
       DEF SFTypeOK, JoinedOwnKey, FollowFinished, InFlight
  <2>2. RegistryIsExact'
    BY <1>3, NoneAssumption
       DEF RegistryIsExact, SFTypeOK, JoinedOwnKey, FollowFinished, InFlight
  <2>3. FuturesFollowFactories'
    BY <1>3, OutcomeKinds
       DEF FuturesFollowFactories, SFTypeOK, JoinedOwnKey, FollowFinished,
           InFlight
  <2>4. JoinedOwnKey'
    BY <1>3, NoneAssumption
       DEF JoinedOwnKey, SFTypeOK, RegistryIsExact, FollowFinished, InFlight
  <2>5. ResultIsTheFlights'
    BY <1>3, OutcomeKinds
       DEF ResultIsTheFlights, SFTypeOK, RegistryIsExact,
           FuturesFollowFactories, JoinedOwnKey, FollowFinished, InFlight
  <2>6. CancelledByAWaiter'
    BY <1>3, NoneAssumption, OutcomeKinds
       DEF CancelledByAWaiter, SFTypeOK, FuturesFollowFactories, JoinedOwnKey,
           FollowFinished, InFlight
  <2>7. CancellationHasACause'
    BY <1>3, NoneAssumption, OutcomeKinds, OutcomeCases
       DEF CancellationHasACause, SFTypeOK, RegistryIsExact,
           FuturesFollowFactories, JoinedOwnKey, CancelledByAWaiter,
           FollowFinished, InFlight
  <2> QED
    BY <2>1, <2>2, <2>3, <2>4, <2>5, <2>6, <2>7
<1>4. ASSUME NEW c \in Calls, FactoryEnds(c)
      PROVE  SFInv'
  <2>0. PICK r \in Outcomes : r.kind \in {"value", "error"} /\ Complete(c, r)
    BY <1>4, OutcomeKinds, OutcomeMembers DEF FactoryEnds, Return, Raise
  <2>1. SFTypeOK'
    BY <2>0, OutcomeMembers
       DEF SFTypeOK, JoinedOwnKey, Complete, Settle, Unregister
  <2>2. RegistryIsExact'
    BY <2>0, NoneAssumption
       DEF RegistryIsExact, SFTypeOK, JoinedOwnKey, Complete, Settle,
           Unregister
  <2>3. FuturesFollowFactories'
    BY <2>0, OutcomeKinds
       DEF FuturesFollowFactories, SFTypeOK, JoinedOwnKey, Complete, Settle,
           Unregister
  <2>4. JoinedOwnKey'
    BY <2>0, NoneAssumption
       DEF JoinedOwnKey, SFTypeOK, RegistryIsExact, Complete, Settle,
           Unregister
  <2>5. ResultIsTheFlights'
    BY <2>0, OutcomeKinds
       DEF ResultIsTheFlights, SFTypeOK, RegistryIsExact,
           FuturesFollowFactories, JoinedOwnKey, Complete, Settle, Unregister
  <2>6. CancelledByAWaiter'
    BY <2>0, NoneAssumption, OutcomeKinds
       DEF CancelledByAWaiter, SFTypeOK, FuturesFollowFactories, JoinedOwnKey,
           Complete, Settle, Unregister
  <2>7. CancellationHasACause'
    BY <2>0, NoneAssumption, OutcomeKinds, OutcomeCases
       DEF CancellationHasACause, SFTypeOK, RegistryIsExact,
           FuturesFollowFactories, JoinedOwnKey, CancelledByAWaiter, Complete,
           Settle, Unregister
  <2> QED
    BY <2>1, <2>2, <2>3, <2>4, <2>5, <2>6, <2>7
<1>5. ASSUME NEW c \in Calls, CancelOwner(c)
      PROVE  SFInv'
  <2>1. SFTypeOK'
    BY <1>5, OutcomeMembers
       DEF SFTypeOK, JoinedOwnKey, CancelOwner, Unregister
  <2>2. RegistryIsExact'
    BY <1>5, NoneAssumption
       DEF RegistryIsExact, SFTypeOK, JoinedOwnKey, CancelOwner, Unregister
  <2>3. FuturesFollowFactories'
    BY <1>5, OutcomeKinds
       DEF FuturesFollowFactories, SFTypeOK, JoinedOwnKey, CancelOwner,
           Unregister
  <2>4. JoinedOwnKey'
    BY <1>5, NoneAssumption
       DEF JoinedOwnKey, SFTypeOK, RegistryIsExact, CancelOwner, Unregister
  <2>5. ResultIsTheFlights'
    BY <1>5, OutcomeKinds
       DEF ResultIsTheFlights, SFTypeOK, RegistryIsExact,
           FuturesFollowFactories, JoinedOwnKey, CancelOwner, Unregister
  <2>6. CancelledByAWaiter'
    BY <1>5, NoneAssumption, OutcomeKinds
       DEF CancelledByAWaiter, SFTypeOK, FuturesFollowFactories, JoinedOwnKey,
           CancelOwner, Unregister
  <2>7. CancellationHasACause'
    BY <1>5, NoneAssumption, OutcomeKinds, OutcomeCases
       DEF CancellationHasACause, SFTypeOK, RegistryIsExact,
           FuturesFollowFactories, JoinedOwnKey, CancelledByAWaiter,
           CancelOwner, Unregister
  <2> QED
    BY <2>1, <2>2, <2>3, <2>4, <2>5, <2>6, <2>7
<1>6. ASSUME NEW c \in Calls, CancelWaiter(c)
      PROVE  SFInv'
  <2>1. SFTypeOK'
    BY <1>6, OutcomeMembers DEF SFTypeOK, JoinedOwnKey, CancelWaiter
  <2>2. RegistryIsExact'
    BY <1>6, NoneAssumption
       DEF RegistryIsExact, SFTypeOK, JoinedOwnKey, CancelWaiter
  <2>3. FuturesFollowFactories'
    BY <1>6, OutcomeKinds
       DEF FuturesFollowFactories, SFTypeOK, JoinedOwnKey, CancelWaiter
  <2>4. JoinedOwnKey'
    BY <1>6, NoneAssumption
       DEF JoinedOwnKey, SFTypeOK, RegistryIsExact, CancelWaiter
  <2>5. ResultIsTheFlights'
    BY <1>6, OutcomeKinds
       DEF ResultIsTheFlights, SFTypeOK, RegistryIsExact,
           FuturesFollowFactories, JoinedOwnKey, CancelWaiter
  <2>6. CancelledByAWaiter'
    BY <1>6, NoneAssumption, OutcomeKinds
       DEF CancelledByAWaiter, SFTypeOK, FuturesFollowFactories, JoinedOwnKey,
           CancelWaiter
  <2>7. CancellationHasACause'
    BY <1>6, NoneAssumption, OutcomeKinds, OutcomeCases
       DEF CancellationHasACause, SFTypeOK, RegistryIsExact,
           FuturesFollowFactories, JoinedOwnKey, CancelledByAWaiter,
           CancelWaiter
  <2> QED
    BY <2>1, <2>2, <2>3, <2>4, <2>5, <2>6, <2>7
<1>7. ASSUME NEW c \in Calls, Wake(c)
      PROVE  SFInv'
  <2>1. SFTypeOK'
    BY <1>7, OutcomeMembers DEF SFTypeOK, JoinedOwnKey, Wake
  <2>2. RegistryIsExact'
    BY <1>7, NoneAssumption DEF RegistryIsExact, SFTypeOK, JoinedOwnKey, Wake
  <2>3. FuturesFollowFactories'
    BY <1>7, OutcomeKinds
       DEF FuturesFollowFactories, SFTypeOK, JoinedOwnKey, Wake
  <2>4. JoinedOwnKey'
    BY <1>7, NoneAssumption DEF JoinedOwnKey, SFTypeOK, RegistryIsExact, Wake
  <2>5. ResultIsTheFlights'
    BY <1>7, OutcomeKinds
       DEF ResultIsTheFlights, SFTypeOK, RegistryIsExact,
           FuturesFollowFactories, JoinedOwnKey, Wake
  <2>6. CancelledByAWaiter'
    BY <1>7, NoneAssumption, OutcomeKinds
       DEF CancelledByAWaiter, SFTypeOK, FuturesFollowFactories, JoinedOwnKey,
           Wake
  <2>7. CancellationHasACause'
    BY <1>7, NoneAssumption, OutcomeKinds, OutcomeCases
       DEF CancellationHasACause, SFTypeOK, RegistryIsExact,
           FuturesFollowFactories, JoinedOwnKey, CancelledByAWaiter, Wake
  <2> QED
    BY <2>1, <2>2, <2>3, <2>4, <2>5, <2>6, <2>7
<1>8. CASE UNCHANGED sfVars
  BY <1>8
     DEF sfVars, SFTypeOK, RegistryIsExact, FuturesFollowFactories,
         JoinedOwnKey, ResultIsTheFlights, CancelledByAWaiter,
         CancellationHasACause
<1> QED
  BY <1>1, <1>2, <1>3, <1>4, <1>5, <1>6, <1>7, <1>8 DEF SFNext, Do
-----------------------------------------------------------------------------

\* The invariant, from which the theorems follow.
LEMMA SFInvariant == SFSpec => []SFInv
<1> QED
  BY SFInitInv, SFStepInv, PTL DEF SFSpec

\* Type correctness.
THEOREM SFTypeCorrect == SFSpec => []SFTypeOK
BY SFInvariant, PTL DEF SFInv

\* The registry names exactly the flights under way: every end of an owner, also
\* by cancellation, removes its entry, and nothing else does.
THEOREM SFRegistryIsExact == SFSpec => []RegistryIsExact
BY SFInvariant, PTL DEF SFInv

\* No two calls of do() execute the factory of one key at the same time.
THEOREM SFOneLoadPerKey == SFSpec => []OneLoadPerKey
<1>1. SFInv => OneLoadPerKey
  BY DEF SFInv, RegistryIsExact, OneLoadPerKey
<1> QED
  BY <1>1, SFInvariant, PTL

\* Whoever gets a value or an exception of the loader gets what the flight of its
\* own key ended with.
THEOREM SFResultIsTheFlights == SFSpec => []ResultIsTheFlights
BY SFInvariant, PTL DEF SFInv

\* A call fails by cancellation only if a call of the same flight was cancelled.
THEOREM SFCancellationHasACause == SFSpec => []CancellationHasACause
BY SFInvariant, PTL DEF SFInv

\* A flight stays registered until the call that leads it ends.
THEOREM SFFlightEndsWithItsOwner == SFSpec => FlightEndsWithItsOwner
<1>1. SFInv /\ [SFNext]_sfVars =>
        [\A k \in Keys :
             futures[k] # None /\ futures'[k] # futures[k] =>
                 futures'[k] = None /\ phase'[futures[k]] = "done"]_sfVars
  <2> SUFFICES ASSUME SFInv, SFNext,
                      NEW k \in Keys, futures[k] # None, futures'[k] # futures[k]
               PROVE  futures'[k] = None /\ phase'[futures[k]] = "done"
    BY DEF sfVars
  <2> USE DEF SFInv, SFTypeOK, RegistryIsExact
  <2>1. ASSUME NEW c \in Calls, FactoryEnds(c) \/ CancelOwner(c)
        PROVE  futures'[k] = None /\ phase'[futures[k]] = "done"
    <3>1. /\ phase[c] = "loading"
          /\ futures' = [futures EXCEPT ![key[c]] = None]
          /\ phase' = [phase EXCEPT ![c] = "done"]
      BY <2>1 DEF FactoryEnds, Return, Raise, Complete, CancelOwner, Unregister
    <3> QED
      BY <3>1
  <2>2. ASSUME NEW c \in Calls,
               \/ \E j \in Keys : Do(c, j)
               \/ CancelWaiter(c)
               \/ Wake(c)
        PROVE  futures'[k] = futures[k]
    BY <2>2 DEF Do, Lead, Follow, FollowFinished, InFlight, CancelWaiter, Wake
  <2> QED
    BY <2>1, <2>2 DEF SFNext
<1> QED
  BY <1>1, SFInvariant, PTL DEF SFSpec, FlightEndsWithItsOwner

=============================================================================
