--------------------------- MODULE GetOrLoadProofs ---------------------------
(***************************************************************************)
(* What get_or_load promises, for any instances, requests, faults and      *)
(* cancellations: its tasks use the single-flight group as SingleFlight    *)
(* says, one factory runs per instance, and the distributed lock protects. *)
(*                                                                         *)
(* GLInv is the inductive invariant.  The lock is safe because an instance *)
(* keeps one token per key, which is enough as the instance never has two  *)
(* tasks in the lock protocol (FlightLink), and because a task gets out of *)
(* its try block by way of "unlock" only (LockLink).                       *)
(***************************************************************************)
EXTENDS GetOrLoad, TLAPS

\* Where a task stands here and in SingleFlight, and whose flight it is in.
FlightLink ==
    \A c \in Tasks :
        /\ at[c] \in {"idle", "read", "spawned"} => phase[c] = "new"
        /\ at[c] = "wait" => phase[c] = "waiting"
        /\ at[c] \in FactoryPlaces =>
               /\ phase[c] = "loading"
               /\ key[c] = Home(c)
               /\ futures[Home(c)] = c
        /\ phase[c] = "waiting" => at[c] = "wait" /\ joined[c] \in Tasks
        /\ phase[c] = "loading" => at[c] \in FactoryPlaces

\* A task stays inside its try block until it releases the lock, and meanwhile
\* the instance remembers its token.
LockLink ==
    \A c \in Tasks :
        /\ c \in guarded =>
               /\ at[c] \in {"load", "store", "poll", "drop", "unlock"}
               /\ at[c] \in {"poll", "drop"} => polls[c] = 0
               /\ tokens[Home(c)] = c
        /\ at[c] = "relock" => polls[c] = 0
        /\ at[c] = "unlock" => c \in guarded /\ outcome[c] \in Flights!Outcomes

\* A refresh is idle until its request ends, so it is started once.
RefreshLink ==
    \A c \in Tasks :
        /\ at[c] = "read" => IsRequest(c)
        /\ IsRequest(c) /\ at[c] \in {"idle", "read"} => at[Refresh(c)] = "idle"

GLInv ==
    /\ GLTypeOK
    /\ Flights!SFTypeOK
    /\ FlightLink
    /\ RefreshLink
    /\ LockLink
    /\ LockProtects

-----------------------------------------------------------------------------

\* The parameters and outcomes are of the kinds that the definitions assume.
LEMMA TaskFacts ==
    ASSUME NEW c \in Tasks
    PROVE  /\ Home(c) \in Instances
           /\ c \in Envelopes
           /\ c # None
           /\ Refresh(c) \in Tasks
BY HomeAssumption, DistinctAssumption
   DEF Tasks, Home, Refresh, Envelopes, Results

LEMMA EnvelopeFacts ==
    /\ None \notin Tasks /\ None \notin Envelopes /\ None \notin Instances
    /\ Unread # None /\ Unread \notin Envelopes
    /\ Envelopes \subseteq Results /\ Default \in Results /\ Tasks \subseteq Envelopes
BY DistinctAssumption DEF Results, Envelopes

LEMMA OutcomeFacts ==
    /\ Error \in Flights!Outcomes /\ Cancelled \in Flights!Outcomes
    /\ Flights!InvalidState \in Flights!Outcomes
    /\ \A e \in Results : Value(e) \in Flights!Outcomes
    /\ \A r \in Flights!Outcomes :
          /\ r # Pending
          /\ r.kind = "value" => r.value \in Results /\ r = Value(r.value)
          /\ r.kind = "error" => r = Error
          /\ r.kind = "cancelled" => r = Cancelled
BY DEF Error, Cancelled, Value, Pending, Flights!Outcomes, Flights!Failures, Flights!Error,
   Flights!Cancelled, Flights!Value, Flights!Pending, Flights!InvalidState

\* The answer of a task is an outcome.
LEMMA ResolveType ==
    ASSUME NEW c \in Tasks, NEW r \in Flights!Outcomes \cup {Pending}, GLTypeOK
    PROVE  Resolve(c, r) \in Flights!Outcomes \cup {Pending}
BY OutcomeFacts, EnvelopeFacts DEF Resolve, GLTypeOK

-----------------------------------------------------------------------------

\* Entering do(): the task waits, or leads the one flight of its instance.
LEMMA EnterFlightStep ==
    ASSUME GLInv, NEW c \in Tasks, at[c] \in {"idle", "read", "spawned"}, EnterFlight(c)
    PROVE  /\ Flights!SFTypeOK'
           /\ FlightLink'
           /\ answer' \in [Tasks -> Flights!Outcomes \cup {Pending}]
           /\ at' \in [Tasks -> Places]
           /\ \E p \in {"lock", "wait", "end"} : at' = [at EXCEPT ![c] = p]
<1> USE TaskFacts, EnvelopeFacts DEF GLInv, GLTypeOK
<1>1. CASE Flights!Lead(c, Home(c)) /\ at' = [at EXCEPT ![c] = "lock"] /\ UNCHANGED answer
  <2>1. Flights!SFTypeOK'
    BY <1>1 DEF Flights!Lead, Flights!SFTypeOK
  <2>2. FlightLink'
    BY <1>1 DEF FlightLink, FactoryPlaces, Flights!Lead, Flights!InFlight, Flights!SFTypeOK
  <2> QED
    BY <1>1, <2>1, <2>2 DEF Places
<1>2. CASE /\ Flights!Follow(c, Home(c))
           /\ at' = [at EXCEPT ![c] = "wait"]
           /\ UNCHANGED answer
  <2>1. Flights!SFTypeOK'
    BY <1>2 DEF Flights!Follow, Flights!InFlight, Flights!SFTypeOK
  <2>2. FlightLink'
    BY <1>2 DEF FlightLink, FactoryPlaces, Flights!Follow, Flights!InFlight, Flights!SFTypeOK
  <2> QED
    BY <1>2, <2>1, <2>2 DEF Places
<1>3. CASE /\ Flights!FollowFinished(c, Home(c))
           /\ at' = [at EXCEPT ![c] = "end"]
           /\ answer' = [answer EXCEPT ![c] = returned'[c]]
  <2>1. Flights!SFTypeOK'
    BY <1>3 DEF Flights!FollowFinished, Flights!InFlight, Flights!SFTypeOK
  <2>2. FlightLink'
    BY <1>3 DEF FlightLink, FactoryPlaces, Flights!FollowFinished, Flights!InFlight,
       Flights!SFTypeOK
  <2>3. returned'[c] \in Flights!Outcomes \cup {Pending}
    BY <2>1 DEF Flights!SFTypeOK, Pending
  <2> QED
    BY <1>3, <2>1, <2>2, <2>3 DEF Places
<1> QED
  BY <1>1, <1>2, <1>3 DEF EnterFlight

\* The end of a factory: the flight is unregistered, the task is over.
LEMMA FinishStep ==
    ASSUME GLInv, NEW c \in Tasks, at[c] \in FactoryPlaces,
           NEW r \in Flights!Outcomes, Finish(c, r)
    PROVE  /\ Flights!SFTypeOK'
           /\ FlightLink'
           /\ answer' \in [Tasks -> Flights!Outcomes \cup {Pending}]
           /\ at' \in [Tasks -> Places]
           /\ at' = [at EXCEPT ![c] = "end"]
<1> USE TaskFacts, EnvelopeFacts, OutcomeFacts DEF GLInv, GLTypeOK
<1>1. /\ futures' = [futures EXCEPT ![key[c]] = None]
      /\ phase' = [phase EXCEPT ![c] = "done"]
      /\ key' = key /\ joined' = joined
      /\ \E o \in Flights!Outcomes : returned' = [returned EXCEPT ![c] = o]
      /\ \E o \in Flights!Outcomes : produced' = [produced EXCEPT ![c] = o]
      /\ future' = future \/ \E o \in Flights!Outcomes : future' = [future EXCEPT ![c] = o]
      /\ asked' \in {asked, asked \cup {c}}
  BY DEF Finish, Flights!Return, Flights!Raise, Flights!CancelOwner, Flights!Complete,
     Flights!Settle, Flights!Unregister, Value, Error, Cancelled
<1>2. Flights!SFTypeOK'
  <2>1. /\ futures' \in [Instances -> Tasks \cup {None}]
        /\ phase' \in [Tasks -> {"new", "loading", "waiting", "done"}]
        /\ asked' \subseteq Tasks
    BY <1>1 DEF Flights!SFTypeOK
  <2>2. /\ returned' \in [Tasks -> Flights!Outcomes \cup {Flights!Pending}]
        /\ produced' \in [Tasks -> Flights!Outcomes \cup {Flights!Pending}]
        /\ future' \in [Tasks -> Flights!Outcomes \cup {Flights!Pending}]
    BY <1>1 DEF Flights!SFTypeOK
  <2> QED
    BY <1>1, <2>1, <2>2 DEF Flights!SFTypeOK
<1>3. at' = [at EXCEPT ![c] = "end"]
  BY DEF Finish
<1>4. FlightLink'
  BY <1>1, <1>3 DEF FlightLink, FactoryPlaces, Flights!SFTypeOK
<1>5. Resolve(c, returned'[c]) \in Flights!Outcomes \cup {Pending}
  BY <1>2, ResolveType DEF Flights!SFTypeOK, Pending
<1> QED
  BY <1>2, <1>3, <1>4, <1>5 DEF Finish, Places

\* The end of a factory, by way of the release of the lock if there is one.
LEMMA LeaveStep ==
    ASSUME GLInv, NEW c \in Tasks, at[c] \in FactoryPlaces,
           NEW r \in Flights!Outcomes, Leave(c, r)
    PROVE  /\ Flights!SFTypeOK'
           /\ FlightLink'
           /\ answer' \in [Tasks -> Flights!Outcomes \cup {Pending}]
           /\ outcome' \in [Tasks -> Flights!Outcomes \cup {Pending}]
           /\ at' \in [Tasks -> Places]
           /\ at' = [at EXCEPT ![c] = IF c \in guarded' THEN "unlock" ELSE "end"]
           /\ outcome' = IF c \in guarded' THEN [outcome EXCEPT ![c] = r] ELSE outcome
<1>1. CASE c \in guarded'
  <2>1. /\ at' = [at EXCEPT ![c] = "unlock"]
        /\ outcome' = [outcome EXCEPT ![c] = r]
        /\ answer' = answer
        /\ UNCHANGED flightVars
    BY <1>1 DEF Leave
  <2>2. Flights!SFTypeOK'
    BY <2>1 DEF GLInv, Flights!SFTypeOK, flightVars
  <2>3. FlightLink'
    BY <2>1 DEF GLInv, GLTypeOK, FlightLink, FactoryPlaces, flightVars
  <2> QED
    BY <1>1, <2>1, <2>2, <2>3 DEF GLInv, GLTypeOK, Places
<1>2. CASE c \notin guarded'
  <2>1. Finish(c, r) /\ outcome' = outcome
    BY <1>2 DEF Leave
  <2> QED
    BY <1>2, <2>1, FinishStep DEF GLInv, GLTypeOK
<1> QED
  BY <1>1, <1>2

\* A task goes on within the factory, or no task moves at all.
LEMMA StayStep ==
    ASSUME GLInv, UNCHANGED flightVars,
           \/ at' = at
           \/ \E c \in Tasks, p \in FactoryPlaces :
                 at[c] \in FactoryPlaces /\ at' = [at EXCEPT ![c] = p]
    PROVE  /\ Flights!SFTypeOK'
           /\ FlightLink'
           /\ at' \in [Tasks -> Places]
<1>1. Flights!SFTypeOK'
  BY DEF GLInv, Flights!SFTypeOK, flightVars
<1>2. FlightLink'
  BY DEF GLInv, GLTypeOK, FlightLink, FactoryPlaces, flightVars
<1>3. at' \in [Tasks -> Places]
  BY DEF GLInv, GLTypeOK, Places, FactoryPlaces
<1> QED
  BY <1>1, <1>2, <1>3

\* A second look at the cache: the task leaves the factory or asks Redis.
LEMMA LookUpStep ==
    ASSUME GLInv, NEW c \in Tasks, at[c] \in FactoryPlaces, LookUp(c)
    PROVE  /\ Flights!SFTypeOK'
           /\ FlightLink'
           /\ answer' \in [Tasks -> Flights!Outcomes \cup {Pending}]
           /\ outcome' \in [Tasks -> Flights!Outcomes \cup {Pending}]
           /\ at' \in [Tasks -> Places]
           /\ l1' \in [Instances -> Envelopes \cup {None}]
           /\ \/ /\ at' = [at EXCEPT ![c] = IF c \in guarded' THEN "unlock" ELSE "end"]
                 /\ \E r \in Flights!Outcomes :
                       outcome' = IF c \in guarded' THEN [outcome EXCEPT ![c] = r] ELSE outcome
              \/ at' = [at EXCEPT ![c] = "poll"] /\ outcome' = outcome
<1> DEFINE e == l1[Home(c)]
<1> USE TaskFacts
<1>1. CASE Unexpired(e)
  <2>1. e \in Results
    BY <1>1, EnvelopeFacts DEF GLInv, GLTypeOK, Unexpired
  <2>2. Value(e) \in Flights!Outcomes /\ Leave(c, Value(e)) /\ l1' = l1
    BY <1>1, <2>1, OutcomeFacts DEF LookUp
  <2> QED
    BY <2>2, LeaveStep DEF GLInv, GLTypeOK
<1>2. CASE ~Unexpired(e)
  <2>1. /\ at' = [at EXCEPT ![c] = "poll"]
        /\ l1' = [l1 EXCEPT ![Home(c)] = None]
        /\ UNCHANGED <<outcome, answer, flightVars>>
    BY <1>2 DEF LookUp
  <2>2. Flights!SFTypeOK' /\ FlightLink' /\ at' \in [Tasks -> Places]
    BY <2>1, StayStep DEF FactoryPlaces
  <2> QED
    BY <2>1, <2>2 DEF GLInv, GLTypeOK
<1> QED
  BY <1>1, <1>2

\* Nothing was found: the task goes on within the factory.
LEMMA NotFoundStep ==
    ASSUME GLInv, NEW c \in Tasks, NotFound(c)
    PROVE  /\ polls' \in [Tasks -> 0..Polls]
           /\ \E p \in {"sleep", "relock", "load"} :
                 /\ at' = [at EXCEPT ![c] = p]
                 /\ polls[c] = 0 => p = "load"
                 /\ p = "relock" => polls'[c] = 0
           /\ \A d \in Tasks \ {c} : polls'[d] = polls[d]
<1> USE PollsAssumption DEF GLInv, GLTypeOK
<1>1. polls[c] \in 0..Polls
  OBVIOUS
<1>2. polls' = [polls EXCEPT ![c] = IF @ > 0 THEN @ - 1 ELSE @]
  BY DEF NotFound
<1>3. CASE polls[c] > 1
  <2>1. at' = [at EXCEPT ![c] = "sleep"]
    BY <1>3, <1>1 DEF NotFound
  <2> QED
    BY <1>1, <1>2, <1>3, <2>1
<1>4. CASE polls[c] = 1
  <2>1. at' = [at EXCEPT ![c] = "relock"]
    BY <1>4, <1>1 DEF NotFound
  <2> QED
    BY <1>1, <1>2, <1>4, <2>1
<1>5. CASE polls[c] = 0
  <2>1. at' = [at EXCEPT ![c] = "load"]
    BY <1>5, <1>1 DEF NotFound
  <2> QED
    BY <1>1, <1>2, <1>5, <2>1
<1> QED
  BY <1>1, <1>3, <1>4, <1>5

\* Every request has a refresh of its own.
LEMMA RefreshFacts ==
    ASSUME NEW c \in Tasks
    PROVE  /\ ~IsRequest(Refresh(c))
           /\ \A d \in Tasks :
                 IsRequest(c) /\ IsRequest(d) /\ Refresh(c) = Refresh(d) => c = d
<1>1. ~IsRequest(Refresh(c))
  BY DEF Refresh, IsRequest
<1>2. \A d \in Tasks :
          IsRequest(c) /\ IsRequest(d) /\ Refresh(c) = Refresh(d) => c = d
  BY DEF Refresh, IsRequest, Tasks
<1> QED
  BY <1>1, <1>2

\* A request that finds a live envelope ends, and may start its refresh.
LEMMA HitStep ==
    ASSUME GLInv, NEW c \in Tasks, IsRequest(c), at[c] \in {"idle", "read"},
           NEW e \in Envelopes, Hit(c, e)
    PROVE  /\ at' \in [Tasks -> Places]
           /\ answer' \in [Tasks -> Flights!Outcomes \cup {Pending}]
           /\ stale' \in [Tasks -> Envelopes \cup {None}]
           /\ Flights!SFTypeOK'
           /\ FlightLink'
           /\ RefreshLink'
           /\ \A d \in Tasks : at[d] \in FactoryPlaces => at'[d] = at[d]
           /\ \A d \in Tasks : at'[d] \in FactoryPlaces => at'[d] = at[d]
<1> USE TaskFacts, EnvelopeFacts, OutcomeFacts
<1>1. at[Refresh(c)] = "idle" /\ phase[Refresh(c)] = "new" /\ phase[c] = "new"
  BY DEF GLInv, RefreshLink, FlightLink
<1>2. Refresh(c) # c /\ ~IsRequest(Refresh(c))
  BY DEF Refresh, IsRequest
<1>3. /\ \E p \in {"spawned", "idle"} :
            at' = [at EXCEPT ![c] = "end", ![Refresh(c)] = p]
      /\ answer' = [answer EXCEPT ![c] = Value(e)]
      /\ stale' = [stale EXCEPT ![Refresh(c)] = e] \/ stale' = stale
      /\ UNCHANGED flightVars
  BY <1>1, <1>2 DEF Hit, GLInv, GLTypeOK
<1>4. at' \in [Tasks -> Places]
  BY <1>3 DEF GLInv, GLTypeOK, Places
<1>5. /\ answer' \in [Tasks -> Flights!Outcomes \cup {Pending}]
      /\ stale' \in [Tasks -> Envelopes \cup {None}]
  BY <1>3 DEF GLInv, GLTypeOK
<1>6. Flights!SFTypeOK'
  BY <1>3 DEF GLInv, Flights!SFTypeOK, flightVars
<1>7. FlightLink'
  BY <1>1, <1>2, <1>3 DEF GLInv, GLTypeOK, FlightLink, FactoryPlaces, flightVars
<1>8. RefreshLink'
  <2> SUFFICES ASSUME NEW d \in Tasks
               PROVE  /\ at'[d] = "read" => IsRequest(d)
                      /\ IsRequest(d) /\ at'[d] \in {"idle", "read"} =>
                             at'[Refresh(d)] = "idle"
    BY DEF RefreshLink
  <2>1. at'[d] = "read" => at[d] = "read"
    BY <1>3 DEF GLInv, GLTypeOK
  <2>2. ASSUME IsRequest(d), at'[d] \in {"idle", "read"}
        PROVE  at'[Refresh(d)] = "idle"
    <3>1. d # c /\ d # Refresh(c) /\ at[d] \in {"idle", "read"}
      BY <2>2, <1>1, <1>2, <1>3 DEF GLInv, GLTypeOK
    <3>2. Refresh(d) # c /\ Refresh(d) # Refresh(c) /\ at[Refresh(d)] = "idle"
      BY <2>2, <3>1, RefreshFacts DEF GLInv, RefreshLink
    <3> QED
      BY <3>2, <1>3 DEF GLInv, GLTypeOK
  <2> QED
    BY <2>1, <2>2 DEF GLInv, RefreshLink
<1>9. /\ \A d \in Tasks : at[d] \in FactoryPlaces => at'[d] = at[d]
      /\ \A d \in Tasks : at'[d] \in FactoryPlaces => at'[d] = at[d]
  BY <1>1, <1>3 DEF GLInv, GLTypeOK, FactoryPlaces
<1> QED
  BY <1>4, <1>5, <1>6, <1>7, <1>8, <1>9

\* A task that was started leaves the refreshes alone.
LEMMA RefreshStep ==
    ASSUME GLInv, NEW c \in Tasks, at[c] # "idle" \/ IsRequest(c), NEW p \in Places \ {"idle", "read"},
           at' = [at EXCEPT ![c] = p]
    PROVE  RefreshLink'
BY TaskFacts, RefreshFacts DEF GLInv, GLTypeOK, RefreshLink

\* What concerns the lock is as it was when no task in the factory moves and
\* the lock's variables do not change.
LEMMA LockKept ==
    ASSUME GLInv, UNCHANGED <<lockVars, polls, outcome>>,
           \A d \in Tasks : at[d] \in FactoryPlaces => at'[d] = at[d],
           \A d \in Tasks : at'[d] \in FactoryPlaces => at'[d] = at[d]
    PROVE  LockLink' /\ LockProtects'
BY DEF GLInv, GLTypeOK, LockLink, LockProtects, lockVars, FactoryPlaces

\* Initially no task was started, and no lock is held.
LEMMA GLInitInv == Init => GLInv
<1> SUFFICES ASSUME Init PROVE GLInv
  OBVIOUS
<1> USE HomeAssumption, PollsAssumption, EnvelopeFacts DEF Init
<1>1. /\ at \in [Tasks -> Places]
      /\ polls \in [Tasks -> 0..Polls]
      /\ outcome \in [Tasks -> Flights!Outcomes \cup {Pending}]
      /\ answer \in [Tasks -> Flights!Outcomes \cup {Pending}]
  BY DEF Places
<1>2. age \in [Envelopes -> {"unborn", "fresh", "soft", "hard"}]
  BY DistinctAssumption
<1>3. /\ l1 \in [Instances -> Envelopes \cup {None}]
      /\ l2 \in Envelopes \cup {None}
      /\ reply \in [Tasks -> Envelopes \cup {None, Unread}]
      /\ stale \in [Tasks -> Envelopes \cup {None}]
      /\ tokens \in [Instances -> Tasks \cup {None}]
  BY DEF Envelopes
<1>4. GLTypeOK
  BY <1>1, <1>2, <1>3 DEF GLTypeOK
<1>5. Flights!SFTypeOK
  BY DEF Flights!SFInit, Flights!SFTypeOK
<1>6. FlightLink /\ RefreshLink /\ LockLink /\ LockProtects
  BY TaskFacts DEF FlightLink, RefreshLink, LockLink, LockProtects, FactoryPlaces, Flights!SFInit
<1> QED
  BY <1>4, <1>5, <1>6 DEF GLInv

-----------------------------------------------------------------------------
\* The actions, in the order of Proceed

\* The first stretch of a request, up to the flight.
LEMMA EnterStep ==
    ASSUME GLInv, NEW c \in Tasks, at[c] \in {"idle", "read", "spawned"},
           at[c] # "idle" \/ IsRequest(c),
           EnterFlight(c), UNCHANGED <<lockVars, polls, outcome>>
    PROVE  /\ Flights!SFTypeOK' /\ FlightLink' /\ RefreshLink'
           /\ LockLink' /\ LockProtects'
           /\ answer' \in [Tasks -> Flights!Outcomes \cup {Pending}]
           /\ at' \in [Tasks -> Places]
<1>1. PICK p \in {"lock", "wait", "end"} : at' = [at EXCEPT ![c] = p]
  BY EnterFlightStep
<1>2. RefreshLink'
  BY <1>1, RefreshStep DEF Places
<1>3. LockLink' /\ LockProtects'
  <2>1. c \notin guarded
    BY DEF GLInv, LockLink
  <2> QED
    BY <1>1, <2>1 DEF GLInv, GLTypeOK, LockLink, LockProtects, lockVars
<1> QED
  BY <1>2, <1>3, EnterFlightStep

LEMMA StartInv ==
    ASSUME GLInv, NEW c \in Tasks, Start(c)
    PROVE  GLInv'
<1> USE TaskFacts, EnvelopeFacts DEF Start, Runs
<1> DEFINE e == l1[Home(c)]
<1>1. CASE e = None
  <2>1. at' = [at EXCEPT ![c] = "read"] /\ UNCHANGED <<stale, answer, flightVars>>
    BY <1>1 DEF Unexpired, Hit, EnterFlight
  <2>2. GLTypeOK'
    BY <2>1 DEF GLInv, GLTypeOK, cacheVars, lockVars, Places
  <2>3. Flights!SFTypeOK' /\ FlightLink'
    BY <2>1 DEF GLInv, GLTypeOK, Flights!SFTypeOK, FlightLink, FactoryPlaces, flightVars
  <2>4. RefreshLink'
    BY <2>1, RefreshFacts DEF GLInv, GLTypeOK, RefreshLink
  <2>5. LockLink' /\ LockProtects'
    BY <2>1, LockKept DEF GLInv, GLTypeOK, FactoryPlaces
  <2> QED
    BY <2>2, <2>3, <2>4, <2>5 DEF GLInv
<1>2. CASE Unexpired(e)
  <2>1. Hit(c, e) /\ e \in Envelopes
    BY <1>2 DEF Unexpired, GLInv, GLTypeOK
  <2>2. GLTypeOK'
    BY <2>1, HitStep DEF GLInv, GLTypeOK, cacheVars, lockVars
  <2>3. LockLink' /\ LockProtects'
    BY <2>1, HitStep, LockKept
  <2> QED
    BY <2>1, <2>2, <2>3, HitStep DEF GLInv
<1>3. CASE e # None /\ ~Unexpired(e)
  <2>1. EnterFlight(c) /\ stale' = [stale EXCEPT ![c] = e]
    BY <1>3
  <2>2. GLTypeOK'
    BY <2>1, EnterFlightStep DEF GLInv, GLTypeOK, cacheVars, lockVars
  <2> QED
    BY <2>1, <2>2, EnterStep DEF GLInv
<1> QED
  BY <1>1, <1>2, <1>3

LEMMA ReadInv ==
    ASSUME GLInv, NEW c \in Tasks, Read(c)
    PROVE  GLInv'
<1> USE EnvelopeFacts DEF Read
<1>1. GLTypeOK'
  BY DEF GLInv, GLTypeOK, cacheVars, lockVars
<1>2. RefreshLink'
  BY DEF GLInv, RefreshLink
<1> QED
  BY <1>1, <1>2, StayStep, LockKept DEF GLInv

LEMMA ReadFirstInv ==
    ASSUME GLInv, NEW c \in Tasks, ReadFirst(c)
    PROVE  GLInv'
<1> USE TaskFacts, EnvelopeFacts DEF ReadFirst, Runs
<1>1. IsRequest(c)
  BY DEF GLInv, RefreshLink
<1>2. CASE Unexpired(reply[c])
  <2>1. Hit(c, reply[c]) /\ reply[c] \in Envelopes /\ l1' = [l1 EXCEPT ![Home(c)] = reply[c]]
    BY <1>2 DEF Unexpired, GLInv, GLTypeOK
  <2>2. GLTypeOK'
    BY <1>1, <2>1, HitStep DEF GLInv, GLTypeOK, lockVars
  <2>3. LockLink' /\ LockProtects'
    BY <1>1, <2>1, HitStep, LockKept
  <2> QED
    BY <1>1, <2>1, <2>2, <2>3, HitStep DEF GLInv
<1>3. CASE ~Unexpired(reply[c])
  <2>1. EnterFlight(c) /\ stale' = [stale EXCEPT ![c] = reply[c]] /\ l1' = l1
    BY <1>3
  <2>2. GLTypeOK'
    BY <2>1, EnterFlightStep DEF GLInv, GLTypeOK, lockVars
  <2> QED
    BY <2>1, <2>2, EnterStep DEF GLInv
<1> QED
  BY <1>2, <1>3

LEMMA StartRefreshInv ==
    ASSUME GLInv, NEW c \in Tasks, StartRefresh(c)
    PROVE  GLInv'
<1>1. GLTypeOK'
  BY EnterFlightStep DEF StartRefresh, Runs, GLInv, GLTypeOK, cacheVars, lockVars
<1> QED
  BY <1>1, EnterStep DEF StartRefresh, Runs, GLInv

\* Two tasks of one instance are never both in the factory.
LEMMA Alone ==
    ASSUME GLInv, NEW c \in Tasks, NEW d \in Tasks,
           at[c] \in FactoryPlaces, at[d] \in FactoryPlaces, Home(c) = Home(d)
    PROVE  c = d
BY DEF GLInv, FlightLink

\* Winning or losing the lock: the other tasks inside a try block lost theirs to
\* the time to live, and they run on other instances.
LEMMA AcquireStep ==
    ASSUME GLInv, NEW c \in Tasks, at[c] \in {"lock", "relock"},
           LockWon(c) \/ LockLost(c), expired' = expired
    PROVE  /\ lock' \in Tasks \cup {None}
           /\ tokens' \in [Instances -> Tasks \cup {None}]
           /\ guarded' \in {guarded, guarded \cup {c}}
           /\ c \notin guarded
           /\ \A d \in guarded' : tokens'[Home(d)] = d
           /\ LockProtects'
<1> USE TaskFacts, EnvelopeFacts
<1>1. c \notin guarded
  BY DEF GLInv, LockLink
<1>2. \A d \in guarded : tokens[Home(d)] = d /\ Home(d) # Home(c)
  BY <1>1, Alone DEF GLInv, GLTypeOK, LockLink, FactoryPlaces
<1>3. CASE LockWon(c)
  <2>1. \A d \in guarded' : tokens'[Home(d)] = d
    BY <1>2, <1>3 DEF LockWon, GLInv, GLTypeOK
  <2>2. LockProtects'
    BY <1>3, <2>1 DEF LockWon, LockProtects, GLInv, GLTypeOK
  <2> QED
    BY <1>1, <1>3, <2>1, <2>2 DEF LockWon, GLInv, GLTypeOK
<1>4. CASE LockLost(c)
  <2>1. /\ tokens' = tokens /\ guarded' = guarded
        /\ lock' = lock \/ (lock = None /\ lock' = c)
    BY <1>4 DEF LockLost
  <2>2. LockProtects'
    BY <2>1 DEF LockProtects, GLInv, GLTypeOK
  <2> QED
    BY <1>1, <1>2, <2>1, <2>2 DEF GLInv, GLTypeOK
<1> QED
  BY <1>3, <1>4

LEMMA TryLockInv ==
    ASSUME GLInv, NEW c \in Tasks, TryLock(c)
    PROVE  GLInv'
<1> USE TaskFacts, EnvelopeFacts, PollsAssumption DEF TryLock, Runs
<1>1. /\ lock' \in Tasks \cup {None}
      /\ tokens' \in [Instances -> Tasks \cup {None}]
      /\ guarded' \in {guarded, guarded \cup {c}}
      /\ c \notin guarded
      /\ \A d \in guarded' : tokens'[Home(d)] = d
      /\ LockProtects'
  BY AcquireStep
<1>2. \/ at' = [at EXCEPT ![c] = "load"] /\ polls' = polls
      \/ at' = [at EXCEPT ![c] = "sleep"] /\ polls' = [polls EXCEPT ![c] = Polls]
         /\ guarded' = guarded
  BY DEF LockLost
<1>3. polls' \in [Tasks -> 0..Polls]
  <2>1. Polls \in 0..Polls
    OBVIOUS
  <2> QED
    BY <1>2, <2>1 DEF GLInv, GLTypeOK
<1>4. Flights!SFTypeOK' /\ FlightLink' /\ at' \in [Tasks -> Places]
  BY <1>2, StayStep DEF FactoryPlaces
<1>5. GLTypeOK'
  BY <1>1, <1>3, <1>4 DEF GLInv, GLTypeOK, cacheVars
<1>6. RefreshLink'
  BY <1>2, RefreshStep DEF Places
<1>7. LockLink'
  BY <1>1, <1>2 DEF GLInv, GLTypeOK, LockLink
<1> QED
  BY <1>1, <1>4, <1>5, <1>6, <1>7 DEF GLInv

LEMMA PollInv ==
    ASSUME GLInv, NEW c \in Tasks, Poll(c)
    PROVE  GLInv'
<1> USE TaskFacts, EnvelopeFacts DEF Poll, Runs
<1>1. at[c] \in FactoryPlaces /\ c \notin guarded /\ guarded' = guarded
  BY DEF FactoryPlaces, GLInv, LockLink, lockVars
<1>2. /\ \E p \in {"poll", "end"} : at' = [at EXCEPT ![c] = p]
      /\ outcome' = outcome
  BY <1>1, LookUpStep
<1>3. GLTypeOK'
  BY <1>1, LookUpStep DEF GLInv, GLTypeOK, lockVars
<1>4. RefreshLink'
  BY <1>2, RefreshStep DEF Places
<1>5. LockLink' /\ LockProtects'
  BY <1>1, <1>2 DEF GLInv, GLTypeOK, LockLink, LockProtects, lockVars
<1> QED
  BY <1>1, <1>3, <1>4, <1>5, LookUpStep DEF GLInv

LEMMA TryLockAgainInv ==
    ASSUME GLInv, NEW c \in Tasks, TryLockAgain(c)
    PROVE  GLInv'
<1> USE TaskFacts, EnvelopeFacts DEF TryLockAgain, Runs
<1>1. /\ lock' \in Tasks \cup {None}
      /\ tokens' \in [Instances -> Tasks \cup {None}]
      /\ guarded' \in {guarded, guarded \cup {c}}
      /\ c \notin guarded
      /\ \A d \in guarded' : tokens'[Home(d)] = d
      /\ LockProtects'
  BY AcquireStep
<1>2. at[c] \in FactoryPlaces /\ polls[c] = 0 /\ polls' = polls
  BY DEF FactoryPlaces, GLInv, LockLink
<1>3. GLTypeOK'
  BY <1>1, <1>2, LookUpStep DEF GLInv, GLTypeOK
<1>4. RefreshLink'
  BY <1>2, LookUpStep, RefreshStep DEF Places
<1>5. LockLink'
  BY <1>1, <1>2, LookUpStep, OutcomeFacts DEF GLInv, GLTypeOK, LockLink
<1> QED
  BY <1>1, <1>2, <1>3, <1>4, <1>5, LookUpStep DEF GLInv

\* A task that leaves the factory with an outcome, the lock left as it is.
LEMMA LeaveLock ==
    ASSUME GLInv, NEW c \in Tasks, at[c] \in FactoryPlaces, NEW r \in Flights!Outcomes,
           Leave(c, r), UNCHANGED <<tokens, guarded, expired, polls>>,
           c \in guarded \/ at[c] # "unlock", lock' = lock \/ lock = None
    PROVE  RefreshLink' /\ LockLink' /\ LockProtects'
<1> USE TaskFacts, EnvelopeFacts
<1>1. /\ at' = [at EXCEPT ![c] = IF c \in guarded THEN "unlock" ELSE "end"]
      /\ outcome' = IF c \in guarded THEN [outcome EXCEPT ![c] = r] ELSE outcome
  BY LeaveStep
<1>2. RefreshLink'
  <2>1. at[c] # "idle"
    BY DEF FactoryPlaces
  <2> QED
    BY <1>1, <2>1, RefreshStep DEF Places
<1>3. LockLink'
  BY <1>1 DEF GLInv, GLTypeOK, LockLink
<1>4. LockProtects'
  BY DEF GLInv, GLTypeOK, LockProtects
<1> QED
  BY <1>2, <1>3, <1>4

\* A task that goes on within the factory, the lock left as it is.
LEMMA StayLock ==
    ASSUME GLInv, NEW c \in Tasks, at[c] \in FactoryPlaces \ {"unlock"},
           NEW p \in FactoryPlaces \ {"unlock"}, at' = [at EXCEPT ![c] = p],
           UNCHANGED <<lockVars, outcome>>,
           \A d \in Tasks \ {c} : polls'[d] = polls[d],
           p = "relock" => polls'[c] = 0,
           c \in guarded => p \in {"load", "store"} \/ (p = "drop" /\ polls'[c] = 0)
    PROVE  RefreshLink' /\ LockLink' /\ LockProtects'
<1> USE TaskFacts, EnvelopeFacts
<1>1. RefreshLink'
  BY RefreshStep DEF Places, FactoryPlaces
<1>2. LockLink'
  BY DEF GLInv, GLTypeOK, LockLink, FactoryPlaces, lockVars
<1>3. LockProtects'
  BY DEF GLInv, GLTypeOK, LockProtects, lockVars
<1> QED
  BY <1>1, <1>2, <1>3

LEMMA PolledInv ==
    ASSUME GLInv, NEW c \in Tasks, Polled(c)
    PROVE  GLInv'
<1> USE TaskFacts, EnvelopeFacts DEF Polled, Runs
<1>1. at[c] \in FactoryPlaces /\ at[c] = "poll"
  BY DEF FactoryPlaces
<1>2. CASE /\ Unexpired(reply[c])
           /\ l1' = [l1 EXCEPT ![Home(c)] = reply[c]]
           /\ Leave(c, Value(reply[c]))
           /\ UNCHANGED polls
  <2>1. reply[c] \in Envelopes /\ Value(reply[c]) \in Flights!Outcomes
    BY <1>2, OutcomeFacts DEF Unexpired, GLInv, GLTypeOK
  <2>2. GLTypeOK'
    BY <1>1, <1>2, <2>1, LeaveStep DEF GLInv, GLTypeOK, lockVars
  <2>3. RefreshLink' /\ LockLink' /\ LockProtects'
    BY <1>1, <1>2, <2>1, LeaveLock DEF lockVars
  <2> QED
    BY <1>1, <1>2, <2>1, <2>2, <2>3, LeaveStep DEF GLInv
<1>3. CASE /\ reply[c] = None
           /\ NotFound(c)
           /\ UNCHANGED <<l1, outcome, answer, flightVars>>
  <2>1. PICK p \in {"sleep", "relock", "load"} :
                 /\ at' = [at EXCEPT ![c] = p]
                 /\ polls[c] = 0 => p = "load"
                 /\ p = "relock" => polls'[c] = 0
    BY <1>3, NotFoundStep
  <2>2. c \in guarded => p = "load"
    BY <2>1 DEF GLInv, LockLink
  <2>3. Flights!SFTypeOK' /\ FlightLink' /\ at' \in [Tasks -> Places]
    BY <1>1, <1>3, <2>1, StayStep DEF FactoryPlaces
  <2>4. GLTypeOK'
    BY <1>3, <2>3, NotFoundStep DEF GLInv, GLTypeOK, lockVars
  <2>5. RefreshLink' /\ LockLink' /\ LockProtects'
    BY <1>1, <1>3, <2>1, <2>2, NotFoundStep, StayLock DEF FactoryPlaces
  <2> QED
    BY <2>3, <2>4, <2>5 DEF GLInv
<1>4. CASE /\ at' = [at EXCEPT ![c] = "drop"]
           /\ UNCHANGED <<l1, polls, outcome, answer, flightVars>>
  <2>1. Flights!SFTypeOK' /\ FlightLink' /\ at' \in [Tasks -> Places]
    BY <1>1, <1>4, StayStep DEF FactoryPlaces
  <2>2. GLTypeOK'
    BY <1>4, <2>1 DEF GLInv, GLTypeOK, lockVars
  <2>3. c \in guarded => polls[c] = 0
    BY <1>1 DEF GLInv, LockLink
  <2>4. RefreshLink' /\ LockLink' /\ LockProtects'
    BY <1>1, <1>4, <2>3, StayLock DEF FactoryPlaces
  <2> QED
    BY <2>1, <2>2, <2>4 DEF GLInv
<1> QED
  BY <1>2, <1>3, <1>4

LEMMA DropInv ==
    ASSUME GLInv, NEW c \in Tasks, Drop(c)
    PROVE  GLInv'
<1> USE TaskFacts, EnvelopeFacts DEF Drop, Runs
<1>1. PICK p \in {"sleep", "relock", "load"} :
               /\ at' = [at EXCEPT ![c] = p]
               /\ polls[c] = 0 => p = "load"
               /\ p = "relock" => polls'[c] = 0
  BY NotFoundStep
<1>2. c \in guarded => p = "load"
  BY <1>1 DEF GLInv, LockLink
<1>3. Flights!SFTypeOK' /\ FlightLink' /\ at' \in [Tasks -> Places]
  BY <1>1, StayStep DEF FactoryPlaces
<1>4. l2' \in Envelopes \cup {None}
  BY DEF Written, GLInv, GLTypeOK
<1>5. GLTypeOK'
  BY <1>3, <1>4, NotFoundStep DEF GLInv, GLTypeOK, lockVars
<1>6. RefreshLink' /\ LockLink' /\ LockProtects'
  BY <1>1, <1>2, NotFoundStep, StayLock DEF FactoryPlaces
<1> QED
  BY <1>3, <1>5, <1>6 DEF GLInv

LEMMA LoaderReturnsInv ==
    ASSUME GLInv, NEW c \in Tasks, LoaderReturns(c)
    PROVE  GLInv'
<1> USE TaskFacts, EnvelopeFacts DEF LoaderReturns, Runs
<1>1. Flights!SFTypeOK' /\ FlightLink' /\ at' \in [Tasks -> Places]
  BY StayStep DEF FactoryPlaces
<1>2. GLTypeOK'
  BY <1>1 DEF GLInv, GLTypeOK, lockVars
<1>3. RefreshLink' /\ LockLink' /\ LockProtects'
  BY StayLock DEF FactoryPlaces
<1> QED
  BY <1>1, <1>2, <1>3 DEF GLInv

LEMMA LoaderRaisesInv ==
    ASSUME GLInv, NEW c \in Tasks, LoaderRaises(c)
    PROVE  GLInv'
<1> USE TaskFacts, EnvelopeFacts DEF LoaderRaises, Runs
<1>1. PICK r \in Flights!Outcomes : Leave(c, r)
  BY OutcomeFacts
<1>2. at[c] \in FactoryPlaces
  BY DEF FactoryPlaces
<1>3. GLTypeOK'
  BY <1>1, <1>2, LeaveStep DEF GLInv, GLTypeOK, cacheVars, lockVars
<1>4. RefreshLink' /\ LockLink' /\ LockProtects'
  BY <1>1, <1>2, LeaveLock DEF lockVars
<1> QED
  BY <1>1, <1>2, <1>3, <1>4, LeaveStep DEF GLInv

LEMMA StoreInv ==
    ASSUME GLInv, NEW c \in Tasks, Store(c)
    PROVE  GLInv'
<1> USE TaskFacts, EnvelopeFacts DEF Store, Runs
<1>1. Value(c) \in Flights!Outcomes
  BY OutcomeFacts
<1>2. at[c] \in FactoryPlaces
  BY DEF FactoryPlaces
<1>3. l2' \in Envelopes \cup {None}
  BY DEF Written, GLInv, GLTypeOK
<1>4. GLTypeOK'
  BY <1>1, <1>2, <1>3, LeaveStep DEF GLInv, GLTypeOK, lockVars
<1>5. RefreshLink' /\ LockLink' /\ LockProtects'
  BY <1>1, <1>2, LeaveLock DEF lockVars
<1> QED
  BY <1>1, <1>2, <1>4, <1>5, LeaveStep DEF GLInv

\* The release forgets the token and leaves the locks of others alone.
LEMMA ReleaseStep ==
    ASSUME GLInv, NEW c \in Tasks, at[c] = "unlock", lock' \in {lock, Released(c)},
           tokens' = [tokens EXCEPT ![Home(c)] = None], guarded' = guarded \ {c},
           UNCHANGED <<expired, polls, outcome>>, at' = [at EXCEPT ![c] = "end"]
    PROVE  /\ RefreshLink' /\ LockLink' /\ LockProtects'
           /\ lock' \in Tasks \cup {None}
           /\ tokens' \in [Instances -> Tasks \cup {None}]
           /\ guarded' \subseteq Tasks
           /\ lock' # lock => lock' = None /\ lock = c
<1> USE TaskFacts, EnvelopeFacts
<1>1. c \in guarded /\ tokens[Home(c)] = c
  BY DEF GLInv, LockLink
<1>2. lock' = lock \/ (lock = c /\ lock' = None)
  BY <1>1 DEF Released
<1>3. \A d \in guarded' : Home(d) # Home(c) /\ tokens'[Home(d)] = d /\ d # c
  BY <1>1, Alone DEF GLInv, GLTypeOK, LockLink, FactoryPlaces
<1>4. LockLink'
  BY <1>3 DEF GLInv, GLTypeOK, LockLink
<1>5. LockProtects'
  BY <1>2, <1>3 DEF GLInv, GLTypeOK, LockProtects
<1>6. RefreshLink'
  BY RefreshStep DEF Places
<1> QED
  BY <1>2, <1>4, <1>5, <1>6 DEF GLInv, GLTypeOK

LEMMA UnlockInv ==
    ASSUME GLInv, NEW c \in Tasks, Unlock(c) \/ CancelUnlock(c)
    PROVE  GLInv'
<1> USE TaskFacts, EnvelopeFacts DEF Unlock, CancelUnlock, Runs
<1>1. PICK r \in Flights!Outcomes : Finish(c, r)
  BY OutcomeFacts DEF GLInv, LockLink
<1>2. at[c] \in FactoryPlaces /\ at[c] = "unlock"
  BY DEF FactoryPlaces
<1>3. at' = [at EXCEPT ![c] = "end"]
  BY <1>1, <1>2, FinishStep
<1>4. lock' \in {lock, Released(c)}
  BY DEF Written
<1>5. /\ RefreshLink' /\ LockLink' /\ LockProtects'
      /\ lock' \in Tasks \cup {None}
      /\ tokens' \in [Instances -> Tasks \cup {None}]
      /\ guarded' \subseteq Tasks
  BY <1>2, <1>3, <1>4, ReleaseStep
<1>6. GLTypeOK'
  BY <1>1, <1>2, <1>5, FinishStep DEF GLInv, GLTypeOK, cacheVars
<1> QED
  BY <1>1, <1>2, <1>5, <1>6, FinishStep DEF GLInv

LEMMA WakeInv ==
    ASSUME GLInv, NEW c \in Tasks, Wake(c)
    PROVE  GLInv'
<1> USE TaskFacts, EnvelopeFacts DEF Wake, Runs
<1>1. /\ phase' = [phase EXCEPT ![c] = "done"]
      /\ at' = [at EXCEPT ![c] = "end"]
      /\ UNCHANGED <<futures, key, joined, future, produced, asked>>
  BY DEF Flights!Wake
<1>2. Flights!SFTypeOK'
  <2>1. joined[c] \in Tasks
    BY DEF GLInv, FlightLink
  <2> QED
    BY <1>1, <2>1, OutcomeFacts DEF GLInv, Flights!SFTypeOK, Flights!Wake, Cancelled
<1>3. FlightLink'
  BY <1>1 DEF GLInv, GLTypeOK, FlightLink, FactoryPlaces, Flights!SFTypeOK
<1>4. Resolve(c, returned'[c]) \in Flights!Outcomes \cup {Pending}
  BY <1>2, ResolveType DEF GLInv, Flights!SFTypeOK, Pending
<1>5. GLTypeOK'
  BY <1>1, <1>4 DEF GLInv, GLTypeOK, cacheVars, lockVars, Places
<1>6. RefreshLink'
  BY <1>1, RefreshStep DEF Places
<1>7. LockLink' /\ LockProtects'
  BY <1>1, LockKept DEF GLInv, GLTypeOK, FactoryPlaces
<1> QED
  BY <1>2, <1>3, <1>5, <1>6, <1>7 DEF GLInv

LEMMA CancelOutsideInv ==
    ASSUME GLInv, NEW c \in Tasks, CancelOutside(c)
    PROVE  GLInv'
<1> USE TaskFacts, EnvelopeFacts, OutcomeFacts DEF CancelOutside, Runs
<1>1. CASE /\ at[c] \in {"read", "spawned"}
           /\ at' = [at EXCEPT ![c] = "end"]
           /\ answer' = [answer EXCEPT ![c] = Cancelled]
           /\ reply' = [reply EXCEPT ![c] = Unread]
           /\ UNCHANGED flightVars
  <2>1. GLTypeOK'
    BY <1>1 DEF GLInv, GLTypeOK, cacheVars, lockVars, Places
  <2>2. Flights!SFTypeOK' /\ FlightLink'
    BY <1>1 DEF GLInv, GLTypeOK, Flights!SFTypeOK, FlightLink, FactoryPlaces, flightVars
  <2>3. RefreshLink'
    BY <1>1, RefreshStep DEF Places
  <2>4. LockLink' /\ LockProtects'
    BY <1>1, LockKept DEF GLInv, GLTypeOK, FactoryPlaces
  <2> QED
    BY <2>1, <2>2, <2>3, <2>4 DEF GLInv
<1>2. CASE Flights!CancelWaiter(c) /\ UNCHANGED <<at, answer, reply>>
  <2>1. GLTypeOK'
    BY <1>2 DEF GLInv, GLTypeOK, cacheVars, lockVars
  <2>2. Flights!SFTypeOK'
    BY <1>2 DEF GLInv, Flights!SFTypeOK, Flights!CancelWaiter, Cancelled
  <2>3. FlightLink' /\ RefreshLink'
    BY <1>2 DEF GLInv, FlightLink, RefreshLink, Flights!CancelWaiter
  <2>4. LockLink' /\ LockProtects'
    BY <1>2, LockKept
  <2> QED
    BY <2>1, <2>2, <2>3, <2>4 DEF GLInv
<1> QED
  BY <1>1, <1>2

LEMMA CancelFactoryInv ==
    ASSUME GLInv, NEW c \in Tasks, CancelFactory(c)
    PROVE  GLInv'
<1> USE TaskFacts, EnvelopeFacts DEF CancelFactory, Runs
<1>1. at[c] \in FactoryPlaces /\ at[c] # "unlock" /\ Cancelled \in Flights!Outcomes
  BY OutcomeFacts DEF FactoryPlaces
<1>2. lock' = lock \/ (lock = None /\ lock' = c)
  OBVIOUS
<1>3. l2' \in {l2, c, None}
  OBVIOUS
<1>4. GLTypeOK'
  BY <1>1, <1>2, <1>3, LeaveStep DEF GLInv, GLTypeOK
<1>5. RefreshLink' /\ LockLink' /\ LockProtects'
  BY <1>1, <1>2, LeaveLock
<1> QED
  BY <1>1, <1>4, <1>5, LeaveStep DEF GLInv

LEMMA EnvironmentInv ==
    ASSUME GLInv, LockExpires \/ (\E e \in Envelopes : Age(e)) \/ Evict
                  \/ (\E i \in Instances : Crash(i)) \/ UNCHANGED vars
    PROVE  GLInv'
<1> USE EnvelopeFacts DEF LockExpires, Age, Evict, Crash, vars
<1>1. /\ UNCHANGED <<flightVars, at, polls, outcome, tokens, guarded, reply, stale, answer>>
  BY DEF lockVars
<1>2. Flights!SFTypeOK' /\ FlightLink'
  BY <1>1, StayStep
<1>3. RefreshLink'
  BY <1>1 DEF GLInv, RefreshLink
<1>4. LockLink'
  BY <1>1 DEF GLInv, LockLink
<1>5. /\ lock' = lock /\ expired' = expired
      \/ /\ lock' = None /\ expired' = expired \cup ({lock} \cap guarded)
  BY DEF lockVars
<1>6. LockProtects'
  BY <1>1, <1>5 DEF GLInv, LockProtects
<1>7. age' \in [Envelopes -> {"unborn", "fresh", "soft", "hard"}]
  BY DEF GLInv, GLTypeOK, cacheVars
<1>8. /\ l1' \in [Instances -> Envelopes \cup {None}]
      /\ l2' \in Envelopes \cup {None}
      /\ up' \subseteq Instances
  BY DEF GLInv, GLTypeOK, cacheVars
<1>9. GLTypeOK'
  BY <1>1, <1>5, <1>7, <1>8 DEF GLInv, GLTypeOK
<1> QED
  BY <1>2, <1>3, <1>4, <1>6, <1>9 DEF GLInv

\* Every step preserves the invariant.
LEMMA GLStepInv == GLInv /\ [Next]_vars => GLInv'
<1> SUFFICES ASSUME GLInv, [Next]_vars PROVE GLInv'
  OBVIOUS
<1>1. ASSUME NEW c \in Tasks, Start(c) \/ Proceed(c) PROVE GLInv'
  BY <1>1, StartInv, ReadInv, ReadFirstInv, StartRefreshInv, TryLockInv, PollInv,
     TryLockAgainInv, PolledInv, DropInv, LoaderReturnsInv, LoaderRaisesInv, StoreInv,
     UnlockInv, WakeInv
     DEF Proceed
<1>2. ASSUME NEW c \in Tasks, Cancel(c) PROVE GLInv'
  BY <1>2, CancelOutsideInv, CancelFactoryInv, UnlockInv DEF Cancel
<1> QED
  BY <1>1, <1>2, EnvironmentInv DEF Next

LEMMA GLInvariant == Spec => []GLInv
BY GLInitInv, GLStepInv, PTL DEF Spec

-----------------------------------------------------------------------------
\* The theorems

\* Every variable of the instances and of Redis keeps its kind.
THEOREM GLTypeCorrect == Spec => []GLTypeOK
BY GLInvariant, PTL DEF GLInv

\* However many instances and requests there are, and whatever is lost, cancelled
\* or crashes: a lock that did not expire is held by its own task and by no other.
THEOREM GLLockProtects == Spec => []LockProtects
BY GLInvariant, PTL DEF GLInv

\* No instance ever runs two loads, or two lock protocols, of the key at once.
THEOREM GLOneFactory == Spec => []OneFactoryPerInstance
<1>1. GLInv => OneFactoryPerInstance
  BY DEF GLInv, FlightLink, OneFactoryPerInstance
<1> QED
  BY <1>1, GLInvariant, PTL

\* Only the two ways out of a try block, and time, change a lock that is held.
LEMMA LockChanges ==
    ASSUME GLInv, [Next]_vars, lock # None, lock' # lock
    PROVE  LockExpires \/ \E c \in Tasks : Unlock(c) \/ CancelUnlock(c)
<1>1. ASSUME NEW c \in Tasks, Start(c) \/ Proceed(c) PROVE Unlock(c)
  BY <1>1 DEF Proceed, Start, Read, ReadFirst, StartRefresh, TryLock, Poll, TryLockAgain, Polled,
     Drop, LoaderReturns, LoaderRaises, Store, Wake, LockWon, LockLost, lockVars
<1>2. ASSUME NEW c \in Tasks, Cancel(c) PROVE CancelUnlock(c)
  BY <1>2 DEF Cancel, CancelOutside, CancelFactory, lockVars
<1> QED
  BY <1>1, <1>2 DEF Next, Age, Evict, Crash, vars, lockVars

\* A lock is removed by the task that took it or by its time to live, never by a
\* task that lost it meanwhile.
THEOREM GLReleaseOnlyOwn == Spec => ReleaseOnlyOwn
<1> DEFINE A == lock # None /\ lock' # lock =>
                    /\ lock' = None
                    /\ \/ at[lock] = "unlock" /\ at'[lock] = "end"
                       \/ at' = at /\ LockExpires
<1>1. GLInv /\ [Next]_vars => [A]_vars
  <2> SUFFICES ASSUME GLInv, [Next]_vars, lock # None, lock' # lock
               PROVE  /\ lock' = None
                      /\ \/ at[lock] = "unlock" /\ at'[lock] = "end"
                         \/ at' = at /\ LockExpires
    OBVIOUS
  <2>1. CASE LockExpires
    BY <2>1 DEF LockExpires
  <2>2. ASSUME NEW c \in Tasks, Unlock(c) \/ CancelUnlock(c)
        PROVE  lock = c /\ lock' = None /\ at[c] = "unlock" /\ at'[c] = "end"
    <3>1. tokens[Home(c)] = c
      BY <2>2 DEF Unlock, CancelUnlock, Runs, GLInv, LockLink
    <3>2. lock = c /\ lock' = None
      BY <2>2, <3>1 DEF Unlock, CancelUnlock, Written, Released
    <3> QED
      BY <2>2, <3>2 DEF Unlock, CancelUnlock, Runs, Finish, GLInv, GLTypeOK
  <2> QED
    BY <2>1, <2>2, LockChanges
<1>2. Spec => [][A]_vars
  BY <1>1, GLInvariant, PTL DEF Spec
<1> QED
  BY <1>2 DEF ReleaseOnlyOwn

\* The invariant behind NoLockLeftBehind.
LockOwned ==
    lock # None /\ "redis" \notin Faults /\ Cancellable = {} => lock \in guarded

\* When no reply is lost and nothing is cancelled, every path out of the try block
\* releases the lock.
THEOREM GLNoLockLeftBehind == Spec => []NoLockLeftBehind
<1>1. Init => LockOwned
  BY DEF Init, LockOwned
<1>2. GLInv /\ LockOwned /\ [Next]_vars => LockOwned'
  <2> SUFFICES ASSUME GLInv, LockOwned, [Next]_vars, "redis" \notin Faults, Cancellable = {},
                      lock' # None
               PROVE  lock' \in guarded'
    BY DEF LockOwned
  <2>1. ASSUME NEW c \in Tasks, TryLock(c) \/ TryLockAgain(c)
        PROVE  lock' \in guarded'
    BY <2>1 DEF TryLock, TryLockAgain, LockWon, LockLost, LockOwned
  <2>2. ASSUME NEW c \in Tasks, Unlock(c)
        PROVE  lock' \in guarded'
    <3>1. lock' = Released(c) /\ guarded' = guarded \ {c}
      BY <2>2 DEF Unlock, Written
    <3>2. tokens[Home(c)] = c
      BY <2>2 DEF Unlock, Runs, GLInv, LockLink
    <3> QED
      BY <3>1, <3>2 DEF Released, LockOwned
  <2>3. ASSUME UNCHANGED <<lock, guarded>>
        PROVE  lock' \in guarded'
    BY <2>3 DEF LockOwned
  <2>4. ASSUME NEW c \in Tasks, Start(c) \/ Proceed(c)
        PROVE  UNCHANGED <<lock, guarded>> \/ TryLock(c) \/ TryLockAgain(c) \/ Unlock(c)
    BY <2>4 DEF Proceed, Start, Read, ReadFirst, StartRefresh, Poll, Polled, Drop,
       LoaderReturns, LoaderRaises, Store, Wake, lockVars
  <2>5. ASSUME NEW c \in Tasks
        PROVE  ~Cancel(c)
    BY DEF Cancel
  <2>6. CASE LockExpires
    BY <2>6 DEF LockExpires
  <2> QED
    BY <2>1, <2>2, <2>3, <2>4, <2>5, <2>6 DEF Next, Age, Evict, Crash, vars, lockVars
<1>3. GLInv /\ LockOwned => NoLockLeftBehind
  BY EnvelopeFacts DEF GLInv, GLTypeOK, LockLink, LockOwned, NoLockLeftBehind
<1> QED
  BY <1>1, <1>2, <1>3, GLInvariant, PTL DEF Spec

-----------------------------------------------------------------------------
\* The refinement

\* The end of a factory is an end of a factory in SingleFlight.
LEMMA FinishIsFlightStep ==
    ASSUME NEW c \in Tasks, NEW r \in Flights!Outcomes, Finish(c, r)
    PROVE  Flights!SFNext
<1>1. CASE r.kind = "value" /\ Flights!Return(c, r.value)
  <2>1. r.value \in Results
    BY <1>1, OutcomeFacts
  <2> QED
    BY <1>1, <2>1 DEF Flights!SFNext, Flights!FactoryEnds
<1>2. CASE Flights!Raise(c)
  BY <1>2 DEF Flights!SFNext, Flights!FactoryEnds
<1>3. CASE Flights!CancelOwner(c)
  BY <1>3 DEF Flights!SFNext
<1> QED
  BY <1>1, <1>2, <1>3 DEF Finish

LEMMA LeaveIsFlightStep ==
    ASSUME NEW c \in Tasks, NEW r \in Flights!Outcomes, Leave(c, r)
    PROVE  Flights!SFNext \/ UNCHANGED flightVars
BY FinishIsFlightStep DEF Leave

LEMMA EnterIsFlightStep ==
    ASSUME NEW c \in Tasks, EnterFlight(c)
    PROVE  Flights!SFNext
BY TaskFacts DEF EnterFlight, Flights!SFNext, Flights!Do

LEMMA LookUpIsFlightStep ==
    ASSUME GLInv, NEW c \in Tasks, LookUp(c)
    PROVE  Flights!SFNext \/ UNCHANGED flightVars
<1>1. CASE Unexpired(l1[Home(c)])
  <2>1. Value(l1[Home(c)]) \in Flights!Outcomes
    BY <1>1, TaskFacts, EnvelopeFacts, OutcomeFacts DEF GLInv, GLTypeOK, Unexpired
  <2> QED
    BY <1>1, <2>1, LeaveIsFlightStep DEF LookUp
<1>2. CASE ~Unexpired(l1[Home(c)])
  BY <1>2 DEF LookUp
<1> QED
  BY <1>1, <1>2

\* Every step of a task is a step of the single-flight groups, or leaves them alone.
LEMMA GLFlightStep == GLInv /\ [Next]_vars => [Flights!SFNext]_(Flights!sfVars)
<1> SUFFICES ASSUME GLInv, [Next]_vars
             PROVE  Flights!SFNext \/ UNCHANGED flightVars
  BY DEF flightVars, Flights!sfVars
<1> USE OutcomeFacts, EnvelopeFacts
<1>1. ASSUME NEW c \in Tasks, Start(c) \/ ReadFirst(c) \/ StartRefresh(c)
      PROVE  Flights!SFNext \/ UNCHANGED flightVars
  BY <1>1, EnterIsFlightStep DEF Start, ReadFirst, StartRefresh, Hit
<1>2. ASSUME NEW c \in Tasks, Poll(c) \/ TryLockAgain(c)
      PROVE  Flights!SFNext \/ UNCHANGED flightVars
  BY <1>2, LookUpIsFlightStep DEF Poll, TryLockAgain
<1>3. ASSUME NEW c \in Tasks, Polled(c)
      PROVE  Flights!SFNext \/ UNCHANGED flightVars
  <2>1. Unexpired(reply[c]) => Value(reply[c]) \in Flights!Outcomes
    BY <1>3 DEF Polled, Unexpired, GLInv, GLTypeOK
  <2> QED
    BY <1>3, <2>1, LeaveIsFlightStep DEF Polled
<1>4. ASSUME NEW c \in Tasks, LoaderRaises(c)
      PROVE  Flights!SFNext \/ UNCHANGED flightVars
  BY <1>4, LeaveIsFlightStep DEF LoaderRaises
<1>5. ASSUME NEW c \in Tasks, Store(c)
      PROVE  Flights!SFNext \/ UNCHANGED flightVars
  BY <1>5, LeaveIsFlightStep DEF Store
<1>6. ASSUME NEW c \in Tasks, Unlock(c) \/ CancelUnlock(c)
      PROVE  Flights!SFNext
  BY <1>6, FinishIsFlightStep DEF Unlock, CancelUnlock, Runs, GLInv, LockLink
<1>7. ASSUME NEW c \in Tasks, Wake(c) \/ CancelOutside(c)
      PROVE  Flights!SFNext \/ UNCHANGED flightVars
  BY <1>7 DEF Wake, CancelOutside, Flights!SFNext
<1>8. ASSUME NEW c \in Tasks, CancelFactory(c)
      PROVE  Flights!SFNext \/ UNCHANGED flightVars
  BY <1>8, LeaveIsFlightStep DEF CancelFactory
<1>9. ASSUME NEW c \in Tasks, Read(c) \/ TryLock(c) \/ Drop(c) \/ LoaderReturns(c)
      PROVE  UNCHANGED flightVars
  BY <1>9 DEF Read, TryLock, Drop, LoaderReturns
<1>10. CASE UNCHANGED vars \/ LockExpires \/ Evict \/ (\E e \in Envelopes : Age(e))
            \/ \E i \in Instances : Crash(i)
  BY <1>10 DEF vars, LockExpires, Evict, Age, Crash
<1> QED
  BY <1>1, <1>2, <1>3, <1>4, <1>5, <1>6, <1>7, <1>8, <1>9, <1>10 DEF Next, Proceed, Cancel

\* get_or_load uses the single-flight groups as SingleFlight says they are used,
\* with the instances for keys and the tasks for calls.
THEOREM GLImplementsSingleFlight == Spec => ImplementsSingleFlight
<1>1. Init => Flights!SFInit
  BY DEF Init
<1> QED
  BY <1>1, GLFlightStep, GLInvariant, PTL DEF Spec, ImplementsSingleFlight, Flights!SFSpec

=============================================================================
