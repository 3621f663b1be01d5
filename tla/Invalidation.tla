---------------------------- MODULE Invalidation ----------------------------
(***************************************************************************)
(* Writing and invalidating one cache key on several instances: get, set,  *)
(* delete, set_many, delete_many, delete_prefix, clear, get_or_load and    *)
(* the background refresh, the events they broadcast over Redis pub/sub,   *)
(* and the listener of each instance.  A batch is seen from one of its     *)
(* keys: the commands and events of the others come before and after.      *)
(*                                                                         *)
(* Every instance has the backends (L1, L2), in this order, and a          *)
(* RedisBroadcaster with an instance_id of its own.  L1 operations do not  *)
(* suspend; a Redis command is one step, executed when the server executes *)
(* it, and what a task does up to its next command is part of that step.   *)
(* Only the answer of a GET is a step of its own: it may be out of date    *)
(* when the task goes on.  The lock and the single flight around a load    *)
(* are those of GetOrLoad: here any load may get the lock or not, at any   *)
(* time, which is more than the code does.                                 *)
(*                                                                         *)
(* The time of an envelope ends: from then on (`over') Redis may drop it,  *)
(* whose deadline is truncated and counted anew by each write, and a task  *)
(* that looks at the envelope finds it expired or, its clock being behind, *)
(* not yet.                                                                *)
(*                                                                         *)
(* An envelope is identified with the operation that wrote it (or Seed),   *)
(* an event with the operation that published it.                          *)
(***************************************************************************)
EXTENDS Naturals, Sequences, FiniteSets

CONSTANTS
    Instances,  \* the application processes
    Ops,        \* the calls
    Kinds,      \* which calls there are, of AllKinds
    Once,       \* those kinds of which there is at most one call: bounds the mixture
    MaxFailures,\* bound on the failures of Redis commands and of listeners
    MaxOver,    \* bound on the envelopes whose time ends
    MaxTroubles,\* bound on both together
    Seed,       \* the envelope that was stored before
    Unread,     \* Redis has not answered a read yet
    None

Sets == {"set", "set_many"}
Removals == {"delete", "delete_many", "delete_prefix", "clear"}
Batches == {"set_many", "delete_many"}
Writes == Sets \cup Removals
Loads == {"load", "refresh"}
Reads == {"get"} \cup Loads
AllKinds == Writes \cup Reads
Envelopes == Ops \cup {Seed}

ASSUME KindsAssumption == Kinds \subseteq AllKinds
ASSUME FailuresAssumption == MaxFailures \in Nat /\ MaxOver \in Nat /\ MaxTroubles \in Nat
ASSUME InvDistinctAssumption ==
    /\ Seed \notin Ops
    /\ None \notin Envelopes \cup Instances \cup AllKinds
    /\ Unread \notin Envelopes \cup {None}

VARIABLES
    l1,         \* the L1 entry of each instance
    l2,         \* the Redis entry
    kind,       \* what each call does
    home,       \* the instance it runs on
    at,         \* where it stands
    reply,      \* what Redis answered to its last GET
    answer,     \* what a read found in the caches
    inbox,      \* the events Redis has sent to each instance's listener
    listener,   \* what each listener does: "idle", "scan", "delete" or "dead"
    over,       \* the envelopes whose time is over for Redis or for some instance
    untold,     \* history: the envelopes that left Redis without an event
    purged,     \* history: the reads that deleted from Redis what they found expired
    preceded,   \* history: the calls that had ended when a call started
    failed,     \* history: the calls of which a Redis write or read failed
    lost,       \* history: the events that each instance will never handle
    failures    \* history: how many commands and listeners failed

dataVars == <<l1, l2>>
callVars == <<kind, home, at, reply, answer, preceded, failed, failures>>
eventVars == <<inbox, listener, lost>>
timeVars == <<over, untold, purged>>
invVars == <<dataVars, callVars, eventVars, timeVars>>

-----------------------------------------------------------------------------

InvInit ==
    /\ l2 \in {None, Seed}
    /\ l1 \in [Instances -> {None, l2}]
    /\ kind = [c \in Ops |-> None]
    /\ home = [c \in Ops |-> None]
    /\ at = [c \in Ops |-> "idle"]
    /\ reply = [c \in Ops |-> Unread]
    /\ answer = [c \in Ops |-> None]
    /\ inbox = [i \in Instances |-> <<>>]
    /\ listener = [i \in Instances |-> "idle"]
    /\ over = {} /\ untold = {} /\ purged = {}
    /\ preceded = [c \in Ops |-> {}]
    /\ failed = {}
    /\ lost = [i \in Instances |-> {}]
    /\ failures = 0

Goes(c, place) == at' = [at EXCEPT ![c] = place]

\* Something more may go wrong or come to its end.
TroubleLeft == failures + Cardinality(over) < MaxTroubles

\* A Redis command of a call fails, or it does not.
CommandFails(c) ==
    /\ failures < MaxFailures /\ TroubleLeft
    /\ failures' = failures + 1
    /\ failed' = failed \cup {c}

CommandSucceeds == UNCHANGED <<failures, failed>>

-----------------------------------------------------------------------------
\* The first stretch of a call, which ends with the first Redis command

\* A load without a value: the lock is got and the loader called, or the task waits for
\* the holder to populate the key.
BeginsToLoad(c) == Goes(c, "load") \/ Goes(c, "wait")

\* get and get_or_load: a hit in L1 is the answer.  Otherwise there is no entry: none was
\* stored, it was hard expired and get popped it, or it was evicted some time before; as
\* nothing else depends on when, it is evicted here.  To get_or_load a hard-expired entry
\* ends the search, which does not come to Redis.
StartRead(c, i, k) ==
    \/ /\ l1[i] # None
       /\ Goes(c, "end") /\ answer' = [answer EXCEPT ![c] = l1[i]]
       /\ UNCHANGED l1
    \/ /\ Goes(c, "read")
       /\ l1' = [l1 EXCEPT ![i] = None]
       /\ UNCHANGED answer
    \/ /\ k = "load" /\ l1[i] \in over
       /\ BeginsToLoad(c)
       /\ UNCHANGED <<l1, answer>>

\* _background_refresh: a get_or_load that found a soft-expired envelope scheduled it.
StartRefresh(c, i) ==
    /\ \E g \in Ops : /\ kind[g] = "load" /\ home[g] = i
                     /\ at[g] = "end" /\ answer[g] # None
    /\ BeginsToLoad(c)
    /\ UNCHANGED <<l1, answer>>

\* Fault: set leaves L1 alone.
StartSetAround(c, i) == Goes(c, "write") /\ UNCHANGED <<l1, answer>>

\* set, set_many: _write_envelope and _write_envelopes write L1 first.
StartSet(c, i) ==
    /\ l1' = [l1 EXCEPT ![i] = c]
    /\ Goes(c, "write")
    /\ UNCHANGED answer

\* delete, delete_many, delete_prefix and clear: the L1 entry is removed first.
StartRemoval(c, i, k) ==
    /\ l1' = [l1 EXCEPT ![i] = None]
    /\ Goes(c, IF k \in {"delete", "delete_many"} THEN "remove" ELSE "scan")
    /\ UNCHANGED answer

Enters(c, i, k) ==
    \/ k \in {"get", "load"} /\ StartRead(c, i, k)
    \/ k = "refresh" /\ StartRefresh(c, i)
    \/ k \in Sets /\ StartSet(c, i)
    \/ k \in Removals /\ StartRemoval(c, i, k)

Start(c) ==
    /\ at[c] = "idle"
    /\ \E i \in Instances, k \in Kinds :
           /\ home' = [home EXCEPT ![c] = i]
           /\ k \in Once => \A d \in Ops : kind[d] # k
           /\ kind' = [kind EXCEPT ![c] = k]
           /\ Enters(c, i, k)
    /\ preceded' = [preceded EXCEPT ![c] = {d \in Ops : at[d] = "end"}]
    /\ UNCHANGED <<l2, reply, failed, failures, eventVars, timeVars>>

-----------------------------------------------------------------------------
\* Reading

\* Redis answers the GET; an error is taken for a miss.
Read(c) ==
    /\ at[c] \in {"read", "poll"} /\ reply[c] = Unread
    /\ \/ CommandSucceeds /\ reply' = [reply EXCEPT ![c] = l2]
       \/ CommandFails(c) /\ reply' = [reply EXCEPT ![c] = None]
    /\ UNCHANGED <<dataVars, kind, home, at, answer, preceded, eventVars, timeVars>>

\* A read found nothing: get returns, a load goes on waiting or calls the loader.
Misses(c) == IF kind[c] = "get" THEN Goes(c, "end") ELSE BeginsToLoad(c)

\* What was read is copied to L1, whatever happened to the key meanwhile.
Hits(c) ==
    /\ l1' = [l1 EXCEPT ![home[c]] = reply[c]]
    /\ answer' = [answer EXCEPT ![c] = reply[c]]
    /\ Goes(c, "end")

\* Fault: the answer is not awaited.
ResumeAtOnce(c) ==
    /\ at[c] \in {"read", "poll"}
    /\ \/ reply[c] # None /\ Hits(c)
       \/ reply[c] = None /\ Misses(c) /\ UNCHANGED <<l1, answer>>
    /\ UNCHANGED <<l2, kind, home, reply, preceded, failed, failures, eventVars, timeVars>>

\* Fault: an envelope of which only the soft time is over is deleted as well.
ResumeSoft(c) ==
    /\ at[c] \in {"read", "poll"} /\ reply[c] # Unread
    /\ \/ reply[c] # None /\ Hits(c)
       \/ reply[c] # None /\ Goes(c, "purge") /\ UNCHANGED <<l1, answer>>
       \/ reply[c] = None /\ Misses(c) /\ UNCHANGED <<l1, answer>>
    /\ UNCHANGED <<l2, kind, home, reply, preceded, failed, failures, eventVars, timeVars>>

\* The task goes on.  A hard-expired envelope is deleted by get, and in a poll; the
\* search of get_or_load returns it, which is a miss.
Resume(c) ==
    /\ at[c] \in {"read", "poll"} /\ reply[c] # Unread
    /\ \/ reply[c] # None /\ Hits(c)
       \/ /\ reply[c] \in over
          /\ IF at[c] = "read" /\ kind[c] = "load" THEN Misses(c) ELSE Goes(c, "purge")
          /\ UNCHANGED <<l1, answer>>
       \/ reply[c] = None /\ Misses(c) /\ UNCHANGED <<l1, answer>>
    /\ UNCHANGED <<l2, kind, home, reply, preceded, failed, failures, eventVars, timeVars>>

\* _wait_for_populated_value: a task that waited looks into L1 as get does, then asks
\* Redis.
Poll(c) ==
    /\ at[c] = "wait"
    /\ LET i == home[c]
       IN  \/ /\ l1[i] # None
              /\ Goes(c, "end") /\ answer' = [answer EXCEPT ![c] = l1[i]]
              /\ UNCHANGED <<l1, reply>>
           \/ /\ Goes(c, "poll") /\ reply' = [reply EXCEPT ![c] = Unread]
              /\ l1' = [l1 EXCEPT ![i] = None]
              /\ UNCHANGED answer
    /\ UNCHANGED <<l2, kind, home, preceded, failed, failures, eventVars, timeVars>>

\* What this step took from Redis, nobody is told of.
LeavesUntold == untold' = untold \cup ({l2} \ {l2', None})

\* DEL of the key that held the expired envelope, whatever it holds by now; an error is
\* passed over.
Purge(c) ==
    /\ at[c] = "purge"
    /\ \/ CommandSucceeds /\ l2' = None
       \/ CommandFails(c) /\ l2' \in {l2, None}
    /\ Misses(c)
    /\ LeavesUntold /\ purged' = purged \cup {c}
    /\ UNCHANGED <<l1, kind, home, reply, answer, preceded, eventVars, over>>

\* The loader returns; _write_envelope writes L1.
LoaderReturns(c) ==
    /\ at[c] = "load"
    /\ l1' = [l1 EXCEPT ![home[c]] = c]
    /\ Goes(c, "write")
    /\ UNCHANGED <<l2, kind, home, reply, answer, preceded, failed, failures,
                   eventVars, timeVars>>

-----------------------------------------------------------------------------
\* Writing to Redis

\* _write_envelope to Redis, for a batch the pipeline of mset.  L1 has the value, so an
\* error goes unnoticed.  A load or refresh publishes no event.
Write(c) ==
    /\ at[c] = "write"
    /\ \/ CommandSucceeds /\ l2' = c
       \/ CommandFails(c) /\ l2' \in {l2, c}
    /\ IF kind[c] \in Sets THEN Goes(c, "publish") /\ UNCHANGED untold
                           ELSE Goes(c, "end") /\ LeavesUntold
    /\ UNCHANGED <<l1, kind, home, reply, answer, preceded, eventVars, over, purged>>

\* An error of Redis ends a removal, and nothing is published.
RemovalFails(c) == CommandFails(c) /\ Goes(c, "end")

\* Fault: delete passes over the error and publishes.
RemoveInSilence(c) ==
    /\ at[c] = "remove"
    /\ \/ l2' = None /\ UNCHANGED failures
       \/ failures < MaxFailures /\ failures' = failures + 1 /\ UNCHANGED l2
    /\ Goes(c, "publish")
    /\ UNCHANGED <<l1, kind, home, reply, answer, preceded, failed, eventVars, timeVars>>

\* Fault: delete publishes no event.
RemoveUnheard(c) ==
    /\ at[c] = "remove"
    /\ l2' = None
    /\ Goes(c, "end")
    /\ CommandSucceeds
    /\ UNCHANGED <<l1, kind, home, reply, answer, preceded, eventVars, timeVars>>

\* DEL.
Remove(c) ==
    /\ at[c] = "remove"
    /\ \/ CommandSucceeds /\ l2' = None /\ Goes(c, "publish")
       \/ RemovalFails(c) /\ l2' \in {l2, None}
    /\ UNCHANGED <<l1, kind, home, reply, answer, preceded, eventVars, timeVars>>

\* SCAN for the prefix (of the key, or of all keys).
Scan(c) ==
    /\ at[c] = "scan"
    /\ \/ CommandSucceeds /\ Goes(c, IF l2 # None THEN "delete" ELSE "publish")
       \/ RemovalFails(c)
    /\ UNCHANGED <<dataVars, kind, home, reply, answer, preceded, eventVars, timeVars>>

\* DEL of what was found, whatever it is by now; the scan may go on.
DeleteFound(c) ==
    /\ at[c] = "delete"
    /\ \/ CommandSucceeds /\ l2' = None /\ (Goes(c, "scan") \/ Goes(c, "publish"))
       \/ RemovalFails(c) /\ l2' \in {l2, None}
    /\ UNCHANGED <<l1, kind, home, reply, answer, preceded, eventVars, timeVars>>

\* PUBLISH: every listener that is alive is sent the event, in the same order.
Sent(c) ==
    /\ inbox' = [i \in Instances |->
                    IF listener[i] # "dead" THEN Append(inbox[i], c) ELSE inbox[i]]
    /\ lost' = [i \in Instances |->
                    IF listener[i] # "dead" THEN lost[i] ELSE lost[i] \cup {c}]

\* An error of PUBLISH, for this key or in a batch for one before it, is raised although
\* all was written, and ends the call.
Publish(c) ==
    /\ at[c] = "publish"
    /\ \/ /\ CommandSucceeds /\ Sent(c)
          /\ Goes(c, IF kind[c] \in Batches THEN "rest" ELSE "end")
       \/ /\ CommandFails(c) /\ Goes(c, "end")
          /\ \/ Sent(c)
             \/ lost' = [i \in Instances |-> lost[i] \cup {c}] /\ UNCHANGED inbox
    /\ UNCHANGED <<dataVars, kind, home, reply, answer, preceded, listener, timeVars>>

\* The events of the batch's other keys; if one is not published the call raises, but
\* for this key all is done.
PublishRest(c) ==
    /\ at[c] = "rest"
    /\ Goes(c, "end")
    /\ UNCHANGED <<dataVars, kind, home, reply, answer, preceded, failed, failures,
                   eventVars, timeVars>>

-----------------------------------------------------------------------------
\* The listener

\* Fault: an event of type set is not handled.
IgnoresWrites(i, c) == home[c] = i \/ kind[c] \in Sets

\* event.source == self._config.instance_id
Ignores(i, c) == home[c] = i

\* _handle_broadcast_event: the L1 entry goes; a prefix event goes on to Redis, for
\* RedisCacheBackend has delete_prefix as well.
Handle(i) ==
    /\ listener[i] = "idle" /\ inbox[i] # <<>>
    /\ inbox' = [inbox EXCEPT ![i] = Tail(@)]
    /\ LET c == Head(inbox[i])
       IN  IF Ignores(i, c)
              THEN UNCHANGED <<l1, listener>>
              ELSE /\ l1' = [l1 EXCEPT ![i] = None]
                   /\ listener' = [listener EXCEPT ![i] =
                          IF kind[c] = "delete_prefix" THEN "scan" ELSE "idle"]
    /\ UNCHANGED <<l2, callVars, lost, timeVars>>

\* The scan of the prefix and the DEL of what it found.
HandlePrefix(i) ==
    /\ \/ /\ listener[i] = "scan"
          /\ listener' = [listener EXCEPT ![i] = IF l2 # None THEN "delete" ELSE "idle"]
          /\ UNCHANGED l2
       \/ /\ listener[i] = "delete"
          /\ l2' = None
          /\ \E s \in {"scan", "idle"} : listener' = [listener EXCEPT ![i] = s]
    /\ UNCHANGED <<l1, callVars, inbox, lost, timeVars>>

\* An error of get_message or of the handler ends the listener task for good; a
\* connection that is made anew loses what was sent meanwhile.
ListenerFails(i) ==
    /\ failures < MaxFailures /\ TroubleLeft
    /\ failures' = failures + 1
    /\ listener[i] # "dead"
    /\ \/ listener' = [listener EXCEPT ![i] = "dead"]
       \/ listener[i] = "idle" /\ inbox[i] # <<>> /\ UNCHANGED listener
    /\ inbox' = [inbox EXCEPT ![i] = <<>>]
    /\ lost' = [lost EXCEPT ![i] = @ \cup {inbox[i][n] : n \in DOMAIN inbox[i]}]
    /\ UNCHANGED <<dataVars, kind, home, at, reply, answer, preceded, failed, timeVars>>

-----------------------------------------------------------------------------
\* Time

\* The time of an envelope ends that Redis or an instance has stored, or that a read got
\* and has yet to look at.
TimePasses(e) ==
    /\ e \notin over /\ Cardinality(over) < MaxOver /\ TroubleLeft
    /\ \/ e = l2
       \/ \E i \in Instances : l1[i] = e
       \/ \E c \in Ops : at[c] \in {"read", "poll"} /\ reply[c] = e
    /\ over' = over \cup {e}
    /\ UNCHANGED <<dataVars, callVars, eventVars, untold, purged>>

\* Redis drops its entry.
RedisDrops ==
    /\ l2 \in over
    /\ l2' = None
    /\ LeavesUntold
    /\ UNCHANGED <<l1, callVars, eventVars, over, purged>>

-----------------------------------------------------------------------------

InvNext ==
    \/ \E c \in Ops :
           \/ Start(c) \/ Read(c) \/ Resume(c) \/ Poll(c) \/ LoaderReturns(c)
           \/ Purge(c) \/ Write(c) \/ Remove(c) \/ Scan(c) \/ DeleteFound(c)
           \/ Publish(c) \/ PublishRest(c)
    \/ \E i \in Instances : Handle(i) \/ HandlePrefix(i) \/ ListenerFails(i)
    \/ RedisDrops \/ \E e \in Envelopes : TimePasses(e)

InvSpec == InvInit /\ [][InvNext]_invVars

-----------------------------------------------------------------------------

Places == {"idle", "read", "wait", "poll", "purge", "load", "write", "remove", "scan",
           "delete", "publish", "rest", "end"}

\* Every variable holds a value of its kind.
InvTypeOK ==
    /\ l1 \in [Instances -> Envelopes \cup {None}]
    /\ l2 \in Envelopes \cup {None}
    /\ kind \in [Ops -> Kinds \cup {None}]
    /\ home \in [Ops -> Instances \cup {None}]
    /\ at \in [Ops -> Places]
    /\ reply \in [Ops -> Envelopes \cup {None, Unread}]
    /\ answer \in [Ops -> Envelopes \cup {None}]
    /\ inbox \in [Instances -> Seq(Ops)]
    /\ listener \in [Instances -> {"idle", "scan", "delete", "dead"}]
    /\ over \subseteq Envelopes /\ untold \subseteq Envelopes /\ purged \subseteq Ops
    /\ preceded \in [Ops -> SUBSET Ops]
    /\ failed \subseteq Ops
    /\ lost \in [Instances -> SUBSET Ops]
    /\ failures \in 0..MaxFailures

Started(c) == at[c] # "idle"
Ended(c) == at[c] = "end"

Overlap(c, d) ==
    /\ c # d /\ Started(c) /\ Started(d)
    /\ c \notin preceded[d] /\ d \notin preceded[c]

\* The envelope e was written by a call that had ended before d started, and d
\* returned without any failure.
Supersedes(d, e) ==
    /\ kind[d] \in Writes /\ Ended(d) /\ d \notin failed
    /\ e = Seed \/ e \in preceded[d]

\* A read on instance i that was under way at some time during d brought e to L1.
ReadAcross(i, d, e) ==
    \E g \in Ops : /\ kind[g] \in Reads /\ home[g] = i /\ Overlap(g, d)
                  /\ Ended(g) /\ reply[g] = e /\ answer[g] = e

\* Once a set or a removal, single or batch, returned, Redis never again holds what
\* was there before it, whoever reads, backfills and loads meanwhile.
RedisNeverGoesBack == \A d \in Ops : ~Supersedes(d, l2)

\* An instance that handled the event of a write no longer has what was there before
\* the write in its L1, unless a read that was under way during the write brought it
\* back.
StaleHasACause ==
    \A i \in Instances, d \in Ops :
        /\ Supersedes(d, l1[i])
        /\ i = home[d] \/ \A n \in DOMAIN inbox[i] : inbox[i][n] # d
        => ReadAcross(i, d, l1[i]) \/ (i # home[d] /\ d \in lost[i])

\* A get or get_or_load on the instance of a write that returned before never finds an
\* older value, unless a read that was under way during the write brought it back.
ReadYourWrites ==
    \A g, d \in Ops :
        /\ kind[g] \in Reads /\ Ended(g) /\ d \in preceded[g] /\ home[g] = home[d]
        /\ Supersedes(d, answer[g])
        => ReadAcross(home[g], d, answer[g])

Settled ==
    /\ \A c \in Ops : at[c] \in {"idle", "end"}
    /\ \A i \in Instances : inbox[i] = <<>> /\ listener[i] = "idle"

\* When all is quiet, nothing failed, and of the calls only writes on different
\* instances overlapped, an instance has in its L1 what Redis has, but for envelopes that
\* left Redis without an event: dropped at the end of their time, deleted by a get that
\* found them expired, or replaced by a load or a refresh.  So the events of overlapping
\* sets, deletes and clears, in whatever order they are handled, leave no two instances
\* apart.  (A prefix deletion may, which every listener repeats in Redis, later.)
CoherentWhenSettled ==
    /\ Settled
    /\ failures = 0
    /\ \A c, d \in Ops : Overlap(c, d) =>
           home[c] # home[d] /\ kind[c] \in Writes /\ kind[d] \in Writes
    /\ \A c \in Ops : kind[c] # "delete_prefix"
    => \A i \in Instances : l1[i] \in {None, l2} \/ l1[i] \in untold

\* What a set, a load or a refresh stored in Redis.
Stored(d) ==
    /\ Ended(d) /\ d \notin failed
    /\ kind[d] \in Sets \/ (kind[d] \in Loads /\ answer[d] = None)

\* The listener of i handled the event of the call c.
Handled(i, c) ==
    /\ Ended(c) /\ home[c] # i /\ c \notin lost[i]
    /\ \A n \in DOMAIN inbox[i] : inbox[i][n] # c

\* Redis is empty after a set or load that returned without any failure only if
\*   - a removal overlapped it or followed;
\*   - a listener handled the event of a prefix deletion, which may have ended long
\*     before: the handler deletes in Redis what was set since;
\*   - the time ended of what it stored, or of what a call stored in its place;
\*   - a read that overlapped it found an older envelope expired and then deleted by key.
VanishesWithACause ==
    l2 = None =>
        \A d \in Ops : Stored(d) =>
            \/ \E r \in Ops :
                  /\ Started(r) /\ kind[r] \in Removals
                  /\ \/ r \notin preceded[d]
                     \/ kind[r] = "delete_prefix" /\ \E i \in Instances : Handled(i, r)
            \/ \E e \in Ops \cap over : e \notin preceded[d]
            \/ \E g \in purged : Overlap(g, d)

=============================================================================
