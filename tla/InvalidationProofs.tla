------------------------- MODULE InvalidationProofs -------------------------
(***************************************************************************)
(* Theorems about Invalidation, for any instances, calls, failures and     *)
(* envelopes whose time ends: a write that returned is never undone in     *)
(* Redis by what was there before, what a call stored leaves Redis only    *)
(* for one of four causes, what is older stays in an L1 or reaches a       *)
(* reader only by a read of its time, and an L1 agrees with Redis when all *)
(* is quiet, but for what left Redis unannounced.                          *)
(*                                                                         *)
(* Only a set or a load that still runs writes an envelope to Redis, and   *)
(* the envelope is its own (Precedence).  From the success of its command  *)
(* on, a call therefore keeps everything older out (Settles).              *)
(*                                                                         *)
(* A listener that deletes has handled an event, which is in no inbox any  *)
(* more (Inboxes, DeletesForAnEvent).  A read that deletes by key found    *)
(* an expired envelope (PlacesFit).  If it started after a call that       *)
(* stored something had ended, that envelope is of this call or a later    *)
(* one, for a read that starts after a write gets nothing older from Redis *)
(* (ReadsAreFresh); otherwise the two overlapped.  So an empty Redis has a *)
(* cause (Covered).                                                        *)
(*                                                                         *)
(* Of what is older than a write, only a read across the write takes       *)
(* something to an L1 that knows of the write, its own or one whose        *)
(* listener handled the event (L1Settles), and to a reader there           *)
(* (AnswersSettle).                                                        *)
(*                                                                         *)
(* While it is calm a read or a load runs alone, so what a call saw in its *)
(* L1 is still there and what it saw in Redis is there or left it          *)
(* unannounced (CallsAgree), and an L1 that differs from Redis has such an *)
(* envelope, or an event, or a call that will publish one, on its way      *)
(* (Agrees).                                                               *)
(***************************************************************************)
EXTENDS Invalidation, TLAPS

\* What precedes a call has ended, and a call that was not started has no history.
Precedence ==
    \A c \in Ops :
        /\ \A d \in preceded[c] : at[d] = "end"
        /\ c \notin preceded[c]
        /\ at[c] # "idle" => home[c] \in Instances
        /\ at[c] \in {"scan", "delete", "remove"} => kind[c] \in Removals
        /\ at[c] \in {"publish", "rest"} => kind[c] \in Writes
        /\ at[c] \in {"read", "wait", "poll", "purge", "load"} => kind[c] \notin Writes

\* A set, a load or a refresh has stored its envelope, and may have events to publish.
Put(d) ==
    /\ d \notin failed
    /\ \/ kind[d] \in Sets /\ at[d] \in {"publish", "rest", "end"}
       \/ kind[d] \in Loads /\ at[d] = "end" /\ answer[d] = None

\* The commands of a call have succeeded that remove or replace what is in Redis.
Done(d) ==
    \/ Put(d)
    \/ kind[d] \in Writes /\ at[d] \in {"publish", "rest", "end"} /\ d \notin failed

\* They have removed or replaced it.
Settles == \A d \in Ops : Done(d) => l2 # Seed /\ l2 \notin preceded[d]

IInv == InvTypeOK /\ Precedence /\ Settles

-----------------------------------------------------------------------------

LEMMA DistinctFacts ==
    /\ Seed \notin Ops /\ None \notin Ops /\ None # Seed
    /\ None \notin Writes /\ None \notin Reads
    /\ Unread # None /\ Unread \notin Envelopes
BY InvDistinctAssumption DEF Envelopes, AllKinds

\* The kinds of call are told apart.
LEMMA KindFacts ==
    /\ "get" \notin Writes /\ "load" \notin Writes /\ "refresh" \notin Writes
    /\ \A k \in Sets : k \in Writes /\ k \notin Removals
    /\ \A k \in Removals : k \in Writes
    /\ "delete_prefix" \in Removals
    /\ \A k \in Reads : k \notin Writes
    /\ \A k \in Loads : k \in Reads /\ k # "get"
    /\ "get" \in Reads /\ "load" \in Loads /\ "refresh" \in Loads
BY DEF Sets, Removals, Writes, Loads, Reads

\* Initially no call was started.
LEMMA IInitInv == InvInit => IInv
<1> SUFFICES ASSUME InvInit PROVE IInv
  OBVIOUS
<1> USE DistinctFacts, FailuresAssumption DEF InvInit
<1>1. InvTypeOK
  BY DEF InvTypeOK, Envelopes, Places
<1>2. Precedence /\ Settles
  BY KindFacts DEF Precedence, Settles, Done, Put
<1> QED
  BY <1>1, <1>2 DEF IInv

-----------------------------------------------------------------------------
\* Type correctness, action by action

\* The places where the first stretch of a call ends.
Firsts == {"end", "read", "wait", "load", "write", "remove", "scan"}

\* The call c starts on instance i, as a call of kind k, and comes to p.
StartsAs(c, i, k, p) ==
    /\ home' = [home EXCEPT ![c] = i] /\ kind' = [kind EXCEPT ![c] = k]
    /\ at' = [at EXCEPT ![c] = p]
    /\ IF p = "end" THEN l1[i] # None /\ answer' = [answer EXCEPT ![c] = l1[i]]
                    ELSE answer' = answer
    /\ \/ /\ k \in Reads /\ k \notin Writes
          /\ p \in {"end", "read", "wait", "load"}
          /\ l1' = l1 \/ l1' = [l1 EXCEPT ![i] = None]
       \/ /\ k \in Sets /\ k \in Writes /\ k \notin Removals
          /\ p = "write"
          /\ l1' = [l1 EXCEPT ![i] = c]
       \/ /\ k \in Removals /\ k \in Writes /\ k \notin Sets
          /\ p \in {"remove", "scan"}
          /\ l1' = [l1 EXCEPT ![i] = None]

LEMMA StartMoves ==
    ASSUME InvTypeOK, NEW c \in Ops, Start(c)
    PROVE  /\ at[c] = "idle"
           /\ \E i \in Instances, k \in Kinds, p \in Firsts : StartsAs(c, i, k, p)
           /\ preceded' = [preceded EXCEPT ![c] = {d \in Ops : at[d] = "end"}]
           /\ UNCHANGED <<l2, reply, failed, failures, inbox, listener, lost, over, untold, purged>>
<1>1. PICK i \in Instances, k \in Kinds :
          /\ home' = [home EXCEPT ![c] = i] /\ kind' = [kind EXCEPT ![c] = k]
          /\ Enters(c, i, k)
  BY DEF Start
<1>2. \E p \in Firsts : StartsAs(c, i, k, p)
  <2>1. CASE k \in {"get", "load"} /\ StartRead(c, i, k)
    <3>1. k \in Reads /\ k \notin Writes
      BY <2>1, KindFacts
    <3>2. l1' = l1 \/ l1' = [l1 EXCEPT ![i] = None]
      BY <2>1 DEF StartRead
    <3>3. \/ StartsAs(c, i, k, "end") \/ StartsAs(c, i, k, "read")
          \/ StartsAs(c, i, k, "load") \/ StartsAs(c, i, k, "wait")
      BY <1>1, <2>1, <3>1, <3>2 DEF StartRead, BeginsToLoad, Goes, StartsAs
    <3> QED
      BY <3>3 DEF Firsts
  <2>2. CASE k = "refresh" /\ StartRefresh(c, i)
    <3>1. k \in Reads /\ k \notin Writes
      BY <2>2, KindFacts
    <3>2. StartsAs(c, i, k, "load") \/ StartsAs(c, i, k, "wait")
      BY <1>1, <2>2, <3>1 DEF StartRefresh, BeginsToLoad, Goes, StartsAs
    <3> QED
      BY <3>2 DEF Firsts
  <2>3. CASE k \in Sets /\ StartSet(c, i)
    <3>1. k \in Writes /\ k \notin Removals
      BY <2>3, KindFacts
    <3>2. StartsAs(c, i, k, "write")
      BY <1>1, <2>3, <3>1 DEF StartSet, Goes, StartsAs
    <3> QED
      BY <3>2 DEF Firsts
  <2>4. CASE k \in Removals /\ StartRemoval(c, i, k)
    <3>1. k \in Writes /\ k \notin Sets
      BY <2>4, KindFacts
    <3>2. StartsAs(c, i, k, "remove") \/ StartsAs(c, i, k, "scan")
      BY <1>1, <2>4, <3>1 DEF StartRemoval, Goes, StartsAs
    <3> QED
      BY <3>2 DEF Firsts
  <2> QED
    BY <1>1, <2>1, <2>2, <2>3, <2>4 DEF Enters
<1>3. /\ at[c] = "idle"
      /\ preceded' = [preceded EXCEPT ![c] = {d \in Ops : at[d] = "end"}]
      /\ UNCHANGED <<l2, reply, failed, failures, inbox, listener, lost, over, untold, purged>>
  BY DEF Start, eventVars, timeVars
<1> QED
  BY <1>1, <1>2, <1>3

LEMMA StartType ==
    ASSUME InvTypeOK, NEW c \in Ops, Start(c)
    PROVE  InvTypeOK'
<1>1. PICK i \in Instances, k \in Kinds, p \in Firsts : StartsAs(c, i, k, p)
  BY StartMoves
<1>2. l1' \in [Instances -> Envelopes \cup {None}]
  <2>1. l1' = l1 \/ \E e \in Envelopes \cup {None} : l1' = [l1 EXCEPT ![i] = e]
    BY <1>1 DEF StartsAs, Envelopes
  <2> QED
    BY <2>1 DEF InvTypeOK
<1>3. answer' \in [Ops -> Envelopes \cup {None}]
  <2>1. l1[i] \in Envelopes \cup {None}
    BY DEF InvTypeOK
  <2> QED
    BY <1>1, <2>1 DEF StartsAs, InvTypeOK
<1>4. /\ at' \in [Ops -> Places]
      /\ home' \in [Ops -> Instances \cup {None}]
      /\ kind' \in [Ops -> Kinds \cup {None}]
  BY <1>1 DEF StartsAs, InvTypeOK, Firsts, Places
<1>5. preceded' \in [Ops -> SUBSET Ops]
  <2>1. preceded' = [preceded EXCEPT ![c] = {d \in Ops : at[d] = "end"}]
    BY StartMoves
  <2> QED
    BY <2>1 DEF InvTypeOK
<1> QED
  BY <1>2, <1>3, <1>4, <1>5 DEF Start, InvTypeOK, eventVars, timeVars

\* A command succeeds or fails.
LEMMA CommandType ==
    ASSUME InvTypeOK, NEW c \in Ops, CommandFails(c) \/ CommandSucceeds
    PROVE  failures' \in 0..MaxFailures /\ failed' \subseteq Ops
BY FailuresAssumption DEF InvTypeOK, CommandFails, CommandSucceeds

LEMMA ReadType ==
    ASSUME InvTypeOK, NEW c \in Ops, Read(c)
    PROVE  InvTypeOK'
<1>1. failures' \in 0..MaxFailures /\ failed' \subseteq Ops
  BY CommandType DEF Read
<1>2. reply' \in [Ops -> Envelopes \cup {None, Unread}]
  BY DEF Read, InvTypeOK
<1> QED
  BY <1>1, <1>2 DEF Read, InvTypeOK, dataVars, eventVars, timeVars

LEMMA ResumeType ==
    ASSUME IInv, NEW c \in Ops, Resume(c) \/ Poll(c) \/ LoaderReturns(c)
    PROVE  InvTypeOK'
<1> USE DEF IInv
<1>1. CASE Resume(c)
  <2>1. reply[c] \in Envelopes \cup {None}
    BY <1>1 DEF Resume, InvTypeOK
  <2>2. l1' \in [Instances -> Envelopes \cup {None}] /\ answer' \in [Ops -> Envelopes \cup {None}]
    BY <1>1, <2>1 DEF Resume, Hits, InvTypeOK
  <2>3. at' \in [Ops -> Places]
    BY <1>1 DEF Resume, Hits, Misses, BeginsToLoad, Goes, InvTypeOK, Places
  <2> QED
    BY <1>1, <2>2, <2>3 DEF Resume, InvTypeOK, eventVars, timeVars
<1>2. CASE Poll(c)
  <2>1. l1[home[c]] \in Envelopes \cup {None}
    BY <1>2 DEF Poll, InvTypeOK, Precedence
  <2>2. l1' \in [Instances -> Envelopes \cup {None}] /\ answer' \in [Ops -> Envelopes \cup {None}]
    BY <1>2, <2>1 DEF Poll, InvTypeOK
  <2>3. at' \in [Ops -> Places] /\ reply' \in [Ops -> Envelopes \cup {None, Unread}]
    BY <1>2 DEF Poll, Goes, InvTypeOK, Places
  <2> QED
    BY <1>2, <2>2, <2>3 DEF Poll, InvTypeOK, eventVars, timeVars
<1>3. CASE LoaderReturns(c)
  <2>1. l1' \in [Instances -> Envelopes \cup {None}] /\ at' \in [Ops -> Places]
    BY <1>3 DEF LoaderReturns, InvTypeOK, Envelopes, Goes, Places
  <2> QED
    BY <1>3, <2>1 DEF LoaderReturns, InvTypeOK, eventVars, timeVars
<1> QED
  BY <1>1, <1>2, <1>3

LEMMA WriteType ==
    ASSUME InvTypeOK, NEW c \in Ops,
           Purge(c) \/ Write(c) \/ Remove(c) \/ Scan(c) \/ DeleteFound(c)
    PROVE  InvTypeOK'
<1> USE DEF Purge, Write, Remove, Scan, DeleteFound, RemovalFails
<1>1. failures' \in 0..MaxFailures /\ failed' \subseteq Ops
  BY CommandType
<1>2. l2' \in Envelopes \cup {None}
  BY DEF InvTypeOK, Envelopes, dataVars
<1>3. at' \in [Ops -> Places]
  BY DEF InvTypeOK, Misses, BeginsToLoad, Goes, Places
<1>4. over' \subseteq Envelopes /\ untold' \subseteq Envelopes /\ purged' \subseteq Ops
  BY DEF InvTypeOK, LeavesUntold, timeVars
<1> QED
  BY <1>1, <1>2, <1>3, <1>4 DEF InvTypeOK, dataVars, eventVars

LEMMA PublishType ==
    ASSUME InvTypeOK, NEW c \in Ops, Publish(c) \/ PublishRest(c)
    PROVE  InvTypeOK'
<1> USE DEF Publish, PublishRest
<1>1. failures' \in 0..MaxFailures /\ failed' \subseteq Ops
  BY CommandType DEF InvTypeOK
<1>2. inbox' \in [Instances -> Seq(Ops)] /\ lost' \in [Instances -> SUBSET Ops]
  <2>1. CASE Sent(c)
    BY <2>1 DEF Sent, InvTypeOK
  <2>2. CASE ~Sent(c)
    BY <2>2 DEF InvTypeOK, eventVars
  <2> QED
    BY <2>1, <2>2
<1>3. at' \in [Ops -> Places]
  BY DEF InvTypeOK, Goes, Places
<1> QED
  BY <1>1, <1>2, <1>3 DEF InvTypeOK, dataVars, eventVars, timeVars

LEMMA ListenerType ==
    ASSUME InvTypeOK, NEW i \in Instances, Handle(i) \/ HandlePrefix(i) \/ ListenerFails(i)
    PROVE  InvTypeOK'
<1>1. CASE Handle(i)
  <2>1. inbox' \in [Instances -> Seq(Ops)]
    BY <1>1 DEF Handle, InvTypeOK
  <2>2. /\ l1' \in [Instances -> Envelopes \cup {None}]
        /\ listener' \in [Instances -> {"idle", "scan", "delete", "dead"}]
    BY <1>1 DEF Handle, InvTypeOK
  <2> QED
    BY <1>1, <2>1, <2>2 DEF Handle, InvTypeOK, callVars, timeVars
<1>2. CASE HandlePrefix(i)
  BY <1>2 DEF HandlePrefix, InvTypeOK, callVars, timeVars
<1>3. CASE ListenerFails(i)
  <2>1. {inbox[i][n] : n \in DOMAIN inbox[i]} \subseteq Ops
    BY DEF InvTypeOK
  <2>2. lost' \in [Instances -> SUBSET Ops] /\ inbox' \in [Instances -> Seq(Ops)]
    BY <1>3, <2>1 DEF ListenerFails, InvTypeOK
  <2>3. failures' \in 0..MaxFailures
    BY <1>3, FailuresAssumption DEF ListenerFails, InvTypeOK
  <2> QED
    BY <1>3, <2>2, <2>3 DEF ListenerFails, InvTypeOK, dataVars, timeVars
<1> QED
  BY <1>1, <1>2, <1>3

LEMMA TimeType ==
    ASSUME InvTypeOK,
           RedisDrops \/ \E e \in Envelopes : TimePasses(e)
    PROVE  InvTypeOK'
BY DEF RedisDrops, TimePasses, LeavesUntold, InvTypeOK, dataVars, callVars, eventVars, timeVars

LEMMA TypeStep == IInv /\ [InvNext]_invVars => InvTypeOK'
<1> SUFFICES ASSUME IInv, [InvNext]_invVars PROVE InvTypeOK'
  OBVIOUS
<1>1. InvTypeOK
  BY DEF IInv
<1>2. CASE InvNext
  BY <1>1, <1>2, StartType, ReadType, ResumeType, WriteType, PublishType, ListenerType, TimeType
     DEF InvNext
<1>3. CASE UNCHANGED invVars
  BY <1>1, <1>3 DEF invVars, dataVars, callVars, eventVars, timeVars, InvTypeOK
<1> QED
  BY <1>2, <1>3

-----------------------------------------------------------------------------
\* Precedence and Settles

\* A call that runs and goes on: nothing it precedes, and nothing else moves.
LEMMA GoesStep ==
    ASSUME IInv, NEW c \in Ops, at[c] \notin {"idle", "end"}, NEW p, Goes(c, p),
           UNCHANGED <<kind, home, preceded>>,
           p \in {"scan", "delete", "remove"} => kind[c] \in Removals,
           p \in {"publish", "rest"} => kind[c] \in Writes,
           p \in {"read", "wait", "poll", "purge", "load"} => kind[c] \notin Writes
    PROVE  Precedence'
BY DEF IInv, InvTypeOK, Precedence, Goes

LEMMA StartStep ==
    ASSUME IInv, NEW c \in Ops, Start(c)
    PROVE  Precedence' /\ Settles'
<1> USE KindFacts DEF IInv
<1>1. PICK i \in Instances, k \in Kinds, p \in Firsts : StartsAs(c, i, k, p)
  BY StartMoves
<1>2. /\ at[c] = "idle"
      /\ preceded' = [preceded EXCEPT ![c] = {d \in Ops : at[d] = "end"}]
      /\ l2' = l2 /\ failed' = failed
  BY StartMoves
<1>3. /\ home' = [home EXCEPT ![c] = i] /\ kind' = [kind EXCEPT ![c] = k]
      /\ at' = [at EXCEPT ![c] = p]
      /\ IF p = "end" THEN l1[i] # None /\ answer' = [answer EXCEPT ![c] = l1[i]]
                      ELSE answer' = answer
      /\ p \in {"end", "read", "wait", "load"} => k \in Reads
      /\ p \in {"remove", "scan"} => k \in Removals
      /\ p \notin {"publish", "rest", "delete", "poll", "purge"}
  BY <1>1 DEF StartsAs, Firsts
<1>4. Precedence'
  BY <1>1, <1>2, <1>3 DEF InvTypeOK, Precedence
<1>5. \A d \in Ops : Done(d)' => Done(d) /\ d # c
  <2>1. ASSUME NEW d \in Ops, d # c, Done(d)' PROVE Done(d)
    <3>1. at'[d] = at[d] /\ kind'[d] = kind[d] /\ answer'[d] = answer[d] /\ d \notin failed
      BY <1>1, <1>2, <1>3, <2>1 DEF InvTypeOK, Done, Put
    <3> QED
      BY <2>1, <3>1 DEF Done, Put
  <2>2. ASSUME Done(c)' PROVE FALSE
    <3>1. kind'[c] = k /\ at'[c] = p
      BY <1>1, <1>3 DEF InvTypeOK
    <3>2. p = "end" /\ k \in Loads /\ answer'[c] = None
      BY <1>3, <2>2, <3>1 DEF Done, Put
    <3> QED
      BY <1>3, <3>2 DEF InvTypeOK
  <2> QED
    BY <2>1, <2>2
<1>6. Settles'
  BY <1>2, <1>5 DEF InvTypeOK, Settles
<1> QED
  BY <1>4, <1>6

\* What keeps the calls that are done as they are, and puts nothing old into Redis.
LEMMA OldStaysOut ==
    ASSUME IInv, UNCHANGED preceded,
           \A d \in Ops : Done(d)' =>
               (Done(d) /\ l2' \in {l2, None}) \/ (l2' # Seed /\ l2' \notin preceded[d])
    PROVE  Settles'
BY DistinctFacts DEF IInv, InvTypeOK, Settles

\* A write, by a call that has not ended: nothing that ended comes back.
LEMMA WriteStep ==
    ASSUME IInv, NEW c \in Ops, Write(c)
    PROVE  Precedence' /\ Settles'
<1> USE DistinctFacts, KindFacts DEF IInv
<1>1. /\ at[c] = "write"
      /\ l2' \in {l2, c}
      /\ Goes(c, IF kind[c] \in Sets THEN "publish" ELSE "end")
      /\ UNCHANGED <<kind, home, preceded, answer>>
      /\ failed \subseteq failed' /\ (c \in failed' \/ l2' = c)
  BY DEF Write, CommandSucceeds, CommandFails
<1>2. Precedence'
  BY <1>1, GoesStep
<1>3. \A d \in Ops : c \notin preceded[d]
  BY <1>1 DEF Precedence
<1>4. \A d \in Ops : Done(d)' => (d = c /\ l2' = c) \/ Done(d)
  <2>1. \A d \in Ops \ {c} : at'[d] = at[d]
    BY <1>1 DEF Goes, InvTypeOK
  <2>2. \A d \in Ops : Done(d)' => d \notin failed'
    BY DEF Done, Put
  <2> QED
    BY <1>1, <2>1, <2>2 DEF Done, Put
<1>5. Settles'
  BY <1>1, <1>3, <1>4 DEF Settles
<1> QED
  BY <1>2, <1>5

LEMMA RemovalStep ==
    ASSUME IInv, NEW c \in Ops, Remove(c) \/ Scan(c) \/ DeleteFound(c)
    PROVE  Precedence' /\ Settles'
<1> USE DistinctFacts, KindFacts DEF IInv
<1>1. /\ at[c] \in {"remove", "scan", "delete"}
      /\ l2' \in {l2, None}
      /\ UNCHANGED <<kind, home, preceded, answer>>
      /\ failed \subseteq failed'
      /\ \E p \in {"scan", "delete", "publish", "end"} :
            /\ Goes(c, p)
            /\ p = "end" => c \in failed'
            /\ p = "publish" => l2' = None
  BY DEF Remove, Scan, DeleteFound, RemovalFails, CommandSucceeds, CommandFails, dataVars
<1>2. kind[c] \in Removals
  BY <1>1 DEF Precedence
<1>3. Precedence'
  BY <1>1, <1>2, GoesStep
<1>4. \A d \in Ops : Done(d)' => Done(d) \/ l2' = None
  <2>1. \A d \in Ops \ {c} : at'[d] = at[d]
    BY <1>1 DEF Goes, InvTypeOK
  <2>2. Done(c)' => l2' = None
    BY <1>1 DEF Goes, InvTypeOK, Done, Put
  <2> QED
    BY <1>1, <2>1, <2>2 DEF Done, Put
<1>5. None # Seed /\ \A d \in Ops : None \notin preceded[d]
  BY DEF InvTypeOK
<1>6. Settles'
  BY <1>1, <1>4, <1>5, OldStaysOut
<1> QED
  BY <1>3, <1>6

LEMMA QuietStep ==
    ASSUME IInv, NEW c \in Ops,
           \/ Read(c) \/ Resume(c) \/ Poll(c) \/ LoaderReturns(c) \/ Purge(c)
           \/ Publish(c) \/ PublishRest(c)
    PROVE  Precedence' /\ Settles'
<1> USE DEF IInv
<1>1. /\ l2' \in {l2, None}
      /\ UNCHANGED <<kind, home, preceded>>
      /\ failed \subseteq failed'
  BY DEF Read, Resume, Poll, LoaderReturns, Purge, Publish, PublishRest, CommandSucceeds,
     CommandFails, dataVars
<1>2. SUFFICES Precedence' /\ \A d \in Ops : Done(d)' => Done(d)
  BY <1>1, <1>2, OldStaysOut
<1>3. CASE Read(c)
  BY <1>1, <1>3 DEF Read, InvTypeOK, Precedence, Done, Put
<1>4. CASE Resume(c) \/ Poll(c) \/ LoaderReturns(c) \/ Purge(c)
  <2>1. /\ at[c] \in {"read", "poll", "wait", "load", "purge"} /\ kind[c] \notin Writes
        /\ \A d \in Ops \ {c} : answer'[d] = answer[d]
    BY <1>4 DEF Resume, Hits, Poll, LoaderReturns, Purge, Precedence, InvTypeOK
  <2>2. PICK p \in {"end", "wait", "poll", "purge", "load", "write"} :
            /\ Goes(c, p)
            /\ p = "end" => kind[c] = "get" \/ answer'[c] # None
    <3>1. CASE Resume(c)
      BY <3>1 DEF Resume, Hits, Misses, BeginsToLoad, InvTypeOK
    <3>2. CASE Poll(c)
      BY <3>2 DEF Poll, InvTypeOK
    <3>3. CASE LoaderReturns(c) \/ Purge(c)
      BY <3>3 DEF LoaderReturns, Purge, Misses, BeginsToLoad
    <3> QED
      BY <1>4, <3>1, <3>2, <3>3
  <2>3. Precedence'
    BY <1>1, <2>1, <2>2, GoesStep
  <2>4. ~Done(c)'
    BY <1>1, <2>1, <2>2, KindFacts DEF InvTypeOK, Done, Put, Goes
  <2>5. \A d \in Ops \ {c} : at'[d] = at[d]
    BY <2>2 DEF Goes, InvTypeOK
  <2> QED
    BY <1>1, <2>1, <2>3, <2>4, <2>5 DEF Done, Put
<1>5. CASE Publish(c) \/ PublishRest(c)
  <2>1. /\ at[c] \in {"publish", "rest"} /\ kind[c] \in Writes /\ answer' = answer
        /\ Goes(c, "rest") \/ Goes(c, "end")
    BY <1>5 DEF Publish, PublishRest, Precedence
  <2>2. Precedence'
    BY <1>1, <2>1, GoesStep
  <2>3. \A d \in Ops : Done(d)' => Done(d)
    BY <1>1, <2>1 DEF InvTypeOK, Done, Put, Goes
  <2> QED
    BY <2>2, <2>3
<1> QED
  BY <1>3, <1>4, <1>5

\* A step that is not that of a call.
Aside ==
    \/ \E i \in Instances : Handle(i) \/ HandlePrefix(i) \/ ListenerFails(i)
    \/ RedisDrops \/ \E e \in Envelopes : TimePasses(e)
    \/ UNCHANGED invVars

LEMMA AsideMoves ==
    ASSUME Aside
    PROVE  UNCHANGED <<kind, home, at, reply, answer, preceded, failed>> /\ l2' \in {l2, None}
BY DEF Aside, Handle, HandlePrefix, ListenerFails, RedisDrops, TimePasses, invVars,
   callVars, dataVars

LEMMA AsideStep ==
    ASSUME IInv, Aside
    PROVE  Precedence' /\ Settles'
<1>1. UNCHANGED <<kind, home, at, answer, preceded, failed>> /\ l2' \in {l2, None}
  BY AsideMoves
<1> QED
  BY <1>1, DistinctFacts DEF IInv, InvTypeOK, Precedence, Settles, Done, Put

LEMMA IStepInv == IInv /\ [InvNext]_invVars => IInv'
<1> SUFFICES ASSUME IInv, [InvNext]_invVars PROVE IInv'
  OBVIOUS
<1>1. InvTypeOK'
  BY TypeStep DEF IInv
<1>2. Precedence' /\ Settles'
  BY StartStep, WriteStep, RemovalStep, QuietStep, AsideStep DEF InvNext, Aside
<1> QED
  BY <1>1, <1>2 DEF IInv

-----------------------------------------------------------------------------
\* VanishesWithACause

\* An event is in the inbox of a listener once at most, and not if it is lost to it.
Inboxes ==
    \A i \in Instances :
        /\ \A n \in DOMAIN inbox[i] :
               /\ at[inbox[i][n]] \in {"rest", "end"}
               /\ inbox[i][n] \notin lost[i]
               /\ \A m \in DOMAIN inbox[i] : inbox[i][m] = inbox[i][n] => m = n
        /\ \A c \in lost[i] : at[c] \in {"rest", "end"}

\* A listener deletes a prefix only for an event that it handled.
DeletesForAnEvent ==
    \A i \in Instances : listener[i] \in {"scan", "delete"} =>
        \E r \in Ops : kind[r] = "delete_prefix" /\ Handled(i, r)

\* What may have removed what the call d stored.
Cause(d) ==
    \/ \E r \in Ops :
          /\ Started(r) /\ kind[r] \in Removals
          /\ \/ r \notin preceded[d]
             \/ kind[r] = "delete_prefix" /\ \E i \in Instances : Handled(i, r)
    \/ \E e \in Ops \cap over : e \notin preceded[d]
    \/ \E g \in purged : Overlap(g, d)

\* A read deletes from Redis only when it found there an envelope that is over.
PlacesFit ==
    \A c \in Ops : /\ at[c] = "idle" => reply[c] = Unread
                   /\ at[c] = "rest" => kind[c] \in Batches
                   /\ at[c] = "purge" => reply[c] \in over

\* A read never gets an answer of Redis that was replaced by a call which had ended
\* before the read started.
ReadsAreFresh ==
    \A g \in Ops : \A d \in preceded[g] : Done(d) => reply[g] # Seed /\ reply[g] \notin preceded[d]

Covered == l2 = None => \A d \in Ops : Put(d) => Cause(d)

VInv == Inboxes /\ DeletesForAnEvent /\ PlacesFit /\ ReadsAreFresh /\ Covered

LEMMA VInitInv == InvInit => VInv
<1> SUFFICES ASSUME InvInit PROVE VInv
  OBVIOUS
<1>1. Inboxes /\ DeletesForAnEvent
  BY DEF InvInit, Inboxes, DeletesForAnEvent
<1>2. \A c \in Ops : /\ kind[c] \notin Sets /\ at[c] = "idle" /\ reply[c] = Unread
                     /\ preceded[c] = {}
  BY DistinctFacts DEF InvInit, Writes
<1> QED
  BY <1>1, <1>2 DEF VInv, PlacesFit, ReadsAreFresh, Covered, Put

\* The steps of a call that was started.
Continues(c) ==
    \/ Read(c) \/ Resume(c) \/ Poll(c) \/ LoaderReturns(c) \/ Purge(c) \/ Write(c)
    \/ Remove(c) \/ Scan(c) \/ DeleteFound(c) \/ Publish(c) \/ PublishRest(c)

\* A step is that of a call that starts, of one that goes on, or of no call.
LEMMA StepCases ==
    ASSUME [InvNext]_invVars
    PROVE  (\E c \in Ops : Start(c)) \/ (\E c \in Ops : Continues(c)) \/ Aside
BY DEF InvNext, Continues, Aside

\* What the steps of a call that was started leave as it is.
LEMMA RunMoves ==
    ASSUME IInv, NEW c \in Ops, Continues(c)
    PROVE  /\ at[c] \notin {"idle", "end"}
           /\ UNCHANGED <<kind, home, preceded, listener, over>>
           /\ failed \subseteq failed' /\ purged \subseteq purged'
           /\ \A d \in Ops \ {c} : at'[d] = at[d] /\ reply'[d] = reply[d] /\ answer'[d] = answer[d]
           /\ at'[c] # "idle" /\ (at[c] = "rest" => at'[c] = "end")
<1> USE DEF Continues
<1>1. /\ at[c] \notin {"idle", "end"}
      /\ UNCHANGED <<kind, home, preceded, listener, over>>
      /\ failed \subseteq failed' /\ purged \subseteq purged'
  BY DEF Read, Resume, Poll, LoaderReturns, Purge, Write, Remove, Scan, DeleteFound, RemovalFails,
     Publish, PublishRest, CommandSucceeds, CommandFails, eventVars, timeVars
<1>2. \/ at' = at /\ at[c] # "rest"
      \/ \E p \in {"wait", "poll", "purge", "load", "write", "scan", "delete", "publish", "rest",
                  "end"} :
            Goes(c, p) /\ (at[c] = "rest" => p = "end")
  BY DEF Read, Resume, Hits, Misses, BeginsToLoad, Poll, LoaderReturns, Purge, Write, Remove, Scan,
     DeleteFound, RemovalFails, Publish, PublishRest
<1>3. /\ reply' = reply \/ \E r : reply' = [reply EXCEPT ![c] = r]
      /\ answer' = answer \/ \E r : answer' = [answer EXCEPT ![c] = r]
  BY DEF Read, Resume, Hits, Poll, LoaderReturns, Purge, Write, Remove, Scan, DeleteFound, Publish,
     PublishRest
<1> QED
  BY <1>1, <1>2, <1>3 DEF Goes, IInv, InvTypeOK

\* What a step leaves as it is: the past of every call.
LEMMA PastStays ==
    ASSUME IInv, [InvNext]_invVars, NEW d \in Ops
    PROVE  /\ at[d] # "idle" =>
                  /\ at'[d] # "idle" /\ kind'[d] = kind[d] /\ home'[d] = home[d]
                  /\ preceded'[d] = preceded[d]
           /\ at[d] = "end" => at'[d] = "end" /\ reply'[d] = reply[d] /\ answer'[d] = answer[d]
           /\ at[d] = "rest" => at'[d] \in {"rest", "end"}
           /\ failed \subseteq failed' /\ over \subseteq over' /\ purged \subseteq purged'
<1> USE DEF IInv, InvTypeOK
<1>1. ASSUME NEW c \in Ops, Start(c)
      PROVE  /\ at[c] = "idle" /\ UNCHANGED <<failed, reply, over, purged>>
             /\ \A e \in Ops \ {c} : /\ kind'[e] = kind[e] /\ home'[e] = home[e]
                                     /\ preceded'[e] = preceded[e] /\ at'[e] = at[e]
                                     /\ answer'[e] = answer[e]
  <2>1. PICK i \in Instances, k \in Kinds, p \in Firsts : StartsAs(c, i, k, p)
    BY <1>1, StartMoves
  <2>2. \A e \in Ops \ {c} : /\ kind'[e] = kind[e] /\ home'[e] = home[e] /\ at'[e] = at[e]
                             /\ answer'[e] = answer[e]
    BY <2>1 DEF StartsAs
  <2>3. preceded' = [preceded EXCEPT ![c] = {e \in Ops : at[e] = "end"}]
    BY <1>1, StartMoves
  <2> QED
    BY <1>1, <2>2, <2>3, StartMoves
<1>2. CASE \E c \in Ops : Start(c)
  BY <1>1, <1>2
<1>3. CASE \E c \in Ops : Continues(c)
  BY <1>3, RunMoves
<1>4. CASE Aside
  <2>1. over \subseteq over' /\ purged \subseteq purged'
    BY <1>4 DEF Aside, Handle, HandlePrefix, ListenerFails, RedisDrops, TimePasses,
       timeVars, invVars
  <2> QED
    BY <1>4, <2>1, AsideMoves
<1> QED
  BY <1>2, <1>3, <1>4, StepCases

\* The events on their way change when a call publishes and when a listener takes one or
\* fails.
LEMMA EventsMove ==
    ASSUME IInv, [InvNext]_invVars
    PROVE  \/ UNCHANGED <<inbox, lost>>
           \/ \E c \in Ops : Publish(c)
           \/ \E i \in Instances : Handle(i) \/ ListenerFails(i)
<1>1. ASSUME NEW c \in Ops, Continues(c) PROVE Publish(c) \/ UNCHANGED <<inbox, lost>>
  BY <1>1 DEF Continues, Read, Resume, Poll, LoaderReturns, Purge, Write, Remove, Scan, DeleteFound,
     PublishRest, eventVars
<1>2. CASE Aside
  BY <1>2 DEF Aside, HandlePrefix, RedisDrops, TimePasses, eventVars, invVars
<1> QED
  BY <1>1, <1>2, StartMoves, StepCases DEF IInv

\* A call publishes its event to every listener or loses it.
LEMMA PublishMoves ==
    ASSUME IInv, NEW c \in Ops, Publish(c), NEW i \in Instances
    PROVE  /\ at[c] = "publish" /\ at'[c] \in {"rest", "end"}
           /\ \/ inbox'[i] = inbox[i] /\ lost'[i] = lost[i] \cup {c}
              \/ inbox'[i] = Append(inbox[i], c) /\ lost'[i] = lost[i]
<1>1. at[c] = "publish" /\ (Goes(c, "rest") \/ Goes(c, "end"))
  BY DEF Publish
<1>2. Sent(c) \/ (lost' = [j \in Instances |-> lost[j] \cup {c}] /\ inbox' = inbox)
  BY DEF Publish
<1> QED
  BY <1>1, <1>2 DEF Sent, Goes, IInv, InvTypeOK

LEMMA InboxesStep ==
    ASSUME IInv, Inboxes, [InvNext]_invVars
    PROVE  Inboxes'
<1> SUFFICES ASSUME NEW i \in Instances
             PROVE  /\ \A n \in DOMAIN inbox'[i] :
                           /\ at'[inbox'[i][n]] \in {"rest", "end"}
                           /\ inbox'[i][n] \notin lost'[i]
                           /\ \A m \in DOMAIN inbox'[i] : inbox'[i][m] = inbox'[i][n] => m = n
                    /\ \A c \in lost'[i] : at'[c] \in {"rest", "end"}
  BY DEF Inboxes
<1>1. /\ inbox[i] \in Seq(Ops) /\ lost[i] \subseteq Ops
      /\ \A n \in DOMAIN inbox[i] :
             /\ at[inbox[i][n]] \in {"rest", "end"} /\ inbox[i][n] \notin lost[i]
             /\ \A m \in DOMAIN inbox[i] : inbox[i][m] = inbox[i][n] => m = n
      /\ \A c \in lost[i] : at[c] \in {"rest", "end"}
  BY DEF IInv, InvTypeOK, Inboxes
<1>2. \A d \in Ops : at[d] \in {"rest", "end"} => at'[d] \in {"rest", "end"}
  BY PastStays
<1>3. CASE UNCHANGED <<inbox, lost>>
  BY <1>1, <1>2, <1>3
<1>4. ASSUME NEW c \in Ops, Publish(c)
      PROVE  /\ \A n \in DOMAIN inbox'[i] :
                    /\ at'[inbox'[i][n]] \in {"rest", "end"}
                    /\ inbox'[i][n] \notin lost'[i]
                    /\ \A m \in DOMAIN inbox'[i] : inbox'[i][m] = inbox'[i][n] => m = n
             /\ \A d \in lost'[i] : at'[d] \in {"rest", "end"}
  <2>1. at[c] = "publish" /\ at'[c] \in {"rest", "end"}
    BY <1>4, PublishMoves
  <2>2. CASE inbox'[i] = inbox[i] /\ lost'[i] = lost[i] \cup {c}
    BY <1>1, <1>2, <2>1, <2>2
  <2>3. CASE inbox'[i] = Append(inbox[i], c) /\ lost'[i] = lost[i]
    <3>1. /\ DOMAIN inbox'[i] = 1 .. (Len(inbox[i]) + 1)
          /\ DOMAIN inbox[i] = 1 .. Len(inbox[i]) /\ Len(inbox[i]) \in Nat
          /\ \A n \in 1 .. Len(inbox[i]) : inbox'[i][n] = inbox[i][n] /\ inbox[i][n] \in Ops
          /\ inbox'[i][Len(inbox[i]) + 1] = c
      BY <1>1, <2>3
    <3>2. \A n \in 1 .. (Len(inbox[i]) + 1) : n \in 1 .. Len(inbox[i]) \/ n = Len(inbox[i]) + 1
      BY <3>1
    <3> QED
      BY <1>1, <1>2, <2>1, <2>3, <3>1, <3>2
  <2> QED
    BY <1>4, <2>2, <2>3, PublishMoves
<1>5. ASSUME NEW j \in Instances, Handle(j) \/ ListenerFails(j)
      PROVE  /\ \A n \in DOMAIN inbox'[i] :
                    /\ at'[inbox'[i][n]] \in {"rest", "end"}
                    /\ inbox'[i][n] \notin lost'[i]
                    /\ \A m \in DOMAIN inbox'[i] : inbox'[i][m] = inbox'[i][n] => m = n
             /\ \A d \in lost'[i] : at'[d] \in {"rest", "end"}
  <2>1. CASE j # i
    <3>1. inbox'[i] = inbox[i] /\ lost'[i] = lost[i]
      BY <1>5, <2>1 DEF Handle, ListenerFails, IInv, InvTypeOK
    <3> QED
      BY <1>1, <1>2, <3>1
  <2>2. CASE j = i /\ Handle(i)
    <3>1. inbox[i] # <<>> /\ inbox'[i] = Tail(inbox[i]) /\ lost'[i] = lost[i]
      BY <2>2 DEF Handle, IInv, InvTypeOK
    <3>2. \A n \in DOMAIN inbox'[i] :
              n \in Nat /\ n + 1 \in DOMAIN inbox[i] /\ inbox'[i][n] = inbox[i][n + 1]
      BY <1>1, <3>1
    <3>3. \A n \in DOMAIN inbox'[i] : inbox'[i][n] \in Ops
      BY <1>1, <3>2
    <3>4. ASSUME NEW n \in DOMAIN inbox'[i], NEW m \in DOMAIN inbox'[i],
                 inbox'[i][m] = inbox'[i][n]
          PROVE  m = n
      <4>1. m + 1 = n + 1 /\ m \in Nat /\ n \in Nat
        BY <1>1, <3>2, <3>4
      <4> QED
        BY <4>1
    <3> QED
      BY <1>1, <1>2, <3>1, <3>2, <3>3, <3>4
  <2>3. CASE j = i /\ ListenerFails(i)
    <3>1. /\ inbox'[i] = <<>>
          /\ lost'[i] = lost[i] \cup {inbox[i][n] : n \in DOMAIN inbox[i]}
      BY <2>3 DEF ListenerFails, IInv, InvTypeOK
    <3>2. \A n \in DOMAIN inbox[i] : inbox[i][n] \in Ops
      BY <1>1
    <3> QED
      BY <1>1, <1>2, <3>1, <3>2
  <2> QED
    BY <1>5, <2>1, <2>2, <2>3
<1> QED
  BY <1>3, <1>4, <1>5, EventsMove

\* An event that was handled stays so.
LEMMA HandledStays ==
    ASSUME IInv, [InvNext]_invVars, NEW i \in Instances, NEW r \in Ops, Handled(i, r)
    PROVE  Handled(i, r)'
<1>1. /\ at[r] = "end" /\ at'[r] = "end" /\ home[r] # i /\ home'[r] # i
      /\ r \notin lost[i] /\ \A n \in DOMAIN inbox[i] : inbox[i][n] # r
      /\ inbox[i] \in Seq(Ops)
  BY PastStays DEF Handled, Ended, IInv, InvTypeOK
<1>2. r \notin lost'[i] /\ \A n \in DOMAIN inbox'[i] : inbox'[i][n] # r
  <2>1. CASE UNCHANGED <<inbox, lost>>
    BY <1>1, <2>1
  <2>2. CASE \E c \in Ops : Publish(c)
    <3>1. PICK c \in Ops : Publish(c)
      BY <2>2
    <3>2. c # r
      BY <1>1, <3>1, PublishMoves
    <3>3. CASE inbox'[i] = Append(inbox[i], c) /\ lost'[i] = lost[i]
      <4>1. \A n \in DOMAIN inbox'[i] : inbox'[i][n] = c \/ \E m \in DOMAIN inbox[i] :
                                                             inbox'[i][n] = inbox[i][m]
        BY <1>1, <3>3
      <4> QED
        BY <1>1, <3>2, <3>3, <4>1
    <3> QED
      BY <1>1, <3>1, <3>2, <3>3, PublishMoves
  <2>3. CASE \E j \in Instances : Handle(j)
    <3>1. lost' = lost
      BY <2>3 DEF Handle
    <3>2. inbox'[i] = inbox[i] \/ (inbox[i] # <<>> /\ inbox'[i] = Tail(inbox[i]))
      BY <2>3 DEF Handle, IInv, InvTypeOK
    <3>3. \A n \in DOMAIN inbox'[i] : \E m \in DOMAIN inbox[i] : inbox'[i][n] = inbox[i][m]
      <4>1. CASE inbox'[i] = inbox[i]
        BY <4>1
      <4>2. CASE inbox[i] # <<>> /\ inbox'[i] = Tail(inbox[i])
        <5>1. \A n \in DOMAIN inbox'[i] :
                  n + 1 \in DOMAIN inbox[i] /\ inbox'[i][n] = inbox[i][n + 1]
          BY <1>1, <4>2
        <5> QED
          BY <5>1
      <4> QED
        BY <3>2, <4>1, <4>2
    <3> QED
      BY <1>1, <3>1, <3>3
  <2>4. CASE \E j \in Instances : ListenerFails(j)
    <3>1. PICK j \in Instances : ListenerFails(j)
      BY <2>4
    <3>2. \/ inbox'[i] = inbox[i] /\ lost'[i] = lost[i]
          \/ inbox'[i] = <<>> /\ lost'[i] = lost[i] \cup {inbox[i][n] : n \in DOMAIN inbox[i]}
      BY <3>1 DEF ListenerFails, IInv, InvTypeOK
    <3> QED
      BY <1>1, <3>2
  <2> QED
    BY <2>1, <2>2, <2>3, <2>4, EventsMove
<1> QED
  BY <1>1, <1>2 DEF Handled, Ended

LEMMA ListenerStepV ==
    ASSUME IInv, VInv, [InvNext]_invVars
    PROVE  DeletesForAnEvent'
<1> SUFFICES ASSUME NEW i \in Instances, listener'[i] \in {"scan", "delete"}
             PROVE  \E r \in Ops : kind'[r] = "delete_prefix" /\ Handled(i, r)'
  BY DEF DeletesForAnEvent, Handled, Ended
<1>1. CASE listener[i] \in {"scan", "delete"}
  <2>1. PICK r \in Ops : kind[r] = "delete_prefix" /\ Handled(i, r)
    BY <1>1 DEF VInv, DeletesForAnEvent
  <2>2. kind'[r] = kind[r]
    BY <2>1, PastStays DEF Handled, Ended
  <2> QED
    BY <2>1, <2>2, HandledStays
<1>2. CASE listener[i] \notin {"scan", "delete"}
  <2>1. PICK j \in Instances : Handle(j) \/ HandlePrefix(j) \/ ListenerFails(j)
    <3>1. \A c \in Ops : ~Start(c) /\ ~Continues(c)
      BY <1>2, StartMoves, RunMoves DEF IInv
    <3>2. Aside
      BY <3>1, StepCases
    <3> QED
      BY <1>2, <3>2 DEF Aside, RedisDrops, TimePasses, eventVars, invVars
  <2>2. Handle(j) /\ j = i
    BY <1>2, <2>1 DEF Handle, HandlePrefix, ListenerFails, IInv, InvTypeOK
  <2> DEFINE c == Head(inbox[i])
  <2>3. /\ inbox[i] \in Seq(Ops) /\ inbox[i] # <<>> /\ c = inbox[i][1] /\ c \in Ops
        /\ inbox'[i] = Tail(inbox[i]) /\ lost' = lost
        /\ UNCHANGED <<kind, home, at>>
    BY <2>2 DEF Handle, IInv, InvTypeOK, callVars
  <2>4. kind[c] = "delete_prefix" /\ home[c] # i
    BY <1>2, <2>2 DEF Handle, Ignores, IInv, InvTypeOK
  <2>5. /\ at[c] = "end" /\ c \notin lost[i]
        /\ \A m \in DOMAIN inbox[i] : inbox[i][m] = c => m = 1
    <3>1. at[c] \in {"rest", "end"} /\ kind[c] \notin Batches
      BY <2>3, <2>4 DEF VInv, PlacesFit, Inboxes, Batches
    <3> QED
      BY <2>3, <3>1 DEF VInv, PlacesFit, Inboxes, Batches
  <2>6. \A n \in DOMAIN inbox'[i] : inbox'[i][n] # c
    <3>1. \A n \in DOMAIN inbox'[i] :
              n \in Nat \ {0} /\ n + 1 \in DOMAIN inbox[i] /\ inbox'[i][n] = inbox[i][n + 1]
      BY <2>3
    <3>2. \A n \in Nat \ {0} : n + 1 # 1
      OBVIOUS
    <3> HIDE DEF c
    <3> QED
      BY <2>5, <3>1, <3>2
  <2> HIDE DEF c
  <2> QED
    BY <2>3, <2>4, <2>5, <2>6 DEF Handled, Ended
<1> QED
  BY <1>1, <1>2

\* What a call stores, it writes itself.
LEMMA BecomesPut ==
    ASSUME IInv, InvNext, NEW d \in Ops, ~Put(d), Put(d)'
    PROVE  l2' = d
<1> USE KindFacts DEF IInv, InvTypeOK
<1>1. /\ d \notin failed' /\ d \notin failed
      /\ \/ kind'[d] \in Sets /\ at'[d] \in {"publish", "rest", "end"}
         \/ kind'[d] \in Loads /\ at'[d] = "end" /\ answer'[d] = None
  BY PastStays DEF Put
<1>2. ASSUME NEW c \in Ops, Start(c) PROVE FALSE
  <2>a. PICK i \in Instances, k \in Kinds, p \in Firsts : StartsAs(c, i, k, p)
    BY <1>2, StartMoves
  <2>1. /\ kind' = [kind EXCEPT ![c] = k] /\ at' = [at EXCEPT ![c] = p]
        /\ IF p = "end" THEN l1[i] # None /\ answer' = [answer EXCEPT ![c] = l1[i]]
                        ELSE answer' = answer
        /\ k \in Sets => p = "write"
        /\ p \notin {"publish", "rest"}
    BY <2>a DEF StartsAs, Firsts
  <2>2. CASE c = d
    <3>1. kind'[d] = k /\ at'[d] = p
      BY <2>1, <2>2
    <3>2. p = "end" /\ answer'[d] = None
      BY <1>1, <2>1, <3>1
    <3> QED
      BY <2>1, <2>2, <3>2
  <2>3. CASE c # d
    <3>1. kind'[d] = kind[d] /\ at'[d] = at[d] /\ answer'[d] = answer[d]
      BY <2>1, <2>3
    <3> QED
      BY <1>1, <3>1 DEF Put
  <2> QED
    BY <2>2, <2>3
<1>3. ASSUME NEW c \in Ops, Continues(c) PROVE l2' = d
  <2>1. /\ kind' = kind /\ at[c] \notin {"idle", "end"}
        /\ \A e \in Ops \ {c} : at'[e] = at[e] /\ answer'[e] = answer[e]
    BY <1>3, RunMoves
  <2>2. c = d
    BY <1>1, <2>1 DEF Put
  <2>3. CASE Write(c)
    BY <1>1, <2>2, <2>3 DEF Write, CommandSucceeds, CommandFails, Goes, Put
  <2>4. CASE Read(c)
    BY <1>1, <2>1, <2>2, <2>4 DEF Read, Put
  <2>5. CASE Resume(c) \/ Poll(c) \/ LoaderReturns(c) \/ Purge(c)
    <3>1. kind[c] \notin Sets
      BY <2>5 DEF Resume, Poll, LoaderReturns, Purge, Precedence
    <3>2. at'[c] = "end" => kind[c] = "get" \/ answer'[c] # None
      BY <2>5 DEF Resume, Hits, Misses, BeginsToLoad, Poll, LoaderReturns, Purge, Goes
    <3> QED
      BY <1>1, <2>1, <2>2, <3>1, <3>2
  <2>6. CASE Remove(c) \/ Scan(c) \/ DeleteFound(c)
    <3>1. kind[c] \in Removals
      BY <2>6 DEF Remove, Scan, DeleteFound, Precedence
    <3> QED
      BY <1>1, <2>1, <2>2, <3>1
  <2>7. CASE Publish(c) \/ PublishRest(c)
    <3>1. kind[c] \in Writes /\ at[c] \in {"publish", "rest"}
      BY <2>7 DEF Publish, PublishRest, Precedence
    <3> QED
      BY <1>1, <2>1, <2>2, <3>1 DEF Put
  <2> QED
    BY <1>3, <2>3, <2>4, <2>5, <2>6, <2>7 DEF Continues
<1>4. CASE Aside
  BY <1>1, <1>4, AsideMoves DEF Put
<1> QED
  BY <1>2, <1>3, <1>4, StepCases

LEMMA CauseStays ==
    ASSUME IInv, [InvNext]_invVars, NEW d \in Ops, at[d] # "idle", Cause(d)
    PROVE  Cause(d)'
<1>1. at'[d] # "idle" /\ preceded'[d] = preceded[d] /\ over \subseteq over' /\ purged \subseteq purged'
  BY PastStays
<1>2. ASSUME NEW r \in Ops, Started(r), kind[r] \in Removals,
             \/ r \notin preceded[d]
             \/ kind[r] = "delete_prefix" /\ \E i \in Instances : Handled(i, r)
      PROVE  Cause(d)'
  <2>1. at'[r] # "idle" /\ kind'[r] = kind[r]
    BY <1>2, PastStays DEF Started
  <2>2. (\E i \in Instances : Handled(i, r)) => \E i \in Instances : Handled(i, r)'
    BY HandledStays
  <2> QED
    BY <1>1, <1>2, <2>1, <2>2 DEF Cause, Started
<1>3. ASSUME NEW e \in Ops \cap over, e \notin preceded[d] PROVE Cause(d)'
  BY <1>1, <1>3 DEF Cause
<1>4. ASSUME NEW g \in purged, Overlap(g, d) PROVE Cause(d)'
  <2>1. g \in Ops
    BY DEF IInv, InvTypeOK
  <2>2. at'[g] # "idle" /\ preceded'[g] = preceded[g]
    BY <1>4, <2>1, PastStays DEF Overlap, Started
  <2>3. Overlap(g, d)'
    BY <1>1, <1>4, <2>2 DEF Overlap, Started
  <2> QED
    BY <1>1, <2>3 DEF Cause
<1> QED
  BY <1>2, <1>3, <1>4 DEF Cause

\* Only a batch goes on after its event.
LEMMA RestIsOfABatch ==
    ASSUME IInv, [InvNext]_invVars, NEW c \in Ops, at'[c] = "rest", at[c] # "rest"
    PROVE  kind'[c] \in Batches
<1> USE DEF IInv, InvTypeOK
<1>1. ASSUME NEW e \in Ops, Start(e) PROVE FALSE
  <2>1. PICK p \in Firsts : at' = [at EXCEPT ![e] = p]
    BY <1>1, StartMoves DEF StartsAs
  <2> QED
    BY <2>1 DEF Firsts
<1>2. ASSUME NEW e \in Ops, Continues(e) PROVE kind'[c] \in Batches
  <2>1. e = c
    BY <1>2, RunMoves
  <2>2. Publish(c)
    BY <1>2, <2>1 DEF Continues, Read, Resume, Hits, Misses, BeginsToLoad, Poll, LoaderReturns, Purge,
       Write, Remove, Scan, DeleteFound, RemovalFails, PublishRest, Goes
  <2> QED
    BY <2>2 DEF Publish, Goes
<1>3. CASE Aside
  BY <1>3, AsideMoves
<1> QED
  BY <1>1, <1>2, <1>3, StepCases

\* What Redis answered stays until the next poll, and an answer is what an L1 or Redis had.
LEMMA ReadMoves ==
    ASSUME IInv, [InvNext]_invVars, NEW g \in Ops
    PROVE  /\ \/ reply'[g] = reply[g]
              \/ Read(g) /\ reply[g] = Unread /\ reply'[g] \in {l2, None}
              \/ Poll(g) /\ reply'[g] = Unread
           /\ at[g] # "idle" => \/ answer'[g] = answer[g]
                                \/ Resume(g) /\ answer'[g] = reply[g]
                                \/ Poll(g) /\ answer'[g] = l1[home[g]]
<1> USE DEF IInv, InvTypeOK
<1>1. ASSUME NEW c \in Ops, Start(c)
      PROVE  reply' = reply /\ at[c] = "idle" /\ (c # g => answer'[g] = answer[g])
  <2>1. /\ reply' = reply /\ at[c] = "idle"
        /\ \E i \in Instances : answer' = answer \/ answer' = [answer EXCEPT ![c] = l1[i]]
    BY <1>1, StartMoves DEF StartsAs
  <2> QED
    BY <2>1
<1>2. ASSUME NEW c \in Ops, Continues(c), c # g
      PROVE  reply'[g] = reply[g] /\ answer'[g] = answer[g]
  BY <1>2, RunMoves
<1>3. CASE Continues(g)
  <2>1. CASE Read(g)
    BY <2>1 DEF Read
  <2>2. CASE Resume(g)
    BY <2>2 DEF Resume, Hits
  <2>3. CASE Poll(g)
    BY <2>3 DEF Poll
  <2>4. CASE ~Read(g) /\ ~Resume(g) /\ ~Poll(g)
    BY <1>3, <2>4 DEF Continues, LoaderReturns, Purge, Write, Remove, Scan, DeleteFound, Publish,
       PublishRest
  <2> QED
    BY <2>1, <2>2, <2>3, <2>4
<1> QED
  BY <1>1, <1>2, <1>3, AsideMoves, StepCases

LEMMA PlacesStep ==
    ASSUME IInv, PlacesFit, [InvNext]_invVars
    PROVE  PlacesFit'
<1>1. ASSUME NEW c \in Ops, at'[c] = "idle" PROVE reply'[c] = Unread
  <2>1. at[c] = "idle"
    BY <1>1, PastStays
  <2>2. reply'[c] = reply[c]
    BY <2>1, ReadMoves DEF Read, Poll
  <2> QED
    BY <2>1, <2>2 DEF PlacesFit
<1>2. ASSUME NEW c \in Ops, at'[c] = "rest" PROVE kind'[c] \in Batches
  <2>1. CASE at[c] = "rest"
    BY <2>1, PastStays DEF PlacesFit
  <2>2. CASE at[c] # "rest"
    BY <1>2, <2>2, RestIsOfABatch
  <2> QED
    BY <2>1, <2>2
<1>3. ASSUME NEW c \in Ops, at'[c] = "purge" PROVE reply'[c] \in over'
  <2>1. ASSUME NEW d \in Ops, Start(d) PROVE at[c] = "purge" /\ reply' = reply
    <3>1. \E p \in Firsts : at' = [at EXCEPT ![d] = p]
      BY <2>1, StartMoves DEF IInv, StartsAs
    <3>2. reply' = reply
      BY <2>1, StartMoves DEF IInv
    <3> QED
      BY <1>3, <3>1, <3>2 DEF IInv, InvTypeOK, Firsts
  <2>2. ASSUME NEW d \in Ops, Continues(d)
        PROVE  reply'[c] = reply[c] /\ (at[c] = "purge" \/ reply[c] \in over)
    <3>1. CASE c # d
      BY <1>3, <2>2, <3>1, RunMoves
    <3>2. CASE c = d
      <4>1. Resume(c)
        BY <1>3, <2>2, <3>2
           DEF Continues, Read, Poll, LoaderReturns, Purge, Misses, BeginsToLoad, Write, Remove, Scan,
               DeleteFound, RemovalFails, Publish, PublishRest, Goes, IInv, InvTypeOK
      <4>2. reply' = reply /\ reply[c] \in over
        BY <1>3, <4>1 DEF Resume, Hits, Misses, BeginsToLoad, Goes, IInv, InvTypeOK
      <4> QED
        BY <4>2
    <3> QED
      BY <3>1, <3>2
  <2>3. over \subseteq over'
    BY <1>3, PastStays
  <2> QED
    BY <1>3, <2>1, <2>2, <2>3, AsideMoves, StepCases DEF PlacesFit
<1> QED
  BY <1>1, <1>2, <1>3 DEF PlacesFit

LEMMA FreshStep ==
    ASSUME IInv, PlacesFit, ReadsAreFresh, [InvNext]_invVars
    PROVE  ReadsAreFresh'
<1> SUFFICES ASSUME NEW g \in Ops, NEW d \in preceded'[g], Done(d)',
                    reply'[g] = Seed \/ reply'[g] \in preceded'[d]
             PROVE  FALSE
  BY DEF ReadsAreFresh
<1>1. IInv'
  BY IStepInv
<1>2. d \in Ops /\ at'[d] = "end"
  BY <1>1 DEF IInv, InvTypeOK, Precedence
<1>3. reply'[g] # Unread /\ reply'[g] # None
  <2>1. preceded'[d] \subseteq Ops
    BY <1>1, <1>2 DEF IInv, InvTypeOK
  <2> QED
    BY <2>1, DistinctFacts DEF Envelopes
<1>4. reply'[g] = reply[g] \/ (Read(g) /\ reply'[g] = l2)
  BY <1>3, ReadMoves
<1>5. at[g] # "idle"
  BY <1>3, <1>4 DEF PlacesFit, Read
<1>6. d \in preceded[g] /\ at[d] = "end"
  BY <1>5, PastStays DEF IInv, Precedence
<1>7. Done(d) /\ preceded'[d] = preceded[d]
  BY <1>2, <1>6, PastStays DEF Done, Put
<1>8. reply[g] # Seed /\ reply[g] \notin preceded[d]
  BY <1>6, <1>7 DEF ReadsAreFresh
<1>9. l2 # Seed /\ l2 \notin preceded[d]
  BY <1>2, <1>7 DEF IInv, Settles
<1> QED
  BY <1>4, <1>7, <1>8, <1>9

\* What leaves Redis but by a read that found it expired leaves it for a cause.
LEMMA EmptiedForACause ==
    ASSUME IInv, VInv, InvNext, \A c \in Ops : ~Purge(c), l2 # None, l2' = None,
           NEW d \in Ops, Put(d), at[d] # "idle"
    PROVE  Cause(d)
<1> USE DEF IInv
<1>1. \/ \E c \in Ops : Remove(c) \/ DeleteFound(c)
      \/ \E i \in Instances : HandlePrefix(i) /\ listener[i] = "delete"
      \/ RedisDrops
  <2>1. ASSUME NEW c \in Ops, Start(c) PROVE FALSE
    BY <2>1, StartMoves
  <2>2. ASSUME NEW c \in Ops, Continues(c) PROVE Remove(c) \/ DeleteFound(c)
    BY <2>2, DistinctFacts
       DEF Continues, Read, Resume, Poll, LoaderReturns, Write, Scan, Publish, PublishRest, dataVars
  <2>3. CASE Aside
    BY <2>3 DEF Aside, Handle, HandlePrefix, ListenerFails, TimePasses, invVars, dataVars
  <2> QED
    BY <2>1, <2>2, <2>3, StepCases
<1>2. ASSUME NEW c \in Ops, Remove(c) \/ DeleteFound(c) PROVE Cause(d)
  <2>1. at[c] \in {"remove", "delete"} /\ kind[c] \in Removals /\ c \notin preceded[d]
    BY <1>2 DEF Remove, DeleteFound, Precedence
  <2> QED
    BY <2>1 DEF Cause, Started
<1>3. ASSUME NEW i \in Instances, listener[i] = "delete" PROVE Cause(d)
  <2>1. PICK r \in Ops : kind[r] = "delete_prefix" /\ Handled(i, r)
    BY <1>3 DEF VInv, DeletesForAnEvent
  <2> QED
    BY <2>1, KindFacts DEF Cause, Started, Handled, Ended
<1>4. CASE RedisDrops
  <2>1. l2 \in over /\ l2 # Seed /\ l2 \notin preceded[d]
    BY <1>4 DEF RedisDrops, Settles, Done
  <2>2. l2 \in Ops
    BY <2>1 DEF InvTypeOK, Envelopes
  <2> QED
    BY <2>1, <2>2 DEF Cause
<1> QED
  BY <1>1, <1>2, <1>3, <1>4

\* A read that deletes by key overlaps what it deletes, or started later and found another
\* envelope over.
LEMMA PurgedForACause ==
    ASSUME IInv, VInv, InvNext, NEW c \in Ops, Purge(c), NEW d \in Ops, Put(d), at[d] # "idle"
    PROVE  Cause(d)'
<1> USE DEF IInv
<1>1. /\ at[c] = "purge" /\ kind[c] \notin Writes /\ reply[c] \in over /\ c \in purged'
      /\ over' = over /\ preceded' = preceded /\ at'[c] # "idle" /\ at'[d] # "idle"
  BY PastStays DEF Purge, Precedence, VInv, PlacesFit
<1>2. c # d /\ c \notin preceded[d]
  <2>1. c \notin preceded[d]
    BY <1>1 DEF Precedence
  <2> QED
    BY <1>1, <2>1, KindFacts DEF Put
<1>3. CASE d \in preceded[c]
  <2>1. reply[c] # Seed /\ reply[c] \notin preceded[d]
    BY <1>3 DEF VInv, ReadsAreFresh, Done
  <2>2. reply[c] \in Ops
    BY <1>1, <2>1 DEF InvTypeOK, Envelopes
  <2> QED
    BY <1>1, <2>1, <2>2 DEF Cause
<1>4. CASE d \notin preceded[c]
  BY <1>1, <1>2, <1>4 DEF Cause, Overlap, Started
<1> QED
  BY <1>3, <1>4

LEMMA VStepInv == IInv /\ VInv /\ [InvNext]_invVars => VInv'
<1> SUFFICES ASSUME IInv, VInv, [InvNext]_invVars PROVE VInv'
  OBVIOUS
<1>1. Inboxes' /\ DeletesForAnEvent' /\ PlacesFit' /\ ReadsAreFresh'
  BY InboxesStep, ListenerStepV, PlacesStep, FreshStep DEF VInv
<1>2. ASSUME l2' = None, NEW d \in Ops, Put(d)' PROVE Cause(d)'
  <2>1. CASE UNCHANGED invVars
    <3>1. Put(d) /\ l2 = None
      BY <1>2, <2>1 DEF invVars, callVars, dataVars, Put
    <3>2. at[d] # "idle" /\ Cause(d)
      BY <3>1 DEF VInv, Covered, Put
    <3> QED
      BY <3>2, CauseStays
  <2>2. CASE InvNext
    <3>1. Put(d) /\ at[d] # "idle"
      <4>1. l2' # d
        BY <1>2, DistinctFacts
      <4>2. Put(d)
        BY <1>2, <2>2, <4>1, BecomesPut
      <4> QED
        BY <4>2 DEF Put
    <3>2. CASE l2 = None
      BY <3>1, <3>2, CauseStays DEF VInv, Covered
    <3>3. CASE \E c \in Ops : Purge(c)
      BY <2>2, <3>1, <3>3, PurgedForACause
    <3>4. CASE l2 # None /\ \A c \in Ops : ~Purge(c)
      BY <1>2, <2>2, <3>1, <3>4, EmptiedForACause, CauseStays
    <3> QED
      BY <3>2, <3>3, <3>4
  <2> QED
    BY <2>1, <2>2
<1>3. Covered'
  BY <1>2 DEF Covered
<1> QED
  BY <1>1, <1>3 DEF VInv

-----------------------------------------------------------------------------
\* StaleHasACause and ReadYourWrites

\* The envelope e was written before the call d started.
Older(e, d) == e = Seed \/ e \in preceded[d]

\* A call that was not started has no history, one that was is of a known kind, and no
\* removal writes.
Begins ==
    \A c \in Ops :
        /\ at[c] = "idle" => /\ kind[c] = None /\ preceded[c] = {}
                             /\ reply[c] = Unread /\ answer[c] = None
        /\ at[c] # "idle" => kind[c] \in Kinds /\ home[c] \in Instances
        /\ at[c] = "write" => kind[c] \notin Removals

\* The L1 of instance i knows of the write d: it is that of d, or its listener handled
\* the event of d.
Reached(i, d) ==
    \/ i = home[d] /\ at[d] # "idle"
    \/ /\ at[d] \in {"rest", "end"} /\ d \notin lost[i]
       /\ \A n \in DOMAIN inbox[i] : inbox[i][n] # d

L1Settles ==
    \A i \in Instances, d \in Ops :
        /\ kind[d] \in Writes /\ d \notin failed /\ Reached(i, d)
        /\ Older(l1[i], d)
        => ReadAcross(i, d, l1[i])

AnswersSettle ==
    \A g, d \in Ops :
        /\ kind[g] \in Reads /\ d \in preceded[g] /\ home[g] = home[d]
        /\ kind[d] \in Writes /\ d \notin failed /\ Older(answer[g], d)
        => ReadAcross(home[g], d, answer[g])

SInv == Begins /\ L1Settles /\ AnswersSettle

LEMMA SInitInv == InvInit => SInv
<1> SUFFICES ASSUME InvInit PROVE SInv
  OBVIOUS
<1>1. \A c \in Ops : /\ at[c] = "idle" /\ kind[c] = None /\ preceded[c] = {}
                     /\ reply[c] = Unread /\ answer[c] = None
  BY DEF InvInit
<1> QED
  BY <1>1, DistinctFacts DEF SInv, Begins, L1Settles, AnswersSettle

\* The envelopes that a call supersedes are envelopes.
LEMMA OlderFacts ==
    ASSUME IInv, NEW d \in Ops, NEW e, Older(e, d)
    PROVE  e \in Envelopes /\ e # None /\ e # Unread
BY DistinctFacts DEF Older, IInv, InvTypeOK, Envelopes

\* A write that had ended before a read started keeps what is older from the read.
LEMMA FreshFacts ==
    ASSUME IInv, VInv, NEW g \in Ops, NEW d \in preceded[g], kind[d] \in Writes, d \notin failed
    PROVE  ~Older(reply[g], d)
<1>1. d \in Ops /\ at[d] = "end"
  BY DEF IInv, InvTypeOK, Precedence
<1> QED
  BY <1>1 DEF VInv, ReadsAreFresh, Done, Older

\* A call starts by its own step.
LEMMA StartOnly ==
    ASSUME IInv, [InvNext]_invVars, NEW d \in Ops, at[d] = "idle", at'[d] # "idle"
    PROVE  Start(d)
<1>1. ASSUME NEW c \in Ops, Start(c) PROVE c = d
  <2>1. PICK p : at' = [at EXCEPT ![c] = p]
    BY <1>1, StartMoves DEF IInv, StartsAs
  <2> QED
    BY <2>1 DEF IInv, InvTypeOK
<1>2. ASSUME NEW c \in Ops, Continues(c) PROVE FALSE
  BY <1>2, RunMoves
<1> QED
  BY <1>1, <1>2, AsideMoves, StepCases

LEMMA BeginsStep ==
    ASSUME IInv, Begins, [InvNext]_invVars
    PROVE  Begins'
<1> SUFFICES ASSUME NEW c \in Ops
             PROVE  /\ at'[c] = "idle" => /\ kind'[c] = None /\ preceded'[c] = {}
                                          /\ reply'[c] = Unread /\ answer'[c] = None
                    /\ at'[c] # "idle" => kind'[c] \in Kinds /\ home'[c] \in Instances
                    /\ at'[c] = "write" => kind'[c] \notin Removals
  BY DEF Begins
<1> USE DEF IInv, InvTypeOK, Begins
<1>1. ASSUME NEW d \in Ops, Start(d)
      PROVE  /\ c # d => /\ at'[c] = at[c] /\ kind'[c] = kind[c] /\ preceded'[c] = preceded[c]
                         /\ home'[c] = home[c] /\ reply'[c] = reply[c] /\ answer'[c] = answer[c]
             /\ c = d => /\ at'[c] # "idle" /\ kind'[c] \in Kinds /\ home'[c] \in Instances
                         /\ at'[c] = "write" => kind'[c] \notin Removals
  <2>a. PICK i \in Instances, k \in Kinds, p \in Firsts : StartsAs(d, i, k, p)
    BY <1>1, StartMoves
  <2>1. /\ home' = [home EXCEPT ![d] = i] /\ kind' = [kind EXCEPT ![d] = k]
        /\ at' = [at EXCEPT ![d] = p] /\ p # "idle" /\ (p = "write" => k \notin Removals)
        /\ answer' = answer \/ answer' = [answer EXCEPT ![d] = l1[i]]
    BY <2>a DEF StartsAs, Firsts
  <2>2. preceded' = [preceded EXCEPT ![d] = {e \in Ops : at[e] = "end"}] /\ reply' = reply
    BY <1>1, StartMoves
  <2>3. CASE c # d
    BY <2>1, <2>2, <2>3
  <2>4. CASE c = d
    <3>1. kind'[c] = k /\ at'[c] = p /\ home'[c] = i
      BY <2>1, <2>4
    <3> QED
      BY <2>1, <2>4, <3>1
  <2> QED
    BY <2>3, <2>4
<1>2. ASSUME NEW d \in Ops, Continues(d)
      PROVE  /\ kind'[c] = kind[c] /\ home'[c] = home[c] /\ preceded'[c] = preceded[c]
             /\ c # d => at'[c] = at[c] /\ reply'[c] = reply[c] /\ answer'[c] = answer[c]
             /\ c = d => /\ at'[c] # "idle" /\ at[c] # "idle"
                         /\ at'[c] = "write" => kind[c] \notin Removals
  <2>1. ASSUME c = d, at'[c] = "write" PROVE kind[c] \notin Removals
    <3>1. at[c] = "write" \/ at[c] = "load"
      BY <1>2, <2>1
         DEF Continues, Read, Resume, Hits, Misses, BeginsToLoad, Poll, LoaderReturns, Purge, Write,
             Remove, Scan, DeleteFound, Publish, PublishRest, RemovalFails, Goes
    <3> QED
      BY <3>1, KindFacts DEF Precedence
  <2> QED
    BY <1>2, <2>1, RunMoves
<1> QED
  BY <1>1, <1>2, AsideMoves, StepCases

\* What becomes of an L1 entry.
LEMMA L1Moves ==
    ASSUME IInv, [InvNext]_invVars, NEW i \in Instances
    PROVE  \/ l1'[i] = l1[i]
           \/ l1'[i] = None
           \/ \E c \in Ops : l1'[i] = c /\ at'[c] = "write"
           \/ \E g \in Ops : /\ Resume(g) /\ Hits(g) /\ home[g] = i /\ reply[g] # None
                             /\ l1'[i] = reply[g]
<1> USE DEF IInv, InvTypeOK
<1>1. ASSUME NEW c \in Ops, Start(c)
      PROVE  \/ l1'[i] = l1[i]
             \/ l1'[i] = None
             \/ l1'[i] = c /\ at'[c] = "write"
  <2>1. PICK j \in Instances, k \in Kinds, p \in Firsts : StartsAs(c, j, k, p)
    BY <1>1, StartMoves
  <2> QED
    BY <2>1 DEF StartsAs
<1>2. ASSUME NEW c \in Ops, Resume(c)
      PROVE  \/ l1'[i] = l1[i]
             \/ Hits(c) /\ home[c] = i /\ reply[c] # None /\ l1'[i] = reply[c]
  BY <1>2 DEF Resume, Hits
<1>3. ASSUME NEW c \in Ops, LoaderReturns(c)
      PROVE  l1'[i] = l1[i] \/ (l1'[i] = c /\ at'[c] = "write")
  BY <1>3 DEF LoaderReturns, Goes
<1>4. ASSUME NEW c \in Ops, Poll(c)
      PROVE  l1'[i] = l1[i] \/ l1'[i] = None
  BY <1>4 DEF Poll
<1>5. ASSUME NEW c \in Ops, Continues(c), ~Resume(c), ~LoaderReturns(c), ~Poll(c)
      PROVE  l1' = l1
  BY <1>5 DEF Continues, Read, Purge, Write, Remove, Scan, DeleteFound, Publish, PublishRest, dataVars
<1>6. CASE Aside
  BY <1>6 DEF Aside, Handle, HandlePrefix, ListenerFails, RedisDrops, TimePasses, invVars,
     dataVars
<1> QED
  BY <1>1, <1>2, <1>3, <1>4, <1>5, <1>6, StepCases

\* A read that overlapped a write will always have done so.
LEMMA ReadAcrossStays ==
    ASSUME IInv, [InvNext]_invVars, NEW i \in Instances, NEW d \in Ops, NEW e,
           ReadAcross(i, d, e)
    PROVE  ReadAcross(i, d, e)'
<1>1. PICK g \in Ops : /\ kind[g] \in Reads /\ home[g] = i /\ Overlap(g, d)
                       /\ at[g] = "end" /\ reply[g] = e /\ answer[g] = e
  BY DEF ReadAcross, Ended
<1>2. at[d] # "idle"
  BY <1>1 DEF Overlap, Started
<1>3. /\ at'[g] = "end" /\ kind'[g] = kind[g] /\ home'[g] = home[g]
      /\ preceded'[g] = preceded[g] /\ reply'[g] = e /\ answer'[g] = e
      /\ at'[d] # "idle" /\ preceded'[d] = preceded[d]
  BY <1>1, <1>2, PastStays
<1> QED
  BY <1>1, <1>3 DEF ReadAcross, Overlap, Started, Ended

\* A write that reaches the place after its event has published it, unless it failed.
LEMMA PublishedOnce ==
    ASSUME IInv, Begins, [InvNext]_invVars, NEW d \in Ops, kind[d] \in Writes,
           at[d] \notin {"idle", "rest", "end"}, at'[d] \in {"rest", "end"}, d \notin failed'
    PROVE  Publish(d)
<1> USE KindFacts DEF IInv, InvTypeOK
<1>1. ASSUME NEW c \in Ops, Start(c) PROVE FALSE
  <2>1. PICK p : at[c] = "idle" /\ at' = [at EXCEPT ![c] = p]
    BY <1>1, StartMoves DEF StartsAs
  <2> QED
    BY <2>1
<1>2. ASSUME NEW c \in Ops, Read(c) \/ Resume(c) \/ Poll(c) \/ LoaderReturns(c) \/ Purge(c)
      PROVE  FALSE
  <2>1. c # d
    BY <1>2 DEF Read, Resume, Poll, LoaderReturns, Purge, Precedence
  <2> QED
    BY <1>2, <2>1, RunMoves DEF Continues
<1>3. ASSUME NEW c \in Ops, Write(c) \/ Remove(c) \/ Scan(c) \/ DeleteFound(c) PROVE FALSE
  <2>1. c = d
    BY <1>3, RunMoves DEF Continues
  <2>2. CASE Write(c)
    <3>1. kind[d] \in Sets
      <4>1. kind[d] \notin Removals
        BY <2>1, <2>2 DEF Write, Begins
      <4> QED
        BY <4>1 DEF Writes
    <3> QED
      BY <2>1, <2>2, <3>1 DEF Write, Goes
  <2>3. CASE Remove(c) \/ Scan(c) \/ DeleteFound(c)
    BY <2>1, <2>3 DEF Remove, Scan, DeleteFound, RemovalFails, CommandFails, Goes
  <2> QED
    BY <1>3, <2>2, <2>3
<1>4. ASSUME NEW c \in Ops, Publish(c) \/ PublishRest(c) PROVE Publish(d)
  <2>1. c = d
    BY <1>4, RunMoves DEF Continues
  <2> QED
    BY <1>4, <2>1 DEF PublishRest
<1> QED
  BY <1>1, <1>2, <1>3, <1>4, AsideMoves, StepCases DEF Continues

\* A call that begins to write leaves in its L1 its own envelope or nothing.
LEMMA StartSettles ==
    ASSUME IInv, NEW d \in Ops, Start(d), kind'[d] \in Writes
    PROVE  l1'[home'[d]] \in {d, None} /\ at'[d] \notin {"rest", "end"}
<1> USE DEF IInv, InvTypeOK
<1>1. PICK i \in Instances, k \in Kinds, p \in Firsts : StartsAs(d, i, k, p)
  BY StartMoves
<1>2. home'[d] = i /\ kind'[d] = k /\ at'[d] = p
  BY <1>1 DEF StartsAs
<1> QED
  BY <1>1, <1>2 DEF StartsAs

\* When the listener of an instance comes to know of a write, the L1 entry goes.
LEMMA ReachedNow ==
    ASSUME IInv, Begins, Inboxes, [InvNext]_invVars, NEW i \in Instances, NEW d \in Ops,
           at[d] # "idle", kind[d] \in Writes, d \notin failed',
           Reached(i, d)', ~Reached(i, d)
    PROVE  l1'[i] = None
<1> USE DEF IInv, InvTypeOK
<1>1. home[d] # i
  BY DEF Reached
<1>2. /\ at'[d] \in {"rest", "end"} /\ d \notin lost'[i]
      /\ \A n \in DOMAIN inbox'[i] : inbox'[i][n] # d
  BY <1>1, PastStays DEF Reached
<1>3. CASE at[d] \notin {"rest", "end"}
  <2>1. Publish(d)
    BY <1>2, <1>3, PublishedOnce
  <2>2. \/ lost'[i] = lost[i] \cup {d}
        \/ inbox'[i] = Append(inbox[i], d)
    BY <2>1, PublishMoves
  <2>3. inbox[i] \in Seq(Ops)
    OBVIOUS
  <2>4. inbox'[i] # Append(inbox[i], d)
    <3>1. /\ Append(inbox[i], d)[Len(inbox[i]) + 1] = d
          /\ Len(inbox[i]) + 1 \in DOMAIN Append(inbox[i], d)
      BY <2>3
    <3> QED
      BY <1>2, <3>1
  <2> QED
    BY <1>2, <2>2, <2>4
<1>4. CASE at[d] \in {"rest", "end"}
  <2>1. d \in lost[i] \/ \E n \in DOMAIN inbox[i] : inbox[i][n] = d
    BY <1>4 DEF Reached
  <2>2. CASE UNCHANGED <<inbox, lost>>
    BY <1>2, <2>1, <2>2
  <2>3. ASSUME NEW c \in Ops, Publish(c) PROVE FALSE
    <3>1. \/ inbox'[i] = inbox[i] /\ lost'[i] = lost[i] \cup {c}
          \/ inbox'[i] = Append(inbox[i], c) /\ lost'[i] = lost[i]
      BY <2>3, PublishMoves
    <3>2. inbox[i] \in Seq(Ops)
      OBVIOUS
    <3>3. \A n \in DOMAIN inbox[i] : n \in DOMAIN Append(inbox[i], c)
                                     /\ Append(inbox[i], c)[n] = inbox[i][n]
      BY <3>2
    <3> QED
      BY <1>2, <2>1, <3>1, <3>3
  <2>4. ASSUME NEW j \in Instances, ListenerFails(j) PROVE FALSE
    <3> DEFINE Mail == {inbox[j][n] : n \in DOMAIN inbox[j]}
    <3>a. lost' = [lost EXCEPT ![j] = lost[j] \cup Mail] /\ inbox' = [inbox EXCEPT ![j] = <<>>]
      BY <2>4 DEF ListenerFails
    <3>b. \A n \in DOMAIN inbox[j] : inbox[j][n] \in Mail
      OBVIOUS
    <3> HIDE DEF Mail
    <3>1. lost[i] \subseteq lost'[i] /\ (i = j => \A n \in DOMAIN inbox[i] : inbox[i][n] \in lost'[i])
      BY <3>a, <3>b
    <3>2. i # j => inbox'[i] = inbox[i]
      BY <3>a
    <3> QED
      BY <1>2, <2>1, <3>1, <3>2
  <2>5. ASSUME NEW j \in Instances, Handle(j) PROVE l1'[i] = None
    <3>1. lost' = lost /\ inbox[j] # <<>> /\ inbox' = [inbox EXCEPT ![j] = Tail(@)]
      BY <2>5 DEF Handle
    <3>2. PICK n \in DOMAIN inbox[i] : inbox[i][n] = d
      BY <1>2, <2>1, <3>1
    <3>3. i = j
      BY <1>2, <3>1, <3>2
    <3>4. inbox[i] \in Seq(Ops) /\ inbox[i] # <<>> /\ inbox'[i] = Tail(inbox[i])
      BY <3>1, <3>3
    <3>5. CASE n = 1
      <4>1. Head(inbox[i]) = d
        BY <3>2, <3>4, <3>5
      <4> QED
        BY <1>1, <2>5, <3>3, <4>1 DEF Handle, Ignores
    <3>6. CASE n # 1
      <4>1. n - 1 \in DOMAIN Tail(inbox[i]) /\ Tail(inbox[i])[n - 1] = inbox[i][n]
        BY <3>4, <3>6
      <4> QED
        BY <1>2, <3>2, <3>4, <4>1
    <3> QED
      BY <3>5, <3>6
  <2> QED
    BY <2>2, <2>3, <2>4, <2>5, EventsMove
<1> QED
  BY <1>3, <1>4

LEMMA L1Step ==
    ASSUME IInv, VInv, SInv, [InvNext]_invVars
    PROVE  L1Settles'
<1> SUFFICES ASSUME NEW i \in Instances, NEW d \in Ops, kind'[d] \in Writes, d \notin failed',
                    Reached(i, d)', l1'[i] = Seed \/ l1'[i] \in preceded'[d]
             PROVE  \E g \in Ops : /\ kind'[g] \in Reads /\ home'[g] = i /\ Overlap(g, d)'
                                   /\ Ended(g)' /\ reply'[g] = l1'[i] /\ answer'[g] = l1'[i]
  BY DEF L1Settles, Older, ReadAcross
<1>1. IInv' /\ Begins /\ Begins'
  BY IStepInv, BeginsStep DEF SInv
<1>2. l1'[i] # None /\ l1'[i] # Unread /\ l1'[i] # d
  <2>1. preceded'[d] \subseteq Ops /\ d \notin preceded'[d]
    BY <1>1 DEF IInv, InvTypeOK, Precedence
  <2> QED
    BY <2>1, DistinctFacts DEF Envelopes
<1>3. at[d] # "idle"
  <2>1. ASSUME at[d] = "idle" PROVE Start(d)
    <3>1. at'[d] # "idle"
      BY <1>1, DistinctFacts DEF Begins
    <3> QED
      BY <2>1, <3>1, StartOnly
  <2>2. ASSUME Start(d) PROVE FALSE
    <3>1. l1'[home'[d]] \in {d, None} /\ at'[d] \notin {"rest", "end"}
      BY <2>2, StartSettles
    <3> QED
      BY <1>2, <3>1 DEF Reached
  <2> QED
    BY <2>1, <2>2
<1>4. /\ kind[d] \in Writes /\ preceded'[d] = preceded[d] /\ d \notin failed
  BY <1>3, PastStays
<1>5. PICK e : e = l1'[i]
  OBVIOUS
<1>6. ASSUME ReadAcross(i, d, e)
      PROVE  \E g \in Ops : /\ kind'[g] \in Reads /\ home'[g] = i /\ Overlap(g, d)'
                            /\ Ended(g)' /\ reply'[g] = l1'[i] /\ answer'[g] = l1'[i]
  BY <1>5, <1>6, ReadAcrossStays DEF ReadAcross
<1>7. CASE l1'[i] = l1[i]
  <2>1. Reached(i, d)
    BY <1>1, <1>2, <1>3, <1>4, ReachedNow DEF VInv
  <2> QED
    BY <1>4, <1>5, <1>6, <1>7, <2>1 DEF SInv, L1Settles, Older
<1>8. ASSUME NEW c \in Ops, l1'[i] = c, at'[c] = "write" PROVE FALSE
  BY <1>1, <1>8, DistinctFacts DEF IInv, Precedence
<1>9. ASSUME NEW g \in Ops, Resume(g), Hits(g), home[g] = i, l1'[i] = reply[g]
      PROVE  \E h \in Ops : /\ kind'[h] \in Reads /\ home'[h] = i /\ Overlap(h, d)'
                            /\ Ended(h)' /\ reply'[h] = l1'[i] /\ answer'[h] = l1'[i]
  <2>1. at[g] \in {"read", "poll"} /\ kind[g] \notin Writes
    BY <1>9 DEF Resume, IInv, Precedence
  <2>2. kind[g] \in Reads
    BY <1>1, <2>1, KindsAssumption DEF Begins, AllKinds
  <2>3. g \notin preceded[d] /\ g # d
    BY <1>4, <2>1 DEF IInv, Precedence
  <2>4. d \notin preceded[g]
    BY <1>4, <1>9, FreshFacts DEF Older
  <2>5. /\ kind'[g] = kind[g] /\ home'[g] = i /\ preceded'[g] = preceded[g] /\ at'[g] = "end"
        /\ reply'[g] = l1'[i] /\ answer'[g] = l1'[i] /\ at'[d] # "idle"
    BY <1>3, <1>9, PastStays DEF Resume, Hits, Goes, IInv, InvTypeOK
  <2>6. Overlap(g, d)'
    BY <1>4, <2>3, <2>4, <2>5 DEF Overlap, Started
  <2> QED
    BY <2>2, <2>5, <2>6 DEF Ended
<1> QED
  BY <1>2, <1>7, <1>8, <1>9, L1Moves

LEMMA AnswersStep ==
    ASSUME IInv, VInv, SInv, [InvNext]_invVars
    PROVE  AnswersSettle'
<1> SUFFICES ASSUME NEW g \in Ops, NEW d \in Ops, kind'[g] \in Reads, d \in preceded'[g],
                    home'[g] = home'[d], kind'[d] \in Writes, d \notin failed',
                    answer'[g] = Seed \/ answer'[g] \in preceded'[d]
             PROVE  \E h \in Ops : /\ kind'[h] \in Reads /\ home'[h] = home'[g] /\ Overlap(h, d)'
                                   /\ Ended(h)' /\ reply'[h] = answer'[g] /\ answer'[h] = answer'[g]
  BY DEF AnswersSettle, Older, ReadAcross
<1>1. IInv' /\ Begins /\ Begins'
  BY IStepInv, BeginsStep DEF SInv
<1>2. answer'[g] # None /\ answer'[g] # Unread
  <2>1. preceded'[d] \subseteq Ops
    BY <1>1 DEF IInv, InvTypeOK
  <2> QED
    BY <2>1, DistinctFacts DEF Envelopes
<1>3. at'[g] # "idle" /\ at'[d] = "end" /\ g # d
  BY <1>1 DEF Begins, IInv, Precedence
<1>4. PICK e : e = answer'[g]
  OBVIOUS
<1>5. PICK i : i = home'[g]
  OBVIOUS
<1>6. i \in Instances /\ at[d] # "idle" /\ ReadAcross(i, d, e)
  <2>1. CASE at[g] = "idle"
    <3>1. Start(g)
      BY <1>3, <2>1, StartOnly
    <3>2. PICK j \in Instances :
              /\ home' = [home EXCEPT ![g] = j]
              /\ answer' = answer \/ answer' = [answer EXCEPT ![g] = l1[j]]
      BY <3>1, StartMoves DEF IInv, StartsAs
    <3>3. home'[g] = j /\ answer'[g] \in {answer[g], l1[j]}
      BY <3>2 DEF IInv, InvTypeOK
    <3>5. at[d] = "end"
      BY <3>1 DEF Start, IInv, InvTypeOK
    <3>6. /\ kind[d] \in Writes /\ home[d] = j /\ preceded'[d] = preceded[d] /\ d \notin failed
      BY <1>5, <3>3, <3>5, PastStays
    <3>7. answer'[g] = l1[j]
      BY <1>1, <1>2, <2>1, <3>3 DEF Begins
    <3>8. Reached(j, d) /\ Older(l1[j], d)
      BY <3>5, <3>6, <3>7 DEF Reached, Older
    <3> QED
      BY <1>4, <1>5, <3>3, <3>5, <3>6, <3>7, <3>8 DEF SInv, L1Settles
  <2>2. CASE at[g] # "idle"
    <3>1. d \in preceded[g] /\ kind[g] \in Reads /\ home'[g] = home[g]
      BY <2>2, PastStays
    <3>2. at[d] = "end"
      BY <3>1 DEF IInv, Precedence
    <3>3. /\ kind[d] \in Writes /\ home'[d] = home[d] /\ preceded'[d] = preceded[d]
          /\ d \notin failed
      BY <3>2, PastStays
    <3>4. answer'[g] # reply[g]
      BY <3>1, <3>3, FreshFacts DEF Older
    <3>5. home[g] \in Instances
      BY <1>1, <2>2 DEF Begins
    <3>6. CASE answer'[g] = answer[g]
      BY <1>4, <1>5, <3>1, <3>2, <3>3, <3>5, <3>6 DEF SInv, AnswersSettle, Older
    <3>7. CASE answer'[g] = l1[home[g]]
      <4>1. Reached(home[g], d) /\ Older(l1[home[g]], d)
        BY <3>1, <3>2, <3>3, <3>7 DEF Reached, Older
      <4> QED
        BY <1>4, <1>5, <3>1, <3>2, <3>3, <3>5, <3>7, <4>1 DEF SInv, L1Settles
    <3> QED
      BY <2>2, <3>4, <3>6, <3>7, ReadMoves
  <2> QED
    BY <2>1, <2>2
<1> QED
  BY <1>2, <1>4, <1>5, <1>6, ReadAcrossStays DEF ReadAcross

LEMMA SStepInv == IInv /\ VInv /\ SInv /\ [InvNext]_invVars => SInv'
BY BeginsStep, L1Step, AnswersStep DEF SInv

-----------------------------------------------------------------------------
\* CoherentWhenSettled

\* Nothing failed, only writes on different instances overlapped, and no prefix was
\* deleted.
Calm ==
    /\ failures = 0
    /\ \A c, d \in Ops : Overlap(c, d) =>
           home[c] # home[d] /\ kind[c] \in Writes /\ kind[d] \in Writes
    /\ \A c \in Ops : kind[c] # "delete_prefix"

QuietListeners == \A i \in Instances : listener[i] = "idle"

Running(c) == at[c] \notin {"idle", "end"}

\* What a call knows of its L1 and of Redis while it runs.
CallAgrees(c) ==
    /\ at[c] \in {"read", "poll"} /\ reply[c] # Unread => reply[c] \in {None, l2} \cup untold
    /\ at[c] = "write" => l1[home[c]] \in {None, c}
    /\ at[c] \in {"remove", "scan", "delete"} => l1[home[c]] = None

CallsAgree == \A c \in Ops : CallAgrees(c)

\* A call has not published its event yet.
Working(c) == at[c] \in {"write", "remove", "scan", "delete", "publish"}

\* An event that empties the L1 of instance i is on its way.
Announced(i) == \E n \in DOMAIN inbox[i] : home[inbox[i][n]] # i

\* The L1 of instance i agrees with Redis, or will, or has what left Redis without an event.
Agrees(i) ==
    \/ l1[i] \in {None, l2} \cup untold
    \/ Announced(i)
    \/ \E c \in Ops : Working(c) /\ kind[c] \in Writes /\ home[c] # i
    \/ \E c \in Ops : at[c] = "write" /\ home[c] = i /\ l1[i] = c

CInv == Calm => QuietListeners /\ CallsAgree /\ \A i \in Instances : Agrees(i)

LEMMA CInitInv == InvInit => CInv
BY DEF InvInit, CInv, QuietListeners, CallsAgree, CallAgrees, Agrees

\* Failures are counted, and what left Redis without an event has done so.
LEMMA FailuresGrow ==
    ASSUME IInv, [InvNext]_invVars
    PROVE  /\ failures' = failures \/ failures' = failures + 1
           /\ untold \subseteq untold'
<1>1. ASSUME NEW c \in Ops, Continues(c)
      PROVE  /\ failures' = failures \/ failures' = failures + 1
             /\ untold \subseteq untold'
  BY <1>1 DEF Continues, Read, Resume, Poll, LoaderReturns, Purge, Write, Remove, Scan, DeleteFound,
     Publish, PublishRest, RemovalFails, CommandSucceeds, CommandFails, LeavesUntold, timeVars
<1>2. ASSUME Aside
      PROVE  /\ failures' = failures \/ failures' = failures + 1
             /\ untold \subseteq untold'
  BY <1>2 DEF Aside, Handle, HandlePrefix, ListenerFails, RedisDrops, TimePasses, LeavesUntold,
     callVars, invVars, timeVars
<1> QED
  BY <1>1, <1>2, StartMoves, StepCases DEF IInv

\* It was calm before as well, and no command failed.
LEMMA CalmBefore ==
    ASSUME IInv, Begins, [InvNext]_invVars, Calm'
    PROVE  /\ Calm
           /\ \A c \in Ops : ~CommandFails(c)
           /\ \A i \in Instances : ~ListenerFails(i)
<1>1. failures \in Nat /\ failures' = 0
  BY DEF Calm, IInv, InvTypeOK
<1>2. failures = 0
  BY <1>1, FailuresGrow
<1>3. ASSUME NEW c \in Ops, NEW d \in Ops, Overlap(c, d)
      PROVE  home[c] # home[d] /\ kind[c] \in Writes /\ kind[d] \in Writes
  <2>1. /\ at'[c] # "idle" /\ kind'[c] = kind[c] /\ home'[c] = home[c] /\ preceded'[c] = preceded[c]
        /\ at'[d] # "idle" /\ kind'[d] = kind[d] /\ home'[d] = home[d] /\ preceded'[d] = preceded[d]
    BY <1>3, PastStays DEF Overlap, Started
  <2>2. Overlap(c, d)'
    BY <1>3, <2>1 DEF Overlap, Started
  <2> QED
    BY <2>1, <2>2 DEF Calm
<1>4. ASSUME NEW c \in Ops, kind[c] = "delete_prefix" PROVE FALSE
  <2>1. at[c] # "idle"
    BY <1>4, DistinctFacts, KindFacts DEF Begins
  <2> QED
    BY <1>4, <2>1, PastStays DEF Calm
<1> QED
  BY <1>1, <1>2, <1>3, <1>4 DEF Calm, CommandFails, ListenerFails

\* While it is calm only writes run at the same time, on different instances.
LEMMA Alone ==
    ASSUME IInv, Calm, NEW c \in Ops, NEW d \in Ops, c # d, Running(c), Running(d)
    PROVE  home[c] # home[d] /\ kind[c] \in Writes /\ kind[d] \in Writes
<1>1. Overlap(c, d)
  BY DEF Overlap, Started, Running, IInv, Precedence
<1> QED
  BY <1>1 DEF Calm

LEMMA QuietListenersStep ==
    ASSUME IInv, Begins, CInv, [InvNext]_invVars, Calm'
    PROVE  QuietListeners'
<1>1. QuietListeners /\ Calm /\ \A i \in Instances : ~ListenerFails(i)
  BY CalmBefore DEF CInv
<1>2. CASE \E c \in Ops : Start(c) \/ Continues(c)
  <2>1. listener' = listener
    BY <1>2, StartMoves, RunMoves DEF IInv
  <2> QED
    BY <1>1, <2>1 DEF QuietListeners
<1>3. ASSUME NEW j \in Instances, Handle(j) PROVE QuietListeners'
  <2>1. inbox[j] \in Seq(Ops) /\ inbox[j] # <<>>
    BY <1>3 DEF Handle, IInv, InvTypeOK
  <2>2. Head(inbox[j]) \in Ops
    BY <2>1
  <2>3. kind[Head(inbox[j])] # "delete_prefix"
    BY <1>1, <2>2 DEF Calm
  <2> QED
    BY <1>1, <1>3, <2>3 DEF Handle, QuietListeners, IInv, InvTypeOK
<1>4. ASSUME NEW j \in Instances, HandlePrefix(j) PROVE FALSE
  BY <1>1, <1>4 DEF HandlePrefix, QuietListeners
<1>5. CASE RedisDrops \/ (\E e \in Envelopes : TimePasses(e))
              \/ UNCHANGED invVars
  BY <1>1, <1>5 DEF RedisDrops, TimePasses, invVars, eventVars, QuietListeners
<1> QED
  BY <1>1, <1>2, <1>3, <1>4, <1>5, StepCases DEF Aside

LEMMA AloneAfter ==
    ASSUME IInv', Calm', NEW c \in Ops, NEW d \in Ops, c # d, Running(c)', Running(d)'
    PROVE  home'[c] # home'[d] /\ kind'[c] \in Writes /\ kind'[d] \in Writes
<1>1. Overlap(c, d)'
  BY DEF Overlap, Started, Running, IInv, Precedence
<1> QED
  BY <1>1 DEF Calm

LEMMA StartAgrees ==
    ASSUME IInv, IInv', Begins, Calm', NEW d \in Ops, Start(d),
           NEW c \in Ops, CallAgrees(c), Running(c)'
    PROVE  CallAgrees(c)'
<1> USE DEF IInv, InvTypeOK
<1>a. PICK i \in Instances, k \in Kinds, p \in Firsts : StartsAs(d, i, k, p)
  BY StartMoves
<1>1. /\ home' = [home EXCEPT ![d] = i] /\ kind' = [kind EXCEPT ![d] = k]
      /\ at' = [at EXCEPT ![d] = p]
      /\ k \in Reads => /\ l1' = l1 \/ l1' = [l1 EXCEPT ![i] = None]
                        /\ p \in {"end", "read", "wait", "load"}
      /\ k \in Sets => l1' = [l1 EXCEPT ![i] = d] /\ p = "write"
      /\ k \in Removals => l1' = [l1 EXCEPT ![i] = None] /\ p \in {"remove", "scan"}
  BY <1>a, KindFacts DEF StartsAs
<1>2. at[d] = "idle" /\ UNCHANGED <<l2, reply, untold>>
  BY StartMoves
<1>3. home'[d] = i /\ kind'[d] = k /\ at'[d] = p /\ (k \in Reads \/ k \in Sets \/ k \in Removals)
  BY <1>a, <1>1 DEF StartsAs
<1>4. CASE c = d
  <2>1. CASE k \in Reads
    <3>1. reply'[d] = Unread
      BY <1>2 DEF Begins
    <3> QED
      BY <1>1, <1>3, <1>4, <2>1, <3>1 DEF CallAgrees
  <2>2. CASE k \in Sets
    BY <1>1, <1>3, <1>4, <2>2 DEF CallAgrees
  <2>3. CASE k \in Removals
    BY <1>1, <1>3, <1>4, <2>3 DEF CallAgrees
  <2> QED
    BY <1>3, <2>1, <2>2, <2>3
<1>5. CASE c # d
  <2>1. at'[c] = at[c] /\ kind'[c] = kind[c] /\ home'[c] = home[c]
    BY <1>1, <1>5
  <2>2. home[c] \in Instances
    BY <2>1 DEF Running, Begins
  <2>3. l1'[home[c]] \in {l1[home[c]], None}
    <3>1. CASE k \in Reads
      BY <1>1, <2>2, <3>1
    <3>2. CASE k \in Sets \/ k \in Removals
      <4>1. at'[d] \notin {"idle", "end"}
        BY <1>1, <1>3, <3>2
      <4>2. home[c] # i
        BY <1>3, <1>5, <2>1, <4>1, AloneAfter DEF Running
      <4> QED
        BY <1>1, <2>2, <3>2, <4>2
    <3> QED
      BY <1>3, <3>1, <3>2
  <2> QED
    BY <1>2, <2>1, <2>3 DEF CallAgrees
<1> QED
  BY <1>4, <1>5

\* A read or a load runs alone, and reads what Redis has or loses unannounced.
LEMMA ReadAgrees ==
    ASSUME IInv, Begins, Calm, NEW d \in Ops,
           Read(d) \/ Resume(d) \/ Poll(d) \/ LoaderReturns(d) \/ Purge(d), ~CommandFails(d),
           NEW c \in Ops, Running(c)'
    PROVE  CallAgrees(c)'
<1> USE DEF IInv, InvTypeOK
<1>1. Running(d) /\ kind[d] \notin Writes
  BY DEF Read, Resume, Poll, LoaderReturns, Purge, Running, Precedence
<1>2. CASE c # d
  <2>1. at'[c] = at[c]
    BY <1>2, RunMoves DEF Continues
  <2> QED
    BY <1>1, <1>2, <2>1, Alone DEF Running
<1>3. CASE c = d
  <2>1. CASE Read(d)
    <3>1. /\ at[d] \in {"read", "poll"} /\ at' = at /\ reply' = [reply EXCEPT ![d] = l2]
          /\ l2' = l2
      BY <2>1 DEF Read, dataVars
    <3> QED
      BY <1>3, <3>1 DEF CallAgrees
  <2>2. CASE Resume(d) \/ Purge(d)
    <3>1. at'[d] \in {"end", "purge", "wait", "load"}
      BY <2>2 DEF Resume, Hits, Purge, Misses, BeginsToLoad, Goes
    <3> QED
      BY <1>3, <3>1 DEF CallAgrees
  <2>3. CASE Poll(d)
    <3>1. at'[d] = "end" \/ (at'[d] = "poll" /\ reply'[d] = Unread)
      BY <2>3 DEF Poll, Goes
    <3> QED
      BY <1>3, <3>1 DEF CallAgrees
  <2>4. CASE LoaderReturns(d)
    <3>1. at'[d] = "write" /\ at[d] = "load" /\ home' = home
      BY <2>4 DEF LoaderReturns, Goes
    <3>2. l1'[home[d]] = d
      BY <2>4, <3>1 DEF LoaderReturns, Begins
    <3> QED
      BY <1>3, <3>1, <3>2 DEF CallAgrees
  <2> QED
    BY <2>1, <2>2, <2>3, <2>4
<1> QED
  BY <1>2, <1>3

LEMMA WriteAgrees ==
    ASSUME IInv, Begins, Calm, NEW d \in Ops,
           ~CommandFails(d),
           \/ Write(d) \/ Remove(d) \/ Scan(d) \/ DeleteFound(d) \/ Publish(d) \/ PublishRest(d),
           NEW c \in Ops, CallAgrees(c), Running(c)'
    PROVE  CallAgrees(c)'
<1> USE DEF IInv, InvTypeOK
<1>1. Running(d) /\ kind' = kind /\ home' = home /\ reply' = reply /\ l1' = l1
  BY DEF Write, Remove, Scan, DeleteFound, Publish, PublishRest, Running, dataVars
<1>2. CASE c # d
  <2>1. at'[c] = at[c]
    BY <1>2, RunMoves DEF Continues
  <2>2. Running(c)
    BY <2>1 DEF Running
  <2>3. kind[c] \in Writes
    BY <1>1, <1>2, <2>2, Alone
  <2>4. at[c] \notin {"read", "poll"}
    BY <2>3 DEF Precedence
  <2> QED
    BY <1>1, <2>1, <2>4 DEF CallAgrees
<1>3. CASE c = d
  <2>1. /\ at'[d] \in {"scan", "delete", "publish", "rest", "end"}
        /\ at'[d] \in {"scan", "delete"} => at[d] \in {"scan", "delete"}
    BY DEF Write, Remove, Scan, DeleteFound, Publish, PublishRest, RemovalFails, Goes
  <2> QED
    BY <1>1, <1>3, <2>1 DEF CallAgrees
<1> QED
  BY <1>2, <1>3

LEMMA CallsAgreeStep ==
    ASSUME IInv, SInv, CInv, [InvNext]_invVars, Calm'
    PROVE  CallsAgree'
<1> SUFFICES ASSUME NEW c \in Ops PROVE CallAgrees(c)'
  BY DEF CallsAgree
<1>1. /\ Begins /\ IInv' /\ Calm /\ QuietListeners /\ CallsAgree
      /\ \A d \in Ops : ~CommandFails(d)
      /\ \A i \in Instances : ~ListenerFails(i)
  BY IStepInv, CalmBefore DEF SInv, CInv
<1>2. CallAgrees(c) /\ \A d \in Ops : CallAgrees(d)
  BY <1>1 DEF CallsAgree
<1>3. CASE ~Running(c)'
  BY <1>3 DEF CallAgrees, Running
<1>4. CASE Running(c)'
  <2>1. ASSUME NEW d \in Ops, Start(d) PROVE CallAgrees(c)'
    BY <1>1, <1>2, <1>4, <2>1, StartAgrees
  <2>2. ASSUME NEW d \in Ops, Read(d) \/ Resume(d) \/ Poll(d) \/ LoaderReturns(d) \/ Purge(d)
        PROVE  CallAgrees(c)'
    BY <1>1, <1>4, <2>2, ReadAgrees
  <2>3. ASSUME NEW d \in Ops,
               \/ Write(d) \/ Remove(d) \/ Scan(d) \/ DeleteFound(d) \/ Publish(d) \/ PublishRest(d)
        PROVE  CallAgrees(c)'
    BY <1>1, <1>2, <1>4, <2>3, WriteAgrees
  <2>4. ASSUME NEW i \in Instances, Handle(i) PROVE CallAgrees(c)'
    <3>1. /\ UNCHANGED <<l2, kind, home, at, reply, untold>>
          /\ l1' = l1 \/ l1' = [l1 EXCEPT ![i] = None]
      BY <2>4 DEF Handle, callVars, timeVars
    <3>2. home[c] \in Instances /\ l1'[home[c]] \in {l1[home[c]], None}
      BY <1>1, <1>4, <3>1 DEF Running, Begins, IInv, InvTypeOK
    <3> QED
      BY <1>2, <3>1, <3>2 DEF CallAgrees
  <2>5. ASSUME NEW i \in Instances, HandlePrefix(i) PROVE FALSE
    BY <1>1, <2>5 DEF HandlePrefix, QuietListeners
  <2>6. CASE RedisDrops \/ (\E e \in Envelopes : TimePasses(e)) \/ UNCHANGED invVars
    <3>1. UNCHANGED <<l1, home, at, reply>>
      BY <2>6 DEF RedisDrops, TimePasses, invVars, callVars, dataVars
    <3>2. {None, l2} \cup untold \subseteq {None, l2'} \cup untold'
      BY <2>6 DEF RedisDrops, LeavesUntold, TimePasses, invVars, dataVars, timeVars
    <3> QED
      BY <1>2, <3>1, <3>2 DEF CallAgrees
  <2> QED
    BY <1>1, <2>1, <2>2, <2>3, <2>4, <2>5, <2>6, StepCases DEF Continues, Aside
<1> QED
  BY <1>3, <1>4

\* The event of another instance stays on its way when Redis appends to the inbox.
LEMMA AnnouncedStays ==
    ASSUME IInv, Inboxes, [InvNext]_invVars, NEW i \in Instances, Announced(i),
           inbox'[i] = inbox[i] \/ \E c \in Ops : inbox'[i] = Append(inbox[i], c)
    PROVE  Announced(i)'
<1> USE DEF IInv, InvTypeOK
<1>1. PICK n \in DOMAIN inbox[i] : home[inbox[i][n]] # i
  BY DEF Announced
<1>2. inbox[i] \in Seq(Ops) /\ inbox[i][n] \in Ops
  OBVIOUS
<1>3. n \in DOMAIN inbox'[i] /\ inbox'[i][n] = inbox[i][n]
  <2>1. ASSUME NEW c \in Ops
        PROVE  n \in DOMAIN Append(inbox[i], c) /\ Append(inbox[i], c)[n] = inbox[i][n]
    BY <1>1, <1>2
  <2> QED
    BY <1>1, <2>1
<1>4. home'[inbox[i][n]] = home[inbox[i][n]]
  BY <1>2, PastStays DEF Inboxes
<1> QED
  BY <1>1, <1>3, <1>4 DEF Announced

\* An L1 goes on agreeing if a step leaves it, its events and the calls that have yet to
\* publish alone.
LEMMA AgreesStays ==
    ASSUME NEW i \in Instances, Agrees(i), l1'[i] = l1[i],
           l2' = l2 \/ l1[i] = None \/ l2 \in untold', untold \subseteq untold',
           Announced(i) => Announced(i)',
           \A c \in Ops : Working(c) =>
               \/ at'[c] = at[c] /\ kind'[c] = kind[c] /\ home'[c] = home[c]
               \/ at[c] = "publish" /\ home[c] = i
    PROVE  Agrees(i)'
<1>1. CASE l1[i] \in {None, l2} \cup untold \/ Announced(i)
  BY <1>1 DEF Agrees
<1>2. ASSUME NEW c \in Ops, Working(c), kind[c] \in Writes, home[c] # i PROVE Agrees(i)'
  <2>1. at'[c] = at[c] /\ kind'[c] = kind[c] /\ home'[c] = home[c]
    BY <1>2
  <2> QED
    BY <1>2, <2>1 DEF Agrees, Working
<1>3. ASSUME NEW c \in Ops, at[c] = "write", home[c] = i, l1[i] = c PROVE Agrees(i)'
  <2>1. at'[c] = at[c] /\ home'[c] = home[c]
    BY <1>3 DEF Working
  <2> QED
    BY <1>3, <2>1 DEF Agrees
<1> QED
  BY <1>1, <1>2, <1>3 DEF Agrees

LEMMA StartKeepsAgreement ==
    ASSUME IInv, Inboxes, [InvNext]_invVars, NEW i \in Instances, Agrees(i),
           NEW d \in Ops, Start(d)
    PROVE  Agrees(i)'
<1> USE DEF IInv, InvTypeOK
<1>1. PICK j \in Instances, k \in Kinds, p \in Firsts : StartsAs(d, j, k, p)
  BY StartMoves
<1>2. at[d] = "idle" /\ UNCHANGED <<l2, inbox, untold>>
  BY StartMoves
<1>3. CASE l1'[i] = l1[i]
  <2>1. \A c \in Ops : Working(c) => at'[c] = at[c] /\ kind'[c] = kind[c] /\ home'[c] = home[c]
    BY <1>1, <1>2 DEF StartsAs, Working
  <2>2. Announced(i) => Announced(i)'
    BY <1>2, AnnouncedStays
  <2> QED
    BY <1>2, <1>3, <2>1, <2>2, AgreesStays
<1>4. CASE l1'[i] # l1[i]
  <2>1. \/ l1'[i] = None
        \/ i = j /\ l1'[i] = d /\ p = "write"
    BY <1>1, <1>4 DEF StartsAs
  <2>2. at'[d] = p /\ home'[d] = j
    BY <1>1 DEF StartsAs
  <2> QED
    BY <2>1, <2>2 DEF Agrees
<1> QED
  BY <1>3, <1>4

LEMMA ReadKeepsAgreement ==
    ASSUME IInv, Begins, Inboxes, [InvNext]_invVars, NEW i \in Instances, Agrees(i),
           NEW d \in Ops, Read(d) \/ Resume(d) \/ Poll(d) \/ LoaderReturns(d) \/ Purge(d),
           CallAgrees(d), ~CommandFails(d)
    PROVE  Agrees(i)'
<1> USE DEF IInv, InvTypeOK
<1>1. /\ at[d] \in {"read", "poll", "wait", "load", "purge"} /\ home[d] \in Instances
      /\ UNCHANGED <<kind, home, inbox>>
      /\ \A c \in Ops \ {d} : at'[c] = at[c]
  BY RunMoves DEF Continues, Read, Resume, Poll, LoaderReturns, Purge, Begins, eventVars
<1>2. CASE l1'[i] = l1[i]
  <2>1. \A c \in Ops : Working(c) => at'[c] = at[c] /\ kind'[c] = kind[c] /\ home'[c] = home[c]
    BY <1>1 DEF Working
  <2>2. Announced(i) => Announced(i)'
    BY <1>1, AnnouncedStays
  <2>3. l2' = l2 \/ l2 \in untold'
    BY DEF Read, Resume, Poll, LoaderReturns, Purge, LeavesUntold, dataVars
  <2> QED
    BY <1>2, <2>1, <2>2, <2>3, FailuresGrow, AgreesStays
<1>3. CASE l1'[i] # l1[i]
  <2>1. CASE Read(d) \/ Purge(d)
    BY <1>3, <2>1 DEF Read, Purge, dataVars
  <2>2. CASE Resume(d)
    <3>1. /\ l1'[i] = reply[d] /\ at[d] \in {"read", "poll"} /\ reply[d] # Unread
          /\ UNCHANGED <<l2, untold>>
      BY <1>1, <1>3, <2>2 DEF Resume, Hits, timeVars
    <3> QED
      BY <3>1 DEF CallAgrees, Agrees
  <2>3. CASE Poll(d)
    <3>1. l1'[i] = None
      BY <1>3, <2>3 DEF Poll
    <3> QED
      BY <3>1 DEF Agrees
  <2>4. CASE LoaderReturns(d)
    <3>1. i = home[d] /\ l1'[i] = d
      BY <1>1, <1>3, <2>4 DEF LoaderReturns
    <3>2. at'[d] = "write"
      BY <2>4 DEF LoaderReturns, Goes
    <3> QED
      BY <1>1, <3>1, <3>2 DEF Agrees
  <2> QED
    BY <2>1, <2>2, <2>3, <2>4
<1> QED
  BY <1>2, <1>3

LEMMA WriteKeepsAgreement ==
    ASSUME IInv, Begins, Inboxes, Calm, [InvNext]_invVars, NEW i \in Instances, Agrees(i),
           NEW d \in Ops, Write(d), CallAgrees(d), ~CommandFails(d)
    PROVE  Agrees(i)'
<1> USE DEF IInv, InvTypeOK
<1>1. /\ at[d] = "write" /\ l2' = d /\ UNCHANGED <<l1, kind, home, inbox>>
      /\ Goes(d, IF kind[d] \in Sets THEN "publish" ELSE "end")
  BY DEF Write, eventVars
<1>2. CASE i = home[d]
  BY <1>1, <1>2 DEF CallAgrees, Agrees
<1>3. CASE i # home[d] /\ kind[d] \in Sets
  <2>1. at'[d] = "publish"
    BY <1>1, <1>3 DEF Goes
  <2> QED
    BY <1>1, <1>3, <2>1, KindFacts DEF Agrees, Working
<1>4. CASE i # home[d] /\ kind[d] \notin Sets
  <2>1. l2 \in untold' \cup {None, d} /\ untold \subseteq untold'
    BY <1>1, <1>4 DEF Write, LeavesUntold
  <2>2. kind[d] \notin Writes
    BY <1>1, <1>4 DEF Begins, Writes
  <2>3. ASSUME NEW c \in Ops, Working(c) PROVE c = d
    BY <1>1, <2>2, <2>3, Alone DEF Working, Running
  <2>4. l1[i] \in {None, l2} \cup untold \/ Announced(i)
    BY <1>4, <2>2, <2>3 DEF Agrees, Working
  <2>5. Announced(i) => Announced(i)'
    BY <1>1, AnnouncedStays
  <2> QED
    BY <1>1, <2>1, <2>4, <2>5 DEF Agrees
<1> QED
  BY <1>2, <1>3, <1>4

\* A removal has emptied its own L1 and has yet to tell the others.
LEMMA RemovalKeepsAgreement ==
    ASSUME IInv, NEW i \in Instances, NEW d \in Ops, Remove(d) \/ Scan(d) \/ DeleteFound(d),
           CallAgrees(d), ~CommandFails(d)
    PROVE  Agrees(i)'
<1> USE DEF IInv, InvTypeOK
<1>1. /\ at[d] \in {"remove", "scan", "delete"} /\ UNCHANGED <<l1, kind, home>>
      /\ at'[d] \in {"scan", "delete", "publish"}
  BY DEF Remove, Scan, DeleteFound, RemovalFails, Goes, dataVars
<1>2. CASE i = home[d]
  BY <1>1, <1>2 DEF CallAgrees, Agrees
<1>3. CASE i # home[d]
  BY <1>1, <1>3, KindFacts DEF Precedence, Agrees, Working
<1> QED
  BY <1>2, <1>3

LEMMA PublishKeepsAgreement ==
    ASSUME IInv, Inboxes, QuietListeners, [InvNext]_invVars, NEW i \in Instances, Agrees(i),
           NEW d \in Ops, Publish(d), ~CommandFails(d)
    PROVE  Agrees(i)'
<1> USE DEF IInv, InvTypeOK
<1>1. /\ at[d] = "publish" /\ UNCHANGED <<l1, l2, kind, home, untold>>
      /\ \A c \in Ops \ {d} : at'[c] = at[c]
      /\ inbox'[i] = Append(inbox[i], d)
  <2>1. Sent(d)
    BY DEF Publish
  <2>2. inbox'[i] = Append(inbox[i], d)
    BY <2>1 DEF Sent, QuietListeners
  <2> QED
    BY <2>2 DEF Publish, Goes, dataVars, timeVars
<1>2. CASE i # home[d]
  <2>1. inbox[i] \in Seq(Ops)
    OBVIOUS
  <2>2. /\ Len(inbox[i]) + 1 \in DOMAIN Append(inbox[i], d)
        /\ Append(inbox[i], d)[Len(inbox[i]) + 1] = d
    BY <2>1
  <2> QED
    BY <1>1, <1>2, <2>2 DEF Announced, Agrees
<1>3. CASE i = home[d]
  <2>1. Announced(i) => Announced(i)'
    BY <1>1, AnnouncedStays
  <2>2. \A c \in Ops : Working(c) =>
            \/ at'[c] = at[c] /\ kind'[c] = kind[c] /\ home'[c] = home[c]
            \/ at[c] = "publish" /\ home[c] = i
    BY <1>1, <1>3
  <2> QED
    BY <1>1, <2>1, <2>2, AgreesStays
<1> QED
  BY <1>2, <1>3

LEMMA HandleKeepsAgreement ==
    ASSUME IInv, Inboxes, [InvNext]_invVars, NEW i \in Instances, Agrees(i),
           NEW j \in Instances, Handle(j)
    PROVE  Agrees(i)'
<1> USE DEF IInv, InvTypeOK
<1>1. /\ UNCHANGED <<l2, kind, home, at, untold>> /\ inbox[j] # <<>>
      /\ inbox' = [inbox EXCEPT ![j] = Tail(inbox[j])]
  BY DEF Handle, callVars, timeVars
<1>2. inbox[j] \in Seq(Ops) /\ Head(inbox[j]) \in Ops /\ Head(inbox[j]) = inbox[j][1]
  BY <1>1
<1>3. l1'[j] = None \/ (l1' = l1 /\ home[Head(inbox[j])] = j)
  BY DEF Handle, Ignores
<1>4. CASE i = j
  <2>1. CASE l1'[j] = None
    BY <1>4, <2>1 DEF Agrees
  <2>2. CASE l1' = l1 /\ home[Head(inbox[j])] = j
    <3>1. ASSUME Announced(i) PROVE Announced(i)'
      <4>1. PICK n \in DOMAIN inbox[i] : home[inbox[i][n]] # i
        BY <3>1 DEF Announced
      <4>2. n # 1
        BY <1>2, <1>4, <2>2, <4>1
      <4>3. n - 1 \in DOMAIN Tail(inbox[i]) /\ Tail(inbox[i])[n - 1] = inbox[i][n]
        BY <1>1, <1>2, <1>4, <4>2
      <4>4. inbox'[i] = Tail(inbox[i])
        BY <1>1, <1>4
      <4> QED
        BY <1>1, <4>1, <4>3, <4>4 DEF Announced
    <3> QED
      BY <1>1, <2>2, <3>1, AgreesStays
  <2> QED
    BY <1>3, <2>1, <2>2
<1>5. CASE i # j
  <2>1. l1'[i] = l1[i]
    BY <1>5 DEF Handle
  <2>2. inbox'[i] = inbox[i]
    BY <1>1, <1>5
  <2>3. Announced(i) => Announced(i)'
    BY <2>2, AnnouncedStays
  <2> QED
    BY <1>1, <2>1, <2>3, AgreesStays
<1> QED
  BY <1>4, <1>5

\* The end of an envelope's time, and the entry that Redis drops.
LEMMA DropKeepsAgreement ==
    ASSUME IInv, Inboxes, [InvNext]_invVars, NEW i \in Instances, Agrees(i),
           \/ RedisDrops \/ (\E e \in Envelopes : TimePasses(e)) \/ UNCHANGED invVars
    PROVE  Agrees(i)'
<1>1. UNCHANGED <<kind, home, at, inbox>> /\ l1'[i] = l1[i]
  BY DEF RedisDrops, TimePasses, invVars, dataVars, callVars, eventVars, IInv, InvTypeOK
<1>2. l2' = l2 \/ l2 \in untold'
  BY DEF RedisDrops, LeavesUntold, TimePasses, invVars, dataVars
<1>3. Announced(i) => Announced(i)'
  BY <1>1, AnnouncedStays
<1> QED
  BY <1>1, <1>2, <1>3, FailuresGrow, AgreesStays

LEMMA CStepInv == IInv /\ VInv /\ SInv /\ CInv /\ [InvNext]_invVars => CInv'
<1> SUFFICES ASSUME IInv, VInv, SInv, CInv, [InvNext]_invVars, Calm'
             PROVE  QuietListeners' /\ CallsAgree' /\ \A i \in Instances : Agrees(i)'
  BY DEF CInv
<1>1. /\ Begins /\ Inboxes /\ Calm /\ QuietListeners
      /\ \A d \in Ops : ~CommandFails(d) /\ CallAgrees(d)
      /\ \A i \in Instances : ~ListenerFails(i) /\ Agrees(i)
  BY CalmBefore DEF SInv, VInv, CInv, CallsAgree
<1>2. ASSUME NEW i \in Instances PROVE Agrees(i)'
  <2>1. ASSUME NEW d \in Ops, Start(d) PROVE Agrees(i)'
    BY <1>1, <2>1, StartKeepsAgreement
  <2>2. ASSUME NEW d \in Ops, Read(d) \/ Resume(d) \/ Poll(d) \/ LoaderReturns(d) \/ Purge(d)
        PROVE  Agrees(i)'
    BY <1>1, <2>2, ReadKeepsAgreement
  <2>3. ASSUME NEW d \in Ops, Write(d) PROVE Agrees(i)'
    BY <1>1, <2>3, WriteKeepsAgreement
  <2>4. ASSUME NEW d \in Ops, Remove(d) \/ Scan(d) \/ DeleteFound(d) PROVE Agrees(i)'
    BY <1>1, <2>4, RemovalKeepsAgreement
  <2>5. ASSUME NEW d \in Ops, Publish(d) PROVE Agrees(i)'
    BY <1>1, <2>5, PublishKeepsAgreement
  <2>6. ASSUME NEW d \in Ops, PublishRest(d) PROVE Agrees(i)'
    <3>1. at[d] = "rest" /\ UNCHANGED <<l1, l2, kind, home, inbox, untold>>
      BY <2>6 DEF PublishRest, dataVars, eventVars, timeVars
    <3>2. \A c \in Ops : Working(c) => at'[c] = at[c]
      BY <2>6, <3>1 DEF PublishRest, Goes, Working, IInv, InvTypeOK
    <3>3. Announced(i) => Announced(i)'
      BY <1>1, <3>1, AnnouncedStays
    <3> QED
      BY <1>1, <3>1, <3>2, <3>3, AgreesStays
  <2>7. ASSUME NEW j \in Instances, Handle(j) PROVE Agrees(i)'
    BY <1>1, <2>7, HandleKeepsAgreement
  <2>8. ASSUME NEW j \in Instances, HandlePrefix(j) PROVE FALSE
    BY <1>1, <2>8 DEF HandlePrefix, QuietListeners
  <2>9. CASE \/ RedisDrops \/ (\E e \in Envelopes : TimePasses(e)) \/ UNCHANGED invVars
    BY <1>1, <2>9, DropKeepsAgreement
  <2> QED
    BY <1>1, <2>1, <2>2, <2>3, <2>4, <2>5, <2>6, <2>7, <2>8, <2>9, StepCases DEF Continues, Aside
<1>3. QuietListeners'
  BY <1>1, QuietListenersStep
<1>4. CallsAgree'
  BY CallsAgreeStep
<1> QED
  BY <1>2, <1>3, <1>4

-----------------------------------------------------------------------------
\* The theorems

\* Every variable of the instances, calls and listeners keeps its kind.
THEOREM InvTypeCorrect == InvSpec => []InvTypeOK
<1>1. IInv => InvTypeOK
  BY DEF IInv
<1> QED
  BY <1>1, IInitInv, IStepInv, PTL DEF InvSpec

\* Once a set, delete, delete_prefix or clear returned, Redis never again holds what
\* was there before it, however many calls, instances and failures there are.
THEOREM InvRedisNeverGoesBack == InvSpec => []RedisNeverGoesBack
<1>1. IInv => RedisNeverGoesBack
  BY DEF IInv, Settles, Done, RedisNeverGoesBack, Supersedes, Ended
<1> QED
  BY <1>1, IInitInv, IStepInv, PTL DEF InvSpec

\* What a set, a load or a refresh stored leaves Redis only by a removal that overlapped
\* it or followed, by a listener that repeats a prefix deletion, at the end of its time or
\* of that of what replaced it, or by an overlapping get that found an older one expired.
THEOREM InvVanishesWithACause == InvSpec => []VanishesWithACause
<1>1. VInv => VanishesWithACause
  BY DEF VInv, Covered, VanishesWithACause, Stored, Ended, Put, Cause
<1> QED
  BY <1>1, IInitInv, IStepInv, VInitInv, VStepInv, PTL DEF InvSpec

\* An instance that handled the event of a write has nothing older in its L1 but what a
\* read that was under way during the write brought back.
THEOREM InvStaleHasACause == InvSpec => []StaleHasACause
<1>1. SInv => StaleHasACause
  BY DEF SInv, L1Settles, StaleHasACause, Supersedes, Ended, Reached, Older
<1> QED
  BY <1>1, IInitInv, IStepInv, VInitInv, VStepInv, SInitInv, SStepInv, PTL DEF InvSpec

\* A read finds nothing older than a write that returned before on its instance but what
\* a read that was under way during the write brought back.
THEOREM InvReadYourWrites == InvSpec => []ReadYourWrites
<1>1. SInv => ReadYourWrites
  BY DEF SInv, AnswersSettle, ReadYourWrites, Supersedes, Older
<1> QED
  BY <1>1, IInitInv, IStepInv, VInitInv, VStepInv, SInitInv, SStepInv, PTL DEF InvSpec

\* When all is quiet and nothing failed, sets, deletes and clears that overlapped on
\* different instances at most have made every L1 agree with Redis, but for an envelope
\* that expired there, was deleted as expired, or was replaced by a load or a refresh.
THEOREM InvCoherentWhenSettled == InvSpec => []CoherentWhenSettled
<1>1. IInv /\ CInv => CoherentWhenSettled
  <2> SUFFICES ASSUME IInv, CInv, Calm, Settled, NEW i \in Instances
               PROVE  l1[i] \in {None, l2} \/ l1[i] \in untold
    BY DEF CoherentWhenSettled, Calm
  <2>1. Agrees(i) /\ ~Announced(i) /\ \A c \in Ops : ~Working(c) /\ at[c] # "write"
    BY DEF CInv, Settled, Announced, Working
  <2> QED
    BY <2>1 DEF Agrees
<1> QED
  BY <1>1, IInitInv, IStepInv, VInitInv, VStepInv, SInitInv, SStepInv, CInitInv, CStepInv, PTL
     DEF InvSpec

=============================================================================
