---------------------------- MODULE ExpiryProofs ----------------------------
(***************************************************************************)
(* What Expiry promises, for any number of instances and calls, any clock  *)
(* differences, any policies and any second.                               *)
(*                                                                         *)
(* The invariant follows an envelope on its way: what was granted when it  *)
(* was built bounds the expiry of every copy, and the seconds a SET was    *)
(* sent with are those its envelope had left then, so that the deadline    *)
(* and the expiry agree when the SET is executed, however late that is.    *)
(***************************************************************************)
EXTENDS Expiry, TLAPS

\* An envelope does not outlive what was granted for it.
Within(e) == e.until # None => e.hard # None /\ HardExpiry(e) <= e.until

CallStates ==
    [stage : Stages, env : Envelopes \cup {None}, ex : Nat \cup {None}, since : Nat,
     waited : Nat, seen : SUBSET Calls]

\* The expiry that a SET carries is what its envelope had left when it was sent.
SentWithWhatIsLeft(r) ==
    LET left == HardExpiry(r.env) - r.since IN
    /\ r.ex = None <=> r.env.hard = None
    /\ r.ex = 0 => left < Second
    /\ r.ex # None /\ r.ex # 0 => r.ex * Second <= left /\ left < r.ex * Second + Second

\* A call c in state r: it has an envelope while it needs one, that does not outlive its
\* grant and was not gone when it was taken; what a GET found had not passed the deadline
\* of Redis then.
CallInv(c, r) ==
    /\ r.env = None => r.stage \notin {"write", "set", "reply", "peeked"}
    /\ r.env # None => Within(r.env)
    /\ r.stage \in {"idle", "get", "peek"} => r.env = None
    /\ r.stage \in {"write", "set", "peeked"} => r.env.id \notin r.seen
    /\ r.stage = "write" => r.env.by = Owner[c]
    /\ r.stage = "set" => SentWithWhatIsLeft(r)
    /\ r.stage = "reply" /\ r.env.hard # None => r.since - r.waited < HardExpiry(r.env)
    /\ r.stage = "del" /\ r.env # None => r.waited + Offset[Owner[c]] > Offset[r.env.by]

\* An entry of Redis.
EntryInv(entry) ==
    /\ Within(entry.env)
    /\ entry.env.id \notin entry.seen
    /\ entry.deadline = None <=> entry.env.hard = None
    /\ entry.deadline # None =>
           /\ entry.deadline - entry.late <= HardExpiry(entry.env)
           /\ HardExpiry(entry.env) < entry.deadline - entry.late + Second

\* A value is in Redis or gone only when its call was made, and never both.
Made(c) == ~At(c, "idle")

ValuesInv ==
    /\ \A c \in gone : Made(c)
    /\ \A c \in Calls : call[c].env # None => Made(call[c].env.id)
    /\ \A i \in Instances : l1[i] # None => Made(l1[i].id)
    /\ l2 # None => Made(l2.env.id) /\ l2.env.id \notin gone

ExInv ==
    /\ ExTypeOK
    /\ \A c \in Calls : CallInv(c, call[c]) /\ call[c].since <= now
    /\ \A i \in Instances : l1[i] # None => Within(l1[i])
    /\ l2 # None => EntryInv(l2)
    /\ ValuesInv

-----------------------------------------------------------------------------

LEMMA Products == \A a, b \in Nat : a * b \in Nat
OBVIOUS

\* int() of what is left takes away less than a second.
LEMMA Truncation ==
    ASSUME NEW x \in Nat
    PROVE  /\ x \div Second \in Nat
           /\ (x \div Second) * Second <= x
           /\ x < (x \div Second) * Second + Second
BY ClockAssumption

\* What is left of an envelope, by the true time.
LEMMA WhatIsLeft ==
    ASSUME ExTypeOK, NEW e \in Envelopes
    PROVE  LET r == Remaining(e, e.by)
               left == HardExpiry(e) - now IN
           /\ r \in Nat \cup {None}
           /\ r = None <=> e.hard = None
           /\ r = 0 => left < Second
           /\ r # None /\ r # 0 => r * Second <= left /\ left < r * Second + Second
<1>1. now \in Nat /\ Offset[e.by] \in Nat /\ e.hard \in Nat \cup {None} /\ None \notin Int
  BY ClockAssumption, PolicyAssumption DEF ExTypeOK, Envelopes
<1>2. CASE e.hard = None
  BY <1>1, <1>2 DEF Remaining
<1>3. CASE e.hard # None /\ now + Offset[e.by] >= e.hard
  BY <1>1, <1>3, ClockAssumption DEF Remaining, Expired, Clock, HardExpiry
<1>4. CASE e.hard # None /\ ~(now + Offset[e.by] >= e.hard)
  <2> DEFINE x == e.hard - (now + Offset[e.by])
  <2>1. x \in Nat /\ HardExpiry(e) - now = x
    BY <1>1, <1>4 DEF HardExpiry
  <2>2. Remaining(e, e.by) = x \div Second
    BY <1>4 DEF Remaining, Expired, Clock
  <2>3. /\ x \div Second \in Nat
        /\ (x \div Second) * Second <= x
        /\ x < (x \div Second) * Second + Second
    BY <2>1, Truncation
  <2> HIDE DEF x
  <2> QED
    BY <1>1, <1>4, <2>1, <2>2, <2>3, ClockAssumption
<1> QED
  BY <1>2, <1>3, <1>4

\* The longest lifetime is an upper bound, and there is none only if nothing expires.
LEMMA GrantedBounds ==
    ASSUME NEW S \in Resolved, NEW lifetime \in S
    PROVE  /\ lifetime \in Nat \cup {None}
           /\ Granted(S) \in Nat \cup {None}
           /\ Granted(S) # None => lifetime # None /\ lifetime <= Granted(S)
<1>1. CASE S = {None}
  BY <1>1 DEF Granted
<1>2. ASSUME NEW a \in Nat, NEW b \in Nat, S = a .. (a + b) PROVE Granted(S) = a + b
  <2>1. None \notin S
    BY <1>2, PolicyAssumption
  <2>2. a + b \in S /\ \A u \in S : u <= a + b
    BY <1>2
  <2>3. PICK t \in S : t = Granted(S) /\ \A u \in S : u <= t
    BY <2>1, <2>2 DEF Granted
  <2> QED
    BY <1>2, <2>2, <2>3
<1>3. S = {None} \/ \E a, b \in Nat : S = a .. (a + b)
  <2>1. ASSUME NEW p \in Policies, S = NullLifetimes(p)
        PROVE  \E a, b \in Nat : S = a .. (a + b)
    <3> DEFINE n == Given(p.nullTtl, Config.nullTtl)
    <3>1. S = {n} /\ n \in Nat
      BY <2>1, PolicyAssumption DEF NullLifetimes, Given
    <3> HIDE DEF n
    <3>2. {n} = n .. (n + 0)
      BY <3>1
    <3> QED
      BY <3>1, <3>2
  <2>2. ASSUME NEW ttl \in CallTtls, NEW p \in Policies, S = Lifetimes(ttl, p)
        PROVE  S = {None} \/ \E a, b \in Nat : S = a .. (a + b)
    <3> DEFINE base == Given(ttl, Given(p.ttl, Config.ttl))
               j == Given(p.jitter, Config.jitter)
    <3>1. base \in Nat \cup {None} /\ j \in Nat
      BY PolicyAssumption DEF Given
    <3>2. S = IF base = None THEN {None} ELSE base .. (base + j)
      BY <2>2 DEF Lifetimes
    <3> HIDE DEF base, j
    <3> QED
      BY <3>1, <3>2
  <2> QED
    BY <2>1, <2>2 DEF Resolved
<1>4. ASSUME NEW a \in Nat, NEW b \in Nat, S = a .. (a + b)
      PROVE  /\ lifetime \in Nat /\ Granted(S) \in Nat /\ lifetime <= Granted(S)
             /\ lifetime # None
  BY <1>2, <1>4, PolicyAssumption
<1> QED
  BY <1>1, <1>3, <1>4

-----------------------------------------------------------------------------

\* What a step of a call has to show: that the new state of the call, the envelope that
\* it may put into its L1, and what it leaves in Redis are in order.
LEMMA CallStep ==
    ASSUME ExInv, NEW c \in Calls, NEW r \in CallStates,
           call' = [call EXCEPT ![c] = r], r.stage # "idle",
           CallInv(c, r), r.since <= now,
           r.env # None => Made(r.env.id) \/ r.env.id = c,
           now' = now,
           l1' \in [Instances -> Envelopes \cup {None}],
           \A i \in Instances :
               l1'[i] # None => Within(l1'[i]) /\ (Made(l1'[i].id) \/ l1'[i].id = c),
           \/ UNCHANGED <<l2, gone>>
           \/ Holds(None)
           \/ /\ l2' \in Entries /\ Holds(l2') /\ EntryInv(l2')
              /\ Made(l2'.env.id)
              /\ l2'.deadline # None => now < l2'.deadline
    PROVE  ExInv'
<1> USE PolicyAssumption
<1>1. /\ call'[c] = r /\ \A d \in Calls : d # c => call'[d] = call[d]
      /\ call \in [Calls -> CallStates]
  BY DEF ExInv, ExTypeOK, CallStates
<1>2. \A d \in Calls : Made(d) \/ d = c => Made(d)'
  BY <1>1 DEF Made, At
<1>3. l2' \in Entries \cup {None} /\ gone' \subseteq Calls
  BY DEF ExInv, ExTypeOK, Holds, Entries, Envelopes
<1>4. l2' # None => EntryInv(l2') /\ Made(l2'.env.id) /\ l2'.env.id \notin gone'
  BY DEF ExInv, ValuesInv, Holds
<1>5. l2' # None /\ l2'.deadline # None => now' < l2'.deadline
  BY DEF ExInv, ExTypeOK, Holds
<1>6. ExTypeOK'
  <2>1. call' \in [Calls -> CallStates]
    BY <1>1
  <2>2. \A d \in Calls : call'[d].env = None =>
            call'[d].stage \notin {"write", "set", "reply", "peeked"}
    BY <1>1 DEF ExInv, CallInv
  <2>3. now' \in Nat
    BY DEF ExInv, ExTypeOK
  <2> QED
    BY <1>3, <1>5, <2>1, <2>2, <2>3 DEF ExTypeOK, CallStates
<1>7. \A d \in Calls : CallInv(d, call'[d]) /\ call'[d].since <= now'
  BY <1>1 DEF ExInv
<1>8. \A d \in gone' : Made(d)
  BY DEF ExInv, ValuesInv, Holds
<1>9. ValuesInv'
  <2> DEFINE MadeNow(d) == call'[d].stage # "idle"
  <2>1. \A d \in Calls : Made(d) \/ d = c => MadeNow(d)
    BY <1>2 DEF Made, At
  <2>2. \A d \in gone' : MadeNow(d)
    BY <1>3, <1>8, <2>1
  <2>3. ASSUME NEW d \in Calls, call'[d].env # None PROVE MadeNow(call'[d].env.id)
    <3>1. call'[d].env.id \in Calls
      BY <1>1, <2>3 DEF CallStates, Envelopes
    <3>2. Made(call'[d].env.id) \/ call'[d].env.id = c
      BY <1>1, <2>3 DEF ExInv, ValuesInv
    <3> QED
      BY <2>1, <3>1, <3>2
  <2>4. ASSUME NEW i \in Instances, l1'[i] # None PROVE MadeNow(l1'[i].id)
    <3>1. l1'[i].id \in Calls
      BY <2>4 DEF Envelopes
    <3> QED
      BY <2>1, <2>4, <3>1
  <2>5. l2' # None => MadeNow(l2'.env.id) /\ l2'.env.id \notin gone'
    BY <2>1, <1>3, <1>4 DEF Entries, Envelopes
  <2> QED
    BY <2>2, <2>3, <2>4, <2>5 DEF ValuesInv, Made, At
<1>10. l2' # None => EntryInv(l2')
  BY <1>4
<1> QED
  BY <1>6, <1>7, <1>9, <1>10 DEF ExInv, CallInv, EntryInv, Within, HardExpiry,
     SentWithWhatIsLeft

\* The state of a call, and of what it may take from the L1 or from Redis.
LEMMA Parts ==
    ASSUME ExInv, NEW c \in Calls
    PROVE  /\ call[c] \in CallStates /\ CallInv(c, call[c]) /\ call[c].since <= now
           /\ Owner[c] \in Instances /\ Offset[Owner[c]] \in Nat
           /\ now \in Nat /\ Clock(Owner[c]) \in Nat
           /\ l1[Owner[c]] \in Envelopes \cup {None}
           /\ l1[Owner[c]] # None => Within(l1[Owner[c]]) /\ Made(l1[Owner[c]].id)
           /\ call[c].env # None => call[c].env \in Envelopes /\ Made(call[c].env.id)
           /\ l2 # None => l2 \in Entries /\ EntryInv(l2) /\ Made(l2.env.id)
           /\ l2 # None => l2.env.id \notin gone
           /\ \A i \in Instances : l1[i] # None => Within(l1[i]) /\ Made(l1[i].id)
           /\ l1 \in [Instances -> Envelopes \cup {None}]
           /\ call \in [Calls -> CallStates] /\ gone \subseteq Calls
           /\ None \notin Int
<1>1. call \in [Calls -> CallStates] /\ now \in Nat /\ gone \subseteq Calls
      /\ l1 \in [Instances -> Envelopes \cup {None}] /\ l2 \in Entries \cup {None}
  BY DEF ExInv, ExTypeOK, CallStates
<1>2. Owner[c] \in Instances /\ Offset[Owner[c]] \in Nat /\ Clock(Owner[c]) \in Nat
  BY <1>1, ClockAssumption DEF Clock
<1>3. call[c] \in CallStates /\ CallInv(c, call[c]) /\ call[c].since <= now
  BY <1>1 DEF ExInv
<1>4. call[c].env # None => call[c].env \in Envelopes /\ Made(call[c].env.id)
  BY <1>3 DEF CallStates, ExInv, ValuesInv
<1>5. \A i \in Instances : l1[i] # None => Within(l1[i]) /\ Made(l1[i].id)
  BY DEF ExInv, ValuesInv
<1>6. l2 # None => EntryInv(l2) /\ Made(l2.env.id) /\ l2.env.id \notin gone
  BY DEF ExInv, ValuesInv
<1> QED
  BY <1>1, <1>2, <1>3, <1>4, <1>5, <1>6, PolicyAssumption

\* A call that is over.
LEMMA Finishing ==
    ASSUME ExInv, NEW c \in Calls, NEW stage \in Ends, Finishes(c, stage),
           now' = now,
           l1' \in [Instances -> Envelopes \cup {None}],
           \A i \in Instances : l1'[i] # None => Within(l1'[i]) /\ Made(l1'[i].id),
           \/ UNCHANGED <<l2, gone>>
           \/ Holds(None)
           \/ /\ l2' \in Entries /\ Holds(l2') /\ EntryInv(l2')
              /\ Made(l2'.env.id)
              /\ l2'.deadline # None => now < l2'.deadline
    PROVE  ExInv'
<1> DEFINE r == Blank(stage)
<1>1. r \in CallStates /\ r.stage # "idle" /\ r.env = None /\ r.stage = stage /\ r.since = 0
  BY DEF Blank, CallStates, Stages, Ends
<1>2. CallInv(c, r) /\ r.since <= now
  BY <1>1, Parts DEF CallInv, Ends
<1>3. call' = [call EXCEPT ![c] = r]
  BY DEF Finishes
<1> HIDE DEF r
<1> QED
  BY <1>1, <1>2, <1>3, CallStep

LEMMA BuildKeeps == ASSUME ExInv, NEW c \in Calls, Build(c) PROVE ExInv'
<1>0. PICK S \in Resolved : \E lifetime \in S :
          call' = [call EXCEPT ![c] =
              [Blank("write") EXCEPT !.env = Envelope(c, lifetime, Granted(S)), !.seen = gone]]
  BY DEF Build
<1>1. PICK lifetime \in S :
          call' = [call EXCEPT ![c] =
              [Blank("write") EXCEPT !.env = Envelope(c, lifetime, Granted(S)), !.seen = gone]]
  BY <1>0
<1> DEFINE g == Granted(S)
           e == Envelope(c, lifetime, g)
           r == [Blank("write") EXCEPT !.env = e, !.seen = gone]
<1>2. /\ lifetime \in Nat \cup {None} /\ g \in Nat \cup {None}
      /\ g # None => lifetime # None /\ lifetime <= g
  BY GrantedBounds
<1> HIDE DEF g
<1>3. /\ lifetime # None => lifetime * Second \in Nat
      /\ g # None => g * Second \in Nat
      /\ g # None => lifetime * Second <= g * Second
  <2>1. \A a, b \in Nat : a <= b => a * Second <= b * Second
    BY ClockAssumption
  <2> QED
    BY <1>2, <2>1, Products, ClockAssumption
<1>4. /\ e.id = c /\ e.by = Owner[c] /\ e.created = Clock(Owner[c])
      /\ e.hard = IF lifetime = None THEN None ELSE Clock(Owner[c]) + lifetime * Second
      /\ e.until = IF g = None THEN None ELSE now + g * Second
  BY DEF Envelope
<1>5. e \in Envelopes
  BY <1>2, <1>3, Parts DEF Envelope, Envelopes
<1>6. Within(e)
  BY <1>2, <1>3, <1>4, Parts DEF Within, HardExpiry, Clock
<1> HIDE DEF e
<1>7. e # None
  BY <1>5, NoneAssumption
<1>8. c \notin gone
  BY DEF ExInv, ValuesInv, Made, Build
<1>9. /\ r \in CallStates /\ r.stage = "write" /\ r.env = e /\ r.seen = gone
      /\ r.since = 0
  BY <1>5, Parts DEF Blank, CallStates, Stages
<1>10. CallInv(c, r)
  BY <1>4, <1>6, <1>7, <1>8, <1>9 DEF CallInv
<1>11. now' = now /\ UNCHANGED <<l1, l2, gone>>
  BY DEF Build
<1>12. call' = [call EXCEPT ![c] = r]
  BY <1>1, Zenon DEF e, g
<1> HIDE DEF r
<1>13. r.stage # "idle" /\ r.since <= now /\ r.env.id = c
  BY <1>4, <1>9, Parts
<1>14. /\ l1' \in [Instances -> Envelopes \cup {None}]
       /\ \A i \in Instances :
              l1'[i] # None => Within(l1'[i]) /\ (Made(l1'[i].id) \/ l1'[i].id = c)
  BY <1>11, Parts
<1> QED
  BY <1>9, <1>10, <1>11, <1>12, <1>13, <1>14, CallStep

LEMMA WriteFrontKeeps == ASSUME ExInv, NEW c \in Calls, WriteFront(c) PROVE ExInv'
<1> DEFINE e == call[c].env
           x == Remaining(e, Owner[c])
           r == [call[c] EXCEPT !.stage = "set", !.since = now, !.ex = x]
<1>1. /\ e \in Envelopes /\ e # None /\ e.by = Owner[c] /\ Within(e) /\ Made(e.id)
      /\ e.id \notin call[c].seen
  BY Parts DEF WriteFront, At, CallInv
<1>2. LET left == HardExpiry(e) - now IN
      /\ x \in Nat \cup {None}
      /\ x = None <=> e.hard = None
      /\ x = 0 => left < Second
      /\ x # None /\ x # 0 => x * Second <= left /\ left < x * Second + Second
  BY <1>1, WhatIsLeft DEF ExInv
<1> HIDE DEF x
<1>3. call' = [call EXCEPT ![c] = r]
  BY Parts DEF WriteFront, x
<1>4. /\ r \in CallStates /\ r.stage = "set" /\ r.since = now /\ r.ex = x /\ r.env = e
      /\ r.seen = call[c].seen
  <2>1. call[c] \in CallStates /\ now \in Nat /\ x \in Nat \cup {None}
    BY <1>2, Parts
  <2> QED
    BY <2>1 DEF CallStates, Stages
<1> HIDE DEF e, r
<1>5. CallInv(c, r)
  BY <1>1, <1>2, <1>4 DEF CallInv, SentWithWhatIsLeft
<1>6. /\ now' = now /\ UNCHANGED <<l2, gone>> /\ l1' = [l1 EXCEPT ![Owner[c]] = e]
  BY DEF WriteFront, e
<1>7. /\ l1' \in [Instances -> Envelopes \cup {None}]
      /\ \A i \in Instances :
             l1'[i] # None => Within(l1'[i]) /\ (Made(l1'[i].id) \/ l1'[i].id = c)
  BY <1>1, <1>6, Parts
<1>8. r.stage # "idle" /\ r.since <= now /\ Made(r.env.id)
  BY <1>1, <1>4, Parts
<1> QED
  BY <1>3, <1>4, <1>5, <1>6, <1>7, <1>8, CallStep

LEMMA SetKeeps == ASSUME ExInv, NEW c \in Calls, SetExecutes(c) PROVE ExInv'
<1>1. now' = now /\ UNCHANGED l1
  BY DEF SetExecutes
<1>2. CASE call[c].ex = 0
  BY <1>1, <1>2, Finishing, Parts DEF SetExecutes, Ends
<1>3. CASE call[c].ex # 0
  <2> DEFINE e == call[c].env
             x == call[c].ex
             d == IF x = None THEN None ELSE now + x * Second
             entry == [env |-> e, late |-> now - call[c].since, deadline |-> d,
                       seen |-> call[c].seen]
  <2>1. /\ e \in Envelopes /\ e # None /\ Within(e) /\ Made(e.id) /\ e.id \notin call[c].seen
        /\ SentWithWhatIsLeft(call[c]) /\ x \in Nat \cup {None} /\ call[c].since \in Nat
        /\ call[c].since <= now /\ call[c].seen \subseteq Calls /\ now \in Nat
    BY Parts DEF SetExecutes, At, CallInv, CallStates
  <2>2. x # None => x * Second \in Nat /\ x * Second > 0
    BY <1>3, <2>1, Products, ClockAssumption
  <2>3. /\ now - call[c].since \in Nat /\ d \in Nat \cup {None}
        /\ d # None => now < d
        /\ d = None <=> x = None
    BY <2>1, <2>2, PolicyAssumption
  <2>4. entry \in Entries
    BY <2>1, <2>3 DEF Entries
  <2>5. EntryInv(entry)
    <3>1. /\ x = None <=> e.hard = None
          /\ x # None => x * Second <= HardExpiry(e) - call[c].since
          /\ x # None => HardExpiry(e) - call[c].since < x * Second + Second
      BY <1>3, <2>1 DEF SentWithWhatIsLeft
    <3>2. x # None => HardExpiry(e) \in Int
      BY <2>1, <3>1, ClockAssumption, PolicyAssumption DEF HardExpiry, Envelopes
    <3>3. x # None => /\ d - (now - call[c].since) <= HardExpiry(e)
                      /\ HardExpiry(e) < d - (now - call[c].since) + Second
      BY <2>1, <2>2, <3>1, <3>2, ClockAssumption
    <3> HIDE DEF d, x, e
    <3> QED
      BY <2>1, <2>3, <3>1, <3>3 DEF EntryInv, e
  <2>6. l2' = entry /\ Holds(entry) /\ Finishes(c, "done")
    BY <1>3 DEF SetExecutes, Holds
  <2>7. l2' \in Entries /\ Holds(l2') /\ EntryInv(l2') /\ Made(l2'.env.id)
        /\ (l2'.deadline # None => now < l2'.deadline)
    BY <2>1, <2>3, <2>4, <2>5, <2>6
  <2>8. "done" \in Ends
    BY DEF Ends
  <2>9. /\ l1' \in [Instances -> Envelopes \cup {None}]
        /\ \A i \in Instances : l1'[i] # None => Within(l1'[i]) /\ Made(l1'[i].id)
    BY <1>1, Parts
  <2> QED
    BY <1>1, <2>6, <2>7, <2>8, <2>9, Finishing
<1> QED
  BY <1>2, <1>3

LEMMA GetKeeps == ASSUME ExInv, NEW c \in Calls, Get(c) PROVE ExInv'
<1> DEFINE r == [call[c] EXCEPT !.stage = "get"]
<1>1. now' = now /\ UNCHANGED <<l2, gone>>
  BY DEF Get
<1>2. /\ l1' \in [Instances -> Envelopes \cup {None}]
      /\ \A i \in Instances : l1'[i] # None => Within(l1'[i]) /\ Made(l1'[i].id)
  BY Parts DEF Get
<1>3. CASE Finishes(c, "served")
  BY <1>1, <1>2, <1>3, Finishing DEF Ends
<1>4. CASE call' = [call EXCEPT ![c] = r]
  <2>1. r \in CallStates /\ r.stage = "get" /\ r.since = call[c].since /\ r.env = call[c].env
    BY Parts DEF CallStates, Stages
  <2> HIDE DEF r
  <2>2. CallInv(c, r) /\ r.stage # "idle" /\ r.since <= now
        /\ (r.env # None => Made(r.env.id) \/ r.env.id = c)
    BY <2>1, Parts DEF CallInv, Get, At
  <2> QED
    BY <1>1, <1>2, <1>4, <2>1, <2>2, CallStep
<1> QED
  BY <1>3, <1>4, Parts DEF Get, Goes

LEMMA GetExecutesKeeps == ASSUME ExInv, NEW c \in Calls, GetExecutes(c) PROVE ExInv'
<1>1. now' = now /\ UNCHANGED <<l1, l2, gone>>
  BY DEF GetExecutes
<1>2. /\ l1' \in [Instances -> Envelopes \cup {None}]
      /\ \A i \in Instances : l1'[i] # None => Within(l1'[i]) /\ Made(l1'[i].id)
  BY <1>1, Parts
<1>3. CASE l2 = None
  BY <1>1, <1>2, <1>3, Finishing DEF GetExecutes, Ends
<1>4. CASE l2 # None
  <2> DEFINE r == [call[c] EXCEPT !.stage = "reply", !.env = l2.env, !.since = now,
                                  !.waited = l2.late]
  <2>1. /\ l2 \in Entries /\ EntryInv(l2) /\ Made(l2.env.id) /\ now \in Nat
        /\ l2.env \in Envelopes /\ l2.late \in Nat /\ l2.deadline \in Nat \cup {None}
    BY <1>4, Parts DEF Entries
  <2>2. r \in CallStates /\ r.stage = "reply" /\ r.since = now /\ r.env = l2.env
        /\ r.waited = l2.late
    <3>1. call[c] \in CallStates
      BY Parts
    <3> QED
      BY <2>1, <3>1 DEF CallStates, Stages
  <2>3. call' = [call EXCEPT ![c] = r]
    BY <1>4, Parts DEF GetExecutes
  <2> HIDE DEF r
  <2>4. l2.env # None
    BY <2>1, NoneAssumption
  <2>5. l2.env.hard # None => now - l2.late < HardExpiry(l2.env)
    <3>1. l2.env.hard # None => /\ l2.deadline # None /\ now < l2.deadline
                                /\ l2.deadline - l2.late <= HardExpiry(l2.env)
                                /\ HardExpiry(l2.env) \in Int
      BY <1>4, <2>1, ClockAssumption, PolicyAssumption
         DEF EntryInv, ExInv, ExTypeOK, HardExpiry, Envelopes
    <3> QED
      BY <2>1, <3>1
  <2>6. CallInv(c, r)
    BY <2>1, <2>2, <2>4, <2>5 DEF CallInv, EntryInv
  <2>7. r.stage # "idle" /\ r.since <= now /\ Made(r.env.id)
    BY <2>1, <2>2
  <2> QED
    BY <1>1, <1>2, <2>2, <2>3, <2>6, <2>7, CallStep
<1> QED
  BY <1>3, <1>4

LEMMA ReplyKeeps == ASSUME ExInv, NEW c \in Calls, Reply(c) PROVE ExInv'
<1> DEFINE e == call[c].env
<1>1. /\ call[c].stage = "reply" /\ call[c] \in CallStates /\ e \in Envelopes /\ e # None
      /\ Within(e) /\ Made(e.id) /\ now' = now /\ UNCHANGED <<l2, gone>>
      /\ e.hard # None => call[c].since - call[c].waited < HardExpiry(e)
      /\ call[c].since <= now
  BY Parts DEF Reply, At, CallInv
<1>2. CASE Expired(e, Owner[c])
  <2> DEFINE w == call[c].waited + (now - call[c].since)
             r == [call[c] EXCEPT !.stage = "del", !.since = now, !.waited = w]
  <2>1. /\ now \in Nat /\ call[c].since \in Nat /\ call[c].waited \in Nat
        /\ Offset[Owner[c]] \in Nat /\ Offset[e.by] \in Nat
        /\ e.hard \in Nat /\ now + Offset[Owner[c]] >= e.hard
    BY <1>1, <1>2, Parts, ClockAssumption DEF CallStates, Envelopes, Expired, Clock
  <2>2. w \in Nat /\ w + Offset[Owner[c]] > Offset[e.by]
    BY <1>1, <1>2, <2>1 DEF HardExpiry, Expired
  <2> HIDE DEF w
  <2>3. r \in CallStates /\ r.stage = "del" /\ r.since = now /\ r.env = e /\ r.waited = w
    BY <1>1, <2>1, <2>2 DEF CallStates, Stages
  <2>4. call' = [call EXCEPT ![c] = r] /\ UNCHANGED l1
    BY <1>2, Parts DEF Reply, w
  <2> HIDE DEF r
  <2>5. CallInv(c, r)
    BY <1>1, <2>2, <2>3 DEF CallInv
  <2>6. r.stage # "idle" /\ r.since <= now /\ Made(r.env.id)
    BY <1>1, <2>1, <2>3
  <2>7. /\ l1' \in [Instances -> Envelopes \cup {None}]
        /\ \A i \in Instances : l1'[i] # None => Within(l1'[i]) /\ Made(l1'[i].id)
    BY <2>4, Parts
  <2> QED
    BY <1>1, <2>3, <2>4, <2>5, <2>6, <2>7, CallStep
<1>3. CASE ~Expired(e, Owner[c])
  <2>1. Finishes(c, "served") /\ l1' = [l1 EXCEPT ![Owner[c]] = e]
    BY <1>3 DEF Reply, Backfill
  <2>2. /\ l1' \in [Instances -> Envelopes \cup {None}]
        /\ \A i \in Instances : l1'[i] # None => Within(l1'[i]) /\ Made(l1'[i].id)
    BY <1>1, <2>1, Parts
  <2> QED
    BY <1>1, <2>1, <2>2, Finishing DEF Ends
<1> QED
  BY <1>2, <1>3

\* The steps that only move a call on, and perhaps empty its L1.
LEMMA MovesKeep ==
    ASSUME ExInv, NEW c \in Calls, NEW stage \in {"del", "peek"}, call[c].stage = "idle",
           Goes(c, stage), now' = now, UNCHANGED <<l2, gone>>,
           l1' \in {l1, [l1 EXCEPT ![Owner[c]] = None]}
    PROVE  ExInv'
<1> DEFINE r == [call[c] EXCEPT !.stage = stage]
<1>1. r \in CallStates /\ r.stage = stage /\ r.since = call[c].since /\ r.env = call[c].env
      /\ r.waited = call[c].waited
  <2>1. call[c] \in CallStates
    BY Parts
  <2> QED
    BY <2>1 DEF CallStates, Stages
<1>2. call' = [call EXCEPT ![c] = r]
  BY Parts DEF Goes
<1> HIDE DEF r
<1>3. r.env = None
  BY <1>1, Parts DEF CallInv
<1>4. CallInv(c, r) /\ r.stage # "idle" /\ r.since <= now
  BY <1>1, <1>3, Parts DEF CallInv
<1>5. /\ l1' \in [Instances -> Envelopes \cup {None}]
      /\ \A i \in Instances : l1'[i] # None => Within(l1'[i]) /\ Made(l1'[i].id)
  BY Parts
<1> QED
  BY <1>1, <1>2, <1>3, <1>4, <1>5, CallStep

LEMMA DelKeeps == ASSUME ExInv, NEW c \in Calls, DelExecutes(c) PROVE ExInv'
<1>1. now' = now /\ UNCHANGED l1 /\ Holds(None)
      /\ (Finishes(c, "done") \/ Finishes(c, "missed"))
  BY DEF DelExecutes
<1>2. /\ l1' \in [Instances -> Envelopes \cup {None}]
      /\ \A i \in Instances : l1'[i] # None => Within(l1'[i]) /\ Made(l1'[i].id)
  BY <1>1, Parts
<1> QED
  BY <1>1, <1>2, Finishing DEF Ends

LEMMA PeekKeeps == ASSUME ExInv, NEW c \in Calls, PeekExecutes(c) PROVE ExInv'
<1>1. now' = now /\ UNCHANGED <<l1, l2, gone>>
  BY DEF PeekExecutes
<1>2. /\ l1' \in [Instances -> Envelopes \cup {None}]
      /\ \A i \in Instances : l1'[i] # None => Within(l1'[i]) /\ Made(l1'[i].id)
  BY <1>1, Parts
<1>3. CASE l2 = None
  BY <1>1, <1>2, <1>3, Finishing DEF PeekExecutes, Ends
<1>4. CASE l2 # None
  <2> DEFINE r == [call[c] EXCEPT !.stage = "peeked", !.env = l2.env, !.seen = gone]
  <2>1. /\ Within(l2.env) /\ Made(l2.env.id) /\ l2.env \in Envelopes /\ l2.env # None
        /\ call[c] \in CallStates /\ gone \subseteq Calls /\ l2.env.id \notin gone
    BY <1>4, Parts, NoneAssumption DEF Entries, EntryInv
  <2>2. r \in CallStates /\ r.stage = "peeked" /\ r.since = call[c].since /\ r.env = l2.env
        /\ r.seen = gone
    BY <2>1 DEF CallStates, Stages
  <2>3. call' = [call EXCEPT ![c] = r]
    BY <1>4, Parts DEF PeekExecutes
  <2> HIDE DEF r
  <2>4. CallInv(c, r)
    BY <2>1, <2>2 DEF CallInv
  <2>5. r.stage # "idle" /\ r.since <= now /\ Made(r.env.id)
    BY <2>1, <2>2, Parts
  <2> QED
    BY <1>1, <1>2, <2>2, <2>3, <2>4, <2>5, CallStep
<1> QED
  BY <1>3, <1>4

\* An envelope whose expiry is set lives as long as it was granted.
LEMMA LastingWithin ==
    ASSUME NEW e \in Envelopes, NEW i \in Instances, NEW hard \in Nat
    PROVE  /\ Lasting(e, i, hard) \in Envelopes /\ Lasting(e, i, hard).id = e.id
           /\ Lasting(e, i, hard).hard = hard /\ Lasting(e, i, hard).by = i
           /\ Within(Lasting(e, i, hard))
<1>1. Offset[i] \in Nat /\ hard # None /\ hard - Offset[i] \in Int
  BY ClockAssumption, PolicyAssumption
<1>2. /\ Lasting(e, i, hard) \in Envelopes /\ Lasting(e, i, hard).id = e.id
      /\ Lasting(e, i, hard).hard = hard /\ Lasting(e, i, hard).by = i
      /\ Lasting(e, i, hard).until = hard - Offset[i]
  BY <1>1 DEF Lasting, Envelopes
<1> QED
  BY <1>1, <1>2 DEF Within, HardExpiry

LEMMA ExpireAnewKeeps == ASSUME ExInv, NEW c \in Calls, ExpireAnew(c) PROVE ExInv'
<1>1. PICK ttl \in NewTtls :
          call' = [call EXCEPT ![c].stage = "set", ![c].since = now, ![c].ex = ttl,
                       ![c].env = Lasting(@, Owner[c], Clock(Owner[c]) + ttl * Second)]
  BY DEF ExpireAnew
<1> DEFINE x == ttl * Second
           e == Lasting(call[c].env, Owner[c], Clock(Owner[c]) + x)
           r == [call[c] EXCEPT !.stage = "set", !.since = now, !.ex = ttl, !.env = e]
<1>2. ttl \in Nat /\ ttl # 0 /\ ttl # None /\ x \in Nat
  BY Products, PolicyAssumption, ClockAssumption
<1>3. /\ call[c].stage = "peeked" /\ call[c] \in CallStates /\ call[c].env \in Envelopes
      /\ call[c].env # None /\ Made(call[c].env.id) /\ call[c].env.id \notin call[c].seen
      /\ Owner[c] \in Instances /\ Offset[Owner[c]] \in Nat /\ now \in Nat
  BY Parts DEF ExpireAnew, At, CallInv
<1>4. call' = [call EXCEPT ![c] = r]
  BY <1>1, <1>3, Parts DEF CallStates
<1>5. x = ttl * Second
  OBVIOUS
<1> HIDE DEF x
<1>6. /\ e \in Envelopes /\ e.id = call[c].env.id /\ Within(e)
      /\ e.hard = Clock(Owner[c]) + x /\ e.by = Owner[c]
  <2>1. Clock(Owner[c]) + x \in Nat
    BY <1>2, <1>3 DEF Clock
  <2> QED
    BY <1>3, <2>1, LastingWithin
<1> HIDE DEF e
<1>7. e # None /\ e.hard # None /\ HardExpiry(e) = now + x
  <2>1. e.hard = now + Offset[Owner[c]] + x
    BY <1>6 DEF Clock
  <2> QED
    BY <1>2, <1>3, <1>6, <2>1, NoneAssumption, PolicyAssumption DEF HardExpiry
<1>8. /\ r \in CallStates /\ r.stage = "set" /\ r.since = now /\ r.env = e /\ r.ex = ttl
      /\ r.seen = call[c].seen
  BY <1>2, <1>3, <1>6 DEF CallStates, Stages
<1> HIDE DEF r
<1>9. SentWithWhatIsLeft(r)
  BY <1>2, <1>3, <1>5, <1>7, <1>8, ClockAssumption DEF SentWithWhatIsLeft
<1>10. CallInv(c, r)
  BY <1>3, <1>6, <1>7, <1>8, <1>9 DEF CallInv
<1>11. r.stage # "idle" /\ r.since <= now /\ Made(r.env.id)
  BY <1>3, <1>6, <1>8
<1>12. now' = now /\ UNCHANGED <<l1, l2, gone>>
  BY DEF ExpireAnew
<1>13. /\ l1' \in [Instances -> Envelopes \cup {None}]
       /\ \A i \in Instances : l1'[i] # None => Within(l1'[i]) /\ Made(l1'[i].id)
  BY <1>12, Parts
<1> QED
  BY <1>4, <1>8, <1>10, <1>11, <1>12, <1>13, CallStep

LEMMA ExpireLocalKeeps == ASSUME ExInv, NEW c \in Calls, ExpireLocal(c) PROVE ExInv'
<1> DEFINE i == Owner[c]
           maker == Owner[l1[i].id]
<1>1. Finishes(c, "done") /\ now' = now /\ UNCHANGED <<l2, gone>>
  BY DEF ExpireLocal
<1>2. /\ l1' \in [Instances -> Envelopes \cup {None}]
      /\ \A j \in Instances : l1'[j] # None => Within(l1'[j]) /\ Made(l1'[j].id)
  <2>1. CASE l1[i] = None
    BY <2>1, Parts DEF ExpireLocal
  <2>2. CASE l1[i] # None
    <3>1. PICK ttl \in NewTtls :
              l1' = [l1 EXCEPT ![i] = Lasting(@, maker, @.created + ttl * Second)]
      BY <2>2 DEF ExpireLocal
    <3> DEFINE x == ttl * Second
               e == Lasting(l1[i], maker, l1[i].created + x)
    <3>2. x \in Nat
      BY Products, PolicyAssumption, ClockAssumption
    <3>3. /\ i \in Instances /\ l1[i] \in Envelopes /\ Made(l1[i].id) /\ l1[i].created \in Nat
          /\ maker \in Instances
      BY <2>2, Parts, ClockAssumption DEF Envelopes
    <3>4. l1' = [l1 EXCEPT ![i] = e]
      BY <3>1
    <3> HIDE DEF x
    <3>5. e \in Envelopes /\ e.id = l1[i].id /\ Within(e)
      <4> DEFINE hard == l1[i].created + x
      <4>1. hard \in Nat
        BY <3>2, <3>3
      <4>2. e = Lasting(l1[i], maker, hard)
        OBVIOUS
      <4> HIDE DEF hard, maker, e
      <4>3. l1[i] \in Envelopes /\ maker \in Instances
        BY <3>3
      <4>4. \A f \in Envelopes, j \in Instances, h \in Nat :
                /\ Lasting(f, j, h) \in Envelopes /\ Lasting(f, j, h).id = f.id
                /\ Within(Lasting(f, j, h))
        BY LastingWithin
      <4> QED
        BY <4>1, <4>2, <4>3, <4>4
    <3> HIDE DEF e, maker
    <3> QED
      BY <3>3, <3>4, <3>5, Parts
  <2> QED
    BY <2>1, <2>2
<1> QED
  BY <1>1, <1>2, Finishing DEF Ends

LEMMA TimeKeeps == ExInv /\ TimePasses => ExInv'
<1> SUFFICES ASSUME ExInv, TimePasses PROVE ExInv'
    OBVIOUS
<1>1. now \in Nat /\ now' = now + 1 /\ UNCHANGED <<l1, call>>
  BY DEF ExInv, ExTypeOK, TimePasses
<1>2. /\ l2' \in Entries \cup {None} /\ gone' \subseteq Calls
      /\ l2' # None => l2' = l2 /\ gone' = gone
      /\ l2' # None /\ l2'.deadline # None => now' < l2'.deadline
      /\ \A d \in gone' : Made(d)
  <2>1. CASE l2 # None /\ l2.deadline = now'
    BY <2>1 DEF ExInv, ExTypeOK, ValuesInv, TimePasses, Holds, Entries, Envelopes
  <2>2. CASE ~(l2 # None /\ l2.deadline = now')
    <3>1. UNCHANGED <<l2, gone>>
      BY <2>2 DEF TimePasses
    <3>2. l2 # None /\ l2.deadline # None => l2.deadline \in Nat /\ now < l2.deadline
      BY DEF ExInv, ExTypeOK, Entries
    <3> QED
      BY <1>1, <2>2, <3>1, <3>2 DEF ExInv, ExTypeOK, ValuesInv
  <2> QED
    BY <2>1, <2>2
<1>3. ExTypeOK'
  BY <1>1, <1>2 DEF ExInv, ExTypeOK
<1>4. \A c \in Calls : CallInv(c, call[c]) /\ call'[c].since <= now'
  <2>1. \A c \in Calls : CallInv(c, call[c]) /\ call[c].since \in Nat /\ call[c].since <= now
    BY DEF ExInv, ExTypeOK
  <2> QED
    BY <1>1, <2>1
<1>5. ValuesInv'
  BY <1>1, <1>2 DEF ExInv, ValuesInv, Made, At
<1> QED
  BY <1>1, <1>2, <1>3, <1>4, <1>5
     DEF ExInv, CallInv, EntryInv, Within, HardExpiry, SentWithWhatIsLeft

-----------------------------------------------------------------------------

LEMMA ExInitInv == ExInit => ExInv
<1> SUFFICES ASSUME ExInit PROVE ExInv
    OBVIOUS
<1>1. /\ now = 0 /\ l1 = [i \in Instances |-> None] /\ l2 = None /\ gone = {}
      /\ \A c \in Calls : call[c] = Blank("idle")
  BY DEF ExInit
<1>2. Blank("idle") \in CallStates
  BY DEF Blank, CallStates, Stages
<1>3. ExTypeOK
  BY <1>1, <1>2 DEF ExInit, ExTypeOK, CallStates, Blank
<1>4. \A c \in Calls : CallInv(c, call[c]) /\ call[c].since <= now
  BY <1>1 DEF CallInv, Blank
<1>5. ValuesInv
  BY <1>1 DEF ValuesInv, Blank
<1> QED
  BY <1>1, <1>3, <1>4, <1>5 DEF ExInv

\* Every step preserves the invariant.
LEMMA ExStepInv == ExInv /\ [ExNext]_exVars => ExInv'
<1> SUFFICES ASSUME ExInv, [ExNext]_exVars PROVE ExInv'
    OBVIOUS
<1>1. ASSUME NEW c \in Calls, Delete(c) PROVE ExInv'
  BY <1>1, MovesKeep DEF Delete, At
<1>2. ASSUME NEW c \in Calls, Expire(c) PROVE ExInv'
  BY <1>2, MovesKeep DEF Expire, At
<1>3. CASE UNCHANGED exVars
  BY <1>3 DEF exVars, ExInv, ExTypeOK, CallInv, EntryInv, Within, HardExpiry,
     SentWithWhatIsLeft, ValuesInv, Made, At
<1> QED
  BY <1>1, <1>2, <1>3, BuildKeeps, WriteFrontKeeps, SetKeeps, GetKeeps, GetExecutesKeeps,
     ReplyKeeps, DelKeeps, PeekKeeps, ExpireAnewKeeps, ExpireLocalKeeps, TimeKeeps DEF ExNext

LEMMA ExInvariant == ExSpec => []ExInv
BY ExInitInv, ExStepInv, PTL DEF ExSpec

-----------------------------------------------------------------------------

\* Every variable keeps its type.
THEOREM ExTypeCorrect == ExSpec => []ExTypeOK
<1>1. ExInv => ExTypeOK
  BY DEF ExInv
<1> QED
  BY <1>1, ExInvariant, PTL

\* The deadline of an entry of Redis follows the expiry of its envelope, to a second and
\* the time that the SET took.
THEOREM ExDeadlineFollowsEnvelope == ExSpec => []DeadlineFollowsEnvelope
<1>1. ExInv => DeadlineFollowsEnvelope
  BY DEF ExInv, EntryInv, DeadlineFollowsEnvelope
<1> QED
  BY <1>1, ExInvariant, PTL

\* A get deletes an expired entry of Redis only if its clock is ahead or a command was
\* slow.
THEOREM ExDropHasACause == ExSpec => []DropHasACause
<1>1. ExInv => DropHasACause
  BY DEF ExInv, CallInv, DropHasACause, At
<1> QED
  BY <1>1, ExInvariant, PTL

\* What was deleted from Redis or overwritten comes back only by an expire() that read
\* it before.
THEOREM ExRevivedHasACause == ExSpec => []RevivedHasACause
<1>1. ExInv => RevivedHasACause
  BY DEF ExInv, EntryInv, RevivedHasACause
<1> QED
  BY <1>1, ExInvariant, PTL

\* How a call ends: a get by an answer of the L1 or of Redis, a write by an expiry of
\* zero.
LEMMA Endings ==
    ASSUME ExInv, [ExNext]_exVars, NEW c \in Calls, NEW stage \in {"served", "refused"},
           call'[c].stage = stage, ~At(c, stage)
    PROVE  \/ stage = "served" /\ At(c, "idle") /\ l1[Owner[c]] # None
              /\ ~Expired(l1[Owner[c]], Owner[c])
           \/ stage = "served" /\ At(c, "reply") /\ ~Expired(call[c].env, Owner[c])
           \/ stage = "refused" /\ At(c, "set") /\ call[c].ex = 0
<1> DEFINE Goal == \/ stage = "served" /\ At(c, "idle") /\ l1[Owner[c]] # None
                       /\ ~Expired(l1[Owner[c]], Owner[c])
                   \/ stage = "served" /\ At(c, "reply") /\ ~Expired(call[c].env, Owner[c])
                   \/ stage = "refused" /\ At(c, "set") /\ call[c].ex = 0
<1>1. call[c].stage # stage /\ call'[c] # call[c]
  BY DEF At
<1>2. ASSUME NEW d \in Calls, NEW r, call' = [call EXCEPT ![d] = r]
      PROVE  d = c /\ r.stage = stage
  BY <1>1, <1>2, Parts
<1>3. ASSUME NEW d \in Calls, NEW s, Finishes(d, s) PROVE d = c /\ s = stage
  <2>1. call' = [call EXCEPT ![d] = Blank(s)]
    BY <1>3 DEF Finishes
  <2>2. d = c /\ Blank(s).stage = stage
    BY <1>2, <2>1
  <2> QED
    BY <2>2 DEF Blank
<1>4. ASSUME NEW d \in Calls, NEW s, Goes(d, s) PROVE s = stage
  BY <1>1, <1>4, Parts DEF Goes, CallStates
<1>5. ASSUME NEW d \in Calls, SetExecutes(d) PROVE Goal
  BY <1>3, <1>5 DEF SetExecutes
<1>6. ASSUME NEW d \in Calls, Get(d) PROVE Goal
  BY <1>3, <1>4, <1>6 DEF Get
<1>7. ASSUME NEW d \in Calls, Reply(d) PROVE Goal
  <2>1. call'[c].stage \in {"del", call[c].stage} \/ Finishes(d, "served")
    BY <1>7, Parts DEF Reply, CallStates
  <2>2. Finishes(d, "served") /\ ~Expired(call[d].env, Owner[d])
    BY <1>1, <1>7, <2>1, Parts DEF Reply, CallStates
  <2> QED
    BY <1>3, <1>7, <2>2 DEF Reply
<1>8. ASSUME NEW d \in Calls, Build(d) \/ WriteFront(d) PROVE FALSE
  <2>1. CASE Build(d)
    <3>1. PICK r : call' = [call EXCEPT ![d] = [Blank("write") EXCEPT !.env = r, !.seen = gone]]
      BY <2>1 DEF Build
    <3> DEFINE s == [Blank("write") EXCEPT !.env = r, !.seen = gone]
    <3>2. s.stage = "write"
      BY DEF Blank
    <3>3. call' = [call EXCEPT ![d] = s]
      BY <3>1
    <3> HIDE DEF s
    <3> QED
      BY <1>2, <3>2, <3>3
  <2>2. CASE WriteFront(d)
    BY <1>1, <2>2, Parts DEF WriteFront, CallStates
  <2> QED
    BY <1>8, <2>1, <2>2
<1>9. ASSUME NEW d \in Calls, GetExecutes(d) \/ PeekExecutes(d) \/ ExpireAnew(d) PROVE FALSE
  <2>1. ~Finishes(d, "missed") /\ ~Finishes(d, "done")
    BY <1>3
  <2>2. CASE GetExecutes(d)
    BY <1>1, <2>1, <2>2, Parts DEF GetExecutes, CallStates
  <2>3. CASE PeekExecutes(d)
    BY <1>1, <2>1, <2>3, Parts DEF PeekExecutes, CallStates
  <2>4. CASE ExpireAnew(d)
    BY <1>1, <2>4, Parts DEF ExpireAnew, CallStates
  <2> QED
    BY <1>9, <2>2, <2>3, <2>4
<1>10. ASSUME NEW d \in Calls,
              Delete(d) \/ DelExecutes(d) \/ Expire(d) \/ ExpireLocal(d)
       PROVE  FALSE
  <2>1. \A s \in {"missed", "done"} : ~Finishes(d, s)
    BY <1>3
  <2>2. \A s \in {"del", "peek"} : ~Goes(d, s)
    BY <1>4
  <2> QED
    BY <1>10, <2>1, <2>2 DEF Delete, DelExecutes, Expire, ExpireLocal
<1>11. CASE TimePasses \/ UNCHANGED exVars
  BY <1>1, <1>11 DEF TimePasses, exVars
<1> QED
  BY <1>5, <1>6, <1>7, <1>8, <1>9, <1>10, <1>11 DEF ExNext

\* A get serves a value only within the time that was granted it, give or take the
\* difference of the clocks.
THEOREM ExServedInTime == ExSpec => ServedInTime
<1>1. ExInv /\ [ExNext]_exVars =>
          [\A c \in Calls : call'[c].stage = "served" /\ ~At(c, "served") =>
                                StillGranted(Answer(c), Owner[c])]_exVars
  <2> SUFFICES ASSUME ExInv, ExNext, NEW c \in Calls,
                      call'[c].stage = "served", ~At(c, "served")
               PROVE  StillGranted(Answer(c), Owner[c])
    OBVIOUS
  <2>1. Answer(c) # None /\ ~Expired(Answer(c), Owner[c])
    BY Endings, Parts DEF CallInv, At, Answer
  <2>2. Answer(c) \in Envelopes /\ Within(Answer(c))
    BY <2>1, Parts DEF CallInv, Answer
  <2> QED
    BY <2>1, <2>2, Parts, ClockAssumption, PolicyAssumption
       DEF StillGranted, Within, HardExpiry, Expired, Clock, Envelopes
<1> QED
  BY <1>1, ExInvariant, PTL DEF ServedInTime, ExSpec

\* Redis refuses a write only if its envelope had less than a second left.
THEOREM ExRefusedHasACause == ExSpec => RefusedHasACause
<1>1. ExInv /\ [ExNext]_exVars =>
          [\A c \in Calls : call'[c].stage = "refused" /\ ~At(c, "refused") =>
                                HardExpiry(call[c].env) - call[c].since < Second]_exVars
  <2> SUFFICES ASSUME ExInv, ExNext, NEW c \in Calls,
                      call'[c].stage = "refused", ~At(c, "refused")
               PROVE  HardExpiry(call[c].env) - call[c].since < Second
    OBVIOUS
  <2>1. call[c].stage = "set" /\ call[c].ex = 0
    BY Endings DEF At
  <2> QED
    BY <2>1, Parts DEF CallInv, SentWithWhatIsLeft
<1> QED
  BY <1>1, ExInvariant, PTL DEF RefusedHasACause, ExSpec

=============================================================================
