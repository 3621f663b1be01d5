------------------------------- MODULE Expiry -------------------------------
(***************************************************************************)
(* The life of one key in time: the ttl that a call, a policy and the      *)
(* configuration resolve to, the envelope with its hard expiry by the      *)
(* clock of the instance that builds it, its copies in the L1 of every     *)
(* instance, and the entry of Redis with a deadline of its own, in whole   *)
(* seconds, that Redis counts from the moment it executes the SET.         *)
(*                                                                         *)
(* Time passes between any two steps, so every command may take its time   *)
(* and a clock that is read twice may show two times.  Commands that fail  *)
(* and invalidation events are those of Invalidation, soft expiry is that  *)
(* of GetOrLoad.                                                           *)
(***************************************************************************)
EXTENDS Integers

CONSTANTS
    Instances,
    Calls,      \* of the public operations; each is made once
    Owner,      \* of each call: the instance that makes it
    Offset,     \* of each instance: by how much its clock is ahead
    Second,     \* the ticks of a second
    MaxTime,    \* bounds the run
    Kinds,      \* what may be called, of AllKinds
    CallTtls,   \* the ttl argument of set and get_or_load: seconds or None
    Policies,   \* the policy argument
    Config,     \* the defaults
    NewTtls,    \* the argument of expire
    None

AllKinds == {"set", "load", "get", "delete", "expire", "expire_local"}

ASSUME ClockAssumption ==
    /\ Owner \in [Calls -> Instances]
    /\ Offset \in [Instances -> Nat]
    /\ Second \in Nat \ {0}
    /\ MaxTime \in Nat
ASSUME KindsAssumption == Kinds \subseteq AllKinds
\* CachePolicy.__post_init__; the configuration is checked alike.
ASSUME PolicyAssumption ==
    /\ None \notin Int
    /\ CallTtls \subseteq (Nat \ {0}) \cup {None}
    /\ Policies \subseteq [ttl : (Nat \ {0}) \cup {None},
                           nullTtl : (Nat \ {0}) \cup {None},
                           jitter : Nat \cup {None}]
    /\ Config \in [ttl : (Nat \ {0}) \cup {None}, nullTtl : Nat \ {0}, jitter : Nat]
    /\ NewTtls \subseteq Nat \ {0}

\* What the caches hold: `id' is the call that built the envelope, `by' the instance whose
\* clock gave it its expiry; `until', `late' and `seen' are histories: until when the value
\* was granted, how long the SET took, and what was gone when its envelope was taken.
Envelopes ==
    [id : Calls, created : Nat, hard : Nat \cup {None}, by : Instances,
     until : Int \cup {None}]
Entries ==
    [env : Envelopes, late : Nat, deadline : Nat \cup {None}, seen : SUBSET Calls]
ASSUME NoneAssumption == None \notin Envelopes \cup Entries

VARIABLES
    now,        \* the true time
    l1,         \* of each instance: the envelope in its L1, or None
    l2,         \* the entry in Redis, or None
    call,       \* of each call: its state
    gone        \* history: the calls whose value was deleted from Redis or overwritten

exVars == <<now, l1, l2, call, gone>>

Clock(i) == now + Offset[i]

\* Fault: an envelope in its last second counts as expired.
ExpiredSoon(e, i) == e.hard # None /\ Clock(i) + Second > e.hard

Expired(e, i) == e.hard # None /\ Clock(i) >= e.hard

\* By the true time.
HardExpiry(e) == e.hard - Offset[e.by]

\* Fault: what is left may be negative.
RemainingUnbounded(e, i) == IF e.hard = None THEN None ELSE (e.hard - Clock(i)) \div Second

\* Fault: the last second counts in full.
RemainingRoundedUp(e, i) ==
    IF e.hard = None THEN None
    ELSE IF Expired(e, i) THEN 0 ELSE (e.hard - Clock(i) + Second - 1) \div Second

\* A command is sent with the remaining seconds, truncated.
Remaining(e, i) ==
    IF e.hard = None THEN None
    ELSE IF Expired(e, i) THEN 0 ELSE (e.hard - Clock(i)) \div Second

\* The stages of a call: "write" (the envelope is built), "set", "get", "del" and "peek"
\* (a command is on its way), "reply" and "peeked" (its result is), and the ends.
\* `since' is when the last command was sent, or executed if its reply is on its way;
\* `waited' and `seen' are histories: for how long an envelope was on its way, and what
\* was gone when it was built or read.
Ends == {"done", "refused", "served", "missed"}
Stages == {"idle", "write", "set", "get", "del", "peek", "reply", "peeked"} \cup Ends

At(c, stage) == call[c].stage = stage
Goes(c, stage) == call' = [call EXCEPT ![c].stage = stage]

Blank(stage) ==
    [stage |-> stage, env |-> None, ex |-> None, since |-> 0, waited |-> 0, seen |-> {}]
Finishes(c, stage) == call' = [call EXCEPT ![c] = Blank(stage)]

ExInit ==
    /\ now = 0
    /\ l1 = [i \in Instances |-> None]
    /\ l2 = None
    /\ call = [c \in Calls |-> Blank("idle")]
    /\ gone = {}

-----------------------------------------------------------------------------
\* Policies

Given(a, b) == IF a # None THEN a ELSE b

\* _resolve_policy, for a value: the call's ttl, else the policy's, else the default,
\* and what the jitter may make of it.
Lifetimes(ttl, p) ==
    LET base == Given(ttl, Given(p.ttl, Config.ttl))
    IN  IF base = None THEN {None} ELSE base .. (base + Given(p.jitter, Config.jitter))

\* For the None of a loader: no jitter.
NullLifetimes(p) == {Given(p.nullTtl, Config.nullTtl)}

\* What the arguments of the calls come to.
Resolved ==
    {Lifetimes(ttl, p) : ttl \in (IF Kinds \cap {"set", "load"} = {} THEN {} ELSE CallTtls),
                         p \in Policies}
    \cup {NullLifetimes(p) : p \in (IF "load" \in Kinds THEN Policies ELSE {})}

\* The longest that the value of a call may live.
Granted(lifetimes) ==
    IF None \in lifetimes THEN None
    ELSE CHOOSE t \in lifetimes : \A u \in lifetimes : u <= t

-----------------------------------------------------------------------------
\* set, and the end of a load

\* _build_envelope.
Envelope(c, lifetime, granted) ==
    [id |-> c, created |-> Clock(Owner[c]), by |-> Owner[c],
     hard |-> IF lifetime = None THEN None ELSE Clock(Owner[c]) + lifetime * Second,
     until |-> IF granted = None THEN None ELSE now + granted * Second]

Build(c) ==
    /\ At(c, "idle")
    /\ \E lifetimes \in Resolved : \E lifetime \in lifetimes :
           call' = [call EXCEPT ![c] =
                       [Blank("write") EXCEPT !.env = Envelope(c, lifetime, Granted(lifetimes)),
                                              !.seen = gone]]
    /\ UNCHANGED <<now, l1, l2, gone>>

\* Fault: the remaining time is one second less.
WriteFrontShort(c) ==
    LET e == call[c].env IN
    /\ At(c, "write")
    /\ call' = [call EXCEPT ![c].stage = "set", ![c].since = now,
                            ![c].ex = IF e.hard = None \/ Remaining(e, Owner[c]) = 0
                                      THEN Remaining(e, Owner[c])
                                      ELSE Remaining(e, Owner[c]) - 1]
    /\ l1' = [l1 EXCEPT ![Owner[c]] = e]
    /\ UNCHANGED <<now, l2, gone>>

\* _write_envelope: the remaining ttl, then the L1, then Redis.
WriteFront(c) ==
    LET e == call[c].env IN
    /\ At(c, "write")
    /\ call' = [call EXCEPT ![c].stage = "set", ![c].since = now,
                            ![c].ex = Remaining(e, Owner[c])]
    /\ l1' = [l1 EXCEPT ![Owner[c]] = e]
    /\ UNCHANGED <<now, l2, gone>>

\* Redis holds this now, and what it held before is gone.
Holds(entry) ==
    LET old == IF l2 = None THEN {} ELSE {l2.env.id}
        new == IF entry = None THEN {} ELSE {entry.env.id}
    IN  l2' = entry /\ gone' = (gone \cup old) \ new

\* SET with or without EX.  Redis refuses an expiry of zero.
SetExecutes(c) ==
    /\ At(c, "set")
    /\ IF call[c].ex = 0
          THEN Finishes(c, "refused") /\ UNCHANGED <<l2, gone>>
          ELSE /\ Finishes(c, "done")
               /\ Holds([env |-> call[c].env, late |-> now - call[c].since,
                         deadline |-> IF call[c].ex = None THEN None
                                      ELSE now + call[c].ex * Second,
                         seen |-> call[c].seen])
    /\ UNCHANGED <<now, l1>>

-----------------------------------------------------------------------------
\* get

\* Fault: the copy gets the time to live that Redis has yet to count.
BackfillAnew(c) ==
    l1' = [l1 EXCEPT ![Owner[c]] =
              IF call[c].env.hard = None THEN call[c].env
              ELSE [call[c].env EXCEPT
                        !.hard = Clock(Owner[c]) + Second * (Remaining(call[c].env, Owner[c]) + 1)]]

\* _backfill_front_layers: the envelope itself is the copy.
Backfill(c) == l1' = [l1 EXCEPT ![Owner[c]] = call[c].env]

\* The L1 answers; it drops an entry that has expired, and then Redis is asked.
Get(c) ==
    LET e == l1[Owner[c]] IN
    /\ At(c, "idle") /\ "get" \in Kinds
    /\ IF e # None /\ ~Expired(e, Owner[c])
          THEN Finishes(c, "served") /\ UNCHANGED l1
          ELSE /\ Goes(c, "get")
               /\ l1' = [l1 EXCEPT ![Owner[c]] = None]
    /\ UNCHANGED <<now, l2, gone>>

GetExecutes(c) ==
    /\ At(c, "get")
    /\ IF l2 = None
          THEN Finishes(c, "missed")
          ELSE call' = [call EXCEPT ![c].stage = "reply", ![c].env = l2.env,
                                    ![c].since = now, ![c].waited = l2.late]
    /\ UNCHANGED <<now, l1, l2, gone>>

\* An envelope that has expired is deleted, by key.
Reply(c) ==
    /\ At(c, "reply")
    /\ IF Expired(call[c].env, Owner[c])
          THEN /\ call' = [call EXCEPT ![c].stage = "del", ![c].since = now,
                                       ![c].waited = @ + (now - call[c].since)]
               /\ UNCHANGED l1
          ELSE Finishes(c, "served") /\ Backfill(c)
    /\ UNCHANGED <<now, l2, gone>>

-----------------------------------------------------------------------------
\* delete, expire

Delete(c) ==
    /\ At(c, "idle") /\ "delete" \in Kinds
    /\ Goes(c, "del")
    /\ l1' = [l1 EXCEPT ![Owner[c]] = None]
    /\ UNCHANGED <<now, l2, gone>>

\* DEL: of a delete, or of a get that found an expired envelope.
DelExecutes(c) ==
    /\ At(c, "del")
    /\ Finishes(c, IF call[c].env = None THEN "done" ELSE "missed")
    /\ Holds(None)
    /\ UNCHANGED <<now, l1>>

\* The envelope expires at `hard' by the clock of i, and its value was granted till then.
Lasting(e, i, hard) == [e EXCEPT !.hard = hard, !.by = i, !.until = hard - Offset[i]]

\* expire of the Redis backend is a GET ...
Expire(c) ==
    /\ At(c, "idle") /\ "expire" \in Kinds
    /\ Goes(c, "peek")
    /\ UNCHANGED <<now, l1, l2, gone>>

\* Fault: the envelope of the L1 saves the GET.
PeekNearby(c) ==
    /\ At(c, "peek")
    /\ IF l1[Owner[c]] = None
          THEN Finishes(c, "done")
          ELSE call' = [call EXCEPT ![c].stage = "peeked", ![c].env = l1[Owner[c]],
                                    ![c].seen = gone]
    /\ UNCHANGED <<now, l1, l2, gone>>

PeekExecutes(c) ==
    /\ At(c, "peek")
    /\ IF l2 = None
          THEN Finishes(c, "done")
          ELSE call' = [call EXCEPT ![c].stage = "peeked", ![c].env = l2.env,
                                    ![c].seen = gone]
    /\ UNCHANGED <<now, l1, l2, gone>>

\* ... and a SET of the same value with an expiry that counts from now.
ExpireAnew(c) ==
    /\ At(c, "peeked")
    /\ \E ttl \in NewTtls :
           call' = [call EXCEPT ![c].stage = "set", ![c].since = now, ![c].ex = ttl,
                        ![c].env = Lasting(@, Owner[c], Clock(Owner[c]) + ttl * Second)]
    /\ UNCHANGED <<now, l1, l2, gone>>

\* expire of the L1 counts from when the envelope was built.
ExpireLocal(c) ==
    LET i == Owner[c] IN
    /\ At(c, "idle") /\ "expire_local" \in Kinds
    /\ Finishes(c, "done")
    /\ IF l1[i] = None
          THEN UNCHANGED l1
          ELSE \E ttl \in NewTtls :
                   LET maker == Owner[l1[i].id] IN
                   l1' = [l1 EXCEPT ![i] = Lasting(@, maker, @.created + ttl * Second)]
    /\ UNCHANGED <<now, l2, gone>>

-----------------------------------------------------------------------------

\* Redis forgets an entry at its deadline.
TimePasses ==
    /\ now < MaxTime
    /\ now' = now + 1
    /\ IF l2 # None /\ l2.deadline = now' THEN Holds(None) ELSE UNCHANGED <<l2, gone>>
    /\ UNCHANGED <<l1, call>>

ExNext ==
    \/ \E c \in Calls :
           \/ Build(c) \/ WriteFront(c) \/ SetExecutes(c)
           \/ Get(c) \/ GetExecutes(c) \/ Reply(c)
           \/ Delete(c) \/ DelExecutes(c)
           \/ Expire(c) \/ PeekExecutes(c) \/ ExpireAnew(c) \/ ExpireLocal(c)
    \/ TimePasses

ExSpec == ExInit /\ [][ExNext]_exVars

-----------------------------------------------------------------------------

\* Every variable holds a value of its kind, and what was granted for ever and only
\* that has no expiry.
ExTypeOK ==
    /\ now \in Nat
    /\ l1 \in [Instances -> Envelopes \cup {None}]
    /\ l2 \in Entries \cup {None}
    /\ call \in [Calls -> [stage : Stages, env : Envelopes \cup {None}, ex : Nat \cup {None},
                           since : Nat, waited : Nat, seen : SUBSET Calls]]
    /\ gone \subseteq Calls
    /\ \A c \in Calls : call[c].env = None =>
           call[c].stage \notin {"write", "set", "reply", "peeked"}
    /\ l2 # None /\ l2.deadline # None => now < l2.deadline

\* Redis never keeps an entry longer than its envelope lives, by the clock that gave it
\* its expiry, but for the time that the SET took; and it drops it less than a second
\* before that, if the SET took no time.
DeadlineFollowsEnvelope ==
    l2 # None /\ l2.deadline # None =>
        /\ l2.deadline - l2.late <= HardExpiry(l2.env)
        /\ HardExpiry(l2.env) < l2.deadline - l2.late + Second

\* What a get is about to serve.
Answer(c) == IF At(c, "reply") THEN call[c].env ELSE l1[Owner[c]]

StillGranted(e, i) == e.until = None \/ now < e.until + Offset[e.by] - Offset[i]

\* A get serves a value, from the L1 or from Redis, only within the time that the policy of
\* its set or load, or the last expire() it went through, granted it, give or take the
\* difference of the clock it is read by to the clock it was written by.
ServedInTime ==
    [][\A c \in Calls :
           call'[c].stage = "served" /\ ~At(c, "served") =>
               StillGranted(Answer(c), Owner[c])]_exVars

\* Redis refuses a write only if its envelope had less than a second left when it was
\* sent.
RefusedHasACause ==
    [][\A c \in Calls :
           call'[c].stage = "refused" /\ ~At(c, "refused") =>
               HardExpiry(call[c].env) - call[c].since < Second]_exVars

\* A get deletes an entry of Redis, as its envelope has expired before Redis dropped it,
\* only if its clock is ahead of the writer's or a command took its time.
DropHasACause ==
    \A c \in Calls :
        At(c, "del") /\ call[c].env # None =>
            call[c].waited + Offset[Owner[c]] > Offset[call[c].env.by]

\* expire() brings a value back only if it was deleted or overwritten between its GET
\* and its SET; nothing else brings one back.
RevivedHasACause == l2 # None => l2.env.id \notin l2.seen

\* "Writes the value to all configured backends" (the docstring of set).
SetReachesRedis == \A c \in Calls : ~At(c, "refused")

=============================================================================
