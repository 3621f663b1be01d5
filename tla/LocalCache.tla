----------------------------- MODULE LocalCache -----------------------------
(***************************************************************************)
(* LocalCacheBackend of kmcache/backends/local.py: an OrderedDict of at    *)
(* most max_size envelopes, the least recently used one first.             *)
(*                                                                         *)
(* No operation suspends while it holds the backend's lock, so each is one *)
(* step.  exists() is get(); mget() takes the lock once per key, so it is  *)
(* as many steps of get().  A miss changes nothing and is not a step.  Of  *)
(* an envelope only whether it is hard expired matters here.               *)
(***************************************************************************)
EXTENDS Naturals, Sequences, FiniteSets

CONSTANTS
    Keys,       \* the cache keys
    Prefixes,   \* the sets of keys that share a prefix
    MaxSize     \* config.max_size

\* LocalCacheConfig.__post_init__ refuses a size that is not positive.
ASSUME SizeAssumption == MaxSize \in Nat \ {0}
ASSUME PrefixAssumption == Prefixes \subseteq SUBSET Keys /\ IsFiniteSet(Keys)

VARIABLES
    order,      \* the keys of self._entries, in order
    expired,    \* those whose envelope is hard expired
    since,      \* history: the other keys used since each key was last used
    kept        \* history: the keys that were stored and not removed again, other
                \* than by eviction

lcVars == <<order, expired, since, kept>>

\* The keys that are present, and those of a list.
Present == {order[n] : n \in DOMAIN order}
Listed(ks) == {ks[n] : n \in DOMAIN ks}

\* Those of a list that stand behind a key.
Behind(ks, j) == {k \in Listed(ks) : \E m, n \in DOMAIN ks : m < n /\ ks[m] = j /\ ks[n] = k}

\* Some places of a list in ascending order, and a list without some keys.
Ascending(P) ==
    CHOOSE f \in [1..Cardinality(P) -> P] : \A m, n \in DOMAIN f : m < n => f[m] < f[n]

Without(ks, S) ==
    LET places == Ascending({n \in DOMAIN ks : ks[n] \notin S})
    IN  [n \in DOMAIN places |-> ks[places[n]]]

LCInit ==
    /\ order = <<>>
    /\ expired = {}
    /\ since = [k \in Keys |-> {}]
    /\ kept = {}

-----------------------------------------------------------------------------

\* The history of using the keys of a list one after the other.
Used(ks) ==
    since' = [j \in Keys |->
        IF j \in Listed(ks) THEN Behind(ks, j) ELSE since[j] \cup Listed(ks)]

\* Fault: a hit does not move the entry to the end.
TouchInPlace(k) == UNCHANGED order /\ Used(<<k>>)

\* self._entries.move_to_end(key)
Touch(k) == order' = Append(Without(order, {k}), k) /\ Used(<<k>>)

\* The envelopes of some keys are popped.
Remove(S) ==
    /\ order' = Without(order, S)
    /\ expired' = expired \ S
    /\ kept' = kept \ S
    /\ UNCHANGED since

\* get: an expired envelope is popped, and the call misses.
Get(k) ==
    /\ k \in Present
    /\ IF k \in expired THEN Remove({k}) ELSE Touch(k) /\ UNCHANGED <<expired, kept>>

\* get_stale: an expired envelope is returned, and counts as used.
GetStale(k) ==
    /\ k \in Present
    /\ Touch(k)
    /\ UNCHANGED <<expired, kept>>

\* Faults: one entry is evicted; the newest entries are evicted.
EvictOne(ks) == IF Len(ks) > MaxSize THEN Tail(ks) ELSE ks
EvictNewest(ks) == IF Len(ks) > MaxSize THEN SubSeq(ks, 1, MaxSize) ELSE ks

\* _evict_if_needed: the oldest entries go while there are too many.
Evict(ks) == IF Len(ks) > MaxSize THEN SubSeq(ks, Len(ks) - MaxSize + 1, Len(ks)) ELSE ks

\* Envelopes that are not expired are stored under some keys, then there is eviction.
Store(ks) ==
    /\ order' = Evict(Without(order, Listed(ks)) \o ks)
    /\ expired' = (expired \ Listed(ks)) \cap Listed(order')
    /\ kept' = kept \cup Listed(ks)
    /\ Used(ks)

Set(k) == Store(<<k>>)

\* mset: a dictionary, whose keys differ.
MSet ==
    \E n \in 2..Cardinality(Keys) : \E ks \in [1..n -> Keys] :
        /\ Cardinality(Listed(ks)) = n
        /\ Store(ks)

Delete(k) == Remove({k})

DeleteMany == \E S \in SUBSET Keys : Remove(S)

DeletePrefix == \E P \in Prefixes : Remove(Present \cap P)

Clear == Remove(Keys)

\* expire: the envelope expires at its creation plus ttl, which may have passed.
Expire(k) ==
    /\ k \in Present
    /\ expired' \in {expired \cup {k}, expired \ {k}}
    /\ Touch(k)
    /\ UNCHANGED kept

\* The environment: an envelope's time is over.
TimePasses(k) ==
    /\ k \in Present \ expired
    /\ expired' = expired \cup {k}
    /\ UNCHANGED <<order, since, kept>>

LCNext ==
    \/ \E k \in Keys :
           \/ Get(k) \/ GetStale(k) \/ Set(k) \/ Delete(k) \/ Expire(k)
           \/ TimePasses(k)
    \/ MSet \/ DeleteMany \/ DeletePrefix \/ Clear

LCSpec == LCInit /\ [][LCNext]_lcVars

-----------------------------------------------------------------------------

\* There are at most max_size entries, and every variable holds a value of its kind.
LCTypeOK ==
    /\ order \in Seq(Keys)
    /\ Len(order) <= MaxSize
    /\ expired \subseteq Present
    /\ since \in [Keys -> SUBSET Keys]
    /\ kept \subseteq Keys

\* What is stored is still there, unless it was removed or found expired, or at least
\* max_size other keys were used after it: a batch, however large, and entries that are
\* expired but not popped yet, cost no entry that was used more recently.
KeptWhileRecent == \A k \in kept : k \in Present \/ Cardinality(since[k]) >= MaxSize

\* The list implements least-recently-used eviction, by the history of the uses: a store
\* evicts the keys that at least max_size others which are there were used after, all of
\* them and no other, and nothing else evicts.
LRU == INSTANCE LeastRecentlyUsed WITH held <- Present, newer <- since

ImplementsLRU == LRU!LRUSpec

=============================================================================
