------------------------- MODULE LeastRecentlyUsed -------------------------
(***************************************************************************)
(* What an L1 of bounded size promises, whatever it keeps its entries in:  *)
(* a key that is used is newer than all others, and a key is evicted when, *)
(* and only when, max_size newer ones are held.                            *)
(***************************************************************************)
EXTENDS Naturals, FiniteSets

CONSTANTS Keys, MaxSize

VARIABLES
    held,       \* the keys that are stored
    newer       \* for each key, the others that were used after it was last used

\* The keys that can be used at once, in an order: lists in which none is twice.
Batches ==
    {ks \in UNION {[1..n -> Keys] : n \in 1..Cardinality(Keys)} :
        \A m, n \in DOMAIN ks : ks[m] = ks[n] => m = n}

Members(ks) == {ks[n] : n \in DOMAIN ks}

\* The members of a list that stand behind k.
After(ks, k) == {j \in Members(ks) : \E m, n \in DOMAIN ks : m < n /\ ks[m] = k /\ ks[n] = j}

\* What is newer than k when the keys of ks have been used.
Newer(ks, k) == IF k \in Members(ks) THEN After(ks, k) ELSE newer[k] \cup Members(ks)

LRUInit ==
    /\ held = {}
    /\ newer = [k \in Keys |-> {}]

\* The keys of ks are read or written one after the other; of all there are then, those
\* stay that less than max_size of them are newer than.
Use(ks) ==
    LET all == held \cup Members(ks)
    IN  /\ held' = {k \in all : Cardinality(Newer(ks, k) \cap all) < MaxSize}
        /\ newer' = [k \in Keys |-> Newer(ks, k)]

\* Some keys are removed.
Remove(S) ==
    /\ held' = held \ S
    /\ UNCHANGED newer

LRUNext ==
    \/ \E ks \in Batches : Use(ks)
    \/ \E S \in SUBSET Keys : Remove(S)

LRUSpec == LRUInit /\ [][LRUNext]_<<held, newer>>

=============================================================================
