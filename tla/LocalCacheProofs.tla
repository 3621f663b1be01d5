-------------------------- MODULE LocalCacheProofs --------------------------
(***************************************************************************)
(* What LocalCache promises, for every set of keys and every max_size.     *)
(*                                                                         *)
(* The three invariants are inductive together (LCInv).  The lemmas are    *)
(* about lists: what is left without some keys, by the ranks of the places *)
(* that stay; what stands behind a key when others are taken out, put      *)
(* last or evicted.  What the list has behind a key is what the history    *)
(* has newer than it (NewerIsBehind), so that every operation is a use or  *)
(* a removal in LeastRecentlyUsed.                                         *)
(***************************************************************************)
EXTENDS LocalCache, FiniteSetTheorems, TLAPS

\* The keys of a list are in the order of last use in a history s.
Recency(ks, s) ==
    \A m, n \in DOMAIN ks : m < n => ks[n] \in s[ks[m]] /\ ks[m] \notin s[ks[n]]

\* How many places of P there are up to n.
Rank(P, n) == Cardinality({m \in P : m <= n})

-----------------------------------------------------------------------------
\* Lists without some keys

\* The ranks of places are different numbers in ascending order.
LEMMA RankFacts ==
    ASSUME NEW N \in Nat, NEW P \in SUBSET (1..N)
    PROVE  /\ IsFiniteSet(P) /\ Cardinality(P) \in Nat
           /\ \A n \in P : Rank(P, n) \in 1..Cardinality(P)
           /\ \A m, n \in P : m < n => Rank(P, m) < Rank(P, n)
<1>1. IsFiniteSet(1..N)
  BY FS_Interval
<1>2. IsFiniteSet(P) /\ Cardinality(P) \in Nat
  BY <1>1, FS_Subset, FS_CardinalityType
<1> DEFINE Upto(n) == {m \in P : m <= n}
<1>3. \A n \in P : IsFiniteSet(Upto(n)) /\ Cardinality(Upto(n)) \in Nat
                   /\ Cardinality(Upto(n)) <= Cardinality(P)
  <2> TAKE n \in P
  <2>1. Upto(n) \in SUBSET P
    OBVIOUS
  <2> HIDE DEF Upto
  <2> QED
    BY <1>2, <2>1, FS_Subset, FS_CardinalityType
<1>4. \A n \in P : Cardinality(Upto(n)) # 0
  <2> TAKE n \in P
  <2>1. n \in Upto(n)
    OBVIOUS
  <2> HIDE DEF Upto
  <2> QED
    BY <1>3, <2>1, FS_EmptySet
<1>5. \A m, n \in P : m < n => Cardinality(Upto(m)) < Cardinality(Upto(n))
  <2> SUFFICES ASSUME NEW m \in P, NEW n \in P, m < n
               PROVE  Cardinality(Upto(m)) < Cardinality(Upto(n))
    OBVIOUS
  <2>1. Upto(m) \in SUBSET Upto(n) /\ n \in Upto(n) /\ n \notin Upto(m)
    <3>1. \A i \in P : i \in Int
      OBVIOUS
    <3>2. \A i \in P : i <= m => i <= n
      BY <3>1
    <3>3. n <= n /\ ~(n <= m)
      BY <3>1
    <3> QED
      BY <3>2, <3>3
  <2> HIDE DEF Upto
  <2>2. Cardinality(Upto(m)) <= Cardinality(Upto(n)) /\ Cardinality(Upto(n)) # Cardinality(Upto(m))
    BY <1>3, <2>1, FS_Subset
  <2> QED
    BY <1>3, <2>2
<1>6. \A n \in P : Rank(P, n) = Cardinality(Upto(n))
  BY DEF Rank
<1> HIDE DEF Upto
<1> QED
  BY <1>2, <1>3, <1>4, <1>5, <1>6

\* The places are enumerated without a gap.
LEMMA AscendingFacts ==
    ASSUME NEW N \in Nat, NEW P \in SUBSET (1..N)
    PROVE  /\ Ascending(P) \in [1..Cardinality(P) -> P]
           /\ \A m, n \in 1..Cardinality(P) : m < n => Ascending(P)[m] < Ascending(P)[n]
           /\ \A p \in P : \E n \in 1..Cardinality(P) : Ascending(P)[n] = p
<1> DEFINE C == Cardinality(P)
<1>1. IsFiniteSet(P) /\ C \in Nat
  BY RankFacts
<1>2. IsFiniteSet(1..C) /\ Cardinality(1..C) = C
  BY <1>1, FS_Interval
<1>a. \A n \in P : n \in Int
  OBVIOUS
<1>b. \A n \in 1..C : n \in Int
  OBVIOUS
<1> HIDE DEF C
<1> DEFINE r == [n \in P |-> Rank(P, n)]
<1>3. r \in [P -> 1..C] /\ \A m, n \in P : m < n => r[m] < r[n]
  BY RankFacts DEF C
<1>4. \A m, n \in P : r[m] = r[n] => m = n
  <2>1. \A n \in P : n \in Int /\ r[n] \in Int
    BY <1>3, <1>a, <1>b
  <2> HIDE DEF r
  <2> QED
    BY <1>3, <2>1
<1> HIDE DEF r
<1>5. \A k \in 1..C : \E n \in P : r[n] = k
  <2>1. r \in Injection(P, 1..C)
    BY <1>3, <1>4 DEF Injection, IsInjective
  <2>2. r \in Surjection(P, 1..C)
    BY <1>2, <2>1, FS_Injection DEF C
  <2> QED
    BY <2>2 DEF Surjection
<1> DEFINE f == [k \in 1..C |-> CHOOSE n \in P : r[n] = k]
<1>6. \A k \in 1..C : f[k] \in P /\ r[f[k]] = k
  BY <1>5
<1>7. f \in [1..C -> P]
  BY <1>6
<1> HIDE DEF f
<1>8. \A m, n \in DOMAIN f : m < n => f[m] < f[n]
  <2> SUFFICES ASSUME NEW m \in 1..C, NEW n \in 1..C, m < n PROVE f[m] < f[n]
    BY <1>7
  <2>1. f[m] \in P /\ f[n] \in P /\ f[m] # f[n] /\ m \in Int /\ n \in Int
    BY <1>6, <1>b
  <2>2. ~(f[n] < f[m])
    <3> SUFFICES ASSUME f[n] < f[m] PROVE FALSE
      OBVIOUS
    <3>1. r[f[n]] < r[f[m]]
      BY <1>3, <2>1
    <3>2. r[f[n]] = n /\ r[f[m]] = m
      BY <1>6
    <3> QED
      BY <2>1, <3>1, <3>2
  <2>3. f[m] \in Int /\ f[n] \in Int
    BY <2>1, <1>a
  <2> QED
    BY <2>1, <2>2, <2>3
<1> DEFINE g == Ascending(P)
<1>9. g \in [1..C -> P] /\ \A m, n \in DOMAIN g : m < n => g[m] < g[n]
  BY <1>7, <1>8 DEF Ascending, C
<1> HIDE DEF g
<1>10. g \in Injection(1..C, P)
  <2>1. \A m, n \in 1..C : g[m] = g[n] => m = n
    <3> SUFFICES ASSUME NEW m \in 1..C, NEW n \in 1..C, g[m] = g[n], m # n PROVE FALSE
      OBVIOUS
    <3>1. m \in Int /\ n \in Int
      BY <1>b
    <3>2. g[m] \in P /\ g[m] \in Int
      BY <1>9, <1>a
    <3>3. ~(g[m] < g[m])
      BY <3>2
    <3> QED
      BY <1>9, <3>1, <3>3
  <2> QED
    BY <1>9, <2>1 DEF Injection, IsInjective
<1>11. g \in Surjection(1..C, P)
  BY <1>1, <1>2, <1>10, FS_Injection DEF C
<1> QED
  BY <1>9, <1>11 DEF Surjection, g, C

\* A list without some keys has the others in the same order.
LEMMA WithoutFacts ==
    ASSUME NEW ks \in Seq(Keys), NEW S
    PROVE  /\ Without(ks, S) \in Seq(Keys)
           /\ Listed(Without(ks, S)) = Listed(ks) \ S
           /\ Len(Without(ks, S)) <= Len(ks)
           /\ \A k \in Listed(ks) : k \in S => Len(Without(ks, S)) < Len(ks)
           /\ \E f \in [DOMAIN Without(ks, S) -> DOMAIN ks] :
                 /\ \A n \in DOMAIN Without(ks, S) : Without(ks, S)[n] = ks[f[n]]
                 /\ \A m, n \in DOMAIN Without(ks, S) : m < n => f[m] < f[n]
<1> DEFINE P == {n \in DOMAIN ks : ks[n] \notin S}
           C == Cardinality(P)
           f == Ascending(P)
           w == Without(ks, S)
<1>1. Len(ks) \in Nat /\ DOMAIN ks = 1..Len(ks) /\ ks \in [1..Len(ks) -> Keys]
  OBVIOUS
<1>2. P \in SUBSET (1..Len(ks))
  BY <1>1
<1>3. \A n \in DOMAIN ks : n \in P <=> ks[n] \notin S
  OBVIOUS
<1>4. w = [n \in DOMAIN f |-> ks[f[n]]]
  BY DEF Without
<1> HIDE DEF P
<1>5. /\ f \in [1..C -> P]
      /\ \A m, n \in 1..C : m < n => f[m] < f[n]
      /\ \A p \in P : \E n \in 1..C : f[n] = p
  BY <1>1, <1>2, AscendingFacts
<1>6. C \in Nat
  BY <1>1, <1>2, RankFacts
<1> HIDE DEF C, f, w
<1>7. w \in [1..C -> Keys] /\ \A n \in 1..C : w[n] = ks[f[n]]
  BY <1>1, <1>2, <1>4, <1>5
<1>8. w \in Seq(Keys) /\ Len(w) = C /\ DOMAIN w = 1..C
  BY <1>6, <1>7
<1>9. Listed(w) = Listed(ks) \ S
  <2>1. ASSUME NEW n \in 1..C PROVE w[n] \in Listed(ks) \ S
    BY <1>2, <1>3, <1>5, <1>7, <1>1 DEF Listed
  <2>2. ASSUME NEW n \in DOMAIN ks, ks[n] \notin S PROVE \E m \in 1..C : w[m] = ks[n]
    BY <1>3, <1>5, <1>7, <2>2
  <2>3. \A k : k \in Listed(w) <=> \E n \in 1..C : k = w[n]
    BY <1>8 DEF Listed
  <2>4. \A k : k \in Listed(ks) <=> \E n \in DOMAIN ks : k = ks[n]
    BY DEF Listed
  <2> QED
    BY <2>1, <2>2, <2>3, <2>4
<1>10. C <= Len(ks) /\ (C = Len(ks) => P = 1..Len(ks))
  <2>1. IsFiniteSet(1..Len(ks)) /\ Cardinality(1..Len(ks)) = Len(ks)
    BY <1>1, FS_Interval
  <2> QED
    BY <1>2, <2>1, FS_Subset DEF C
<1>11. \A k \in Listed(ks) : k \in S => C < Len(ks)
  BY <1>1, <1>3, <1>6, <1>10 DEF Listed
<1>12. f \in [1..C -> DOMAIN ks]
  BY <1>1, <1>2, <1>5
<1> QED
  BY <1>5, <1>7, <1>8, <1>9, <1>10, <1>11, <1>12 DEF w

LEMMA WithoutRecency ==
    ASSUME NEW ks \in Seq(Keys), NEW s, Recency(ks, s), NEW S
    PROVE  Recency(Without(ks, S), s)
<1> DEFINE w == Without(ks, S)
<1>1. PICK f \in [DOMAIN w -> DOMAIN ks] :
          /\ \A n \in DOMAIN w : w[n] = ks[f[n]]
          /\ \A m, n \in DOMAIN w : m < n => f[m] < f[n]
  BY WithoutFacts
<1> HIDE DEF w
<1>2. Recency(w, s)
  BY <1>1 DEF Recency
<1> QED
  BY <1>2 DEF w

-----------------------------------------------------------------------------
\* Using and evicting

\* The list is in the order of last use: an entry was not used since any entry that
\* stands behind it in the list was.
OrderIsRecency ==
    \A m, n \in DOMAIN order : m < n =>
        order[n] \in since[order[m]] /\ order[m] \notin since[order[n]]

LCInv == LCTypeOK /\ OrderIsRecency /\ KeptWhileRecent

Distinct(ks) == \A m, n \in DOMAIN ks : ks[m] = ks[n] => m = n

\* What the use of some keys does to the history.
LEMMA UsedFacts ==
    ASSUME LCTypeOK, NEW ks \in Seq(Keys), Used(ks)
    PROVE  /\ since' \in [Keys -> SUBSET Keys]
           /\ \A j \in Keys : j \notin Listed(ks) => since'[j] = since[j] \cup Listed(ks)
           /\ \A j \in Listed(ks) : since'[j] \subseteq Listed(ks)
           /\ Distinct(ks) => Recency(ks, since')
<1>1. Listed(ks) \subseteq Keys /\ \A j : Behind(ks, j) \subseteq Listed(ks)
  BY DEF Listed, Behind
<1>2. \A n \in DOMAIN ks : ks[n] \in Listed(ks) /\ n \in Int
  BY DEF Listed
<1>3. \A j \in Keys : /\ j \in Listed(ks) => since'[j] = Behind(ks, j)
                      /\ j \notin Listed(ks) => since'[j] = since[j] \cup Listed(ks)
  BY DEF Used
<1>4. since' \in [Keys -> SUBSET Keys]
  BY <1>1 DEF Used, LCTypeOK, Behind
<1>5. ASSUME Distinct(ks), NEW m \in DOMAIN ks, NEW n \in DOMAIN ks, m < n
      PROVE  ks[n] \in since'[ks[m]] /\ ks[m] \notin since'[ks[n]]
  <2>1. since'[ks[m]] = Behind(ks, ks[m]) /\ since'[ks[n]] = Behind(ks, ks[n])
    BY <1>1, <1>2, <1>3
  <2>2. ks[n] \in Behind(ks, ks[m])
    BY <1>2, <1>5 DEF Behind
  <2>3. ks[m] \notin Behind(ks, ks[n])
    <3> SUFFICES ASSUME NEW a \in DOMAIN ks, NEW b \in DOMAIN ks,
                        a < b, ks[a] = ks[n], ks[b] = ks[m]
                 PROVE  FALSE
      BY DEF Behind
    <3>1. a = n /\ b = m
      BY <1>5 DEF Distinct
    <3> QED
      BY <1>2, <1>5, <3>1
  <2> QED
    BY <2>1, <2>2, <2>3
<1> QED
  BY <1>1, <1>3, <1>4, <1>5 DEF Recency

\* The keys that are used go to the end, in their order.
LEMMA UsedRecency ==
    ASSUME LCTypeOK, OrderIsRecency, NEW ks \in Seq(Keys), Distinct(ks), Used(ks)
    PROVE  Recency(Without(order, Listed(ks)) \o ks, since')
<1> DEFINE w == Without(order, Listed(ks))
           all == w \o ks
<1>1. order \in Seq(Keys) /\ since \in [Keys -> SUBSET Keys] /\ Recency(order, since)
  BY DEF LCTypeOK, OrderIsRecency, Recency
<1>2. w \in Seq(Keys) /\ Recency(w, since) /\ Listed(w) = Listed(order) \ Listed(ks)
  BY <1>1, WithoutFacts, WithoutRecency
<1> HIDE DEF w
<1>3. /\ \A n \in DOMAIN w : w[n] \in Keys /\ w[n] \notin Listed(ks)
      /\ \A n \in DOMAIN ks : ks[n] \in Keys /\ ks[n] \in Listed(ks)
  <2>1. \A n \in DOMAIN w : w[n] \in Keys /\ w[n] \in Listed(w)
    BY <1>2 DEF Listed
  <2>2. \A n \in DOMAIN ks : ks[n] \in Keys /\ ks[n] \in Listed(ks)
    BY DEF Listed
  <2> QED
    BY <1>2, <2>1, <2>2
<1>4. /\ \A j \in Keys : j \notin Listed(ks) => since'[j] = since[j] \cup Listed(ks)
      /\ \A j \in Listed(ks) : since'[j] \subseteq Listed(ks)
      /\ Recency(ks, since')
  BY UsedFacts
<1>5. \A n \in DOMAIN all :
          \/ n \in DOMAIN w /\ all[n] = w[n]
          \/ /\ n > Len(w) /\ n - Len(w) \in DOMAIN ks /\ all[n] = ks[n - Len(w)]
  BY <1>2
<1>6. DOMAIN w = 1..Len(w) /\ Len(w) \in Nat /\ \A n \in DOMAIN all : n \in Nat
  BY <1>2
<1> HIDE DEF all
<1> SUFFICES ASSUME NEW m \in DOMAIN all, NEW n \in DOMAIN all, m < n
             PROVE  all[n] \in since'[all[m]] /\ all[m] \notin since'[all[n]]
  BY DEF Recency, all, w
<1>7. CASE m \in DOMAIN w /\ all[m] = w[m] /\ n \in DOMAIN w /\ all[n] = w[n]
  <2>1. w[n] \in since[w[m]] /\ w[m] \notin since[w[n]]
    BY <1>2, <1>7 DEF Recency
  <2> QED
    BY <1>3, <1>4, <1>7, <2>1
<1>8. CASE m \in DOMAIN w /\ all[m] = w[m] /\ n - Len(w) \in DOMAIN ks /\ all[n] = ks[n - Len(w)]
  BY <1>3, <1>4, <1>8
<1>9. CASE /\ m - Len(w) \in DOMAIN ks /\ all[m] = ks[m - Len(w)]
           /\ n - Len(w) \in DOMAIN ks /\ all[n] = ks[n - Len(w)]
  <2>1. m - Len(w) < n - Len(w)
    BY <1>6
  <2> QED
    BY <1>4, <1>9, <2>1 DEF Recency
<1>10. CASE m > Len(w) /\ n \in DOMAIN w
  BY <1>6, <1>10
<1> QED
  BY <1>5, <1>7, <1>8, <1>9, <1>10

\* The first off keys of the list are evicted.
Cuts(ks, off) ==
    /\ off > 0 => Len(ks) = off + MaxSize
    /\ DOMAIN Evict(ks) = 1..(Len(ks) - off)
    /\ \A n \in DOMAIN Evict(ks) : n + off \in DOMAIN ks /\ Evict(ks)[n] = ks[n + off]

\* Eviction takes the front off a list that is too long.
LEMMA EvictFacts ==
    ASSUME NEW ks \in Seq(Keys)
    PROVE  /\ Evict(ks) \in Seq(Keys) /\ Len(Evict(ks)) <= MaxSize
           /\ \E off \in 0..Len(ks) : Cuts(ks, off)
<1>1. Len(ks) \in Nat /\ MaxSize \in Nat /\ MaxSize > 0 /\ DOMAIN ks = 1..Len(ks)
  BY SizeAssumption
<1>2. CASE Len(ks) > MaxSize
  <2> DEFINE off == Len(ks) - MaxSize
             cut == SubSeq(ks, off + 1, Len(ks))
  <2>1. Evict(ks) = cut
    BY <1>2 DEF Evict
  <2>2. off \in 0..Len(ks) /\ off > 0 /\ Len(ks) = off + MaxSize
    BY <1>1, <1>2
  <2> HIDE DEF off
  <2>3. /\ cut \in Seq(Keys) /\ Len(cut) = Len(ks) - off /\ DOMAIN cut = 1..(Len(ks) - off)
        /\ \A n \in 1..(Len(ks) - off) : n + off \in DOMAIN ks /\ cut[n] = ks[n + off]
    BY <1>1, <2>2
  <2> HIDE DEF cut
  <2>4. Cuts(ks, off)
    BY <2>1, <2>2, <2>3 DEF Cuts
  <2> QED
    BY <1>1, <2>1, <2>2, <2>3, <2>4
<1>3. CASE ~(Len(ks) > MaxSize)
  <2>1. Evict(ks) = ks
    BY <1>3 DEF Evict
  <2>2. 0 \in 0..Len(ks) /\ DOMAIN ks = 1..(Len(ks) - 0)
        /\ \A n \in DOMAIN ks : n + 0 \in DOMAIN ks /\ ks[n] = ks[n + 0]
    BY <1>1
  <2>3. Cuts(ks, 0)
    BY <2>1, <2>2 DEF Cuts
  <2> QED
    BY <1>1, <1>3, <2>1, <2>2, <2>3
<1> QED
  BY <1>2, <1>3

\* An entry with max_size entries behind it was used before max_size others.
LEMMA EvictedIsOld ==
    ASSUME NEW ks \in Seq(Keys), NEW s \in [Keys -> SUBSET Keys], Recency(ks, s),
           NEW p \in DOMAIN ks, p + MaxSize <= Len(ks)
    PROVE  Cardinality(s[ks[p]]) >= MaxSize
<1> DEFINE f == [n \in 1..MaxSize |-> ks[p + n]]
<1>1. MaxSize \in Nat /\ p \in Nat /\ DOMAIN ks = 1..Len(ks) /\ ks[p] \in Keys
  BY SizeAssumption
<1>2. \A n \in 1..MaxSize : p + n \in DOMAIN ks /\ p < p + n /\ n \in Int
  BY <1>1
<1>3. \A n \in 1..MaxSize : f[n] = ks[p + n] /\ f[n] \in s[ks[p]]
  BY <1>2 DEF Recency
<1>4. f \in [1..MaxSize -> s[ks[p]]]
  BY <1>3
<1> HIDE DEF f
<1>5. \A m, n \in 1..MaxSize : m < n => f[m] # f[n]
  <2> SUFFICES ASSUME NEW m \in 1..MaxSize, NEW n \in 1..MaxSize, m < n, f[m] = f[n] PROVE FALSE
    OBVIOUS
  <2>1. p + m < p + n
    BY <1>1
  <2>2. ks[p + n] \in s[ks[p + m]] /\ ks[p + m] \notin s[ks[p + n]]
    BY <1>2, <2>1 DEF Recency
  <2> QED
    BY <1>3, <2>2
<1>6. f \in Injection(1..MaxSize, s[ks[p]])
  <2>1. \A m, n \in 1..MaxSize : f[m] = f[n] => m = n
    BY <1>2, <1>5
  <2> QED
    BY <1>4, <2>1 DEF Injection, IsInjective
<1>7. IsFiniteSet(s[ks[p]]) /\ Cardinality(s[ks[p]]) \in Nat
  <2>1. s[ks[p]] \in SUBSET Keys
    BY <1>1
  <2> QED
    BY <2>1, PrefixAssumption, FS_Subset, FS_CardinalityType
<1>8. Cardinality(1..MaxSize) = MaxSize
  BY <1>1, FS_Interval
<1> QED
  BY <1>1, <1>6, <1>7, <1>8, FS_Injection

-----------------------------------------------------------------------------
\* The operations

LEMMA LCInitInv == LCInit => LCInv
BY SizeAssumption DEF LCInit, LCInv, LCTypeOK, OrderIsRecency, KeptWhileRecent, Present

\* A key whose later users only get more stays old.
LEMMA OldStaysOld ==
    ASSUME LCTypeOK, since' \in [Keys -> SUBSET Keys], NEW k \in Keys, since[k] \subseteq since'[k],
           Cardinality(since[k]) >= MaxSize
    PROVE  Cardinality(since'[k]) >= MaxSize
<1>1. since'[k] \in SUBSET Keys /\ since[k] \in SUBSET since'[k]
  OBVIOUS
<1>2. IsFiniteSet(since'[k])
  BY <1>1, PrefixAssumption, FS_Subset
<1>3. /\ Cardinality(since'[k]) \in Nat /\ Cardinality(since[k]) \in Nat
      /\ Cardinality(since[k]) <= Cardinality(since'[k])
  BY <1>1, <1>2, FS_Subset, FS_CardinalityType
<1> QED
  BY <1>3, SizeAssumption

\* A hit keeps the entries there are.
LEMMA TouchStep ==
    ASSUME LCInv, NEW k \in Present, Touch(k), expired' \subseteq Present, kept' = kept
    PROVE  LCInv'
<1> DEFINE w == Without(order, {k})
<1>1. order \in Seq(Keys) /\ Len(order) <= MaxSize /\ Present = Listed(order) /\ k \in Keys
  BY DEF LCInv, LCTypeOK, Present, Listed
<1>2. w \in Seq(Keys) /\ Listed(w) = Present \ {k} /\ Len(w) < Len(order)
  BY <1>1, WithoutFacts
<1>3. order' = Append(w, k) /\ Used(<<k>>)
  BY DEF Touch
<1>4. <<k>> \in Seq(Keys) /\ Distinct(<<k>>) /\ Listed(<<k>>) = {k}
  BY <1>1 DEF Distinct, Listed
<1>5. Recency(w \o <<k>>, since')
  BY <1>3, <1>4, UsedRecency DEF LCInv
<1> HIDE DEF w
<1>6. order' \in Seq(Keys) /\ Len(order') = Len(w) + 1 /\ order' = w \o <<k>>
  BY <1>1, <1>2, <1>3
<1>7. Len(order') <= MaxSize
  BY <1>1, <1>2, <1>6, SizeAssumption
<1>8. Present' = Present
  <2>1. \A x : (\E n \in DOMAIN order' : x = order'[n]) <=> x = k \/ \E n \in DOMAIN w : x = w[n]
    <3>1. \A n \in DOMAIN w : n \in DOMAIN order' /\ order'[n] = w[n]
      BY <1>1, <1>2, <1>3
    <3>2. Len(w) + 1 \in DOMAIN order' /\ order'[Len(w) + 1] = k
      BY <1>1, <1>2, <1>3
    <3>3. \A n \in DOMAIN order' : n \in DOMAIN w \/ n = Len(w) + 1
      BY <1>1, <1>2, <1>3
    <3> QED
      BY <3>1, <3>2, <3>3
  <2>2. \A x : x \in Present' <=> x = k \/ x \in Listed(w)
    BY <2>1 DEF Present, Listed
  <2> QED
    BY <1>2, <2>2
<1>9. /\ since' \in [Keys -> SUBSET Keys]
      /\ \A j \in Keys : j # k => since[j] \subseteq since'[j]
  BY <1>3, <1>4, UsedFacts DEF LCInv
<1>10. LCTypeOK' /\ OrderIsRecency'
  BY <1>5, <1>6, <1>7, <1>8, <1>9 DEF LCInv, LCTypeOK, OrderIsRecency, Recency
<1>11. ASSUME NEW j \in kept', j \notin Present' PROVE Cardinality(since'[j]) >= MaxSize
  <2>1. j \in Keys /\ j # k /\ Cardinality(since[j]) >= MaxSize
    BY <1>8, <1>11 DEF LCInv, LCTypeOK, KeptWhileRecent
  <2> QED
    BY <1>9, <2>1, OldStaysOld DEF LCInv
<1> QED
  BY <1>10, <1>11 DEF LCInv, KeptWhileRecent

LEMMA RemoveStep ==
    ASSUME LCInv, NEW S, Remove(S)
    PROVE  LCInv'
<1>1. /\ order \in Seq(Keys) /\ Len(order) <= MaxSize /\ Recency(order, since)
      /\ Present = Listed(order)
  BY DEF LCInv, LCTypeOK, OrderIsRecency, Recency, Present, Listed
<1>2. order' = Without(order, S) /\ expired' = expired \ S /\ kept' = kept \ S /\ since' = since
  BY DEF Remove
<1>3. /\ order' \in Seq(Keys) /\ Listed(order') = Present \ S /\ Len(order') <= Len(order)
      /\ Recency(order', since')
  BY <1>1, <1>2, WithoutFacts, WithoutRecency
<1>4. Present' = Present \ S
  BY <1>3 DEF Present, Listed
<1>5. Len(order') <= MaxSize
  BY <1>1, <1>3, SizeAssumption
<1> QED
  BY <1>2, <1>3, <1>4, <1>5 DEF LCInv, LCTypeOK, OrderIsRecency, Recency, KeptWhileRecent

\* Storing evicts only entries that have max_size others behind them.
LEMMA StoreStep ==
    ASSUME LCInv, NEW ks \in Seq(Keys), Distinct(ks), Store(ks)
    PROVE  LCInv'
<1> DEFINE w == Without(order, Listed(ks))
           all == w \o ks
<1>1. order \in Seq(Keys) /\ Present = Listed(order) /\ Listed(ks) \subseteq Keys
  BY DEF LCInv, LCTypeOK, Present, Listed
<1>2. w \in Seq(Keys) /\ Listed(w) = Present \ Listed(ks)
  BY <1>1, WithoutFacts
<1>3. /\ order' = Evict(all) /\ Used(ks) /\ kept' = kept \cup Listed(ks)
      /\ expired' = (expired \ Listed(ks)) \cap Listed(order')
  BY DEF Store
<1>4. Recency(all, since')
  BY <1>3, UsedRecency DEF LCInv
<1> HIDE DEF w
<1>5. all \in Seq(Keys)
  BY <1>2
<1>6. \A k : k \in Listed(w) \/ k \in Listed(ks) => \E n \in DOMAIN all : all[n] = k
  <2>1. ASSUME NEW n \in DOMAIN w PROVE n \in DOMAIN all /\ all[n] = w[n]
    BY <1>2
  <2>2. ASSUME NEW n \in DOMAIN ks PROVE Len(w) + n \in DOMAIN all /\ all[Len(w) + n] = ks[n]
    BY <1>2
  <2> HIDE DEF all
  <2> QED
    BY <2>1, <2>2 DEF Listed
<1> HIDE DEF all
<1>7. order' \in Seq(Keys) /\ Len(order') <= MaxSize
  BY <1>3, <1>5, EvictFacts
<1>8. PICK off \in 0..Len(all) : Cuts(all, off)
  BY <1>5, EvictFacts
<1>9. /\ off \in Nat /\ Len(all) \in Nat /\ DOMAIN all = 1..Len(all)
      /\ off > 0 => Len(all) = off + MaxSize
      /\ DOMAIN order' = 1..(Len(all) - off)
      /\ \A n \in DOMAIN order' : n + off \in DOMAIN all /\ order'[n] = all[n + off]
  BY <1>3, <1>5, <1>8 DEF Cuts
<1>10. OrderIsRecency'
  <2> SUFFICES ASSUME NEW m \in DOMAIN order', NEW n \in DOMAIN order', m < n
               PROVE  order'[n] \in since'[order'[m]] /\ order'[m] \notin since'[order'[n]]
    BY DEF OrderIsRecency
  <2>1. m + off < n + off
    BY <1>9
  <2> QED
    BY <1>4, <1>9, <2>1 DEF Recency
<1>11. /\ since' \in [Keys -> SUBSET Keys]
       /\ \A j \in Keys : j \notin Listed(ks) => since[j] \subseteq since'[j]
  BY <1>3, UsedFacts DEF LCInv
<1>12. LCTypeOK'
  <2>1. Present' = Listed(order')
    BY DEF Present, Listed
  <2>2. kept' \subseteq Keys
    BY <1>1, <1>3 DEF LCInv, LCTypeOK
  <2> QED
    BY <1>3, <1>7, <1>11, <2>1, <2>2 DEF LCTypeOK
<1>13. ASSUME NEW k \in kept', k \notin Present' PROVE Cardinality(since'[k]) >= MaxSize
  <2>1. CASE k \in Listed(w) \/ k \in Listed(ks)
    <3>1. PICK p \in DOMAIN all : all[p] = k
      BY <1>6, <2>1
    <3>2. p <= off
      <4> SUFFICES ASSUME p > off PROVE FALSE
        BY <1>9
      <4>1. p - off \in DOMAIN order' /\ order'[p - off] = all[p]
        BY <1>9
      <4> QED
        BY <1>13, <3>1, <4>1 DEF Present
    <3>3. p + MaxSize <= Len(all)
      BY <1>9, <3>2, SizeAssumption
    <3> QED
      BY <1>4, <1>5, <1>11, <3>1, <3>3, EvictedIsOld
  <2>2. CASE k \notin Listed(w) /\ k \notin Listed(ks)
    <3>1. k \in Keys /\ Cardinality(since[k]) >= MaxSize
      BY <1>2, <1>3, <2>2 DEF LCInv, LCTypeOK, KeptWhileRecent
    <3> QED
      BY <1>11, <2>2, <3>1, OldStaysOld DEF LCInv
  <2> QED
    BY <2>1, <2>2
<1> QED
  BY <1>10, <1>12, <1>13 DEF LCInv, KeptWhileRecent

\* The keys of a batch differ.
LEMMA BatchFacts ==
    ASSUME NEW n \in Nat, NEW ks \in [1..n -> Keys], Cardinality(Listed(ks)) = n
    PROVE  ks \in Seq(Keys) /\ Distinct(ks)
<1>1. ks \in Surjection(1..n, Listed(ks))
  BY DEF Surjection, Listed
<1>2. IsFiniteSet(1..n) /\ Cardinality(1..n) = n
  BY FS_Interval
<1>3. ks \in Injection(1..n, Listed(ks))
  BY <1>1, <1>2, FS_Surjection
<1> QED
  BY <1>3 DEF Injection, IsInjective, Distinct

LEMMA LCStepInv == LCInv /\ [LCNext]_lcVars => LCInv'
<1> SUFFICES ASSUME LCInv, [LCNext]_lcVars PROVE LCInv'
  OBVIOUS
<1>1. expired \subseteq Present /\ Present \subseteq Keys
  BY DEF LCInv, LCTypeOK, Present
<1>2. ASSUME NEW k \in Keys, Get(k) PROVE LCInv'
  <2>1. CASE k \in expired
    BY <1>2, <2>1, RemoveStep DEF Get
  <2>2. CASE k \notin expired
    BY <1>1, <1>2, <2>2, TouchStep DEF Get
  <2> QED
    BY <2>1, <2>2
<1>3. ASSUME NEW k \in Keys, GetStale(k) PROVE LCInv'
  BY <1>1, <1>3, TouchStep DEF GetStale
<1>4. ASSUME NEW k \in Keys, Set(k) PROVE LCInv'
  <2>1. <<k>> \in Seq(Keys) /\ Distinct(<<k>>)
    BY DEF Distinct
  <2> QED
    BY <1>4, <2>1, StoreStep DEF Set
<1>5. ASSUME NEW k \in Keys, Delete(k) PROVE LCInv'
  BY <1>5, RemoveStep DEF Delete
<1>6. ASSUME NEW k \in Keys, Expire(k) PROVE LCInv'
  BY <1>1, <1>6, TouchStep DEF Expire
<1>7. ASSUME NEW k \in Keys, TimePasses(k) PROVE LCInv'
  BY <1>1, <1>7 DEF TimePasses, LCInv, LCTypeOK, OrderIsRecency, KeptWhileRecent, Present
<1>8. CASE MSet
  <2>a. PICK n \in 2..Cardinality(Keys) :
            \E ks \in [1..n -> Keys] : Cardinality(Listed(ks)) = n /\ Store(ks)
    BY <1>8 DEF MSet
  <2>1. PICK ks \in [1..n -> Keys] : Cardinality(Listed(ks)) = n /\ Store(ks)
    BY <2>a
  <2>2. n \in Nat
    BY PrefixAssumption, FS_CardinalityType
  <2> QED
    BY <2>1, <2>2, BatchFacts, StoreStep
<1>9. CASE DeleteMany \/ DeletePrefix \/ Clear
  BY <1>9, RemoveStep DEF DeleteMany, DeletePrefix, Clear
<1>10. CASE UNCHANGED lcVars
  BY <1>10 DEF lcVars, LCInv, LCTypeOK, OrderIsRecency, KeptWhileRecent, Present
<1> QED
  BY <1>2, <1>3, <1>4, <1>5, <1>6, <1>7, <1>8, <1>9, <1>10 DEF LCNext

-----------------------------------------------------------------------------
\* The list implements LeastRecentlyUsed

\* In a list whose keys differ, what stands behind a place has a greater number.
LEMMA BehindFacts ==
    ASSUME NEW ks \in Seq(Keys), Distinct(ks), NEW p \in DOMAIN ks
    PROVE  /\ \A n \in DOMAIN ks : ks[n] \in Behind(ks, ks[p]) <=> p < n
           /\ Cardinality(Behind(ks, ks[p])) = Len(ks) - p
<1>1. /\ Len(ks) \in Nat /\ DOMAIN ks = 1..Len(ks) /\ p \in Nat
      /\ \A n \in DOMAIN ks : ks[n] \in Listed(ks) /\ n \in Int
  BY DEF Listed
<1>2. \A n \in DOMAIN ks : ks[n] \in Behind(ks, ks[p]) <=> p < n
  BY <1>1 DEF Behind, Distinct
<1> DEFINE f == [n \in 1..(Len(ks) - p) |-> ks[p + n]]
           B == Behind(ks, ks[p])
<1>3. \A n \in 1..(Len(ks) - p) : p + n \in DOMAIN ks /\ p < p + n /\ n \in Int
  BY <1>1
<1>4. \A n \in 1..(Len(ks) - p) : f[n] = ks[p + n] /\ f[n] \in B
  BY <1>2, <1>3
<1>5. f \in [1..(Len(ks) - p) -> B]
  BY <1>4
<1> HIDE DEF f
<1>6. \A m, n \in 1..(Len(ks) - p) : f[m] = f[n] => m = n
  <2> SUFFICES ASSUME NEW m \in 1..(Len(ks) - p), NEW n \in 1..(Len(ks) - p), f[m] = f[n]
               PROVE  m = n
    OBVIOUS
  <2>1. p + m = p + n
    BY <1>3, <1>4 DEF Distinct
  <2> QED
    BY <1>1, <1>3, <2>1
<1>7. \A k \in B : \E n \in 1..(Len(ks) - p) : f[n] = k
  <2> SUFFICES ASSUME NEW k \in B PROVE \E n \in 1..(Len(ks) - p) : f[n] = k
    OBVIOUS
  <2>1. PICK q \in DOMAIN ks : p < q /\ ks[q] = k
    BY <1>2 DEF Behind, Listed
  <2>2. q - p \in 1..(Len(ks) - p) /\ p + (q - p) = q
    BY <1>1, <2>1
  <2> QED
    BY <1>4, <2>1, <2>2
<1>8. f \in Injection(1..(Len(ks) - p), B) /\ f \in Surjection(1..(Len(ks) - p), B)
  BY <1>5, <1>6, <1>7 DEF Injection, IsInjective, Surjection
<1>9. IsFiniteSet(1..(Len(ks) - p)) /\ Cardinality(1..(Len(ks) - p)) = Len(ks) - p
  <2>1. Len(ks) - p \in Nat
    BY <1>1
  <2> DEFINE d == Len(ks) - p
  <2> HIDE DEF d
  <2>2. 1 \in Int /\ d \in Int /\ d >= 0
    BY <2>1 DEF d
  <2>3. IsFiniteSet(1..d) /\ Cardinality(1..d) = IF 1 > d THEN 0 ELSE d - 1 + 1
    BY <2>2, FS_Interval
  <2>4. Cardinality(1..d) = d
    BY <2>2, <2>3
  <2> QED
    BY <2>3, <2>4 DEF d
<1>10. Cardinality(B) = Len(ks) - p
  BY <1>8, <1>9, FS_Surjection
<1> QED
  BY <1>2, <1>10

\* The same of the key that stands at a place.
LEMMA BehindAt ==
    ASSUME NEW ks \in Seq(Keys), Distinct(ks), NEW p \in DOMAIN ks, NEW k, k = ks[p]
    PROVE  /\ Behind(ks, k) \subseteq Listed(ks)
           /\ \A n \in DOMAIN ks : ks[n] \in Behind(ks, k) <=> p < n
           /\ \A j : j \in Behind(ks, k) <=> \E n \in DOMAIN ks : p < n /\ j = ks[n]
<1> SUFFICES /\ Behind(ks, ks[p]) \subseteq Listed(ks)
             /\ \A n \in DOMAIN ks : ks[n] \in Behind(ks, ks[p]) <=> p < n
             /\ \A j : j \in Behind(ks, ks[p]) <=> \E n \in DOMAIN ks : p < n /\ j = ks[n]
  OBVIOUS
<1>1. Behind(ks, ks[p]) \subseteq Listed(ks)
  BY DEF Behind
<1>2. \A n \in DOMAIN ks : ks[n] \in Behind(ks, ks[p]) <=> p < n
  BY BehindFacts
<1>3. \A j : j \in Listed(ks) <=> \E n \in DOMAIN ks : j = ks[n]
  BY DEF Listed
<1> QED
  BY <1>1, <1>2, <1>3

\* Removing keys from a list changes nothing in the order of the others.
LEMMA BehindWithout ==
    ASSUME NEW ks \in Seq(Keys), Distinct(ks), NEW S
    PROVE  /\ Distinct(Without(ks, S))
           /\ \A k \in Listed(ks) : k \notin S => Behind(Without(ks, S), k) = Behind(ks, k) \ S
<1> DEFINE w == Without(ks, S)
<1>1. PICK f \in [DOMAIN w -> DOMAIN ks] :
          /\ \A n \in DOMAIN w : w[n] = ks[f[n]]
          /\ \A m, n \in DOMAIN w : m < n => f[m] < f[n]
  BY WithoutFacts
<1>2. w \in Seq(Keys) /\ Listed(w) = Listed(ks) \ S
  BY WithoutFacts
<1> HIDE DEF w
<1>3. /\ \A n \in DOMAIN w : n \in Int
      /\ \A n \in DOMAIN ks : n \in Int
  BY <1>2
<1>4. \A m, n \in DOMAIN w : f[m] < f[n] <=> m < n
  <2> SUFFICES ASSUME NEW m \in DOMAIN w, NEW n \in DOMAIN w, f[m] < f[n] PROVE m < n
    BY <1>1
  <2>1. m # n /\ ~(n < m)
    BY <1>1, <1>3
  <2> QED
    BY <1>3, <2>1
<1>5. Distinct(w)
  <2> SUFFICES ASSUME NEW m \in DOMAIN w, NEW n \in DOMAIN w, w[m] = w[n] PROVE m = n
    BY DEF Distinct
  <2>1. f[m] = f[n]
    BY <1>1 DEF Distinct
  <2> QED
    BY <1>1, <1>3, <2>1
<1>6. ASSUME NEW m \in DOMAIN w PROVE Behind(w, w[m]) = Behind(ks, w[m]) \ S
  <2>1. \A n \in DOMAIN w : w[n] \in Behind(w, w[m]) <=> m < n
    BY <1>2, <1>5, BehindFacts
  <2>2. \A n \in DOMAIN w : w[n] \in Behind(ks, w[m]) <=> m < n
    BY <1>1, <1>4, BehindFacts
  <2>3. \A k : k \in Behind(w, w[m]) \/ k \in Behind(ks, w[m]) \ S => \E n \in DOMAIN w : k = w[n]
    <3>1. \A k : k \in Listed(w) <=> \E n \in DOMAIN w : k = w[n]
      BY DEF Listed
    <3>2. Behind(w, w[m]) \subseteq Listed(w) /\ Behind(ks, w[m]) \subseteq Listed(ks)
      BY DEF Behind
    <3> QED
      BY <1>2, <3>1, <3>2
  <2>4. \A n \in DOMAIN w : w[n] \notin S
    BY <1>2 DEF Listed
  <2> QED
    BY <2>1, <2>2, <2>3, <2>4
<1>7. ASSUME NEW k \in Listed(ks), k \notin S PROVE Behind(w, k) = Behind(ks, k) \ S
  <2>1. PICK m \in DOMAIN w : k = w[m]
    BY <1>2, <1>7 DEF Listed
  <2> QED
    BY <1>6, <2>1
<1> QED
  BY <1>5, <1>7 DEF w

\* Behind the keys of a list stand those that are appended to it.
LEMMA BehindAppended ==
    ASSUME NEW w \in Seq(Keys), Distinct(w), NEW ks \in Seq(Keys), Distinct(ks),
           Listed(w) \cap Listed(ks) = {}
    PROVE  /\ Distinct(w \o ks) /\ Listed(w \o ks) = Listed(w) \cup Listed(ks)
           /\ \A k \in Listed(w) : Behind(w \o ks, k) = Behind(w, k) \cup Listed(ks)
           /\ \A k \in Listed(ks) : Behind(w \o ks, k) = Behind(ks, k)
<1> DEFINE all == w \o ks
<1>1. /\ Len(w) \in Nat /\ DOMAIN w = 1..Len(w)
      /\ Len(ks) \in Nat /\ DOMAIN ks = 1..Len(ks)
      /\ all \in Seq(Keys) /\ DOMAIN all = 1..(Len(w) + Len(ks))
  OBVIOUS
<1>2. \A n \in DOMAIN w : n \in DOMAIN all /\ all[n] = w[n]
  BY <1>1
<1>3. \A n \in DOMAIN ks : Len(w) + n \in DOMAIN all /\ all[Len(w) + n] = ks[n]
  BY <1>1
<1>a. all \in Seq(Keys)
  OBVIOUS
<1> HIDE DEF all
<1>4. \A n \in DOMAIN all : n \in DOMAIN w \/ \E m \in DOMAIN ks : n = Len(w) + m
  <2> SUFFICES ASSUME NEW n \in DOMAIN all, n \notin DOMAIN w
               PROVE  \E m \in DOMAIN ks : n = Len(w) + m
    OBVIOUS
  <2>1. n - Len(w) \in DOMAIN ks /\ n = Len(w) + (n - Len(w))
    BY <1>1
  <2> QED
    BY <2>1
<1>5. /\ \A n \in DOMAIN w : w[n] \in Listed(w) /\ w[n] \notin Listed(ks)
      /\ \A n \in DOMAIN ks : ks[n] \in Listed(ks) /\ ks[n] \notin Listed(w)
      /\ \A k \in Listed(w) : \E n \in DOMAIN w : k = w[n]
      /\ \A k \in Listed(ks) : \E n \in DOMAIN ks : k = ks[n]
      /\ \A k \in Listed(all) : \E n \in DOMAIN all : k = all[n]
      /\ \A n \in DOMAIN all : all[n] \in Listed(all)
  BY DEF Listed
<1>6. Listed(all) = Listed(w) \cup Listed(ks)
  BY <1>2, <1>3, <1>4, <1>5
<1>7. Distinct(all)
  <2> SUFFICES ASSUME NEW m \in DOMAIN all, NEW n \in DOMAIN all, all[m] = all[n] PROVE m = n
    BY DEF Distinct
  <2>1. CASE m \in DOMAIN w
    <3>1. n \in DOMAIN w
      BY <1>2, <1>3, <1>4, <1>5, <2>1
    <3> QED
      BY <1>2, <2>1, <3>1 DEF Distinct
  <2>2. CASE m \notin DOMAIN w
    <3>1. PICK a \in DOMAIN ks : m = Len(w) + a
      BY <1>4, <2>2
    <3>2. n \notin DOMAIN w
      BY <1>2, <1>3, <1>5, <3>1
    <3>3. PICK b \in DOMAIN ks : n = Len(w) + b
      BY <1>4, <3>2
    <3> QED
      BY <1>3, <3>1, <3>3 DEF Distinct
  <2> QED
    BY <2>1, <2>2
<1>8. ASSUME NEW k \in Listed(w) PROVE Behind(all, k) = Behind(w, k) \cup Listed(ks)
  <2>1. PICK p \in DOMAIN w : k = w[p]
    BY <1>5
  <2>2. \A j : j \in Behind(w, k) <=> \E n \in DOMAIN w : p < n /\ j = w[n]
    BY <2>1, BehindAt
  <2>3. p \in DOMAIN all /\ k = all[p]
    BY <1>2, <2>1
  <2>4. \A j : j \in Behind(all, k) <=> \E n \in DOMAIN all : p < n /\ j = all[n]
    BY <1>a, <1>7, <2>3, BehindAt
  <2>5. \A n \in DOMAIN ks : p < Len(w) + n
    BY <1>1
  <2>6. ASSUME NEW j \in Behind(all, k) PROVE j \in Behind(w, k) \cup Listed(ks)
    BY <1>2, <1>3, <1>4, <1>5, <2>2, <2>4
  <2>7. ASSUME NEW j \in Behind(w, k) PROVE j \in Behind(all, k)
    BY <1>2, <2>2, <2>4
  <2>8. ASSUME NEW j \in Listed(ks) PROVE j \in Behind(all, k)
    BY <1>3, <1>5, <2>4, <2>5
  <2> QED
    BY <2>6, <2>7, <2>8
<1>9. ASSUME NEW k \in Listed(ks) PROVE Behind(all, k) = Behind(ks, k)
  <2>1. PICK p \in DOMAIN ks : k = ks[p]
    BY <1>5
  <2>2. \A j : j \in Behind(ks, k) <=> \E n \in DOMAIN ks : p < n /\ j = ks[n]
    BY <2>1, BehindAt
  <2>3. Len(w) + p \in DOMAIN all /\ k = all[Len(w) + p]
    BY <1>3, <2>1
  <2>4. \A j : j \in Behind(all, k) <=> \E n \in DOMAIN all : Len(w) + p < n /\ j = all[n]
    BY <1>a, <1>7, <2>3, BehindAt
  <2>5. \A n \in DOMAIN ks : Len(w) + p < Len(w) + n <=> p < n
    BY <1>1
  <2>6. \A n \in DOMAIN w : ~(Len(w) + p < n)
    BY <1>1
  <2>7. ASSUME NEW j \in Behind(all, k) PROVE j \in Behind(ks, k)
    <3>1. PICK n \in DOMAIN all : Len(w) + p < n /\ j = all[n]
      BY <2>4
    <3>2. PICK m \in DOMAIN ks : n = Len(w) + m
      BY <1>4, <2>6, <3>1
    <3> QED
      BY <1>3, <2>2, <2>5, <3>1, <3>2
  <2>8. ASSUME NEW j \in Behind(ks, k) PROVE j \in Behind(all, k)
    BY <1>3, <2>2, <2>4, <2>5
  <2> QED
    BY <2>7, <2>8
<1> QED
  BY <1>6, <1>7, <1>8, <1>9 DEF all

\* The keys that are evicted are those that max_size others stand behind.
LEMMA BehindEvicted ==
    ASSUME NEW ks \in Seq(Keys), Distinct(ks)
    PROVE  Listed(Evict(ks)) = {k \in Listed(ks) : Cardinality(Behind(ks, k)) < MaxSize}
<1> DEFINE cut == Evict(ks)
<1>1. PICK off \in 0..Len(ks) : Cuts(ks, off)
  BY EvictFacts
<1>a. cut \in Seq(Keys) /\ Len(cut) <= MaxSize
  BY EvictFacts
<1>b. DOMAIN cut = 1..(Len(ks) - off)
  BY <1>1 DEF Cuts
<1>2. /\ Len(ks) \in Nat /\ off \in Nat /\ DOMAIN ks = 1..Len(ks) /\ MaxSize \in Nat /\ MaxSize > 0
      /\ off > 0 => Len(ks) = off + MaxSize
      /\ DOMAIN cut = 1..(Len(ks) - off)
      /\ \A n \in DOMAIN cut : n + off \in DOMAIN ks /\ cut[n] = ks[n + off]
  BY <1>1, SizeAssumption DEF Cuts
<1> HIDE DEF cut
<1>d. off \in Int /\ off >= 0 /\ Len(ks) \in Int /\ DOMAIN ks = 1..Len(ks)
  OBVIOUS
<1>c. /\ \A m \in DOMAIN cut : m \in Int /\ m > 0
      /\ \A n \in DOMAIN ks : n \in Int
  BY <1>b
<1>3. off = 0 => Len(ks) <= MaxSize
  <2>1. ASSUME off = 0 PROVE DOMAIN cut = 1..Len(ks)
    BY <1>2, <2>1
  <2>2. DOMAIN cut = 1..Len(cut) /\ Len(cut) \in Nat
    BY <1>a
  <2>3. ASSUME off = 0 PROVE Len(cut) = Len(ks)
    BY <1>2, <2>1, <2>2, <2>3
  <2> QED
    BY <1>a, <1>2, <2>3
<1>4. \A n \in DOMAIN ks : n > off <=> \E m \in DOMAIN cut : n = m + off
  <2>a. \A m \in DOMAIN cut : m + off > off
    BY <1>c, <1>d
  <2> SUFFICES ASSUME NEW n \in DOMAIN ks, n > off PROVE \E m \in DOMAIN cut : n = m + off
    BY <2>a
  <2>1. n - off \in DOMAIN cut /\ n = (n - off) + off
    BY <1>b, <1>d
  <2> QED
    BY <2>1
<1>6. \A n \in DOMAIN ks : ks[n] \in Listed(cut) <=> n > off
  <2>1. \A n \in DOMAIN ks : ks[n] \in Listed(cut) <=> \E m \in DOMAIN cut : ks[n] = ks[m + off]
    BY <1>2 DEF Listed
  <2> QED
    BY <1>2, <1>4, <2>1 DEF Distinct
<1>7. \A n \in DOMAIN ks : Cardinality(Behind(ks, ks[n])) < MaxSize <=> n > off
  <2> TAKE n \in DOMAIN ks
  <2>1. Cardinality(Behind(ks, ks[n])) = Len(ks) - n
    BY BehindFacts
  <2>2. CASE off > 0
    BY <1>2, <2>1, <2>2
  <2>3. CASE off = 0
    BY <1>2, <1>3, <2>1, <2>3
  <2>4. off > 0 \/ off = 0
    BY <1>d
  <2> QED
    BY <2>2, <2>3, <2>4
<1>8. Listed(cut) \subseteq Listed(ks)
  BY <1>2 DEF Listed
<1>9. Listed(cut) = {k \in Listed(ks) : Cardinality(Behind(ks, k)) < MaxSize}
  <2>1. \A k \in Listed(ks) : \E n \in DOMAIN ks : k = ks[n]
    BY DEF Listed
  <2> QED
    BY <1>6, <1>7, <1>8, <2>1
<1> QED
  BY <1>9 DEF cut

\* The cardinality that the abstract specification counts with.
LEMMA SameCardinality == \A S : LRU!Cardinality(S) = Cardinality(S)
BY DEF Cardinality, LRU!Cardinality

\* What the order of the list says in the terms of the abstract specification.
LEMMA SameTerms ==
    /\ Present = Listed(order)
    /\ \A ks : LRU!Members(ks) = Listed(ks)
    /\ \A ks, k : LRU!After(ks, k) = Behind(ks, k)
<1>1. Present = Listed(order) /\ \A ks : LRU!Members(ks) = Listed(ks)
  BY DEF Present, Listed, LRU!Members
<1>2. ASSUME NEW ks, NEW k PROVE LRU!After(ks, k) = Behind(ks, k)
  BY <1>1 DEF LRU!After, Behind
<1> QED
  BY <1>1, <1>2

\* The keys of the list differ, for their uses are in an order.
LEMMA OrderIsDistinct == LCTypeOK /\ OrderIsRecency => Distinct(order)
<1> SUFFICES ASSUME LCTypeOK, OrderIsRecency,
                    NEW m \in DOMAIN order, NEW n \in DOMAIN order, order[m] = order[n], m # n
             PROVE  FALSE
  BY DEF Distinct
<1>1. m \in Int /\ n \in Int
  BY DEF LCTypeOK
<1>2. m < n \/ n < m
  BY <1>1
<1> QED
  BY <1>2 DEF OrderIsRecency

\* No key was used since itself.
NotSinceItself == \A k \in Keys : k \notin since[k]

LCRInv == LCInv /\ NotSinceItself

\* Read in the history or in the list, it is the same keys that are newer.
LEMMA NewerIsBehind ==
    ASSUME LCRInv, NEW k \in Present
    PROVE  since[k] \cap Present = Behind(order, k)
<1>1. order \in Seq(Keys) /\ Distinct(order) /\ OrderIsRecency /\ k \notin since[k]
  BY OrderIsDistinct DEF LCRInv, LCInv, LCTypeOK, NotSinceItself, Present
<1>2. PICK p \in DOMAIN order : k = order[p]
  BY DEF Present
<1>3. \A j : j \in Behind(order, k) <=> \E n \in DOMAIN order : p < n /\ j = order[n]
  BY <1>1, <1>2, BehindAt
<1>4. ASSUME NEW n \in DOMAIN order PROVE order[n] \in since[k] <=> p < n
  <2>1. p < n \/ n < p \/ n = p
    BY <1>1
  <2>2. p < n => ~(n < p) /\ n # p
    BY <1>1
  <2>3. p < n => order[n] \in since[k]
    BY <1>1, <1>2 DEF OrderIsRecency
  <2>4. n < p => order[n] \notin since[k]
    BY <1>1, <1>2 DEF OrderIsRecency
  <2> QED
    BY <1>1, <1>2, <2>1, <2>2, <2>3, <2>4
<1>5. \A j : j \in Present <=> \E n \in DOMAIN order : j = order[n]
  BY DEF Present
<1> QED
  BY <1>3, <1>4, <1>5

\* To put some keys last and to evict what is too old is to use them.
LEMMA UseImplements ==
    ASSUME LCRInv, NEW ks \in Seq(Keys), Distinct(ks), Used(ks),
           order' = Evict(Without(order, Listed(ks)) \o ks)
    PROVE  LRU!Use(ks)
<1> DEFINE w == Without(order, Listed(ks))
           all == w \o ks
<1>1. order \in Seq(Keys) /\ Distinct(order) /\ Listed(ks) \subseteq Keys /\ Present \subseteq Keys
  BY OrderIsDistinct DEF LCRInv, LCInv, LCTypeOK, Listed, Present
<1>2. /\ w \in Seq(Keys) /\ Distinct(w) /\ Listed(w) = Listed(order) \ Listed(ks)
      /\ \A k \in Listed(w) : Behind(w, k) = Behind(order, k) \ Listed(ks)
  BY <1>1, WithoutFacts, BehindWithout
<1> HIDE DEF w
<1>3. /\ all \in Seq(Keys) /\ Distinct(all) /\ Listed(all) = Listed(w) \cup Listed(ks)
      /\ \A k \in Listed(w) : Behind(all, k) = Behind(w, k) \cup Listed(ks)
      /\ \A k \in Listed(ks) : Behind(all, k) = Behind(ks, k)
  <2>1. Listed(w) \cap Listed(ks) = {}
    BY <1>2
  <2>2. all \in Seq(Keys)
    BY <1>2
  <2> QED
    BY <1>2, <2>1, <2>2, BehindAppended
<1>4. order' = Evict(all)
  BY DEF w
<1> HIDE DEF all
<1>5. Listed(order') = {k \in Listed(all) : Cardinality(Behind(all, k)) < MaxSize}
  BY <1>3, <1>4, BehindEvicted
<1>6. Listed(all) = Present \cup Listed(ks)
  BY <1>2, <1>3, SameTerms
<1>7. ASSUME NEW k \in Listed(all) PROVE LRU!Newer(ks, k) \cap Listed(all) = Behind(all, k)
  <2>1. CASE k \in Listed(ks)
    <3>1. Behind(ks, k) \subseteq Listed(ks)
      BY DEF Behind
    <3> QED
      BY <1>3, <2>1, <3>1, SameTerms DEF LRU!Newer
  <2>2. CASE k \notin Listed(ks)
    <3>1. k \in Listed(w) /\ k \in Present
      BY <1>3, <1>6, <2>2
    <3>2. LRU!Newer(ks, k) = since[k] \cup Listed(ks)
      BY <2>2, SameTerms DEF LRU!Newer
    <3>3. since[k] \cap Present = Behind(order, k)
      BY <3>1, NewerIsBehind
    <3> QED
      BY <1>2, <1>3, <1>6, <3>1, <3>2, <3>3
  <2> QED
    BY <2>1, <2>2
<1>8. Present' = {k \in Present \cup LRU!Members(ks) :
                    Cardinality(LRU!Newer(ks, k) \cap (Present \cup LRU!Members(ks))) < MaxSize}
  <2>1. Present' = Listed(order')
    BY DEF Present, Listed
  <2>2. LRU!Members(ks) = Listed(ks)
    BY SameTerms
  <2> QED
    BY <1>5, <1>6, <1>7, <2>1, <2>2
<1>9. since' = [k \in Keys |-> LRU!Newer(ks, k)]
  BY SameTerms DEF Used, LRU!Newer
<1> QED
  BY <1>8, <1>9, SameCardinality DEF LRU!Use

\* To remove some keys from the list is to remove them.
LEMMA RemovalImplements ==
    ASSUME LCRInv, NEW S, Remove(S)
    PROVE  LRU!Remove(S)
<1>1. order \in Seq(Keys)
  BY DEF LCRInv, LCInv, LCTypeOK
<1>2. Listed(order') = Listed(order) \ S
  BY <1>1, WithoutFacts DEF Remove
<1>3. Present' = Present \ S
  BY <1>2 DEF Present, Listed
<1> QED
  BY <1>3 DEF LRU!Remove, Remove

\* Keys that differ are a batch, and so is one key.
LEMMA DistinctIsABatch ==
    ASSUME NEW n \in 1..Cardinality(Keys), NEW ks \in [1..n -> Keys], Distinct(ks)
    PROVE  ks \in LRU!Batches
<1>1. ks \in UNION {[1..i -> Keys] : i \in 1..LRU!Cardinality(Keys)}
  BY SameCardinality
<1> QED
  BY <1>1 DEF LRU!Batches, Distinct

LEMMA OneIsABatch == \A k \in Keys : <<k>> \in LRU!Batches
<1> SUFFICES ASSUME NEW k \in Keys PROVE <<k>> \in LRU!Batches
  OBVIOUS
<1>1. Cardinality(Keys) \in Nat /\ Cardinality(Keys) # 0
  BY PrefixAssumption, FS_CardinalityType, FS_EmptySet
<1>2. 1 \in 1..Cardinality(Keys)
  BY <1>1
<1>3. <<k>> \in [1..1 -> Keys] /\ Distinct(<<k>>)
  BY DEF Distinct
<1> QED
  BY <1>2, <1>3, DistinctIsABatch

\* A key that is there is moved, and nothing is evicted.
LEMMA TouchImplements ==
    ASSUME LCRInv, NEW k \in Present, Touch(k)
    PROVE  LRU!LRUNext
<1>1. k \in Keys /\ order \in Seq(Keys) /\ Len(order) <= MaxSize /\ k \in Listed(order)
  BY SameTerms DEF LCRInv, LCInv, LCTypeOK, Present
<1>2. <<k>> \in Seq(Keys) /\ Distinct(<<k>>) /\ Listed(<<k>>) = {k}
  BY <1>1 DEF Distinct, Listed
<1> DEFINE w == Without(order, {k})
<1>3. w \in Seq(Keys) /\ Len(w) < Len(order)
  BY <1>1, WithoutFacts
<1>4. order' = Append(w, k) /\ Used(<<k>>)
  BY DEF Touch
<1> HIDE DEF w
<1>5. Append(w, k) = w \o <<k>> /\ Len(w \o <<k>>) <= MaxSize
  BY <1>1, <1>3, SizeAssumption
<1>6. Len(w \o <<k>>) \in Nat
  BY <1>1, <1>3
<1>7. Evict(w \o <<k>>) = w \o <<k>>
  BY <1>5, <1>6, SizeAssumption DEF Evict
<1>8. LRU!Use(<<k>>)
  BY <1>2, <1>4, <1>5, <1>7, UseImplements DEF w
<1> QED
  BY <1>1, <1>8, OneIsABatch DEF LRU!LRUNext

\* Uses leave every key out of what was used since it.
LEMMA UsedNotSinceItself ==
    ASSUME LCTypeOK, NotSinceItself, NEW ks \in Seq(Keys), Distinct(ks), Used(ks)
    PROVE  NotSinceItself'
<1>1. ASSUME NEW k \in Keys PROVE k \notin Behind(ks, k)
  <2> SUFFICES ASSUME NEW m \in DOMAIN ks, NEW n \in DOMAIN ks, m < n, ks[m] = k, ks[n] = k
               PROVE  FALSE
    BY DEF Behind
  <2>1. m = n /\ m \in Int
    BY DEF Distinct
  <2> QED
    BY <2>1
<1> QED
  BY <1>1 DEF Used, NotSinceItself, LCTypeOK

LEMMA LCRInitInv == LCInit => LCRInv
BY LCInitInv DEF LCRInv, NotSinceItself, LCInit

LEMMA LCRStepInv == LCRInv /\ [LCNext]_lcVars => LCRInv'
<1> SUFFICES ASSUME LCRInv, [LCNext]_lcVars PROVE NotSinceItself'
  BY LCStepInv DEF LCRInv
<1>1. LCTypeOK /\ NotSinceItself /\ Present \subseteq Keys
  BY DEF LCRInv, LCInv, LCTypeOK, Present
<1>2. ASSUME since' = since PROVE NotSinceItself'
  BY <1>1, <1>2 DEF NotSinceItself
<1>3. ASSUME NEW k \in Keys, Used(<<k>>) PROVE NotSinceItself'
  <2>1. <<k>> \in Seq(Keys) /\ Distinct(<<k>>)
    BY DEF Distinct
  <2> QED
    BY <1>1, <1>3, <2>1, UsedNotSinceItself
<1>4. CASE MSet
  <2>1. PICK n \in 2..Cardinality(Keys) :
            \E ks \in [1..n -> Keys] : Cardinality(Listed(ks)) = n /\ Store(ks)
    BY <1>4 DEF MSet
  <2>2. PICK ks \in [1..n -> Keys] : Cardinality(Listed(ks)) = n /\ Store(ks)
    BY <2>1
  <2>3. n \in Nat
    BY PrefixAssumption, FS_CardinalityType
  <2> QED
    BY <1>1, <2>2, <2>3, BatchFacts, UsedNotSinceItself DEF Store
<1>5. CASE \E k \in Keys : Get(k) \/ GetStale(k) \/ Set(k) \/ Expire(k)
  BY <1>2, <1>3, <1>5 DEF Get, GetStale, Set, Store, Expire, Touch, Remove
<1>6. CASE (\E k \in Keys : Delete(k) \/ TimePasses(k)) \/ DeleteMany \/ DeletePrefix \/ Clear
  BY <1>2, <1>6 DEF Delete, TimePasses, DeleteMany, DeletePrefix, Clear, Remove
<1> QED
  BY <1>2, <1>4, <1>5, <1>6 DEF LCNext, lcVars

LEMMA NextImplements ==
    ASSUME LCRInv, [LCNext]_lcVars
    PROVE  [LRU!LRUNext]_<<Present, since>>
<1>1. Present \subseteq Keys
  BY DEF LCRInv, LCInv, LCTypeOK, Present
<1>2. ASSUME NEW S \in SUBSET Keys, Remove(S) PROVE LRU!LRUNext
  <2>1. LRU!Remove(S)
    BY <1>2, RemovalImplements
  <2> QED
    BY <2>1 DEF LRU!LRUNext
<1>3. ASSUME NEW ks \in LRU!Batches, ks \in Seq(Keys), Distinct(ks), Store(ks)
      PROVE  LRU!LRUNext
  BY <1>1, <1>3, UseImplements DEF Store, LRU!LRUNext
<1>4. ASSUME NEW k \in Keys, Get(k) \/ GetStale(k) \/ Expire(k) PROVE LRU!LRUNext
  <2>1. k \in Present
    BY <1>4 DEF Get, GetStale, Expire
  <2>2. {k} \in SUBSET Keys
    OBVIOUS
  <2>3. Touch(k) \/ Remove({k})
    BY <1>4 DEF Get, GetStale, Expire
  <2> QED
    BY <1>1, <1>2, <2>1, <2>2, <2>3, TouchImplements
<1>5. ASSUME NEW k \in Keys, Set(k) PROVE LRU!LRUNext
  <2>1. <<k>> \in Seq(Keys) /\ Distinct(<<k>>)
    BY DEF Distinct
  <2> QED
    BY <1>3, <1>5, <2>1, OneIsABatch DEF Set
<1>6. ASSUME NEW k \in Keys, Delete(k) PROVE LRU!LRUNext
  <2>1. {k} \in SUBSET Keys
    OBVIOUS
  <2> QED
    BY <1>2, <1>6, <2>1 DEF Delete
<1>7. CASE MSet
  <2>1. PICK n \in 2..Cardinality(Keys) :
            \E ks \in [1..n -> Keys] : Cardinality(Listed(ks)) = n /\ Store(ks)
    BY <1>7 DEF MSet
  <2>2. PICK ks \in [1..n -> Keys] : Cardinality(Listed(ks)) = n /\ Store(ks)
    BY <2>1
  <2>3. n \in 1..Cardinality(Keys) /\ n \in Nat
    BY PrefixAssumption, FS_CardinalityType
  <2>4. ks \in Seq(Keys) /\ Distinct(ks)
    BY <2>2, <2>3, BatchFacts
  <2>5. ks \in LRU!Batches
    BY <2>3, <2>4, DistinctIsABatch
  <2> QED
    BY <1>3, <2>2, <2>4, <2>5
<1>8. CASE DeleteMany \/ DeletePrefix \/ Clear
  <2>1. \A P \in Prefixes : Present \cap P \in SUBSET Keys
    BY <1>1
  <2>2. Keys \in SUBSET Keys
    OBVIOUS
  <2> QED
    BY <1>2, <1>8, <2>1, <2>2 DEF DeleteMany, DeletePrefix, Clear
<1>9. ASSUME order' = order, since' = since PROVE UNCHANGED <<Present, since>>
  BY <1>9 DEF Present
<1>10. CASE (\E k \in Keys : TimePasses(k)) \/ UNCHANGED lcVars
  BY <1>9, <1>10 DEF TimePasses, lcVars
<1> QED
  BY <1>4, <1>5, <1>6, <1>7, <1>8, <1>10 DEF LCNext

-----------------------------------------------------------------------------
\* The theorems

\* There are never more than max_size entries, and every variable keeps its kind.
THEOREM LCTypeCorrect == LCSpec => []LCTypeOK
BY LCInitInv, LCStepInv, PTL DEF LCSpec, LCInv

\* The entries stand in the order of their last use, whatever hits, batches, removals
\* and evictions there are.
THEOREM LCOrderIsRecency == LCSpec => []OrderIsRecency
BY LCInitInv, LCStepInv, PTL DEF LCSpec, LCInv

\* What was stored is there until it is removed, found expired, or max_size other keys
\* have been used after it, for every size of the cache and of a batch.
THEOREM LCKeptWhileRecent == LCSpec => []KeptWhileRecent
BY LCInitInv, LCStepInv, PTL DEF LCSpec, LCInv

\* The list evicts exactly the least recently used keys: it implements
\* LeastRecentlyUsed, for every size and whatever batches are stored.
THEOREM LCImplementsLRU == LCSpec => ImplementsLRU
<1>1. LCInit => LRU!LRUInit
  BY DEF LCInit, LRU!LRUInit, Present
<1>2. LCRInv /\ [LCNext]_lcVars => [LRU!LRUNext]_<<Present, since>>
  BY NextImplements
<1> QED
  BY <1>1, <1>2, LCRInitInv, LCRStepInv, PTL DEF LCSpec, ImplementsLRU, LRU!LRUSpec

=============================================================================
