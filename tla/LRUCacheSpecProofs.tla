------------------------- MODULE LRUCacheSpecProofs -------------------------
(***************************************************************************)
(* Proofs of the properties of LRUCacheSpec, for any keys, values,         *)
(* capacity and number of calls.                                           *)
(*                                                                         *)
(* Every operation of the cache is a removal of one position, a push of    *)
(* one entry, or both; the inductive invariant says that the sequence is   *)
(* in the order of last use, and one lemma for each of the two says that   *)
(* this is kept.                                                           *)
(***************************************************************************)
EXTENDS LRUCacheSpec, LRUCacheProofs

\* The entries are in the order of last use, most recent first.
Ordered(c, use) == \A i, j \in 1..Len(c) : i < j => use[c[i].key] > use[c[j].key]

\* Each entry holds the value last put under its key.
Current(c, put) == \A i \in 1..Len(c) : c[i].value = put[c[i].key]

Stored == Values \cup {CHOOSE v \in Values : TRUE}

RecencyInv ==
    /\ capacity \in Nat /\ calls \in Nat
    /\ cached \in Seq(Entries(Keys, Stored))
    /\ lastUse \in [Keys -> Nat] /\ lastPut \in [Keys -> Stored]
    /\ \A k \in Keys : lastUse[k] <= calls
    /\ Ordered(cached, lastUse)
    /\ Current(cached, lastPut)
    /\ Bounded

\* An order of last use has each key once.
LEMMA OrderedDistinct ==
    ASSUME NEW K, NEW V, NEW c \in Seq(Entries(K, V)), NEW use \in [K -> Nat], Ordered(c, use)
    PROVE  DistinctKeys(c)
<1> SUFFICES ASSUME NEW i \in 1..Len(c), NEW j \in 1..Len(c), c[i].key = c[j].key, i # j
             PROVE  FALSE
  BY DEF DistinctKeys
<1>1. Len(c) \in Nat /\ c[i] \in Entries(K, V)
  BY LenProperties, ElementOfSeq
<1>2. use[c[i].key] \in Nat
  BY <1>1 DEF Entries
<1>3. i < j \/ j < i
  BY <1>1
<1>4. use[c[i].key] > use[c[j].key] \/ use[c[j].key] > use[c[i].key]
  BY <1>3 DEF Ordered
<1> QED BY <1>2, <1>4

\* list.Remove keeps the order and the values of the other entries.
LEMMA DropKeeps ==
    ASSUME NEW K, NEW V, NEW c \in Seq(Entries(K, V)), NEW p \in 1..Len(c),
           NEW use \in [K -> Nat], NEW put, Ordered(c, use), Current(c, put)
    PROVE  LET d == Without(c, p) IN
           /\ d \in Seq(Entries(K, V)) /\ Len(d) = Len(c) - 1
           /\ Ordered(d, use) /\ Current(d, put)
           /\ \A i \in 1..Len(d) : d[i].key # c[p].key
<1> DEFINE d == Without(c, p)
<1>1. Len(c) \in Nat
  BY LenProperties
<1>2. d \in Seq(Entries(K, V)) /\ Len(d) = Len(c) - 1
  BY WithoutProperties
<1>3. \A m \in 1..(Len(c) - 1) : /\ m < p => d[m] = c[m]
                                 /\ ~(m < p) => d[m] = c[m + 1] /\ m + 1 \in 1..Len(c)
  BY <1>1 DEF Without
<1> HIDE DEF d
<1>4. Ordered(d, use)
  <2> SUFFICES ASSUME NEW i \in 1..Len(d), NEW j \in 1..Len(d), i < j
               PROVE  use[d[i].key] > use[d[j].key]
    BY DEF Ordered
  <2>1. PICK a \in 1..Len(c), b \in 1..Len(c) : a < b /\ d[i] = c[a] /\ d[j] = c[b]
    <3>1. i \in 1..(Len(c) - 1) /\ j \in 1..(Len(c) - 1)
      BY <1>2
    <3>2. CASE j < p
      <4>1. i < p /\ i \in 1..Len(c) /\ j \in 1..Len(c)
        BY <1>1, <3>1, <3>2
      <4> QED BY <1>3, <3>1, <3>2, <4>1
    <3>3. CASE i < p /\ ~(j < p)
      <4>1. i < j + 1 /\ i \in 1..Len(c)
        BY <1>1, <3>1
      <4> QED BY <1>3, <3>1, <3>3, <4>1
    <3>4. CASE ~(i < p)
      <4>1. i + 1 < j + 1 /\ ~(j < p)
        BY <1>1, <3>1, <3>4
      <4> QED BY <1>3, <3>1, <3>4, <4>1
    <3> QED BY <1>1, <3>1, <3>2, <3>3, <3>4
  <2> QED BY <2>1 DEF Ordered
<1>5. \A i \in 1..Len(d) : \E a \in 1..Len(c) : a # p /\ d[i] = c[a]
  BY <1>1, <1>2, <1>3
<1>6. Current(d, put)
  BY <1>5 DEF Current
<1>7. \A i \in 1..Len(d) : d[i].key # c[p].key
  BY <1>5, OrderedDistinct DEF DistinctKeys
<1> QED BY <1>2, <1>4, <1>6, <1>7 DEF d

\* An entry pushed, and used, after all others keeps the order, and the value
\* it holds is the last one put.
LEMMA PushKeeps ==
    ASSUME NEW K, NEW V, NEW r \in Seq(Entries(K, V)), NEW e \in Entries(K, V), NEW t \in Nat,
           NEW use \in [K -> Nat], NEW put \in [K -> V], \A k \in K : use[k] < t,
           Ordered(r, use), Current(r, put), \A i \in 1..Len(r) : r[i].key # e.key
    PROVE  LET d == Push(e, r) IN
           /\ d \in Seq(Entries(K, V)) /\ Len(d) = Len(r) + 1
           /\ Ordered(d, [use EXCEPT ![e.key] = t])
           /\ Current(d, [put EXCEPT ![e.key] = e.value])
<1> DEFINE d == Push(e, r)
           u == [use EXCEPT ![e.key] = t]
<1>1. /\ d \in Seq(Entries(K, V)) /\ Len(d) = Len(r) + 1 /\ d[1] = e
      /\ \A m \in 2..(Len(r) + 1) : d[m] = r[m - 1]
  BY PushProperties
<1>2. Len(r) \in Nat
  BY LenProperties
<1>3. e.key \in K /\ \A i \in 1..Len(r) : r[i].key \in K
  <2>1. \A i \in 1..Len(r) : r[i] \in Entries(K, V)
    BY ElementOfSeq
  <2> QED BY <2>1 DEF Entries
<1>4. u[e.key] = t /\ \A i \in 1..Len(r) : u[r[i].key] = use[r[i].key]
  BY <1>3
<1> HIDE DEF d, u
<1>5. \A i \in 1..Len(d) : i # 1 => i - 1 \in 1..Len(r) /\ d[i] = r[i - 1]
  BY <1>1, <1>2
<1>6. Ordered(d, u)
  <2> SUFFICES ASSUME NEW i \in 1..Len(d), NEW j \in 1..Len(d), i < j
               PROVE  u[d[i].key] > u[d[j].key]
    BY DEF Ordered
  <2>1. j - 1 \in 1..Len(r) /\ d[j] = r[j - 1] /\ u[d[j].key] = use[r[j - 1].key]
    BY <1>1, <1>2, <1>4, <1>5
  <2>2. use[r[j - 1].key] \in Nat /\ use[r[j - 1].key] < t
    BY <1>3, <2>1
  <2>3. CASE i = 1
    BY <1>1, <1>4, <2>1, <2>2, <2>3
  <2>4. CASE i # 1
    <3>1. i - 1 \in 1..Len(r) /\ i - 1 < j - 1 /\ u[d[i].key] = use[r[i - 1].key]
      BY <1>2, <1>4, <1>5, <2>1, <2>4
    <3> QED BY <2>1, <3>1 DEF Ordered
  <2> QED BY <2>3, <2>4
<1>7. Current(d, [put EXCEPT ![e.key] = e.value])
  <2> SUFFICES ASSUME NEW i \in 1..Len(d)
               PROVE  d[i].value = [put EXCEPT ![e.key] = e.value][d[i].key]
    BY DEF Current
  <2>1. CASE i = 1
    BY <1>1, <1>3, <2>1
  <2>2. CASE i # 1
    BY <1>3, <1>5, <2>2 DEF Current
  <2> QED BY <2>1, <2>2
<1> QED BY <1>1, <1>6, <1>7 DEF d, u

-----------------------------------------------------------------------------

LEMMA RecencyInit == Init => RecencyInv
<1> SUFFICES ASSUME Init PROVE RecencyInv
  OBVIOUS
<1>1. capacity \in Nat /\ calls \in Nat /\ cached = <<>> /\ Len(cached) = 0
  BY BoundsAssumption DEF Init
<1>2. cached \in Seq(Entries(Keys, Stored)) /\ lastUse \in [Keys -> Nat]
  BY <1>1 DEF Init
<1>3. lastPut \in [Keys -> Stored] /\ \A k \in Keys : lastUse[k] <= calls
  BY DEF Init, Stored
<1> QED BY <1>1, <1>2, <1>3 DEF RecencyInv, Ordered, Current, Bounded

\* The cache as a removal and a push, which every step is made of.
LEMMA UseKeeps ==
    ASSUME RecencyInv, Tick, NEW k \in Keys, NEW v \in Stored,
           NEW r \in Seq(Entries(Keys, Stored)), Ordered(r, lastUse), Current(r, lastPut),
           \A i \in 1..Len(r) : r[i].key # k,
           Len(r) + 1 <= IF capacity = 0 THEN 1 ELSE capacity,
           cached' = Push(Entry(k, v), r),
           lastUse' = [lastUse EXCEPT ![k] = calls'],
           lastPut' = [lastPut EXCEPT ![k] = v],
           capacity' = capacity
    PROVE  RecencyInv'
<1>1. /\ calls \in Nat /\ calls' = calls + 1 /\ lastUse \in [Keys -> Nat]
      /\ lastPut \in [Keys -> Stored] /\ \A j \in Keys : lastUse[j] <= calls
  BY DEF RecencyInv, Tick
<1>2. calls' \in Nat /\ \A j \in Keys : lastUse[j] < calls'
  BY <1>1
<1> DEFINE e == Entry(k, v)
<1>3. e \in Entries(Keys, Stored) /\ e.key = k /\ e.value = v
  BY DEF Entry, Entries
<1>4. cached' = Push(e, r) /\ lastUse' = [lastUse EXCEPT ![e.key] = calls']
      /\ lastPut' = [lastPut EXCEPT ![e.key] = e.value]
  BY <1>3
<1> HIDE DEF e
<1>5. /\ cached' \in Seq(Entries(Keys, Stored)) /\ Len(cached') = Len(r) + 1
      /\ Ordered(cached', lastUse') /\ Current(cached', lastPut')
  <2>1. \A i \in 1..Len(r) : r[i].key # e.key
    BY <1>3
  <2>2. LET d == Push(e, r) IN
        /\ d \in Seq(Entries(Keys, Stored)) /\ Len(d) = Len(r) + 1
        /\ Ordered(d, [lastUse EXCEPT ![e.key] = calls'])
        /\ Current(d, [lastPut EXCEPT ![e.key] = e.value])
    BY <1>1, <1>2, <1>3, <2>1, PushKeeps
  <2> QED BY <1>4, <2>2
<1>6. /\ lastUse' \in [Keys -> Nat] /\ lastPut' \in [Keys -> Stored]
      /\ \A j \in Keys : lastUse'[j] <= calls'
  BY <1>1, <1>2
<1> QED BY <1>2, <1>5, <1>6 DEF RecencyInv, Ordered, Current, Bounded

\* A step that only drops entries.
LEMMA DropStep ==
    ASSUME RecencyInv, Tick, UNCHANGED <<capacity, lastUse, lastPut>>,
           cached' \in Seq(Entries(Keys, Stored)), Len(cached') <= Len(cached),
           Ordered(cached', lastUse), Current(cached', lastPut)
    PROVE  RecencyInv'
<1>1. calls \in Nat /\ calls' = calls + 1 /\ lastUse \in [Keys -> Nat] /\ capacity \in Nat
  BY DEF RecencyInv, Tick
<1>2. \A k \in Keys : lastUse'[k] <= calls'
  BY <1>1 DEF RecencyInv
<1>3. Len(cached) \in Nat /\ Len(cached') \in Nat
  BY LenProperties DEF RecencyInv
<1>4. Bounded'
  BY <1>1, <1>3 DEF RecencyInv, Bounded
<1> QED BY <1>1, <1>2, <1>4 DEF RecencyInv, Ordered, Current

\* get.
LEMMA GetStep == ASSUME RecencyInv, NEW k \in Keys, CacheGet(k) PROVE RecencyInv'
<1>1. /\ cached \in Seq(Entries(Keys, Stored)) /\ lastUse \in [Keys -> Nat]
      /\ lastPut \in [Keys -> Stored] /\ Ordered(cached, lastUse) /\ Current(cached, lastPut)
      /\ Len(cached) \in Nat /\ Bounded
  BY LenProperties DEF RecencyInv
<1>2. CASE ~Has(cached, k)
  BY <1>1, <1>2, DropStep DEF CacheGet, Touch
<1>3. CASE Has(cached, k)
  <2> DEFINE p == Position(cached, k)
             r == Without(cached, p)
  <2>1. p \in 1..Len(cached) /\ cached[p].key = k
    BY <1>1, <1>3, PositionProperties
  <2>2. cached[p] \in Entries(Keys, Stored) /\ cached[p].value = lastPut[k]
    BY <1>1, <2>1, ElementOfSeq DEF Current
  <2>3. cached[p] = Entry(k, lastPut[k]) /\ lastPut[k] \in Stored
    BY <1>1, <2>1, <2>2 DEF Entries, Entry
  <2>4. /\ r \in Seq(Entries(Keys, Stored)) /\ Len(r) = Len(cached) - 1
        /\ Ordered(r, lastUse) /\ Current(r, lastPut)
        /\ \A i \in 1..Len(r) : r[i].key # k
    BY <1>1, <2>1, DropKeeps
  <2>5. cached' = Push(Entry(k, lastPut[k]), r)
    BY <1>3, <2>3 DEF CacheGet, Touch
  <2>6. lastPut' = [lastPut EXCEPT ![k] = lastPut[k]]
    BY <1>1 DEF CacheGet
  <2>7. Len(r) + 1 <= IF capacity = 0 THEN 1 ELSE capacity
    BY <1>1, <2>4 DEF Bounded
  <2>8. Tick /\ capacity' = capacity /\ lastUse' = [lastUse EXCEPT ![k] = calls']
    BY <1>3 DEF CacheGet
  <2> HIDE DEF p, r
  <2> QED BY <2>3, <2>4, <2>5, <2>6, <2>7, <2>8, UseKeeps
<1> QED BY <1>2, <1>3

\* remove.
LEMMA RemoveStep == ASSUME RecencyInv, NEW k \in Keys, CacheRemove(k) PROVE RecencyInv'
<1>1. /\ cached \in Seq(Entries(Keys, Stored)) /\ lastUse \in [Keys -> Nat]
      /\ Ordered(cached, lastUse) /\ Current(cached, lastPut) /\ Len(cached) \in Nat
  BY LenProperties DEF RecencyInv
<1>2. CASE ~Has(cached, k)
  BY <1>1, <1>2, DropStep DEF CacheRemove, Remove
<1>3. CASE Has(cached, k)
  <2> DEFINE p == Position(cached, k)
  <2>1. p \in 1..Len(cached)
    BY <1>1, <1>3, PositionProperties
  <2>2. cached' = Without(cached, p) /\ Tick /\ UNCHANGED <<capacity, lastUse, lastPut>>
    BY <1>3 DEF CacheRemove, Remove
  <2> HIDE DEF p
  <2>3. /\ cached' \in Seq(Entries(Keys, Stored)) /\ Len(cached') = Len(cached) - 1
        /\ Ordered(cached', lastUse) /\ Current(cached', lastPut)
    BY <1>1, <2>1, <2>2, DropKeeps
  <2> QED BY <1>1, <2>2, <2>3, DropStep
<1> QED BY <1>2, <1>3

\* What Bounded allows.
Limit(n) == IF n = 0 THEN 1 ELSE n

\* put pushes the new entry on the cache without the old one, or without the
\* oldest if it is full.
LEMMA PutPushes ==
    ASSUME NEW K, NEW V, NEW c \in Seq(Entries(K, V)), NEW k \in K, NEW v \in V, NEW n \in Nat,
           NEW use \in [K -> Nat], NEW put, Ordered(c, use), Current(c, put),
           Len(c) <= Limit(n)
    PROVE  \E r \in Seq(Entries(K, V)) :
             /\ Put(n, c, k, v) = Push(Entry(k, v), r)
             /\ Ordered(r, use) /\ Current(r, put)
             /\ \A i \in 1..Len(r) : r[i].key # k
             /\ Len(r) + 1 <= Limit(n)
<1>1. Len(c) \in Nat
  BY LenProperties
<1>2. CASE Has(c, k)
  <2> DEFINE p == Position(c, k)
             r == Without(c, p)
  <2>1. p \in 1..Len(c) /\ c[p].key = k
    BY <1>2, PositionProperties
  <2>2. Put(n, c, k, v) = Push(Entry(k, v), r)
    BY <1>2 DEF Put
  <2> HIDE DEF p
  <2>3. /\ r \in Seq(Entries(K, V)) /\ Len(r) = Len(c) - 1
        /\ Ordered(r, use) /\ Current(r, put)
        /\ \A i \in 1..Len(r) : r[i].key # k
    BY <2>1, DropKeeps
  <2> HIDE DEF r
  <2>4. Len(r) + 1 <= Limit(n)
    BY <1>1, <2>3 DEF Limit
  <2> QED BY <2>2, <2>3, <2>4
<1>3. CASE ~Has(c, k) /\ Len(c) >= n /\ Len(c) > 0
  <2> DEFINE p == Len(c)
             r == Without(c, p)
  <2>1. p \in 1..Len(c) /\ Put(n, c, k, v) = Push(Entry(k, v), r)
    BY <1>1, <1>3 DEF Put
  <2>2. \A m \in 1..(Len(c) - 1) : r[m] = c[m]
    BY <1>1 DEF Without
  <2> HIDE DEF p
  <2>3. /\ r \in Seq(Entries(K, V)) /\ Len(r) = Len(c) - 1
        /\ Ordered(r, use) /\ Current(r, put)
    BY <2>1, DropKeeps
  <2> HIDE DEF r
  <2>4. \A i \in 1..Len(r) : r[i].key # k
    BY <1>1, <1>3, <2>2, <2>3 DEF Has
  <2>5. Len(r) + 1 <= Limit(n)
    BY <1>1, <2>3 DEF Limit
  <2> QED BY <2>1, <2>3, <2>4, <2>5
<1>4. CASE ~Has(c, k) /\ ~(Len(c) >= n /\ Len(c) > 0)
  <2>1. Put(n, c, k, v) = Push(Entry(k, v), c)
    BY <1>4 DEF Put
  <2>2. \A i \in 1..Len(c) : c[i].key # k
    BY <1>4 DEF Has
  <2>3. Len(c) + 1 <= Limit(n)
    BY <1>1, <1>4 DEF Limit
  <2> QED BY <2>1, <2>2, <2>3
<1> QED BY <1>2, <1>3, <1>4

LEMMA PutStep == ASSUME RecencyInv, NEW k \in Keys, NEW v \in Values, CachePut(k, v)
                 PROVE  RecencyInv'
<1>1. /\ cached \in Seq(Entries(Keys, Stored)) /\ lastUse \in [Keys -> Nat]
      /\ Ordered(cached, lastUse) /\ Current(cached, lastPut) /\ capacity \in Nat
      /\ Len(cached) <= Limit(capacity) /\ v \in Stored
  BY DEF RecencyInv, Bounded, Stored, Limit
<1>2. PICK r \in Seq(Entries(Keys, Stored)) :
        /\ Put(capacity, cached, k, v) = Push(Entry(k, v), r)
        /\ Ordered(r, lastUse) /\ Current(r, lastPut)
        /\ \A i \in 1..Len(r) : r[i].key # k
        /\ Len(r) + 1 <= Limit(capacity)
  BY <1>1, PutPushes
<1>3. /\ Tick /\ capacity' = capacity /\ lastUse' = [lastUse EXCEPT ![k] = calls']
      /\ lastPut' = [lastPut EXCEPT ![k] = v] /\ cached' = Push(Entry(k, v), r)
  BY <1>2 DEF CachePut
<1> QED BY <1>1, <1>2, <1>3, UseKeeps DEF Limit

LEMMA RecencyStep == RecencyInv /\ [Next]_vars => RecencyInv'
<1>1. RecencyInv /\ Next => RecencyInv'
  BY GetStep, RemoveStep, PutStep DEF Next
<1>2. RecencyInv /\ UNCHANGED vars => RecencyInv'
  BY DEF RecencyInv, vars, Ordered, Current, Bounded
<1> QED BY <1>1, <1>2

LEMMA RecencyHolds == Spec => []RecencyInv
  BY RecencyInit, RecencyStep, PTL DEF Spec

-----------------------------------------------------------------------------

(***************************************************************************)
(* For any capacity and any sequence of calls, a hit returns the value     *)
(* last put under its key (lruCache.get).                                  *)
(***************************************************************************)
THEOREM HitsAreLatest == Spec => []LatestValue
<1>1. ASSUME RecencyInv PROVE LatestValue
  <2> SUFFICES ASSUME NEW k \in CachedKeys PROVE Value(cached, k) = lastPut[k]
    BY DEF LatestValue
  <2>1. Has(cached, k) /\ cached \in Seq(Entries(Keys, Stored))
    BY <1>1 DEF CachedKeys, Has, RecencyInv
  <2>2. Position(cached, k) \in 1..Len(cached) /\ cached[Position(cached, k)].key = k
    BY <2>1, PositionProperties
  <2> QED BY <1>1, <2>2 DEF Value, RecencyInv, Current
<1> QED BY <1>1, RecencyHolds, PTL

(***************************************************************************)
(* The cache never exceeds its capacity, but for the one entry that a      *)
(* cache of capacity 0 holds (lruCache.put).                               *)
(***************************************************************************)
THEOREM CacheIsBounded == Spec => []Bounded
<1>1. RecencyInv => Bounded
  BY DEF RecencyInv
<1> QED BY <1>1, RecencyHolds, PTL

\* list.Remove loses no other entry.
LEMMA OthersRemain ==
    ASSUME NEW K, NEW V, NEW c \in Seq(Entries(K, V)), NEW p \in 1..Len(c), NEW n \in 1..Len(c),
           n # p
    PROVE  Has(Without(c, p), c[n].key)
<1>1. Len(c) \in Nat /\ Len(Without(c, p)) = Len(c) - 1
  BY LenProperties, WithoutProperties
<1>2. CASE n < p
  <2>1. n \in 1..(Len(c) - 1) /\ Without(c, p)[n] = c[n]
    BY <1>1, <1>2 DEF Without
  <2> QED BY <1>1, <2>1 DEF Has
<1>3. CASE n > p
  <2>1. n - 1 \in 1..(Len(c) - 1) /\ ~(n - 1 < p) /\ (n - 1) + 1 = n
    BY <1>1, <1>3
  <2>2. Without(c, p)[n - 1] = c[n]
    BY <2>1 DEF Without
  <2> QED BY <1>1, <2>1, <2>2 DEF Has
<1> QED BY <1>1, <1>2, <1>3

\* A pushed entry joins the others.
LEMMA PushHas ==
    ASSUME NEW K, NEW V, NEW r \in Seq(Entries(K, V)), NEW e \in Entries(K, V), NEW k,
           k = e.key \/ Has(r, k)
    PROVE  Has(Push(e, r), k)
<1> DEFINE d == Push(e, r)
<1>1. /\ Len(d) = Len(r) + 1 /\ d[1] = e
      /\ \A m \in 2..(Len(r) + 1) : d[m] = r[m - 1]
  BY PushProperties
<1>2. Len(r) \in Nat
  BY LenProperties
<1> HIDE DEF d
<1>3. \A i \in 1..Len(r) : i + 1 \in 1..Len(d) /\ d[i + 1] = r[i]
  BY <1>1, <1>2
<1>4. 1 \in 1..Len(d)
  BY <1>1, <1>2
<1>5. Has(d, k)
  BY <1>1, <1>3, <1>4 DEF Has
<1> QED BY <1>5 DEF d

\* put keeps every key but, if the cache is full, the last of it.
LEMMA PutLoses ==
    ASSUME NEW K, NEW V, NEW c \in Seq(Entries(K, V)), NEW k \in K, NEW v \in V, NEW n \in Nat,
           NEW i \in 1..Len(c)
    PROVE  Has(Put(n, c, k, v), c[i].key) \/ (Len(c) >= n /\ i = Len(c))
<1> DEFINE e == Entry(k, v)
<1>1. e \in Entries(K, V) /\ e.key = k /\ Len(c) \in Nat
  BY LenProperties DEF Entry, Entries
<1>2. CASE Has(c, k)
  <2> DEFINE p == Position(c, k)
             r == Without(c, p)
  <2>1. p \in 1..Len(c) /\ c[p].key = k
    BY <1>2, PositionProperties
  <2>2. Put(n, c, k, v) = Push(e, r)
    BY <1>2 DEF Put
  <2> HIDE DEF p, e
  <2>3. r \in Seq(Entries(K, V))
    BY <2>1, WithoutProperties
  <2>4. i # p => Has(r, c[i].key)
    BY <2>1, OthersRemain
  <2> HIDE DEF r
  <2>5. Has(Push(e, r), c[i].key)
    BY <1>1, <2>1, <2>3, <2>4, PushHas
  <2> QED BY <2>2, <2>5
<1>3. CASE ~Has(c, k) /\ Len(c) >= n /\ Len(c) > 0
  <2> DEFINE p == Len(c)
             r == Without(c, p)
  <2>1. Put(n, c, k, v) = Push(e, r) /\ p \in 1..Len(c) /\ p = Len(c)
    BY <1>1, <1>3 DEF Put
  <2> HIDE DEF p, e
  <2>2. r \in Seq(Entries(K, V))
    BY <2>1, WithoutProperties
  <2>3. i # p => Has(r, c[i].key)
    BY <2>1, OthersRemain
  <2> HIDE DEF r
  <2>4. Has(r, c[i].key) => Has(Push(e, r), c[i].key)
    BY <1>1, <2>2, PushHas
  <2> QED BY <1>3, <2>1, <2>3, <2>4
<1>4. CASE ~Has(c, k) /\ ~(Len(c) >= n /\ Len(c) > 0)
  <2>1. Put(n, c, k, v) = Push(e, c) /\ Has(c, c[i].key)
    BY <1>4 DEF Put, Has
  <2> HIDE DEF e
  <2>2. Has(Push(e, c), c[i].key)
    BY <1>1, <2>1, PushHas
  <2> QED BY <2>1, <2>2
<1> QED BY <1>2, <1>3, <1>4

(***************************************************************************)
(* A put drops a key only from a full cache, and only the key used longest *)
(* ago (lruCache.put).                                                     *)
(***************************************************************************)
THEOREM EvictionIsOldest == Spec => EvictsOldest
<1>1. ASSUME RecencyInv, NEW j \in Keys, NEW v \in Values, CachePut(j, v),
             NEW k \in CachedKeys \ CachedKeys'
      PROVE  Len(cached) >= capacity /\ \A i \in CachedKeys : lastUse[i] >= lastUse[k]
  <2>1. /\ cached \in Seq(Entries(Keys, Stored)) /\ lastUse \in [Keys -> Nat] /\ v \in Stored
        /\ Ordered(cached, lastUse) /\ Len(cached) \in Nat /\ capacity \in Nat
    BY <1>1, LenProperties DEF RecencyInv, Stored
  <2>2. PICK n \in 1..Len(cached) : cached[n].key = k
    BY <1>1 DEF CachedKeys
  <2>3. cached' = Put(capacity, cached, j, v) /\ ~Has(cached', k)
    BY <1>1 DEF CachePut, CachedKeys, Has
  <2>4. Has(Put(capacity, cached, j, v), cached[n].key) \/ (Len(cached) >= capacity /\ n = Len(cached))
    BY <2>1, PutLoses
  <2>5. Len(cached) >= capacity /\ n = Len(cached)
    BY <2>2, <2>3, <2>4
  <2>6. ASSUME NEW m \in 1..Len(cached) PROVE lastUse[cached[m].key] >= lastUse[k]
    <3>1. cached[m] \in Entries(Keys, Stored) /\ cached[n] \in Entries(Keys, Stored)
      BY <2>1, ElementOfSeq
    <3>2. lastUse[cached[m].key] \in Nat /\ lastUse[k] \in Nat
      BY <2>1, <2>2, <3>1 DEF Entries
    <3>3. m = n \/ m < n
      BY <2>1, <2>5
    <3>4. m < n => lastUse[cached[m].key] > lastUse[k]
      BY <2>1, <2>2 DEF Ordered
    <3> QED BY <2>2, <3>2, <3>3, <3>4
  <2> QED BY <2>5, <2>6 DEF CachedKeys
<1>2. RecencyInv /\ [Next]_vars =>
        [(\E k \in Keys, v \in Values : CachePut(k, v)) =>
           \A k \in CachedKeys \ CachedKeys' :
             /\ Len(cached) >= capacity
             /\ \A j \in CachedKeys : lastUse[j] >= lastUse[k]]_vars
  BY <1>1
<1> QED BY <1>2, RecencyHolds, PTL DEF Spec, EvictsOldest

=============================================================================
