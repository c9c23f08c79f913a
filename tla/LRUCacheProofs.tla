--------------------------- MODULE LRUCacheProofs ---------------------------
(***************************************************************************)
(* Facts about the cache operations that the repository's proofs cite.     *)
(***************************************************************************)
EXTENDS LRUCache, SequenceTheorems, TLAPS

\* Removing a position of a cache leaves a cache, every entry of which was
\* there at another position.
LEMMA WithoutProperties ==
    ASSUME NEW S, NEW c \in Seq(S), NEW j \in 1..Len(c)
    PROVE  /\ Without(c, j) \in Seq(S)
           /\ Len(Without(c, j)) = Len(c) - 1
           /\ \A m \in 1..(Len(c) - 1) :
                \E n \in 1..Len(c) : n # j /\ Without(c, j)[m] = c[n]
<1>1. Len(c) \in Nat /\ Len(c) >= 1 /\ Len(c) - 1 \in Nat
  BY LenProperties
<1>2. \A m \in 1..(Len(c) - 1) : Without(c, j)[m] \in S
  BY <1>1, ElementOfSeq DEF Without
<1>3. Without(c, j) \in [1..(Len(c) - 1) -> S]
  BY <1>2 DEF Without
<1>4. Without(c, j) \in Seq(S)
  BY <1>1, <1>3, SeqDef
<1>5. Len(Without(c, j)) = Len(c) - 1
  BY <1>1, <1>3, <1>4, LenProperties
<1>6. \A m \in 1..(Len(c) - 1) : \E n \in 1..Len(c) : n # j /\ Without(c, j)[m] = c[n]
  BY <1>1 DEF Without
<1> QED BY <1>4, <1>5, <1>6

\* Pushing an entry leaves a cache of that entry and the old ones.
LEMMA PushProperties ==
    ASSUME NEW S, NEW c \in Seq(S), NEW e \in S
    PROVE  /\ Push(e, c) \in Seq(S)
           /\ Len(Push(e, c)) = Len(c) + 1
           /\ Push(e, c)[1] = e
           /\ \A m \in 2..(Len(c) + 1) : Push(e, c)[m] = c[m - 1]
  BY ConcatProperties DEF Push

-----------------------------------------------------------------------------
(* Caches: sequences of entries with distinct keys.                        *)

\* Position finds the entry of a cached key.
LEMMA PositionProperties ==
    ASSUME NEW K, NEW V, NEW c \in Seq(Entries(K, V)), NEW k, Has(c, k)
    PROVE  Position(c, k) \in 1..Len(c) /\ c[Position(c, k)].key = k
  BY DEF Has, Position

\* remove: what is left was there, and nothing of the removed key is left.
LEMMA RemoveProperties ==
    ASSUME NEW K, NEW V, NEW c \in Seq(Entries(K, V)), NEW k, DistinctKeys(c)
    PROVE  LET d == Remove(c, k) IN
           /\ d \in Seq(Entries(K, V)) /\ DistinctKeys(d)
           /\ \A i \in 1..Len(d) : /\ d[i].key # k
                                   /\ \E j \in 1..Len(c) : d[i] = c[j]
<1> DEFINE d == Remove(c, k)
           p == Position(c, k)
<1>1. CASE ~Has(c, k)
  BY <1>1 DEF Remove, Has
<1>2. CASE Has(c, k)
  <2>1. p \in 1..Len(c) /\ c[p].key = k
    BY <1>2, PositionProperties
  <2>2. d = Without(c, p)
    BY <1>2 DEF Remove
  <2>3. /\ d \in Seq(Entries(K, V)) /\ Len(d) = Len(c) - 1 /\ Len(c) \in Nat
        /\ \A m \in 1..(Len(c) - 1) : \E n \in 1..Len(c) : n # p /\ d[m] = c[n]
    <3> HIDE DEF p, d
    <3>1. /\ Without(c, p) \in Seq(Entries(K, V)) /\ Len(Without(c, p)) = Len(c) - 1
          /\ \A m \in 1..(Len(c) - 1) :
               \E n \in 1..Len(c) : n # p /\ Without(c, p)[m] = c[n]
      <4>1. \A q \in 1..Len(c) :
              /\ Without(c, q) \in Seq(Entries(K, V)) /\ Len(Without(c, q)) = Len(c) - 1
              /\ \A m \in 1..(Len(c) - 1) :
                   \E n \in 1..Len(c) : n # q /\ Without(c, q)[m] = c[n]
        BY WithoutProperties
      <4> QED BY <2>1, <4>1
    <3>2. Len(c) \in Nat
      BY LenProperties
    <3> QED BY <2>2, <3>1, <3>2
  <2>4. \A i \in 1..Len(d) : d[i].key # k /\ \E j \in 1..Len(c) : d[i] = c[j]
    BY <2>1, <2>3 DEF DistinctKeys
  <2>5. DistinctKeys(d)
    <3> HIDE DEF p
    <3>1. \A m \in 1..(Len(c) - 1) : d[m] = IF m < p THEN c[m] ELSE c[m + 1]
      BY <2>2 DEF Without
    <3>2. SUFFICES ASSUME NEW i \in 1..Len(d), NEW j \in 1..Len(d), d[i].key = d[j].key
                   PROVE  i = j
      BY DEF DistinctKeys
    <3>3. i \in 1..(Len(c) - 1) /\ j \in 1..(Len(c) - 1) /\ Len(c) \in Nat
      BY <2>3
    <3>4. PICK a \in 1..Len(c), b \in 1..Len(c) :
            /\ d[i] = c[a] /\ a = (IF i < p THEN i ELSE i + 1)
            /\ d[j] = c[b] /\ b = (IF j < p THEN j ELSE j + 1)
      <4> HIDE DEF d
      <4> QED BY <2>1, <3>1, <3>3
    <3>5. a = b
      <4> HIDE DEF d
      <4> QED BY <3>2, <3>4 DEF DistinctKeys
    <3> HIDE DEF d
    <3> QED BY <2>1, <3>3, <3>4, <3>5
  <2> HIDE DEF d
  <2> QED BY <2>3, <2>4, <2>5 DEF d
<1> QED BY <1>1, <1>2

\* Pushing an entry whose key is not cached keeps the keys distinct.
LEMMA PushDistinct ==
    ASSUME NEW K, NEW V, NEW c \in Seq(Entries(K, V)), NEW e \in Entries(K, V),
           DistinctKeys(c), \A i \in 1..Len(c) : c[i].key # e.key
    PROVE  LET d == Push(e, c) IN
           /\ d \in Seq(Entries(K, V)) /\ DistinctKeys(d)
           /\ \A i \in 1..Len(d) : d[i] = e \/ \E j \in 1..Len(c) : d[i] = c[j]
<1> DEFINE d == Push(e, c)
<1>1. /\ d \in Seq(Entries(K, V)) /\ Len(d) = Len(c) + 1 /\ d[1] = e
      /\ \A m \in 2..(Len(c) + 1) : d[m] = c[m - 1]
  BY PushProperties
<1>2. Len(c) \in Nat
  BY LenProperties
<1> HIDE DEF d
<1>3. \A i \in 1..Len(d) : i = 1 \/ (i \in 2..(Len(c) + 1) /\ i - 1 \in 1..Len(c))
  BY <1>1, <1>2
<1>4. \A i \in 1..Len(d) : d[i] = e \/ \E j \in 1..Len(c) : d[i] = c[j]
  BY <1>1, <1>3
<1>5. DistinctKeys(d)
  <2>1. SUFFICES ASSUME NEW i \in 1..Len(d), NEW j \in 1..Len(d), d[i].key = d[j].key
                 PROVE  i = j
    BY DEF DistinctKeys
  <2>2. \A m \in 1..Len(d) : m # 1 => m - 1 \in 1..Len(c) /\ d[m] = c[m - 1]
    BY <1>1, <1>3
  <2>3. CASE i = 1 /\ j # 1
    BY <1>1, <2>1, <2>2, <2>3
  <2>4. CASE i # 1 /\ j = 1
    BY <1>1, <2>1, <2>2, <2>4
  <2>5. CASE i # 1 /\ j # 1
    <3>1. c[i - 1].key = c[j - 1].key
      BY <2>1, <2>2, <2>5
    <3>2. i - 1 = j - 1
      BY <2>2, <2>5, <3>1 DEF DistinctKeys
    <3> QED BY <1>1, <1>2, <3>2
  <2> QED BY <2>3, <2>4, <2>5
<1> QED BY <1>1, <1>4, <1>5 DEF d

\* get: a hit returns the value of an entry and only reorders the cache.
LEMMA TouchProperties ==
    ASSUME NEW K, NEW V, NEW c \in Seq(Entries(K, V)), NEW k, DistinctKeys(c)
    PROVE  LET d == Touch(c, k) IN
           /\ d \in Seq(Entries(K, V)) /\ DistinctKeys(d)
           /\ \A i \in 1..Len(d) : \E j \in 1..Len(c) : d[i] = c[j]
           /\ Has(c, k) => \E j \in 1..Len(c) : c[j].key = k /\ c[j].value = Value(c, k)
<1>1. CASE ~Has(c, k)
  BY <1>1 DEF Touch
<1>2. CASE Has(c, k)
  <2> DEFINE p == Position(c, k)
             r == Remove(c, k)
  <2>1. p \in 1..Len(c) /\ c[p].key = k
    BY <1>2, PositionProperties
  <2>2. c[p] \in Entries(K, V)
    BY <2>1, ElementOfSeq
  <2>3. Touch(c, k) = Push(c[p], r)
    BY <1>2 DEF Touch, Remove
  <2>4. /\ r \in Seq(Entries(K, V)) /\ DistinctKeys(r)
        /\ \A i \in 1..Len(r) : r[i].key # k /\ \E j \in 1..Len(c) : r[i] = c[j]
    BY RemoveProperties
  <2>5. Value(c, k) = c[p].value
    BY DEF Value
  <2> HIDE DEF p, r
  <2>6. LET d == Push(c[p], r) IN
        /\ d \in Seq(Entries(K, V)) /\ DistinctKeys(d)
        /\ \A i \in 1..Len(d) : d[i] = c[p] \/ \E j \in 1..Len(r) : d[i] = r[j]
    <3>1. \A i \in 1..Len(r) : r[i].key # c[p].key
      BY <2>1, <2>4
    <3> QED BY <2>2, <2>4, <3>1, PushDistinct
  <2> QED BY <2>1, <2>3, <2>4, <2>5, <2>6
<1> QED BY <1>1, <1>2

\* put: the entry put, and otherwise only entries that were there.
LEMMA PutProperties ==
    ASSUME NEW K, NEW V, NEW c \in Seq(Entries(K, V)), NEW k \in K, NEW v \in V,
           NEW n, DistinctKeys(c)
    PROVE  LET d == Put(n, c, k, v) IN
           /\ d \in Seq(Entries(K, V)) /\ DistinctKeys(d)
           /\ \A i \in 1..Len(d) : \/ d[i].key = k /\ d[i].value = v
                                   \/ \E j \in 1..Len(c) : d[i] = c[j]
<1> DEFINE e == Entry(k, v)
<1>1. e \in Entries(K, V) /\ e.key = k /\ e.value = v
  BY DEF Entry, Entries
<1>2. PICK r \in Seq(Entries(K, V)) :
        /\ Put(n, c, k, v) = Push(e, r) /\ DistinctKeys(r)
        /\ \A i \in 1..Len(r) : r[i].key # k /\ \E j \in 1..Len(c) : r[i] = c[j]
  <2>1. CASE Has(c, k)
    BY <2>1, RemoveProperties DEF Put, Remove
  <2>2. CASE ~Has(c, k) /\ ~(Len(c) >= n /\ Len(c) > 0)
    BY <2>2 DEF Put, Has
  <2>3. CASE ~Has(c, k) /\ Len(c) >= n /\ Len(c) > 0
    <3> DEFINE r == Without(c, Len(c))
    <3>1. Len(c) \in Nat /\ Len(c) \in 1..Len(c)
      BY <2>3, LenProperties
    <3>2. /\ r \in Seq(Entries(K, V)) /\ Len(r) = Len(c) - 1
          /\ \A m \in 1..(Len(c) - 1) : r[m] = c[m]
      BY <3>1, WithoutProperties DEF Without
    <3>3. Put(n, c, k, v) = Push(e, r)
      BY <2>3 DEF Put
    <3> HIDE DEF r
    <3>4. DistinctKeys(r)
      <4> SUFFICES ASSUME NEW i \in 1..Len(r), NEW j \in 1..Len(r), r[i].key = r[j].key
                   PROVE  i = j
        BY DEF DistinctKeys
      <4>1. i \in 1..Len(c) /\ j \in 1..Len(c) /\ r[i] = c[i] /\ r[j] = c[j]
        BY <3>1, <3>2
      <4> QED BY <4>1 DEF DistinctKeys
    <3>5. \A i \in 1..Len(r) : r[i].key # k /\ \E j \in 1..Len(c) : r[i] = c[j]
      BY <2>3, <3>1, <3>2 DEF Has
    <3> QED BY <3>2, <3>3, <3>4, <3>5
  <2> QED BY <2>1, <2>2, <2>3
<1> HIDE DEF e
<1>3. LET d == Push(e, r) IN
      /\ d \in Seq(Entries(K, V)) /\ DistinctKeys(d)
      /\ \A i \in 1..Len(d) : d[i] = e \/ \E j \in 1..Len(r) : d[i] = r[j]
  BY <1>1, <1>2, PushDistinct
<1> QED BY <1>1, <1>2, <1>3

=============================================================================
