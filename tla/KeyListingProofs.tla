-------------------------- MODULE KeyListingProofs --------------------------
(***************************************************************************)
(* ListKeys for any number of keys, clients, attributes and page sizes: a  *)
(* walk during which no key leaves the listing is complete, and its tokens *)
(* are accepted.                                                           *)
(***************************************************************************)
EXTENDS KeyListing, FiniteSetTheorems, TLAPS

-----------------------------------------------------------------------------
(* Positions in a listing.                                                 *)

\* A listing is a finite set of names.
LEMMA ListingFinite ==
    ASSUME NEW ks, NEW names \in SUBSET Names, NEW f
    PROVE  /\ Listing(ks, names, f) \in SUBSET Names
           /\ IsFiniteSet(Listing(ks, names, f))
           /\ Cardinality(Listing(ks, names, f)) \in Nat
<1>1. Listing(ks, names, f) \in SUBSET Names  BY DEF Listing
<1>2. IsFiniteSet(Listing(ks, names, f))  BY <1>1, FS_Subset, ListingAssumption
<1> QED BY <1>1, <1>2, FS_CardinalityType

\* A position is a number, and below the length for a listed key.
LEMMA RankBounds ==
    ASSUME NEW L, IsFiniteSet(L), NEW n \in Nat, L \subseteq Nat
    PROVE  /\ Rank(L, n) \in Nat
           /\ n \in L => Rank(L, n) < Cardinality(L)
<1> DEFINE before == {m \in L : m < n}
<1>1. IsFiniteSet(before) /\ Cardinality(before) <= Cardinality(L)
      /\ (Cardinality(L) = Cardinality(before) => L = before)
  BY FS_Subset
<1>2. Cardinality(before) \in Nat /\ Cardinality(L) \in Nat
  BY <1>1, FS_CardinalityType
<1>3. n \in L => L # before  OBVIOUS
<1> QED BY <1>1, <1>2, <1>3 DEF Rank

\* Adding keys to a listing moves a key towards its end only.
LEMMA RankMonotone ==
    ASSUME NEW M, IsFiniteSet(M), NEW L \in SUBSET M, NEW n
    PROVE  Rank(L, n) <= Rank(M, n)
<1> DEFINE lower == {m \in L : m < n}
           upper == {m \in M : m < n}
<1>1. IsFiniteSet(upper)  BY FS_Subset
<1>2. lower \in SUBSET upper  OBVIOUS
<1>3. Cardinality(lower) <= Cardinality(upper)  BY <1>1, <1>2, FS_Subset
<1> QED BY <1>3 DEF Rank

-----------------------------------------------------------------------------
(* The inductive invariant.  A walk is on course in a listing when every   *)
(* key it is due is listed, and was returned or is at or after the token.  *)

Offset(token) == IF token = None THEN 0 ELSE token

OnCourse(k, L) ==
    /\ k.due \subseteq L
    /\ Offset(k.token) <= Cardinality(L)
    /\ \A n \in k.due : n \in k.seen \/ Offset(k.token) <= Rank(L, n)

WalkingOnCourse ==
    \A w \in Walkers :
        walk[w].status = "walking" /\ ~walk[w].left => OnCourse(walk[w], Listed(w))

ListingInv == TypeOK /\ WalkingOnCourse /\ WalkComplete /\ TokenAccepted

\* What one call answers is typed.
LEMMA PageType ==
    ASSUME NEW L \in SUBSET Names, IsFiniteSet(L), NEW size \in Int,
           NEW token \in Nat \cup {None}
    PROVE  LET win == Window(Cardinality(L), size, token)
               page == Slice(L, win.start, win.end)
           IN /\ page \in SUBSET Names /\ Cardinality(page) \in Nat
              /\ win.ok \in BOOLEAN
              /\ win.ok => win.next \in Nat \cup {None}
<1> DEFINE win == Window(Cardinality(L), size, token)
           page == Slice(L, win.start, win.end)
<1>1. Cardinality(L) \in Nat  BY FS_CardinalityType
<1>2. page \in SUBSET L  BY DEF Slice
<1>3. Cardinality(page) \in Nat  BY <1>2, FS_Subset, FS_CardinalityType
<1>4. win.ok \in BOOLEAN /\ (win.ok => win.next \in Nat \cup {None})
  BY <1>1, ListingAssumption DEF Window
<1> QED BY <1>2, <1>3, <1>4

\* A call keeps a walk on course: the page holds the keys due between the old
\* offset and the new one, and the last page ends with the listing.
LEMMA PageOnCourse ==
    ASSUME NEW L \in SUBSET Names, IsFiniteSet(L), NEW k \in Walks, OnCourse(k, L)
    PROVE  LET win == Window(Cardinality(L), k.size, k.token)
               seen == k.seen \cup Slice(L, win.start, win.end)
           IN /\ ~win.ok => k.size < 0
              /\ win.ok /\ win.next = None => k.due \subseteq seen
              /\ win.ok /\ win.next # None =>
                   /\ win.next <= Cardinality(L)
                   /\ \A n \in k.due : n \in seen \/ win.next <= Rank(L, n)
<1> DEFINE total == Cardinality(L)
           win == Window(total, k.size, k.token)
           seen == k.seen \cup Slice(L, win.start, win.end)
<1>1. total \in Nat /\ k.size \in Int /\ k.token \in Nat \cup {None}
      /\ Offset(k.token) \in Nat /\ Offset(k.token) <= total
  BY FS_CardinalityType DEF Walks, OnCourse, Offset
<1>2. win.start = Offset(k.token) /\ (win.ok <=> k.size >= 0)
  BY <1>1 DEF Window, Offset
<1>3. win.end \in Int /\ (win.next = None => win.end >= total)
      /\ (win.next # None => win.next = win.end /\ win.end < total)
  BY <1>1, ListingAssumption DEF Window, Offset
<1>4. ASSUME NEW n \in k.due, n \notin seen
      PROVE  win.end <= Rank(L, n) /\ Rank(L, n) < total
  <2>1. n \in L /\ n \in Nat  BY ListingAssumption DEF OnCourse
  <2>2. Rank(L, n) \in Nat /\ Rank(L, n) < total  BY <2>1, RankBounds, ListingAssumption
  <2>3. win.start <= Rank(L, n)  BY <1>2, <1>4 DEF OnCourse
  <2>4. ~(Rank(L, n) < win.end)  BY <1>4, <2>1, <2>3 DEF Slice
  <2> QED BY <1>3, <2>2, <2>4
<1>5. ~win.ok => k.size < 0  BY <1>1, <1>2
<1>6. win.next = None => k.due \subseteq seen
  <2> SUFFICES ASSUME win.next = None, NEW n \in k.due, n \notin seen PROVE FALSE
    OBVIOUS
  <2>1. Rank(L, n) \in Nat
    BY RankBounds, ListingAssumption DEF OnCourse
  <2> QED BY <1>1, <1>3, <1>4, <2>1
<1>7. win.next # None => /\ win.next <= total
                         /\ \A n \in k.due : n \in seen \/ win.next <= Rank(L, n)
  BY <1>1, <1>3, <1>4
<1> QED BY <1>5, <1>6, <1>7

-----------------------------------------------------------------------------
(* Every step keeps it.                                                    *)

\* A ListKeys call, on a request that is on course unless its listing lost a
\* key.
LEMMA ListPageStep ==
    ASSUME ListingInv, NEW w \in Walkers, NEW k \in Walks,
           ~k.left => OnCourse(k, Listing(keys, allowed[w], k.filter)),
           ListPage(w, k)
    PROVE  ListingInv'
<1> DEFINE L == Listing(keys, allowed[w], k.filter)
           win == Window(Cardinality(L), k.size, k.token)
           page == Slice(L, win.start, win.end)
<1>1. L \in SUBSET Names /\ IsFiniteSet(L)
  BY ListingFinite DEF ListingInv, TypeOK
<1>2. /\ page \in SUBSET Names /\ Cardinality(page) \in Nat
      /\ win.ok \in BOOLEAN /\ (win.ok => win.next \in Nat \cup {None})
  <2>1. k.size \in Int /\ k.token \in Nat \cup {None}  BY DEF Walks
  <2> QED BY <1>1, <2>1, PageType
<1>3. keys' = keys /\ allowed' = allowed
      /\ walk' = [walk EXCEPT ![w] =
                    IF win.ok
                    THEN [k EXCEPT !.status = IF win.next = None THEN "done" ELSE "walking",
                                   !.token = win.next, !.seen = k.seen \cup page,
                                   !.count = k.count + Cardinality(page)]
                    ELSE [k EXCEPT !.status = "failed"]]
  BY DEF ListPage
<1> HIDE DEF L, win, page
<1> DEFINE k1 == walk'[w]
<1>4. /\ win.ok => /\ k1 \in Walks /\ k1.filter = k.filter /\ k1.left = k.left
                   /\ k1.size = k.size /\ k1.due = k.due
                   /\ k1.seen = k.seen \cup page /\ k1.token = win.next
                   /\ k1.status = IF win.next = None THEN "done" ELSE "walking"
      /\ ~win.ok => /\ k1 \in Walks /\ k1.left = k.left /\ k1.size = k.size
                    /\ k1.status = "failed"
  <2>1. CASE win.ok
    <3> DEFINE st == IF win.next = None THEN "done" ELSE "walking"
               s == k.seen \cup page
               c == k.count + Cardinality(page)
    <3>1. k1 = [status |-> st, filter |-> k.filter, size |-> k.size, token |-> win.next,
                seen |-> s, due |-> k.due, count |-> c, left |-> k.left,
                changed |-> k.changed]
      <4> DEFINE nxt == win.next
      <4>1. k1 = [k EXCEPT !.status = st, !.token = nxt, !.seen = s, !.count = c]
        BY <1>3, <2>1 DEF ListingInv, TypeOK
      <4> HIDE DEF st, s, c, nxt
      <4>2. k1 = [status |-> st, filter |-> k.filter, size |-> k.size, token |-> nxt,
                  seen |-> s, due |-> k.due, count |-> c, left |-> k.left,
                  changed |-> k.changed]
        BY <4>1 DEF Walks
      <4> QED BY <4>2 DEF nxt
    <3>2. st \in {"done", "walking"} /\ s \in SUBSET Names /\ c \in Nat
      BY <1>2 DEF Walks
    <3> HIDE DEF st, s, c
    <3>3. /\ k1 \in Walks /\ k1.filter = k.filter /\ k1.left = k.left /\ k1.size = k.size
          /\ k1.due = k.due /\ k1.seen = s /\ k1.token = win.next /\ k1.status = st
      <4>1. win.next \in Nat \cup {None}  BY <1>2, <2>1
      <4> QED BY <4>1, <3>1, <3>2 DEF Walks
    <3> QED BY <2>1, <3>3 DEF st, s
  <2>2. CASE ~win.ok
    <3>1. k1 = [k EXCEPT !.status = "failed"]
      BY <1>3, <2>2 DEF ListingInv, TypeOK
    <3> QED BY <2>2, <3>1 DEF Walks
  <2> QED BY <2>1, <2>2
<1>5. \A v \in Walkers \ {w} : walk'[v] = walk[v]
  BY <1>3 DEF ListingInv, TypeOK
<1>6. walk' \in [Walkers -> Walks]
  BY <1>2, <1>3, <1>4 DEF ListingInv, TypeOK
<1>7. TypeOK'
  <2>1. k1.status = "walking" => k1.token \in Nat  BY <1>2, <1>4
  <2> QED BY <1>3, <1>5, <1>6, <2>1 DEF ListingInv, TypeOK, Metadata
<1>8. ~k.left =>
        /\ ~win.ok => k.size < 0
        /\ win.ok /\ win.next = None => k.due \subseteq k.seen \cup page
        /\ win.ok /\ win.next # None =>
             /\ win.next <= Cardinality(L)
             /\ \A n \in k.due : n \in k.seen \cup page \/ win.next <= Rank(L, n)
  BY <1>1, PageOnCourse DEF L, win, page
<1>9. k1.status = "walking" /\ ~k1.left => OnCourse(k1, Listed(w)')
  <2> SUFFICES ASSUME k1.status = "walking", ~k1.left PROVE OnCourse(k1, Listed(w)')
    OBVIOUS
  <2>1. win.ok /\ win.next # None /\ ~k.left  BY <1>2, <1>4
  <2>2. Listed(w)' = L  BY <1>3, <1>4, <2>1 DEF Listed, L
  <2>3. k.due \subseteq L  BY <2>1 DEF OnCourse, L
  <2> QED BY <1>4, <1>8, <2>1, <2>2, <2>3 DEF OnCourse, Offset
<1>10. \A v \in Walkers \ {w} : Listed(v)' = Listed(v)
  BY <1>3, <1>5 DEF Listed
<1>11. WalkingOnCourse'
  BY <1>5, <1>9, <1>10 DEF ListingInv, WalkingOnCourse
<1>12. WalkComplete'
  <2>1. k1.status = "done" /\ ~k1.left => k1.due \subseteq k1.seen  BY <1>2, <1>4, <1>8
  <2> QED BY <1>5, <2>1 DEF ListingInv, WalkComplete
<1>13. TokenAccepted'
  <2>1. k1.status = "failed" => k1.size < 0 \/ k1.left  BY <1>2, <1>4, <1>8
  <2> QED BY <1>5, <2>1 DEF ListingInv, TokenAccepted
<1> QED BY <1>7, <1>11, <1>12, <1>13 DEF ListingInv

\* A change of the keys or of the claims: as long as no key leaves a listing,
\* the keys of a walk only move away from its start.
LEMMA ObserveStep ==
    ASSUME ListingInv, Observe(keys', allowed'),
           keys' \in [Names -> Metadata \cup {None}],
           allowed' \in [Walkers -> SUBSET Names]
    PROVE  ListingInv'
<1>1. ASSUME NEW w \in Walkers
      PROVE  /\ walk'[w] \in Walks
             /\ walk'[w] = [walk[w] EXCEPT !.left = walk'[w].left, !.changed = walk'[w].changed]
             /\ ~walk'[w].left => ~walk[w].left /\ Listed(w) \subseteq Listed(w)'
  <2> DEFINE M == Listing(keys', allowed'[w], walk[w].filter)
  <2>1. walk'[w] = [walk[w] EXCEPT !.left = @ \/ ~(Listed(w) \subseteq M),
                                   !.changed = @ \/ Listed(w) # M]
    BY DEF Observe
  <2>2. walk[w] \in Walks  BY DEF ListingInv, TypeOK
  <2> HIDE DEF M
  <2>3. /\ walk'[w] \in Walks /\ walk'[w].filter = walk[w].filter
        /\ walk'[w].left = (walk[w].left \/ ~(Listed(w) \subseteq M))
        /\ walk'[w] = [walk[w] EXCEPT !.left = walk'[w].left, !.changed = walk'[w].changed]
    BY <2>1, <2>2 DEF Walks
  <2>4. Listed(w)' = M  BY <2>3 DEF Listed, M
  <2> QED BY <2>3, <2>4
<1>2. ASSUME NEW w \in Walkers
      PROVE  /\ walk'[w].status = walk[w].status /\ walk'[w].token = walk[w].token
             /\ walk'[w].seen = walk[w].seen /\ walk'[w].due = walk[w].due
             /\ walk'[w].size = walk[w].size
  BY <1>1 DEF ListingInv, TypeOK, Walks
<1>3. walk' \in [Walkers -> Walks]  BY <1>1 DEF Observe
<1>4. TypeOK'  BY <1>2, <1>3 DEF ListingInv, TypeOK, Metadata
<1>5. WalkingOnCourse'
  <2> SUFFICES ASSUME NEW w \in Walkers, walk'[w].status = "walking", ~walk'[w].left
               PROVE  OnCourse(walk'[w], Listed(w)')
    BY DEF WalkingOnCourse
  <2> DEFINE k == walk[w]
             L == Listed(w)
             M == Listed(w)'
  <2>1. OnCourse(k, L) /\ L \subseteq M  BY <1>1, <1>2 DEF ListingInv, WalkingOnCourse
  <2>2. L \in SUBSET Names /\ IsFiniteSet(L) /\ Cardinality(L) \in Nat
    BY ListingFinite DEF Listed, ListingInv, TypeOK
  <2>3. M \in SUBSET Names /\ IsFiniteSet(M) /\ Cardinality(M) \in Nat
    BY ListingFinite DEF Listed
  <2>4. Cardinality(L) <= Cardinality(M)  BY <2>1, <2>3, FS_Subset
  <2>5. Offset(k.token) \in Nat
    BY DEF Offset, ListingInv, TypeOK, Walks
  <2> HIDE DEF L, M
  <2>6. ASSUME NEW n \in k.due, n \notin k.seen PROVE Offset(k.token) <= Rank(M, n)
    <3>1. n \in Nat /\ L \subseteq Nat /\ M \subseteq Nat
      BY <2>1, <2>2, <2>3, ListingAssumption DEF OnCourse
    <3>2. Rank(L, n) \in Nat /\ Rank(M, n) \in Nat  BY <2>2, <2>3, <3>1, RankBounds
    <3>3. Rank(L, n) <= Rank(M, n)  BY <2>1, <2>3, RankMonotone
    <3>4. Offset(k.token) <= Rank(L, n)  BY <2>1, <2>6 DEF OnCourse
    <3> QED BY <2>5, <3>2, <3>3, <3>4
  <2>7. k.due \subseteq M /\ Offset(k.token) <= Cardinality(M)
    BY <2>1, <2>2, <2>3, <2>4, <2>5 DEF OnCourse
  <2>8. OnCourse(walk'[w], M)  BY <1>2, <2>6, <2>7 DEF OnCourse
  <2> QED BY <2>8 DEF M
<1>6. WalkComplete'  BY <1>1, <1>2 DEF ListingInv, WalkComplete
<1>7. TokenAccepted'  BY <1>1, <1>2 DEF ListingInv, TokenAccepted
<1> QED BY <1>4, <1>5, <1>6, <1>7 DEF ListingInv

\* No walk has begun.
LEMMA InitListing == Init => ListingInv
<1> SUFFICES ASSUME Init PROVE ListingInv  OBVIOUS
<1>1. NoWalk \in Walks  BY DEF NoWalk, NoFilter, Walks, Filters
<1>2. \A w \in Walkers : walk[w].status = "idle"  BY DEF Init, NoWalk
<1>3. TypeOK  BY <1>1, <1>2 DEF Init, TypeOK
<1> QED BY <1>2, <1>3 DEF ListingInv, WalkingOnCourse, WalkComplete, TokenAccepted

\* The invariant is inductive.
LEMMA ListingStep == ListingInv /\ [Next]_vars => ListingInv'
<1> SUFFICES ASSUME ListingInv, [Next]_vars PROVE ListingInv'  OBVIOUS
<1>1. CASE UNCHANGED vars
  BY <1>1 DEF vars, ListingInv, TypeOK, WalkingOnCourse, WalkComplete, TokenAccepted, Listed
<1>2. ASSUME NEW w \in Walkers, NextPage(w) PROVE ListingInv'
  <2>1. walk[w] \in Walks  BY DEF ListingInv, TypeOK
  <2>2. ~walk[w].left => OnCourse(walk[w], Listing(keys, allowed[w], walk[w].filter))
    BY <1>2 DEF NextPage, ListingInv, WalkingOnCourse, Listed
  <2> QED BY <1>2, <2>1, <2>2, ListPageStep DEF NextPage
<1>3. ASSUME NEW w \in Walkers, NEW f \in Filters, NEW s \in PageSizes, FirstPage(w, f, s)
      PROVE  ListingInv'
  <2> DEFINE L == Listing(keys, allowed[w], f)
             k == [NoWalk EXCEPT !.filter = f, !.size = s, !.due = L]
  <2>1. L \in SUBSET Names /\ IsFiniteSet(L) /\ Cardinality(L) \in Nat
    BY ListingFinite DEF ListingInv, TypeOK
  <2> HIDE DEF L
  <2>2. k \in Walks /\ k.filter = f /\ k.due = L /\ k.token = None
    BY <2>1, ListingAssumption DEF NoWalk, NoFilter, Walks, Filters
  <2>3. \A n \in L : Rank(L, n) \in Nat
    BY <2>1, RankBounds, ListingAssumption
  <2>4. OnCourse(k, L)  BY <2>1, <2>2, <2>3 DEF OnCourse, Offset
  <2>5. OnCourse(k, Listing(keys, allowed[w], k.filter))  BY <2>2, <2>4 DEF L
  <2>6. ListPage(w, k)  BY <1>3 DEF FirstPage, L
  <2> QED BY <2>2, <2>5, <2>6, ListPageStep
<1>4. ASSUME NEW n \in Names, NEW md \in Metadata, CreateKey(n, md) PROVE ListingInv'
  BY <1>4, ObserveStep DEF CreateKey, ListingInv, TypeOK
<1>5. ASSUME NEW n \in Names, NEW a \in Attributes, NEW v \in Values, ReplaceVersion(n, a, v)
      PROVE  ListingInv'
  <2>1. keys[n] \in Metadata  BY <1>5 DEF ReplaceVersion, ListingInv, TypeOK
  <2>2. [keys[n] EXCEPT ![a] = v] \in Metadata  BY <2>1 DEF Metadata
  <2>3. keys' \in [Names -> Metadata \cup {None}]
    BY <1>5, <2>2 DEF ReplaceVersion, ListingInv, TypeOK
  <2> QED BY <1>5, <2>3, ObserveStep DEF ReplaceVersion, ListingInv, TypeOK
<1>6. ASSUME NEW w \in Walkers, NEW names \in SUBSET Names, Regrant(w, names)
      PROVE  ListingInv'
  BY <1>6, ObserveStep DEF Regrant, ListingInv, TypeOK
<1> QED BY <1>1, <1>2, <1>3, <1>4, <1>5, <1>6 DEF Next

-----------------------------------------------------------------------------

\* A walk that lost no key returns every key listed when it began.
THEOREM WalksAreComplete == Spec => []WalkComplete
<1>1. ListingInv => WalkComplete  BY DEF ListingInv
<1> QED BY <1>1, InitListing, ListingStep, PTL DEF Spec

\* A token is refused only after a key has left the listing.
THEOREM TokensAreAccepted == Spec => []TokenAccepted
<1>1. ListingInv => TokenAccepted  BY DEF ListingInv
<1> QED BY <1>1, InitListing, ListingStep, PTL DEF Spec

-----------------------------------------------------------------------------
(* Over a listing that stays the same the pages partition it: a walk in    *)
(* progress has returned exactly the keys before its token.                *)

Before(L, offset) == {n \in L : Rank(L, n) < offset}

Steady(k, L) == k.due = L /\ k.seen = Before(L, Offset(k.token))

WalkingSteadily ==
    \A w \in Walkers :
        walk[w].status = "walking" /\ ~walk[w].changed => Steady(walk[w], Listed(w))

SteadyInv == TypeOK /\ WalkingSteadily /\ ExactlyOnce

\* A page follows on what was returned before it.
LEMMA PageSteady ==
    ASSUME NEW L \in SUBSET Names, IsFiniteSet(L), NEW k \in Walks, Steady(k, L),
           k.count = Cardinality(k.seen),
           Window(Cardinality(L), k.size, k.token).ok
    PROVE  LET win == Window(Cardinality(L), k.size, k.token)
               page == Slice(L, win.start, win.end)
               seen == k.seen \cup page
           IN /\ k.count + Cardinality(page) = Cardinality(seen)
              /\ win.next = None => seen = L
              /\ win.next # None => seen = Before(L, win.next)
<1> DEFINE total == Cardinality(L)
           win == Window(total, k.size, k.token)
           page == Slice(L, win.start, win.end)
           seen == k.seen \cup page
<1>1. total \in Nat /\ k.size \in Int /\ k.token \in Nat \cup {None} /\ Offset(k.token) \in Nat
  BY FS_CardinalityType DEF Walks, Offset
<1>2. win.start = Offset(k.token) /\ k.size >= 0 /\ Offset(k.token) <= total
  BY <1>1 DEF Window, Offset
<1>3. /\ win.end \in Nat /\ win.start <= win.end
      /\ win.next = None => win.end >= total
      /\ win.next # None => win.next = win.end
  BY <1>1, <1>2, ListingAssumption DEF Window, Offset
<1>4. \A n \in L : Rank(L, n) \in Nat /\ Rank(L, n) < total
  BY RankBounds, ListingAssumption
<1> HIDE DEF win, total
<1>5. k.seen = {n \in L : Rank(L, n) < win.start}
  BY <1>2 DEF Steady, Before
<1>6. page = {n \in L : win.start <= Rank(L, n) /\ Rank(L, n) < win.end}
  BY DEF Slice
<1>7. seen = {n \in L : Rank(L, n) < win.end}
  <2>1. win.start \in Nat  BY <1>1, <1>2
  <2> QED BY <1>3, <1>4, <1>5, <1>6, <2>1
<1>8. k.seen \cap page = {}
  <2>1. win.start \in Nat  BY <1>1, <1>2
  <2> QED BY <1>4, <1>5, <1>6, <2>1
<1>9. k.count + Cardinality(page) = Cardinality(seen)
  <2>1. IsFiniteSet(k.seen) /\ IsFiniteSet(page)
    <3>1. k.seen \in SUBSET L /\ page \in SUBSET L  BY <1>5, <1>6
    <3> QED BY <3>1, FS_Subset
  <2> HIDE DEF page
  <2>2. Cardinality(k.seen \cup page)
          = Cardinality(k.seen) + Cardinality(page) - Cardinality(k.seen \cap page)
    BY <2>1, FS_Union
  <2>3. Cardinality(k.seen \cap page) = 0  BY <1>8, FS_EmptySet
  <2>4. Cardinality(k.seen) \in Nat /\ Cardinality(page) \in Nat  BY <2>1, FS_CardinalityType
  <2> QED BY <2>2, <2>3, <2>4
<1>10. win.next = None => seen = L  BY <1>1, <1>3, <1>4, <1>7
<1>11. win.next # None => seen = Before(L, win.next)  BY <1>3, <1>7 DEF Before
<1> QED BY <1>9, <1>10, <1>11 DEF win, total

\* What one call makes of its own walk, and that it leaves the others alone.
LEMMA ListPageEffect ==
    ASSUME TypeOK, NEW w \in Walkers, NEW k \in Walks, ListPage(w, k)
    PROVE  LET L == Listing(keys, allowed[w], k.filter)
               win == Window(Cardinality(L), k.size, k.token)
               page == Slice(L, win.start, win.end)
               k1 == walk'[w]
           IN /\ k1.filter = k.filter /\ k1.due = k.due /\ k1.changed = k.changed
              /\ win.ok => /\ k1.status = IF win.next = None THEN "done" ELSE "walking"
                           /\ k1.token = win.next /\ k1.seen = k.seen \cup page
                           /\ k1.count = k.count + Cardinality(page)
              /\ ~win.ok => k1.status = "failed" /\ k1.seen = k.seen /\ k1.count = k.count
              /\ \A v \in Walkers \ {w} : walk'[v] = walk[v]
              /\ UNCHANGED <<keys, allowed>>
<1> DEFINE L == Listing(keys, allowed[w], k.filter)
           win == Window(Cardinality(L), k.size, k.token)
           page == Slice(L, win.start, win.end)
           st == IF win.next = None THEN "done" ELSE "walking"
           s == k.seen \cup page
           c == k.count + Cardinality(page)
           nxt == win.next
           ok == win.ok
<1>1. /\ walk' = [walk EXCEPT ![w] =
                    IF ok THEN [k EXCEPT !.status = st, !.token = nxt, !.seen = s, !.count = c]
                    ELSE [k EXCEPT !.status = "failed"]]
      /\ UNCHANGED <<keys, allowed>>
  BY DEF ListPage
<1> HIDE DEF st, s, c, nxt, ok
<1>2. walk'[w] = IF ok THEN [k EXCEPT !.status = st, !.token = nxt, !.seen = s, !.count = c]
                 ELSE [k EXCEPT !.status = "failed"]
  BY <1>1 DEF TypeOK
<1>3. \A v \in Walkers \ {w} : walk'[v] = walk[v]
  BY <1>1 DEF TypeOK
<1>4. /\ walk'[w].filter = k.filter /\ walk'[w].due = k.due /\ walk'[w].changed = k.changed
      /\ ok => /\ walk'[w].status = st /\ walk'[w].token = nxt /\ walk'[w].seen = s
               /\ walk'[w].count = c
      /\ ~ok => /\ walk'[w].status = "failed" /\ walk'[w].seen = k.seen
                /\ walk'[w].count = k.count
  BY <1>2 DEF Walks
<1> QED BY <1>1, <1>3, <1>4 DEF st, s, c, nxt, ok

LEMMA ListPageSteady ==
    ASSUME SteadyInv, TypeOK', NEW w \in Walkers, NEW k \in Walks, ListPage(w, k),
           ~k.changed => /\ Steady(k, Listing(keys, allowed[w], k.filter))
                         /\ k.count = Cardinality(k.seen)
    PROVE  SteadyInv'
<1> DEFINE L == Listing(keys, allowed[w], k.filter)
           win == Window(Cardinality(L), k.size, k.token)
           page == Slice(L, win.start, win.end)
           k1 == walk'[w]
<1>0. TypeOK  BY DEF SteadyInv
<1>1. L \in SUBSET Names /\ IsFiniteSet(L)
  BY <1>0, ListingFinite DEF TypeOK
<1>2. /\ k1.filter = k.filter /\ k1.due = k.due /\ k1.changed = k.changed
      /\ win.ok => /\ k1.status = IF win.next = None THEN "done" ELSE "walking"
                   /\ k1.token = win.next /\ k1.seen = k.seen \cup page
                   /\ k1.count = k.count + Cardinality(page)
      /\ ~win.ok => k1.status = "failed" /\ k1.seen = k.seen /\ k1.count = k.count
      /\ \A v \in Walkers \ {w} : walk'[v] = walk[v]
      /\ UNCHANGED <<keys, allowed>>
  BY <1>0, ListPageEffect
<1>3. win.ok /\ ~k.changed =>
        /\ k.count + Cardinality(page) = Cardinality(k.seen \cup page)
        /\ win.next = None => k.seen \cup page = L
        /\ win.next # None => k.seen \cup page = Before(L, win.next)
  BY <1>1, PageSteady
<1>4. ~k.changed => k.due = L  BY DEF Steady
<1>5. Listed(w)' = L  BY <1>2 DEF Listed
<1> HIDE DEF L, win, page, k1
<1>6. ~k1.changed => /\ k1.count = Cardinality(k1.seen)
                     /\ k1.status = "done" => k1.seen = k1.due
  BY <1>2, <1>3, <1>4
<1>7. k1.status = "walking" /\ ~k1.changed => Steady(k1, L)
  BY <1>2, <1>3, <1>4 DEF Steady, Offset
<1>8. ExactlyOnce'  BY <1>2, <1>6 DEF SteadyInv, ExactlyOnce, k1
<1>9. \A v \in Walkers \ {w} : Listed(v)' = Listed(v)
  BY <1>2 DEF Listed
<1>10. ASSUME NEW v \in Walkers, walk'[v].status = "walking", ~walk'[v].changed
       PROVE  Steady(walk'[v], Listed(v)')
  <2>1. CASE v = w  BY <1>5, <1>7, <1>10, <2>1 DEF k1
  <2>2. CASE v # w
    <3>1. walk'[v] = walk[v] /\ Listed(v)' = Listed(v)  BY <1>2, <1>9, <2>2
    <3>2. Steady(walk[v], Listed(v))  BY <1>10, <3>1 DEF SteadyInv, WalkingSteadily
    <3> QED BY <3>1, <3>2
  <2> QED BY <2>1, <2>2
<1>11. WalkingSteadily'  BY <1>10 DEF WalkingSteadily, Steady
<1> QED BY <1>8, <1>11 DEF SteadyInv

LEMMA ObserveEffect ==
    ASSUME TypeOK, Observe(keys', allowed'), NEW w \in Walkers
    PROVE  /\ walk'[w].status = walk[w].status /\ walk'[w].token = walk[w].token
           /\ walk'[w].seen = walk[w].seen /\ walk'[w].due = walk[w].due
           /\ walk'[w].count = walk[w].count /\ walk'[w].filter = walk[w].filter
           /\ ~walk'[w].changed => ~walk[w].changed /\ Listed(w)' = Listed(w)
<1> DEFINE M == Listing(keys', allowed'[w], walk[w].filter)
<1>1. walk'[w] = [walk[w] EXCEPT !.left = @ \/ ~(Listed(w) \subseteq M),
                                 !.changed = @ \/ Listed(w) # M]
  BY DEF Observe
<1>2. walk[w] \in Walks  BY DEF TypeOK
<1> HIDE DEF M
<1>3. /\ walk'[w].status = walk[w].status /\ walk'[w].token = walk[w].token
      /\ walk'[w].seen = walk[w].seen /\ walk'[w].due = walk[w].due
      /\ walk'[w].count = walk[w].count /\ walk'[w].filter = walk[w].filter
      /\ walk'[w].changed = (walk[w].changed \/ Listed(w) # M)
  BY <1>1, <1>2 DEF Walks
<1>4. Listed(w)' = M  BY <1>3 DEF Listed, M
<1> QED BY <1>3, <1>4

LEMMA ObserveSteady ==
    ASSUME SteadyInv, TypeOK', Observe(keys', allowed')
    PROVE  SteadyInv'
<1>0. TypeOK  BY DEF SteadyInv
<1>1. ExactlyOnce'  BY <1>0, ObserveEffect DEF SteadyInv, ExactlyOnce
<1>2. ASSUME NEW w \in Walkers, walk'[w].status = "walking", ~walk'[w].changed
      PROVE  Steady(walk'[w], Listed(w)')
  <2>1. Steady(walk[w], Listed(w)) /\ Listed(w)' = Listed(w)
    BY <1>0, <1>2, ObserveEffect DEF SteadyInv, WalkingSteadily
  <2> QED BY <1>0, <2>1, ObserveEffect DEF Steady
<1>3. WalkingSteadily'  BY <1>2 DEF WalkingSteadily, Steady
<1> QED BY <1>1, <1>3 DEF SteadyInv

LEMMA SteadyStep ==
    ASSUME SteadyInv, TypeOK', [Next]_vars PROVE SteadyInv'
<1>1. CASE UNCHANGED vars
  BY <1>1 DEF vars, SteadyInv, WalkingSteadily, ExactlyOnce, Listed, Steady
<1>2. ASSUME NEW w \in Walkers, NextPage(w) PROVE SteadyInv'
  <2>1. walk[w] \in Walks  BY DEF SteadyInv, TypeOK
  <2>2. ~walk[w].changed => /\ Steady(walk[w], Listing(keys, allowed[w], walk[w].filter))
                            /\ walk[w].count = Cardinality(walk[w].seen)
    BY <1>2 DEF NextPage, SteadyInv, WalkingSteadily, ExactlyOnce, Listed
  <2> QED BY <1>2, <2>1, <2>2, ListPageSteady DEF NextPage
<1>3. ASSUME NEW w \in Walkers, NEW f \in Filters, NEW s \in PageSizes, FirstPage(w, f, s)
      PROVE  SteadyInv'
  <2> DEFINE L == Listing(keys, allowed[w], f)
             k == [NoWalk EXCEPT !.filter = f, !.size = s, !.due = L]
  <2>1. L \in SUBSET Names /\ IsFiniteSet(L)
    BY ListingFinite DEF SteadyInv, TypeOK
  <2>2. ListPage(w, k)  BY <1>3 DEF FirstPage
  <2>3. Listing(keys, allowed[w], f) = L  OBVIOUS
  <2> HIDE DEF L
  <2>4. /\ k \in Walks /\ k.filter = f /\ k.due = L /\ k.token = None /\ k.seen = {}
        /\ k.count = 0
    BY <2>1, ListingAssumption DEF NoWalk, NoFilter, Walks, Filters
  <2>5. \A n \in L : Rank(L, n) \in Nat
    BY <2>1, RankBounds, ListingAssumption
  <2>6. Before(L, 0) = {}  BY <2>5 DEF Before
  <2>7. Steady(k, L) /\ k.count = Cardinality(k.seen)
    BY <2>4, <2>6, FS_EmptySet DEF Steady, Offset
  <2> HIDE DEF k
  <2> QED BY <2>2, <2>3, <2>4, <2>7, ListPageSteady
<1>4. ASSUME NEW n \in Names, NEW md \in Metadata, CreateKey(n, md) PROVE SteadyInv'
  BY <1>4, ObserveSteady DEF CreateKey
<1>5. ASSUME NEW n \in Names, NEW a \in Attributes, NEW v \in Values, ReplaceVersion(n, a, v)
      PROVE  SteadyInv'
  BY <1>5, ObserveSteady DEF ReplaceVersion
<1>6. ASSUME NEW w \in Walkers, NEW names \in SUBSET Names, Regrant(w, names)
      PROVE  SteadyInv'
  BY <1>6, ObserveSteady DEF Regrant
<1> QED BY <1>1, <1>2, <1>3, <1>4, <1>5, <1>6 DEF Next

\* Over a listing that does not change the pages are disjoint and together
\* are the listing (paging.Window, ListKeys).
THEOREM PagesPartition == Spec => []ExactlyOnce
<1>1. Init => SteadyInv
  <2> SUFFICES ASSUME Init PROVE SteadyInv  OBVIOUS
  <2>1. TypeOK  BY InitListing DEF ListingInv
  <2>2. \A w \in Walkers : walk[w].status = "idle" /\ walk[w].seen = {} /\ walk[w].count = 0
    BY DEF Init, NoWalk
  <2> QED BY <2>1, <2>2, FS_EmptySet DEF SteadyInv, WalkingSteadily, ExactlyOnce
<1>2. ListingInv /\ SteadyInv /\ [Next]_vars => ListingInv' /\ SteadyInv'
  BY ListingStep, SteadyStep DEF ListingInv
<1>3. SteadyInv => ExactlyOnce  BY DEF SteadyInv
<1> QED BY <1>1, <1>2, <1>3, InitListing, PTL DEF Spec

=============================================================================
