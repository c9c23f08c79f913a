------------------------------ MODULE LRUCache ------------------------------
(***************************************************************************)
(* The name-to-id cache of vault-storage/key/cache.go.                     *)
(*                                                                         *)
(* lruCache keeps a map and a linked list of the same entries.  Here both  *)
(* are one sequence of entries, most recently used first: the map is the   *)
(* set of keys in it, the list its order.                                  *)
(***************************************************************************)
EXTENDS Naturals, Sequences

Entry(k, v) == [key |-> k, value |-> v]

\* A cache never holds two entries for one key: it has one map slot for it.
Entries(K, V) == [key : K, value : V]
DistinctKeys(c) == \A i, j \in 1..Len(c) : c[i].key = c[j].key => i = j

Has(c, k) == \E j \in 1..Len(c) : c[j].key = k

Position(c, k) == CHOOSE j \in 1..Len(c) : c[j].key = k

\* list.Remove: the sequence without its j-th entry.
Without(c, j) == [m \in 1..(Len(c) - 1) |-> IF m < j THEN c[m] ELSE c[m + 1]]

Push(e, c) == <<e>> \o c

\* get on a hit returns this value ...
Value(c, k) == c[Position(c, k)].value

\* Mutant: a hit does not promote.
TouchNot(c, k) == c

\* ... and moves the entry to the front; a miss changes nothing.
Touch(c, k) ==
    IF Has(c, k)
    THEN Push(c[Position(c, k)], Without(c, Position(c, k)))
    ELSE c

\* Mutants: the value of a present key is kept; a cache may be overfull by
\* one.
PutKeeps(capacity, c, k, v) ==
    IF Has(c, k)
    THEN Push(c[Position(c, k)], Without(c, Position(c, k)))
    ELSE Push(Entry(k, v),
              IF Len(c) >= capacity /\ Len(c) > 0 THEN Without(c, Len(c)) ELSE c)

PutOverfull(capacity, c, k, v) ==
    IF Has(c, k)
    THEN Push(Entry(k, v), Without(c, Position(c, k)))
    ELSE Push(Entry(k, v),
              IF Len(c) > capacity /\ Len(c) > 0 THEN Without(c, Len(c)) ELSE c)

\* put replaces and promotes a present key.  A new key first evicts the
\* oldest entry of a full cache, if there is an oldest entry: a cache of
\* capacity 0 evicts nothing while empty and so holds one entry.
Put(capacity, c, k, v) ==
    IF Has(c, k)
    THEN Push(Entry(k, v), Without(c, Position(c, k)))
    ELSE Push(Entry(k, v),
              IF Len(c) >= capacity /\ Len(c) > 0 THEN Without(c, Len(c)) ELSE c)

Remove(c, k) == IF Has(c, k) THEN Without(c, Position(c, k)) ELSE c

=============================================================================
