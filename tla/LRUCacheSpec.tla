---------------------------- MODULE LRUCacheSpec ----------------------------
(***************************************************************************)
(* One lruCache (vault-storage/key/cache.go) used by one caller.  lastUse  *)
(* and lastPut record, beside the cache, when each key was last used and   *)
(* with which value it was last put: the reference the cache is held to.   *)
(***************************************************************************)
EXTENDS LRUCache, FiniteSets

CONSTANTS Keys, Values, MaxCapacity,
          MaxCalls   \* bound on the calls made

ASSUME BoundsAssumption == MaxCapacity \in Nat /\ MaxCalls \in Nat

VARIABLES capacity, cached, lastUse, lastPut, calls

vars == <<capacity, cached, lastUse, lastPut, calls>>

CachedKeys == {cached[j].key : j \in 1..Len(cached)}

\* newLRUCache, with any capacity: WithKeyNameToIDCacheSize does not check it.
Init ==
    /\ capacity \in 0..MaxCapacity
    /\ cached = <<>>
    /\ lastUse = [k \in Keys |-> 0]
    /\ lastPut \in [Keys -> {CHOOSE v \in Values : TRUE}]
    /\ calls = 0

Tick == calls < MaxCalls /\ calls' = calls + 1

CacheGet(k) ==
    /\ Tick
    /\ cached' = Touch(cached, k)
    /\ lastUse' = IF Has(cached, k) THEN [lastUse EXCEPT ![k] = calls'] ELSE lastUse
    /\ UNCHANGED <<capacity, lastPut>>

CachePut(k, v) ==
    /\ Tick
    /\ cached' = Put(capacity, cached, k, v)
    /\ lastUse' = [lastUse EXCEPT ![k] = calls']
    /\ lastPut' = [lastPut EXCEPT ![k] = v]
    /\ UNCHANGED capacity

CacheRemove(k) ==
    /\ Tick
    /\ cached' = Remove(cached, k)
    /\ UNCHANGED <<capacity, lastUse, lastPut>>

Next == \E k \in Keys : \/ CacheGet(k) \/ CacheRemove(k)
                        \/ \E v \in Values : CachePut(k, v)

Spec == Init /\ [][Next]_vars

-----------------------------------------------------------------------------

\* A hit returns the value last put under the key.
LatestValue == \A k \in CachedKeys : Value(cached, k) = lastPut[k]

\* The capacity bounds the cache, except that a put always caches: with
\* capacity 0 one entry is held, newest only.
Bounded == Len(cached) <= IF capacity = 0 THEN 1 ELSE capacity

\* Putting a key drops another only when the cache is full, and then only the
\* key used longest ago.
EvictsOldest ==
    [][(\E k \in Keys, v \in Values : CachePut(k, v)) =>
         \A k \in CachedKeys \ CachedKeys' :
           /\ Len(cached) >= capacity
           /\ \A j \in CachedKeys : lastUse[j] >= lastUse[k]]_vars

=============================================================================
