------------------------ MODULE VaultRepositoryProofs ------------------------
(***************************************************************************)
(* Proofs about VaultRepository for any number of requests, ids, names,    *)
(* versions and storage faults.                                            *)
(***************************************************************************)
EXTENDS VaultRepository, LRUCacheProofs

\* The calls have the types the steps of their methods rely on.
LEMMA CallsOK ==
    ASSUME NEW c \in Calls
    PROVE  /\ c \in [op : Ops, id : Ids \cup {None}, name : Names \cup {EmptyName, None},
                     ver : Vers \cup {0, None}]
           /\ c.op \in WriteOps \cup ReadOps
           /\ ArgumentsOK(c)
  BY ConstantsAssumption DEF Calls, Arguments, ArgumentsOK, WriteOps, ReadOps

-----------------------------------------------------------------------------
(* Type correctness.                                                       *)

\* The initial state is well typed.
LEMMA InitType == Init => TypeOK
  BY ConstantsAssumption DEF Init, TypeOK, Types, StoreTypes, ControlTypes, RegisterTypes,
     ArgumentsOK, StepOK, RegistersOK, NoCall,
     Codes, Steps, DistinctKeys, WriteOps, ReadOps, WriteSteps, ReadSteps

\* What TypeOK says of one request.
RequestOK(p) == ArgumentsOK(call[p]) /\ StepOK(pc[p], call[p].op) /\ RegistersOK(p)

\* A step of request p leaves the registers of the others alone.
OnlyMoves(p) ==
    \A q \in Procs \ {p} :
        /\ pc'[q] = pc[q] /\ call'[q] = call[q] /\ snap'[q] = snap[q] /\ todo'[q] = todo[q]
        /\ out'[q] = out[q] /\ code'[q] = code[q] /\ readers'[q] = readers[q]

\* A step of one request leaves the registers of the others alone.
LEMMA Frame ==
    ASSUME TypeOK, NEW p \in Procs, Step(p)
    PROVE  OnlyMoves(p)
<1> USE DEF TypeOK, Types, ControlTypes, RegisterTypes, OnlyMoves, locks, Goto, Return, Cleanup,
      Finish
<1>1. CASE \E c \in Calls : Begin(p, c)
  BY <1>1 DEF Begin
<1>2. CASE Acquire(p)
  BY <1>2 DEF Acquire, Lock, RLock, RLockAgain
<1>3. CASE WaitForReaders(p) \/ Unlock(p)
  BY <1>3 DEF WaitForReaders, Unlock
<1>4. CASE Create(p)
  BY <1>4 DEF Create, GetOld, GetName, PutName, CacheName, PutKey
<1>5. CASE Write(p)
  BY <1>5 DEF Write, GetOldVersion, PutVersion, AddGet, UpdGet, UpdateFailed, UpdPut, UndoVersion
<1>6. CASE Delete(p)
  BY <1>6 DEF Delete, DelGet, UncacheName, DelName, DelKey, ListVersions, DelVersion
<1>7. CASE Read(p)
  BY <1>7 DEF Read, CacheGet, GetMapping, CacheFill, ReadKey, ReadVersion, ListIds, ListGet
<1>8. CASE StorageFault(p)
  BY <1>8 DEF StorageFault
<1> QED BY <1>1, <1>2, <1>3, <1>4, <1>5, <1>6, <1>7, <1>8 DEF Step, Proceed

\* So TypeOK is left to be shown of the shared state and of request p.
LEMMA OneMoves ==
    ASSUME TypeOK, NEW p \in Procs, OnlyMoves(p), StoreTypes', ControlTypes', RegisterTypes',
           \A r \in Repos : DistinctKeys(cache[r])', RequestOK(p)'
    PROVE  TypeOK'
<1>1. ASSUME NEW q \in Procs \ {p} PROVE RequestOK(q)'
  BY <1>1 DEF TypeOK, OnlyMoves, RequestOK, ArgumentsOK, StepOK, RegistersOK
<1> QED BY <1>1 DEF TypeOK, Types, RequestOK

\* What the cache steps do to the cache of the request's repository.
LEMMA CachePutType ==
    ASSUME TypeOK, NEW p \in Procs, NEW n \in Names, NEW i \in Ids,
           cache' = [cache EXCEPT ![RepoOf[p]] = Put(CacheSize, @, n, i)]
    PROVE  /\ cache' \in [Repos -> Seq(Entries(Names, Ids))]
           /\ \A r \in Repos : DistinctKeys(cache[r])'
<1>1. /\ cache \in [Repos -> Seq(Entries(Names, Ids))] /\ RepoOf[p] \in Repos
      /\ \A r \in Repos : DistinctKeys(cache[r])
  BY ConstantsAssumption DEF TypeOK, Types, StoreTypes
<1>2. ASSUME NEW c \in Seq(Entries(Names, Ids)), DistinctKeys(c)
      PROVE  Put(CacheSize, c, n, i) \in Seq(Entries(Names, Ids))
             /\ DistinctKeys(Put(CacheSize, c, n, i))
  BY <1>2, PutProperties
<1> QED BY <1>1, <1>2

\* get keeps the caches well typed.
LEMMA CacheTouchType ==
    ASSUME TypeOK, NEW p \in Procs, NEW n,
           cache' = [cache EXCEPT ![RepoOf[p]] = Touch(@, n)]
    PROVE  /\ cache' \in [Repos -> Seq(Entries(Names, Ids))]
           /\ \A r \in Repos : DistinctKeys(cache[r])'
<1>1. /\ cache \in [Repos -> Seq(Entries(Names, Ids))] /\ RepoOf[p] \in Repos
      /\ \A r \in Repos : DistinctKeys(cache[r])
  BY ConstantsAssumption DEF TypeOK, Types, StoreTypes
<1>2. ASSUME NEW c \in Seq(Entries(Names, Ids)), DistinctKeys(c)
      PROVE  Touch(c, n) \in Seq(Entries(Names, Ids)) /\ DistinctKeys(Touch(c, n))
  BY <1>2, TouchProperties
<1> QED BY <1>1, <1>2

\* remove keeps the caches well typed.
LEMMA CacheRemoveType ==
    ASSUME TypeOK, NEW p \in Procs, NEW n,
           cache' = [cache EXCEPT ![RepoOf[p]] = Remove(@, n)]
    PROVE  /\ cache' \in [Repos -> Seq(Entries(Names, Ids))]
           /\ \A r \in Repos : DistinctKeys(cache[r])'
<1>1. /\ cache \in [Repos -> Seq(Entries(Names, Ids))] /\ RepoOf[p] \in Repos
      /\ \A r \in Repos : DistinctKeys(cache[r])
  BY ConstantsAssumption DEF TypeOK, Types, StoreTypes
<1>2. ASSUME NEW c \in Seq(Entries(Names, Ids)), DistinctKeys(c)
      PROVE  Remove(c, n) \in Seq(Entries(Names, Ids)) /\ DistinctKeys(Remove(c, n))
  BY <1>2, RemoveProperties
<1> QED BY <1>1, <1>2

\* A cache hit returns an id.
LEMMA ValueType ==
    ASSUME NEW c \in Seq(Entries(Names, Ids)), NEW n, DistinctKeys(c), Has(c, n)
    PROVE  Value(c, n) \in Ids
<1>1. PICK j \in 1..Len(c) : c[j].value = Value(c, n)
  BY TouchProperties
<1>2. c[j] \in Entries(Names, Ids)
  BY <1>1, ElementOfSeq
<1> QED BY <1>1, <1>2 DEF Entries

\* GetKeyByName keeps the id it resolved with its arguments.
LEMMA CallIdType ==
    ASSUME RegisterTypes, NEW p \in Procs, NEW i \in Ids, call' = [call EXCEPT ![p].id = i]
    PROVE  /\ call' \in [Procs -> [op : Ops \cup {"none"}, id : Ids \cup {None},
                          name : Names \cup {EmptyName, None}, ver : Vers \cup {0, None}]]
           /\ call'[p].op = call[p].op /\ call'[p].id = i
           /\ call'[p].name = call[p].name /\ call'[p].ver = call[p].ver
  BY DEF RegisterTypes

\* Every step of a request keeps the types.
LEMMA TypeStep ==
    ASSUME TypeOK, NEW p \in Procs, Step(p)
    PROVE  TypeOK'
<1> USE ConstantsAssumption DEF store, locks, Goto, Return, Cleanup, Finish
<1>t. /\ StoreTypes /\ ControlTypes /\ RegisterTypes
      /\ \A r \in Repos : DistinctKeys(cache[r])
      /\ RequestOK(p)
  BY DEF TypeOK, Types, RequestOK
<1>f. OnlyMoves(p)
  BY Frame
<1>0. ASSUME NEW c \in Calls, Begin(p, c) PROVE TypeOK'
  <2>2. StoreTypes' /\ RegisterTypes'
    BY <1>0, <1>t, CallsOK DEF Begin, StoreTypes, RegisterTypes
  <2>3. ControlTypes'
    BY <1>0, <1>t DEF Begin, ControlTypes, Steps
  <2>4. RequestOK(p)'
    BY <1>0, <1>t, CallsOK DEF Begin, ControlTypes, RegisterTypes, RequestOK, RegistersOK,
       StepOK, WriteOps, ReadOps
  <2> QED BY <1>0, <1>f, <2>2, <2>3, <2>4, OneMoves DEF Begin, TypeOK
<1>1. CASE Lock(p)
  <2>2. StoreTypes'
    BY <1>1, <1>t DEF Lock, StoreTypes, RegisterTypes, RequestOK, ArgumentsOK, StepOK,
       RegistersOK, MyLock
  <2>3. ControlTypes'
    BY <1>1, <1>t DEF Lock, ControlTypes, Codes, Steps, WriteSteps, ReadSteps, MyLock
  <2>4. RegisterTypes'
    BY <1>1, <1>t DEF Lock, StoreTypes, RegisterTypes, RequestOK, ArgumentsOK, StepOK,
       RegistersOK, MyLock
  <2>5. RequestOK(p)'
    BY <1>1, <1>t DEF Lock, StoreTypes, ControlTypes, RegisterTypes, RequestOK, ArgumentsOK,
       StepOK, RegistersOK, WriteOps, ReadOps, MyLock
  <2> QED BY <1>1, <1>f, <2>2, <2>3, <2>4, <2>5, OneMoves DEF Lock, TypeOK
<1>2. CASE WaitForReaders(p)
  <2>2. StoreTypes'
    BY <1>2, <1>t DEF WaitForReaders, StoreTypes, RegisterTypes, RequestOK, ArgumentsOK, StepOK,
       RegistersOK, FirstStep
  <2>3. ControlTypes'
    BY <1>2, <1>t DEF WaitForReaders, ControlTypes, Codes, Steps, WriteSteps, ReadSteps, FirstStep
  <2>4. RegisterTypes'
    BY <1>2, <1>t DEF WaitForReaders, StoreTypes, RegisterTypes, RequestOK, ArgumentsOK, StepOK,
       RegistersOK, FirstStep
  <2>5. RequestOK(p)'
    BY <1>2, <1>t, SMTT(30)
       DEF WaitForReaders, StoreTypes, ControlTypes, RegisterTypes, RequestOK, ArgumentsOK,
       StepOK, RegistersOK, WriteOps, ReadOps, FirstStep
  <2> QED BY <1>2, <1>f, <2>2, <2>3, <2>4, <2>5, OneMoves DEF WaitForReaders, TypeOK
<1>3. CASE RLock(p)
  <2>2. StoreTypes'
    BY <1>3, <1>t DEF RLock, StoreTypes, RegisterTypes, RequestOK, ArgumentsOK, StepOK,
       RegistersOK, MyLock, FirstStep
  <2>3. ControlTypes'
    BY <1>3, <1>t DEF RLock, ControlTypes, Codes, Steps, WriteSteps, ReadSteps, MyLock, FirstStep
  <2>4. RegisterTypes'
    BY <1>3, <1>t DEF RLock, StoreTypes, RegisterTypes, RequestOK, ArgumentsOK, StepOK,
       RegistersOK, MyLock, FirstStep
  <2>5. RequestOK(p)'
    BY <1>3, <1>t, SMTT(30) DEF RLock, StoreTypes, ControlTypes, RegisterTypes, RequestOK, ArgumentsOK,
       StepOK, RegistersOK, WriteOps, ReadOps, MyLock, FirstStep
  <2> QED BY <1>3, <1>f, <2>2, <2>3, <2>4, <2>5, OneMoves DEF RLock, TypeOK
<1>4. CASE RLockAgain(p)
  <2>2. StoreTypes'
    BY <1>4, <1>t DEF RLockAgain, StoreTypes, RegisterTypes, RequestOK, ArgumentsOK, StepOK,
       RegistersOK, MyLock
  <2>3. ControlTypes'
    BY <1>4, <1>t DEF RLockAgain, ControlTypes, Codes, Steps, WriteSteps, ReadSteps, MyLock
  <2>4. RegisterTypes'
    BY <1>4, <1>t DEF RLockAgain, StoreTypes, RegisterTypes, RequestOK, ArgumentsOK, StepOK,
       RegistersOK, MyLock
  <2>5. RequestOK(p)'
    BY <1>4, <1>t DEF RLockAgain, StoreTypes, ControlTypes, RegisterTypes, RequestOK, ArgumentsOK,
       StepOK, RegistersOK, WriteOps, ReadOps, MyLock
  <2> QED BY <1>4, <1>f, <2>2, <2>3, <2>4, <2>5, OneMoves DEF RLockAgain, TypeOK
<1>5. CASE Unlock(p)
  <2>2. StoreTypes'
    BY <1>5, <1>t DEF Unlock, StoreTypes, RegisterTypes, RequestOK, ArgumentsOK, StepOK,
       RegistersOK, MyLock, NoCall
  <2>3. ControlTypes'
    BY <1>5, <1>t DEF Unlock, ControlTypes, Codes, Steps, WriteSteps, ReadSteps, MyLock, NoCall
  <2>4. RegisterTypes'
    BY <1>5, <1>t DEF Unlock, StoreTypes, RegisterTypes, RequestOK, ArgumentsOK, StepOK,
       RegistersOK, MyLock, NoCall
  <2>5. RequestOK(p)'
    BY <1>5, <1>t DEF Unlock, StoreTypes, ControlTypes, RegisterTypes, RequestOK, ArgumentsOK,
       StepOK, RegistersOK, WriteOps, ReadOps, MyLock, NoCall
  <2> QED BY <1>5, <1>f, <2>2, <2>3, <2>4, <2>5, OneMoves DEF Unlock, TypeOK
<1>6. CASE GetOld(p)
  <2>2. StoreTypes'
    BY <1>6, <1>t DEF GetOld, StoreTypes, RegisterTypes, RequestOK, ArgumentsOK, StepOK,
       RegistersOK
  <2>3. ControlTypes'
    BY <1>6, <1>t DEF GetOld, ControlTypes, Codes, Steps, WriteSteps, ReadSteps
  <2>4. RegisterTypes'
    BY <1>6, <1>t DEF GetOld, StoreTypes, RegisterTypes, RequestOK, ArgumentsOK, StepOK,
       RegistersOK
  <2>5. RequestOK(p)'
    BY <1>6, <1>t DEF GetOld, StoreTypes, ControlTypes, RegisterTypes, RequestOK, ArgumentsOK,
       StepOK, RegistersOK, WriteOps, ReadOps
  <2> QED BY <1>6, <1>f, <2>2, <2>3, <2>4, <2>5, OneMoves DEF GetOld, TypeOK
<1>7. CASE GetName(p)
  <2>2. StoreTypes'
    BY <1>7, <1>t DEF GetName, StoreTypes, RegisterTypes, RequestOK, ArgumentsOK, StepOK,
       RegistersOK
  <2>3. ControlTypes'
    BY <1>7, <1>t DEF GetName, ControlTypes, Codes, Steps, WriteSteps, ReadSteps
  <2>4. RegisterTypes'
    BY <1>7, <1>t DEF GetName, StoreTypes, RegisterTypes, RequestOK, ArgumentsOK, StepOK,
       RegistersOK
  <2>5. RequestOK(p)'
    BY <1>7, <1>t DEF GetName, StoreTypes, ControlTypes, RegisterTypes, RequestOK, ArgumentsOK,
       StepOK, RegistersOK, WriteOps, ReadOps
  <2> QED BY <1>7, <1>f, <2>2, <2>3, <2>4, <2>5, OneMoves DEF GetName, TypeOK
<1>8. CASE PutName(p)
  <2>2. StoreTypes'
    BY <1>8, <1>t DEF PutName, StoreTypes, RegisterTypes, RequestOK, ArgumentsOK, StepOK,
       RegistersOK
  <2>3. ControlTypes'
    BY <1>8, <1>t DEF PutName, ControlTypes, Codes, Steps, WriteSteps, ReadSteps
  <2>4. RegisterTypes'
    BY <1>8, <1>t DEF PutName, StoreTypes, RegisterTypes, RequestOK, ArgumentsOK, StepOK,
       RegistersOK
  <2>5. RequestOK(p)'
    BY <1>8, <1>t DEF PutName, StoreTypes, ControlTypes, RegisterTypes, RequestOK, ArgumentsOK,
       StepOK, RegistersOK, WriteOps, ReadOps
  <2> QED BY <1>8, <1>f, <2>2, <2>3, <2>4, <2>5, OneMoves DEF PutName, TypeOK
<1>9. CASE CacheName(p)
  <2>c. /\ cache' \in [Repos -> Seq(Entries(Names, Ids))]
        /\ \A r \in Repos : DistinctKeys(cache[r])'
    <3>1. call[p].name \in Names /\ call[p].id \in Ids
      BY <1>9, <1>t DEF CacheName, RequestOK, ArgumentsOK, StepOK, RegistersOK, WriteOps
    <3> QED BY <1>9, <3>1, CachePutType DEF CacheName
  <2>2. StoreTypes'
    BY <1>9, <1>t, <2>c DEF CacheName, StoreTypes
  <2>3. ControlTypes'
    BY <1>9, <1>t DEF CacheName, ControlTypes, Codes, Steps, WriteSteps, ReadSteps
  <2>4. RegisterTypes'
    BY <1>9, <1>t DEF CacheName, StoreTypes, RegisterTypes, RequestOK, ArgumentsOK, StepOK,
       RegistersOK
  <2>5. RequestOK(p)'
    BY <1>9, <1>t DEF CacheName, StoreTypes, ControlTypes, RegisterTypes, RequestOK, ArgumentsOK,
       StepOK, RegistersOK, WriteOps, ReadOps
  <2> QED BY <1>9, <1>f, <2>2, <2>3, <2>4, <2>5, <2>c, OneMoves
<1>10. CASE PutKey(p)
  <2>2. StoreTypes'
    BY <1>10, <1>t DEF PutKey, StoreTypes, RegisterTypes, RequestOK, ArgumentsOK, StepOK,
       RegistersOK, KeyRec
  <2>3. ControlTypes'
    BY <1>10, <1>t DEF PutKey, ControlTypes, Codes, Steps, WriteSteps, ReadSteps, KeyRec
  <2>4. RegisterTypes'
    BY <1>10, <1>t DEF PutKey, StoreTypes, RegisterTypes, RequestOK, ArgumentsOK, StepOK,
       RegistersOK, KeyRec
  <2>5. RequestOK(p)'
    BY <1>10, <1>t DEF PutKey, StoreTypes, ControlTypes, RegisterTypes, RequestOK, ArgumentsOK,
       StepOK, RegistersOK, WriteOps, ReadOps, KeyRec
  <2> QED BY <1>10, <1>f, <2>2, <2>3, <2>4, <2>5, OneMoves DEF PutKey, TypeOK
<1>11. CASE GetOldVersion(p)
  <2>2. StoreTypes'
    BY <1>11, <1>t DEF GetOldVersion, StoreTypes, RegisterTypes, RequestOK, ArgumentsOK, StepOK,
       RegistersOK
  <2>3. ControlTypes'
    BY <1>11, <1>t DEF GetOldVersion, ControlTypes, Codes, Steps, WriteSteps, ReadSteps
  <2>4. RegisterTypes'
    BY <1>11, <1>t DEF GetOldVersion, StoreTypes, RegisterTypes, RequestOK, ArgumentsOK, StepOK,
       RegistersOK
  <2>5. RequestOK(p)'
    BY <1>11, <1>t DEF GetOldVersion, StoreTypes, ControlTypes, RegisterTypes, RequestOK, ArgumentsOK,
       StepOK, RegistersOK, WriteOps, ReadOps
  <2> QED BY <1>11, <1>f, <2>2, <2>3, <2>4, <2>5, OneMoves DEF GetOldVersion, TypeOK
<1>12. CASE PutVersion(p)
  <2>2. StoreTypes'
    BY <1>12, <1>t DEF PutVersion, StoreTypes, RegisterTypes, RequestOK, ArgumentsOK, StepOK,
       RegistersOK
  <2>3. ControlTypes'
    BY <1>12, <1>t DEF PutVersion, ControlTypes, Codes, Steps, WriteSteps, ReadSteps
  <2>4. RegisterTypes'
    BY <1>12, <1>t DEF PutVersion, StoreTypes, RegisterTypes, RequestOK, ArgumentsOK, StepOK,
       RegistersOK
  <2>5. RequestOK(p)'
    BY <1>12, <1>t DEF PutVersion, StoreTypes, ControlTypes, RegisterTypes, RequestOK, ArgumentsOK,
       StepOK, RegistersOK, WriteOps, ReadOps
  <2> QED BY <1>12, <1>f, <2>2, <2>3, <2>4, <2>5, OneMoves DEF PutVersion, TypeOK
<1>13. CASE AddGet(p)
  <2>2. StoreTypes'
    BY <1>13, <1>t DEF AddGet, StoreTypes, RegisterTypes, RequestOK, ArgumentsOK, StepOK,
       RegistersOK
  <2>3. ControlTypes'
    BY <1>13, <1>t DEF AddGet, ControlTypes, Codes, Steps, WriteSteps, ReadSteps
  <2>4. RegisterTypes'
    <3>1. snap' \in [Procs -> KeyRec \cup {None}]
      <4> DEFINE k == keys[call[p].id]
      <4>1. k \in KeyRec \cup {None}
        BY <1>13, <1>t DEF AddGet, StoreTypes, RequestOK, ArgumentsOK, StepOK, WriteOps, ReadOps
      <4>2. snap' = snap \/ (k # None /\ snap' = [snap EXCEPT ![p] = k])
        BY <1>13, <1>t DEF AddGet
      <4> HIDE DEF k
      <4> QED BY <1>t, <4>1, <4>2 DEF RegisterTypes
    <3> QED BY <1>13, <1>t, <3>1 DEF AddGet, RegisterTypes
  <2>5. RequestOK(p)'
    BY <1>13, <1>t DEF AddGet, StoreTypes, ControlTypes, RegisterTypes, RequestOK, ArgumentsOK,
       StepOK, RegistersOK, WriteOps, ReadOps
  <2> QED BY <1>13, <1>f, <2>2, <2>3, <2>4, <2>5, OneMoves DEF AddGet, TypeOK
<1>14. CASE UpdGet(p)
  <2>2. StoreTypes'
    BY <1>14, <1>t DEF UpdGet, StoreTypes, RegisterTypes, RequestOK, ArgumentsOK, StepOK,
       RegistersOK, UpdateFailed
  <2>3. ControlTypes'
    BY <1>14, <1>t DEF UpdGet, ControlTypes, Codes, Steps, WriteSteps, ReadSteps, UpdateFailed
  <2>4. RegisterTypes'
    BY <1>14, <1>t DEF UpdGet, StoreTypes, RegisterTypes, RequestOK, ArgumentsOK, StepOK,
       RegistersOK, UpdateFailed
  <2>5. RequestOK(p)'
    BY <1>14, <1>t DEF UpdGet, StoreTypes, ControlTypes, RegisterTypes, RequestOK, ArgumentsOK,
       StepOK, RegistersOK, WriteOps, ReadOps, UpdateFailed
  <2> QED BY <1>14, <1>f, <2>2, <2>3, <2>4, <2>5, OneMoves DEF UpdGet, TypeOK
<1>15. CASE UpdPut(p)
  <2>2. StoreTypes'
    BY <1>15, <1>t DEF UpdPut, StoreTypes, RegisterTypes, RequestOK, ArgumentsOK, StepOK,
       RegistersOK, KeyRec, NewRecord
  <2>3. ControlTypes'
    BY <1>15, <1>t DEF UpdPut, ControlTypes, Codes, Steps, WriteSteps, ReadSteps, KeyRec, NewRecord
  <2>4. RegisterTypes'
    BY <1>15, <1>t DEF UpdPut, StoreTypes, RegisterTypes, RequestOK, ArgumentsOK, StepOK,
       RegistersOK, KeyRec, NewRecord
  <2>5. RequestOK(p)'
    BY <1>15, <1>t DEF UpdPut, StoreTypes, ControlTypes, RegisterTypes, RequestOK, ArgumentsOK,
       StepOK, RegistersOK, WriteOps, ReadOps, KeyRec, NewRecord
  <2> QED BY <1>15, <1>f, <2>2, <2>3, <2>4, <2>5, OneMoves DEF UpdPut, TypeOK
<1>16. CASE UndoVersion(p)
  <2>2. StoreTypes'
    BY <1>16, <1>t DEF UndoVersion, StoreTypes, RegisterTypes, RequestOK, ArgumentsOK, StepOK,
       RegistersOK
  <2>3. ControlTypes'
    BY <1>16, <1>t DEF UndoVersion, ControlTypes, Codes, Steps, WriteSteps, ReadSteps
  <2>4. RegisterTypes'
    BY <1>16, <1>t DEF UndoVersion, StoreTypes, RegisterTypes, RequestOK, ArgumentsOK, StepOK,
       RegistersOK
  <2>5. RequestOK(p)'
    BY <1>16, <1>t DEF UndoVersion, StoreTypes, ControlTypes, RegisterTypes, RequestOK, ArgumentsOK,
       StepOK, RegistersOK, WriteOps, ReadOps
  <2> QED BY <1>16, <1>f, <2>2, <2>3, <2>4, <2>5, OneMoves DEF UndoVersion, TypeOK
<1>17. CASE DelGet(p)
  <2>2. StoreTypes'
    BY <1>17, <1>t DEF DelGet, StoreTypes, RegisterTypes, RequestOK, ArgumentsOK, StepOK,
       RegistersOK
  <2>3. ControlTypes'
    BY <1>17, <1>t DEF DelGet, ControlTypes, Codes, Steps, WriteSteps, ReadSteps
  <2>4. RegisterTypes'
    <3> DEFINE k == keys[call[p].id]
    <3>1. k \in KeyRec \cup {None}
      BY <1>17, <1>t DEF DelGet, StoreTypes, RequestOK, ArgumentsOK, StepOK, WriteOps
    <3>2. snap' = snap \/ snap' = [snap EXCEPT ![p] = k]
      BY <1>17 DEF DelGet
    <3> HIDE DEF k
    <3>3. snap' \in [Procs -> KeyRec \cup {None}]
      BY <1>t, <3>1, <3>2 DEF RegisterTypes
    <3> QED BY <1>17, <1>t, <3>3 DEF DelGet, RegisterTypes
  <2>5. RequestOK(p)'
    BY <1>17, <1>t DEF DelGet, StoreTypes, ControlTypes, RegisterTypes, RequestOK, ArgumentsOK,
       StepOK, RegistersOK, WriteOps, ReadOps
  <2> QED BY <1>17, <1>f, <2>2, <2>3, <2>4, <2>5, OneMoves DEF DelGet, TypeOK
<1>18. CASE UncacheName(p)
  <2>c. /\ cache' \in [Repos -> Seq(Entries(Names, Ids))]
        /\ \A r \in Repos : DistinctKeys(cache[r])'
    BY <1>18, CacheRemoveType DEF UncacheName
  <2>2. StoreTypes'
    BY <1>18, <1>t, <2>c DEF UncacheName, StoreTypes
  <2>3. ControlTypes'
    BY <1>18, <1>t DEF UncacheName, ControlTypes, Codes, Steps, WriteSteps, ReadSteps, DoomedName
  <2>4. RegisterTypes'
    BY <1>18, <1>t DEF UncacheName, StoreTypes, RegisterTypes, RequestOK, ArgumentsOK, StepOK,
       RegistersOK, DoomedName
  <2>5. RequestOK(p)'
    BY <1>18, <1>t DEF UncacheName, StoreTypes, ControlTypes, RegisterTypes, RequestOK, ArgumentsOK,
       StepOK, RegistersOK, WriteOps, ReadOps, DoomedName
  <2> QED BY <1>18, <1>f, <2>2, <2>3, <2>4, <2>5, <2>c, OneMoves
<1>19. CASE DelName(p)
  <2>2. StoreTypes'
    BY <1>19, <1>t DEF DelName, StoreTypes, RegisterTypes, RequestOK, ArgumentsOK, StepOK,
       RegistersOK, DoomedName
  <2>3. ControlTypes'
    BY <1>19, <1>t DEF DelName, ControlTypes, Codes, Steps, WriteSteps, ReadSteps, DoomedName
  <2>4. RegisterTypes'
    BY <1>19, <1>t DEF DelName, StoreTypes, RegisterTypes, RequestOK, ArgumentsOK, StepOK,
       RegistersOK, DoomedName
  <2>5. RequestOK(p)'
    BY <1>19, <1>t DEF DelName, StoreTypes, ControlTypes, RegisterTypes, RequestOK, ArgumentsOK,
       StepOK, RegistersOK, WriteOps, ReadOps, DoomedName
  <2> QED BY <1>19, <1>f, <2>2, <2>3, <2>4, <2>5, OneMoves DEF DelName, TypeOK
<1>20. CASE DelKey(p)
  <2>2. StoreTypes'
    BY <1>20, <1>t DEF DelKey, StoreTypes, RegisterTypes, RequestOK, ArgumentsOK, StepOK,
       RegistersOK
  <2>3. ControlTypes'
    BY <1>20, <1>t DEF DelKey, ControlTypes, Codes, Steps, WriteSteps, ReadSteps
  <2>4. RegisterTypes'
    BY <1>20, <1>t DEF DelKey, StoreTypes, RegisterTypes, RequestOK, ArgumentsOK, StepOK,
       RegistersOK
  <2>5. RequestOK(p)'
    BY <1>20, <1>t DEF DelKey, StoreTypes, ControlTypes, RegisterTypes, RequestOK, ArgumentsOK,
       StepOK, RegistersOK, WriteOps, ReadOps
  <2> QED BY <1>20, <1>f, <2>2, <2>3, <2>4, <2>5, OneMoves DEF DelKey, TypeOK
<1>21. CASE ListVersions(p)
  <2>2. StoreTypes'
    BY <1>21, <1>t DEF ListVersions, StoreTypes, RegisterTypes, RequestOK, ArgumentsOK, StepOK,
       RegistersOK
  <2>3. ControlTypes'
    BY <1>21, <1>t DEF ListVersions, ControlTypes, Codes, Steps, WriteSteps, ReadSteps
  <2>4. RegisterTypes'
    BY <1>21, <1>t DEF ListVersions, StoreTypes, RegisterTypes, RequestOK, ArgumentsOK, StepOK,
       RegistersOK
  <2>5. RequestOK(p)'
    BY <1>21, <1>t DEF ListVersions, StoreTypes, ControlTypes, RegisterTypes, RequestOK, ArgumentsOK,
       StepOK, RegistersOK, WriteOps, ReadOps
  <2> QED BY <1>21, <1>f, <2>2, <2>3, <2>4, <2>5, OneMoves DEF ListVersions, TypeOK
<1>22. CASE DelVersion(p)
  <2>p. /\ todo' = todo \/ \E v \in todo[p] : todo' = [todo EXCEPT ![p] = @ \ {v}]
        /\ \/ versions' = versions
           \/ \E v \in todo[p] : versions' = [versions EXCEPT ![call[p].id][v] = None]
        /\ \E l \in {"unlock", "delVersion"} : pc' = [pc EXCEPT ![p] = l]
        /\ todo[p] \subseteq Vers /\ call[p].id \in Ids
    BY <1>22, <1>t DEF DelVersion, RequestOK, RegistersOK, StepOK, ArgumentsOK, WriteOps
  <2>2. StoreTypes'
    <3>1. versions' \in [Ids -> [Vers -> Procs \cup {None}]]
      <4>1. CASE versions' = versions
        BY <1>t, <4>1 DEF StoreTypes
      <4>2. ASSUME NEW v \in Vers, versions' = [versions EXCEPT ![call[p].id][v] = None]
            PROVE  versions' \in [Ids -> [Vers -> Procs \cup {None}]]
        BY <1>t, <2>p, <4>2 DEF StoreTypes
      <4> QED BY <2>p, <4>1, <4>2
    <3> QED BY <1>22, <1>t, <3>1 DEF DelVersion, StoreTypes
  <2>3. ControlTypes'
    BY <1>22, <1>t, ZenonT(40) DEF DelVersion, ControlTypes, Codes, Steps, WriteSteps, ReadSteps
  <2>4. RegisterTypes'
    BY <1>22, <1>t, <2>p DEF DelVersion, RegisterTypes
  <2>5. RequestOK(p)'
    BY <1>22, <1>t, <2>p DEF DelVersion, ControlTypes, RegisterTypes, RequestOK,
       ArgumentsOK, StepOK, RegistersOK, WriteOps, ReadOps
  <2> QED BY <1>22, <1>f, <2>2, <2>3, <2>4, <2>5, OneMoves DEF DelVersion, TypeOK
<1>23. CASE CacheGet(p)
  <2>p. /\ call[p].name \in Names \cup {EmptyName}
        /\ \/ call' = call /\ pc' = [pc EXCEPT ![p] = "unlock"]
           \/ call' = call /\ pc' = [pc EXCEPT ![p] = "getMapping"] /\ call[p].name # EmptyName
           \/ /\ pc' = [pc EXCEPT ![p] = "rlockAgain"] /\ call[p].name # EmptyName
              /\ \E i \in Ids : call' = [call EXCEPT ![p].id = i]
    <3>1. /\ cache[RepoOf[p]] \in Seq(Entries(Names, Ids)) /\ DistinctKeys(cache[RepoOf[p]])
          /\ call[p].name \in Names \cup {EmptyName}
      BY <1>23, <1>t DEF CacheGet, StoreTypes, RequestOK, ArgumentsOK, StepOK
    <3>2. Has(cache[RepoOf[p]], call[p].name) => Value(cache[RepoOf[p]], call[p].name) \in Ids
      BY <3>1, ValueType
    <3> QED BY <1>23, <3>1, <3>2 DEF CacheGet
  <2>c. /\ cache' \in [Repos -> Seq(Entries(Names, Ids))]
        /\ \A r \in Repos : DistinctKeys(cache[r])'
    <3>1. cache' = cache \/ cache' = [cache EXCEPT ![RepoOf[p]] = Touch(@, call[p].name)]
      BY <1>23 DEF CacheGet
    <3> QED BY <1>t, <3>1, CacheTouchType DEF StoreTypes
  <2>2. StoreTypes'
    BY <1>23, <1>t, <2>c DEF CacheGet, StoreTypes
  <2>3. ControlTypes'
    BY <1>23, <1>t DEF CacheGet, ControlTypes, Codes, Steps, WriteSteps, ReadSteps
  <2>4. RegisterTypes'
    <3>1. ASSUME NEW i \in Ids, call' = [call EXCEPT ![p].id = i] PROVE RegisterTypes'
      BY <1>23, <1>t, <3>1, CallIdType DEF CacheGet, RegisterTypes
    <3>2. CASE call' = call
      BY <1>23, <1>t, <3>2 DEF CacheGet, RegisterTypes
    <3> QED BY <2>p, <3>1, <3>2
  <2>5. RequestOK(p)'
    <3>1. ASSUME NEW i \in Ids, call' = [call EXCEPT ![p].id = i],
                 pc' = [pc EXCEPT ![p] = "rlockAgain"]
          PROVE  RequestOK(p)'
      <4>1. /\ call'[p].op = call[p].op /\ call'[p].id \in Ids
            /\ call'[p].name = call[p].name /\ call'[p].ver = call[p].ver
        BY <1>t, <3>1, CallIdType
      <4>2. pc[p] = "cacheGet" /\ pc'[p] = "rlockAgain"
        BY <1>23, <1>t, <3>1 DEF CacheGet, ControlTypes
      <4>3. RequestOK(p)
        BY <1>t
      <4>4. call'[p].op = "GetKeyByName"
        BY <4>1, <4>2, <4>3 DEF RequestOK, StepOK
      <4> QED BY <2>p, <4>1, <4>2, <4>3, <4>4 DEF RequestOK, ArgumentsOK, StepOK, RegistersOK,
                 WriteOps, ReadOps
    <3>2. CASE call' = call /\ pc' = [pc EXCEPT ![p] = "unlock"]
      BY <1>23, <1>t, <3>2 DEF CacheGet, ControlTypes, RequestOK, ArgumentsOK, StepOK,
         RegistersOK
    <3>3. CASE /\ call' = call /\ pc' = [pc EXCEPT ![p] = "getMapping"]
               /\ call[p].name # EmptyName
      BY <1>23, <1>t, <2>p, <3>3 DEF CacheGet, ControlTypes, RequestOK, ArgumentsOK, StepOK,
         RegistersOK
    <3> QED BY <2>p, <3>1, <3>2, <3>3
  <2> QED BY <1>23, <1>f, <2>2, <2>3, <2>4, <2>5, <2>c, OneMoves
<1>24. CASE GetMapping(p)
  <2>2. StoreTypes'
    BY <1>24, <1>t DEF GetMapping, StoreTypes, RegisterTypes, RequestOK, ArgumentsOK, StepOK,
       RegistersOK
  <2>3. ControlTypes'
    BY <1>24, <1>t DEF GetMapping, ControlTypes, Codes, Steps, WriteSteps, ReadSteps
  <2>p. call[p].name \in Names /\ nameToID[call[p].name] \in Ids \cup {None}
    BY <1>24, <1>t DEF GetMapping, StoreTypes, RequestOK, RegistersOK
  <2>4. RegisterTypes'
    <3>1. ASSUME NEW i \in Ids, call' = [call EXCEPT ![p].id = i] PROVE RegisterTypes'
      BY <1>24, <1>t, <3>1, CallIdType DEF GetMapping, RegisterTypes
    <3>2. CASE call' = call
      BY <1>24, <1>t, <3>2 DEF GetMapping, RegisterTypes
    <3> QED BY <1>24, <2>p, <3>1, <3>2 DEF GetMapping
  <2>5. RequestOK(p)'
    <3>1. ASSUME NEW i \in Ids, call' = [call EXCEPT ![p].id = i],
                 pc' = [pc EXCEPT ![p] = "cacheFill"]
          PROVE  RequestOK(p)'
      <4>1. /\ call'[p].op = call[p].op /\ call'[p].id \in Ids
            /\ call'[p].name = call[p].name /\ call'[p].ver = call[p].ver
        BY <1>t, <3>1, CallIdType
      <4>2. pc[p] = "getMapping" /\ pc'[p] = "cacheFill"
        BY <1>24, <1>t, <3>1 DEF GetMapping, ControlTypes
      <4>3. RequestOK(p)
        BY <1>t
      <4>4. call'[p].op = "GetKeyByName"
        BY <4>1, <4>2, <4>3 DEF RequestOK, StepOK
      <4> QED BY <2>p, <4>1, <4>2, <4>3, <4>4 DEF RequestOK, ArgumentsOK, StepOK, RegistersOK,
                 WriteOps, ReadOps
    <3>2. CASE call' = call /\ pc' = [pc EXCEPT ![p] = "unlock"]
      BY <1>24, <1>t, <3>2 DEF GetMapping, ControlTypes, RequestOK, ArgumentsOK, StepOK,
         RegistersOK
    <3> QED BY <1>24, <2>p, <3>1, <3>2 DEF GetMapping
  <2> QED BY <1>24, <1>f, <2>2, <2>3, <2>4, <2>5, OneMoves DEF GetMapping, TypeOK
<1>25. CASE CacheFill(p)
  <2>c. /\ cache' \in [Repos -> Seq(Entries(Names, Ids))]
        /\ \A r \in Repos : DistinctKeys(cache[r])'
    <3>1. call[p].name \in Names /\ call[p].id \in Ids
      BY <1>25, <1>t DEF CacheFill, RequestOK, ArgumentsOK, StepOK, RegistersOK, WriteOps
    <3> QED BY <1>25, <3>1, CachePutType DEF CacheFill
  <2>2. StoreTypes'
    BY <1>25, <1>t, <2>c DEF CacheFill, StoreTypes
  <2>3. ControlTypes'
    BY <1>25, <1>t DEF CacheFill, ControlTypes, Codes, Steps, WriteSteps, ReadSteps
  <2>4. RegisterTypes'
    BY <1>25, <1>t DEF CacheFill, StoreTypes, RegisterTypes, RequestOK, ArgumentsOK, StepOK,
       RegistersOK
  <2>5. RequestOK(p)'
    BY <1>25, <1>t DEF CacheFill, StoreTypes, ControlTypes, RegisterTypes, RequestOK, ArgumentsOK,
       StepOK, RegistersOK, WriteOps, ReadOps
  <2> QED BY <1>25, <1>f, <2>2, <2>3, <2>4, <2>5, <2>c, OneMoves
<1>26. CASE ReadKey(p)
  <2>2. StoreTypes'
    BY <1>26, <1>t DEF ReadKey, StoreTypes, RegisterTypes, RequestOK, ArgumentsOK, StepOK,
       RegistersOK, KeyResult, Results
  <2>3. ControlTypes'
    BY <1>26, <1>t DEF ReadKey, ControlTypes, Codes, Steps, WriteSteps, ReadSteps, KeyResult, Results
  <2>4. RegisterTypes'
    <3> DEFINE k == keys[call[p].id]
    <3>1. call[p].id \in Ids /\ k \in KeyRec \cup {None}
      BY <1>26, <1>t DEF ReadKey, StoreTypes, RequestOK, RegistersOK
    <3>2. \/ snap' = snap /\ out' = out
          \/ k # None /\ snap' = snap /\ out' = [out EXCEPT ![p] = {KeyResult(call[p].id, k)}]
          \/ k # None /\ out' = out /\ snap' = [snap EXCEPT ![p] = k]
      BY <1>26 DEF ReadKey
    <3> HIDE DEF k
    <3>3. k # None => {KeyResult(call[p].id, k)} \in SUBSET Results
      BY <3>1 DEF KeyResult, Results
    <3> DEFINE o == {KeyResult(call[p].id, k)}
    <3> HIDE DEF o
    <3>4. snap' \in [Procs -> KeyRec \cup {None}]
      BY <1>t, <3>1, <3>2 DEF RegisterTypes
    <3>5. out' = out \/ (o \in SUBSET Results /\ out' = [out EXCEPT ![p] = o])
      BY <3>2, <3>3 DEF o
    <3>6. out' \in [Procs -> SUBSET Results]
      BY <1>t, <3>5 DEF RegisterTypes
    <3> QED BY <1>26, <1>t, <3>4, <3>6 DEF ReadKey, RegisterTypes
  <2>5. RequestOK(p)'
    BY <1>26, <1>t DEF ReadKey, StoreTypes, ControlTypes, RegisterTypes, RequestOK, ArgumentsOK,
       StepOK, RegistersOK, WriteOps, ReadOps, KeyResult, Results
  <2> QED BY <1>26, <1>f, <2>2, <2>3, <2>4, <2>5, OneMoves DEF ReadKey, TypeOK
<1>27. CASE ReadVersion(p)
  <2>2. StoreTypes'
    BY <1>27, <1>t DEF ReadVersion, StoreTypes, RegisterTypes, RequestOK, ArgumentsOK, StepOK,
       RegistersOK, VersionResult, Results, KeyRec
  <2>3. ControlTypes'
    BY <1>27, <1>t DEF ReadVersion, ControlTypes, Codes, Steps, WriteSteps, ReadSteps, VersionResult, Results, KeyRec
  <2>4. RegisterTypes'
    <3> DEFINE v == IF snap[p] = None THEN call[p].ver ELSE snap[p].cur
               m == versions[call[p].id][v]
    <3>0. call[p].id \in Ids /\ v \in Vers
      <4>1. RequestOK(p)
        BY <1>t
      <4>2. call[p].id \in Ids /\ (snap[p] = None => call[p].ver \in Vers)
        BY <1>27, <4>1 DEF ReadVersion, RequestOK, ArgumentsOK, StepOK, RegistersOK, WriteOps,
           ReadOps
      <4>3. snap[p] # None => snap[p].cur \in Vers
        BY <1>t DEF RegisterTypes, KeyRec
      <4> QED BY <4>2, <4>3
    <3>1. v \in Vers /\ m \in Procs \cup {None}
      <4> HIDE DEF v
      <4> QED BY <1>t, <3>0 DEF StoreTypes
    <3>2. out' = out \/ (m # None /\ out' = [out EXCEPT ![p] = {VersionResult(v, m)}])
      BY <1>27 DEF ReadVersion
    <3> HIDE DEF m, v
    <3>3. m # None => {VersionResult(v, m)} \in SUBSET Results
      BY <3>1 DEF VersionResult, Results
    <3> DEFINE o == {VersionResult(v, m)}
    <3> HIDE DEF o
    <3>5. out' = out \/ (o \in SUBSET Results /\ out' = [out EXCEPT ![p] = o])
      BY <3>2, <3>3 DEF o
    <3>4. out' \in [Procs -> SUBSET Results]
      BY <1>t, <3>5 DEF RegisterTypes
    <3> QED BY <1>27, <1>t, <3>4 DEF ReadVersion, RegisterTypes
  <2>5. RequestOK(p)'
    BY <1>27, <1>t DEF ReadVersion, StoreTypes, ControlTypes, RegisterTypes, RequestOK, ArgumentsOK,
       StepOK, RegistersOK, WriteOps, ReadOps, VersionResult, Results, KeyRec
  <2> QED BY <1>27, <1>f, <2>2, <2>3, <2>4, <2>5, OneMoves DEF ReadVersion, TypeOK
<1>28. CASE ListIds(p)
  <2>2. StoreTypes'
    BY <1>28, <1>t DEF ListIds, StoreTypes, RegisterTypes, RequestOK, ArgumentsOK, StepOK,
       RegistersOK
  <2>3. ControlTypes'
    BY <1>28, <1>t DEF ListIds, ControlTypes, Codes, Steps, WriteSteps, ReadSteps
  <2>4. RegisterTypes'
    BY <1>28, <1>t DEF ListIds, StoreTypes, RegisterTypes, RequestOK, ArgumentsOK, StepOK,
       RegistersOK
  <2>5. RequestOK(p)'
    BY <1>28, <1>t DEF ListIds, StoreTypes, ControlTypes, RegisterTypes, RequestOK, ArgumentsOK,
       StepOK, RegistersOK, WriteOps, ReadOps
  <2> QED BY <1>28, <1>f, <2>2, <2>3, <2>4, <2>5, OneMoves DEF ListIds, TypeOK
<1>29. CASE ListGet(p)
  <2>2. StoreTypes'
    BY <1>29, <1>t DEF ListGet, StoreTypes, RegisterTypes, RequestOK, ArgumentsOK, StepOK,
       RegistersOK, KeyResult, Results
  <2>3. ControlTypes'
    BY <1>29, <1>t DEF ListGet, ControlTypes, Codes, Steps, WriteSteps, ReadSteps, KeyResult, Results
  <2>4. RegisterTypes'
    <3>1. CASE todo[p] = {}
      BY <1>29, <1>t, <3>1 DEF ListGet, RegisterTypes
    <3>2. CASE todo[p] # {}
      <4>1. PICK i \in todo[p] :
              \/ out' = [out EXCEPT ![p] = {}] /\ todo' = todo
              \/ /\ keys[i] # None
                 /\ out' = [out EXCEPT ![p] = @ \cup {KeyResult(i, keys[i])}]
                 /\ todo' = [todo EXCEPT ![p] = @ \ {i}]
        BY <1>29, <3>2 DEF ListGet
      <4>2. i \in Ids /\ keys[i] \in KeyRec \cup {None}
        BY <1>29, <1>t, <4>1 DEF ListGet, StoreTypes, RequestOK, RegistersOK
      <4>3. keys[i] # None => KeyResult(i, keys[i]) \in Results
        BY <4>2 DEF KeyResult, Results
      <4>4. out' \in [Procs -> SUBSET Results] /\ todo' \in [Procs -> SUBSET (Vers \cup Ids)]
        <5> DEFINE o == out[p] \cup {KeyResult(i, keys[i])}
        <5>1. keys[i] # None => o \in SUBSET Results
          BY <1>t, <4>3 DEF RegisterTypes
        <5>2. \/ out' = [out EXCEPT ![p] = {}]
              \/ keys[i] # None /\ out' = [out EXCEPT ![p] = o]
          BY <4>1
        <5> HIDE DEF o
        <5>3. out' \in [Procs -> SUBSET Results]
          BY <1>t, <5>1, <5>2 DEF RegisterTypes
        <5>4. todo' \in [Procs -> SUBSET (Vers \cup Ids)]
          BY <1>t, <4>1 DEF RegisterTypes
        <5> QED BY <5>3, <5>4
      <4> QED BY <1>29, <1>t, <4>4 DEF ListGet, RegisterTypes
    <3> QED BY <3>1, <3>2
  <2>5. RequestOK(p)'
    BY <1>29, <1>t DEF ListGet, StoreTypes, ControlTypes, RegisterTypes, RequestOK, ArgumentsOK,
       StepOK, RegistersOK, WriteOps, ReadOps, KeyResult, Results
  <2> QED BY <1>29, <1>f, <2>2, <2>3, <2>4, <2>5, OneMoves DEF ListGet, TypeOK
<1>30. CASE StorageFault(p)
  <2>2. StoreTypes'
    BY <1>30, <1>t DEF StorageFault, StoreTypes, RegisterTypes, RequestOK, ArgumentsOK, StepOK,
       RegistersOK, AfterFault, StorageSteps
  <2>3. ControlTypes'
    BY <1>30, <1>t DEF StorageFault, ControlTypes, Codes, Steps, WriteSteps, ReadSteps, AfterFault, StorageSteps
  <2>4. RegisterTypes'
    BY <1>30, <1>t DEF StorageFault, StoreTypes, RegisterTypes, RequestOK, ArgumentsOK, StepOK,
       RegistersOK, AfterFault, StorageSteps
  <2>5. RequestOK(p)'
    BY <1>30, <1>t DEF StorageFault, StoreTypes, ControlTypes, RegisterTypes, RequestOK, ArgumentsOK,
       StepOK, RegistersOK, WriteOps, ReadOps, AfterFault, StorageSteps
  <2> QED BY <1>30, <1>f, <2>2, <2>3, <2>4, <2>5, OneMoves DEF StorageFault, TypeOK
<1> QED BY <1>0, <1>1, <1>2, <1>3, <1>4, <1>5, <1>6, <1>7, <1>8, <1>9, <1>10, <1>11, <1>12,
           <1>13, <1>14, <1>15, <1>16, <1>17, <1>18, <1>19, <1>20, <1>21, <1>22, <1>23, <1>24,
           <1>25, <1>26, <1>27, <1>28, <1>29, <1>30
        DEF Step, Acquire, Proceed, Create, Write, Delete, Read

\* Every step preserves TypeOK.
LEMMA TypeNext == TypeOK /\ [Next]_vars => TypeOK'
<1>1. ASSUME TypeOK, UNCHANGED vars PROVE TypeOK'
  <2>1. Types'
    BY <1>1 DEF vars, store, locks, TypeOK, Types, StoreTypes, ControlTypes, RegisterTypes
  <2>2. ASSUME NEW p \in Procs PROVE RequestOK(p)'
    BY <1>1 DEF vars, TypeOK, RequestOK, ArgumentsOK, StepOK, RegistersOK
  <2> QED BY <1>1, <2>1, <2>2 DEF vars, TypeOK, RequestOK
<1> QED BY <1>1, TypeStep DEF Next

\* Type correctness for every instance: requests are only at steps of the
\* method they called, with the arguments and the reads those steps use.
THEOREM TypeCorrect == Spec => []TypeOK
  BY InitType, TypeNext, PTL DEF Spec

-----------------------------------------------------------------------------
(***************************************************************************)
(* Safety of the repository when its requests share one lock, whatever     *)
(* storage calls fail.  First, what the RWMutex gives the methods: a       *)
(* request inside a write method is alone among those that share its lock. *)
(***************************************************************************)

InRead(p) == \/ pc[p] \in ReadSteps
             \/ pc[p] = "unlock" /\ call[p].op \in ReadOps

\* The lock's state is the set of requests between its Lock and Unlock or
\* RLock and RUnlock, and a writer that is past Lock has seen no reader.
LockInv ==
    /\ \A p \in Procs : (pc[p] = "wait" \/ InWrite(p)) <=> writer[LockOf[p]] = p
    /\ \A p \in Procs : readers[p] = 0 <=> ~InRead(p)
    /\ \A p, q \in Procs : InWrite(p) /\ LockOf[p] = LockOf[q] => ~InRead(q)

\* The steps of a write method, and of a read method, belong to no other.
LEMMA Sections ==
    ASSUME NEW l, NEW op, StepOK(l, op)
    PROVE  /\ l \in WriteSteps \cup {"lock", "wait"} => op \in WriteOps \ ReadOps
           /\ l \in ReadSteps \cup {"rlock"} => op \in ReadOps \ WriteOps
           /\ l \in WriteSteps => l \notin ReadSteps \cup {"unlock", "wait"}
           /\ l \in ReadSteps => l \notin WriteSteps \cup {"unlock", "wait"}
  BY DEF StepOK, WriteSteps, ReadSteps, WriteOps, ReadOps

\* A storage or cache step stays inside the section it is in.
LEMMA SectionStep ==
    ASSUME TypeOK, NEW p \in Procs,
           Create(p) \/ Write(p) \/ Delete(p) \/ Read(p) \/ StorageFault(p)
    PROVE  /\ UNCHANGED locks
           /\ \/ pc[p] \in WriteSteps /\ pc'[p] \in WriteSteps \cup {"unlock"}
              \/ pc[p] \in ReadSteps /\ pc'[p] \in ReadSteps \cup {"unlock"}
           /\ call'[p].op = call[p].op
<1> USE DEF TypeOK, Types, ControlTypes, WriteSteps, ReadSteps, Goto, Return, Cleanup, Finish
<1>1. CASE Create(p)
  BY <1>1 DEF Create, GetOld, GetName, PutName, CacheName, PutKey
<1>2. CASE Write(p)
  BY <1>2 DEF Write, GetOldVersion, PutVersion, AddGet, UpdGet, UpdateFailed, UpdPut, UndoVersion
<1>3. CASE Delete(p)
  BY <1>3 DEF Delete, DelGet, UncacheName, DelName, DelKey, ListVersions, DelVersion
<1>4. CASE Read(p)
  <2>1. CASE CacheGet(p)
    BY <2>1 DEF CacheGet, RegisterTypes
  <2>2. CASE GetMapping(p)
    BY <2>2 DEF GetMapping, RegisterTypes
  <2>3. CASE CacheFill(p) \/ ReadKey(p)
    BY <2>3 DEF CacheFill, ReadKey
  <2>4. CASE ReadVersion(p) \/ ListIds(p) \/ ListGet(p)
    BY <2>4 DEF ReadVersion, ListIds, ListGet
  <2> QED BY <1>4, <2>1, <2>2, <2>3, <2>4 DEF Read
<1>5. CASE StorageFault(p)
  BY <1>5 DEF StorageFault, StorageSteps, AfterFault
<1> QED BY <1>1, <1>2, <1>3, <1>4, <1>5

\* So the request stays where it is as far as its lock is concerned.
LEMMA StaysInside ==
    ASSUME TypeOK, NEW p \in Procs,
           Create(p) \/ Write(p) \/ Delete(p) \/ Read(p) \/ StorageFault(p)
    PROVE  /\ UNCHANGED locks /\ pc[p] # "wait" /\ pc'[p] # "wait"
           /\ InWrite(p)' <=> InWrite(p)
           /\ InRead(p)' <=> InRead(p)
<1>1. /\ pc[p] \in WriteSteps => call[p].op \in WriteOps \ ReadOps
      /\ pc[p] \in ReadSteps => call[p].op \in ReadOps \ WriteOps
  BY Sections DEF TypeOK
<1>2. /\ UNCHANGED locks
      /\ \/ pc[p] \in WriteSteps /\ pc'[p] \in WriteSteps \cup {"unlock"}
         \/ pc[p] \in ReadSteps /\ pc'[p] \in ReadSteps \cup {"unlock"}
      /\ call'[p].op = call[p].op
  BY SectionStep
<1> QED BY <1>1, <1>2 DEF InWrite, InRead, WriteSteps, ReadSteps

\* Initially nobody is inside a lock.
LEMMA LockInit == Init => LockInv
  BY ConstantsAssumption DEF Init, LockInv, InWrite, InRead, WriteSteps, ReadSteps

\* Every step preserves the lock invariant.
LEMMA LockStep ==
    ASSUME TypeOK, LockInv, NEW p \in Procs, Step(p)
    PROVE  LockInv'
<1>f. \A q \in Procs \ {p} : /\ InWrite(q)' <=> InWrite(q)
                             /\ InRead(q)' <=> InRead(q)
                             /\ pc'[q] = pc[q] /\ readers'[q] = readers[q]
  BY Frame DEF OnlyMoves, InWrite, InRead
<1>s. /\ pc[p] \in WriteSteps \cup {"lock", "wait"} => call[p].op \in WriteOps \ ReadOps
      /\ pc[p] \in ReadSteps \cup {"rlock"} => call[p].op \in ReadOps \ WriteOps
  BY Sections DEF TypeOK
<1>t. ControlTypes /\ None \notin Procs /\ LockOf \in [Procs -> Locks]
  BY ConstantsAssumption DEF TypeOK, Types
<1>0. CASE \E c \in Calls : Begin(p, c)
  <2>1. ~InWrite(p) /\ ~InRead(p) /\ pc[p] # "wait"
    BY <1>0 DEF Begin, InWrite, InRead, WriteSteps, ReadSteps
  <2>2. ~InWrite(p)' /\ ~InRead(p)' /\ pc'[p] # "wait" /\ UNCHANGED locks
    BY <1>0, <1>t DEF Begin, Goto, ControlTypes, InWrite, InRead, WriteSteps, ReadSteps
  <2> QED BY <1>f, <2>1, <2>2 DEF LockInv, locks
<1>1. CASE Lock(p)
  <2>1. ~InWrite(p) /\ ~InRead(p) /\ pc[p] # "wait" /\ writer[LockOf[p]] = None
    BY <1>1 DEF Lock, MyLock, InWrite, InRead, WriteSteps, ReadSteps
  <2>2. /\ ~InWrite(p)' /\ ~InRead(p)' /\ pc'[p] = "wait" /\ readers' = readers
        /\ writer' = [writer EXCEPT ![LockOf[p]] = p]
    BY <1>1, <1>t DEF Lock, MyLock, Goto, ControlTypes, InWrite, InRead, WriteSteps, ReadSteps
  <2> QED BY <1>f, <1>t, <2>1, <2>2 DEF LockInv, ControlTypes
<1>2. CASE WaitForReaders(p)
  <2>1. /\ ~InWrite(p) /\ ~InRead(p) /\ pc[p] = "wait"
        /\ \A q \in Procs : LockOf[q] = LockOf[p] => ~InRead(q)
    BY <1>2 DEF WaitForReaders, MyLock, InWrite, InRead, WriteSteps, ReadSteps, LockInv
  <2>2. InWrite(p)' /\ ~InRead(p)' /\ pc'[p] # "wait" /\ UNCHANGED locks
    BY <1>2, <1>s, <1>t DEF WaitForReaders, Goto, FirstStep, ControlTypes, InWrite, InRead,
       WriteSteps, ReadSteps, WriteOps
  <2> QED BY <1>f, <2>1, <2>2 DEF LockInv, locks
<1>3. CASE RLock(p)
  <2>1. ~InWrite(p) /\ ~InRead(p) /\ pc[p] # "wait" /\ writer[LockOf[p]] = None
    BY <1>3 DEF RLock, MyLock, InWrite, InRead, WriteSteps, ReadSteps
  <2>2. /\ ~InWrite(p)' /\ InRead(p)' /\ pc'[p] # "wait" /\ writer' = writer
        /\ readers'[p] = 1
    BY <1>3, <1>s, <1>t DEF RLock, Goto, FirstStep, ControlTypes, InWrite, InRead, WriteSteps,
       ReadSteps, WriteOps, ReadOps
  <2>3. \A q \in Procs : LockOf[q] = LockOf[p] => ~InWrite(q)
    BY <1>t, <2>1 DEF LockInv
  <2> QED BY <1>f, <2>1, <2>2, <2>3 DEF LockInv
<1>4. CASE RLockAgain(p)
  <2>1. ~InWrite(p) /\ InRead(p) /\ pc[p] # "wait"
    BY <1>4 DEF RLockAgain, InWrite, InRead, WriteSteps, ReadSteps
  <2>2. ~InWrite(p)' /\ InRead(p)' /\ pc'[p] # "wait" /\ writer' = writer /\ readers'[p] = 2
    BY <1>4, <1>t DEF RLockAgain, Goto, ControlTypes, InWrite, InRead, WriteSteps, ReadSteps
  <2> QED BY <1>f, <2>1, <2>2 DEF LockInv
<1>5. CASE Unlock(p)
  <2>1. /\ pc[p] = "unlock" /\ pc[p] \notin WriteSteps \cup ReadSteps \cup {"wait"}
        /\ InWrite(p) <=> call[p].op \in WriteOps
    BY <1>5 DEF Unlock, InWrite, WriteSteps, ReadSteps
  <2>2. /\ ~InWrite(p)' /\ ~InRead(p)' /\ pc'[p] # "wait" /\ readers'[p] = 0
        /\ writer' = IF InWrite(p) THEN [writer EXCEPT ![LockOf[p]] = None] ELSE writer
    BY <1>5, <1>t, <2>1 DEF Unlock, MyLock, ControlTypes, InWrite, InRead, WriteSteps, ReadSteps
  <2> QED BY <1>f, <1>t, <2>1, <2>2 DEF LockInv, ControlTypes
<1>6. CASE Create(p) \/ Write(p) \/ Delete(p) \/ Read(p) \/ StorageFault(p)
  <2>1. /\ UNCHANGED locks /\ pc[p] # "wait" /\ pc'[p] # "wait"
        /\ InWrite(p)' <=> InWrite(p)
        /\ InRead(p)' <=> InRead(p)
    BY <1>6, StaysInside
  <2> QED BY <1>f, <2>1 DEF LockInv, locks
<1> QED BY <1>0, <1>1, <1>2, <1>3, <1>4, <1>5, <1>6 DEF Step, Acquire, Proceed

\* Whoever shares a lock with a writer is outside its sections.
LEMMA Exclusion ==
    ASSUME LockInv, NEW p \in Procs, NEW q \in Procs, InWrite(p), LockOf[p] = LockOf[q], p # q
    PROVE  ~InWrite(q) /\ ~InRead(q)
  BY DEF LockInv

\* With one lock for all, nobody else changes the store during a write.
LEMMA OnlyWriterWrites ==
    ASSUME SharedLock, TypeOK, LockInv, NEW p \in Procs, Step(p),
           NEW q \in Procs, q # p, InWrite(q)
    PROVE  UNCHANGED store /\ InWrite(q)' /\ ~InWrite(p) /\ ~InRead(p)
<1>1. ~InWrite(p) /\ ~InRead(p)
  BY Exclusion DEF SharedLock
<1>2. InWrite(q)'
  BY Frame DEF OnlyMoves, InWrite
<1>3. ~(Create(p) \/ Write(p) \/ Delete(p) \/ Read(p) \/ StorageFault(p))
  BY <1>1, SectionStep DEF InWrite, InRead
<1>4. UNCHANGED store
  BY <1>3 DEF Step, Begin, Acquire, Lock, RLock, RLockAgain, Proceed, WaitForReaders, Unlock
<1> QED BY <1>1, <1>2, <1>4

-----------------------------------------------------------------------------
(* What the write methods do.                                              *)

\* What a write method has done when it comes to a step.
Progress(p) ==
    LET c == call[p] IN
    /\ pc[p] = "putName" => nameToID[c.name] = None
    /\ pc[p] \in {"delGet", "uncacheName", "delName", "delKey"} /\ c.op = "CreateKey"
         => code[p] # "ok"
    /\ pc[p] = "undoVersion" => code[p] # "ok"
    /\ pc[p] \in {"cacheName", "putKey", "getOldVersion", "putVersion"} /\ c.op = "CreateKey"
         => nameToID[c.name] = c.id
    /\ pc[p] \in {"getOldVersion", "putVersion"} /\ c.op = "CreateKey"
         => keys[c.id] = [name |-> c.name, cur |-> c.ver]
    /\ pc[p] = "putVersion" => versions[c.id][c.ver] = None
    /\ pc[p] \in {"updGet", "updPut"} /\ c.op = "AddVersion" => versions[c.id][c.ver] = p
    /\ pc[p] = "updPut" => keys[c.id] # None /\ keys[c.id].name = NewRecord(p).name
    /\ pc[p] \in {"uncacheName", "delName", "delKey"} /\ snap[p] # None => keys[c.id] = snap[p]
    /\ pc[p] = "delKey" => snap[p] # None /\ nameToID[snap[p].name] = None
    /\ pc[p] \in {"listVersions", "delVersion"} => keys[c.id] = None
    /\ pc[p] = "delVersion" => StoredVersions(c.id) \subseteq todo[p]

\* What a write method that returns without error has done.
Promise(p) ==
    LET c == call[p] IN
    pc[p] = "unlock" /\ code[p] = "ok" =>
      /\ c.op = "CreateKey" =>
           /\ keys[c.id] = [name |-> c.name, cur |-> c.ver]
           /\ nameToID[c.name] = c.id
           /\ versions[c.id][c.ver] = p
      /\ c.op = "AddVersion" =>
           /\ keys[c.id] # None /\ keys[c.id].cur = c.ver
           /\ versions[c.id][c.ver] = p
      /\ c.op = "DeleteKey" => keys[c.id] = None /\ StoredVersions(c.id) = {}

WriteInv == \A p \in Procs : InWrite(p) => Progress(p) /\ Promise(p)

\* Initially no write is in progress.
LEMMA WriteInit == Init => WriteInv
  BY DEF Init, WriteInv, InWrite, WriteSteps

\* A step of p changes nothing that another request in a write relies on.
LEMMA OthersKeep ==
    ASSUME SharedLock, TypeOK, LockInv, WriteInv, NEW p \in Procs, Step(p),
           NEW q \in Procs, q # p, InWrite(q)'
    PROVE  Progress(q)' /\ Promise(q)'
<1>1. /\ pc'[q] = pc[q] /\ call'[q] = call[q] /\ todo'[q] = todo[q] /\ code'[q] = code[q]
      /\ snap'[q] = snap[q]
  BY Frame DEF OnlyMoves
<1>2. InWrite(q)
  BY <1>1 DEF InWrite
<1>3. UNCHANGED store
  BY <1>2, OnlyWriterWrites
<1> QED BY <1>1, <1>2, <1>3 DEF WriteInv, Progress, Promise, StoredVersions, NewRecord, store

\* Every step of a write method keeps the record of what it has done.
LEMMA WriterKeeps ==
    ASSUME TypeOK, WriteInv, NEW p \in Procs, Step(p), InWrite(p)'
    PROVE  Progress(p)' /\ Promise(p)'
<1> USE ConstantsAssumption DEF store, Goto, Return, Cleanup, Finish
<1>t. /\ StoreTypes /\ ControlTypes /\ RegisterTypes /\ RequestOK(p)
      /\ pc[p] \in WriteSteps => Progress(p)
  BY DEF TypeOK, Types, RequestOK, WriteInv, InWrite
<1>1. CASE GetOld(p)
  BY <1>1, <1>t DEF GetOld, StoreTypes, ControlTypes, RegisterTypes, Progress, Promise, RequestOK,
     ArgumentsOK, StepOK, RegistersOK, WriteOps, ReadOps, WriteSteps
<1>2. CASE GetName(p)
  BY <1>2, <1>t DEF GetName, StoreTypes, ControlTypes, RegisterTypes, Progress, Promise, RequestOK,
     ArgumentsOK, StepOK, RegistersOK, WriteOps, ReadOps, WriteSteps
<1>3. CASE PutName(p)
  BY <1>3, <1>t DEF PutName, StoreTypes, ControlTypes, RegisterTypes, Progress, Promise, RequestOK,
     ArgumentsOK, StepOK, RegistersOK, WriteOps, ReadOps, WriteSteps
<1>4. CASE CacheName(p)
  BY <1>4, <1>t DEF CacheName, StoreTypes, ControlTypes, RegisterTypes, Progress, Promise, RequestOK,
     ArgumentsOK, StepOK, RegistersOK, WriteOps, ReadOps, WriteSteps
<1>5. CASE PutKey(p)
  BY <1>5, <1>t DEF PutKey, StoreTypes, ControlTypes, RegisterTypes, Progress, Promise, RequestOK,
     ArgumentsOK, StepOK, RegistersOK, WriteOps, ReadOps, WriteSteps
<1>6. CASE GetOldVersion(p)
  BY <1>6, <1>t DEF GetOldVersion, StoreTypes, ControlTypes, RegisterTypes, Progress, Promise, RequestOK,
     ArgumentsOK, StepOK, RegistersOK, WriteOps, ReadOps, WriteSteps
<1>7. CASE PutVersion(p)
  BY <1>7, <1>t DEF PutVersion, StoreTypes, ControlTypes, RegisterTypes, Progress, Promise, RequestOK,
     ArgumentsOK, StepOK, RegistersOK, WriteOps, ReadOps, WriteSteps
<1>8. CASE AddGet(p)
  BY <1>8, <1>t DEF AddGet, StoreTypes, ControlTypes, RegisterTypes, Progress, Promise, RequestOK,
     ArgumentsOK, StepOK, RegistersOK, WriteOps, ReadOps, WriteSteps
<1>9. CASE UpdGet(p)
  <2> DEFINE k == keys[call[p].id]
             r == NewRecord(p)
  <2>1. /\ pc[p] = "updGet" /\ call' = call /\ snap' = snap /\ UNCHANGED store /\ r' = r
        /\ call[p].op \in {"AddVersion", "UpdateKey"}
        /\ call[p].op = "AddVersion" => versions[call[p].id][call[p].ver] = p
    BY <1>9, <1>t DEF UpdGet, Progress, WriteSteps, RequestOK, StepOK, NewRecord
  <2>2. \/ pc'[p] = "updPut" /\ k # None /\ k.name = r.name
        \/ pc'[p] = "undoVersion" /\ call[p].op = "AddVersion" /\ code'[p] # "ok"
        \/ pc'[p] = "unlock" /\ code'[p] # "ok"
    BY <1>9, <1>t DEF UpdGet, UpdateFailed, ControlTypes
  <2> HIDE DEF r
  <2>3. CASE pc'[p] = "updPut" /\ k # None /\ k.name = r.name
    BY <2>1, <2>3 DEF Progress, Promise, r
  <2>4. CASE pc'[p] = "undoVersion" /\ call[p].op = "AddVersion" /\ code'[p] # "ok"
    BY <2>1, <2>4 DEF Progress, Promise
  <2>5. CASE pc'[p] = "unlock" /\ code'[p] # "ok"
    BY <2>5 DEF Progress, Promise
  <2> QED BY <2>2, <2>3, <2>4, <2>5
<1>10. CASE UpdPut(p)
  <2> DEFINE i == call[p].id
             r == NewRecord(p)
  <2>1. r \in KeyRec /\ r.cur = call[p].ver /\ i \in Ids
    BY <1>10, <1>t DEF UpdPut, RegisterTypes, RequestOK, ArgumentsOK, StepOK, RegistersOK, WriteOps,
       NewRecord, KeyRec
  <2>2. r # None
    BY <2>1
  <2>3. /\ keys' = [keys EXCEPT ![i] = r] /\ versions' = versions /\ call' = call
        /\ pc' = [pc EXCEPT ![p] = "unlock"] /\ call[p].op \in {"AddVersion", "UpdateKey"}
        /\ call[p].op = "AddVersion" => versions[i][call[p].ver] = p
    BY <1>10, <1>t DEF UpdPut, Progress, WriteSteps, RequestOK, StepOK
  <2> HIDE DEF r
  <2> QED BY <1>t, <2>1, <2>2, <2>3 DEF StoreTypes, ControlTypes, Progress, Promise
<1>11. CASE UndoVersion(p)
  BY <1>11, <1>t DEF UndoVersion, StoreTypes, ControlTypes, RegisterTypes, Progress, Promise, RequestOK,
     ArgumentsOK, StepOK, RegistersOK, WriteOps, ReadOps, WriteSteps
<1>12. CASE DelGet(p)
  BY <1>12, <1>t DEF DelGet, StoreTypes, ControlTypes, RegisterTypes, Progress, Promise, RequestOK,
     ArgumentsOK, StepOK, RegistersOK, WriteOps, ReadOps, WriteSteps
<1>13. CASE UncacheName(p)
  BY <1>13, <1>t DEF UncacheName, StoreTypes, ControlTypes, RegisterTypes, Progress, Promise, RequestOK,
     ArgumentsOK, StepOK, RegistersOK, WriteOps, ReadOps, WriteSteps
<1>14. CASE DelName(p)
  <2>1. /\ pc[p] = "delName" /\ call' = call /\ snap' = snap /\ keys' = keys /\ code' = code
        /\ snap[p] # None => keys[call[p].id] = snap[p]
        /\ call[p].op \in {"CreateKey", "DeleteKey"}
        /\ call[p].op = "CreateKey" => code[p] # "ok"
        /\ call[p].op = "DeleteKey" => snap[p] # None
    BY <1>14, <1>t DEF DelName, Progress, WriteSteps, RequestOK, StepOK, RegistersOK, ControlTypes
  <2>2. CASE snap[p] = None
    <3>1. pc'[p] = "unlock"
      BY <1>14, <1>t, <2>2 DEF DelName, ControlTypes
    <3> QED BY <2>1, <2>2, <3>1 DEF Progress, Promise
  <2>3. CASE snap[p] # None
    <3>1. snap[p] \in KeyRec /\ snap[p].name \in Names
      BY <1>t, <2>3 DEF RegisterTypes, KeyRec
    <3>2. pc'[p] = "delKey" /\ nameToID'[snap[p].name] = None
      BY <1>14, <1>t, <2>3, <3>1 DEF DelName, DoomedName, ControlTypes, StoreTypes
    <3> QED BY <2>1, <2>3, <3>2 DEF Progress, Promise
  <2> QED BY <2>2, <2>3
<1>15. CASE DelKey(p)
  BY <1>15, <1>t DEF DelKey, StoreTypes, ControlTypes, RegisterTypes, Progress, Promise, RequestOK,
     ArgumentsOK, StepOK, RegistersOK, WriteOps, ReadOps, WriteSteps
<1>16. CASE ListVersions(p)
  BY <1>16, <1>t DEF ListVersions, StoreTypes, ControlTypes, RegisterTypes, Progress, Promise, RequestOK,
     ArgumentsOK, StepOK, RegistersOK, WriteOps, ReadOps, WriteSteps, StoredVersions
<1>17. CASE DelVersion(p)
  <2> DEFINE i == call[p].id
  <2>1. /\ keys[i] = None /\ StoredVersions(i) \subseteq todo[p] /\ i \in Ids
        /\ todo[p] \subseteq Vers /\ call[p].op = "DeleteKey" /\ pc[p] = "delVersion"
    BY <1>17, <1>t DEF DelVersion, Progress, WriteSteps, RequestOK, ArgumentsOK, StepOK, RegistersOK,
       WriteOps
  <2>2. CASE todo[p] = {}
    BY <1>17, <1>t, <2>1, <2>2 DEF DelVersion, ControlTypes, Progress, Promise, StoredVersions
  <2>3. CASE todo[p] # {}
    <3>1. PICK v \in todo[p] : /\ versions' = [versions EXCEPT ![i][v] = None]
                              /\ todo' = [todo EXCEPT ![p] = @ \ {v}]
                              /\ pc' = [pc EXCEPT ![p] = "delVersion"]
      BY <1>17, <2>3 DEF DelVersion
    <3>2. \A w \in Vers : versions'[i][w] = IF w = v THEN None ELSE versions[i][w]
      BY <1>t, <2>1, <3>1 DEF StoreTypes
    <3>3. pc'[p] = "delVersion" /\ todo'[p] = todo[p] \ {v} /\ call' = call /\ keys' = keys
      BY <1>17, <1>t, <3>1 DEF DelVersion, ControlTypes, RegisterTypes
    <3> QED BY <2>1, <3>2, <3>3 DEF Progress, Promise, StoredVersions
  <2> QED BY <2>2, <2>3
<1>18. CASE StorageFault(p)
  BY <1>18, <1>t DEF StorageFault, StoreTypes, ControlTypes, RegisterTypes, Progress, Promise, RequestOK,
     ArgumentsOK, StepOK, RegistersOK, WriteOps, ReadOps, WriteSteps, StorageSteps,
     AfterFault, StoredVersions
<1>19. CASE WaitForReaders(p)
  BY <1>19, <1>t DEF WaitForReaders, FirstStep, ControlTypes, Progress, Promise, RequestOK, StepOK,
     WriteOps
<1>20. CASE (\E c \in Calls : Begin(p, c)) \/ Lock(p) \/ Unlock(p)
  BY <1>20, <1>t DEF Begin, Lock, Unlock, ControlTypes, InWrite, WriteSteps
<1>21. CASE RLock(p) \/ RLockAgain(p)
  BY <1>21, <1>t DEF RLock, RLockAgain, FirstStep, ControlTypes, RequestOK, StepOK, InWrite,
     WriteSteps, ReadOps
<1>22. CASE Read(p)
  <2>1. pc[p] \in ReadSteps
    BY <1>22 DEF Read, CacheGet, GetMapping, CacheFill, ReadKey, ReadVersion, ListIds, ListGet,
       ReadSteps
  <2>2. ~InWrite(p)
    BY <1>t, <2>1, Sections DEF RequestOK, InWrite
  <2> QED BY <1>22, <2>2, StaysInside
<1> QED BY <1>1, <1>2, <1>3, <1>4, <1>5, <1>6, <1>7, <1>8, <1>9, <1>10, <1>11, <1>12, <1>13, <1>14, <1>15, <1>16, <1>17, <1>18, <1>19, <1>20, <1>21, <1>22
        DEF Step, Acquire, Proceed, Create, Write, Delete


\* The inductive invariant.
SafeInv == TypeOK /\ LockInv /\ WriteInv

\* Every step preserves the combined safety invariant under one lock.
LEMMA SafeStep == SharedLock => (SafeInv /\ [Next]_vars => SafeInv')
<1> SUFFICES ASSUME SharedLock, SafeInv, [Next]_vars PROVE SafeInv'
  OBVIOUS
<1>1. CASE UNCHANGED vars
  <2>1. TypeOK'
    BY <1>1, TypeNext DEF SafeInv
  <2>2. LockInv' /\ WriteInv'
    BY <1>1 DEF vars, store, locks, SafeInv, LockInv, WriteInv, InWrite, InRead, Progress, Promise,
       StoredVersions, NewRecord
  <2> QED BY <2>1, <2>2 DEF SafeInv
<1>2. ASSUME NEW p \in Procs, Step(p) PROVE SafeInv'
  <2>1. TypeOK' /\ LockInv'
    BY <1>2, TypeStep, LockStep DEF SafeInv
  <2>2. WriteInv'
    <3> SUFFICES ASSUME NEW q \in Procs, InWrite(q)' PROVE Progress(q)' /\ Promise(q)'
      BY DEF WriteInv
    <3>1. CASE q = p
      BY <1>2, <3>1, WriterKeeps DEF SafeInv
    <3>2. CASE q # p
      BY <1>2, <3>2, OthersKeep DEF SafeInv
    <3> QED BY <3>1, <3>2
  <2> QED BY <2>1, <2>2 DEF SafeInv
<1> QED BY <1>1, <1>2 DEF Next

\* The inductive invariant holds in every reachable state.
LEMMA Safe == ASSUME SharedLock PROVE Spec => []SafeInv
<1>1. Init => SafeInv
  BY InitType, LockInit, WriteInit DEF SafeInv
<1>2. SafeInv /\ [Next]_vars => SafeInv'
  BY SafeStep
<1> QED BY <1>1, <1>2, PTL DEF Spec

\* With one lock for all requests, CreateKey, AddVersion and DeleteKey have
\* done all they promise when they return nil, whatever runs next to them
\* and however many storage calls, of theirs or of others, have failed.
THEOREM AckedWriteHolds == ASSUME SharedLock PROVE Spec => []AckedWrite
<1>1. SafeInv => AckedWrite
  <2> SUFFICES ASSUME SafeInv, NEW p \in Procs, pc[p] = "unlock", call[p].op \in WriteOps
               PROVE  Promise(p)
    BY DEF AckedWrite, AckedCreate, AckedAdd, AckedDelete, Acked, Promise, WriteOps
  <2> QED BY DEF SafeInv, WriteInv, InWrite
<1> QED BY <1>1, Safe, PTL

\* With one lock for all requests, putKeyVersion never replaces key material:
\* a stored version stays what it is until it is deleted.
THEOREM VersionWriteOnceHolds == ASSUME SharedLock PROVE Spec => VersionWriteOnce
<1> DEFINE Kept == \A i \in Ids : \A v \in Vers :
                     versions[i][v] # None => versions'[i][v] \in {versions[i][v], None}
<1>1. ASSUME SafeInv, [Next]_vars PROVE [Kept]_versions
  <2>1. ASSUME NEW p \in Procs, Step(p) PROVE Kept \/ UNCHANGED versions
    <3> USE DEF SafeInv, TypeOK, Types, StoreTypes, store
    <3>1. CASE PutVersion(p)
      <4>1. versions[call[p].id][call[p].ver] = None
        <5>1. InWrite(p) /\ pc[p] = "putVersion"
          BY <3>1 DEF PutVersion, InWrite, WriteSteps
        <5>2. Progress(p)
          BY <1>1, <5>1 DEF WriteInv
        <5> QED BY <5>1, <5>2 DEF Progress
      <4>2. versions' = [versions EXCEPT ![call[p].id][call[p].ver] = p]
        BY <3>1 DEF PutVersion
      <4> QED BY <4>1, <4>2
    <3>2. CASE UndoVersion(p)
      BY <3>2 DEF UndoVersion
    <3>3. CASE DelVersion(p)
      <4>1. CASE versions' = versions
        BY <4>1
      <4>2. ASSUME NEW v, versions' = [versions EXCEPT ![call[p].id][v] = None] PROVE Kept
        BY <1>1, <4>2
      <4> QED BY <3>3, <4>1, <4>2 DEF DelVersion
    <3>4. CASE (\E c \in Calls : Begin(p, c)) \/ Acquire(p) \/ WaitForReaders(p) \/ Unlock(p)
               \/ StorageFault(p)
      BY <3>4 DEF Begin, Acquire, Lock, RLock, RLockAgain, WaitForReaders, Unlock, StorageFault
    <3>5. CASE Create(p) \/ Read(p)
      BY <3>5 DEF Create, GetOld, GetName, PutName, CacheName, PutKey, Read, CacheGet, GetMapping,
         CacheFill, ReadKey, ReadVersion, ListIds, ListGet
    <3>6. CASE GetOldVersion(p) \/ AddGet(p) \/ UpdGet(p) \/ UpdPut(p)
      BY <3>6 DEF GetOldVersion, AddGet, UpdGet, UpdPut
    <3>7. CASE DelGet(p) \/ UncacheName(p) \/ DelName(p) \/ DelKey(p) \/ ListVersions(p)
      BY <3>7 DEF DelGet, UncacheName, DelName, DelKey, ListVersions
    <3> QED BY <2>1, <3>1, <3>2, <3>3, <3>4, <3>5, <3>6, <3>7 DEF Step, Proceed, Write, Delete
  <2> QED BY <1>1, <2>1 DEF Next, vars, store
<1> QED BY <1>1, Safe, PTL DEF Spec, VersionWriteOnce


-----------------------------------------------------------------------------
(***************************************************************************)
(* The three stores and the cache agree: names are unique and mapped to    *)
(* the keys that have them, the cache never disagrees with storage, and a  *)
(* key's stored versions are those its record says, at most one failing    *)
(* storage call notwithstanding where the code cleans up.                  *)
(***************************************************************************)

\* With one lock for all, a step that changes the store is one of a request
\* inside a write method, and no other request is inside a method.
LEMMA WriterAlone ==
    ASSUME SharedLock, SafeInv, NEW p \in Procs, pc[p] \in WriteSteps
    PROVE  /\ InWrite(p) /\ Progress(p)
           /\ \A q \in Procs \ {p} : ~InWrite(q) /\ ~InRead(q)
  BY Exclusion DEF SafeInv, WriteInv, SharedLock, InWrite

\* Which steps change the key records, and which the name mapping.
LEMMA StoreSteps ==
    ASSUME NEW p \in Procs, Step(p), ~UNCHANGED <<keys, nameToID>>
    PROVE  PutName(p) \/ PutKey(p) \/ UpdPut(p) \/ DelName(p) \/ DelKey(p)
<1> USE DEF store
<1>1. CASE (\E c \in Calls : Begin(p, c)) \/ Acquire(p) \/ WaitForReaders(p) \/ Unlock(p)
           \/ StorageFault(p)
  BY <1>1 DEF Begin, Acquire, Lock, RLock, RLockAgain, WaitForReaders, Unlock, StorageFault
<1>2. CASE GetOld(p) \/ GetName(p) \/ CacheName(p) \/ Read(p)
  BY <1>2 DEF GetOld, GetName, CacheName, Read, CacheGet, GetMapping, CacheFill, ReadKey,
     ReadVersion, ListIds, ListGet
<1>3. CASE GetOldVersion(p) \/ PutVersion(p) \/ AddGet(p) \/ UpdGet(p) \/ UndoVersion(p)
  BY <1>3 DEF GetOldVersion, PutVersion, AddGet, UpdGet, UndoVersion
<1>4. CASE DelGet(p) \/ UncacheName(p) \/ ListVersions(p) \/ DelVersion(p)
  BY <1>4 DEF DelGet, UncacheName, ListVersions, DelVersion
<1> QED BY <1>1, <1>2, <1>3, <1>4 DEF Step, Proceed, Create, Write, Delete

-----------------------------------------------------------------------------
(* Unique names.                                                           *)

\* Request p is about to remove key i, whose mapping it has removed.
Unmapped(p, i) == pc[p] = "delKey" /\ call[p].id = i

\* A stored key's name maps to the key, except just before it is removed.
\* Without storage faults deleteKeyNameToID is only called by deleteKey.
NameInv ==
    /\ faults = 0
    /\ \A p \in Procs : pc[p] \in {"uncacheName", "delName"} => snap[p] # None
    /\ \A i \in Ids : keys[i] # None =>
         nameToID[keys[i].name] = i \/ \E p \in Procs : Unmapped(p, i)

\* At delKey the only steps are DelKey and its failure.
LEMMA AtDelKey ==
    ASSUME NEW p \in Procs, Step(p), pc[p] = "delKey"
    PROVE  DelKey(p) \/ StorageFault(p)
  BY DEF Step, Begin, Acquire, Lock, RLock, RLockAgain, Proceed, WaitForReaders, Unlock, Create,
     GetOld, GetName, PutName, CacheName, PutKey, Write, GetOldVersion, PutVersion, AddGet, UpdGet,
     UpdPut, UndoVersion, Delete, DelGet, UncacheName, DelName, ListVersions, DelVersion, Read,
     CacheGet, GetMapping, CacheFill, ReadKey, ReadVersion, ListIds, ListGet

\* Initially no name is stored or mapped.
LEMMA NameInit == MaxFaults = 0 /\ Init => NameInv
  BY DEF Init, NameInv

\* Every step preserves the name invariant under one lock and without faults.
LEMMA NameStep ==
    ASSUME SharedLock, SafeInv, NameInv, NEW p \in Procs, Step(p)
    PROVE  NameInv'
<1> USE DEF store
<1>t. /\ StoreTypes /\ ControlTypes /\ RegisterTypes /\ RequestOK(p) /\ OnlyMoves(p)
      /\ ConstantsAssumption
  BY ConstantsAssumption, Frame DEF SafeInv, TypeOK, Types, RequestOK
<1>0. ~StorageFault(p)
  BY DEF NameInv, StorageFault
<1>1. faults' = 0
  <2>1. CASE (\E c \in Calls : Begin(p, c)) \/ Acquire(p) \/ WaitForReaders(p) \/ Unlock(p)
    BY <2>1 DEF NameInv, Begin, Acquire, Lock, RLock, RLockAgain, WaitForReaders, Unlock
  <2>2. CASE Create(p) \/ Read(p)
    BY <2>2 DEF NameInv, Create, GetOld, GetName, PutName, CacheName, PutKey, Read, CacheGet,
       GetMapping, CacheFill, ReadKey, ReadVersion, ListIds, ListGet
  <2>3. CASE Write(p) \/ Delete(p)
    BY <2>3 DEF NameInv, Write, GetOldVersion, PutVersion, AddGet, UpdGet, UpdPut, UndoVersion,
       Delete, DelGet, UncacheName, DelName, DelKey, ListVersions, DelVersion
  <2> QED BY <1>0, <2>1, <2>2, <2>3 DEF Step, Proceed
<1>2. ASSUME NEW q \in Procs, pc'[q] \in {"uncacheName", "delName"} PROVE snap'[q] # None
  <2> USE DEF Goto, Return, Cleanup, Finish
  <2>1. CASE q # p
    BY <1>2, <1>t, <2>1 DEF OnlyMoves, NameInv
  <2>2. CASE q = p /\ (DelGet(p) \/ UncacheName(p))
    BY <1>2, <1>t, <2>2 DEF DelGet, UncacheName, ControlTypes, RegisterTypes, NameInv
  <2>3. CASE /\ q = p /\ \/ \E c \in Calls : Begin(p, c)
                         \/ Acquire(p) \/ WaitForReaders(p) \/ Unlock(p)
    BY <1>2, <1>t, <2>3 DEF Begin, Acquire, Lock, RLock, RLockAgain, WaitForReaders, Unlock,
       FirstStep, ControlTypes
  <2>4. CASE q = p /\ (Create(p) \/ Write(p))
    BY <1>2, <1>t, <2>4 DEF Create, GetOld, GetName, PutName, CacheName, PutKey, Write,
       GetOldVersion, PutVersion, AddGet, UpdGet, UpdateFailed, UpdPut, UndoVersion, ControlTypes
  <2>5. CASE q = p /\ (DelName(p) \/ DelKey(p) \/ ListVersions(p) \/ DelVersion(p) \/ Read(p))
    BY <1>2, <1>t, <2>5, ZenonT(40)
       DEF DelName, DelKey, ListVersions, DelVersion, Read, CacheGet, GetMapping,
       CacheFill, ReadKey, ReadVersion, ListIds, ListGet, ControlTypes
  <2> QED BY <1>0, <2>1, <2>2, <2>3, <2>4, <2>5 DEF Step, Proceed, Delete
<1>3. ASSUME NEW i \in Ids, keys'[i] # None
      PROVE  nameToID'[keys'[i].name] = i \/ \E q \in Procs : Unmapped(q, i)'
  <2>a. ASSUME NEW q \in Procs, Unmapped(q, i), q # p PROVE Unmapped(q, i)'
    BY <1>t, <2>a DEF Unmapped, OnlyMoves
  <2>b. ASSUME pc[p] \in WriteSteps, pc[p] # "delKey", keys[i] # None
        PROVE  nameToID[keys[i].name] = i
    <3>1. ASSUME NEW q \in Procs PROVE ~Unmapped(q, i)
      BY <2>b, WriterAlone DEF Unmapped, InWrite, WriteSteps
    <3> QED BY <2>b, <3>1 DEF NameInv
  <2>c. pc[p] \in WriteSteps => Progress(p)
    BY WriterAlone
  <2>1. CASE DelKey(p)
    <3>1. i # call[p].id /\ keys'[i] = keys[i] /\ nameToID' = nameToID /\ pc[p] \in WriteSteps
      BY <1>3, <1>t, <2>1 DEF DelKey, StoreTypes, WriteSteps
    <3>2. ASSUME NEW q \in Procs PROVE ~Unmapped(q, i)
      BY <3>1, WriterAlone DEF Unmapped, InWrite, WriteSteps
    <3> QED BY <1>3, <3>1, <3>2 DEF NameInv
  <2>2. CASE PutName(p)
    <3> DEFINE n == call[p].name
    <3>1. /\ pc[p] \in WriteSteps /\ pc[p] # "delKey" /\ nameToID[n] = None /\ keys' = keys
          /\ nameToID' = [nameToID EXCEPT ![n] = call[p].id]
      BY <2>2, <2>c DEF PutName, WriteSteps, Progress
    <3>2. nameToID[keys[i].name] = i /\ i # None /\ keys[i] \in KeyRec
      BY <1>3, <1>t, <2>b, <3>1 DEF StoreTypes
    <3> QED BY <1>t, <3>1, <3>2 DEF StoreTypes
  <2>3. CASE PutKey(p)
    <3>1. /\ pc[p] \in WriteSteps /\ pc[p] # "delKey" /\ nameToID' = nameToID
          /\ keys' = [keys EXCEPT ![call[p].id] = [name |-> call[p].name, cur |-> call[p].ver]]
          /\ nameToID[call[p].name] = call[p].id
      BY <1>t, <2>3, <2>c DEF PutKey, WriteSteps, Progress, RequestOK, StepOK
    <3>2. CASE i = call[p].id
      BY <1>t, <3>1, <3>2 DEF StoreTypes
    <3>3. CASE i # call[p].id
      BY <1>3, <1>t, <2>b, <3>1, <3>3 DEF StoreTypes
    <3> QED BY <3>2, <3>3
  <2>4. CASE UpdPut(p)
    <3>1. /\ pc[p] \in WriteSteps /\ pc[p] # "delKey" /\ nameToID' = nameToID
          /\ keys' = [keys EXCEPT ![call[p].id] = NewRecord(p)]
          /\ keys[call[p].id] # None /\ keys[call[p].id].name = NewRecord(p).name
      BY <2>4, <2>c DEF UpdPut, WriteSteps, Progress
    <3>2. CASE i = call[p].id
      BY <1>t, <2>b, <3>1, <3>2 DEF StoreTypes
    <3>3. CASE i # call[p].id
      BY <1>3, <1>t, <2>b, <3>1, <3>3 DEF StoreTypes
    <3> QED BY <3>2, <3>3
  <2>5. CASE DelName(p)
    <3>1. /\ pc[p] \in WriteSteps /\ pc[p] # "delKey" /\ keys' = keys /\ snap[p] # None
          /\ keys[call[p].id] = snap[p] /\ call' = call
          /\ nameToID' = [nameToID EXCEPT ![snap[p].name] = None]
          /\ pc' = [pc EXCEPT ![p] = "delKey"]
      BY <2>5, <2>c DEF DelName, WriteSteps, Progress, NameInv, DoomedName, Goto
    <3>2. nameToID[keys[i].name] = i /\ i # None /\ keys[i] \in KeyRec
      BY <1>3, <1>t, <2>b, <3>1 DEF StoreTypes
    <3>3. CASE i = call[p].id
      BY <1>t, <3>1, <3>3 DEF Unmapped, ControlTypes
    <3>4. CASE i # call[p].id
      <4>1. call[p].id \in Ids
        BY <1>t, <2>5 DEF DelName, RequestOK, ArgumentsOK, StepOK, WriteOps
      <4>2. nameToID[snap[p].name] = call[p].id
        <5>1. ASSUME NEW q \in Procs PROVE ~Unmapped(q, call[p].id)
          BY <3>1, WriterAlone DEF Unmapped, InWrite, WriteSteps
        <5> QED BY <3>1, <4>1, <5>1 DEF NameInv
      <4>3. keys[i].name # snap[p].name
        BY <3>2, <3>4, <4>2
      <4> QED BY <1>t, <3>1, <3>2, <4>3 DEF StoreTypes, KeyRec
    <3> QED BY <3>3, <3>4
  <2>6. CASE UNCHANGED <<keys, nameToID>> /\ ~DelKey(p)
    <3>1. pc[p] # "delKey"
      BY <1>0, <2>6, AtDelKey
    <3> QED BY <1>3, <2>6, <2>a, <3>1 DEF NameInv, Unmapped
  <2> QED BY <2>1, <2>2, <2>3, <2>4, <2>5, <2>6, StoreSteps
<1> QED BY <1>1, <1>2, <1>3 DEF NameInv

\* The name invariant holds in every reachable state.
LEMMA Named == ASSUME SharedLock, MaxFaults = 0 PROVE Spec => [](SafeInv /\ NameInv)
<1>1. Init => NameInv
  BY NameInit
<1>2. SafeInv /\ NameInv /\ [Next]_vars => NameInv'
  <2>1. SafeInv /\ NameInv /\ Next => NameInv'
    BY NameStep DEF Next
  <2>2. NameInv /\ UNCHANGED vars => NameInv'
    BY DEF vars, store, NameInv, Unmapped
  <2> QED BY <2>1, <2>2
<1> QED BY <1>1, <1>2, Safe, PTL DEF Spec

\* With one lock for all requests and a storage that does not fail, no two
\* stored keys ever share a name, in the middle of a write either.
THEOREM NameUniqueHolds == ASSUME SharedLock, MaxFaults = 0 PROVE Spec => []NameUnique
<1>1. SafeInv /\ NameInv => NameUnique
  <2> SUFFICES ASSUME SafeInv, NameInv, NEW i \in Ids, NEW j \in Ids, keys[i] # None,
                      keys[j] # None, keys[i].name = keys[j].name
               PROVE  i = j
    BY DEF NameUnique
  <2>n. None \notin Ids
    BY ConstantsAssumption
  <2>1. ASSUME NEW p \in Procs, NEW k \in Ids, Unmapped(p, k), keys[k] # None
        PROVE  nameToID[keys[k].name] = None
    <3>1. pc[p] \in WriteSteps /\ call[p].id = k /\ pc[p] = "delKey"
      BY <2>1 DEF Unmapped, WriteSteps
    <3> QED BY <3>1, WriterAlone DEF Progress
  <2>2. ASSUME NEW p \in Procs, NEW q \in Procs, Unmapped(p, i), Unmapped(q, j) PROVE i = j
    BY <2>2, WriterAlone DEF Unmapped, InWrite, WriteSteps
  <2> QED BY <2>n, <2>1, <2>2 DEF NameInv
<1> QED BY <1>1, Named, PTL

-----------------------------------------------------------------------------
(* The cache agrees with storage.                                          *)

\* Every entry of c satisfies what storage says of its name.
Agrees(c) == \A j \in 1..Len(c) : nameToID[c[j].key] = c[j].value

\* A mapping is out of the cache before it leaves storage, and what a lookup
\* has read is still so when it caches it.
CacheInv ==
    /\ \A r \in Repos : Agrees(cache[r])
    /\ \A p \in Procs : pc[p] = "delName" =>
         \A r \in Repos : \A j \in 1..Len(cache[r]) : cache[r][j].key # DoomedName(p)
    /\ \A p \in Procs : pc[p] = "cacheFill" => nameToID[call[p].name] = call[p].id

\* Initially the caches are empty.
LEMMA CacheInit == Init => CacheInv
  BY DEF Init, CacheInv, Agrees

\* Which steps change a cache.
LEMMA CacheSteps ==
    ASSUME NEW p \in Procs, Step(p), cache' # cache
    PROVE  CacheName(p) \/ UncacheName(p) \/ CacheGet(p) \/ CacheFill(p)
<1>1. CASE (\E c \in Calls : Begin(p, c)) \/ Acquire(p) \/ WaitForReaders(p) \/ Unlock(p)
           \/ StorageFault(p)
  BY <1>1 DEF Begin, Acquire, Lock, RLock, RLockAgain, WaitForReaders, Unlock, StorageFault
<1>2. CASE GetOld(p) \/ GetName(p) \/ PutName(p) \/ PutKey(p) \/ Write(p)
  BY <1>2 DEF GetOld, GetName, PutName, PutKey, Write, GetOldVersion, PutVersion, AddGet, UpdGet,
     UpdPut, UndoVersion
<1>3. CASE DelGet(p) \/ DelName(p) \/ DelKey(p) \/ ListVersions(p) \/ DelVersion(p)
  BY <1>3 DEF DelGet, DelName, DelKey, ListVersions, DelVersion
<1>4. CASE GetMapping(p) \/ ReadKey(p) \/ ReadVersion(p) \/ ListIds(p) \/ ListGet(p)
  BY <1>4 DEF GetMapping, ReadKey, ReadVersion, ListIds, ListGet
<1> QED BY <1>1, <1>2, <1>3, <1>4 DEF Step, Proceed, Create, Delete, Read

\* A step that comes to cacheFill has just read the mapping.
LEMMA ComesToCacheFill ==
    ASSUME TypeOK, NEW p \in Procs, Step(p), pc'[p] = "cacheFill"
    PROVE  GetMapping(p) /\ call'[p].id = nameToID[call[p].name] /\ call'[p].name = call[p].name
<1> USE DEF Goto, Return, Cleanup, Finish, TypeOK, Types, ControlTypes
<1>1. CASE (\E c \in Calls : Begin(p, c)) \/ Acquire(p) \/ WaitForReaders(p) \/ Unlock(p)
           \/ StorageFault(p)
  BY <1>1 DEF Begin, Acquire, Lock, RLock, RLockAgain, WaitForReaders, Unlock, StorageFault,
     FirstStep, AfterFault
<1>2. CASE Create(p) \/ Write(p) \/ Delete(p)
  BY <1>2, SectionStep DEF WriteSteps, ReadSteps, Create, GetOld, GetName, PutName, CacheName,
     PutKey, Write, GetOldVersion, PutVersion, AddGet, UpdGet, UpdPut, UndoVersion, Delete, DelGet,
     UncacheName, DelName, DelKey, ListVersions, DelVersion
<1>3. CASE CacheGet(p) \/ CacheFill(p) \/ ReadKey(p) \/ ReadVersion(p) \/ ListIds(p) \/ ListGet(p)
  BY <1>3 DEF CacheGet, CacheFill, ReadKey, ReadVersion, ListIds, ListGet
<1>4. CASE GetMapping(p)
  BY <1>4 DEF GetMapping, RegisterTypes
<1> QED BY <1>1, <1>2, <1>3, <1>4 DEF Step, Proceed, Read

\* And one that comes to delName has just removed the cache entry.
LEMMA ComesToDelName ==
    ASSUME TypeOK, NEW p \in Procs, Step(p), pc'[p] = "delName"
    PROVE  UncacheName(p)
<1> USE DEF Goto, Return, Cleanup, Finish, TypeOK, Types, ControlTypes
<1>1. CASE (\E c \in Calls : Begin(p, c)) \/ Acquire(p) \/ WaitForReaders(p) \/ Unlock(p)
           \/ StorageFault(p)
  BY <1>1 DEF Begin, Acquire, Lock, RLock, RLockAgain, WaitForReaders, Unlock, StorageFault,
     FirstStep, AfterFault
<1>2. CASE Create(p) \/ Write(p)
  BY <1>2 DEF Create, GetOld, GetName, PutName, CacheName, PutKey, Write, GetOldVersion,
     PutVersion, AddGet, UpdGet, UpdateFailed, UpdPut, UndoVersion
<1>3. CASE Delete(p) /\ ~UncacheName(p)
  BY <1>3 DEF Delete, DelGet, DelName, DelKey, ListVersions, DelVersion
<1>4. CASE Read(p)
  BY <1>4, SectionStep DEF ReadSteps, WriteSteps, Read, CacheGet, GetMapping, CacheFill, ReadKey,
     ReadVersion, ListIds, ListGet
<1> QED BY <1>1, <1>2, <1>3, <1>4 DEF Step, Proceed

\* The entries of every cache still agree after a cache step ...
LEMMA EntriesAgree ==
    ASSUME SharedLock, SharedRepo, SafeInv, CacheInv, NEW p \in Procs, NEW r \in Repos,
           CacheName(p) \/ UncacheName(p) \/ CacheGet(p) \/ CacheFill(p)
    PROVE  Agrees(cache[r])'
<1> DEFINE c == cache[r]
           n == call[p].name
<1>t. /\ c \in Seq(Entries(Names, Ids)) /\ DistinctKeys(c) /\ r = RepoOf[p]
      /\ cache \in [Repos -> Seq(Entries(Names, Ids))] /\ RequestOK(p) /\ Agrees(c)
  BY DEF SafeInv, TypeOK, Types, StoreTypes, RequestOK, SharedRepo, CacheInv
<1>u. nameToID' = nameToID
  BY DEF CacheName, UncacheName, CacheGet, CacheFill, store
<1>1. CASE CacheName(p) \/ CacheFill(p)
  <2>1. /\ n \in Names /\ call[p].id \in Ids
        /\ cache' = [cache EXCEPT ![r] = Put(CacheSize, @, n, call[p].id)]
    BY <1>1, <1>t DEF CacheName, CacheFill, RequestOK, ArgumentsOK, StepOK, RegistersOK, WriteOps
  <2>2. nameToID[n] = call[p].id
    <3>1. CASE CacheName(p)
      <4>1. pc[p] = "cacheName" /\ pc[p] \in WriteSteps /\ call[p].op = "CreateKey"
        BY <3>1, <1>t DEF CacheName, WriteSteps, RequestOK, StepOK
      <4> QED BY <4>1, WriterAlone DEF Progress
    <3>2. CASE CacheFill(p)
      BY <3>2 DEF CacheFill, CacheInv
    <3> QED BY <1>1, <3>1, <3>2
  <2> DEFINE d == Put(CacheSize, c, n, call[p].id)
  <2>3. \A j \in 1..Len(d) : \/ d[j].key = n /\ d[j].value = call[p].id
                             \/ \E m \in 1..Len(c) : d[j] = c[m]
    BY <1>t, <2>1, PutProperties
  <2>4. cache'[r] = d
    BY <1>t, <2>1
  <2> HIDE DEF d, c
  <2>5. Agrees(d)
    BY <1>t, <2>2, <2>3 DEF Agrees
  <2> QED BY <1>u, <2>4, <2>5 DEF Agrees
<1>2. CASE UncacheName(p)
  <2> DEFINE d == Remove(c, DoomedName(p))
  <2>1. \A j \in 1..Len(d) : \E m \in 1..Len(c) : d[j] = c[m]
    BY <1>t, RemoveProperties
  <2>2. cache'[r] = d
    BY <1>2, <1>t DEF UncacheName
  <2> HIDE DEF d, c
  <2>3. Agrees(d)
    BY <1>t, <2>1 DEF Agrees
  <2> QED BY <1>u, <2>2, <2>3 DEF Agrees
<1>3. CASE CacheGet(p)
  <2> DEFINE d == Touch(c, n)
  <2>1. \A j \in 1..Len(d) : \E m \in 1..Len(c) : d[j] = c[m]
    BY <1>t, TouchProperties
  <2>2. cache'[r] = d \/ cache'[r] = c
    BY <1>3, <1>t DEF CacheGet
  <2> HIDE DEF d, c
  <2>3. Agrees(d)
    BY <1>t, <2>1 DEF Agrees
  <2>4. Agrees(cache'[r])
    BY <1>t, <2>2, <2>3
  <2> QED BY <1>u, <2>4 DEF Agrees
<1> QED BY <1>1, <1>2, <1>3

\* ... and after a step that changes the mapping in storage.
LEMMA MappingAgrees ==
    ASSUME SharedLock, SafeInv, CacheInv, NEW p \in Procs, NEW r \in Repos,
           PutName(p) \/ DelName(p)
    PROVE  Agrees(cache[r])'
<1> DEFINE c == cache[r]
<1>t. /\ c \in Seq(Entries(Names, Ids)) /\ Agrees(c) /\ RequestOK(p) /\ StoreTypes
      /\ None \notin Ids /\ cache' = cache
  BY ConstantsAssumption DEF SafeInv, TypeOK, Types, StoreTypes, CacheInv, RequestOK, PutName,
     DelName
<1>1. \A j \in 1..Len(c) : c[j].key \in Names /\ c[j].value \in Ids
  <2> HIDE DEF c
  <2>1. \A j \in 1..Len(c) : c[j] \in Entries(Names, Ids)
    BY <1>t, ElementOfSeq
  <2> QED BY <2>1 DEF Entries
<1>2. CASE PutName(p)
  <2>1. /\ nameToID[call[p].name] = None /\ call[p].name \in Names
        /\ nameToID' = [nameToID EXCEPT ![call[p].name] = call[p].id]
    <3>1. pc[p] = "putName" /\ pc[p] \in WriteSteps
      BY <1>2 DEF PutName, WriteSteps
    <3>2. Progress(p)
      BY <3>1, WriterAlone
    <3> QED BY <1>2, <1>t, <3>1, <3>2 DEF PutName, Progress, RequestOK, RegistersOK, StepOK
  <2>2. \A j \in 1..Len(c) : c[j].key # call[p].name
    BY <1>t, <1>1, <2>1 DEF Agrees
  <2>3. \A j \in 1..Len(c) : nameToID'[c[j].key] = nameToID[c[j].key]
    BY <1>t, <1>1, <2>1, <2>2 DEF StoreTypes
  <2> QED BY <1>t, <2>3 DEF Agrees
<1>3. CASE DelName(p)
  <2>1. \A j \in 1..Len(c) : c[j].key # DoomedName(p)
    BY <1>3 DEF DelName, CacheInv
  <2>2. nameToID' = [nameToID EXCEPT ![DoomedName(p)] = None]
    BY <1>3 DEF DelName
  <2>3. \A j \in 1..Len(c) : nameToID'[c[j].key] = nameToID[c[j].key]
    BY <1>t, <1>1, <2>1, <2>2 DEF StoreTypes
  <2> QED BY <1>t, <2>3 DEF Agrees
<1> QED BY <1>2, <1>3

\* Every step preserves the cache invariant under one repository.
LEMMA CacheStep ==
    ASSUME SharedLock, SharedRepo, SafeInv, CacheInv, NEW p \in Procs, Step(p)
    PROVE  CacheInv'
<1>t. TypeOK /\ LockInv /\ OnlyMoves(p)
  BY Frame DEF SafeInv
<1>1. ASSUME NEW r \in Repos PROVE Agrees(cache[r])'
  <2>1. CASE cache' # cache
    BY <2>1, CacheSteps, EntriesAgree
  <2>2. CASE PutName(p) \/ DelName(p)
    BY <2>2, MappingAgrees
  <2>3. CASE cache' = cache /\ ~(PutName(p) \/ DelName(p))
    <3>1. nameToID' = nameToID
      BY <2>3, StoreSteps DEF PutKey, UpdPut, DelKey
    <3> QED BY <2>3, <3>1 DEF CacheInv, Agrees
  <2> QED BY <2>1, <2>2, <2>3
<1>2. ASSUME NEW q \in Procs, pc'[q] = "delName", NEW r \in Repos, NEW j \in 1..Len(cache'[r])
      PROVE  cache'[r][j].key # DoomedName(q)'
  <2>1. CASE q = p
    <3>1. UncacheName(p)
      BY <1>2, <1>t, <2>1, ComesToDelName
    <3>2. /\ cache[r] \in Seq(Entries(Names, Ids)) /\ DistinctKeys(cache[r])
          /\ cache'[r] = Remove(cache[r], DoomedName(p)) /\ DoomedName(p)' = DoomedName(p)
      BY <1>t, <3>1 DEF UncacheName, SharedRepo, TypeOK, Types, StoreTypes, DoomedName
    <3> QED BY <1>2, <2>1, <3>2, RemoveProperties
  <2>2. CASE q # p
    <3>1. pc[q] = "delName" /\ InWrite(q) /\ DoomedName(q)' = DoomedName(q)
      BY <1>2, <1>t, <2>2 DEF OnlyMoves, InWrite, WriteSteps, DoomedName
    <3>2. ~InWrite(p) /\ ~InRead(p)
      BY <1>t, <2>2, <3>1, OnlyWriterWrites
    <3>3. cache' = cache
      BY <3>2, CacheSteps DEF CacheName, UncacheName, CacheGet, CacheFill, InWrite, InRead,
         WriteSteps, ReadSteps
    <3> QED BY <1>2, <3>1, <3>3 DEF CacheInv
  <2> QED BY <2>1, <2>2
<1>3. ASSUME NEW q \in Procs, pc'[q] = "cacheFill" PROVE nameToID'[call'[q].name] = call'[q].id
  <2>1. CASE q = p
    BY <1>3, <1>t, <2>1, ComesToCacheFill DEF GetMapping, store
  <2>2. CASE q # p
    <3>1. pc[q] = "cacheFill" /\ InRead(q) /\ call'[q] = call[q]
      BY <1>3, <1>t, <2>2 DEF OnlyMoves, InRead, ReadSteps
    <3>2. pc[p] \notin WriteSteps
      BY <2>2, <3>1, WriterAlone
    <3>3. nameToID' = nameToID
      BY <3>2, StoreSteps DEF PutName, PutKey, UpdPut, DelName, DelKey, WriteSteps
    <3> QED BY <3>1, <3>3 DEF CacheInv
  <2> QED BY <2>1, <2>2
<1> QED BY <1>1, <1>2, <1>3 DEF CacheInv

\* The invariant holds in every behaviour with one repository.
LEMMA Cached == ASSUME SharedLock, SharedRepo PROVE Spec => [](SafeInv /\ CacheInv)
<1>1. Init => CacheInv
  BY CacheInit
<1>2. SafeInv /\ CacheInv /\ [Next]_vars => CacheInv'
  <2>1. SafeInv /\ CacheInv /\ Next => CacheInv'
    BY CacheStep DEF Next
  <2>2. CacheInv /\ UNCHANGED vars => CacheInv'
    BY DEF vars, store, CacheInv, Agrees, DoomedName
  <2> QED BY <2>1, <2>2
<1> QED BY <1>1, <1>2, Safe, PTL DEF Spec

\* With one repository for all requests, the cache never holds a name that
\* storage does not map to the same id, however many storage calls fail:
\* what deleteKeyNameToID and storeKeyNameToID do in which order matters.
THEOREM CacheCoherentHolds == ASSUME SharedLock, SharedRepo PROVE Spec => []CacheCoherent
<1>1. CacheInv => CacheCoherent
  BY DEF CacheInv, Agrees, CacheCoherent
<1> QED BY <1>1, Cached, PTL

-----------------------------------------------------------------------------
(* No mapped name without its key, with at most one failing storage call.  *)

\* Only a failing storage call uses up a fault.
LEMMA FaultSteps ==
    ASSUME NEW p \in Procs, Step(p), ~StorageFault(p)
    PROVE  faults' = faults
<1>1. CASE (\E c \in Calls : Begin(p, c)) \/ Acquire(p) \/ WaitForReaders(p) \/ Unlock(p)
  BY <1>1 DEF Begin, Acquire, Lock, RLock, RLockAgain, WaitForReaders, Unlock
<1>2. CASE Create(p) \/ Read(p)
  BY <1>2 DEF Create, GetOld, GetName, PutName, CacheName, PutKey, Read, CacheGet, GetMapping,
     CacheFill, ReadKey, ReadVersion, ListIds, ListGet
<1>3. CASE Write(p) \/ Delete(p)
  BY <1>3 DEF Write, GetOldVersion, PutVersion, AddGet, UpdGet, UpdPut, UndoVersion, Delete,
     DelGet, UncacheName, DelName, DelKey, ListVersions, DelVersion
<1> QED BY <1>1, <1>2, <1>3 DEF Step, Proceed

\* So a repository that may meet one failing call at most meets no other.
AtMostOneFault == faults \in {0, 1}

LEMMA OneFault ==
    ASSUME AtMostOneFault, NEW p \in Procs, Step(p)
    PROVE  /\ AtMostOneFault' /\ (faults = 0 => faults' = 0)
           /\ StorageFault(p) => faults' = 0
  BY FaultSteps DEF AtMostOneFault, StorageFault

\* CreateKey has found no key with its id and has stored none.
Fresh(p) == pc[p] \in {"getName", "putName", "cacheName", "putKey"} => keys[call[p].id] = None

\* putKey cleans up after its storage call has failed, which stored no key;
\* nothing else may fail now.
PutKeyFailed(p) ==
    pc[p] \in {"uncacheName", "delName"} /\ snap[p] = None
      => faults = 0 /\ call[p].op = "CreateKey" /\ keys[call[p].id] = None

\* Request p has mapped name n and is about to store the key, or to remove
\* the mapping because it could not.
Mapping(p, n) ==
    /\ call[p].op = "CreateKey" /\ call[p].name = n /\ call[p].id = nameToID[n]
    /\ \/ pc[p] \in {"cacheName", "putKey"}
       \/ pc[p] \in {"uncacheName", "delName"} /\ snap[p] = None

Owned(n) == keys[nameToID[n]] # None /\ keys[nameToID[n]].name = n

\* A mapped name is the name of the stored key it maps to, except while the
\* request that mapped it is at work.
MapInv ==
    /\ AtMostOneFault
    /\ \A p \in Procs : Fresh(p) /\ PutKeyFailed(p)
    /\ \A n \in Names : nameToID[n] # None => Owned(n) \/ \E p \in Procs : Mapping(p, n)

LEMMA MapInit == MaxFaults \in {0, 1} /\ Init => MapInv
  BY DEF Init, MapInv, AtMostOneFault, Fresh, PutKeyFailed

\* A step of p keeps the registers' part of the invariant for p ...
LEMMA FreshKept ==
    ASSUME SafeInv, AtMostOneFault, NEW p \in Procs, Fresh(p), PutKeyFailed(p), Step(p)
    PROVE  Fresh(p)' /\ PutKeyFailed(p)'
<1> USE ConstantsAssumption DEF store, Goto, Return, Cleanup, Finish, Fresh, PutKeyFailed
<1>t. /\ StoreTypes /\ ControlTypes /\ RegisterTypes /\ RequestOK(p)
      /\ pc[p] \in WriteSteps => Progress(p)
      /\ (faults = 0 => faults' = 0) /\ (StorageFault(p) => faults' = 0)
  BY OneFault DEF SafeInv, TypeOK, Types, RequestOK, WriteInv, InWrite
<1>1. CASE (\E c \in Calls : Begin(p, c)) \/ Acquire(p) \/ WaitForReaders(p) \/ Unlock(p)
  BY <1>1, <1>t DEF Begin, Acquire, Lock, RLock, RLockAgain, WaitForReaders, Unlock, FirstStep,
     ControlTypes
<1>2. CASE GetOld(p) \/ GetName(p) \/ PutName(p) \/ CacheName(p) \/ PutKey(p)
  BY <1>2, <1>t DEF GetOld, GetName, PutName, CacheName, PutKey, ControlTypes
<1>3. CASE GetOldVersion(p) \/ PutVersion(p) \/ AddGet(p)
  BY <1>3, <1>t DEF GetOldVersion, PutVersion, AddGet, ControlTypes
<1>4. CASE UpdGet(p) \/ UpdPut(p) \/ UndoVersion(p)
  BY <1>4, <1>t DEF UpdGet, UpdateFailed, UpdPut, UndoVersion, ControlTypes
<1>5. CASE DelGet(p)
  BY <1>5, <1>t DEF DelGet, ControlTypes, RegisterTypes
<1>6. CASE UncacheName(p) \/ DelName(p) \/ DelKey(p)
  BY <1>6, <1>t DEF UncacheName, DelName, DelKey, ControlTypes
<1>7. CASE ListVersions(p) \/ DelVersion(p)
  BY <1>7, <1>t, ZenonT(40) DEF ListVersions, DelVersion, ControlTypes
<1>8. CASE Read(p)
  BY <1>8, <1>t, ZenonT(40)
     DEF Read, CacheGet, GetMapping, CacheFill, ReadKey, ReadVersion, ListIds, ListGet,
     ControlTypes
<1>9. CASE StorageFault(p)
  <2>1. /\ pc'[p] = AfterFault(p) /\ UNCHANGED <<keys, call, snap>>
    BY <1>9, <1>t DEF StorageFault, ControlTypes
  <2>2. CASE pc[p] = "putKey"
    BY <1>9, <1>t, <2>1, <2>2 DEF AfterFault, RequestOK, StepOK
  <2>3. CASE pc[p] # "putKey"
    BY <1>9, <1>t, <2>1, <2>3 DEF AfterFault
  <2> QED BY <2>2, <2>3
<1> QED BY <1>1, <1>2, <1>3, <1>4, <1>5, <1>6, <1>7, <1>8, <1>9 DEF Step, Proceed, Create, Write,
        Delete

\* ... and for the others.
LEMMA FreshOthers ==
    ASSUME SharedLock, SafeInv, AtMostOneFault, NEW p \in Procs, Step(p),
           NEW q \in Procs, q # p, Fresh(q), PutKeyFailed(q)
    PROVE  Fresh(q)' /\ PutKeyFailed(q)'
<1>1. pc'[q] = pc[q] /\ call'[q] = call[q] /\ snap'[q] = snap[q]
  BY Frame DEF SafeInv, OnlyMoves
<1>2. faults = 0 => faults' = 0
  BY OneFault
<1>3. InWrite(q) => UNCHANGED store
  BY OnlyWriterWrites DEF SafeInv
<1> QED BY <1>1, <1>2, <1>3 DEF Fresh, PutKeyFailed, InWrite, WriteSteps, store

\* A mapping a request is at work on is its own until it moves on.
LEMMA MappingOthers ==
    ASSUME SharedLock, SafeInv, NEW p \in Procs, Step(p), NEW q \in Procs, q # p, NEW n \in Names,
           Mapping(q, n)
    PROVE  Mapping(q, n)' /\ UNCHANGED store
<1>1. pc'[q] = pc[q] /\ call'[q] = call[q] /\ snap'[q] = snap[q]
  BY Frame DEF SafeInv, OnlyMoves
<1>2. UNCHANGED store
  BY OnlyWriterWrites DEF SafeInv, Mapping, InWrite, WriteSteps
<1> QED BY <1>1, <1>2 DEF Mapping, store

\* The request at work on a mapping keeps at it until the key is stored or
\* the mapping is gone.
LEMMA MappingOwn ==
    ASSUME SafeInv, AtMostOneFault, NEW p \in Procs, PutKeyFailed(p), Step(p), NEW n \in Names,
           Mapping(p, n)
    PROVE  \/ Mapping(p, n)' /\ UNCHANGED <<keys, nameToID>>
           \/ PutKey(p) /\ call[p].name = n
           \/ DelName(p) /\ snap[p] = None /\ call[p].name = n
<1> USE DEF store, Goto, Return, Cleanup, Finish
<1>t. ControlTypes /\ RequestOK(p)
  BY DEF SafeInv, TypeOK, Types, RequestOK
<1>1. CASE pc[p] \in {"cacheName", "putKey"} /\ ~StorageFault(p)
  <2>1. CacheName(p) \/ PutKey(p)
    BY <1>1 DEF Step, Begin, Acquire, Lock, RLock, RLockAgain, Proceed, WaitForReaders, Unlock,
       Create, GetOld, GetName, PutName, Write, GetOldVersion, PutVersion, AddGet, UpdGet, UpdPut,
       UndoVersion, Delete, DelGet, UncacheName, DelName, DelKey, ListVersions, DelVersion, Read,
       CacheGet, GetMapping, CacheFill, ReadKey, ReadVersion, ListIds, ListGet
  <2> QED BY <2>1, <1>t DEF CacheName, PutKey, Mapping, ControlTypes
<1>2. CASE pc[p] \in {"uncacheName", "delName"} /\ ~StorageFault(p)
  <2>1. UncacheName(p) \/ DelName(p)
    BY <1>2 DEF Step, Begin, Acquire, Lock, RLock, RLockAgain, Proceed, WaitForReaders, Unlock,
       Create, GetOld, GetName, PutName, CacheName, PutKey, Write, GetOldVersion, PutVersion,
       AddGet, UpdGet, UpdPut, UndoVersion, Delete, DelGet, DelKey, ListVersions, DelVersion, Read,
       CacheGet, GetMapping, CacheFill, ReadKey, ReadVersion, ListIds, ListGet
  <2> QED BY <1>2, <2>1, <1>t DEF UncacheName, DelName, Mapping, ControlTypes
<1>3. CASE StorageFault(p)
  <2>1. pc[p] = "putKey"
    BY <1>3 DEF StorageFault, StorageSteps, PutKeyFailed, Mapping
  <2>2. snap[p] = None
    BY <1>t, <2>1 DEF RequestOK, RegistersOK
  <2>3. pc'[p] = "uncacheName" /\ UNCHANGED <<keys, nameToID, call, snap>>
    BY <1>3, <1>t, <2>1 DEF StorageFault, AfterFault, ControlTypes
  <2> QED BY <2>2, <2>3 DEF Mapping
<1> QED BY <1>1, <1>2, <1>3 DEF Mapping

\* A step that changes the store is one of a request alone in its section.
LEMMA NobodyElse ==
    ASSUME SharedLock, SafeInv, NEW p \in Procs, pc[p] \in WriteSteps, NEW q \in Procs, q # p
    PROVE  pc[q] \notin WriteSteps
  BY WriterAlone DEF InWrite

\* Every step preserves the mapping's part of the invariant.
LEMMA OwnedKept ==
    ASSUME SharedLock, SafeInv, MapInv, NEW p \in Procs, Step(p), NEW n \in Names,
           nameToID'[n] # None
    PROVE  Owned(n)' \/ \E q \in Procs : Mapping(q, n)'
<1> USE DEF store
<1>t. /\ StoreTypes /\ ControlTypes /\ RegisterTypes /\ RequestOK(p) /\ ConstantsAssumption
      /\ AtMostOneFault /\ Fresh(p) /\ PutKeyFailed(p)
      /\ pc[p] \in WriteSteps => Progress(p)
  BY ConstantsAssumption DEF SafeInv, TypeOK, Types, RequestOK, MapInv, WriteInv, InWrite
<1>1. CASE \E q \in Procs : Mapping(q, n)
  <2>1. PICK q \in Procs : Mapping(q, n)
    BY <1>1
  <2>2. CASE q # p
    BY <2>1, <2>2, MappingOthers
  <2>3. CASE q = p /\ Mapping(p, n)'
    BY <2>3
  <2>4. CASE q = p /\ PutKey(p) /\ call[p].name = n
    <3>1. /\ nameToID' = nameToID /\ nameToID[n] = call[p].id /\ call[p].id \in Ids
          /\ keys' = [keys EXCEPT ![call[p].id] = [name |-> n, cur |-> call[p].ver]]
      BY <1>t, <2>1, <2>4 DEF PutKey, Mapping, RequestOK, ArgumentsOK, WriteOps
    <3>2. keys'[nameToID'[n]] = [name |-> n, cur |-> call[p].ver]
      BY <1>t, <3>1 DEF StoreTypes
    <3>3. call[p].ver \in Vers
      BY <1>t, <2>1, <2>4 DEF Mapping, RequestOK, ArgumentsOK
    <3>4. [name |-> n, cur |-> call[p].ver] \in KeyRec
      BY <3>3 DEF KeyRec
    <3> QED BY <1>t, <3>2, <3>4 DEF Owned, ConstantsAssumption
  <2>5. CASE q = p /\ DelName(p) /\ snap[p] = None /\ call[p].name = n
    BY <1>t, <2>5 DEF DelName, DoomedName, StoreTypes
  <2> QED BY <1>t, <2>1, <2>2, <2>3, <2>4, <2>5, MappingOwn
<1>2. CASE ~\E q \in Procs : Mapping(q, n)
  <2>o. nameToID[n] # None => Owned(n)
    BY <1>2 DEF MapInv
  <2>1. CASE PutName(p)
    <3>1. CASE call[p].name = n
      <4>1. call[p].op = "CreateKey" /\ call' = call /\ pc'[p] = "cacheName"
        BY <1>t, <2>1 DEF PutName, RequestOK, StepOK, Goto, ControlTypes
      <4>2. nameToID'[n] = call[p].id
        BY <1>t, <2>1, <3>1 DEF PutName, StoreTypes
      <4> QED BY <3>1, <4>1, <4>2 DEF Mapping
    <3>2. CASE call[p].name # n
      <4>1. nameToID'[n] = nameToID[n] /\ keys' = keys
        BY <1>t, <2>1, <3>2 DEF PutName, StoreTypes
      <4> QED BY <2>o, <4>1 DEF Owned
    <3> QED BY <3>1, <3>2
  <2>2. CASE PutKey(p)
    <3>1. /\ nameToID' = nameToID /\ call[p].id \in Ids /\ keys[call[p].id] = None
          /\ keys' = [keys EXCEPT ![call[p].id] = [name |-> call[p].name, cur |-> call[p].ver]]
      BY <1>t, <2>2 DEF PutKey, Fresh, RequestOK, ArgumentsOK, StepOK, WriteOps
    <3>2. nameToID[n] # call[p].id /\ nameToID[n] \in Ids
      BY <1>t, <2>o, <3>1 DEF Owned, StoreTypes
    <3>3. keys'[nameToID'[n]] = keys[nameToID[n]]
      BY <1>t, <3>1, <3>2 DEF StoreTypes
    <3> QED BY <2>o, <3>1, <3>3 DEF Owned
  <2>3. CASE UpdPut(p)
    <3>1. /\ nameToID' = nameToID /\ call[p].id \in Ids /\ keys[call[p].id] # None
          /\ keys' = [keys EXCEPT ![call[p].id] = NewRecord(p)]
          /\ keys[call[p].id].name = NewRecord(p).name
      BY <1>t, <2>3 DEF UpdPut, RequestOK, ArgumentsOK, StepOK, WriteOps, Progress, WriteSteps
    <3>2. NewRecord(p) # None
      <4>1. call[p].ver \in Vers
        BY <1>t, <2>3 DEF UpdPut, RequestOK, ArgumentsOK, StepOK
      <4>2. NewRecord(p) = [name |-> keys[call[p].id].name, cur |-> call[p].ver]
        BY <3>1 DEF NewRecord
      <4>3. keys[call[p].id].name \in Names
        BY <1>t, <3>1 DEF StoreTypes, KeyRec
      <4>4. NewRecord(p) \in KeyRec
        BY <4>1, <4>2, <4>3 DEF KeyRec
      <4> QED BY <1>t, <4>4 DEF ConstantsAssumption
    <3>3. CASE nameToID[n] = call[p].id
      BY <1>t, <2>o, <3>1, <3>2, <3>3 DEF Owned, StoreTypes
    <3>4. CASE nameToID[n] # call[p].id
      BY <1>t, <2>o, <3>1, <3>4 DEF Owned, StoreTypes
    <3> QED BY <3>3, <3>4
  <2>4. CASE DelName(p)
    <3>1. nameToID'[n] = nameToID[n] /\ keys' = keys
      BY <1>t, <2>4 DEF DelName, StoreTypes
    <3> QED BY <2>o, <3>1 DEF Owned
  <2>5. CASE DelKey(p)
    <3>1. /\ nameToID' = nameToID /\ keys' = [keys EXCEPT ![call[p].id] = None]
          /\ keys[call[p].id] = snap[p] /\ nameToID[snap[p].name] = None
      BY <1>t, <2>5 DEF DelKey, WriteSteps, Progress
    <3>2. nameToID[n] # call[p].id /\ nameToID[n] \in Ids
      BY <1>t, <2>o, <3>1 DEF Owned, StoreTypes
    <3>3. keys'[nameToID'[n]] = keys[nameToID[n]]
      BY <1>t, <3>1, <3>2 DEF StoreTypes
    <3> QED BY <2>o, <3>1, <3>3 DEF Owned
  <2>6. CASE UNCHANGED <<keys, nameToID>>
    BY <2>6, <2>o DEF Owned
  <2> QED BY <2>1, <2>2, <2>3, <2>4, <2>5, <2>6, StoreSteps
<1> QED BY <1>1, <1>2

\* The mapping invariant holds in every reachable state.
LEMMA Mapped == ASSUME SharedLock, MaxFaults \in {0, 1} PROVE Spec => [](SafeInv /\ MapInv)
<1>1. Init => MapInv
  BY MapInit
<1>2. SafeInv /\ MapInv /\ [Next]_vars => MapInv'
  <2>1. ASSUME SafeInv, MapInv, NEW p \in Procs, Step(p) PROVE MapInv'
    <3>1. AtMostOneFault /\ AtMostOneFault'
      BY <2>1, OneFault DEF MapInv
    <3>2. ASSUME NEW q \in Procs PROVE Fresh(q)' /\ PutKeyFailed(q)'
      BY <2>1, <3>1, FreshKept, FreshOthers DEF MapInv
    <3>3. ASSUME NEW n \in Names, nameToID'[n] # None
          PROVE  Owned(n)' \/ \E q \in Procs : Mapping(q, n)'
      BY <2>1, <3>3, OwnedKept
    <3> QED BY <3>1, <3>2, <3>3 DEF MapInv
  <2>2. MapInv /\ UNCHANGED vars => MapInv'
    BY DEF vars, store, MapInv, AtMostOneFault, Fresh, PutKeyFailed, Owned, Mapping
  <2> QED BY <2>1, <2>2 DEF Next
<1> QED BY <1>1, <1>2, Safe, PTL DEF Spec

\* Between writes nobody is at work on a mapping.
LEMMA QuietMapping ==
    ASSUME Quiet, MapInv, NEW n \in Names, nameToID[n] # None
    PROVE  Owned(n)
<1>1. ASSUME NEW p \in Procs PROVE ~Mapping(p, n)
  BY DEF Quiet, InWrite, WriteSteps, Mapping
<1> QED BY <1>1 DEF MapInv

\* With one lock for all requests and a storage that does not fail, the name
\* mapping is, whenever no write is under way, exactly the names of the
\* stored keys: what CreateKey and DeleteKey do in four storage calls cannot
\* be seen half done.
THEOREM NamesAgreeHolds == ASSUME SharedLock, MaxFaults = 0 PROVE Spec => []NamesAgree
<1>1. NameInv /\ MapInv => NamesAgree
  <2> SUFFICES ASSUME NameInv, MapInv, Quiet
               PROVE  /\ \A i \in Ids : keys[i] # None => nameToID[keys[i].name] = i
                      /\ \A n \in Names : nameToID[n] # None => Owned(n)
    BY DEF NamesAgree, Owned
  <2>1. ASSUME NEW i \in Ids, keys[i] # None PROVE nameToID[keys[i].name] = i
    <3>1. ASSUME NEW p \in Procs PROVE ~Unmapped(p, i)
      BY DEF Quiet, InWrite, WriteSteps, Unmapped
    <3> QED BY <2>1, <3>1 DEF NameInv
  <2> QED BY <2>1, QuietMapping
<1>2. Spec => [](SafeInv /\ NameInv)
  BY Named
<1>3. Spec => [](SafeInv /\ MapInv)
  BY Mapped
<1> QED BY <1>1, <1>2, <1>3, PTL

-----------------------------------------------------------------------------
(* No current version without its material, with at most one failing call. *)

\* Which steps change the versions.
LEMMA VersionSteps ==
    ASSUME NEW p \in Procs, Step(p), versions' # versions
    PROVE  PutVersion(p) \/ UndoVersion(p) \/ DelVersion(p)
<1> USE DEF store
<1>1. CASE (\E c \in Calls : Begin(p, c)) \/ Acquire(p) \/ WaitForReaders(p) \/ Unlock(p)
           \/ StorageFault(p)
  BY <1>1 DEF Begin, Acquire, Lock, RLock, RLockAgain, WaitForReaders, Unlock, StorageFault
<1>2. CASE Create(p) \/ Read(p)
  BY <1>2 DEF Create, GetOld, GetName, PutName, CacheName, PutKey, Read, CacheGet, GetMapping,
     CacheFill, ReadKey, ReadVersion, ListIds, ListGet
<1>3. CASE GetOldVersion(p) \/ AddGet(p) \/ UpdGet(p) \/ UpdPut(p)
  BY <1>3 DEF GetOldVersion, AddGet, UpdGet, UpdPut
<1>4. CASE DelGet(p) \/ UncacheName(p) \/ DelName(p) \/ DelKey(p) \/ ListVersions(p)
  BY <1>4 DEF DelGet, UncacheName, DelName, DelKey, ListVersions
<1> QED BY <1>1, <1>2, <1>3, <1>4 DEF Step, Proceed, Write, Delete

\* AddVersion works on the key it has read, and adds its next version.
Adding(p) ==
    call[p].op = "AddVersion"
      /\ pc[p] \in {"getOldVersion", "putVersion", "updGet", "updPut", "undoVersion"}
      => keys[call[p].id] = snap[p] /\ call[p].ver = snap[p].cur + 1

LEMMA AddingKept ==
    ASSUME SafeInv, NEW p \in Procs, Adding(p), Step(p)
    PROVE  Adding(p)'
<1> USE ConstantsAssumption DEF store, Goto, Return, Cleanup, Finish, Adding
<1>t. /\ StoreTypes /\ ControlTypes /\ RegisterTypes /\ RequestOK(p)
  BY DEF SafeInv, TypeOK, Types, RequestOK
<1>1. CASE (\E c \in Calls : Begin(p, c)) \/ Acquire(p) \/ WaitForReaders(p) \/ Unlock(p)
  BY <1>1, <1>t DEF Begin, Acquire, Lock, RLock, RLockAgain, WaitForReaders, Unlock, FirstStep,
     ControlTypes
<1>2. CASE GetOld(p) \/ GetName(p) \/ PutName(p) \/ CacheName(p) \/ PutKey(p)
  BY <1>2, <1>t DEF GetOld, GetName, PutName, CacheName, PutKey, ControlTypes, RequestOK, StepOK
<1>3. CASE GetOldVersion(p) \/ PutVersion(p)
  BY <1>3, <1>t DEF GetOldVersion, PutVersion, ControlTypes
<1>a. CASE AddGet(p)
  BY <1>a, <1>t DEF AddGet, ControlTypes, RegisterTypes
<1>4. CASE UpdGet(p) \/ UpdPut(p) \/ UndoVersion(p)
  BY <1>4, <1>t DEF UpdGet, UpdateFailed, UpdPut, UndoVersion, ControlTypes
<1>5. CASE DelGet(p) \/ UncacheName(p) \/ DelName(p) \/ DelKey(p) \/ ListVersions(p) \/ DelVersion(p)
  BY <1>5, <1>t, ZenonT(40)
     DEF DelGet, UncacheName, DelName, DelKey, ListVersions, DelVersion, ControlTypes
<1>8. CASE Read(p)
  BY <1>8, <1>t, SMTT(30)
     DEF Read, CacheGet, GetMapping, CacheFill, ReadKey, ReadVersion, ListIds, ListGet,
     ControlTypes
<1>9. CASE StorageFault(p)
  <2>1. /\ pc'[p] = AfterFault(p) /\ UNCHANGED <<keys, call, snap>>
    BY <1>9, <1>t DEF StorageFault, ControlTypes
  <2> QED BY <2>1 DEF AfterFault
<1> QED BY <1>1, <1>2, <1>3, <1>a, <1>4, <1>5, <1>8, <1>9 DEF Step, Proceed, Create, Write, Delete

LEMMA AddingOthers ==
    ASSUME SharedLock, SafeInv, NEW p \in Procs, Step(p), NEW q \in Procs, q # p, Adding(q)
    PROVE  Adding(q)'
<1>1. pc'[q] = pc[q] /\ call'[q] = call[q] /\ snap'[q] = snap[q]
  BY Frame DEF SafeInv, OnlyMoves
<1>2. InWrite(q) => UNCHANGED store
  BY OnlyWriterWrites DEF SafeInv
<1> QED BY <1>1, <1>2 DEF Adding, InWrite, WriteSteps, store

\* CreateKey has stored the key and its version is missing, or its clean-up,
\* in which nothing may fail any more, is about to remove the key.
Filling(p, i) ==
    /\ call[p].op = "CreateKey" /\ call[p].id = i
    /\ \/ pc[p] \in {"getOldVersion", "putVersion"}
       \/ pc[p] \in {"delGet", "uncacheName", "delName", "delKey"} /\ faults = 0

HasCurrent(i) == versions[i][keys[i].cur] # None

\* A stored key's current version is stored, except while CreateKey works.
CurrentInv ==
    /\ AtMostOneFault
    /\ \A p \in Procs : Adding(p)
    /\ \A i \in Ids : keys[i] # None => HasCurrent(i) \/ \E p \in Procs : Filling(p, i)

LEMMA FillingOthers ==
    ASSUME SharedLock, SafeInv, AtMostOneFault, NEW p \in Procs, Step(p), NEW q \in Procs, q # p,
           NEW i \in Ids, Filling(q, i)
    PROVE  Filling(q, i)'
<1>1. pc'[q] = pc[q] /\ call'[q] = call[q]
  BY Frame DEF SafeInv, OnlyMoves
<1>2. faults = 0 => faults' = 0
  BY OneFault
<1> QED BY <1>1, <1>2 DEF Filling

\* The request that fills a key keeps at it until the current version is
\* stored or the key is gone.
LEMMA FillingOwn ==
    ASSUME SafeInv, CurrentInv, NEW p \in Procs, PutKeyFailed(p), Step(p), NEW i \in Ids,
           Filling(p, i), keys'[i] # None
    PROVE  HasCurrent(i)' \/ Filling(p, i)'
<1> USE DEF store, Goto, Return, Cleanup, Finish
<1>t. /\ StoreTypes /\ ControlTypes /\ RequestOK(p) /\ Progress(p) /\ None \notin Procs
      /\ call[p].ver \in Vers /\ call[p].op = "CreateKey" /\ call[p].id = i
  BY ConstantsAssumption DEF SafeInv, TypeOK, Types, RequestOK, WriteInv, InWrite, WriteSteps,
     Filling, ArgumentsOK
<1>f. (faults = 0 => faults' = 0) /\ (StorageFault(p) => faults' = 0 /\ faults # 0)
  BY OneFault DEF CurrentInv, StorageFault
<1>1. CASE GetOldVersion(p)
  <2>1. keys[i] = [name |-> call[p].name, cur |-> call[p].ver] /\ UNCHANGED <<keys, versions>>
    BY <1>1, <1>t DEF GetOldVersion, Progress
  <2>2. CASE versions[i][call[p].ver] = None
    BY <1>1, <1>t, <2>2 DEF GetOldVersion, ControlTypes, Filling
  <2>3. CASE versions[i][call[p].ver] # None
    BY <2>1, <2>3 DEF HasCurrent
  <2> QED BY <2>2, <2>3
<1>2. CASE PutVersion(p)
  <2>1. /\ keys[i] = [name |-> call[p].name, cur |-> call[p].ver] /\ keys' = keys
        /\ versions' = [versions EXCEPT ![i][call[p].ver] = p]
    BY <1>2, <1>t DEF PutVersion, Progress
  <2>2. keys'[i].cur = call[p].ver /\ versions'[i][call[p].ver] = p
    BY <1>t, <2>1 DEF StoreTypes
  <2> QED BY <1>t, <2>2 DEF HasCurrent
<1>3. CASE DelGet(p) \/ UncacheName(p)
  BY <1>3, <1>t, <1>f DEF DelGet, UncacheName, ControlTypes, Filling
<1>4. CASE DelName(p)
  <2>1. keys' = keys
    BY <1>4 DEF DelName
  <2>2. snap[p] # None
    BY <1>4, <1>t, <2>1 DEF PutKeyFailed, DelName
  <2> QED BY <1>4, <1>t, <1>f, <2>2 DEF DelName, ControlTypes, Filling
<1>5. CASE DelKey(p)
  BY <1>5, <1>t DEF DelKey, StoreTypes
<1>6. CASE StorageFault(p)
  <2>1. pc[p] \in {"getOldVersion", "putVersion"}
    BY <1>6, <1>f DEF Filling
  <2>2. pc'[p] = "delGet" /\ call' = call
    BY <1>6, <1>t, <2>1 DEF StorageFault, AfterFault, ControlTypes
  <2> QED BY <1>6, <1>f, <1>t, <2>2 DEF Filling
<1>7. \/ GetOldVersion(p) \/ PutVersion(p) \/ DelGet(p) \/ UncacheName(p) \/ DelName(p)
      \/ DelKey(p) \/ StorageFault(p)
  BY DEF Filling, Step, Begin, Acquire, Lock, RLock, RLockAgain, Proceed, WaitForReaders, Unlock,
     Create, GetOld, GetName, PutName, CacheName, PutKey, Write, AddGet, UpdGet, UpdPut,
     UndoVersion, Delete, ListVersions, DelVersion, Read, CacheGet, GetMapping, CacheFill, ReadKey,
     ReadVersion, ListIds, ListGet
<1> QED BY <1>1, <1>2, <1>3, <1>4, <1>5, <1>6, <1>7

\* Every step preserves that stored keys have their current version.
LEMMA CurrentKept ==
    ASSUME SharedLock, "UpdateKey" \notin Ops, SafeInv, MapInv, CurrentInv,
           NEW p \in Procs, Step(p), NEW i \in Ids, keys'[i] # None
    PROVE  HasCurrent(i)' \/ \E q \in Procs : Filling(q, i)'
<1> USE DEF store, Goto, Return, Cleanup, Finish
<1>t. /\ StoreTypes /\ ControlTypes /\ RegisterTypes /\ RequestOK(p) /\ ConstantsAssumption
      /\ AtMostOneFault /\ PutKeyFailed(p) /\ Adding(p) /\ call[p].op # "UpdateKey"
      /\ pc[p] \in WriteSteps => Progress(p)
  BY ConstantsAssumption DEF SafeInv, TypeOK, Types, RequestOK, MapInv, WriteInv, InWrite,
     CurrentInv, RegisterTypes
<1>1. CASE \E q \in Procs : Filling(q, i)
  BY <1>1, <1>t, FillingOwn, FillingOthers
<1>2. CASE ~\E q \in Procs : Filling(q, i)
  <2>o. keys[i] # None => HasCurrent(i)
    BY <1>2 DEF CurrentInv
  <2>1. CASE PutKey(p)
    <3>1. /\ call[p].op = "CreateKey" /\ call' = call /\ pc'[p] = "getOldVersion"
          /\ versions' = versions
          /\ keys' = [keys EXCEPT ![call[p].id] = [name |-> call[p].name, cur |-> call[p].ver]]
      BY <1>t, <2>1 DEF PutKey, RequestOK, StepOK, ControlTypes
    <3>2. CASE call[p].id = i
      BY <3>1, <3>2 DEF Filling
    <3>3. CASE call[p].id # i
      <4>1. keys'[i] = keys[i]
        BY <1>t, <3>1, <3>3 DEF StoreTypes
      <4> QED BY <2>o, <3>1, <4>1 DEF HasCurrent
    <3> QED BY <3>2, <3>3
  <2>2. CASE UpdPut(p)
    <3>1. /\ call[p].op = "AddVersion" /\ versions' = versions /\ call[p].id \in Ids
          /\ keys' = [keys EXCEPT ![call[p].id] = NewRecord(p)]
          /\ versions[call[p].id][call[p].ver] = p
      BY <1>t, <2>2 DEF UpdPut, RequestOK, StepOK, ArgumentsOK, WriteSteps, WriteOps, Progress
    <3>2. CASE call[p].id = i
      <4>1. keys'[i].cur = call[p].ver
        BY <1>t, <3>1, <3>2 DEF StoreTypes, NewRecord
      <4> QED BY <1>t, <3>1, <3>2, <4>1 DEF HasCurrent, ConstantsAssumption
    <3>3. CASE call[p].id # i
      <4>1. keys'[i] = keys[i]
        BY <1>t, <3>1, <3>3 DEF StoreTypes
      <4> QED BY <2>o, <3>1, <4>1 DEF HasCurrent
    <3> QED BY <3>2, <3>3
  <2>3. CASE DelKey(p)
    <3>1. versions' = versions /\ keys'[i] = keys[i]
      BY <1>t, <2>3 DEF DelKey, StoreTypes
    <3> QED BY <2>o, <3>1 DEF HasCurrent
  <2>4. CASE PutVersion(p)
    <3>1. keys' = keys /\ keys[i] \in KeyRec /\ keys[i].cur \in Vers
      BY <1>t, <2>4 DEF PutVersion, StoreTypes, KeyRec
    <3>2. versions'[i][keys[i].cur] \in {versions[i][keys[i].cur], p}
      BY <1>t, <2>4, <3>1 DEF PutVersion, StoreTypes
    <3> QED BY <1>t, <2>o, <3>1, <3>2 DEF HasCurrent, ConstantsAssumption
  <2>5. CASE UndoVersion(p)
    <3>1. /\ keys' = keys /\ keys[i] \in KeyRec /\ keys[i].cur \in Vers
          /\ call[p].op = "AddVersion" /\ keys[call[p].id] = snap[p]
          /\ call[p].ver = snap[p].cur + 1
          /\ versions' = [versions EXCEPT ![call[p].id][call[p].ver] = None]
      BY <1>t, <2>5 DEF UndoVersion, StoreTypes, KeyRec, Adding, RequestOK, StepOK
    <3>2. ~(i = call[p].id /\ keys[i].cur = call[p].ver)
      BY <1>t, <3>1 DEF ConstantsAssumption
    <3>3. versions'[i][keys[i].cur] = versions[i][keys[i].cur]
      BY <1>t, <3>1, <3>2 DEF StoreTypes
    <3> QED BY <2>o, <3>1, <3>3 DEF HasCurrent
  <2>6. CASE DelVersion(p)
    <3>1. keys' = keys /\ keys[i] \in KeyRec /\ keys[i].cur \in Vers /\ i # call[p].id
      BY <1>t, <2>6 DEF DelVersion, StoreTypes, KeyRec, Progress, WriteSteps
    <3>2. versions'[i] = versions[i]
      BY <1>t, <2>6, <3>1 DEF DelVersion, StoreTypes
    <3> QED BY <2>o, <3>1, <3>2 DEF HasCurrent
  <2>7. CASE PutName(p) \/ DelName(p)
    BY <2>7, <2>o DEF PutName, DelName, HasCurrent
  <2>8. CASE UNCHANGED <<keys, versions>>
    BY <2>8, <2>o DEF HasCurrent
  <2> QED BY <2>1, <2>2, <2>3, <2>4, <2>5, <2>6, <2>7, <2>8, StoreSteps, VersionSteps
<1> QED BY <1>1, <1>2

\* It holds in every reachable state.
LEMMA Current ==
    ASSUME SharedLock, "UpdateKey" \notin Ops, MaxFaults \in {0, 1}
    PROVE  Spec => [](SafeInv /\ MapInv /\ CurrentInv)
<1>1. Init => CurrentInv
  BY DEF Init, CurrentInv, AtMostOneFault, Adding, NoCall
<1>2. SafeInv /\ MapInv /\ CurrentInv /\ [Next]_vars => CurrentInv'
  <2>1. ASSUME SafeInv, MapInv, CurrentInv, NEW p \in Procs, Step(p) PROVE CurrentInv'
    <3>1. AtMostOneFault'
      BY <2>1, OneFault DEF MapInv
    <3>2. ASSUME NEW q \in Procs PROVE Adding(q)'
      BY <2>1, AddingKept, AddingOthers DEF CurrentInv
    <3>3. ASSUME NEW i \in Ids, keys'[i] # None
          PROVE  HasCurrent(i)' \/ \E q \in Procs : Filling(q, i)'
      BY <2>1, <3>3, CurrentKept
    <3> QED BY <3>1, <3>2, <3>3 DEF CurrentInv
  <2>2. CurrentInv /\ UNCHANGED vars => CurrentInv'
    BY DEF vars, store, CurrentInv, AtMostOneFault, Adding, HasCurrent, Filling
  <2> QED BY <2>1, <2>2 DEF Next
<1>3. Spec => [](SafeInv /\ MapInv)
  BY Mapped
<1> QED BY <1>1, <1>2, <1>3, PTL DEF Spec

\* With one lock for all requests and at most one failing storage call, at
\* any point of any method, no write leaves a name mapped to a key that is
\* not there or is not called so, nor a key without its current version:
\* putKey maps the name before it stores the key and removes it if that
\* fails, and CreateKey and AddVersion undo what they did.
THEOREM NoDanglingHolds ==
    ASSUME SharedLock, "UpdateKey" \notin Ops, MaxFaults \in {0, 1}
    PROVE  Spec => []NoDangling
<1>1. MapInv /\ CurrentInv => NoDangling
  <2> SUFFICES ASSUME MapInv, CurrentInv, Quiet
               PROVE  /\ \A n \in Names : nameToID[n] # None => Owned(n)
                      /\ \A i \in Ids : keys[i] # None => HasCurrent(i)
    BY DEF NoDangling, Owned, HasCurrent
  <2>1. ASSUME NEW i \in Ids, keys[i] # None PROVE HasCurrent(i)
    <3>1. ASSUME NEW p \in Procs PROVE ~Filling(p, i)
      BY DEF Quiet, InWrite, WriteSteps, Filling
    <3> QED BY <2>1, <3>1 DEF CurrentInv
  <2> QED BY <2>1, QuietMapping
<1>2. Spec => [](SafeInv /\ MapInv /\ CurrentInv)
  BY Current
<1> QED BY <1>1, <1>2, PTL

-----------------------------------------------------------------------------
(* The stored versions of a key, when storage does not fail.               *)

\* putKeyVersion of request p stores version v of key i.
Stores(p, i, v) == versions' = [versions EXCEPT ![i][v] = p]

\* What putKeyVersion adds to the stored versions.
LEMMA StoredAfterPut ==
    ASSUME StoreTypes, NEW p \in Procs, NEW i \in Ids, NEW v \in Vers, Stores(p, i, v)
    PROVE  StoredVersions(i)' = StoredVersions(i) \cup {v}
  BY ConstantsAssumption DEF StoreTypes, StoredVersions, Stores

Exact(i) == StoredVersions(i) = IF keys[i] = None THEN {} ELSE InitialVersion..keys[i].cur

\* Without a failing call no write undoes anything, and CreateKey and
\* AddVersion find the versions as they expect them.
OnCourse(p) ==
    /\ pc[p] # "undoVersion"
    /\ call[p].op = "CreateKey" =>
         call[p].ver = InitialVersion /\ pc[p] \notin {"delGet", "uncacheName", "delName", "delKey"}
    /\ call[p].op = "CreateKey" /\ pc[p] \in {"getOldVersion", "putVersion"} =>
         StoredVersions(call[p].id) = {}
    /\ call[p].op = "AddVersion" /\ pc[p] \in {"updGet", "updPut"} =>
         StoredVersions(call[p].id) = InitialVersion..call[p].ver

\* Request p is between two storage calls that together change key i.
Flux(p, i) ==
    /\ call[p].id = i
    /\ \/ call[p].op = "CreateKey" /\ pc[p] \in {"getOldVersion", "putVersion"}
       \/ call[p].op = "AddVersion" /\ pc[p] \in {"updGet", "updPut"}
       \/ pc[p] \in {"listVersions", "delVersion"}

\* The stored versions run from the initial to the current one, except for
\* the key a write is at work on.
ExactInv ==
    /\ faults = 0
    /\ \A p \in Procs : OnCourse(p) /\ Adding(p)
    /\ \A i \in Ids : keys[i] # None => keys[i].cur >= InitialVersion
    /\ \A i \in Ids : Exact(i) \/ \E p \in Procs : Flux(p, i)

LEMMA ExactInit == MaxFaults = 0 /\ Init => ExactInv
  BY DEF Init, ExactInv, OnCourse, Adding, NoCall, Exact, StoredVersions

\* A request in a write sees the exact versions of a key it is not at work on.
LEMMA ExactAlone ==
    ASSUME SharedLock, SafeInv, ExactInv, NEW p \in Procs, pc[p] \in WriteSteps, NEW i \in Ids,
           ~Flux(p, i)
    PROVE  Exact(i)
<1>1. ASSUME NEW q \in Procs PROVE ~Flux(q, i)
  BY NobodyElse DEF Flux, WriteSteps
<1> QED BY <1>1 DEF ExactInv

\* A step of p keeps it on course ...
LEMMA CourseKept ==
    ASSUME SharedLock, SafeInv, MapInv, ExactInv, NEW p \in Procs, Step(p)
    PROVE  OnCourse(p)'
<1> USE ConstantsAssumption DEF store, Goto, Return, Cleanup, Finish
<1>t. /\ StoreTypes /\ ControlTypes /\ RegisterTypes /\ RequestOK(p)
      /\ pc[p] \in WriteSteps => Progress(p)
      /\ Fresh(p) /\ OnCourse(p) /\ Adding(p) /\ ~StorageFault(p)
  BY DEF SafeInv, TypeOK, Types, RequestOK, WriteInv, InWrite, MapInv, ExactInv, StorageFault
<1>1. CASE \E c \in Calls : Begin(p, c)
  BY <1>1, <1>t DEF Begin, Calls, Arguments, ControlTypes, RegisterTypes, OnCourse
<1>2. CASE Acquire(p) \/ WaitForReaders(p) \/ Unlock(p)
  BY <1>2, <1>t DEF Acquire, Lock, RLock, RLockAgain, WaitForReaders, Unlock, FirstStep,
     ControlTypes, RegisterTypes, OnCourse, NoCall
<1>3. CASE GetOld(p) \/ GetName(p) \/ PutName(p) \/ CacheName(p)
  BY <1>3, <1>t DEF GetOld, GetName, PutName, CacheName, ControlTypes, OnCourse
<1>4. CASE PutKey(p)
  <2>1. /\ call[p].op = "CreateKey" /\ call[p].id \in Ids /\ keys[call[p].id] = None
        /\ UNCHANGED <<versions, call>> /\ pc'[p] = "getOldVersion" /\ pc[p] \in WriteSteps
    BY <1>4, <1>t DEF PutKey, RequestOK, StepOK, ArgumentsOK, WriteOps, Fresh, ControlTypes,
       WriteSteps
  <2>2. ~Flux(p, call[p].id)
    BY <1>4, <2>1 DEF PutKey, Flux
  <2>3. StoredVersions(call[p].id) = {}
    BY <2>1, <2>2, ExactAlone DEF Exact
  <2> QED BY <1>t, <2>1, <2>3 DEF OnCourse, StoredVersions
<1>5. CASE GetOldVersion(p)
  <2>1. call[p].op = "CreateKey" => versions[call[p].id][call[p].ver] = None
    BY <1>5, <1>t DEF GetOldVersion, OnCourse, StoredVersions
  <2> QED BY <1>5, <1>t, <2>1 DEF GetOldVersion, OnCourse, ControlTypes, StoredVersions
<1>6. CASE PutVersion(p) /\ call[p].op = "CreateKey"
  BY <1>6, <1>t DEF PutVersion, OnCourse, ControlTypes
<1>7. CASE PutVersion(p) /\ call[p].op = "AddVersion"
  <2> PICK i \in Ids, v \in Vers : call[p].id = i /\ call[p].ver = v
    BY <1>7, <1>t DEF RequestOK, ArgumentsOK, WriteOps
  <2>1. /\ keys[i] = snap[p] /\ snap[p] # None /\ v = snap[p].cur + 1 /\ pc[p] \in WriteSteps
        /\ UNCHANGED call /\ pc'[p] = "updGet" /\ Stores(p, i, v)
    BY <1>7, <1>t DEF PutVersion, RequestOK, RegistersOK, Adding, ControlTypes, WriteSteps, Stores
  <2>2. ~Flux(p, i)
    BY <1>7, <2>1 DEF PutVersion, Flux
  <2>3. StoredVersions(i) = InitialVersion..snap[p].cur
    BY <2>1, <2>2, ExactAlone DEF Exact
  <2>4. InitialVersion \in Nat /\ snap[p].cur \in Nat /\ InitialVersion <= snap[p].cur
    <3>1. snap[p] \in KeyRec /\ InitialVersion \in Nat /\ Vers \subseteq Nat
      BY <1>t, <2>1 DEF RegisterTypes
    <3>2. keys[i] # None
      BY <2>1
    <3> QED BY <2>1, <3>1, <3>2 DEF ExactInv, KeyRec
  <2>5. StoredVersions(i)' = StoredVersions(i) \cup {v}
    <3>1. StoreTypes /\ Stores(p, i, v)
      BY <1>t, <2>1
    <3> QED BY <3>1, StoredAfterPut
  <2>6. InitialVersion..v = (InitialVersion..snap[p].cur) \cup {v}
    BY <2>1, <2>4
  <2> QED BY <1>7, <2>1, <2>3, <2>5, <2>6 DEF OnCourse, StoredVersions
<1>8. CASE AddGet(p)
  BY <1>8, <1>t DEF AddGet, OnCourse, ControlTypes, RequestOK, StepOK
<1>9. CASE UpdGet(p)
  <2>1. call[p].op = "AddVersion" => keys[call[p].id] # None
                                     /\ keys[call[p].id].name = NewRecord(p).name
    BY <1>9, <1>t DEF UpdGet, RequestOK, RegistersOK, Adding, NewRecord
  <2> QED BY <1>9, <1>t, <2>1 DEF UpdGet, UpdateFailed, OnCourse, ControlTypes, StoredVersions,
          RequestOK, StepOK
<1>10. CASE UpdPut(p) \/ UndoVersion(p)
  BY <1>10, <1>t DEF UpdPut, UndoVersion, OnCourse, ControlTypes
<1>11. CASE Delete(p)
  BY <1>11, <1>t DEF Delete, DelGet, UncacheName, DelName, DelKey, ListVersions, DelVersion,
     OnCourse, ControlTypes, RequestOK, StepOK
<1>12. CASE Read(p)
  <2>1. pc'[p] \in {"getMapping", "cacheFill", "rlockAgain", "readVersion", "listGet", "unlock"}
        /\ call[p].op \in ReadOps /\ call'[p].op = call[p].op
    BY <1>12, <1>t DEF Read, CacheGet, GetMapping, CacheFill, ReadKey, ReadVersion, ListIds,
       ListGet, ControlTypes, RegisterTypes, RequestOK, StepOK, ReadOps
  <2> QED BY <2>1 DEF OnCourse, ReadOps
<1>13. PutVersion(p) => call[p].op \in {"CreateKey", "AddVersion"}
  BY <1>t DEF PutVersion, RequestOK, StepOK
<1> QED BY <1>1, <1>2, <1>3, <1>4, <1>5, <1>6, <1>7, <1>8, <1>9, <1>10, <1>11, <1>12, <1>13, <1>t
        DEF Step, Proceed, Create, Write

\* ... and the others too.
LEMMA CourseOthers ==
    ASSUME SharedLock, SafeInv, NEW p \in Procs, Step(p), NEW q \in Procs, q # p, OnCourse(q)
    PROVE  OnCourse(q)'
<1>1. pc'[q] = pc[q] /\ call'[q] = call[q]
  BY Frame DEF SafeInv, OnlyMoves
<1>2. InWrite(q) => UNCHANGED store
  BY OnlyWriterWrites DEF SafeInv
<1> QED BY <1>1, <1>2 DEF OnCourse, InWrite, WriteSteps, store, StoredVersions

\* A stored key's current version is never below the initial one.
LEMMA CurrentFromInitial ==
    ASSUME "UpdateKey" \notin Ops, SafeInv, ExactInv, NEW p \in Procs, Step(p), NEW i \in Ids,
           keys'[i] # None
    PROVE  keys'[i].cur >= InitialVersion
<1>t. /\ StoreTypes /\ RegisterTypes /\ RequestOK(p) /\ Adding(p) /\ OnCourse(p)
      /\ call[p].op # "UpdateKey" /\ InitialVersion \in Nat
  BY ConstantsAssumption DEF SafeInv, TypeOK, Types, RequestOK, RegisterTypes, ExactInv
<1>1. CASE PutKey(p)
  <2>1. /\ call[p].ver = InitialVersion
        /\ keys' = [keys EXCEPT ![call[p].id] = [name |-> call[p].name, cur |-> call[p].ver]]
    BY <1>1, <1>t DEF PutKey, RequestOK, StepOK, OnCourse
  <2> QED BY <1>t, <2>1 DEF StoreTypes, ExactInv
<1>2. CASE UpdPut(p)
  <2>1. /\ keys[call[p].id] = snap[p] /\ snap[p] # None /\ call[p].ver = snap[p].cur + 1
        /\ call[p].id \in Ids
        /\ keys' = [keys EXCEPT ![call[p].id] = NewRecord(p)] /\ NewRecord(p).cur = call[p].ver
    BY <1>2, <1>t DEF UpdPut, RequestOK, StepOK, RegistersOK, ArgumentsOK, WriteOps, Adding,
       NewRecord
  <2>2. snap[p].cur \in Nat /\ snap[p].cur >= InitialVersion
    BY <1>t, <2>1, ConstantsAssumption DEF ExactInv, RegisterTypes, KeyRec
  <2> QED BY <1>t, <2>1, <2>2 DEF StoreTypes, ExactInv
<1>3. CASE keys'[i] \in {keys[i], None}
  BY <1>3 DEF ExactInv
<1>4. PutName(p) \/ DelName(p) \/ DelKey(p) => keys'[i] \in {keys[i], None}
  BY <1>t DEF PutName, DelName, DelKey, StoreTypes
<1> QED BY <1>1, <1>2, <1>3, <1>4, StoreSteps

\* A key a write is at work on stays so until its versions are exact again.
LEMMA FluxOwn ==
    ASSUME SafeInv, ExactInv, NEW p \in Procs, Step(p), NEW i \in Ids, Flux(p, i)
    PROVE  Exact(i)' \/ Flux(p, i)'
<1> USE ConstantsAssumption DEF store, Goto, Return, Cleanup, Finish
<1>t. /\ StoreTypes /\ ControlTypes /\ RequestOK(p) /\ Progress(p) /\ OnCourse(p) /\ Adding(p)
      /\ call[p].id = i /\ ~StorageFault(p)
  BY DEF SafeInv, TypeOK, Types, RequestOK, WriteInv, InWrite, WriteSteps, Flux, ExactInv,
     StorageFault
<1>1. CASE GetOldVersion(p)
  BY <1>1, <1>t DEF GetOldVersion, ControlTypes, Flux, OnCourse, StoredVersions, RequestOK,
     ArgumentsOK, StepOK
<1>2. CASE PutVersion(p)
  <2>1. /\ call[p].op = "CreateKey" /\ call[p].ver = InitialVersion /\ keys' = keys
        /\ StoredVersions(i) = {} /\ keys[i] = [name |-> call[p].name, cur |-> InitialVersion]
        /\ Stores(p, i, InitialVersion)
    BY <1>2, <1>t DEF PutVersion, Flux, OnCourse, Progress, Stores
  <2>2. call[p].name \in Names
    BY <1>2, <1>t, <2>1 DEF PutVersion, RequestOK, RegistersOK
  <2>3. keys[i] # None
    BY <2>1, <2>2 DEF KeyRec
  <2>4. StoredVersions(i)' = {InitialVersion}
    BY <1>t, <2>1, StoredAfterPut
  <2>5. InitialVersion..InitialVersion = {InitialVersion}
    OBVIOUS
  <2> QED BY <2>1, <2>3, <2>4, <2>5 DEF Exact
<1>3. CASE UpdGet(p)
  <2>1. call[p].op = "AddVersion" /\ snap[p] # None /\ keys[i] = snap[p]
    BY <1>3, <1>t DEF UpdGet, Flux, RequestOK, RegistersOK, Adding
  <2>2. pc'[p] = "updPut" /\ call' = call
    BY <1>3, <1>t, <2>1 DEF UpdGet, NewRecord, ControlTypes
  <2> QED BY <1>t, <2>1, <2>2 DEF Flux
<1>4. CASE UpdPut(p)
  <2>1. /\ call[p].op = "AddVersion" /\ StoredVersions(i) = InitialVersion..call[p].ver
        /\ versions' = versions /\ keys' = [keys EXCEPT ![i] = NewRecord(p)]
        /\ NewRecord(p) = [name |-> snap[p].name, cur |-> call[p].ver] /\ snap[p] # None
        /\ call[p].ver \in Vers
    BY <1>4, <1>t DEF UpdPut, Flux, OnCourse, RequestOK, RegistersOK, ArgumentsOK, NewRecord
  <2>2. NewRecord(p) \in KeyRec
    BY <2>1 DEF SafeInv, TypeOK, Types, RegisterTypes, KeyRec
  <2>3. keys'[i] = NewRecord(p) /\ keys'[i] # None /\ keys'[i].cur = call[p].ver
    BY <1>t, <2>1, <2>2 DEF StoreTypes
  <2> QED BY <2>1, <2>3 DEF Exact, StoredVersions
<1>5. CASE ListVersions(p)
  BY <1>5, <1>t DEF ListVersions, ControlTypes, Flux
<1>6. CASE DelVersion(p)
  <2>1. CASE todo[p] = {}
    BY <1>6, <1>t, <2>1 DEF DelVersion, Progress, Exact, StoredVersions
  <2>2. CASE todo[p] # {}
    BY <1>6, <1>t, <2>2 DEF DelVersion, ControlTypes, Flux
  <2> QED BY <2>1, <2>2
<1>7. \/ GetOldVersion(p) \/ PutVersion(p) \/ UpdGet(p) \/ UpdPut(p) \/ ListVersions(p)
      \/ DelVersion(p)
  BY <1>t DEF Flux, Step, Begin, Acquire, Lock, RLock, RLockAgain, Proceed, WaitForReaders, Unlock,
     Create, GetOld, GetName, PutName, CacheName, PutKey, Write, AddGet,
     UndoVersion, Delete, DelGet, UncacheName, DelName, DelKey, Read, CacheGet, GetMapping,
     CacheFill, ReadKey, ReadVersion, ListIds, ListGet
<1> QED BY <1>1, <1>2, <1>3, <1>4, <1>5, <1>6, <1>7

\* Every step preserves that versions are exact away from the write.
LEMMA ExactKept ==
    ASSUME SharedLock, "UpdateKey" \notin Ops, SafeInv, ExactInv, NEW p \in Procs, Step(p),
           NEW i \in Ids
    PROVE  Exact(i)' \/ \E q \in Procs : Flux(q, i)'
<1> USE DEF store, Goto, Return, Cleanup, Finish
<1>t. /\ StoreTypes /\ ControlTypes /\ RequestOK(p) /\ OnCourse(p)
      /\ call[p].op # "UpdateKey"
  BY DEF SafeInv, TypeOK, Types, RequestOK, RegisterTypes, ExactInv
<1>1. CASE \E q \in Procs : Flux(q, i)
  <2>1. ASSUME NEW q \in Procs, q # p, Flux(q, i) PROVE Flux(q, i)'
    <3>1. pc'[q] = pc[q] /\ call'[q] = call[q]
      BY <2>1, Frame DEF SafeInv, OnlyMoves
    <3> QED BY <2>1, <3>1 DEF Flux
  <2> QED BY <1>1, <2>1, FluxOwn
<1>2. CASE ~\E q \in Procs : Flux(q, i)
  <2>o. Exact(i) /\ ~Flux(p, i)
    BY <1>2 DEF ExactInv
  <2>1. CASE PutKey(p)
    <3>1. CASE call[p].id = i
      BY <1>t, <2>1, <3>1 DEF PutKey, RequestOK, StepOK, ControlTypes, Flux
    <3>2. CASE call[p].id # i
      BY <1>t, <2>o, <2>1, <3>2 DEF PutKey, StoreTypes, Exact, StoredVersions
    <3> QED BY <3>1, <3>2
  <2>2. CASE UpdPut(p)
    <3>1. call[p].id # i
      BY <1>t, <2>o, <2>2 DEF UpdPut, RequestOK, StepOK, Flux
    <3> QED BY <1>t, <2>o, <2>2, <3>1 DEF UpdPut, StoreTypes, Exact, StoredVersions
  <2>3. CASE DelKey(p)
    <3>1. CASE call[p].id = i
      BY <1>t, <2>3, <3>1 DEF DelKey, RequestOK, StepOK, OnCourse, ControlTypes, Flux
    <3>2. CASE call[p].id # i
      BY <1>t, <2>o, <2>3, <3>2 DEF DelKey, StoreTypes, Exact, StoredVersions
    <3> QED BY <3>1, <3>2
  <2>4. CASE PutVersion(p)
    <3>1. CASE call[p].id = i
      <4>1. call[p].op = "AddVersion"
        BY <1>t, <2>o, <2>4, <3>1 DEF PutVersion, RequestOK, StepOK, Flux
      <4> QED BY <1>t, <2>4, <3>1, <4>1 DEF PutVersion, ControlTypes, Flux
    <3>2. CASE call[p].id # i
      BY <1>t, <2>o, <2>4, <3>2 DEF PutVersion, StoreTypes, Exact, StoredVersions
    <3> QED BY <3>1, <3>2
  <2>5. CASE DelVersion(p)
    <3>1. call[p].id # i
      BY <2>o, <2>5 DEF DelVersion, Flux
    <3> QED BY <1>t, <2>o, <2>5, <3>1 DEF DelVersion, StoreTypes, Exact, StoredVersions
  <2>6. CASE PutName(p) \/ DelName(p)
    BY <2>6, <2>o DEF PutName, DelName, Exact, StoredVersions
  <2>7. CASE UNCHANGED <<keys, versions>>
    BY <2>7, <2>o DEF Exact, StoredVersions
  <2>8. ~UndoVersion(p)
    BY <1>t DEF UndoVersion, OnCourse
  <2> QED BY <2>1, <2>2, <2>3, <2>4, <2>5, <2>6, <2>7, <2>8, StoreSteps, VersionSteps
<1> QED BY <1>1, <1>2

\* With one lock for all requests and a storage that does not fail, the
\* versions stored for a key are, whenever no write is under way, exactly
\* those from the initial to the current one, and none for a key that is
\* gone: deleteKey leaves no key material behind, AddVersion leaves no gap
\* and no version that is not the record's.
THEOREM VersionsAgreeHolds ==
    ASSUME SharedLock, "UpdateKey" \notin Ops, MaxFaults = 0
    PROVE  Spec => []VersionsAgree
<1>1. Init => ExactInv
  BY ExactInit
<1>2. SafeInv /\ MapInv /\ ExactInv /\ [Next]_vars => ExactInv'
  <2>1. ASSUME SafeInv, MapInv, ExactInv, NEW p \in Procs, Step(p) PROVE ExactInv'
    <3>1. faults' = 0
      BY <2>1, FaultSteps DEF ExactInv, StorageFault
    <3>2. ASSUME NEW q \in Procs PROVE OnCourse(q)' /\ Adding(q)'
      BY <2>1, CourseKept, CourseOthers, AddingKept, AddingOthers DEF ExactInv
    <3>3. ASSUME NEW i \in Ids, keys'[i] # None PROVE keys'[i].cur >= InitialVersion
      BY <2>1, <3>3, CurrentFromInitial
    <3>4. ASSUME NEW i \in Ids PROVE Exact(i)' \/ \E q \in Procs : Flux(q, i)'
      BY <2>1, ExactKept
    <3> QED BY <3>1, <3>2, <3>3, <3>4 DEF ExactInv
  <2>2. ExactInv /\ UNCHANGED vars => ExactInv'
    BY DEF vars, store, ExactInv, OnCourse, Adding, Exact, Flux, StoredVersions
  <2> QED BY <2>1, <2>2 DEF Next
<1>3. ExactInv => VersionsAgree
  <2> SUFFICES ASSUME ExactInv, Quiet, NEW i \in Ids PROVE Exact(i)
    BY DEF VersionsAgree, Exact
  <2>1. ASSUME NEW p \in Procs PROVE ~Flux(p, i)
    BY DEF Quiet, InWrite, WriteSteps, Flux
  <2> QED BY <2>1 DEF ExactInv
<1>4. Spec => [](SafeInv /\ MapInv)
  BY Mapped
<1> QED BY <1>1, <1>2, <1>3, <1>4, PTL DEF Spec

=============================================================================
