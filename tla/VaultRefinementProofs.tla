----------------------- MODULE VaultRefinementProofs -----------------------
(***************************************************************************)
(* VaultRepository implements KeyRepository: with one repository and a     *)
(* storage that does not fail, concurrent calls are linearizable.  First   *)
(* what a call knows of the store when it takes effect, then the steps of  *)
(* the implementation one by one.                                          *)
(***************************************************************************)
EXTENDS VaultRefinement, VaultRepositoryProofs

Deleting(p, i) == pc[p] \in {"listVersions", "delVersion"} /\ call[p].id = i

\* Without a failing call no write is undone, and a call has neither error
\* nor result before it ends.
Smooth(p) ==
    /\ pc[p] # "undoVersion"
    /\ call[p].op = "CreateKey" => pc[p] \notin {"delGet", "uncacheName", "delName", "delKey"}
    /\ call[p].op = "CreateKey" /\ pc[p] \in {"getOldVersion", "putVersion"} =>
         StoredVersions(call[p].id) = {}
    /\ pc[p] # "unlock" => code[p] = "ok"
    /\ pc[p] \notin {"unlock", "listGet"} => out[p] = {}

\* A key that is gone has no versions once its deletion is over.
GoneInv ==
    /\ faults = 0
    /\ \A p \in Procs : Smooth(p) /\ Adding(p)
    /\ \A i \in Ids : keys[i] = None => StoredVersions(i) = {} \/ \E p \in Procs : Deleting(p, i)

LEMMA GoneInit == MaxFaults = 0 /\ Init => GoneInv
  BY DEF Init, GoneInv, Smooth, Adding, NoCall, StoredVersions

\* A write sees no versions of a key that is gone and that it is not deleting.
LEMMA GoneAlone ==
    ASSUME SharedLock, SafeInv, GoneInv, NEW p \in Procs, pc[p] \in WriteSteps, NEW i \in Ids,
           keys[i] = None, ~Deleting(p, i)
    PROVE  StoredVersions(i) = {}
<1>1. ASSUME NEW q \in Procs PROVE ~Deleting(q, i)
  BY NobodyElse DEF Deleting, WriteSteps
<1> QED BY <1>1 DEF GoneInv

\* A step of p goes smoothly ...
LEMMA SmoothKept ==
    ASSUME SharedLock, SafeInv, MapInv, GoneInv, NEW p \in Procs, Step(p)
    PROVE  Smooth(p)'
<1> USE ConstantsAssumption DEF store, Goto, Return, Cleanup, Finish
<1>t. /\ StoreTypes /\ ControlTypes /\ RegisterTypes /\ RequestOK(p)
      /\ pc[p] \in WriteSteps => Progress(p)
      /\ Fresh(p) /\ Smooth(p) /\ Adding(p) /\ ~StorageFault(p)
  BY DEF SafeInv, TypeOK, Types, RequestOK, WriteInv, InWrite, MapInv, GoneInv, StorageFault
<1>1. CASE \E c \in Calls : Begin(p, c)
  BY <1>1, <1>t DEF Begin, ControlTypes, RegisterTypes, Smooth
<1>2. CASE Acquire(p) \/ WaitForReaders(p) \/ Unlock(p)
  BY <1>2, <1>t DEF Acquire, Lock, RLock, RLockAgain, WaitForReaders, Unlock, FirstStep,
     ControlTypes, RegisterTypes, Smooth, NoCall
<1>3. CASE GetOld(p) \/ GetName(p) \/ PutName(p) \/ CacheName(p)
  BY <1>3, <1>t DEF GetOld, GetName, PutName, CacheName, ControlTypes, Smooth
<1>4. CASE PutKey(p)
  <2>1. /\ call[p].op = "CreateKey" /\ call[p].id \in Ids /\ keys[call[p].id] = None
        /\ UNCHANGED <<versions, call, out, code>> /\ pc'[p] = "getOldVersion"
        /\ pc[p] \in WriteSteps /\ pc[p] \notin {"unlock", "listGet"}
    BY <1>4, <1>t DEF PutKey, RequestOK, StepOK, ArgumentsOK, WriteOps, Fresh, ControlTypes,
       WriteSteps
  <2>2. ~Deleting(p, call[p].id)
    BY <1>4 DEF PutKey, Deleting
  <2>3. StoredVersions(call[p].id) = {}
    BY <2>1, <2>2, GoneAlone
  <2> QED BY <1>t, <2>1, <2>3 DEF Smooth, StoredVersions
<1>5. CASE GetOldVersion(p)
  <2>1. call[p].op = "CreateKey" => versions[call[p].id][call[p].ver] = None
    BY <1>5, <1>t DEF GetOldVersion, Smooth, StoredVersions, RequestOK, ArgumentsOK
  <2> QED BY <1>5, <1>t, <2>1 DEF GetOldVersion, Smooth, ControlTypes, StoredVersions
<1>6. CASE PutVersion(p)
  BY <1>6, <1>t DEF PutVersion, Smooth, ControlTypes, RequestOK, StepOK
<1>8. CASE AddGet(p)
  BY <1>8, <1>t DEF AddGet, Smooth, ControlTypes, RequestOK, StepOK
<1>9. CASE UpdGet(p)
  <2>1. call[p].op = "AddVersion" => keys[call[p].id] # None
                                     /\ keys[call[p].id].name = NewRecord(p).name
    BY <1>9, <1>t DEF UpdGet, RequestOK, RegistersOK, Adding, NewRecord
  <2> QED BY <1>9, <1>t, <2>1 DEF UpdGet, UpdateFailed, Smooth, ControlTypes, StoredVersions,
          RequestOK, StepOK
<1>10. CASE UpdPut(p) \/ UndoVersion(p)
  BY <1>10, <1>t DEF UpdPut, UndoVersion, Smooth, ControlTypes
<1>11. CASE Delete(p)
  BY <1>11, <1>t DEF Delete, DelGet, UncacheName, DelName, DelKey, ListVersions, DelVersion,
     Smooth, ControlTypes, RequestOK, StepOK
<1>12. CASE Read(p)
  <2>1. /\ pc'[p] \in {"getMapping", "cacheFill", "rlockAgain", "readVersion", "listGet", "unlock"}
        /\ call[p].op \in ReadOps /\ call'[p].op = call[p].op
        /\ pc'[p] # "unlock" => code'[p] = code[p] /\ pc[p] # "unlock"
        /\ pc'[p] \notin {"unlock", "listGet"} => out'[p] = out[p] /\ pc[p] \notin {"unlock", "listGet"}
    BY <1>12, <1>t DEF Read, CacheGet, GetMapping, CacheFill, ReadKey, ReadVersion, ListIds,
       ListGet, ControlTypes, RegisterTypes, RequestOK, StepOK, ReadOps
  <2> QED BY <1>t, <2>1 DEF Smooth, ReadOps
<1> QED BY <1>1, <1>2, <1>3, <1>4, <1>5, <1>6, <1>8, <1>9, <1>10, <1>11, <1>12, <1>t
        DEF Step, Proceed, Create, Write

\* ... and leaves the others going smoothly.
LEMMA SmoothOthers ==
    ASSUME SharedLock, SafeInv, NEW p \in Procs, Step(p), NEW q \in Procs, q # p, Smooth(q)
    PROVE  Smooth(q)'
<1>1. pc'[q] = pc[q] /\ call'[q] = call[q] /\ code'[q] = code[q] /\ out'[q] = out[q]
  BY Frame DEF SafeInv, OnlyMoves
<1>2. InWrite(q) => UNCHANGED store
  BY OnlyWriterWrites DEF SafeInv
<1> QED BY <1>1, <1>2 DEF Smooth, InWrite, WriteSteps, store, StoredVersions

\* The request that deletes a key keeps at it until no version is left.
LEMMA DeletingOwn ==
    ASSUME SafeInv, GoneInv, NEW p \in Procs, Step(p), NEW i \in Ids, Deleting(p, i)
    PROVE  StoredVersions(i)' = {} \/ Deleting(p, i)'
<1> USE DEF store, Goto, Return, Cleanup, Finish
<1>t. ControlTypes /\ Progress(p) /\ call[p].id = i /\ ~StorageFault(p)
  BY DEF SafeInv, TypeOK, Types, WriteInv, InWrite, WriteSteps, Deleting, GoneInv, StorageFault
<1>1. CASE ListVersions(p)
  BY <1>1, <1>t DEF ListVersions, ControlTypes, Deleting
<1>2. CASE DelVersion(p)
  <2>1. CASE todo[p] = {}
    BY <1>2, <1>t, <2>1 DEF DelVersion, Progress, StoredVersions
  <2>2. CASE todo[p] # {}
    BY <1>2, <1>t, <2>2 DEF DelVersion, ControlTypes, Deleting
  <2> QED BY <2>1, <2>2
<1>3. ListVersions(p) \/ DelVersion(p)
  BY <1>t DEF Deleting, Step, Begin, Acquire, Lock, RLock, RLockAgain, Proceed, WaitForReaders,
     Unlock, Create, GetOld, GetName, PutName, CacheName, PutKey, Write, GetOldVersion, PutVersion,
     AddGet, UpdGet, UpdPut, UndoVersion, Delete, DelGet, UncacheName, DelName, DelKey, Read,
     CacheGet, GetMapping, CacheFill, ReadKey, ReadVersion, ListIds, ListGet
<1> QED BY <1>1, <1>2, <1>3

\* Every step preserves that a key that is gone has no versions.
LEMMA GoneKept ==
    ASSUME SharedLock, SafeInv, GoneInv, NEW p \in Procs, Step(p), NEW i \in Ids, keys'[i] = None
    PROVE  StoredVersions(i)' = {} \/ \E q \in Procs : Deleting(q, i)'
<1> USE DEF store, Goto, Return, Cleanup, Finish
<1>t. /\ StoreTypes /\ ControlTypes /\ RegisterTypes /\ RequestOK(p) /\ Smooth(p)
      /\ pc[p] \in WriteSteps => Progress(p)
  BY DEF SafeInv, TypeOK, Types, RequestOK, GoneInv, WriteInv, InWrite
<1>1. CASE \E q \in Procs : Deleting(q, i)
  <2>1. ASSUME NEW q \in Procs, q # p, Deleting(q, i) PROVE Deleting(q, i)'
    <3>1. pc'[q] = pc[q] /\ call'[q] = call[q]
      BY <2>1, Frame DEF SafeInv, OnlyMoves
    <3> QED BY <2>1, <3>1 DEF Deleting
  <2> QED BY <1>1, <2>1, DeletingOwn
<1>2. CASE ~\E q \in Procs : Deleting(q, i)
  <2>o. keys[i] = None => StoredVersions(i) = {}
    BY <1>2 DEF GoneInv
  <2>1. CASE DelKey(p)
    <3>1. CASE call[p].id = i
      BY <1>t, <2>1, <3>1 DEF DelKey, RequestOK, StepOK, Smooth, ControlTypes, Deleting
    <3>2. CASE call[p].id # i
      BY <1>t, <2>o, <2>1, <3>2 DEF DelKey, StoreTypes, StoredVersions
    <3> QED BY <3>1, <3>2
  <2>2. CASE PutVersion(p)
    <3>1. keys[call[p].id] # None
      <4>1. CASE call[p].op = "CreateKey"
        <5>1. /\ keys[call[p].id] = [name |-> call[p].name, cur |-> call[p].ver]
              /\ call[p].name \in Names /\ call[p].ver \in Vers
          BY <1>t, <2>2, <4>1 DEF PutVersion, Progress, WriteSteps, RequestOK, RegistersOK,
             ArgumentsOK
        <5>2. keys[call[p].id] \in KeyRec
          BY <5>1 DEF KeyRec
        <5> QED BY <5>2, ConstantsAssumption
      <4>2. CASE call[p].op = "AddVersion"
        <5>1. snap[p] # None /\ pc[p] = "putVersion"
          BY <1>t, <2>2, <4>2 DEF PutVersion, RequestOK, RegistersOK
        <5>2. Adding(p)
          BY DEF GoneInv
        <5> QED BY <4>2, <5>1, <5>2 DEF Adding
      <4> QED BY <1>t, <2>2, <4>1, <4>2 DEF PutVersion, RequestOK, StepOK
    <3>2. i # call[p].id
      BY <1>t, <2>2, <3>1 DEF PutVersion
    <3> QED BY <1>t, <2>o, <2>2, <3>2 DEF PutVersion, StoreTypes, StoredVersions
  <2>3. CASE DelVersion(p)
    <3>1. call[p].id # i
      BY <1>2, <2>3 DEF DelVersion, Deleting
    <3>2. versions'[i] = versions[i] /\ keys' = keys
      BY <1>t, <2>3, <3>1 DEF DelVersion, StoreTypes
    <3> QED BY <2>o, <3>2 DEF StoredVersions
  <2>4. CASE PutName(p) \/ DelName(p)
    BY <2>4, <2>o DEF PutName, DelName, StoredVersions
  <2>5. CASE PutKey(p)
    <3>1. /\ versions' = versions
          /\ keys' = [keys EXCEPT ![call[p].id] = [name |-> call[p].name, cur |-> call[p].ver]]
          /\ call[p].name \in Names /\ call[p].ver \in Vers
      BY <1>t, <2>5 DEF PutKey, RequestOK, RegistersOK, StepOK, ArgumentsOK
    <3>2. [name |-> call[p].name, cur |-> call[p].ver] \in KeyRec
      BY <3>1 DEF KeyRec
    <3>3. keys[i] = None
      BY <1>t, <3>1, <3>2, ConstantsAssumption DEF StoreTypes
    <3> QED BY <2>o, <3>1, <3>3 DEF StoredVersions
  <2>6. CASE UpdPut(p)
    <3>1. keys[call[p].id] # None /\ versions' = versions
          /\ keys' = [keys EXCEPT ![call[p].id] = NewRecord(p)]
          /\ keys[call[p].id].name = NewRecord(p).name /\ call[p].id \in Ids /\ call[p].ver \in Vers
      BY <1>t, <2>6 DEF UpdPut, Progress, WriteSteps, RequestOK, StepOK, ArgumentsOK, WriteOps
    <3>2. NewRecord(p) = [name |-> keys[call[p].id].name, cur |-> call[p].ver]
      BY <3>1 DEF NewRecord
    <3>3. keys[call[p].id].name \in Names
      BY <1>t, <3>1 DEF StoreTypes, KeyRec
    <3>4. NewRecord(p) \in KeyRec
      BY <3>1, <3>2, <3>3 DEF KeyRec
    <3>5. keys[i] = None
      BY <1>t, <3>1, <3>4, ConstantsAssumption DEF StoreTypes
    <3> QED BY <2>o, <3>1, <3>5 DEF StoredVersions
  <2>7. CASE UNCHANGED <<keys, versions>>
    BY <2>7, <2>o DEF StoredVersions
  <2>8. ~UndoVersion(p)
    BY <1>t DEF UndoVersion, Smooth
  <2> QED BY <2>1, <2>2, <2>3, <2>4, <2>5, <2>6, <2>7, <2>8, StoreSteps, VersionSteps
<1> QED BY <1>1, <1>2

\* Every step preserves the invariant.
LEMMA GoneStep ==
    ASSUME SharedLock, SafeInv, MapInv, GoneInv, NEW p \in Procs, Step(p)
    PROVE  GoneInv'
<1>1. faults' = 0
  BY FaultSteps DEF GoneInv, StorageFault
<1>2. ASSUME NEW q \in Procs PROVE Smooth(q)' /\ Adding(q)'
  BY SmoothKept, SmoothOthers, AddingKept, AddingOthers DEF GoneInv
<1>3. ASSUME NEW i \in Ids, keys'[i] = None
      PROVE  StoredVersions(i)' = {} \/ \E q \in Procs : Deleting(q, i)'
  BY <1>3, GoneKept
<1> QED BY <1>1, <1>2, <1>3 DEF GoneInv

-----------------------------------------------------------------------------
(* What a read knows of the store.                                         *)

StoredIds == {i \in Ids : keys[i] # None}

\* What a read method has found so far is what the store says, since no write
\* is under way.
Reading(p) ==
    /\ call[p].op = "GetKeyByName" /\ pc[p] \in {"cacheFill", "rlockAgain", "readKey"} =>
         nameToID[call[p].name] = call[p].id
    /\ call[p].op = "GetKeyByName" /\ pc[p] \in {"getMapping", "cacheFill", "rlockAgain", "readKey"} =>
         call[p].name \in Names
    /\ call[p].op = "GetVersion" /\ pc[p] = "readKey" => call[p].ver = 0
    /\ pc[p] = "readVersion" /\ snap[p] = None => call[p].op = "GetVersion" /\ call[p].ver # 0
    /\ pc[p] = "readVersion" /\ snap[p] # None =>
         keys[call[p].id] = snap[p] /\ (call[p].op = "GetVersion" => call[p].ver = 0)
    /\ pc[p] = "listGet" =>
         /\ todo[p] \subseteq StoredIds
         /\ out[p] = {KeyResult(i, keys[i]) : i \in StoredIds \ todo[p]}

ReadInv == \A p \in Procs : Reading(p)

LEMMA ReadInit == Init => ReadInv
  BY DEF Init, ReadInv, Reading, NoCall

\* A hit in the cache is what the mapping in storage says.
LEMMA HitIsMapped ==
    ASSUME SafeInv, CacheInv, NEW p \in Procs, NEW n \in Names, Has(cache[RepoOf[p]], n)
    PROVE  nameToID[n] = Value(cache[RepoOf[p]], n)
<1> DEFINE c == cache[RepoOf[p]]
<1>1. RepoOf[p] \in Repos /\ c \in Seq(Entries(Names, Ids)) /\ DistinctKeys(c)
  BY ConstantsAssumption DEF SafeInv, TypeOK, Types, StoreTypes
<1>2. Agrees(c)
  BY <1>1 DEF CacheInv
<1>3. Position(c, n) \in 1..Len(c) /\ c[Position(c, n)].key = n
  BY DEF Has, Position
<1>4. Value(c, n) = c[Position(c, n)].value
  BY DEF Value
<1> HIDE DEF c
<1>5. nameToID[n] = Value(c, n)
  BY <1>2, <1>3, <1>4 DEF Agrees
<1> QED BY <1>5 DEF c

\* A reader leaves the stores alone and keeps others from writing.
LEMMA ReadersAlone ==
    ASSUME SharedLock, SafeInv, NEW p \in Procs, pc[p] \in ReadSteps, NEW q \in Procs
    PROVE  ~InWrite(q)
  BY WriterAlone, Exclusion DEF SafeInv, SharedLock, LockInv, InRead, InWrite, ReadSteps, WriteSteps

\* A step of p keeps what p knows of the store ...
LEMMA ReadingKept ==
    ASSUME SharedRepo, SafeInv, CacheInv, GoneInv, NEW p \in Procs, Reading(p), Step(p)
    PROVE  Reading(p)'
<1> USE ConstantsAssumption DEF store, Goto, Return, Cleanup, Finish
<1>t. /\ StoreTypes /\ ControlTypes /\ RegisterTypes /\ RequestOK(p) /\ Smooth(p)
      /\ ~StorageFault(p)
  BY DEF SafeInv, TypeOK, Types, RequestOK, GoneInv, StorageFault
<1>1. CASE (\E c \in Calls : Begin(p, c)) \/ Lock(p) \/ Unlock(p)
  BY <1>1, <1>t DEF Begin, Lock, Unlock, ControlTypes, Reading
<1>2. CASE RLock(p) \/ RLockAgain(p) \/ WaitForReaders(p)
  BY <1>2, <1>t DEF RLock, RLockAgain, WaitForReaders, FirstStep, ControlTypes, RequestOK, StepOK,
     RegistersOK, Reading, ReadOps, WriteOps
<1>3. CASE Create(p)
  BY <1>3, <1>t DEF Create, GetOld, GetName, PutName, CacheName, PutKey, ControlTypes, Reading
<1>4. CASE Write(p)
  BY <1>4, <1>t DEF Write, GetOldVersion, PutVersion, AddGet, UpdGet, UpdateFailed, UpdPut,
     UndoVersion, ControlTypes, Reading
<1>5. CASE Delete(p)
  BY <1>5, <1>t, ZenonT(40) DEF Delete, DelGet, UncacheName, DelName, DelKey, ListVersions, DelVersion,
     ControlTypes, Reading
<1>6. CASE CacheGet(p)
  <2>1. CASE call[p].name # EmptyName /\ Has(cache[RepoOf[p]], call[p].name)
    <3> DEFINE w == Value(cache[RepoOf[p]], call[p].name)
    <3>1. call[p].op = "GetKeyByName" /\ call[p].name \in Names
      BY <1>6, <1>t, <2>1 DEF CacheGet, RequestOK, StepOK, ArgumentsOK
    <3>2. nameToID[call[p].name] = w
      BY <2>1, <3>1, HitIsMapped
    <3>3. /\ call' = [call EXCEPT ![p].id = w] /\ pc'[p] = "rlockAgain"
          /\ UNCHANGED nameToID
      BY <1>6, <1>t, <2>1 DEF CacheGet, ControlTypes
    <3>4. call'[p].id = w /\ call'[p].name = call[p].name /\ call'[p].op = call[p].op
      BY <1>t, <3>3 DEF RegisterTypes
    <3> QED BY <3>1, <3>2, <3>3, <3>4 DEF Reading
  <2>2. CASE ~(call[p].name # EmptyName /\ Has(cache[RepoOf[p]], call[p].name))
    <3>1. pc'[p] \in {"unlock", "getMapping"} /\ call' = call
      BY <1>6, <1>t, <2>2 DEF CacheGet, ControlTypes
    <3>2. pc'[p] = "getMapping" => call[p].name # EmptyName
      BY <1>6, <1>t, <2>2 DEF CacheGet, ControlTypes
    <3>3. call[p].name \in Names \cup {EmptyName}
      BY <1>6, <1>t DEF CacheGet, RequestOK, StepOK, ArgumentsOK
    <3> QED BY <3>1, <3>2, <3>3 DEF Reading
  <2> QED BY <2>1, <2>2
<1>7. CASE GetMapping(p)
  <2>1. CASE nameToID[call[p].name] = None
    BY <1>7, <1>t, <2>1 DEF GetMapping, ControlTypes, Reading
  <2>2. CASE nameToID[call[p].name] # None
    <3>1. /\ call' = [call EXCEPT ![p].id = nameToID[call[p].name]] /\ pc'[p] = "cacheFill"
          /\ UNCHANGED nameToID /\ call[p].op = "GetKeyByName" /\ call[p].name \in Names
      BY <1>7, <1>t, <2>2 DEF GetMapping, ControlTypes, RequestOK, StepOK, Reading
    <3>2. call'[p].id = nameToID[call[p].name] /\ call'[p].name = call[p].name
      BY <1>t, <3>1 DEF RegisterTypes
    <3> QED BY <3>1, <3>2 DEF Reading
  <2> QED BY <2>1, <2>2
<1>8. CASE CacheFill(p)
  BY <1>8, <1>t DEF CacheFill, ControlTypes, Reading
<1>9. CASE ReadKey(p)
  BY <1>9, <1>t DEF ReadKey, ControlTypes, RegisterTypes, Reading, RequestOK, StepOK, ReadOps
<1>10. CASE ReadVersion(p)
  BY <1>10, <1>t DEF ReadVersion, ControlTypes, Reading
<1>11. CASE ListIds(p)
  <2>1. /\ todo'[p] = StoredIds /\ pc'[p] = "listGet" /\ UNCHANGED keys /\ out'[p] = {}
    BY <1>11, <1>t DEF ListIds, ControlTypes, RegisterTypes, StoredIds, Smooth
  <2>2. StoredIds' = StoredIds
    BY <2>1 DEF StoredIds
  <2> QED BY <2>1, <2>2 DEF Reading
<1>12. CASE ListGet(p)
  <2>1. CASE todo[p] = {}
    BY <1>12, <1>t, <2>1 DEF ListGet, ControlTypes, Reading
  <2>2. CASE todo[p] # {}
    <3>1. PICK j \in todo[p] : /\ out' = [out EXCEPT ![p] = @ \cup {KeyResult(j, keys[j])}]
                               /\ todo' = [todo EXCEPT ![p] = @ \ {j}]
                               /\ pc' = [pc EXCEPT ![p] = "listGet"]
      BY <1>12, <2>2 DEF ListGet, Reading, StoredIds
    <3>2. UNCHANGED <<keys, call, snap>>
      BY <1>12 DEF ListGet
    <3>3. /\ todo[p] \subseteq StoredIds
          /\ out[p] = {KeyResult(i, keys[i]) : i \in StoredIds \ todo[p]}
      BY <1>12 DEF ListGet, Reading
    <3>4. out'[p] = out[p] \cup {KeyResult(j, keys[j])} /\ todo'[p] = todo[p] \ {j}
          /\ pc'[p] = "listGet"
      BY <1>t, <3>1 DEF RegisterTypes, ControlTypes
    <3>5. out'[p] = {KeyResult(i, keys[i]) : i \in StoredIds \ todo'[p]}
      BY <3>3, <3>4
    <3>6. StoredIds' = StoredIds /\ \A i : keys'[i] = keys[i]
      BY <3>2 DEF StoredIds
    <3> QED BY <3>2, <3>3, <3>4, <3>5, <3>6 DEF Reading
  <2> QED BY <2>1, <2>2
<1> QED BY <1>1, <1>2, <1>3, <1>4, <1>5, <1>6, <1>7, <1>8, <1>9, <1>10, <1>11, <1>12, <1>t
        DEF Step, Proceed, Acquire, Read

\* ... and what the others know.
LEMMA ReadingOthers ==
    ASSUME SharedLock, SafeInv, NEW p \in Procs, Step(p), NEW q \in Procs, q # p, Reading(q)
    PROVE  Reading(q)'
<1>1. pc'[q] = pc[q] /\ call'[q] = call[q] /\ snap'[q] = snap[q] /\ out'[q] = out[q]
      /\ todo'[q] = todo[q]
  BY Frame DEF SafeInv, OnlyMoves
<1>2. CASE pc[q] \in ReadSteps
  <2>1. ~InWrite(p)
    BY <1>2, ReadersAlone
  <2>2. UNCHANGED store
    BY <2>1, StoreSteps, VersionSteps DEF InWrite, WriteSteps, PutName, PutKey, UpdPut, DelName,
       DelKey, PutVersion, UndoVersion, DelVersion, store
  <2> QED BY <1>1, <2>2 DEF Reading, StoredIds, store
<1>3. CASE pc[q] \notin ReadSteps
  BY <1>1, <1>3 DEF Reading, ReadSteps
<1> QED BY <1>2, <1>3

-----------------------------------------------------------------------------
(* The implementation's registers as the abstract repository's.            *)

StatusOf(p) == CASE pc[p] = "idle" -> "idle"
                 [] pc[p] \in {"unlock", "listVersions", "delVersion"} -> "done"
                 [] OTHER -> "called"

CallOf(p) == IF call[p].op = "GetKeyByName" THEN [call[p] EXCEPT !.id = None] ELSE call[p]
CodeOf(p) == IF StatusOf(p) = "done" THEN code[p] ELSE "ok"
OutOf(p)  == IF StatusOf(p) = "done" THEN out[p] ELSE {}

\* They are those of the mapping ...
LEMMA Registers ==
    /\ Status = [q \in Procs |-> StatusOf(q)] /\ VisibleCall = [q \in Procs |-> CallOf(q)]
    /\ VisibleCode = [q \in Procs |-> CodeOf(q)] /\ VisibleOut = [q \in Procs |-> OutOf(q)]
<1>1. \A q \in Procs : Status[q] = StatusOf(q)
  BY DEF Status, StatusOf
<1>2. Status = [q \in Procs |-> StatusOf(q)]
  BY <1>1 DEF Status
<1> QED BY <1>1, <1>2 DEF VisibleCall, CallOf, VisibleCode, CodeOf, VisibleOut, OutOf

\* ... and a step of p changes those of p only.
LEMMA OnlyMine ==
    ASSUME TypeOK, NEW p \in Procs, Step(p), NEW q \in Procs, q # p
    PROVE  /\ StatusOf(q)' = StatusOf(q) /\ CallOf(q)' = CallOf(q)
           /\ CodeOf(q)' = CodeOf(q) /\ OutOf(q)' = OutOf(q)
<1>1. pc'[q] = pc[q] /\ call'[q] = call[q] /\ code'[q] = code[q] /\ out'[q] = out[q]
  BY Frame DEF OnlyMoves
<1> QED BY <1>1 DEF StatusOf, CallOf, CodeOf, OutOf

LEMMA RegistersNext ==
    ASSUME TypeOK, NEW p \in Procs, Step(p)
    PROVE  /\ Status' = [Status EXCEPT ![p] = StatusOf(p)']
           /\ VisibleCall' = [VisibleCall EXCEPT ![p] = CallOf(p)']
           /\ VisibleCode' = [VisibleCode EXCEPT ![p] = CodeOf(p)']
           /\ VisibleOut' = [VisibleOut EXCEPT ![p] = OutOf(p)']
<1>1. /\ Status' = [q \in Procs |-> StatusOf(q)'] /\ VisibleCall' = [q \in Procs |-> CallOf(q)']
      /\ VisibleCode' = [q \in Procs |-> CodeOf(q)'] /\ VisibleOut' = [q \in Procs |-> OutOf(q)']
  <2>1. \A q \in Procs : Status'[q] = StatusOf(q)'
    BY DEF Status, StatusOf
  <2>2. Status' = [q \in Procs |-> StatusOf(q)']
    BY <2>1 DEF Status
  <2> QED BY <2>1, <2>2 DEF VisibleCall, CallOf, VisibleCode, CodeOf, VisibleOut, OutOf
<1> QED BY <1>1, Registers, OnlyMine

\* A step that leaves them and the visible stores alone is a stutter.
LEMMA Stutters ==
    ASSUME TypeOK, NEW p \in Procs, Step(p), StatusOf(p)' = StatusOf(p), CallOf(p)' = CallOf(p),
           CodeOf(p)' = CodeOf(p), OutOf(p)' = OutOf(p), UNCHANGED <<VisibleKeys, VisibleVersions>>
    PROVE  Abstract!vars' = Abstract!vars
<1>1. Status' = Status /\ VisibleCall' = VisibleCall /\ VisibleCode' = VisibleCode
      /\ VisibleOut' = VisibleOut
  BY Registers, RegistersNext
<1> QED BY <1>1 DEF Abstract!vars

\* A call is answered when it reaches its end.
LEMMA Answers ==
    ASSUME TypeOK, NEW p \in Procs, Step(p), StatusOf(p) = "called", StatusOf(p)' = "done",
           CallOf(p)' = CallOf(p), NEW c, NEW r, c = code'[p], r = out'[p]
    PROVE  Abstract!Answer(p, c, r)
<1>1. CodeOf(p)' = c /\ OutOf(p)' = r
  BY DEF CodeOf, OutOf
<1>2. VisibleCall' = VisibleCall
  BY Registers, RegistersNext
<1>3. Status[p] = "called"
  BY Registers
<1> QED BY <1>1, <1>2, <1>3, RegistersNext DEF Abstract!Answer

-----------------------------------------------------------------------------
(* The visible stores.                                                     *)

Creates(p, i) ==
    /\ call[p].op = "CreateKey" /\ call[p].id = i
    /\ pc[p] \in {"getOldVersion", "putVersion", "delGet", "uncacheName", "delName", "delKey"}

Adds(p, i, v) ==
    /\ call[p].op = "AddVersion" /\ call[p].id = i /\ call[p].ver = v
    /\ pc[p] \in {"updGet", "updPut", "undoVersion"}

\* The stores without what request p hides.
KeysBut(p) == [i \in Ids |-> IF Creates(p, i) THEN None ELSE keys[i]]
VersionsBut(p) ==
    [i \in Ids |-> [v \in Vers |->
        IF KeysBut(p)[i] = None \/ Adds(p, i, v) THEN None ELSE versions[i][v]]]

\* A request in a write is the only one that hides anything.
LEMMA WriterView ==
    ASSUME SharedLock, SafeInv, NEW p \in Procs, Step(p), pc[p] \in WriteSteps
    PROVE  /\ VisibleKeys = KeysBut(p) /\ VisibleKeys' = KeysBut(p)'
           /\ VisibleVersions = VersionsBut(p) /\ VisibleVersions' = VersionsBut(p)'
<1>1. \A q \in Procs \ {p} : pc[q] \notin WriteSteps /\ pc'[q] = pc[q]
  BY NobodyElse, Frame DEF SafeInv, OnlyMoves
<1>2. ASSUME NEW i \in Ids
      PROVE  (BeingCreated(i) <=> Creates(p, i)) /\ (BeingCreated(i)' <=> Creates(p, i)')
  BY <1>1 DEF BeingCreated, Creates, WriteSteps
<1>3. ASSUME NEW i \in Ids, NEW v \in Vers
      PROVE  (BeingAdded(i, v) <=> Adds(p, i, v)) /\ (BeingAdded(i, v)' <=> Adds(p, i, v)')
  BY <1>1 DEF BeingAdded, Adds, WriteSteps
<1>4. VisibleKeys = KeysBut(p) /\ VisibleKeys' = KeysBut(p)'
  BY <1>2 DEF VisibleKeys, KeysBut
<1>5. VisibleVersions = VersionsBut(p)
  BY <1>3, <1>4 DEF VisibleVersions, VersionsBut
<1>6. VisibleVersions' = VersionsBut(p)'
  BY <1>3, <1>4 DEF VisibleVersions, VersionsBut
<1> QED BY <1>4, <1>5, <1>6

\* A write that leaves the stores, and what it hides of them, shows nothing ...
LEMMA WriterHides ==
    ASSUME SharedLock, SafeInv, NEW p \in Procs, Step(p), pc[p] \in WriteSteps,
           UNCHANGED <<keys, versions>>,
           \A i \in Ids : Creates(p, i)' <=> Creates(p, i),
           \A i \in Ids, v \in Vers : Adds(p, i, v)' <=> Adds(p, i, v)
    PROVE  UNCHANGED <<VisibleKeys, VisibleVersions>>
<1>1. KeysBut(p)' = KeysBut(p)
  BY DEF KeysBut
<1>2. VersionsBut(p)' = VersionsBut(p)
  BY <1>1 DEF VersionsBut
<1> QED BY <1>1, <1>2, WriterView

\* ... and what it does not hide is seen as it is.
LEMMA WriterSees ==
    ASSUME SharedLock, SafeInv, NEW p \in Procs, Step(p), pc[p] \in WriteSteps,
           \A i \in Ids : ~Creates(p, i)
    PROVE  /\ VisibleKeys = keys
           /\ \A i \in Ids, v \in Vers : keys[i] # None /\ ~Adds(p, i, v) =>
                VisibleVersions[i][v] = versions[i][v]
<1>1. StoreTypes
  BY DEF SafeInv, TypeOK, Types
<1>2. VisibleKeys = KeysBut(p) /\ VisibleVersions = VersionsBut(p)
  BY WriterView
<1>3. KeysBut(p) = keys
  BY <1>1 DEF KeysBut, StoreTypes
<1> QED BY <1>2, <1>3 DEF VersionsBut

\* Outside a write nothing changes in the visible stores ...
LEMMA QuietView ==
    ASSUME SafeInv, NEW p \in Procs, Step(p), pc[p] \notin WriteSteps
    PROVE  UNCHANGED <<VisibleKeys, VisibleVersions>>
<1>t. ControlTypes /\ RequestOK(p)
  BY DEF SafeInv, TypeOK, Types, RequestOK
<1>1. UNCHANGED <<keys, versions>>
  BY StoreSteps, VersionSteps DEF WriteSteps, PutName, PutKey, UpdPut, DelName,
     DelKey, PutVersion, UndoVersion, DelVersion
<1>2. \A q \in Procs \ {p} : pc'[q] = pc[q] /\ call'[q] = call[q]
  BY Frame DEF SafeInv, OnlyMoves
<1>3. \A i, v : ~Creates(p, i) /\ ~Adds(p, i, v)
  BY DEF Creates, Adds, WriteSteps
<1>4. ~(call'[p].op = "CreateKey" /\ pc'[p] \in {"getOldVersion", "putVersion", "delGet",
                                               "uncacheName", "delName", "delKey"})
      /\ ~(call'[p].op = "AddVersion" /\ pc'[p] \in {"updGet", "updPut", "undoVersion"})
  <2> USE DEF Goto, Return, Cleanup, Finish, WriteSteps
  <2>1. CASE (\E c \in Calls : Begin(p, c)) \/ Acquire(p) \/ Unlock(p)
    BY <2>1, <1>t DEF Begin, Acquire, Lock, RLock, RLockAgain, Unlock, FirstStep, ControlTypes,
       RequestOK, StepOK, ReadOps
  <2>2. CASE WaitForReaders(p)
    BY <2>2, <1>t DEF WaitForReaders, FirstStep, ControlTypes
  <2>3. CASE Create(p) \/ Write(p) \/ Delete(p)
    BY <2>3 DEF Create, GetOld, GetName, PutName, CacheName, PutKey, Write, GetOldVersion,
       PutVersion, AddGet, UpdGet, UpdPut, UndoVersion, Delete, DelGet, UncacheName, DelName,
       DelKey, ListVersions, DelVersion
  <2>4. CASE Read(p)
    BY <2>4, <1>t DEF Read, CacheGet, GetMapping, CacheFill, ReadKey, ReadVersion, ListIds, ListGet,
       ControlTypes
  <2>5. CASE StorageFault(p)
    BY <2>5, <1>t DEF StorageFault, AfterFault, ControlTypes, StorageSteps
  <2> QED BY <2>1, <2>2, <2>3, <2>4, <2>5 DEF Step, Proceed
<1>5. ASSUME NEW i \in Ids PROVE BeingCreated(i)' <=> BeingCreated(i)
  BY <1>2, <1>3, <1>4 DEF BeingCreated, Creates
<1>6. ASSUME NEW i \in Ids, NEW v \in Vers PROVE BeingAdded(i, v)' <=> BeingAdded(i, v)
  BY <1>2, <1>3, <1>4 DEF BeingAdded, Adds
<1>7. VisibleKeys' = VisibleKeys
  BY <1>1, <1>5 DEF VisibleKeys
<1> QED BY <1>1, <1>6, <1>7 DEF VisibleVersions

\* ... which a read sees as they are.
LEMMA ReaderView ==
    ASSUME SharedLock, SafeInv, GoneInv, NEW p \in Procs, pc[p] \in ReadSteps
    PROVE  VisibleKeys = keys /\ VisibleVersions = versions
<1>1. ASSUME NEW q \in Procs PROVE pc[q] \notin WriteSteps
  BY ReadersAlone DEF InWrite
<1>2. ASSUME NEW i \in Ids PROVE ~BeingCreated(i)
  BY <1>1 DEF BeingCreated, WriteSteps
<1>3. ASSUME NEW i \in Ids, NEW v \in Vers PROVE ~BeingAdded(i, v)
  BY <1>1 DEF BeingAdded, WriteSteps
<1>4. StoreTypes
  BY DEF SafeInv, TypeOK, Types
<1>5. VisibleKeys = keys
  BY <1>2, <1>4 DEF VisibleKeys, StoreTypes
<1>6. ASSUME NEW i \in Ids, keys[i] = None, NEW v \in Vers PROVE versions[i][v] = None
  <2>1. \A q \in Procs : ~Deleting(q, i)
    BY <1>1 DEF Deleting, WriteSteps
  <2> QED BY <1>6, <2>1 DEF GoneInv, StoredVersions
<1>7. VisibleVersions = versions
  BY <1>3, <1>4, <1>5, <1>6 DEF VisibleVersions, StoreTypes
<1> QED BY <1>5, <1>7

-----------------------------------------------------------------------------
(* Step by step.                                                           *)

CallInv == SafeInv /\ NameInv /\ MapInv /\ CacheInv /\ GoneInv /\ ReadInv

AbstractStep == Abstract!Next \/ Abstract!vars' = Abstract!vars

\* A call that is still under way, with the visible stores as before.
LEMMA GoesOn ==
    ASSUME TypeOK, NEW p \in Procs, Step(p), StatusOf(p) = "called", StatusOf(p)' = "called",
           CallOf(p)' = CallOf(p), UNCHANGED <<VisibleKeys, VisibleVersions>>
    PROVE  AbstractStep
<1>1. CodeOf(p)' = CodeOf(p) /\ OutOf(p)' = OutOf(p)
  BY DEF CodeOf, OutOf
<1> QED BY <1>1, Stutters DEF AbstractStep

\* A call that ends without result, with the visible stores as before.
LEMMA Refuses ==
    ASSUME TypeOK, NEW p \in Procs, Step(p), StatusOf(p) = "called", StatusOf(p)' = "done",
           CallOf(p)' = CallOf(p), NEW c, c = code'[p], out'[p] = {},
           UNCHANGED <<VisibleKeys, VisibleVersions>>
    PROVE  Abstract!Refuse(p, c)
  BY Answers DEF Abstract!Refuse

\* What is known of a request inside a write.
LEMMA WriterFacts ==
    ASSUME CallInv, NEW p \in Procs, Step(p), pc[p] \in WriteSteps
    PROVE  /\ TypeOK /\ StoreTypes /\ ControlTypes /\ RegisterTypes /\ RequestOK(p) /\ Progress(p)
           /\ Fresh(p) /\ PutKeyFailed(p) /\ Smooth(p) /\ Adding(p) /\ ~StorageFault(p)
           /\ call[p].op \in WriteOps /\ call[p].id \in Ids /\ VisibleCall[p] = call[p]
           /\ call' = call => CallOf(p)' = CallOf(p)
           /\ code[p] = "ok" /\ out[p] = {}
<1>1. /\ TypeOK /\ StoreTypes /\ ControlTypes /\ RegisterTypes /\ RequestOK(p) /\ Progress(p)
      /\ Fresh(p) /\ PutKeyFailed(p) /\ Smooth(p) /\ Adding(p) /\ ~StorageFault(p)
  BY DEF CallInv, SafeInv, TypeOK, Types, RequestOK, MapInv, WriteInv, InWrite, GoneInv,
     StorageFault
<1>2. call[p].op \in WriteOps
  BY <1>1, Sections DEF RequestOK
<1>3. call[p].id \in Ids
  BY <1>1, <1>2 DEF RequestOK, ArgumentsOK, WriteOps
<1>4. CallOf(p) = call[p] /\ (call' = call => CallOf(p)' = CallOf(p))
  BY <1>2 DEF CallOf, WriteOps
<1>5. VisibleCall[p] = call[p]
  BY <1>4, Registers
<1>6. code[p] = "ok" /\ out[p] = {}
  BY <1>1 DEF Smooth, WriteSteps
<1> QED BY <1>1, <1>2, <1>3, <1>4, <1>5, <1>6

\* A mapped name is, at a step that no mapping is at work on, a stored key's.
LEMMA NamedKey ==
    ASSUME SharedLock, CallInv, NEW p \in Procs, pc[p] = "getName", NEW n \in Names,
           nameToID[n] # None
    PROVE  Owned(n)
<1>1. ASSUME NEW q \in Procs PROVE ~Mapping(q, n)
  BY NobodyElse DEF CallInv, Mapping, WriteSteps
<1> QED BY <1>1 DEF CallInv, MapInv

\* CreateKey's checks refuse what the abstract repository refuses.
LEMMA CreateChecks ==
    ASSUME SharedLock, CallInv, NEW p \in Procs, Step(p), GetOld(p) \/ GetName(p)
    PROVE  AbstractStep
<1> USE DEF store, Goto, Return
<1>w. pc[p] \in WriteSteps
  BY DEF GetOld, GetName, WriteSteps
<1>t. /\ TypeOK /\ StoreTypes /\ ControlTypes /\ RegisterTypes /\ RequestOK(p)
      /\ call[p].id \in Ids /\ VisibleCall[p] = call[p] /\ Fresh(p)
      /\ call' = call => CallOf(p)' = CallOf(p)
      /\ code[p] = "ok" /\ out[p] = {}
  BY <1>w, WriterFacts
<1>1. /\ pc[p] \in {"getOld", "getName"} /\ pc'[p] \in {"getName", "putName", "unlock"}
      /\ UNCHANGED <<keys, versions, call, out>> /\ call[p].op = "CreateKey"
  BY <1>t DEF GetOld, GetName, ControlTypes, RequestOK, StepOK
<1>n. call[p].name \in Names \cup {EmptyName}
  BY <1>t, <1>1 DEF RequestOK, ArgumentsOK
<1>2. /\ StatusOf(p) = "called" /\ StatusOf(p)' = IF pc'[p] = "unlock" THEN "done" ELSE "called"
      /\ CallOf(p)' = CallOf(p) /\ out'[p] = {}
  BY <1>t, <1>1 DEF StatusOf
<1>3. \A i, v : ~Creates(p, i) /\ ~Creates(p, i)' /\ ~Adds(p, i, v) /\ ~Adds(p, i, v)'
  BY <1>1 DEF Creates, Adds
<1>4. VisibleKeys = keys /\ UNCHANGED <<VisibleKeys, VisibleVersions>>
  BY <1>w, <1>1, <1>3, WriterHides, WriterSees DEF CallInv
<1>5. CASE pc'[p] # "unlock"
  BY <1>t, <1>2, <1>4, <1>5, GoesOn
<1>6. CASE pc'[p] = "unlock"
  <2> DEFINE i == call[p].id
             n == call[p].name
  <2>1. Abstract!Refuse(p, code'[p])
    BY <1>t, <1>2, <1>4, <1>6, Refuses
  <2>2. \/ code'[p] = "AlreadyExists" /\ keys[i] # None
        \/ code'[p] = "InvalidArgument" /\ keys[i] = None /\ n = EmptyName
        \/ code'[p] = "AlreadyExists" /\ \E j \in Ids : keys[j] # None /\ keys[j].name = n
    <3>1. CASE GetOld(p)
      BY <1>t, <1>6, <3>1 DEF GetOld, ControlTypes
    <3>2. CASE GetName(p) /\ n = EmptyName
      <4>1. keys[i] = None
        BY <1>t, <3>2 DEF GetName, Fresh
      <4>2. code'[p] = "InvalidArgument"
        BY <1>t, <3>2, ConstantsAssumption DEF GetName, ControlTypes
      <4> QED BY <3>2, <4>1, <4>2
    <3>3. CASE GetName(p) /\ n # EmptyName
      <4>1. n \in Names /\ nameToID[n] # None /\ code'[p] = "AlreadyExists" /\ pc[p] = "getName"
        BY <1>n, <1>t, <1>6, <3>3 DEF GetName, ControlTypes
      <4>2. Owned(n)
        BY <4>1, NamedKey
      <4>3. nameToID[n] \in Ids
        BY <1>t, <4>1 DEF StoreTypes
      <4> QED BY <4>1, <4>2, <4>3 DEF Owned
    <3> QED BY <3>1, <3>2, <3>3
  <2>3. Abstract!CreateKey(p)
    BY <1>t, <1>1, <1>4, <2>1, <2>2 DEF Abstract!CreateKey, Abstract!Stored, Abstract!Named
  <2> QED BY <2>3 DEF AbstractStep, Abstract!Next
<1> QED BY <1>5, <1>6

\* While it writes the mapping and the record, CreateKey shows nothing.
LEMMA CreateHides ==
    ASSUME SharedLock, CallInv, NEW p \in Procs, Step(p), PutName(p) \/ CacheName(p) \/ PutKey(p)
    PROVE  AbstractStep
<1> USE DEF store, Goto
<1>w. pc[p] \in WriteSteps
  BY DEF PutName, CacheName, PutKey, WriteSteps
<1>t. /\ TypeOK /\ StoreTypes /\ ControlTypes /\ RequestOK(p) /\ Fresh(p)
      /\ call[p].id \in Ids /\ (call' = call => CallOf(p)' = CallOf(p))
  BY <1>w, WriterFacts
<1>1. /\ StatusOf(p) = "called" /\ StatusOf(p)' = "called" /\ call' = call
      /\ versions' = versions /\ call[p].op = "CreateKey"
      /\ pc[p] \in {"putName", "cacheName", "putKey"}
  BY <1>t DEF PutName, CacheName, PutKey, StatusOf, ControlTypes, RequestOK, StepOK
<1>2. \A i, v : ~Creates(p, i) /\ ~Adds(p, i, v) /\ ~Adds(p, i, v)'
  BY <1>1 DEF Creates, Adds
<1>3. CASE PutName(p) \/ CacheName(p)
  <2>1. keys' = keys /\ \A i : ~Creates(p, i)'
    BY <1>t, <1>3 DEF PutName, CacheName, Creates, ControlTypes
  <2>2. UNCHANGED <<VisibleKeys, VisibleVersions>>
    BY <1>w, <1>1, <1>2, <2>1, WriterHides DEF CallInv
  <2> QED BY <1>t, <1>1, <2>2, GoesOn
<1>4. CASE PutKey(p)
  <2>1. /\ keys[call[p].id] = None /\ \A i : Creates(p, i)' <=> i = call[p].id
        /\ keys' = [keys EXCEPT ![call[p].id] = [name |-> call[p].name, cur |-> call[p].ver]]
    BY <1>t, <1>1, <1>4 DEF PutKey, Fresh, Creates, ControlTypes
  <2>2. KeysBut(p)' = KeysBut(p)
    <3>1. ASSUME NEW i \in Ids PROVE KeysBut(p)'[i] = KeysBut(p)[i]
      BY <1>t, <1>2, <2>1 DEF KeysBut, StoreTypes
    <3> QED BY <3>1 DEF KeysBut
  <2>3. VersionsBut(p)' = VersionsBut(p)
    BY <1>1, <1>2, <2>2 DEF VersionsBut
  <2> QED BY <1>w, <1>t, <1>1, <2>2, <2>3, WriterView, GoesOn DEF CallInv
<1> QED BY <1>3, <1>4

\* The initial version is not there; a version that is there is refused.
LEMMA VersionChecks ==
    ASSUME SharedLock, CallInv, NEW p \in Procs, Step(p), GetOldVersion(p)
    PROVE  AbstractStep
<1> USE DEF store, Goto, Return, Cleanup
<1>w. pc[p] = "getOldVersion" /\ pc[p] \in WriteSteps
  BY DEF GetOldVersion, WriteSteps
<1>t. /\ TypeOK /\ StoreTypes /\ ControlTypes /\ RequestOK(p) /\ Smooth(p) /\ Adding(p)
      /\ call[p].id \in Ids /\ VisibleCall[p] = call[p] /\ out[p] = {}
      /\ call' = call => CallOf(p)' = CallOf(p)
  BY <1>w, WriterFacts
<1>1. /\ UNCHANGED <<keys, versions, call, out>> /\ call[p].op \in {"CreateKey", "AddVersion"}
      /\ call[p].ver \in Vers
  BY <1>w, <1>t DEF GetOldVersion, RequestOK, StepOK, ArgumentsOK
<1>2. CASE versions[call[p].id][call[p].ver] = None
  <2>1. pc'[p] = "putVersion"
    BY <1>t, <1>2 DEF GetOldVersion, ControlTypes
  <2>2. UNCHANGED <<VisibleKeys, VisibleVersions>>
    BY <1>w, <1>1, <2>1, WriterHides DEF CallInv, Creates, Adds
  <2>3. StatusOf(p) = "called" /\ StatusOf(p)' = "called"
    BY <1>w, <2>1 DEF StatusOf
  <2> QED BY <1>t, <1>1, <2>2, <2>3, GoesOn
<1>3. CASE versions[call[p].id][call[p].ver] # None
  <2>1. call[p].op = "AddVersion"
    BY <1>w, <1>t, <1>1, <1>3 DEF Smooth, StoredVersions
  <2>2. pc'[p] = "unlock" /\ code'[p] = "AlreadyExists"
    BY <1>t, <1>3, <2>1 DEF GetOldVersion, ControlTypes
  <2>3. UNCHANGED <<VisibleKeys, VisibleVersions>>
    BY <1>w, <1>1, <2>1, <2>2, WriterHides DEF CallInv, Creates, Adds
  <2>4. StatusOf(p) = "called" /\ StatusOf(p)' = "done"
    BY <1>w, <2>2 DEF StatusOf
  <2>5. Abstract!Refuse(p, "AlreadyExists")
    BY <1>t, <1>1, <2>2, <2>3, <2>4, Refuses
  <2>6. keys[call[p].id] # None /\ call[p].ver = keys[call[p].id].cur + 1
    BY <1>w, <1>t, <2>1 DEF Adding, RequestOK, RegistersOK
  <2>7. VisibleKeys = keys
        /\ VisibleVersions[call[p].id][call[p].ver] = versions[call[p].id][call[p].ver]
    <3>1. \A i, v : ~Creates(p, i) /\ ~Adds(p, i, v)
      BY <1>w, <2>1 DEF Creates, Adds
    <3> QED BY <1>w, <1>t, <1>1, <2>6, <3>1, WriterSees DEF CallInv
  <2>8. Abstract!AddVersion(p)
    BY <1>t, <1>3, <2>1, <2>5, <2>6, <2>7 DEF Abstract!AddVersion, Abstract!Stored
  <2> QED BY <2>8 DEF AbstractStep, Abstract!Next
<1> QED BY <1>2, <1>3

\* CreateKey takes effect when the initial version is stored.
LEMMA CreateTakesEffect ==
    ASSUME SharedLock, CallInv, NEW p \in Procs, Step(p), PutVersion(p), call[p].op = "CreateKey"
    PROVE  AbstractStep
<1> USE DEF store, Finish, Return
<1> DEFINE c == call[p]
           k == [name |-> c.name, cur |-> c.ver]
<1>w. pc[p] = "putVersion" /\ pc[p] \in WriteSteps
  BY DEF PutVersion, WriteSteps
<1>t. /\ TypeOK /\ StoreTypes /\ ControlTypes /\ RequestOK(p) /\ Smooth(p) /\ Progress(p)
      /\ c.id \in Ids /\ VisibleCall[p] = c /\ out[p] = {} /\ code[p] = "ok"
      /\ call' = call => CallOf(p)' = CallOf(p)
  BY <1>w, WriterFacts
<1>1. /\ UNCHANGED <<keys, call, out>> /\ c.ver \in Vers /\ c.name \in Names
      /\ versions' = [versions EXCEPT ![c.id][c.ver] = p]
      /\ pc'[p] = "unlock" /\ code'[p] = "ok"
  BY <1>w, <1>t DEF PutVersion, ControlTypes, RequestOK, ArgumentsOK, RegistersOK
<1>2. k \in KeyRec /\ k # None
  <2>1. k \in KeyRec
    BY <1>1 DEF KeyRec
  <2> QED BY <2>1, ConstantsAssumption
<1>3. /\ keys[c.id] = k /\ nameToID[c.name] = c.id
      /\ \A v \in Vers : versions[c.id][v] = None
  BY <1>w, <1>t DEF Progress, Smooth, StoredVersions
<1>4. Abstract!Answer(p, "ok", {})
  <2>1. StatusOf(p) = "called" /\ StatusOf(p)' = "done"
    BY <1>w, <1>1 DEF StatusOf
  <2> QED BY <1>t, <1>1, <2>1, Answers
<1>5. \A i, v : /\ Creates(p, i) <=> i = c.id
                /\ ~Creates(p, i)' /\ ~Adds(p, i, v) /\ ~Adds(p, i, v)'
  BY <1>w, <1>1 DEF Creates, Adds
<1>6. VisibleKeys' = [VisibleKeys EXCEPT ![c.id] = k] /\ VisibleKeys[c.id] = None
      /\ \A j \in Ids : j # c.id => VisibleKeys[j] = keys[j]
  <2>1. VisibleKeys = KeysBut(p) /\ VisibleKeys' = KeysBut(p)'
    BY <1>w, WriterView DEF CallInv
  <2>2. KeysBut(p) = [i \in Ids |-> IF i = c.id THEN None ELSE keys[i]]
    BY <1>5 DEF KeysBut
  <2>3. KeysBut(p)' = [i \in Ids |-> keys[i]]
    BY <1>1, <1>5 DEF KeysBut
  <2> HIDE DEF k, c
  <2> QED BY <1>t, <1>3, <2>1, <2>2, <2>3
<1>7. VisibleVersions' = [VisibleVersions EXCEPT ![c.id] =
                            [v \in Vers |-> IF v = c.ver THEN p ELSE None]]
  <2>1. /\ VisibleVersions = VersionsBut(p) /\ VisibleVersions' = VersionsBut(p)'
        /\ VisibleKeys = KeysBut(p) /\ VisibleKeys' = KeysBut(p)'
    BY <1>w, WriterView DEF CallInv
  <2>2. VersionsBut(p) = [i \in Ids |-> [v \in Vers |->
                            IF VisibleKeys[i] = None THEN None ELSE versions[i][v]]]
    BY <1>5, <2>1 DEF VersionsBut
  <2>3. VersionsBut(p)' = [i \in Ids |-> [v \in Vers |->
                            IF VisibleKeys'[i] = None THEN None ELSE versions'[i][v]]]
    BY <1>5, <2>1 DEF VersionsBut
  <2> HIDE DEF k, c
  <2>4. \A v \in Vers : versions'[c.id][v] = IF v = c.ver THEN p ELSE None
    BY <1>t, <1>1, <1>3 DEF StoreTypes
  <2>5. \A i \in Ids : i # c.id => versions'[i] = versions[i]
    BY <1>t, <1>1 DEF StoreTypes
  <2>6. VisibleKeys'[c.id] = k /\ \A i \in Ids : i # c.id => VisibleKeys'[i] = VisibleKeys[i]
    BY <1>t, <1>6 DEF VisibleKeys
  <2>7. VisibleVersions'[c.id] = [v \in Vers |-> IF v = c.ver THEN p ELSE None]
    BY <1>t, <1>2, <2>1, <2>3, <2>4, <2>6
  <2>8. \A i \in Ids : i # c.id => VisibleVersions'[i] = VisibleVersions[i]
    BY <2>1, <2>2, <2>3, <2>5, <2>6
  <2> QED BY <1>t, <2>1, <2>2, <2>3, <2>7, <2>8
<1>8. ASSUME NEW j \in Ids, VisibleKeys[j] # None, VisibleKeys[j].name = c.name PROVE FALSE
  <2>1. j # c.id /\ keys[j] # None /\ keys[j].name = c.name
    BY <1>6, <1>8
  <2>2. \A q \in Procs : ~Unmapped(q, j)
    BY <1>w, NobodyElse DEF CallInv, Unmapped, WriteSteps
  <2> QED BY <1>3, <2>1, <2>2 DEF CallInv, NameInv
<1>9. Abstract!CreateKey(p)
  BY <1>t, <1>1, <1>4, <1>6, <1>7, <1>8, ConstantsAssumption
     DEF Abstract!CreateKey, Abstract!Stored, Abstract!Named
<1> QED BY <1>9 DEF AbstractStep, Abstract!Next

\* AddVersion checks the version asked for.
LEMMA AddChecks ==
    ASSUME SharedLock, CallInv, NEW p \in Procs, Step(p), AddGet(p)
    PROVE  AbstractStep
<1> USE DEF store, Goto, Return
<1>w. pc[p] = "addGet" /\ pc[p] \in WriteSteps
  BY DEF AddGet, WriteSteps
<1>t. /\ TypeOK /\ StoreTypes /\ ControlTypes /\ RequestOK(p)
      /\ call[p].id \in Ids /\ VisibleCall[p] = call[p] /\ out[p] = {}
      /\ call' = call => CallOf(p)' = CallOf(p)
  BY <1>w, WriterFacts
<1>1. /\ UNCHANGED <<keys, versions, call, out>> /\ call[p].op = "AddVersion"
      /\ pc'[p] \in {"getOldVersion", "unlock"}
  BY <1>w, <1>t DEF AddGet, RequestOK, StepOK, ControlTypes
<1>2. VisibleKeys = keys /\ UNCHANGED <<VisibleKeys, VisibleVersions>>
  <2>1. \A i, v : ~Creates(p, i) /\ ~Creates(p, i)' /\ ~Adds(p, i, v) /\ ~Adds(p, i, v)'
    BY <1>w, <1>1 DEF Creates, Adds
  <2> QED BY <1>w, <1>1, <2>1, WriterHides, WriterSees DEF CallInv
<1>3. CASE pc'[p] = "getOldVersion"
  <2>1. StatusOf(p) = "called" /\ StatusOf(p)' = "called"
    BY <1>w, <1>3 DEF StatusOf
  <2> QED BY <1>t, <1>1, <1>2, <2>1, GoesOn
<1>4. CASE pc'[p] = "unlock"
  <2>1. StatusOf(p) = "called" /\ StatusOf(p)' = "done"
    BY <1>w, <1>4 DEF StatusOf
  <2>2. Abstract!Refuse(p, code'[p])
    BY <1>t, <1>1, <1>2, <2>1, Refuses
  <2>3. \/ keys[call[p].id] = None /\ code'[p] = "KeyNotFound"
        \/ /\ keys[call[p].id] # None /\ call[p].ver # keys[call[p].id].cur + 1
           /\ code'[p] = "InvalidArgument"
    BY <1>t, <1>4 DEF AddGet, ControlTypes
  <2>4. Abstract!AddVersion(p)
    BY <1>t, <1>1, <1>2, <2>2, <2>3 DEF Abstract!AddVersion, Abstract!Stored
  <2> QED BY <2>4 DEF AbstractStep, Abstract!Next
<1> QED BY <1>1, <1>3, <1>4

\* The version AddVersion stores stays hidden until the key record says so.
LEMMA AddHides ==
    ASSUME SharedLock, CallInv, NEW p \in Procs, Step(p),
           PutVersion(p) \/ UpdGet(p), call[p].op = "AddVersion"
    PROVE  AbstractStep
<1> USE DEF store, Goto, Return, UpdateFailed
<1>w. pc[p] \in {"putVersion", "updGet"} /\ pc[p] \in WriteSteps
  BY DEF PutVersion, UpdGet, WriteSteps
<1>t. /\ TypeOK /\ StoreTypes /\ ControlTypes /\ RequestOK(p) /\ Progress(p) /\ Adding(p)
      /\ call[p].id \in Ids /\ (call' = call => CallOf(p)' = CallOf(p))
  BY <1>w, WriterFacts
<1>1. UNCHANGED <<keys, call>> /\ call[p].ver \in Vers /\ snap[p] # None
  BY <1>w, <1>t DEF PutVersion, UpdGet, RequestOK, ArgumentsOK, RegistersOK
<1>2. CASE PutVersion(p)
  <2>1. /\ pc[p] = "putVersion" /\ pc'[p] = "updGet"
        /\ versions' = [versions EXCEPT ![call[p].id][call[p].ver] = p]
    BY <1>t, <1>2 DEF PutVersion, ControlTypes
  <2>2. versions[call[p].id][call[p].ver] = None
    BY <1>t, <2>1 DEF Progress
  <2>3. StatusOf(p) = "called" /\ StatusOf(p)' = "called"
    BY <2>1 DEF StatusOf
  <2>4. \A i, v : /\ ~Creates(p, i) /\ ~Creates(p, i)' /\ ~Adds(p, i, v)
                  /\ Adds(p, i, v)' <=> i = call[p].id /\ v = call[p].ver
    BY <1>1, <2>1 DEF Creates, Adds
  <2>5. KeysBut(p)' = KeysBut(p)
    BY <1>1, <2>4 DEF KeysBut
  <2>6. ASSUME NEW i \in Ids, NEW v \in Vers
        PROVE  (IF Adds(p, i, v)' THEN None ELSE versions'[i][v]) = versions[i][v]
    BY <1>t, <1>1, <2>1, <2>2, <2>4 DEF StoreTypes
  <2>7. VersionsBut(p)' = VersionsBut(p)
    BY <2>4, <2>5, <2>6 DEF VersionsBut
  <2> QED BY <1>w, <1>t, <1>1, <2>3, <2>5, <2>7, WriterView, GoesOn DEF CallInv
<1>3. CASE UpdGet(p)
  <2>1. keys[call[p].id] # None /\ keys[call[p].id].name = NewRecord(p).name /\ pc[p] = "updGet"
    BY <1>t, <1>1, <1>3 DEF UpdGet, Adding, NewRecord
  <2>2. pc'[p] = "updPut" /\ UNCHANGED versions
    BY <1>t, <1>3, <2>1 DEF UpdGet, ControlTypes
  <2>3. StatusOf(p) = "called" /\ StatusOf(p)' = "called"
    BY <2>1, <2>2 DEF StatusOf
  <2>4. UNCHANGED <<VisibleKeys, VisibleVersions>>
    BY <1>w, <1>1, <2>1, <2>2, WriterHides DEF CallInv, Creates, Adds
  <2> QED BY <1>t, <1>1, <2>3, <2>4, GoesOn
<1> QED BY <1>2, <1>3

LEMMA NestedUpdate ==
    ASSUME NEW S, NEW T, NEW U, NEW f \in [S -> [T -> U]], NEW g, NEW a \in S, NEW b \in T, NEW e,
           g = [i \in S |-> [v \in T |-> IF i = a /\ v = b THEN e ELSE f[i][v]]]
    PROVE  g = [f EXCEPT ![a][b] = e]
  OBVIOUS

\* AddVersion takes effect when the key record is stored.
LEMMA AddTakesEffect ==
    ASSUME SharedLock, CallInv, NEW p \in Procs, Step(p), UpdPut(p), call[p].op = "AddVersion"
    PROVE  AbstractStep
<1> USE DEF store, Finish, Return
<1> DEFINE c == call[p]
           k == keys[c.id]
<1>w. pc[p] = "updPut" /\ pc[p] \in WriteSteps
  BY DEF UpdPut, WriteSteps
<1>t. /\ TypeOK /\ StoreTypes /\ ControlTypes /\ RequestOK(p) /\ Progress(p) /\ Adding(p)
      /\ c.id \in Ids /\ VisibleCall[p] = c /\ out[p] = {} /\ code[p] = "ok"
      /\ call' = call => CallOf(p)' = CallOf(p)
  BY <1>w, WriterFacts
<1>1. /\ UNCHANGED <<versions, call, out>> /\ c.ver \in Vers
      /\ keys' = [keys EXCEPT ![c.id] = NewRecord(p)]
      /\ pc'[p] = "unlock" /\ code'[p] = "ok"
  BY <1>w, <1>t DEF UpdPut, ControlTypes, RequestOK, ArgumentsOK
<1>2. /\ k # None /\ c.ver = k.cur + 1 /\ versions[c.id][c.ver] = p
      /\ NewRecord(p) = [k EXCEPT !.cur = c.ver] /\ NewRecord(p) # None
  <2>1. k # None /\ k = snap[p] /\ c.ver = k.cur + 1 /\ versions[c.id][c.ver] = p
    BY <1>w, <1>t DEF Progress, Adding
  <2>2. k \in KeyRec /\ NewRecord(p) = [name |-> k.name, cur |-> c.ver]
    BY <1>t, <2>1 DEF NewRecord, StoreTypes
  <2>3. NewRecord(p) \in KeyRec /\ NewRecord(p) = [k EXCEPT !.cur = c.ver]
    BY <1>1, <2>2 DEF KeyRec
  <2> QED BY <2>1, <2>3, ConstantsAssumption
<1>4. Abstract!Answer(p, "ok", {})
  <2>1. StatusOf(p) = "called" /\ StatusOf(p)' = "done"
    BY <1>w, <1>1 DEF StatusOf
  <2> QED BY <1>t, <1>1, <2>1, Answers
<1>5. \A i, v : /\ ~Creates(p, i) /\ ~Creates(p, i)' /\ ~Adds(p, i, v)'
                /\ Adds(p, i, v) <=> i = c.id /\ v = c.ver
  BY <1>w, <1>1 DEF Creates, Adds
<1>6. VisibleKeys = keys /\ VisibleKeys' = [VisibleKeys EXCEPT ![c.id].cur = c.ver]
  <2>1. VisibleKeys = KeysBut(p) /\ VisibleKeys' = KeysBut(p)'
    BY <1>w, WriterView DEF CallInv
  <2>2. KeysBut(p) = [i \in Ids |-> keys[i]] /\ KeysBut(p)' = [i \in Ids |-> keys'[i]]
    BY <1>5 DEF KeysBut
  <2>3. keys = [i \in Ids |-> keys[i]]
    BY <1>t DEF StoreTypes
  <2> HIDE DEF c
  <2> QED BY <1>t, <1>1, <1>2, <2>1, <2>2, <2>3, SMTT(30)
<1>7. VisibleVersions' = [VisibleVersions EXCEPT ![c.id][c.ver] = p]
      /\ VisibleVersions[c.id][c.ver] = None
  <2>1. /\ VisibleVersions = VersionsBut(p) /\ VisibleVersions' = VersionsBut(p)'
        /\ VisibleKeys = KeysBut(p) /\ VisibleKeys' = KeysBut(p)'
    BY <1>w, WriterView DEF CallInv
  <2>2. VersionsBut(p) = [i \in Ids |-> [v \in Vers |->
                            IF keys[i] = None \/ (i = c.id /\ v = c.ver) THEN None
                            ELSE versions[i][v]]]
    BY <1>5, <1>6, <2>1 DEF VersionsBut
  <2>3. VersionsBut(p)' = [i \in Ids |-> [v \in Vers |->
                            IF VisibleKeys'[i] = None THEN None ELSE versions[i][v]]]
    BY <1>1, <1>5, <2>1 DEF VersionsBut
  <2>4. \A i \in Ids : VisibleKeys'[i] = None <=> keys[i] = None
    <3> HIDE DEF c
    <3>1. \A i \in Ids : i # c.id => VisibleKeys'[i] = keys[i]
      BY <1>t, <1>6 DEF StoreTypes
    <3>2. VisibleKeys'[c.id] = NewRecord(p)
      BY <1>t, <1>2, <1>6 DEF StoreTypes, c
    <3> QED BY <1>2, <3>1, <3>2 DEF c
  <2>5. keys[c.id] # None
    BY <1>2
  <2> HIDE DEF k, c
  <2>6. ASSUME NEW i \in Ids, NEW v \in Vers
        PROVE  VisibleVersions'[i][v] = IF i = c.id /\ v = c.ver THEN p ELSE VisibleVersions[i][v]
    BY <1>2, <2>1, <2>2, <2>3, <2>4, <2>5
  <2>7. VisibleVersions[c.id][c.ver] = None
    BY <1>t, <1>1, <2>1, <2>2
  <2>8. VisibleVersions' = [i \in Ids |-> [v \in Vers |->
            IF i = c.id /\ v = c.ver THEN p ELSE VisibleVersions[i][v]]]
    BY <2>1, <2>3, <2>6
  <2>9. VisibleVersions \in [Ids -> [Vers -> Procs \cup {None}]]
    BY <1>t, <2>1, <2>2 DEF StoreTypes
  <2> QED BY <1>t, <1>1, <2>7, <2>8, <2>9, NestedUpdate
<1>9. Abstract!AddVersion(p)
  BY <1>t, <1>1, <1>2, <1>4, <1>6, <1>7 DEF Abstract!AddVersion, Abstract!Stored
<1> QED BY <1>9 DEF AbstractStep, Abstract!Next

\* UpdateKey checks the name of the record it is given ...
LEMMA UpdateChecks ==
    ASSUME SharedLock, CallInv, NEW p \in Procs, Step(p), UpdGet(p), call[p].op = "UpdateKey"
    PROVE  AbstractStep
<1> USE DEF store, Goto, Return, UpdateFailed
<1>w. pc[p] = "updGet" /\ pc[p] \in WriteSteps
  BY DEF UpdGet, WriteSteps
<1>t. /\ TypeOK /\ StoreTypes /\ ControlTypes /\ call[p].id \in Ids
      /\ VisibleCall[p] = call[p] /\ out[p] = {} /\ (call' = call => CallOf(p)' = CallOf(p))
  BY <1>w, WriterFacts
<1>1. /\ UNCHANGED <<keys, versions, call, out>> /\ pc'[p] \in {"updPut", "unlock"}
      /\ NewRecord(p).name = call[p].name
  BY <1>w, <1>t DEF UpdGet, ControlTypes, NewRecord
<1>2. VisibleKeys = keys /\ UNCHANGED <<VisibleKeys, VisibleVersions>>
  <2>1. \A i, v : ~Creates(p, i) /\ ~Creates(p, i)' /\ ~Adds(p, i, v) /\ ~Adds(p, i, v)'
    BY <1>w, <1>1 DEF Creates, Adds
  <2> QED BY <1>w, <1>1, <2>1, WriterHides, WriterSees DEF CallInv
<1>3. CASE pc'[p] = "updPut"
  <2>1. StatusOf(p) = "called" /\ StatusOf(p)' = "called"
    BY <1>w, <1>3 DEF StatusOf
  <2> QED BY <1>t, <1>1, <1>2, <2>1, GoesOn
<1>4. CASE pc'[p] = "unlock"
  <2>1. StatusOf(p) = "called" /\ StatusOf(p)' = "done"
    BY <1>w, <1>4 DEF StatusOf
  <2>2. Abstract!Refuse(p, code'[p])
    BY <1>t, <1>1, <1>2, <2>1, Refuses
  <2>3. \/ keys[call[p].id] = None /\ code'[p] = "KeyNotFound"
        \/ /\ keys[call[p].id] # None /\ keys[call[p].id].name # call[p].name
           /\ code'[p] = "InvalidArgument"
    BY <1>t, <1>1, <1>4 DEF UpdGet, ControlTypes
  <2>4. Abstract!UpdateKey(p)
    BY <1>t, <1>1, <1>2, <2>2, <2>3 DEF Abstract!UpdateKey, Abstract!Stored
  <2> QED BY <2>4 DEF AbstractStep, Abstract!Next
<1> QED BY <1>1, <1>3, <1>4

\* ... and takes effect when it stores it.
LEMMA UpdateTakesEffect ==
    ASSUME SharedLock, CallInv, NEW p \in Procs, Step(p), UpdPut(p), call[p].op = "UpdateKey"
    PROVE  AbstractStep
<1> USE DEF store, Finish, Return
<1> DEFINE c == call[p]
           k == keys[c.id]
<1>w. pc[p] = "updPut" /\ pc[p] \in WriteSteps
  BY DEF UpdPut, WriteSteps
<1>t. /\ TypeOK /\ StoreTypes /\ ControlTypes /\ RequestOK(p) /\ Progress(p)
      /\ c.id \in Ids /\ VisibleCall[p] = c /\ out[p] = {} /\ code[p] = "ok"
      /\ call' = call => CallOf(p)' = CallOf(p)
  BY <1>w, WriterFacts
<1>1. /\ UNCHANGED <<versions, call, out>> /\ c.ver \in Vers
      /\ keys' = [keys EXCEPT ![c.id] = NewRecord(p)]
      /\ pc'[p] = "unlock" /\ code'[p] = "ok"
  BY <1>w, <1>t DEF UpdPut, ControlTypes, RequestOK, ArgumentsOK
<1>2. /\ k # None /\ k.name = c.name
      /\ NewRecord(p) = [k EXCEPT !.cur = c.ver] /\ NewRecord(p) # None
  <2>1. k # None /\ k.name = c.name
    BY <1>w, <1>t DEF Progress, NewRecord
  <2>2. k \in KeyRec /\ NewRecord(p) = [name |-> k.name, cur |-> c.ver]
    BY <1>t, <2>1 DEF NewRecord, StoreTypes
  <2>3. NewRecord(p) \in KeyRec /\ NewRecord(p) = [k EXCEPT !.cur = c.ver]
    BY <1>1, <2>2 DEF KeyRec
  <2> QED BY <2>1, <2>3, ConstantsAssumption
<1>4. Abstract!Answer(p, "ok", {})
  <2>1. StatusOf(p) = "called" /\ StatusOf(p)' = "done"
    BY <1>w, <1>1 DEF StatusOf
  <2> QED BY <1>t, <1>1, <2>1, Answers
<1>5. \A i, v : ~Creates(p, i) /\ ~Creates(p, i)' /\ ~Adds(p, i, v) /\ ~Adds(p, i, v)'
  BY <1>w, <1>1 DEF Creates, Adds
<1>6. /\ VisibleKeys = KeysBut(p) /\ VisibleKeys' = KeysBut(p)'
      /\ VisibleVersions = VersionsBut(p) /\ VisibleVersions' = VersionsBut(p)'
      /\ KeysBut(p) = keys /\ KeysBut(p)' = [i \in Ids |-> keys'[i]]
  <2>1. /\ VisibleKeys = KeysBut(p) /\ VisibleKeys' = KeysBut(p)'
        /\ VisibleVersions = VersionsBut(p) /\ VisibleVersions' = VersionsBut(p)'
    BY <1>w, WriterView DEF CallInv
  <2>2. KeysBut(p) = keys /\ KeysBut(p)' = [i \in Ids |-> keys'[i]]
    BY <1>t, <1>5 DEF KeysBut, StoreTypes
  <2> QED BY <2>1, <2>2
<1>7. VisibleKeys' = [VisibleKeys EXCEPT ![c.id].cur = c.ver]
  BY <1>t, <1>1, <1>2, <1>6 DEF StoreTypes
<1>8. VisibleVersions' = VisibleVersions
  <2>1. \A i \in Ids : KeysBut(p)'[i] = None <=> KeysBut(p)[i] = None
    BY <1>t, <1>1, <1>2, <1>6 DEF StoreTypes
  <2>2. VersionsBut(p)' = VersionsBut(p)
    BY <1>1, <1>5, <2>1 DEF VersionsBut
  <2> QED BY <1>6, <2>2
<1>9. Abstract!UpdateKey(p)
  BY <1>t, <1>2, <1>4, <1>6, <1>7, <1>8 DEF Abstract!UpdateKey, Abstract!Stored
<1> QED BY <1>9 DEF AbstractStep, Abstract!Next

\* DeleteKey refuses an unknown key; what it does to a known one before the
\* record goes shows nothing.
LEMMA DeleteHides ==
    ASSUME SharedLock, CallInv, NEW p \in Procs, Step(p), DelGet(p) \/ UncacheName(p) \/ DelName(p)
    PROVE  AbstractStep
<1> USE DEF store, Goto, Return, Finish
<1>w. pc[p] \in {"delGet", "uncacheName", "delName"} /\ pc[p] \in WriteSteps
  BY DEF DelGet, UncacheName, DelName, WriteSteps
<1>t. /\ TypeOK /\ StoreTypes /\ ControlTypes /\ RequestOK(p) /\ Smooth(p) /\ call[p].id \in Ids
      /\ VisibleCall[p] = call[p] /\ out[p] = {} /\ code[p] = "ok"
      /\ call' = call => CallOf(p)' = CallOf(p)
  BY <1>w, WriterFacts
<1>1. /\ UNCHANGED <<keys, versions, call, out>> /\ call[p].op = "DeleteKey"
      /\ pc'[p] \in {"uncacheName", "delName", "delKey", "unlock"}
  BY <1>w, <1>t DEF DelGet, UncacheName, DelName, ControlTypes, RequestOK, StepOK, Smooth
<1>2. VisibleKeys = keys /\ UNCHANGED <<VisibleKeys, VisibleVersions>>
  <2>1. \A i, v : ~Creates(p, i) /\ ~Creates(p, i)' /\ ~Adds(p, i, v) /\ ~Adds(p, i, v)'
    BY <1>w, <1>1 DEF Creates, Adds
  <2> QED BY <1>w, <1>1, <2>1, WriterHides, WriterSees DEF CallInv
<1>3. CASE pc'[p] # "unlock"
  <2>1. StatusOf(p) = "called" /\ StatusOf(p)' = "called"
    BY <1>w, <1>1, <1>3 DEF StatusOf
  <2> QED BY <1>t, <1>1, <1>2, <2>1, GoesOn
<1>4. CASE pc'[p] = "unlock"
  <2>1. StatusOf(p) = "called" /\ StatusOf(p)' = "done"
    BY <1>w, <1>4 DEF StatusOf
  <2>2. keys[call[p].id] = None /\ code'[p] = "KeyNotFound"
    BY <1>w, <1>t, <1>1, <1>4 DEF DelGet, UncacheName, DelName, ControlTypes, RequestOK, RegistersOK
  <2>3. Abstract!Refuse(p, "KeyNotFound")
    BY <1>t, <1>1, <1>2, <2>1, <2>2, Refuses
  <2>4. Abstract!DeleteKey(p)
    BY <1>t, <1>1, <1>2, <2>2, <2>3 DEF Abstract!DeleteKey, Abstract!Stored
  <2> QED BY <2>4 DEF AbstractStep, Abstract!Next
<1> QED BY <1>3, <1>4

\* DeleteKey takes effect when the key record goes ...
LEMMA DeleteTakesEffect ==
    ASSUME SharedLock, CallInv, NEW p \in Procs, Step(p), DelKey(p)
    PROVE  AbstractStep
<1> USE DEF store, Goto
<1> DEFINE c == call[p]
<1>w. pc[p] = "delKey" /\ pc[p] \in WriteSteps
  BY DEF DelKey, WriteSteps
<1>t. /\ TypeOK /\ StoreTypes /\ ControlTypes /\ RequestOK(p) /\ Smooth(p) /\ Progress(p)
      /\ c.id \in Ids /\ VisibleCall[p] = c /\ out[p] = {} /\ code[p] = "ok"
      /\ call' = call => CallOf(p)' = CallOf(p)
  BY <1>w, WriterFacts
<1>1. /\ UNCHANGED <<versions, call, out>> /\ c.op = "DeleteKey"
      /\ keys' = [keys EXCEPT ![c.id] = None] /\ keys[c.id] # None
      /\ pc'[p] = "listVersions" /\ code'[p] = "ok"
  BY <1>w, <1>t DEF DelKey, ControlTypes, RequestOK, StepOK, Smooth, Progress
<1>4. Abstract!Answer(p, "ok", {})
  <2>1. StatusOf(p) = "called" /\ StatusOf(p)' = "done"
    BY <1>w, <1>1 DEF StatusOf
  <2> QED BY <1>t, <1>1, <2>1, Answers
<1>5. \A i, v : ~Creates(p, i) /\ ~Creates(p, i)' /\ ~Adds(p, i, v) /\ ~Adds(p, i, v)'
  BY <1>w, <1>1 DEF Creates, Adds
<1>6. /\ VisibleVersions = VersionsBut(p) /\ VisibleVersions' = VersionsBut(p)'
      /\ VisibleKeys = keys /\ VisibleKeys' = keys'
      /\ KeysBut(p) = keys /\ KeysBut(p)' = keys'
  <2>1. /\ VisibleKeys = KeysBut(p) /\ VisibleKeys' = KeysBut(p)'
        /\ VisibleVersions = VersionsBut(p) /\ VisibleVersions' = VersionsBut(p)'
    BY <1>w, WriterView DEF CallInv
  <2>2. KeysBut(p) = keys /\ KeysBut(p)' = [i \in Ids |-> keys'[i]]
    BY <1>t, <1>5 DEF KeysBut, StoreTypes
  <2>3. [i \in Ids |-> keys'[i]] = keys'
    BY <1>t, <1>1 DEF StoreTypes
  <2> QED BY <2>1, <2>2, <2>3
<1>7. VisibleVersions' = [VisibleVersions EXCEPT ![c.id] = [v \in Vers |-> None]]
  <2>1. VersionsBut(p) = [i \in Ids |-> [v \in Vers |->
                            IF keys[i] = None THEN None ELSE versions[i][v]]]
    BY <1>5, <1>6 DEF VersionsBut
  <2>2. VersionsBut(p)' = [i \in Ids |-> [v \in Vers |->
                            IF keys'[i] = None THEN None ELSE versions[i][v]]]
    BY <1>1, <1>5, <1>6 DEF VersionsBut
  <2>3. keys'[c.id] = None /\ \A i \in Ids : i # c.id => keys'[i] = keys[i]
    BY <1>t, <1>1 DEF StoreTypes
  <2> HIDE DEF c
  <2>4. VisibleVersions'[c.id] = [v \in Vers |-> None]
    BY <1>t, <1>6, <2>2, <2>3 DEF c
  <2>5. \A i \in Ids : i # c.id => VisibleVersions'[i] = VisibleVersions[i]
    BY <1>6, <2>1, <2>2, <2>3
  <2> QED BY <1>6, <2>1, <2>2, <2>4, <2>5
<1>9. Abstract!DeleteKey(p)
  BY <1>t, <1>1, <1>4, <1>6, <1>7 DEF Abstract!DeleteKey, Abstract!Stored
<1> QED BY <1>9 DEF AbstractStep, Abstract!Next

\* ... and the versions it deletes after that are hidden with the key.
LEMMA VersionsGo ==
    ASSUME SharedLock, CallInv, NEW p \in Procs, Step(p), ListVersions(p) \/ DelVersion(p)
    PROVE  AbstractStep
<1> USE DEF store, Goto, Finish, Return
<1> DEFINE c == call[p]
<1>w. pc[p] \in {"listVersions", "delVersion"} /\ pc[p] \in WriteSteps
  BY DEF ListVersions, DelVersion, WriteSteps
<1>t. /\ TypeOK /\ StoreTypes /\ ControlTypes /\ RequestOK(p) /\ Progress(p) /\ c.id \in Ids
      /\ call' = call => CallOf(p)' = CallOf(p)
  BY <1>w, WriterFacts
<1>1. /\ UNCHANGED <<keys, call, out>> /\ c.op = "DeleteKey" /\ keys[c.id] = None
      /\ pc'[p] \in {"delVersion", "unlock"} /\ code'[p] = code[p]
  BY <1>w, <1>t DEF ListVersions, DelVersion, ControlTypes, RequestOK, StepOK, Progress
<1>2. \A i \in Ids : i # c.id => versions'[i] = versions[i]
  BY <1>t DEF ListVersions, DelVersion, StoreTypes
<1>3. \A i, v : ~Creates(p, i) /\ ~Creates(p, i)' /\ ~Adds(p, i, v) /\ ~Adds(p, i, v)'
  BY <1>w, <1>1 DEF Creates, Adds
<1>4. KeysBut(p)' = KeysBut(p) /\ KeysBut(p)[c.id] = None
  BY <1>t, <1>1, <1>3 DEF KeysBut
<1>5. VersionsBut(p)' = VersionsBut(p)
  <2>1. ASSUME NEW i \in Ids, NEW v \in Vers
        PROVE  (IF KeysBut(p)[i] = None THEN None ELSE versions'[i][v])
                 = IF KeysBut(p)[i] = None THEN None ELSE versions[i][v]
    BY <1>2, <1>4
  <2> QED BY <1>3, <1>4, <2>1 DEF VersionsBut
<1>6. UNCHANGED <<VisibleKeys, VisibleVersions>>
  BY <1>w, <1>4, <1>5, WriterView DEF CallInv
<1>7. StatusOf(p) = "done" /\ StatusOf(p)' = "done"
  BY <1>w, <1>1 DEF StatusOf
<1>8. CodeOf(p)' = CodeOf(p) /\ OutOf(p)' = OutOf(p)
  BY <1>1, <1>7 DEF CodeOf, OutOf
<1> QED BY <1>t, <1>1, <1>6, <1>7, <1>8, Stutters DEF AbstractStep

\* What is known of a request inside a read: it sees the store as it is.
LEMMA ReaderFacts ==
    ASSUME SharedLock, CallInv, NEW p \in Procs, Step(p), pc[p] \in ReadSteps
    PROVE  /\ TypeOK /\ StoreTypes /\ ControlTypes /\ RegisterTypes /\ RequestOK(p)
           /\ Reading(p) /\ Smooth(p) /\ ~StorageFault(p) /\ code[p] = "ok"
           /\ call[p].op \in ReadOps
           /\ StatusOf(p) = "called" /\ VisibleCall[p] = CallOf(p)
           /\ VisibleKeys = keys /\ VisibleVersions = versions
           /\ UNCHANGED <<VisibleKeys, VisibleVersions>>
           /\ \A q \in Procs : pc[q] \notin WriteSteps
<1>1. /\ TypeOK /\ StoreTypes /\ ControlTypes /\ RegisterTypes /\ RequestOK(p)
      /\ Reading(p) /\ Smooth(p) /\ ~StorageFault(p)
  BY DEF CallInv, SafeInv, TypeOK, Types, RequestOK, ReadInv, GoneInv, StorageFault
<1>2. code[p] = "ok"
  BY <1>1 DEF Smooth, ReadSteps
<1>3. call[p].op \in ReadOps
  BY <1>1, Sections DEF RequestOK
<1>4. StatusOf(p) = "called"
  BY DEF StatusOf, ReadSteps
<1>5. VisibleCall[p] = CallOf(p)
  BY Registers
<1>6. pc[p] \notin WriteSteps
  BY DEF WriteSteps, ReadSteps
<1>7. UNCHANGED <<VisibleKeys, VisibleVersions>>
  BY <1>6, QuietView DEF CallInv
<1>8. VisibleKeys = keys /\ VisibleVersions = versions
  BY ReaderView DEF CallInv
<1>9. \A q \in Procs : pc[q] \notin WriteSteps
  BY ReadersAlone DEF CallInv, InWrite
<1> QED BY <1>1, <1>2, <1>3, <1>4, <1>5, <1>7, <1>8, <1>9

\* The id that GetKeyByName resolves is not part of its call.
LEMMA CallStays ==
    ASSUME TypeOK, NEW p \in Procs,
           \/ call' = call
           \/ call[p].op = "GetKeyByName" /\ \E i \in Ids : call' = [call EXCEPT ![p].id = i]
    PROVE  CallOf(p)' = CallOf(p)
<1>1. call \in [Procs -> [op : Ops \cup {"none"}, id : Ids \cup {None},
                          name : Names \cup {EmptyName, None}, ver : Vers \cup {0, None}]]
  BY DEF TypeOK, Types, RegisterTypes
<1>2. ASSUME call[p].op = "GetKeyByName", NEW i \in Ids, call' = [call EXCEPT ![p].id = i]
      PROVE  CallOf(p)' = CallOf(p)
  <2>1. call'[p] = [call[p] EXCEPT !.id = i]
    BY <1>1, <1>2
  <2>2. call'[p].op = "GetKeyByName" /\ [call'[p] EXCEPT !.id = None] = [call[p] EXCEPT !.id = None]
    BY <1>1, <1>2, <2>1
  <2> QED BY <1>2, <2>2 DEF CallOf
<1> QED BY <1>2 DEF CallOf

\* A read that has not found its answer yet.
LEMMA ReadGoesOn ==
    ASSUME SharedLock, CallInv, NEW p \in Procs, Step(p), pc[p] \in ReadSteps,
           Read(p) \/ RLockAgain(p)
    PROVE  /\ CallOf(p)' = CallOf(p)
           /\ pc'[p] # "unlock" => AbstractStep
<1> USE DEF store, Goto, Return, Finish
<1>t. /\ TypeOK /\ StoreTypes /\ ControlTypes /\ RegisterTypes /\ RequestOK(p) /\ Reading(p)
      /\ StatusOf(p) = "called" /\ UNCHANGED <<VisibleKeys, VisibleVersions>>
  BY ReaderFacts
<1>1. \/ call' = call
      \/ call[p].op = "GetKeyByName" /\ \E i \in Ids : call' = [call EXCEPT ![p].id = i]
  <2>1. CASE CacheGet(p)
    <3>1. call[p].op = "GetKeyByName"
      BY <1>t, <2>1 DEF CacheGet, RequestOK, StepOK
    <3>2. CASE call[p].name # EmptyName /\ Has(cache[RepoOf[p]], call[p].name)
      <4>1. call[p].name \in Names
        BY <1>t, <3>1, <3>2 DEF RequestOK, ArgumentsOK
      <4>2. /\ cache[RepoOf[p]] \in Seq(Entries(Names, Ids))
            /\ DistinctKeys(cache[RepoOf[p]])
        BY <1>t, ConstantsAssumption DEF TypeOK, StoreTypes
      <4>3. Value(cache[RepoOf[p]], call[p].name) \in Ids
        BY <3>2, <4>1, <4>2, ValueType
      <4> QED BY <2>1, <3>1, <3>2, <4>3 DEF CacheGet
    <3>3. CASE ~(call[p].name # EmptyName /\ Has(cache[RepoOf[p]], call[p].name))
      BY <2>1, <3>3 DEF CacheGet
    <3> QED BY <3>2, <3>3
  <2>2. CASE GetMapping(p)
    <3>1. call[p].op = "GetKeyByName" /\ call[p].name \in Names
      BY <1>t, <2>2 DEF GetMapping, RequestOK, StepOK, RegistersOK
    <3> QED BY <1>t, <2>2, <3>1 DEF GetMapping, StoreTypes
  <2>3. CASE RLockAgain(p) \/ CacheFill(p) \/ ReadKey(p) \/ ReadVersion(p) \/ ListIds(p) \/ ListGet(p)
    BY <2>3 DEF RLockAgain, CacheFill, ReadKey, ReadVersion, ListIds, ListGet
  <2> QED BY <2>1, <2>2, <2>3 DEF Read
<1>2. CallOf(p)' = CallOf(p)
  BY <1>t, <1>1, CallStays
<1>3. pc'[p] \in {"getMapping", "cacheFill", "rlockAgain", "readKey", "readVersion", "listGet", "unlock"}
  BY <1>t DEF Read, RLockAgain, CacheGet, GetMapping, CacheFill, ReadKey, ReadVersion, ListIds,
     ListGet, ControlTypes
<1>4. pc'[p] # "unlock" => StatusOf(p)' = "called"
  BY <1>3 DEF StatusOf
<1> QED BY <1>t, <1>2, <1>4, GoesOn

\* A read answers, with what it has found.
LEMMA ReadAnswers ==
    ASSUME SharedLock, CallInv, NEW p \in Procs, Step(p), pc[p] \in ReadSteps, Read(p),
           pc'[p] = "unlock", NEW c, c = code'[p], NEW r, r = out'[p]
    PROVE  Abstract!Answer(p, c, r)
<1>1. StatusOf(p)' = "done"
  BY DEF StatusOf
<1> QED BY <1>1, ReaderFacts, ReadGoesOn, Answers

\* The name it looks for is no stored key's if it is not mapped ...
LEMMA UnmappedName ==
    ASSUME SharedLock, CallInv, NEW p \in Procs, Step(p), pc[p] \in ReadSteps, NEW n \in Names,
           nameToID[n] = None, NEW j \in Ids, keys[j] # None, keys[j].name = n
    PROVE  FALSE
<1>1. \A q \in Procs : ~Unmapped(q, j)
  BY ReaderFacts DEF Unmapped, WriteSteps
<1> QED BY <1>1, ConstantsAssumption DEF CallInv, NameInv

\* ... and a stored key's if it is.
LEMMA MappedName ==
    ASSUME SharedLock, CallInv, NEW p \in Procs, Step(p), pc[p] \in ReadSteps, NEW n \in Names,
           nameToID[n] # None
    PROVE  Owned(n)
<1>1. \A q \in Procs : ~Mapping(q, n)
  BY ReaderFacts DEF Mapping, WriteSteps
<1> QED BY <1>1 DEF CallInv, MapInv

\* What a read finds is what the abstract repository answers.
LEMMA GetsKey ==
    ASSUME SharedLock, CallInv, NEW p \in Procs, Step(p), pc'[p] = "unlock",
           \/ CacheGet(p) \/ GetMapping(p)
           \/ ReadKey(p) /\ call[p].op \in {"GetKeyByID", "GetKeyByName"}
    PROVE  AbstractStep
<1> USE DEF store, Goto, Return, Finish
<1> DEFINE c == call[p]
           a == VisibleCall[p]
<1>w. pc[p] \in ReadSteps /\ Read(p)
  BY DEF CacheGet, GetMapping, ReadKey, ReadSteps, Read
<1>t. /\ TypeOK /\ StoreTypes /\ ControlTypes /\ RegisterTypes /\ RequestOK(p) /\ Reading(p)
      /\ Smooth(p) /\ code[p] = "ok" /\ VisibleCall[p] = CallOf(p)
      /\ VisibleKeys = keys /\ UNCHANGED <<VisibleKeys, VisibleVersions>>
  BY <1>w, ReaderFacts
<1>1. /\ a.op = c.op /\ a.name = c.name /\ (c.op = "GetKeyByID" => a.id = c.id)
      /\ c.op \in {"GetKeyByID", "GetKeyByName"}
  <2>1. c.op \in {"GetKeyByID", "GetKeyByName"}
    BY <1>t DEF CacheGet, GetMapping, RequestOK, StepOK
  <2> QED BY <1>t, <2>1 DEF CallOf, RegisterTypes
<1>o. out[p] = {}
  BY <1>t DEF Smooth, CacheGet, GetMapping, ReadKey
<1>2. \A k, r : k = code'[p] /\ r = out'[p] => Abstract!Answer(p, k, r)
  BY <1>w, ReadAnswers
<1>3. CASE CacheGet(p)
  <2>1. c.op = "GetKeyByName" /\ c.name = EmptyName /\ code'[p] = "InvalidArgument" /\ out'[p] = {}
    BY <1>t, <1>o, <1>3 DEF CacheGet, ControlTypes, RequestOK, StepOK
  <2>2. Abstract!Refuse(p, "InvalidArgument")
    BY <1>t, <1>2, <2>1 DEF Abstract!Refuse
  <2> QED BY <1>1, <2>1, <2>2 DEF Abstract!GetKey, AbstractStep, Abstract!Next
<1>4. CASE GetMapping(p)
  <2>1. /\ c.op = "GetKeyByName" /\ nameToID[c.name] = None /\ c.name \in Names
        /\ code'[p] = "KeyNotFound" /\ out'[p] = {}
    BY <1>t, <1>o, <1>4 DEF GetMapping, ControlTypes, RequestOK, StepOK, RegistersOK
  <2>2. Abstract!Refuse(p, "KeyNotFound")
    BY <1>t, <1>2, <2>1 DEF Abstract!Refuse
  <2>3. Abstract!Named(a.name) = {}
    BY <1>w, <1>t, <1>1, <2>1, UnmappedName DEF Abstract!Named, Abstract!Stored
  <2>4. a.name # EmptyName
    BY <1>1, <2>1, ConstantsAssumption
  <2> QED BY <1>1, <2>1, <2>2, <2>3, <2>4 DEF Abstract!Find, Abstract!GetKey, AbstractStep, Abstract!Next
<1>5. CASE ReadKey(p)
  <2> DEFINE k == keys[c.id]
  <2>1. pc[p] = "readKey" /\ c.id \in Ids
    BY <1>t, <1>5 DEF ReadKey, RequestOK, RegistersOK
  <2>2. CASE k = None
    <3>1. code'[p] = "KeyNotFound" /\ out'[p] = {}
      BY <1>t, <1>o, <1>5, <2>2 DEF ReadKey, ControlTypes
    <3>2. Abstract!Refuse(p, "KeyNotFound")
      BY <1>t, <1>2, <3>1 DEF Abstract!Refuse
    <3>3. c.op = "GetKeyByID"
      <4>1. ASSUME c.op = "GetKeyByName" PROVE FALSE
        <5>1. c.name \in Names /\ nameToID[c.name] = c.id
          BY <1>t, <2>1, <4>1 DEF Reading
        <5>2. nameToID[c.name] # None
          BY <2>1, <5>1, ConstantsAssumption
        <5> QED BY <1>w, <2>2, <5>1, <5>2, MappedName DEF Owned
      <4> QED BY <1>1, <4>1
    <3>4. {i \in {a.id} : Abstract!Stored(i)} = {}
      BY <1>t, <1>1, <2>2, <3>3 DEF Abstract!Stored
    <3> QED BY <1>1, <3>2, <3>3, <3>4 DEF Abstract!Find, Abstract!GetKey, AbstractStep, Abstract!Next
  <2>3. CASE k # None
    <3>1. code'[p] = "ok" /\ out'[p] = {[id |-> c.id, key |-> k]}
      BY <1>t, <1>1, <1>5, <2>3 DEF ReadKey, ControlTypes, RegisterTypes, KeyResult
    <3>2. Abstract!Answer(p, "ok", {[id |-> c.id, key |-> VisibleKeys[c.id]]})
      BY <1>t, <1>2, <3>1
    <3>3. CASE c.op = "GetKeyByID"
      <4>1. c.id \in {i \in {a.id} : Abstract!Stored(i)}
        BY <1>t, <1>1, <2>3, <3>3 DEF Abstract!Stored
      <4>2. Abstract!Find(p, {i \in {a.id} : Abstract!Stored(i)})
        BY <1>t, <3>2, <4>1 DEF Abstract!Find
      <4> QED BY <1>1, <3>3, <4>2 DEF Abstract!GetKey, AbstractStep, Abstract!Next
    <3>4. CASE c.op = "GetKeyByName"
      <4>1. c.name \in Names /\ nameToID[c.name] = c.id
        BY <1>t, <2>1, <3>4 DEF Reading
      <4>2. nameToID[c.name] # None
        BY <2>1, <4>1, ConstantsAssumption
      <4>3. k.name = c.name
        BY <1>w, <4>1, <4>2, MappedName DEF Owned
      <4>4. c.id \in Abstract!Named(a.name)
        BY <1>t, <1>1, <2>1, <2>3, <4>3 DEF Abstract!Named, Abstract!Stored
      <4>5. Abstract!Find(p, Abstract!Named(a.name))
        BY <1>t, <3>2, <4>4 DEF Abstract!Find
      <4>6. a.name # EmptyName
        BY <1>1, <4>1, ConstantsAssumption
      <4> QED BY <1>1, <3>4, <4>5, <4>6 DEF Abstract!GetKey, AbstractStep, Abstract!Next
    <3> QED BY <1>1, <3>3, <3>4
  <2> QED BY <2>2, <2>3
<1> QED BY <1>3, <1>4, <1>5

LEMMA GetsVersion ==
    ASSUME SharedLock, CallInv, NEW p \in Procs, Step(p), pc'[p] = "unlock",
           \/ ReadVersion(p)
           \/ ReadKey(p) /\ call[p].op \notin {"GetKeyByID", "GetKeyByName"}
    PROVE  AbstractStep
<1> USE DEF store, Goto, Return, Finish
<1> DEFINE c == call[p]
<1>w. pc[p] \in ReadSteps /\ Read(p)
  BY DEF ReadVersion, ReadKey, ReadSteps, Read
<1>t. /\ TypeOK /\ StoreTypes /\ ControlTypes /\ RegisterTypes /\ RequestOK(p) /\ Reading(p)
      /\ Smooth(p) /\ code[p] = "ok" /\ VisibleCall[p] = CallOf(p)
      /\ VisibleKeys = keys /\ VisibleVersions = versions
      /\ UNCHANGED <<VisibleKeys, VisibleVersions>>
  BY <1>w, ReaderFacts
<1>1. c.op \in {"GetCurrentVersion", "GetVersion"} /\ c.id \in Ids /\ VisibleCall[p] = c
  <2>1. c.op \in {"GetCurrentVersion", "GetVersion"}
    BY <1>t DEF ReadVersion, ReadKey, RequestOK, StepOK, ReadOps
  <2> QED BY <1>t, <2>1 DEF CallOf, RequestOK, ArgumentsOK, ReadOps
<1>o. out[p] = {}
  BY <1>t DEF Smooth, ReadVersion, ReadKey
<1>2. \A k, r : k = code'[p] /\ r = out'[p] => Abstract!Answer(p, k, r)
  BY <1>w, ReadAnswers
<1>3. CASE ReadKey(p)
  <2>1. keys[c.id] = None
    BY <1>t, <1>1, <1>3 DEF ReadKey, ControlTypes
  <2>2. code'[p] = "KeyNotFound" /\ out'[p] = {}
    BY <1>t, <1>o, <1>3, <2>1 DEF ReadKey, ControlTypes
  <2>3. Abstract!Refuse(p, "KeyNotFound")
    BY <1>t, <1>2, <2>2 DEF Abstract!Refuse
  <2> QED BY <1>t, <1>1, <2>1, <2>3 DEF Abstract!GetVersion, Abstract!Stored, AbstractStep, Abstract!Next
<1>4. CASE ReadVersion(p)
  <2> DEFINE v == IF snap[p] = None THEN c.ver ELSE snap[p].cur
             m == versions[c.id][v]
  <2>1. pc[p] = "readVersion"
    BY <1>4 DEF ReadVersion
  <2>2. IF c.op = "GetCurrentVersion" \/ c.ver = 0
        THEN keys[c.id] = snap[p] /\ snap[p] # None ELSE snap[p] = None
    BY <1>t, <1>1, <2>1 DEF Reading
  <2>3. v = IF c.op = "GetCurrentVersion" \/ c.ver = 0 THEN keys[c.id].cur ELSE c.ver
    BY <2>2
  <2>4. v \in Vers
    <3>1. snap[p] # None => snap[p] \in KeyRec
      BY <1>t DEF RegisterTypes
    <3>2. snap[p] = None => c.ver \in Vers
      BY <1>t, <2>1 DEF RequestOK, RegistersOK
    <3> QED BY <3>1, <3>2 DEF KeyRec
  <2>5. keys[c.id] = None => m = None
    <3>1. \A q \in Procs : ~Deleting(q, c.id)
      BY <1>w, ReaderFacts DEF Deleting, WriteSteps
    <3> QED BY <1>1, <2>4, <3>1 DEF CallInv, GoneInv, StoredVersions
  <2>6. CASE m = None
    <3>1. code'[p] = "KeyNotFound" /\ out'[p] = {}
      BY <1>t, <1>o, <1>4, <2>6 DEF ReadVersion, ControlTypes
    <3>2. Abstract!Refuse(p, "KeyNotFound")
      BY <1>t, <1>2, <3>1 DEF Abstract!Refuse
    <3>3. Abstract!GetVersion(p)
      BY <1>t, <1>1, <2>3, <2>6, <3>2 DEF Abstract!GetVersion, Abstract!Stored
    <3> QED BY <3>3 DEF AbstractStep, Abstract!Next
  <2>7. CASE m # None
    <3>1. code'[p] = "ok" /\ out'[p] = {[ver |-> v, material |-> m]}
      BY <1>t, <1>4, <2>7 DEF ReadVersion, ControlTypes, RegisterTypes, VersionResult
    <3>2. Abstract!Answer(p, "ok", {[ver |-> v, material |-> m]})
      BY <1>2, <3>1
    <3>3. Abstract!GetVersion(p)
      BY <1>t, <1>1, <2>3, <2>5, <2>7, <3>2 DEF Abstract!GetVersion, Abstract!Stored
    <3> QED BY <3>3 DEF AbstractStep, Abstract!Next
  <2> QED BY <2>6, <2>7
<1> QED BY <1>3, <1>4

LEMMA ListsKeys ==
    ASSUME SharedLock, CallInv, NEW p \in Procs, Step(p), pc'[p] = "unlock", ListGet(p)
    PROVE  AbstractStep
<1> USE DEF store, Goto, Return, Finish
<1>w. pc[p] = "listGet" /\ pc[p] \in ReadSteps /\ Read(p)
  BY DEF ListGet, ReadSteps, Read
<1>t. /\ ControlTypes /\ RegisterTypes /\ RequestOK(p) /\ Reading(p) /\ code[p] = "ok"
      /\ VisibleCall[p] = CallOf(p) /\ VisibleKeys = keys
      /\ UNCHANGED <<VisibleKeys, VisibleVersions>>
  BY <1>w, ReaderFacts
<1>1. /\ call[p].op = "ListKeys" /\ todo[p] \subseteq StoredIds
      /\ out[p] = {KeyResult(i, keys[i]) : i \in StoredIds \ todo[p]}
  BY <1>w, <1>t DEF Reading, RequestOK, StepOK
<1>2. todo[p] = {} /\ code'[p] = "ok" /\ out'[p] = out[p]
  BY <1>t, <1>1 DEF ListGet, ControlTypes, StoredIds
<1>3. out'[p] = {[id |-> i, key |-> keys[i]] : i \in {j \in Ids : keys[j] # None}}
  BY <1>1, <1>2 DEF StoredIds, KeyResult
<1>4. Abstract!Answer(p, "ok", {[id |-> i, key |-> keys[i]] : i \in {j \in Ids : keys[j] # None}})
  BY <1>w, <1>2, <1>3, ReadAnswers
<1>5. VisibleCall[p].op = "ListKeys"
  BY <1>t, <1>1 DEF CallOf
<1> QED BY <1>t, <1>4, <1>5 DEF Abstract!ListKeys, Abstract!Stored, AbstractStep, Abstract!Next

\* A call begins and returns as in the abstract repository, and waits for its
\* lock unnoticed.
LEMMA Begins ==
    ASSUME CallInv, NEW p \in Procs, Step(p), NEW c \in Calls, Begin(p, c)
    PROVE  AbstractStep
<1> USE DEF Goto
<1>t. TypeOK /\ ControlTypes /\ RegisterTypes
  BY DEF CallInv, SafeInv, TypeOK, Types
<1>1. pc[p] = "idle" /\ pc'[p] \in {"lock", "rlock"} /\ call'[p] = c
  BY <1>t DEF Begin, ControlTypes, RegisterTypes
<1>2. UNCHANGED <<VisibleKeys, VisibleVersions>>
  BY <1>1, QuietView DEF CallInv, WriteSteps
<1>3. StatusOf(p) = "idle" /\ StatusOf(p)' = "called"
  BY <1>1 DEF StatusOf
<1>4. CallOf(p)' = c
  <2>1. c \in [op : Ops, id : Ids \cup {None}, name : Names \cup {EmptyName, None},
               ver : Vers \cup {0, None}]
    BY CallsOK
  <2>2. c.op = "GetKeyByName" => c.id = None
    BY DEF Calls, Arguments
  <2>3. c.op = "GetKeyByName" => [c EXCEPT !.id = None] = c
    BY <2>1, <2>2
  <2> QED BY <1>1, <2>3 DEF CallOf
<1>5. CodeOf(p)' = CodeOf(p) /\ OutOf(p)' = OutOf(p)
  BY <1>3 DEF CodeOf, OutOf
<1>6. VisibleCode' = VisibleCode /\ VisibleOut' = VisibleOut /\ Status[p] = "idle"
  BY <1>t, <1>3, <1>5, Registers, RegistersNext
<1>7. Abstract!Begin(p, c)
  BY <1>t, <1>2, <1>3, <1>4, <1>6, RegistersNext DEF Abstract!Begin
<1> QED BY <1>7 DEF AbstractStep, Abstract!Next

LEMMA Waits ==
    ASSUME CallInv, NEW p \in Procs, Step(p), Lock(p) \/ RLock(p) \/ WaitForReaders(p)
    PROVE  AbstractStep
<1> USE DEF Goto
<1>t. TypeOK /\ ControlTypes
  BY DEF CallInv, SafeInv, TypeOK, Types
<1>1. /\ pc[p] \in {"lock", "rlock", "wait"} /\ UNCHANGED call
      /\ pc'[p] \notin {"idle", "unlock", "listVersions", "delVersion"}
  BY <1>t DEF Lock, RLock, WaitForReaders, FirstStep, ControlTypes
<1>2. UNCHANGED <<VisibleKeys, VisibleVersions>>
  BY <1>1, QuietView DEF CallInv, WriteSteps
<1>3. StatusOf(p) = "called" /\ StatusOf(p)' = "called" /\ CallOf(p)' = CallOf(p)
  BY <1>1 DEF StatusOf, CallOf
<1> QED BY <1>t, <1>2, <1>3, GoesOn

LEMMA ReturnsCall ==
    ASSUME CallInv, NEW p \in Procs, Step(p), Unlock(p)
    PROVE  AbstractStep
<1>t. TypeOK /\ ControlTypes /\ RegisterTypes
  BY DEF CallInv, SafeInv, TypeOK, Types
<1>1. pc[p] = "unlock" /\ pc'[p] = "idle" /\ call'[p] = NoCall
  BY <1>t DEF Unlock, ControlTypes, RegisterTypes
<1>2. UNCHANGED <<VisibleKeys, VisibleVersions>>
  BY <1>1, QuietView DEF CallInv, WriteSteps
<1>3. /\ StatusOf(p) = "done" /\ StatusOf(p)' = "idle" /\ CallOf(p)' = Abstract!NoCall
      /\ CodeOf(p)' = "ok" /\ OutOf(p)' = {}
  BY <1>1 DEF StatusOf, CallOf, CodeOf, OutOf, NoCall, Abstract!NoCall
<1>4. Status[p] = "done"
  BY <1>3, Registers
<1>5. Abstract!Return(p)
  BY <1>t, <1>2, <1>3, <1>4, RegistersNext DEF Abstract!Return
<1> QED BY <1>5 DEF AbstractStep, Abstract!Next

-----------------------------------------------------------------------------
(* The refinement.                                                         *)

LEMMA EveryStep ==
    ASSUME SharedLock, CallInv, NEW p \in Procs, Step(p)
    PROVE  AbstractStep
<1>t. ControlTypes /\ RequestOK(p) /\ Smooth(p) /\ ~StorageFault(p)
  BY DEF CallInv, SafeInv, TypeOK, Types, RequestOK, GoneInv, StorageFault
<1>1. CASE (\E c \in Calls : Begin(p, c)) \/ Lock(p) \/ RLock(p) \/ WaitForReaders(p) \/ Unlock(p)
  BY <1>1, Begins, Waits, ReturnsCall
<1>2. CASE Create(p)
  BY <1>2, CreateChecks, CreateHides DEF Create
<1>3. CASE Write(p)
  <2>1. CASE GetOldVersion(p) \/ AddGet(p)
    BY <2>1, VersionChecks, AddChecks
  <2>2. CASE PutVersion(p)
    <3>1. call[p].op \in {"CreateKey", "AddVersion"}
      BY <1>t, <2>2 DEF PutVersion, RequestOK, StepOK
    <3> QED BY <2>2, <3>1, CreateTakesEffect, AddHides
  <2>3. CASE UpdGet(p) \/ UpdPut(p)
    <3>1. call[p].op \in {"AddVersion", "UpdateKey"}
      BY <1>t, <2>3 DEF UpdGet, UpdPut, RequestOK, StepOK
    <3> QED BY <2>3, <3>1, AddHides, AddTakesEffect, UpdateChecks, UpdateTakesEffect
  <2>4. ~UndoVersion(p)
    BY <1>t DEF UndoVersion, Smooth
  <2> QED BY <1>3, <2>1, <2>2, <2>3, <2>4 DEF Write
<1>4. CASE Delete(p)
  BY <1>4, DeleteHides, DeleteTakesEffect, VersionsGo DEF Delete
<1>5. CASE Read(p) \/ RLockAgain(p)
  <2>1. pc[p] \in ReadSteps
    BY <1>5 DEF Read, CacheGet, GetMapping, CacheFill, ReadKey, ReadVersion, ListIds, ListGet,
       RLockAgain, ReadSteps
  <2>2. CASE pc'[p] # "unlock"
    BY <1>5, <2>1, <2>2, ReadGoesOn
  <2>3. CASE pc'[p] = "unlock"
    <3>1. ~CacheFill(p) /\ ~ListIds(p) /\ ~RLockAgain(p)
      BY <1>t, <2>3 DEF CacheFill, ListIds, RLockAgain, Goto, ControlTypes
    <3>2. CASE CacheGet(p) \/ GetMapping(p)
      BY <2>3, <3>2, GetsKey
    <3>3. CASE ReadKey(p)
      BY <2>3, <3>3, GetsKey, GetsVersion
    <3>4. CASE ReadVersion(p)
      BY <2>3, <3>4, GetsVersion
    <3>5. CASE ListGet(p)
      BY <2>3, <3>5, ListsKeys
    <3> QED BY <1>5, <3>1, <3>2, <3>3, <3>4, <3>5 DEF Read
  <2> QED BY <2>2, <2>3
<1> QED BY <1>1, <1>2, <1>3, <1>4, <1>5, <1>t DEF Step, Acquire, Proceed

\* The invariant of a repository that no storage call fails.
LEMMA Calling == ASSUME SharedLock, SharedRepo, MaxFaults = 0 PROVE Spec => []CallInv
<1> DEFINE Base == SafeInv /\ NameInv /\ MapInv /\ CacheInv
<1>1. Init => GoneInv /\ ReadInv
  BY GoneInit, ReadInit
<1>2. Base /\ GoneInv /\ ReadInv /\ [Next]_vars => GoneInv' /\ ReadInv'
  <2>1. ASSUME Base, GoneInv, ReadInv, NEW p \in Procs, Step(p) PROVE GoneInv' /\ ReadInv'
    <3>1. GoneInv'
      BY <2>1, GoneStep
    <3>2. ASSUME NEW q \in Procs PROVE Reading(q)'
      BY <2>1, ReadingKept, ReadingOthers DEF ReadInv
    <3> QED BY <3>1, <3>2 DEF ReadInv
  <2>2. GoneInv /\ ReadInv /\ UNCHANGED vars => GoneInv' /\ ReadInv'
    <3>1. ASSUME GoneInv, UNCHANGED vars PROVE GoneInv'
      BY <3>1 DEF vars, store, GoneInv, Smooth, Adding, Deleting, StoredVersions
    <3>2. ASSUME ReadInv, UNCHANGED vars PROVE ReadInv'
      BY <3>2 DEF vars, store, ReadInv, Reading, StoredIds
    <3> QED BY <3>1, <3>2
  <2> QED BY <2>1, <2>2 DEF Next
<1>3. Spec => []Base
  <2>1. MaxFaults \in {0, 1}
    OBVIOUS
  <2> QED BY <2>1, Named, Mapped, Cached, PTL
<1>4. Base /\ GoneInv /\ ReadInv => CallInv
  BY DEF CallInv
<1> HIDE DEF Base
<1> QED BY <1>1, <1>2, <1>3, <1>4, PTL DEF Spec

\* Concurrent calls on the repository are linearizable: with one lock, one
\* repository and a storage that does not fail, every behaviour of the methods,
\* step by step, is one in which each call takes effect at one instant.
THEOREM LinearizableHolds == ASSUME SharedLock, SharedRepo, MaxFaults = 0 PROVE Spec => Linearizable
<1>1. Init => Abstract!Init
  BY Registers DEF Init, Abstract!Init, VisibleKeys, VisibleVersions, BeingCreated, BeingAdded,
     StatusOf, CallOf, CodeOf, OutOf, NoCall, Abstract!NoCall
<1>2. CallInv /\ [Next]_vars => [Abstract!Next]_(Abstract!vars)
  <2>1. ASSUME CallInv, NEW p \in Procs, Step(p) PROVE [Abstract!Next]_(Abstract!vars)
    BY <2>1, EveryStep DEF AbstractStep
  <2>2. UNCHANGED vars => Abstract!vars' = Abstract!vars
    BY DEF vars, store, Abstract!vars, VisibleKeys, VisibleVersions, BeingCreated, BeingAdded,
       Status, VisibleCall, VisibleCode, VisibleOut
  <2> QED BY <2>1, <2>2 DEF Next
<1> QED BY <1>1, <1>2, Calling, PTL DEF Spec, Abstract!Spec, Linearizable
=============================================================================
