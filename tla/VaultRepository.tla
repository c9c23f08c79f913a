-------------------------- MODULE VaultRepository --------------------------
(***************************************************************************)
(* The key repository of vault-storage/key/vault_repository.go.            *)
(*                                                                         *)
(* Requests call the repository's methods concurrently.  A method is a     *)
(* sequence of calls on logical.Storage and on the name-to-id cache, made  *)
(* while holding the repository's sync.RWMutex; each such call is one step *)
(* here, so that requests interleave between them.  pc[p] names the call   *)
(* request p makes next.                                                   *)
(*                                                                         *)
(* RepoOf and LockOf say how repositories were built:                      *)
(*   - one repository used by every request: both constant;                *)
(*   - WithLock, a repository (hence a cache) per request sharing one      *)
(*     lock: RepoOf injective, LockOf constant;                            *)
(*   - internal/cmd/server/wire.go, a repository per request without       *)
(*     WithLock: both injective.                                           *)
(***************************************************************************)
EXTENDS Naturals, FiniteSets, LRUCache

CONSTANTS
    Procs,           \* requests
    Ids,             \* key public ids
    Names,           \* non-empty key names
    EmptyName,       \* the name ""
    Vers,            \* version numbers, an interval of Nat (bounds uint32)
    InitialVersion,  \* corekey option InitialVersion
    Repos, Locks,    \* VaultRepository instances, RWMutexes
    RepoOf, LockOf,  \* the instance a request uses and that instance's lock
    CacheSize,       \* keyNameToIDCacheSize
    Ops,             \* the methods the requests call
    MaxFaults,       \* bound on failing storage calls
    None

WriteOps == {"CreateKey", "UpdateKey", "DeleteKey", "AddVersion"}
ReadOps  == {"GetKeyByID", "GetKeyByName", "ListKeys", "GetCurrentVersion",
             "GetVersion"}

KeyRec == [name : Names, cur : Vers]

ASSUME ConstantsAssumption ==
    /\ Vers \subseteq Nat /\ InitialVersion \in Vers
    /\ RepoOf \in [Procs -> Repos] /\ LockOf \in [Procs -> Locks]
    /\ \A p, q \in Procs : RepoOf[p] = RepoOf[q] => LockOf[p] = LockOf[q]
    /\ CacheSize \in Nat /\ MaxFaults \in Nat
    /\ Ops \subseteq WriteOps \cup ReadOps
    /\ EmptyName \notin Names
    /\ None \notin Procs \cup Ids \cup Names \cup {EmptyName} \cup Vers \cup KeyRec

\* How the repositories are shared.
SharedLock == \A p, q \in Procs : LockOf[p] = LockOf[q]
SharedRepo == \A p \in Procs, r \in Repos : RepoOf[p] = r

VARIABLES
    keys,      \* storage view key/: id to key record
    versions,  \* storage view key_version/: id, version to key material,
               \* identified by the request that generated it
    nameToID,  \* storage view key_name_to_id/
    cache,     \* each repository's name-to-id cache
    writer,    \* who is inside Lock (waiting for readers or holding it)
    readers,   \* read locks held by each request
    pc,        \* the next step of each request
    call,      \* the method and arguments of the call in progress
    snap,      \* the key record a method has read
    todo,      \* what a loop has still to visit
    out,       \* what a read will return
    code,      \* the error code the call will return, or "ok"
    faults     \* storage calls that may still fail

store == <<keys, versions, nameToID>>
locks == <<writer, readers>>
vars  == <<store, cache, locks, pc, call, snap, todo, out, code, faults>>

(***************************************************************************)
(* Calls.  Arguments a method rejects before it takes the lock (nil, ids   *)
(* that do not match, a wrong initial version, an empty KeyId) change      *)
(* nothing and are left out.  CreateKey's record carries the initial       *)
(* version as its current one, as its callers build it.  UpdateKey's       *)
(* record is whatever its caller built; the method checks nothing but its  *)
(* name.                                                                   *)
(***************************************************************************)
Arguments(op, ids, names, vs) == [op : {op} \cap Ops, id : ids, name : names, ver : vs]

Calls ==
    UNION {Arguments("CreateKey", Ids, Names \cup {EmptyName}, {InitialVersion}),
           Arguments("UpdateKey", Ids, Names, Vers),
           Arguments("DeleteKey", Ids, {None}, {None}),
           Arguments("AddVersion", Ids, {None}, Vers),
           Arguments("GetKeyByID", Ids, {None}, {None}),
           Arguments("GetKeyByName", {None}, Names \cup {EmptyName}, {None}),
           Arguments("ListKeys", {None}, {None}, {None}),
           Arguments("GetCurrentVersion", Ids, {None}, {None}),
           Arguments("GetVersion", Ids, {None}, Vers \cup {0})}

NoCall == [op |-> "none", id |-> None, name |-> None, ver |-> None]

KeyResult(i, k) == [id |-> i, key |-> k]
VersionResult(v, m) == [ver |-> v, material |-> m]

Results == [id : Ids, key : KeyRec] \cup [ver : Vers, material : Procs]

Codes == {"ok", "AlreadyExists", "KeyNotFound", "InvalidArgument", "StorageError"}

Init ==
    /\ keys = [i \in Ids |-> None]
    /\ versions = [i \in Ids |-> [v \in Vers |-> None]]
    /\ nameToID = [n \in Names |-> None]
    /\ cache = [r \in Repos |-> <<>>]
    /\ writer = [l \in Locks |-> None]
    /\ readers = [p \in Procs |-> 0]
    /\ pc = [p \in Procs |-> "idle"]
    /\ call = [p \in Procs |-> NoCall]
    /\ snap = [p \in Procs |-> None]
    /\ todo = [p \in Procs |-> {}]
    /\ out = [p \in Procs |-> {}]
    /\ code = [p \in Procs |-> "ok"]
    /\ faults = MaxFaults

-----------------------------------------------------------------------------
(* Control.                                                                *)

Goto(p, l) == pc' = [pc EXCEPT ![p] = l] /\ UNCHANGED code

\* The method returns; its deferred Unlock or RUnlock runs next.
Return(p, c) ==
    /\ pc' = [pc EXCEPT ![p] = "unlock"]
    /\ code' = [code EXCEPT ![p] = c]

\* A best-effort clean-up keeps the error that caused it.
Cleanup(p, c, l) ==
    /\ pc' = [pc EXCEPT ![p] = l]
    /\ code' = [code EXCEPT ![p] = c]

\* End of a clean-up, or of a method that has met no error.
Finish(p) == Return(p, code[p])

Begin(p, c) ==
    /\ pc[p] = "idle"
    /\ call' = [call EXCEPT ![p] = c]
    /\ Goto(p, IF c.op \in WriteOps THEN "lock" ELSE "rlock")
    /\ UNCHANGED <<store, cache, locks, snap, todo, out, faults>>

-----------------------------------------------------------------------------
(* sync.RWMutex.  Lock first excludes other writers and new readers, then  *)
(* waits for the readers it found.  RLock waits while a writer is inside   *)
(* Lock, also when the request already holds a read lock.                  *)

MyLock(p) == LockOf[p]

\* The first storage or cache call of a method, under its lock.  GetVersion(0)
\* asks for the current version.
FirstStep(c) ==
    CASE c.op = "CreateKey" -> "getOld"
      [] c.op = "UpdateKey" -> "updGet"
      [] c.op = "DeleteKey" -> "delGet"
      [] c.op = "AddVersion" -> "addGet"
      [] c.op = "GetKeyByName" -> "cacheGet"
      [] c.op = "ListKeys" -> "listKeys"
      [] c.op = "GetVersion" /\ c.ver # 0 -> "readVersion"
      [] OTHER -> "readKey"

\* Mutant: writers do not exclude each other.
LockUnguarded(p) ==
    /\ pc[p] = "lock"
    /\ writer' = [writer EXCEPT ![MyLock(p)] = p]
    /\ Goto(p, "wait")
    /\ UNCHANGED <<store, cache, readers, call, snap, todo, out, faults>>

Lock(p) ==
    /\ pc[p] = "lock"
    /\ writer[MyLock(p)] = None
    /\ writer' = [writer EXCEPT ![MyLock(p)] = p]
    /\ Goto(p, "wait")
    /\ UNCHANGED <<store, cache, readers, call, snap, todo, out, faults>>

WaitForReaders(p) ==
    /\ pc[p] = "wait"
    /\ \A q \in Procs : MyLock(q) = MyLock(p) => readers[q] = 0
    /\ Goto(p, FirstStep(call[p]))
    /\ UNCHANGED <<store, cache, locks, call, snap, todo, out, faults>>

RLock(p) ==
    /\ pc[p] = "rlock"
    /\ writer[MyLock(p)] = None
    /\ readers' = [readers EXCEPT ![p] = 1]
    /\ Goto(p, FirstStep(call[p]))
    /\ UNCHANGED <<store, cache, writer, call, snap, todo, out, faults>>

\* GetKeyByName calls GetKeyByID, which takes the read lock again.
RLockAgain(p) ==
    /\ pc[p] = "rlockAgain"
    /\ writer[MyLock(p)] = None
    /\ readers' = [readers EXCEPT ![p] = 2]
    /\ Goto(p, "readKey")
    /\ UNCHANGED <<store, cache, writer, call, snap, todo, out, faults>>

\* Mutant: a return path without the writer's unlock.
UnlockReadersOnly(p) ==
    /\ pc[p] = "unlock"
    /\ readers' = [readers EXCEPT ![p] = 0]
    /\ pc' = [pc EXCEPT ![p] = "idle"]
    /\ call' = [call EXCEPT ![p] = NoCall]
    /\ snap' = [snap EXCEPT ![p] = None]
    /\ todo' = [todo EXCEPT ![p] = {}]
    /\ out' = [out EXCEPT ![p] = {}]
    /\ code' = [code EXCEPT ![p] = "ok"]
    /\ UNCHANGED <<store, cache, writer, faults>>

\* The deferred unlocks; the caller takes the result.
Unlock(p) ==
    /\ pc[p] = "unlock"
    /\ writer' = IF call[p].op \in WriteOps
                 THEN [writer EXCEPT ![MyLock(p)] = None] ELSE writer
    /\ readers' = [readers EXCEPT ![p] = 0]
    /\ pc' = [pc EXCEPT ![p] = "idle"]
    /\ call' = [call EXCEPT ![p] = NoCall]
    /\ snap' = [snap EXCEPT ![p] = None]
    /\ todo' = [todo EXCEPT ![p] = {}]
    /\ out' = [out EXCEPT ![p] = {}]
    /\ code' = [code EXCEPT ![p] = "ok"]
    /\ UNCHANGED <<store, cache, faults>>

-----------------------------------------------------------------------------
(* CreateKey: putKey, then putKeyVersion.                                  *)

\* putKey: getKey(PublicId) must find nothing.
GetOld(p) ==
    /\ pc[p] = "getOld"
    /\ IF keys[call[p].id] # None THEN Return(p, "AlreadyExists") ELSE Goto(p, "getName")
    /\ UNCHANGED <<store, cache, locks, call, snap, todo, out, faults>>

\* Mutant: storeKeyNameToID replaces the mapping of a name in use.
GetNameUnchecked(p) ==
    /\ pc[p] = "getName"
    /\ IF call[p].name = EmptyName THEN Return(p, "InvalidArgument") ELSE Goto(p, "putName")
    /\ UNCHANGED <<store, cache, locks, call, snap, todo, out, faults>>

\* storeKeyNameToID: the name must be non-empty and unused.
GetName(p) ==
    /\ pc[p] = "getName"
    /\ CASE call[p].name = EmptyName -> Return(p, "InvalidArgument")
         [] call[p].name \in Names /\ nameToID[call[p].name] # None -> Return(p, "AlreadyExists")
         [] OTHER -> Goto(p, "putName")
    /\ UNCHANGED <<store, cache, locks, call, snap, todo, out, faults>>

PutName(p) ==
    /\ pc[p] = "putName"
    /\ nameToID' = [nameToID EXCEPT ![call[p].name] = call[p].id]
    /\ Goto(p, "cacheName")
    /\ UNCHANGED <<keys, versions, cache, locks, call, snap, todo, out, faults>>

CacheName(p) ==
    /\ pc[p] = "cacheName"
    /\ cache' = [cache EXCEPT ![RepoOf[p]] = Put(CacheSize, @, call[p].name, call[p].id)]
    /\ Goto(p, "putKey")
    /\ UNCHANGED <<store, locks, call, snap, todo, out, faults>>

PutKey(p) ==
    /\ pc[p] = "putKey"
    /\ keys' = [keys EXCEPT ![call[p].id] = [name |-> call[p].name, cur |-> call[p].ver]]
    /\ Goto(p, "getOldVersion")
    /\ UNCHANGED <<versions, nameToID, cache, locks, call, snap, todo, out, faults>>

-----------------------------------------------------------------------------
(* putKeyVersion, for CreateKey and AddVersion.                            *)

GetOldVersion(p) ==
    /\ pc[p] = "getOldVersion"
    /\ CASE versions[call[p].id][call[p].ver] = None -> Goto(p, "putVersion")
         [] call[p].op = "CreateKey" /\ versions[call[p].id][call[p].ver] # None ->
              Cleanup(p, "AlreadyExists", "delGet")
         [] OTHER -> Return(p, "AlreadyExists")
    /\ UNCHANGED <<store, cache, locks, call, snap, todo, out, faults>>

PutVersion(p) ==
    /\ pc[p] = "putVersion"
    /\ versions' = [versions EXCEPT ![call[p].id][call[p].ver] = p]
    /\ IF call[p].op = "CreateKey" THEN Finish(p) ELSE Goto(p, "updGet")
    /\ UNCHANGED <<keys, nameToID, cache, locks, call, snap, todo, out, faults>>

-----------------------------------------------------------------------------
(* AddVersion, and updateKey for AddVersion and UpdateKey.                 *)

\* Mutant: AddVersion does not require the next version number.
AddGetAnyVersion(p) ==
    /\ pc[p] = "addGet"
    /\ LET k == keys[call[p].id] IN
         IF k = None
         THEN Return(p, "KeyNotFound") /\ UNCHANGED snap
         ELSE snap' = [snap EXCEPT ![p] = k] /\ Goto(p, "getOldVersion")
    /\ UNCHANGED <<store, cache, locks, call, todo, out, faults>>

AddGet(p) ==
    /\ pc[p] = "addGet"
    /\ LET k == keys[call[p].id] IN
         CASE k = None -> Return(p, "KeyNotFound") /\ UNCHANGED snap
           [] k # None /\ call[p].ver # k.cur + 1 ->
                Return(p, "InvalidArgument") /\ UNCHANGED snap
           [] OTHER -> /\ snap' = [snap EXCEPT ![p] = k]
                       /\ Goto(p, "getOldVersion")
    /\ UNCHANGED <<store, cache, locks, call, todo, out, faults>>

\* The record to store: AddVersion's clone of the key it read, with the
\* current version advanced, or the record UpdateKey was called with.
NewRecord(p) ==
    [name |-> IF call[p].op = "AddVersion" THEN snap[p].name ELSE call[p].name,
     cur  |-> call[p].ver]

\* updateKey failed: AddVersion removes the version it stored.
UpdateFailed(p, c) ==
    IF call[p].op = "AddVersion" THEN Cleanup(p, c, "undoVersion") ELSE Return(p, c)

UpdGet(p) ==
    /\ pc[p] = "updGet"
    /\ LET k == keys[call[p].id] IN
         CASE k = None -> UpdateFailed(p, "KeyNotFound")
           [] k # None /\ k.name # NewRecord(p).name -> UpdateFailed(p, "InvalidArgument")
           [] OTHER -> Goto(p, "updPut")
    /\ UNCHANGED <<store, cache, locks, call, snap, todo, out, faults>>

UpdPut(p) ==
    /\ pc[p] = "updPut"
    /\ keys' = [keys EXCEPT ![call[p].id] = NewRecord(p)]
    /\ Finish(p)
    /\ UNCHANGED <<versions, nameToID, cache, locks, call, snap, todo, out, faults>>

UndoVersion(p) ==
    /\ pc[p] = "undoVersion"
    /\ versions' = [versions EXCEPT ![call[p].id][call[p].ver] = None]
    /\ Finish(p)
    /\ UNCHANGED <<keys, nameToID, cache, locks, call, snap, todo, out, faults>>

-----------------------------------------------------------------------------
(* deleteKey, for DeleteKey and as CreateKey's clean-up; deleteKeyNameToID *)
(* also as putKey's clean-up.  Inside deleteKey snap[p] is the key read.   *)

DelGet(p) ==
    /\ pc[p] = "delGet"
    /\ IF keys[call[p].id] = None
       THEN /\ Return(p, IF code[p] = "ok" THEN "KeyNotFound" ELSE code[p])
            /\ UNCHANGED snap
       ELSE /\ snap' = [snap EXCEPT ![p] = keys[call[p].id]]
            /\ Goto(p, "uncacheName")
    /\ UNCHANGED <<store, cache, locks, call, todo, out, faults>>

\* The name deleteKeyNameToID is called with.
DoomedName(p) == IF snap[p] = None THEN call[p].name ELSE snap[p].name

\* Mutant: a deleted mapping stays in the cache.
UncacheNothing(p) ==
    /\ pc[p] = "uncacheName"
    /\ Goto(p, "delName")
    /\ UNCHANGED <<store, cache, locks, call, snap, todo, out, faults>>

UncacheName(p) ==
    /\ pc[p] = "uncacheName"
    /\ cache' = [cache EXCEPT ![RepoOf[p]] = Remove(@, DoomedName(p))]
    /\ Goto(p, "delName")
    /\ UNCHANGED <<store, locks, call, snap, todo, out, faults>>

\* Mutant: a deleted mapping stays in storage.
DelNameNot(p) ==
    /\ pc[p] = "delName"
    /\ IF snap[p] = None THEN Finish(p) ELSE Goto(p, "delKey")
    /\ UNCHANGED <<store, cache, locks, call, snap, todo, out, faults>>

DelName(p) ==
    /\ pc[p] = "delName"
    /\ nameToID' = [nameToID EXCEPT ![DoomedName(p)] = None]
    /\ IF snap[p] = None THEN Finish(p) ELSE Goto(p, "delKey")
    /\ UNCHANGED <<keys, versions, cache, locks, call, snap, todo, out, faults>>

\* Mutant: DeleteKey leaves the versions.
DelKeyOnly(p) ==
    /\ pc[p] = "delKey"
    /\ keys' = [keys EXCEPT ![call[p].id] = None]
    /\ Finish(p)
    /\ UNCHANGED <<versions, nameToID, cache, locks, call, snap, todo, out, faults>>

DelKey(p) ==
    /\ pc[p] = "delKey"
    /\ keys' = [keys EXCEPT ![call[p].id] = None]
    /\ IF call[p].op = "DeleteKey" THEN Goto(p, "listVersions") ELSE Finish(p)
    /\ UNCHANGED <<versions, nameToID, cache, locks, call, snap, todo, out, faults>>

\* DeleteKey lists the stored versions of the id, then deletes each.
ListVersions(p) ==
    /\ pc[p] = "listVersions"
    /\ todo' = [todo EXCEPT ![p] = {v \in Vers : versions[call[p].id][v] # None}]
    /\ Goto(p, "delVersion")
    /\ UNCHANGED <<store, cache, locks, call, snap, out, faults>>

DelVersion(p) ==
    /\ pc[p] = "delVersion"
    /\ IF todo[p] = {}
       THEN Finish(p) /\ UNCHANGED <<versions, todo>>
       ELSE \E v \in todo[p] :
              /\ versions' = [versions EXCEPT ![call[p].id][v] = None]
              /\ todo' = [todo EXCEPT ![p] = @ \ {v}]
              /\ Goto(p, "delVersion")
    /\ UNCHANGED <<keys, nameToID, cache, locks, call, snap, out, faults>>

-----------------------------------------------------------------------------
(* Reads.                                                                  *)

\* resolveKeyNameToID: the cache, then storage, then the cache is filled.
CacheGet(p) ==
    /\ pc[p] = "cacheGet"
    /\ LET c == cache[RepoOf[p]] IN
         CASE call[p].name = EmptyName ->
                Return(p, "InvalidArgument") /\ UNCHANGED <<cache, call>>
           [] call[p].name # EmptyName /\ Has(c, call[p].name) ->
                /\ cache' = [cache EXCEPT ![RepoOf[p]] = Touch(@, call[p].name)]
                /\ call' = [call EXCEPT ![p].id = Value(c, call[p].name)]
                /\ Goto(p, "rlockAgain")
           [] OTHER -> Goto(p, "getMapping") /\ UNCHANGED <<cache, call>>
    /\ UNCHANGED <<store, locks, snap, todo, out, faults>>

\* Mutant: a missing mapping is used as if it were there.
GetMappingUnchecked(p) ==
    /\ pc[p] = "getMapping"
    /\ call' = [call EXCEPT ![p].id = nameToID[call[p].name]]
    /\ Goto(p, "cacheFill")
    /\ UNCHANGED <<store, cache, locks, snap, todo, out, faults>>

GetMapping(p) ==
    /\ pc[p] = "getMapping"
    /\ IF nameToID[call[p].name] = None
       THEN Return(p, "KeyNotFound") /\ UNCHANGED call
       ELSE /\ call' = [call EXCEPT ![p].id = nameToID[call[p].name]]
            /\ Goto(p, "cacheFill")
    /\ UNCHANGED <<store, cache, locks, snap, todo, out, faults>>

CacheFill(p) ==
    /\ pc[p] = "cacheFill"
    /\ cache' = [cache EXCEPT ![RepoOf[p]] = Put(CacheSize, @, call[p].name, call[p].id)]
    /\ Goto(p, "rlockAgain")
    /\ UNCHANGED <<store, locks, call, snap, todo, out, faults>>

\* getKey, for GetKeyByID (also under GetKeyByName) and the version reads.
ReadKey(p) ==
    /\ pc[p] = "readKey"
    /\ LET k == keys[call[p].id] IN
         CASE k = None -> Return(p, "KeyNotFound") /\ UNCHANGED <<snap, out>>
           [] k # None /\ call[p].op \in {"GetKeyByID", "GetKeyByName"} ->
                /\ out' = [out EXCEPT ![p] = {KeyResult(call[p].id, k)}]
                /\ Finish(p) /\ UNCHANGED snap
           [] OTHER -> /\ snap' = [snap EXCEPT ![p] = k]
                       /\ Goto(p, "readVersion") /\ UNCHANGED out
    /\ UNCHANGED <<store, cache, locks, call, todo, faults>>

\* getKeyVersion of the number asked for, or of the current version.
ReadVersion(p) ==
    /\ pc[p] = "readVersion"
    /\ LET v == IF snap[p] = None THEN call[p].ver ELSE snap[p].cur
           m == versions[call[p].id][v]
       IN IF m = None
          THEN Return(p, "KeyNotFound") /\ UNCHANGED out
          ELSE /\ out' = [out EXCEPT ![p] = {VersionResult(v, m)}]
               /\ Finish(p)
    /\ UNCHANGED <<store, cache, locks, call, snap, todo, faults>>

ListIds(p) ==
    /\ pc[p] = "listKeys"
    /\ todo' = [todo EXCEPT ![p] = {i \in Ids : keys[i] # None}]
    /\ Goto(p, "listGet")
    /\ UNCHANGED <<store, cache, locks, call, snap, out, faults>>

ListGet(p) ==
    /\ pc[p] = "listGet"
    /\ IF todo[p] = {}
       THEN Finish(p) /\ UNCHANGED <<todo, out>>
       ELSE \E i \in todo[p] :
              IF keys[i] = None
              THEN /\ Return(p, "KeyNotFound")
                   /\ out' = [out EXCEPT ![p] = {}] /\ UNCHANGED todo
              ELSE /\ out' = [out EXCEPT ![p] = @ \cup {KeyResult(i, keys[i])}]
                   /\ todo' = [todo EXCEPT ![p] = @ \ {i}]
                   /\ Goto(p, "listGet")
    /\ UNCHANGED <<store, cache, locks, call, snap, faults>>

-----------------------------------------------------------------------------
(* A storage call fails and changes nothing: the method cleans up where    *)
(* the code does and returns the error.  A value VetForWrite rejects takes *)
(* the path of the storage call that follows the check.                    *)

StorageSteps ==
    {"getOld", "getName", "putName", "putKey", "getOldVersion", "putVersion", "addGet",
     "updGet", "updPut", "undoVersion", "delGet", "delName", "delKey", "listVersions",
     "delVersion", "getMapping", "readKey", "readVersion", "listKeys", "listGet"}

\* Mutant: no clean-ups.
AfterFaultReturn(p) == "unlock"

AfterFault(p) ==
    CASE pc[p] = "putKey" -> "uncacheName"
      [] pc[p] \in {"getOldVersion", "putVersion"} /\ call[p].op = "CreateKey" -> "delGet"
      [] pc[p] \in {"updGet", "updPut"} /\ call[p].op = "AddVersion" -> "undoVersion"
      [] OTHER -> "unlock"

\* Mutant: DeleteKey drops the error of deleting a version, AddVersion that of its
\* update of the key.
StorageFaultDropped(p) ==
    /\ faults > 0 /\ pc[p] \in StorageSteps
    /\ pc[p] \in {"delVersion", "listGet"} => todo[p] # {}
    /\ pc[p] = "getName" => call[p].name # EmptyName
    /\ faults' = faults - 1
    /\ Cleanup(p, IF pc[p] \in {"delVersion", "updPut"} THEN "ok" ELSE "StorageError", AfterFault(p))
    /\ out' = [out EXCEPT ![p] = {}]
    /\ UNCHANGED <<store, cache, locks, call, snap, todo>>

StorageFault(p) ==
    /\ faults > 0 /\ pc[p] \in StorageSteps
    /\ pc[p] \in {"delVersion", "listGet"} => todo[p] # {}
    /\ pc[p] = "getName" => call[p].name # EmptyName
    /\ faults' = faults - 1
    /\ Cleanup(p, IF code[p] = "ok" THEN "StorageError" ELSE code[p], AfterFault(p))
    /\ out' = [out EXCEPT ![p] = {}]
    /\ UNCHANGED <<store, cache, locks, call, snap, todo>>

-----------------------------------------------------------------------------

Create(p) == \/ GetOld(p) \/ GetName(p) \/ PutName(p) \/ CacheName(p) \/ PutKey(p)
Write(p)  == \/ GetOldVersion(p) \/ PutVersion(p) \/ AddGet(p)
             \/ UpdGet(p) \/ UpdPut(p) \/ UndoVersion(p)
Delete(p) == \/ DelGet(p) \/ UncacheName(p) \/ DelName(p) \/ DelKey(p)
             \/ ListVersions(p) \/ DelVersion(p)
Read(p)   == \/ CacheGet(p) \/ GetMapping(p) \/ CacheFill(p) \/ ReadKey(p)
             \/ ReadVersion(p) \/ ListIds(p) \/ ListGet(p)
Acquire(p) == Lock(p) \/ RLock(p) \/ RLockAgain(p)
Proceed(p) == \/ WaitForReaders(p) \/ Unlock(p)
              \/ Create(p) \/ Write(p) \/ Delete(p) \/ Read(p)

Step(p) == \/ \E c \in Calls : Begin(p, c)
           \/ Acquire(p) \/ Proceed(p) \/ StorageFault(p)

Next == \E p \in Procs : Step(p)

Spec == Init /\ [][Next]_vars

\* A request that can go on does.  RWMutex does not starve: Unlock admits the
\* readers that wait before the next writer, and Mutex hands over after 1ms.
FairSpec == /\ Spec
            /\ \A p \in Procs : WF_vars(Proceed(p)) /\ SF_vars(Acquire(p))

-----------------------------------------------------------------------------
(* Properties.                                                             *)

WriteSteps ==
    {"getOld", "getName", "putName", "cacheName", "putKey", "getOldVersion", "putVersion",
     "addGet", "updGet", "updPut", "undoVersion", "delGet", "uncacheName", "delName",
     "delKey", "listVersions", "delVersion"}

ReadSteps ==
    {"cacheGet", "getMapping", "cacheFill", "rlockAgain", "readKey", "readVersion",
     "listKeys", "listGet"}

Steps == {"idle", "lock", "wait", "rlock", "unlock"} \cup WriteSteps \cup ReadSteps

StoreTypes ==
    /\ keys \in [Ids -> KeyRec \cup {None}]
    /\ versions \in [Ids -> [Vers -> Procs \cup {None}]]
    /\ nameToID \in [Names -> Ids \cup {None}]
    /\ cache \in [Repos -> Seq(Entries(Names, Ids))]

ControlTypes ==
    /\ writer \in [Locks -> Procs \cup {None}]
    /\ readers \in [Procs -> 0..2]
    /\ pc \in [Procs -> Steps]
    /\ code \in [Procs -> Codes]
    /\ faults \in 0..MaxFaults

RegisterTypes ==
    /\ call \in [Procs -> [op : Ops \cup {"none"}, id : Ids \cup {None},
                          name : Names \cup {EmptyName, None}, ver : Vers \cup {0, None}]]
    /\ snap \in [Procs -> KeyRec \cup {None}]
    /\ todo \in [Procs -> SUBSET (Vers \cup Ids)]
    /\ out \in [Procs -> SUBSET Results]

Types == StoreTypes /\ ControlTypes /\ RegisterTypes

\* The arguments a method has.
ArgumentsOK(c) ==
    /\ c.op \in (WriteOps \cup ReadOps) \ {"GetKeyByName", "ListKeys"} => c.id \in Ids
    /\ c.op \in {"CreateKey", "GetKeyByName"} => c.name \in Names \cup {EmptyName}
    /\ c.op = "UpdateKey" => c.name \in Names
    /\ c.op \in {"CreateKey", "UpdateKey", "AddVersion"} => c.ver \in Vers
    /\ c.op = "GetVersion" => c.ver \in Vers \cup {0}

\* The methods that come to each step.
StepOK(l, op) ==
    /\ (l = "idle") <=> (op = "none")
    /\ l \in {"lock", "wait"} => op \in WriteOps
    /\ l = "rlock" => op \in ReadOps
    /\ l \in {"getOld", "getName", "putName", "cacheName", "putKey"} => op = "CreateKey"
    /\ l \in {"getOldVersion", "putVersion"} => op \in {"CreateKey", "AddVersion"}
    /\ l \in {"addGet", "undoVersion"} => op = "AddVersion"
    /\ l \in {"updGet", "updPut"} => op \in {"AddVersion", "UpdateKey"}
    /\ l \in {"delGet", "uncacheName", "delName", "delKey"} => op \in {"CreateKey", "DeleteKey"}
    /\ l \in {"listVersions", "delVersion"} => op = "DeleteKey"
    /\ l \in {"cacheGet", "getMapping", "cacheFill", "rlockAgain"} => op = "GetKeyByName"
    /\ l = "readKey" => op \in ReadOps \ {"ListKeys"}
    /\ l = "readVersion" => op \in {"GetCurrentVersion", "GetVersion"}
    /\ l \in {"listKeys", "listGet"} => op = "ListKeys"

\* What a method has read when it comes to a step.
RegistersOK(p) ==
    /\ pc[p] \in {"idle", "lock", "wait", "rlock", "getOld", "getName", "putName", "cacheName",
                  "putKey"} => snap[p] = None
    /\ call[p].op = "CreateKey" /\ pc[p] \notin {"lock", "wait", "getOld", "getName", "unlock"}
         => call[p].name \in Names
    /\ pc[p] \in {"getMapping", "cacheFill"} => call[p].name \in Names
    /\ pc[p] \in {"cacheFill", "rlockAgain", "readKey"} => call[p].id \in Ids
    /\ call[p].op = "AddVersion"
         /\ pc[p] \in {"getOldVersion", "putVersion", "updGet", "updPut", "undoVersion"}
         => snap[p] # None
    /\ call[p].op = "DeleteKey" /\ pc[p] \in {"uncacheName", "delName"} => snap[p] # None
    /\ pc[p] = "readVersion" /\ snap[p] = None => call[p].ver \in Vers
    /\ pc[p] = "delVersion" => todo[p] \subseteq Vers
    /\ pc[p] = "listGet" => todo[p] \subseteq Ids

\* Every variable has its type, and a request is only ever at a step of the
\* method it called, with the arguments and the reads that step uses.
TypeOK ==
    /\ Types
    /\ \A r \in Repos : DistinctKeys(cache[r])
    /\ \A p \in Procs : /\ ArgumentsOK(call[p])
                        /\ StepOK(pc[p], call[p].op)
                        /\ RegistersOK(p)

InWrite(p) == \/ pc[p] \in WriteSteps
              \/ pc[p] = "unlock" /\ call[p].op \in WriteOps

\* No method that writes is between its Lock and its Unlock.
Quiet == \A p \in Procs : ~InWrite(p)

StoredVersions(i) == {v \in Vers : versions[i][v] # None}

\* CreateKey refuses a name in use: no two stored keys ever share a name.
NameUnique ==
    \A i, j \in Ids :
        keys[i] # None /\ keys[j] # None /\ keys[i].name = keys[j].name => i = j

\* Between writes the name mapping is exactly the names of the stored keys.
NamesAgree ==
    Quiet =>
      /\ \A i \in Ids : keys[i] # None => nameToID[keys[i].name] = i
      /\ \A n \in Names : nameToID[n] # None =>
            keys[nameToID[n]] # None /\ keys[nameToID[n]].name = n

\* Between writes the stored versions of a key run from the initial to the
\* current one, and a key that is gone has none: no key material outlives it.
VersionsAgree ==
    Quiet => \A i \in Ids : StoredVersions(i) =
               IF keys[i] = None THEN {} ELSE InitialVersion..keys[i].cur

\* What survives one failing storage call, thanks to the order of the writes
\* and the best-effort clean-ups: a mapped name belongs to a stored key of
\* that name, and a stored key's current version is stored.
NoDangling ==
    Quiet =>
      /\ \A n \in Names : nameToID[n] # None =>
            keys[nameToID[n]] # None /\ keys[nameToID[n]].name = n
      /\ \A i \in Ids : keys[i] # None => versions[i][keys[i].cur] # None

\* A cached name maps to the id that storage maps it to, also while a write
\* is under way and whatever storage calls failed.
CacheCoherent ==
    \A r \in Repos : \A j \in 1..Len(cache[r]) :
        nameToID[cache[r][j].key] = cache[r][j].value

\* The call of request p is about to return without error.
Acked(p, op) == pc[p] = "unlock" /\ code[p] = "ok" /\ call[p].op = op

\* A created key is stored, mapped and holds the material generated for it.
AckedCreate ==
    \A p \in Procs : Acked(p, "CreateKey") =>
        /\ keys[call[p].id] = [name |-> call[p].name, cur |-> call[p].ver]
        /\ nameToID[call[p].name] = call[p].id
        /\ versions[call[p].id][call[p].ver] = p

\* An added version is the current one and holds the material generated for
\* it: what was protected under the version AddVersion acknowledged can be
\* recovered.
AckedAdd ==
    \A p \in Procs : Acked(p, "AddVersion") =>
        /\ keys[call[p].id] # None /\ keys[call[p].id].cur = call[p].ver
        /\ versions[call[p].id][call[p].ver] = p

\* A deleted key has left no record and no key material behind.
AckedDelete ==
    \A p \in Procs : Acked(p, "DeleteKey") =>
        keys[call[p].id] = None /\ StoredVersions(call[p].id) = {}

\* A write that returns without error has done all it promises.
AckedWrite == AckedCreate /\ AckedAdd /\ AckedDelete

\* The request's next step reads the cache of its repository: a lookup of "" is
\* refused before it gets there.
ReadsCache(p) == pc[p] = "cacheGet" /\ call[p].name # EmptyName

\* ... or changes it: put always does, remove when the name is there, get when
\* it is there and not in front already (MoveToFront then does nothing).
ChangesCache(p) ==
    LET c == cache[RepoOf[p]] IN
    \/ pc[p] \in {"cacheName", "cacheFill"}
    \/ pc[p] = "uncacheName" /\ Has(c, DoomedName(p))
    \/ ReadsCache(p) /\ Touch(c, call[p].name) # c

\* No request is about to change the cache of a repository while another is
\* about to read or to change it: its map and its list carry no lock of their
\* own, and resolveKeyNameToID fills and reorders them under the read lock.
NoCacheRace ==
    \A p, q \in Procs :
      p # q /\ RepoOf[p] = RepoOf[q] /\ ChangesCache(p)
      => ~ReadsCache(q) /\ ~ChangesCache(q)

\* Stored key material is never replaced, only deleted.
VersionWriteOnce ==
    [][\A i \in Ids : \A v \in Vers :
         versions[i][v] # None => versions'[i][v] \in {versions[i][v], None}]_versions

\* Every call returns.
CallsReturn == \A p \in Procs : pc[p] # "idle" ~> pc[p] = "idle"

=============================================================================
