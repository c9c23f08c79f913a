--------------------------- MODULE KeyRepository ---------------------------
(***************************************************************************)
(* What a key repository promises its callers: each call takes effect at   *)
(* one instant between its invocation and its return, on a map from ids to *)
(* keys with their versions.  There are no locks, caches, name index or    *)
(* separate storage views.                                                 *)
(***************************************************************************)
EXTENDS Naturals

CONSTANTS Procs, Ids, Names, EmptyName, Vers, InitialVersion, None,
          Calls,       \* the calls requests make
          MayFail      \* whether storage may refuse a call

VARIABLES
    keys,      \* id to [name, cur], or None
    versions,  \* id and version to the request that generated its material
    status,    \* "idle", "called" or "done", per request
    call,      \* the call in progress
    code, out  \* the answer, once done

vars == <<keys, versions, status, call, code, out>>

NoCall == [op |-> "none", id |-> None, name |-> None, ver |-> None]

Init ==
    /\ keys = [i \in Ids |-> None]
    /\ versions = [i \in Ids |-> [v \in Vers |-> None]]
    /\ status = [p \in Procs |-> "idle"]
    /\ call = [p \in Procs |-> NoCall]
    /\ code = [p \in Procs |-> "ok"]
    /\ out = [p \in Procs |-> {}]

Begin(p, c) ==
    /\ status[p] = "idle"
    /\ status' = [status EXCEPT ![p] = "called"]
    /\ call' = [call EXCEPT ![p] = c]
    /\ UNCHANGED <<keys, versions, code, out>>

Answer(p, c, r) ==
    /\ status[p] = "called"
    /\ status' = [status EXCEPT ![p] = "done"]
    /\ code' = [code EXCEPT ![p] = c]
    /\ out' = [out EXCEPT ![p] = r]
    /\ UNCHANGED call

Refuse(p, c) == Answer(p, c, {}) /\ UNCHANGED <<keys, versions>>

Stored(i) == keys[i] # None
Named(n) == {i \in Ids : Stored(i) /\ keys[i].name = n}

CreateKey(p) ==
    LET c == call[p] IN
    /\ c.op = "CreateKey"
    /\ \/ (Stored(c.id) \/ Named(c.name) # {}) /\ Refuse(p, "AlreadyExists")
       \/ ~Stored(c.id) /\ c.name = EmptyName /\ Refuse(p, "InvalidArgument")
       \/ /\ ~Stored(c.id) /\ c.name # EmptyName /\ Named(c.name) = {}
          /\ keys' = [keys EXCEPT ![c.id] = [name |-> c.name, cur |-> c.ver]]
          /\ versions' = [versions EXCEPT ![c.id] =
                            [v \in Vers |-> IF v = c.ver THEN p ELSE None]]
          /\ Answer(p, "ok", {})

AddVersion(p) ==
    LET c == call[p] IN
    /\ c.op = "AddVersion"
    /\ \/ ~Stored(c.id) /\ Refuse(p, "KeyNotFound")
       \/ Stored(c.id) /\ c.ver # keys[c.id].cur + 1 /\ Refuse(p, "InvalidArgument")
       \/ /\ Stored(c.id) /\ c.ver = keys[c.id].cur + 1
          /\ versions[c.id][c.ver] # None /\ Refuse(p, "AlreadyExists")
       \/ /\ Stored(c.id) /\ c.ver = keys[c.id].cur + 1 /\ versions[c.id][c.ver] = None
          /\ keys' = [keys EXCEPT ![c.id].cur = c.ver]
          /\ versions' = [versions EXCEPT ![c.id][c.ver] = p]
          /\ Answer(p, "ok", {})

UpdateKey(p) ==
    LET c == call[p] IN
    /\ c.op = "UpdateKey"
    /\ \/ ~Stored(c.id) /\ Refuse(p, "KeyNotFound")
       \/ Stored(c.id) /\ keys[c.id].name # c.name /\ Refuse(p, "InvalidArgument")
       \/ /\ Stored(c.id) /\ keys[c.id].name = c.name
          /\ keys' = [keys EXCEPT ![c.id].cur = c.ver]
          /\ Answer(p, "ok", {}) /\ UNCHANGED versions

DeleteKey(p) ==
    LET c == call[p] IN
    /\ c.op = "DeleteKey"
    /\ \/ ~Stored(c.id) /\ Refuse(p, "KeyNotFound")
       \/ /\ Stored(c.id)
          /\ keys' = [keys EXCEPT ![c.id] = None]
          /\ versions' = [versions EXCEPT ![c.id] = [v \in Vers |-> None]]
          /\ Answer(p, "ok", {})

Find(p, ids) ==
    \/ ids = {} /\ Refuse(p, "KeyNotFound")
    \/ \E i \in ids : /\ Answer(p, "ok", {[id |-> i, key |-> keys[i]]})
                      /\ UNCHANGED <<keys, versions>>

GetKey(p) ==
    LET c == call[p] IN
    \/ c.op = "GetKeyByID" /\ Find(p, {i \in {c.id} : Stored(i)})
    \/ c.op = "GetKeyByName" /\ c.name # EmptyName /\ Find(p, Named(c.name))
    \/ c.op = "GetKeyByName" /\ c.name = EmptyName /\ Refuse(p, "InvalidArgument")

ListKeys(p) ==
    /\ call[p].op = "ListKeys"
    /\ Answer(p, "ok", {[id |-> i, key |-> keys[i]] : i \in {j \in Ids : Stored(j)}})
    /\ UNCHANGED <<keys, versions>>

\* Version 0 stands for the current version.
GetVersion(p) ==
    LET c == call[p]
        current == c.op = "GetCurrentVersion" \/ c.ver = 0
        v == IF current THEN keys[c.id].cur ELSE c.ver
    IN
    /\ c.op \in {"GetCurrentVersion", "GetVersion"}
    /\ \/ ~Stored(c.id) /\ Refuse(p, "KeyNotFound")
       \/ Stored(c.id) /\ versions[c.id][v] = None /\ Refuse(p, "KeyNotFound")
       \/ /\ Stored(c.id) /\ versions[c.id][v] # None
          /\ Answer(p, "ok", {[ver |-> v, material |-> versions[c.id][v]]})
          /\ UNCHANGED <<keys, versions>>

\* A call refused by storage has no effect.
Fail(p) == MayFail /\ Refuse(p, "StorageError")

Return(p) ==
    /\ status[p] = "done"
    /\ status' = [status EXCEPT ![p] = "idle"]
    /\ call' = [call EXCEPT ![p] = NoCall]
    /\ code' = [code EXCEPT ![p] = "ok"]
    /\ out' = [out EXCEPT ![p] = {}]
    /\ UNCHANGED <<keys, versions>>

Next == \E p \in Procs :
          \/ \E c \in Calls : Begin(p, c)
          \/ CreateKey(p) \/ UpdateKey(p) \/ AddVersion(p) \/ DeleteKey(p)
          \/ GetKey(p) \/ ListKeys(p) \/ GetVersion(p)
          \/ Fail(p) \/ Return(p)

Spec == Init /\ [][Next]_vars

=============================================================================
