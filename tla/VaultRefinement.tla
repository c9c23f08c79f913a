-------------------------- MODULE VaultRefinement --------------------------
(***************************************************************************)
(* VaultRepository implements KeyRepository.  A call takes effect with the *)
(* write that completes it: CreateKey when the initial version is stored,  *)
(* AddVersion when the key record is, DeleteKey when the key record is     *)
(* deleted.  What a request has written before that point is hidden.       *)
(***************************************************************************)
EXTENDS VaultRepository

\* A key whose CreateKey has stored the record but may still undo it.
BeingCreated(i) ==
    \E p \in Procs :
      /\ call[p].op = "CreateKey" /\ call[p].id = i
      /\ pc[p] \in {"getOldVersion", "putVersion", "delGet", "uncacheName", "delName", "delKey"}

\* A version whose AddVersion has not yet updated the key record.
BeingAdded(i, v) ==
    \E p \in Procs :
      /\ call[p].op = "AddVersion" /\ call[p].id = i /\ call[p].ver = v
      /\ pc[p] \in {"updGet", "updPut", "undoVersion"}

VisibleKeys == [i \in Ids |-> IF BeingCreated(i) THEN None ELSE keys[i]]

VisibleVersions ==
    [i \in Ids |-> [v \in Vers |->
        IF VisibleKeys[i] = None \/ BeingAdded(i, v) THEN None ELSE versions[i][v]]]

Status ==
    [p \in Procs |->
        CASE pc[p] = "idle" -> "idle"
          [] pc[p] \in {"unlock", "listVersions", "delVersion"} -> "done"
          [] OTHER -> "called"]

\* GetKeyByName records the id it resolved in its call.
VisibleCall ==
    [p \in Procs |-> IF call[p].op = "GetKeyByName" THEN [call[p] EXCEPT !.id = None] ELSE call[p]]

VisibleCode == [p \in Procs |-> IF Status[p] = "done" THEN code[p] ELSE "ok"]
VisibleOut  == [p \in Procs |-> IF Status[p] = "done" THEN out[p] ELSE {}]

Abstract == INSTANCE KeyRepository WITH
    MayFail  <- MaxFaults > 0,
    keys     <- VisibleKeys,
    versions <- VisibleVersions,
    status   <- Status,
    call     <- VisibleCall,
    code     <- VisibleCode,
    out      <- VisibleOut

\* Every behaviour of the repository is one in which each call takes effect
\* at once: concurrent calls on one repository are linearizable, and a call
\* that fails has no effect.
Linearizable == Abstract!Spec

=============================================================================
