------------------------------ MODULE Service -------------------------------
(***************************************************************************)
(* The gRPC services: the permission gate (internal/auth), the handlers of *)
(* internal/grpc/{keymanagement,crypto,policy}, and concurrent requests    *)
(* that pass through them to the orchestrators and the policy engine.      *)
(*                                                                         *)
(* A request is admitted in one step, because nothing it does before its   *)
(* orchestrator call reads or writes a store; one that is refused changes  *)
(* nothing and is left out.  The orchestrators and the policy engine are   *)
(* external; they are modelled by what the handlers and the tests rely on. *)
(* Every request builds repositories of its own, with locks of their own   *)
(* (wire.go), so what a request reads, checks and writes are separate      *)
(* steps that those of others come between.  The three writes of a new key *)
(* are one step: until the last is made a reader finds nothing, as before  *)
(* the first.  A store that fails half-way through them is in              *)
(* VaultRepository, ListKeys in KeyListing.                                *)
(*                                                                         *)
(* A policy is its version, 0 if absent.                                   *)
(***************************************************************************)
EXTENDS Naturals

CONSTANTS
    Keys, Policies,  \* resource names
    EmptyName,       \* the empty policy name
    Tokens,          \* the claims a caller's token can carry
    Contexts,        \* scope parameters: associated data, signature context
    Calls,           \* the RPCs that are called
    Requests,        \* requests in progress
    MaxVersions,     \* bound on the versions of a key and of a policy
    None

KeysCreate  == {"CreateKey", "DeleteKey", "ImportKey"}
KeysRotate  == {"TransformKey", "MigrateKey", "RotateKey", "UpdateKeyState"}
KeysRead    == {"ReadKey", "ValidateKeyOperation", "ExportKey"}
PolicyWrites == {"CreateCryptoPolicy", "UpdateCryptoPolicy", "DeleteCryptoPolicy"}
PolicyReads  == {"ReadCryptoPolicy", "ListCryptoPolicies", "EvaluatePolicy",
                 "BatchEvaluatePolicy"}
Producers   == {"Encrypt", "Sign", "DigestSign"}
Consumers   == {"Decrypt", "Verify", "DigestVerify"}

\* RPCs whose handler is an Unimplemented stub.
Stubs == {"DeleteKey", "ImportKey", "RotateKey", "UpdateKeyState", "ExportKey",
          "UpdateKeyPolicy", "Digest", "Xof", "GenerateMAC", "VerifyMAC", "GenerateRandom",
          "SeedRandom", "DeleteCryptoPolicy", "ListCryptoPolicies", "EvaluatePolicy",
          "BatchEvaluatePolicy"}

PolicyRpcs == PolicyWrites \cup PolicyReads
Rpcs == KeysCreate \cup KeysRotate \cup KeysRead \cup PolicyRpcs \cup Producers \cup Consumers
          \cup Stubs

\* The RPC that consumes what a producer returns.
Counterpart == [Encrypt |-> "Decrypt", Sign |-> "Verify", DigestSign |-> "DigestVerify"]

Permissions == {"keys:create", "keys:rotate", "keys:update-policy", "keys:read",
                "crypto:encrypt", "crypto:decrypt", "crypto:sign", "crypto:verify",
                "crypto:misc", "policy:read", "policy:write"}

\* Claims: permissions, and the names the allow and deny patterns match.
Claims == [perms : SUBSET Permissions, allowKeys : SUBSET Keys, denyKeys : SUBSET Keys,
           allowPolicies : SUBSET Policies, denyPolicies : SUBSET Policies]

ASSUME ServiceAssumption ==
    /\ Tokens \subseteq Claims \cup {None} /\ None \notin Claims
    /\ EmptyName \notin Policies
    /\ Calls \subseteq Rpcs
    /\ MaxVersions \in Nat \ {0}
    /\ Keys # {}

VARIABLES
    enabled,   \* authEnabled
    names,     \* the name index: name to public ID, or None
    keys,      \* public ID to the key's policy and current version, or None
    versions,  \* public ID and version to key material, or None
    policies,  \* name to version
    held,      \* the last ciphertext or signature a client was given, or None
    reqs,      \* request to its state, or None
    answer,    \* what an orchestrator has just answered, and to whom, or None
    contended, \* history: the names and versions stored by raced requests
    newest     \* history: the highest version stored of each policy

store == <<names, keys, versions>>
history == <<contended, newest>>
vars == <<enabled, store, policies, held, reqs, answer, history>>

-----------------------------------------------------------------------------
(* The permission gate and the per-resource checks.                        *)

\* Mutant: MigrateKey is grouped with the slot management.
PermissionMisfiled(rpc) ==
    CASE rpc \in KeysCreate \cup {"MigrateKey"} -> "keys:create"
      [] rpc \in KeysRotate           -> "keys:rotate"
      [] rpc = "UpdateKeyPolicy"      -> "keys:update-policy"
      [] rpc \in KeysRead             -> "keys:read"
      [] rpc = "Encrypt"              -> "crypto:encrypt"
      [] rpc = "Decrypt"              -> "crypto:decrypt"
      [] rpc \in {"Sign", "DigestSign"}     -> "crypto:sign"
      [] rpc \in {"Verify", "DigestVerify"} -> "crypto:verify"
      [] rpc \in PolicyReads          -> "policy:read"
      [] rpc \in PolicyWrites         -> "policy:write"
      [] OTHER                        -> "crypto:misc"

\* policyRegistry.  The streaming and key establishment RPCs, stubs all, need
\* the permission of the operation they stream, or crypto:misc.
Permission(rpc) ==
    CASE rpc \in KeysCreate           -> "keys:create"
      [] rpc \in KeysRotate           -> "keys:rotate"
      [] rpc = "UpdateKeyPolicy"      -> "keys:update-policy"
      [] rpc \in KeysRead             -> "keys:read"
      [] rpc = "Encrypt"              -> "crypto:encrypt"
      [] rpc = "Decrypt"              -> "crypto:decrypt"
      [] rpc \in {"Sign", "DigestSign"}     -> "crypto:sign"
      [] rpc \in {"Verify", "DigestVerify"} -> "crypto:verify"
      [] rpc \in PolicyReads          -> "policy:read"
      [] rpc \in PolicyWrites         -> "policy:write"
      [] OTHER                        -> "crypto:misc"

\* The interceptor that Build installs, with requirePerm.
Gate(c, rpc) ==
    IF ~enabled THEN "OK"
    ELSE IF c = None THEN "Unauthenticated"
    ELSE IF Permission(rpc) \in c.perms THEN "OK"
    ELSE "PermissionDenied"

AuthorizeKey(c, n) ==
    enabled => c # None /\ n \in c.allowKeys /\ n \notin c.denyKeys

AuthorizePolicy(c, p) ==
    enabled => c # None /\ p \in c.allowPolicies /\ p \notin c.denyPolicies

\* CryptoPolicyService: the name is required before anything is checked.
PolicyHandler(c, q) ==
    IF q.policy = EmptyName THEN "InvalidArgument"
    ELSE IF ~AuthorizePolicy(c, q.policy) THEN "PermissionDenied"
    ELSE IF q.bad THEN "InvalidArgument"
    ELSE "OK"

\* Mutant: the key is looked up before the caller is checked.
KeyHandlerReadsFirst(c, q) ==
    IF ~AuthorizeKey(c, q.key) /\ q.rpc # "ReadKey" THEN "PermissionDenied"
    ELSE IF /\ q.rpc = "CreateKey" /\ q.policy # EmptyName
            /\ ~AuthorizePolicy(c, q.policy) THEN "PermissionDenied"
    ELSE IF q.bad THEN "InvalidArgument"
    ELSE "OK"

\* KeyManagementService and CryptoService: the checks come first.
KeyHandler(c, q) ==
    IF ~AuthorizeKey(c, q.key) THEN "PermissionDenied"
    ELSE IF /\ q.rpc = "CreateKey" /\ q.policy # EmptyName
            /\ ~AuthorizePolicy(c, q.policy) THEN "PermissionDenied"
    ELSE IF q.bad THEN "InvalidArgument"
    ELSE "OK"

\* What the server says before it calls an orchestrator.
Admission(c, q) ==
    IF Gate(c, q.rpc) # "OK" THEN Gate(c, q.rpc)
    ELSE IF q.rpc \in Stubs THEN "Unimplemented"
    ELSE IF q.rpc \in PolicyRpcs THEN PolicyHandler(c, q)
    ELSE KeyHandler(c, q)

-----------------------------------------------------------------------------

\* A public ID is unique: no request creates a name twice, as none is removed.
Ids == Keys \X Requests

Versions == 1..MaxVersions

\* Key material is told apart by the key and version it was made for and the
\* request that made it.
Materials == Ids \X Versions \X Requests

\* A ciphertext or a signature with the metadata it was returned with.
Artefacts == [rpc : Producers, key : Keys, material : Materials,
              version : Versions, context : Contexts \cup {None}]

\* A request: bad, a field the handler refuses; version, the key version of
\* the metadata sent back or the expected version of a policy (0 if unset);
\* art, the ciphertext or signature.
Queries == [rpc : Rpcs, key : Keys, policy : Policies \cup {EmptyName}, bad : BOOLEAN,
            version : 0..MaxVersions, context : Contexts \cup {None},
            art : Artefacts \cup {None}]

Init ==
    /\ enabled \in BOOLEAN
    /\ names = [n \in Keys |-> None]
    /\ keys = [i \in Ids |-> None]
    /\ versions = [i \in Ids |-> [v \in Versions |-> None]]
    /\ policies = [p \in Policies |-> 0]
    /\ held = None
    /\ reqs = [r \in Requests |-> None]
    /\ answer = None
    /\ contended = {}
    /\ newest = [p \in Policies |-> 0]

\* A new request is admitted with its caller's claims.
Receive(r, c, q) ==
    /\ Admission(c, q) = "OK"
    /\ reqs' = [reqs EXCEPT ![r] = [claims |-> c, q |-> q, at |-> "read",
                                    id |-> None, seen |-> 0, raced |-> FALSE]]
    /\ answer' = None
    /\ UNCHANGED <<enabled, store, policies, held, history>>

At(r, step, rpcs) == reqs[r] # None /\ reqs[r].at = step /\ reqs[r].q.rpc \in rpcs

Answer(r, status, result) ==
    answer' = [claims |-> reqs[r].claims, q |-> reqs[r].q, status |-> status, result |-> result]

Reply(r, status, result) ==
    /\ Answer(r, status, result)
    /\ reqs' = [reqs EXCEPT ![r] = None]

\* The orchestrator has read version v, of the key with the given ID.
Proceed(r, step, id, v) ==
    /\ reqs' = [reqs EXCEPT ![r].at = step, ![r].id = id, ![r].seen = v]
    /\ answer' = None

KeyWrites == {"CreateKey", "TransformKey", "MigrateKey"}

\* Two requests that write the same key or the same policy.
SameTarget(a, b) ==
    \/ a.rpc \in KeyWrites /\ b.rpc \in KeyWrites /\ a.key = b.key
    \/ a.rpc \in PolicyWrites /\ b.rpc \in PolicyWrites /\ a.policy = b.policy

\* What r stores comes between the check and the write of every request that is
\* about to write the same: that one has raced.
Wrote(r, next) ==
    reqs' = [s \in Requests |->
               IF s = r THEN next
               ELSE IF reqs[s] = None THEN None
               ELSE [reqs[s] EXCEPT !.raced =
                       @ \/ (reqs[s].at = "write" /\ SameTarget(reqs[s].q, reqs[r].q))]]

-----------------------------------------------------------------------------
(* Key management.                                                         *)

\* A policy that was read is never removed; the name is looked up last ...
CheckName(r) ==
    LET q == reqs[r].q
    IN /\ At(r, "read", {"CreateKey"})
       /\ IF q.policy = EmptyName THEN Reply(r, "InvalidArgument", "none")
          ELSE IF policies[q.policy] = 0 THEN Reply(r, "NotFound", "none")
          ELSE IF names[q.key] # None THEN Reply(r, "AlreadyExists", "none")
          ELSE Proceed(r, "write", <<q.key, r>>, 0)
       /\ UNCHANGED <<enabled, store, policies, held, history>>

\* ... and the name, the key and its first version are stored, whatever another
\* request has stored since.
CreateKey(r) ==
    LET q == reqs[r].q
        i == reqs[r].id
    IN /\ At(r, "write", {"CreateKey"})
       /\ names' = [names EXCEPT ![q.key] = i]
       /\ keys' = [keys EXCEPT ![i] = [policy |-> q.policy, current |-> 1]]
       /\ versions' = [versions EXCEPT ![i][1] = <<i, 1, r>>]
       /\ contended' = contended \cup (IF reqs[r].raced THEN {q.key} \X Versions ELSE {})
       /\ Answer(r, "OK", "none")
       /\ Wrote(r, None)
       /\ UNCHANGED <<enabled, policies, held, newest>>

\* ReadKey and ValidateKeyOperation.
ReadKey(r) ==
    /\ At(r, "read", {"ReadKey", "ValidateKeyOperation"})
    /\ Reply(r, IF names[reqs[r].q.key] = None THEN "NotFound" ELSE "OK", "none")
    /\ UNCHANGED <<enabled, store, policies, held, history>>

\* The orchestrator resolves the name and reads the key: GetKeyByName.
ReadCurrent(r) ==
    LET q == reqs[r].q
        i == names[q.key]
    IN /\ At(r, "read", {"TransformKey", "MigrateKey"} \cup Producers \cup Consumers)
       /\ IF i = None THEN Reply(r, "NotFound", "none")
          ELSE Proceed(r, IF q.rpc \in KeysRotate THEN "check" ELSE "use", i, keys[i].current)
       /\ UNCHANGED <<enabled, store, policies, held, history>>

\* TransformKey and MigrateKey add the successor of the version they read.  The
\* repository finds that version still current and its successor missing ...
CheckVersion(r) ==
    LET i == reqs[r].id
        v == reqs[r].seen
    IN /\ At(r, "check", {"TransformKey", "MigrateKey"})
       /\ \/ keys[i].current # v /\ Reply(r, "InvalidArgument", "none")
          \/ /\ keys[i].current = v /\ v < MaxVersions
             /\ IF versions[i][v + 1] # None THEN Reply(r, "AlreadyExists", "none")
                ELSE Proceed(r, "write", i, v)
       /\ UNCHANGED <<enabled, store, policies, held, history>>

\* ... stores it (keep, when the request retains the key bytes or its strategy
\* copies them) ...
AddVersion(r, keep) ==
    LET i == reqs[r].id
        v == reqs[r].seen
    IN /\ At(r, "write", {"TransformKey", "MigrateKey"})
       /\ versions' = [versions EXCEPT ![i][v + 1] =
                         IF keep THEN versions[i][v] ELSE <<i, v + 1, r>>]
       /\ contended' = contended \cup (IF reqs[r].raced THEN {<<reqs[r].q.key, v + 1>>} ELSE {})
       /\ answer' = None
       /\ Wrote(r, [reqs[r] EXCEPT !.at = "current"])
       /\ UNCHANGED <<enabled, names, keys, policies, held, newest>>

\* ... and makes it the current one of the key as it was read.
UpdateKey(r) ==
    /\ At(r, "current", {"TransformKey", "MigrateKey"})
    /\ keys' = [keys EXCEPT ![reqs[r].id].current = reqs[r].seen + 1]
    /\ Reply(r, "OK", "none")
    /\ UNCHANGED <<enabled, names, versions, policies, held, history>>

-----------------------------------------------------------------------------
(* Cryptographic operations.                                               *)

\* Encrypt, Sign and DigestSign use the current version and return it in the
\* metadata.
Produce(r) ==
    LET q == reqs[r].q
        v == reqs[r].seen
    IN /\ At(r, "use", Producers)
       /\ held' = [rpc |-> q.rpc, key |-> q.key, material |-> versions[reqs[r].id][v],
                   version |-> v, context |-> q.context]
       /\ Reply(r, "OK", "none")
       /\ UNCHANGED <<enabled, store, policies, history>>

\* Mutant: the metadata's key version is not passed on.
KeyVersionUnset(q) == 0

\* KeyVersion of crypto.DecryptRequest, VerifyRequest and DigestVerifyRequest.
KeyVersion(q) == q.version

\* Decrypt, Verify and DigestVerify, with the version of the metadata or, when
\* it is unset, the current one.
Consume(r) ==
    LET q == reqs[r].q
        v == IF KeyVersion(q) = 0 THEN reqs[r].seen ELSE KeyVersion(q)
        m == versions[reqs[r].id][v]
    IN /\ At(r, "use", Consumers)
       /\ IF m = None
          THEN Reply(r, "NotFound", "none")
          ELSE Reply(r, "OK", IF q.art.material = m /\ q.art.context = q.context
                              THEN "valid" ELSE "invalid")
       /\ UNCHANGED <<enabled, store, policies, held, history>>

-----------------------------------------------------------------------------
(* Policies.                                                               *)

ReadPolicy(r) ==
    LET v == policies[reqs[r].q.policy]
    IN /\ At(r, "read", {"ReadCryptoPolicy"})
       /\ IF v = 0 THEN Reply(r, "NotFound", "none") ELSE Reply(r, "OK", "none")
       /\ UNCHANGED <<enabled, store, policies, held, history>>

\* Mutant: only an expected version that was never stored is refused.
CheckPolicyNotStale(r) ==
    LET q == reqs[r].q
        v == policies[q.policy]
    IN /\ At(r, "read", {"CreateCryptoPolicy", "UpdateCryptoPolicy"})
       /\ \/ q.rpc = "CreateCryptoPolicy" /\ v > 0 /\ Reply(r, "AlreadyExists", "none")
          \/ q.rpc = "UpdateCryptoPolicy" /\ v = 0 /\ Reply(r, "NotFound", "none")
          \/ /\ q.rpc = "UpdateCryptoPolicy" /\ v > 0 /\ q.version > v
             /\ Reply(r, "FailedPrecondition", "none")
          \/ /\ IF q.rpc = "CreateCryptoPolicy" THEN v = 0 ELSE v > 0 /\ q.version <= v
             /\ v < MaxVersions
             /\ Proceed(r, "write", None, v)
       /\ UNCHANGED <<enabled, store, policies, held, history>>

\* The engine reads the stored policy: a new one must be absent, an old one
\* must have the expected version ...
CheckPolicy(r) ==
    LET q == reqs[r].q
        v == policies[q.policy]
    IN /\ At(r, "read", {"CreateCryptoPolicy", "UpdateCryptoPolicy"})
       /\ \/ q.rpc = "CreateCryptoPolicy" /\ v > 0 /\ Reply(r, "AlreadyExists", "none")
          \/ q.rpc = "UpdateCryptoPolicy" /\ v = 0 /\ Reply(r, "NotFound", "none")
          \/ /\ q.rpc = "UpdateCryptoPolicy" /\ v > 0 /\ q.version \notin {0, v}
             /\ Reply(r, "FailedPrecondition", "none")
          \/ /\ IF q.rpc = "CreateCryptoPolicy" THEN v = 0 ELSE v > 0 /\ q.version \in {0, v}
             /\ v < MaxVersions
             /\ Proceed(r, "write", None, v)
       /\ UNCHANGED <<enabled, store, policies, held, history>>

\* ... and a second store call writes it, whatever is stored by then.
WritePolicy(r) ==
    LET p == reqs[r].q.policy
        v == reqs[r].seen + 1
    IN /\ At(r, "write", {"CreateCryptoPolicy", "UpdateCryptoPolicy"})
       /\ policies' = [policies EXCEPT ![p] = v]
       /\ newest' = [newest EXCEPT ![p] = IF v > @ THEN v ELSE @]
       /\ Answer(r, "OK", "none")
       /\ Wrote(r, None)
       /\ UNCHANGED <<enabled, store, held, contended>>

-----------------------------------------------------------------------------

\* The crypto policy, a provider or the store refuses before anything is stored.
Refuse(r) ==
    /\ reqs[r] # None /\ reqs[r].at # "current"
    /\ Reply(r, "Refused", "none")
    /\ UNCHANGED <<enabled, store, policies, held, history>>

\* The requests callers send, with a fixed value in the fields an RPC lacks.
Query(rpc, n, p, bad, v, x, a) ==
    [rpc |-> rpc, key |-> n, policy |-> p, bad |-> bad, version |-> v, context |-> x, art |-> a]

SomeKey == CHOOSE n \in Keys : TRUE

AskKey(r, c) ==
    \/ \E o \in Calls \cap (KeysRead \cup KeysRotate \cup Stubs), n \in Keys, b \in BOOLEAN :
         Receive(r, c, Query(o, n, EmptyName, b, 0, None, None))
    \/ \E o \in Calls \cap KeysCreate, n \in Keys, p \in Policies \cup {EmptyName}, b \in BOOLEAN :
         Receive(r, c, Query(o, n, p, b, 0, None, None))

AskPolicy(r, c) ==
    \E o \in Calls \cap PolicyRpcs, p \in Policies \cup {EmptyName}, b \in BOOLEAN,
       v \in 0..MaxVersions :
      /\ v # 0 => o = "UpdateCryptoPolicy"
      /\ Receive(r, c, Query(o, SomeKey, p, b, v, None, None))

AskCrypto(r, c) ==
    \E o \in Calls \cap Producers, n \in Keys, x \in Contexts :
      Receive(r, c, Query(o, n, EmptyName, FALSE, 0, x, None))

\* The caller presents what it holds, perhaps under another name, with other
\* parameters or without the metadata.
Present(r, c) ==
    /\ held # None
    /\ \E n \in Keys, v \in {0, held.version}, x \in Contexts :
         Receive(r, c, Query(Counterpart[held.rpc], n, EmptyName, FALSE, v, x, held))

Next == \E r \in Requests :
    \/ /\ reqs[r] = None
       /\ \E c \in IF enabled THEN Tokens ELSE {None} :
            AskKey(r, c) \/ AskPolicy(r, c) \/ AskCrypto(r, c) \/ Present(r, c)
    \/ CheckName(r) \/ CreateKey(r) \/ ReadKey(r) \/ ReadCurrent(r)
    \/ CheckVersion(r) \/ (\E keep \in BOOLEAN : AddVersion(r, keep)) \/ UpdateKey(r)
    \/ Produce(r) \/ Consume(r)
    \/ ReadPolicy(r) \/ CheckPolicy(r) \/ WritePolicy(r)
    \/ Refuse(r)

Spec == Init /\ [][Next]_vars

-----------------------------------------------------------------------------
(* Properties.                                                             *)

Pending == [claims : Tokens \cup {None}, q : Queries,
            at : {"read", "check", "write", "current", "use"}, id : Ids \cup {None},
            seen : 0..MaxVersions, raced : BOOLEAN]

Answers == [claims : Tokens \cup {None}, q : Queries,
            status : {"OK", "NotFound", "AlreadyExists", "InvalidArgument",
                      "FailedPrecondition", "Refused"},
            result : {"valid", "invalid", "none"}]

StoredKeys == [policy : Policies, current : Versions]

\* What is absent is none of what may be present (a nil pointer, not a struct).
ASSUME RequestAssumption == None \notin Pending \cup Ids \cup Materials \cup StoredKeys

\* Every variable has its type.
TypeOK ==
    /\ enabled \in BOOLEAN
    /\ names \in [Keys -> Ids \cup {None}]
    /\ keys \in [Ids -> StoredKeys \cup {None}]
    /\ versions \in [Ids -> [Versions -> Materials \cup {None}]]
    /\ policies \in [Policies -> 0..MaxVersions]
    /\ held \in Artefacts \cup {None}
    /\ reqs \in [Requests -> Pending \cup {None}]
    /\ answer \in Answers \cup {None}
    /\ contended \in SUBSET (Keys \X Versions)
    /\ newest \in [Policies -> 0..MaxVersions]

\* A request whose claims the two layers accept for a change of key n, or of
\* policy p, under the permission perm.
MayChangeKey(r, perm, n) ==
    /\ reqs[r] # None /\ reqs[r].claims # None
    /\ perm \in reqs[r].claims.perms
    /\ n \in reqs[r].claims.allowKeys \ reqs[r].claims.denyKeys

MayUsePolicy(r, p) ==
    /\ reqs[r] # None /\ reqs[r].claims # None
    /\ p \in reqs[r].claims.allowPolicies \ reqs[r].claims.denyPolicies

AuthorizedStep ==
    enabled =>
      /\ \A n \in Keys : names'[n] # names[n] =>
           \E r \in Requests : /\ MayChangeKey(r, "keys:create", n)
                               /\ MayUsePolicy(r, keys'[names'[n]].policy)
      /\ \A i \in Ids : keys[i] # None /\ (keys'[i] # keys[i] \/ versions'[i] # versions[i]) =>
           \E r \in Requests : MayChangeKey(r, "keys:rotate", i[1])
      /\ \A p \in Policies : policies'[p] # policies[p] =>
           \E r \in Requests : MayUsePolicy(r, p) /\ "policy:write" \in reqs[r].claims.perms

\* With authorization on, every change of the stores is made by a request in
\* progress whose claims hold the permission for that kind of change
\* (creation, key material, policies) and cover the key and the policy.
EffectsAuthorized == [][AuthorizedStep]_vars

\* An orchestrator answers only a caller whose claims cover the key or the
\* policy: nobody else learns whether it exists, or what its key yields.
NothingLearned ==
    (enabled /\ answer # None) =>
        /\ answer.claims # None
        /\ IF answer.q.rpc \in PolicyRpcs
           THEN answer.q.policy \in answer.claims.allowPolicies \ answer.claims.denyPolicies
           ELSE answer.q.key \in answer.claims.allowKeys \ answer.claims.denyKeys
        /\ answer.q.rpc = "Decrypt" => "crypto:decrypt" \in answer.claims.perms

\* A ciphertext or signature presented with the metadata it came with is
\* found good, however often the key was transformed or migrated in between,
\* unless two requests raced to store that version or to create the key; and
\* whatever is found good was made with that key and those parameters.
RoundTrip ==
    (answer # None /\ answer.q.rpc \in Consumers) =>
      LET q == answer.q
          echoed == /\ q.key = q.art.key /\ q.version = q.art.version
                    /\ q.context = q.art.context
      IN /\ /\ echoed /\ answer.status # "Refused"
            /\ <<q.key, q.version>> \notin contended
            => answer.result = "valid"
         /\ answer.result = "valid" => q.key = q.art.key /\ q.context = q.art.context

\* A policy write that no other write of the policy came in between replaces
\* what its caller expected: nothing, or the expected version.
LostOnlyInRace ==
    [][\A r \in Requests, p \in Policies :
         /\ reqs[r] # None /\ reqs'[r] = None /\ policies'[p] # policies[p]
         /\ ~reqs[r].raced
         => /\ policies'[p] = policies[p] + 1
            /\ reqs[r].q.rpc = "CreateCryptoPolicy" => policies[p] = 0
            /\ reqs[r].q.rpc = "UpdateCryptoPolicy" => reqs[r].q.version \in {0, policies[p]}]_vars

\* A stale expected_version is refused: an update that expects a version goes on
\* to its write only when no later version of the policy has been stored.  This
\* is what the comment of UpdateCryptoPolicy says of it; a write delayed in a
\* race takes the stored version back, and it no longer holds.
StaleRefused ==
    [][\A r \in Requests :
         /\ At(r, "read", {"UpdateCryptoPolicy"}) /\ At(r, "write", {"UpdateCryptoPolicy"})'
         => reqs[r].q.version \in {0, newest[reqs[r].q.policy]}]_vars

=============================================================================
