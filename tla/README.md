# citius-server in TLA+

Specifications of the citius key management server, the TLC runs that check them
and the TLAPS proofs about them. Sections 1 and 2 describe the system and the
modules, 3 the runs, 4 the proofs, 5 what the checks found, 6 what is left out,
7 what comes next. `PROJECT.json` holds the details: which source lines each
definition translates, the mutation that shows each property can fail, and the
hazards of the code with the properties that watch them.

## 1. The system

A client calls gRPC services. An interceptor checks the token's permission for
the RPC, the handler checks the claims for the named key or policy and validates
the request, and hands it to an orchestrator or to the policy engine (both in
citius-core, another repository). These work on repositories over one
`logical.Storage`, and on crypto providers.

    client --> interceptor --> handler --> orchestrator / engine --> repository --> logical.Storage
               (auth)          (grpc/*)    (citius-core)             (vault-storage)
                                              |
                                              +--> provider (software, openssl)

`internal/cmd/server/wire.go` builds the chain. Its orchestrators come from
factories that run per request, so each request has a repository, a lock and a
cache of its own over the shared storage.

| Component | State | Operations | What makes it correct |
|---|---|---|---|
| Key repository (`vault-storage/key/vault_repository.go`) | three storage views (keys, versions, name to id), an RWMutex, a cache | CreateKey, UpdateKey, DeleteKey, AddVersion, five reads | calls are atomic to each other, names unique, views agree, material written once, failures leave nothing half done |
| Name cache (`vault-storage/key/cache.go`) | list and map | get, put, remove | latest value, LRU order, bounded, map and list agree |
| Key listing (`grpc/keymanagement/list_keys.go`, `grpc/paging`) | none; the client holds an offset | ListKeys | a walk misses no key, own tokens are accepted, pages partition a listing that stays |
| Authorization (`internal/auth`) | permission table | the interceptor, AuthorizeKey, AuthorizePolicy | no effect and no answer without the permission and a covering claim |
| Key management, crypto and policy services (`internal/grpc/*`) | none | one handler per RPC | checks before effects; a ciphertext or signature stays usable; policy updates are not lost silently |
| Policy repository (`vault-storage/policy`) | one storage view, a lock | Get, Put, Delete, List | each call atomic |
| Template registry and discovery (`vault-storage/template`, `grpc/discovery`) | stored templates | Register, Get, List, Select; ListScopes, ListTemplates, GetTemplate | discovery and key creation agree, also over failing reads |
| Provider service (`grpc/provider`) | registered instances | list, get and match instances and providers | what is matched is what key creation picks |
| Start-up and wiring (`internal/cmd/server`, `internal/app`) | handlers, registries | load, register, validate | serves whatever becomes of optional parts, and only what it can serve |
| Software and OpenSSL providers (`internal/provider`) | none | generate, sign, verify, encrypt, decrypt, transfer | each other's keys, signatures and ciphertexts work; same refusals; a key is used only as what it is |
| Bootstrap commands (`bootstrap/zitadel/setup-auth`) | the identity provider, two files | apply, users, verify, validate | safe to run again after any failure; secrets are kept and never mismatched |

What is hard here, and hard to test:

- *Interleaving.* Every repository method is several storage calls; what another
  request sees between them depends on how locks are shared. The policy engine
  compares the expected version in one store call and writes in another.
- *Failure.* Each storage call may fail, and the clean-up after it as well.
- *Locking.* A reader acquires the read lock twice; cache reads modify the cache.
- *Change under a client's feet.* A page token is an offset into a listing that is
  recomputed; a ciphertext outlives the key version that made it.
- *Two implementations of one promise.* A key may be made by one provider, moved to
  the other and used there; their checks, encodings and parameters are written twice.
- *Optional parts.* A FIPS provider may be missing; a template may be unreadable.
- *Crash between two stores.* The bootstrap creates secrets at the identity provider
  and writes the file that holds them later; a secret is shown only once.
- *Layered checks.* Authorization is a table in one package and calls in others.

## 2. Modules

| Module | Models | Role |
|---|---|---|
| `LRUCache` | `cache.go` | the cache as a sequence, most recent first: `Touch`, `Put`, `Remove` |
| `LRUCacheSpec` | | the cache beside a record of what was used and put when |
| `VaultRepository` | `vault_repository.go`, the wiring of `wire.go` | the key repository, one action per storage or cache call |
| `KeyRepository` | the repository's interface | abstract: each call takes effect in one step |
| `VaultRefinement` | | refinement mapping from the first to the second |
| `KeyListing` | `list_keys.go`, `paging.go` | clients that page while keys and claims change |
| `Service` | `internal/auth`, the handlers, the policy repository | concurrent requests of every kind |
| `Lists` | loops that append some members of a list | `InOrder`, shared by the next ones and by `TemplateRegistry` |
| `AccessList` | `acl.go`, `operations.go` | the access list's validation, permissions and normal form |
| `Bootstrap` | `setup-auth/main.go`, `bootstrap.sh` reset and nuke | the commands, step by step, over identity provider and files |
| `Algorithms` | `proto/standard_algorithms` | algorithm details, the catalogue, symbolic hashing, checks and answers |
| `SoftwareProvider`, `OpenSSLProvider` | `internal/provider/software`, `.../openssl` | each provider's operations as functions of details, key and request |
| `TemplateRegistry` | `vault_registry.go`, `grpc/discovery` | storage of templates, selection and discovery, as functions |
| `ProviderRegistry` | `grpc/provider` | ranking (core's) and the provider handlers, as functions |
| `Deployment` | `wire.go`, `validate.go` | start-up, queries, and one key's life; composes the five above |
| `MC*` | | values of the constants for TLC |
| `*Proofs` | | theorems |

**VaultRepository.** `keys`, `versions` and `nameToID` are the storage views;
`cache` has one cache per repository; `writer` and `readers` are the RWMutex: a
writer announces itself (`Lock`), waits for the readers inside
(`WaitForReaders`), and holds up new readers from its announcement on, which is
what `sync.RWMutex` does. `pc[p]` names the storage or cache call that request
`p` makes next, `call` its arguments, `snap` the record it read, `todo` what a
loop has left, `out` and `code` its result. `CreateKey` is the longest path:
`GetOld`, `GetName`, `PutName`, `CacheName`, `PutKey`, `GetOldVersion`,
`PutVersion`, and after a failure the clean-up `DelGet`, `UncacheName`,
`DelName`, `DelKey`, which is the body of `deleteKey` and is shared with
`DeleteKey` as in the code. `StorageFault` makes the storage call at `pc[p]` fail
and takes the path the code takes then; `MaxFaults` bounds how often. Key
material is identified by the request that generated it, so overwriting shows.
`RepoOf` and `LockOf` give the constructions the code allows: one repository for
all, repositories that share a lock (`WithLock`), and `wire.go`'s repository and
lock per request.

**KeyRepository.** A call is invoked, takes effect or fails in one step, and
returns. `VaultRefinement` maps to it: a key under construction or a version
whose record is not yet updated is hidden, and a call is done when it reaches its
unlock (DeleteKey: once the record is deleted, which hides the versions still
being removed).

**KeyListing.** Names are numbers in their sort order; a page is the keys whose
rank in the listing lies in the window. A listing is the set of keys that exist,
match the filter and are visible to the claims. `ListPage` is the whole handler:
listing, `Window`, page, next token. Other requests create keys, move them to
another provider (`ReplaceVersion`) or come with other claims (`Regrant`).
`Observe` records in the walk whether its listing changed or lost a key; that is
history for the properties and influences nothing.

**Service.** `Admission` is interceptor, stub and handler checks in the code's
order. It is one step, because nothing before the orchestrator call reads a
store; a refused request has no effect and does not appear. Each request builds a
repository with a lock of its own (`wire.go:232`), so its reads, its check and its
writes are separate steps that those of other requests come between: `CheckName`,
`CreateKey`; `ReadCurrent`, `CheckVersion`, `AddVersion`, `UpdateKey`; `ReadCurrent`,
`Produce` or `Consume`; `CheckPolicy`, `WritePolicy`. Keys and versions are stored
under public IDs, and `names` leads to the ID, so two creations of a name leave two
keys of which one is found. The three writes of a creation are one step, since a reader
finds nothing until the last; failures between them are in `VaultRepository`.
Material is an ID, a version and the request that generated it, so equal material means
retained bytes. `held` is the last ciphertext or signature some client was given;
`Present` sends it back, also under another key name, with other parameters or without
the version. `raced` marks a request into whose check and write another write of the
same key or policy fell. `contended` (what raced requests stored) and `newest` (the
highest version stored of a policy) are history for the properties.

What the orchestrators and the engine do is outside this repository. The model
takes it from how the handlers use them and from the tests: the AddVersion calls
and version numbers from `internal/service/key_orchestrator_test.go:268` and
`test/smoke/crypto/migrate_smoke_test.go`, use of the metadata's version from
`internal/service/crypto_verify_test.go:113`, policy versions from
`test/smoke/crypto/response_fields_smoke_test.go:147-180`. `Refuse` is every refusal
by a crypto policy, a provider or the store; it can happen to any request.

**Bootstrap.** `file` is `acl.yaml`, `idp` the identity provider's objects (0, or an
identifier that is new each time the object is created), `created` the identifiers
used up, `generated` and `ui` the two output files, `cmd` the running command with
its program counter and what it has collected, `status` how the last one ended.
Each call to the provider is a step. `CallFails` is a call that fails before or
after it took effect, `Interrupt` the death of the command at any point; between
commands the operator edits the list (`EditACL`), deletes objects, or runs `cmd_reset`
or `cmd_nuke`, which may stop half-way and leave the provider as it is when there is no
`.env` (`bootstrap.sh:670`). `ReadFails` is an apply that cannot read the file it is
about to replace: it goes on as if there were none (`main.go:234`). A secret is written
as the identifier of the client it belongs to, so a secret beside the wrong client
shows; `fresh` holds the created and updated flags of the results.

So three things take the secret of an existing client out of the file although the
command succeeds: apply for a user who left the list, apply after a failed read, and a
wipe of the files without the volumes (`Forgets`). `FileKeepsSecrets` and
`SecretsAccountedFor` say that nothing else does, and `ReapplyChangesNothing` excepts a
failed read and the flags.

**Providers.** Each check of the Go code is a `Require` with its error code, chained
in the code's order; `Answer` gives the first that fails or else what the primitive
was given. A signature or ciphertext is exactly that record with the key's identity,
so two providers agree if and only if they hash, pad, encode and parametrise alike.
`Verify` gives the record that a valid signature has; `Check` and `Good` are the reply and
the verdict of whichever provider holds the key. Key material has a type, a
size and the encodings of its halves, which is what the parsers look at.

**Deployment.** `config` fixes the environment (catalogue, libcrypto, what becomes of
the FIPS context, when writes fail); `phase`, `loaded` and `backends` are the steps of
`wireFactoriesWithStorage`. Then a client asks a discovery or provider RPC, creates a
key by template or scope, from candidates or not, on a named instance or not, uses it,
checks what it got with the same or other parameters, and migrates it. `answer` is the
client's last answer. `CreateKey`, `MigrateKey`, rank and scope match are citius-core's
and are taken from `match.go`'s comments, `match_test.go` and the smoke tests
(`provider_requirements_smoke_test.go`, `migrate_smoke_test.go`).

## 3. Runs

| Run | Instance | Checks |
|---|---|---|
| `lru` | 3 keys, 2 values, capacities 0 to 2, 5 calls | `LatestValue`, `Bounded`, `EvictsOldest` |
| `locked` | one repository, 2 requests, 2 ids, 2 names, versions 1..2, cache of 1, every method but UpdateKey, no faults | `TypeOK`, `NameUnique`, `NamesAgree`, `VersionsAgree`, `CacheCoherent`, `AckedWrite`, `VersionWriteOnce`, `Linearizable` |
| `atomic_fault` | the same with UpdateKey instead of DeleteKey, one storage call fails | `AckedWrite`, `Linearizable` |
| `live` | 1 id, 2 names, all methods but UpdateKey and GetKeyByName, one storage call fails | `NoDangling`, `AckedWrite`, `CallsReturn` under `FairSpec`; no deadlock |
| `listing` | 3 names, 1 client, filter on policy and provider with 2 values, page sizes -1, 0, 1, 2 | `WalkComplete`, `TokenAccepted`, `ExactlyOnce` |
| `service` | 1 key name, 1 policy, 2 requests; authorization on: 4 tokens, 8 RPCs (one per kind); off: 2 contexts, the RPCs that create, change and use keys; either: policy updates, 3 versions | `NothingLearned`, `RoundTrip`, `EffectsAuthorized`, `LostOnlyInRace` |
| `bootstrap` | 2 machine and 2 human users, 2 valid and 14 invalid access lists, 2 incidents (failures, failed reads, deletions, resets) | `SecretsMatch`, `FilesCurrent`, `FileKeepsSecrets`, `SecretsAccountedFor`, `ValidatedFirst`, `ReapplyChangesNothing` |
| `deployment` | 33 templates, 4 catalogues, 8 environments, 3 storage faults, 4 requirements, one key | `CreatedKeyUsable`, `ArtefactsSurvive`, `CheckSound`, `KeyFitsOnly`, `SameAnswer`, `RequirementKept`, `SelectedAllowed`, `ScopesUsable`, `ListingsServe`, `MatchPredictsCreate`, `StartsWithoutFIPS` |
| `wired_versions` | a lock per request | `AckedAdd` is violated |
| `cache_race` | one repository | `NoCacheRace` is violated |
| `recursive_rlock` | one repository, GetKeyByName | `CallsReturn` is violated under `FairSpec` |
| `stale_policy` | CreateCryptoPolicy and UpdateCryptoPolicy, 3 versions | `StaleRefused` is violated |

*What they show.* On a shared repository all calls are linearizable, and with
a failing storage call CreateKey, AddVersion and UpdateKey still are all or
nothing. DeleteKey is not: one that fails half-way leaves a key whose name is free
again, which is why `live` claims less than `locked` (`NoDangling`, not
`NamesAgree`), and why `Linearizable` is claimed with a fault only without DeleteKey.
A page walk may show a key twice when keys are added, and misses one only if a key
left the listing; a negative page size is the only other reason for a refused
token. Every effect and answer of the services passes both layers of
authorization. A ciphertext or signature stays usable however its key is changed, except
where two requests raced to store its version or to create its key (finding 1), and a
policy write is lost only when another falls into it; what a delayed write does to later
updates is finding 4.

`bootstrap`: whatever fails or dies, the generated file never holds a secret beside
another client, and loses one that is valid only through `Forgets` (section 2): by design
for users that `apply` no longer finds in the access list, and also through an `apply`
that could not read the old file and through a wipe without `.env`. A secret that was
just issued goes missing only when the command that received it fails. These losses are
real: the provider shows a secret once, and the next `apply` succeeds without it, until
the client is deleted and made anew.

`deployment`: for each template that two providers advertise, keys made by either work
on both, what one signed or encrypted the other accepts, and both refuse the same
requests to sign or encrypt with the same code. Checks get the same code and verdict too,
with two exceptions (`LeftToLibrary`): an Ed25519ph digest of the wrong length that comes
without a declared hash is not valid in software and an error in OpenSSL, and an IV of the
wrong length for CBC or CTR is an invalid argument in software and a wrapped library error
in OpenSSL. What `openssl/provider.go:289` promises, digests against their declared hash,
is met. A FIPS key is never outside a restricted context, also
where the FIPS provider was skipped. MatchProviders, ListProviders, ListScopes and
ListTemplates announce nothing that CreateKey would not then do.

*Bounds.* In `bootstrap` two incidents allow a failure followed by a deletion, a reset
or a second failure; users come in two kinds because machines have secrets and humans
passwords, and two of each let one leave the access list. In `deployment` every
template of the catalogue that a provider serves becomes a key on every instance that
serves it; one key suffices because providers keep no state, and messages, contexts and
additional data come in the values that the checks tell apart (contexts of 0, 255, 256).
Queries are asked before a key exists, since they do not read it.

Two requests are enough for every race between two calls; a third adds
no new conflict, since a writer excludes all others and read steps of two requests
conflict only on the cache. Two ids and two names let two keys contend for a name,
one key use a free one, and, with a cache of size 1, one entry evict another. Two
versions allow an added version and a refused one. One fault reaches every error
path; in `live` it meets one id only, and DeleteKey failing on one of several keys is left
to the proofs of `NoDangling` and `AckedWrite`; two would reach failures inside a clean-up, about which the code promises
nothing beyond what the proofs (any number of faults) establish. Three
names make pages before, at and after a change. In `service` the tokens differ in
each dimension a check looks at: an owner of everything, a guest with every permission
whose deny on the key overrides an allow, a clerk with some permissions and no policy,
and no token. RPCs left out of `Calls` take the same path as one that is in it. The
product of its concerns would be too large, so TLC follows (`Followed`, a constraint of
`MCService`) the histories in which keys are used under a policy that stays at version 1
and those in which policies are created and updated and no key is used. One key with two
versions gives each race of creations, additions and uses; other keys, more versions,
more requests and histories that mix the two are covered by the proofs of all four
properties. A policy of version 2 can still be updated, so an expected version is checked
that is stale, current, in the future or unset. Requests are symmetric, in the repository
ids and names too, in the services contexts; no symmetry is used where liveness is checked.

*Deadlock* is checked in `live`. The other runs switch it off because their
bounds on calls and versions let an instance come to its end.

*Fairness* of `Deployment` is weak fairness of start-up, one goroutine whose calls are
local and return. Clients need do nothing.

*Fairness* (`FairSpec`): weak for the steps of a request that is running, since a
goroutine that can run does; strong for acquiring the lock, since `sync.RWMutex`
does not starve: `Unlock` admits the waiting readers before the next writer, and
the mutex writers queue on hands over to a waiter after 1 ms. Nothing forces a
client to call. `recursive_rlock` is checked under the same fairness; its
counterexample is a state in which no step is enabled.

## 4. Proofs

All for any values of the constants that satisfy the modules' assumptions: any
number of requests, ids, names, versions, caches, faults.

| Theorem | States | Assumes |
|---|---|---|
| `VaultRepositoryProofs!TypeCorrect` | `TypeOK` | |
| `VaultRepositoryProofs!AckedWriteHolds` | `AckedWrite` | one lock |
| `VaultRepositoryProofs!VersionWriteOnceHolds` | `VersionWriteOnce` | one lock |
| `VaultRepositoryProofs!NameUniqueHolds` | `NameUnique` | one lock, no faults |
| `VaultRepositoryProofs!CacheCoherentHolds` | `CacheCoherent` | one lock, one repository |
| `VaultRepositoryProofs!NamesAgreeHolds` | `NamesAgree` | one lock, no faults |
| `VaultRepositoryProofs!VersionsAgreeHolds` | `VersionsAgree` | one lock, no faults, no UpdateKey |
| `VaultRepositoryProofs!NoDanglingHolds` | `NoDangling` | one lock, at most one fault, no UpdateKey |
| `VaultRefinementProofs!LinearizableHolds` | `Linearizable` | one lock, one repository, no faults |
| `LRUCacheSpecProofs!HitsAreLatest` | `LatestValue` | |
| `LRUCacheSpecProofs!CacheIsBounded` | `Bounded` | |
| `LRUCacheSpecProofs!EvictionIsOldest` | `EvictsOldest` | |
| `KeyListingProofs!WalksAreComplete` | `WalkComplete` | |
| `KeyListingProofs!TokensAreAccepted` | `TokenAccepted` | |
| `KeyListingProofs!PagesPartition` | `ExactlyOnce` | |
| `ServiceProofs!OnlyAuthorizedEffects` | `EffectsAuthorized` | |
| `ServiceProofs!NobodyElseLearns` | `NothingLearned` | |
| `ServiceProofs!ArtefactsSurvive` | `RoundTrip` | |
| `ServiceProofs!UpdatesLostOnlyInRace` | `LostOnlyInRace` | |
| `BootstrapProofs!SecretsStandByTheirClients` | `SecretsMatch` | |
| `BootstrapProofs!SuccessMeansCurrent` | `FilesCurrent` | |
| `BootstrapProofs!FileNeverLosesSecrets` | `FileKeepsSecrets` | |
| `BootstrapProofs!IssuedSecretsAreKept` | `SecretsAccountedFor` | |
| `BootstrapProofs!InputsValidatedFirst` | `ValidatedFirst` | |
| `BootstrapProofs!ApplyIsIdempotent` | `ReapplyChangesNothing` | |
| `DeploymentProofs!RequirementKeptHolds` | `RequirementKept` | |
| `DeploymentProofs!CheckSoundHolds` | `CheckSound` | |
| `DeploymentProofs!KeyFitsOnlyHolds` | `KeyFitsOnly` | |
| `DeploymentProofs!TypeCorrect` | `TypeOK` of `Deployment` | |
| `DeploymentProofs!SelectedAllowedHolds` | `SelectedAllowed` | |
| `DeploymentProofs!ScopesUsableHolds` | `ScopesUsable` | |
| `DeploymentProofs!ListingsServeHolds` | `ListingsServe` | |
| `DeploymentProofs!CreatedKeyUsableHolds` | `CreatedKeyUsable` | |
| `DeploymentProofs!ArtefactsSurviveHolds` | `ArtefactsSurvive` | |
| `DeploymentProofs!SameAnswerHolds` | `SameAnswer` | |
| `DeploymentProofs!MatchPredictsCreateHolds` | `MatchPredictsCreate` | |

**Repository.** `TypeOK` is inductive because it says, for each step, which methods
come to it and what they have read by then. `LRUCacheProofs` supplies what the
cache operations preserve: no key twice, and each entry old or just put. The safety
proofs are in layers:

1. `LockInv` relates the lock to the program counters: who is inside a writing
   section is the lock's `writer` and has waited for the readers. With one lock
   (`SharedLock`) at most one request is inside, and none while another reads.
2. `WriteInv` gives for each step of a writer what it has established so far
   (`Progress`) and what an acknowledged write promises (`Promise`). Without the
   lock another request could undo it between two steps, so `SafeInv`, the
   conjunction with `TypeOK` and `LockInv`, is what is inductive.
   `AckedWrite` follows from it, and `VersionWriteOnce` because `PutVersion` is
   reached only with the version known to be absent.
3. `NameInv` adds that every stored key is mapped under its name, but for the one
   whose mapping a DeleteKey has just removed. It needs `MaxFaults = 0`: a DeleteKey
   that fails half-way breaks it.
4. `MapInv` is the converse: a mapped name is `Owned` by the stored key it maps to, but
   for the one that a CreateKey has mapped and is about to store, or to unmap because it
   could not (`Mapping`). That no other key of the id is overwritten needs `Fresh`: from
   the check of the id to the write of the record nothing is stored under it. It holds
   with one fault, because the clean-up then meets no other. `NameInv` and `MapInv`
   give `NamesAgree`.
5. `CurrentInv` says that a stored key has its current version, but for one that a
   CreateKey is about to complete or to clean up (`Filling`). `Adding` is what protects
   it from AddVersion's clean-up: the version undone is one past the record's. With
   `MapInv` it gives `NoDangling`.
6. `ExactInv`, without faults: the stored versions of a key are exactly the record's,
   but for one a write is between two calls on (`Flux`). `OnCourse` has what the writer
   knows of them there, and that no write ever undoes anything; without the latter the
   clean-ups, which are dead code then, would have to be shown correct.
   UpdateKey is left out of 5 and 6: the method stores whatever current version its
   caller gives it, and promises nothing about versions.
7. `CacheInv` adds that a reader about to fill the cache has read the mapping
   storage still has, and a writer about to delete a mapping has already dropped
   it from the cache. It holds under any faults, thanks to that order.

8. The refinement, `Linearizable`. `GoneInv` says that without faults no clean-up runs
   (`Smooth`) and that a key that is gone has no versions unless a DeleteKey is still
   deleting them; `ReadInv`, that what a read has found so far (`Reading`) is what the
   store says, because no writer is inside. With 1 to 4 and 7 they make `CallInv`. A writer
   is the only request that hides anything (`WriterView`), and a reader sees the stores
   as they are (`ReaderView`). Under "Step by step" each action then stutters (`GoesOn`),
   refuses what the abstract call refuses (`Refuses`), or is where it takes effect:
   CreateKey at `PutVersion`, AddVersion and UpdateKey at `UpdPut`, DeleteKey at `DelKey`,
   a read where it returns. That GetKeyByName looks up in two stores and a cache, and the
   abstract one in one map, is bridged by `NameInv`, `MapInv` and `CacheInv`. UpdateKey is
   included: the abstract call stores any current version too.

The assumption of one lock is the claim: `wired_versions` shows that without it
`AckedAdd` fails.

**Listing.** `WalkingOnCourse` says that a walk whose listing lost no key has seen
every due key of a rank below its token, and that the token is at most the
listing's size. Adding keys only raises ranks (`RankMonotone`), hence no due key
slips below the offset unseen. Slices by rank make this a statement about
cardinalities, without recursion. `SteadyInv` is its counterpart for a listing that does
not change: what a walk has returned is exactly the keys of a rank below its token, each
once, so that the next page, which starts at the token, is disjoint from it.

**Cache.** `RecencyInv` says of `LRUCacheSpec` that the entries stand in the order of their
last use (`Ordered`), each with the value last put (`Current`). Touch, put and remove keep
both, by the lemmas of `LRUCacheProofs`. The last entry is therefore the one that was used
longest ago, and it is the only one that put drops.

**Bootstrap.** `SecretsMatch` is not inductive: it is the running command that writes the
file, and it does so from what it has collected. `BootstrapInv` therefore says for each
program counter what `cmd.result` holds: `Collected`, that what was gathered so far names
the provider's identifiers of the users already visited and holds their secrets or none;
`FileOK`, that in the file a secret stands beside its client; `Written`, that between
rename and the second file the result is fresh and keeps what the file has (`Keeps`: the
outcome of `preserveKnownSecrets`, unless the read failed). An identifier is never used twice, so a secret of a
client that was deleted and made anew cannot pass for the new one's. `Applied` adds what
holds after success: until something else runs, the file is fresh, and a second apply
learns no secret and writes what is there already, the flags apart (`SameBut`).
That the lists of machines and humans which `loadACL` returns hold each user of the file
once, and are not both empty, is proved (`ACLFacts`) from what it validates: names that
differ, a known type, at least one user. `BootstrapAssumption` only says which names the
access lists use, that a name is either a machine's or a human's, and that none is one of
the provider's own objects.

**Service.** `ServiceInv` is `TypeOK`, `Admitted` (every request in progress passed
`Admission`), `Stored` (a name leads to a key, a key to its current version, and material
stays with the key it was made for), `Kept` (`Made`: the version that an artefact names
still has the material it was made with, unless it is contended), `Underway` and
`RoundTrip`. `Underway` says of each request what it may still rely on after its read and
its check, although others have gone on: if it has not raced, a creation still finds the
name free, a transformation still finds its version missing, and a policy write still
finds the version it read, which is the one its caller expects (`ReadyCreate`,
`ReadyAdd`, `ReadyPolicy`); and one that works on an ID to which the name no longer leads
does so only after contended creations (`ReadyKey`). Any write that could break this marks
the request in `Wrote`. Hence what replaces stored material is contended, which keeps
`Made`, and a policy write that was not raced replaces what was expected.
`EffectsAuthorized` follows step by step from `Admitted`, for the request that changes the
store.

**Deployment.** The lemmas about the providers go through their handlers family by
family. None of the codes of a handler's checks is "OK", so it succeeds exactly if its
list of errors is empty (`SoftAnswerOK`, `OsslAnswerOK`), and then each check passed. What
it answers is then a record that `Covers` the request: the hash of the message, the digest,
the additional data. A `Verify` that succeeds expects a record that covers *its* request,
and one record covers one message only (`CoversOne`). That is `CheckSound`, between the
providers too, because nothing in the argument says which of them made the record.
Likewise a success shows that the key fits the details (`ProducesWith`): its type and size
are those that either provider generates for them (`GeneratesAs`), which is `KeyFitsOnly`.
The inductive invariant `Inv` carries this through start-up and the key's life:
`InstancesInv` says that the registered instances are a prefix of software, openssl and a
restricted openssl-fips; `KeyInv` that a key has a type and size that generation gives,
and stands on an instance that meets its requirements, by the rank when it is created
(`RankedFirst`) and by eligibility when it moves; `AnswerInv` that the artefact covers what
was asked, and so does each check that found it good.
`CatalogueAssumption` says that an RSA template's `bits` is a modulus length. Without it
`KeyFitsOnly` would not follow: the OpenSSL provider compares the size in bits of whatever
key it has parsed, so details that ask for RSA of 256 bits would accept the size of a P-256 key.

*Selection and listings.* A list is filtered with `InOrder(s, at)`, the members of `s` at the
places `at`: a function over 1 to the number of places, not a recursion, so that what it
returns can be proved. `Placing` and `Ordered` say that it takes each place once and in
order, from the fact that the places up to `i` grow by one at each place of the set. From
there `Reads`, `Matching` and `Selects` say what the registry's loops return: the first
template of a selection is one that was read, offers the scope, and has before it only
entries that were lost or do not offer it (`FirstOf`). `ChosenInv` keeps this of a created
key, with the candidates that narrowing left out for want of an instance; that an entry
passed over was stored comes from `ReadyInv`: a server that serves has stored every
template that one of its instances advertises, because `ValidateAllProviders` looked each
of them up. `QueryInv` says that the last answer to a query is what the handler computes of
the present catalogue and instances; `ScopesUsable`, `ListingsServe` and, with the step of
CreateKey that follows, `MatchPredictsCreate` are then facts about two operators. The last
also needs `Populated`, that a server that serves has an instance: without one CreateKey
would answer that the provider is not found.

*What the providers answer.* `CheckSound` and `KeyFitsOnly` follow from what a success
implies. `CreatedKeyUsable`, `ArtefactsSurvive` and `SameAnswer` need the converse: when
does a handler succeed, and with which code does it refuse? The details of an advertised
template are one of finitely many `SignatureForms`, `PrehashedForms` and `CipherForms`. For
each, and for a key made for it (`Keyed`: the kind, the size and both encodings), the
handlers of both providers are shown to answer alike: `Objections(d, r)` are the errors and
`Result(d, r)` is the artefact, and neither mentions a provider (`ProduceReplies`). A key
is `Keyed` whichever provider generates it (`GeneratesKeyed`), and moving it changes
nothing of that. Hence the same code from each, the first half of `SameAnswer`; some request without
objection for each operation, which is `CreatedKeyUsable`; and an artefact that is the
`Result` of its request wherever it was made, against which every provider's check compares
(`GoodReplies`), which is `ArtefactsSurvive`. For the second half of `SameAnswer` both
handlers of a check give equal replies, whatever artefact is presented
(`DigestsCheckedAlike`, `OpenedAlike`, `CheckedAlike`); where one handler makes a check
that the other leaves out, either an earlier check failed in both or `LeftToLibrary` holds.
The invariant is `UsedInv`: the key fits a
stored template, and the last artefact is the result of its request.

*Assumptions on the catalogue.* `EntryAssumption`: entries have distinct, nonempty IDs and
named scopes (the store keeps one template under an ID, and `Register` refuses an empty
one), and a policy's candidates are a list.
`DescriptionAssumption`: a template that a provider advertises has the operations and one of
the forms that `src/proto/standard_algorithms` gives it. The code does not check this when it
loads a catalogue, whose IDs are the only link to the providers' lists: with a file that
gives an advertised ID other details the three properties may fail. Entries that nobody
advertises may hold anything.
`HashAssumption`: requests name hashes that have a digest length. TLC evaluates all of them
for the shipped catalogue and its variants.

**Only model-checked.** `CallsReturn` and `StartsWithoutFIPS`, as liveness is beyond the
prover, and `Linearizable` with a failing storage call (`atomic_fault`: without faults it is
proved). Every other property that a passing run checks is a theorem. The type invariants
of `KeyListing`, `Service` and `Bootstrap` are parts of the proved inductive invariants.

## 5. Findings

1. *A lock per request* (`wire.go:232`, run `wired_versions`). Two AddVersion calls
   on one key both find the next version missing, both store it, both succeed; one
   key's material is gone, and what was made with it in between no longer checks
   (`RoundTrip` exempts exactly these versions). `wire.go:7` says the handler is safe for concurrent use.
   Two CreateKey calls with one name have the same cause. Sharing a lock with
   `WithLock` restores the proved properties; with caches still per repository
   `CacheCoherent` would not follow.
2. *Cache modified under a read lock* (`vault_repository.go:153`, run `cache_race`).
   A hit moves its entry to the front and a miss ends in a fill while only the read
   lock is held, so with two names cached two lookups of the older one both reorder
   the list, against "a single instance of VaultRepository is thread-safe". Lookups
   of "" never reach the cache and a miss only reads it: neither counts as a change.
   A Go data race has no defined outcome; the other runs and the proofs take each cache operation as
   atomic, and so hold where this race does not occur.
3. *Recursive read lock* (`vault_repository.go:395`, run `recursive_rlock`).
   GetKeyByName holds the read lock and calls GetKeyByID, which takes it again; a
   writer that arrives in between stops both, and everyone after.
4. *A stale expected version is accepted* (`crypto_policy_handler.go:112`, run
   `stale_policy`). The comment of UpdateCryptoPolicy says that "a stale
   expected_version is still refused". The engine reads and writes in two store calls: a
   creation that found nothing and is delayed while the policy is created and updated to
   version 2 takes it back to 1, and an update that expects the stale version 1 is then
   accepted. A compare-and-write in one store call would exclude it.

## 6. Abstractions and limits

- Patterns in claims are the sets of names they match. Error codes are kept where a
  property or a branch tells them apart. Scope parameters are one value.
- Version numbers start at 1, as the callers set them; `uint32` wrap-around needs
  2^32 rotations of one key. Ids do not contain ":".
- RPCs that are Unimplemented stubs (DeleteKey, RotateKey, ExportKey and others)
  are in the permission table and go no further.
- Cryptography is symbolic (`Algorithms`). What `validateRequest` refuses follows from
  rules in the proto files of another repository and is not modelled. The digest hashes
  that core allows for a key are not either: requests with any hash reach the providers.
- The catalogue has every template that a provider advertises and three that none does;
  the post-quantum hash variants and the other JSON files add only more of the latter.
- `Bootstrap` runs one command at a time; two at once race on the files and on the
  provider. Of `bootstrap.sh` only `reset` and `nuke` are modelled.
- Noted while modelling, without a run of its own: `wire.go` says that an empty catalogue
  path is useful for testing, yet validation then finds every advertised algorithm
  unknown and start-up fails (the `empty` catalogue of `deployment` does).
  `openssl/capability.go:20` says that SignDigest does not exist in the package, which
  has it. For Ed25519ph, `Sign` prehashes in one provider and is refused in the other; no
  template allows that operation. `bootstrap.sh:578` tests a variable that line 579 sets.
- Not modelled: the provider instance repository, which nothing builds; flags, listeners,
  TLS and shutdown; the embedding's options; the streaming and key establishment stubs;
  the loopback provider, a test double; the interactive login and the API definitions,
  which are I/O and declarations.

## 7. Plan

The order followed: the key repository and its cache, the abstract repository and the
refinement; the listing; the services; the bootstrap; the providers and the deployment,
each modelled and checked first and then proved. What is left:

1. `Linearizable` with a failing storage call and without DeleteKey: what the clean-ups
   of CreateKey and AddVersion have still to undo is hidden already.
2. A provider instance repository and the streaming services once the code implements
   them (section 1).
