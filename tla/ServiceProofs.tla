--------------------------- MODULE ServiceProofs ----------------------------
(***************************************************************************)
(* The services for any number of keys, policies, tokens and requests: no  *)
(* effect and no answer without authorization, the round trip of a         *)
(* ciphertext or a signature across changes of its key, and policy writes  *)
(* that only a race makes lose an update.                                  *)
(***************************************************************************)
EXTENDS Service, TLAPS

-----------------------------------------------------------------------------
(* The inductive invariant.                                                *)

Rotating == {"TransformKey", "MigrateKey"}
KeyUses == Rotating \cup Producers \cup Consumers
PolicyUpdates == {"CreateCryptoPolicy", "UpdateCryptoPolicy"}

\* What is in progress or was answered has passed both layers.
Admitted ==
    /\ \A r \in Requests : reqs[r] # None => Admission(reqs[r].claims, reqs[r].q) = "OK"
    /\ answer # None => Admission(answer.claims, answer.q) = "OK"

\* A name leads to a key of that name, every key to its current version, and
\* material stays with the key it was made for.
Stored ==
    /\ \A n \in Keys : names[n] # None => names[n][1] = n /\ keys[names[n]] # None
    /\ \A i \in Ids : keys[i] # None => /\ names[i[1]] # None
                                        /\ versions[i][keys[i].current] # None
    /\ \A i \in Ids, v \in Versions : versions[i][v] # None => versions[i][v][1] = i

\* The version a ciphertext or signature names still has its key material,
\* unless it was contended.
Made(a) ==
    /\ a \in Artefacts
    /\ names[a.key] # None /\ a.material[1][1] = a.key
    /\ <<a.key, a.version>> \notin contended => versions[names[a.key]][a.version] = a.material

Presented(q) == q.rpc \in Consumers => Made(q.art)

Kept ==
    /\ held # None => Made(held)
    /\ \A r \in Requests : reqs[r] # None => Presented(reqs[r].q)

\* A creation that nobody raced still finds the name free.
ReadyCreate(r, p) ==
    p.at = "write" /\ p.q.rpc = "CreateKey" =>
      /\ p.id = <<p.q.key, r>> /\ keys[p.id] = None /\ p.q.policy # EmptyName
      /\ ~p.raced => names[p.q.key] = None

\* A request that has read a key works on the one its name leads to, unless
\* creations of the name raced.
ReadyKey(p) ==
    p.at # "read" /\ p.q.rpc \in KeyUses =>
      /\ p.id # None /\ p.id[1] = p.q.key /\ keys[p.id] # None
      /\ p.seen # 0 /\ versions[p.id][p.seen] # None
      /\ names[p.q.key] = p.id \/ {p.q.key} \X Versions \subseteq contended

\* A transformation or migration that nobody raced still finds its version missing.
ReadyAdd(p) ==
    /\ p.at \in {"write", "current"} /\ p.q.rpc \in Rotating => p.seen < MaxVersions
    /\ p.at = "write" /\ p.q.rpc \in Rotating /\ ~p.raced => versions[p.id][p.seen + 1] = None
    /\ p.at = "current" => p.q.rpc \in Rotating /\ versions[p.id][p.seen + 1] # None

\* A policy write that nobody raced still finds the version it read, which is
\* the one its caller expects.
ReadyPolicy(p) ==
    p.at = "write" /\ p.q.rpc \in PolicyUpdates =>
      /\ p.seen < MaxVersions
      /\ ~p.raced => /\ policies[p.q.policy] = p.seen
                     /\ p.q.rpc = "CreateCryptoPolicy" => p.seen = 0
                     /\ p.q.rpc = "UpdateCryptoPolicy" => p.q.version \in {0, p.seen}

Ready(r, p) == ReadyCreate(r, p) /\ ReadyKey(p) /\ ReadyAdd(p) /\ ReadyPolicy(p)

Underway == \A r \in Requests : reqs[r] # None => Ready(r, reqs[r])

ServiceInv == TypeOK /\ Admitted /\ Stored /\ Kept /\ Underway /\ RoundTrip

\* Admission depends on the request and on enabled, which never changes.
LEMMA AdmissionStays ==
    ASSUME enabled' = enabled
    PROVE  \A c, q : Admission(c, q)' = Admission(c, q)
  BY DEF Admission, Gate, PolicyHandler, KeyHandler, AuthorizeKey, AuthorizePolicy

\* The RPCs a request can be of.
LEMMA RpcKinds ==
    /\ Rotating \subseteq KeysRotate /\ Rotating \subseteq KeyWrites
    /\ Rotating \cap (Consumers \cup Producers \cup PolicyWrites \cup {"CreateKey"}) = {}
    /\ PolicyUpdates \subseteq PolicyWrites /\ PolicyUpdates \subseteq PolicyRpcs
    /\ PolicyUpdates \cap (KeyUses \cup KeyWrites \cup Stubs) = {}
    /\ "CreateKey" \in KeyWrites /\ "CreateKey" \notin KeyUses \cup PolicyWrites
    /\ Producers \cap (Consumers \cup KeysRotate \cup KeyWrites) = {}
    /\ Consumers \cap (KeysRotate \cup KeyWrites) = {}
    /\ KeyWrites \cap PolicyWrites = {}
  BY DEF Rotating, KeysRotate, KeyWrites, Consumers, Producers, PolicyWrites, PolicyUpdates,
         PolicyRpcs, KeyUses, Stubs

-----------------------------------------------------------------------------
(* The ways a step can end.                                                *)

Statuses == {"OK", "NotFound", "AlreadyExists", "InvalidArgument", "FailedPrecondition",
             "Refused"}
Results == {"valid", "invalid", "none"}

\* What RoundTrip asks of an answer.
Faithful(q, status, result) ==
    q.rpc \in Consumers =>
      /\ /\ q.key = q.art.key /\ q.version = q.art.version /\ q.context = q.art.context
         /\ status # "Refused" /\ <<q.key, q.version>> \notin contended
         => result = "valid"
      /\ result = "valid" => q.key = q.art.key /\ q.context = q.art.context

\* The stores and the held artefact after a step.
StoresOK ==
    /\ enabled' = enabled
    /\ names' \in [Keys -> Ids \cup {None}]
    /\ keys' \in [Ids -> StoredKeys \cup {None}]
    /\ versions' \in [Ids -> [Versions -> Materials \cup {None}]]
    /\ policies' \in [Policies -> 0..MaxVersions]
    /\ newest' \in [Policies -> 0..MaxVersions]
    /\ contended' \in SUBSET (Keys \X Versions)
    /\ Stored'
    /\ \A a : Made(a) => Made(a)'
    /\ held' \in Artefacts \cup {None}
    /\ held' = held \/ Made(held)'

\* A step after which the requests know what they knew before.
Calm ==
    /\ StoresOK /\ contended' = contended
    /\ \A s \in Requests, p \in Pending : Ready(s, p) => Ready(s, p)'

\* A step that leaves the stores.
LEMMA StoresStay ==
    ASSUME ServiceInv, UNCHANGED <<enabled, store, policies, history>>,
           held' \in Artefacts \cup {None}, held' = held \/ Made(held)'
    PROVE  Calm
<1>1. UNCHANGED <<enabled, names, keys, versions, policies, contended, newest>>
  BY DEF store, history
<1>2. Stored'  BY <1>1 DEF ServiceInv, Stored
<1>3. \A a : Made(a) => Made(a)'  BY <1>1 DEF Made
<1>4. StoresOK  BY <1>1, <1>2, <1>3 DEF StoresOK, ServiceInv, TypeOK
<1>5. \A s \in Requests, p \in Pending : Ready(s, p) => Ready(s, p)'
  BY <1>1 DEF Ready, ReadyCreate, ReadyKey, ReadyAdd, ReadyPolicy
<1> QED BY <1>1, <1>4, <1>5 DEF Calm

\* What holds of the types, the admission and the artefacts after any step.
LEMMA NextInv ==
    ASSUME ServiceInv, StoresOK, reqs' \in [Requests -> Pending \cup {None}],
           \A s \in Requests : reqs'[s] # None =>
             \/ /\ reqs[s] # None
                /\ reqs'[s].claims = reqs[s].claims /\ reqs'[s].q = reqs[s].q
             \/ /\ Admission(reqs'[s].claims, reqs'[s].q) = "OK"
                /\ Presented(reqs'[s].q),
           Underway', RoundTrip',
           answer' = None \/ /\ answer' \in Answers
                             /\ Admission(answer'.claims, answer'.q) = "OK"
    PROVE  ServiceInv'
<1>1. TypeOK'  BY DEF ServiceInv, TypeOK, StoresOK
<1>2. \A c, q : Admission(c, q)' = Admission(c, q)  BY AdmissionStays DEF StoresOK
<1>3. Admitted'  BY <1>2 DEF ServiceInv, Admitted
<1>4. \A a : Made(a) => Made(a)'  BY DEF StoresOK
<1>5. Kept'
  <2>1. held' # None => Made(held)'  BY <1>4 DEF ServiceInv, Kept, StoresOK
  <2>2. ASSUME NEW s \in Requests, reqs'[s] # None PROVE Presented(reqs[s].q)'
    <3>1. Presented(reqs'[s].q)  BY <2>2 DEF ServiceInv, Kept
    <3> QED BY <1>4, <3>1 DEF Presented
  <2> QED BY <2>1, <2>2 DEF Kept
<1>6. Stored'  BY DEF StoresOK
<1> QED BY <1>1, <1>3, <1>5, <1>6 DEF ServiceInv

\* A request in progress that stays as it is.
LEMMA StaysReady ==
    ASSUME ServiceInv, Calm, NEW s \in Requests, reqs[s] # None, reqs'[s] = reqs[s]
    PROVE  Ready(s, reqs[s])'
<1>1. reqs[s] \in Pending /\ Ready(s, reqs[s])  BY DEF ServiceInv, TypeOK, Underway
<1>2. \A p \in Pending : Ready(s, p) => Ready(s, p)'  BY DEF Calm
<1> QED BY <1>1, <1>2 DEF Ready, ReadyCreate, ReadyKey, ReadyAdd, ReadyPolicy

\* A request is answered.
LEMMA ReplyStep ==
    ASSUME ServiceInv, Calm, NEW r \in Requests, reqs[r] # None,
           NEW status \in Statuses, NEW result \in Results, Reply(r, status, result),
           Faithful(reqs[r].q, status, result)
    PROVE  ServiceInv'
<1>1. reqs[r] \in Pending  BY DEF ServiceInv, TypeOK
<1>2. answer' = [claims |-> reqs[r].claims, q |-> reqs[r].q, status |-> status,
                 result |-> result]
      /\ reqs' = [reqs EXCEPT ![r] = None]
  BY DEF Reply, Answer
<1>3. answer' \in Answers
  BY <1>1, <1>2 DEF Pending, Answers, Statuses, Results
<1>4. \A s \in Requests : reqs'[s] = IF s = r THEN None ELSE reqs[s]
  BY <1>2 DEF ServiceInv, TypeOK
<1>5. reqs' \in [Requests -> Pending \cup {None}]  BY <1>2 DEF ServiceInv, TypeOK
<1>6. \A s \in Requests : reqs'[s] # None => reqs[s] # None /\ reqs'[s] = reqs[s]  BY <1>4
<1>7. Underway'  BY <1>6, StaysReady DEF Underway
<1>8. RoundTrip'
  <2>1. contended' = contended  BY DEF Calm
  <2> QED BY <1>2, <2>1 DEF RoundTrip, Faithful
<1>9. Admission(answer'.claims, answer'.q) = "OK"  BY <1>2 DEF ServiceInv, Admitted
<1>10. StoresOK  BY DEF Calm
<1> QED BY <1>3, <1>5, <1>6, <1>7, <1>8, <1>9, <1>10, NextInv

\* A request is admitted or goes on.
LEMMA MoveStep ==
    ASSUME ServiceInv, Calm, NEW r \in Requests, NEW p \in Pending, Ready(r, p)',
           reqs' = [reqs EXCEPT ![r] = p], answer' = None,
           \/ reqs[r] # None /\ p.claims = reqs[r].claims /\ p.q = reqs[r].q
           \/ Admission(p.claims, p.q) = "OK" /\ Presented(p.q)
    PROVE  ServiceInv'
<1>1. \A s \in Requests : reqs'[s] = IF s = r THEN p ELSE reqs[s]  BY DEF ServiceInv, TypeOK
<1>2. reqs' \in [Requests -> Pending \cup {None}]  BY DEF ServiceInv, TypeOK
<1>3. ASSUME NEW s \in Requests, reqs'[s] # None PROVE Ready(s, reqs[s])'
  <2>1. CASE s = r
    BY <1>1, <2>1 DEF Ready, ReadyCreate, ReadyKey, ReadyAdd, ReadyPolicy
  <2>2. CASE s # r
    BY <1>1, <1>3, <2>2, StaysReady
  <2> QED BY <2>1, <2>2
<1>4. Underway'  BY <1>3 DEF Underway
<1>5. RoundTrip'  BY DEF RoundTrip
<1>6. \A s \in Requests : reqs'[s] # None =>
             \/ /\ reqs[s] # None
                /\ reqs'[s].claims = reqs[s].claims /\ reqs'[s].q = reqs[s].q
             \/ /\ Admission(reqs'[s].claims, reqs'[s].q) = "OK"
                /\ Presented(reqs'[s].q)
  BY <1>1
<1>7. StoresOK  BY DEF Calm
<1> QED BY <1>2, <1>4, <1>5, <1>6, <1>7, NextInv

\* An orchestrator goes on to its next step.
LEMMA ProceedStep ==
    ASSUME ServiceInv, Calm, NEW r \in Requests, reqs[r] # None,
           NEW step \in {"check", "write", "use"}, NEW i \in Ids \cup {None},
           NEW v \in 0..MaxVersions, Proceed(r, step, i, v),
           Ready(r, [reqs[r] EXCEPT !.at = step, !.id = i, !.seen = v])
    PROVE  ServiceInv'
<1> DEFINE p == [reqs[r] EXCEPT !.at = step, !.id = i, !.seen = v]
<1>1. reqs[r] \in Pending  BY DEF ServiceInv, TypeOK
<1>2. reqs' = [reqs EXCEPT ![r] = p] /\ answer' = None
  BY DEF Proceed, ServiceInv, TypeOK
<1>3. p \in Pending /\ p.claims = reqs[r].claims /\ p.q = reqs[r].q
  BY <1>1 DEF Pending
<1>4. \A t \in Pending : Ready(r, t) => Ready(r, t)'  BY DEF Calm
<1>5. PICK t \in Pending : t = p  BY <1>3
<1>6. Ready(r, t)'  BY <1>4, <1>5
<1> HIDE DEF p
<1>7. reqs' = [reqs EXCEPT ![r] = t] /\ t.claims = reqs[r].claims /\ t.q = reqs[r].q
  BY <1>2, <1>3, <1>5
<1> QED BY <1>2, <1>6, <1>7, MoveStep

\* The requests that another's write leaves in progress.
LEMMA WroteFields ==
    ASSUME ServiceInv, NEW r \in Requests, NEW next, Wrote(r, next),
           NEW s \in Requests, s # r, reqs[s] # None
    PROVE  /\ reqs[s] \in Pending /\ reqs'[s] \in Pending /\ reqs'[s] # None
           /\ reqs'[s].claims = reqs[s].claims /\ reqs'[s].q = reqs[s].q
           /\ reqs'[s].at = reqs[s].at /\ reqs'[s].id = reqs[s].id
           /\ reqs'[s].seen = reqs[s].seen
           /\ reqs'[s].raced <=> \/ reqs[s].raced
                                 \/ reqs[s].at = "write" /\ SameTarget(reqs[s].q, reqs[r].q)
<1> DEFINE b == reqs[s].at = "write" /\ SameTarget(reqs[s].q, reqs[r].q)
<1>1. reqs[s] \in Pending  BY DEF ServiceInv, TypeOK
<1>2. reqs'[s] = [reqs[s] EXCEPT !.raced = @ \/ b]  BY DEF Wrote
<1>3. b \in BOOLEAN  OBVIOUS
<1> HIDE DEF b
<1>4. reqs'[s] \in Pending  BY <1>1, <1>2, <1>3 DEF Pending
<1>5. /\ reqs'[s].claims = reqs[s].claims /\ reqs'[s].q = reqs[s].q
      /\ reqs'[s].at = reqs[s].at /\ reqs'[s].id = reqs[s].id
      /\ reqs'[s].seen = reqs[s].seen /\ reqs'[s].raced = (reqs[s].raced \/ b)
  BY <1>1, <1>2 DEF Pending
<1> QED BY <1>1, <1>4, <1>5, RequestAssumption DEF b

\* A request has stored something.
LEMMA WroteStep ==
    ASSUME ServiceInv, StoresOK, NEW r \in Requests, reqs[r] # None,
           reqs[r].q.rpc \notin Consumers,
           NEW next \in Pending \cup {None}, Wrote(r, next),
           next # None => /\ next.claims = reqs[r].claims /\ next.q = reqs[r].q
                          /\ Ready(r, next)',
           \A s \in Requests : s # r /\ reqs[s] # None => Ready(s, reqs[s])',
           answer' = None \/ Answer(r, "OK", "none")
    PROVE  ServiceInv'
<1>1. reqs'[r] = next /\ \A s \in Requests : s # r /\ reqs[s] = None => reqs'[s] = None
  BY DEF Wrote
<1>2. \A s \in Requests : reqs'[s] \in Pending \cup {None}
  BY <1>1, WroteFields
<1>3. reqs' \in [Requests -> Pending \cup {None}]  BY <1>2 DEF Wrote
<1>4. \A s \in Requests : reqs'[s] # None =>
        reqs[s] # None /\ reqs'[s].claims = reqs[s].claims /\ reqs'[s].q = reqs[s].q
  BY <1>1, WroteFields
<1>5. next # None => Ready(r, reqs[r])'
  BY <1>1 DEF Ready, ReadyCreate, ReadyKey, ReadyAdd, ReadyPolicy
<1>6. Underway'  BY <1>1, <1>4, <1>5 DEF Underway
<1>7. reqs[r] \in Pending /\ Admission(reqs[r].claims, reqs[r].q) = "OK"
  BY DEF ServiceInv, TypeOK, Admitted
<1>8. answer' = None \/ /\ answer' \in Answers /\ answer'.q = reqs[r].q
                        /\ answer'.claims = reqs[r].claims
  BY <1>7 DEF Answer, Answers, Pending
<1>9. RoundTrip'  BY <1>8 DEF RoundTrip
<1> QED BY <1>3, <1>4, <1>6, <1>7, <1>8, <1>9, NextInv

-----------------------------------------------------------------------------
(* The actions.                                                            *)

\* A typed request is admitted.
LEMMA ReceiveStep ==
    ASSUME ServiceInv, NEW r \in Requests, NEW q \in Queries, Presented(q),
           NEW c \in Tokens \cup {None}, Receive(r, c, q)
    PROVE  ServiceInv'
<1> DEFINE p == [claims |-> c, q |-> q, at |-> "read", id |-> None, seen |-> 0,
                 raced |-> FALSE]
<1>1. p \in Pending /\ p.at = "read" /\ p.claims = c /\ p.q = q
  BY ServiceAssumption DEF Pending
<1>2. reqs' = [reqs EXCEPT ![r] = p] /\ Admission(c, q) = "OK" /\ answer' = None
  BY DEF Receive
<1>3. Calm  BY StoresStay DEF Receive, ServiceInv, TypeOK
<1> HIDE DEF p
<1>4. PICK t \in Pending : t = p  BY <1>1
<1>5. Ready(r, t)'
  BY <1>1, <1>4 DEF Ready, ReadyCreate, ReadyKey, ReadyAdd, ReadyPolicy
<1> QED BY <1>1, <1>2, <1>3, <1>4, <1>5, MoveStep

\* Any request, of an RPC that consumes nothing.
LEMMA PlainStep ==
    ASSUME ServiceInv, NEW r \in Requests, NEW c \in Tokens \cup {None},
           NEW o \in Calls, o \notin Consumers, NEW n \in Keys,
           NEW p \in Policies \cup {EmptyName}, NEW b \in BOOLEAN, NEW v \in 0..MaxVersions,
           NEW x \in Contexts \cup {None}, Receive(r, c, Query(o, n, p, b, v, x, None))
    PROVE  ServiceInv'
<1>1. o \in Rpcs /\ None \in Artefacts \cup {None}  BY ServiceAssumption
<1>2. /\ Query(o, n, p, b, v, x, None) \in Queries
      /\ Query(o, n, p, b, v, x, None).rpc = o
  BY <1>1 DEF Query, Queries
<1>3. Presented(Query(o, n, p, b, v, x, None))  BY <1>2 DEF Presented
<1> QED BY <1>2, <1>3, ReceiveStep

\* Every request a caller sends.
LEMMA AskStep ==
    ASSUME ServiceInv, NEW r \in Requests, NEW c \in Tokens \cup {None},
           AskKey(r, c) \/ AskPolicy(r, c) \/ AskCrypto(r, c) \/ Present(r, c)
    PROVE  ServiceInv'
<1>1. /\ SomeKey \in Keys
      /\ 0 \in 0..MaxVersions /\ EmptyName \in Policies \cup {EmptyName}
  BY ServiceAssumption DEF SomeKey
<1>2. /\ \A o \in KeysRead \cup KeysRotate \cup Stubs : o \notin Consumers
      /\ \A o \in KeysCreate \cup PolicyRpcs \cup Producers : o \notin Consumers
  BY DEF KeysRead, KeysRotate, KeysCreate, Stubs, Consumers, Producers, PolicyRpcs,
         PolicyReads, PolicyWrites
<1>3. CASE AskKey(r, c)
  <2>1. CASE \E o \in Calls \cap (KeysRead \cup KeysRotate \cup Stubs), n \in Keys, b \in BOOLEAN :
               Receive(r, c, Query(o, n, EmptyName, b, 0, None, None))
    BY <1>1, <1>2, <2>1, PlainStep
  <2>2. CASE \E o \in Calls \cap KeysCreate, n \in Keys, p \in Policies \cup {EmptyName},
                b \in BOOLEAN : Receive(r, c, Query(o, n, p, b, 0, None, None))
    BY <1>1, <1>2, <2>2, PlainStep
  <2> QED BY <1>3, <2>1, <2>2 DEF AskKey
<1>4. CASE AskPolicy(r, c)
  BY <1>1, <1>2, <1>4, PlainStep DEF AskPolicy
<1>5. CASE AskCrypto(r, c)
  BY <1>1, <1>2, <1>5, PlainStep DEF AskCrypto
<1>6. CASE Present(r, c)
  <2>1. held \in Artefacts /\ Made(held)  BY <1>6 DEF Present, ServiceInv, TypeOK, Kept
  <2>2. Counterpart[held.rpc] \in Rpcs
    BY <2>1 DEF Artefacts, Producers, Counterpart, Rpcs, Consumers
  <2>3. held.version \in 0..MaxVersions  BY <2>1, ServiceAssumption DEF Artefacts, Versions
  <2>4. PICK n \in Keys, v \in 0..MaxVersions, x \in Contexts :
          Receive(r, c, Query(Counterpart[held.rpc], n, EmptyName, FALSE, v, x, held))
    BY <1>1, <1>6, <2>3 DEF Present
  <2> DEFINE q == Query(Counterpart[held.rpc], n, EmptyName, FALSE, v, x, held)
  <2>5. q \in Queries /\ q.art = held  BY <2>1, <2>2, <1>1 DEF Query, Queries
  <2>6. Presented(q)  BY <2>1, <2>5 DEF Presented
  <2> QED BY <2>4, <2>5, <2>6, ReceiveStep
<1> QED BY <1>3, <1>4, <1>5, <1>6

\* An answer that RoundTrip asks nothing of.
LEMMA PlainReply ==
    ASSUME ServiceInv, Calm, NEW r \in Requests, reqs[r] # None,
           NEW status \in Statuses, Reply(r, status, "none"),
           reqs[r].q.rpc \notin Consumers \/ status = "Refused"
    PROVE  ServiceInv'
<1>1. Faithful(reqs[r].q, status, "none")  BY DEF Faithful
<1> QED BY <1>1, ReplyStep DEF Results

\* The types of a request in progress.
LEMMA RequestType ==
    ASSUME ServiceInv, NEW r \in Requests, reqs[r] # None
    PROVE  /\ reqs[r] \in Pending /\ reqs[r].q \in Queries
           /\ reqs[r].q.key \in Keys /\ reqs[r].q.policy \in Policies \cup {EmptyName}
           /\ reqs[r].id \in Ids \cup {None}
           /\ reqs[r].seen \in 0..MaxVersions /\ MaxVersions \in Nat
           /\ Ready(r, reqs[r])
<1>1. reqs[r] \in Pending /\ Ready(r, reqs[r])  BY DEF ServiceInv, TypeOK, Underway
<1>2. reqs[r].q \in Queries /\ reqs[r].seen \in 0..MaxVersions /\ reqs[r].id \in Ids \cup {None}
  BY <1>1 DEF Pending
<1>3. reqs[r].q.key \in Keys /\ reqs[r].q.policy \in Policies \cup {EmptyName}
  BY <1>2 DEF Queries
<1> QED BY <1>1, <1>2, <1>3, ServiceAssumption

\* A policy request in progress names a policy.
LEMMA NamedPolicy ==
    ASSUME ServiceInv, NEW r \in Requests, reqs[r] # None, reqs[r].q.rpc \in PolicyUpdates
    PROVE  reqs[r].q.policy \in Policies
<1>1. Admission(reqs[r].claims, reqs[r].q) = "OK"  BY DEF ServiceInv, Admitted
<1>2. reqs[r].q.policy # EmptyName  BY <1>1, RpcKinds DEF Admission, PolicyHandler
<1> QED BY <1>2, RequestType

\* The fields of a request that goes on.
LEMMA MovedFields ==
    ASSUME ServiceInv, NEW r \in Requests, reqs[r] # None, NEW step, NEW i, NEW v
    PROVE  LET p == [reqs[r] EXCEPT !.at = step, !.id = i, !.seen = v]
           IN /\ p.at = step /\ p.id = i /\ p.seen = v
              /\ p.q = reqs[r].q /\ p.raced = reqs[r].raced
<1>1. reqs[r] \in Pending  BY DEF ServiceInv, TypeOK
<1> QED BY <1>1 DEF Pending

LEMMA CheckNameStep ==
    ASSUME ServiceInv, NEW r \in Requests, CheckName(r)
    PROVE  ServiceInv'
<1> DEFINE q == reqs[r].q
           i == <<q.key, r>>
           p == [reqs[r] EXCEPT !.at = "write", !.id = i, !.seen = 0]
<1>1. reqs[r] # None /\ q.rpc = "CreateKey" /\ q.rpc \notin Consumers
  BY DEF CheckName, At, Consumers
<1>2. q.key \in Keys /\ i \in Ids /\ 0 \in 0..MaxVersions
  BY <1>1, RequestType DEF Ids
<1>3. Calm  BY StoresStay DEF CheckName, ServiceInv, TypeOK
<1>4. CASE \E status \in Statuses : Reply(r, status, "none")
  BY <1>1, <1>3, <1>4, PlainReply
<1>5. CASE q.policy # EmptyName /\ names[q.key] = None /\ Proceed(r, "write", i, 0)
  <2>1. keys[i] = None  BY <1>2, <1>5 DEF ServiceInv, Stored
  <2>2. p.at = "write" /\ p.id = i /\ p.seen = 0 /\ p.q = q
    BY <1>1, MovedFields
  <2>3. Ready(r, p)
    BY <1>1, <1>5, <2>1, <2>2, RpcKinds
       DEF Ready, ReadyCreate, ReadyKey, ReadyAdd, ReadyPolicy
  <2> QED BY <1>1, <1>2, <1>3, <1>5, <2>3, ProceedStep
<1> QED BY <1>4, <1>5 DEF CheckName, Statuses

LEMMA CreateKeyStep ==
    ASSUME ServiceInv, NEW r \in Requests, CreateKey(r)
    PROVE  ServiceInv'
<1> DEFINE q == reqs[r].q
           n == q.key
           i == reqs[r].id
           m == <<i, 1, r>>
           k == [policy |-> q.policy, current |-> 1]
<1>1. /\ reqs[r] # None /\ reqs[r].at = "write" /\ q.rpc = "CreateKey"
      /\ names' = [names EXCEPT ![n] = i]
      /\ keys' = [keys EXCEPT ![i] = k]
      /\ versions' = [versions EXCEPT ![i][1] = m]
      /\ contended' = contended \cup (IF reqs[r].raced THEN {n} \X Versions ELSE {})
      /\ Answer(r, "OK", "none") /\ Wrote(r, None)
      /\ UNCHANGED <<enabled, policies, held, newest>>
  BY DEF CreateKey, At
<1>2. /\ n \in Keys /\ q.policy \in Policies \cup {EmptyName} /\ Ready(r, reqs[r])
  BY <1>1, RequestType
<1>3. /\ i = <<n, r>> /\ i \in Ids /\ keys[i] = None /\ q.policy \in Policies
      /\ ~reqs[r].raced => names[n] = None
  <2>1. /\ i = <<n, r>> /\ keys[i] = None /\ q.policy # EmptyName
        /\ ~reqs[r].raced => names[n] = None
    BY <1>1, <1>2 DEF Ready, ReadyCreate
  <2>2. <<n, r>> \in Ids  BY <1>2 DEF Ids
  <2> QED BY <1>2, <2>1, <2>2
<1>4. i[1] = n /\ 1 \in Versions /\ m \in Materials /\ m[1] = i /\ k \in StoredKeys
  BY <1>2, <1>3, ServiceAssumption DEF Versions, Materials, StoredKeys
<1>5. m # None /\ k # None /\ i # None /\ k.current = 1
  BY <1>3, <1>4, RequestAssumption
<1> HIDE DEF m, k
<1>6. /\ \A x \in Keys : names'[x] = IF x = n THEN i ELSE names[x]
      /\ \A x \in Ids : keys'[x] = IF x = i THEN k ELSE keys[x]
      /\ \A x \in Ids, v \in Versions :
           versions'[x][v] = IF x = i /\ v = 1 THEN m ELSE versions[x][v]
  BY <1>1 DEF ServiceInv, TypeOK
<1>7. /\ names' \in [Keys -> Ids \cup {None}]
      /\ keys' \in [Ids -> StoredKeys \cup {None}]
      /\ versions' \in [Ids -> [Versions -> Materials \cup {None}]]
  BY <1>1, <1>2, <1>3, <1>4 DEF ServiceInv, TypeOK
<1>8. contended' \in SUBSET (Keys \X Versions)  BY <1>1, <1>2 DEF ServiceInv, TypeOK
<1>9. Stored'
  <2>1. ASSUME NEW x \in Keys, names'[x] # None
        PROVE  names'[x][1] = x /\ keys'[names'[x]] # None
    <3>1. names[x] \in Ids \cup {None}  BY DEF ServiceInv, TypeOK
    <3> QED BY <1>3, <1>4, <1>5, <1>6, <2>1, <3>1 DEF ServiceInv, Stored
  <2>2. ASSUME NEW x \in Ids, keys'[x] # None
        PROVE  names'[x[1]] # None /\ versions'[x][keys'[x].current] # None
    <3>1. CASE x = i
      BY <1>2, <1>4, <1>5, <1>6, <3>1
    <3>2. CASE x # i
      <4>1. x[1] \in Keys  BY DEF Ids
      <4>2. keys'[x] = keys[x] /\ keys[x].current \in Versions
        BY <1>6, <2>2, <3>2 DEF ServiceInv, TypeOK, StoredKeys
      <4> QED BY <1>5, <1>6, <2>2, <3>2, <4>1, <4>2 DEF ServiceInv, Stored
    <3> QED BY <3>1, <3>2
  <2>3. ASSUME NEW x \in Ids, NEW v \in Versions, versions'[x][v] # None
        PROVE  versions'[x][v][1] = x
    BY <1>4, <1>6, <2>3 DEF ServiceInv, Stored
  <2> QED BY <2>1, <2>2, <2>3 DEF Stored
<1>10. ASSUME NEW a, Made(a) PROVE Made(a)'
  <2>1. a \in Artefacts /\ a.key \in Keys /\ a.version \in Versions
    BY <1>10 DEF Made, Artefacts
  <2>2. CASE a.key = n
    <3>1. names[n] # None  BY <1>10, <2>2 DEF Made
    <3>2. <<a.key, a.version>> \in contended'  BY <1>1, <1>3, <2>1, <2>2, <3>1
    <3>3. names'[a.key] # None  BY <1>2, <1>5, <1>6, <2>2
    <3> QED BY <1>10, <2>1, <3>2, <3>3 DEF Made
  <2>3. CASE a.key # n
    <3>1. names'[a.key] = names[a.key] /\ names[a.key] # None /\ names[a.key] \in Ids
      BY <1>6, <1>10, <2>1, <2>3 DEF Made, ServiceInv, TypeOK
    <3>2. names[a.key] # i  BY <1>4, <2>1, <2>3, <3>1 DEF ServiceInv, Stored
    <3>3. versions'[names[a.key]][a.version] = versions[names[a.key]][a.version]
      BY <1>6, <2>1, <3>1, <3>2
    <3>4. contended \subseteq contended'  BY <1>1
    <3> QED BY <1>10, <3>1, <3>3, <3>4 DEF Made
  <2> QED BY <2>2, <2>3
<1>11. StoresOK
  BY <1>1, <1>7, <1>8, <1>9, <1>10 DEF StoresOK, ServiceInv, TypeOK
<1>12. ASSUME NEW s \in Requests, s # r, reqs[s] # None PROVE Ready(s, reqs[s])'
  <2>1. /\ reqs'[s].q = reqs[s].q /\ reqs'[s].at = reqs[s].at /\ reqs'[s].id = reqs[s].id
        /\ reqs'[s].seen = reqs[s].seen
        /\ reqs'[s].raced <=> \/ reqs[s].raced
                              \/ reqs[s].at = "write" /\ SameTarget(reqs[s].q, q)
    BY <1>1, <1>12, WroteFields
  <2>2. /\ Ready(s, reqs[s]) /\ reqs[s].q.key \in Keys /\ reqs[s].id \in Ids \cup {None}
        /\ reqs[s].seen \in 0..MaxVersions /\ MaxVersions \in Nat
    BY <1>12, RequestType
  <2>3. ReadyCreate(s, reqs[s])'
    <3> SUFFICES ASSUME reqs[s].at = "write", reqs[s].q.rpc = "CreateKey"
                 PROVE  /\ reqs[s].id = <<reqs[s].q.key, s>> /\ keys'[reqs[s].id] = None
                        /\ reqs[s].q.policy # EmptyName
                        /\ ~reqs'[s].raced => names'[reqs[s].q.key] = None
      BY <2>1 DEF ReadyCreate
    <3>1. /\ reqs[s].id = <<reqs[s].q.key, s>> /\ keys[reqs[s].id] = None
          /\ reqs[s].q.policy # EmptyName
          /\ ~reqs[s].raced => names[reqs[s].q.key] = None
      BY <2>2 DEF Ready, ReadyCreate
    <3>2. reqs[s].id \in Ids /\ reqs[s].id # i  BY <1>3, <1>12, <2>2, <3>1 DEF Ids
    <3>3. reqs[s].q.key = n => reqs'[s].raced
      BY <1>1, <2>1, RpcKinds DEF SameTarget
    <3> QED BY <1>6, <2>1, <2>2, <3>1, <3>2, <3>3
  <2>4. ReadyKey(reqs[s])'
    <3> SUFFICES ASSUME reqs[s].at # "read", reqs[s].q.rpc \in KeyUses
                 PROVE  /\ reqs[s].id # None /\ reqs[s].id[1] = reqs[s].q.key
                        /\ keys'[reqs[s].id] # None /\ reqs[s].seen # 0
                        /\ versions'[reqs[s].id][reqs[s].seen] # None
                        /\ \/ names'[reqs[s].q.key] = reqs[s].id
                           \/ {reqs[s].q.key} \X Versions \subseteq contended'
      BY <2>1 DEF ReadyKey
    <3>1. /\ reqs[s].id # None /\ reqs[s].id[1] = reqs[s].q.key
          /\ keys[reqs[s].id] # None /\ reqs[s].seen # 0
          /\ versions[reqs[s].id][reqs[s].seen] # None
          /\ \/ names[reqs[s].q.key] = reqs[s].id
             \/ {reqs[s].q.key} \X Versions \subseteq contended
      BY <2>2 DEF Ready, ReadyKey
    <3>2. reqs[s].id \in Ids /\ reqs[s].id # i /\ reqs[s].seen \in Versions
      BY <1>3, <2>2, <3>1 DEF Versions
    <3>3. CASE reqs[s].q.key = n /\ names[n] = reqs[s].id
      <4>1. reqs[r].raced  BY <1>3, <3>1, <3>3
      <4> QED BY <1>1, <1>6, <3>1, <3>2, <3>3, <4>1
    <3>4. CASE reqs[s].q.key # n
      BY <1>1, <1>6, <2>2, <3>1, <3>2, <3>4
    <3>5. CASE {reqs[s].q.key} \X Versions \subseteq contended
      BY <1>1, <1>6, <3>1, <3>2, <3>5
    <3> QED BY <3>1, <3>3, <3>4, <3>5
  <2>5. ReadyAdd(reqs[s])'
    <3>1. ASSUME reqs[s].at \in {"write", "current"}, reqs[s].q.rpc \in Rotating
          PROVE  versions'[reqs[s].id][reqs[s].seen + 1] = versions[reqs[s].id][reqs[s].seen + 1]
      <4>1. reqs[s].seen + 1 \in Versions
        BY <2>2, <3>1 DEF Ready, ReadyAdd, Versions
      <4>2. reqs[s].id \in Ids /\ reqs[s].id # i
        BY <1>3, <2>2, <3>1 DEF Ready, ReadyKey, KeyUses
      <4> QED BY <1>6, <4>1, <4>2
    <3> QED BY <2>1, <2>2, <3>1 DEF Ready, ReadyAdd
  <2>6. ReadyPolicy(reqs[s])'
    BY <1>1, <2>1, <2>2 DEF Ready, ReadyPolicy
  <2> QED BY <2>3, <2>4, <2>5, <2>6 DEF Ready
<1>13. q.rpc \notin Consumers  BY <1>1 DEF Consumers
<1> QED BY <1>1, <1>11, <1>12, <1>13, WroteStep

\* Reads that answer.
LEMMA ReadKeyStep ==
    ASSUME ServiceInv, NEW r \in Requests, ReadKey(r) \/ ReadPolicy(r)
    PROVE  ServiceInv'
<1>1. reqs[r] # None /\ reqs[r].q.rpc \notin Consumers
  BY DEF ReadKey, ReadPolicy, At, Consumers
<1>2. Calm  BY StoresStay DEF ReadKey, ReadPolicy, ServiceInv, TypeOK
<1>3. PICK status \in Statuses : Reply(r, status, "none")
  BY DEF ReadKey, ReadPolicy, Statuses
<1> QED BY <1>1, <1>2, <1>3, PlainReply

LEMMA ReadCurrentStep ==
    ASSUME ServiceInv, NEW r \in Requests, ReadCurrent(r)
    PROVE  ServiceInv'
<1> DEFINE q == reqs[r].q
           i == names[q.key]
           v == keys[i].current
           step == IF q.rpc \in KeysRotate THEN "check" ELSE "use"
           p == [reqs[r] EXCEPT !.at = step, !.id = i, !.seen = v]
<1>1. reqs[r] # None /\ q.rpc \in KeyUses
  BY DEF ReadCurrent, At, KeyUses, Rotating
<1>2. q.key \in Keys /\ MaxVersions \in Nat  BY <1>1, RequestType
<1>3. Calm  BY StoresStay DEF ReadCurrent, ServiceInv, TypeOK
<1>4. CASE i = None /\ Reply(r, "NotFound", "none")
  <2>1. Faithful(q, "NotFound", "none")
    <3>1. q.rpc \in Consumers => Made(q.art)  BY <1>1 DEF ServiceInv, Kept, Presented
    <3> QED BY <1>4, <3>1 DEF Faithful, Made
  <2> QED BY <1>1, <1>3, <1>4, <2>1, ReplyStep DEF Statuses, Results
<1>5. CASE i # None /\ Proceed(r, step, i, v)
  <2>1. i \in Ids  BY <1>2, <1>5 DEF ServiceInv, TypeOK
  <2>2. i[1] = q.key /\ keys[i] # None  BY <1>2, <1>5 DEF ServiceInv, Stored
  <2>3. v \in Versions /\ versions[i][v] # None
    BY <2>1, <2>2 DEF ServiceInv, TypeOK, Stored, StoredKeys
  <2>4. v \in 0..MaxVersions /\ v # 0  BY <1>2, <2>3 DEF Versions
  <2>5. step \in {"check", "write", "use"} /\ step \notin {"write", "current"}  OBVIOUS
  <2> HIDE DEF step, v
  <2>6. p.at = step /\ p.id = i /\ p.seen = v /\ p.q = q  BY <1>1, MovedFields
  <2> HIDE DEF p
  <2>7. Ready(r, p)
    BY <1>1, <1>5, <2>2, <2>3, <2>4, <2>5, <2>6
       DEF Ready, ReadyCreate, ReadyKey, ReadyAdd, ReadyPolicy
  <2> QED BY <1>1, <1>3, <1>5, <2>1, <2>4, <2>5, <2>7, ProceedStep DEF p
<1> QED BY <1>4, <1>5 DEF ReadCurrent

\* What a request that has read a key knows of it.
LEMMA KeyInHand ==
    ASSUME ServiceInv, NEW r \in Requests, reqs[r] # None, reqs[r].at # "read",
           reqs[r].q.rpc \in KeyUses
    PROVE  /\ reqs[r].id \in Ids /\ reqs[r].id[1] = reqs[r].q.key /\ keys[reqs[r].id] # None
           /\ reqs[r].seen \in Versions
           /\ versions[reqs[r].id][reqs[r].seen] # None
           /\ versions[reqs[r].id][reqs[r].seen] \in Materials
           /\ \/ names[reqs[r].q.key] = reqs[r].id
              \/ {reqs[r].q.key} \X Versions \subseteq contended
<1>1. /\ Ready(r, reqs[r]) /\ reqs[r].id \in Ids \cup {None}
      /\ reqs[r].seen \in 0..MaxVersions /\ MaxVersions \in Nat
  BY RequestType
<1>2. /\ reqs[r].id # None /\ reqs[r].id[1] = reqs[r].q.key /\ keys[reqs[r].id] # None
      /\ reqs[r].seen # 0 /\ versions[reqs[r].id][reqs[r].seen] # None
      /\ \/ names[reqs[r].q.key] = reqs[r].id
         \/ {reqs[r].q.key} \X Versions \subseteq contended
  BY <1>1 DEF Ready, ReadyKey
<1>3. reqs[r].id \in Ids /\ reqs[r].seen \in Versions  BY <1>1, <1>2 DEF Versions
<1>4. versions[reqs[r].id][reqs[r].seen] \in Materials  BY <1>2, <1>3 DEF ServiceInv, TypeOK
<1> QED BY <1>2, <1>3, <1>4

LEMMA CheckVersionStep ==
    ASSUME ServiceInv, NEW r \in Requests, CheckVersion(r)
    PROVE  ServiceInv'
<1> DEFINE q == reqs[r].q
           i == reqs[r].id
           v == reqs[r].seen
           p == [reqs[r] EXCEPT !.at = "write", !.id = i, !.seen = v]
<1>1. reqs[r] # None /\ reqs[r].at = "check" /\ q.rpc \in Rotating
  BY DEF CheckVersion, At, Rotating
<1>2. q.rpc \notin Consumers /\ q.rpc \in KeyUses /\ q.rpc # "CreateKey"
      /\ q.rpc \notin PolicyUpdates
  BY <1>1, RpcKinds DEF KeyUses
<1>3. Calm  BY StoresStay DEF CheckVersion, ServiceInv, TypeOK
<1>4. CASE \E status \in Statuses : Reply(r, status, "none")
  BY <1>1, <1>2, <1>3, <1>4, PlainReply
<1>5. CASE v < MaxVersions /\ versions[i][v + 1] = None /\ Proceed(r, "write", i, v)
  <2>1. /\ i \in Ids /\ i[1] = q.key /\ keys[i] # None /\ v \in Versions
        /\ versions[i][v] # None
        /\ names[q.key] = i \/ {q.key} \X Versions \subseteq contended
    BY <1>1, <1>2, KeyInHand
  <2>2. v \in 0..MaxVersions /\ v # 0 /\ i # None
    BY <2>1, ServiceAssumption, RequestAssumption DEF Versions
  <2>3. p.at = "write" /\ p.id = i /\ p.seen = v /\ p.q = q  BY <1>1, MovedFields
  <2> HIDE DEF p
  <2>4. Ready(r, p)
    BY <1>1, <1>2, <1>5, <2>1, <2>2, <2>3
       DEF Ready, ReadyCreate, ReadyKey, ReadyAdd, ReadyPolicy
  <2> QED BY <1>1, <1>3, <1>5, <2>1, <2>2, <2>4, ProceedStep DEF p
<1> QED BY <1>4, <1>5 DEF CheckVersion, Statuses

LEMMA AddVersionStep ==
    ASSUME ServiceInv, NEW r \in Requests, NEW keep \in BOOLEAN, AddVersion(r, keep)
    PROVE  ServiceInv'
<1> DEFINE q == reqs[r].q
           n == q.key
           i == reqs[r].id
           v == reqs[r].seen
           m == IF keep THEN versions[i][v] ELSE <<i, v + 1, r>>
           next == [reqs[r] EXCEPT !.at = "current"]
<1>1. /\ reqs[r] # None /\ reqs[r].at = "write" /\ q.rpc \in Rotating
      /\ versions' = [versions EXCEPT ![i][v + 1] = m]
      /\ contended' = contended \cup (IF reqs[r].raced THEN {<<n, v + 1>>} ELSE {})
      /\ answer' = None /\ Wrote(r, next)
      /\ UNCHANGED <<enabled, names, keys, policies, held, newest>>
  BY DEF AddVersion, At, Rotating
<1>2. /\ n \in Keys /\ Ready(r, reqs[r]) /\ v \in 0..MaxVersions /\ MaxVersions \in Nat
      /\ reqs[r] \in Pending
  BY <1>1, RequestType
<1>3. q.rpc \in KeyUses /\ q.rpc \notin Consumers \cup PolicyUpdates /\ q.rpc # "CreateKey"
      /\ q.rpc \in KeyWrites
  BY <1>1, RpcKinds DEF KeyUses
<1>4. /\ i \in Ids /\ i[1] = n /\ keys[i] # None /\ v \in Versions /\ versions[i][v] # None
      /\ versions[i][v] \in Materials
      /\ names[n] = i \/ {n} \X Versions \subseteq contended
  BY <1>1, <1>3, KeyInHand
<1>5. v < MaxVersions /\ (~reqs[r].raced => versions[i][v + 1] = None)
  BY <1>1, <1>2 DEF Ready, ReadyAdd
<1>6. v + 1 \in Versions  BY <1>2, <1>4, <1>5 DEF Versions
<1>7. m \in Materials /\ m[1] = i
  <2>1. versions[i][v][1] = i  BY <1>4 DEF ServiceInv, Stored
  <2>2. <<i, v + 1, r>> \in Materials /\ <<i, v + 1, r>>[1] = i  BY <1>4, <1>6 DEF Materials
  <2> QED BY <1>4, <2>1, <2>2
<1>8. m # None  BY <1>7, RequestAssumption
<1> HIDE DEF m
<1>9. \A x \in Ids, w \in Versions :
        versions'[x][w] = IF x = i /\ w = v + 1 THEN m ELSE versions[x][w]
  BY <1>1, <1>4, <1>6 DEF ServiceInv, TypeOK
<1>10. versions' \in [Ids -> [Versions -> Materials \cup {None}]]
  BY <1>1, <1>4, <1>6, <1>7 DEF ServiceInv, TypeOK
<1>11. contended' \in SUBSET (Keys \X Versions)
  BY <1>1, <1>2, <1>6 DEF ServiceInv, TypeOK
<1>12. \A x \in Ids, w \in Versions : versions[x][w] # None => versions'[x][w] # None
  BY <1>8, <1>9
<1>13. Stored'
  <2>1. \A x \in Keys : names'[x] # None => names'[x][1] = x /\ keys'[names'[x]] # None
    BY <1>1 DEF ServiceInv, Stored
  <2>2. ASSUME NEW x \in Ids, keys'[x] # None
        PROVE  names'[x[1]] # None /\ versions'[x][keys'[x].current] # None
    <3>1. keys'[x] = keys[x] /\ keys[x].current \in Versions
      BY <1>1, <2>2 DEF ServiceInv, TypeOK, StoredKeys
    <3> QED BY <1>1, <1>12, <2>2, <3>1 DEF ServiceInv, Stored
  <2>3. \A x \in Ids, w \in Versions : versions'[x][w] # None => versions'[x][w][1] = x
    BY <1>7, <1>9 DEF ServiceInv, Stored
  <2> QED BY <2>1, <2>2, <2>3 DEF Stored
<1>14. ASSUME NEW a, Made(a) PROVE Made(a)'
  <2>1. a \in Artefacts /\ a.key \in Keys /\ a.version \in Versions /\ a.material \in Materials
    BY <1>14 DEF Made, Artefacts
  <2>2. names'[a.key] = names[a.key] /\ names[a.key] # None /\ names[a.key] \in Ids
        /\ names[a.key][1] = a.key
    BY <1>1, <1>14, <2>1 DEF Made, ServiceInv, TypeOK, Stored
  <2>3. contended \subseteq contended'  BY <1>1
  <2>4. ASSUME <<a.key, a.version>> \notin contended'
        PROVE  versions'[names[a.key]][a.version] = a.material
    <3>1. versions[names[a.key]][a.version] = a.material  BY <1>14, <2>3, <2>4 DEF Made
    <3>2. ASSUME names[a.key] = i, a.version = v + 1 PROVE FALSE
      <4>1. a.key = n  BY <1>4, <2>2, <3>2
      <4>2. ~reqs[r].raced  BY <1>1, <2>4, <3>2, <4>1
      <4>3. versions[i][v + 1] = None  BY <1>5, <4>2
      <4> QED BY <2>1, <3>1, <3>2, <4>3, RequestAssumption
    <3> QED BY <1>9, <2>1, <2>2, <3>1, <3>2
  <2> QED BY <1>14, <2>2, <2>4 DEF Made
<1>15. StoresOK
  BY <1>1, <1>10, <1>11, <1>13, <1>14 DEF StoresOK, ServiceInv, TypeOK
<1>16. next \in Pending /\ next.claims = reqs[r].claims /\ next.q = q /\ next.at = "current"
       /\ next.id = i /\ next.seen = v
  BY <1>2 DEF Pending
<1> HIDE DEF next
<1>17. PICK t \in Pending : t = next  BY <1>16
<1>18. /\ t.claims = reqs[r].claims /\ t.q = q /\ t.at = "current" /\ t.id = i /\ t.seen = v
       /\ Wrote(r, t)
  BY <1>1, <1>16, <1>17
<1>19. Ready(r, t)'
  <2>3. names'[n] = i \/ {n} \X Versions \subseteq contended'  BY <1>1, <1>4
  <2>4. versions'[i][v] # None /\ versions'[i][v + 1] # None /\ keys'[i] # None
    BY <1>1, <1>4, <1>6, <1>8, <1>9, <1>12
  <2>5. v # 0 /\ i # None  BY <1>4, RequestAssumption DEF Versions
  <2> QED BY <1>1, <1>4, <1>5, <1>18, <2>3, <2>4, <2>5
          DEF Ready, ReadyCreate, ReadyKey, ReadyAdd, ReadyPolicy
<1>20. ASSUME NEW s \in Requests, s # r, reqs[s] # None PROVE Ready(s, reqs[s])'
  <2>1. /\ reqs'[s].q = reqs[s].q /\ reqs'[s].at = reqs[s].at /\ reqs'[s].id = reqs[s].id
        /\ reqs'[s].seen = reqs[s].seen
        /\ reqs'[s].raced <=> \/ reqs[s].raced
                              \/ reqs[s].at = "write" /\ SameTarget(reqs[s].q, q)
    BY <1>1, <1>20, WroteFields
  <2>2. Ready(s, reqs[s]) /\ reqs[s].seen \in 0..MaxVersions  BY <1>20, RequestType
  <2>3. ReadyCreate(s, reqs[s])'
    BY <1>1, <2>1, <2>2 DEF Ready, ReadyCreate
  <2>4. ReadyKey(reqs[s])'
    <3> SUFFICES ASSUME reqs[s].at # "read", reqs[s].q.rpc \in KeyUses
                 PROVE  /\ reqs[s].id # None /\ reqs[s].id[1] = reqs[s].q.key
                        /\ keys'[reqs[s].id] # None /\ reqs[s].seen # 0
                        /\ versions'[reqs[s].id][reqs[s].seen] # None
                        /\ \/ names'[reqs[s].q.key] = reqs[s].id
                           \/ {reqs[s].q.key} \X Versions \subseteq contended'
      BY <2>1 DEF ReadyKey
    <3>1. /\ reqs[s].id # None /\ reqs[s].id[1] = reqs[s].q.key
          /\ keys[reqs[s].id] # None /\ reqs[s].seen # 0
      BY <2>2 DEF Ready, ReadyKey
    <3>2. /\ reqs[s].id \in Ids /\ reqs[s].seen \in Versions
          /\ versions[reqs[s].id][reqs[s].seen] # None
          /\ \/ names[reqs[s].q.key] = reqs[s].id
             \/ {reqs[s].q.key} \X Versions \subseteq contended
      BY <1>20, KeyInHand
    <3>3. versions'[reqs[s].id][reqs[s].seen] # None  BY <1>12, <3>2
    <3> QED BY <1>1, <3>1, <3>2, <3>3
  <2>5. ReadyAdd(reqs[s])'
    <3>1. ASSUME reqs[s].at \in {"write", "current"}, reqs[s].q.rpc \in Rotating
          PROVE  /\ reqs[s].id \in Ids /\ reqs[s].seen + 1 \in Versions
                 /\ reqs[s].id[1] = reqs[s].q.key
      <4>1. reqs[s].seen < MaxVersions  BY <2>2, <3>1 DEF Ready, ReadyAdd
      <4>2. reqs[s].id \in Ids /\ reqs[s].id[1] = reqs[s].q.key
        BY <1>20, <3>1, KeyInHand DEF KeyUses
      <4> QED BY <1>2, <2>2, <4>1, <4>2 DEF Versions
    <3>2. ASSUME reqs[s].at = "write", reqs[s].q.rpc \in Rotating, ~reqs'[s].raced
          PROVE  versions'[reqs[s].id][reqs[s].seen + 1] = None
      <4>1. versions[reqs[s].id][reqs[s].seen + 1] = None
        BY <2>1, <2>2, <3>2 DEF Ready, ReadyAdd
      <4>2. ASSUME reqs[s].id = i PROVE FALSE
        <5>1. reqs[s].q.key = n  BY <1>4, <3>1, <3>2, <4>2
        <5>2. SameTarget(reqs[s].q, q)  BY <1>3, <3>2, <5>1, RpcKinds DEF SameTarget
        <5> QED BY <2>1, <3>2, <5>2
      <4> QED BY <1>9, <3>1, <3>2, <4>1, <4>2
    <3>3. ASSUME reqs[s].at = "current"
          PROVE  /\ reqs[s].q.rpc \in Rotating
                 /\ versions'[reqs[s].id][reqs[s].seen + 1] # None
      <4>1. reqs[s].q.rpc \in Rotating /\ versions[reqs[s].id][reqs[s].seen + 1] # None
        BY <2>2, <3>3 DEF Ready, ReadyAdd
      <4> QED BY <1>12, <3>1, <3>3, <4>1
    <3>4. reqs[s].at \in {"write", "current"} /\ reqs[s].q.rpc \in Rotating
            => reqs[s].seen < MaxVersions
      BY <2>2 DEF Ready, ReadyAdd
    <3> QED BY <2>1, <3>2, <3>3, <3>4 DEF ReadyAdd
  <2>6. ReadyPolicy(reqs[s])'
    BY <1>1, <2>1, <2>2 DEF Ready, ReadyPolicy
  <2> QED BY <2>3, <2>4, <2>5, <2>6 DEF Ready
<1> QED BY <1>1, <1>3, <1>15, <1>19, <1>20, <1>18, WroteStep

LEMMA UpdateKeyStep ==
    ASSUME ServiceInv, NEW r \in Requests, UpdateKey(r)
    PROVE  ServiceInv'
<1> DEFINE i == reqs[r].id
           v == reqs[r].seen
<1>1. /\ reqs[r] # None /\ reqs[r].at = "current" /\ reqs[r].q.rpc \in Rotating
      /\ keys' = [keys EXCEPT ![i].current = v + 1] /\ Reply(r, "OK", "none")
      /\ UNCHANGED <<enabled, names, versions, policies, held, contended, newest>>
  BY DEF UpdateKey, At, Rotating, history
<1>2. reqs[r].q.rpc \notin Consumers /\ reqs[r].q.rpc \in KeyUses
  BY <1>1, RpcKinds DEF KeyUses
<1>3. i \in Ids /\ keys[i] # None /\ v \in Versions  BY <1>1, <1>2, KeyInHand
<1>4. v < MaxVersions /\ versions[i][v + 1] # None
  BY <1>1, RequestType DEF Ready, ReadyAdd
<1>5. v + 1 \in Versions  BY <1>3, <1>4, ServiceAssumption DEF Versions
<1>6. keys[i] \in StoredKeys  BY <1>3 DEF ServiceInv, TypeOK
<1>7. /\ [keys[i] EXCEPT !.current = v + 1] \in StoredKeys
      /\ [keys[i] EXCEPT !.current = v + 1].current = v + 1
  BY <1>5, <1>6 DEF StoredKeys
<1>8. \A x \in Ids : keys'[x] = IF x = i THEN [keys[i] EXCEPT !.current = v + 1] ELSE keys[x]
  BY <1>1 DEF ServiceInv, TypeOK
<1>9. keys' \in [Ids -> StoredKeys \cup {None}]
  BY <1>1, <1>3, <1>7 DEF ServiceInv, TypeOK
<1>10. \A x \in Ids : keys'[x] # None <=> keys[x] # None
  BY <1>3, <1>7, <1>8, RequestAssumption
<1>11. Stored'
  <2>1. ASSUME NEW n \in Keys, names'[n] # None
        PROVE  names'[n][1] = n /\ keys'[names'[n]] # None
    <3>1. names[n] \in Ids  BY <1>1, <2>1 DEF ServiceInv, TypeOK
    <3> QED BY <1>1, <1>10, <2>1, <3>1 DEF ServiceInv, Stored
  <2>2. ASSUME NEW x \in Ids, keys'[x] # None
        PROVE  names'[x[1]] # None /\ versions'[x][keys'[x].current] # None
    BY <1>1, <1>4, <1>7, <1>8, <1>10, <2>2 DEF ServiceInv, Stored
  <2>3. \A x \in Ids, w \in Versions : versions'[x][w] # None => versions'[x][w][1] = x
    BY <1>1 DEF ServiceInv, Stored
  <2> QED BY <2>1, <2>2, <2>3 DEF Stored
<1>12. \A a : Made(a) => Made(a)'  BY <1>1 DEF Made
<1>13. StoresOK
  BY <1>1, <1>9, <1>11, <1>12 DEF StoresOK, ServiceInv, TypeOK
<1>14. ASSUME NEW s \in Requests, NEW p \in Pending, Ready(s, p) PROVE Ready(s, p)'
  <2>1. p.id \in Ids \cup {None} /\ p.q \in Queries  BY DEF Pending
  <2>2. p.q.key \in Keys  BY <2>1 DEF Queries
  <2>3. ReadyCreate(s, p)'
    <3> SUFFICES ASSUME p.at = "write", p.q.rpc = "CreateKey"
                 PROVE  /\ p.id = <<p.q.key, s>> /\ keys'[p.id] = None /\ p.q.policy # EmptyName
                        /\ ~p.raced => names'[p.q.key] = None
      BY DEF ReadyCreate
    <3>1. /\ p.id = <<p.q.key, s>> /\ keys[p.id] = None /\ p.q.policy # EmptyName
          /\ ~p.raced => names[p.q.key] = None
      BY <1>14 DEF Ready, ReadyCreate
    <3>2. p.id \in Ids  BY <2>2, <3>1 DEF Ids
    <3> QED BY <1>1, <1>10, <3>1, <3>2
  <2>4. ReadyKey(p)'
    BY <1>1, <1>10, <1>14, <2>1 DEF Ready, ReadyKey
  <2>5. ReadyAdd(p)' /\ ReadyPolicy(p)'
    BY <1>1, <1>14 DEF Ready, ReadyAdd, ReadyPolicy
  <2> QED BY <2>3, <2>4, <2>5 DEF Ready
<1>15. Calm  BY <1>1, <1>13, <1>14 DEF Calm
<1> QED BY <1>1, <1>2, <1>15, PlainReply DEF Statuses

LEMMA ProduceStep ==
    ASSUME ServiceInv, NEW r \in Requests, Produce(r)
    PROVE  ServiceInv'
<1> DEFINE q == reqs[r].q
           i == reqs[r].id
           v == reqs[r].seen
           a == [rpc |-> q.rpc, key |-> q.key, material |-> versions[i][v],
                 version |-> v, context |-> q.context]
<1>1. /\ reqs[r] # None /\ reqs[r].at = "use" /\ q.rpc \in Producers
      /\ held' = a /\ Reply(r, "OK", "none") /\ UNCHANGED <<enabled, store, policies, history>>
  BY DEF Produce, At
<1>2. q.rpc \notin Consumers /\ q.rpc \in KeyUses  BY <1>1, RpcKinds DEF KeyUses
<1>3. /\ i \in Ids /\ i[1] = q.key /\ keys[i] # None /\ v \in Versions
      /\ versions[i][v] # None /\ versions[i][v] \in Materials
      /\ names[q.key] = i \/ {q.key} \X Versions \subseteq contended
  BY <1>1, <1>2, KeyInHand
<1>4. q \in Queries /\ q.key \in Keys  BY <1>1, RequestType
<1>5. a \in Artefacts  BY <1>1, <1>3, <1>4 DEF Artefacts, Queries
<1>6. names[q.key] # None /\ versions[i][v][1] = i  BY <1>3 DEF ServiceInv, Stored
<1>7. Made(a)
  <2>1. <<q.key, v>> \notin contended => names[q.key] = i  BY <1>3
  <2>2. a.key = q.key /\ a.version = v /\ a.material = versions[i][v]  OBVIOUS
  <2> HIDE DEF a
  <2> QED BY <1>3, <1>5, <1>6, <2>1, <2>2 DEF Made
<1>8. UNCHANGED <<names, versions, contended>>  BY <1>1 DEF store, history
<1>9. Made(held)'  BY <1>1, <1>7, <1>8 DEF Made
<1>10. Calm  BY <1>1, <1>5, <1>9, StoresStay
<1> QED BY <1>1, <1>2, <1>10, PlainReply DEF Statuses

LEMMA ConsumeStep ==
    ASSUME ServiceInv, NEW r \in Requests, Consume(r)
    PROVE  ServiceInv'
<1> DEFINE q == reqs[r].q
           i == reqs[r].id
           v == IF q.version = 0 THEN reqs[r].seen ELSE q.version
           m == versions[i][v]
           good == q.art.material = m /\ q.art.context = q.context
<1>1. reqs[r] # None /\ reqs[r].at = "use" /\ q.rpc \in Consumers  BY DEF Consume, At
<1>2. Calm  BY StoresStay DEF Consume, ServiceInv, TypeOK
<1>3. Made(q.art)  BY <1>1 DEF ServiceInv, Kept, Presented
<1>4. q.art \in Artefacts /\ q.art.version \in Versions /\ q.art.material \in Materials
      /\ q.art.material[1][1] = q.art.key
  BY <1>3 DEF Made, Artefacts
<1>5. /\ i \in Ids /\ i[1] = q.key /\ reqs[r].seen \in Versions
      /\ names[q.key] = i \/ {q.key} \X Versions \subseteq contended
  BY <1>1, KeyInHand DEF KeyUses
<1>6. v \in Versions
  <2>1. q.version \in 0..MaxVersions /\ MaxVersions \in Nat
    BY <1>1, RequestType DEF Queries
  <2> QED BY <1>5, <2>1 DEF Versions
<1>7. ASSUME q.key = q.art.key, q.version = q.art.version, <<q.key, q.version>> \notin contended
      PROVE  m = q.art.material /\ m # None
  <2>1. v = q.art.version  BY <1>4, <1>7 DEF Versions
  <2>2. names[q.key] = i  BY <1>4, <1>5, <1>7
  <2>3. versions[i][q.art.version] = q.art.material  BY <1>3, <1>7, <2>2 DEF Made
  <2> QED BY <1>4, <2>1, <2>3, RequestAssumption
<1>8. CASE m = None /\ Reply(r, "NotFound", "none")
  <2>1. Faithful(q, "NotFound", "none")  BY <1>7, <1>8 DEF Faithful
  <2> QED BY <1>1, <1>2, <1>8, <2>1, ReplyStep DEF Statuses, Results
<1>9. CASE m # None /\ good /\ Reply(r, "OK", "valid")
  <2>1. m[1] = i  BY <1>5, <1>6, <1>9 DEF ServiceInv, Stored
  <2>2. q.key = q.art.key /\ q.context = q.art.context  BY <1>4, <1>5, <1>9, <2>1
  <2>3. Faithful(q, "OK", "valid")  BY <2>2 DEF Faithful
  <2> QED BY <1>1, <1>2, <1>9, <2>3, ReplyStep DEF Statuses, Results
<1>10. CASE ~good /\ Reply(r, "OK", "invalid")
  <2>1. Faithful(q, "OK", "invalid")  BY <1>7, <1>10 DEF Faithful
  <2> QED BY <1>1, <1>2, <1>10, <2>1, ReplyStep DEF Statuses, Results
<1> QED BY <1>8, <1>9, <1>10 DEF Consume, KeyVersion

LEMMA CheckPolicyStep ==
    ASSUME ServiceInv, NEW r \in Requests, CheckPolicy(r)
    PROVE  ServiceInv'
<1> DEFINE q == reqs[r].q
           v == policies[q.policy]
           p == [reqs[r] EXCEPT !.at = "write", !.id = None, !.seen = v]
<1>1. reqs[r] # None /\ q.rpc \in PolicyUpdates
  BY DEF CheckPolicy, At, PolicyUpdates
<1>2. q.rpc \notin Consumers \cup KeyUses \cup Rotating /\ q.rpc # "CreateKey"
  BY <1>1, RpcKinds DEF KeyUses
<1>3. Calm  BY StoresStay DEF CheckPolicy, ServiceInv, TypeOK
<1>4. CASE \E status \in Statuses : Reply(r, status, "none")
  BY <1>1, <1>2, <1>3, <1>4, PlainReply
<1>5. CASE /\ IF q.rpc = "CreateCryptoPolicy" THEN v = 0 ELSE v > 0 /\ q.version \in {0, v}
           /\ v < MaxVersions /\ Proceed(r, "write", None, v)
  <2>1. q.policy \in Policies  BY <1>1, NamedPolicy
  <2>2. v \in 0..MaxVersions  BY <2>1 DEF ServiceInv, TypeOK
  <2>3. p.at = "write" /\ p.seen = v /\ p.q = q  BY <1>1, MovedFields
  <2> HIDE DEF p
  <2>4. Ready(r, p)
    BY <1>1, <1>2, <1>5, <2>3
       DEF Ready, ReadyCreate, ReadyKey, ReadyAdd, ReadyPolicy, PolicyUpdates
  <2> QED BY <1>1, <1>3, <1>5, <2>2, <2>4, ProceedStep DEF p
<1> QED BY <1>4, <1>5 DEF CheckPolicy, Statuses

LEMMA WritePolicyStep ==
    ASSUME ServiceInv, NEW r \in Requests, WritePolicy(r)
    PROVE  ServiceInv'
<1> DEFINE q == reqs[r].q
           v == reqs[r].seen
<1>1. /\ reqs[r] # None /\ reqs[r].at = "write" /\ q.rpc \in PolicyUpdates
      /\ policies' = [policies EXCEPT ![q.policy] = v + 1]
      /\ newest' = [newest EXCEPT ![q.policy] = IF v + 1 > @ THEN v + 1 ELSE @]
      /\ Answer(r, "OK", "none") /\ Wrote(r, None)
      /\ UNCHANGED <<enabled, names, keys, versions, held, contended>>
  BY DEF WritePolicy, At, PolicyUpdates, store
<1>2. q.policy \in Policies /\ v \in 0..MaxVersions /\ MaxVersions \in Nat /\ v < MaxVersions
  BY <1>1, NamedPolicy, RequestType DEF Ready, ReadyPolicy
<1>3. v + 1 \in 0..MaxVersions  BY <1>2
<1>4. /\ policies' \in [Policies -> 0..MaxVersions]
      /\ newest' \in [Policies -> 0..MaxVersions]
  BY <1>1, <1>2, <1>3 DEF ServiceInv, TypeOK
<1>5. Stored'  BY <1>1 DEF ServiceInv, Stored
<1>6. \A a : Made(a) => Made(a)'  BY <1>1 DEF Made
<1>7. StoresOK  BY <1>1, <1>4, <1>5, <1>6 DEF StoresOK, ServiceInv, TypeOK
<1>8. ASSUME NEW s \in Requests, s # r, reqs[s] # None PROVE Ready(s, reqs[s])'
  <2>1. /\ reqs'[s].q = reqs[s].q /\ reqs'[s].at = reqs[s].at /\ reqs'[s].id = reqs[s].id
        /\ reqs'[s].seen = reqs[s].seen
        /\ reqs'[s].raced <=> \/ reqs[s].raced
                              \/ reqs[s].at = "write" /\ SameTarget(reqs[s].q, q)
    BY <1>1, <1>8, WroteFields
  <2>2. Ready(s, reqs[s])  BY <1>8, RequestType
  <2>3. ReadyCreate(s, reqs[s])' /\ ReadyKey(reqs[s])' /\ ReadyAdd(reqs[s])'
    BY <1>1, <2>1, <2>2 DEF Ready, ReadyCreate, ReadyKey, ReadyAdd
  <2>4. ReadyPolicy(reqs[s])'
    <3> SUFFICES ASSUME reqs[s].at = "write", reqs[s].q.rpc \in PolicyUpdates
                 PROVE  /\ reqs[s].seen < MaxVersions
                        /\ ~reqs'[s].raced =>
                             /\ policies'[reqs[s].q.policy] = reqs[s].seen
                             /\ reqs[s].q.rpc = "CreateCryptoPolicy" => reqs[s].seen = 0
                             /\ reqs[s].q.rpc = "UpdateCryptoPolicy"
                                  => reqs[s].q.version \in {0, reqs[s].seen}
      BY <2>1 DEF ReadyPolicy
    <3>1. /\ reqs[s].seen < MaxVersions
          /\ ~reqs[s].raced =>
               /\ policies[reqs[s].q.policy] = reqs[s].seen
               /\ reqs[s].q.rpc = "CreateCryptoPolicy" => reqs[s].seen = 0
               /\ reqs[s].q.rpc = "UpdateCryptoPolicy"
                    => reqs[s].q.version \in {0, reqs[s].seen}
      BY <2>2 DEF Ready, ReadyPolicy
    <3>2. reqs[s].q.policy \in Policies  BY <1>8, NamedPolicy
    <3>3. reqs[s].q.policy = q.policy => reqs'[s].raced
      BY <1>1, <2>1, RpcKinds DEF SameTarget
    <3>4. reqs[s].q.policy # q.policy => policies'[reqs[s].q.policy] = policies[reqs[s].q.policy]
      BY <1>1, <3>2 DEF ServiceInv, TypeOK
    <3> QED BY <2>1, <3>1, <3>3, <3>4
  <2> QED BY <2>3, <2>4 DEF Ready
<1>9. q.rpc \notin Consumers  BY <1>1, RpcKinds DEF KeyUses
<1> QED BY <1>1, <1>7, <1>8, <1>9, WroteStep

LEMMA RefuseStep ==
    ASSUME ServiceInv, NEW r \in Requests, Refuse(r)
    PROVE  ServiceInv'
<1>1. Calm  BY StoresStay DEF Refuse, ServiceInv, TypeOK
<1> QED BY <1>1, PlainReply DEF Refuse, Statuses

\* The steps there are.
LEMMA Steps ==
    ASSUME Next
    PROVE  \E r \in Requests :
             \/ \E c \in IF enabled THEN Tokens ELSE {None} :
                  AskKey(r, c) \/ AskPolicy(r, c) \/ AskCrypto(r, c) \/ Present(r, c)
             \/ CheckName(r) \/ CreateKey(r) \/ ReadKey(r) \/ ReadCurrent(r)
             \/ CheckVersion(r) \/ (\E keep \in BOOLEAN : AddVersion(r, keep)) \/ UpdateKey(r)
             \/ Produce(r) \/ Consume(r)
             \/ ReadPolicy(r) \/ CheckPolicy(r) \/ WritePolicy(r)
             \/ Refuse(r)
  BY DEF Next

\* Every step keeps the invariant.
LEMMA ServiceStep == ServiceInv /\ [Next]_vars => ServiceInv'
<1> SUFFICES ASSUME ServiceInv, [Next]_vars PROVE ServiceInv'
  OBVIOUS
<1>1. CASE UNCHANGED vars
  <2>1. UNCHANGED <<enabled, names, keys, versions, policies, held, reqs, answer, contended, newest>>
    BY <1>1 DEF vars, store, history
  <2>2. TypeOK' /\ Stored' /\ RoundTrip'  BY <2>1 DEF ServiceInv, TypeOK, Stored, RoundTrip
  <2>3. Kept'  BY <2>1 DEF ServiceInv, Kept, Presented, Made
  <2>4. Underway'
    BY <2>1 DEF ServiceInv, Underway, Ready, ReadyCreate, ReadyKey, ReadyAdd, ReadyPolicy
  <2>5. Admitted'
    BY <2>1 DEF ServiceInv, Admitted, Admission, Gate, PolicyHandler, KeyHandler, AuthorizeKey,
                AuthorizePolicy
  <2> QED BY <2>2, <2>3, <2>4, <2>5 DEF ServiceInv
<1>2. CASE Next
  <2>1. PICK r \in Requests :
             \/ \E c \in IF enabled THEN Tokens ELSE {None} :
                  AskKey(r, c) \/ AskPolicy(r, c) \/ AskCrypto(r, c) \/ Present(r, c)
             \/ CheckName(r) \/ CreateKey(r) \/ ReadKey(r) \/ ReadCurrent(r)
             \/ CheckVersion(r) \/ (\E keep \in BOOLEAN : AddVersion(r, keep)) \/ UpdateKey(r)
             \/ Produce(r) \/ Consume(r)
             \/ ReadPolicy(r) \/ CheckPolicy(r) \/ WritePolicy(r)
             \/ Refuse(r)
    BY <1>2, Steps
  <2>2. CASE \E c \in IF enabled THEN Tokens ELSE {None} :
               AskKey(r, c) \/ AskPolicy(r, c) \/ AskCrypto(r, c) \/ Present(r, c)
    BY <2>2, AskStep
  <2>3. CASE \E keep \in BOOLEAN : AddVersion(r, keep)
    BY <2>3, AddVersionStep
  <2> QED BY <2>1, <2>2, <2>3, CheckNameStep, CreateKeyStep, ReadKeyStep, ReadCurrentStep,
             CheckVersionStep, UpdateKeyStep, ProduceStep, ConsumeStep, CheckPolicyStep,
             WritePolicyStep, RefuseStep
<1> QED BY <1>1, <1>2

LEMMA ServiceInit == Init => ServiceInv
<1> SUFFICES ASSUME Init PROVE ServiceInv
  OBVIOUS
<1>1. TypeOK  BY ServiceAssumption DEF Init, TypeOK
<1>2. Stored  BY DEF Init, Stored
<1>3. Admitted /\ Kept /\ Underway /\ RoundTrip
  BY DEF Init, Admitted, Kept, Underway, RoundTrip
<1> QED BY <1>1, <1>2, <1>3 DEF ServiceInv

LEMMA ServiceInvariance == Spec => []ServiceInv
<1>1. Init => ServiceInv  BY ServiceInit
<1>2. ServiceInv /\ [Next]_vars => ServiceInv'  BY ServiceStep
<1> QED BY <1>1, <1>2, PTL DEF Spec

-----------------------------------------------------------------------------
(* What the invariant gives.                                               *)

\* What a caller needs for a key, and for a policy, once both layers let it
\* through.
LEMMA KeyAdmission ==
    ASSUME enabled, NEW c, NEW q, Admission(c, q) = "OK", q.rpc \notin PolicyRpcs
    PROVE  /\ c # None /\ Permission(q.rpc) \in c.perms
           /\ q.key \in c.allowKeys \ c.denyKeys
           /\ (q.rpc = "CreateKey" /\ q.policy # EmptyName)
                => q.policy \in c.allowPolicies \ c.denyPolicies
  BY DEF Admission, Gate, KeyHandler, AuthorizeKey, AuthorizePolicy

LEMMA PolicyAdmission ==
    ASSUME enabled, NEW c, NEW q, Admission(c, q) = "OK", q.rpc \in PolicyRpcs
    PROVE  /\ c # None /\ Permission(q.rpc) \in c.perms
           /\ q.policy \in c.allowPolicies \ c.denyPolicies
  BY DEF Admission, Gate, PolicyHandler, AuthorizePolicy

\* The permission of the RPCs that write.
LEMMA WritePermission ==
    /\ Permission("CreateKey") = "keys:create"
    /\ \A o \in {"TransformKey", "MigrateKey"} : Permission(o) = "keys:rotate"
    /\ \A o \in {"CreateCryptoPolicy", "UpdateCryptoPolicy"} : Permission(o) = "policy:write"
    /\ Permission("Decrypt") = "crypto:decrypt"
  BY DEF Permission, KeysCreate, KeysRotate, KeysRead, PolicyReads, PolicyWrites

\* The steps that change the name index, the keys and versions, and the policies.
LEMMA Frame ==
    ASSUME Next
    PROVE  /\ names' = names \/ \E r \in Requests : CreateKey(r)
           /\ \/ keys' = keys /\ versions' = versions
              \/ \E r \in Requests : \/ CreateKey(r) \/ UpdateKey(r)
                                     \/ \E keep \in BOOLEAN : AddVersion(r, keep)
           /\ policies' = policies \/ \E r \in Requests : WritePolicy(r)
<1>1. PICK r \in Requests :
             \/ \E c \in IF enabled THEN Tokens ELSE {None} :
                  AskKey(r, c) \/ AskPolicy(r, c) \/ AskCrypto(r, c) \/ Present(r, c)
             \/ CheckName(r) \/ CreateKey(r) \/ ReadKey(r) \/ ReadCurrent(r)
             \/ CheckVersion(r) \/ (\E keep \in BOOLEAN : AddVersion(r, keep)) \/ UpdateKey(r)
             \/ Produce(r) \/ Consume(r)
             \/ ReadPolicy(r) \/ CheckPolicy(r) \/ WritePolicy(r)
             \/ Refuse(r)
  BY Steps
<1>2. ASSUME NEW c, AskKey(r, c) \/ AskPolicy(r, c) \/ AskCrypto(r, c) \/ Present(r, c)
      PROVE  UNCHANGED <<store, policies>>
  <2>1. \E q : Receive(r, c, q)  BY <1>2, Zenon DEF AskKey, AskPolicy, AskCrypto, Present
  <2> QED BY <2>1 DEF Receive
<1>3. ASSUME \/ CheckName(r) \/ ReadKey(r) \/ ReadCurrent(r) \/ CheckVersion(r)
             \/ Produce(r) \/ Consume(r) \/ ReadPolicy(r) \/ CheckPolicy(r) \/ Refuse(r)
      PROVE  UNCHANGED <<store, policies>>
  BY <1>3 DEF CheckName, ReadKey, ReadCurrent, CheckVersion, Produce, Consume, ReadPolicy,
              CheckPolicy, Refuse
<1>4. CreateKey(r) => policies' = policies  BY DEF CreateKey
<1>5. ASSUME UpdateKey(r) \/ \E keep \in BOOLEAN : AddVersion(r, keep)
      PROVE  UNCHANGED <<names, policies>>
  BY <1>5 DEF UpdateKey, AddVersion
<1>6. WritePolicy(r) => UNCHANGED store  BY DEF WritePolicy
<1>7. UNCHANGED store => UNCHANGED <<names, keys, versions>>  BY DEF store
<1> QED BY <1>1, <1>2, <1>3, <1>4, <1>5, <1>6, <1>7

\* A name is given to a key only where a request creates it, under a named policy.
LEMMA NameChange ==
    ASSUME ServiceInv, Next, NEW n \in Keys, names'[n] # names[n]
    PROVE  \E r \in Requests :
             /\ reqs[r] # None /\ reqs[r].q.key = n /\ reqs[r].q.rpc = "CreateKey"
             /\ reqs[r].q.policy # EmptyName /\ keys'[names'[n]].policy = reqs[r].q.policy
<1>1. PICK r \in Requests : CreateKey(r)  BY Frame
<1>2. /\ reqs[r] # None /\ reqs[r].at = "write" /\ reqs[r].q.rpc = "CreateKey"
      /\ names' = [names EXCEPT ![reqs[r].q.key] = reqs[r].id]
      /\ keys' = [keys EXCEPT ![reqs[r].id] = [policy |-> reqs[r].q.policy, current |-> 1]]
  BY <1>1 DEF CreateKey, At
<1>3. /\ reqs[r].id = <<reqs[r].q.key, r>> /\ reqs[r].q.policy # EmptyName
      /\ reqs[r].q.key \in Keys
  BY <1>2, RequestType DEF Ready, ReadyCreate
<1>4. reqs[r].id \in Ids  BY <1>3 DEF Ids
<1>5. reqs[r].q.key = n /\ names'[n] = reqs[r].id  BY <1>2 DEF ServiceInv, TypeOK
<1>6. keys'[reqs[r].id].policy = reqs[r].q.policy  BY <1>2, <1>4 DEF ServiceInv, TypeOK
<1> QED BY <1>2, <1>3, <1>5, <1>6

\* A stored key changes only where a request transforms or migrates it.
LEMMA KeyChange ==
    ASSUME ServiceInv, Next, NEW i \in Ids, keys[i] # None,
           keys'[i] # keys[i] \/ versions'[i] # versions[i]
    PROVE  \E r \in Requests :
             /\ reqs[r] # None /\ reqs[r].q.key = i[1] /\ reqs[r].q.rpc \in Rotating
<1>1. PICK r \in Requests : \/ CreateKey(r) \/ UpdateKey(r)
                            \/ \E keep \in BOOLEAN : AddVersion(r, keep)
  BY Frame
<1>2. CASE CreateKey(r)
  <2>1. /\ reqs[r] # None /\ reqs[r].at = "write" /\ reqs[r].q.rpc = "CreateKey"
        /\ \E k : keys' = [keys EXCEPT ![reqs[r].id] = k]
        /\ \E m : versions' = [versions EXCEPT ![reqs[r].id][1] = m]
    BY <1>2 DEF CreateKey, At
  <2>2. i = reqs[r].id  BY <2>1 DEF ServiceInv, TypeOK
  <2>3. keys[reqs[r].id] = None  BY <2>1, RequestType DEF Ready, ReadyCreate
  <2> QED BY <2>2, <2>3
<1>3. CASE UpdateKey(r) \/ \E keep \in BOOLEAN : AddVersion(r, keep)
  <2>1. /\ reqs[r] # None /\ reqs[r].at # "read" /\ reqs[r].q.rpc \in Rotating
        /\ \/ keys' = keys
           \/ \E v : keys' = [keys EXCEPT ![reqs[r].id].current = v]
        /\ \/ versions' = versions
           \/ \E v, m : versions' = [versions EXCEPT ![reqs[r].id][v] = m]
    BY <1>3 DEF UpdateKey, AddVersion, At, Rotating
  <2>2. i = reqs[r].id  BY <2>1 DEF ServiceInv, TypeOK
  <2>3. i[1] = reqs[r].q.key  BY <2>1, <2>2, KeyInHand DEF KeyUses
  <2> QED BY <2>1, <2>3
<1> QED BY <1>1, <1>2, <1>3

\* A policy changes only where a request writes it.
LEMMA PolicyChange ==
    ASSUME ServiceInv, Next, NEW p \in Policies, policies'[p] # policies[p]
    PROVE  \E r \in Requests : /\ reqs[r] # None /\ reqs[r].q.policy = p
                               /\ reqs[r].q.rpc \in PolicyUpdates
<1>1. PICK r \in Requests : WritePolicy(r)
  BY Frame
<1>2. /\ reqs[r] # None /\ reqs[r].q.rpc \in PolicyUpdates
      /\ policies' = [policies EXCEPT ![reqs[r].q.policy] = reqs[r].seen + 1]
  BY <1>1 DEF WritePolicy, At, PolicyUpdates
<1>3. reqs[r].q.policy = p  BY <1>2 DEF ServiceInv, TypeOK
<1> QED BY <1>2, <1>3

\* With authorization on, a name is given to a key, a key changed, or a policy
\* written, only by a request whose claims carry the permission of that change
\* and cover the key and the policy, whatever other requests are in progress.
THEOREM OnlyAuthorizedEffects == Spec => EffectsAuthorized
<1>1. ServiceInv /\ [Next]_vars => [AuthorizedStep]_vars
  <2> SUFFICES ASSUME ServiceInv, Next, enabled PROVE AuthorizedStep
    BY DEF AuthorizedStep
  <2>1. \A r \in Requests : reqs[r] # None => Admission(reqs[r].claims, reqs[r].q) = "OK"
    BY DEF ServiceInv, Admitted
  <2>2. "CreateKey" \notin PolicyRpcs /\ Rotating \cap PolicyRpcs = {}
    BY DEF PolicyRpcs, PolicyReads, PolicyWrites, Rotating
  <2>3. ASSUME NEW n \in Keys, names'[n] # names[n]
        PROVE  \E r \in Requests : /\ MayChangeKey(r, "keys:create", n)
                                   /\ MayUsePolicy(r, keys'[names'[n]].policy)
    <3>1. PICK r \in Requests :
            /\ reqs[r] # None /\ reqs[r].q.key = n /\ reqs[r].q.rpc = "CreateKey"
            /\ reqs[r].q.policy # EmptyName /\ keys'[names'[n]].policy = reqs[r].q.policy
      BY <2>3, NameChange
    <3>2. /\ reqs[r].claims # None /\ Permission(reqs[r].q.rpc) \in reqs[r].claims.perms
          /\ n \in reqs[r].claims.allowKeys \ reqs[r].claims.denyKeys
          /\ reqs[r].q.policy \in reqs[r].claims.allowPolicies \ reqs[r].claims.denyPolicies
      BY <2>1, <2>2, <3>1, KeyAdmission
    <3> QED BY <3>1, <3>2, WritePermission DEF MayChangeKey, MayUsePolicy
  <2>4. ASSUME NEW i \in Ids, keys[i] # None, keys'[i] # keys[i] \/ versions'[i] # versions[i]
        PROVE  \E r \in Requests : MayChangeKey(r, "keys:rotate", i[1])
    <3>1. PICK r \in Requests :
            /\ reqs[r] # None /\ reqs[r].q.key = i[1] /\ reqs[r].q.rpc \in Rotating
      BY <2>4, KeyChange
    <3>2. /\ reqs[r].claims # None /\ Permission(reqs[r].q.rpc) \in reqs[r].claims.perms
          /\ i[1] \in reqs[r].claims.allowKeys \ reqs[r].claims.denyKeys
      BY <2>1, <2>2, <3>1, KeyAdmission
    <3> QED BY <3>1, <3>2, WritePermission DEF MayChangeKey, Rotating
  <2>5. ASSUME NEW p \in Policies, policies'[p] # policies[p]
        PROVE  \E r \in Requests : MayUsePolicy(r, p)
                                   /\ "policy:write" \in reqs[r].claims.perms
    <3>1. PICK r \in Requests : /\ reqs[r] # None /\ reqs[r].q.policy = p
                                /\ reqs[r].q.rpc \in PolicyUpdates
      BY <2>5, PolicyChange
    <3>2. /\ reqs[r].claims # None /\ Permission(reqs[r].q.rpc) \in reqs[r].claims.perms
          /\ p \in reqs[r].claims.allowPolicies \ reqs[r].claims.denyPolicies
      BY <2>1, <3>1, RpcKinds, PolicyAdmission
    <3> QED BY <3>1, <3>2, WritePermission DEF MayUsePolicy, PolicyUpdates
  <2> QED BY <2>3, <2>4, <2>5 DEF AuthorizedStep
<1> QED BY <1>1, ServiceInvariance, PTL DEF EffectsAuthorized, Spec

\* An orchestrator's answer reaches only a caller whose claims cover the key
\* or the policy it is about.
THEOREM NobodyElseLearns == Spec => []NothingLearned
<1>1. ServiceInv => NothingLearned
  <2> SUFFICES ASSUME ServiceInv, enabled, answer # None
               PROVE  /\ answer.claims # None
                      /\ IF answer.q.rpc \in PolicyRpcs
                         THEN answer.q.policy
                                \in answer.claims.allowPolicies \ answer.claims.denyPolicies
                         ELSE answer.q.key
                                \in answer.claims.allowKeys \ answer.claims.denyKeys
                      /\ answer.q.rpc = "Decrypt" => "crypto:decrypt" \in answer.claims.perms
    BY DEF NothingLearned
  <2>1. Admission(answer.claims, answer.q) = "OK"  BY DEF ServiceInv, Admitted
  <2>2. "Decrypt" \notin PolicyRpcs  BY DEF PolicyRpcs, PolicyReads, PolicyWrites
  <2> QED BY <2>1, <2>2, KeyAdmission, PolicyAdmission, WritePermission
<1> QED BY <1>1, ServiceInvariance, PTL

\* What was encrypted or signed stays decryptable and verifiable with the
\* metadata it came with, across any number of concurrent changes of its key,
\* unless that very version, or the key's name, was stored by requests that
\* raced; and nothing passes under another key or with other parameters.
THEOREM ArtefactsSurvive == Spec => []RoundTrip
<1>1. ServiceInv => RoundTrip  BY DEF ServiceInv
<1> QED BY <1>1, ServiceInvariance, PTL

\* A policy write that no other write came in between loses nothing: it replaces
\* the version its caller expected, or nothing, whatever else goes on.
THEOREM UpdatesLostOnlyInRace == Spec => LostOnlyInRace
<1> DEFINE Kept1(r, p) ==
             /\ reqs[r] # None /\ reqs'[r] = None /\ policies'[p] # policies[p]
             /\ ~reqs[r].raced
             => /\ policies'[p] = policies[p] + 1
                /\ reqs[r].q.rpc = "CreateCryptoPolicy" => policies[p] = 0
                /\ reqs[r].q.rpc = "UpdateCryptoPolicy" => reqs[r].q.version \in {0, policies[p]}
<1>1. ServiceInv /\ [Next]_vars => [\A r \in Requests, p \in Policies : Kept1(r, p)]_vars
  <2> SUFFICES ASSUME ServiceInv, Next, NEW r \in Requests, NEW p \in Policies,
                      reqs[r] # None, reqs'[r] = None, policies'[p] # policies[p], ~reqs[r].raced
               PROVE  /\ policies'[p] = policies[p] + 1
                      /\ reqs[r].q.rpc = "CreateCryptoPolicy" => policies[p] = 0
                      /\ reqs[r].q.rpc = "UpdateCryptoPolicy" => reqs[r].q.version \in {0, policies[p]}
    OBVIOUS
  <2>1. PICK s \in Requests : WritePolicy(s)
    BY Frame
  <2>2. Wrote(s, None)  BY <2>1 DEF WritePolicy
  <2>3. r = s  BY <2>2, WroteFields
  <2>4. /\ reqs[r].at = "write" /\ reqs[r].q.rpc \in PolicyUpdates
        /\ policies' = [policies EXCEPT ![reqs[r].q.policy] = reqs[r].seen + 1]
    BY <2>1, <2>3 DEF WritePolicy, PolicyUpdates, At
  <2>5. reqs[r].q.policy = p
    BY <2>4 DEF ServiceInv, TypeOK
  <2>6. /\ policies[p] = reqs[r].seen
        /\ reqs[r].q.rpc = "CreateCryptoPolicy" => reqs[r].seen = 0
        /\ reqs[r].q.rpc = "UpdateCryptoPolicy" => reqs[r].q.version \in {0, reqs[r].seen}
    BY <2>4, <2>5, RequestType DEF Ready, ReadyPolicy
  <2> QED BY <2>4, <2>5, <2>6 DEF ServiceInv, TypeOK
<1> QED BY <1>1, ServiceInvariance, PTL DEF LostOnlyInRace, Spec

=============================================================================
