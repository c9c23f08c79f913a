----------------------------- MODULE Deployment -----------------------------
(***************************************************************************)
(* A deployment of the server, from start-up to the life of one key: the   *)
(* catalogue is loaded and the providers are registered and validated      *)
(* (internal/cmd/server/wire.go, internal/app/validate.go); then a client  *)
(* asks the discovery and provider services, creates a key, uses it and    *)
(* moves it from one provider to another.                                  *)
(*                                                                         *)
(* config is what the environment is like: the catalogue's name, whether   *)
(* libcrypto can be used, what becomes of the FIPS context ("unset",       *)
(* "ok", "fails", or "open": built, but not restricted), and after how     *)
(* many writes the storage fails.  answer is the client's last answer; a   *)
(* migration keeps it, so that an artefact can be checked after the key    *)
(* has moved.                                                              *)
(***************************************************************************)
EXTENDS ProviderRegistry

CONSTANTS
    Catalogues,    \* name |-> templates in ID order
    Configs,       \* the environments: [catalogue, libcrypto, fips, writes]
    FIPSSupported, \* the templates that a restricted context supports
    Asked,         \* the template IDs that queries name
    Specs,         \* the scope specifications that requests name
    Candidates,    \* the candidate sets of more than one template that a policy names
    Requirements,  \* the provider requirements that requests carry
    Faults,        \* the storage faults that a read may meet
    Sizes,         \* page sizes
    Hashes         \* the hashes of digests, and those that digest requests declare

\* Catalogues are sequences, and the size of an RSA template is a modulus
\* length, never the size of another type of key or none.
ASSUME CatalogueAssumption ==
    \A c \in Configs :
        LET catalogue == Catalogues[c.catalogue] IN
        /\ catalogue \in Seq(ToSet(catalogue))
        /\ \A t \in ToSet(catalogue) :
              t.details.family \in {"rsaPss", "rsaPkcs1v15"} =>
                  t.details.bits \notin {0, 256, 384, 521}

\* The store keeps one template under an ID.  No ID is empty, no template has
\* the scope that stands for none.  A policy's candidates are a list.
ASSUME EntryAssumption ==
    /\ \A c \in Configs :
          LET catalogue == Catalogues[c.catalogue] IN
          /\ \A i, j \in DOMAIN catalogue : catalogue[i].id = catalogue[j].id => i = j
          /\ \A t \in ToSet(catalogue) :
                t.id # "" /\ \A s \in t.scopes : s.name # NoScope.name
    /\ \A cs \in Candidates : cs.restricted /\ cs.ids \in Seq(ToSet(cs.ids))
    /\ Sizes \subseteq Int

Soft == INSTANCE SoftwareProvider
Ossl == INSTANCE OpenSSLProvider

(***************************************************************************)
(* What the catalogue says of a template that a provider advertises: the   *)
(* algorithm is one that the provider implements, with parameters that it  *)
(* accepts.  Only the software provider takes digests to sign with another *)
(* algorithm than Ed25519ph, or the extended nonce.                        *)
(***************************************************************************)
SHA2 == {"SHA256", "SHA384", "SHA512"}

SignatureForms ==
    {ECDSA("P256", "SHA256"), ECDSA("P384", "SHA384"), ECDSA("P521", "SHA512"), Ed25519("PURE")}
    \cup {MLDSA(set) : set \in {44, 65, 87}}
    \cup {RSAPSS(bits, hash) : bits \in {2048, 3072, 4096}, hash \in SHA2}
    \cup {RSAPKCS1(bits, hash) : bits \in {2048, 3072, 4096}, hash \in SHA2}

PrehashedForms ==
    {Ed25519("PH")}
    \cup {ECDSA(curve, Unspecified) : curve \in {"P256", "P384", "P521"}}
    \cup {RSAPSS(bits, Unspecified) : bits \in {2048, 3072, 4096}}
    \cup {RSAPKCS1(bits, Unspecified) : bits \in {2048, 3072, 4096}}

CipherForms ==
    {AESGCM(bits) : bits \in {128, 192, 256}}
    \cup {AESCBC(bits) : bits \in {128, 192, 256}}
    \cup {AESCTR(bits) : bits \in {128, 192, 256}}
    \cup {ChaCha20(96, FALSE), ChaCha20(192, TRUE)}

Described(t) ==
    \/ t.ops = Signs /\ t.details \in SignatureForms
    \/ t.ops = Digests /\ t.details \in PrehashedForms
       /\ (t.id \in Ossl!catalog => t.details = Ed25519("PH"))
    \/ t.ops = Encrypts /\ t.details \in CipherForms
       /\ (t.id \in Ossl!catalog => t.details # ChaCha20(192, TRUE))

ASSUME DescriptionAssumption ==
    \A c \in Configs : \A t \in ToSet(Catalogues[c.catalogue]) :
        t.id \in Soft!SupportedAlgorithms \cup Ossl!catalog => Described(t)

\* Requests are about hashes that the API knows, the two that a client may
\* leave undeclared among them.
ASSUME HashAssumption == {"SHA256", "SHA512"} \subseteq Hashes /\ Hashes \subseteq DOMAIN DigestLength

VARIABLES phase, config, loaded, backends, key, answer

vars == <<phase, config, loaded, backends, key, answer>>

NoKey    == [id |-> "none"]
NoAnswer == [rpc |-> "none"]

\* loaded counts the templates of the catalogue that are stored.
Catalogue == Catalogues[config.catalogue]
stored    == SubSeq(Catalogue, 1, loaded)

Details(template) == (CHOOSE t \in ToSet(stored) : t.id = template).details
OpsOf(template)   == (CHOOSE t \in ToSet(stored) : t.id = template).ops
Backend(name)     == CHOOSE b \in ToSet(backends) : b.name = name

(***************************************************************************)
(* Start-up                                                                *)
(***************************************************************************)
Init ==
    /\ phase = "catalogue"
    /\ config \in Configs
    /\ loaded = 0
    /\ backends = <<>>
    /\ key = NoKey
    /\ answer = NoAnswer

\* One template of LoadStandardCatalog.
Register ==
    /\ phase = "catalogue"
    /\ loaded < Len(Catalogue)
    /\ IF loaded < config.writes THEN loaded' = loaded + 1 /\ phase' = phase
                                 ELSE loaded' = loaded /\ phase' = "failed"
    /\ UNCHANGED <<config, backends, key, answer>>

softwareBackend == [name |-> "software", type |-> "software",
                    algorithms |-> Soft!SupportedAlgorithms, restricted |-> FALSE]
opensslBackend == [name |-> "openssl", type |-> "openssl",
                   algorithms |-> Ossl!deriveAlgorithms(Ossl!catalog), restricted |-> FALSE]

fipsBackend(restricted) ==
    [name |-> "openssl-fips", type |-> "openssl", restricted |-> restricted,
     algorithms |-> Ossl!deriveAlgorithms(IF restricted THEN FIPSSupported ELSE Ossl!catalog)]

RegisterSoftware ==
    /\ phase = "catalogue"
    /\ loaded = Len(Catalogue)
    /\ backends' = <<softwareBackend>>
    /\ phase' = "openssl"
    /\ UNCHANGED <<config, loaded, key, answer>>

RegisterOpenSSL ==
    /\ phase = "openssl"
    /\ IF config.libcrypto THEN backends' = Append(backends, opensslBackend) /\ phase' = "fips"
                           ELSE backends' = backends /\ phase' = "failed"
    /\ UNCHANGED <<config, loaded, key, answer>>

\* Mutant: a FIPS provider that cannot be built ends the start-up.
registerFIPSFatally ==
    /\ phase = "fips"
    /\ IF config.fips = "ok" THEN backends' = Append(backends, fipsBackend(TRUE)) ELSE backends' = backends
    /\ phase' = IF config.fips \in {"ok", "unset"} THEN "validate" ELSE "failed"
    /\ UNCHANGED <<config, loaded, key, answer>>

\* Mutant: New does not ask the context whether it is restricted.
registerFIPSUnchecked ==
    /\ phase = "fips"
    /\ backends' = CASE config.fips = "ok" -> Append(backends, fipsBackend(TRUE))
                     [] config.fips = "open" -> Append(backends, fipsBackend(FALSE))
                     [] OTHER -> backends
    /\ phase' = "validate"
    /\ UNCHANGED <<config, loaded, key, answer>>

\* New refuses a context that was built and turns out not to be restricted.
registerFIPSProvider ==
    /\ phase = "fips"
    /\ backends' = IF config.fips = "ok" THEN Append(backends, fipsBackend(TRUE)) ELSE backends
    /\ phase' = "validate"
    /\ UNCHANGED <<config, loaded, key, answer>>

\* Both kinds of provider are a Signer and a Cipher.
Capabilities(b) == {"Signer", "Cipher"}

\* RequiredCapabilities, of core.
RequiredCapabilities(ops) == (IF ops \cap (Signs \cup Digests) # {} THEN {"Signer"} ELSE {})
                             \cup (IF ops \cap Encrypts # {} THEN {"Cipher"} ELSE {})

missingCapabilitiesFor(b, t) == RequiredCapabilities(t.ops) \ Capabilities(b)

ValidateProviderCapabilities(b) ==
    \A id \in b.algorithms : LET t == Get(stored, id, NoFault) IN
        Ok(t) /\ missingCapabilitiesFor(b, t.how) = {}

ValidateAllProviders ==
    /\ phase = "validate"
    /\ phase' = IF \A b \in ToSet(backends) : ValidateProviderCapabilities(b)
                THEN "serving" ELSE "failed"
    /\ UNCHANGED <<config, loaded, backends, key, answer>>

StartUp == \/ Register
           \/ RegisterSoftware
           \/ RegisterOpenSSL
           \/ registerFIPSProvider
           \/ ValidateAllProviders

(***************************************************************************)
(* Queries.  They read the catalogue and the backends and change nothing   *)
(* else, so the run is bounded to what can matter: a client without a key  *)
(* or an answer asks one, follows its pages, and may create a key next.    *)
(***************************************************************************)
Asking == phase = "serving" /\ key = NoKey /\ answer = NoAnswer

Told(rpc, asked, reply) ==
    /\ answer' = [rpc |-> rpc, asked |-> asked, code |-> reply.code, reply |-> reply.how]
    /\ UNCHANGED <<phase, config, loaded, backends, key>>

\* The last answer announced another page.
Following(rpc) == phase = "serving" /\ answer.rpc = rpc /\ answer.code = "OK" /\ answer.reply.next # 0

Token == IF answer = NoAnswer THEN 0 ELSE answer.reply.next

AskListScopes ==
    /\ Asking
    /\ \E f \in Faults : Told("ListScopes", [fault |-> f], ListScopes(stored, f))

AskListTemplates ==
    /\ Asking \/ Following("ListTemplates")
    /\ \E spec \in Specs \cup {NoScope, BadScope}, passing \in {Asked, ToSet(IDs(stored))},
          f \in Faults, size \in Sizes :
          Told("ListTemplates", [spec |-> spec, passing |-> passing, fault |-> f, size |-> size],
               ListTemplates(stored, passing, spec, f, size, Token))

AskGetTemplate ==
    /\ Asking
    /\ \E id \in Asked \cup {""}, f \in Faults :
          Told("GetTemplate", [template |-> id, fault |-> f], GetTemplate(stored, id, f))

AskListProviderInstances ==
    /\ Asking \/ Following("ListProviderInstances")
    /\ \E type \in {"", "openssl", "software"}, r \in Requirements, size \in Sizes :
          Told("ListProviderInstances", [type |-> type, required |-> r, size |-> size],
               ListProviderInstances(backends, type, r, size, Token))

AskGetProviderInstance ==
    /\ Asking
    /\ \E name \in {""} \cup ToSet(NameOrder) :
          Told("GetProviderInstance", [name |-> name], GetProviderInstance(backends, name))

AskMatchProviders ==
    /\ Asking
    /\ \E id \in Asked \cup {""}, r \in Requirements :
          Told("MatchProviders", [template |-> id, required |-> r], MatchProviders(backends, id, r))

AskListProviders ==
    /\ Asking \/ Following("ListProviders")
    /\ \E id \in Asked \cup {""}, r \in Requirements, size \in Sizes :
          Told("ListProviders", [template |-> id, required |-> r, size |-> size, token |-> Token],
               ListProviders(backends, id, r, size, Token))

AskGetProvider ==
    /\ Asking
    /\ \E type \in {"", "openssl", "software", "hsm"} :
          Told("GetProvider", [type |-> type], GetProvider(backends, type))

Query == \/ AskListScopes
         \/ AskListTemplates
         \/ AskGetTemplate
         \/ AskListProviderInstances
         \/ AskGetProviderInstance
         \/ AskMatchProviders
         \/ AskListProviders
         \/ AskGetProvider

(***************************************************************************)
(* The provider that holds a key answers by its kind                       *)
(***************************************************************************)
GenerateKey(b, d) == IF b.type = "software" THEN Soft!GenerateKey(d) ELSE Ossl!GenerateKey(d)

Transfer(b, d) == IF b.type = "software" THEN Soft!TransferCapabilities(d)
                                         ELSE Ossl!TransferCapabilities(d)

\* A request is [op, message, context, digest, hash, aad], each operation
\* reading its own fields.
Produce(b, d, k, r) ==
    IF b.type = "software"
    THEN CASE r.op = "SIGN"        -> Soft!Sign(d, k, r.message, r.context)
           [] r.op = "DIGEST_SIGN" -> Soft!SignDigest(d, k, r.digest, r.hash)
           [] r.op = "ENCRYPT"     -> Soft!Encrypt(d, k, r.aad)
    ELSE CASE r.op = "SIGN"        -> Ossl!Sign(d, k, r.message, r.context)
           [] r.op = "DIGEST_SIGN" -> Ossl!SignDigest(d, k, r.digest, r.hash)
           [] r.op = "ENCRYPT"     -> Ossl!Encrypt(d, k, r.aad)

\* Verify, VerifyDigest or Decrypt of the artefact a, with the parameters of
\* the request r: what the signature must be, or the plaintext.
Check(b, d, k, r, a) ==
    IF b.type = "software"
    THEN CASE r.op = "SIGN"        -> Soft!Verify(d, k, r.message, r.context)
           [] r.op = "DIGEST_SIGN" -> Soft!VerifyDigest(d, k, r.digest, r.hash)
           [] r.op = "ENCRYPT"     -> Soft!Decrypt(d, k, a, r.aad)
    ELSE CASE r.op = "SIGN"        -> Ossl!Verify(d, k, r.message, r.context)
           [] r.op = "DIGEST_SIGN" -> Ossl!VerifyDigest(d, k, r.digest, r.hash)
           [] r.op = "ENCRYPT"     -> Ossl!Decrypt(d, k, a, r.aad)

\* The artefact is found good: the signature is valid, or its plaintext comes back.
Good(b, d, k, r, a) ==
    LET v == Check(b, d, k, r, a)
    IN Ok(v) /\ IF r.op = "ENCRYPT" THEN v.how = a.of ELSE v.how = a.how /\ a.key = k.id

(***************************************************************************)
(* Keys.  Core narrows a policy's candidates to the templates that some    *)
(* eligible instance serves, selects one, and generates the key on the     *)
(* first ranked instance, or on the one that the request names.            *)
(***************************************************************************)
Pool(pinned) == CASE pinned = "" -> backends
                  [] OTHER -> IF Named(backends, pinned) = {} THEN <<>> ELSE <<Backend(pinned)>>

Narrowed(cs, pinned, required) ==
    LET served(id) == Ranked(Pool(pinned), id, required) # <<>> IN
    IF cs.restricted THEN Only(InOrder(cs.ids, {i \in DOMAIN cs.ids : served(cs.ids[i])})) ELSE cs

\* The key that the first ranked instance makes, or why there is none.
Created(cs, spec, pinned, required, fault) ==
    LET narrowed == Narrowed(cs, pinned, required)
        selected == Select(stored, spec, narrowed, fault)
        ranked   == Ranked(Pool(pinned), selected.how.id, required)
        made     == GenerateKey(ranked[1], selected.how.details)
    IN CASE Pool(pinned) = <<>> -> Refuse("ProviderNotFound")
         [] OTHER -> IF narrowed.restricted /\ narrowed.ids = <<>> THEN Refuse("FailedPrecondition")
                     ELSE IF ~ Ok(selected) THEN selected
                     ELSE IF ranked = <<>> THEN Refuse("FailedPrecondition")
                     ELSE IF ~ Ok(made) THEN made
                     ELSE Answer(<<>>, [id |-> "k1", template |-> selected.how.id,
                                        holder |-> ranked[1].name, required |-> required,
                                        type |-> made.how.type, size |-> made.how.size,
                                        private |-> made.how.private, public |-> made.how.public])

CreateKey ==
    /\ phase = "serving"
    /\ key = NoKey
    /\ answer.rpc \in {"none", "MatchProviders"}
    /\ \E cs \in Candidates \cup {Only(<<id>>) : id \in ToSet(IDs(stored))} \cup {Unrestricted},
          spec \in Specs \cup {NoScope}, pinned \in {""} \cup ToSet(NameOrder),
          required \in {r \in Requirements : r.valid}, f \in Faults :
          LET made == Created(cs, spec, pinned, required, f) IN
          /\ cs = Unrestricted => spec # NoScope
          /\ key' = IF Ok(made) THEN made.how ELSE NoKey
          /\ answer' = [rpc |-> "CreateKey", code |-> made.code,
                        asked |-> [cs |-> cs, spec |-> spec, pinned |-> pinned,
                                   required |-> required, fault |-> f]]
    /\ UNCHANGED <<phase, config, loaded, backends>>

Requests(op) ==
    CASE op = "SIGN" -> [op : {op}, message : {"m", "n"}, context : {0, 255, 256}]
      [] op = "DIGEST_SIGN" -> [op : {op}, digest : {Hash(h, "m") : h \in Hashes},
                                hash : Hashes \cup {Unspecified}]
      [] op = "ENCRYPT" -> [op : {op}, message : {"m", "n"}, aad : {"", "a"}]

\* An operation of the key's template that makes an artefact.
Using(op) ==
    /\ phase = "serving"
    /\ key # NoKey
    /\ op \in OpsOf(key.template)
    /\ \E r \in Requests(op) :
          LET made == Produce(Backend(key.holder), Details(key.template), key, r) IN
          answer' = [rpc |-> op, code |-> made.code, asked |-> r, checked |-> {},
                     artefact |-> [key |-> key.id, how |-> made.how,
                                   of |-> IF op = "DIGEST_SIGN" THEN r.digest ELSE r.message]]
    /\ UNCHANGED <<phase, config, loaded, backends, key>>

\* The operation that checks it, with parameters of the client's choice.
Checking(op) ==
    /\ answer.rpc = op
    /\ answer.code = "OK"
    /\ \E r \in Requests(op) :
          answer' = [answer EXCEPT !.checked = {[asked |-> r,
              good |-> Good(Backend(key.holder), Details(key.template), key, r, answer.artefact)]}]
    /\ UNCHANGED <<phase, config, loaded, backends, key>>

Sign          == Using("SIGN")
Verify        == Checking("SIGN")
DigestSign    == Using("DIGEST_SIGN")
DigestVerify  == Checking("DIGEST_SIGN")
Encrypt       == Using("ENCRYPT")
Decrypt       == Checking("ENCRYPT")

\* MigrateKey with PROVIDER_SWITCH: the stored payload goes to another
\* instance, which must serve the template, meet the key's requirements and
\* accept the encoding that the present holder gives out.
CanMove(b) ==
    LET d == Details(key.template) IN
    /\ Eligible(b, key.template, key.required)
    /\ key.private \in Transfer(Backend(key.holder), d) \cap Transfer(b, d)

MigrateKey ==
    /\ phase = "serving"
    /\ key # NoKey
    /\ \E b \in ToSet(backends) :
          /\ b.name # key.holder
          /\ IF CanMove(b)
             THEN key' = [key EXCEPT !.holder = b.name] /\ answer' = answer
             ELSE key' = key /\ answer' = [rpc |-> "MigrateKey", code |-> "FailedPrecondition",
                                          asked |-> b.name]
    /\ UNCHANGED <<phase, config, loaded, backends>>

Next == \/ StartUp
        \/ Query
        \/ CreateKey
        \/ Sign
        \/ Verify
        \/ DigestSign
        \/ DigestVerify
        \/ Encrypt
        \/ Decrypt
        \/ MigrateKey

\* Start-up is one goroutine that runs to its end; clients may stop.
Spec == Init /\ [][Next]_vars /\ WF_vars(StartUp)

-----------------------------------------------------------------------------
(***************************************************************************)
(* Properties                                                              *)
(***************************************************************************)
Phases == {"catalogue", "openssl", "fips", "validate", "serving", "failed"}

\* The variables have the shapes that wire.go and the handlers give them: a
\* key is held by a registered instance, and only a serving server has one.
TypeOK ==
    /\ phase \in Phases
    /\ config \in Configs
    /\ loaded \in 0 .. Len(Catalogue)
    /\ \A i, j \in DOMAIN backends : backends[i].name = backends[j].name => i = j
    /\ key # NoKey => /\ phase = "serving"
                      /\ key.holder \in {b.name : b \in ToSet(backends)}
                      /\ key.template \in ToSet(IDs(stored))

\* The instances on which the key could be now or after a migration.
Peers == {b \in ToSet(backends) : AdvertisedBy(b, key.template)}

AsksOf(template) == UNION {Requests(op) : op \in OpsOf(template) \cap Producing}

\* A key that CreateKey returned can be used: each operation of its template
\* that makes something succeeds, for some request, on every instance that
\* advertises the template (provider.go SupportedAlgorithms against the
\* dispatch of Sign, SignDigest and Encrypt).
CreatedKeyUsable ==
    key # NoKey =>
        \A op \in OpsOf(key.template) \cap Producing, b \in Peers :
            \E r \in Requests(op) : Ok(Produce(b, Details(key.template), key, r))

\* What one provider made with the key, the same request checks on every
\* instance that advertises the template: a signature or ciphertext outlives
\* the key's migration (encoding.go, generatedKey).
ArtefactsSurvive ==
    answer.rpc \in Producing /\ answer.code = "OK" =>
        \A b \in Peers : Good(b, Details(key.template), key, answer.asked, answer.artefact)

Authenticated(r, d) ==
    CASE r.op = "SIGN" -> <<r.message, IF d.family = "mlDsa" THEN r.context ELSE 0>>
      [] r.op = "DIGEST_SIGN" -> <<r.digest>>
      [] r.op = "ENCRYPT" -> IF d.family \in {"aesGcm", "chacha20Poly1305"} THEN <<r.aad>> ELSE <<>>

\* Verify and Decrypt find good only what was made for the same message or
\* digest, and, where the algorithm authenticates them, the same context or
\* additional data, whichever provider made it and whichever checks it.
CheckSound ==
    answer.rpc \in Producing =>
        \A c \in answer.checked :
            c.good => Authenticated(c.asked, Details(key.template))
                      = Authenticated(answer.asked, Details(key.template))

\* A provider uses the key only for details that describe it: with the
\* details of another template it succeeds only when that template makes
\* keys of the same type and size (checkCurveMatches, checkRSAKeySize,
\* checkAESKeyMatchesDeclaredSize and their like).
KeyFitsOnly ==
    key # NoKey =>
        \A b \in Peers, t \in ToSet(stored) :
            AdvertisedBy(b, t.id) =>
                \A r \in AsksOf(t.id) :
                    Ok(Produce(b, t.details, key, r)) =>
                        LET made == GenerateKey(b, t.details).how IN
                        key.type = made.type /\ key.size = made.size

\* What a client may present for a: that, something made with another key, or
\* a ciphertext with an IV or nonce of another length.
Presented(a) ==
    {a, [a EXCEPT !.key = "other"]}
    \cup IF answer.rpc = "ENCRYPT" THEN {[a EXCEPT !.how.nonce = n] : n \in {64, 96, 128, 192}} ELSE {}

\* The checks that one provider makes and the other leaves to its library: an
\* Ed25519ph digest of the wrong length without a declared hash does not verify
\* in software (ed25519.go:182) and is an error in openssl (ed25519.go:190); an IV
\* of the wrong length for CBC or CTR is an invalid argument in software
\* (aescbc.go:119, aesctr.go:96) and a wrapped library error in openssl.
LeftToLibrary(d, r, a) ==
    \/ /\ r.op = "DIGEST_SIGN" /\ d.family = "ed25519" /\ r.hash = Unspecified
       /\ DigestLength[r.digest.hash] # DigestLength["SHA512"]
    \/ r.op = "ENCRYPT" /\ d.family \in {"aesCbc", "aesCtr"} /\ a.how.nonce # 128

\* Providers that advertise the key's template accept and refuse the same
\* requests with the same code, those that make something and, apart from
\* LeftToLibrary, those that check what was made; and they find the same good
\* ("rejected identically regardless of which provider serves it",
\* openssl/provider.go:289, of digests against their declared hash).
SameAnswer ==
    key # NoKey =>
        LET d == Details(key.template) IN
        \A b, c \in Peers :
            /\ \A r \in AsksOf(key.template) : Produce(b, d, key, r).code = Produce(c, d, key, r).code
            /\ answer.rpc \in Producing /\ answer.code = "OK" =>
                 \A r \in Requests(answer.rpc), a \in Presented(answer.artefact) :
                     \/ LeftToLibrary(d, r, a)
                     \/ /\ Check(b, d, key, r, a).code = Check(c, d, key, r, a).code
                        /\ Good(b, d, key, r, a) = Good(c, d, key, r, a)

\* A key whose creator required FIPS 140, and any key on the instance that is
\* named for it, is in a restricted context, also where the FIPS provider was
\* skipped at start-up (wire.go registerFIPSProvider, openssl.New).
RequirementKept ==
    key # NoKey /\ (key.required.fips \/ key.holder = "openssl-fips") =>
        Backend(key.holder).restricted

\* CreateKey gives the key the first template, among the candidates that an
\* eligible instance serves, that offers the scope; an earlier one is passed
\* over only when its entry could not be read (Select, selectTemplatesWithIDs).
SelectedAllowed ==
    answer.rpc = "CreateKey" /\ answer.code = "OK" =>
        LET asked == answer.asked
            ids == IF asked.cs.restricted THEN asked.cs.ids ELSE IDs(stored)
            TemplateOf(id) == CHOOSE t \in ToSet(stored) : t.id = id
        IN /\ key.template \in ToSet(ids)
           /\ MatchesScope(TemplateOf(key.template), asked.spec)
           /\ \A i \in DOMAIN ids :
                 \/ key.template \in {ids[j] : j \in 1 .. i}
                 \/ ids[i] \in asked.fault.lost
                 \/ asked.cs.restricted
                    /\ Ranked(Pool(asked.pinned), ids[i], asked.required) = <<>>
                 \/ ~ MatchesScope(TemplateOf(ids[i]), asked.spec)

\* ListScopes and CreateKey agree: it lists a scope exactly when selection by
\* that scope finds a template, and reports a fault of the catalogue exactly
\* when selection fails for it.  If the IDs cannot be listed it lists nothing.
ScopesUsable ==
    answer.rpc = "ListScopes" =>
        LET f == answer.asked.fault
            found(name) == Select(stored, [name |-> name, fips |-> FALSE], Unrestricted, f)
            names == {s.name : s \in UNION {t.scopes : t \in ToSet(stored)}} \ {Unreadable.name}
        IN IF f.list THEN answer.code = "OK" /\ DOMAIN answer.reply = {}
           ELSE \A name \in names :
                  /\ answer.code = "OK" <=> found(name).code \in {"OK", "TemplateNotFound"}
                  /\ answer.code = "OK" => (name \in DOMAIN answer.reply <=> Ok(found(name)))

\* ListTemplates lists, in ID order and on the page asked for, only templates
\* that CreateKey would select for the same scope if named, and GetTemplate
\* would return ("the match CreateKey applies", list_templates.go:22).
ListedTemplatesSelectable ==
    answer.rpc = "ListTemplates" /\ answer.code = "OK" =>
        \A id \in ToSet(answer.reply.items) :
            /\ Ok(Select(stored, answer.asked.spec, Only(<<id>>), answer.asked.fault))
            /\ Ok(GetTemplate(stored, id, answer.asked.fault))

\* A provider is listed for a template and requirements exactly when one of
\* its instances would be matched for both, and the instances that GetProvider
\* names for a template are those (providers.go: "Both filters must hold on
\* the same instance").
ListedProvidersServe ==
    answer.rpc = "ListProviders" /\ answer.code = "OK"
        /\ answer.asked.size = 0 /\ answer.asked.token = 0 /\ answer.asked.template # "" =>
        LET matched == ToSet(Ranked(backends, answer.asked.template, answer.asked.required)) IN
        /\ {p.provider : p \in ToSet(answer.reply.items)} = {b.type : b \in matched}
        /\ \A p \in ToSet(answer.reply.items) :
              {b.name : b \in {c \in matched : c.type = p.provider}}
                  \subseteq p.servedBy[answer.asked.template]

\* The first instance that MatchProviders names is the one on which CreateKey
\* makes the key, and CreateKey fails for want of an instance exactly when
\* nothing matched (match.go:24-29).
MatchPredictsCreate ==
    [][ answer.rpc = "MatchProviders" /\ answer.code = "OK" /\ answer'.rpc = "CreateKey"
        /\ answer'.asked.cs = Only(<<answer.asked.template>>) /\ answer'.asked.spec = NoScope
        /\ answer'.asked.pinned = "" /\ answer'.asked.required = answer.asked.required
        /\ answer'.asked.fault = NoFault
        => IF answer.reply = <<>> THEN answer'.code = "FailedPrecondition"
           ELSE answer'.code = "OK" /\ key'.holder = answer.reply[1].instance ]_vars

\* What a listing offers can be had: both of the above (list_templates.go,
\* providers.go).
ListingsServe == ListedTemplatesSelectable /\ ListedProvidersServe

\* With a catalogue that knows every advertised template, working storage and
\* a usable libcrypto, the server comes to serve, whatever becomes of the FIPS
\* provider (wire.go: "failure here is deliberately non-fatal").
StartsWithoutFIPS ==
    config.libcrypto /\ config.writes >= Len(Catalogue)
    /\ Soft!SupportedAlgorithms \cup Ossl!catalog \subseteq {t.id : t \in ToSet(Catalogue)}
        ~> phase = "serving"
=============================================================================
