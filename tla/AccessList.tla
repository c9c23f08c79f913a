----------------------------- MODULE AccessList -----------------------------
(***************************************************************************)
(* The access list of the authorization bootstrap (setup-auth/acl.go) and  *)
(* the permission catalog it is checked against (setup-auth/operations.go).*)
(*                                                                         *)
(* A text field is [s, pad]: its content without surrounding whitespace,   *)
(* and whether it has any.  An e-mail and a variable name also say whether *)
(* they are well formed, and an e-mail whether it is written in capitals.  *)
(* A username is a string as it stands, and padded says whether whitespace *)
(* surrounds it.                                                           *)
(* An optional boolean is "nil", "true" or "false".  A URI is its parsed   *)
(* parts, with the fault that its text has, if any.  Access patterns are   *)
(* copied unread and are left out.                                         *)
(***************************************************************************)
EXTENDS Naturals, Sequences, SequencesExt, Lists

NoWeb == [absent |-> TRUE]

(***************************************************************************)
(* The catalog: every RPC and the permission that it requires.             *)
(***************************************************************************)
keys          == [create |-> "citius:keys:create", rotate |-> "citius:keys:rotate",
                  updatePolicy |-> "citius:keys:update-policy", read |-> "citius:keys:read"]
crypto        == [encrypt |-> "citius:crypto:encrypt", decrypt |-> "citius:crypto:decrypt",
                  sign |-> "citius:crypto:sign", verify |-> "citius:crypto:verify",
                  misc |-> "citius:crypto:misc"]
policy        == [read |-> "citius:policy:read", write |-> "citius:policy:write"]
discoveryRead == "citius:discovery:read"
provider      == [read |-> "citius:provider:read", write |-> "citius:provider:write"]

op(names, permission) == {[method |-> m, permission |-> permission] : m \in names}

keyOperations ==
    op({"CreateKey", "DeleteKey", "ImportKey"}, keys.create)
    \cup op({"RotateKey", "TransformKey", "UpdateKeyState", "MigrateKey"}, keys.rotate)
    \cup op({"UpdateKeyPolicy"}, keys.updatePolicy)
    \cup op({"ReadKey", "ListKeys", "ValidateKeyOperation", "ExportKey"}, keys.read)

policyOperations ==
    op({"CreateCryptoPolicy", "DeleteCryptoPolicy", "UpdateCryptoPolicy"}, policy.write)
    \cup op({"ReadCryptoPolicy", "ListCryptoPolicies", "EvaluatePolicy",
             "BatchEvaluatePolicy"}, policy.read)

cryptoOperations ==
    op({"Encrypt"}, crypto.encrypt) \cup op({"Decrypt"}, crypto.decrypt)
    \cup op({"Sign", "DigestSign"}, crypto.sign)
    \cup op({"Verify", "DigestVerify"}, crypto.verify)
    \cup op({"Digest", "Xof", "GenerateRandom", "SeedRandom", "GenerateMAC",
             "VerifyMAC"}, crypto.misc)

\* The multi-part operations: a kind and its steps.
Steps == {"Init", "Update", "Final"}
MessageSteps == Steps \cup {"Message", "MessageInit", "MessageBegin", "MessageNext",
                            "MessageFinal"}

Parts(kind, steps) == {kind \o step : step \in steps}

streamingOperations ==
    op(Parts("Encrypt", MessageSteps), crypto.encrypt)
    \cup op(Parts("Decrypt", MessageSteps), crypto.decrypt)
    \cup op(Parts("Sign", MessageSteps), crypto.sign)
    \cup op(Parts("Verify", MessageSteps), crypto.verify)
    \cup op(UNION {Parts(kind, Steps) : kind \in {"Digest", "GenerateMAC", "VerifyMAC", "Xof"}}
            \cup {"DigestKey", "DigestEncryptUpdate", "DecryptDigestUpdate",
                  "SignEncryptUpdate", "DecryptVerifyUpdate", "CancelOperation"}, crypto.misc)

otherOperations ==
    op({"WrapKey", "UnwrapKey", "DeriveKey", "KeyAgreement", "EncapsulateKey",
        "DecapsulateKey"}, crypto.misc)
    \cup op({"ListTemplates", "GetTemplate", "ListScopes"}, discoveryRead)
    \cup op({"ListProviders", "GetProvider", "MatchProviders", "ListProviderInstances",
             "GetProviderInstance"}, provider.read)
    \cup op({"RegisterProviderInstance", "UpdateProviderInstance",
             "DeleteProviderInstance"}, provider.write)

citiusOperations == keyOperations \cup policyOperations \cup cryptoOperations
                    \cup streamingOperations \cup otherOperations

allCitiusPermissions ==
    {keys.create, keys.rotate, keys.updatePolicy, keys.read,
     crypto.encrypt, crypto.decrypt, crypto.sign, crypto.verify, crypto.misc,
     policy.read, policy.write, discoveryRead, provider.read, provider.write}

(***************************************************************************)
(* The web application                                                     *)
(***************************************************************************)
Blank(text) == text.s = ""

\* The addresses for which IsLoopback of package net holds, of those that occur.
LoopbackAddresses == {"127.0.0.1", "127.1.2.3", "::1"}

isLoopbackHost(host) == host = "localhost" \/ host \in LoopbackAddresses

\* normalizeWebURI: the URI is accepted ...
WebURIOK(uri, devMode) ==
    /\ uri.fault = "none"     \* empty, padded, wildcard, fragment, unparsable,
                              \* relative, opaque, or with user information
    /\ uri.host # ""
    /\ \/ uri.scheme = "https"
       \/ uri.scheme = "http" /\ devMode /\ isLoopbackHost(uri.host)

\* ... and compared by its parts, with scheme and host in lower case.
Normalized(uri) == [scheme |-> uri.scheme, host |-> uri.host, port |-> uri.port,
                    path |-> uri.path, query |-> uri.query]

validateWebURISet(uris, devMode) ==
    \A i \in DOMAIN uris : /\ WebURIOK(uris[i], devMode)
                           /\ \A j \in 1 .. i - 1 : Normalized(uris[i]) # Normalized(uris[j])

validateWebApplication(app) ==
    /\ ~ Blank(app.name) /\ ~ app.name.pad
    /\ app.redirectURIs # <<>>
    /\ validateWebURISet(app.redirectURIs, app.devMode)
    /\ validateWebURISet(app.postLogoutURIs, app.devMode)

(***************************************************************************)
(* Users                                                                   *)
(***************************************************************************)
Wildcard(permissions) == permissions = <<"*">>

\* expandPermissions fails unless this holds: "*" only alone, nothing unknown.
PermissionsOK(permissions) ==
    Wildcard(permissions) \/ ToSet(permissions) \subseteq allCitiusPermissions

expandPermissions(permissions) ==
    IF Wildcard(permissions) THEN allCitiusPermissions ELSE ToSet(permissions)

IsMachine(u) == u.type \in {"", "machine"}
IsHuman(u)   == u.type = "human"

\* The whole text is compared, so a blank that is padded counts as set.
IsSet(text) == ~ Blank(text) \/ text.pad

validateMachineUser(u) ==
    /\ \A field \in {u.givenName, u.familyName, u.email, u.passwordEnv} : ~ IsSet(field)
    /\ u.emailVerified = "nil" /\ u.passwordChangeRequired = "nil"

usesDemoIdentityFlags(u) == u.emailVerified = "true" \/ u.passwordChangeRequired = "false"

\* validateHumanUser, the e-mail's uniqueness aside.
validateHumanUser(u, web) ==
    /\ ~ u.padded
    /\ \A field \in {u.givenName, u.familyName, u.email, u.passwordEnv} :
            ~ Blank(field) /\ ~ field.pad
    /\ u.email.valid
    /\ u.passwordEnv.valid
    /\ usesDemoIdentityFlags(u) => web # NoWeb /\ web.devMode

\* An e-mail is compared in lower case, and only with those of human users.
EmailIsNew(users, i) ==
    \A j \in 1 .. i - 1 : IsHuman(users[j]) => users[j].email.s # users[i].email.s

appendACLUser(users, i, web) ==
    /\ PermissionsOK(users[i].permissions)
    /\ \/ IsMachine(users[i]) /\ validateMachineUser(users[i])
       \/ IsHuman(users[i]) /\ validateHumanUser(users[i], web) /\ EmailIsNew(users, i)

(***************************************************************************)
(* loadACL fails unless this holds.                                        *)
(***************************************************************************)
ACLOK(file) ==
    /\ file.version = 1
    /\ file.users # <<>>
    /\ file.web # NoWeb => validateWebApplication(file.web)
    /\ \A i \in DOMAIN file.users :
          /\ file.users[i].username # ""
          /\ \A j \in 1 .. i - 1 : file.users[j].username # file.users[i].username
          /\ appendACLUser(file.users, i, file.web)

machineOnboardInput(u) == [username |-> u.username,
                           permissions |-> expandPermissions(u.permissions)]

humanACLInput(u) == [username |-> u.username, email |-> u.email,
                     permissions |-> expandPermissions(u.permissions),
                     passwordEnv |-> u.passwordEnv,
                     emailVerified |-> u.emailVerified = "true",
                     passwordChangeRequired |-> u.passwordChangeRequired # "false"]

loadACL(file) ==
    LET users    == file.users
        machines == InOrder(users, {i \in DOMAIN users : IsMachine(users[i])})
        humans   == InOrder(users, {i \in DOMAIN users : IsHuman(users[i])})
    IN  [web      |-> file.web,
         machines |-> [i \in DOMAIN machines |-> machineOnboardInput(machines[i])],
         humans   |-> [i \in DOMAIN humans |-> humanACLInput(humans[i])]]
=============================================================================
