----------------------------- MODULE Algorithms -----------------------------
(***************************************************************************)
(* What the providers, the catalogue and the deployment share: algorithm   *)
(* details, templates, keys, and the checks that a request has to pass.    *)
(*                                                                         *)
(* Cryptography is symbolic.  Key material is [type, size, id, private,    *)
(* public]: its kind, its size, its identity and the encodings of its two  *)
(* halves.  A signature or ciphertext is [key, how]: the key and everything*)
(* that the primitive was given.  It verifies, or opens, exactly under the *)
(* same key and the same parameters.  The details of a key are the same    *)
(* when it signs and when it verifies, so a salt length that verification  *)
(* would detect by itself is not told apart.                               *)
(***************************************************************************)
EXTENDS Naturals, Sequences, FiniteSets, FiniteSetsExt, SequencesExt

Unspecified == "UNSPECIFIED"

\* The operations that make an artefact; each has one that checks it.
Producing == {"SIGN", "DIGEST_SIGN", "ENCRYPT"}

(***************************************************************************)
(* Answers: the value, or the code of the first check that fails.          *)
(***************************************************************************)
Require(holds, code) == IF holds THEN <<>> ELSE <<code>>

Answer(failed, how) == IF failed = <<>> THEN [code |-> "OK", how |-> how]
                                        ELSE [code |-> Head(failed), how |-> [scheme |-> "none"]]

Refuse(code) == Answer(Require(FALSE, code), [scheme |-> "none"])

Ok(answer) == answer.code = "OK"

(***************************************************************************)
(* Hashing                                                                 *)
(***************************************************************************)
Hash(alg, message) == [hash |-> alg, of |-> message]

DigestLength == [SHA256 |-> 32, SHA384 |-> 48, SHA512 |-> 64, SHA3_256 |-> 32]

\* The hash enumeration's order, which the ECDSA code compares by.
Strength == [SHA256 |-> 1, SHA384 |-> 2, SHA512 |-> 3, SHA3_256 |-> 4]

(***************************************************************************)
(* Algorithm details                                                       *)
(***************************************************************************)
ECDSA(curve, hash) == [family |-> "ecdsa", curve |-> curve, hash |-> hash, format |-> "DER"]
RSAPSS(bits, hash) == [family |-> "rsaPss", bits |-> bits, hash |-> hash, mgf |-> "MGF1",
                       mgfHash |-> hash, salt |-> "HASH_LENGTH", saltBytes |-> 0]
RSAPKCS1(bits, hash) == [family |-> "rsaPkcs1v15", bits |-> bits, hash |-> hash]
Ed25519(variant) == [family |-> "ed25519", variant |-> variant]
MLDSA(set) == [family |-> "mlDsa", set |-> set]
AESGCM(bits) == [family |-> "aesGcm", bits |-> bits, iv |-> 96, tag |-> 128]
AESCBC(bits) == [family |-> "aesCbc", bits |-> bits, iv |-> 128, padding |-> "PKCS7"]
AESCTR(bits) == [family |-> "aesCtr", bits |-> bits, nonce |-> 96, counter |-> 32]
ChaCha20(nonce, extended) == [family |-> "chacha20Poly1305", nonce |-> nonce, counter |-> 32,
                              extended |-> extended]
Unimplemented(family) == [family |-> family]

(***************************************************************************)
(* The shipped catalogue, in the order of the template IDs: the templates  *)
(* of signatures.json, pqc_signatures.json and symmetric.json that some    *)
(* provider advertises, and three that none does.  A scope also says       *)
(* whether it is marked FIPS approved.                                     *)
(***************************************************************************)
Template(id, details, ops, scopes, fips) ==
    [id |-> id, details |-> details, ops |-> ops,
     scopes |-> {[name |-> s, fips |-> fips] : s \in scopes}]

Signs    == {"SIGN", "VERIFY"}
Digests  == {"DIGEST_SIGN", "DIGEST_VERIFY"}
Encrypts == {"ENCRYPT", "DECRYPT"}

StandardSignature(id, details)  == Template(id, details, Signs, {"SIGNATURE_STANDARD"}, TRUE)
ContextSignature(id, details)   ==
    Template(id, details, Signs, {"SIGNATURE_STANDARD", "SIGNATURE_WITH_CONTEXT"}, TRUE)
PrehashedSignature(id, details) == Template(id, details, Digests, {"SIGNATURE_PREHASHED"}, TRUE)
AEAD(id, details, fips)         == Template(id, details, Encrypts, {"AEAD_STANDARD"}, fips)
BlockCipher(id, details)        == Template(id, details, Encrypts, {"SYMMETRIC_BLOCK"}, TRUE)
StreamCipher(id, details)       == Template(id, details, Encrypts, {"SYMMETRIC_STREAM"}, TRUE)

StandardCatalogue == <<
    BlockCipher("aes-128-cbc-pkcs7-128", AESCBC(128)),
    StreamCipher("aes-128-ctr", AESCTR(128)),
    AEAD("aes-128-gcm-128-96", AESGCM(128), TRUE),
    BlockCipher("aes-192-cbc-pkcs7-128", AESCBC(192)),
    StreamCipher("aes-192-ctr", AESCTR(192)),
    AEAD("aes-192-gcm-128-96", AESGCM(192), TRUE),
    BlockCipher("aes-256-cbc-pkcs7-128", AESCBC(256)),
    StreamCipher("aes-256-ctr", AESCTR(256)),
    AEAD("aes-256-gcm-128-96", AESGCM(256), TRUE),
    AEAD("chacha20-poly1305", ChaCha20(96, FALSE), FALSE),
    PrehashedSignature("ecdsa-p256-prehashed-der", ECDSA("P256", Unspecified)),
    StandardSignature("ecdsa-p256-sha256-der", ECDSA("P256", "SHA256")),
    PrehashedSignature("ecdsa-p384-prehashed-der", ECDSA("P384", Unspecified)),
    StandardSignature("ecdsa-p384-sha384-der", ECDSA("P384", "SHA384")),
    PrehashedSignature("ecdsa-p521-prehashed-der", ECDSA("P521", Unspecified)),
    StandardSignature("ecdsa-p521-sha512-der", ECDSA("P521", "SHA512")),
    Template("ecdsa-secp256k1-sha256-der", ECDSA("SECP256K1", "SHA256"), Signs,
             {"SIGNATURE_STANDARD"}, FALSE),
    StandardSignature("ed25519", Ed25519("PURE")),
    Template("ed25519ctx", Ed25519("CTX"), Signs, {"SIGNATURE_WITH_CONTEXT"}, FALSE),
    PrehashedSignature("ed25519ph", Ed25519("PH")),
    ContextSignature("ed448", Unimplemented("ed448")),
    ContextSignature("ml-dsa-44", MLDSA(44)),
    ContextSignature("ml-dsa-65", MLDSA(65)),
    ContextSignature("ml-dsa-87", MLDSA(87)),
    PrehashedSignature("rsa-pkcs1v15-2048-prehashed", RSAPKCS1(2048, Unspecified)),
    StandardSignature("rsa-pkcs1v15-sha256-2048", RSAPKCS1(2048, "SHA256")),
    PrehashedSignature("rsa-pss-2048-prehashed", RSAPSS(2048, Unspecified)),
    PrehashedSignature("rsa-pss-3072-prehashed", RSAPSS(3072, Unspecified)),
    PrehashedSignature("rsa-pss-4096-prehashed", RSAPSS(4096, Unspecified)),
    StandardSignature("rsa-pss-sha256-mgf1-32-2048", RSAPSS(2048, "SHA256")),
    StandardSignature("rsa-pss-sha256-mgf1-32-3072", RSAPSS(3072, "SHA256")),
    StandardSignature("rsa-pss-sha384-mgf1-48-4096", RSAPSS(4096, "SHA384")),
    AEAD("xchacha20-poly1305", ChaCha20(192, TRUE), FALSE) >>
=============================================================================
