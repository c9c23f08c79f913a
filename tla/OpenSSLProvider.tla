-------------------------- MODULE OpenSSLProvider ---------------------------
(***************************************************************************)
(* The OpenSSL provider (internal/provider/openssl): which keys it makes,  *)
(* and what it answers to a request with algorithm details d and key k.    *)
(* The library itself is external.  It refuses a digest of the wrong       *)
(* length with an error of its own, "Unknown".                             *)
(***************************************************************************)
EXTENDS Algorithms

\* The templates that the package knows; a context supports some of them.
catalog ==
    {"ecdsa-p256-sha256-der", "ecdsa-p384-sha384-der", "ecdsa-p521-sha512-der",
     "rsa-pss-sha256-mgf1-32-2048", "rsa-pss-sha256-mgf1-32-3072", "rsa-pss-sha384-mgf1-48-4096",
     "rsa-pkcs1v15-sha256-2048", "ed25519", "ed25519ph",
     "ml-dsa-44", "ml-dsa-65", "ml-dsa-87", "chacha20-poly1305"}
    \cup {a \o m : a \in {"aes-128", "aes-192", "aes-256"},
                   m \in {"-gcm-128-96", "-cbc-pkcs7-128", "-ctr"}}

deriveAlgorithms(supported) == catalog \cap supported

Symmetric == {"aesGcm", "aesCbc", "aesCtr", "chacha20Poly1305"}

privateKeyEncoding(d) ==
    CASE d.family = "ecdsa" -> "SEC1"
      [] d.family \in {"mlDsa", "rsaPss", "rsaPkcs1v15", "ed25519"} -> "PKCS8"
      [] d.family \in Symmetric -> "RAW"
      [] OTHER -> Unspecified

TransferCapabilities(d) == {privateKeyEncoding(d)} \ {Unspecified}

generatedKey(d, type, size, public) ==
    Answer(Require(privateKeyEncoding(d) # Unspecified, "Internal"),
           [type |-> type, size |-> size, private |-> privateKeyEncoding(d), public |-> public])

\* The encoding must be one of these and then says itself what the key is.
parsePrivateKey(k) == Require(k.private \in {"SEC1", "PKCS8"}, "NotImplemented")
parsePublicKey(k)  == Require(k.public = "SPKI", "NotImplemented")

(***************************************************************************)
(* ECDSA                                                                   *)
(***************************************************************************)
curveBits == [P256 |-> 256, P384 |-> 384, P521 |-> 521]

\* The library's size of a key; that of the kinds without one is none of
\* the sizes compared here.
Bits(k) == CASE k.type = "EC" -> curveBits[k.size] [] k.type = "RSA" -> k.size [] OTHER -> 0

checkCurveMatches(k, curve) ==
    Require(k.type = "EC" /\ curve \in DOMAIN curveBits /\ Bits(k) = curveBits[curve], "InvalidArgument")

curveMinHash == [P256 |-> "SHA256", P384 |-> "SHA384", P521 |-> "SHA512"]

ResolvedHash(d) == IF d.hash = Unspecified /\ d.curve \in DOMAIN curveMinHash
                   THEN curveMinHash[d.curve] ELSE d.hash

digestNameFor(hash) == Require(hash \in {Unspecified, "SHA256", "SHA384", "SHA512"}, "NotImplemented")

ecdsaDigestName(d) ==
    Require(d.curve \in DOMAIN curveMinHash, "NotImplemented")
    \o Require(d.curve \in DOMAIN curveMinHash /\ d.hash # Unspecified
                  => Strength[d.hash] >= Strength[curveMinHash[d.curve]], "InvalidArgument")
    \o digestNameFor(ResolvedHash(d))

ecdsaSignatureFormat(d) == Require(d.format \in {Unspecified, "DER", "P1363"}, "NotImplemented")

EcdsaOver(d, digest) ==
    [scheme |-> "ecdsa", digest |-> digest, format |-> IF d.format = "P1363" THEN "P1363" ELSE "DER"]

\* Without a declared hash one is inferred from the digest's length.
ecdsaDigestSignName(digest, hash) ==
    IF hash = Unspecified THEN Require(DigestLength[digest.hash] \in {32, 48, 64}, "InvalidArgument")
                          ELSE digestNameFor(hash)

generateECDSAKey(d) == IF d.curve \in DOMAIN curveBits
                       THEN generatedKey(d, "EC", d.curve, "SPKI") ELSE Refuse("NotImplemented")

signECDSA(d, k, m) ==
    Answer(parsePrivateKey(k) \o checkCurveMatches(k, d.curve) \o ecdsaDigestName(d)
           \o ecdsaSignatureFormat(d), EcdsaOver(d, Hash(ResolvedHash(d), m)))

verifyECDSA(d, k, m) ==
    Answer(parsePublicKey(k) \o checkCurveMatches(k, d.curve) \o ecdsaDigestName(d)
           \o ecdsaSignatureFormat(d), EcdsaOver(d, Hash(ResolvedHash(d), m)))

signECDSADigest(d, k, digest, hash) ==
    Answer(parsePrivateKey(k) \o checkCurveMatches(k, d.curve) \o ecdsaDigestSignName(digest, hash)
           \o ecdsaSignatureFormat(d), EcdsaOver(d, digest))

verifyECDSADigest(d, k, digest, hash) ==
    Answer(parsePublicKey(k) \o checkCurveMatches(k, d.curve) \o ecdsaDigestSignName(digest, hash)
           \o ecdsaSignatureFormat(d), EcdsaOver(d, digest))

(***************************************************************************)
(* RSA.  The message forms are the digest forms after hashing.             *)
(***************************************************************************)
checkRSAKeySize(k, bits) == Require(Bits(k) = bits, "InvalidArgument")

checkRSAPSSMGF(d, hash) == Require(d.mgf \in {Unspecified, "MGF1"}, "NotImplemented")
                           \o Require(d.mgfHash \in {Unspecified, hash}, "NotImplemented")

rsaHashName(hash) == Require(hash \in {Unspecified, "SHA256", "SHA384", "SHA512"}, "NotImplemented")
RsaHashOf(hash) == IF hash = Unspecified THEN "SHA256" ELSE hash

rsaPSSSaltLength(d) == Require(d.salt \in {"HASH_LENGTH", "MAX", "EXPLICIT"}, "NotImplemented")
                       \o Require(d.salt = "EXPLICIT" => d.saltBytes > 0, "InvalidArgument")

RightLength(digest, hash) ==
    Require(hash \in {"SHA256", "SHA384", "SHA512"} => DigestLength[digest.hash] = DigestLength[hash],
            "Unknown")

PSSOver(d, hash, digest) == [scheme |-> "pss", hash |-> RsaHashOf(hash), digest |-> digest,
                             salt |-> d.salt, saltBytes |-> d.saltBytes]
PKCS1Over(hash, digest) == [scheme |-> "pkcs1v15", hash |-> RsaHashOf(hash), digest |-> digest]

PSSChecks(d, k, digest, hash) ==
    checkRSAKeySize(k, d.bits) \o checkRSAPSSMGF(d, hash) \o rsaHashName(hash)
    \o rsaPSSSaltLength(d) \o RightLength(digest, RsaHashOf(hash))

PKCS1Checks(d, k, digest, hash) ==
    checkRSAKeySize(k, d.bits) \o rsaHashName(hash) \o RightLength(digest, RsaHashOf(hash))

generateRSAKey(d) == generatedKey(d, "RSA", d.bits, "SPKI")

signRSAPSSDigest(d, k, digest, hash) ==
    Answer(parsePrivateKey(k) \o PSSChecks(d, k, digest, hash), PSSOver(d, hash, digest))
signRSAPSS(d, k, m) == signRSAPSSDigest(d, k, Hash(RsaHashOf(d.hash), m), d.hash)

verifyRSAPSSDigest(d, k, digest, hash) ==
    Answer(parsePublicKey(k) \o PSSChecks(d, k, digest, hash), PSSOver(d, hash, digest))
verifyRSAPSS(d, k, m) == verifyRSAPSSDigest(d, k, Hash(RsaHashOf(d.hash), m), d.hash)

signRSAPKCS1v15Digest(d, k, digest, hash) ==
    Answer(parsePrivateKey(k) \o PKCS1Checks(d, k, digest, hash), PKCS1Over(hash, digest))
signRSAPKCS1v15(d, k, m) == signRSAPKCS1v15Digest(d, k, Hash(RsaHashOf(d.hash), m), d.hash)

verifyRSAPKCS1v15Digest(d, k, digest, hash) ==
    Answer(parsePublicKey(k) \o PKCS1Checks(d, k, digest, hash), PKCS1Over(hash, digest))
verifyRSAPKCS1v15(d, k, m) == verifyRSAPKCS1v15Digest(d, k, Hash(RsaHashOf(d.hash), m), d.hash)

(***************************************************************************)
(* Ed25519 and ML-DSA                                                      *)
(***************************************************************************)
checkEd25519VariantSupported(d) == Require(d.variant \in {Unspecified, "PURE", "PH"}, "NotImplemented")

\* SignDigest's and VerifyDigest's own condition on the variant.
PrehashVariant(d) == Require(d.variant \in {Unspecified, "PH"}, "InvalidArgument")

checkEd25519PHHash(hash) == Require(hash \in {Unspecified, "SHA512"}, "NotImplemented")

IsEd25519(k) == Require(k.type = "Ed25519", "InvalidArgument")

PHOver(digest) == [scheme |-> "ed25519ph", digest |-> digest]

\* The prehashing variant hashes the message itself.
EdOver(d, m) == IF d.variant = "PH" THEN PHOver(Hash("SHA512", m))
                                    ELSE [scheme |-> "ed25519", digest |-> m]

generateEd25519Key(d) == generatedKey(d, "Ed25519", "Ed25519", "SPKI")

signEd25519(d, k, m) ==
    Answer(checkEd25519VariantSupported(d) \o parsePrivateKey(k) \o IsEd25519(k), EdOver(d, m))

verifyEd25519(d, k, m) ==
    Answer(checkEd25519VariantSupported(d) \o parsePublicKey(k) \o IsEd25519(k), EdOver(d, m))

signEd25519PHDigest(d, k, digest, hash) ==
    Answer(PrehashVariant(d) \o checkEd25519PHHash(hash) \o parsePrivateKey(k) \o IsEd25519(k)
           \o RightLength(digest, "SHA512"), PHOver(digest))

verifyEd25519PHDigest(d, k, digest, hash) ==
    Answer(PrehashVariant(d) \o checkEd25519PHHash(hash) \o parsePublicKey(k) \o IsEd25519(k)
           \o RightLength(digest, "SHA512"), PHOver(digest))

mlDSAKeyAlgorithmFor(set) == Require(set \in {44, 65, 87}, "NotImplemented")

\* Mutant: one byte more.
checkMLDSAContextLength256(context) == Require(context <= 256, "InvalidArgument")

checkMLDSAContextLength(context) == Require(context <= 255, "InvalidArgument")

\* Mutant: the context is not passed on.
MLDSAOverPlain(m, context) == [scheme |-> "ml-dsa", digest |-> m, context |-> 0]

MLDSAOver(m, context) == [scheme |-> "ml-dsa", digest |-> m, context |-> context]

generateMLDSAKey(d) == IF d.set \in {44, 65, 87}
                       THEN generatedKey(d, "ML-DSA", d.set, "RAW") ELSE Refuse("NotImplemented")

signMLDSA(d, k, m, context) ==
    Answer(checkMLDSAContextLength(context) \o mlDSAKeyAlgorithmFor(d.set) \o parsePrivateKey(k)
           \o Require(k.type = "ML-DSA" /\ k.size = d.set, "InvalidArgument"), MLDSAOver(m, context))

\* The public half is taken as raw bytes of the declared parameter set.
verifyMLDSA(d, k, m, context) ==
    Answer(checkMLDSAContextLength(context) \o mlDSAKeyAlgorithmFor(d.set)
           \o Require(k.public = "RAW" /\ k.type = "ML-DSA" /\ k.size = d.set, "Unknown"),
           MLDSAOver(m, context))

(***************************************************************************)
(* Symmetric ciphers                                                       *)
(***************************************************************************)
Opened(ct, k) == IF ct.key = k.id THEN ct.of ELSE "garbage"

generateAESKey(d) == IF d.bits \in {128, 192, 256}
                     THEN generatedKey(d, "symmetric", d.bits, "none") ELSE Refuse("NotImplemented")
generateChaCha20Key(d) == generatedKey(d, "symmetric", 256, "none")

generateSymmetricKey(d) == IF d.family = "chacha20Poly1305" THEN generateChaCha20Key(d)
                                                            ELSE generateAESKey(d)

aesCipherNameFor(bits) == Require(bits \in {128, 192, 256}, "NotImplemented")

cipherNameFor(d) == IF d.family = "chacha20Poly1305" THEN Require(~ d.extended, "NotImplemented")
                                                     ELSE aesCipherNameFor(d.bits)

\* The cipher's name says how long the key must be; the library checks it.
KeyLength(k, bits) == Require(k.type = "symmetric" /\ k.size = bits, "Unknown")

GCMWith(d, aad) == [scheme |-> "gcm", nonce |-> d.iv, tag |-> d.tag, aad |-> aad]

encryptAESGCM(d, k, aad) == Answer(cipherNameFor(d) \o KeyLength(k, d.bits), GCMWith(d, aad))

decryptAESGCM(d, k, ct, aad) ==
    Answer(cipherNameFor(d) \o KeyLength(k, d.bits)
           \o Require(ct.how.nonce = d.iv, "InvalidArgument")
           \o Require(ct.key = k.id /\ ct.how = GCMWith(d, aad), "InvalidArgument"), ct.of)

checkAESCBCParamsValid(d) == Require(d.iv = 128, "NotImplemented")
                             \o Require(d.padding = "PKCS7", "NotImplemented")

encryptAESCBC(d, k) ==
    Answer(cipherNameFor(d) \o checkAESCBCParamsValid(d) \o KeyLength(k, d.bits),
           [scheme |-> "cbc", nonce |-> d.iv])

decryptAESCBC(d, k, ct) ==
    Answer(cipherNameFor(d) \o checkAESCBCParamsValid(d) \o KeyLength(k, d.bits)
           \o Require(ct.how.nonce = 128, "Unknown"), Opened(ct, k))

checkAESCTRParamsValid(d) == Require(d.nonce = 96 /\ d.counter = 32, "NotImplemented")

\* Mutant: the IV is the bare nonce.
encryptAESCTRBare(d, k) ==
    Answer(cipherNameFor(d) \o checkAESCTRParamsValid(d) \o KeyLength(k, d.bits),
           [scheme |-> "ctr", nonce |-> d.nonce])

encryptAESCTR(d, k) ==
    Answer(cipherNameFor(d) \o checkAESCTRParamsValid(d) \o KeyLength(k, d.bits),
           [scheme |-> "ctr", nonce |-> 128])

decryptAESCTR(d, k, ct) ==
    Answer(cipherNameFor(d) \o checkAESCTRParamsValid(d) \o KeyLength(k, d.bits)
           \o Require(ct.how.nonce = 128, "Unknown"), Opened(ct, k))

\* The nonce is the library's own, 96 bits, whatever the details say.
ChaChaWith(aad) == [scheme |-> "chacha20poly1305", nonce |-> 96, aad |-> aad]

encryptChaCha20Poly1305(d, k, aad) ==
    Answer(cipherNameFor(d) \o KeyLength(k, 256), ChaChaWith(aad))

decryptChaCha20Poly1305(d, k, ct, aad) ==
    Answer(cipherNameFor(d) \o KeyLength(k, 256)
           \o Require(ct.how.nonce = 96, "InvalidArgument")
           \o Require(ct.key = k.id /\ ct.how = ChaChaWith(aad), "InvalidArgument"), ct.of)

(***************************************************************************)
(* The provider's operations                                               *)
(***************************************************************************)
GenerateKey(d) ==
    CASE d.family = "ecdsa"   -> generateECDSAKey(d)
      [] d.family = "mlDsa"   -> generateMLDSAKey(d)
      [] d.family \in {"rsaPss", "rsaPkcs1v15"} -> generateRSAKey(d)
      [] d.family = "ed25519" -> generateEd25519Key(d)
      [] d.family \in Symmetric -> generateSymmetricKey(d)
      [] OTHER -> Refuse("NotImplemented")

Sign(d, k, m, context) ==
    CASE d.family = "ecdsa"       -> signECDSA(d, k, m)
      [] d.family = "mlDsa"       -> signMLDSA(d, k, m, context)
      [] d.family = "rsaPss"      -> signRSAPSS(d, k, m)
      [] d.family = "rsaPkcs1v15" -> signRSAPKCS1v15(d, k, m)
      [] d.family = "ed25519"     -> signEd25519(d, k, m)
      [] OTHER -> Refuse("NotImplemented")

\* What the signature must be for Verify to say valid.
Verify(d, k, m, context) ==
    CASE d.family = "ecdsa"       -> verifyECDSA(d, k, m)
      [] d.family = "mlDsa"       -> verifyMLDSA(d, k, m, context)
      [] d.family = "rsaPss"      -> verifyRSAPSS(d, k, m)
      [] d.family = "rsaPkcs1v15" -> verifyRSAPKCS1v15(d, k, m)
      [] d.family = "ed25519"     -> verifyEd25519(d, k, m)
      [] OTHER -> Refuse("NotImplemented")

validateDigestLength(hash, digest) ==
    hash # Unspecified => DigestLength[digest.hash] = DigestLength[hash]

SignDigest(d, k, digest, hash) ==
    CASE ~ validateDigestLength(hash, digest) -> Refuse("InvalidArgument")
      [] OTHER ->
    CASE d.family = "ecdsa"       -> signECDSADigest(d, k, digest, hash)
      [] d.family = "mlDsa"       -> Refuse("InvalidArgument")
      [] d.family = "rsaPss"      -> signRSAPSSDigest(d, k, digest, hash)
      [] d.family = "rsaPkcs1v15" -> signRSAPKCS1v15Digest(d, k, digest, hash)
      [] d.family = "ed25519"     -> signEd25519PHDigest(d, k, digest, hash)
      [] OTHER -> Refuse("NotImplemented")

VerifyDigest(d, k, digest, hash) ==
    CASE ~ validateDigestLength(hash, digest) -> Refuse("InvalidArgument")
      [] OTHER ->
    CASE d.family = "ecdsa"       -> verifyECDSADigest(d, k, digest, hash)
      [] d.family = "mlDsa"       -> Refuse("InvalidArgument")
      [] d.family = "rsaPss"      -> verifyRSAPSSDigest(d, k, digest, hash)
      [] d.family = "rsaPkcs1v15" -> verifyRSAPKCS1v15Digest(d, k, digest, hash)
      [] d.family = "ed25519"     -> verifyEd25519PHDigest(d, k, digest, hash)
      [] OTHER -> Refuse("NotImplemented")

Encrypt(d, k, aad) ==
    CASE d.family = "aesGcm" -> encryptAESGCM(d, k, aad)
      [] d.family = "aesCbc" -> encryptAESCBC(d, k)
      [] d.family = "aesCtr" -> encryptAESCTR(d, k)
      [] d.family = "chacha20Poly1305" -> encryptChaCha20Poly1305(d, k, aad)
      [] OTHER -> Refuse("NotImplemented")

Decrypt(d, k, ct, aad) ==
    CASE d.family = "aesGcm" -> decryptAESGCM(d, k, ct, aad)
      [] d.family = "aesCbc" -> decryptAESCBC(d, k, ct)
      [] d.family = "aesCtr" -> decryptAESCTR(d, k, ct)
      [] d.family = "chacha20Poly1305" -> decryptChaCha20Poly1305(d, k, ct, aad)
      [] OTHER -> Refuse("NotImplemented")
=============================================================================
