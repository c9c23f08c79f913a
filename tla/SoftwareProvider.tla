-------------------------- MODULE SoftwareProvider --------------------------
(***************************************************************************)
(* The software provider (internal/provider/software): which keys it makes,*)
(* and what it answers to a request with algorithm details d and key k.    *)
(* An unparsable signature, like a wrong one, does not verify.             *)
(***************************************************************************)
EXTENDS Algorithms

SupportedAlgorithms ==
    {"ecdsa-p256-sha256-der", "ecdsa-p384-sha384-der", "ecdsa-p521-sha512-der",
     "ecdsa-p256-prehashed-der", "ecdsa-p384-prehashed-der", "ecdsa-p521-prehashed-der",
     "rsa-pss-sha256-mgf1-32-2048", "rsa-pss-sha256-mgf1-32-3072", "rsa-pss-sha384-mgf1-48-4096",
     "rsa-pss-2048-prehashed", "rsa-pss-3072-prehashed", "rsa-pss-4096-prehashed",
     "rsa-pkcs1v15-sha256-2048", "rsa-pkcs1v15-2048-prehashed", "ed25519", "ed25519ph",
     "ml-dsa-44", "ml-dsa-65", "ml-dsa-87", "chacha20-poly1305", "xchacha20-poly1305"}
    \cup {a \o m : a \in {"aes-128", "aes-192", "aes-256"},
                   m \in {"-gcm-128-96", "-cbc-pkcs7-128", "-ctr"}}

Symmetric == {"aesGcm", "aesCbc", "aesCtr", "chacha20Poly1305"}

privateKeyEncoding(d) ==
    CASE d.family = "ecdsa" -> "SEC1"
      [] d.family \in {"mlDsa", "rsaPss", "rsaPkcs1v15", "ed25519"} -> "PKCS8"
      [] d.family \in Symmetric -> "RAW"
      [] OTHER -> Unspecified

\* The encodings in which a stored key may leave or enter.
TransferCapabilities(d) == {privateKeyEncoding(d)} \ {Unspecified}

generatedKey(d, type, size, public) ==
    Answer(Require(privateKeyEncoding(d) # Unspecified, "Internal"),
           [type |-> type, size |-> size, private |-> privateKeyEncoding(d), public |-> public])

(***************************************************************************)
(* ECDSA                                                                   *)
(***************************************************************************)
curveForAlgorithm(curve) == Require(curve \in {"P256", "P384", "P521"}, "NotImplemented")

parseECDSAPrivateKey(k) == Require(k.private \in {"PKCS8", "SEC1", Unspecified}, "NotImplemented")
                           \o Require(k.type = "EC", "InvalidArgument")
parseECDSAPublicKey(k)  == Require(k.public \in {"SPKI", Unspecified}, "NotImplemented")
                           \o Require(k.type = "EC", "InvalidArgument")

\* Mutant: any curve will do.
checkAnyCurve(k, curve) == curveForAlgorithm(curve)

checkCurveMatches(k, curve) == curveForAlgorithm(curve)
                               \o Require(k.type = "EC" /\ k.size = curve, "InvalidArgument")

curveMinHash == [P256 |-> "SHA256", P384 |-> "SHA384", P521 |-> "SHA512"]

ResolvedHash(d) == IF d.hash = Unspecified /\ d.curve \in DOMAIN curveMinHash
                   THEN curveMinHash[d.curve] ELSE d.hash

ecdsaDigest(d) ==
    Require(d.curve \in DOMAIN curveMinHash, "NotImplemented")
    \o Require(d.curve \in DOMAIN curveMinHash /\ d.hash # Unspecified
                  => Strength[d.hash] >= Strength[curveMinHash[d.curve]], "InvalidArgument")
    \o Require(ResolvedHash(d) \in {"SHA256", "SHA384", "SHA512"}, "NotImplemented")

\* encodeECDSASignature and decodeECDSASignature.
SignatureFormat(d) == Require(d.format \in {Unspecified, "DER", "P1363"}, "NotImplemented")

EcdsaOver(d, digest) ==
    [scheme |-> "ecdsa", digest |-> digest, format |-> IF d.format = "P1363" THEN "P1363" ELSE "DER"]

generateECDSAKey(d) == IF d.curve \in {"P256", "P384", "P521"}
                       THEN generatedKey(d, "EC", d.curve, "SPKI") ELSE Refuse("NotImplemented")

signECDSA(d, k, m) ==
    Answer(parseECDSAPrivateKey(k) \o checkCurveMatches(k, d.curve) \o ecdsaDigest(d)
           \o SignatureFormat(d), EcdsaOver(d, Hash(ResolvedHash(d), m)))

verifyECDSA(d, k, m) ==
    Answer(parseECDSAPublicKey(k) \o checkCurveMatches(k, d.curve) \o ecdsaDigest(d)
           \o SignatureFormat(d), EcdsaOver(d, Hash(ResolvedHash(d), m)))

signECDSADigest(d, k, digest) ==
    Answer(parseECDSAPrivateKey(k) \o checkCurveMatches(k, d.curve) \o SignatureFormat(d),
           EcdsaOver(d, digest))

verifyECDSADigest(d, k, digest) ==
    Answer(parseECDSAPublicKey(k) \o checkCurveMatches(k, d.curve) \o SignatureFormat(d),
           EcdsaOver(d, digest))

(***************************************************************************)
(* RSA                                                                     *)
(***************************************************************************)
parseRSAPrivateKey(k) == Require(k.private \in {"PKCS8", Unspecified}, "NotImplemented")
                         \o Require(k.type = "RSA", "InvalidArgument")
parseRSAPublicKey(k)  == Require(k.public \in {"SPKI", Unspecified}, "NotImplemented")
                         \o Require(k.type = "RSA", "InvalidArgument")
checkRSAKeySize(k, bits) == Require(k.type = "RSA" /\ k.size = bits, "InvalidArgument")

checkRSAPSSMGF(d, hash) == Require(d.mgf \in {Unspecified, "MGF1"}, "NotImplemented")
                           \o Require(d.mgfHash \in {Unspecified, hash}, "NotImplemented")

rsaHash(hash) == Require(hash \in {Unspecified, "SHA256", "SHA384", "SHA512"}, "NotImplemented")
RsaHashOf(hash) == IF hash = Unspecified THEN "SHA256" ELSE hash

rsaPSSSaltLength(d) == Require(d.salt \in {"HASH_LENGTH", "MAX", "EXPLICIT"}, "NotImplemented")
                       \o Require(d.salt = "EXPLICIT" => d.saltBytes > 0, "InvalidArgument")

\* Both primitives want a digest of the hash's length: signing with another
\* is an error, and verifying it finds nothing valid.
RightLength(digest, hash) ==
    Require(hash \in {"SHA256", "SHA384", "SHA512"} => DigestLength[digest.hash] = DigestLength[hash],
            "Unknown")

PSSOver(d, hash, digest) == [scheme |-> "pss", hash |-> RsaHashOf(hash), digest |-> digest,
                             salt |-> d.salt, saltBytes |-> d.saltBytes]
PKCS1Over(hash, digest) == [scheme |-> "pkcs1v15", hash |-> RsaHashOf(hash), digest |-> digest]

generateRSAKey(d) == generatedKey(d, "RSA", d.bits, "SPKI")

signRSAPSSCore(d, k, digest, hash) ==
    Answer(parseRSAPrivateKey(k) \o checkRSAKeySize(k, d.bits) \o checkRSAPSSMGF(d, hash)
           \o rsaHash(hash) \o rsaPSSSaltLength(d) \o RightLength(digest, RsaHashOf(hash)),
           PSSOver(d, hash, digest))

verifyRSAPSSCore(d, k, digest, hash) ==
    Answer(parseRSAPublicKey(k) \o checkRSAKeySize(k, d.bits) \o checkRSAPSSMGF(d, hash)
           \o rsaHash(hash) \o rsaPSSSaltLength(d), PSSOver(d, hash, digest))

signRSAPKCS1v15Core(d, k, digest, hash) ==
    Answer(parseRSAPrivateKey(k) \o checkRSAKeySize(k, d.bits) \o rsaHash(hash)
           \o RightLength(digest, RsaHashOf(hash)), PKCS1Over(hash, digest))

verifyRSAPKCS1v15Core(d, k, digest, hash) ==
    Answer(parseRSAPublicKey(k) \o checkRSAKeySize(k, d.bits) \o rsaHash(hash),
           PKCS1Over(hash, digest))

(***************************************************************************)
(* Ed25519 and ML-DSA                                                      *)
(***************************************************************************)
parseEd25519PrivateKey(k) == Require(k.private \in {"PKCS8", Unspecified}, "NotImplemented")
                             \o Require(k.type = "Ed25519", "InvalidArgument")
parseEd25519PublicKey(k)  == Require(k.public \in {"SPKI", Unspecified}, "NotImplemented")
                             \o Require(k.type = "Ed25519", "InvalidArgument")

checkEd25519PureVariant(d) == Require(d.variant \in {Unspecified, "PURE"}, "NotImplemented")

\* SignDigest's and VerifyDigest's own condition on the variant.
PrehashVariant(d) == Require(d.variant \in {Unspecified, "PH"}, "InvalidArgument")

checkEd25519PHHash(hash) == Require(hash \in {Unspecified, "SHA512"}, "NotImplemented")

PureOver(m)    == [scheme |-> "ed25519", digest |-> m]
PHOver(digest) == [scheme |-> "ed25519ph", digest |-> digest]

generateEd25519Key(d) == generatedKey(d, "Ed25519", "Ed25519", "SPKI")

signEd25519(d, k, m) ==
    Answer(checkEd25519PureVariant(d) \o parseEd25519PrivateKey(k), PureOver(m))

verifyEd25519(d, k, m) ==
    Answer(checkEd25519PureVariant(d) \o parseEd25519PublicKey(k), PureOver(m))

signEd25519PHDigest(d, k, digest, hash) ==
    Answer(PrehashVariant(d) \o checkEd25519PHHash(hash) \o parseEd25519PrivateKey(k)
           \o RightLength(digest, "SHA512"), PHOver(digest))

verifyEd25519PHDigest(d, k, digest, hash) ==
    Answer(PrehashVariant(d) \o checkEd25519PHHash(hash) \o parseEd25519PublicKey(k),
           PHOver(digest))

mldsaScheme(set) == Require(set \in {44, 65, 87}, "NotImplemented")

\* A domain context stands for itself by its length in bytes.
checkMLDSAContextLength(context) == Require(context <= 255, "InvalidArgument")

\* PKCS#8 names the parameter set, which must be the declared one.  Everything
\* else, an unset encoding too, is in the end taken as raw bytes of that set.
parseMLDSAPrivateKey(k, set) ==
    IF k.private = "PKCS8"
    THEN Require(k.type = "ML-DSA", "Unknown")
           \o Require(k.type = "ML-DSA" => k.size = set, "InvalidArgument")
    ELSE Require(k.type = "ML-DSA" /\ k.size = set, "Unknown")

MLDSAOver(m, context) == [scheme |-> "ml-dsa", digest |-> m, context |-> context]

generateMLDSAKey(d) == IF d.set \in {44, 65, 87}
                       THEN generatedKey(d, "ML-DSA", d.set, "RAW") ELSE Refuse("NotImplemented")

signMLDSA(d, k, m, context) ==
    Answer(checkMLDSAContextLength(context) \o mldsaScheme(d.set) \o parseMLDSAPrivateKey(k, d.set),
           MLDSAOver(m, context))

\* The public half is taken as raw bytes of the declared parameter set.
verifyMLDSA(d, k, m, context) ==
    Answer(checkMLDSAContextLength(context) \o mldsaScheme(d.set)
           \o Require(k.public = "RAW" /\ k.type = "ML-DSA" /\ k.size = d.set, "Unknown"),
           MLDSAOver(m, context))

(***************************************************************************)
(* Symmetric ciphers.  A ciphertext is [key, how, of]; how is what Encrypt *)
(* used, the length of its nonce or IV included.                           *)
(***************************************************************************)
Opened(ct, k) == IF ct.key = k.id THEN ct.of ELSE "garbage"

\* Mutant: the longest key, whatever the details say.
generateAES256Key(d) == generatedKey(d, "symmetric", 256, "none")

generateAESKey(d) == IF d.bits \in {128, 192, 256}
                     THEN generatedKey(d, "symmetric", d.bits, "none") ELSE Refuse("NotImplemented")
generateChaCha20Key(d) == generatedKey(d, "symmetric", 256, "none")

generateSymmetricKey(d) == IF d.family = "chacha20Poly1305" THEN generateChaCha20Key(d)
                                                            ELSE generateAESKey(d)

checkAESKeyMatchesDeclaredSize(k, bits) ==
    Require(k.type = "symmetric" /\ k.size = bits, "InvalidArgument")

newAESGCM(d) ==
    Require(d.iv \in {64, 96, 128}, "NotImplemented")
    \o Require(d.tag \in {96, 104, 112, 120, 128}, "NotImplemented")
    \o Require(d.iv = 96 \/ d.tag = 128, "NotImplemented")

GCMWith(d, aad) == [scheme |-> "gcm", nonce |-> d.iv, tag |-> d.tag, aad |-> aad]

encryptAESGCM(d, k, aad) ==
    Answer(checkAESKeyMatchesDeclaredSize(k, d.bits) \o newAESGCM(d), GCMWith(d, aad))

decryptAESGCM(d, k, ct, aad) ==
    Answer(checkAESKeyMatchesDeclaredSize(k, d.bits) \o newAESGCM(d)
           \o Require(ct.how.nonce = d.iv, "InvalidArgument")
           \o Require(ct.key = k.id /\ ct.how = GCMWith(d, aad), "InvalidArgument"), ct.of)

checkAESCBCParamsValid(d) == Require(d.iv = 128, "NotImplemented")
                             \o Require(d.padding = "PKCS7", "NotImplemented")

encryptAESCBC(d, k) ==
    Answer(checkAESKeyMatchesDeclaredSize(k, d.bits) \o checkAESCBCParamsValid(d),
           [scheme |-> "cbc", nonce |-> d.iv])

\* Bad padding is refused; what is well padded is taken as it comes.
decryptAESCBC(d, k, ct) ==
    Answer(checkAESKeyMatchesDeclaredSize(k, d.bits) \o checkAESCBCParamsValid(d)
           \o Require(ct.how.nonce = 128, "InvalidArgument"), Opened(ct, k))

newAESCTRBlock(d, k) == checkAESKeyMatchesDeclaredSize(k, d.bits)
                        \o Require(d.nonce = 96 /\ d.counter = 32, "NotImplemented")

\* The IV is the nonce and a zero counter: one block.
encryptAESCTR(d, k) == Answer(newAESCTRBlock(d, k), [scheme |-> "ctr", nonce |-> 128])

decryptAESCTR(d, k, ct) ==
    Answer(newAESCTRBlock(d, k) \o Require(ct.how.nonce = 128, "InvalidArgument"), Opened(ct, k))

newChaCha20Poly1305(d, k) ==
    Require(k.type = "symmetric" /\ k.size = 256, "InvalidArgument")
    \o Require(<<d.nonce, d.counter, d.extended>> \in {<<96, 32, FALSE>>, <<192, 32, TRUE>>},
               "NotImplemented")

ChaChaWith(d, aad) == [scheme |-> "chacha20poly1305", nonce |-> d.nonce, aad |-> aad]

encryptChaCha20Poly1305(d, k, aad) == Answer(newChaCha20Poly1305(d, k), ChaChaWith(d, aad))

decryptChaCha20Poly1305(d, k, ct, aad) ==
    Answer(newChaCha20Poly1305(d, k)
           \o Require(ct.how.nonce = d.nonce, "InvalidArgument")
           \o Require(ct.key = k.id /\ ct.how = ChaChaWith(d, aad), "InvalidArgument"), ct.of)

(***************************************************************************)
(* The provider's operations                                               *)
(***************************************************************************)
GenerateKey(d) ==
    CASE d.family = "ecdsa"   -> generateECDSAKey(d)
      [] d.family = "mlDsa"   -> generateMLDSAKey(d)
      [] d.family \in {"rsaPss", "rsaPkcs1v15"} -> generateRSAKey(d)
      [] d.family = "ed25519" -> generateEd25519Key(d)
      [] d.family \in Symmetric -> generateSymmetricKey(d)
      [] OTHER -> Refuse("NotImplemented")

Sign(d, k, m, context) ==
    CASE d.family = "ecdsa"       -> signECDSA(d, k, m)
      [] d.family = "mlDsa"       -> signMLDSA(d, k, m, context)
      [] d.family = "rsaPss"      -> signRSAPSSCore(d, k, Hash(RsaHashOf(d.hash), m), d.hash)
      [] d.family = "rsaPkcs1v15" -> signRSAPKCS1v15Core(d, k, Hash(RsaHashOf(d.hash), m), d.hash)
      [] d.family = "ed25519"     -> signEd25519(d, k, m)
      [] OTHER -> Refuse("NotImplemented")

\* What the signature must be for Verify to say valid.
Verify(d, k, m, context) ==
    CASE d.family = "ecdsa"       -> verifyECDSA(d, k, m)
      [] d.family = "mlDsa"       -> verifyMLDSA(d, k, m, context)
      [] d.family = "rsaPss"      -> verifyRSAPSSCore(d, k, Hash(RsaHashOf(d.hash), m), d.hash)
      [] d.family = "rsaPkcs1v15" -> verifyRSAPKCS1v15Core(d, k, Hash(RsaHashOf(d.hash), m), d.hash)
      [] d.family = "ed25519"     -> verifyEd25519(d, k, m)
      [] OTHER -> Refuse("NotImplemented")

validateDigestLength(hash, digest) ==
    hash # Unspecified => DigestLength[digest.hash] = DigestLength[hash]

SignDigest(d, k, digest, hash) ==
    CASE ~ validateDigestLength(hash, digest) -> Refuse("InvalidArgument")
      [] OTHER ->
    CASE d.family = "ecdsa"       -> signECDSADigest(d, k, digest)
      [] d.family = "mlDsa"       -> Refuse("InvalidArgument")
      [] d.family = "rsaPss"      -> signRSAPSSCore(d, k, digest, hash)
      [] d.family = "rsaPkcs1v15" -> signRSAPKCS1v15Core(d, k, digest, hash)
      [] d.family = "ed25519"     -> signEd25519PHDigest(d, k, digest, hash)
      [] OTHER -> Refuse("NotImplemented")

VerifyDigest(d, k, digest, hash) ==
    CASE ~ validateDigestLength(hash, digest) -> Refuse("InvalidArgument")
      [] OTHER ->
    CASE d.family = "ecdsa"       -> verifyECDSADigest(d, k, digest)
      [] d.family = "mlDsa"       -> Refuse("InvalidArgument")
      [] d.family = "rsaPss"      -> verifyRSAPSSCore(d, k, digest, hash)
      [] d.family = "rsaPkcs1v15" -> verifyRSAPKCS1v15Core(d, k, digest, hash)
      [] d.family = "ed25519"     -> verifyEd25519PHDigest(d, k, digest, hash)
      [] OTHER -> Refuse("NotImplemented")

Encrypt(d, k, aad) ==
    CASE d.family = "aesGcm" -> encryptAESGCM(d, k, aad)
      [] d.family = "aesCbc" -> encryptAESCBC(d, k)
      [] d.family = "aesCtr" -> encryptAESCTR(d, k)
      [] d.family = "chacha20Poly1305" -> encryptChaCha20Poly1305(d, k, aad)
      [] OTHER -> Refuse("NotImplemented")

Decrypt(d, k, ct, aad) ==
    CASE d.family = "aesGcm" -> decryptAESGCM(d, k, ct, aad)
      [] d.family = "aesCbc" -> decryptAESCBC(d, k, ct)
      [] d.family = "aesCtr" -> decryptAESCTR(d, k, ct)
      [] d.family = "chacha20Poly1305" -> decryptChaCha20Poly1305(d, k, ct, aad)
      [] OTHER -> Refuse("NotImplemented")
=============================================================================
