-------------------------- MODULE DeploymentProofs --------------------------
(***************************************************************************)
(* Proofs about Deployment for any catalogue, environment and request:     *)
(* what the providers' answers depend on, which keys they accept, and on   *)
(* which backends a key may come to stand.                                 *)
(***************************************************************************)
EXTENDS Deployment, FiniteSetTheorems, TLAPS

(***************************************************************************)
(* Answers.  A handler's checks make a list of errors; none of the codes   *)
(* is "OK", so it answers OK exactly if the list is empty.                 *)
(***************************************************************************)
Codes  == {"NotImplemented", "InvalidArgument", "Unknown", "Internal"}
Errors == Seq(Codes)

\* No check failed.
Clean(failed) == failed = <<>>

LEMMA NoErrors ==
    /\ <<>> \in Errors /\ Clean(<<>>)
    /\ \A code \in Codes : <<code>> \in Errors /\ ~ Clean(<<code>>)
  BY DEF Errors, Clean

LEMMA CodesInUse ==
    /\ "NotImplemented" \in Codes /\ "InvalidArgument" \in Codes
    /\ "Unknown" \in Codes /\ "Internal" \in Codes
  BY DEF Codes

\* One check after another finds an error exactly if one of them does.
LEMMA ErrorsJoined ==
    \A c, d \in Errors : c \o d \in Errors /\ (Clean(c \o d) <=> Clean(c) /\ Clean(d))
  BY DEF Errors, Clean

LEMMA AnswerOK ==
    \A failed \in Errors : \A how :
        /\ Ok(Answer(failed, how)) <=> Clean(failed)
        /\ Ok(Answer(failed, how)) => Answer(failed, how).how = how
<1> SUFFICES ASSUME NEW failed \in Errors, NEW how
             PROVE  /\ Ok(Answer(failed, how)) <=> Clean(failed)
                    /\ Ok(Answer(failed, how)) => Answer(failed, how).how = how
  OBVIOUS
<1>1. failed # <<>> => Head(failed) # "OK"
  BY DEF Errors, Codes
<1> QED BY <1>1 DEF Answer, Ok, Clean

LEMMA SoftAnswerOK ==
    \A failed \in Errors : \A how :
        /\ Ok(Soft!Answer(failed, how)) <=> Clean(failed)
        /\ Ok(Soft!Answer(failed, how)) => Soft!Answer(failed, how).how = how
  BY AnswerOK DEF Soft!Answer, Answer

LEMMA OsslAnswerOK ==
    \A failed \in Errors : \A how :
        /\ Ok(Ossl!Answer(failed, how)) <=> Clean(failed)
        /\ Ok(Ossl!Answer(failed, how)) => Ossl!Answer(failed, how).how = how
  BY AnswerOK DEF Ossl!Answer, Answer

LEMMA SoftRefuses == \A code \in Codes : ~ Ok(Soft!Refuse(code))
  BY SoftAnswerOK, NoErrors DEF Soft!Refuse, Soft!Require

LEMMA OsslRefuses == \A code \in Codes : ~ Ok(Ossl!Refuse(code))
  BY OsslAnswerOK, NoErrors DEF Ossl!Refuse, Ossl!Require

-----------------------------------------------------------------------------
(***************************************************************************)
(* What a signature or ciphertext covers.                                  *)
(***************************************************************************)
Hashed == {"ecdsa", "rsaPss", "rsaPkcs1v15"}

SignedOver(d, m, context, how) ==
    /\ d.family \in Hashed \cup {"mlDsa", "ed25519"}
    /\ d.family \in Hashed => how.digest.of = m
    /\ d.family = "mlDsa" => how.digest = m /\ how.context = context
    /\ d.family = "ed25519" => IF how.scheme = "ed25519ph" THEN how.digest.of = m ELSE how.digest = m

SealedWith(d, aad, how) == d.family \in {"aesGcm", "chacha20Poly1305"} => how.aad = aad

LEMMA SoftSigns ==
    ASSUME NEW d, NEW k, NEW m, NEW context, Ok(Soft!Sign(d, k, m, context))
    PROVE  SignedOver(d, m, context, Soft!Sign(d, k, m, context).how)
<1>1. CASE d.family = "ecdsa"
  BY <1>1, NoErrors, CodesInUse, ErrorsJoined, SoftAnswerOK
     DEF Soft!Sign, Soft!signECDSA, Soft!Require, Soft!EcdsaOver, Soft!Hash, Soft!parseECDSAPrivateKey,
         Soft!checkCurveMatches, Soft!curveForAlgorithm, Soft!ecdsaDigest, Soft!SignatureFormat,
         SignedOver, Hashed
<1>2. CASE d.family = "rsaPss"
  BY <1>2, NoErrors, CodesInUse, ErrorsJoined, SoftAnswerOK
     DEF Soft!Sign, Soft!signRSAPSSCore, Soft!Require, Soft!PSSOver, Soft!Hash, Soft!parseRSAPrivateKey,
         Soft!checkRSAKeySize, Soft!checkRSAPSSMGF, Soft!rsaHash, Soft!rsaPSSSaltLength,
         Soft!RightLength, SignedOver, Hashed
<1>3. CASE d.family = "rsaPkcs1v15"
  BY <1>3, NoErrors, CodesInUse, ErrorsJoined, SoftAnswerOK
     DEF Soft!Sign, Soft!signRSAPKCS1v15Core, Soft!Require, Soft!PKCS1Over, Soft!Hash,
         Soft!parseRSAPrivateKey, Soft!checkRSAKeySize, Soft!rsaHash, Soft!RightLength,
         SignedOver, Hashed
<1>4. CASE d.family = "ed25519"
  BY <1>4, NoErrors, CodesInUse, ErrorsJoined, SoftAnswerOK
     DEF Soft!Sign, Soft!signEd25519, Soft!Require, Soft!PureOver, Soft!checkEd25519PureVariant,
         Soft!parseEd25519PrivateKey, SignedOver, Hashed
<1>5. CASE d.family = "mlDsa"
  BY <1>5, NoErrors, CodesInUse, ErrorsJoined, SoftAnswerOK
     DEF Soft!Sign, Soft!signMLDSA, Soft!Require, Soft!MLDSAOver, Soft!checkMLDSAContextLength,
         Soft!mldsaScheme, Soft!parseMLDSAPrivateKey, SignedOver, Hashed
<1> QED BY <1>1, <1>2, <1>3, <1>4, <1>5, SoftRefuses, CodesInUse DEF Soft!Sign

LEMMA SoftVerifies ==
    ASSUME NEW d, NEW k, NEW m, NEW context, Ok(Soft!Verify(d, k, m, context))
    PROVE  SignedOver(d, m, context, Soft!Verify(d, k, m, context).how)
<1>1. CASE d.family = "ecdsa"
  BY <1>1, NoErrors, CodesInUse, ErrorsJoined, SoftAnswerOK
     DEF Soft!Verify, Soft!verifyECDSA, Soft!Require, Soft!EcdsaOver, Soft!Hash,
         Soft!parseECDSAPublicKey, Soft!checkCurveMatches, Soft!curveForAlgorithm,
         Soft!ecdsaDigest, Soft!SignatureFormat, SignedOver, Hashed
<1>2. CASE d.family = "rsaPss"
  BY <1>2, NoErrors, CodesInUse, ErrorsJoined, SoftAnswerOK
     DEF Soft!Verify, Soft!verifyRSAPSSCore, Soft!Require, Soft!PSSOver, Soft!Hash,
         Soft!parseRSAPublicKey, Soft!checkRSAKeySize, Soft!checkRSAPSSMGF,
         Soft!rsaHash, Soft!rsaPSSSaltLength, SignedOver, Hashed
<1>3. CASE d.family = "rsaPkcs1v15"
  BY <1>3, NoErrors, CodesInUse, ErrorsJoined, SoftAnswerOK
     DEF Soft!Verify, Soft!verifyRSAPKCS1v15Core, Soft!Require, Soft!PKCS1Over,
         Soft!Hash, Soft!parseRSAPublicKey, Soft!checkRSAKeySize, Soft!rsaHash,
         SignedOver, Hashed
<1>4. CASE d.family = "ed25519"
  BY <1>4, NoErrors, CodesInUse, ErrorsJoined, SoftAnswerOK
     DEF Soft!Verify, Soft!verifyEd25519, Soft!Require, Soft!PureOver,
         Soft!checkEd25519PureVariant, Soft!parseEd25519PublicKey, SignedOver, Hashed
<1>5. CASE d.family = "mlDsa"
  BY <1>5, NoErrors, CodesInUse, ErrorsJoined, SoftAnswerOK
     DEF Soft!Verify, Soft!verifyMLDSA, Soft!Require, Soft!MLDSAOver,
         Soft!checkMLDSAContextLength, Soft!mldsaScheme, SignedOver, Hashed
<1> QED BY <1>1, <1>2, <1>3, <1>4, <1>5, SoftRefuses, CodesInUse DEF Soft!Verify

LEMMA OsslSigns ==
    ASSUME NEW d, NEW k, NEW m, NEW context, Ok(Ossl!Sign(d, k, m, context))
    PROVE  SignedOver(d, m, context, Ossl!Sign(d, k, m, context).how)
<1>1. CASE d.family = "ecdsa"
  BY <1>1, NoErrors, CodesInUse, ErrorsJoined, OsslAnswerOK
     DEF Ossl!Sign, Ossl!signECDSA, Ossl!Require, Ossl!EcdsaOver, Ossl!Hash,
         Ossl!parsePrivateKey, Ossl!checkCurveMatches,
         Ossl!ecdsaDigestName, Ossl!digestNameFor, Ossl!ecdsaSignatureFormat,
         SignedOver, Hashed
<1>2. CASE d.family = "rsaPss"
  BY <1>2, NoErrors, CodesInUse, ErrorsJoined, OsslAnswerOK
     DEF Ossl!Sign, Ossl!signRSAPSS, Ossl!signRSAPSSDigest, Ossl!PSSChecks,
         Ossl!Require, Ossl!PSSOver, Ossl!Hash, Ossl!parsePrivateKey,
         Ossl!checkRSAKeySize, Ossl!checkRSAPSSMGF, Ossl!rsaHashName,
         Ossl!rsaPSSSaltLength, Ossl!RightLength, SignedOver, Hashed
<1>3. CASE d.family = "rsaPkcs1v15"
  BY <1>3, NoErrors, CodesInUse, ErrorsJoined, OsslAnswerOK
     DEF Ossl!Sign, Ossl!signRSAPKCS1v15, Ossl!signRSAPKCS1v15Digest, Ossl!PKCS1Checks,
         Ossl!Require, Ossl!PKCS1Over, Ossl!Hash, Ossl!parsePrivateKey,
         Ossl!checkRSAKeySize, Ossl!rsaHashName, Ossl!RightLength, SignedOver, Hashed
<1>4. CASE d.family = "ed25519"
  BY <1>4, NoErrors, CodesInUse, ErrorsJoined, OsslAnswerOK
     DEF Ossl!Sign, Ossl!signEd25519, Ossl!Require, Ossl!EdOver, Ossl!PHOver, Ossl!Hash,
         Ossl!checkEd25519VariantSupported, Ossl!parsePrivateKey, Ossl!IsEd25519,
         SignedOver, Hashed
<1>5. CASE d.family = "mlDsa"
  BY <1>5, NoErrors, CodesInUse, ErrorsJoined, OsslAnswerOK
     DEF Ossl!Sign, Ossl!signMLDSA, Ossl!Require, Ossl!MLDSAOver,
         Ossl!checkMLDSAContextLength, Ossl!mlDSAKeyAlgorithmFor, Ossl!parsePrivateKey,
         SignedOver, Hashed
<1> QED BY <1>1, <1>2, <1>3, <1>4, <1>5, OsslRefuses, CodesInUse DEF Ossl!Sign

LEMMA OsslVerifies ==
    ASSUME NEW d, NEW k, NEW m, NEW context, Ok(Ossl!Verify(d, k, m, context))
    PROVE  SignedOver(d, m, context, Ossl!Verify(d, k, m, context).how)
<1>1. CASE d.family = "ecdsa"
  BY <1>1, NoErrors, CodesInUse, ErrorsJoined, OsslAnswerOK
     DEF Ossl!Verify, Ossl!verifyECDSA, Ossl!Require, Ossl!EcdsaOver, Ossl!Hash,
         Ossl!parsePublicKey, Ossl!checkCurveMatches,
         Ossl!ecdsaDigestName, Ossl!digestNameFor, Ossl!ecdsaSignatureFormat,
         SignedOver, Hashed
<1>2. CASE d.family = "rsaPss"
  BY <1>2, NoErrors, CodesInUse, ErrorsJoined, OsslAnswerOK
     DEF Ossl!Verify, Ossl!verifyRSAPSS, Ossl!verifyRSAPSSDigest, Ossl!PSSChecks,
         Ossl!Require, Ossl!PSSOver, Ossl!Hash, Ossl!parsePublicKey,
         Ossl!checkRSAKeySize, Ossl!checkRSAPSSMGF, Ossl!rsaHashName,
         Ossl!rsaPSSSaltLength, Ossl!RightLength, SignedOver, Hashed
<1>3. CASE d.family = "rsaPkcs1v15"
  BY <1>3, NoErrors, CodesInUse, ErrorsJoined, OsslAnswerOK
     DEF Ossl!Verify, Ossl!verifyRSAPKCS1v15, Ossl!verifyRSAPKCS1v15Digest,
         Ossl!PKCS1Checks, Ossl!Require, Ossl!PKCS1Over, Ossl!Hash, Ossl!parsePublicKey,
         Ossl!checkRSAKeySize, Ossl!rsaHashName, Ossl!RightLength, SignedOver, Hashed
<1>4. CASE d.family = "ed25519"
  BY <1>4, NoErrors, CodesInUse, ErrorsJoined, OsslAnswerOK
     DEF Ossl!Verify, Ossl!verifyEd25519, Ossl!Require, Ossl!EdOver, Ossl!PHOver,
         Ossl!Hash, Ossl!checkEd25519VariantSupported, Ossl!parsePublicKey,
         Ossl!IsEd25519, SignedOver, Hashed
<1>5. CASE d.family = "mlDsa"
  BY <1>5, NoErrors, CodesInUse, ErrorsJoined, OsslAnswerOK
     DEF Ossl!Verify, Ossl!verifyMLDSA, Ossl!Require, Ossl!MLDSAOver,
         Ossl!checkMLDSAContextLength, Ossl!mlDSAKeyAlgorithmFor, Ossl!parsePublicKey,
         SignedOver, Hashed
<1> QED BY <1>1, <1>2, <1>3, <1>4, <1>5, OsslRefuses, CodesInUse DEF Ossl!Verify

LEMMA SoftSignsDigest ==
    ASSUME NEW d, NEW k, NEW digest, NEW hash, Ok(Soft!SignDigest(d, k, digest, hash))
    PROVE  Soft!SignDigest(d, k, digest, hash).how.digest = digest
<1> DEFINE v == Soft!SignDigest(d, k, digest, hash)
<1>d. \/ v = Soft!Refuse("InvalidArgument") \/ v = Soft!Refuse("NotImplemented")
      \/ d.family = "ecdsa" /\ v = Soft!signECDSADigest(d, k, digest)
      \/ d.family = "rsaPss" /\ v = Soft!signRSAPSSCore(d, k, digest, hash)
      \/ d.family = "rsaPkcs1v15" /\ v = Soft!signRSAPKCS1v15Core(d, k, digest, hash)
      \/ d.family = "ed25519" /\ v = Soft!signEd25519PHDigest(d, k, digest, hash)
  BY Zenon DEF Soft!SignDigest
<1>e. Ok(v)  OBVIOUS
<1> SUFFICES v.how.digest = digest  OBVIOUS
<1> HIDE DEF v
<1>1. CASE v = Soft!signECDSADigest(d, k, digest)
  BY <1>e, <1>1, NoErrors, CodesInUse, ErrorsJoined, SoftAnswerOK
     DEF Soft!signECDSADigest, Soft!Require, Soft!EcdsaOver,
         Soft!parseECDSAPrivateKey, Soft!checkCurveMatches, Soft!curveForAlgorithm,
         Soft!SignatureFormat
<1>2. CASE v = Soft!signRSAPSSCore(d, k, digest, hash)
  BY <1>e, <1>2, NoErrors, CodesInUse, ErrorsJoined, SoftAnswerOK
     DEF Soft!signRSAPSSCore, Soft!Require, Soft!PSSOver,
         Soft!parseRSAPrivateKey, Soft!checkRSAKeySize, Soft!checkRSAPSSMGF,
         Soft!rsaHash, Soft!rsaPSSSaltLength, Soft!RightLength
<1>3. CASE v = Soft!signRSAPKCS1v15Core(d, k, digest, hash)
  BY <1>e, <1>3, NoErrors, CodesInUse, ErrorsJoined, SoftAnswerOK
     DEF Soft!signRSAPKCS1v15Core, Soft!Require, Soft!PKCS1Over,
         Soft!parseRSAPrivateKey, Soft!checkRSAKeySize, Soft!rsaHash, Soft!RightLength
<1>4. CASE v = Soft!signEd25519PHDigest(d, k, digest, hash)
  BY <1>e, <1>4, NoErrors, CodesInUse, ErrorsJoined, SoftAnswerOK
     DEF Soft!signEd25519PHDigest, Soft!Require, Soft!PHOver,
         Soft!PrehashVariant, Soft!checkEd25519PHHash, Soft!parseEd25519PrivateKey,
         Soft!RightLength
<1> QED BY <1>d, <1>e, <1>1, <1>2, <1>3, <1>4, SoftRefuses, CodesInUse

LEMMA SoftVerifiesDigest ==
    ASSUME NEW d, NEW k, NEW digest, NEW hash, Ok(Soft!VerifyDigest(d, k, digest, hash))
    PROVE  Soft!VerifyDigest(d, k, digest, hash).how.digest = digest
<1> DEFINE v == Soft!VerifyDigest(d, k, digest, hash)
<1>d. \/ v = Soft!Refuse("InvalidArgument") \/ v = Soft!Refuse("NotImplemented")
      \/ d.family = "ecdsa" /\ v = Soft!verifyECDSADigest(d, k, digest)
      \/ d.family = "rsaPss" /\ v = Soft!verifyRSAPSSCore(d, k, digest, hash)
      \/ d.family = "rsaPkcs1v15" /\ v = Soft!verifyRSAPKCS1v15Core(d, k, digest, hash)
      \/ d.family = "ed25519" /\ v = Soft!verifyEd25519PHDigest(d, k, digest, hash)
  BY Zenon DEF Soft!VerifyDigest
<1>e. Ok(v)  OBVIOUS
<1> SUFFICES v.how.digest = digest  OBVIOUS
<1> HIDE DEF v
<1>1. CASE v = Soft!verifyECDSADigest(d, k, digest)
  BY <1>e, <1>1, NoErrors, CodesInUse, ErrorsJoined, SoftAnswerOK
     DEF Soft!verifyECDSADigest, Soft!Require, Soft!EcdsaOver,
         Soft!parseECDSAPublicKey, Soft!checkCurveMatches, Soft!curveForAlgorithm,
         Soft!SignatureFormat
<1>2. CASE v = Soft!verifyRSAPSSCore(d, k, digest, hash)
  BY <1>e, <1>2, NoErrors, CodesInUse, ErrorsJoined, SoftAnswerOK
     DEF Soft!verifyRSAPSSCore, Soft!Require, Soft!PSSOver,
         Soft!parseRSAPublicKey, Soft!checkRSAKeySize, Soft!checkRSAPSSMGF,
         Soft!rsaHash, Soft!rsaPSSSaltLength
<1>3. CASE v = Soft!verifyRSAPKCS1v15Core(d, k, digest, hash)
  BY <1>e, <1>3, NoErrors, CodesInUse, ErrorsJoined, SoftAnswerOK
     DEF Soft!verifyRSAPKCS1v15Core, Soft!Require, Soft!PKCS1Over,
         Soft!parseRSAPublicKey, Soft!checkRSAKeySize, Soft!rsaHash
<1>4. CASE v = Soft!verifyEd25519PHDigest(d, k, digest, hash)
  BY <1>e, <1>4, NoErrors, CodesInUse, ErrorsJoined, SoftAnswerOK
     DEF Soft!verifyEd25519PHDigest, Soft!Require, Soft!PHOver,
         Soft!PrehashVariant, Soft!checkEd25519PHHash, Soft!parseEd25519PublicKey
<1> QED BY <1>d, <1>e, <1>1, <1>2, <1>3, <1>4, SoftRefuses, CodesInUse

LEMMA OsslSignsDigest ==
    ASSUME NEW d, NEW k, NEW digest, NEW hash, Ok(Ossl!SignDigest(d, k, digest, hash))
    PROVE  Ossl!SignDigest(d, k, digest, hash).how.digest = digest
<1> DEFINE v == Ossl!SignDigest(d, k, digest, hash)
<1>d. \/ v = Ossl!Refuse("InvalidArgument") \/ v = Ossl!Refuse("NotImplemented")
      \/ d.family = "ecdsa" /\ v = Ossl!signECDSADigest(d, k, digest, hash)
      \/ d.family = "rsaPss" /\ v = Ossl!signRSAPSSDigest(d, k, digest, hash)
      \/ d.family = "rsaPkcs1v15" /\ v = Ossl!signRSAPKCS1v15Digest(d, k, digest, hash)
      \/ d.family = "ed25519" /\ v = Ossl!signEd25519PHDigest(d, k, digest, hash)
  BY Zenon DEF Ossl!SignDigest
<1>e. Ok(v)  OBVIOUS
<1> SUFFICES v.how.digest = digest  OBVIOUS
<1> HIDE DEF v
<1>1. CASE v = Ossl!signECDSADigest(d, k, digest, hash)
  BY <1>e, <1>1, NoErrors, CodesInUse, ErrorsJoined, OsslAnswerOK
     DEF Ossl!signECDSADigest, Ossl!Require, Ossl!EcdsaOver,
         Ossl!parsePrivateKey, Ossl!checkCurveMatches,
         Ossl!ecdsaDigestSignName, Ossl!digestNameFor, Ossl!ecdsaSignatureFormat
<1>2. CASE v = Ossl!signRSAPSSDigest(d, k, digest, hash)
  BY <1>e, <1>2, NoErrors, CodesInUse, ErrorsJoined, OsslAnswerOK
     DEF Ossl!signRSAPSSDigest, Ossl!PSSChecks, Ossl!Require,
         Ossl!PSSOver, Ossl!parsePrivateKey, Ossl!checkRSAKeySize, Ossl!checkRSAPSSMGF,
         Ossl!rsaHashName, Ossl!rsaPSSSaltLength, Ossl!RightLength
<1>3. CASE v = Ossl!signRSAPKCS1v15Digest(d, k, digest, hash)
  BY <1>e, <1>3, NoErrors, CodesInUse, ErrorsJoined, OsslAnswerOK
     DEF Ossl!signRSAPKCS1v15Digest, Ossl!PKCS1Checks, Ossl!Require,
         Ossl!PKCS1Over, Ossl!parsePrivateKey, Ossl!checkRSAKeySize, Ossl!rsaHashName,
         Ossl!RightLength
<1>4. CASE v = Ossl!signEd25519PHDigest(d, k, digest, hash)
  BY <1>e, <1>4, NoErrors, CodesInUse, ErrorsJoined, OsslAnswerOK
     DEF Ossl!signEd25519PHDigest, Ossl!Require, Ossl!PHOver,
         Ossl!PrehashVariant, Ossl!checkEd25519PHHash, Ossl!parsePrivateKey,
         Ossl!IsEd25519, Ossl!RightLength
<1> QED BY <1>d, <1>e, <1>1, <1>2, <1>3, <1>4, OsslRefuses, CodesInUse

LEMMA OsslVerifiesDigest ==
    ASSUME NEW d, NEW k, NEW digest, NEW hash, Ok(Ossl!VerifyDigest(d, k, digest, hash))
    PROVE  Ossl!VerifyDigest(d, k, digest, hash).how.digest = digest
<1> DEFINE v == Ossl!VerifyDigest(d, k, digest, hash)
<1>d. \/ v = Ossl!Refuse("InvalidArgument") \/ v = Ossl!Refuse("NotImplemented")
      \/ d.family = "ecdsa" /\ v = Ossl!verifyECDSADigest(d, k, digest, hash)
      \/ d.family = "rsaPss" /\ v = Ossl!verifyRSAPSSDigest(d, k, digest, hash)
      \/ d.family = "rsaPkcs1v15" /\ v = Ossl!verifyRSAPKCS1v15Digest(d, k, digest, hash)
      \/ d.family = "ed25519" /\ v = Ossl!verifyEd25519PHDigest(d, k, digest, hash)
  BY Zenon DEF Ossl!VerifyDigest
<1>e. Ok(v)  OBVIOUS
<1> SUFFICES v.how.digest = digest  OBVIOUS
<1> HIDE DEF v
<1>1. CASE v = Ossl!verifyECDSADigest(d, k, digest, hash)
  BY <1>e, <1>1, NoErrors, CodesInUse, ErrorsJoined, OsslAnswerOK
     DEF Ossl!verifyECDSADigest, Ossl!Require, Ossl!EcdsaOver,
         Ossl!parsePublicKey, Ossl!checkCurveMatches,
         Ossl!ecdsaDigestSignName, Ossl!digestNameFor, Ossl!ecdsaSignatureFormat
<1>2. CASE v = Ossl!verifyRSAPSSDigest(d, k, digest, hash)
  BY <1>e, <1>2, NoErrors, CodesInUse, ErrorsJoined, OsslAnswerOK
     DEF Ossl!verifyRSAPSSDigest, Ossl!PSSChecks, Ossl!Require,
         Ossl!PSSOver, Ossl!parsePublicKey, Ossl!checkRSAKeySize, Ossl!checkRSAPSSMGF,
         Ossl!rsaHashName, Ossl!rsaPSSSaltLength, Ossl!RightLength
<1>3. CASE v = Ossl!verifyRSAPKCS1v15Digest(d, k, digest, hash)
  BY <1>e, <1>3, NoErrors, CodesInUse, ErrorsJoined, OsslAnswerOK
     DEF Ossl!verifyRSAPKCS1v15Digest, Ossl!PKCS1Checks,
         Ossl!Require, Ossl!PKCS1Over, Ossl!parsePublicKey, Ossl!checkRSAKeySize,
         Ossl!rsaHashName, Ossl!RightLength
<1>4. CASE v = Ossl!verifyEd25519PHDigest(d, k, digest, hash)
  BY <1>e, <1>4, NoErrors, CodesInUse, ErrorsJoined, OsslAnswerOK
     DEF Ossl!verifyEd25519PHDigest, Ossl!Require, Ossl!PHOver,
         Ossl!PrehashVariant, Ossl!checkEd25519PHHash, Ossl!parsePublicKey,
         Ossl!IsEd25519, Ossl!RightLength
<1> QED BY <1>d, <1>e, <1>1, <1>2, <1>3, <1>4, OsslRefuses, CodesInUse

LEMMA SoftChaChaErrors ==
    ASSUME NEW d, NEW k
    PROVE  /\ Soft!newChaCha20Poly1305(d, k) \in Errors
           /\ Clean(Soft!newChaCha20Poly1305(d, k)) => k.type = "symmetric" /\ k.size = 256
<1> DEFINE nonce == <<d.nonce, d.counter, d.extended>> \in {<<96, 32, FALSE>>, <<192, 32, TRUE>>}
<1>1. Soft!newChaCha20Poly1305(d, k) =
        Soft!Require(k.type = "symmetric" /\ k.size = 256, "InvalidArgument")
        \o Soft!Require(nonce, "NotImplemented")
  BY DEF Soft!newChaCha20Poly1305
<1> HIDE DEF nonce
<1> QED BY <1>1, NoErrors, CodesInUse, ErrorsJoined DEF Soft!Require

LEMMA SoftEncrypts ==
    ASSUME NEW d, NEW k, NEW aad, Ok(Soft!Encrypt(d, k, aad))
    PROVE  SealedWith(d, aad, Soft!Encrypt(d, k, aad).how)
<1>1. CASE d.family = "aesGcm"
  BY <1>1, NoErrors, CodesInUse, ErrorsJoined, SoftAnswerOK
     DEF Soft!Encrypt, Soft!encryptAESGCM, Soft!Require, Soft!GCMWith,
         Soft!checkAESKeyMatchesDeclaredSize, Soft!newAESGCM, SealedWith
<1>2. CASE d.family = "chacha20Poly1305"
  BY <1>2, SoftAnswerOK, SoftChaChaErrors
     DEF Soft!Encrypt, Soft!encryptChaCha20Poly1305, Soft!ChaChaWith, SealedWith
<1> QED BY <1>1, <1>2 DEF SealedWith

LEMMA OsslEncrypts ==
    ASSUME NEW d, NEW k, NEW aad, Ok(Ossl!Encrypt(d, k, aad))
    PROVE  SealedWith(d, aad, Ossl!Encrypt(d, k, aad).how)
<1>1. CASE d.family = "aesGcm"
  BY <1>1, NoErrors, CodesInUse, ErrorsJoined, OsslAnswerOK
     DEF Ossl!Encrypt, Ossl!encryptAESGCM, Ossl!Require, Ossl!GCMWith,
         Ossl!cipherNameFor, Ossl!aesCipherNameFor, Ossl!KeyLength, SealedWith
<1>2. CASE d.family = "chacha20Poly1305"
  BY <1>2, NoErrors, CodesInUse, ErrorsJoined, OsslAnswerOK
     DEF Ossl!Encrypt, Ossl!encryptChaCha20Poly1305, Ossl!Require, Ossl!ChaChaWith,
         Ossl!cipherNameFor, Ossl!aesCipherNameFor, Ossl!KeyLength, SealedWith
<1> QED BY <1>1, <1>2 DEF SealedWith

LEMMA SoftDecrypts ==
    ASSUME NEW d, NEW k, NEW ct, NEW aad, Ok(Soft!Decrypt(d, k, ct, aad))
    PROVE  SealedWith(d, aad, ct.how)
<1>1. CASE d.family = "aesGcm"
  <2> DEFINE fits   == Soft!checkAESKeyMatchesDeclaredSize(k, d.bits) \o Soft!newAESGCM(d)
                       \o Soft!Require(ct.how.nonce = d.iv, "InvalidArgument")
             opens  == ct.key = k.id /\ ct.how = Soft!GCMWith(d, aad)
             opened == Soft!Require(opens, "InvalidArgument")
  <2>1. fits \in Errors
    BY NoErrors, CodesInUse, ErrorsJoined
       DEF Soft!checkAESKeyMatchesDeclaredSize, Soft!newAESGCM, Soft!Require
  <2>2. opened \in Errors /\ (Clean(opened) => opens)
    BY NoErrors, CodesInUse DEF Soft!Require
  <2>3. Soft!Decrypt(d, k, ct, aad) = Soft!Answer(fits \o opened, ct.of)
    BY <1>1 DEF Soft!Decrypt, Soft!decryptAESGCM
  <2> HIDE DEF fits, opened
  <2>4. opens
    BY <2>1, <2>2, <2>3, ErrorsJoined, SoftAnswerOK
  <2> QED BY <2>4 DEF SealedWith, Soft!GCMWith
<1>2. CASE d.family = "chacha20Poly1305"
  <2> DEFINE fits   == Soft!newChaCha20Poly1305(d, k)
                       \o Soft!Require(ct.how.nonce = d.nonce, "InvalidArgument")
             opens  == ct.key = k.id /\ ct.how = Soft!ChaChaWith(d, aad)
             opened == Soft!Require(opens, "InvalidArgument")
  <2>1. fits \in Errors
    BY NoErrors, CodesInUse, ErrorsJoined, SoftChaChaErrors DEF Soft!Require
  <2>2. opened \in Errors /\ (Clean(opened) => opens)
    BY NoErrors, CodesInUse DEF Soft!Require
  <2>3. Soft!Decrypt(d, k, ct, aad) = Soft!Answer(fits \o opened, ct.of)
    BY <1>2 DEF Soft!Decrypt, Soft!decryptChaCha20Poly1305
  <2> HIDE DEF fits, opened
  <2>4. opens
    BY <2>1, <2>2, <2>3, ErrorsJoined, SoftAnswerOK
  <2> QED BY <2>4 DEF SealedWith, Soft!ChaChaWith
<1> QED BY <1>1, <1>2 DEF SealedWith

LEMMA OsslDecrypts ==
    ASSUME NEW d, NEW k, NEW ct, NEW aad, Ok(Ossl!Decrypt(d, k, ct, aad))
    PROVE  SealedWith(d, aad, ct.how)
<1>1. CASE d.family = "aesGcm"
  <2> DEFINE fits   == Ossl!cipherNameFor(d) \o Ossl!KeyLength(k, d.bits)
                       \o Ossl!Require(ct.how.nonce = d.iv, "InvalidArgument")
             opens  == ct.key = k.id /\ ct.how = Ossl!GCMWith(d, aad)
             opened == Ossl!Require(opens, "InvalidArgument")
  <2>1. fits \in Errors
    BY NoErrors, CodesInUse, ErrorsJoined
       DEF Ossl!cipherNameFor, Ossl!aesCipherNameFor, Ossl!KeyLength, Ossl!Require
  <2>2. opened \in Errors /\ (Clean(opened) => opens)
    BY NoErrors, CodesInUse DEF Ossl!Require
  <2>3. Ossl!Decrypt(d, k, ct, aad) = Ossl!Answer(fits \o opened, ct.of)
    BY <1>1 DEF Ossl!Decrypt, Ossl!decryptAESGCM
  <2> HIDE DEF fits, opened
  <2>4. opens
    BY <2>1, <2>2, <2>3, ErrorsJoined, OsslAnswerOK
  <2> QED BY <2>4 DEF SealedWith, Ossl!GCMWith
<1>2. CASE d.family = "chacha20Poly1305"
  <2> DEFINE fits   == Ossl!cipherNameFor(d) \o Ossl!KeyLength(k, 256)
                       \o Ossl!Require(ct.how.nonce = 96, "InvalidArgument")
             opens  == ct.key = k.id /\ ct.how = Ossl!ChaChaWith(aad)
             opened == Ossl!Require(opens, "InvalidArgument")
  <2>1. fits \in Errors
    BY NoErrors, CodesInUse, ErrorsJoined
       DEF Ossl!cipherNameFor, Ossl!aesCipherNameFor, Ossl!KeyLength, Ossl!Require
  <2>2. opened \in Errors /\ (Clean(opened) => opens)
    BY NoErrors, CodesInUse DEF Ossl!Require
  <2>3. Ossl!Decrypt(d, k, ct, aad) = Ossl!Answer(fits \o opened, ct.of)
    BY <1>2 DEF Ossl!Decrypt, Ossl!decryptChaCha20Poly1305
  <2> HIDE DEF fits, opened
  <2>4. opens
    BY <2>1, <2>2, <2>3, ErrorsJoined, OsslAnswerOK
  <2> QED BY <2>4 DEF SealedWith, Ossl!ChaChaWith
<1> QED BY <1>1, <1>2 DEF SealedWith

-----------------------------------------------------------------------------
(***************************************************************************)
(* Which keys a provider uses.  KeyOf: the key is of the kind and size     *)
(* that the details are for.  Made: its size is one that GenerateKey gives.*)
(* ProperSize: an RSA modulus is neither empty nor as long as a curve.     *)
(***************************************************************************)
Curves == {"P256", "P384", "P521"}
AES    == {"aesGcm", "aesCbc", "aesCtr"}
RSA    == {"rsaPss", "rsaPkcs1v15"}

KeyOf(d, k) ==
    \/ d.family = "ecdsa" /\ d.curve \in Curves /\ k.type = "EC" /\ k.size = d.curve
    \/ d.family = "mlDsa" /\ d.set \in {44, 65, 87} /\ k.type = "ML-DSA" /\ k.size = d.set
    \/ d.family \in RSA /\ k.type = "RSA" /\ k.size = d.bits
    \/ d.family = "ed25519" /\ k.type = "Ed25519" /\ k.size = "Ed25519"
    \/ d.family \in AES /\ d.bits \in {128, 192, 256} /\ k.type = "symmetric" /\ k.size = d.bits
    \/ d.family = "chacha20Poly1305" /\ k.type = "symmetric" /\ k.size = 256

Made(k) == /\ k.type = "EC" => k.size \in Curves
           /\ k.type = "Ed25519" => k.size = "Ed25519"
           /\ k.type = "symmetric" => k.size \in {128, 192, 256}

ProperSize(d) == d.family \in RSA => d.bits \notin {0, 256, 384, 521}

\* What the software provider's checks of a key find.
LEMMA SoftKeyChecks ==
    ASSUME NEW k, NEW x
    PROVE  /\ /\ Soft!checkCurveMatches(k, x) \in Errors
              /\ Clean(Soft!checkCurveMatches(k, x)) => x \in Curves /\ k.type = "EC" /\ k.size = x
           /\ /\ Soft!checkRSAKeySize(k, x) \in Errors
              /\ Clean(Soft!checkRSAKeySize(k, x)) => k.type = "RSA" /\ k.size = x
           /\ /\ Soft!mldsaScheme(x) \in Errors
              /\ Clean(Soft!mldsaScheme(x)) => x \in {44, 65, 87}
           /\ /\ Soft!parseMLDSAPrivateKey(k, x) \in Errors
              /\ Clean(Soft!parseMLDSAPrivateKey(k, x)) => k.type = "ML-DSA" /\ k.size = x
           /\ /\ Soft!checkAESKeyMatchesDeclaredSize(k, x) \in Errors
              /\ Clean(Soft!checkAESKeyMatchesDeclaredSize(k, x)) =>
                    k.type = "symmetric" /\ k.size = x
<1>1. /\ Soft!checkCurveMatches(k, x) \in Errors
      /\ Clean(Soft!checkCurveMatches(k, x)) => x \in Curves /\ k.type = "EC" /\ k.size = x
  BY NoErrors, CodesInUse, ErrorsJoined DEF Soft!checkCurveMatches, Soft!curveForAlgorithm, Soft!Require, Curves
<1>2. /\ Soft!checkRSAKeySize(k, x) \in Errors
      /\ Clean(Soft!checkRSAKeySize(k, x)) => k.type = "RSA" /\ k.size = x
  BY NoErrors, CodesInUse, ErrorsJoined DEF Soft!checkRSAKeySize, Soft!Require
<1>4. /\ Soft!mldsaScheme(x) \in Errors
      /\ Clean(Soft!mldsaScheme(x)) => x \in {44, 65, 87}
  BY NoErrors, CodesInUse, ErrorsJoined DEF Soft!mldsaScheme, Soft!Require
<1>5. /\ Soft!parseMLDSAPrivateKey(k, x) \in Errors
      /\ Clean(Soft!parseMLDSAPrivateKey(k, x)) => k.type = "ML-DSA" /\ k.size = x
  BY NoErrors, CodesInUse, ErrorsJoined DEF Soft!parseMLDSAPrivateKey, Soft!Require
<1>6. /\ Soft!checkAESKeyMatchesDeclaredSize(k, x) \in Errors
      /\ Clean(Soft!checkAESKeyMatchesDeclaredSize(k, x)) => k.type = "symmetric" /\ k.size = x
  BY NoErrors, CodesInUse, ErrorsJoined DEF Soft!checkAESKeyMatchesDeclaredSize, Soft!Require
<1> QED BY <1>1, <1>2, <1>4, <1>5, <1>6

\* What the OpenSSL provider's checks find of a key that was generated.
LEMMA OsslKeyChecks ==
    ASSUME NEW k, NEW x, Made(k)
    PROVE  /\ /\ Ossl!checkCurveMatches(k, x) \in Errors
              /\ Clean(Ossl!checkCurveMatches(k, x)) => x \in Curves /\ k.type = "EC" /\ k.size = x
           /\ /\ Ossl!checkRSAKeySize(k, x) \in Errors
              /\ Clean(Ossl!checkRSAKeySize(k, x)) => (x \notin {0, 256, 384, 521} => k.type = "RSA" /\ k.size = x)
           /\ /\ Ossl!mlDSAKeyAlgorithmFor(x) \in Errors
              /\ Clean(Ossl!mlDSAKeyAlgorithmFor(x)) => x \in {44, 65, 87}
           /\ /\ Ossl!aesCipherNameFor(x) \in Errors
              /\ Clean(Ossl!aesCipherNameFor(x)) => x \in {128, 192, 256}
           /\ /\ Ossl!KeyLength(k, x) \in Errors
              /\ Clean(Ossl!KeyLength(k, x)) => k.type = "symmetric" /\ k.size = x
<1>1. /\ Ossl!checkCurveMatches(k, x) \in Errors
      /\ Clean(Ossl!checkCurveMatches(k, x)) => x \in Curves /\ k.type = "EC" /\ k.size = x
  BY NoErrors, CodesInUse, ErrorsJoined DEF Ossl!checkCurveMatches, Ossl!Bits, Ossl!curveBits, Ossl!Require, Curves, Made
<1>2. /\ Ossl!checkRSAKeySize(k, x) \in Errors
      /\ Clean(Ossl!checkRSAKeySize(k, x)) => (x \notin {0, 256, 384, 521} => k.type = "RSA" /\ k.size = x)
  BY NoErrors, CodesInUse, ErrorsJoined DEF Ossl!checkRSAKeySize, Ossl!Bits, Ossl!curveBits, Ossl!Require, Curves, Made
<1>4. /\ Ossl!mlDSAKeyAlgorithmFor(x) \in Errors
      /\ Clean(Ossl!mlDSAKeyAlgorithmFor(x)) => x \in {44, 65, 87}
  BY NoErrors, CodesInUse, ErrorsJoined DEF Ossl!mlDSAKeyAlgorithmFor, Ossl!Require
<1>5. /\ Ossl!aesCipherNameFor(x) \in Errors
      /\ Clean(Ossl!aesCipherNameFor(x)) => x \in {128, 192, 256}
  BY NoErrors, CodesInUse, ErrorsJoined DEF Ossl!aesCipherNameFor, Ossl!Require
<1>6. /\ Ossl!KeyLength(k, x) \in Errors
      /\ Clean(Ossl!KeyLength(k, x)) => k.type = "symmetric" /\ k.size = x
  BY NoErrors, CodesInUse, ErrorsJoined DEF Ossl!KeyLength, Ossl!Require
<1> QED BY <1>1, <1>2, <1>4, <1>5, <1>6

LEMMA SoftSignsWith ==
    ASSUME NEW d, NEW k, NEW m, NEW context, Made(k),
           Ok(Soft!Sign(d, k, m, context))
    PROVE  KeyOf(d, k)
<1>1. CASE d.family = "ecdsa"
  <2>1. Clean(Soft!checkCurveMatches(k, d.curve))
    BY <1>1, NoErrors, CodesInUse, ErrorsJoined, SoftAnswerOK, SoftKeyChecks
       DEF Soft!Sign, Soft!signECDSA, Soft!parseECDSAPrivateKey, Soft!ecdsaDigest,
           Soft!SignatureFormat, Soft!Require
  <2> QED BY <1>1, <2>1, SoftKeyChecks DEF KeyOf
<1>2. CASE d.family = "rsaPss"
  <2>1. Clean(Soft!checkRSAKeySize(k, d.bits))
    BY <1>2, NoErrors, CodesInUse, ErrorsJoined, SoftAnswerOK, SoftKeyChecks
       DEF Soft!Sign, Soft!signRSAPSSCore, Soft!parseRSAPrivateKey, Soft!checkRSAPSSMGF,
           Soft!rsaHash, Soft!rsaPSSSaltLength, Soft!RightLength, Soft!Require
  <2> QED BY <1>2, <2>1, SoftKeyChecks DEF KeyOf, RSA
<1>3. CASE d.family = "rsaPkcs1v15"
  <2>1. Clean(Soft!checkRSAKeySize(k, d.bits))
    BY <1>3, NoErrors, CodesInUse, ErrorsJoined, SoftAnswerOK, SoftKeyChecks
       DEF Soft!Sign, Soft!signRSAPKCS1v15Core, Soft!parseRSAPrivateKey, Soft!rsaHash,
           Soft!RightLength, Soft!Require
  <2> QED BY <1>3, <2>1, SoftKeyChecks DEF KeyOf, RSA
<1>4. CASE d.family = "ed25519"
  <2>1. k.type = "Ed25519"
    BY <1>4, NoErrors, CodesInUse, ErrorsJoined, SoftAnswerOK
       DEF Soft!Sign, Soft!signEd25519, Soft!parseEd25519PrivateKey, Soft!checkEd25519PureVariant, Soft!Require
  <2> QED BY <1>4, <2>1, SoftKeyChecks DEF KeyOf, Made
<1>5. CASE d.family = "mlDsa"
  <2>1. /\ Clean(Soft!mldsaScheme(d.set))
        /\ Clean(Soft!parseMLDSAPrivateKey(k, d.set))
    BY <1>5, NoErrors, CodesInUse, ErrorsJoined, SoftAnswerOK, SoftKeyChecks
       DEF Soft!Sign, Soft!signMLDSA, Soft!checkMLDSAContextLength, Soft!Require
  <2> QED BY <1>5, <2>1, SoftKeyChecks DEF KeyOf
<1> QED BY <1>1, <1>2, <1>3, <1>4, <1>5, SoftRefuses, CodesInUse DEF Soft!Sign

LEMMA SoftSignsDigestWith ==
    ASSUME NEW d, NEW k, NEW digest, NEW hash, Made(k),
           Ok(Soft!SignDigest(d, k, digest, hash))
    PROVE  KeyOf(d, k)
<1> DEFINE v == Soft!SignDigest(d, k, digest, hash)
<1>d. \/ v = Soft!Refuse("InvalidArgument") \/ v = Soft!Refuse("NotImplemented")
      \/ d.family = "ecdsa" /\ v = Soft!signECDSADigest(d, k, digest)
      \/ d.family = "rsaPss" /\ v = Soft!signRSAPSSCore(d, k, digest, hash)
      \/ d.family = "rsaPkcs1v15" /\ v = Soft!signRSAPKCS1v15Core(d, k, digest, hash)
      \/ d.family = "ed25519" /\ v = Soft!signEd25519PHDigest(d, k, digest, hash)
  BY Zenon DEF Soft!SignDigest
<1>e. Ok(v)  OBVIOUS
<1> HIDE DEF v
<1>1. CASE d.family = "ecdsa" /\ v = Soft!signECDSADigest(d, k, digest)
  <2>1. Clean(Soft!checkCurveMatches(k, d.curve))
    BY <1>e, <1>1, NoErrors, CodesInUse, ErrorsJoined, SoftAnswerOK, SoftKeyChecks
       DEF Soft!signECDSADigest, Soft!parseECDSAPrivateKey, Soft!SignatureFormat,
           Soft!Require
  <2> QED BY <1>1, <2>1, SoftKeyChecks DEF KeyOf
<1>2. CASE d.family = "rsaPss" /\ v = Soft!signRSAPSSCore(d, k, digest, hash)
  <2>1. Clean(Soft!checkRSAKeySize(k, d.bits))
    BY <1>e, <1>2, NoErrors, CodesInUse, ErrorsJoined, SoftAnswerOK, SoftKeyChecks
       DEF Soft!signRSAPSSCore, Soft!parseRSAPrivateKey, Soft!checkRSAPSSMGF,
           Soft!rsaHash, Soft!rsaPSSSaltLength, Soft!RightLength, Soft!Require
  <2> QED BY <1>2, <2>1, SoftKeyChecks DEF KeyOf, RSA
<1>3. CASE d.family = "rsaPkcs1v15" /\ v = Soft!signRSAPKCS1v15Core(d, k, digest, hash)
  <2>1. Clean(Soft!checkRSAKeySize(k, d.bits))
    BY <1>e, <1>3, NoErrors, CodesInUse, ErrorsJoined, SoftAnswerOK, SoftKeyChecks
       DEF Soft!signRSAPKCS1v15Core, Soft!parseRSAPrivateKey, Soft!rsaHash,
           Soft!RightLength, Soft!Require
  <2> QED BY <1>3, <2>1, SoftKeyChecks DEF KeyOf, RSA
<1>4. CASE d.family = "ed25519" /\ v = Soft!signEd25519PHDigest(d, k, digest, hash)
  <2>1. k.type = "Ed25519"
    BY <1>e, <1>4, NoErrors, CodesInUse, ErrorsJoined, SoftAnswerOK
       DEF Soft!signEd25519PHDigest, Soft!parseEd25519PrivateKey, Soft!PrehashVariant, Soft!checkEd25519PHHash,
           Soft!RightLength, Soft!Require
  <2> QED BY <1>4, <2>1, SoftKeyChecks DEF KeyOf, Made
<1> QED BY <1>d, <1>e, <1>1, <1>2, <1>3, <1>4, SoftRefuses, CodesInUse

LEMMA SoftEncryptsWith ==
    ASSUME NEW d, NEW k, NEW aad, Made(k),
           Ok(Soft!Encrypt(d, k, aad))
    PROVE  KeyOf(d, k)
<1>1. CASE d.family = "aesGcm"
  <2>1. Clean(Soft!checkAESKeyMatchesDeclaredSize(k, d.bits))
    BY <1>1, NoErrors, CodesInUse, ErrorsJoined, SoftAnswerOK, SoftKeyChecks
       DEF Soft!Encrypt, Soft!encryptAESGCM, Soft!newAESGCM, Soft!Require
  <2> QED BY <1>1, <2>1, SoftKeyChecks DEF KeyOf, AES, Made
<1>2. CASE d.family = "aesCbc"
  <2>1. Clean(Soft!checkAESKeyMatchesDeclaredSize(k, d.bits))
    BY <1>2, NoErrors, CodesInUse, ErrorsJoined, SoftAnswerOK, SoftKeyChecks
       DEF Soft!Encrypt, Soft!encryptAESCBC, Soft!checkAESCBCParamsValid, Soft!Require
  <2> QED BY <1>2, <2>1, SoftKeyChecks DEF KeyOf, AES, Made
<1>3. CASE d.family = "aesCtr"
  <2>1. Clean(Soft!checkAESKeyMatchesDeclaredSize(k, d.bits))
    BY <1>3, NoErrors, CodesInUse, ErrorsJoined, SoftAnswerOK, SoftKeyChecks
       DEF Soft!Encrypt, Soft!encryptAESCTR, Soft!newAESCTRBlock, Soft!Require
  <2> QED BY <1>3, <2>1, SoftKeyChecks DEF KeyOf, AES, Made
<1>4. CASE d.family = "chacha20Poly1305"
  <2>1. Clean(Soft!newChaCha20Poly1305(d, k))
    BY <1>4, NoErrors, CodesInUse, ErrorsJoined, SoftAnswerOK, SoftKeyChecks, SoftChaChaErrors
       DEF Soft!Encrypt, Soft!encryptChaCha20Poly1305, Soft!Require
  <2> QED BY <1>4, <2>1, SoftKeyChecks, SoftChaChaErrors DEF KeyOf
<1> QED BY <1>1, <1>2, <1>3, <1>4, SoftRefuses, CodesInUse DEF Soft!Encrypt

LEMMA OsslSignsWith ==
    ASSUME NEW d, NEW k, NEW m, NEW context, Made(k), ProperSize(d),
           Ok(Ossl!Sign(d, k, m, context))
    PROVE  KeyOf(d, k)
<1>1. CASE d.family = "ecdsa"
  <2>1. Clean(Ossl!checkCurveMatches(k, d.curve))
    BY <1>1, NoErrors, CodesInUse, ErrorsJoined, OsslAnswerOK, OsslKeyChecks
       DEF Ossl!Sign, Ossl!signECDSA, Ossl!parsePrivateKey, Ossl!ecdsaDigestName,
           Ossl!digestNameFor, Ossl!ecdsaSignatureFormat, Ossl!Require
  <2> QED BY <1>1, <2>1, OsslKeyChecks DEF KeyOf
<1>2. CASE d.family = "rsaPss"
  <2>1. Clean(Ossl!checkRSAKeySize(k, d.bits))
    BY <1>2, NoErrors, CodesInUse, ErrorsJoined, OsslAnswerOK, OsslKeyChecks
       DEF Ossl!Sign, Ossl!signRSAPSS, Ossl!signRSAPSSDigest, Ossl!PSSChecks,
           Ossl!parsePrivateKey, Ossl!checkRSAPSSMGF, Ossl!rsaHashName,
           Ossl!rsaPSSSaltLength, Ossl!RightLength, Ossl!Require
  <2> QED BY <1>2, <2>1, OsslKeyChecks DEF KeyOf, RSA, ProperSize
<1>3. CASE d.family = "rsaPkcs1v15"
  <2>1. Clean(Ossl!checkRSAKeySize(k, d.bits))
    BY <1>3, NoErrors, CodesInUse, ErrorsJoined, OsslAnswerOK, OsslKeyChecks
       DEF Ossl!Sign, Ossl!signRSAPKCS1v15, Ossl!signRSAPKCS1v15Digest, Ossl!PKCS1Checks,
           Ossl!parsePrivateKey, Ossl!rsaHashName, Ossl!RightLength, Ossl!Require
  <2> QED BY <1>3, <2>1, OsslKeyChecks DEF KeyOf, RSA, ProperSize
<1>4. CASE d.family = "ed25519"
  <2>1. k.type = "Ed25519"
    BY <1>4, NoErrors, CodesInUse, ErrorsJoined, OsslAnswerOK
       DEF Ossl!Sign, Ossl!signEd25519, Ossl!IsEd25519, Ossl!checkEd25519VariantSupported,
           Ossl!parsePrivateKey, Ossl!Require
  <2> QED BY <1>4, <2>1, OsslKeyChecks DEF KeyOf, Made
<1>5. CASE d.family = "mlDsa"
  <2> DEFINE fits == k.type = "ML-DSA" /\ k.size = d.set
  <2>2. /\ Ossl!Require(fits, "InvalidArgument") \in Errors
        /\ Clean(Ossl!Require(fits, "InvalidArgument")) => fits
    BY NoErrors, CodesInUse DEF Ossl!Require
  <2>3. Ossl!checkMLDSAContextLength(context) \in Errors /\ Ossl!parsePrivateKey(k) \in Errors
    BY NoErrors, CodesInUse DEF Ossl!checkMLDSAContextLength, Ossl!parsePrivateKey, Ossl!Require
  <2>1. /\ Clean(Ossl!mlDSAKeyAlgorithmFor(d.set))
        /\ Clean(Ossl!Require(fits, "InvalidArgument"))
    BY <1>5, <2>2, <2>3, ErrorsJoined, OsslAnswerOK, OsslKeyChecks DEF Ossl!Sign, Ossl!signMLDSA
  <2> QED BY <1>5, <2>1, <2>2, OsslKeyChecks DEF KeyOf
<1> QED BY <1>1, <1>2, <1>3, <1>4, <1>5, OsslRefuses, CodesInUse DEF Ossl!Sign

LEMMA OsslSignsDigestWith ==
    ASSUME NEW d, NEW k, NEW digest, NEW hash, Made(k), ProperSize(d),
           Ok(Ossl!SignDigest(d, k, digest, hash))
    PROVE  KeyOf(d, k)
<1> DEFINE v == Ossl!SignDigest(d, k, digest, hash)
<1>d. \/ v = Ossl!Refuse("InvalidArgument") \/ v = Ossl!Refuse("NotImplemented")
      \/ d.family = "ecdsa" /\ v = Ossl!signECDSADigest(d, k, digest, hash)
      \/ d.family = "rsaPss" /\ v = Ossl!signRSAPSSDigest(d, k, digest, hash)
      \/ d.family = "rsaPkcs1v15" /\ v = Ossl!signRSAPKCS1v15Digest(d, k, digest, hash)
      \/ d.family = "ed25519" /\ v = Ossl!signEd25519PHDigest(d, k, digest, hash)
  BY Zenon DEF Ossl!SignDigest
<1>e. Ok(v)  OBVIOUS
<1> HIDE DEF v
<1>1. CASE d.family = "ecdsa" /\ v = Ossl!signECDSADigest(d, k, digest, hash)
  <2>1. Clean(Ossl!checkCurveMatches(k, d.curve))
    BY <1>e, <1>1, NoErrors, CodesInUse, ErrorsJoined, OsslAnswerOK, OsslKeyChecks
       DEF Ossl!signECDSADigest, Ossl!parsePrivateKey, Ossl!ecdsaDigestSignName,
           Ossl!digestNameFor, Ossl!ecdsaSignatureFormat, Ossl!Require
  <2> QED BY <1>1, <2>1, OsslKeyChecks DEF KeyOf
<1>2. CASE d.family = "rsaPss" /\ v = Ossl!signRSAPSSDigest(d, k, digest, hash)
  <2>1. Clean(Ossl!checkRSAKeySize(k, d.bits))
    BY <1>e, <1>2, NoErrors, CodesInUse, ErrorsJoined, OsslAnswerOK, OsslKeyChecks
       DEF Ossl!signRSAPSSDigest, Ossl!PSSChecks, Ossl!parsePrivateKey,
           Ossl!checkRSAPSSMGF, Ossl!rsaHashName, Ossl!rsaPSSSaltLength, Ossl!RightLength,
           Ossl!Require
  <2> QED BY <1>2, <2>1, OsslKeyChecks DEF KeyOf, RSA, ProperSize
<1>3. CASE d.family = "rsaPkcs1v15" /\ v = Ossl!signRSAPKCS1v15Digest(d, k, digest, hash)
  <2>1. Clean(Ossl!checkRSAKeySize(k, d.bits))
    BY <1>e, <1>3, NoErrors, CodesInUse, ErrorsJoined, OsslAnswerOK, OsslKeyChecks
       DEF Ossl!signRSAPKCS1v15Digest, Ossl!PKCS1Checks, Ossl!parsePrivateKey,
           Ossl!rsaHashName, Ossl!RightLength, Ossl!Require
  <2> QED BY <1>3, <2>1, OsslKeyChecks DEF KeyOf, RSA, ProperSize
<1>4. CASE d.family = "ed25519" /\ v = Ossl!signEd25519PHDigest(d, k, digest, hash)
  <2>1. k.type = "Ed25519"
    BY <1>e, <1>4, NoErrors, CodesInUse, ErrorsJoined, OsslAnswerOK
       DEF Ossl!signEd25519PHDigest, Ossl!IsEd25519, Ossl!PrehashVariant, Ossl!checkEd25519PHHash,
           Ossl!parsePrivateKey, Ossl!RightLength, Ossl!Require
  <2> QED BY <1>4, <2>1, OsslKeyChecks DEF KeyOf, Made
<1> QED BY <1>d, <1>e, <1>1, <1>2, <1>3, <1>4, OsslRefuses, CodesInUse

LEMMA OsslEncryptsWith ==
    ASSUME NEW d, NEW k, NEW aad, Made(k), ProperSize(d),
           Ok(Ossl!Encrypt(d, k, aad))
    PROVE  KeyOf(d, k)
<1>1. CASE d.family = "aesGcm"
  <2>1. /\ Clean(Ossl!aesCipherNameFor(d.bits))
        /\ Clean(Ossl!KeyLength(k, d.bits))
    BY <1>1, NoErrors, CodesInUse, ErrorsJoined, OsslAnswerOK, OsslKeyChecks
       DEF Ossl!Encrypt, Ossl!encryptAESGCM, Ossl!cipherNameFor, Ossl!Require
  <2> QED BY <1>1, <2>1, OsslKeyChecks DEF KeyOf, AES
<1>2. CASE d.family = "aesCbc"
  <2>1. /\ Clean(Ossl!aesCipherNameFor(d.bits))
        /\ Clean(Ossl!KeyLength(k, d.bits))
    BY <1>2, NoErrors, CodesInUse, ErrorsJoined, OsslAnswerOK, OsslKeyChecks
       DEF Ossl!Encrypt, Ossl!encryptAESCBC, Ossl!cipherNameFor,
           Ossl!checkAESCBCParamsValid, Ossl!Require
  <2> QED BY <1>2, <2>1, OsslKeyChecks DEF KeyOf, AES
<1>3. CASE d.family = "aesCtr"
  <2>1. /\ Clean(Ossl!aesCipherNameFor(d.bits))
        /\ Clean(Ossl!KeyLength(k, d.bits))
    BY <1>3, NoErrors, CodesInUse, ErrorsJoined, OsslAnswerOK, OsslKeyChecks
       DEF Ossl!Encrypt, Ossl!encryptAESCTR, Ossl!cipherNameFor,
           Ossl!checkAESCTRParamsValid, Ossl!Require
  <2> QED BY <1>3, <2>1, OsslKeyChecks DEF KeyOf, AES
<1>4. CASE d.family = "chacha20Poly1305"
  <2>1. Clean(Ossl!KeyLength(k, 256))
    BY <1>4, NoErrors, CodesInUse, ErrorsJoined, OsslAnswerOK, OsslKeyChecks
       DEF Ossl!Encrypt, Ossl!encryptChaCha20Poly1305, Ossl!cipherNameFor,
           Ossl!aesCipherNameFor, Ossl!Require
  <2> QED BY <1>4, <2>1, OsslKeyChecks DEF KeyOf
<1> QED BY <1>1, <1>2, <1>3, <1>4, OsslRefuses, CodesInUse DEF Ossl!Encrypt

LEMMA SoftGenerates ==
    ASSUME NEW d, NEW k
    PROVE  /\ Ok(Soft!GenerateKey(d)) => Made(Soft!GenerateKey(d).how)
           /\ KeyOf(d, k) => /\ Soft!GenerateKey(d).how.type = k.type
                            /\ Soft!GenerateKey(d).how.size = k.size
<1> DEFINE made == Soft!GenerateKey(d)
<1> SUFFICES /\ Ok(made) => Made(made.how)
             /\ KeyOf(d, k) => made.how.type = k.type /\ made.how.size = k.size
  OBVIOUS
<1>1. ASSUME NEW type, NEW size, NEW public, made = Soft!generatedKey(d, type, size, public),
             d.family \in {"ecdsa", "mlDsa", "ed25519", "chacha20Poly1305"} \cup RSA \cup AES
      PROVE  made.how.type = type /\ made.how.size = size
  <2> HIDE DEF made
  <2> QED BY <1>1, NoErrors, SoftAnswerOK
          DEF Soft!generatedKey, Soft!privateKeyEncoding, Soft!Symmetric, Soft!Require,
              Soft!Unspecified, RSA, AES
<1>2. CASE d.family = "ecdsa"
  <2>1. IF d.curve \in Curves THEN made = Soft!generatedKey(d, "EC", d.curve, "SPKI")
        ELSE made = Soft!Refuse("NotImplemented")
    BY <1>2 DEF Soft!GenerateKey, Soft!generateECDSAKey, Soft!Symmetric, Curves
  <2> HIDE DEF made
  <2>2. CASE d.curve \in Curves
    <3>1. made.how.type = "EC" /\ made.how.size = d.curve  BY <1>1, <1>2, <2>1, <2>2
    <3> QED BY <1>2, <2>2, <3>1 DEF KeyOf, Made, Curves, AES, RSA
  <2>3. CASE ~ (d.curve \in Curves)
    BY <1>2, <2>1, <2>3, SoftRefuses, CodesInUse DEF KeyOf, Curves, AES, RSA
  <2> QED BY <2>2, <2>3
<1>3. CASE d.family = "mlDsa"
  <2>1. IF d.set \in {44, 65, 87} THEN made = Soft!generatedKey(d, "ML-DSA", d.set, "RAW")
        ELSE made = Soft!Refuse("NotImplemented")
    BY <1>3 DEF Soft!GenerateKey, Soft!generateMLDSAKey, Soft!Symmetric
  <2> HIDE DEF made
  <2>2. CASE d.set \in {44, 65, 87}
    <3>1. made.how.type = "ML-DSA" /\ made.how.size = d.set  BY <1>1, <1>3, <2>1, <2>2
    <3> QED BY <1>3, <2>2, <3>1 DEF KeyOf, Made, Curves, AES, RSA
  <2>3. CASE ~ (d.set \in {44, 65, 87})
    BY <1>3, <2>1, <2>3, SoftRefuses, CodesInUse DEF KeyOf, Curves, AES, RSA
  <2> QED BY <2>2, <2>3
<1>4. CASE d.family \in RSA
  <2>1. made = Soft!generatedKey(d, "RSA", d.bits, "SPKI")
    BY <1>4 DEF Soft!GenerateKey, Soft!generateRSAKey, Soft!Symmetric, RSA
  <2> HIDE DEF made
  <2>2. made.how.type = "RSA" /\ made.how.size = d.bits  BY <1>1, <1>4, <2>1
  <2> QED BY <1>4, <2>2 DEF KeyOf, Made, Curves, AES, RSA
<1>5. CASE d.family = "ed25519"
  <2>1. made = Soft!generatedKey(d, "Ed25519", "Ed25519", "SPKI")
    BY <1>5 DEF Soft!GenerateKey, Soft!generateEd25519Key, Soft!Symmetric
  <2> HIDE DEF made
  <2>2. made.how.type = "Ed25519" /\ made.how.size = "Ed25519"  BY <1>1, <1>5, <2>1
  <2> QED BY <1>5, <2>2 DEF KeyOf, Made, Curves, AES, RSA
<1>6. CASE d.family \in AES
  <2>1. IF d.bits \in {128, 192, 256} THEN made = Soft!generatedKey(d, "symmetric", d.bits, "none")
        ELSE made = Soft!Refuse("NotImplemented")
    BY <1>6 DEF Soft!GenerateKey, Soft!generateSymmetricKey, Soft!generateAESKey, Soft!Symmetric, AES
  <2> HIDE DEF made
  <2>2. CASE d.bits \in {128, 192, 256}
    <3>1. made.how.type = "symmetric" /\ made.how.size = d.bits  BY <1>1, <1>6, <2>1, <2>2
    <3> QED BY <1>6, <2>2, <3>1 DEF KeyOf, Made, Curves, AES, RSA
  <2>3. CASE ~ (d.bits \in {128, 192, 256})
    BY <1>6, <2>1, <2>3, SoftRefuses, CodesInUse DEF KeyOf, Curves, AES, RSA
  <2> QED BY <2>2, <2>3
<1>7. CASE d.family = "chacha20Poly1305"
  <2>1. made = Soft!generatedKey(d, "symmetric", 256, "none")
    BY <1>7 DEF Soft!GenerateKey, Soft!generateSymmetricKey, Soft!generateChaCha20Key, Soft!Symmetric
  <2> HIDE DEF made
  <2>2. made.how.type = "symmetric" /\ made.how.size = 256  BY <1>1, <1>7, <2>1
  <2> QED BY <1>7, <2>2 DEF KeyOf, Made, Curves, AES, RSA
<1> QED BY <1>2, <1>3, <1>4, <1>5, <1>6, <1>7, SoftRefuses, CodesInUse
       DEF Soft!GenerateKey, Soft!Symmetric, KeyOf, RSA, AES

LEMMA OsslGenerates ==
    ASSUME NEW d, NEW k
    PROVE  /\ Ok(Ossl!GenerateKey(d)) => Made(Ossl!GenerateKey(d).how)
           /\ KeyOf(d, k) => /\ Ossl!GenerateKey(d).how.type = k.type
                            /\ Ossl!GenerateKey(d).how.size = k.size
<1> DEFINE made == Ossl!GenerateKey(d)
<1> SUFFICES /\ Ok(made) => Made(made.how)
             /\ KeyOf(d, k) => made.how.type = k.type /\ made.how.size = k.size
  OBVIOUS
<1>1. ASSUME NEW type, NEW size, NEW public, made = Ossl!generatedKey(d, type, size, public),
             d.family \in {"ecdsa", "mlDsa", "ed25519", "chacha20Poly1305"} \cup RSA \cup AES
      PROVE  made.how.type = type /\ made.how.size = size
  <2> HIDE DEF made
  <2> QED BY <1>1, NoErrors, OsslAnswerOK
          DEF Ossl!generatedKey, Ossl!privateKeyEncoding, Ossl!Symmetric, Ossl!Require,
              Ossl!Unspecified, RSA, AES
<1>2. CASE d.family = "ecdsa"
  <2>1. IF d.curve \in Curves THEN made = Ossl!generatedKey(d, "EC", d.curve, "SPKI")
        ELSE made = Ossl!Refuse("NotImplemented")
    BY <1>2 DEF Ossl!GenerateKey, Ossl!generateECDSAKey, Ossl!curveBits, Ossl!Symmetric, Curves
  <2> HIDE DEF made
  <2>2. CASE d.curve \in Curves
    <3>1. made.how.type = "EC" /\ made.how.size = d.curve  BY <1>1, <1>2, <2>1, <2>2
    <3> QED BY <1>2, <2>2, <3>1 DEF KeyOf, Made, Curves, AES, RSA
  <2>3. CASE ~ (d.curve \in Curves)
    BY <1>2, <2>1, <2>3, OsslRefuses, CodesInUse DEF KeyOf, Curves, AES, RSA
  <2> QED BY <2>2, <2>3
<1>3. CASE d.family = "mlDsa"
  <2>1. IF d.set \in {44, 65, 87} THEN made = Ossl!generatedKey(d, "ML-DSA", d.set, "RAW")
        ELSE made = Ossl!Refuse("NotImplemented")
    BY <1>3 DEF Ossl!GenerateKey, Ossl!generateMLDSAKey, Ossl!Symmetric
  <2> HIDE DEF made
  <2>2. CASE d.set \in {44, 65, 87}
    <3>1. made.how.type = "ML-DSA" /\ made.how.size = d.set  BY <1>1, <1>3, <2>1, <2>2
    <3> QED BY <1>3, <2>2, <3>1 DEF KeyOf, Made, Curves, AES, RSA
  <2>3. CASE ~ (d.set \in {44, 65, 87})
    BY <1>3, <2>1, <2>3, OsslRefuses, CodesInUse DEF KeyOf, Curves, AES, RSA
  <2> QED BY <2>2, <2>3
<1>4. CASE d.family \in RSA
  <2>1. made = Ossl!generatedKey(d, "RSA", d.bits, "SPKI")
    BY <1>4 DEF Ossl!GenerateKey, Ossl!generateRSAKey, Ossl!Symmetric, RSA
  <2> HIDE DEF made
  <2>2. made.how.type = "RSA" /\ made.how.size = d.bits  BY <1>1, <1>4, <2>1
  <2> QED BY <1>4, <2>2 DEF KeyOf, Made, Curves, AES, RSA
<1>5. CASE d.family = "ed25519"
  <2>1. made = Ossl!generatedKey(d, "Ed25519", "Ed25519", "SPKI")
    BY <1>5 DEF Ossl!GenerateKey, Ossl!generateEd25519Key, Ossl!Symmetric
  <2> HIDE DEF made
  <2>2. made.how.type = "Ed25519" /\ made.how.size = "Ed25519"  BY <1>1, <1>5, <2>1
  <2> QED BY <1>5, <2>2 DEF KeyOf, Made, Curves, AES, RSA
<1>6. CASE d.family \in AES
  <2>1. IF d.bits \in {128, 192, 256} THEN made = Ossl!generatedKey(d, "symmetric", d.bits, "none")
        ELSE made = Ossl!Refuse("NotImplemented")
    BY <1>6 DEF Ossl!GenerateKey, Ossl!generateSymmetricKey, Ossl!generateAESKey, Ossl!Symmetric, AES
  <2> HIDE DEF made
  <2>2. CASE d.bits \in {128, 192, 256}
    <3>1. made.how.type = "symmetric" /\ made.how.size = d.bits  BY <1>1, <1>6, <2>1, <2>2
    <3> QED BY <1>6, <2>2, <3>1 DEF KeyOf, Made, Curves, AES, RSA
  <2>3. CASE ~ (d.bits \in {128, 192, 256})
    BY <1>6, <2>1, <2>3, OsslRefuses, CodesInUse DEF KeyOf, Curves, AES, RSA
  <2> QED BY <2>2, <2>3
<1>7. CASE d.family = "chacha20Poly1305"
  <2>1. made = Ossl!generatedKey(d, "symmetric", 256, "none")
    BY <1>7 DEF Ossl!GenerateKey, Ossl!generateSymmetricKey, Ossl!generateChaCha20Key, Ossl!Symmetric
  <2> HIDE DEF made
  <2>2. made.how.type = "symmetric" /\ made.how.size = 256  BY <1>1, <1>7, <2>1
  <2> QED BY <1>7, <2>2 DEF KeyOf, Made, Curves, AES, RSA
<1> QED BY <1>2, <1>3, <1>4, <1>5, <1>6, <1>7, OsslRefuses, CodesInUse
       DEF Ossl!GenerateKey, Ossl!Symmetric, KeyOf, RSA, AES

-----------------------------------------------------------------------------
(***************************************************************************)
(* The dispatch to the two kinds of provider.                              *)
(***************************************************************************)
\* What an artefact that was made with the request r covers.
Covers(d, r, how) ==
    /\ r.op = "SIGN" => SignedOver(d, r.message, r.context, how)
    /\ r.op = "DIGEST_SIGN" => how.digest = r.digest
    /\ r.op = "ENCRYPT" => SealedWith(d, r.aad, how)

LEMMA ProduceCovers ==
    ASSUME NEW b, NEW d, NEW k, NEW r, r.op \in Producing, Ok(Produce(b, d, k, r))
    PROVE  Covers(d, r, Produce(b, d, k, r).how)
<1>1. CASE r.op = "SIGN"
  BY <1>1, SoftSigns, OsslSigns DEF Produce, Covers
<1>2. CASE r.op = "DIGEST_SIGN"
  BY <1>2, SoftSignsDigest, OsslSignsDigest DEF Produce, Covers
<1>3. CASE r.op = "ENCRYPT"
  BY <1>3, SoftEncrypts, OsslEncrypts DEF Produce, Covers
<1> QED BY <1>1, <1>2, <1>3 DEF Producing

LEMMA GoodCovers ==
    ASSUME NEW b, NEW d, NEW k, NEW r, NEW a, r.op \in Producing, Good(b, d, k, r, a)
    PROVE  Covers(d, r, a.how)
<1>1. CASE r.op = "SIGN"
  BY <1>1, SoftVerifies, OsslVerifies DEF Good, Check, Covers
<1>2. CASE r.op = "DIGEST_SIGN"
  BY <1>2, SoftVerifiesDigest, OsslVerifiesDigest DEF Good, Check, Covers
<1>3. CASE r.op = "ENCRYPT"
  BY <1>3, SoftDecrypts, OsslDecrypts DEF Good, Check, Covers
<1> QED BY <1>1, <1>2, <1>3 DEF Producing

\* One artefact covers one message only.
LEMMA CoversOne ==
    ASSUME NEW d, NEW how, NEW r, NEW q, r.op \in Producing, q.op = r.op,
           Covers(d, r, how), Covers(d, q, how)
    PROVE  Authenticated(r, d) = Authenticated(q, d)
<1>1. CASE r.op = "SIGN"
  <2>1. r.message = q.message /\ (d.family = "mlDsa" => r.context = q.context)
    BY <1>1 DEF Covers, SignedOver, Hashed
  <2> QED BY <1>1, <2>1 DEF Authenticated
<1>2. CASE r.op = "DIGEST_SIGN"
  BY <1>2 DEF Covers, Authenticated
<1>3. CASE r.op = "ENCRYPT"
  BY <1>3 DEF Covers, SealedWith, Authenticated
<1> QED BY <1>1, <1>2, <1>3 DEF Producing

LEMMA ProducesWith ==
    ASSUME NEW b, NEW d, NEW k, NEW r, r.op \in Producing, Made(k), ProperSize(d),
           Ok(Produce(b, d, k, r))
    PROVE  KeyOf(d, k)
<1>1. CASE r.op = "SIGN"
  BY <1>1, SoftSignsWith, OsslSignsWith DEF Produce
<1>2. CASE r.op = "DIGEST_SIGN"
  BY <1>2, SoftSignsDigestWith, OsslSignsDigestWith DEF Produce
<1>3. CASE r.op = "ENCRYPT"
  BY <1>3, SoftEncryptsWith, OsslEncryptsWith DEF Produce
<1> QED BY <1>1, <1>2, <1>3 DEF Producing

LEMMA GeneratesMade ==
    ASSUME NEW b, NEW d, Ok(GenerateKey(b, d))
    PROVE  Made(GenerateKey(b, d).how)
  BY SoftGenerates, OsslGenerates DEF GenerateKey

LEMMA GeneratesAs ==
    ASSUME NEW b, NEW d, NEW k, KeyOf(d, k)
    PROVE  GenerateKey(b, d).how.type = k.type /\ GenerateKey(b, d).how.size = k.size
  BY SoftGenerates, OsslGenerates DEF GenerateKey

-----------------------------------------------------------------------------
(***************************************************************************)
(* Ranking.  At most three backends are ever registered; the first ranked  *)
(* one is registered and eligible.                                         *)
(***************************************************************************)
LEMMA RankedFirst ==
    ASSUME NEW bs, NEW template, NEW required, DOMAIN bs \subseteq 1 .. 3,
           Ranked(bs, template, required) # <<>>
    PROVE  /\ Ranked(bs, template, required)[1] \in ToSet(bs)
           /\ Eligible(Ranked(bs, template, required)[1], template, required)
<1> DEFINE eligible == {i \in DOMAIN bs : Eligible(bs[i], template, required)}
           preferred(i) == Prefers(bs[i], required)
           before(i, j) == IF preferred(i) <=> preferred(j) THEN i < j ELSE preferred(i)
           rank(i) == Cardinality({j \in eligible : before(j, i)}) + 1
           first == CHOOSE i \in eligible : rank(i) = 1
<1>1. Ranked(bs, template, required)
          = [n \in 1 .. Cardinality(eligible) |-> bs[CHOOSE i \in eligible : rank(i) = n]]
  BY Zenon DEF Ranked
<1>2. IsFiniteSet(eligible) /\ eligible \subseteq 1 .. 3
  <2>1. IsFiniteSet(1 .. 3)
    <3>1. 1 \in Int /\ 3 \in Int  OBVIOUS
    <3> QED BY <3>1, FS_Interval
  <2>2. eligible \in SUBSET (1 .. 3)
    <3> QED OBVIOUS
  <2> HIDE DEF eligible
  <2> QED BY <2>1, <2>2, FS_Subset
<1>3. Cardinality(eligible) \in Nat
  BY <1>2, FS_CardinalityType
<1>4. eligible # {}
  <2> SUFFICES ASSUME eligible = {}  PROVE FALSE  OBVIOUS
  <2>1. Cardinality(eligible) = 0  BY FS_EmptySet
  <2>2. Ranked(bs, template, required) = [n \in {} |-> bs[CHOOSE i \in eligible : rank(i) = n]]
    <3> HIDE DEF eligible, rank
    <3> QED BY <1>1, <2>1
  <2> QED BY <2>2
<1>5. 1 \in 1 .. Cardinality(eligible)
  BY <1>2, <1>3, <1>4, FS_EmptySet
<1>6. PICK least \in eligible : \A j \in eligible : ~ before(j, least)
  <2> HIDE DEF preferred
  <2> QED BY <1>2, <1>4
<1>7. rank(least) = 1
  <2>1. {j \in eligible : before(j, least)} = {}  BY <1>6
  <2> QED BY <2>1, FS_EmptySet
<1>8. first \in eligible
  BY <1>6, <1>7
<1>9. Ranked(bs, template, required)[1] = bs[first]
  <2> HIDE DEF eligible, rank
  <2> QED BY <1>1, <1>5
<1> QED BY <1>8, <1>9 DEF ToSet

-----------------------------------------------------------------------------
(***************************************************************************)
(* The registered instances.                                               *)
(***************************************************************************)
\* Start-up registers them in one order, the FIPS one only if restricted.
Registration(i) == CASE i = 1 -> softwareBackend
                     [] i = 2 -> opensslBackend
                     [] i = 3 -> fipsBackend(TRUE)

InstancesInv ==
    /\ phase \in Phases
    /\ phase = "catalogue" => Len(backends) = 0
    /\ phase = "openssl" => Len(backends) = 1
    /\ phase = "fips" => Len(backends) = 2
    /\ backends \in Seq({Registration(i) : i \in 1 .. 3})
    /\ Len(backends) <= 3
    /\ \A i \in DOMAIN backends : backends[i] = Registration(i)

\* The catalogue that is being stored is one of the assumed ones.
CatalogueInv == config \in Configs /\ loaded \in 0 .. Len(Catalogue)

LEMMA InstancesInitially == Init => InstancesInv /\ CatalogueInv
<1> SUFFICES ASSUME Init PROVE InstancesInv /\ CatalogueInv  OBVIOUS
<1>1. Catalogue \in Seq(ToSet(Catalogue))
  BY CatalogueAssumption DEF Init, Catalogue
<1>2. CatalogueInv
  <2> HIDE DEF Catalogue
  <2> QED BY <1>1 DEF Init, CatalogueInv
<1>3. InstancesInv  BY DEF Init, InstancesInv, Phases
<1> QED BY <1>2, <1>3

\* A query changes the answer only, and its answer is not an artefact.
LEMMA QueryEffects ==
    Query => UNCHANGED <<phase, config, loaded, backends, key>> /\ answer'.rpc \notin Producing
<1>1. \A rpc, asked, reply : Told(rpc, asked, reply) /\ rpc \notin Producing =>
          UNCHANGED <<phase, config, loaded, backends, key>> /\ answer'.rpc \notin Producing
  BY DEF Told
<1>2. AskListScopes => UNCHANGED <<phase, config, loaded, backends, key>> /\ answer'.rpc \notin Producing
  <2>1. "ListScopes" \notin Producing  BY DEF Producing
  <2> QED BY Zenon, <1>1, <2>1 DEF AskListScopes
<1>3. AskListTemplates => UNCHANGED <<phase, config, loaded, backends, key>> /\ answer'.rpc \notin Producing
  <2>1. "ListTemplates" \notin Producing  BY DEF Producing
  <2> QED BY Zenon, <1>1, <2>1 DEF AskListTemplates
<1>4. AskGetTemplate => UNCHANGED <<phase, config, loaded, backends, key>> /\ answer'.rpc \notin Producing
  <2>1. "GetTemplate" \notin Producing  BY DEF Producing
  <2> QED BY Zenon, <1>1, <2>1 DEF AskGetTemplate
<1>5. AskListProviderInstances => UNCHANGED <<phase, config, loaded, backends, key>> /\ answer'.rpc \notin Producing
  <2>1. "ListProviderInstances" \notin Producing  BY DEF Producing
  <2> QED BY Zenon, <1>1, <2>1 DEF AskListProviderInstances
<1>6. AskGetProviderInstance => UNCHANGED <<phase, config, loaded, backends, key>> /\ answer'.rpc \notin Producing
  <2>1. "GetProviderInstance" \notin Producing  BY DEF Producing
  <2> QED BY Zenon, <1>1, <2>1 DEF AskGetProviderInstance
<1>7. AskMatchProviders => UNCHANGED <<phase, config, loaded, backends, key>> /\ answer'.rpc \notin Producing
  <2>1. "MatchProviders" \notin Producing  BY DEF Producing
  <2> QED BY Zenon, <1>1, <2>1 DEF AskMatchProviders
<1>8. AskListProviders => UNCHANGED <<phase, config, loaded, backends, key>> /\ answer'.rpc \notin Producing
  <2>1. "ListProviders" \notin Producing  BY DEF Producing
  <2> QED BY Zenon, <1>1, <2>1 DEF AskListProviders
<1>9. AskGetProvider => UNCHANGED <<phase, config, loaded, backends, key>> /\ answer'.rpc \notin Producing
  <2>1. "GetProvider" \notin Producing  BY DEF Producing
  <2> QED BY Zenon, <1>1, <2>1 DEF AskGetProvider
<1> QED BY <1>2, <1>3, <1>4, <1>5, <1>6, <1>7, <1>8, <1>9 DEF Query

\* The operations leave what start-up made as it is.
LEMMA ServingKeeps ==
    [Next]_vars /\ ~ StartUp => UNCHANGED <<phase, config, loaded, backends>>
<1>1. CreateKey => UNCHANGED <<phase, config, loaded, backends>>
  BY Zenon DEF CreateKey
<1>2. \A op : Using(op) => UNCHANGED <<phase, config, loaded, backends, key>>
  BY Zenon DEF Using
<1>3. \A op : Checking(op) => UNCHANGED <<phase, config, loaded, backends, key>>
  BY Zenon DEF Checking
<1>4. MigrateKey => UNCHANGED <<phase, config, loaded, backends>>
  BY Zenon DEF MigrateKey
<1> QED BY <1>1, <1>2, <1>3, <1>4, QueryEffects
       DEF Next, vars, Sign, Verify, DigestSign, DigestVerify, Encrypt, Decrypt

LEMMA StartUpKeeps == StartUp => UNCHANGED <<config, key, answer>> /\ phase # "serving"
  BY DEF StartUp, Register, RegisterSoftware, RegisterOpenSSL, registerFIPSProvider, ValidateAllProviders

LEMMA Registrations ==
    /\ Registration(1) = softwareBackend
    /\ Registration(2) = opensslBackend
    /\ Registration(3) = fipsBackend(TRUE)
  BY DEF Registration

\* Registering the next instance.
LEMMA Registers ==
    ASSUME InstancesInv, NEW i \in 1 .. 3, Len(backends) = i - 1,
           backends' = Append(backends, Registration(i))
    PROVE  /\ backends' \in Seq({Registration(j) : j \in 1 .. 3})
           /\ Len(backends') = i
           /\ \A j \in DOMAIN backends' : backends'[j] = Registration(j)
<1> DEFINE R == {Registration(j) : j \in 1 .. 3}
<1>1. backends \in Seq(R) /\ Registration(i) \in R  BY DEF InstancesInv
<1> HIDE DEF R
<1>2. /\ backends' \in Seq(R) /\ Len(backends') = i
      /\ \A j \in 1 .. i : backends'[j] = IF j < i THEN backends[j] ELSE Registration(i)
  BY <1>1
<1>3. \A j \in 1 .. i - 1 : backends[j] = Registration(j)
  BY <1>1 DEF InstancesInv
<1>4. \A j \in DOMAIN backends' : backends'[j] = Registration(j)
  BY <1>2, <1>3
<1> QED BY <1>2, <1>4 DEF R

LEMMA InstancesKept == InstancesInv /\ CatalogueInv /\ [Next]_vars => (InstancesInv /\ CatalogueInv)'
<1> SUFFICES ASSUME InstancesInv, CatalogueInv, [Next]_vars
             PROVE  (InstancesInv /\ CatalogueInv)'
  OBVIOUS
<1>a. config' = config /\ Catalogue' = Catalogue /\ Len(Catalogue) \in Nat
  <2>1. Catalogue \in Seq(ToSet(Catalogue))
    BY CatalogueAssumption DEF CatalogueInv, Catalogue
  <2> QED BY <2>1, StartUpKeeps, ServingKeeps DEF Catalogue
<1>1. CASE Register
  BY <1>1, <1>a DEF Register, InstancesInv, CatalogueInv, Phases
<1>2. CASE RegisterSoftware
  <2>1. /\ backends' = <<softwareBackend>> /\ Len(backends) = 0
        /\ phase' = "openssl" /\ loaded' = loaded
    BY <1>2, Registrations DEF RegisterSoftware, InstancesInv
  <2>2. backends = <<>>  BY <2>1 DEF InstancesInv
  <2>3. backends' = Append(backends, Registration(1))  BY <2>1, <2>2, Registrations
  <2> QED BY <1>a, <2>1, <2>3, Registers DEF InstancesInv, CatalogueInv, Phases
<1>3. CASE RegisterOpenSSL
  <2>1. CASE config.libcrypto
    <3>1. /\ backends' = Append(backends, Registration(2)) /\ Len(backends) = 2 - 1
          /\ phase' = "fips" /\ loaded' = loaded
      BY <1>3, <2>1, Registrations DEF RegisterOpenSSL, InstancesInv
    <3> QED BY <1>a, <3>1, Registers DEF InstancesInv, CatalogueInv, Phases
  <2> QED BY <1>3, <1>a, <2>1 DEF RegisterOpenSSL, InstancesInv, CatalogueInv, Phases
<1>4. CASE registerFIPSProvider
  <2>1. CASE config.fips = "ok"
    <3>1. /\ backends' = Append(backends, Registration(3)) /\ Len(backends) = 3 - 1
          /\ phase' = "validate" /\ loaded' = loaded
      <4>1. backends' = Append(backends, fipsBackend(TRUE)) /\ phase' = "validate" /\ loaded' = loaded
        BY Zenon, <1>4, <2>1 DEF registerFIPSProvider
      <4>2. Append(backends, fipsBackend(TRUE)) = Append(backends, Registration(3))
        BY Zenon, Registrations
      <4>3. Len(backends) = 3 - 1
        BY <1>4 DEF registerFIPSProvider, InstancesInv
      <4> QED BY <4>1, <4>2, <4>3
    <3> QED BY <1>a, <3>1, Registers DEF InstancesInv, CatalogueInv, Phases
  <2> QED BY <1>4, <1>a, <2>1 DEF registerFIPSProvider, InstancesInv, CatalogueInv, Phases
<1>5. CASE ValidateAllProviders
  BY <1>5, <1>a DEF ValidateAllProviders, InstancesInv, CatalogueInv, Phases
<1>6. CASE ~ StartUp
  BY <1>6, <1>a, ServingKeeps DEF InstancesInv, CatalogueInv
<1> QED BY <1>1, <1>2, <1>3, <1>4, <1>5, <1>6 DEF StartUp

\* No two have the same name, and the one named for FIPS is restricted.
LEMMA InstancesNamed ==
    ASSUME InstancesInv
    PROVE  /\ DOMAIN backends \subseteq 1 .. 3
           /\ \A b \in ToSet(backends) : b.name = "openssl-fips" => b.restricted
           /\ \A b, c \in ToSet(backends) : b.name = c.name => b = c
           /\ \A i, j \in DOMAIN backends : backends[i].name = backends[j].name => i = j
<1>1. /\ Registration(1).name = "software" /\ Registration(2).name = "openssl"
      /\ Registration(3).name = "openssl-fips" /\ Registration(3).restricted
  <2>1. softwareBackend.name = "software" /\ opensslBackend.name = "openssl"
    BY DEF softwareBackend, opensslBackend
  <2>2. fipsBackend(TRUE).name = "openssl-fips" /\ fipsBackend(TRUE).restricted
    BY DEF fipsBackend
  <2> QED BY <2>1, <2>2, Registrations
<1>2. DOMAIN backends \subseteq 1 .. 3
  BY DEF InstancesInv
<1>3. \A i, j \in DOMAIN backends : backends[i].name = backends[j].name => i = j
  BY <1>1, <1>2 DEF InstancesInv
<1>4. \A b \in ToSet(backends) : \E i \in DOMAIN backends : b = backends[i]
  BY DEF ToSet
<1>5. \A b \in ToSet(backends) : b.name = "openssl-fips" => b.restricted
  BY <1>1, <1>2, <1>4 DEF InstancesInv
<1>6. \A b, c \in ToSet(backends) : b.name = c.name => b = c
  BY <1>3, <1>4
<1> QED BY <1>2, <1>3, <1>5, <1>6

LEMMA BackendNamed ==
    ASSUME InstancesInv, NEW b \in ToSet(backends)
    PROVE  Backend(b.name) = b
  BY InstancesNamed DEF Backend

-----------------------------------------------------------------------------
(***************************************************************************)
(* The key.  It is well formed, and it stands on an instance that meets    *)
(* what was required of it.                                                *)
(***************************************************************************)
Formed(k) == k = [id |-> "k1", template |-> k.template, holder |-> k.holder, required |-> k.required,
                  type |-> k.type, size |-> k.size, private |-> k.private, public |-> k.public]

StandsOn(k, b) == k.holder = b.name /\ (k.required.fips => b.restricted)

KeyInv ==
    key # NoKey => /\ phase = "serving"
                   /\ Formed(key)
                   /\ Made(key)
                   /\ \E b \in ToSet(backends) : StandsOn(key, b)

LEMMA EligibleStands ==
    ASSUME NEW b, NEW template, NEW required, Eligible(b, template, required)
    PROVE  required.fips => b.restricted
  BY DEF Eligible, Meets, ImplementationProperties

LEMMA PoolRegistered ==
    ASSUME NEW pinned
    PROVE  /\ \A b \in ToSet(Pool(pinned)) : b \in ToSet(backends)
           /\ InstancesInv => DOMAIN Pool(pinned) \subseteq 1 .. 3
<1>1. CASE pinned = ""
  <2>1. Pool(pinned) = backends  BY Zenon, <1>1 DEF Pool
  <2> QED BY <2>1, InstancesNamed
<1>2. CASE pinned # "" /\ Named(backends, pinned) = {}
  <2>1. Pool(pinned) = <<>>  BY Zenon, <1>2 DEF Pool
  <2> QED BY <2>1 DEF ToSet
<1>3. CASE pinned # "" /\ Named(backends, pinned) # {}
  <2>1. Pool(pinned) = <<Backend(pinned)>>  BY Zenon, <1>3 DEF Pool
  <2>2. Backend(pinned) \in ToSet(backends)  BY <1>3 DEF Named, Backend
  <2>3. DOMAIN Pool(pinned) = {1} /\ ToSet(Pool(pinned)) = {Backend(pinned)}
    BY <2>1 DEF ToSet
  <2> QED BY <2>2, <2>3
<1> QED BY <1>1, <1>2, <1>3

\* A key is made by the first ranked instance, of the type and size that it
\* generates.
LEMMA CreatedOn ==
    ASSUME InstancesInv, NEW cs, NEW spec, NEW pinned, NEW required, NEW fault,
           Ok(Created(cs, spec, pinned, required, fault))
    PROVE  LET k == Created(cs, spec, pinned, required, fault).how IN
           Formed(k) /\ Made(k) /\ \E b \in ToSet(backends) : StandsOn(k, b)
<1> DEFINE selected == Select(stored, spec, Narrowed(cs, pinned, required), fault)
           ranked   == Ranked(Pool(pinned), selected.how.id, required)
           made     == GenerateKey(ranked[1], selected.how.details)
           k        == [id |-> "k1", template |-> selected.how.id,
                        holder |-> ranked[1].name, required |-> required,
                        type |-> made.how.type, size |-> made.how.size,
                        private |-> made.how.private, public |-> made.how.public]
           v        == Created(cs, spec, pinned, required, fault)
<1>1. \/ v = Refuse("ProviderNotFound")
      \/ v = Refuse("FailedPrecondition")
      \/ v = selected /\ ~ Ok(selected)
      \/ v = made /\ ~ Ok(made)
      \/ v = Answer(<<>>, k) /\ ranked # <<>> /\ Ok(made)
  BY Zenon DEF Created
<1>2. ~ Ok(Refuse("ProviderNotFound")) /\ ~ Ok(Refuse("FailedPrecondition"))
  BY DEF Refuse, Require, Answer, Ok
<1>3. v = Answer(<<>>, k) /\ ranked # <<>> /\ Ok(made)
  <2> HIDE DEF v, selected, made, ranked, k
  <2>1. Ok(v)  BY DEF v
  <2> QED BY <1>1, <1>2, <2>1
<1>4. v.how = k
  <2> HIDE DEF v, k
  <2> QED BY <1>3 DEF Answer
<1>5. ranked[1] \in ToSet(backends) /\ Eligible(ranked[1], selected.how.id, required)
  <2> HIDE DEF selected
  <2> QED BY <1>3, PoolRegistered, RankedFirst
<1>6. Made(k)
  <2>1. Made(made.how)  BY <1>3, GeneratesMade
  <2> HIDE DEF made, ranked, selected
  <2> QED BY <2>1 DEF Made
<1>7. Formed(k)
  <2> HIDE DEF made, ranked, selected
  <2> QED BY DEF Formed
<1>8. StandsOn(k, ranked[1])
  <2>1. required.fips => ranked[1].restricted
    <3> HIDE DEF ranked, selected
    <3> QED BY <1>5, EligibleStands
  <2>2. k.holder = ranked[1].name /\ k.required = required
    <3> HIDE DEF made, ranked, selected
    <3> QED OBVIOUS
  <2> HIDE DEF k, ranked
  <2> QED BY <2>1, <2>2 DEF StandsOn
<1> QED BY <1>4, <1>5, <1>6, <1>7, <1>8

-----------------------------------------------------------------------------
(***************************************************************************)
(* The answer.  An artefact covers what was asked for, and so does every   *)
(* check of it that succeeded.                                             *)
(***************************************************************************)
Artefact(a) == a = [rpc |-> a.rpc, code |-> a.code, asked |-> a.asked, checked |-> a.checked,
                 artefact |-> a.artefact]

AnswerInv ==
    answer.rpc \in Producing =>
        /\ phase = "serving" /\ key # NoKey
        /\ Artefact(answer)
        /\ answer.asked.op = answer.rpc
        /\ IF answer.code = "OK" THEN Covers(Details(key.template), answer.asked, answer.artefact.how)
                                 ELSE answer.checked = {}
        /\ \A c \in answer.checked :
              /\ c.asked.op = answer.rpc
              /\ c.good => Covers(Details(key.template), c.asked, answer.artefact.how)

Inv == InstancesInv /\ CatalogueInv /\ KeyInv /\ AnswerInv

-----------------------------------------------------------------------------
(***************************************************************************)
(* The steps.                                                              *)
(***************************************************************************)
LEMMA RequestOp == \A op \in Producing : \A r \in Requests(op) : r.op = op
<1>1. \A r \in Requests("SIGN") : r.op = "SIGN"  BY DEF Requests
<1>2. \A r \in Requests("DIGEST_SIGN") : r.op = "DIGEST_SIGN"  BY DEF Requests
<1>3. \A r \in Requests("ENCRYPT") : r.op = "ENCRYPT"  BY DEF Requests
<1> QED BY <1>1, <1>2, <1>3 DEF Producing

\* A template's details stay what they are while the server serves.
LEMMA DetailsKept ==
    ASSUME UNCHANGED <<config, loaded>>
    PROVE  Details(key.template)' = Details(key'.template)
  BY DEF Details, stored, Catalogue

LEMMA CreateKeyStep ==
    ASSUME InstancesInv, CreateKey
    PROVE  KeyInv' /\ AnswerInv'
<1>0. PICK cs \in Candidates \cup {Only(<<id>>) : id \in ToSet(IDs(stored))} \cup {Unrestricted},
           spec \in Specs \cup {NoScope}, pinned \in {""} \cup ToSet(NameOrder),
           required \in {r \in Requirements : r.valid}, fault \in Faults :
        LET made == Created(cs, spec, pinned, required, fault) IN
        /\ cs = Unrestricted => spec # NoScope
        /\ key' = IF Ok(made) THEN made.how ELSE NoKey
        /\ answer' = [rpc |-> "CreateKey", code |-> made.code,
                      asked |-> [cs |-> cs, spec |-> spec, pinned |-> pinned,
                                 required |-> required, fault |-> fault]]
  BY Zenon DEF CreateKey
<1>1. /\ key' = IF Ok(Created(cs, spec, pinned, required, fault))
                THEN Created(cs, spec, pinned, required, fault).how ELSE NoKey
      /\ answer'.rpc = "CreateKey"
      /\ UNCHANGED <<phase, config, loaded, backends>>
      /\ phase = "serving"
  <2>1. UNCHANGED <<phase, config, loaded, backends>> /\ phase = "serving"
    BY Zenon DEF CreateKey
  <2> QED BY <1>0, <2>1
<1>2. AnswerInv'
  BY <1>1 DEF AnswerInv, Producing
<1>3. KeyInv'
  <2> DEFINE v == Created(cs, spec, pinned, required, fault)
  <2>1. CASE ~ Ok(v)
    BY <1>1, <2>1 DEF KeyInv
  <2>2. CASE Ok(v)
    <3>1. Formed(v.how) /\ Made(v.how) /\ \E b \in ToSet(backends) : StandsOn(v.how, b)
      BY <2>2, CreatedOn
    <3>2. key' = v.how /\ phase' = "serving" /\ backends' = backends  BY <1>1, <2>2
    <3> HIDE DEF v
    <3> QED BY <3>1, <3>2 DEF KeyInv
  <2> QED BY <2>1, <2>2
<1> QED BY <1>2, <1>3

LEMMA UsingStep ==
    ASSUME NEW op \in Producing, Using(op)
    PROVE  AnswerInv'
<1>1. PICK r \in Requests(op) :
        answer' = [rpc |-> op,
                   code |-> Produce(Backend(key.holder), Details(key.template), key, r).code,
                   asked |-> r, checked |-> {},
                   artefact |-> [key |-> key.id,
                                 how |-> Produce(Backend(key.holder), Details(key.template), key, r).how,
                                 of |-> IF op = "DIGEST_SIGN" THEN r.digest ELSE r.message]]
  BY Zenon DEF Using
<1>2. phase = "serving" /\ key # NoKey /\ UNCHANGED <<phase, config, loaded, backends, key>>
  BY Zenon DEF Using
<1>3. r.op = op  BY RequestOp
<1> DEFINE d == Details(key.template)
           v == Produce(Backend(key.holder), d, key, r)
<1>4. Details(key.template)' = d
  BY <1>2, DetailsKept
<1>5. v.code = "OK" => Covers(d, r, v.how)
  BY <1>3, ProduceCovers DEF Ok
<1>6. /\ answer'.rpc = op /\ answer'.code = v.code /\ answer'.asked = r /\ answer'.checked = {}
      /\ answer'.artefact.how = v.how
  <2> HIDE DEF v
  <2> QED BY <1>1 DEF v
<1>7. Artefact(answer')
  <2> HIDE DEF v
  <2> QED BY <1>1 DEF Artefact
<1> HIDE DEF d, v
<1> QED BY <1>2, <1>3, <1>4, <1>5, <1>6, <1>7 DEF AnswerInv

LEMMA CheckingStep ==
    ASSUME AnswerInv, NEW op \in Producing, Checking(op)
    PROVE  AnswerInv'
<1> DEFINE d == Details(key.template)
           good(r) == Good(Backend(key.holder), d, key, r, answer.artefact)
<1>1. PICK r \in Requests(op) : answer' = [answer EXCEPT !.checked = {[asked |-> r, good |-> good(r)]}]
  BY Zenon DEF Checking
<1>2. /\ answer.rpc = op /\ answer.code = "OK"
      /\ UNCHANGED <<phase, config, loaded, backends, key>>
  BY Zenon DEF Checking
<1>3. r.op = op  BY RequestOp
<1>4. Details(key.template)' = d
  BY <1>2, DetailsKept
<1>5. good(r) => Covers(d, r, answer.artefact.how)
  BY <1>3, GoodCovers
<1> HIDE DEF d, good
<1>6. /\ phase = "serving" /\ key # NoKey /\ Artefact(answer) /\ answer.asked.op = op
      /\ Covers(d, answer.asked, answer.artefact.how)
  BY <1>2 DEF AnswerInv, d
<1>7. /\ answer'.rpc = op /\ answer'.code = "OK" /\ answer'.asked = answer.asked
      /\ answer'.checked = {[asked |-> r, good |-> good(r)]}
      /\ answer'.artefact = answer.artefact
      /\ Artefact(answer')
  BY <1>1, <1>2, <1>6 DEF Artefact
<1>8. \A c \in answer'.checked : c.asked.op = op /\ (c.good => Covers(d, c.asked, answer.artefact.how))
  <2> SUFFICES ASSUME NEW c, c = [asked |-> r, good |-> good(r)]
               PROVE  c.asked.op = op /\ (c.good => Covers(d, c.asked, answer.artefact.how))
    BY <1>7
  <2>1. c.asked = r /\ c.good = good(r)  OBVIOUS
  <2> QED BY <1>3, <1>5, <2>1
<1> QED BY <1>2, <1>4, <1>6, <1>7, <1>8 DEF AnswerInv

LEMMA MigrateKeyStep ==
    ASSUME InstancesInv, KeyInv, AnswerInv, MigrateKey
    PROVE  KeyInv' /\ AnswerInv'
<1>1. phase = "serving" /\ key # NoKey /\ UNCHANGED <<phase, config, loaded, backends>>
  BY Zenon DEF MigrateKey
<1>2. PICK b \in ToSet(backends) :
        IF CanMove(b) THEN key' = [key EXCEPT !.holder = b.name] /\ answer' = answer
                      ELSE key' = key /\ answer'.rpc = "MigrateKey"
  BY DEF MigrateKey
<1>3. CASE ~ CanMove(b)
  BY <1>1, <1>2, <1>3 DEF KeyInv, AnswerInv, Producing
<1>4. CASE CanMove(b)
  <2>1. Formed(key) /\ Made(key)  BY <1>1 DEF KeyInv
  <2>2. /\ key'.id = "k1" /\ key'.template = key.template /\ key'.holder = b.name
        /\ key'.required = key.required /\ key'.type = key.type /\ key'.size = key.size
        /\ Formed(key')
    BY <1>2, <1>4, <2>1 DEF Formed
  <2>3. key.required.fips => b.restricted
    BY <1>4, EligibleStands DEF CanMove
  <2>4. Made(key')  BY <2>1, <2>2 DEF Made
  <2>5. StandsOn(key', b)  BY <2>2, <2>3 DEF StandsOn
  <2>6. KeyInv'
    BY <1>1, <2>2, <2>4, <2>5 DEF KeyInv
  <2>7. key' # NoKey  BY <2>2 DEF NoKey
  <2>8. Details(key.template)' = Details(key.template)
    BY <1>1, <2>2, DetailsKept
  <2>9. AnswerInv'
    BY <1>1, <1>2, <1>4, <2>7, <2>8 DEF AnswerInv
  <2> QED BY <2>6, <2>9
<1> QED BY <1>3, <1>4

LEMMA Initially == Init => Inv
  BY InstancesInitially DEF Init, Inv, KeyInv, AnswerInv, NoAnswer, Producing

LEMMA Kept == Inv /\ [Next]_vars => Inv'
<1> SUFFICES ASSUME Inv, [Next]_vars PROVE Inv'  OBVIOUS
<1>1. InstancesInv' /\ CatalogueInv'
  BY InstancesKept DEF Inv
<1>2. CASE StartUp
  BY <1>1, <1>2, StartUpKeeps DEF Inv, KeyInv, AnswerInv
<1>3. CASE Query
  BY <1>1, <1>3, QueryEffects DEF Inv, KeyInv, AnswerInv
<1>4. CASE CreateKey
  BY <1>1, <1>4, CreateKeyStep DEF Inv
<1>5. ASSUME NEW op \in Producing, Using(op) PROVE Inv'
  <2>1. UNCHANGED <<phase, backends, key>>  BY Zenon, <1>5 DEF Using
  <2>2. KeyInv'  BY <2>1 DEF Inv, KeyInv
  <2> QED BY <1>1, <1>5, <2>2, UsingStep DEF Inv
<1>6. ASSUME NEW op \in Producing, Checking(op) PROVE Inv'
  <2>1. UNCHANGED <<phase, backends, key>>  BY Zenon, <1>6 DEF Checking
  <2>2. KeyInv'  BY <2>1 DEF Inv, KeyInv
  <2> QED BY <1>1, <1>6, <2>2, CheckingStep DEF Inv
<1>7. CASE MigrateKey
  BY <1>1, <1>7, MigrateKeyStep DEF Inv
<1>8. CASE UNCHANGED vars
  <2>1. Details(key.template)' = Details(key.template)
    BY <1>8, DetailsKept DEF vars
  <2> QED BY <1>1, <1>8, <2>1 DEF Inv, vars, KeyInv, AnswerInv
<1> QED BY <1>2, <1>3, <1>4, <1>5, <1>6, <1>7, <1>8
       DEF Next, Sign, Verify, DigestSign, DigestVerify, Encrypt, Decrypt, Producing

LEMMA Invariant == Spec => []Inv
  BY Initially, Kept, PTL DEF Spec

-----------------------------------------------------------------------------
(***************************************************************************)
(* The properties.                                                         *)
(***************************************************************************)
LEMMA KeyStands ==
    ASSUME Inv, key # NoKey, key.required.fips \/ key.holder = "openssl-fips"
    PROVE  Backend(key.holder).restricted
<1>1. PICK b \in ToSet(backends) : StandsOn(key, b)
  BY DEF Inv, KeyInv
<1>2. Backend(key.holder) = b
  BY <1>1, BackendNamed DEF Inv, StandsOn
<1> QED BY <1>1, <1>2, InstancesNamed DEF Inv, StandsOn

\* A key whose creator required FIPS 140, and any key on the instance that is
\* named for it, is always in a restricted context, whatever becomes of the
\* FIPS provider at start-up (wire.go registerFIPSProvider, openssl.New), and
\* wherever the key was migrated to.
THEOREM RequirementKeptHolds == Spec => []RequirementKept
<1>1. Inv => RequirementKept
  BY KeyStands DEF RequirementKept
<1> QED BY Invariant, <1>1, PTL

\* Whichever provider made an artefact and whichever checks it, what is found
\* good was made for the same message or digest and the same authenticated
\* data (the Verify and Decrypt handlers of both providers).
THEOREM CheckSoundHolds == Spec => []CheckSound
<1>1. ASSUME Inv, answer.rpc \in Producing, NEW c \in answer.checked, c.good
      PROVE  Authenticated(c.asked, Details(key.template))
             = Authenticated(answer.asked, Details(key.template))
  <2> DEFINE d == Details(key.template)
  <2>1. /\ answer.code = "OK" /\ answer.asked.op = answer.rpc /\ c.asked.op = answer.rpc
        /\ Covers(d, answer.asked, answer.artefact.how)
        /\ Covers(d, c.asked, answer.artefact.how)
    BY <1>1 DEF Inv, AnswerInv
  <2> HIDE DEF d
  <2>2. Authenticated(c.asked, d) = Authenticated(answer.asked, d)
    BY <1>1, <2>1, CoversOne
  <2> QED BY <2>2 DEF d
<1>2. Inv => CheckSound
  BY <1>1 DEF CheckSound
<1> QED BY Invariant, <1>2, PTL

\* The size that a stored RSA template asks for is that of an RSA key only.
LEMMA StoredProper ==
    ASSUME CatalogueInv, NEW t \in ToSet(stored)
    PROVE  ProperSize(t.details)
<1>1. Catalogue \in Seq(ToSet(Catalogue))
  BY CatalogueAssumption DEF CatalogueInv, Catalogue
<1>2. t \in ToSet(Catalogue)
  <2>1. PICK i \in DOMAIN stored : t = stored[i]  BY DEF ToSet
  <2> DEFINE C == Catalogue
  <2>2. loaded \in 0 .. Len(C)  BY DEF CatalogueInv
  <2>3. C \in Seq(ToSet(C))  BY <1>1
  <2>4. stored = SubSeq(C, 1, loaded)  BY DEF stored
  <2> HIDE DEF C
  <2>5. i \in DOMAIN C /\ stored[i] = C[i]  BY <2>1, <2>2, <2>3, <2>4
  <2> QED BY <2>1, <2>5 DEF C, ToSet
<1> QED BY <1>2, CatalogueAssumption DEF CatalogueInv, Catalogue, ProperSize, RSA

\* A provider uses a key only for details that describe it: where it succeeds
\* with the details of a template, that template makes keys of this type and
\* size (checkCurveMatches, checkRSAKeySize and their like).
THEOREM KeyFitsOnlyHolds == Spec => []KeyFitsOnly
<1>1. ASSUME Inv, key # NoKey, NEW b, NEW t \in ToSet(stored), NEW r \in AsksOf(t.id),
             Ok(Produce(b, t.details, key, r))
      PROVE  key.type = GenerateKey(b, t.details).how.type /\ key.size = GenerateKey(b, t.details).how.size
  <2>1. r.op \in Producing
    <3>1. PICK op \in Producing : r \in Requests(op)  BY <1>1 DEF AsksOf
    <3> QED BY <3>1, RequestOp
  <2>2. Made(key)  BY <1>1 DEF Inv, KeyInv
  <2>3. ProperSize(t.details)  BY <1>1, StoredProper DEF Inv
  <2>4. KeyOf(t.details, key)  BY <1>1, <2>1, <2>2, <2>3, ProducesWith
  <2> QED BY <2>4, GeneratesAs
<1>2. Inv => KeyFitsOnly
  BY Zenon, <1>1 DEF KeyFitsOnly
<1> QED BY Invariant, <1>2, PTL

-----------------------------------------------------------------------------
(***************************************************************************)
(* The members of a sequence at some places, in their order.               *)
(***************************************************************************)
\* The place of the n-th of them.
Place(at, n) == CHOOSE i \in at : Cardinality(at \cap (1 .. i)) = n

LEMMA InOrderPlaces ==
    \A s, at : InOrder(s, at) = [n \in 1 .. Cardinality(at) |-> s[Place(at, n)]]
  BY Zenon DEF InOrder, Place

\* As many different numbers as there are numbers are all of them.
LEMMA Onto ==
    ASSUME NEW S, IsFiniteSet(S), NEW f \in [S -> 1 .. Cardinality(S)],
           \A i, j \in S : f[i] = f[j] => i = j
    PROVE  \A n \in 1 .. Cardinality(S) : \E i \in S : f[i] = n
<1>1. Cardinality(S) \in Nat  BY FS_CardinalityType
<1>2. IsFiniteSet(1 .. Cardinality(S)) /\ Cardinality(1 .. Cardinality(S)) = Cardinality(S)
  <2>1. 1 \in Int /\ Cardinality(S) \in Int  BY <1>1
  <2>2. IsFiniteSet(1 .. Cardinality(S))
        /\ Cardinality(1 .. Cardinality(S))
           = IF 1 > Cardinality(S) THEN 0 ELSE Cardinality(S) - 1 + 1
    BY <2>1, FS_Interval
  <2> QED BY <1>1, <2>2
<1>3. f \in Injection(S, 1 .. Cardinality(S))  BY Zenon DEF Injection, IsInjective
<1>4. f \in Surjection(S, 1 .. Cardinality(S))  BY <1>2, <1>3, FS_Injection
<1> QED BY <1>4, Zenon DEF Surjection

\* The numbers of two places are in the order of the places.
LEMMA PlaceNumbers ==
    ASSUME NEW len \in Nat, NEW at \in SUBSET (1 .. len)
    PROVE  /\ IsFiniteSet(at) /\ Cardinality(at) \in Nat
           /\ \A i \in at : Cardinality(at \cap (1 .. i)) \in 1 .. Cardinality(at)
           /\ \A i, j \in at : i < j => Cardinality(at \cap (1 .. i)) < Cardinality(at \cap (1 .. j))
<1>1. IsFiniteSet(at)
  <2>1. 1 \in Int /\ len \in Int  OBVIOUS
  <2>2. IsFiniteSet(1 .. len)  BY <2>1, FS_Interval
  <2> QED BY <2>2, FS_Subset
<1>2. Cardinality(at) \in Nat  BY <1>1, FS_CardinalityType
<1>3. ASSUME NEW i \in at
      PROVE  /\ IsFiniteSet(at \cap (1 .. i)) /\ Cardinality(at \cap (1 .. i)) \in Nat
             /\ Cardinality(at \cap (1 .. i)) \in 1 .. Cardinality(at)
  <2>1. (at \cap (1 .. i)) \in SUBSET at  OBVIOUS
  <2>2. IsFiniteSet(at \cap (1 .. i)) /\ Cardinality(at \cap (1 .. i)) <= Cardinality(at)
    BY <1>1, <2>1, FS_Subset
  <2>3. Cardinality(at \cap (1 .. i)) \in Nat  BY <2>2, FS_CardinalityType
  <2>4. Cardinality(at \cap (1 .. i)) # 0
    <3>1. i \in at \cap (1 .. i)  OBVIOUS
    <3> QED BY <2>2, <3>1, FS_EmptySet
  <2> QED BY <1>2, <2>2, <2>3, <2>4
<1>4. ASSUME NEW i \in at, NEW j \in at, i < j
      PROVE  Cardinality(at \cap (1 .. i)) < Cardinality(at \cap (1 .. j))
  <2>1. (at \cap (1 .. i)) \in SUBSET (at \cap (1 .. j))  BY <1>4
  <2>2. j \in at \cap (1 .. j) /\ j \notin at \cap (1 .. i)  BY <1>4
  <2>3. /\ Cardinality(at \cap (1 .. i)) <= Cardinality(at \cap (1 .. j))
        /\ Cardinality(at \cap (1 .. j)) = Cardinality(at \cap (1 .. i))
              => at \cap (1 .. j) = at \cap (1 .. i)
    BY <1>3, <2>1, FS_Subset
  <2>4. Cardinality(at \cap (1 .. i)) \in Nat /\ Cardinality(at \cap (1 .. j)) \in Nat  BY <1>3
  <2> QED BY <2>2, <2>3, <2>4
<1> QED BY <1>1, <1>2, <1>3, <1>4

LEMMA Placing ==
    ASSUME NEW len \in Nat, NEW at \in SUBSET (1 .. len)
    PROVE  /\ \A n \in 1 .. Cardinality(at) : Place(at, n) \in at
           /\ \A i \in at : \E n \in 1 .. Cardinality(at) : Place(at, n) = i
           /\ \A m, n \in 1 .. Cardinality(at) : m < n => Place(at, m) < Place(at, n)
<1> DEFINE number == [i \in at |-> Cardinality(at \cap (1 .. i))]
<1>1. /\ IsFiniteSet(at) /\ Cardinality(at) \in Nat
      /\ \A i \in at : number[i] \in 1 .. Cardinality(at)
      /\ \A i, j \in at : i < j => number[i] < number[j]
  BY PlaceNumbers
<1>2. number \in [at -> 1 .. Cardinality(at)]  BY <1>1
<1>3. \A n : Place(at, n) = CHOOSE i \in at : number[i] = n
  BY Zenon DEF Place
<1> HIDE DEF number
<1>4. \A i, j \in at : number[i] = number[j] => i = j
  <2> TAKE i, j \in at
  <2>1. i \in Nat /\ j \in Nat /\ number[i] \in Nat /\ number[j] \in Nat  BY <1>1
  <2> QED BY <1>1, <2>1
<1>5. \A n \in 1 .. Cardinality(at) : \E i \in at : number[i] = n
  BY <1>1, <1>2, <1>4, Onto
<1>6. \A n \in 1 .. Cardinality(at) : Place(at, n) \in at /\ number[Place(at, n)] = n
  BY <1>3, <1>5
<1>7. \A i \in at : Place(at, number[i]) = i
  BY <1>1, <1>4, <1>6
<1>8. \A m, n \in 1 .. Cardinality(at) : m < n => Place(at, m) < Place(at, n)
  <2> SUFFICES ASSUME NEW m \in 1 .. Cardinality(at), NEW n \in 1 .. Cardinality(at), m < n
               PROVE  Place(at, m) < Place(at, n)
    OBVIOUS
  <2>1. Place(at, m) \in at /\ number[Place(at, m)] = m /\ Place(at, n) \in at /\ number[Place(at, n)] = n
    BY <1>6
  <2>2. m \in Nat /\ n \in Nat  BY <1>1
  <2>3. \A i \in at : i \in Nat  OBVIOUS
  <2>4. Place(at, m) \in Nat /\ Place(at, n) \in Nat  BY <2>1, <2>3
  <2> QED BY <1>1, <2>1, <2>2, <2>4
<1> QED BY <1>1, <1>6, <1>7, <1>8

LEMMA Ordered ==
    ASSUME NEW len \in Nat, NEW at \in SUBSET (1 .. len), NEW s
    PROVE  /\ Cardinality(at) \in Nat
           /\ DOMAIN InOrder(s, at) = 1 .. Cardinality(at)
           /\ InOrder(s, at) = <<>> <=> at = {}
           /\ \A n \in DOMAIN InOrder(s, at) : InOrder(s, at)[n] = s[Place(at, n)]
<1>1. IsFiniteSet(at) /\ Cardinality(at) \in Nat  BY PlaceNumbers
<1>2. /\ DOMAIN InOrder(s, at) = 1 .. Cardinality(at)
      /\ \A n \in DOMAIN InOrder(s, at) : InOrder(s, at)[n] = s[Place(at, n)]
  BY InOrderPlaces
<1>3. at = {} => InOrder(s, at) = <<>>
  <2>1. at = {} => InOrder(s, at) = [n \in {} |-> s[Place(at, n)]]
    <3>1. at = {} => Cardinality(at) = 0  BY FS_EmptySet
    <3> QED BY <3>1, InOrderPlaces
  <2> QED BY <2>1
<1>4. at # {} => InOrder(s, at) # <<>>
  <2>1. at # {} => 1 \in DOMAIN InOrder(s, at)  BY <1>1, <1>2, FS_EmptySet
  <2> QED BY <2>1
<1> QED BY <1>1, <1>2, <1>3, <1>4
-----------------------------------------------------------------------------
(***************************************************************************)
(* Reading and selecting.  Entries are a sequence of templates with        *)
(* different IDs.                                                          *)
(***************************************************************************)
Listed(s, len) == len \in Nat /\ DOMAIN s = 1 .. len

Entries(entries, len) ==
    /\ Listed(entries, len)
    /\ \A i, j \in DOMAIN entries : entries[i].id = entries[j].id => i = j

\* The places of the IDs whose entry can be read.
Readable(entries, ids, fault) == {i \in DOMAIN ids : ids[i] \in ToSet(IDs(entries)) \ fault.lost}

LEMMA ReadInOrder ==
    \A entries, ids, fault :
        Read(entries, ids, fault)
            = [n \in DOMAIN InOrder(ids, Readable(entries, ids, fault)) |->
                  entries[CHOOSE j \in DOMAIN entries :
                            entries[j].id = InOrder(ids, Readable(entries, ids, fault))[n]]]
  BY Zenon DEF Read, Readable

\* What is read are the entries of the readable IDs, in the order of the IDs.
LEMMA Reads ==
    ASSUME NEW entries, NEW ids, NEW len, Listed(ids, len), NEW fault
    PROVE  LET at == Readable(entries, ids, fault)
               r  == Read(entries, ids, fault)
           IN /\ at \in SUBSET (1 .. len)
              /\ Cardinality(at) \in Nat
              /\ DOMAIN r = 1 .. Cardinality(at)
              /\ r = <<>> <=> at = {}
              /\ \A n \in DOMAIN r : r[n] \in ToSet(entries) /\ r[n].id = ids[Place(at, n)]
<1> DEFINE at == Readable(entries, ids, fault)
           found == InOrder(ids, at)
           entry(n) == CHOOSE j \in DOMAIN entries : entries[j].id = found[n]
           r  == Read(entries, ids, fault)
<1>1. at \in SUBSET (1 .. len)  BY DEF Readable, Listed
<1>2. r = [n \in DOMAIN found |-> entries[entry(n)]]
  BY ReadInOrder
<1>3. \A i \in at : ids[i] \in ToSet(IDs(entries))
  BY DEF Readable
<1>4. len \in Nat  BY DEF Listed
<1> HIDE DEF at
<1>5. /\ Cardinality(at) \in Nat
      /\ DOMAIN found = 1 .. Cardinality(at)
      /\ found = <<>> <=> at = {}
      /\ \A n \in DOMAIN found : found[n] = ids[Place(at, n)]
  BY <1>1, <1>4, Ordered
<1>6. \A n \in 1 .. Cardinality(at) : Place(at, n) \in at
  BY <1>1, <1>4, Placing
<1> HIDE DEF found, r
<1>7. \A n \in DOMAIN found : entry(n) \in DOMAIN entries /\ entries[entry(n)].id = found[n]
  <2> TAKE n \in DOMAIN found
  <2>1. found[n] \in ToSet(IDs(entries))  BY <1>3, <1>5, <1>6
  <2>2. \E j \in DOMAIN entries : entries[j].id = found[n]  BY <2>1 DEF ToSet, IDs
  <2> QED BY <2>2
<1>8. \A n \in DOMAIN r : r[n] \in ToSet(entries) /\ r[n].id = ids[Place(at, n)]
  <2> TAKE n \in DOMAIN r
  <2>1. n \in DOMAIN found /\ r[n] = entries[entry(n)]  BY <1>2
  <2>2. entry(n) \in DOMAIN entries /\ entries[entry(n)].id = ids[Place(at, n)]  BY <1>5, <1>7, <2>1
  <2> HIDE DEF entry
  <2> QED BY <2>1, <2>2 DEF ToSet
<1>9. r = <<>> <=> at = {}
  <2>1. at = {} => found = <<>>  BY <1>5
  <2>2. at = {} => r = [n \in {} |-> entries[entry(n)]]
    <3> HIDE DEF entry
    <3>1. found = <<>> => DOMAIN found = {}  OBVIOUS
    <3> QED BY <1>2, <2>1, <3>1
  <2>3. at # {} => 1 \in DOMAIN r
    <3>1. IsFiniteSet(at)  BY <1>1, <1>4, PlaceNumbers
    <3>2. at # {} => Cardinality(at) # 0  BY <3>1, FS_EmptySet
    <3>3. DOMAIN r = DOMAIN found  BY <1>2
    <3> QED BY <1>5, <3>2, <3>3
  <2> HIDE DEF entry
  <2> QED BY <2>2, <2>3
<1>10. DOMAIN r = 1 .. Cardinality(at)  BY <1>2, <1>5
<1> QED BY <1>1, <1>5, <1>8, <1>9, <1>10 DEF at, r
\* The places of the templates that offer the scope.
Offering(read, spec) == {i \in DOMAIN read : MatchesScope(read[i], spec)}

Legible(read, spec) == \A i \in DOMAIN read : ~ ScopeError(read[i], spec)

LEMMA Matching ==
    ASSUME NEW entries, NEW ids, NEW spec, NEW fault
    PROVE  LET r == Read(entries, ids, fault)
               m == selectTemplatesWithIDs(entries, ids, spec, fault)
           IN IF Legible(r, spec) THEN m.code = "OK" /\ m.how = InOrder(r, Offering(r, spec))
                                  ELSE m.code = "UnreadableScope"
<1> DEFINE r == Read(entries, ids, fault)
           m == selectTemplatesWithIDs(entries, ids, spec, fault)
           offering == InOrder(r, Offering(r, spec))
<1>1. m = Answer(Require(Legible(r, spec), "UnreadableScope"), offering)
  BY Zenon DEF selectTemplatesWithIDs, Legible, Offering
<1> HIDE DEF m, r, offering
<1> SUFFICES IF Legible(r, spec) THEN m.code = "OK" /\ m.how = offering ELSE m.code = "UnreadableScope"
  BY DEF m, r, offering
<1>2. CASE Legible(r, spec)
  <2>1. Require(Legible(r, spec), "UnreadableScope") = <<>>  BY <1>2 DEF Require
  <2> QED BY <1>1, <1>2, <2>1 DEF Answer
<1>3. CASE ~ Legible(r, spec)
  <2>1. Require(Legible(r, spec), "UnreadableScope") = <<"UnreadableScope">>  BY <1>3 DEF Require
  <2> QED BY <1>1, <1>3, <2>1 DEF Answer
<1> QED BY <1>2, <1>3

\* An ID that selection passes over: its entry cannot be read, or does not
\* offer the scope.
PassedOver(entries, id, spec, fault) ==
    \/ id \in fault.lost
    \/ id \notin ToSet(IDs(entries))
    \/ \E t \in ToSet(entries) : t.id = id /\ ~ MatchesScope(t, spec)

\* A template that is the first of the IDs that selection does not pass over.
FirstOf(entries, ids, spec, fault, t) ==
    /\ t \in ToSet(entries)
    /\ MatchesScope(t, spec)
    /\ \E p \in DOMAIN ids :
          /\ ids[p] = t.id
          /\ \A i \in DOMAIN ids : i < p => PassedOver(entries, ids[i], spec, fault)

LEMMA FirstMatching ==
    ASSUME NEW entries, NEW ids, NEW len, Listed(ids, len), NEW spec, NEW fault,
           selectTemplatesWithIDs(entries, ids, spec, fault).code = "OK",
           selectTemplatesWithIDs(entries, ids, spec, fault).how # <<>>
    PROVE  FirstOf(entries, ids, spec, fault, selectTemplatesWithIDs(entries, ids, spec, fault).how[1])
<1> DEFINE at == Readable(entries, ids, fault)
           r  == Read(entries, ids, fault)
           off == Offering(r, spec)
           how == selectTemplatesWithIDs(entries, ids, spec, fault).how
<1>1. /\ at \in SUBSET (1 .. len)
      /\ Cardinality(at) \in Nat
      /\ DOMAIN r = 1 .. Cardinality(at)
      /\ \A n \in DOMAIN r : r[n] \in ToSet(entries) /\ r[n].id = ids[Place(at, n)]
  BY Reads
<1>2. how = InOrder(r, off)  BY Matching
<1>3. off \in SUBSET (1 .. Cardinality(at)) /\ \A n \in DOMAIN r : n \in off <=> MatchesScope(r[n], spec)
  BY <1>1 DEF Offering
<1>4. \A i \in DOMAIN ids : i \notin at => PassedOver(entries, ids[i], spec, fault)
  BY DEF Readable, PassedOver
<1>5. len \in Nat /\ DOMAIN ids = 1 .. len  BY DEF Listed
<1> HIDE DEF at, r, off
<1>6. /\ Cardinality(off) \in Nat
      /\ DOMAIN how = 1 .. Cardinality(off)
      /\ how = <<>> <=> off = {}
      /\ \A n \in DOMAIN how : how[n] = r[Place(off, n)]
  <2>1. /\ Cardinality(off) \in Nat
        /\ DOMAIN InOrder(r, off) = 1 .. Cardinality(off)
        /\ InOrder(r, off) = <<>> <=> off = {}
        /\ \A n \in DOMAIN InOrder(r, off) : InOrder(r, off)[n] = r[Place(off, n)]
    BY <1>1, <1>3, Ordered
  <2> HIDE DEF how
  <2> QED BY <1>2, <2>1
<1>7. /\ \A n \in 1 .. Cardinality(off) : Place(off, n) \in off
      /\ \A i \in off : \E n \in 1 .. Cardinality(off) : Place(off, n) = i
      /\ \A m, n \in 1 .. Cardinality(off) : m < n => Place(off, m) < Place(off, n)
  BY <1>1, <1>3, Placing
<1>8. /\ \A n \in 1 .. Cardinality(at) : Place(at, n) \in at
      /\ \A i \in at : \E n \in 1 .. Cardinality(at) : Place(at, n) = i
      /\ \A m, n \in 1 .. Cardinality(at) : m < n => Place(at, m) < Place(at, n)
  BY <1>1, <1>5, Placing
<1> DEFINE q == Place(off, 1)
           p == Place(at, q)
<1>9. 1 \in 1 .. Cardinality(off) /\ 1 \in DOMAIN how
  <2>1. off # {}  BY <1>6
  <2>2. PICK i : i \in off  BY <2>1
  <2> QED BY <1>6, <1>7, <2>2
<1>10. q \in off /\ \A i \in off : q <= i
  <2>1. q \in off  BY <1>7, <1>9
  <2>2. ASSUME NEW i \in off PROVE q <= i
    <3>1. PICK n \in 1 .. Cardinality(off) : Place(off, n) = i  BY <1>7
    <3>2. n = 1 \/ 1 < n  BY <1>6, <3>1
    <3>3. q \in Nat /\ i \in Nat
      <4> HIDE DEF q, how
      <4> QED BY <1>1, <1>3, <2>1
    <3> QED BY <1>7, <1>9, <3>1, <3>2, <3>3
  <2> QED BY <2>1, <2>2
<1> HIDE DEF q
<1>11. q \in 1 .. Cardinality(at) /\ p \in at  BY <1>3, <1>8, <1>10
<1>12. how[1] = r[q]  BY <1>6, <1>9 DEF q
<1> HIDE DEF how, p
<1>13. r[q] \in ToSet(entries) /\ r[q].id = ids[p] /\ MatchesScope(r[q], spec)
  BY <1>1, <1>3, <1>10, <1>11 DEF p
<1>14. ASSUME NEW i \in DOMAIN ids, i < p  PROVE PassedOver(entries, ids[i], spec, fault)
  <2>1. CASE i \in at
    <3>1. PICK n \in 1 .. Cardinality(at) : Place(at, n) = i  BY <1>8, <2>1
    <3>2. n < q
      <4>1. n \in Nat /\ q \in Nat /\ i \in Nat /\ p \in Nat  BY <1>1, <1>5, <1>11, <3>1
      <4>2. n = q => i = p  BY <3>1 DEF p
      <4>3. q < n => p < i  BY <1>8, <1>11, <3>1 DEF p
      <4> QED BY <1>14, <4>1, <4>2, <4>3
    <3>3. n \notin off
      <4>1. n \in Nat /\ q \in Nat  BY <1>1, <1>11, <3>1
      <4> QED BY <1>10, <3>2, <4>1
    <3>4. r[n] \in ToSet(entries) /\ r[n].id = ids[i] /\ ~ MatchesScope(r[n], spec)
      BY <1>1, <1>3, <3>1, <3>3
    <3> QED BY <3>4 DEF PassedOver
  <2>2. CASE i \notin at  BY <1>4, <2>2
  <2> QED BY <2>1, <2>2
<1>15. p \in DOMAIN ids  BY <1>1, <1>5, <1>11
<1> QED BY <1>12, <1>13, <1>14, <1>15 DEF FirstOf, how
LEMMA OneListed == \A id : Listed(<<id>>, 1) /\ <<id>>[1] = id
  BY DEF Listed

\* Get finds the entry of an ID that is stored and can be read.
LEMMA Gets ==
    ASSUME NEW entries, NEW id, NEW fault
    PROVE  LET g == Get(entries, id, fault) IN
           IF id \in ToSet(IDs(entries)) \ fault.lost
           THEN g.code = "OK" /\ g.how \in ToSet(entries) /\ g.how.id = id
           ELSE g.code \in {"Unknown", "TemplateNotFound"}
<1> DEFINE g == Get(entries, id, fault)
           r == Read(entries, <<id>>, fault)
           at == Readable(entries, <<id>>, fault)
<1>1. /\ at \in SUBSET (1 .. 1)
      /\ Cardinality(at) \in Nat
      /\ DOMAIN r = 1 .. Cardinality(at)
      /\ r = <<>> <=> at = {}
      /\ \A n \in DOMAIN r : r[n] \in ToSet(entries) /\ r[n].id = <<id>>[Place(at, n)]
  BY OneListed, Reads
<1>2. at = {} <=> id \notin ToSet(IDs(entries)) \ fault.lost
  BY DEF Readable
<1>3. g = IF r # <<>> THEN Answer(<<>>, r[1])
          ELSE Refuse(IF id \in fault.lost THEN "Unknown" ELSE "TemplateNotFound")
  BY Zenon DEF Get
<1> HIDE DEF g, r, at
<1>4. CASE at # {}
  <2>1. at = {1}
    <3>1. \A i \in 1 .. 1 : i = 1  OBVIOUS
    <3>2. \A i \in at : i \in 1 .. 1  BY <1>1
    <3> QED BY <1>4, <3>1, <3>2
  <2>2. Cardinality(at) = 1  BY <2>1, FS_Singleton
  <2>3. Place(at, 1) \in at
    <3>1. 1 \in Nat /\ 1 \in 1 .. Cardinality(at)  BY <2>2
    <3>2. \A n \in 1 .. Cardinality(at) : Place(at, n) \in at  BY <1>1, <3>1, Placing
    <3> QED BY <3>1, <3>2
  <2>4. r[1] \in ToSet(entries) /\ r[1].id = id  BY <1>1, <2>1, <2>2, <2>3
  <2>5. g.code = "OK" /\ g.how = r[1]  BY <1>1, <1>3, <1>4 DEF Answer
  <2> QED BY <1>2, <1>4, <2>4, <2>5 DEF g
<1>5. CASE at = {}
  <2>1. g.code \in {"Unknown", "TemplateNotFound"}
    BY <1>1, <1>3, <1>5 DEF Refuse, Require, Answer
  <2> QED BY <1>2, <1>5, <2>1 DEF g
<1> QED BY <1>4, <1>5

\* What selection selects from.
Candidate(entries, cs) == IF cs.restricted THEN cs.ids ELSE IDs(entries)

\* Selection: what it answers, and from which match.
LEMMA SelectCases ==
    ASSUME NEW entries, NEW spec, NEW cs, NEW fault
    PROVE  LET m == selectTemplatesWithIDs(entries, Candidate(entries, cs), spec, fault)
               s == Select(entries, spec, cs, fault)
           IN IF cs.restricted /\ Len(cs.ids) = 1 /\ spec = NoScope
              THEN s = Get(entries, cs.ids[1], fault)
              ELSE IF ~ cs.restricted /\ fault.list THEN s.code = "Unknown"
              ELSE IF m.code # "OK" THEN s = m
              ELSE IF m.how = <<>> THEN s.code = "TemplateNotFound"
              ELSE s.code = "OK" /\ s.how = m.how[1]
<1> DEFINE m == selectTemplatesWithIDs(entries, Candidate(entries, cs), spec, fault)
           s == Select(entries, spec, cs, fault)
<1>1. s = IF cs.restricted /\ Len(cs.ids) = 1 /\ spec = NoScope
          THEN Get(entries, cs.ids[1], fault)
          ELSE IF ~ cs.restricted /\ fault.list THEN Refuse("Unknown")
          ELSE IF ~ Ok(m) THEN m
          ELSE IF m.how = <<>> THEN Refuse("TemplateNotFound")
          ELSE Answer(<<>>, m.how[1])
  BY Zenon DEF Select, Candidate
<1>2. Refuse("Unknown").code = "Unknown" /\ Refuse("TemplateNotFound").code = "TemplateNotFound"
  BY DEF Refuse, Require, Answer
<1>3. \A h : Answer(<<>>, h).code = "OK" /\ Answer(<<>>, h).how = h
  BY DEF Answer
<1> HIDE DEF m, s
<1>4. IF cs.restricted /\ Len(cs.ids) = 1 /\ spec = NoScope
      THEN s = Get(entries, cs.ids[1], fault)
      ELSE IF ~ cs.restricted /\ fault.list THEN s.code = "Unknown"
      ELSE IF m.code # "OK" THEN s = m
      ELSE IF m.how = <<>> THEN s.code = "TemplateNotFound"
      ELSE s.code = "OK" /\ s.how = m.how[1]
  BY <1>1, <1>2, <1>3 DEF Ok
<1> QED BY <1>4 DEF m, s

LEMMA ReadAlone ==
    ASSUME NEW entries, NEW id, NEW fault, id \in ToSet(IDs(entries)) \ fault.lost
    PROVE  LET r == Read(entries, <<id>>, fault) IN
           DOMAIN r = {1} /\ r[1] \in ToSet(entries) /\ r[1].id = id
<1> DEFINE r == Read(entries, <<id>>, fault)
           at == Readable(entries, <<id>>, fault)
<1>1. /\ at \in SUBSET (1 .. 1)
      /\ DOMAIN r = 1 .. Cardinality(at)
      /\ \A n \in DOMAIN r : r[n] \in ToSet(entries) /\ r[n].id = <<id>>[Place(at, n)]
  BY OneListed, Reads
<1>2. at = {1}  BY DEF Readable
<1> HIDE DEF r, at
<1>3. Cardinality(at) = 1  BY <1>2, FS_Singleton
<1>4. Place(at, 1) \in at
  <2>1. 1 \in Nat /\ 1 \in 1 .. Cardinality(at)  BY <1>3
  <2>2. \A n \in 1 .. Cardinality(at) : Place(at, n) \in at  BY <1>1, <2>1, Placing
  <2> QED BY <2>1, <2>2
<1>5. DOMAIN r = {1} /\ r[1] \in ToSet(entries) /\ r[1].id = id
  BY <1>1, <1>2, <1>3, <1>4
<1> QED BY <1>5 DEF r

LEMMA Selects ==
    ASSUME NEW entries, NEW spec, NEW cs, NEW len, Listed(Candidate(entries, cs), len), NEW fault,
           cs.restricted => cs.ids \in Seq(ToSet(cs.ids)),
           Ok(Select(entries, spec, cs, fault))
    PROVE  FirstOf(entries, Candidate(entries, cs), spec, fault, Select(entries, spec, cs, fault).how)
<1> DEFINE ids == Candidate(entries, cs)
           m == selectTemplatesWithIDs(entries, ids, spec, fault)
           s == Select(entries, spec, cs, fault)
<1>1. s.code = "OK"  BY DEF Ok
<1>2. IF cs.restricted /\ Len(cs.ids) = 1 /\ spec = NoScope
      THEN s = Get(entries, cs.ids[1], fault)
      ELSE IF ~ cs.restricted /\ fault.list THEN s.code = "Unknown"
      ELSE IF m.code # "OK" THEN s = m
      ELSE IF m.how = <<>> THEN s.code = "TemplateNotFound"
      ELSE s.code = "OK" /\ s.how = m.how[1]
  BY SelectCases
<1>3. CASE cs.restricted /\ Len(cs.ids) = 1 /\ spec = NoScope
  <2>1. ids = cs.ids /\ DOMAIN ids = {1}  BY <1>3 DEF Candidate
  <2> HIDE DEF ids, s
  <2>2. s.how \in ToSet(entries) /\ s.how.id = ids[1]
    BY <1>1, <1>2, <1>3, <2>1, Gets
  <2>3. MatchesScope(s.how, spec)  BY <1>3 DEF MatchesScope
  <2>4. FirstOf(entries, ids, spec, fault, s.how)
    BY <2>1, <2>2, <2>3 DEF FirstOf
  <2> QED BY <2>4 DEF s, ids
<1>4. CASE ~ (cs.restricted /\ Len(cs.ids) = 1 /\ spec = NoScope)
  <2> HIDE DEF s, m
  <2>1. m.code = "OK" /\ m.how # <<>> /\ s.how = m.how[1]
    BY <1>1, <1>2, <1>4
  <2>2. FirstOf(entries, ids, spec, fault, m.how[1])
    BY <2>1, FirstMatching DEF m
  <2> QED BY <2>1, <2>2 DEF s
<1> QED BY <1>3, <1>4
-----------------------------------------------------------------------------
(***************************************************************************)
(* The stored templates.  A server that serves has stored every template   *)
(* that one of its instances advertises, and was not asked before.         *)
(***************************************************************************)
LEMMA StoredEntries ==
    ASSUME CatalogueInv
    PROVE  /\ Entries(stored, loaded)
           /\ Listed(IDs(stored), loaded)
           /\ \A i \in DOMAIN stored : IDs(stored)[i] = stored[i].id
           /\ \A t \in ToSet(stored) : t \in ToSet(Catalogue)
<1> DEFINE C == Catalogue
<1>0. config \in Configs  BY DEF CatalogueInv
<1>a. C \in Seq(ToSet(C))
  BY Zenon, <1>0, CatalogueAssumption DEF Catalogue
<1>b. \A i, j \in DOMAIN C : C[i].id = C[j].id => i = j
  BY Zenon, <1>0, EntryAssumption DEF Catalogue
<1>1. C \in Seq(ToSet(C)) /\ \A i, j \in DOMAIN C : C[i].id = C[j].id => i = j
  BY <1>a, <1>b
<1>2. loaded \in 0 .. Len(C)  BY DEF CatalogueInv
<1>3. stored = SubSeq(C, 1, loaded)  BY DEF stored
<1> HIDE DEF C
<1>4. DOMAIN stored = 1 .. loaded /\ \A i \in DOMAIN stored : i \in DOMAIN C /\ stored[i] = C[i]
  BY <1>1, <1>2, <1>3
<1>5. Entries(stored, loaded)  BY <1>1, <1>2, <1>4 DEF Entries, Listed
<1>6. \A t \in ToSet(stored) : t \in ToSet(C)  BY <1>4 DEF ToSet
<1>7. DOMAIN IDs(stored) = DOMAIN stored /\ \A i \in DOMAIN stored : IDs(stored)[i] = stored[i].id
  BY DEF IDs
<1> QED BY <1>2, <1>4, <1>5, <1>6, <1>7 DEF Listed, C

LEMMA EntryUnique ==
    ASSUME CatalogueInv, NEW t \in ToSet(stored), NEW u \in ToSet(stored), t.id = u.id
    PROVE  t = u
  BY StoredEntries DEF Entries, ToSet

LEMMA EntryOf ==
    ASSUME CatalogueInv, NEW t \in ToSet(stored)
    PROVE  /\ (CHOOSE u \in ToSet(stored) : u.id = t.id) = t
           /\ Details(t.id) = t.details /\ OpsOf(t.id) = t.ops
           /\ t.id \in ToSet(IDs(stored))
<1>1. (CHOOSE u \in ToSet(stored) : u.id = t.id) = t  BY EntryUnique
<1>2. t.id \in ToSet(IDs(stored))  BY DEF ToSet, IDs
<1> QED BY <1>1, <1>2 DEF Details, OpsOf

LEMMA EntryWith ==
    ASSUME NEW id \in ToSet(IDs(stored))
    PROVE  \E t \in ToSet(stored) : t.id = id
  BY DEF ToSet, IDs

ReadyInv ==
    /\ phase # "serving" => answer = NoAnswer
    /\ phase = "serving" => \A b \in ToSet(backends) : b.algorithms \subseteq ToSet(IDs(stored))

LEMMA ReadyInitially == Init => ReadyInv
  BY DEF Init, ReadyInv

LEMMA ReadyKept ==
    ASSUME Inv, ReadyInv, [Next]_vars
    PROVE  ReadyInv'
<1>1. CASE StartUp /\ phase' # "serving"
  BY <1>1, StartUpKeeps DEF ReadyInv
<1>2. CASE StartUp /\ phase' = "serving"
  <2>1. phase = "validate" /\ UNCHANGED <<config, loaded, backends, answer>>
        /\ \A b \in ToSet(backends) : ValidateProviderCapabilities(b)
    <3>1. Inv => phase \in Phases  BY DEF Inv, InstancesInv
    <3>2. phase # "serving"  BY <1>2, StartUpKeeps
    <3>3. ~ Register /\ ~ RegisterSoftware /\ ~ RegisterOpenSSL /\ ~ registerFIPSProvider
      BY <1>2, <3>2 DEF Register, RegisterSoftware, RegisterOpenSSL, registerFIPSProvider
    <3>4. ValidateAllProviders  BY <1>2, <3>3 DEF StartUp
    <3> QED BY <1>2, <3>4, Zenon DEF ValidateAllProviders
  <2>2. ASSUME NEW b \in ToSet(backends), NEW id \in b.algorithms  PROVE id \in ToSet(IDs(stored))
    <3>1. Ok(Get(stored, id, NoFault))  BY Zenon, <2>1 DEF ValidateProviderCapabilities
    <3> QED BY <3>1, Gets DEF Ok
  <2>3. stored' = stored  BY <2>1 DEF stored, Catalogue
  <2>4. ToSet(IDs(stored))' = ToSet(IDs(stored))  BY <2>3 DEF IDs, ToSet
  <2> QED BY <1>2, <2>1, <2>2, <2>4 DEF ReadyInv
<1>3. CASE ~ StartUp
  <2>1. UNCHANGED <<phase, config, loaded, backends>>  BY <1>3, ServingKeeps
  <2>2. phase # "serving" => UNCHANGED answer
    <3>1. Query => phase = "serving"
      BY Zenon DEF Query, AskListScopes, AskListTemplates, AskGetTemplate, AskListProviderInstances,
               AskGetProviderInstance, AskMatchProviders, AskListProviders, AskGetProvider,
               Asking, Following
    <3>2. CreateKey => phase = "serving"  BY Zenon DEF CreateKey
    <3>3. \A op : Using(op) => phase = "serving"  BY Zenon DEF Using
    <3>4. \A op \in Producing : Checking(op) => phase = "serving"
      <4>1. \A op : Checking(op) => answer.rpc = op  BY Zenon DEF Checking
      <4> QED BY <4>1 DEF Inv, AnswerInv
    <3>5. MigrateKey => phase = "serving"  BY Zenon DEF MigrateKey
    <3> QED BY <1>3, <3>1, <3>2, <3>3, <3>4, <3>5
           DEF Next, vars, Sign, Verify, DigestSign, DigestVerify, Encrypt, Decrypt, Producing
  <2>3. stored' = stored  BY <2>1 DEF stored, Catalogue
  <2>4. ToSet(IDs(stored))' = ToSet(IDs(stored))  BY <2>3 DEF IDs, ToSet
  <2> QED BY <2>1, <2>2, <2>4 DEF ReadyInv
<1> QED BY <1>1, <1>2, <1>3
-----------------------------------------------------------------------------
(***************************************************************************)
(* Creation.  What a template is chosen from, and how creation answers.    *)
(***************************************************************************)
\* The request's candidates that an instance serves.
Served(cs, pinned, required) ==
    {i \in DOMAIN cs.ids : Ranked(Pool(pinned), cs.ids[i], required) # <<>>}

LEMMA Narrows ==
    ASSUME NEW cs, NEW pinned, NEW required
    PROVE  /\ cs.restricted => Narrowed(cs, pinned, required)
                               = [restricted |-> TRUE, ids |-> InOrder(cs.ids, Served(cs, pinned, required))]
           /\ ~ cs.restricted => Narrowed(cs, pinned, required) = cs
  BY Zenon DEF Narrowed, Served, Only

\* The template of a key is the first of the request's candidates that is
\* neither without an instance nor passed over.
Chosen(asked, template) ==
    LET ids == Candidate(stored, asked.cs) IN
    /\ Listed(ids, Len(ids))
    /\ \E t \in ToSet(stored) :
          /\ t.id = template
          /\ MatchesScope(t, asked.spec)
          /\ \E p \in DOMAIN ids :
                /\ ids[p] = template
                /\ \A i \in DOMAIN ids : i < p =>
                      \/ PassedOver(stored, ids[i], asked.spec, asked.fault)
                         /\ ids[i] \in ToSet(IDs(stored))
                      \/ asked.cs.restricted
                         /\ Ranked(Pool(asked.pinned), ids[i], asked.required) = <<>>

\* A request's candidates are a list.
LEMMA CandidatesListed ==
    ASSUME CatalogueInv,
           NEW cs \in Candidates \cup {Only(<<id>>) : id \in ToSet(IDs(stored))} \cup {Unrestricted}
    PROVE  /\ cs.restricted => cs.ids \in Seq(ToSet(cs.ids))
           /\ Listed(Candidate(stored, cs), Len(Candidate(stored, cs)))
<1>1. cs.restricted => cs.ids \in Seq(ToSet(cs.ids))
  <2>1. CASE cs \in Candidates  BY <2>1, EntryAssumption
  <2>2. ASSUME NEW id, cs = Only(<<id>>) PROVE cs.ids \in Seq(ToSet(cs.ids))
    <3>1. cs.ids = <<id>>  BY <2>2 DEF Only
    <3>2. ToSet(<<id>>) = {id}  BY DEF ToSet
    <3> QED BY <3>1, <3>2
  <2>3. CASE cs = Unrestricted  BY <2>3 DEF Unrestricted
  <2> QED BY <2>1, <2>2, <2>3
<1>2. CASE cs.restricted
  BY <1>1, <1>2 DEF Candidate, Listed
<1>3. CASE ~ cs.restricted
  <2>1. Candidate(stored, cs) = IDs(stored)  BY <1>3 DEF Candidate
  <2>2. Listed(IDs(stored), loaded) /\ loaded \in Nat  BY StoredEntries DEF Listed
  <2>3. Len(IDs(stored)) = loaded
    <3>1. IDs(stored) = [i \in 1 .. loaded |-> stored[i].id]
      BY StoredEntries DEF IDs, Entries, Listed
    <3> QED BY <2>2, <3>1
  <2> QED BY <1>1, <2>1, <2>2, <2>3
<1> QED BY <1>1, <1>2, <1>3
LEMMA CreatedChosen ==
    ASSUME InstancesInv, CatalogueInv, ReadyInv, phase = "serving",
           NEW cs \in Candidates \cup {Only(<<id>>) : id \in ToSet(IDs(stored))} \cup {Unrestricted},
           NEW spec, NEW pinned, NEW required, NEW fault, NEW asked,
           asked = [cs |-> cs, spec |-> spec, pinned |-> pinned, required |-> required, fault |-> fault],
           Ok(Created(cs, spec, pinned, required, fault))
    PROVE  Chosen(asked, Created(cs, spec, pinned, required, fault).how.template)
<1> DEFINE narrowed == Narrowed(cs, pinned, required)
           selected == Select(stored, spec, narrowed, fault)
           k == Created(cs, spec, pinned, required, fault).how
           ids == Candidate(stored, cs)
           some == Candidate(stored, narrowed)
           at == Served(cs, pinned, required)
<1> SUFFICES Chosen(asked, k.template)  OBVIOUS
<1>0. asked.cs = cs /\ asked.spec = spec /\ asked.pinned = pinned /\ asked.required = required
      /\ asked.fault = fault
  OBVIOUS
<1>1. Ok(selected) /\ k.template = selected.how.id
  <2> DEFINE ranked   == Ranked(Pool(pinned), selected.how.id, required)
             made     == GenerateKey(ranked[1], selected.how.details)
             h        == [id |-> "k1", template |-> selected.how.id,
                          holder |-> ranked[1].name, required |-> required,
                          type |-> made.how.type, size |-> made.how.size,
                          private |-> made.how.private, public |-> made.how.public]
             v        == Created(cs, spec, pinned, required, fault)
  <2>1. \/ v = Refuse("ProviderNotFound")
        \/ v = Refuse("FailedPrecondition")
        \/ v = selected /\ ~ Ok(selected)
        \/ v = made /\ ~ Ok(made)
        \/ v = Answer(<<>>, h) /\ Ok(selected)
    BY Zenon DEF Created
  <2>2. Ok(v) /\ h.template = selected.how.id
    <3> HIDE DEF selected, made, ranked
    <3> QED OBVIOUS
  <2>3. ~ Ok(Refuse("ProviderNotFound")) /\ ~ Ok(Refuse("FailedPrecondition"))
    BY DEF Refuse, Require, Answer, Ok
  <2> HIDE DEF v, h, made, ranked, selected
  <2>4. v = Answer(<<>>, h) /\ Ok(selected)  BY <2>1, <2>2, <2>3
  <2>5. v.how = h  BY <2>4 DEF Answer
  <2> QED BY <2>2, <2>4, <2>5 DEF v
<1>2. /\ cs.restricted => cs.ids \in Seq(ToSet(cs.ids))
      /\ Listed(ids, Len(ids))
  BY CandidatesListed
<1>3. CASE cs.restricted
  <2>1. ids = cs.ids  BY <1>3 DEF Candidate
  <2>2. narrowed.restricted /\ narrowed.ids = InOrder(cs.ids, at) /\ some = InOrder(ids, at)
    BY <1>3, <2>1, Narrows DEF Candidate
  <2>3. Len(ids) \in Nat /\ DOMAIN ids = 1 .. Len(ids)  BY <1>2 DEF Listed
  <2>4. at \in SUBSET (1 .. Len(ids)) /\ \A i \in DOMAIN ids :
            i \in at <=> Ranked(Pool(pinned), ids[i], required) # <<>>
    BY <2>1, <2>3 DEF Served
  <2> HIDE DEF at, ids, some, narrowed
  <2>5. /\ Cardinality(at) \in Nat
        /\ DOMAIN some = 1 .. Cardinality(at)
        /\ \A n \in DOMAIN some : some[n] = ids[Place(at, n)]
    <3>1. /\ Cardinality(at) \in Nat
          /\ DOMAIN InOrder(ids, at) = 1 .. Cardinality(at)
          /\ \A n \in DOMAIN InOrder(ids, at) : InOrder(ids, at)[n] = ids[Place(at, n)]
      BY <2>3, <2>4, Ordered
    <3> QED BY <2>2, <3>1
  <2>6. /\ \A n \in 1 .. Cardinality(at) : Place(at, n) \in at
        /\ \A i \in at : \E n \in 1 .. Cardinality(at) : Place(at, n) = i
        /\ \A m, n \in 1 .. Cardinality(at) : m < n => Place(at, m) < Place(at, n)
    BY <2>3, <2>4, Placing
  <2>7. Listed(some, Cardinality(at))  BY <2>5 DEF Listed
  <2>8. narrowed.ids \in Seq(ToSet(narrowed.ids))
    <3>1. narrowed.ids = [n \in 1 .. Cardinality(at) |-> cs.ids[Place(at, n)]]
      BY <2>2, InOrderPlaces
    <3>2. \A n \in 1 .. Cardinality(at) : narrowed.ids[n] \in ToSet(narrowed.ids)
      BY <3>1 DEF ToSet
    <3> QED BY <2>5, <3>1, <3>2
  <2>9. FirstOf(stored, some, spec, fault, selected.how)
    BY <1>1, <2>7, <2>8, Selects DEF some
  <2> DEFINE t == selected.how
  <2> HIDE DEF t
  <2>10. t \in ToSet(stored) /\ MatchesScope(t, spec)  BY <2>9 DEF FirstOf, t
  <2>11. PICK n \in DOMAIN some :
            /\ some[n] = t.id
            /\ \A i \in DOMAIN some : i < n => PassedOver(stored, some[i], spec, fault)
    BY <2>9 DEF FirstOf, t
  <2> DEFINE p == Place(at, n)
  <2>12. p \in at /\ p \in DOMAIN ids /\ ids[p] = t.id
    BY <2>3, <2>4, <2>5, <2>6, <2>11
  <2>13. ASSUME NEW i \in DOMAIN ids, i < p
         PROVE  \/ PassedOver(stored, ids[i], spec, fault) /\ ids[i] \in ToSet(IDs(stored))
                \/ cs.restricted /\ Ranked(Pool(pinned), ids[i], required) = <<>>
    <3>1. CASE i \notin at  BY <1>3, <2>4, <3>1
    <3>2. CASE i \in at
      <4>1. PICK m \in 1 .. Cardinality(at) : Place(at, m) = i  BY <2>6, <3>2
      <4>2. m < n
        <5>1. m \in Nat /\ n \in Nat /\ n \in 1 .. Cardinality(at)  BY <2>5, <4>1
        <5>2. i \in Nat /\ p \in Nat
          <6> HIDE DEF p
          <6> QED BY <2>3, <2>12
        <5>3. n = m => p = i  BY <4>1
        <5>4. n < m => p < i  BY <2>6, <4>1, <5>1
        <5> HIDE DEF p
        <5> QED BY <2>13, <5>1, <5>2, <5>3, <5>4
      <4>3. PassedOver(stored, ids[i], spec, fault)  BY <2>5, <2>11, <4>1, <4>2
      <4>4. ids[i] \in ToSet(IDs(stored))
        <5>1. Ranked(Pool(pinned), ids[i], required) # <<>>  BY <2>4, <3>2
        <5>2. PICK b \in ToSet(backends) : ids[i] \in b.algorithms
          <6>1. DOMAIN Pool(pinned) \subseteq 1 .. 3
                /\ \A b \in ToSet(Pool(pinned)) : b \in ToSet(backends)
            BY PoolRegistered
          <6> QED BY <5>1, <6>1, RankedFirst DEF Eligible, AdvertisedBy
        <5> QED BY <5>2 DEF ReadyInv
      <4> QED BY <4>3, <4>4
    <3> QED BY <3>1, <3>2
  <2> HIDE DEF p, k
  <2>14. t.id = k.template  BY <1>1 DEF t
  <2> QED BY <1>0, <1>2, <2>10, <2>12, <2>13, <2>14 DEF Chosen, ids
<1>4. CASE ~ cs.restricted
  <2>1. narrowed = cs /\ some = ids /\ ids = IDs(stored)  BY <1>4, Narrows DEF Candidate
  <2> HIDE DEF ids, some, narrowed
  <2>2. FirstOf(stored, some, spec, fault, selected.how)
    BY <1>1, <1>2, <1>4, <2>1, Selects DEF some
  <2> DEFINE t == selected.how
  <2> HIDE DEF t
  <2>3. t \in ToSet(stored) /\ MatchesScope(t, spec)  BY <2>2 DEF FirstOf, t
  <2>4. PICK p \in DOMAIN some :
            /\ some[p] = t.id
            /\ \A i \in DOMAIN some : i < p => PassedOver(stored, some[i], spec, fault)
    BY <2>2 DEF FirstOf, t
  <2>5. \A i \in DOMAIN ids : ids[i] \in ToSet(IDs(stored))
    BY <2>1 DEF ToSet
  <2> HIDE DEF k
  <2>6. t.id = k.template  BY <1>1 DEF t
  <2> QED BY <1>0, <1>2, <2>1, <2>3, <2>4, <2>5, <2>6 DEF Chosen, ids
<1> QED BY <1>3, <1>4
LEMMA ChosenKept ==
    ASSUME UNCHANGED <<config, loaded, backends>>
    PROVE  Chosen(answer.asked, key.template)' <=> Chosen(answer'.asked, key'.template)
<1>1. stored' = stored  BY DEF stored, Catalogue
<1>2. \A pinned : Pool(pinned)' = Pool(pinned)
  <2> TAKE pinned
  <2>1. Backend(pinned)' = Backend(pinned)  BY DEF Backend
  <2>2. Named(backends, pinned)' = Named(backends, pinned)  OBVIOUS
  <2> QED BY Zenon, <2>1, <2>2 DEF Pool
<1> QED BY Zenon, <1>1, <1>2 DEF Chosen, Candidate, PassedOver

\* The answers to queries.
Queries == {"ListScopes", "ListTemplates", "GetTemplate", "ListProviderInstances",
            "GetProviderInstance", "MatchProviders", "ListProviders", "GetProvider"}

LEMMA QueryAnswers == Query => answer'.rpc \in Queries
<1>1. \A rpc, asked, reply : Told(rpc, asked, reply) => answer'.rpc = rpc
  BY DEF Told
<1>2. Query => \/ answer'.rpc = "ListScopes" \/ answer'.rpc = "ListTemplates"
               \/ answer'.rpc = "GetTemplate" \/ answer'.rpc = "ListProviderInstances"
               \/ answer'.rpc = "GetProviderInstance" \/ answer'.rpc = "MatchProviders"
               \/ answer'.rpc = "ListProviders" \/ answer'.rpc = "GetProvider"
  BY Zenon, <1>1 DEF Query, AskListScopes, AskListTemplates, AskGetTemplate, AskListProviderInstances,
         AskGetProviderInstance, AskMatchProviders, AskListProviders, AskGetProvider
<1> QED BY <1>2 DEF Queries

ChosenInv ==
    answer.rpc = "CreateKey" /\ answer.code = "OK" => Chosen(answer.asked, key.template)

LEMMA CreateKeyChooses ==
    ASSUME Inv, ReadyInv, CreateKey
    PROVE  ChosenInv'
<1>0. PICK cs \in Candidates \cup {Only(<<id>>) : id \in ToSet(IDs(stored))} \cup {Unrestricted},
           spec \in Specs \cup {NoScope}, pinned \in {""} \cup ToSet(NameOrder),
           required \in {r \in Requirements : r.valid}, fault \in Faults :
        LET made == Created(cs, spec, pinned, required, fault) IN
        /\ cs = Unrestricted => spec # NoScope
        /\ key' = IF Ok(made) THEN made.how ELSE NoKey
        /\ answer' = [rpc |-> "CreateKey", code |-> made.code,
                      asked |-> [cs |-> cs, spec |-> spec, pinned |-> pinned,
                                 required |-> required, fault |-> fault]]
  BY Zenon DEF CreateKey
<1> DEFINE v == Created(cs, spec, pinned, required, fault)
           asked == [cs |-> cs, spec |-> spec, pinned |-> pinned, required |-> required, fault |-> fault]
<1>1. UNCHANGED <<phase, config, loaded, backends>> /\ phase = "serving"
  BY Zenon DEF CreateKey
<1>2. key' = (IF Ok(v) THEN v.how ELSE NoKey) /\ answer'.code = v.code /\ answer'.asked = asked
  <2>1. key' = (IF Ok(v) THEN v.how ELSE NoKey)
        /\ answer' = [rpc |-> "CreateKey", code |-> v.code, asked |-> asked]
    BY <1>0
  <2> HIDE DEF v, asked
  <2> QED BY <2>1
<1>3. Ok(v) => Chosen(asked, v.how.template)
  BY <1>1, CreatedChosen DEF Inv
<1> HIDE DEF v, asked
<1>4. answer'.code = "OK" => Chosen(answer'.asked, key'.template)
  BY <1>2, <1>3 DEF Ok
<1> QED BY <1>1, <1>4, ChosenKept DEF ChosenInv

LEMMA ChosenStep ==
    ASSUME Inv, ReadyInv, ChosenInv, [Next]_vars
    PROVE  ChosenInv'
<1>1. CASE StartUp
  BY <1>1, StartUpKeeps DEF ReadyInv, ChosenInv, NoAnswer
<1>2. CASE Query
  BY <1>2, QueryAnswers DEF ChosenInv, Queries
<1>3. CASE CreateKey
  BY <1>3, CreateKeyChooses
<1>4. ASSUME NEW op \in Producing, Using(op)  PROVE ChosenInv'
  <2>1. answer'.rpc = op  BY <1>4 DEF Using
  <2> QED BY <2>1 DEF ChosenInv, Producing
<1>5. ASSUME NEW op \in Producing, Checking(op)  PROVE ChosenInv'
  <2>1. answer.rpc = op /\ \E c : answer' = [answer EXCEPT !.checked = c]
    BY Zenon, <1>5 DEF Checking
  <2>2. Artefact(answer)  BY <2>1 DEF Inv, AnswerInv
  <2>3. answer'.rpc = op  BY <2>1, <2>2 DEF Artefact
  <2> QED BY <2>3 DEF ChosenInv, Producing
<1>6. CASE MigrateKey
  <2>1. UNCHANGED <<phase, config, loaded, backends>> /\ key # NoKey  BY Zenon, <1>6 DEF MigrateKey
  <2>2. \/ \E h : key' = [key EXCEPT !.holder = h] /\ answer' = answer
        \/ answer'.rpc = "MigrateKey"
    BY <1>6 DEF MigrateKey
  <2>3. CASE answer'.rpc = "MigrateKey"  BY <2>3 DEF ChosenInv
  <2>4. ASSUME NEW h, key' = [key EXCEPT !.holder = h], answer' = answer  PROVE ChosenInv'
    <3>1. key'.template = key.template  BY <2>1, <2>4 DEF Inv, KeyInv, Formed
    <3> QED BY <2>1, <2>4, <3>1, ChosenKept DEF ChosenInv
  <2> QED BY <2>2, <2>3, <2>4
<1>7. CASE UNCHANGED vars
  BY <1>7, ChosenKept DEF ChosenInv, vars
<1> QED BY <1>1, <1>2, <1>3, <1>4, <1>5, <1>6, <1>7
       DEF Next, Sign, Verify, DigestSign, DigestVerify, Encrypt, Decrypt, Producing

LEMMA ChosenAllowed ==
    ASSUME CatalogueInv, ChosenInv
    PROVE  SelectedAllowed
<1> SUFFICES ASSUME answer.rpc = "CreateKey", answer.code = "OK"  PROVE SelectedAllowed
  BY DEF SelectedAllowed
<1> DEFINE asked == answer.asked
           ids == IF asked.cs.restricted THEN asked.cs.ids ELSE IDs(stored)
           Entry(id) == CHOOSE u \in ToSet(stored) : u.id = id
<1>1. Chosen(asked, key.template) /\ ids = Candidate(stored, asked.cs)
  BY DEF ChosenInv, Candidate
<1>2. PICK t \in ToSet(stored) :
        /\ t.id = key.template
        /\ MatchesScope(t, asked.spec)
        /\ \E p \in DOMAIN ids :
              /\ ids[p] = key.template
              /\ \A i \in DOMAIN ids : i < p =>
                    \/ PassedOver(stored, ids[i], asked.spec, asked.fault)
                       /\ ids[i] \in ToSet(IDs(stored))
                    \/ asked.cs.restricted
                       /\ Ranked(Pool(asked.pinned), ids[i], asked.required) = <<>>
  <2> HIDE DEF ids
  <2> QED BY <1>1 DEF Chosen
<1>3. PICK p \in DOMAIN ids :
              /\ ids[p] = key.template
              /\ \A i \in DOMAIN ids : i < p =>
                    \/ PassedOver(stored, ids[i], asked.spec, asked.fault)
                       /\ ids[i] \in ToSet(IDs(stored))
                    \/ asked.cs.restricted
                       /\ Ranked(Pool(asked.pinned), ids[i], asked.required) = <<>>
  BY <1>2
<1>4. \A u \in ToSet(stored) : Entry(u.id) = u  BY EntryOf
<1> HIDE DEF Entry
<1>5. \A id : PassedOver(stored, id, asked.spec, asked.fault) /\ id \in ToSet(IDs(stored)) =>
          id \in asked.fault.lost \/ ~ MatchesScope(Entry(id), asked.spec)
  BY <1>4 DEF PassedOver
<1>6. ASSUME NEW i \in DOMAIN ids
      PROVE  \/ key.template \in {ids[j] : j \in 1 .. i}
             \/ ids[i] \in asked.fault.lost
             \/ asked.cs.restricted /\ Ranked(Pool(asked.pinned), ids[i], asked.required) = <<>>
             \/ ~ MatchesScope(Entry(ids[i]), asked.spec)
  <2>1. PICK n \in Nat : DOMAIN ids = 1 .. n
    <3> HIDE DEF ids
    <3> QED BY <1>1 DEF Chosen, Listed
  <2>2. CASE i < p  BY <1>3, <1>5, <2>2
  <2>3. CASE ~ (i < p)
    <3>1. p \in 1 .. i  BY <1>3, <2>1, <2>3
    <3> QED BY <1>3, <3>1
  <2> QED BY <2>2, <2>3
<1>7. key.template \in ToSet(ids)
  <2> HIDE DEF ids
  <2> QED BY <1>3 DEF ToSet
<1>8. MatchesScope(Entry(key.template), asked.spec)
  BY <1>2, <1>4
<1> QED BY Zenon, <1>6, <1>7, <1>8 DEF SelectedAllowed, Entry
\* CreateKey gives the key the first template, among the candidates that an
\* eligible instance serves, that offers the scope; an earlier one is passed
\* over only when its entry could not be read (Select, selectTemplatesWithIDs).
\* Every candidate that is served is stored, for the server serves only when
\* it has validated its providers (ValidateAllProviders).
THEOREM SelectedAllowedHolds == Spec => []SelectedAllowed
<1> DEFINE I == Inv /\ ReadyInv /\ ChosenInv
<1>1. Init => I
  <2>1. Init => ChosenInv  BY DEF Init, ChosenInv, NoAnswer
  <2> QED BY <2>1, Initially, ReadyInitially
<1>2. I /\ [Next]_vars => I'
  BY Kept, ReadyKept, ChosenStep
<1>3. I => SelectedAllowed
  BY ChosenAllowed DEF Inv
<1> QED BY <1>1, <1>2, <1>3, PTL DEF Spec

-----------------------------------------------------------------------------
(***************************************************************************)
(* Listings.  A query's answer is what its handler replies, for as long as *)
(* the client keeps it.                                                    *)
(***************************************************************************)
Replied(v) == answer.code = v.code /\ answer.reply = v.how

\* The names of the scopes that templates offer.
Names(templates) == UNION {{s.name : s \in t.scopes} : t \in ToSet(templates)}

LEMMA OffersScopes ==
    ASSUME NEW templates
    PROVE  LET v == offeredScopes(templates) IN
           IF \A t \in ToSet(templates) : Unreadable \notin t.scopes
           THEN v.code = "OK" /\ DOMAIN v.how = Names(templates)
           ELSE v.code = "Internal"
<1> DEFINE v == offeredScopes(templates)
           fine == \A t \in ToSet(templates) : Unreadable \notin t.scopes
           names == UNION {{s.name : s \in t.scopes} : t \in ToSet(templates)}
           how == [n \in names |-> UNION {t.ops : t \in {u \in ToSet(templates) :
                                                    \E s \in u.scopes : s.name = n}}]
<1>1. v = Answer(Require(fine, "Internal"), how)
  BY Zenon DEF offeredScopes
<1>2. DOMAIN how = Names(templates)
  <2>1. names = Names(templates)  BY Zenon DEF Names
  <2> HIDE DEF names
  <2> QED BY <2>1
<1> HIDE DEF v, fine, how
<1>3. fine => v.code = "OK" /\ v.how = how  BY <1>1 DEF Answer, Require
<1>4. ~ fine => v.code = "Internal"
  <2>1. ~ fine => Require(fine, "Internal") = <<"Internal">>  BY DEF Require
  <2> QED BY <1>1, <2>1 DEF Answer
<1> QED BY <1>2, <1>3, <1>4 DEF fine, v

\* ListScopes and selection by scope agree.
LEMMA ScopesAgree ==
    ASSUME NEW entries, NEW len, Entries(entries, len), Listed(IDs(entries), len), NEW fault,
           ~ fault.list, NEW name, name # NoScope.name
    PROVE  LET v == ListScopes(entries, fault)
               found == Select(entries, [name |-> name, fips |-> FALSE], Unrestricted, fault)
           IN /\ v.code = "OK" <=> found.code \in {"OK", "TemplateNotFound"}
              /\ v.code = "OK" => (name \in DOMAIN v.how <=> Ok(found))
<1> DEFINE v == ListScopes(entries, fault)
           spec == [name |-> name, fips |-> FALSE]
           found == Select(entries, spec, Unrestricted, fault)
           r == Read(entries, IDs(entries), fault)
           m == selectTemplatesWithIDs(entries, IDs(entries), spec, fault)
           fine == \A t \in ToSet(r) : Unreadable \notin t.scopes
<1>1. IF fine THEN v.code = "OK" /\ DOMAIN v.how = Names(r) ELSE v.code = "Internal"
  <2>1. v = offeredScopes(r)  BY DEF ListScopes, List
  <2> HIDE DEF r, v
  <2> QED BY <2>1, OffersScopes
<1>2. spec # NoScope  BY DEF NoScope
<1>3. ~ Unrestricted.restricted /\ Candidate(entries, Unrestricted) = IDs(entries)
  BY DEF Unrestricted, Candidate
<1>4. IF m.code # "OK" THEN found = m
      ELSE IF m.how = <<>> THEN found.code = "TemplateNotFound"
      ELSE found.code = "OK" /\ found.how = m.how[1]
  <2> DEFINE n == selectTemplatesWithIDs(entries, Candidate(entries, Unrestricted), spec, fault)
  <2>1. IF Unrestricted.restricted /\ Len(Unrestricted.ids) = 1 /\ spec = NoScope
        THEN found = Get(entries, Unrestricted.ids[1], fault)
        ELSE IF ~ Unrestricted.restricted /\ fault.list THEN found.code = "Unknown"
        ELSE IF n.code # "OK" THEN found = n
        ELSE IF n.how = <<>> THEN found.code = "TemplateNotFound"
        ELSE found.code = "OK" /\ found.how = n.how[1]
    BY SelectCases
  <2>2. n = m  BY <1>3
  <2> HIDE DEF n, m, found, spec
  <2> QED BY <1>3, <2>1, <2>2
<1>5. IF Legible(r, spec) THEN m.code = "OK" /\ m.how = InOrder(r, Offering(r, spec))
                          ELSE m.code = "UnreadableScope"
  BY Matching
<1>6. PICK n \in Nat : DOMAIN r = 1 .. n  BY Reads
<1> HIDE DEF r, m, found, v
<1>7. Legible(r, spec) <=> fine
  BY <1>2 DEF Legible, ScopeError, ToSet
<1>8. InOrder(r, Offering(r, spec)) = <<>> <=> Offering(r, spec) = {}
  <2>1. Offering(r, spec) \in SUBSET (1 .. n)  BY <1>6 DEF Offering
  <2> QED BY <2>1, Ordered
<1>9. Offering(r, spec) # {} <=> name \in Names(r)
  <2>1. \A t : MatchesScope(t, spec) <=> \E s \in t.scopes : s.name = name
    BY <1>2 DEF MatchesScope
  <2>2. name \in Names(r) <=> \E t \in ToSet(r) : \E s \in t.scopes : s.name = name
    BY DEF Names
  <2>3. Offering(r, spec) # {} <=> \E t \in ToSet(r) : MatchesScope(t, spec)
    BY DEF Offering, ToSet
  <2> QED BY <2>1, <2>2, <2>3
<1> HIDE DEF fine, spec
<1>10. /\ v.code = "OK" <=> found.code \in {"OK", "TemplateNotFound"}
       /\ v.code = "OK" => (name \in DOMAIN v.how <=> Ok(found))
  BY <1>1, <1>4, <1>5, <1>7, <1>8, <1>9 DEF Ok
<1> QED BY <1>10 DEF v, found, spec

LEMMA ScopesReplied ==
    ASSUME CatalogueInv, answer.rpc = "ListScopes" => Replied(ListScopes(stored, answer.asked.fault))
    PROVE  ScopesUsable
<1> SUFFICES ASSUME answer.rpc = "ListScopes"  PROVE ScopesUsable
  BY DEF ScopesUsable
<1> DEFINE f == answer.asked.fault
           found(name) == Select(stored, [name |-> name, fips |-> FALSE], Unrestricted, f)
           v == ListScopes(stored, f)
           names == {s.name : s \in UNION {t.scopes : t \in ToSet(stored)}} \ {Unreadable.name}
<1>1. answer.code = v.code /\ answer.reply = v.how  BY DEF Replied
<1>2. f.list => answer.code = "OK" /\ DOMAIN answer.reply = {}
  <2> SUFFICES ASSUME f.list  PROVE answer.code = "OK" /\ DOMAIN answer.reply = {}
    OBVIOUS
  <2>1. v = offeredScopes(<<>>)  BY DEF ListScopes, List
  <2>2. ToSet(<<>>) = {}  BY DEF ToSet
  <2>3. Names(<<>>) = {}  BY <2>2 DEF Names
  <2> HIDE DEF v
  <2> QED BY <1>1, <2>1, <2>2, <2>3, OffersScopes
<1>3. ASSUME ~ f.list, NEW name \in names
      PROVE  /\ answer.code = "OK" <=> found(name).code \in {"OK", "TemplateNotFound"}
             /\ answer.code = "OK" => (name \in DOMAIN answer.reply <=> Ok(found(name)))
  <2>1. name # NoScope.name
    <3>1. \A t \in ToSet(stored) : \A s \in t.scopes : s.name # NoScope.name
      <4>1. \A t \in ToSet(Catalogue) : \A s \in t.scopes : s.name # NoScope.name
        BY EntryAssumption, Zenon DEF CatalogueInv, Catalogue
      <4> QED BY <4>1, StoredEntries
    <3> QED BY <3>1
  <2>2. Entries(stored, loaded) /\ Listed(IDs(stored), loaded)  BY StoredEntries
  <2>3. /\ v.code = "OK" <=> found(name).code \in {"OK", "TemplateNotFound"}
        /\ v.code = "OK" => (name \in DOMAIN v.how <=> Ok(found(name)))
    BY <1>3, <2>1, <2>2, ScopesAgree
  <2> HIDE DEF v, found
  <2> QED BY <1>1, <2>3
<1> QED BY Zenon, <1>2, <1>3 DEF ScopesUsable

\* A page shows items of the listing, and all of them if it is not bounded.
LEMMA Pages ==
    ASSUME NEW S, NEW items \in Seq(S), NEW size \in Int, NEW token \in Nat
    PROVE  LET v == Page(items, size, token) IN
           /\ size = 0 /\ token = 0 => v.code = "OK" /\ v.how.items = items
           /\ v.code = "OK" => /\ v.how.next \in Nat
                               /\ \A x \in ToSet(v.how.items) : x \in ToSet(items)
<1> DEFINE v == Page(items, size, token)
           end == IF size > 0 /\ size < Len(items) - token THEN token + size ELSE Len(items)
           fine == size >= 0 /\ token <= Len(items)
           how == [items |-> SubSeq(items, token + 1, end), next |-> IF end < Len(items) THEN end ELSE 0]
<1>1. v = Answer(Require(fine, "InvalidArgument"), how)
  BY Zenon DEF Page
<1>2. how.items = SubSeq(items, token + 1, end) /\ how.next = IF end < Len(items) THEN end ELSE 0
  <2> HIDE DEF end
  <2> QED OBVIOUS
<1>3. fine => end \in Nat /\ end <= Len(items)  OBVIOUS
<1>4. fine => \A x \in ToSet(SubSeq(items, token + 1, end)) : x \in ToSet(items)
  <2> SUFFICES ASSUME fine, NEW x \in ToSet(SubSeq(items, token + 1, end))  PROVE x \in ToSet(items)
    OBVIOUS
  <2>1. PICK i \in DOMAIN SubSeq(items, token + 1, end) : x = SubSeq(items, token + 1, end)[i]
    BY DEF ToSet
  <2>2. end \in Nat /\ end <= Len(items)  BY <1>3
  <2> HIDE DEF end
  <2>3. token + i \in DOMAIN items /\ x = items[token + i]  BY <2>1, <2>2
  <2> QED BY <2>3 DEF ToSet
<1>5. size = 0 /\ token = 0 => fine /\ SubSeq(items, token + 1, end) = items
  <2> SUFFICES ASSUME size = 0, token = 0 PROVE fine /\ SubSeq(items, token + 1, end) = items
    OBVIOUS
  <2>1. fine /\ end = Len(items)  OBVIOUS
  <2>2. SubSeq(items, 1, Len(items)) = items  OBVIOUS
  <2> QED BY <2>1, <2>2
<1>6. fine => v.code = "OK" /\ v.how = how
  <2> HIDE DEF how, fine, v
  <2> QED BY <1>1 DEF Answer, Require
<1>7. ~ fine => v.code = "InvalidArgument"
  <2> HIDE DEF how, fine, v
  <2>1. ~ fine => Require(fine, "InvalidArgument") = <<"InvalidArgument">>  BY DEF Require
  <2> QED BY <1>1, <2>1 DEF Answer
<1>8. fine => how.next \in Nat  BY <1>2, <1>3
<1> HIDE DEF v, how, fine, end
<1>9. /\ size = 0 /\ token = 0 => v.code = "OK" /\ v.how.items = items
      /\ v.code = "OK" => v.how.next \in Nat /\ \A x \in ToSet(v.how.items) : x \in ToSet(items)
  BY <1>2, <1>4, <1>5, <1>6, <1>7, <1>8
<1> QED BY <1>9 DEF v

\* A template that is stored, can be read and offers the scope is selected if
\* it is the only candidate.
LEMMA SelectsOnly ==
    ASSUME NEW entries, NEW len, Entries(entries, len), NEW t \in ToSet(entries), NEW fault, NEW spec,
           t.id \notin fault.lost, MatchesScope(t, spec), ~ ScopeError(t, spec)
    PROVE  LET s == Select(entries, spec, Only(<<t.id>>), fault) IN s.code = "OK" /\ s.how = t
<1> DEFINE id == t.id
           cs == Only(<<id>>)
           s == Select(entries, spec, cs, fault)
           m == selectTemplatesWithIDs(entries, <<id>>, spec, fault)
           r == Read(entries, <<id>>, fault)
<1>1. \A u \in ToSet(entries) : u.id = id => u = t
  BY DEF Entries, ToSet
<1>2. id \in ToSet(IDs(entries)) \ fault.lost  BY DEF ToSet, IDs
<1>3. cs.restricted /\ cs.ids = <<id>> /\ Len(cs.ids) = 1 /\ cs.ids[1] = id
      /\ Candidate(entries, cs) = <<id>>
  BY DEF Only, Candidate
<1>4. IF spec = NoScope THEN s = Get(entries, id, fault)
      ELSE IF m.code # "OK" THEN s = m
      ELSE IF m.how = <<>> THEN s.code = "TemplateNotFound"
      ELSE s.code = "OK" /\ s.how = m.how[1]
  <2> DEFINE n == selectTemplatesWithIDs(entries, Candidate(entries, cs), spec, fault)
  <2>1. IF cs.restricted /\ Len(cs.ids) = 1 /\ spec = NoScope
        THEN s = Get(entries, cs.ids[1], fault)
        ELSE IF ~ cs.restricted /\ fault.list THEN s.code = "Unknown"
        ELSE IF n.code # "OK" THEN s = n
        ELSE IF n.how = <<>> THEN s.code = "TemplateNotFound"
        ELSE s.code = "OK" /\ s.how = n.how[1]
    BY SelectCases
  <2>2. n = m  BY <1>3
  <2> HIDE DEF n, m, s, cs
  <2> QED BY <1>3, <2>1, <2>2
<1>5. spec = NoScope => s.code = "OK" /\ s.how = t
  <2> HIDE DEF s
  <2> QED BY <1>1, <1>2, <1>4, Gets
<1>6. DOMAIN r = {1} /\ r[1] = t  BY <1>1, <1>2, ReadAlone
<1>7. IF Legible(r, spec) THEN m.code = "OK" /\ m.how = InOrder(r, Offering(r, spec))
                          ELSE m.code = "UnreadableScope"
  BY Matching
<1> HIDE DEF r
<1>8. Legible(r, spec) /\ Offering(r, spec) = {1}  BY <1>6 DEF Legible, Offering
<1>9. InOrder(r, {1}) # <<>> /\ InOrder(r, {1})[1] = t
  <2>1. {1} \in SUBSET (1 .. 1) /\ 1 \in Nat  OBVIOUS
  <2>2. Cardinality({1}) = 1  BY FS_Singleton
  <2>3. /\ DOMAIN InOrder(r, {1}) = 1 .. Cardinality({1})
        /\ InOrder(r, {1}) = <<>> <=> {1} = {}
        /\ \A n \in DOMAIN InOrder(r, {1}) : InOrder(r, {1})[n] = r[Place({1}, n)]
    BY <2>1, Ordered
  <2>4. \A n \in 1 .. Cardinality({1}) : Place({1}, n) \in {1}  BY <2>1, Placing
  <2>5. 1 \in 1 .. Cardinality({1})  BY <2>2
  <2> QED BY <1>6, <2>3, <2>4, <2>5
<1> HIDE DEF m, s
<1>10. spec # NoScope => s.code = "OK" /\ s.how = t
  BY <1>4, <1>7, <1>8, <1>9
<1> QED BY <1>5, <1>10 DEF s
\* What a request has to name.
Nonempty(id) == id # ""

\* What ListTemplates lists, selection finds and GetTemplate returns.
LEMMA ListsSelectable ==
    ASSUME NEW entries, NEW len, Entries(entries, len), Listed(IDs(entries), len),
           \A t \in ToSet(entries) : Nonempty(t.id),
           NEW passing, NEW spec, NEW fault, NEW size \in Int, NEW token \in Nat,
           ListTemplates(entries, passing, spec, fault, size, token).code = "OK"
    PROVE  LET v == ListTemplates(entries, passing, spec, fault, size, token) IN
           /\ v.how.next \in Nat
           /\ \A id \in ToSet(v.how.items) :
                 /\ Ok(Select(entries, spec, Only(<<id>>), fault))
                 /\ Ok(GetTemplate(entries, id, fault))
<1> DEFINE v == ListTemplates(entries, passing, spec, fault, size, token)
           all == List(entries, fault)
           at == {i \in DOMAIN all : templateMatches(all[i], passing, spec)}
           listed == InOrder(all, at)
           items == IDs(listed)
           page == Page(items, size, token)
           wrong == \E t \in ToSet(all) : t.id \in passing /\ ScopeError(t, spec)
           r == Read(entries, IDs(entries), fault)
           ra == Readable(entries, IDs(entries), fault)
<1>1. \/ v = Refuse("InvalidArgument")
      \/ v = Refuse("UnreadableScope")
      \/ v = page /\ ~ wrong
  BY Zenon DEF ListTemplates
<1>2. Refuse("InvalidArgument").code # "OK" /\ Refuse("UnreadableScope").code # "OK"
  BY DEF Refuse, Require, Answer
<1>3. v = page /\ ~ wrong
  <2> HIDE DEF page, wrong, v
  <2>1. v.code = "OK"  BY DEF v
  <2> QED BY <1>1, <1>2, <2>1
<1>4. /\ ra \in SUBSET (1 .. len) /\ Cardinality(ra) \in Nat
      /\ DOMAIN r = 1 .. Cardinality(ra)
      /\ \A n \in DOMAIN r : r[n] \in ToSet(entries) /\ r[n].id = IDs(entries)[Place(ra, n)]
  BY Reads
<1>5. \A n \in DOMAIN r : r[n] \in ToSet(entries) /\ r[n].id \notin fault.lost
  <2> HIDE DEF r
  <2>1. len \in Nat  BY DEF Listed
  <2>2. \A n \in 1 .. Cardinality(ra) : Place(ra, n) \in ra
    <3> HIDE DEF ra
    <3> QED BY <1>4, <2>1, Placing
  <2>3. \A i \in ra : IDs(entries)[i] \notin fault.lost  BY DEF Readable
  <2> HIDE DEF ra
  <2> QED BY <1>4, <2>2, <2>3
<1>6. PICK n \in Nat : DOMAIN all = 1 .. n /\ \A i \in DOMAIN all :
          all[i] \in ToSet(entries) /\ all[i].id \notin fault.lost
  <2>1. CASE fault.list
    <3>1. all = <<>>  BY <2>1 DEF List
    <3>2. 0 \in Nat /\ DOMAIN all = 1 .. 0  BY <3>1
    <3>3. \A i \in DOMAIN all : FALSE  BY <3>1
    <3> HIDE DEF all
    <3> QED BY <3>2, <3>3
  <2>2. CASE ~ fault.list
    <3>1. all = r  BY <2>2 DEF List
    <3> HIDE DEF all, r
    <3> QED BY <1>4, <1>5, <3>1
  <2> QED BY <2>1, <2>2
<1> HIDE DEF r, ra, all
<1>7. at \in SUBSET (1 .. n) /\ \A i \in at : i \in DOMAIN all /\ all[i].id \in passing /\ MatchesScope(all[i], spec)
  BY <1>6 DEF templateMatches
<1> HIDE DEF at
<1>8. /\ Cardinality(at) \in Nat
      /\ DOMAIN listed = 1 .. Cardinality(at)
      /\ \A k \in DOMAIN listed : listed[k] = all[Place(at, k)]
  BY <1>7, Ordered
<1>9. \A k \in 1 .. Cardinality(at) : Place(at, k) \in at
  BY <1>7, Placing
<1> HIDE DEF listed
<1>10. items \in Seq(ToSet(items))
  <2>1. items = [k \in 1 .. Cardinality(at) |-> listed[k].id]  BY <1>8 DEF IDs
  <2>2. \A k \in 1 .. Cardinality(at) : items[k] \in ToSet(items)  BY <2>1 DEF ToSet
  <2> HIDE DEF items
  <2> QED BY <1>8, <2>1, <2>2
<1>11. ASSUME NEW id \in ToSet(items)
       PROVE  Ok(Select(entries, spec, Only(<<id>>), fault)) /\ Ok(GetTemplate(entries, id, fault))
  <2>1. PICK k \in DOMAIN listed : id = listed[k].id  BY <1>11 DEF ToSet, IDs
  <2>2. PICK i \in at : listed[k] = all[i]  BY <1>8, <1>9, <2>1
  <2> DEFINE t == all[i]
  <2>3. /\ t \in ToSet(entries) /\ t.id = id /\ t.id \notin fault.lost
        /\ MatchesScope(t, spec) /\ t.id \in passing
    BY <1>6, <1>7, <2>1, <2>2
  <2>4. ~ ScopeError(t, spec)
    <3>1. t \in ToSet(all)  BY <1>7, <2>2 DEF ToSet
    <3> QED BY <1>3, <2>3, <3>1
  <2> HIDE DEF t
  <2>5. Select(entries, spec, Only(<<t.id>>), fault).code = "OK"
    BY <2>3, <2>4, SelectsOnly
  <2>6. Nonempty(id)  BY <2>3
  <2>7. GetTemplate(entries, id, fault) = Get(entries, id, fault)
    BY Zenon, <2>6 DEF GetTemplate, Nonempty
  <2>8. id \in ToSet(IDs(entries)) \ fault.lost
    <3>1. \A u \in ToSet(entries) : u.id \in ToSet(IDs(entries))  BY DEF ToSet, IDs
    <3> QED BY <2>3, <3>1
  <2>9. Get(entries, id, fault).code = "OK"  BY <2>8, Gets
  <2> QED BY <2>3, <2>5, <2>7, <2>9 DEF Ok
<1> HIDE DEF items
<1>12. page.code = "OK" => /\ page.how.next \in Nat
                           /\ \A x \in ToSet(page.how.items) : x \in ToSet(items)
  BY <1>10, Pages
<1> HIDE DEF page, wrong
<1> QED BY <1>3, <1>11, <1>12

\* Choosing places keeps what is at them.
LEMMA OrderedSet ==
    ASSUME NEW s, NEW len \in Nat, NEW at \in SUBSET (1 .. len)
    PROVE  ToSet(InOrder(s, at)) = {s[i] : i \in at}
<1>1. /\ DOMAIN InOrder(s, at) = 1 .. Cardinality(at)
      /\ \A n \in DOMAIN InOrder(s, at) : InOrder(s, at)[n] = s[Place(at, n)]
  BY Ordered
<1>2. /\ \A n \in 1 .. Cardinality(at) : Place(at, n) \in at
      /\ \A i \in at : \E n \in 1 .. Cardinality(at) : Place(at, n) = i
  BY Placing
<1>3. \A x : x \in ToSet(InOrder(s, at)) <=> \E n \in 1 .. Cardinality(at) : x = s[Place(at, n)]
  BY <1>1 DEF ToSet
<1>4. \A x : (\E n \in 1 .. Cardinality(at) : x = s[Place(at, n)]) <=> \E i \in at : x = s[i]
  BY <1>2
<1> QED BY <1>3, <1>4

\* The ranked instances are the eligible ones.
LEMMA RankedSet ==
    ASSUME NEW bs, NEW template, NEW required, DOMAIN bs \subseteq 1 .. 3
    PROVE  ToSet(Ranked(bs, template, required)) = {b \in ToSet(bs) : Eligible(b, template, required)}
<1> DEFINE eligible == {i \in DOMAIN bs : Eligible(bs[i], template, required)}
           preferred(i) == Prefers(bs[i], required)
           before(i, j) == IF preferred(i) <=> preferred(j) THEN i < j ELSE preferred(i)
           below(i) == {j \in eligible : before(j, i)}
           rank(i) == Cardinality({j \in eligible : before(j, i)}) + 1
           ranking == [i \in eligible |-> Cardinality(below(i)) + 1]
           at(n) == CHOOSE i \in eligible : rank(i) = n
<1>1. Ranked(bs, template, required) = [n \in 1 .. Cardinality(eligible) |-> bs[at(n)]]
  BY Zenon DEF Ranked
<1>2. IsFiniteSet(eligible) /\ eligible \subseteq 1 .. 3
  <2>1. IsFiniteSet(1 .. 3)
    <3>1. 1 \in Int /\ 3 \in Int  OBVIOUS
    <3> QED BY <3>1, FS_Interval
  <2>2. eligible \in SUBSET (1 .. 3)  OBVIOUS
  <2> HIDE DEF eligible
  <2> QED BY <2>1, <2>2, FS_Subset
<1>3. ToSet(bs) = {bs[i] : i \in DOMAIN bs} /\ \A i \in DOMAIN bs :
          i \in eligible <=> Eligible(bs[i], template, required)
  BY DEF ToSet
<1>4. eligible \subseteq DOMAIN bs  OBVIOUS
<1>5. Cardinality(eligible) \in Nat  BY <1>2, FS_CardinalityType
<1> HIDE DEF eligible
<1>6. ASSUME NEW i \in eligible
      PROVE  /\ IsFiniteSet(below(i)) /\ Cardinality(below(i)) \in Nat
             /\ Cardinality(below(i)) < Cardinality(eligible)
  <2>1. below(i) \in SUBSET eligible  OBVIOUS
  <2>2. i \in eligible /\ i \notin below(i)
    <3>1. i \in Nat  BY <1>2
    <3> HIDE DEF preferred
    <3> QED BY <3>1
  <2> HIDE DEF below
  <2>3. IsFiniteSet(below(i)) /\ Cardinality(below(i)) <= Cardinality(eligible)
        /\ (Cardinality(eligible) = Cardinality(below(i)) => eligible = below(i))
    BY <1>2, <2>1, FS_Subset
  <2>4. Cardinality(below(i)) \in Nat  BY <2>3, FS_CardinalityType
  <2>5. Cardinality(eligible) # Cardinality(below(i))  BY <2>2, <2>3
  <2> QED BY <1>5, <2>3, <2>4, <2>5
<1>7. ASSUME NEW i \in eligible, NEW j \in eligible, before(i, j)
      PROVE  Cardinality(below(i)) < Cardinality(below(j))
  <2>1. i \in Nat /\ j \in Nat  BY <1>2
  <2>2. below(i) \in SUBSET below(j) /\ i \in below(j) /\ i \notin below(i)
    <3>1. \A x \in eligible : x \in Nat  BY <1>2
    <3> HIDE DEF preferred
    <3>2. \A x \in eligible : before(x, i) => before(x, j)  BY <1>7, <2>1, <3>1
    <3>3. ~ before(i, i)  BY <2>1
    <3> HIDE DEF before
    <3> QED BY <1>7, <3>2, <3>3
  <2> HIDE DEF below, before
  <2>3. IsFiniteSet(below(j)) /\ Cardinality(below(i)) \in Nat /\ Cardinality(below(j)) \in Nat
    BY <1>6
  <2>4. Cardinality(below(i)) <= Cardinality(below(j))
        /\ (Cardinality(below(j)) = Cardinality(below(i)) => below(j) = below(i))
    BY <2>2, <2>3, FS_Subset
  <2> QED BY <2>2, <2>3, <2>4
<1>8. \A i, j \in eligible : i = j \/ before(i, j) \/ before(j, i)
  <2> TAKE i, j \in eligible
  <2>1. i \in Nat /\ j \in Nat  BY <1>2
  <2> HIDE DEF preferred
  <2> QED BY <2>1
<1>9. \A i \in eligible : rank(i) = ranking[i]  OBVIOUS
<1> HIDE DEF below, before, rank
<1>10. ranking \in [eligible -> 1 .. Cardinality(eligible)]
  BY <1>5, <1>6
<1>11. \A i, j \in eligible : ranking[i] = ranking[j] => i = j
  <2> TAKE i, j \in eligible
  <2>1. Cardinality(below(i)) \in Nat /\ Cardinality(below(j)) \in Nat  BY <1>6
  <2>2. before(i, j) => Cardinality(below(i)) < Cardinality(below(j))  BY <1>7
  <2>3. before(j, i) => Cardinality(below(j)) < Cardinality(below(i))  BY <1>7
  <2> QED BY <1>8, <2>1, <2>2, <2>3
<1> HIDE DEF ranking
<1>12. \A n \in 1 .. Cardinality(eligible) : \E i \in eligible : ranking[i] = n
  BY <1>2, <1>10, <1>11, Onto
<1>13. \A n \in 1 .. Cardinality(eligible) : at(n) \in eligible /\ ranking[at(n)] = n
  BY <1>9, <1>12
<1>14. \A i \in eligible : \E n \in 1 .. Cardinality(eligible) : at(n) = i
  <2> HIDE DEF at
  <2> QED BY <1>10, <1>11, <1>13
<1> HIDE DEF at
<1>15. \A b : b \in ToSet(Ranked(bs, template, required)) <=> \E i \in eligible : b = bs[i]
  BY <1>1, <1>13, <1>14 DEF ToSet
<1> QED BY <1>3, <1>4, <1>15
\* The list of instances by name has all of them.
LEMMA RegisteredAll ==
    ASSUME InstancesInv
    PROVE  /\ ToSet(registered(backends)) = ToSet(backends)
           /\ \E n \in Nat : DOMAIN registered(backends) = 1 .. n
           /\ \A b \in ToSet(backends) : b.type \in {"openssl", "software"}
<1> DEFINE at == {i \in DOMAIN NameOrder : Named(backends, NameOrder[i]) # {}}
           present == InOrder(NameOrder, at)
           named(i) == CHOOSE b \in Named(backends, present[i]) : TRUE
<1>1. registered(backends) = [i \in DOMAIN present |-> named(i)]
  BY Zenon DEF registered
<1>2. DOMAIN NameOrder = 1 .. 3 /\ NameOrder[1] = "openssl" /\ NameOrder[2] = "openssl-fips"
      /\ NameOrder[3] = "software"
  BY DEF NameOrder
<1>3. \A b \in ToSet(backends) : /\ b.type \in {"openssl", "software"}
                                 /\ b.name \in {"openssl", "openssl-fips", "software"}
  <2>1. /\ Registration(1) = softwareBackend /\ Registration(2) = opensslBackend
        /\ Registration(3) = fipsBackend(TRUE)
    BY Registrations
  <2>2. /\ softwareBackend.name = "software" /\ softwareBackend.type = "software"
        /\ opensslBackend.name = "openssl" /\ opensslBackend.type = "openssl"
        /\ fipsBackend(TRUE).name = "openssl-fips" /\ fipsBackend(TRUE).type = "openssl"
    BY DEF softwareBackend, opensslBackend, fipsBackend
  <2>3. \A b \in ToSet(backends) : \E i \in 1 .. 3 : b = Registration(i)
    BY InstancesNamed DEF ToSet, InstancesInv
  <2>4. \A i \in 1 .. 3 : i = 1 \/ i = 2 \/ i = 3  OBVIOUS
  <2> QED BY <2>1, <2>2, <2>3, <2>4
<1>4. at \in SUBSET (1 .. 3) /\ 3 \in Nat  BY <1>2
<1>5. \A i \in at : Named(backends, NameOrder[i]) # {}  OBVIOUS
<1>6. \A b \in ToSet(backends) : \E i \in at : NameOrder[i] = b.name
  <2> TAKE b \in ToSet(backends)
  <2>1. PICK i \in 1 .. 3 : NameOrder[i] = b.name
    <3>1. 1 \in 1 .. 3 /\ 2 \in 1 .. 3 /\ 3 \in 1 .. 3  OBVIOUS
    <3> QED BY <1>2, <1>3, <3>1
  <2>2. b \in Named(backends, NameOrder[i])  BY <2>1 DEF Named
  <2> QED BY <1>2, <2>1, <2>2
<1> HIDE DEF at
<1>7. Cardinality(at) \in Nat /\ DOMAIN present = 1 .. Cardinality(at)
  BY <1>4, Ordered
<1>8. ToSet(present) = {NameOrder[i] : i \in at}  BY <1>4, OrderedSet
<1> HIDE DEF present
<1>9. \A i \in DOMAIN present : named(i) \in ToSet(backends) /\ named(i).name = present[i]
  <2> TAKE i \in DOMAIN present
  <2>1. present[i] \in ToSet(present)  BY DEF ToSet
  <2>2. Named(backends, present[i]) # {}  BY <1>5, <1>8, <2>1
  <2>3. named(i) \in Named(backends, present[i])  BY <2>2
  <2> HIDE DEF named
  <2> QED BY <2>3 DEF Named
<1> HIDE DEF named
<1>10. ASSUME NEW b \in ToSet(backends)  PROVE b \in ToSet(registered(backends))
  <2>1. b.name \in ToSet(present)  BY <1>6, <1>8
  <2>2. PICK i \in DOMAIN present : present[i] = b.name  BY <2>1 DEF ToSet
  <2>3. named(i) = b  BY <1>9, <2>2, InstancesNamed
  <2> QED BY <1>1, <2>2, <2>3 DEF ToSet
<1>11. ASSUME NEW b \in ToSet(registered(backends))  PROVE b \in ToSet(backends)
  BY <1>1, <1>9 DEF ToSet
<1> QED BY <1>1, <1>3, <1>7, <1>10, <1>11

\* The instances of one type.
LEMMA TypesOfInstances ==
    ASSUME InstancesInv
    PROVE  /\ DOMAIN instancesByType(backends) = {b.type : b \in ToSet(backends)}
           /\ \A type \in DOMAIN instancesByType(backends) :
                 ToSet(instancesByType(backends)[type]) = {b \in ToSet(backends) : b.type = type}
<1> DEFINE all == registered(backends)
           at(type) == {i \in DOMAIN all : all[i].type = type}
           byType == instancesByType(backends)
<1>1. byType = [type \in {b.type : b \in ToSet(backends)} |-> InOrder(all, at(type))]
  BY Zenon DEF instancesByType
<1>2. ToSet(all) = ToSet(backends)  BY RegisteredAll
<1>3. PICK n \in Nat : DOMAIN all = 1 .. n  BY RegisteredAll
<1> HIDE DEF all
<1>4. ASSUME NEW type  PROVE ToSet(InOrder(all, at(type))) = {b \in ToSet(backends) : b.type = type}
  <2>1. at(type) \in SUBSET (1 .. n)  BY <1>3
  <2>2. ToSet(InOrder(all, at(type))) = {all[i] : i \in at(type)}
    <3> HIDE DEF at
    <3> QED BY <2>1, OrderedSet
  <2>3. \A b : b \in ToSet(all) <=> \E i \in DOMAIN all : b = all[i]  BY DEF ToSet
  <2>4. {all[i] : i \in at(type)} = {b \in ToSet(all) : b.type = type}  BY <2>3
  <2> QED BY <1>2, <2>2, <2>4
<1> HIDE DEF at, byType
<1>5. DOMAIN byType = {b.type : b \in ToSet(backends)}
      /\ \A type \in DOMAIN byType : ToSet(byType[type]) = {b \in ToSet(backends) : b.type = type}
  BY <1>1, <1>4
<1> QED BY <1>5 DEF byType

\* ListProviders lists the types of the instances that would be matched.
LEMMA ListsServing ==
    ASSUME InstancesInv, NEW template, Nonempty(template), NEW required,
           ListProviders(backends, template, required, 0, 0).code = "OK"
    PROVE  LET items   == ToSet(ListProviders(backends, template, required, 0, 0).how.items)
               matched == ToSet(Ranked(backends, template, required))
           IN /\ {p.provider : p \in items} = {b.type : b \in matched}
              /\ \A p \in items : {b.name : b \in {c \in matched : c.type = p.provider}}
                                      \subseteq p.servedBy[template]
<1> DEFINE v == ListProviders(backends, template, required, 0, 0)
           byType == instancesByType(backends)
           listed(type) == type \in DOMAIN byType /\ ListedType(byType[type], template, required)
           at == {i \in DOMAIN TypeOrder : listed(TypeOrder[i])}
           types == InOrder(TypeOrder, at)
           infos == [i \in DOMAIN types |-> providerInfo(types[i], byType[types[i]])]
           matched == ToSet(Ranked(backends, template, required))
<1>1. v = IF required.valid THEN Page(infos, 0, 0) ELSE Refuse("InvalidArgument")
  BY Zenon DEF ListProviders
<1>2. Refuse("InvalidArgument").code # "OK"  BY DEF Refuse, Require, Answer
<1>3. v = Page(infos, 0, 0)
  <2>1. v.code = "OK"  OBVIOUS
  <2> HIDE DEF v, infos
  <2> QED BY <1>1, <1>2, <2>1
<1>4. matched = {b \in ToSet(backends) : Eligible(b, template, required)}
  BY InstancesNamed, RankedSet
<1>5. DOMAIN byType = {b.type : b \in ToSet(backends)}
      /\ \A type \in DOMAIN byType : ToSet(byType[type]) = {b \in ToSet(backends) : b.type = type}
  BY TypesOfInstances
<1>6. DOMAIN TypeOrder = 1 .. 2 /\ TypeOrder[1] = "openssl" /\ TypeOrder[2] = "software"
  BY DEF TypeOrder
<1> HIDE DEF v, byType, matched
<1>7. \A type : listed(type) <=> \E b \in matched : b.type = type
  <2>1. \A b : (template = "" \/ AdvertisedBy(b, template)) <=> AdvertisedBy(b, template)
    BY Zenon DEF Nonempty
  <2>2. \A instances : ListedType(instances, template, required)
                       <=> \E b \in ToSet(instances) : Eligible(b, template, required)
    BY Zenon, <2>1 DEF ListedType, Eligible
  <2> QED BY <1>4, <1>5, <2>2
<1>8. at \in SUBSET (1 .. 2) /\ 2 \in Nat /\ \A i \in 1 .. 2 : i \in at <=> listed(TypeOrder[i])
  BY <1>6
<1> HIDE DEF listed, at
<1>9. ToSet(types) = {TypeOrder[i] : i \in at}  BY <1>8, OrderedSet
<1>10. Cardinality(at) \in Nat /\ DOMAIN types = 1 .. Cardinality(at)  BY <1>8, Ordered
<1> HIDE DEF types
<1>11. ToSet(types) = {b.type : b \in matched}
  <2>1. \A b \in matched : b.type \in {"openssl", "software"}  BY <1>4, RegisteredAll
  <2>2. 1 \in 1 .. 2 /\ 2 \in 1 .. 2  OBVIOUS
  <2>3. \A b \in matched : \E i \in at : TypeOrder[i] = b.type
    BY <1>6, <1>7, <1>8, <2>1, <2>2
  <2>4. \A i \in at : \E b \in matched : b.type = TypeOrder[i]  BY <1>7, <1>8
  <2> QED BY <1>9, <2>3, <2>4
<1>12. v.how.items = infos
  <2>1. infos \in Seq(ToSet(infos))
    <3>1. \A i \in 1 .. Cardinality(at) : infos[i] \in ToSet(infos)  BY <1>10 DEF ToSet
    <3>2. infos = [i \in 1 .. Cardinality(at) |-> infos[i]]  BY <1>10
    <3> HIDE DEF infos
    <3> QED BY <1>10, <3>1, <3>2
  <2> HIDE DEF infos
  <2>2. 0 \in Int /\ 0 \in Nat  OBVIOUS
  <2> QED BY <1>3, <2>1, <2>2, Pages
<1>13. ASSUME NEW p
       PROVE  p \in ToSet(infos) <=> \E type \in ToSet(types) : p = providerInfo(type, byType[type])
  BY DEF ToSet
<1>14. ASSUME NEW type
       PROVE  providerInfo(type, byType[type]).provider = type
  BY DEF providerInfo
<1> HIDE DEF infos
<1>15. {p.provider : p \in ToSet(infos)} = {b.type : b \in matched}
  <2>1. \A type \in ToSet(types) : providerInfo(type, byType[type]) \in ToSet(infos)  BY <1>13
  <2>2. \A p \in ToSet(infos) : p.provider \in ToSet(types)  BY <1>13, <1>14
  <2> QED BY <1>11, <1>14, <2>1, <2>2
<1>16. ASSUME NEW p \in ToSet(infos), NEW b \in matched, b.type = p.provider
       PROVE  b.name \in p.servedBy[template]
  <2>1. PICK type \in ToSet(types) : p = providerInfo(type, byType[type])  BY <1>13
  <2>2. b.type = type  BY <1>14, <1>16, <2>1
  <2>3. b \in ToSet(backends) /\ AdvertisedBy(b, template)  BY <1>4 DEF Eligible
  <2>4. b \in ToSet(byType[type])  BY <1>5, <2>2, <2>3
  <2> DEFINE instances == ToSet(byType[type])
  <2>5. p.servedBy = [t \in UNION {c.algorithms : c \in instances} |->
                          {c.name : c \in {d \in instances : AdvertisedBy(d, t)}}]
    BY <2>1 DEF providerInfo
  <2> HIDE DEF instances
  <2>6. b \in instances  BY <2>4 DEF instances
  <2>7. template \in UNION {c.algorithms : c \in instances}  BY <2>3, <2>6 DEF AdvertisedBy
  <2>8. p.servedBy[template] = {c.name : c \in {d \in instances : AdvertisedBy(d, template)}}
    BY <2>5, <2>7
  <2> QED BY <2>3, <2>6, <2>8
<1>17. \A p \in ToSet(infos) : {b.name : b \in {c \in matched : c.type = p.provider}}
                                   \subseteq p.servedBy[template]
  BY <1>16
<1> QED BY <1>12, <1>15, <1>17 DEF v, matched

QueryInv ==
    /\ answer.rpc = "ListScopes" => Replied(ListScopes(stored, answer.asked.fault))
    /\ answer.rpc = "ListTemplates" =>
          /\ answer.asked.size \in Int
          /\ \E token \in Nat :
                Replied(ListTemplates(stored, answer.asked.passing, answer.asked.spec,
                                      answer.asked.fault, answer.asked.size, token))
    /\ answer.rpc = "ListProviders" =>
          Replied(ListProviders(backends, answer.asked.template, answer.asked.required,
                                answer.asked.size, answer.asked.token))
    /\ answer.rpc = "MatchProviders" =>
          Replied(MatchProviders(backends, answer.asked.template, answer.asked.required))

LEMMA TemplatesListed ==
    ASSUME CatalogueInv, QueryInv, answer.rpc = "ListTemplates", answer.code = "OK"
    PROVE  /\ answer.reply.next \in Nat
           /\ ListedTemplatesSelectable
<1> DEFINE a == answer.asked
           v(token) == ListTemplates(stored, a.passing, a.spec, a.fault, a.size, token)
<1>1. PICK token \in Nat : Replied(v(token))  BY DEF QueryInv
<1>2. a.size \in Int  BY DEF QueryInv
<1>3. answer.code = v(token).code /\ answer.reply = v(token).how  BY <1>1 DEF Replied
<1>4. Entries(stored, loaded) /\ Listed(IDs(stored), loaded)  BY StoredEntries
<1>5. \A t \in ToSet(stored) : Nonempty(t.id)
  <2>1. \A t \in ToSet(Catalogue) : Nonempty(t.id)
    BY Zenon, EntryAssumption DEF CatalogueInv, Catalogue, Nonempty
  <2> QED BY <2>1, StoredEntries
<1>6. v(token).code = "OK" =>
          /\ v(token).how.next \in Nat
          /\ \A id \in ToSet(v(token).how.items) :
                 /\ Ok(Select(stored, a.spec, Only(<<id>>), a.fault))
                 /\ Ok(GetTemplate(stored, id, a.fault))
  BY <1>2, <1>4, <1>5, ListsSelectable
<1> HIDE DEF v
<1>7. /\ answer.reply.next \in Nat
      /\ \A id \in ToSet(answer.reply.items) :
             /\ Ok(Select(stored, a.spec, Only(<<id>>), a.fault))
             /\ Ok(GetTemplate(stored, id, a.fault))
  BY <1>3, <1>6
<1> QED BY <1>7 DEF ListedTemplatesSelectable

LEMMA ListScopesReplies ==
    ASSUME AskListScopes
    PROVE  QueryInv'
<1>1. PICK f \in Faults : Told("ListScopes", [fault |-> f], ListScopes(stored, f))
  BY Zenon DEF AskListScopes
<1>2. stored' = stored  BY <1>1 DEF Told, stored, Catalogue
<1> DEFINE v == ListScopes(stored, f)
<1> HIDE DEF v
<1>3. answer'.rpc = "ListScopes" /\ answer'.asked.fault = f /\ answer'.code = v.code /\ answer'.reply = v.how
  BY <1>1 DEF Told, v
<1>4. Replied(ListScopes(stored, answer.asked.fault))'
  BY <1>2, <1>3 DEF Replied, v
<1> QED BY <1>3, <1>4 DEF QueryInv

LEMMA ListTemplatesReplies ==
    ASSUME CatalogueInv, QueryInv, AskListTemplates
    PROVE  QueryInv'
<1>1. Asking \/ Following("ListTemplates")  BY Zenon DEF AskListTemplates
<1>2. Token \in Nat
  <2>1. CASE Asking  BY <2>1 DEF Asking, Token
  <2>2. CASE Following("ListTemplates")
    <3>1. answer.rpc = "ListTemplates" /\ answer.code = "OK"  BY Zenon, <2>2 DEF Following
    <3>2. answer # NoAnswer  BY <3>1 DEF NoAnswer
    <3>3. answer.reply.next \in Nat  BY <3>1, TemplatesListed
    <3> QED BY <3>2, <3>3 DEF Token
  <2> QED BY <1>1, <2>1, <2>2
<1>3. PICK spec \in Specs \cup {NoScope, BadScope}, passing \in {Asked, ToSet(IDs(stored))},
           f \in Faults, size \in Sizes :
           Told("ListTemplates", [spec |-> spec, passing |-> passing, fault |-> f, size |-> size],
                ListTemplates(stored, passing, spec, f, size, Token))
  BY Zenon DEF AskListTemplates
<1> DEFINE v == ListTemplates(stored, passing, spec, f, size, Token)
<1> HIDE DEF v
<1>4. stored' = stored  BY <1>3 DEF Told, stored, Catalogue
<1>5. /\ answer'.rpc = "ListTemplates" /\ answer'.asked.spec = spec /\ answer'.asked.passing = passing
      /\ answer'.asked.fault = f /\ answer'.asked.size = size
      /\ answer'.code = v.code /\ answer'.reply = v.how
  BY <1>3 DEF Told, v
<1>6. size \in Int  BY EntryAssumption
<1>7. \A token \in Nat : token = Token =>
          Replied(ListTemplates(stored, answer.asked.passing, answer.asked.spec,
                                answer.asked.fault, answer.asked.size, token))'
  BY <1>4, <1>5 DEF Replied, v
<1> QED BY <1>2, <1>5, <1>6, <1>7 DEF QueryInv

LEMMA ListProvidersReplies ==
    ASSUME AskListProviders
    PROVE  QueryInv'
<1>1. PICK id \in Asked \cup {""}, r \in Requirements, size \in Sizes :
           Told("ListProviders", [template |-> id, required |-> r, size |-> size, token |-> Token],
                ListProviders(backends, id, r, size, Token))
  BY Zenon DEF AskListProviders
<1> DEFINE v == ListProviders(backends, id, r, size, Token)
           token == Token
<1>2. PICK i : i = id  OBVIOUS
<1> HIDE DEF v, token
<1>3. /\ answer' = [rpc |-> "ListProviders", asked |-> [template |-> i, required |-> r, size |-> size, token |-> token],
                    code |-> v.code, reply |-> v.how]
      /\ backends' = backends
  BY Zenon, <1>1, <1>2 DEF Told, v, token
<1>4. v = ListProviders(backends, i, r, size, token)  BY Zenon, <1>2 DEF v, token
<1>5. /\ answer'.rpc = "ListProviders" /\ answer'.asked.template = i /\ answer'.asked.required = r
      /\ answer'.asked.size = size /\ answer'.asked.token = token
      /\ answer'.code = v.code /\ answer'.reply = v.how
  BY <1>3
<1>6. Replied(ListProviders(backends, answer.asked.template, answer.asked.required,
                            answer.asked.size, answer.asked.token))'
  BY Zenon, <1>3, <1>4, <1>5 DEF Replied
<1> QED BY <1>5, <1>6 DEF QueryInv

LEMMA MatchProvidersReplies ==
    ASSUME AskMatchProviders
    PROVE  QueryInv'
<1>1. PICK id \in Asked \cup {""}, r \in Requirements :
           Told("MatchProviders", [template |-> id, required |-> r], MatchProviders(backends, id, r))
  BY Zenon DEF AskMatchProviders
<1> DEFINE v == MatchProviders(backends, id, r)
<1>2. PICK i : i = id  OBVIOUS
<1> HIDE DEF v
<1>3. /\ answer' = [rpc |-> "MatchProviders", asked |-> [template |-> i, required |-> r],
                    code |-> v.code, reply |-> v.how]
      /\ backends' = backends
  BY Zenon, <1>1, <1>2 DEF Told, v
<1>4. v = MatchProviders(backends, i, r)  BY Zenon, <1>2 DEF v
<1>5. /\ answer'.rpc = "MatchProviders" /\ answer'.asked.template = i /\ answer'.asked.required = r
      /\ answer'.code = v.code /\ answer'.reply = v.how
  BY <1>3
<1>6. Replied(MatchProviders(backends, answer.asked.template, answer.asked.required))'
  BY Zenon, <1>3, <1>4, <1>5 DEF Replied
<1> QED BY <1>5, <1>6 DEF QueryInv

LEMMA QueryKept ==
    ASSUME UNCHANGED <<config, loaded, backends, answer>>, QueryInv
    PROVE  QueryInv'
<1>1. stored' = stored  BY DEF stored, Catalogue
<1> QED BY Zenon, <1>1 DEF QueryInv, Replied

LEMMA QueryStep ==
    ASSUME Inv, ReadyInv, QueryInv, [Next]_vars
    PROVE  QueryInv'
<1>0. answer'.rpc \notin {"ListScopes", "ListTemplates", "ListProviders", "MatchProviders"} => QueryInv'
  BY DEF QueryInv
<1>1. CASE StartUp
  <2>1. answer' = answer /\ phase # "serving"  BY <1>1, StartUpKeeps
  <2>2. answer'.rpc = "none"  BY <2>1 DEF ReadyInv, NoAnswer
  <2> QED BY <1>0, <2>2
<1>2. CASE Query
  <2>1. \A rpc, asked, reply : Told(rpc, asked, reply) => answer'.rpc = rpc  BY DEF Told
  <2>2. \/ AskListScopes \/ AskListTemplates \/ AskListProviders \/ AskMatchProviders
        \/ answer'.rpc = "GetTemplate" \/ answer'.rpc = "ListProviderInstances"
        \/ answer'.rpc = "GetProviderInstance" \/ answer'.rpc = "GetProvider"
    BY Zenon, <1>2, <2>1 DEF Query, AskGetTemplate, AskListProviderInstances,
         AskGetProviderInstance, AskGetProvider
  <2>3. AskListScopes => QueryInv'  BY ListScopesReplies
  <2>4. AskListTemplates => QueryInv'  BY ListTemplatesReplies DEF Inv
  <2>5. AskListProviders => QueryInv'  BY ListProvidersReplies
  <2>6. AskMatchProviders => QueryInv'  BY MatchProvidersReplies
  <2> QED BY <1>0, <2>2, <2>3, <2>4, <2>5, <2>6
<1>3. CASE CreateKey
  <2>1. answer'.rpc = "CreateKey"
    <3>1. PICK cs \in Candidates \cup {Only(<<id>>) : id \in ToSet(IDs(stored))} \cup {Unrestricted},
               spec \in Specs \cup {NoScope}, pinned \in {""} \cup ToSet(NameOrder),
               required \in {r \in Requirements : r.valid}, fault \in Faults :
            LET made == Created(cs, spec, pinned, required, fault) IN
            /\ cs = Unrestricted => spec # NoScope
            /\ key' = IF Ok(made) THEN made.how ELSE NoKey
            /\ answer' = [rpc |-> "CreateKey", code |-> made.code,
                          asked |-> [cs |-> cs, spec |-> spec, pinned |-> pinned,
                                     required |-> required, fault |-> fault]]
      BY Zenon, <1>3 DEF CreateKey
    <3> QED BY <3>1
  <2> QED BY <1>0, <2>1
<1>4. ASSUME NEW op \in Producing, Using(op)  PROVE QueryInv'
  <2>1. answer'.rpc = op  BY <1>4 DEF Using
  <2> QED BY <1>0, <2>1 DEF Producing
<1>5. ASSUME NEW op \in Producing, Checking(op)  PROVE QueryInv'
  <2>1. answer.rpc = op /\ \E c : answer' = [answer EXCEPT !.checked = c]
    BY Zenon, <1>5 DEF Checking
  <2>2. Artefact(answer)  BY <2>1 DEF Inv, AnswerInv
  <2>3. answer'.rpc = op  BY <2>1, <2>2 DEF Artefact
  <2> QED BY <1>0, <2>3 DEF Producing
<1>6. CASE MigrateKey
  <2>1. UNCHANGED <<phase, config, loaded, backends>>  BY Zenon, <1>6 DEF MigrateKey
  <2>2. answer' = answer \/ answer'.rpc = "MigrateKey"  BY <1>6 DEF MigrateKey
  <2> QED BY <1>0, <2>1, <2>2, QueryKept
<1>7. CASE UNCHANGED vars
  BY <1>7, QueryKept DEF vars
<1> QED BY <1>1, <1>2, <1>3, <1>4, <1>5, <1>6, <1>7
       DEF Next, Sign, Verify, DigestSign, DigestVerify, Encrypt, Decrypt, Producing

LEMMA Answered == Spec => [](Inv /\ ReadyInv /\ QueryInv)
<1>1. Init => Inv /\ ReadyInv /\ QueryInv
  <2>1. Init => QueryInv  BY DEF Init, QueryInv, NoAnswer
  <2> QED BY <2>1, Initially, ReadyInitially
<1>2. Inv /\ ReadyInv /\ QueryInv /\ [Next]_vars => (Inv /\ ReadyInv /\ QueryInv)'
  BY Kept, ReadyKept, QueryStep
<1> QED BY <1>1, <1>2, PTL DEF Spec

\* ListScopes and CreateKey agree for any catalogue and storage fault: a scope
\* is listed exactly when selection by it finds a template, and a scope that
\* cannot be read fails both (ListScopes, offeredScopes, Select).
THEOREM ScopesUsableHolds == Spec => []ScopesUsable
<1>1. Inv /\ QueryInv => ScopesUsable
  BY ScopesReplied DEF Inv, QueryInv
<1> QED BY Answered, <1>1, PTL

LEMMA ProvidersListed ==
    ASSUME InstancesInv, QueryInv
    PROVE  ListedProvidersServe
<1> DEFINE a == answer.asked
<1>1. ASSUME answer.rpc = "ListProviders", answer.code = "OK", a.size = 0, a.token = 0, Nonempty(a.template)
      PROVE  LET matched == ToSet(Ranked(backends, a.template, a.required)) IN
             /\ {p.provider : p \in ToSet(answer.reply.items)} = {b.type : b \in matched}
             /\ \A p \in ToSet(answer.reply.items) :
                   {b.name : b \in {c \in matched : c.type = p.provider}} \subseteq p.servedBy[a.template]
  <2> DEFINE v == ListProviders(backends, a.template, a.required, 0, 0)
             matched == ToSet(Ranked(backends, a.template, a.required))
  <2>1. Replied(ListProviders(backends, a.template, a.required, a.size, a.token))
    BY <1>1 DEF QueryInv
  <2>2. answer.code = v.code /\ answer.reply = v.how  BY <1>1, <2>1 DEF Replied
  <2>3. v.code = "OK"  BY <1>1, <2>2
  <2>4. /\ {p.provider : p \in ToSet(v.how.items)} = {b.type : b \in matched}
        /\ \A p \in ToSet(v.how.items) :
              {b.name : b \in {c \in matched : c.type = p.provider}} \subseteq p.servedBy[a.template]
    BY <1>1, <2>3, ListsServing
  <2> HIDE DEF v, matched
  <2>5. /\ {p.provider : p \in ToSet(answer.reply.items)} = {b.type : b \in matched}
        /\ \A p \in ToSet(answer.reply.items) :
              {b.name : b \in {c \in matched : c.type = p.provider}} \subseteq p.servedBy[a.template]
    BY <2>2, <2>4
  <2> QED BY <2>5 DEF matched
<1> QED BY Zenon, <1>1 DEF ListedProvidersServe, Nonempty

\* What a listing offers can be had, for any catalogue, fault, page size and
\* page: a listed template is one that CreateKey would select and GetTemplate
\* return, and the listed providers are those with an instance that matches
\* (ListTemplates, ListProviders).
THEOREM ListingsServeHolds == Spec => []ListingsServe
<1>1. Inv /\ QueryInv => ListingsServe
  <2> SUFFICES ASSUME Inv, QueryInv  PROVE ListingsServe  OBVIOUS
  <2>1. ListedTemplatesSelectable
    <3>1. CASE answer.rpc = "ListTemplates" /\ answer.code = "OK"
      BY <3>1, TemplatesListed DEF Inv
    <3>2. CASE ~ (answer.rpc = "ListTemplates" /\ answer.code = "OK")
      BY <3>2 DEF ListedTemplatesSelectable
    <3> QED BY <3>1, <3>2
  <2>2. ListedProvidersServe  BY ProvidersListed DEF Inv
  <2> QED BY <2>1, <2>2 DEF ListingsServe
<1> QED BY Answered, <1>1, PTL

-----------------------------------------------------------------------------
(***************************************************************************)
(* What a provider promises for a template that it advertises and a key    *)
(* that was generated for it.  Reply: the answer to a request, whichever   *)
(* provider gives it.                                                      *)
(***************************************************************************)
SignedForm(d) ==
    \/ d.family = "ecdsa" /\ d.curve \in Curves /\ d.hash = Soft!curveMinHash[d.curve] /\ d.format = "DER"
    \/ d.family = "rsaPss" /\ d.hash \in SHA2 /\ d.mgf = "MGF1" /\ d.mgfHash = d.hash
       /\ d.salt = "HASH_LENGTH"
    \/ d.family = "rsaPkcs1v15" /\ d.hash \in SHA2
    \/ d.family = "ed25519" /\ d.variant = "PURE"
    \/ d.family = "mlDsa" /\ d.set \in {44, 65, 87}

PrehashedForm(d) ==
    \/ d.family = "ecdsa" /\ d.curve \in Curves /\ d.format = "DER"
    \/ d.family = "rsaPss" /\ d.mgf = "MGF1" /\ d.mgfHash = Unspecified /\ d.salt = "HASH_LENGTH"
    \/ d.family = "rsaPkcs1v15"
    \/ d.family = "ed25519" /\ d.variant = "PH"

CipherForm(d) ==
    \/ d.family = "aesGcm" /\ d.bits \in {128, 192, 256} /\ d.iv = 96 /\ d.tag = 128
    \/ d.family = "aesCbc" /\ d.bits \in {128, 192, 256} /\ d.iv = 128 /\ d.padding = "PKCS7"
    \/ d.family = "aesCtr" /\ d.bits \in {128, 192, 256} /\ d.nonce = 96 /\ d.counter = 32
    \/ d.family = "chacha20Poly1305" /\ d.nonce = 96 /\ d.counter = 32 /\ d.extended = FALSE
    \/ d.family = "chacha20Poly1305" /\ d.nonce = 192 /\ d.counter = 32 /\ d.extended = TRUE

LEMMA SignatureFields == \A d \in SignatureForms : SignedForm(d)
<1> SUFFICES ASSUME NEW d \in SignatureForms PROVE SignedForm(d)  OBVIOUS
<1>1. CASE d = ECDSA("P256", "SHA256")  BY <1>1 DEF ECDSA, SignedForm, Curves, Soft!curveMinHash
<1>2. CASE d = ECDSA("P384", "SHA384")  BY <1>2 DEF ECDSA, SignedForm, Curves, Soft!curveMinHash
<1>3. CASE d = ECDSA("P521", "SHA512")  BY <1>3 DEF ECDSA, SignedForm, Curves, Soft!curveMinHash
<1>4. CASE d = Ed25519("PURE")  BY <1>4 DEF Ed25519, SignedForm
<1>5. ASSUME NEW set \in {44, 65, 87}, d = MLDSA(set)  PROVE SignedForm(d)
  BY <1>5 DEF MLDSA, SignedForm
<1>6. ASSUME NEW bits, NEW hash \in SHA2, d = RSAPSS(bits, hash)  PROVE SignedForm(d)
  BY <1>6 DEF RSAPSS, SignedForm
<1>7. ASSUME NEW bits, NEW hash \in SHA2, d = RSAPKCS1(bits, hash)  PROVE SignedForm(d)
  BY <1>7 DEF RSAPKCS1, SignedForm
<1> QED BY <1>1, <1>2, <1>3, <1>4, <1>5, <1>6, <1>7 DEF SignatureForms

LEMMA PrehashedFields ==
    \A d \in PrehashedForms : PrehashedForm(d) /\ (d = Ed25519("PH") => d.family = "ed25519")
<1> SUFFICES ASSUME NEW d \in PrehashedForms
             PROVE  PrehashedForm(d) /\ (d = Ed25519("PH") => d.family = "ed25519")
  OBVIOUS
<1>1. d = Ed25519("PH") => PrehashedForm(d) /\ d.family = "ed25519"  BY DEF Ed25519, PrehashedForm
<1>2. ASSUME NEW curve \in Curves, d = ECDSA(curve, Unspecified)  PROVE PrehashedForm(d)
  BY <1>2 DEF ECDSA, PrehashedForm
<1>3. ASSUME NEW bits, d = RSAPSS(bits, Unspecified)  PROVE PrehashedForm(d)
  BY <1>3 DEF RSAPSS, PrehashedForm
<1>4. ASSUME NEW bits, d = RSAPKCS1(bits, Unspecified)  PROVE PrehashedForm(d)
  BY <1>4 DEF RSAPKCS1, PrehashedForm
<1> QED BY <1>1, <1>2, <1>3, <1>4 DEF PrehashedForms, Curves

LEMMA CipherFields ==
    \A d \in CipherForms : CipherForm(d) /\ (d # ChaCha20(192, TRUE) /\ d.family = "chacha20Poly1305"
                                             => d.nonce = 96 /\ d.extended = FALSE)
<1> SUFFICES ASSUME NEW d \in CipherForms
             PROVE  CipherForm(d) /\ (d # ChaCha20(192, TRUE) /\ d.family = "chacha20Poly1305"
                                      => d.nonce = 96 /\ d.extended = FALSE)
  OBVIOUS
<1>1. ASSUME NEW bits \in {128, 192, 256}, d = AESGCM(bits)
      PROVE  CipherForm(d) /\ d.family = "aesGcm"
  BY <1>1 DEF AESGCM, CipherForm
<1>2. ASSUME NEW bits \in {128, 192, 256}, d = AESCBC(bits)
      PROVE  CipherForm(d) /\ d.family = "aesCbc"
  BY <1>2 DEF AESCBC, CipherForm
<1>3. ASSUME NEW bits \in {128, 192, 256}, d = AESCTR(bits)
      PROVE  CipherForm(d) /\ d.family = "aesCtr"
  BY <1>3 DEF AESCTR, CipherForm
<1>4. CASE d = ChaCha20(96, FALSE)  BY <1>4 DEF ChaCha20, CipherForm
<1>5. CASE d = ChaCha20(192, TRUE)  BY <1>5 DEF ChaCha20, CipherForm
<1>6. CASE d \in {AESGCM(bits) : bits \in {128, 192, 256}}
  <2>1. PICK bits \in {128, 192, 256} : d = AESGCM(bits)  BY Zenon, <1>6
  <2>2. CipherForm(d) /\ d.family = "aesGcm"  BY Zenon, <1>1, <2>1
  <2> QED BY <2>2
<1>7. CASE d \in {AESCBC(bits) : bits \in {128, 192, 256}}
  <2>1. PICK bits \in {128, 192, 256} : d = AESCBC(bits)  BY Zenon, <1>7
  <2>2. CipherForm(d) /\ d.family = "aesCbc"  BY Zenon, <1>2, <2>1
  <2> QED BY <2>2
<1>8. CASE d \in {AESCTR(bits) : bits \in {128, 192, 256}}
  <2>1. PICK bits \in {128, 192, 256} : d = AESCTR(bits)  BY Zenon, <1>8
  <2>2. CipherForm(d) /\ d.family = "aesCtr"  BY Zenon, <1>3, <2>1
  <2> QED BY <2>2
<1> QED BY Zenon, <1>4, <1>5, <1>6, <1>7, <1>8 DEF CipherForms

\* The key is as GenerateKey makes it for the details: also its encodings.
Keyed(d, k) ==
    /\ KeyOf(d, k)
    /\ d.family = "ecdsa" => k.private = "SEC1" /\ k.public = "SPKI"
    /\ d.family \in RSA \cup {"ed25519"} => k.private = "PKCS8" /\ k.public = "SPKI"
    /\ d.family = "mlDsa" => k.private = "PKCS8" /\ k.public = "RAW"

Formal(d) == SignedForm(d) \/ PrehashedForm(d) \/ CipherForm(d)

SignFaults(d, context) == Require(d.family = "mlDsa" => context <= 255, "InvalidArgument")

Signature(d, m, context) ==
    CASE d.family = "ecdsa" -> [scheme |-> "ecdsa", digest |-> Hash(d.hash, m), format |-> "DER"]
      [] d.family = "rsaPss" -> [scheme |-> "pss", hash |-> d.hash, digest |-> Hash(d.hash, m),
                                 salt |-> d.salt, saltBytes |-> d.saltBytes]
      [] d.family = "rsaPkcs1v15" -> [scheme |-> "pkcs1v15", hash |-> d.hash,
                                      digest |-> Hash(d.hash, m)]
      [] d.family = "ed25519" -> [scheme |-> "ed25519", digest |-> m]
      [] d.family = "mlDsa" -> [scheme |-> "ml-dsa", digest |-> m, context |-> context]

LEMMA NoneJoined == <<>> \o <<>> = <<>> /\ \A c \in Errors : <<>> \o c = c /\ c \o <<>> = c
  BY DEF Errors

LEMMA MinHashes ==
    /\ DOMAIN Soft!curveMinHash = Curves
    /\ \A c \in Curves : /\ Soft!curveMinHash[c] \in SHA2
                         /\ Soft!curveMinHash[c] # Unspecified
                         /\ Strength[Soft!curveMinHash[c]] \in Nat
  BY DEF Soft!curveMinHash, Curves, SHA2, Strength, Unspecified

LEMMA SoftSignReplies ==
    ASSUME NEW d, NEW k, NEW m, NEW context, SignedForm(d), Keyed(d, k)
    PROVE  /\ Soft!Sign(d, k, m, context) = Answer(SignFaults(d, context), Signature(d, m, context))
           /\ Soft!Verify(d, k, m, context) = Answer(SignFaults(d, context), Signature(d, m, context))
<1> DEFINE reply == Answer(SignFaults(d, context), Signature(d, m, context))
<1> SUFFICES Soft!Sign(d, k, m, context) = reply /\ Soft!Verify(d, k, m, context) = reply  OBVIOUS
<1>1. CASE d.family = "ecdsa"
  <2>1. /\ d.curve \in Curves /\ d.hash = Soft!curveMinHash[d.curve] /\ d.format = "DER"
        /\ k.type = "EC" /\ k.size = d.curve /\ k.private = "SEC1" /\ k.public = "SPKI"
    BY <1>1 DEF SignedForm, Keyed, KeyOf, RSA, AES
  <2>2. d.hash \in SHA2 /\ d.hash # Unspecified /\ Strength[d.hash] \in Nat
    BY <2>1, MinHashes
  <2>3. Soft!parseECDSAPrivateKey(k) = <<>> /\ Soft!parseECDSAPublicKey(k) = <<>>
    BY <2>1, NoneJoined DEF Soft!parseECDSAPrivateKey, Soft!parseECDSAPublicKey, Soft!Require
  <2>4. Soft!checkCurveMatches(k, d.curve) = <<>>
    BY <2>1, NoneJoined DEF Soft!checkCurveMatches, Soft!curveForAlgorithm, Soft!Require, Curves
  <2>5. Soft!ResolvedHash(d) = d.hash
    BY <2>2 DEF Soft!ResolvedHash, Soft!Unspecified, Unspecified
  <2>6. Soft!ecdsaDigest(d) = <<>>
    BY <2>1, <2>2, <2>5, NoneJoined, MinHashes
       DEF Soft!ecdsaDigest, Soft!Require, Soft!Strength, Strength, SHA2
  <2>7. Soft!SignatureFormat(d) = <<>>  BY <2>1 DEF Soft!SignatureFormat, Soft!Require
  <2>8. Soft!EcdsaOver(d, Soft!Hash(d.hash, m)) = Signature(d, m, context)
    BY <1>1, <2>1 DEF Soft!EcdsaOver, Soft!Hash, Hash, Signature
  <2>9. SignFaults(d, context) = <<>>  BY <1>1 DEF SignFaults, Require
  <2>10. reply = Answer(<<>>, Signature(d, m, context))  BY <2>9
  <2>11. Soft!Sign(d, k, m, context) = Soft!signECDSA(d, k, m)
         /\ Soft!Verify(d, k, m, context) = Soft!verifyECDSA(d, k, m)
    BY <1>1 DEF Soft!Sign, Soft!Verify
  <2> QED BY <2>3, <2>4, <2>5, <2>6, <2>7, <2>8, <2>10, <2>11, NoneJoined
          DEF Soft!signECDSA, Soft!verifyECDSA, Soft!Answer, Answer
<1>2. CASE d.family \in RSA
  <2>1. /\ d.hash \in SHA2 /\ k.type = "RSA" /\ k.size = d.bits /\ k.private = "PKCS8" /\ k.public = "SPKI"
        /\ d.family = "rsaPss" => d.mgf = "MGF1" /\ d.mgfHash = d.hash /\ d.salt = "HASH_LENGTH"
    BY <1>2 DEF SignedForm, Keyed, KeyOf, RSA, AES
  <2>2. Soft!parseRSAPrivateKey(k) = <<>> /\ Soft!parseRSAPublicKey(k) = <<>>
        /\ Soft!checkRSAKeySize(k, d.bits) = <<>>
    BY <2>1, NoneJoined
       DEF Soft!parseRSAPrivateKey, Soft!parseRSAPublicKey, Soft!checkRSAKeySize, Soft!Require
  <2>3. Soft!rsaHash(d.hash) = <<>> /\ Soft!RsaHashOf(d.hash) = d.hash
    BY <2>1 DEF Soft!rsaHash, Soft!RsaHashOf, Soft!Require, Soft!Unspecified, SHA2
  <2>4. Soft!RightLength(Soft!Hash(d.hash, m), d.hash) = <<>>
    BY <2>1 DEF Soft!RightLength, Soft!Hash, Soft!Require
  <2>5. SignFaults(d, context) = <<>>  BY <1>2 DEF SignFaults, Require, RSA
  <2>6. reply = Answer(<<>>, Signature(d, m, context))  BY <2>5
  <2>7. CASE d.family = "rsaPss"
    <3>1. Soft!checkRSAPSSMGF(d, d.hash) = <<>> /\ Soft!rsaPSSSaltLength(d) = <<>>
      BY <2>1, <2>7, NoneJoined DEF Soft!checkRSAPSSMGF, Soft!rsaPSSSaltLength, Soft!Require
    <3>2. Soft!PSSOver(d, d.hash, Soft!Hash(d.hash, m)) = Signature(d, m, context)
      BY <2>7, <2>3 DEF Soft!PSSOver, Soft!Hash, Hash, Signature
    <3>3. Soft!Sign(d, k, m, context) = Soft!signRSAPSSCore(d, k, Soft!Hash(d.hash, m), d.hash)
          /\ Soft!Verify(d, k, m, context) = Soft!verifyRSAPSSCore(d, k, Soft!Hash(d.hash, m), d.hash)
      BY <2>3, <2>7 DEF Soft!Sign, Soft!Verify
    <3> QED BY <2>2, <2>3, <2>4, <2>6, <3>1, <3>2, <3>3, NoneJoined
            DEF Soft!signRSAPSSCore, Soft!verifyRSAPSSCore, Soft!Answer, Answer
  <2>8. CASE d.family = "rsaPkcs1v15"
    <3>1. Soft!PKCS1Over(d.hash, Soft!Hash(d.hash, m)) = Signature(d, m, context)
      BY <2>8, <2>3 DEF Soft!PKCS1Over, Soft!Hash, Hash, Signature
    <3>2. Soft!Sign(d, k, m, context) = Soft!signRSAPKCS1v15Core(d, k, Soft!Hash(d.hash, m), d.hash)
          /\ Soft!Verify(d, k, m, context) = Soft!verifyRSAPKCS1v15Core(d, k, Soft!Hash(d.hash, m), d.hash)
      BY <2>3, <2>8 DEF Soft!Sign, Soft!Verify
    <3> QED BY <2>2, <2>3, <2>4, <2>6, <3>1, <3>2, NoneJoined
            DEF Soft!signRSAPKCS1v15Core, Soft!verifyRSAPKCS1v15Core, Soft!Answer, Answer
  <2> QED BY <1>2, <2>7, <2>8 DEF RSA
<1>3. CASE d.family = "ed25519"
  <2>1. d.variant = "PURE" /\ k.type = "Ed25519" /\ k.private = "PKCS8" /\ k.public = "SPKI"
    BY <1>3 DEF SignedForm, Keyed, KeyOf, RSA, AES
  <2>2. /\ Soft!checkEd25519PureVariant(d) = <<>>
        /\ Soft!parseEd25519PrivateKey(k) = <<>> /\ Soft!parseEd25519PublicKey(k) = <<>>
    BY <2>1, NoneJoined
       DEF Soft!checkEd25519PureVariant, Soft!parseEd25519PrivateKey, Soft!parseEd25519PublicKey, Soft!Require
  <2>3. Soft!PureOver(m) = Signature(d, m, context)  BY <1>3 DEF Soft!PureOver, Signature
  <2>4. SignFaults(d, context) = <<>>  BY <1>3 DEF SignFaults, Require
  <2>5. reply = Answer(<<>>, Signature(d, m, context))  BY <2>4
  <2>6. Soft!Sign(d, k, m, context) = Soft!signEd25519(d, k, m)
        /\ Soft!Verify(d, k, m, context) = Soft!verifyEd25519(d, k, m)
    BY <1>3 DEF Soft!Sign, Soft!Verify
  <2> QED BY <2>2, <2>3, <2>5, <2>6, NoneJoined
          DEF Soft!signEd25519, Soft!verifyEd25519, Soft!Answer, Answer
<1>4. CASE d.family = "mlDsa"
  <2>1. d.set \in {44, 65, 87} /\ k.type = "ML-DSA" /\ k.size = d.set
        /\ k.private = "PKCS8" /\ k.public = "RAW"
    BY <1>4 DEF SignedForm, Keyed, KeyOf, RSA, AES
  <2>2. Soft!mldsaScheme(d.set) = <<>> /\ Soft!parseMLDSAPrivateKey(k, d.set) = <<>>
    BY <2>1, NoneJoined DEF Soft!mldsaScheme, Soft!parseMLDSAPrivateKey, Soft!Require
  <2>3. Soft!Require(k.public = "RAW" /\ k.type = "ML-DSA" /\ k.size = d.set, "Unknown") = <<>>
    BY <2>1 DEF Soft!Require
  <2>4. Soft!MLDSAOver(m, context) = Signature(d, m, context)  BY <1>4 DEF Soft!MLDSAOver, Signature
  <2>5. Soft!checkMLDSAContextLength(context) = SignFaults(d, context)
        /\ SignFaults(d, context) \in Errors
    BY <1>4, NoErrors, CodesInUse DEF Soft!checkMLDSAContextLength, SignFaults, Soft!Require, Require
  <2>6. Soft!Sign(d, k, m, context) = Soft!signMLDSA(d, k, m, context)
        /\ Soft!Verify(d, k, m, context) = Soft!verifyMLDSA(d, k, m, context)
    BY <1>4 DEF Soft!Sign, Soft!Verify
  <2> QED BY <2>2, <2>3, <2>4, <2>5, <2>6, NoneJoined
          DEF Soft!signMLDSA, Soft!verifyMLDSA, Soft!Answer, Answer
<1> QED BY <1>1, <1>2, <1>3, <1>4 DEF SignedForm, RSA

LEMMA OsslSignReplies ==
    ASSUME NEW d, NEW k, NEW m, NEW context, SignedForm(d), Keyed(d, k)
    PROVE  /\ Ossl!Sign(d, k, m, context) = Answer(SignFaults(d, context), Signature(d, m, context))
           /\ Ossl!Verify(d, k, m, context) = Answer(SignFaults(d, context), Signature(d, m, context))
<1> DEFINE reply == Answer(SignFaults(d, context), Signature(d, m, context))
<1> SUFFICES Ossl!Sign(d, k, m, context) = reply /\ Ossl!Verify(d, k, m, context) = reply  OBVIOUS
<1>1. CASE d.family = "ecdsa"
  <2>1. /\ d.curve \in Curves /\ d.hash = Soft!curveMinHash[d.curve] /\ d.format = "DER"
        /\ k.type = "EC" /\ k.size = d.curve /\ k.private = "SEC1" /\ k.public = "SPKI"
    BY <1>1 DEF SignedForm, Keyed, KeyOf, RSA, AES
  <2>2. d.hash \in SHA2 /\ d.hash # Unspecified /\ Strength[d.hash] \in Nat
        /\ Ossl!curveMinHash = Soft!curveMinHash
    BY <2>1, MinHashes DEF Ossl!curveMinHash, Soft!curveMinHash
  <2>3. Ossl!parsePrivateKey(k) = <<>> /\ Ossl!parsePublicKey(k) = <<>>
    BY <2>1 DEF Ossl!parsePrivateKey, Ossl!parsePublicKey, Ossl!Require
  <2>4. Ossl!checkCurveMatches(k, d.curve) = <<>>
    BY <2>1, NoneJoined
       DEF Ossl!checkCurveMatches, Ossl!Bits, Ossl!curveBits, Ossl!Require, Curves
  <2>5. Ossl!ResolvedHash(d) = d.hash
    BY <2>2 DEF Ossl!ResolvedHash, Ossl!Unspecified, Unspecified
  <2>6. Ossl!ecdsaDigestName(d) = <<>>
    BY <2>1, <2>2, <2>5, NoneJoined, MinHashes
       DEF Ossl!ecdsaDigestName, Ossl!digestNameFor, Ossl!Require, Ossl!Strength, Strength, SHA2
  <2>7. Ossl!ecdsaSignatureFormat(d) = <<>>  BY <2>1 DEF Ossl!ecdsaSignatureFormat, Ossl!Require
  <2>8. Ossl!EcdsaOver(d, Ossl!Hash(d.hash, m)) = Signature(d, m, context)
    BY <1>1, <2>1 DEF Ossl!EcdsaOver, Ossl!Hash, Hash, Signature
  <2>9. SignFaults(d, context) = <<>>  BY <1>1 DEF SignFaults, Require
  <2>10. reply = Answer(<<>>, Signature(d, m, context))  BY <2>9
  <2>11. Ossl!Sign(d, k, m, context) = Ossl!signECDSA(d, k, m)
         /\ Ossl!Verify(d, k, m, context) = Ossl!verifyECDSA(d, k, m)
    BY <1>1 DEF Ossl!Sign, Ossl!Verify
  <2> QED BY <2>3, <2>4, <2>5, <2>6, <2>7, <2>8, <2>10, <2>11, NoneJoined
          DEF Ossl!signECDSA, Ossl!verifyECDSA, Ossl!Answer, Answer
<1>2. CASE d.family \in RSA
  <2>1. /\ d.hash \in SHA2 /\ k.type = "RSA" /\ k.size = d.bits /\ k.private = "PKCS8" /\ k.public = "SPKI"
        /\ d.family = "rsaPss" => d.mgf = "MGF1" /\ d.mgfHash = d.hash /\ d.salt = "HASH_LENGTH"
    BY <1>2 DEF SignedForm, Keyed, KeyOf, RSA, AES
  <2>2. Ossl!parsePrivateKey(k) = <<>> /\ Ossl!parsePublicKey(k) = <<>>
        /\ Ossl!checkRSAKeySize(k, d.bits) = <<>>
    BY <2>1 DEF Ossl!parsePrivateKey, Ossl!parsePublicKey, Ossl!checkRSAKeySize, Ossl!Bits, Ossl!Require
  <2>3. Ossl!rsaHashName(d.hash) = <<>> /\ Ossl!RsaHashOf(d.hash) = d.hash
    BY <2>1 DEF Ossl!rsaHashName, Ossl!RsaHashOf, Ossl!Require, Ossl!Unspecified, SHA2
  <2>4. Ossl!RightLength(Ossl!Hash(d.hash, m), d.hash) = <<>>
    BY <2>1 DEF Ossl!RightLength, Ossl!Hash, Ossl!Require
  <2>5. SignFaults(d, context) = <<>>  BY <1>2 DEF SignFaults, Require, RSA
  <2>6. reply = Answer(<<>>, Signature(d, m, context))  BY <2>5
  <2>7. CASE d.family = "rsaPss"
    <3>1. Ossl!checkRSAPSSMGF(d, d.hash) = <<>> /\ Ossl!rsaPSSSaltLength(d) = <<>>
      BY <2>1, <2>7, NoneJoined DEF Ossl!checkRSAPSSMGF, Ossl!rsaPSSSaltLength, Ossl!Require
    <3>2. Ossl!PSSOver(d, d.hash, Ossl!Hash(d.hash, m)) = Signature(d, m, context)
      BY <2>7, <2>3 DEF Ossl!PSSOver, Ossl!Hash, Hash, Signature
    <3>3. Ossl!Sign(d, k, m, context) = Ossl!signRSAPSSDigest(d, k, Ossl!Hash(d.hash, m), d.hash)
          /\ Ossl!Verify(d, k, m, context) = Ossl!verifyRSAPSSDigest(d, k, Ossl!Hash(d.hash, m), d.hash)
      BY <2>3, <2>7 DEF Ossl!Sign, Ossl!Verify, Ossl!signRSAPSS, Ossl!verifyRSAPSS
    <3> QED BY <2>2, <2>3, <2>4, <2>6, <3>1, <3>2, <3>3, NoneJoined
            DEF Ossl!signRSAPSSDigest, Ossl!verifyRSAPSSDigest, Ossl!PSSChecks, Ossl!Answer, Answer
  <2>8. CASE d.family = "rsaPkcs1v15"
    <3>1. Ossl!PKCS1Over(d.hash, Ossl!Hash(d.hash, m)) = Signature(d, m, context)
      BY <2>8, <2>3 DEF Ossl!PKCS1Over, Ossl!Hash, Hash, Signature
    <3>2. Ossl!Sign(d, k, m, context) = Ossl!signRSAPKCS1v15Digest(d, k, Ossl!Hash(d.hash, m), d.hash)
          /\ Ossl!Verify(d, k, m, context) = Ossl!verifyRSAPKCS1v15Digest(d, k, Ossl!Hash(d.hash, m), d.hash)
      BY <2>3, <2>8 DEF Ossl!Sign, Ossl!Verify, Ossl!signRSAPKCS1v15, Ossl!verifyRSAPKCS1v15
    <3> QED BY <2>2, <2>3, <2>4, <2>6, <3>1, <3>2, NoneJoined
            DEF Ossl!signRSAPKCS1v15Digest, Ossl!verifyRSAPKCS1v15Digest, Ossl!PKCS1Checks,
                Ossl!Answer, Answer
  <2> QED BY <1>2, <2>7, <2>8 DEF RSA
<1>3. CASE d.family = "ed25519"
  <2>1. d.variant = "PURE" /\ k.type = "Ed25519" /\ k.private = "PKCS8" /\ k.public = "SPKI"
    BY <1>3 DEF SignedForm, Keyed, KeyOf, RSA, AES
  <2>2. /\ Ossl!checkEd25519VariantSupported(d) = <<>> /\ Ossl!IsEd25519(k) = <<>>
        /\ Ossl!parsePrivateKey(k) = <<>> /\ Ossl!parsePublicKey(k) = <<>>
    BY <2>1 DEF Ossl!checkEd25519VariantSupported, Ossl!IsEd25519, Ossl!parsePrivateKey,
                Ossl!parsePublicKey, Ossl!Require
  <2>3. Ossl!EdOver(d, m) = Signature(d, m, context)  BY <1>3, <2>1 DEF Ossl!EdOver, Signature
  <2>4. SignFaults(d, context) = <<>>  BY <1>3 DEF SignFaults, Require
  <2>5. reply = Answer(<<>>, Signature(d, m, context))  BY <2>4
  <2>6. Ossl!Sign(d, k, m, context) = Ossl!signEd25519(d, k, m)
        /\ Ossl!Verify(d, k, m, context) = Ossl!verifyEd25519(d, k, m)
    BY <1>3 DEF Ossl!Sign, Ossl!Verify
  <2> QED BY <2>2, <2>3, <2>5, <2>6, NoneJoined
          DEF Ossl!signEd25519, Ossl!verifyEd25519, Ossl!Answer, Answer
<1>4. CASE d.family = "mlDsa"
  <2>1. d.set \in {44, 65, 87} /\ k.type = "ML-DSA" /\ k.size = d.set
        /\ k.private = "PKCS8" /\ k.public = "RAW"
    BY <1>4 DEF SignedForm, Keyed, KeyOf, RSA, AES
  <2>2. Ossl!mlDSAKeyAlgorithmFor(d.set) = <<>> /\ Ossl!parsePrivateKey(k) = <<>>
        /\ Ossl!Require(k.type = "ML-DSA" /\ k.size = d.set, "InvalidArgument") = <<>>
    BY <2>1 DEF Ossl!mlDSAKeyAlgorithmFor, Ossl!parsePrivateKey, Ossl!Require
  <2>3. Ossl!Require(k.public = "RAW" /\ k.type = "ML-DSA" /\ k.size = d.set, "Unknown") = <<>>
    BY <2>1 DEF Ossl!Require
  <2>4. Ossl!MLDSAOver(m, context) = Signature(d, m, context)  BY <1>4 DEF Ossl!MLDSAOver, Signature
  <2>5. Ossl!checkMLDSAContextLength(context) = SignFaults(d, context)
        /\ SignFaults(d, context) \in Errors
    BY <1>4, NoErrors, CodesInUse DEF Ossl!checkMLDSAContextLength, SignFaults, Ossl!Require, Require
  <2>6. Ossl!Sign(d, k, m, context) = Ossl!signMLDSA(d, k, m, context)
        /\ Ossl!Verify(d, k, m, context) = Ossl!verifyMLDSA(d, k, m, context)
    BY <1>4 DEF Ossl!Sign, Ossl!Verify
  <2> QED BY <2>2, <2>3, <2>4, <2>5, <2>6, NoneJoined
          DEF Ossl!signMLDSA, Ossl!verifyMLDSA, Ossl!Answer, Answer
<1> QED BY <1>1, <1>2, <1>3, <1>4 DEF SignedForm, RSA

-----------------------------------------------------------------------------
DigestFaults(d, digest, hash) ==
    IF hash # Unspecified /\ DigestLength[digest.hash] # DigestLength[hash] THEN <<"InvalidArgument">>
    ELSE IF d.family \in RSA THEN Soft!rsaHash(hash) \o Soft!RightLength(digest, Soft!RsaHashOf(hash))
    ELSE IF d.family = "ed25519" THEN Soft!checkEd25519PHHash(hash) \o Soft!RightLength(digest, "SHA512")
    ELSE <<>>

DigestSignature(d, digest, hash) ==
    CASE d.family = "ecdsa" -> [scheme |-> "ecdsa", digest |-> digest, format |-> "DER"]
      [] d.family = "rsaPss" -> Soft!PSSOver(d, hash, digest)
      [] d.family = "rsaPkcs1v15" -> Soft!PKCS1Over(hash, digest)
      [] d.family = "ed25519" -> [scheme |-> "ed25519ph", digest |-> digest]

LEMMA SoftErrors ==
    \A digest, hash :
        /\ Soft!rsaHash(hash) \in Errors /\ Soft!checkEd25519PHHash(hash) \in Errors
        /\ Soft!RightLength(digest, hash) \in Errors
  BY NoErrors, CodesInUse DEF Soft!rsaHash, Soft!checkEd25519PHHash, Soft!RightLength, Soft!Require

LEMMA SoftDigestReplies ==
    ASSUME NEW d, NEW k, NEW digest, NEW hash, PrehashedForm(d), Keyed(d, k)
    PROVE  /\ Soft!SignDigest(d, k, digest, hash)
                  = Answer(DigestFaults(d, digest, hash), DigestSignature(d, digest, hash))
           /\ DigestFaults(d, digest, hash) = <<>> =>
                  Soft!VerifyDigest(d, k, digest, hash) = Answer(<<>>, DigestSignature(d, digest, hash))
<1> DEFINE how == DigestSignature(d, digest, hash)
           faults == DigestFaults(d, digest, hash)
           wrong == hash # Unspecified /\ DigestLength[digest.hash] # DigestLength[hash]
<1> SUFFICES /\ Soft!SignDigest(d, k, digest, hash) = Answer(faults, how)
             /\ faults = <<>> => Soft!VerifyDigest(d, k, digest, hash) = Answer(<<>>, how)
  OBVIOUS
<1>0. Soft!validateDigestLength(hash, digest) <=> ~ wrong
  BY DEF Soft!validateDigestLength, Soft!DigestLength, DigestLength, Soft!Unspecified, Unspecified
<1>1. CASE wrong
  <2>1. faults = <<"InvalidArgument">>  BY <1>1 DEF DigestFaults
  <2>2. Soft!SignDigest(d, k, digest, hash) = Soft!Refuse("InvalidArgument")
    <3> HIDE DEF wrong
    <3> QED BY Zenon, <1>0, <1>1 DEF Soft!SignDigest
  <2>3. Soft!Refuse("InvalidArgument") = Answer(<<"InvalidArgument">>, how)
    <3> HIDE DEF how
    <3> QED BY DEF Soft!Refuse, Soft!Answer, Soft!Require, Answer
  <2>4. faults # <<>>  BY <2>1
  <2> HIDE DEF faults, how
  <2> QED BY <2>1, <2>2, <2>3, <2>4
<1>2. CASE ~ wrong /\ d.family = "ecdsa"
  <2>1. /\ d.curve \in Curves /\ d.format = "DER"
        /\ k.type = "EC" /\ k.size = d.curve /\ k.private = "SEC1" /\ k.public = "SPKI"
    BY <1>2 DEF PrehashedForm, Keyed, KeyOf, RSA, AES
  <2>2. Soft!parseECDSAPrivateKey(k) = <<>> /\ Soft!parseECDSAPublicKey(k) = <<>>
    BY <2>1, NoneJoined DEF Soft!parseECDSAPrivateKey, Soft!parseECDSAPublicKey, Soft!Require
  <2>3. Soft!checkCurveMatches(k, d.curve) = <<>> /\ Soft!SignatureFormat(d) = <<>>
    BY <2>1, NoneJoined
       DEF Soft!checkCurveMatches, Soft!curveForAlgorithm, Soft!SignatureFormat, Soft!Require, Curves
  <2>4. Soft!EcdsaOver(d, digest) = how
    BY <1>2, <2>1 DEF Soft!EcdsaOver, DigestSignature
  <2>5. faults = <<>>  BY <1>2 DEF DigestFaults, RSA
  <2>6. Soft!SignDigest(d, k, digest, hash) = Soft!signECDSADigest(d, k, digest)
        /\ Soft!VerifyDigest(d, k, digest, hash) = Soft!verifyECDSADigest(d, k, digest)
    <3> HIDE DEF wrong
    <3> QED BY <1>0, <1>2 DEF Soft!SignDigest, Soft!VerifyDigest
  <2> HIDE DEF faults, how
  <2> QED BY <2>2, <2>3, <2>4, <2>5, <2>6, NoneJoined
          DEF Soft!signECDSADigest, Soft!verifyECDSADigest, Soft!Answer, Answer
<1>3. CASE ~ wrong /\ d.family \in RSA
  <2>1. /\ k.type = "RSA" /\ k.size = d.bits /\ k.private = "PKCS8" /\ k.public = "SPKI"
        /\ d.family = "rsaPss" => d.mgf = "MGF1" /\ d.mgfHash = Unspecified /\ d.salt = "HASH_LENGTH"
    BY <1>3 DEF PrehashedForm, Keyed, KeyOf, RSA, AES
  <2>2. Soft!parseRSAPrivateKey(k) = <<>> /\ Soft!parseRSAPublicKey(k) = <<>>
        /\ Soft!checkRSAKeySize(k, d.bits) = <<>>
    BY <2>1, NoneJoined
       DEF Soft!parseRSAPrivateKey, Soft!parseRSAPublicKey, Soft!checkRSAKeySize, Soft!Require
  <2> DEFINE right == Soft!RightLength(digest, Soft!RsaHashOf(hash))
  <2>3. faults = Soft!rsaHash(hash) \o right  BY <1>3 DEF DigestFaults
  <2>4. Soft!rsaHash(hash) \in Errors /\ right \in Errors  BY SoftErrors
  <2>5. faults = <<>> => Soft!rsaHash(hash) = <<>>
    <3> HIDE DEF right, faults
    <3> QED BY <2>3, <2>4, ErrorsJoined DEF Clean
  <2>6. CASE d.family = "rsaPss"
    <3>1. Soft!checkRSAPSSMGF(d, hash) = <<>> /\ Soft!rsaPSSSaltLength(d) = <<>>
      BY <2>1, <2>6, NoneJoined
         DEF Soft!checkRSAPSSMGF, Soft!rsaPSSSaltLength, Soft!Require, Soft!Unspecified, Unspecified
    <3>2. Soft!PSSOver(d, hash, digest) = how
      BY <2>6 DEF DigestSignature
    <3>3. Soft!SignDigest(d, k, digest, hash) = Soft!signRSAPSSCore(d, k, digest, hash)
          /\ Soft!VerifyDigest(d, k, digest, hash) = Soft!verifyRSAPSSCore(d, k, digest, hash)
      <4> HIDE DEF wrong
      <4> QED BY <1>0, <1>3, <2>6 DEF Soft!SignDigest, Soft!VerifyDigest
    <3> HIDE DEF faults, how
    <3> QED BY <2>2, <2>3, <2>4, <2>5, <3>1, <3>2, <3>3, NoneJoined
            DEF Soft!signRSAPSSCore, Soft!verifyRSAPSSCore, Soft!Answer, Answer
  <2>7. CASE d.family = "rsaPkcs1v15"
    <3>1. Soft!PKCS1Over(hash, digest) = how
      BY <2>7 DEF DigestSignature
    <3>2. Soft!SignDigest(d, k, digest, hash) = Soft!signRSAPKCS1v15Core(d, k, digest, hash)
          /\ Soft!VerifyDigest(d, k, digest, hash) = Soft!verifyRSAPKCS1v15Core(d, k, digest, hash)
      <4> HIDE DEF wrong
      <4> QED BY <1>0, <1>3, <2>7 DEF Soft!SignDigest, Soft!VerifyDigest
    <3> HIDE DEF faults, how
    <3> QED BY <2>2, <2>3, <2>4, <2>5, <3>1, <3>2, NoneJoined
            DEF Soft!signRSAPKCS1v15Core, Soft!verifyRSAPKCS1v15Core, Soft!Answer, Answer
  <2> QED BY <1>3, <2>6, <2>7 DEF RSA
<1>4. CASE ~ wrong /\ d.family = "ed25519"
  <2>1. d.variant = "PH" /\ k.type = "Ed25519" /\ k.private = "PKCS8" /\ k.public = "SPKI"
    BY <1>4 DEF PrehashedForm, Keyed, KeyOf, RSA, AES
  <2>2. /\ Soft!PrehashVariant(d) = <<>>
        /\ Soft!parseEd25519PrivateKey(k) = <<>> /\ Soft!parseEd25519PublicKey(k) = <<>>
    BY <2>1, NoneJoined
       DEF Soft!PrehashVariant, Soft!parseEd25519PrivateKey, Soft!parseEd25519PublicKey, Soft!Require
  <2> DEFINE right == Soft!RightLength(digest, "SHA512")
  <2>3. faults = Soft!checkEd25519PHHash(hash) \o right  BY <1>4 DEF DigestFaults, RSA
  <2>4. Soft!checkEd25519PHHash(hash) \in Errors /\ right \in Errors  BY SoftErrors
  <2>5. faults = <<>> => Soft!checkEd25519PHHash(hash) = <<>>
    <3> HIDE DEF right, faults
    <3> QED BY <2>3, <2>4, ErrorsJoined DEF Clean
  <2>6. Soft!PHOver(digest) = how  BY <1>4 DEF Soft!PHOver, DigestSignature
  <2>7. Soft!SignDigest(d, k, digest, hash) = Soft!signEd25519PHDigest(d, k, digest, hash)
        /\ Soft!VerifyDigest(d, k, digest, hash) = Soft!verifyEd25519PHDigest(d, k, digest, hash)
    <3> HIDE DEF wrong
    <3> QED BY <1>0, <1>4 DEF Soft!SignDigest, Soft!VerifyDigest
  <2> HIDE DEF faults, how
  <2> QED BY <2>2, <2>3, <2>4, <2>5, <2>6, <2>7, NoneJoined
          DEF Soft!signEd25519PHDigest, Soft!verifyEd25519PHDigest, Soft!Answer, Answer
<1> QED BY <1>1, <1>2, <1>3, <1>4 DEF PrehashedForm, RSA

LEMMA OsslDigestReplies ==
    ASSUME NEW d, NEW k, NEW digest, NEW hash, PrehashedForm(d), d.family = "ed25519", Keyed(d, k)
    PROVE  /\ Ossl!SignDigest(d, k, digest, hash)
                  = Answer(DigestFaults(d, digest, hash), DigestSignature(d, digest, hash))
           /\ DigestFaults(d, digest, hash) = <<>> =>
                  Ossl!VerifyDigest(d, k, digest, hash) = Answer(<<>>, DigestSignature(d, digest, hash))
<1> DEFINE how == DigestSignature(d, digest, hash)
           faults == DigestFaults(d, digest, hash)
           wrong == hash # Unspecified /\ DigestLength[digest.hash] # DigestLength[hash]
<1> SUFFICES /\ Ossl!SignDigest(d, k, digest, hash) = Answer(faults, how)
             /\ faults = <<>> => Ossl!VerifyDigest(d, k, digest, hash) = Answer(<<>>, how)
  OBVIOUS
<1>0. Ossl!validateDigestLength(hash, digest) <=> ~ wrong
  BY DEF Ossl!validateDigestLength, Ossl!DigestLength, DigestLength, Ossl!Unspecified, Unspecified
<1>1. CASE wrong
  <2>1. faults = <<"InvalidArgument">>  BY <1>1 DEF DigestFaults
  <2>2. Ossl!SignDigest(d, k, digest, hash) = Ossl!Refuse("InvalidArgument")
    <3> HIDE DEF wrong
    <3> QED BY Zenon, <1>0, <1>1 DEF Ossl!SignDigest
  <2>3. Ossl!Refuse("InvalidArgument") = Answer(<<"InvalidArgument">>, how)
    <3> HIDE DEF how
    <3> QED BY DEF Ossl!Refuse, Ossl!Answer, Ossl!Require, Answer
  <2>4. faults # <<>>  BY <2>1
  <2> HIDE DEF faults, how
  <2> QED BY <2>1, <2>2, <2>3, <2>4
<1>2. CASE ~ wrong
  <2>1. d.variant = "PH" /\ k.type = "Ed25519" /\ k.private = "PKCS8" /\ k.public = "SPKI"
    BY <1>2 DEF PrehashedForm, Keyed, KeyOf, RSA, AES
  <2>2. /\ Ossl!PrehashVariant(d) = <<>> /\ Ossl!IsEd25519(k) = <<>>
        /\ Ossl!parsePrivateKey(k) = <<>> /\ Ossl!parsePublicKey(k) = <<>>
    BY <2>1 DEF Ossl!PrehashVariant, Ossl!IsEd25519, Ossl!parsePrivateKey, Ossl!parsePublicKey, Ossl!Require
  <2> DEFINE check == Soft!checkEd25519PHHash(hash)
             right == Soft!RightLength(digest, "SHA512")
  <2>3. faults = check \o right  BY <1>2 DEF DigestFaults, RSA
  <2>4. check \in Errors /\ right \in Errors  BY SoftErrors
  <2>5. Ossl!checkEd25519PHHash(hash) = check /\ Ossl!RightLength(digest, "SHA512") = right
    BY DEF Ossl!checkEd25519PHHash, Soft!checkEd25519PHHash, Ossl!RightLength, Soft!RightLength,
           Ossl!Require, Soft!Require, Ossl!Unspecified, Soft!Unspecified, Ossl!DigestLength, Soft!DigestLength
  <2>6. Ossl!PHOver(digest) = how  BY DEF Ossl!PHOver, DigestSignature
  <2>7. Ossl!SignDigest(d, k, digest, hash) = Ossl!signEd25519PHDigest(d, k, digest, hash)
        /\ Ossl!VerifyDigest(d, k, digest, hash) = Ossl!verifyEd25519PHDigest(d, k, digest, hash)
    <3> HIDE DEF wrong
    <3> QED BY <1>0, <1>2 DEF Ossl!SignDigest, Ossl!VerifyDigest
  <2> HIDE DEF faults, how, check, right
  <2> QED BY <2>2, <2>3, <2>4, <2>5, <2>6, <2>7, NoneJoined
          DEF Ossl!signEd25519PHDigest, Ossl!verifyEd25519PHDigest, Ossl!Answer, Answer
<1> QED BY <1>1, <1>2

-----------------------------------------------------------------------------
Sealed(d, aad) ==
    CASE d.family = "aesGcm" -> [scheme |-> "gcm", nonce |-> d.iv, tag |-> d.tag, aad |-> aad]
      [] d.family = "aesCbc" -> [scheme |-> "cbc", nonce |-> d.iv]
      [] d.family = "aesCtr" -> [scheme |-> "ctr", nonce |-> 128]
      [] d.family = "chacha20Poly1305" -> [scheme |-> "chacha20poly1305", nonce |-> d.nonce, aad |-> aad]

\* Only the software provider has the extended nonce.
Plain(d) == d.family = "chacha20Poly1305" => d.nonce = 96 /\ d.extended = FALSE

LEMMA SealedNonce ==
    ASSUME NEW d, NEW aad
    PROVE  /\ d.family = "aesGcm" => Sealed(d, aad).nonce = d.iv
           /\ d.family = "aesCbc" => Sealed(d, aad).nonce = d.iv
           /\ d.family = "aesCtr" => Sealed(d, aad).nonce = 128
           /\ d.family = "chacha20Poly1305" => Sealed(d, aad).nonce = d.nonce
  BY DEF Sealed

LEMMA SoftSealReplies ==
    ASSUME NEW d, NEW k, NEW aad, NEW ct, CipherForm(d), Keyed(d, k), ct.key = k.id, ct.how = Sealed(d, aad)
    PROVE  /\ Soft!Encrypt(d, k, aad) = Answer(<<>>, Sealed(d, aad))
           /\ Soft!Decrypt(d, k, ct, aad) = Answer(<<>>, ct.of)
<1> DEFINE how == Sealed(d, aad)
<1> SUFFICES /\ Soft!Encrypt(d, k, aad) = Answer(<<>>, how)
             /\ Soft!Decrypt(d, k, ct, aad) = Answer(<<>>, ct.of)
  OBVIOUS
<1>0. ct.how = how  OBVIOUS
<1>o. Soft!Opened(ct, k) = ct.of  BY DEF Soft!Opened
<1>k. d.family \in AES => Soft!checkAESKeyMatchesDeclaredSize(k, d.bits) = <<>>
  <2> SUFFICES ASSUME d.family \in AES PROVE Soft!checkAESKeyMatchesDeclaredSize(k, d.bits) = <<>>  OBVIOUS
  <2>1. d.bits \in {128, 192, 256} /\ k.type = "symmetric" /\ k.size = d.bits
    BY DEF Keyed, KeyOf, AES, RSA
  <2> QED BY <2>1, NoneJoined DEF Soft!checkAESKeyMatchesDeclaredSize, Soft!Require
<1>1. CASE d.family = "aesGcm"
  <2>1. d.iv = 96 /\ d.tag = 128  BY <1>1 DEF CipherForm
  <2>2. Soft!newAESGCM(d) = <<>>  BY <2>1, NoneJoined DEF Soft!newAESGCM, Soft!Require
  <2>3. Soft!GCMWith(d, aad) = how  BY <1>1 DEF Soft!GCMWith, Sealed
  <2>4. how.nonce = d.iv  BY <1>1, SealedNonce
  <2>5. Soft!Encrypt(d, k, aad) = Soft!encryptAESGCM(d, k, aad)
        /\ Soft!Decrypt(d, k, ct, aad) = Soft!decryptAESGCM(d, k, ct, aad)
    BY <1>1 DEF Soft!Encrypt, Soft!Decrypt
  <2> HIDE DEF how
  <2>6. Soft!Require(ct.how.nonce = d.iv, "InvalidArgument") = <<>>
        /\ Soft!Require(ct.key = k.id /\ ct.how = Soft!GCMWith(d, aad), "InvalidArgument") = <<>>
    BY <1>0, <2>3, <2>4 DEF Soft!Require
  <2> QED BY <1>1, <1>k, <2>2, <2>3, <2>5, <2>6, NoneJoined
          DEF Soft!encryptAESGCM, Soft!decryptAESGCM, Soft!Answer, Answer, AES
<1>2. CASE d.family = "aesCbc"
  <2>1. d.iv = 128 /\ d.padding = "PKCS7"  BY <1>2 DEF CipherForm
  <2>2. Soft!checkAESCBCParamsValid(d) = <<>>  BY <2>1, NoneJoined DEF Soft!checkAESCBCParamsValid, Soft!Require
  <2>3. [scheme |-> "cbc", nonce |-> d.iv] = how  BY <1>2 DEF Sealed
  <2>4. how.nonce = 128  BY <1>2, <2>1, SealedNonce
  <2>5. Soft!Encrypt(d, k, aad) = Soft!encryptAESCBC(d, k)
        /\ Soft!Decrypt(d, k, ct, aad) = Soft!decryptAESCBC(d, k, ct)
    BY <1>2 DEF Soft!Encrypt, Soft!Decrypt
  <2> HIDE DEF how
  <2>6. Soft!Require(ct.how.nonce = 128, "InvalidArgument") = <<>>
    BY <1>0, <2>4 DEF Soft!Require
  <2> QED BY <1>2, <1>o, <1>k, <2>2, <2>3, <2>5, <2>6, NoneJoined
          DEF Soft!encryptAESCBC, Soft!decryptAESCBC, Soft!Answer, Answer, AES
<1>3. CASE d.family = "aesCtr"
  <2>1. d.nonce = 96 /\ d.counter = 32  BY <1>3 DEF CipherForm
  <2>2. Soft!newAESCTRBlock(d, k) = <<>>
    BY <1>3, <1>k, <2>1, NoneJoined DEF Soft!newAESCTRBlock, Soft!Require, AES
  <2>3. [scheme |-> "ctr", nonce |-> 128] = how  BY <1>3 DEF Sealed
  <2>4. how.nonce = 128  BY <1>3, SealedNonce
  <2>5. Soft!Encrypt(d, k, aad) = Soft!encryptAESCTR(d, k)
        /\ Soft!Decrypt(d, k, ct, aad) = Soft!decryptAESCTR(d, k, ct)
    BY <1>3 DEF Soft!Encrypt, Soft!Decrypt
  <2> HIDE DEF how
  <2>6. Soft!Require(ct.how.nonce = 128, "InvalidArgument") = <<>>
    BY <1>0, <2>4 DEF Soft!Require
  <2> QED BY <1>o, <2>2, <2>3, <2>5, <2>6, NoneJoined
          DEF Soft!encryptAESCTR, Soft!decryptAESCTR, Soft!Answer, Answer
<1>4. CASE d.family = "chacha20Poly1305"
  <2>1. /\ k.type = "symmetric" /\ k.size = 256
        /\ <<d.nonce, d.counter, d.extended>> \in {<<96, 32, FALSE>>, <<192, 32, TRUE>>}
    BY <1>4 DEF CipherForm, Keyed, KeyOf, AES, RSA
  <2>2. Soft!newChaCha20Poly1305(d, k) = <<>>
    BY <2>1, NoneJoined DEF Soft!newChaCha20Poly1305, Soft!Require
  <2>3. Soft!ChaChaWith(d, aad) = how  BY <1>4 DEF Soft!ChaChaWith, Sealed
  <2>4. how.nonce = d.nonce  BY <1>4, SealedNonce
  <2>5. Soft!Encrypt(d, k, aad) = Soft!encryptChaCha20Poly1305(d, k, aad)
        /\ Soft!Decrypt(d, k, ct, aad) = Soft!decryptChaCha20Poly1305(d, k, ct, aad)
    BY <1>4 DEF Soft!Encrypt, Soft!Decrypt
  <2> HIDE DEF how
  <2>6. Soft!Require(ct.how.nonce = d.nonce, "InvalidArgument") = <<>>
        /\ Soft!Require(ct.key = k.id /\ ct.how = Soft!ChaChaWith(d, aad), "InvalidArgument") = <<>>
    BY <1>0, <2>3, <2>4 DEF Soft!Require
  <2> QED BY <2>2, <2>3, <2>5, <2>6, NoneJoined
          DEF Soft!encryptChaCha20Poly1305, Soft!decryptChaCha20Poly1305, Soft!Answer, Answer
<1> QED BY <1>1, <1>2, <1>3, <1>4 DEF CipherForm

LEMMA OsslSealReplies ==
    ASSUME NEW d, NEW k, NEW aad, NEW ct, CipherForm(d), Keyed(d, k), ct.key = k.id, ct.how = Sealed(d, aad),
           Plain(d)
    PROVE  /\ Ossl!Encrypt(d, k, aad) = Answer(<<>>, Sealed(d, aad))
           /\ Ossl!Decrypt(d, k, ct, aad) = Answer(<<>>, ct.of)
<1> DEFINE how == Sealed(d, aad)
<1> SUFFICES /\ Ossl!Encrypt(d, k, aad) = Answer(<<>>, how)
             /\ Ossl!Decrypt(d, k, ct, aad) = Answer(<<>>, ct.of)
  OBVIOUS
<1>0. ct.how = how  OBVIOUS
<1>o. Ossl!Opened(ct, k) = ct.of  BY DEF Ossl!Opened
<1>k. d.family \in AES => Ossl!cipherNameFor(d) = <<>> /\ Ossl!KeyLength(k, d.bits) = <<>>
  <2> SUFFICES ASSUME d.family \in AES
               PROVE  Ossl!cipherNameFor(d) = <<>> /\ Ossl!KeyLength(k, d.bits) = <<>>
    OBVIOUS
  <2>1. d.bits \in {128, 192, 256} /\ k.type = "symmetric" /\ k.size = d.bits
        /\ d.family # "chacha20Poly1305"
    BY DEF Keyed, KeyOf, AES, RSA
  <2> QED BY <2>1 DEF Ossl!cipherNameFor, Ossl!aesCipherNameFor, Ossl!KeyLength, Ossl!Require
<1>1. CASE d.family = "aesGcm"
  <2>3. Ossl!GCMWith(d, aad) = how  BY <1>1 DEF Ossl!GCMWith, Sealed
  <2>4. how.nonce = d.iv  BY <1>1, SealedNonce
  <2>5. Ossl!Encrypt(d, k, aad) = Ossl!encryptAESGCM(d, k, aad)
        /\ Ossl!Decrypt(d, k, ct, aad) = Ossl!decryptAESGCM(d, k, ct, aad)
    BY <1>1 DEF Ossl!Encrypt, Ossl!Decrypt
  <2> HIDE DEF how
  <2>6. Ossl!Require(ct.how.nonce = d.iv, "InvalidArgument") = <<>>
        /\ Ossl!Require(ct.key = k.id /\ ct.how = Ossl!GCMWith(d, aad), "InvalidArgument") = <<>>
    BY <1>0, <2>3, <2>4 DEF Ossl!Require
  <2> QED BY <1>1, <1>k, <2>3, <2>5, <2>6, NoneJoined
          DEF Ossl!encryptAESGCM, Ossl!decryptAESGCM, Ossl!Answer, Answer, AES
<1>2. CASE d.family = "aesCbc"
  <2>1. d.iv = 128 /\ d.padding = "PKCS7"  BY <1>2 DEF CipherForm
  <2>2. Ossl!checkAESCBCParamsValid(d) = <<>>  BY <2>1, NoneJoined DEF Ossl!checkAESCBCParamsValid, Ossl!Require
  <2>3. [scheme |-> "cbc", nonce |-> d.iv] = how  BY <1>2 DEF Sealed
  <2>4. how.nonce = 128  BY <1>2, <2>1, SealedNonce
  <2>5. Ossl!Encrypt(d, k, aad) = Ossl!encryptAESCBC(d, k)
        /\ Ossl!Decrypt(d, k, ct, aad) = Ossl!decryptAESCBC(d, k, ct)
    BY <1>2 DEF Ossl!Encrypt, Ossl!Decrypt
  <2> HIDE DEF how
  <2>6. Ossl!Require(ct.how.nonce = 128, "Unknown") = <<>>
    BY <1>0, <2>4 DEF Ossl!Require
  <2> QED BY <1>2, <1>o, <1>k, <2>2, <2>3, <2>5, <2>6, NoneJoined
          DEF Ossl!encryptAESCBC, Ossl!decryptAESCBC, Ossl!Answer, Answer, AES
<1>3. CASE d.family = "aesCtr"
  <2>1. d.nonce = 96 /\ d.counter = 32  BY <1>3 DEF CipherForm
  <2>2. Ossl!checkAESCTRParamsValid(d) = <<>>
    BY <2>1 DEF Ossl!checkAESCTRParamsValid, Ossl!Require
  <2>3. [scheme |-> "ctr", nonce |-> 128] = how  BY <1>3 DEF Sealed
  <2>4. how.nonce = 128  BY <1>3, SealedNonce
  <2>5. Ossl!Encrypt(d, k, aad) = Ossl!encryptAESCTR(d, k)
        /\ Ossl!Decrypt(d, k, ct, aad) = Ossl!decryptAESCTR(d, k, ct)
    BY <1>3 DEF Ossl!Encrypt, Ossl!Decrypt
  <2> HIDE DEF how
  <2>6. Ossl!Require(ct.how.nonce = 128, "Unknown") = <<>>
    BY <1>0, <2>4 DEF Ossl!Require
  <2> QED BY <1>3, <1>o, <1>k, <2>2, <2>3, <2>5, <2>6, NoneJoined
          DEF Ossl!encryptAESCTR, Ossl!decryptAESCTR, Ossl!Answer, Answer, AES
<1>4. CASE d.family = "chacha20Poly1305"
  <2>1. k.type = "symmetric" /\ k.size = 256 /\ d.nonce = 96 /\ d.extended = FALSE
    BY <1>4 DEF Plain, Keyed, KeyOf, AES, RSA
  <2>2. Ossl!cipherNameFor(d) = <<>> /\ Ossl!KeyLength(k, 256) = <<>>
    BY <1>4, <2>1 DEF Ossl!cipherNameFor, Ossl!KeyLength, Ossl!Require
  <2>3. Ossl!ChaChaWith(aad) = how  BY <1>4, <2>1 DEF Ossl!ChaChaWith, Sealed
  <2>4. how.nonce = 96  BY <1>4, <2>1, SealedNonce
  <2>5. Ossl!Encrypt(d, k, aad) = Ossl!encryptChaCha20Poly1305(d, k, aad)
        /\ Ossl!Decrypt(d, k, ct, aad) = Ossl!decryptChaCha20Poly1305(d, k, ct, aad)
    BY <1>4 DEF Ossl!Encrypt, Ossl!Decrypt
  <2> HIDE DEF how
  <2>6. Ossl!Require(ct.how.nonce = 96, "InvalidArgument") = <<>>
        /\ Ossl!Require(ct.key = k.id /\ ct.how = Ossl!ChaChaWith(aad), "InvalidArgument") = <<>>
    BY <1>0, <2>3, <2>4 DEF Ossl!Require
  <2> QED BY <2>2, <2>3, <2>5, <2>6, NoneJoined
          DEF Ossl!encryptChaCha20Poly1305, Ossl!decryptChaCha20Poly1305, Ossl!Answer, Answer
<1> QED BY <1>1, <1>2, <1>3, <1>4 DEF CipherForm

LEMMA SoftSeals ==
    ASSUME NEW d, NEW k, NEW aad, CipherForm(d), Keyed(d, k)
    PROVE  Soft!Encrypt(d, k, aad) = Answer(<<>>, Sealed(d, aad))
<1> DEFINE ct == [key |-> k.id, how |-> Sealed(d, aad)]
<1>1. ct.key = k.id /\ ct.how = Sealed(d, aad)  OBVIOUS
<1> HIDE DEF ct
<1> QED BY <1>1, SoftSealReplies

LEMMA OsslSeals ==
    ASSUME NEW d, NEW k, NEW aad, CipherForm(d), Keyed(d, k), Plain(d)
    PROVE  Ossl!Encrypt(d, k, aad) = Answer(<<>>, Sealed(d, aad))
<1> DEFINE ct == [key |-> k.id, how |-> Sealed(d, aad)]
<1>1. ct.key = k.id /\ ct.how = Sealed(d, aad)  OBVIOUS
<1> HIDE DEF ct
<1> QED BY <1>1, OsslSealReplies

-----------------------------------------------------------------------------
(***************************************************************************)
(* Both providers make a key of such details.                              *)
(***************************************************************************)
LEMMA SoftGeneratesKeyed ==
    ASSUME NEW d, Formal(d)
    PROVE  Ok(Soft!GenerateKey(d)) /\ Keyed(d, Soft!GenerateKey(d).how)
<1> DEFINE made == Soft!GenerateKey(d)
<1> SUFFICES Ok(made) /\ Keyed(d, made.how)  OBVIOUS
<1>1. ASSUME NEW type, NEW size, NEW public, made = Soft!generatedKey(d, type, size, public),
             d.family \in {"ecdsa", "mlDsa", "ed25519", "chacha20Poly1305"} \cup RSA \cup AES
      PROVE  /\ Ok(made) /\ made.how.type = type /\ made.how.size = size /\ made.how.public = public
             /\ made.how.private = Soft!privateKeyEncoding(d)
  <2>1. Soft!privateKeyEncoding(d) # Soft!Unspecified
    BY <1>1 DEF Soft!privateKeyEncoding, Soft!Symmetric, Soft!Unspecified, RSA, AES
  <2> HIDE DEF made
  <2> QED BY <1>1, <2>1, NoErrors, SoftAnswerOK DEF Soft!generatedKey, Soft!Require
<1>2. CASE d.family = "ecdsa"
  <2>1. d.curve \in Curves  BY <1>2 DEF Formal, SignedForm, PrehashedForm, CipherForm
  <2>2. made = Soft!generatedKey(d, "EC", d.curve, "SPKI")
    BY <1>2, <2>1 DEF Soft!GenerateKey, Soft!generateECDSAKey, Soft!Symmetric, Curves
  <2>3. Soft!privateKeyEncoding(d) = "SEC1"  BY <1>2 DEF Soft!privateKeyEncoding, Soft!Symmetric
  <2> HIDE DEF made
  <2> QED BY <1>1, <1>2, <2>1, <2>2, <2>3 DEF Keyed, KeyOf, RSA
<1>3. CASE d.family = "mlDsa"
  <2>1. d.set \in {44, 65, 87}  BY <1>3 DEF Formal, SignedForm, PrehashedForm, CipherForm
  <2>2. made = Soft!generatedKey(d, "ML-DSA", d.set, "RAW")
    BY <1>3, <2>1 DEF Soft!GenerateKey, Soft!generateMLDSAKey, Soft!Symmetric
  <2>3. Soft!privateKeyEncoding(d) = "PKCS8"  BY <1>3 DEF Soft!privateKeyEncoding, Soft!Symmetric
  <2> HIDE DEF made
  <2> QED BY <1>1, <1>3, <2>1, <2>2, <2>3 DEF Keyed, KeyOf, RSA
<1>4. CASE d.family \in RSA
  <2>2. made = Soft!generatedKey(d, "RSA", d.bits, "SPKI")
    BY <1>4 DEF Soft!GenerateKey, Soft!generateRSAKey, Soft!Symmetric, RSA
  <2>3. Soft!privateKeyEncoding(d) = "PKCS8"  BY <1>4 DEF Soft!privateKeyEncoding, Soft!Symmetric, RSA
  <2> HIDE DEF made
  <2> QED BY <1>1, <1>4, <2>2, <2>3 DEF Keyed, KeyOf, RSA
<1>5. CASE d.family = "ed25519"
  <2>2. made = Soft!generatedKey(d, "Ed25519", "Ed25519", "SPKI")
    BY <1>5 DEF Soft!GenerateKey, Soft!generateEd25519Key, Soft!Symmetric
  <2>3. Soft!privateKeyEncoding(d) = "PKCS8"  BY <1>5 DEF Soft!privateKeyEncoding, Soft!Symmetric
  <2> HIDE DEF made
  <2> QED BY <1>1, <1>5, <2>2, <2>3 DEF Keyed, KeyOf, RSA
<1>6. CASE d.family \in AES
  <2>1. d.bits \in {128, 192, 256}  BY <1>6 DEF Formal, SignedForm, PrehashedForm, CipherForm, AES
  <2>2. made = Soft!generatedKey(d, "symmetric", d.bits, "none")
    BY <1>6, <2>1 DEF Soft!GenerateKey, Soft!generateSymmetricKey, Soft!generateAESKey, Soft!Symmetric, AES
  <2> HIDE DEF made
  <2> QED BY <1>1, <1>6, <2>1, <2>2 DEF Keyed, KeyOf, RSA, AES
<1>7. CASE d.family = "chacha20Poly1305"
  <2>2. made = Soft!generatedKey(d, "symmetric", 256, "none")
    BY <1>7 DEF Soft!GenerateKey, Soft!generateSymmetricKey, Soft!generateChaCha20Key, Soft!Symmetric
  <2> HIDE DEF made
  <2> QED BY <1>1, <1>7, <2>2 DEF Keyed, KeyOf, RSA, AES
<1> QED BY <1>2, <1>3, <1>4, <1>5, <1>6, <1>7 DEF Formal, SignedForm, PrehashedForm, CipherForm, RSA, AES

LEMMA OsslGeneratesKeyed ==
    ASSUME NEW d, Formal(d)
    PROVE  Ok(Ossl!GenerateKey(d)) /\ Keyed(d, Ossl!GenerateKey(d).how)
<1> DEFINE made == Ossl!GenerateKey(d)
<1> SUFFICES Ok(made) /\ Keyed(d, made.how)  OBVIOUS
<1>1. ASSUME NEW type, NEW size, NEW public, made = Ossl!generatedKey(d, type, size, public),
             d.family \in {"ecdsa", "mlDsa", "ed25519", "chacha20Poly1305"} \cup RSA \cup AES
      PROVE  /\ Ok(made) /\ made.how.type = type /\ made.how.size = size /\ made.how.public = public
             /\ made.how.private = Ossl!privateKeyEncoding(d)
  <2>1. Ossl!privateKeyEncoding(d) # Ossl!Unspecified
    BY <1>1 DEF Ossl!privateKeyEncoding, Ossl!Symmetric, Ossl!Unspecified, RSA, AES
  <2> HIDE DEF made
  <2> QED BY <1>1, <2>1, NoErrors, OsslAnswerOK DEF Ossl!generatedKey, Ossl!Require
<1>2. CASE d.family = "ecdsa"
  <2>1. d.curve \in Curves  BY <1>2 DEF Formal, SignedForm, PrehashedForm, CipherForm
  <2>2. made = Ossl!generatedKey(d, "EC", d.curve, "SPKI")
    BY <1>2, <2>1 DEF Ossl!GenerateKey, Ossl!generateECDSAKey, Ossl!Symmetric, Curves, Ossl!curveBits
  <2>3. Ossl!privateKeyEncoding(d) = "SEC1"  BY <1>2 DEF Ossl!privateKeyEncoding, Ossl!Symmetric
  <2> HIDE DEF made
  <2> QED BY <1>1, <1>2, <2>1, <2>2, <2>3 DEF Keyed, KeyOf, RSA
<1>3. CASE d.family = "mlDsa"
  <2>1. d.set \in {44, 65, 87}  BY <1>3 DEF Formal, SignedForm, PrehashedForm, CipherForm
  <2>2. made = Ossl!generatedKey(d, "ML-DSA", d.set, "RAW")
    BY <1>3, <2>1 DEF Ossl!GenerateKey, Ossl!generateMLDSAKey, Ossl!Symmetric
  <2>3. Ossl!privateKeyEncoding(d) = "PKCS8"  BY <1>3 DEF Ossl!privateKeyEncoding, Ossl!Symmetric
  <2> HIDE DEF made
  <2> QED BY <1>1, <1>3, <2>1, <2>2, <2>3 DEF Keyed, KeyOf, RSA
<1>4. CASE d.family \in RSA
  <2>2. made = Ossl!generatedKey(d, "RSA", d.bits, "SPKI")
    BY <1>4 DEF Ossl!GenerateKey, Ossl!generateRSAKey, Ossl!Symmetric, RSA
  <2>3. Ossl!privateKeyEncoding(d) = "PKCS8"  BY <1>4 DEF Ossl!privateKeyEncoding, Ossl!Symmetric, RSA
  <2> HIDE DEF made
  <2> QED BY <1>1, <1>4, <2>2, <2>3 DEF Keyed, KeyOf, RSA
<1>5. CASE d.family = "ed25519"
  <2>2. made = Ossl!generatedKey(d, "Ed25519", "Ed25519", "SPKI")
    BY <1>5 DEF Ossl!GenerateKey, Ossl!generateEd25519Key, Ossl!Symmetric
  <2>3. Ossl!privateKeyEncoding(d) = "PKCS8"  BY <1>5 DEF Ossl!privateKeyEncoding, Ossl!Symmetric
  <2> HIDE DEF made
  <2> QED BY <1>1, <1>5, <2>2, <2>3 DEF Keyed, KeyOf, RSA
<1>6. CASE d.family \in AES
  <2>1. d.bits \in {128, 192, 256}  BY <1>6 DEF Formal, SignedForm, PrehashedForm, CipherForm, AES
  <2>2. made = Ossl!generatedKey(d, "symmetric", d.bits, "none")
    BY <1>6, <2>1 DEF Ossl!GenerateKey, Ossl!generateSymmetricKey, Ossl!generateAESKey, Ossl!Symmetric, AES
  <2> HIDE DEF made
  <2> QED BY <1>1, <1>6, <2>1, <2>2 DEF Keyed, KeyOf, RSA, AES
<1>7. CASE d.family = "chacha20Poly1305"
  <2>2. made = Ossl!generatedKey(d, "symmetric", 256, "none")
    BY <1>7 DEF Ossl!GenerateKey, Ossl!generateSymmetricKey, Ossl!generateChaCha20Key, Ossl!Symmetric
  <2> HIDE DEF made
  <2> QED BY <1>1, <1>7, <2>2 DEF Keyed, KeyOf, RSA, AES
<1> QED BY <1>2, <1>3, <1>4, <1>5, <1>6, <1>7 DEF Formal, SignedForm, PrehashedForm, CipherForm, RSA, AES

LEMMA GeneratesKeyed ==
    ASSUME NEW b, NEW d, Formal(d)
    PROVE  Ok(GenerateKey(b, d)) /\ Keyed(d, GenerateKey(b, d).how)
  BY SoftGeneratesKeyed, OsslGeneratesKeyed DEF GenerateKey

\* What the forms are, by the operations that the template allows.
LEMMA DescribedFields ==
    ASSUME NEW t, Described(t)
    PROVE  /\ Formal(t.details)
           /\ "SIGN" \in t.ops => SignedForm(t.details)
           /\ "DIGEST_SIGN" \in t.ops => /\ PrehashedForm(t.details)
                                         /\ t.id \in Ossl!catalog => t.details.family = "ed25519"
           /\ "ENCRYPT" \in t.ops =>
                 /\ CipherForm(t.details)
                 /\ t.id \in Ossl!catalog => Plain(t.details)
<1> DEFINE d == t.details
<1>0. /\ "SIGN" \in Signs /\ "DIGEST_SIGN" \notin Signs /\ "ENCRYPT" \notin Signs
      /\ "SIGN" \notin Digests /\ "DIGEST_SIGN" \in Digests /\ "ENCRYPT" \notin Digests
      /\ "SIGN" \notin Encrypts /\ "DIGEST_SIGN" \notin Encrypts /\ "ENCRYPT" \in Encrypts
  BY DEF Signs, Digests, Encrypts
<1>1. CASE t.ops = Signs /\ d \in SignatureForms
  <2>1. SignedForm(d)  BY <1>1, SignatureFields
  <2> QED BY <1>0, <1>1, <2>1 DEF Formal
<1>2. CASE t.ops = Digests /\ d \in PrehashedForms /\ (t.id \in Ossl!catalog => d = Ed25519("PH"))
  <2>1. PrehashedForm(d) /\ (t.id \in Ossl!catalog => d.family = "ed25519")  BY <1>2, PrehashedFields
  <2> QED BY <1>0, <1>2, <2>1 DEF Formal
<1>3. CASE t.ops = Encrypts /\ d \in CipherForms /\ (t.id \in Ossl!catalog => d # ChaCha20(192, TRUE))
  <2>1. /\ CipherForm(d)
        /\ t.id \in Ossl!catalog => Plain(d)
    BY <1>3, CipherFields DEF Plain
  <2> QED BY <1>0, <1>3, <2>1 DEF Formal
<1> QED BY Zenon, <1>1, <1>2, <1>3 DEF Described

Objections(d, r) ==
    CASE r.op = "SIGN" -> SignFaults(d, r.context)
      [] r.op = "DIGEST_SIGN" -> DigestFaults(d, r.digest, r.hash)
      [] r.op = "ENCRYPT" -> <<>>

Result(d, r) ==
    CASE r.op = "SIGN" -> Signature(d, r.message, r.context)
      [] r.op = "DIGEST_SIGN" -> DigestSignature(d, r.digest, r.hash)
      [] r.op = "ENCRYPT" -> Sealed(d, r.aad)

\* The instance serves the template with a provider that knows it.
Knows(b, t) == b.type = "software" \/ t.id \in Ossl!catalog

LEMMA ProduceReplies ==
    ASSUME NEW b, NEW t, NEW k, NEW r, Described(t), Knows(b, t), Keyed(t.details, k),
           r.op \in t.ops \cap Producing
    PROVE  Produce(b, t.details, k, r) = Answer(Objections(t.details, r), Result(t.details, r))
<1> DEFINE d == t.details
<1>1. CASE r.op = "SIGN"
  <2>1. SignedForm(d)  BY <1>1, DescribedFields
  <2>2. Produce(b, d, k, r) = IF b.type = "software" THEN Soft!Sign(d, k, r.message, r.context)
                                                     ELSE Ossl!Sign(d, k, r.message, r.context)
    BY <1>1 DEF Produce
  <2>3. Objections(d, r) = SignFaults(d, r.context) /\ Result(d, r) = Signature(d, r.message, r.context)
    BY <1>1 DEF Objections, Result
  <2> QED BY <2>1, <2>2, <2>3, SoftSignReplies, OsslSignReplies
<1>2. CASE r.op = "DIGEST_SIGN"
  <2>1. PrehashedForm(d) /\ (b.type # "software" => d.family = "ed25519")
    BY <1>2, DescribedFields DEF Knows
  <2>2. Produce(b, d, k, r) = IF b.type = "software" THEN Soft!SignDigest(d, k, r.digest, r.hash)
                                                     ELSE Ossl!SignDigest(d, k, r.digest, r.hash)
    BY <1>2 DEF Produce
  <2>3. Objections(d, r) = DigestFaults(d, r.digest, r.hash)
        /\ Result(d, r) = DigestSignature(d, r.digest, r.hash)
    BY <1>2 DEF Objections, Result
  <2> QED BY <2>1, <2>2, <2>3, SoftDigestReplies, OsslDigestReplies
<1>3. CASE r.op = "ENCRYPT"
  <2>1. CipherForm(d) /\ (b.type # "software" => Plain(d))
    BY <1>3, DescribedFields DEF Knows
  <2>2. Produce(b, d, k, r) = IF b.type = "software" THEN Soft!Encrypt(d, k, r.aad)
                                                     ELSE Ossl!Encrypt(d, k, r.aad)
    BY <1>3 DEF Produce
  <2>3. Objections(d, r) = <<>> /\ Result(d, r) = Sealed(d, r.aad)
    BY <1>3 DEF Objections, Result
  <2> QED BY <2>1, <2>2, <2>3, SoftSeals, OsslSeals
<1> QED BY <1>1, <1>2, <1>3 DEF Producing

LEMMA GoodReplies ==
    ASSUME NEW b, NEW t, NEW k, NEW r, NEW a, Described(t), Knows(b, t), Keyed(t.details, k),
           r.op \in t.ops \cap Producing,
           Objections(t.details, r) = <<>>, a.key = k.id, a.how = Result(t.details, r)
    PROVE  Good(b, t.details, k, r, a)
<1> DEFINE d == t.details
<1>0. \A how : Answer(<<>>, how).code = "OK" /\ Answer(<<>>, how).how = how
  BY DEF Answer
<1>1. CASE r.op = "SIGN"
  <2>1. SignedForm(d)  BY <1>1, DescribedFields
  <2>2. SignFaults(d, r.context) = <<>> /\ a.how = Signature(d, r.message, r.context)
    BY <1>1 DEF Objections, Result
  <2>3. /\ Soft!Verify(d, k, r.message, r.context) = Answer(<<>>, a.how)
        /\ Ossl!Verify(d, k, r.message, r.context) = Answer(<<>>, a.how)
    BY <2>1, <2>2, SoftSignReplies, OsslSignReplies
  <2> QED BY <1>0, <1>1, <2>3 DEF Good, Check, Ok
<1>2. CASE r.op = "DIGEST_SIGN"
  <2>1. PrehashedForm(d) /\ (b.type # "software" => d.family = "ed25519")
    BY <1>2, DescribedFields DEF Knows
  <2>2. DigestFaults(d, r.digest, r.hash) = <<>> /\ a.how = DigestSignature(d, r.digest, r.hash)
    BY <1>2 DEF Objections, Result
  <2>3. /\ Soft!VerifyDigest(d, k, r.digest, r.hash) = Answer(<<>>, a.how)
        /\ b.type # "software" => Ossl!VerifyDigest(d, k, r.digest, r.hash) = Answer(<<>>, a.how)
    BY <2>1, <2>2, SoftDigestReplies, OsslDigestReplies
  <2> QED BY <1>0, <1>2, <2>3 DEF Good, Check, Ok
<1>3. CASE r.op = "ENCRYPT"
  <2>1. CipherForm(d) /\ (b.type # "software" => Plain(d))
    BY <1>3, DescribedFields DEF Knows
  <2>2. a.how = Sealed(d, r.aad)  BY <1>3 DEF Result
  <2>3. /\ Soft!Decrypt(d, k, a, r.aad) = Answer(<<>>, a.of)
        /\ b.type # "software" => Ossl!Decrypt(d, k, a, r.aad) = Answer(<<>>, a.of)
    BY <2>1, <2>2, SoftSealReplies, OsslSealReplies
  <2> QED BY <1>0, <1>3, <2>3 DEF Good, Check, Ok
<1> QED BY <1>1, <1>2, <1>3 DEF Producing

-----------------------------------------------------------------------------
(***************************************************************************)
(* Both providers check alike what either made, or what a client presents  *)
(* for it, except where one of them leaves the check to its library.       *)
(***************************************************************************)
LEMMA Refusals == Soft!Refuse("InvalidArgument") = Ossl!Refuse("InvalidArgument")
  BY DEF Soft!Refuse, Soft!Answer, Soft!Require, Ossl!Refuse, Ossl!Answer, Ossl!Require

\* The first of several errors is the one that counts.
LEMMA FirstError ==
    ASSUME NEW e \in Errors, NEW f \in Errors, NEW how, e # <<>> \/ f = <<>>
    PROVE  Answer(e \o f, how) = Answer(e, how)
<1>1. CASE f = <<>>  BY <1>1, NoneJoined
<1>2. CASE e # <<>>
  <2>1. e \o f # <<>> /\ Head(e \o f) = Head(e)  BY <1>2 DEF Errors
  <2> QED BY <1>2, <2>1 DEF Answer
<1> QED BY <1>1, <1>2

LEMMA DigestsCheckedAlike ==
    ASSUME NEW d, NEW k, NEW digest, NEW hash, PrehashedForm(d), d.family = "ed25519", Keyed(d, k),
           hash = Unspecified => DigestLength[digest.hash] = DigestLength["SHA512"]
    PROVE  Soft!VerifyDigest(d, k, digest, hash) = Ossl!VerifyDigest(d, k, digest, hash)
<1> DEFINE wrong == hash # Unspecified /\ DigestLength[digest.hash] # DigestLength[hash]
<1>1. /\ Soft!validateDigestLength(hash, digest) <=> ~ wrong
      /\ Ossl!validateDigestLength(hash, digest) <=> ~ wrong
  BY DEF Soft!validateDigestLength, Soft!DigestLength, DigestLength, Soft!Unspecified, Unspecified,
         Ossl!validateDigestLength, Ossl!DigestLength, Ossl!Unspecified
<1>2. CASE wrong
  <2>1. /\ Soft!VerifyDigest(d, k, digest, hash) = Soft!Refuse("InvalidArgument")
        /\ Ossl!VerifyDigest(d, k, digest, hash) = Ossl!Refuse("InvalidArgument")
    <3> HIDE DEF wrong
    <3> QED BY Zenon, <1>1, <1>2 DEF Soft!VerifyDigest, Ossl!VerifyDigest
  <2> QED BY <2>1, Refusals
<1>3. CASE ~ wrong
  <2>1. d.variant = "PH" /\ k.type = "Ed25519" /\ k.public = "SPKI"
    BY DEF PrehashedForm, Keyed, KeyOf, RSA, AES
  <2>2. Soft!PrehashVariant(d) = <<>> /\ Soft!parseEd25519PublicKey(k) = <<>>
    BY <2>1, NoneJoined DEF Soft!PrehashVariant, Soft!parseEd25519PublicKey, Soft!Require
  <2>3. Ossl!PrehashVariant(d) = <<>> /\ Ossl!IsEd25519(k) = <<>> /\ Ossl!parsePublicKey(k) = <<>>
    BY <2>1 DEF Ossl!PrehashVariant, Ossl!IsEd25519, Ossl!parsePublicKey, Ossl!Require
  <2> DEFINE check == Soft!checkEd25519PHHash(hash)
             right == Soft!RightLength(digest, "SHA512")
             how == [scheme |-> "ed25519ph", digest |-> digest]
  <2>4. Ossl!checkEd25519PHHash(hash) = check /\ Ossl!RightLength(digest, "SHA512") = right
    BY DEF Ossl!checkEd25519PHHash, Soft!checkEd25519PHHash, Ossl!RightLength, Soft!RightLength,
           Ossl!Require, Soft!Require, Ossl!Unspecified, Soft!Unspecified, Ossl!DigestLength, Soft!DigestLength
  <2>5. check \in Errors /\ right \in Errors  BY SoftErrors
  <2>6. hash \in {Unspecified, "SHA512"} => right = <<>>
    BY <1>3 DEF Soft!RightLength, Soft!Require, Soft!DigestLength, DigestLength, Unspecified
  <2>7. hash \notin {Unspecified, "SHA512"} => check # <<>>
    BY DEF Soft!checkEd25519PHHash, Soft!Require, Soft!Unspecified, Unspecified
  <2>8. Soft!PHOver(digest) = how /\ Ossl!PHOver(digest) = how  BY DEF Soft!PHOver, Ossl!PHOver
  <2>9. /\ Soft!VerifyDigest(d, k, digest, hash) = Soft!verifyEd25519PHDigest(d, k, digest, hash)
        /\ Ossl!VerifyDigest(d, k, digest, hash) = Ossl!verifyEd25519PHDigest(d, k, digest, hash)
    <3> HIDE DEF wrong
    <3> QED BY <1>1, <1>3 DEF Soft!VerifyDigest, Ossl!VerifyDigest
  <2> HIDE DEF check, right, how
  <2>10. Soft!verifyEd25519PHDigest(d, k, digest, hash) = Answer(check, how)
    BY <2>2, <2>5, <2>8, NoneJoined DEF Soft!verifyEd25519PHDigest, Soft!Answer, Answer, check
  <2>11. Ossl!verifyEd25519PHDigest(d, k, digest, hash) = Answer(check \o right, how)
    BY <2>3, <2>4, <2>5, <2>8, NoneJoined DEF Ossl!verifyEd25519PHDigest, Ossl!Answer, Answer
  <2>12. Answer(check \o right, how) = Answer(check, how)  BY <2>5, <2>6, <2>7, FirstError
  <2> QED BY <2>9, <2>10, <2>11, <2>12
<1> QED BY <1>2, <1>3

LEMMA OpenedAlike ==
    ASSUME NEW d, NEW k, NEW aad, NEW ct, CipherForm(d), Keyed(d, k), Plain(d),
           d.family \in {"aesCbc", "aesCtr"} => ct.how.nonce = 128
    PROVE  Soft!Decrypt(d, k, ct, aad) = Ossl!Decrypt(d, k, ct, aad)
<1>o. Soft!Opened(ct, k) = Ossl!Opened(ct, k)  BY DEF Soft!Opened, Ossl!Opened
<1>k. d.family \in AES => /\ Soft!checkAESKeyMatchesDeclaredSize(k, d.bits) = <<>>
                          /\ Ossl!cipherNameFor(d) = <<>> /\ Ossl!KeyLength(k, d.bits) = <<>>
  <2> SUFFICES ASSUME d.family \in AES
               PROVE  /\ Soft!checkAESKeyMatchesDeclaredSize(k, d.bits) = <<>>
                      /\ Ossl!cipherNameFor(d) = <<>> /\ Ossl!KeyLength(k, d.bits) = <<>>
    OBVIOUS
  <2>1. d.bits \in {128, 192, 256} /\ k.type = "symmetric" /\ k.size = d.bits
        /\ d.family # "chacha20Poly1305"
    BY DEF Keyed, KeyOf, AES, RSA
  <2>2. Soft!checkAESKeyMatchesDeclaredSize(k, d.bits) = <<>>
    BY <2>1, NoneJoined DEF Soft!checkAESKeyMatchesDeclaredSize, Soft!Require
  <2> QED BY <2>1, <2>2 DEF Ossl!cipherNameFor, Ossl!aesCipherNameFor, Ossl!KeyLength, Ossl!Require
<1>1. CASE d.family = "aesGcm"
  <2>1. d.iv = 96 /\ d.tag = 128  BY <1>1 DEF CipherForm
  <2>2. Soft!newAESGCM(d) = <<>>  BY <2>1, NoneJoined DEF Soft!newAESGCM, Soft!Require
  <2> DEFINE long == Require(ct.how.nonce = d.iv, "InvalidArgument")
             auth == Require(ct.key = k.id /\ ct.how = Soft!GCMWith(d, aad), "InvalidArgument")
  <2>3. Soft!GCMWith(d, aad) = Ossl!GCMWith(d, aad)  BY DEF Soft!GCMWith, Ossl!GCMWith
  <2>4. /\ Soft!Require(ct.how.nonce = d.iv, "InvalidArgument") = long
        /\ Soft!Require(ct.key = k.id /\ ct.how = Soft!GCMWith(d, aad), "InvalidArgument") = auth
        /\ Ossl!Require(ct.how.nonce = d.iv, "InvalidArgument") = long
        /\ Ossl!Require(ct.key = k.id /\ ct.how = Ossl!GCMWith(d, aad), "InvalidArgument") = auth
    BY <2>3 DEF Soft!Require, Ossl!Require, Require
  <2>5. long \in Errors /\ auth \in Errors  BY NoErrors, CodesInUse DEF Require
  <2>6. Soft!Decrypt(d, k, ct, aad) = Soft!decryptAESGCM(d, k, ct, aad)
        /\ Ossl!Decrypt(d, k, ct, aad) = Ossl!decryptAESGCM(d, k, ct, aad)
    BY <1>1 DEF Soft!Decrypt, Ossl!Decrypt
  <2> HIDE DEF long, auth
  <2>7. Soft!decryptAESGCM(d, k, ct, aad) = Answer(long \o auth, ct.of)
    BY <1>1, <1>k, <2>2, <2>4, <2>5, NoneJoined DEF Soft!decryptAESGCM, Soft!Answer, Answer, AES
  <2>8. Ossl!decryptAESGCM(d, k, ct, aad) = Answer(long \o auth, ct.of)
    BY <1>1, <1>k, <2>4, <2>5, NoneJoined DEF Ossl!decryptAESGCM, Ossl!Answer, Answer, AES
  <2> QED BY <2>6, <2>7, <2>8
<1>2. CASE d.family = "aesCbc"
  <2>1. d.iv = 128 /\ d.padding = "PKCS7"  BY <1>2 DEF CipherForm
  <2>2. Soft!checkAESCBCParamsValid(d) = <<>> /\ Ossl!checkAESCBCParamsValid(d) = <<>>
    BY <2>1, NoneJoined
       DEF Soft!checkAESCBCParamsValid, Ossl!checkAESCBCParamsValid, Soft!Require, Ossl!Require
  <2>3. Soft!Require(ct.how.nonce = 128, "InvalidArgument") = <<>>
        /\ Ossl!Require(ct.how.nonce = 128, "Unknown") = <<>>
    BY <1>2 DEF Soft!Require, Ossl!Require
  <2>4. Soft!Decrypt(d, k, ct, aad) = Soft!decryptAESCBC(d, k, ct)
        /\ Ossl!Decrypt(d, k, ct, aad) = Ossl!decryptAESCBC(d, k, ct)
    BY <1>2 DEF Soft!Decrypt, Ossl!Decrypt
  <2> QED BY <1>2, <1>o, <1>k, <2>2, <2>3, <2>4, NoneJoined
          DEF Soft!decryptAESCBC, Ossl!decryptAESCBC, Soft!Answer, Ossl!Answer, AES
<1>3. CASE d.family = "aesCtr"
  <2>1. d.nonce = 96 /\ d.counter = 32  BY <1>3 DEF CipherForm
  <2>2. Soft!newAESCTRBlock(d, k) = <<>> /\ Ossl!checkAESCTRParamsValid(d) = <<>>
    BY <1>3, <1>k, <2>1, NoneJoined
       DEF Soft!newAESCTRBlock, Ossl!checkAESCTRParamsValid, Soft!Require, Ossl!Require, AES
  <2>3. Soft!Require(ct.how.nonce = 128, "InvalidArgument") = <<>>
        /\ Ossl!Require(ct.how.nonce = 128, "Unknown") = <<>>
    BY <1>3 DEF Soft!Require, Ossl!Require
  <2>4. Soft!Decrypt(d, k, ct, aad) = Soft!decryptAESCTR(d, k, ct)
        /\ Ossl!Decrypt(d, k, ct, aad) = Ossl!decryptAESCTR(d, k, ct)
    BY <1>3 DEF Soft!Decrypt, Ossl!Decrypt
  <2> QED BY <1>3, <1>o, <1>k, <2>2, <2>3, <2>4, NoneJoined
          DEF Soft!decryptAESCTR, Ossl!decryptAESCTR, Soft!Answer, Ossl!Answer, AES
<1>4. CASE d.family = "chacha20Poly1305"
  <2>1. /\ k.type = "symmetric" /\ k.size = 256 /\ d.nonce = 96 /\ d.extended = FALSE
        /\ <<d.nonce, d.counter, d.extended>> \in {<<96, 32, FALSE>>, <<192, 32, TRUE>>}
    BY <1>4 DEF Plain, CipherForm, Keyed, KeyOf, AES, RSA
  <2>2. Soft!newChaCha20Poly1305(d, k) = <<>>
    BY <2>1, NoneJoined DEF Soft!newChaCha20Poly1305, Soft!Require
  <2>3. Ossl!cipherNameFor(d) = <<>> /\ Ossl!KeyLength(k, 256) = <<>>
    BY <1>4, <2>1 DEF Ossl!cipherNameFor, Ossl!KeyLength, Ossl!Require
  <2> DEFINE long == Require(ct.how.nonce = 96, "InvalidArgument")
             auth == Require(ct.key = k.id /\ ct.how = Ossl!ChaChaWith(aad), "InvalidArgument")
  <2>4. Soft!ChaChaWith(d, aad) = Ossl!ChaChaWith(aad)
    BY <2>1 DEF Soft!ChaChaWith, Ossl!ChaChaWith
  <2>5. /\ Soft!Require(ct.how.nonce = d.nonce, "InvalidArgument") = long
        /\ Soft!Require(ct.key = k.id /\ ct.how = Soft!ChaChaWith(d, aad), "InvalidArgument") = auth
        /\ Ossl!Require(ct.how.nonce = 96, "InvalidArgument") = long
        /\ Ossl!Require(ct.key = k.id /\ ct.how = Ossl!ChaChaWith(aad), "InvalidArgument") = auth
    BY <2>1, <2>4 DEF Soft!Require, Ossl!Require, Require
  <2>6. long \in Errors /\ auth \in Errors  BY NoErrors, CodesInUse DEF Require
  <2>7. Soft!Decrypt(d, k, ct, aad) = Soft!decryptChaCha20Poly1305(d, k, ct, aad)
        /\ Ossl!Decrypt(d, k, ct, aad) = Ossl!decryptChaCha20Poly1305(d, k, ct, aad)
    BY <1>4 DEF Soft!Decrypt, Ossl!Decrypt
  <2> HIDE DEF long, auth
  <2>8. Soft!decryptChaCha20Poly1305(d, k, ct, aad) = Answer(long \o auth, ct.of)
    BY <2>2, <2>5, <2>6, NoneJoined DEF Soft!decryptChaCha20Poly1305, Soft!Answer, Answer
  <2>9. Ossl!decryptChaCha20Poly1305(d, k, ct, aad) = Answer(long \o auth, ct.of)
    BY <2>3, <2>5, <2>6, NoneJoined DEF Ossl!decryptChaCha20Poly1305, Ossl!Answer, Answer
  <2> QED BY <2>7, <2>8, <2>9
<1> QED BY <1>1, <1>2, <1>3, <1>4 DEF CipherForm

\* Whichever instance checks an artefact, of those that advertise the template.
LEMMA CheckedAlike ==
    ASSUME NEW b, NEW c, NEW t, NEW k, NEW r, NEW a, Described(t), Knows(b, t), Knows(c, t),
           Keyed(t.details, k), r.op \in t.ops \cap Producing, ~ LeftToLibrary(t.details, r, a)
    PROVE  Check(b, t.details, k, r, a) = Check(c, t.details, k, r, a)
<1> DEFINE d == t.details
<1>0. ASSUME t.id \in Ossl!catalog
      PROVE  /\ r.op = "SIGN" => Soft!Verify(d, k, r.message, r.context)
                                     = Ossl!Verify(d, k, r.message, r.context)
             /\ r.op = "DIGEST_SIGN" => Soft!VerifyDigest(d, k, r.digest, r.hash)
                                            = Ossl!VerifyDigest(d, k, r.digest, r.hash)
             /\ r.op = "ENCRYPT" => Soft!Decrypt(d, k, a, r.aad) = Ossl!Decrypt(d, k, a, r.aad)
  <2>1. CASE r.op = "SIGN"
    <3>1. SignedForm(d)  BY <2>1, DescribedFields
    <3> QED BY <2>1, <3>1, SoftSignReplies, OsslSignReplies
  <2>2. CASE r.op = "DIGEST_SIGN"
    <3>1. PrehashedForm(d) /\ d.family = "ed25519"  BY <1>0, <2>2, DescribedFields
    <3>2. r.hash = Unspecified => DigestLength[r.digest.hash] = DigestLength["SHA512"]
      BY <2>2, <3>1 DEF LeftToLibrary
    <3> QED BY <2>2, <3>1, <3>2, DigestsCheckedAlike
  <2>3. CASE r.op = "ENCRYPT"
    <3>1. CipherForm(d) /\ Plain(d)  BY <1>0, <2>3, DescribedFields
    <3>2. d.family \in {"aesCbc", "aesCtr"} => a.how.nonce = 128  BY <2>3 DEF LeftToLibrary
    <3> QED BY <2>3, <3>1, <3>2, OpenedAlike
  <2> QED BY <2>1, <2>2, <2>3 DEF Producing
<1>1. CASE r.op = "SIGN"  BY <1>0, <1>1 DEF Check, Knows
<1>2. CASE r.op = "DIGEST_SIGN"  BY <1>0, <1>2 DEF Check, Knows
<1>3. CASE r.op = "ENCRYPT"  BY <1>0, <1>3 DEF Check, Knows
<1> QED BY <1>1, <1>2, <1>3 DEF Producing

\* Some request meets no objection.
LEMMA Unobjectionable ==
    ASSUME NEW t, Described(t), NEW op \in t.ops \cap Producing
    PROVE  \E r \in Requests(op) : r.op = op /\ Objections(t.details, r) = <<>>
<1> DEFINE d == t.details
<1>1. CASE op = "SIGN"
  <2> DEFINE r == [op |-> "SIGN", message |-> "m", context |-> 0]
  <2>1. r \in Requests(op)  BY <1>1 DEF Requests
  <2>2. SignFaults(d, 0) = <<>>  BY DEF SignFaults, Require
  <2>3. r.op = op /\ r.op = "SIGN" /\ r.context = 0  BY <1>1
  <2> HIDE DEF r
  <2>4. Objections(d, r) = SignFaults(d, 0)  BY <2>3 DEF Objections
  <2> QED BY <2>1, <2>2, <2>3, <2>4
<1>2. CASE op = "DIGEST_SIGN"
  <2>1. "SHA256" \in Hashes /\ "SHA512" \in Hashes  BY HashAssumption
  <2> DEFINE h == IF d.family = "ed25519" THEN "SHA512" ELSE "SHA256"
             r == [op |-> "DIGEST_SIGN", digest |-> Hash(h, "m"), hash |-> h]
  <2>2. h \in Hashes /\ (d.family = "ed25519" => h = "SHA512") /\ h \in {"SHA256", "SHA512"}
        /\ h # Unspecified
    BY <2>1 DEF Unspecified
  <2> HIDE DEF h
  <2>3. r \in Requests(op)  BY <1>2, <2>2 DEF Requests
  <2>4. r.op = op /\ r.op = "DIGEST_SIGN" /\ r.digest.hash = h /\ r.hash = h  BY <1>2 DEF Hash
  <2> HIDE DEF r
  <2>5. Soft!rsaHash(h) = <<>> /\ Soft!RsaHashOf(h) = h /\ Soft!RightLength(r.digest, h) = <<>>
    BY <2>2, <2>4 DEF Soft!rsaHash, Soft!RsaHashOf, Soft!RightLength, Soft!Require, Soft!Unspecified
  <2>6. d.family = "ed25519" => Soft!checkEd25519PHHash(h) = <<>> /\ Soft!RightLength(r.digest, "SHA512") = <<>>
    BY <2>2, <2>5 DEF Soft!checkEd25519PHHash, Soft!Require
  <2>7. DigestFaults(d, r.digest, r.hash) = <<>>
    BY <2>4, <2>5, <2>6, NoneJoined DEF DigestFaults
  <2>8. Objections(d, r) = <<>>  BY <2>4, <2>7 DEF Objections
  <2> QED BY <2>3, <2>4, <2>8
<1>3. CASE op = "ENCRYPT"
  <2> DEFINE r == [op |-> "ENCRYPT", message |-> "m", aad |-> "a"]
  <2>1. r \in Requests(op)  BY <1>3, Zenon DEF Requests
  <2>2. r.op = op /\ Objections(d, r) = <<>>  BY <1>3 DEF Objections
  <2> QED BY <2>1, <2>2
<1> QED BY <1>1, <1>2, <1>3 DEF Producing

-----------------------------------------------------------------------------
(***************************************************************************)
(* A key is generated for its template, by an instance that advertises it, *)
(* and stays on such instances; an artefact is the result of its request.  *)
(***************************************************************************)
LEMMA NarrowedListed ==
    ASSUME CatalogueInv, NEW pinned, NEW required,
           NEW cs \in Candidates \cup {Only(<<id>>) : id \in ToSet(IDs(stored))} \cup {Unrestricted}
    PROVE  LET narrowed == Narrowed(cs, pinned, required) IN
           /\ narrowed.restricted => narrowed.ids \in Seq(ToSet(narrowed.ids))
           /\ \E len : Listed(Candidate(stored, narrowed), len)
<1> DEFINE narrowed == Narrowed(cs, pinned, required)
           at == Served(cs, pinned, required)
           ids == Candidate(stored, cs)
<1>1. /\ cs.restricted => cs.ids \in Seq(ToSet(cs.ids))
      /\ Listed(ids, Len(ids))
  BY CandidatesListed
<1>2. CASE cs.restricted
  <2>1. ids = cs.ids  BY <1>2 DEF Candidate
  <2>2. narrowed.restricted /\ narrowed.ids = InOrder(cs.ids, at)
        /\ Candidate(stored, narrowed) = InOrder(cs.ids, at)
    BY <1>2, Narrows DEF Candidate
  <2>3. Len(cs.ids) \in Nat /\ DOMAIN cs.ids = 1 .. Len(cs.ids)  BY <1>1, <2>1 DEF Listed
  <2>4. at \in SUBSET (1 .. Len(cs.ids))  BY <2>3 DEF Served
  <2> DEFINE s == cs.ids
  <2> HIDE DEF at, narrowed, s
  <2>5. Cardinality(at) \in Nat /\ DOMAIN InOrder(s, at) = 1 .. Cardinality(at)
    <3>1. Len(s) \in Nat /\ DOMAIN s = 1 .. Len(s) /\ at \in SUBSET (1 .. Len(s))
      BY <2>3, <2>4 DEF s
    <3> QED BY <3>1, Ordered
  <2>6. Listed(InOrder(s, at), Cardinality(at))  BY <2>5 DEF Listed
  <2>7. InOrder(s, at) = [n \in 1 .. Cardinality(at) |-> s[Place(at, n)]]  BY InOrderPlaces
  <2>8. InOrder(s, at) \in Seq(ToSet(InOrder(s, at)))
    <3>1. \A n \in 1 .. Cardinality(at) : InOrder(s, at)[n] \in ToSet(InOrder(s, at))
      BY <2>7 DEF ToSet
    <3> QED BY <2>5, <2>7, <3>1
  <2> QED BY <2>2, <2>6, <2>8 DEF s, narrowed
<1>3. CASE ~ cs.restricted
  <2>1. narrowed = cs  BY <1>3, Narrows
  <2> QED BY <1>1, <1>3, <2>1
<1> QED BY <1>2, <1>3

\* What the key is generated from, and where.
GeneratedFrom(k, t, b) ==
    LET made == GenerateKey(b, t.details) IN
    /\ Ok(made)
    /\ k.template = t.id /\ k.holder = b.name
    /\ k.type = made.how.type /\ k.size = made.how.size
    /\ k.private = made.how.private /\ k.public = made.how.public

LEMMA CreatedFrom ==
    ASSUME InstancesInv, CatalogueInv, NEW spec, NEW pinned, NEW required, NEW fault,
           NEW cs \in Candidates \cup {Only(<<id>>) : id \in ToSet(IDs(stored))} \cup {Unrestricted},
           Ok(Created(cs, spec, pinned, required, fault))
    PROVE  \E t \in ToSet(stored), b \in ToSet(backends) :
               AdvertisedBy(b, t.id) /\ GeneratedFrom(Created(cs, spec, pinned, required, fault).how, t, b)
<1> DEFINE narrowed == Narrowed(cs, pinned, required)
           selected == Select(stored, spec, narrowed, fault)
           ranked   == Ranked(Pool(pinned), selected.how.id, required)
           made     == GenerateKey(ranked[1], selected.how.details)
           v        == Created(cs, spec, pinned, required, fault)
           k        == [id |-> "k1", template |-> selected.how.id,
                        holder |-> ranked[1].name, required |-> required,
                        type |-> made.how.type, size |-> made.how.size,
                        private |-> made.how.private, public |-> made.how.public]
<1>1. \/ v = Refuse("ProviderNotFound")
      \/ v = Refuse("FailedPrecondition")
      \/ v = selected /\ ~ Ok(selected)
      \/ v = made /\ ~ Ok(made)
      \/ v = Answer(<<>>, k) /\ Ok(selected) /\ ranked # <<>> /\ Ok(made)
  BY Zenon DEF Created
<1>2. Ok(selected) /\ ranked # <<>> /\ Ok(made) /\ v.how = k
  <2>1. Ok(v)  OBVIOUS
  <2>2. ~ Ok(Refuse("ProviderNotFound")) /\ ~ Ok(Refuse("FailedPrecondition"))
    BY DEF Refuse, Require, Answer, Ok
  <2> HIDE DEF narrowed, selected, ranked, made, v, k
  <2>3. v = Answer(<<>>, k) /\ Ok(selected) /\ ranked # <<>> /\ Ok(made)  BY <1>1, <2>1, <2>2
  <2> QED BY <2>3 DEF Answer
<1>3. selected.how \in ToSet(stored)
  <2>1. /\ narrowed.restricted => narrowed.ids \in Seq(ToSet(narrowed.ids))
        /\ \E len : Listed(Candidate(stored, narrowed), len)
    BY NarrowedListed
  <2> HIDE DEF narrowed
  <2>2. FirstOf(stored, Candidate(stored, narrowed), spec, fault, selected.how)
    BY <1>2, <2>1, Selects
  <2> HIDE DEF selected
  <2> QED BY <2>2 DEF FirstOf
<1>4. ranked[1] \in ToSet(backends) /\ Eligible(ranked[1], selected.how.id, required)
  <2> HIDE DEF selected
  <2> QED BY <1>2, PoolRegistered, RankedFirst
<1>5. GeneratedFrom(k, selected.how, ranked[1])
  <2>1. made = GenerateKey(ranked[1], selected.how.details)  OBVIOUS
  <2> HIDE DEF made, ranked, selected
  <2> QED BY <1>2, <2>1 DEF GeneratedFrom
<1> HIDE DEF k, ranked, selected, v
<1> QED BY <1>2, <1>3, <1>4, <1>5 DEF Eligible, v

\* A template that an instance advertises is one that its provider knows.
LEMMA AdvertisedKnown ==
    ASSUME InstancesInv, CatalogueInv, NEW b \in ToSet(backends), NEW t \in ToSet(stored),
           AdvertisedBy(b, t.id)
    PROVE  Knows(b, t) /\ Described(t)
<1>1. PICK i \in DOMAIN backends : b = backends[i]  BY DEF ToSet
<1>2. i \in 1 .. 3 /\ b = Registration(i)  BY <1>1 DEF InstancesInv
<1>3. softwareBackend.type = "software" /\ softwareBackend.algorithms = Soft!SupportedAlgorithms
  BY DEF softwareBackend
<1>4. opensslBackend.algorithms \subseteq Ossl!catalog
  BY DEF opensslBackend, Ossl!deriveAlgorithms
<1>5. fipsBackend(TRUE).algorithms \subseteq Ossl!catalog
  BY DEF fipsBackend, Ossl!deriveAlgorithms
<1>6. Knows(b, t) /\ t.id \in Soft!SupportedAlgorithms \cup Ossl!catalog
  <2>1. b = softwareBackend \/ b = opensslBackend \/ b = fipsBackend(TRUE)
    <3>1. i = 1 \/ i = 2 \/ i = 3  BY <1>2
    <3> QED BY Zenon, <1>2, <3>1, Registrations
  <2>2. t.id \in b.algorithms  BY DEF AdvertisedBy
  <2>3. CASE b = softwareBackend  BY <1>3, <2>2, <2>3 DEF Knows
  <2>4. CASE b = opensslBackend  BY <1>4, <2>2, <2>4 DEF Knows
  <2>5. CASE b = fipsBackend(TRUE)  BY <1>5, <2>2, <2>5 DEF Knows
  <2> QED BY <2>1, <2>3, <2>4, <2>5
<1>7. t \in ToSet(Catalogue)  BY StoredEntries
<1>8. Described(t)  BY <1>6, <1>7, DescriptionAssumption DEF CatalogueInv, Catalogue
<1> QED BY <1>6, <1>8

\* The template t of the key k, which is on an instance of bs.
Fits(k, t, bs) ==
    /\ k.template = t.id
    /\ Keyed(t.details, k)
    /\ \E b \in bs : k.holder = b.name /\ AdvertisedBy(b, t.id)

\* The answer a is what the request to use the key k promises.
AsPromised(k, t, a) ==
    a.rpc \in Producing =>
        /\ a.rpc \in t.ops
        /\ a.code = "OK" => /\ Objections(t.details, a.asked) = <<>>
                            /\ a.artefact.key = k.id
                            /\ a.artefact.how = Result(t.details, a.asked)

UsedInv ==
    key # NoKey => \E t \in ToSet(stored) : Fits(key, t, ToSet(backends)) /\ AsPromised(key, t, answer)

\* It is the kind, the size and the encodings of a key that tell how it was made.
LEMMA KeyedAlike ==
    ASSUME NEW d, NEW k, NEW other, Keyed(d, k), other.type = k.type, other.size = k.size,
           other.private = k.private, other.public = k.public
    PROVE  Keyed(d, other)
<1> DEFINE Of(type, size) ==
               \/ d.family = "ecdsa" /\ d.curve \in Curves /\ type = "EC" /\ size = d.curve
               \/ d.family = "mlDsa" /\ d.set \in {44, 65, 87} /\ type = "ML-DSA" /\ size = d.set
               \/ d.family \in RSA /\ type = "RSA" /\ size = d.bits
               \/ d.family = "ed25519" /\ type = "Ed25519" /\ size = "Ed25519"
               \/ d.family \in AES /\ d.bits \in {128, 192, 256} /\ type = "symmetric" /\ size = d.bits
               \/ d.family = "chacha20Poly1305" /\ type = "symmetric" /\ size = 256
<1>1. \A h : KeyOf(d, h) <=> Of(h.type, h.size)  BY Zenon DEF KeyOf
<1> HIDE DEF Of
<1>2. KeyOf(d, other)  BY Zenon, <1>1 DEF Keyed
<1> QED BY Zenon, <1>2 DEF Keyed

LEMMA CreateKeyFits ==
    ASSUME Inv, CreateKey
    PROVE  UsedInv'
<1>0. PICK cs \in Candidates \cup {Only(<<id>>) : id \in ToSet(IDs(stored))} \cup {Unrestricted},
           spec \in Specs \cup {NoScope}, pinned \in {""} \cup ToSet(NameOrder),
           required \in {r \in Requirements : r.valid}, fault \in Faults :
        LET made == Created(cs, spec, pinned, required, fault) IN
        /\ cs = Unrestricted => spec # NoScope
        /\ key' = IF Ok(made) THEN made.how ELSE NoKey
        /\ answer' = [rpc |-> "CreateKey", code |-> made.code,
                      asked |-> [cs |-> cs, spec |-> spec, pinned |-> pinned,
                                 required |-> required, fault |-> fault]]
  BY Zenon DEF CreateKey
<1> DEFINE v == Created(cs, spec, pinned, required, fault)
<1>1. UNCHANGED <<phase, config, loaded, backends>>
  BY Zenon DEF CreateKey
<1>2. key' = (IF Ok(v) THEN v.how ELSE NoKey) /\ answer'.rpc = "CreateKey"
  BY <1>0
<1>3. stored' = stored  BY <1>1 DEF stored, Catalogue
<1>4. Ok(v) => \E t \in ToSet(stored), b \in ToSet(backends) : AdvertisedBy(b, t.id) /\ GeneratedFrom(v.how, t, b)
  BY CreatedFrom DEF Inv
<1> HIDE DEF v
<1>5. ASSUME key' # NoKey
      PROVE  \E t \in ToSet(stored) : Fits(key', t, ToSet(backends)) /\ AsPromised(key', t, answer')
  <2>1. PICK t \in ToSet(stored), b \in ToSet(backends) : AdvertisedBy(b, t.id) /\ GeneratedFrom(key', t, b)
    BY <1>2, <1>4, <1>5
  <2>2. Formal(t.details)  BY <2>1, AdvertisedKnown, DescribedFields DEF Inv
  <2> DEFINE made == GenerateKey(b, t.details)
  <2>3. Keyed(t.details, made.how)  BY <2>2, GeneratesKeyed
  <2>4. /\ key'.template = t.id /\ key'.holder = b.name
        /\ key'.type = made.how.type /\ key'.size = made.how.size
        /\ key'.private = made.how.private /\ key'.public = made.how.public
    BY Zenon, <2>1 DEF GeneratedFrom
  <2> HIDE DEF made
  <2>5. Keyed(t.details, key')  BY Zenon, <2>3, <2>4, KeyedAlike
  <2>6. AsPromised(key', t, answer')  BY <1>2 DEF AsPromised, Producing
  <2> QED BY <2>1, <2>4, <2>5, <2>6 DEF Fits
<1> QED BY <1>1, <1>3, <1>5 DEF UsedInv

LEMMA ObjectionCodes ==
    ASSUME NEW d, NEW r, r.op \in Producing
    PROVE  Objections(d, r) \in Errors
<1>1. CASE r.op = "SIGN"
  BY <1>1, NoErrors, CodesInUse DEF Objections, SignFaults, Require
<1>2. CASE r.op = "DIGEST_SIGN"
  <2>1. Objections(d, r) = DigestFaults(d, r.digest, r.hash)  BY <1>2 DEF Objections
  <2>2. DigestFaults(d, r.digest, r.hash) \in Errors
    BY NoErrors, CodesInUse, SoftErrors, ErrorsJoined DEF DigestFaults
  <2> QED BY <2>1, <2>2
<1>3. CASE r.op = "ENCRYPT"
  BY <1>3, NoErrors DEF Objections
<1> QED BY <1>1, <1>2, <1>3 DEF Producing

\* What a use of the key gives, on any instance that advertises its template.
LEMMA PeerReplies ==
    ASSUME InstancesInv, CatalogueInv, NEW t \in ToSet(stored), NEW k, Keyed(t.details, k),
           NEW b \in ToSet(backends), AdvertisedBy(b, t.id), NEW r, r.op \in t.ops \cap Producing
    PROVE  LET v == Produce(b, t.details, k, r) IN
           /\ v = Answer(Objections(t.details, r), Result(t.details, r))
           /\ v.code = "OK" <=> Objections(t.details, r) = <<>>
           /\ v.code = "OK" => v.how = Result(t.details, r)
<1> DEFINE v == Produce(b, t.details, k, r)
           failed == Objections(t.details, r)
           how == Result(t.details, r)
<1>1. Knows(b, t) /\ Described(t)  BY AdvertisedKnown
<1>2. v = Answer(failed, how)  BY <1>1, ProduceReplies
<1>3. failed \in Errors  BY ObjectionCodes
<1> HIDE DEF v, failed, how
<1>4. (v.code = "OK" <=> failed = <<>>) /\ (v.code = "OK" => v.how = how)
  BY <1>2, <1>3, AnswerOK DEF Ok, Clean
<1> QED BY <1>2, <1>4 DEF v, failed, how

LEMMA UsingPromised ==
    ASSUME Inv, UsedInv, NEW op \in Producing, Using(op)
    PROVE  UsedInv'
<1>1. PICK r \in Requests(op) :
        answer' = [rpc |-> op,
                   code |-> Produce(Backend(key.holder), Details(key.template), key, r).code,
                   asked |-> r, checked |-> {},
                   artefact |-> [key |-> key.id,
                                 how |-> Produce(Backend(key.holder), Details(key.template), key, r).how,
                                 of |-> IF op = "DIGEST_SIGN" THEN r.digest ELSE r.message]]
  BY Zenon DEF Using
<1>2. key # NoKey /\ op \in OpsOf(key.template) /\ UNCHANGED <<phase, config, loaded, backends, key>>
  BY Zenon DEF Using
<1>3. PICK t \in ToSet(stored) : Fits(key, t, ToSet(backends)) /\ AsPromised(key, t, answer)
  BY <1>2 DEF UsedInv
<1>4. PICK b \in ToSet(backends) : key.holder = b.name /\ AdvertisedBy(b, t.id)
  BY <1>3 DEF Fits
<1>5. key.template = t.id /\ Keyed(t.details, key)  BY <1>3 DEF Fits
<1>6. Details(key.template) = t.details /\ OpsOf(key.template) = t.ops
  BY <1>5, EntryOf DEF Inv
<1>7. Backend(key.holder) = b  BY <1>4, BackendNamed DEF Inv
<1>8. r.op = op /\ op \in t.ops  BY <1>2, <1>6, RequestOp
<1> DEFINE v == Produce(b, t.details, key, r)
<1>9. /\ v.code = "OK" <=> Objections(t.details, r) = <<>>
      /\ v.code = "OK" => v.how = Result(t.details, r)
  BY <1>4, <1>5, <1>8, PeerReplies DEF Inv
<1>10. /\ answer'.rpc = op /\ answer'.code = v.code /\ answer'.asked = r
       /\ answer'.artefact.key = key.id /\ answer'.artefact.how = v.how
  <2>1. v = Produce(Backend(key.holder), Details(key.template), key, r)  BY <1>6, <1>7
  <2> HIDE DEF v
  <2> QED BY <1>1, <2>1
<1> HIDE DEF v
<1>11. AsPromised(key, t, answer')
  BY <1>8, <1>9, <1>10 DEF AsPromised
<1>12. stored' = stored  BY <1>2 DEF stored, Catalogue
<1> QED BY <1>2, <1>3, <1>11, <1>12 DEF UsedInv

LEMMA UsedStep ==
    ASSUME Inv, UsedInv, [Next]_vars
    PROVE  UsedInv'
<1>1. CASE StartUp
  BY <1>1, StartUpKeeps DEF Inv, KeyInv, UsedInv
<1>2. CASE Query
  <2>1. UNCHANGED <<phase, config, loaded, backends, key>> /\ answer'.rpc \notin Producing
    BY <1>2, QueryEffects
  <2>2. stored' = stored  BY <2>1 DEF stored, Catalogue
  <2>3. \A t : AsPromised(key, t, answer')  BY <2>1 DEF AsPromised
  <2> QED BY <2>1, <2>2, <2>3 DEF UsedInv
<1>3. CASE CreateKey
  BY <1>3, CreateKeyFits
<1>4. ASSUME NEW op \in Producing, Using(op)  PROVE UsedInv'
  BY <1>4, UsingPromised
<1>5. ASSUME NEW op \in Producing, Checking(op)  PROVE UsedInv'
  <2>1. answer.rpc = op /\ (\E c : answer' = [answer EXCEPT !.checked = c])
        /\ UNCHANGED <<phase, config, loaded, backends, key>>
    BY Zenon, <1>5 DEF Checking
  <2>2. Artefact(answer)  BY <2>1 DEF Inv, AnswerInv
  <2>3. /\ answer'.rpc = answer.rpc /\ answer'.code = answer.code /\ answer'.asked = answer.asked
        /\ answer'.artefact = answer.artefact
    BY <2>1, <2>2 DEF Artefact
  <2>4. stored' = stored  BY <2>1 DEF stored, Catalogue
  <2>5. \A t : AsPromised(key, t, answer) => AsPromised(key, t, answer')  BY <2>3 DEF AsPromised
  <2> QED BY <2>1, <2>4, <2>5 DEF UsedInv
<1>6. CASE MigrateKey
  <2>1. UNCHANGED <<phase, config, loaded, backends>> /\ key # NoKey  BY Zenon, <1>6 DEF MigrateKey
  <2>2. stored' = stored  BY <2>1 DEF stored, Catalogue
  <2>3. PICK b \in ToSet(backends) :
          IF CanMove(b) THEN key' = [key EXCEPT !.holder = b.name] /\ answer' = answer
                        ELSE key' = key /\ answer'.rpc = "MigrateKey"
    BY <1>6 DEF MigrateKey
  <2>4. PICK t \in ToSet(stored) : Fits(key, t, ToSet(backends)) /\ AsPromised(key, t, answer)
    BY <2>1 DEF UsedInv
  <2>5. CASE ~ CanMove(b)
    <3>1. AsPromised(key, t, answer')  BY <2>3, <2>5 DEF AsPromised, Producing
    <3> QED BY <2>1, <2>2, <2>3, <2>4, <2>5, <3>1 DEF UsedInv
  <2>6. CASE CanMove(b)
    <3>1. Formed(key)  BY <2>1 DEF Inv, KeyInv
    <3>2. /\ key'.id = key.id /\ key'.template = key.template /\ key'.holder = b.name
          /\ key'.type = key.type /\ key'.size = key.size
          /\ key'.private = key.private /\ key'.public = key.public
      BY <2>3, <2>6, <3>1 DEF Formed
    <3>3. key.template = t.id /\ Keyed(t.details, key)  BY <2>4 DEF Fits
    <3>4. AdvertisedBy(b, t.id)  BY <2>6, <3>3 DEF CanMove, Eligible
    <3>5. Keyed(t.details, key')  BY <3>2, <3>3 DEF Keyed, KeyOf
    <3>6. Fits(key', t, ToSet(backends))  BY <3>2, <3>3, <3>4, <3>5 DEF Fits
    <3>7. AsPromised(key', t, answer')  BY <2>3, <2>4, <2>6, <3>2 DEF AsPromised
    <3> QED BY <2>1, <2>2, <3>6, <3>7 DEF UsedInv
  <2> QED BY <2>5, <2>6
<1>7. CASE UNCHANGED vars
  <2>1. stored' = stored  BY <1>7 DEF vars, stored, Catalogue
  <2> QED BY <1>7, <2>1 DEF UsedInv, vars
<1> QED BY <1>1, <1>2, <1>3, <1>4, <1>5, <1>6, <1>7
       DEF Next, Sign, Verify, DigestSign, DigestVerify, Encrypt, Decrypt, Producing

LEMMA Used == Spec => [](Inv /\ UsedInv)
<1>1. Init => UsedInv  BY DEF Init, UsedInv
<1>2. Inv /\ UsedInv /\ [Next]_vars => UsedInv'  BY UsedStep
<1> QED BY Invariant, <1>1, <1>2, PTL DEF Spec

-----------------------------------------------------------------------------
(***************************************************************************)
(* Keys can be used, on every instance alike.                              *)
(***************************************************************************)
\* The template of the key and the instances that advertise it.
LEMMA KeyTemplate ==
    ASSUME Inv, UsedInv, key # NoKey
    PROVE  \E t \in ToSet(stored) :
               /\ key.template = t.id /\ Keyed(t.details, key) /\ AsPromised(key, t, answer)
               /\ Details(key.template) = t.details /\ OpsOf(key.template) = t.ops
               /\ \A b \in Peers : b \in ToSet(backends) /\ AdvertisedBy(b, t.id)
<1>1. PICK t \in ToSet(stored) : Fits(key, t, ToSet(backends)) /\ AsPromised(key, t, answer)
  BY DEF UsedInv
<1>2. key.template = t.id /\ Keyed(t.details, key)  BY <1>1 DEF Fits
<1>3. Details(key.template) = t.details /\ OpsOf(key.template) = t.ops
  BY <1>2, EntryOf DEF Inv
<1>4. \A b \in Peers : b \in ToSet(backends) /\ AdvertisedBy(b, t.id)
  BY <1>2 DEF Peers
<1> QED BY <1>1, <1>2, <1>3, <1>4

\* For any catalogue whose advertised templates are described as the assumption
\* says, every operation of a created key's template that makes something
\* succeeds, for some request, on every instance that advertises the template.
THEOREM CreatedKeyUsableHolds == Spec => []CreatedKeyUsable
<1>1. Inv /\ UsedInv => CreatedKeyUsable
  <2> SUFFICES ASSUME Inv, UsedInv, key # NoKey,
                      NEW op \in OpsOf(key.template) \cap Producing, NEW b \in Peers
               PROVE  \E r \in Requests(op) : Ok(Produce(b, Details(key.template), key, r))
    BY DEF CreatedKeyUsable
  <2>1. PICK t \in ToSet(stored) :
           /\ key.template = t.id /\ Keyed(t.details, key) /\ AsPromised(key, t, answer)
           /\ Details(key.template) = t.details /\ OpsOf(key.template) = t.ops
           /\ \A c \in Peers : c \in ToSet(backends) /\ AdvertisedBy(c, t.id)
    BY KeyTemplate
  <2>2. Described(t)  BY <2>1, AdvertisedKnown DEF Inv
  <2>3. PICK r \in Requests(op) : r.op = op /\ Objections(t.details, r) = <<>>
    BY <2>1, <2>2, Unobjectionable
  <2>4. Produce(b, t.details, key, r).code = "OK"
    BY <2>1, <2>3, PeerReplies DEF Inv
  <2> QED BY <2>1, <2>4 DEF Ok
<1> QED BY Used, <1>1, PTL

\* For any such catalogue, what one instance made the same request finds good
\* on every instance that advertises the template, also after a migration.
THEOREM ArtefactsSurviveHolds == Spec => []ArtefactsSurvive
<1>1. Inv /\ UsedInv => ArtefactsSurvive
  <2> SUFFICES ASSUME Inv, UsedInv, answer.rpc \in Producing, answer.code = "OK", NEW b \in Peers
               PROVE  Good(b, Details(key.template), key, answer.asked, answer.artefact)
    BY DEF ArtefactsSurvive
  <2>1. key # NoKey /\ answer.asked.op = answer.rpc  BY DEF Inv, AnswerInv
  <2>2. PICK t \in ToSet(stored) :
           /\ key.template = t.id /\ Keyed(t.details, key) /\ AsPromised(key, t, answer)
           /\ Details(key.template) = t.details /\ OpsOf(key.template) = t.ops
           /\ \A c \in Peers : c \in ToSet(backends) /\ AdvertisedBy(c, t.id)
    BY <2>1, KeyTemplate
  <2>3. Knows(b, t) /\ Described(t)  BY <2>2, AdvertisedKnown DEF Inv
  <2> DEFINE r == answer.asked
             a == answer.artefact
  <2>4. /\ r.op \in t.ops \cap Producing /\ Objections(t.details, r) = <<>>
        /\ a.key = key.id /\ a.how = Result(t.details, r)
    BY <2>1, <2>2 DEF AsPromised
  <2> HIDE DEF r, a
  <2>5. Good(b, t.details, key, r, a)  BY <2>2, <2>3, <2>4, GoodReplies
  <2> QED BY <2>2, <2>5 DEF r, a
<1> QED BY Used, <1>1, PTL

\* For any such catalogue, the instances that advertise a key's template give
\* the same code to the same request, and find the same artefacts good; only
\* the checks that LeftToLibrary names are exempt.
THEOREM SameAnswerHolds == Spec => []SameAnswer
<1>1. Inv /\ UsedInv => SameAnswer
  <2> DEFINE d == Details(key.template)
  <2>0. ASSUME NEW b, NEW c, NEW r, NEW a, Check(b, d, key, r, a) = Check(c, d, key, r, a)
        PROVE  /\ Check(b, d, key, r, a).code = Check(c, d, key, r, a).code
               /\ Good(b, d, key, r, a) = Good(c, d, key, r, a)
    BY <2>0 DEF Good
  <2> SUFFICES ASSUME Inv, UsedInv, key # NoKey, NEW b \in Peers, NEW c \in Peers
               PROVE  /\ \A r \in AsksOf(key.template) :
                            Produce(b, d, key, r).code = Produce(c, d, key, r).code
                      /\ answer.rpc \in Producing /\ answer.code = "OK" =>
                           \A r \in Requests(answer.rpc), a \in Presented(answer.artefact) :
                               \/ LeftToLibrary(d, r, a)
                               \/ /\ Check(b, d, key, r, a).code = Check(c, d, key, r, a).code
                                  /\ Good(b, d, key, r, a) = Good(c, d, key, r, a)
    BY Zenon DEF SameAnswer
  <2>1. PICK t \in ToSet(stored) :
           /\ key.template = t.id /\ Keyed(t.details, key) /\ AsPromised(key, t, answer)
           /\ d = t.details /\ OpsOf(key.template) = t.ops
           /\ \A e \in Peers : e \in ToSet(backends) /\ AdvertisedBy(e, t.id)
    BY KeyTemplate
  <2> HIDE DEF d
  <2>2. ASSUME NEW r \in AsksOf(key.template)
        PROVE  Produce(b, d, key, r).code = Produce(c, d, key, r).code
    <3>1. PICK op \in OpsOf(key.template) \cap Producing : r \in Requests(op)  BY DEF AsksOf
    <3>2. r.op \in t.ops \cap Producing  BY <2>1, <3>1, RequestOp
    <3>3. /\ Produce(b, t.details, key, r) = Answer(Objections(t.details, r), Result(t.details, r))
          /\ Produce(c, t.details, key, r) = Answer(Objections(t.details, r), Result(t.details, r))
      BY <2>1, <3>2, PeerReplies DEF Inv
    <3> QED BY <2>1, <3>3
  <2>3. ASSUME answer.rpc \in Producing, NEW r \in Requests(answer.rpc), NEW a, ~ LeftToLibrary(d, r, a)
        PROVE  Check(b, d, key, r, a) = Check(c, d, key, r, a)
    <3>1. r.op = answer.rpc /\ answer.rpc \in t.ops  BY <2>1, <2>3, RequestOp DEF AsPromised
    <3>2. Knows(b, t) /\ Knows(c, t) /\ Described(t)  BY <2>1, AdvertisedKnown DEF Inv
    <3> QED BY <2>1, <2>3, <3>1, <3>2, CheckedAlike
  <2>4. ASSUME answer.rpc \in Producing, NEW r \in Requests(answer.rpc), NEW a, ~ LeftToLibrary(d, r, a)
        PROVE  /\ Check(b, d, key, r, a).code = Check(c, d, key, r, a).code
               /\ Good(b, d, key, r, a) = Good(c, d, key, r, a)
    BY <2>0, <2>3, <2>4
  <2> QED BY Zenon, <2>2, <2>4
<1> QED BY Used, <1>1, PTL

-----------------------------------------------------------------------------
(***************************************************************************)
(* MatchProviders predicts CreateKey.  A server that serves has an         *)
(* instance; a creation from the one template that was asked about, with   *)
(* the same requirements, goes to the first of the ranked instances that   *)
(* were reported.                                                          *)
(***************************************************************************)
Populated == phase \in {"validate", "serving"} => backends # <<>>

LEMMA PopulatedKept ==
    ASSUME InstancesInv, Populated, [Next]_vars
    PROVE  Populated'
<1>1. CASE Register
  BY <1>1 DEF Register, Populated
<1>2. CASE RegisterSoftware
  BY <1>2 DEF RegisterSoftware, Populated
<1>3. CASE RegisterOpenSSL
  BY <1>3 DEF RegisterOpenSSL, Populated
<1>4. CASE registerFIPSProvider
  <2>1. Len(backends) = 2 /\ backends \in Seq({Registration(i) : i \in 1 .. 3})
    BY <1>4 DEF registerFIPSProvider, InstancesInv
  <2>2. backends' = backends \/ backends' = Append(backends, fipsBackend(TRUE))
    BY Zenon, <1>4 DEF registerFIPSProvider
  <2>3. backends # <<>>  BY <2>1
  <2>4. \A b : Append(backends, b) # <<>>  BY <2>1
  <2> QED BY Zenon, <2>2, <2>3, <2>4 DEF Populated
<1>5. CASE ValidateAllProviders
  <2>1. backends' = backends /\ phase = "validate"  BY Zenon, <1>5 DEF ValidateAllProviders
  <2> QED BY <2>1 DEF Populated
<1>6. CASE ~ StartUp
  BY <1>6, ServingKeeps DEF Populated
<1> QED BY <1>1, <1>2, <1>3, <1>4, <1>5, <1>6 DEF StartUp

\* What MatchProviders reports of the ranked instances.
LEMMA InfosFirst ==
    ASSUME NEW bs, NEW template, NEW required, DOMAIN bs \subseteq 1 .. 3
    PROVE  LET ranked == Ranked(bs, template, required) IN
           /\ Infos(ranked) = <<>> <=> ranked = <<>>
           /\ ranked # <<>> => Infos(ranked)[1].instance = ranked[1].name
<1> DEFINE eligible == {i \in DOMAIN bs : Eligible(bs[i], template, required)}
           ranked == Ranked(bs, template, required)
<1>1. DOMAIN ranked = 1 .. Cardinality(eligible)
      /\ ranked = [n \in 1 .. Cardinality(eligible) |-> ranked[n]]
  BY DEF Ranked
<1>2. Cardinality(eligible) \in Nat
  <2>1. IsFiniteSet(1 .. 3)
    <3>1. 1 \in Int /\ 3 \in Int  OBVIOUS
    <3> QED BY <3>1, FS_Interval
  <2>2. eligible \in SUBSET (1 .. 3)
    <3> QED OBVIOUS
  <2> HIDE DEF eligible
  <2> QED BY <2>1, <2>2, FS_Subset, FS_CardinalityType
<1> HIDE DEF eligible, ranked
<1>3. ranked # <<>> => 1 \in DOMAIN ranked  BY <1>1, <1>2
<1>4. ranked = <<>> => Infos(ranked) = <<>>  BY DEF Infos
<1>5. ranked # <<>> => Infos(ranked) # <<>> /\ Infos(ranked)[1] = instanceInfo(ranked[1])
  BY <1>3 DEF Infos
<1>6. ranked # <<>> => Infos(ranked)[1].instance = ranked[1].name
  BY <1>5 DEF instanceInfo
<1> QED BY <1>4, <1>5, <1>6 DEF ranked

\* Narrowing a single candidate keeps it or leaves none.
LEMMA NarrowsOne ==
    ASSUME NEW id, NEW pinned, NEW required
    PROVE  LET narrowed == Narrowed(Only(<<id>>), pinned, required) IN
           /\ narrowed.restricted
           /\ Ranked(Pool(pinned), id, required) = <<>> => narrowed.ids = <<>>
           /\ Ranked(Pool(pinned), id, required) # <<>> =>
                 narrowed.ids # <<>> /\ Len(narrowed.ids) = 1 /\ narrowed.ids[1] = id
<1> DEFINE cs == Only(<<id>>)
           at == Served(cs, pinned, required)
           narrowed == Narrowed(cs, pinned, required)
           ids == InOrder(<<id>>, at)
<1>1. cs.restricted /\ cs.ids = <<id>>  BY DEF Only
<1>2. narrowed.restricted /\ narrowed.ids = ids
  <2>1. narrowed = [restricted |-> TRUE, ids |-> InOrder(cs.ids, at)]  BY <1>1, Narrows
  <2> HIDE DEF narrowed, at
  <2> QED BY <1>1, <2>1
<1>3. \A i : i \in at <=> i = 1 /\ Ranked(Pool(pinned), id, required) # <<>>
  <2> HIDE DEF cs
  <2> QED BY <1>1 DEF Served
<1> HIDE DEF at
<1>4. CASE Ranked(Pool(pinned), id, required) = <<>>
  <2>1. at = {} /\ at \in SUBSET (1 .. 1) /\ 1 \in Nat  BY <1>3, <1>4
  <2>2. ids = <<>>  BY <2>1, Ordered
  <2> HIDE DEF narrowed, ids
  <2> QED BY <1>2, <1>4, <2>2 DEF narrowed
<1>5. CASE Ranked(Pool(pinned), id, required) # <<>>
  <2>1. at = {1}  BY <1>3, <1>5
  <2>2. at \in SUBSET (1 .. 1) /\ 1 \in Nat  BY <2>1
  <2>3. Cardinality(at) = 1  BY <2>1, FS_Singleton
  <2>4. /\ DOMAIN ids = 1 .. Cardinality(at)
        /\ ids = <<>> <=> at = {}
        /\ \A n \in DOMAIN ids : ids[n] = <<id>>[Place(at, n)]
    BY <2>2, Ordered
  <2>5. \A n \in 1 .. Cardinality(at) : Place(at, n) \in at  BY <2>2, Placing
  <2>6. ids = [n \in 1 .. Cardinality(at) |-> ids[n]]  BY DEF InOrder
  <2> HIDE DEF ids
  <2>7. ids # <<>> /\ ids[1] = id /\ Len(ids) = 1
    <3>1. ids # <<>>  BY <2>1, <2>4
    <3>2. 1 \in 1 .. Cardinality(at) /\ Place(at, 1) = 1  BY <2>1, <2>3, <2>5
    <3>3. ids[1] = id  BY <2>4, <3>2
    <3>4. Len(ids) = 1  BY <2>3, <2>6
    <3> QED BY <3>1, <3>3, <3>4
  <2> HIDE DEF narrowed
  <2> QED BY <1>2, <1>5, <2>7 DEF narrowed
<1> QED BY <1>4, <1>5

\* The creation: refused when no instance is eligible, else made by the first
\* that is ranked.
LEMMA CreatesOnly ==
    ASSUME InstancesInv, CatalogueInv, NEW id, NEW required, NEW pinned, Pool(pinned) = backends,
           backends # <<>>, \A b \in ToSet(backends) : b.algorithms \subseteq ToSet(IDs(stored))
    PROVE  LET v == Created(Only(<<id>>), NoScope, pinned, required, NoFault)
               ranked == Ranked(backends, id, required)
           IN IF ranked = <<>> THEN v.code = "FailedPrecondition"
              ELSE Ok(v) /\ v.how.holder = ranked[1].name
<1> DEFINE cs       == Only(<<id>>)
           narrowed == Narrowed(cs, pinned, required)
           selected == Select(stored, NoScope, narrowed, NoFault)
           first    == Ranked(backends, id, required)
           ranked   == Ranked(Pool(pinned), selected.how.id, required)
           made     == GenerateKey(ranked[1], selected.how.details)
           v        == Created(cs, NoScope, pinned, required, NoFault)
           k        == [id |-> "k1", template |-> selected.how.id,
                        holder |-> ranked[1].name, required |-> required,
                        type |-> made.how.type, size |-> made.how.size,
                        private |-> made.how.private, public |-> made.how.public]
<1>1. Pool(pinned) # <<>>  OBVIOUS
<1>2. /\ narrowed.restricted /\ narrowed.ids = <<>> => v = Refuse("FailedPrecondition")
      /\ narrowed.ids # <<>> /\ Ok(selected) /\ ranked # <<>> /\ Ok(made) => v = Answer(<<>>, k)
  BY Zenon, <1>1 DEF Created
<1>3. /\ narrowed.restricted
      /\ first = <<>> => narrowed.ids = <<>>
      /\ first # <<>> => narrowed.ids # <<>> /\ Len(narrowed.ids) = 1 /\ narrowed.ids[1] = id
  BY NarrowsOne
<1>4. CASE first = <<>>
  <2>1. Refuse("FailedPrecondition").code = "FailedPrecondition"  BY DEF Refuse, Require, Answer
  <2> HIDE DEF v, narrowed, first
  <2>2. v.code = "FailedPrecondition"  BY <1>2, <1>3, <1>4, <2>1
  <2> QED BY <1>4, <2>2 DEF v, first
<1>5. CASE first # <<>>
  <2>1. first[1] \in ToSet(backends) /\ AdvertisedBy(first[1], id)
    <3>1. DOMAIN backends \subseteq 1 .. 3  BY DEF InstancesInv
    <3> QED BY <1>5, <3>1, RankedFirst DEF Eligible
  <2>2. id \in ToSet(IDs(stored)) \ NoFault.lost
    <3> HIDE DEF first
    <3> QED BY <2>1 DEF AdvertisedBy, NoFault
  <2>3. selected = Get(stored, id, NoFault)
    <3> DEFINE m == selectTemplatesWithIDs(stored, Candidate(stored, narrowed), NoScope, NoFault)
    <3>1. IF narrowed.restricted /\ Len(narrowed.ids) = 1 /\ NoScope = NoScope
          THEN selected = Get(stored, narrowed.ids[1], NoFault)
          ELSE IF ~ narrowed.restricted /\ NoFault.list THEN selected.code = "Unknown"
          ELSE IF m.code # "OK" THEN selected = m
          ELSE IF m.how = <<>> THEN selected.code = "TemplateNotFound"
          ELSE selected.code = "OK" /\ selected.how = m.how[1]
      BY SelectCases
    <3> HIDE DEF m, selected, narrowed, first
    <3> QED BY <1>3, <1>5, <3>1
  <2>4. selected.code = "OK" /\ selected.how \in ToSet(stored) /\ selected.how.id = id
    <3> DEFINE g == Get(stored, id, NoFault)
    <3>1. g.code = "OK" /\ g.how \in ToSet(stored) /\ g.how.id = id  BY <2>2, Gets
    <3> HIDE DEF g, selected
    <3> QED BY <2>3, <3>1 DEF g
  <2> HIDE DEF selected
  <2>5. ranked = first  BY <2>4
  <2>6. Formal(selected.how.details)
    <3> DEFINE t == selected.how
    <3> HIDE DEF first, t
    <3>1. t \in ToSet(stored) /\ t.id = id  BY <2>4 DEF t
    <3>2. Described(t)  BY <2>1, <3>1, AdvertisedKnown
    <3> QED BY <3>2, DescribedFields DEF t
  <2>7. Ok(made)  BY <2>6, GeneratesKeyed
  <2> HIDE DEF made, ranked, first, narrowed, v
  <2>8. v = Answer(<<>>, k)  BY <1>2, <1>3, <1>5, <2>4, <2>5, <2>7 DEF Ok
  <2>9. Answer(<<>>, k).code = "OK" /\ Answer(<<>>, k).how = k  BY DEF Answer
  <2>10. k.holder = first[1].name  BY <2>5
  <2> HIDE DEF k
  <2>11. Ok(v) /\ v.how.holder = first[1].name  BY <2>8, <2>9, <2>10 DEF Ok
  <2> QED BY <1>5, <2>11 DEF v, first
<1> QED BY <1>4, <1>5

\* Only CreateKey answers as CreateKey after another call.
LEMMA CreateKeyFollows ==
    ASSUME [Next]_vars, answer.rpc = "MatchProviders", answer'.rpc = "CreateKey"
    PROVE  CreateKey
<1>1. ~ StartUp  BY StartUpKeeps
<1>2. ~ Query  BY QueryAnswers DEF Queries
<1>3. answer' # answer  OBVIOUS
<1>4. ~ MigrateKey
  <2>1. MigrateKey => answer' = answer \/ \E asked :
            answer' = [rpc |-> "MigrateKey", code |-> "FailedPrecondition", asked |-> asked]
    BY Zenon DEF MigrateKey
  <2> QED BY <2>1
<1>5. ASSUME NEW op, op # "CreateKey", op # "MatchProviders"
      PROVE  ~ Using(op) /\ ~ Checking(op)
  <2>1. Checking(op) => answer.rpc = op  BY Zenon DEF Checking
  <2>2. Using(op) => \E code, r, artefact :
            answer' = [rpc |-> op, code |-> code, asked |-> r, checked |-> {}, artefact |-> artefact]
    BY Zenon DEF Using
  <2> QED BY <1>5, <2>1, <2>2
<1> QED BY <1>1, <1>2, <1>3, <1>4, <1>5
       DEF Next, vars, Sign, Verify, DigestSign, DigestVerify, Encrypt, Decrypt

\* The request names no instance.
Unpinned(pinned) == pinned = ""

LEMMA MatchPredicts ==
    ASSUME Inv, ReadyInv, QueryInv, Populated, CreateKey,
           answer.rpc = "MatchProviders", answer.code = "OK",
           answer'.asked.cs = Only(<<answer.asked.template>>), answer'.asked.spec = NoScope,
           Unpinned(answer'.asked.pinned), answer'.asked.required = answer.asked.required,
           answer'.asked.fault = NoFault
    PROVE  IF answer.reply = <<>> THEN answer'.code = "FailedPrecondition"
           ELSE answer'.code = "OK" /\ key'.holder = answer.reply[1].instance
<1> DEFINE id       == answer.asked.template
           required == answer.asked.required
           pinned   == answer'.asked.pinned
           ranked   == Ranked(backends, id, required)
           v        == Created(Only(<<id>>), NoScope, pinned, required, NoFault)
<1>1. answer.reply = Infos(ranked)
  <2>1. Replied(MatchProviders(backends, id, required))  BY DEF QueryInv
  <2>2. \/ MatchProviders(backends, id, required) = Refuse("InvalidArgument")
        \/ MatchProviders(backends, id, required) = Answer(<<>>, Infos(ranked))
    BY Zenon DEF MatchProviders
  <2>3. Refuse("InvalidArgument").code # "OK"  BY DEF Refuse, Require, Answer
  <2>4. \A how : Answer(<<>>, how).how = how  BY DEF Answer
  <2> HIDE DEF ranked, id, required
  <2> QED BY Zenon, <2>1, <2>2, <2>3, <2>4 DEF Replied
<1>2. key' = (IF Ok(v) THEN v.how ELSE NoKey) /\ answer'.code = v.code
  <2>1. PICK cs \in Candidates \cup {Only(<<i>>) : i \in ToSet(IDs(stored))} \cup {Unrestricted},
             spec \in Specs \cup {NoScope}, p \in {""} \cup ToSet(NameOrder),
             req \in {r \in Requirements : r.valid}, fault \in Faults :
          LET made == Created(cs, spec, p, req, fault) IN
          /\ cs = Unrestricted => spec # NoScope
          /\ key' = IF Ok(made) THEN made.how ELSE NoKey
          /\ answer' = [rpc |-> "CreateKey", code |-> made.code,
                        asked |-> [cs |-> cs, spec |-> spec, pinned |-> p,
                                   required |-> req, fault |-> fault]]
    BY Zenon DEF CreateKey
  <2> DEFINE w     == Created(cs, spec, p, req, fault)
             asked == [cs |-> cs, spec |-> spec, pinned |-> p, required |-> req, fault |-> fault]
  <2>2. key' = (IF Ok(w) THEN w.how ELSE NoKey) /\ answer'.code = w.code /\ answer'.asked = asked
    <3>1. key' = (IF Ok(w) THEN w.how ELSE NoKey)
          /\ answer' = [rpc |-> "CreateKey", code |-> w.code, asked |-> asked]
      BY <2>1
    <3> HIDE DEF w, asked
    <3> QED BY <3>1
  <2>3. cs = answer'.asked.cs /\ spec = answer'.asked.spec /\ p = answer'.asked.pinned
        /\ req = answer'.asked.required /\ fault = answer'.asked.fault
    <3>1. asked.cs = cs /\ asked.spec = spec /\ asked.pinned = p /\ asked.required = req
          /\ asked.fault = fault
      OBVIOUS
    <3> HIDE DEF asked
    <3> QED BY Zenon, <2>2, <3>1
  <2>4. w = v  BY Zenon, <2>3
  <2> HIDE DEF w, v
  <2> QED BY <2>2, <2>4
<1>3. Pool(pinned) = backends  BY Zenon DEF Pool, Unpinned
<1>4. phase = "serving"  BY Zenon DEF CreateKey
<1>5. InstancesInv /\ CatalogueInv /\ backends # <<>>
      /\ \A b \in ToSet(backends) : b.algorithms \subseteq ToSet(IDs(stored))
  BY <1>4 DEF Inv, ReadyInv, Populated
<1>6. IF ranked = <<>> THEN v.code = "FailedPrecondition"
      ELSE Ok(v) /\ v.how.holder = ranked[1].name
  BY <1>3, <1>5, CreatesOnly
<1>7. /\ Infos(ranked) = <<>> <=> ranked = <<>>
      /\ ranked # <<>> => Infos(ranked)[1].instance = ranked[1].name
  <2>1. DOMAIN backends \subseteq 1 .. 3  BY <1>5 DEF InstancesInv
  <2> QED BY <2>1, InfosFirst
<1> HIDE DEF ranked, v
<1> QED BY <1>1, <1>2, <1>6, <1>7 DEF Ok

\* What MatchProviders reports is what CreateKey does, for any catalogue and
\* environment: with the same template and requirements the key is made on the
\* first instance it lists, and an empty list means that the creation is
\* refused (MatchProviders, Rank, narrowCandidates, CreateKey).
THEOREM MatchPredictsCreateHolds == Spec => MatchPredictsCreate
<1> DEFINE I == Inv /\ ReadyInv /\ QueryInv
           Predicted ==
               answer.rpc = "MatchProviders" /\ answer.code = "OK" /\ answer'.rpc = "CreateKey"
               /\ answer'.asked.cs = Only(<<answer.asked.template>>) /\ answer'.asked.spec = NoScope
               /\ answer'.asked.pinned = "" /\ answer'.asked.required = answer.asked.required
               /\ answer'.asked.fault = NoFault
               => IF answer.reply = <<>> THEN answer'.code = "FailedPrecondition"
                  ELSE answer'.code = "OK" /\ key'.holder = answer.reply[1].instance
<1>1. Init => Populated  BY DEF Init, Populated
<1>2. I /\ Populated /\ [Next]_vars => Populated'  BY PopulatedKept DEF Inv
<1>3. I /\ Populated /\ [Next]_vars => Predicted
  <2>1. SUFFICES ASSUME I, Populated, [Next]_vars,
                        answer.rpc = "MatchProviders", answer.code = "OK", answer'.rpc = "CreateKey",
                        answer'.asked.cs = Only(<<answer.asked.template>>),
                        answer'.asked.spec = NoScope, answer'.asked.pinned = "",
                        answer'.asked.required = answer.asked.required,
                        answer'.asked.fault = NoFault
                 PROVE  IF answer.reply = <<>> THEN answer'.code = "FailedPrecondition"
                        ELSE answer'.code = "OK" /\ key'.holder = answer.reply[1].instance
    BY Zenon
  <2>2. CreateKey  BY <2>1, CreateKeyFollows
  <2>3. Unpinned(answer'.asked.pinned)  BY Zenon, <2>1 DEF Unpinned
  <2> QED BY Zenon, <2>1, <2>2, <2>3, MatchPredicts
<1> QED BY <1>1, <1>2, <1>3, Answered, PTL DEF Spec, MatchPredictsCreate


\* The shapes of the variables, for any catalogue and environment: a key stands
\* on a registered instance, and its template is one of the stored ones (wire.go,
\* CreateKey, MigrateKey).
THEOREM TypeCorrect == Spec => []TypeOK
<1>1. Inv /\ UsedInv => TypeOK
  <2> SUFFICES ASSUME Inv, UsedInv PROVE TypeOK  OBVIOUS
  <2>1. phase \in Phases /\ config \in Configs /\ loaded \in 0 .. Len(Catalogue)
        /\ \A i, j \in DOMAIN backends : backends[i].name = backends[j].name => i = j
    BY InstancesNamed DEF Inv, InstancesInv, CatalogueInv
  <2>2. ASSUME key # NoKey
        PROVE  /\ phase = "serving"
               /\ key.holder \in {b.name : b \in ToSet(backends)}
               /\ key.template \in ToSet(IDs(stored))
    <3>1. phase = "serving"  BY <2>2 DEF Inv, KeyInv
    <3>2. PICK t \in ToSet(stored) : Fits(key, t, ToSet(backends))  BY Zenon, <2>2 DEF UsedInv
    <3>3. key.template = t.id /\ \E b \in ToSet(backends) : key.holder = b.name
      BY Zenon, <3>2 DEF Fits
    <3>4. t.id \in ToSet(IDs(stored))  BY DEF ToSet, IDs
    <3> QED BY <3>1, <3>3, <3>4
  <2> QED BY Zenon, <2>1, <2>2 DEF TypeOK
<1> QED BY <1>1, Used, PTL

=============================================================================
