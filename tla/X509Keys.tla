------------------------------ MODULE X509Keys ------------------------------
(***************************************************************************)
(* Keys and signatures of the x509 package: how a public key is written    *)
(* into a certificate and read from it, which algorithm a signer uses, and *)
(* what checkSignature accepts.                                            *)
(*                                                                         *)
(* An encoded value is a record: enc says whether the bytes are DER        *)
(* ("der"), only what the lax mode takes ("lax") or neither ("bad"), rest  *)
(* whether bytes follow the value, data is what it holds.  A key stands    *)
(* for the private and the public half: type, curve (of ECDSA), the signs  *)
(* n and e of its numbers, and its identity.                               *)
(***************************************************************************)
EXTENDS Integers, Sequences, SequencesExt

CONSTANT Nil

Der(d) == [enc |-> "der", rest |-> FALSE, data |-> d]
\* asn1.Unmarshal with no trailing bytes, as most of the parsers ask.
Strict(v) == v.enc = "der" /\ ~v.rest

-----------------------------------------------------------------------------
(* Algorithm identifiers.                                                   *)

\* crypto.Hash(0) is "none".
Detail(algo, oid, pubKeyAlgo, hash) == [algo |-> algo, oid |-> oid, pubKeyAlgo |-> pubKeyAlgo, hash |-> hash]
SignatureAlgorithmDetails ==
  <<Detail("MD2WithRSA", "oidMD2WithRSA", "RSA", "none"),
    Detail("MD5WithRSA", "oidMD5WithRSA", "RSA", "MD5"),
    Detail("SHA1WithRSA", "oidSHA1WithRSA", "RSA", "SHA1"),
    Detail("SHA1WithRSA", "oidISOSHA1WithRSA", "RSA", "SHA1"),
    Detail("SHA256WithRSA", "oidSHA256WithRSA", "RSA", "SHA256"),
    Detail("SHA384WithRSA", "oidSHA384WithRSA", "RSA", "SHA384"),
    Detail("SHA512WithRSA", "oidSHA512WithRSA", "RSA", "SHA512"),
    Detail("SHA256WithRSAPSS", "oidRSAPSS", "RSA", "SHA256"),
    Detail("SHA384WithRSAPSS", "oidRSAPSS", "RSA", "SHA384"),
    Detail("SHA512WithRSAPSS", "oidRSAPSS", "RSA", "SHA512"),
    Detail("DSAWithSHA1", "oidDSAWithSHA1", "DSA", "SHA1"),
    Detail("DSAWithSHA256", "oidDSAWithSHA256", "DSA", "SHA256"),
    Detail("ECDSAWithSHA1", "oidECDSAWithSHA1", "ECDSA", "SHA1"),
    Detail("ECDSAWithSHA256", "oidECDSAWithSHA256", "ECDSA", "SHA256"),
    Detail("ECDSAWithSHA384", "oidECDSAWithSHA384", "ECDSA", "SHA384"),
    Detail("ECDSAWithSHA512", "oidECDSAWithSHA512", "ECDSA", "SHA512"),
    Detail("PureEd25519", "oidEd25519", "Ed25519", "none")>>
Algorithms == {d.algo : d \in ToSet(SignatureAlgorithmDetails)}
IsRSAPSS(algo) == algo \in {"SHA256WithRSAPSS", "SHA384WithRSAPSS", "SHA512WithRSAPSS"}
FirstDetail(Is(_)) == SelectInSeq(SignatureAlgorithmDetails, Is)

\* Parameters of an algorithm: absent, NULL, a curve, those of PSS, or others.
Params(kind) == [kind |-> kind, value |-> Der(Nil)]
PSSParams(p) == [kind |-> "pss", value |-> Der(p)]
HashSizes == [h \in {"SHA256", "SHA384", "SHA512"} |-> CASE h = "SHA256" -> 32 [] h = "SHA384" -> 48 [] h = "SHA512" -> 64]

RSAPSSParameters(hash) ==
  PSSParams([hash |-> hash, hashParams |-> "null", mgf |-> "mgf1", mgfHash |-> hash, mgfHashParams |-> "null",
             salt |-> HashSizes[hash], trailer |-> 1])

SignatureAlgorithmFromAI(ai) ==
  IF ai.oid = "oidEd25519" /\ ai.params.kind # "absent" THEN "Unknown"
  ELSE IF ai.oid # "oidRSAPSS" THEN
    LET i == FirstDetail(LAMBDA d : d.oid = ai.oid) IN IF i = 0 THEN "Unknown" ELSE SignatureAlgorithmDetails[i].algo
  ELSE IF ai.params.kind # "pss" \/ ai.params.value.enc # "der" THEN "Unknown"
  ELSE LET p == ai.params.value.data
       IN  IF \/ p.hashParams \notin {"absent", "null"} \/ p.mgf # "mgf1" \/ p.mgfHash # p.hash
              \/ p.mgfHashParams \notin {"absent", "null"} \/ p.trailer # 1
              \/ p.hash \notin DOMAIN HashSizes
           THEN "Unknown"
           ELSE IF p.salt # HashSizes[p.hash] THEN "Unknown"
           ELSE CASE p.hash = "SHA256" -> "SHA256WithRSAPSS"
                  [] p.hash = "SHA384" -> "SHA384WithRSAPSS"
                  [] p.hash = "SHA512" -> "SHA512WithRSAPSS"

GetPublicKeyAlgorithmFromOID(oid) ==
  IF oid \in {"RSA", "DSA", "ECDSA", "RSAESOAEP"} THEN oid
  ELSE IF oid = "oidEd25519" THEN "Ed25519" ELSE "Unknown"

Curves == {"P224", "P256", "P384", "P521", "P192"}
\* namedCurveFromOID: the curve P-192 is insecure, which is not fatal.
NamedCurveFromOID(oid) ==
  [curve |-> IF oid \in Curves THEN oid ELSE Nil, nfe |-> IF oid = "P192" THEN {"insecure curve"} ELSE {}]
OIDFromNamedCurve(curve) == IF curve \in Curves THEN curve ELSE Nil

-----------------------------------------------------------------------------
(* Public keys.                                                             *)

Fatal == [fatal |-> TRUE, pub |-> Nil, nfe |-> {}]
Key(pub, nfe) == [fatal |-> FALSE, pub |-> pub, nfe |-> nfe]

\* What an encoded key of info holds: DER, or with an error what lax takes.
LaxKey(v) == IF v.enc = "bad" \/ v.rest THEN Fatal ELSE Key(v.data, IF v.enc = "lax" THEN {"lax key"} ELSE {})

ParsePublicKey(info) ==
  LET algo   == GetPublicKeyAlgorithmFromOID(info.oid)
      params == info.params
      read   == LaxKey(info.key)
      pub    == read.pub
  IN  CASE algo \in {"RSA", "RSAESOAEP"} ->
             IF \/ algo = "RSAESOAEP" /\ (params.kind # "oaep" \/ ~Strict(params.value))
                \/ read.fatal
             THEN Fatal
             ELSE IF pub.e <= 0 THEN Fatal
             ELSE Key(pub, read.nfe \cup (IF algo = "RSA" /\ params.kind # "null" THEN {"missing NULL"} ELSE {})
                                    \cup (IF pub.n <= 0 THEN {"modulus"} ELSE {}))
        [] algo = "DSA" ->
             IF read.fatal \/ params.kind # "dsa" \/ ~Strict(params.value) THEN Fatal
             ELSE IF pub.n <= 0 THEN Fatal ELSE read
        [] algo = "ECDSA" ->
             IF params.kind # "curve" \/ ~Strict(params.value) THEN Fatal
             ELSE LET named == NamedCurveFromOID(params.value.data)
                  IN  IF named.curve = Nil \/ ~Strict(info.key) THEN Fatal
                      ELSE IF named.curve # pub.curve THEN Fatal ELSE Key(pub, named.nfe)
        [] algo = "Ed25519" -> Key(info.key.data, {})
        [] OTHER -> Key(Nil, {})

\* ParsePKIXPublicKey: here an unknown algorithm and the non-fatal errors are fatal.
ParsePKIXPublicKey(v) ==
  IF ~Strict(v) \/ GetPublicKeyAlgorithmFromOID(v.data.oid) = "Unknown" THEN Fatal
  ELSE LET r == ParsePublicKey(v.data) IN IF r.fatal \/ r.nfe # {} THEN Fatal ELSE r

\* marshalPublicKey: Nil for a key it does not support.
MarshalPublicKey(pub) ==
  CASE pub.type = "RSA" -> [oid |-> "RSA", params |-> Params("null"), key |-> Der(pub)]
    [] pub.type = "ECDSA" ->
         IF OIDFromNamedCurve(pub.curve) = Nil THEN Nil
         ELSE [oid |-> "ECDSA", params |-> [kind |-> "curve", value |-> Der(OIDFromNamedCurve(pub.curve))], key |-> Der(pub)]
    [] pub.type = "Ed25519" -> [oid |-> "oidEd25519", params |-> Params("absent"), key |-> Der(pub)]
    [] OTHER -> Nil

-----------------------------------------------------------------------------
(* Signatures.  A signature tells who made it, in which scheme and over     *)
(* which hash of what; that only the right one verifies is the library's.   *)

\* signingParamsForPublicKey: Nil, or the hash and the algorithm identifier.
SigningParamsForPublicKey(pub, requested) ==
  LET AI(oid, params) == [oid |-> oid, params |-> params]
      default ==
        CASE pub.type = "RSA" -> [hash |-> "SHA256", ai |-> AI("oidSHA256WithRSA", Params("null"))]
          [] pub.type = "ECDSA" /\ pub.curve \in {"P224", "P256"} -> [hash |-> "SHA256", ai |-> AI("oidECDSAWithSHA256", Params("absent"))]
          [] pub.type = "ECDSA" /\ pub.curve = "P384" -> [hash |-> "SHA384", ai |-> AI("oidECDSAWithSHA384", Params("absent"))]
          [] pub.type = "ECDSA" /\ pub.curve = "P521" -> [hash |-> "SHA512", ai |-> AI("oidECDSAWithSHA512", Params("absent"))]
          [] pub.type = "Ed25519" -> [hash |-> "none", ai |-> AI("oidEd25519", Params("absent"))]
          [] OTHER -> Nil
      i == FirstDetail(LAMBDA d : d.algo = requested)
      d == SignatureAlgorithmDetails[i]
  IN  IF default = Nil \/ requested = "" THEN default
      ELSE IF i = 0 THEN Nil
      ELSE IF d.pubKeyAlgo # pub.type \/ (d.hash = "none" /\ pub.type # "Ed25519") THEN Nil
      ELSE [hash |-> d.hash, ai |-> AI(d.oid, IF IsRSAPSS(requested) THEN RSAPSSParameters(d.hash) ELSE default.ai.params)]

\* key.Sign: the scheme of an RSA key follows the options it is given.
Sign(key, hash, pss, over) ==
  [by |-> key.id, scheme |-> IF pss THEN "PSS" ELSE IF key.type = "RSA" THEN "PKCS1v15" ELSE key.type,
   hash |-> hash, over |-> over, enc |-> "der", rest |-> FALSE, positive |-> TRUE]

CheckSignature(algo, signed, sig, pub) ==
  LET i == SelectLastInSeq(SignatureAlgorithmDetails, LAMBDA e : e.algo = algo)
      d == IF i = 0 THEN Detail(algo, "", "Unknown", "none") ELSE SignatureAlgorithmDetails[i]
      By(scheme) == sig.by = pub.id /\ sig.scheme = scheme /\ sig.hash = d.hash /\ sig.over = signed
  IN  /\ d.hash # "MD5" /\ (d.hash = "none" => d.pubKeyAlgo = "Ed25519")
      /\ pub # Nil
      /\ d.pubKeyAlgo = pub.type
      /\ CASE pub.type = "RSA" -> By(IF IsRSAPSS(algo) THEN "PSS" ELSE "PKCS1v15")
           [] pub.type \in {"DSA", "ECDSA"} -> Strict(sig) /\ sig.positive /\ By(pub.type)
           [] pub.type = "Ed25519" -> By("Ed25519")
           [] OTHER -> FALSE
=============================================================================
