----------------------------- MODULE SCTVerify -----------------------------
(***************************************************************************)
(* From a certificate and an SCT to the leaf that the log signed, and the  *)
(* checks of the SCT: x509's precertificate functions, ct's leaf building  *)
(* and signatures, ctutil, and the sctcheck tool.                          *)
(*                                                                         *)
(* A TBSCertificate is [issuer, exts, body], exts a sequence of            *)
(* extensions [id, critical, value], critical being "absent", "false" (the *)
(* default, written out) or "true".  A certificate is [tbs, ekus, key,     *)
(* scts, urls].  Encodings and hashes are injective (see TLSCodec), so     *)
(* what is encoded or hashed stands for its encoding or hash.              *)
(***************************************************************************)
EXTENDS Integers, Sequences, SequencesExt, FiniteSets

Err == [ok |-> FALSE]
Ok(val) == [ok |-> TRUE, val |-> val]

At(exts, id) == {i \in 1 .. Len(exts) : exts[i].id = id}
First(S) == CHOOSE i \in S : \A j \in S : i <= j

\* A TBS that was parsed and is written anew: defaults are left out.
Remarshal(tbs) ==
  [tbs EXCEPT !.exts = [i \in 1 .. Len(@) |->
     IF @[i].critical = "false" THEN [@[i] EXCEPT !.critical = "absent"] ELSE @[i]]]

RemoveExtension(tbs, id) ==
  LET at == At(tbs.exts, id)
  IN  IF Cardinality(at) # 1 THEN Err
      ELSE Ok(Remarshal([tbs EXCEPT !.exts = RemoveAt(@, First(at))]))

RemoveSCTList(tbs) == RemoveExtension(tbs, "CTSCT")

IsPreIssuer(issuer) == "CertificateTransparency" \in issuer.ekus

\* The pre-issuer's AuthorityKeyId takes the place of the precertificate's.
ReplaceAuthKeyId(exts, issuerExts) ==
  LET mine   == At(exts, "AKI")
      issuer == At(issuerExts, "AKI")
      value  == issuerExts[First(issuer)].value
  IN  IF mine # {} /\ issuer # {} THEN [exts EXCEPT ![First(mine)].value = value]
      ELSE IF mine # {} THEN RemoveAt(exts, First(mine))
      ELSE IF issuer # {} THEN Append(exts, [id |-> "AKI", critical |-> "absent", value |-> value])
      ELSE exts

\* A slip: the AuthorityKeyId of the precertificate stays.
BuildPrecertTBSKeepAKI(tbs, pre) ==
  LET data == RemoveExtension(tbs, "CTPoison")
  IN  IF ~data.ok THEN Err
      ELSE IF pre = <<>> THEN data
      ELSE Ok([data.val EXCEPT !.issuer = pre[1].tbs.issuer])

\* pre is <<>> or <<the pre-issuer>>.
BuildPrecertTBS(tbs, pre) ==
  LET data == RemoveExtension(tbs, "CTPoison")
  IN  IF ~data.ok THEN Err
      ELSE IF pre = <<>> THEN data
      ELSE IF ~IsPreIssuer(pre[1]) THEN Err
      ELSE Ok([data.val EXCEPT !.issuer = pre[1].tbs.issuer,
                               !.exts = ReplaceAuthKeyId(@, pre[1].tbs.exts)])

RemoveCTPoison(tbs) == BuildPrecertTBS(tbs, <<>>)

-----------------------------------------------------------------------------
X509Leaf(cert, timestamp) == [type |-> "x509", timestamp |-> timestamp, entry |-> cert.tbs]
PrecertLeaf(tbs, issuer, timestamp) ==
  [type |-> "precert", timestamp |-> timestamp, entry |-> [issuerKeyHash |-> issuer.key, tbs |-> tbs]]

MerkleTreeLeafFromChain(chain, type, timestamp) ==
  LET pre    == IsPreIssuer(chain[2])
      issuer == IF pre THEN chain[3] ELSE chain[2]
      tbs    == BuildPrecertTBS(chain[1].tbs, IF pre THEN <<chain[2]>> ELSE <<>>)
  IN  IF type = "x509" THEN Ok(X509Leaf(chain[1], timestamp))
      ELSE IF Len(chain) < 2 THEN Err
      ELSE IF pre /\ Len(chain) < 3 THEN Err
      ELSE IF ~tbs.ok THEN Err
      ELSE Ok(PrecertLeaf(tbs.val, issuer, timestamp))

\* The first three certificates are parsed, which may fail for each.
MerkleTreeLeafFromRawChain(raw, type, timestamp) ==
  LET n == IF Len(raw) < 3 THEN Len(raw) ELSE 3
  IN  IF \E i \in 1 .. n : ~raw[i].parses THEN Err
      ELSE MerkleTreeLeafFromChain([i \in 1 .. n |-> raw[i].cert], type, timestamp)

MerkleTreeLeafForEmbeddedSCT(chain, timestamp) ==
  LET tbs == RemoveSCTList(chain[1].tbs)
  IN  IF Len(chain) < 2 THEN Err
      ELSE IF ~tbs.ok THEN Err
      ELSE Ok(PrecertLeaf(tbs.val, chain[2], timestamp))

-----------------------------------------------------------------------------
(* Keys and signatures: a key is [alg, strong, id].                         *)

\* NewSignatureVerifier; AllowVerificationWithNonCompliantKeys is off.
NewSignatureVerifier(key) == key.alg \in {"RSA", "ECDSA"} /\ key.strong

SCTInput(version, timestamp, extensions, leaf) ==
  [version |-> version, kind |-> "sct", timestamp |-> timestamp, type |-> leaf.type,
   entry |-> leaf.entry, extensions |-> extensions]

CreateSignature(key, hash, data) == [hash |-> hash, alg |-> key.alg, by |-> key, over |-> data]

VerifySignature(key, data, sig) ==
  /\ sig.hash \in {"MD5", "SHA1", "SHA224", "SHA256", "SHA384", "SHA512"}
  /\ sig.alg \in {"RSA", "DSA", "ECDSA"} /\ sig.alg = key.alg
  /\ sig.by = key /\ sig.over = data

VerifySCTSignature(key, sct, leaf) ==
  /\ sct.version = "V1"
  /\ VerifySignature(key, SCTInput(sct.version, sct.timestamp, sct.extensions, leaf), sct.signature)

\* What a log answers (trillian/ctfe buildV1SCT).
BuildV1SCT(key, leaf) ==
  [version |-> "V1", logID |-> key.id, timestamp |-> leaf.timestamp, extensions |-> <<>>,
   signature |-> CreateSignature(key, "SHA256", SCTInput("V1", leaf.timestamp, <<>>, leaf))]

-----------------------------------------------------------------------------
(* ctutil and sctcheck.                                                     *)

CreateLeaf(chain, sct, embedded) ==
  IF chain = <<>> THEN Err
  ELSE IF embedded
  THEN IF sct \notin ToSet(chain[1].scts) THEN Err ELSE MerkleTreeLeafForEmbeddedSCT(chain, sct.timestamp)
  ELSE MerkleTreeLeafFromChain(chain, IF At(chain[1].tbs.exts, "CTPoison") # {} THEN "precert" ELSE "x509",
                               sct.timestamp)

LeafHash(chain, sct, embedded) == CreateLeaf(chain, sct, embedded)

VerifySCT(key, chain, sct, embedded) ==
  LET leaf == CreateLeaf(chain, sct, embedded)
  IN  NewSignatureVerifier(key) /\ leaf.ok /\ VerifySCTSignature(key, sct, leaf.val)

\* LogInfo: a log [key, mmd, tree], tree the leaves its STH covers, or down.
NewLogInfo(log) == NewSignatureVerifier(log.key)
VerifyInclusionAt(log, leaf, timestamp) ==
  ~log.down /\ [leaf EXCEPT !.timestamp = timestamp] \in ToSet(log.tree)

\* sctcheck: logs by their key hash; the leaf has the timestamp of the SCT.
CheckSCT(logs, leaf, sct) ==
  /\ sct.logID \in DOMAIN logs
  /\ NewLogInfo(logs[sct.logID])
  /\ VerifySCTSignature(logs[sct.logID].key, sct, [leaf EXCEPT !.timestamp = sct.timestamp])
  /\ VerifyInclusionAt(logs[sct.logID], leaf, sct.timestamp)

\* checkChain: how many of the embedded SCTs are valid, and how many not.  An
\* issuer that is not in the chain is fetched from the certificate's first URL;
\* without a URL there is none, and building the leaf panics.
GetIssuer(cert, web) == IF cert.urls = <<>> THEN <<>> ELSE web[cert.urls[1]]

CheckChain(logs, chain, web) ==
  LET cert   == chain[1]
      issuer == IF Len(chain) >= 2 THEN <<chain[2]>> ELSE GetIssuer(cert, web)
      leaf   == MerkleTreeLeafForEmbeddedSCT(<<cert>> \o issuer, 0)
      valid  == {i \in 1 .. Len(cert.scts) : CheckSCT(logs, leaf.val, cert.scts[i])}
      counts(v, n) == [panic |-> FALSE, valid |-> v, invalid |-> n]
  IN  IF cert.scts = <<>> THEN counts(0, 0)
      ELSE IF issuer = <<>> THEN [panic |-> TRUE]
      ELSE IF ~leaf.ok THEN counts(0, Len(cert.scts))
      ELSE counts(Cardinality(valid), Len(cert.scts) - Cardinality(valid))
=============================================================================
