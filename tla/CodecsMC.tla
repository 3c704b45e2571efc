------------------------------ MODULE CodecsMC ------------------------------
(***************************************************************************)
(* Inputs of the encodings: byte strings that grow byte by byte, entries   *)
(* as a log stores them, what logs sign, and precertificates with the      *)
(* certificates that may be issued for them.                               *)
(***************************************************************************)
EXTENDS CTTypes

CONSTANTS MaxBytes, SampleBytes, Nil

VARIABLES part, x

SV == INSTANCE SCTVerify
D == INSTANCE DER
C == INSTANCE X509Cases
vars == <<part, x>>

-----------------------------------------------------------------------------
(* Types of the kinds the comment of Unmarshal lists.                       *)

Uint24 == [kind |-> "uint24"]
\* Types in which a Uint24 stands behind other bytes.  parseField reads it from
\* the start of its data whatever the offset (tls.go:339).
Uint24Late == {Struct(<<Field("First", Uint(1), <<>>), Field("Val24", Uint24, <<>>)>>),
               Struct(<<Field("All24", SliceOf(Uint24), Lengths(1, Top(1)))>>)}
Inner == Struct(<<Field("Val", Bytes, Lengths(1, Top(1)))>>)
Types == {Uint(1), Uint(2), Uint24, Array(2),
          Struct(<<Field("Sel", Enum, MaxVal(2)), Variant("Data8", Uint(1), "Sel", 1),
                   Variant("Data16", Uint(2), "Sel", 2), Field("Last", Uint(1), <<>>)>>),
          Struct(<<Field("Inners", SliceOf(Inner), Lengths(1, Top(1))), Field("Last", Enum, <<[key |-> "size", n |-> 2]>>)>>),
          Struct(<<Field("Val", Bytes, Lengths(2, 4))>>),
          Struct(<<Field("Wide", Enum, <<[key |-> "size", n |-> 8]>>)>>),
          Struct(<<Field("Val24", Uint24, <<>>), Field("Last", Uint(1), <<>>)>>),
          DigitallySigned} \cup Uint24Late

Values(t) ==
  CASE t.kind = "uint" -> {0, 1, Top(t.size)}
    [] t.kind = "uint24" -> {0, Top(3), Base ^ 3}
    [] t.kind = "array" -> {<<1, 0>>}
    [] t = DigitallySigned -> {<<<<4, 3>>, <<>>>>, <<<<4, Base>>, <<1>>>>}
    [] t.fields[1].name = "Sel" ->
         {<<s, a, b, 1>> : s \in 0 .. 3, a \in {<<>>, <<1>>}, b \in {<<>>, <<Base + 1>>}}
    [] t.fields[1].name = "Inners" -> {<<v, Base>> : v \in {<<>>, <<<<<<1>>>>, <<<<0, 1>>>>>>, <<<<<<>>>>>>}}
    [] t.fields[1].name = "Val" -> {<<[i \in 1 .. n |-> 1]>> : n \in 0 .. 6}
    [] t.fields[1].name = "Wide" -> {<<0>>, <<1>>}
    [] t.fields[1].name = "Val24" -> {<<n, 1>> : n \in {0, Base + 1, Top(3)}}
    [] t.fields[1].name = "First" -> {<<1, n>> : n \in {0, Base + 1, Top(3)}}
    [] t.fields[1].name = "All24" -> {<<<<>>>>, <<<<Base + 1>>>>, <<<<1, Base + 1>>>>}

(* Entries and what is signed.                                              *)

Certs == {<<<<1>>>>, <<<<1, 0>>>>}
KeyHash == <<1, 2>>
Entries ==
  {[precert |-> p, cert |-> c, chain |-> ch, timestamp |-> ts] :
     p \in BOOLEAN, c \in Certs \cup {<<<<>>>>}, ts \in {0, Base + 1},
     ch \in {<<>>} \cup {<<a>> : a \in Certs} \cup {<<a, b>> : a \in Certs, b \in Certs}}
LeafOf(e) ==
  IF e.precert THEN Leaf(e.timestamp, PrecertLogEntryType, <<>>, <<<<KeyHash, <<2>>>>>>, <<>>)
  ELSE CreateX509MerkleTreeLeaf(e.cert, e.timestamp)

\* The tree size that has the digits of an entry type, a length and a certificate.
LikeEntry == 2 * Base ^ 3 + Base ^ 2
Signed ==
  {[sth |-> FALSE, timestamp |-> ts, ext |-> x1, leaf |-> l] :
     ts \in {0, 1}, x1 \in {<<>>, <<0>>},
     l \in {Leaf(0, t, c, p, j) : t \in {0, 1, XJSONLogEntryType, 3}, c \in {<<>>, <<<<<<1>>>>>>, <<<<<<1, 0>>>>>>},
            p \in {<<>>, <<<<KeyHash, <<1>>>>>>}, j \in {<<>>, <<<<<<1>>>>>>}}}
  \cup {[sth |-> TRUE, timestamp |-> ts, size |-> n, root |-> r] : ts \in {0, 1}, n \in {0, LikeEntry}, r \in {<<0, 0>>, <<1, 0>>}}
\* What a leaf is about: its type and the data of that type.
Subject(leaf) ==
  LET te == leaf[3][1]
  IN  <<te[2], te[CASE te[2] = X509LogEntryType -> 3 [] te[2] = PrecertLogEntryType -> 4 [] OTHER -> 5]>>
SignatureInput(s) ==
  IF s.sth THEN SerializeSTHSignatureInput(V1, s.timestamp, s.size, s.root)
  ELSE SerializeSCTSignatureInput(V1, s.timestamp, s.ext, s.leaf)

Responses ==
  {[version |-> V1, id |-> id, timestamp |-> 1, extensions |-> e, signature |-> s] :
     id \in {KeyHash, <<1>>}, e \in {<<>>, <<0>>}, s \in {<<4, 3, 0, 1, 1>>, <<4, 3, 0, 1>>, <<4, 3, 0, 0, 0>>}}

\* What a log answers get-sth with.
STHResponses ==
  {[treeSize |-> n, timestamp |-> 1, root |-> r, signature |-> s] :
     n \in {0, LikeEntry}, r \in {<<1, 0>>, <<1>>}, s \in {<<4, 3, 0, 1, 1>>, <<4, 3, 0, 1>>}}

(* Precertificates, issued by the CA "I" or by its precertificate signer    *)
(* "P", and certificates issued by either.                                  *)

Ext(id, c, v) == [id |-> id, critical |-> c, value |-> v]
Cert(issuer, exts, ekus, key, scts) ==
  [tbs |-> [issuer |-> issuer, exts |-> exts, body |-> "b"], ekus |-> ekus, key |-> key, scts |-> scts, urls |-> <<>>]
CA == Cert("Root", <<>>, {}, "kI", <<>>)
Signer(aki) == Cert("I", IF aki THEN <<Ext("AKI", "absent", "kI")>> ELSE <<>>, {"CertificateTransparency"}, "kP", <<>>)
Orders(S) == {s \in UNION {[1 .. n -> S] : n \in 0 .. 3} : \A i, j \in DOMAIN s : i # j => s[i].id # s[j].id}
PreExts == {Ext("AKI", "absent", "kP"), Ext("AKI", "absent", "kI"), Ext("SAN", "false", "s"), Ext("SAN", "true", "s"),
            Ext("CTPoison", "true", "null")}
FinalExts == {Ext("AKI", "absent", "kP"), Ext("AKI", "absent", "kI"), Ext("SAN", "absent", "s"), Ext("SAN", "true", "s"),
              Ext("CTSCT", "absent", "list")}
PrecertChains ==
  {<<Cert("I", e, {}, "k", <<>>), CA>> : e \in Orders(PreExts) \cup {<<Ext("CTPoison", "true", "null"), Ext("CTPoison", "true", "null")>>}}
  \cup {<<Cert("P", e, {}, "k", <<>>), Signer(aki), CA>> : e \in Orders(PreExts), aki \in BOOLEAN}
  \cup {<<Cert("P", <<Ext("CTPoison", "true", "null")>>, {}, "k", <<>>), Signer(TRUE)>>}
Finals == {Cert(i, e, {}, "k", <<>>) : i \in {"I", "P"}, e \in Orders(FinalExts)}
LogKey == [alg |-> "ECDSA", strong |-> TRUE, id |-> "log"]

\* The certificate that goes with a precertificate: issued by the CA, with the
\* precertificate's extensions in their order but for the poison, the key id
\* being the CA's as its signer names it, and an SCT list anywhere.
Plain(exts, ids) == SelectSeq(exts, LAMBDA e : e.id \notin ids)
GoesWith(final, chain) ==
  LET pre    == Plain([i \in DOMAIN chain[1].tbs.exts |->
                  IF chain[1].tbs.exts[i].critical = "false" THEN [chain[1].tbs.exts[i] EXCEPT !.critical = "absent"]
                  ELSE chain[1].tbs.exts[i]], {"CTPoison"})
      mine   == Plain(final.tbs.exts, {"CTSCT"})
      signer == chain[2].tbs.exts
      hasAKI == \E i \in DOMAIN mine : mine[i].id = "AKI"
  IN  /\ final.tbs.issuer = "I" /\ Len(mine) < Len(final.tbs.exts)
      /\ IF Len(chain) = 2 THEN mine = pre
         ELSE /\ Plain(mine, {"AKI"}) = Plain(pre, {"AKI"})
              /\ hasAKI = (signer # <<>>)
              /\ hasAKI => \E i \in DOMAIN mine :
                   /\ mine[i] = Ext("AKI", "absent", "kI")
                   /\ IF \E j \in DOMAIN pre : pre[j].id = "AKI" THEN pre[i].id = "AKI" ELSE i = Len(mine)

-----------------------------------------------------------------------------
Init ==
  \/ part = "bytes" /\ x = <<>>
  \/ part = "entry" /\ x \in Entries
  \/ part = "signed" /\ x \in Signed
  \/ part = "scts" /\ x \in {<<a, b>> : a, b \in Responses}
  \/ part = "sth" /\ x \in STHResponses
  \/ part = "precert" /\ x \in PrecertChains
  \/ part = "der" /\ x \in {[group |-> g, bytes |-> D!Groups[g].start] : g \in DOMAIN D!Groups}
  \/ part = "dervalue" /\ x \in D!Cases
  \/ part = "cert" /\ x \in C!CertCases
  \/ part = "request" /\ x \in C!RequestCases
  \/ part = "foreign" /\ x \in C!ForeignCases
  \/ part = "list" /\ x \in C!ListCases

AddByte ==
  /\ part = "bytes" /\ Len(x) < MaxBytes
  /\ \E b \in SampleBytes : x' = Append(x, b)
  /\ UNCHANGED part

AddDERByte ==
  /\ part = "der" /\ Len(x.bytes) < D!Groups[x.group].max
  /\ \E b \in D!Groups[x.group].bytes : x' = [x EXCEPT !.bytes = Append(@, b)]
  /\ UNCHANGED part

Next == AddByte \/ AddDERByte
Spec == Init /\ [][Next]_vars

-----------------------------------------------------------------------------
\* tls: what Unmarshal accepts is the encoding that Marshal gives for the value
\* it returns, so that no value has two encodings; and what Marshal writes is
\* read back as the same value, whatever bytes follow.
Canonical(t) ==
  /\ \A r \in {Unmarshal(x, t, <<>>)} : r.ok =>
       \A m \in {Marshal(r.val, t, <<>>)} : m.ok /\ m.bytes \o r.rest = x
  /\ \A v \in Values(t) : \A m \in {Marshal(v, t, <<>>)} : m.ok =>
       \A u \in {Unmarshal(m.bytes \o x, t, <<>>)} : u.ok /\ u.val = v /\ u.rest = x

\* That every type Unmarshal lists is read back, as its comment has it
\* (tls.go:77-166).  Refuted by the types of Uint24Late, so no run checks it.
EveryTypeCanonical == part = "bytes" => \A t \in Types : Canonical(t)

\* Canonical for every type but those with a Uint24 behind other bytes, whose
\* number is misread.  Of these the rest of the input is still found where
\* Marshal left it, and what is written is accepted.
EncodingCanonical ==
  part = "bytes" =>
    /\ \A t \in Types \ Uint24Late : Canonical(t)
    /\ \A t \in Uint24Late : \A v \in Values(t) : \A m \in {Marshal(v, t, <<>>)} : m.ok =>
         \A u \in {Unmarshal(m.bytes \o x, t, <<>>)} : u.ok /\ u.rest = x

\* asn1: a value that was read, written anew, is read as the same value; for the
\* kinds that have one encoding it is written as it was read.  What Marshal
\* writes is read back, whatever follows.  The lax mode, which x509 falls back
\* to, reads what the strict one accepts in the same way.
DERFaithful ==
  /\ part = "der" => \A t \in D!Groups[x.group].types : D!ReadRewritten(t, x.bytes)
  /\ part = "dervalue" => \A tail \in {<<>>, <<0, 1>>} : D!WrittenReads(x, tail)

\* Nothing a log signs stands for two things: the inputs of two SCTs with
\* different timestamps, extensions or entries differ, and none is that of an STH.
SignaturesDistinct ==
  part = "signed" =>
    \A mine \in {SignatureInput(x)} : mine.ok => \A s \in Signed :
      SignatureInput(s) = mine =>
        /\ s.sth = x.sth
        /\ IF x.sth THEN s = x
           ELSE s.timestamp = x.timestamp /\ s.ext = x.ext /\ Subject(s.leaf) = Subject(x.leaf)

\* What a log stores for a submission is read back by RawLogEntryFromLeaf as the
\* same leaf, (pre)certificate and chain.  SCTs that logs answered with, put into
\* a list as a CA does and taken from it as a verifier does, are the same SCTs,
\* and are found in the list.  A tree head put into a gossip certificate is taken
\* from it unchanged.
ReadBack ==
  /\ part = "entry" =>
       \A stored \in {BuildLogLeaf(LeafOf(x), x.cert, x.chain, x.precert)} :
         /\ stored.ok = (x.cert # <<<<>>>>)
         /\ stored.ok => RawLogEntryFromLeaf(stored) =
              [ok |-> TRUE, leaf |-> LeafOf(x), cert |-> x.cert, chain |-> x.chain]
  /\ part = "scts" =>
       \A scts \in {<<ToSignedCertificateTimestamp(x[1]), ToSignedCertificateTimestamp(x[2])>>} :
         scts[1].ok /\ scts[2].ok =>
           \A list \in {MarshalSCTsIntoSCTList(<<scts[1].val, scts[2].val>>)} :
             /\ list.ok
             /\ \A encd \in {Marshal(list.val, SignedCertificateTimestampList, <<>>)} :
                  encd.ok => UnmarshalAll(encd.bytes, SignedCertificateTimestampList) = list
             /\ ParseSCTsFromSCTList(list.val).val = <<scts[1].val, scts[2].val>>
             /\ \A i \in 1 .. 2 : ContainsSCT(list.val, scts[i].val)
  /\ part = "sth" =>
       \A sth \in {ToSignedTreeHead(x)} :
         sth.ok => STHFromCert(<<Marshal(<<<<1>>, V1, x.treeSize, x.timestamp, x.root, sth.val.signature>>,
                                         LogSTHInfo, <<>>).bytes>>).val =
           [version |-> V1, treeSize |-> x.treeSize, timestamp |-> x.timestamp, root |-> x.root, signature |-> sth.val.signature]

\* What is encoded by tls, be it a value of its types or what a log stores and
\* a CA or a gossiper embeds, is decoded as the same thing, and nothing else is
\* decoded.  A Uint24 behind other bytes is excepted: it is misread.
EncodingsFaithful == EncodingCanonical /\ ReadBack

\* An SCT that a log gives for a precertificate chain, embedded in a certificate,
\* verifies for the certificate that goes with the precertificate and for no
\* other, and the leaf that ctutil looks up is the one the log stored, so that
\* sctcheck counts the SCT as valid once, and only if, the log has included it.
SCTBindsCertificate ==
  part = "precert" =>
    LET leaf == SV!MerkleTreeLeafFromChain(x, "precert", 1)
        sct  == SV!BuildV1SCT(LogKey, leaf.val)
        log(tree) == "log" :> [key |-> LogKey, down |-> FALSE, tree |-> tree]
    IN  /\ leaf.ok = ((Len(x) = 3 \/ x[2] = CA) /\ Len(Plain(x[1].tbs.exts, {"AKI", "SAN"})) = 1)
        /\ leaf.ok => \A f \in Finals :
             LET final == [f EXCEPT !.scts = <<sct>>]
                 fits  == GoesWith(final, x)
                 valid(n) == [panic |-> FALSE, valid |-> n, invalid |-> 1 - n]
             IN  /\ SV!VerifySCT(LogKey, <<final, CA>>, sct, TRUE) = fits
                 /\ fits => SV!LeafHash(<<final, CA>>, sct, TRUE) = leaf
                 /\ SV!CheckChain(log(<<leaf.val>>), <<final, CA>>, <<>>) = valid(IF fits THEN 1 ELSE 0)
                 /\ SV!CheckChain(log(<<>>), <<final, CA>>, <<>>) = valid(0)

\* x509: a certificate or request created from a template is parsed without a
\* fatal error (unless the template holds what no certificate may) to the
\* template's fields: every key usage, path length, name and constraint, with
\* ExtraExtensions and a request's Attributes taking priority as documented; its
\* signature verifies, and a certificate made from the result has the same
\* extensions.  Two exceptions, where the code does not do as documented: subject
\* information in ExtraExtensions does not override the template's timestamps
\* (NotOverridden), and requests signed with RSA-PSS do not verify.
TemplateReadBack ==
  /\ part = "cert" => C!CertificateReadsBack(x)
  /\ part = "request" => C!RequestReadsBack(x)

\* x509: nothing critical in a certificate or a revocation list is lost in
\* parsing: it is represented, or reported as unhandled, or the input is refused.
\* The parts of extensions in DroppedSilently are excepted: parseCertificate drops
\* them and reports nothing.
CriticalUnderstood ==
  /\ part = "foreign" => C!ForeignParsed(x)
  /\ part = "list" => C!ListParsed(x)
=============================================================================
