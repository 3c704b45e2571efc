------------------------------ MODULE CTTypes ------------------------------
(***************************************************************************)
(* ct: the TLS structures of RFC 6962 as types of TLSCodec, and the        *)
(* conversions between them and what logs, clients and certificates hold.  *)
(* Lengths are written as numbers of bytes: 65535 is Top(2).               *)
(***************************************************************************)
EXTENDS TLSCodec

CONSTANT HashSize         \* sha256.Size

Top(k) == Base ^ k - 1

Uint(n) == [kind |-> "uint", size |-> n]
Enum == [kind |-> "enum"]
Array(n) == [kind |-> "array", len |-> n]
Bytes == [kind |-> "bytes"]
SliceOf(t) == [kind |-> "slice", elem |-> t]
Struct(fields) == [kind |-> "struct", fields |-> fields]

Field(name, type, tag) == [name |-> name, type |-> type, tag |-> tag, pointer |-> FALSE]
Variant(name, type, selector, val) ==
  [name |-> name, type |-> type, pointer |-> TRUE,
   tag |-> <<[key |-> "selector", name |-> selector], [key |-> "val", n |-> val]>>]
MaxVal(n) == <<[key |-> "maxval", n |-> n]>>
Lengths(min, max) == <<[key |-> "minlen", n |-> min], [key |-> "maxlen", n |-> max]>>

-----------------------------------------------------------------------------
X509LogEntryType == 0
PrecertLogEntryType == 1
XJSONLogEntryType == Base ^ 2 \div 2      \* 0x8000
TimestampedEntryLeafType == 0
V1 == 0
CertificateTimestampSignatureType == 0
TreeHashSignatureType == 1

JSONMaxLen == Base ^ 2 + 1        \* 1677215: three bytes, but not all they hold
SCTListMaxLen == Base ^ 2 - 2     \* 65335: two bytes, but not all they hold

ASN1Cert == Struct(<<Field("Data", Bytes, Lengths(1, Top(3)))>>)
LogID == Struct(<<Field("KeyID", Array(HashSize), <<>>)>>)
PreCert == Struct(<<Field("IssuerKeyHash", Array(HashSize), <<>>),
                    Field("TBSCertificate", Bytes, Lengths(1, Top(3)))>>)
JSONDataEntry == Struct(<<Field("Data", Bytes, Lengths(0, JSONMaxLen))>>)
PrecertChainEntry == Struct(<<Field("PreCertificate", ASN1Cert, Lengths(1, Top(3))),
                              Field("CertificateChain", SliceOf(ASN1Cert), Lengths(0, Top(3)))>>)
CertificateChain == Struct(<<Field("Entries", SliceOf(ASN1Cert), Lengths(0, Top(3)))>>)
SignatureAndHashAlgorithm == Struct(<<Field("Hash", Enum, MaxVal(Top(1))),
                                      Field("Signature", Enum, MaxVal(Top(1)))>>)
DigitallySigned == Struct(<<Field("Algorithm", SignatureAndHashAlgorithm, <<>>),
                            Field("Signature", Bytes, Lengths(0, Top(2)))>>)
TreeHeadSignature == Struct(<<Field("Version", Enum, MaxVal(Top(1))),
                              Field("SignatureType", Enum, MaxVal(Top(1))),
                              Field("Timestamp", Uint(8), <<>>),
                              Field("TreeSize", Uint(8), <<>>),
                              Field("SHA256RootHash", Array(HashSize), <<>>)>>)
SignedCertificateTimestamp == Struct(<<Field("SCTVersion", Enum, MaxVal(Top(1))),
                                       Field("LogID", LogID, <<>>),
                                       Field("Timestamp", Uint(8), <<>>),
                                       Field("Extensions", Bytes, Lengths(0, Top(2))),
                                       Field("Signature", DigitallySigned, <<>>)>>)
EntryFields == <<Field("Timestamp", Uint(8), <<>>),
                 Field("EntryType", Enum, MaxVal(Top(2))),
                 Variant("X509Entry", ASN1Cert, "EntryType", X509LogEntryType),
                 Variant("PrecertEntry", PreCert, "EntryType", PrecertLogEntryType),
                 Variant("JSONEntry", JSONDataEntry, "EntryType", XJSONLogEntryType),
                 Field("Extensions", Bytes, Lengths(0, Top(2)))>>
CertificateTimestamp == Struct(<<Field("SCTVersion", Enum, MaxVal(Top(1))),
                                 Field("SignatureType", Enum, MaxVal(Top(1)))>> \o EntryFields)
TimestampedEntry == Struct(EntryFields)
MerkleTreeLeaf == Struct(<<Field("Version", Enum, MaxVal(Top(1))),
                           Field("LeafType", Enum, MaxVal(Top(1))),
                           Variant("TimestampedEntry", TimestampedEntry, "LeafType", TimestampedEntryLeafType)>>)
LogSTHInfo == Struct(<<Field("LogURL", Bytes, <<[key |-> "maxlen", n |-> Top(1)]>>),
                       Field("Version", Enum, MaxVal(Top(1))),
                       Field("TreeSize", Uint(8), <<>>),
                       Field("Timestamp", Uint(8), <<>>),
                       Field("SHA256RootHash", Array(HashSize), <<>>),
                       Field("TreeHeadSignature", DigitallySigned, <<>>)>>)
SerializedSCT == Struct(<<Field("Val", Bytes, Lengths(1, Top(2)))>>)
SignedCertificateTimestampList == Struct(<<Field("SCTList", SliceOf(SerializedSCT), Lengths(1, SCTListMaxLen))>>)

-----------------------------------------------------------------------------
(* Leaves and entries.                                                      *)

\* Unmarshal, when nothing may follow.
UnmarshalAll(data, t) ==
  Then(Unmarshal(data, t, <<>>), LAMBDA r : IF r.rest # <<>> THEN Err ELSE [ok |-> TRUE, val |-> r.val])

\* CreateX509MerkleTreeLeaf, and the precert and JSON leaves; cert, pre and
\* json are <<>> or <<value>>.
Leaf(timestamp, etype, cert, pre, json) ==
  <<V1, TimestampedEntryLeafType, <<<<timestamp, etype, cert, pre, json, <<>>>>>>>>
CreateX509MerkleTreeLeaf(cert, timestamp) == Leaf(timestamp, X509LogEntryType, <<cert>>, <<>>, <<>>)

ExtraDataForChain(cert, chain, isPrecert) ==
  Marshal(IF isPrecert THEN <<cert, chain>> ELSE <<chain>>,
          IF isPrecert THEN PrecertChainEntry ELSE CertificateChain, <<>>)

BuildLogLeaf(leaf, cert, chain, isPrecert) ==
  Then(Marshal(leaf, MerkleTreeLeaf, <<>>), LAMBDA leafData :
    Then(ExtraDataForChain(cert, chain, isPrecert), LAMBDA extraData :
      [ok |-> TRUE, leafInput |-> leafData.bytes, extraData |-> extraData.bytes]))

RawLogEntryFromLeaf(entry) ==
  Then(UnmarshalAll(entry.leafInput, MerkleTreeLeaf), LAMBDA leaf :
    LET te == leaf.val[3][1]
        raw(cert, chain) == [ok |-> TRUE, leaf |-> leaf.val, cert |-> cert, chain |-> chain]
    IN  CASE te[2] = X509LogEntryType ->
               Then(UnmarshalAll(entry.extraData, CertificateChain), LAMBDA chain : raw(te[3][1], chain.val[1]))
          [] te[2] = PrecertLogEntryType ->
               Then(UnmarshalAll(entry.extraData, PrecertChainEntry), LAMBDA pre : raw(pre.val[1], pre.val[2]))
          [] OTHER -> Err)

\* What is signed in an SCT and in an STH.
SerializeSCTSignatureInput(version, timestamp, extensions, leaf) ==
  LET te == leaf[3][1]
  IN  IF version # V1 \/ te[2] \notin {X509LogEntryType, PrecertLogEntryType, XJSONLogEntryType} THEN Err
      ELSE Marshal(<<version, CertificateTimestampSignatureType, timestamp, te[2],
                     IF te[2] = X509LogEntryType THEN te[3] ELSE <<>>,
                     IF te[2] = PrecertLogEntryType THEN te[4] ELSE <<>>,
                     IF te[2] = XJSONLogEntryType THEN te[5] ELSE <<>>, extensions>>,
                   CertificateTimestamp, <<>>)

\* A slip: the same type of signature for both.
SerializeSTHAsSCT(version, timestamp, treeSize, root) ==
  IF version # V1 THEN Err
  ELSE Marshal(<<version, CertificateTimestampSignatureType, timestamp, treeSize, root>>, TreeHeadSignature, <<>>)

SerializeSTHSignatureInput(version, timestamp, treeSize, root) ==
  IF version # V1 THEN Err
  ELSE Marshal(<<version, TreeHashSignatureType, timestamp, treeSize, root>>, TreeHeadSignature, <<>>)

-----------------------------------------------------------------------------
(* Responses of a log.                                                      *)

\* AddChainResponse and GetSTHResponse carry bytes; the result is an SCT as a
\* value of SignedCertificateTimestamp, or a tree head.
ToSignedCertificateTimestamp(r) ==
  IF Len(r.id) # HashSize THEN Err
  ELSE Then(UnmarshalAll(r.signature, DigitallySigned), LAMBDA ds :
         [ok |-> TRUE, val |-> <<r.version, <<r.id>>, r.timestamp, r.extensions, ds.val>>])

ToSignedTreeHead(r) ==
  IF Len(r.root) # HashSize THEN Err
  ELSE Then(UnmarshalAll(r.signature, DigitallySigned), LAMBDA ds :
         [ok |-> TRUE, val |-> [treeSize |-> r.treeSize, timestamp |-> r.timestamp, root |-> r.root,
                                signature |-> ds.val]])

MarshalSCTsIntoSCTList(scts) ==
  Then(FoldLeft(LAMBDA acc, sct : Then(acc, LAMBDA a : Then(Marshal(sct, SignedCertificateTimestamp, <<>>), LAMBDA m :
                                    [ok |-> TRUE, val |-> Append(a.val, <<m.bytes>>)])),
                [ok |-> TRUE, val |-> <<>>], scts),
       LAMBDA list : [ok |-> TRUE, val |-> <<list.val>>])

ExtractSCT(sct) == UnmarshalAll(sct[1], SignedCertificateTimestamp)

ParseSCTsFromSCTList(list) ==
  FoldLeft(LAMBDA acc, s : Then(acc, LAMBDA a : Then(ExtractSCT(s), LAMBDA sct : [ok |-> TRUE, val |-> Append(a.val, sct.val)])),
           [ok |-> TRUE, val |-> <<>>], list[1])

ContainsSCT(list, sct) ==
  \E encd \in {Marshal(sct, SignedCertificateTimestamp, <<>>)} :
    encd.ok /\ \E i \in 1 .. Len(list[1]) : list[1][i][1] = encd.bytes

\* The STH a gossiping hub puts into a certificate, and back.
LogSTHInfoFromCert(exts) ==
  IF exts = <<>> THEN Err ELSE UnmarshalAll(exts[1], LogSTHInfo)
STHFromCert(exts) ==
  Then(LogSTHInfoFromCert(exts), LAMBDA info :
    [ok |-> TRUE, val |-> [version |-> info.val[2], treeSize |-> info.val[3], timestamp |-> info.val[4],
                           root |-> info.val[5], signature |-> info.val[6]]])
=============================================================================
