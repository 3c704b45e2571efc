------------------------------ MODULE X509Cert ------------------------------
(***************************************************************************)
(* Certificates and certificate requests of the x509 package: creating     *)
(* them from a template and parsing them, with what is fatal and what only *)
(* adds a non-fatal error (nfe, a set of their causes).                    *)
(*                                                                         *)
(* An extension's value is an encoded value (module X509Keys) whose data   *)
(* is what the extension's structure holds.  Names are strings;            *)
(* "non-ascii" is one outside IA5, "bad name" one that is no domain name   *)
(* or mailbox, "bad uri" no URI, and "1.2.3.4" an IP address.  An IP       *)
(* address is the sequence of its bytes.                                   *)
(***************************************************************************)
EXTENDS X509Keys

IsIA5String(s) == s # "non-ascii"
NameParses(s) == s # "bad name"
URIParses(s) == s # "bad uri"
IsIP(s) == s = "1.2.3.4"

Bit(b, i) == (b \div 2 ^ i) % 2
ReverseBitsInAByte(b) == FoldFunction(+, 0, [i \in 0 .. 7 |-> Bit(b, i) * 2 ^ (7 - i)])
\* asn1BitLength: up to the last bit that is set, the first being the highest of a byte.
ASN1BitLength(bytes) ==
  LET On == {n \in 1 .. 8 * Len(bytes) : Bit(bytes[(n + 7) \div 8], 7 - ((n - 1) % 8)) = 1}
  IN  IF On = {} THEN 0 ELSE Max(On)
BitAt(bits, i) == IF i >= bits.bitLength THEN 0 ELSE Bit(bits.bytes[(i \div 8) + 1], 7 - (i % 8))

ByteAnd(a, b) == FoldFunction(+, 0, [i \in 0 .. 7 |-> Bit(a, i) * Bit(b, i) * 2 ^ i])
Leading == {256 - 2 ^ i : i \in 1 .. 8}
IsValidIPMask(mask) ==
  LET ends == {i \in DOMAIN mask : mask[i] # 255}
  IN  ends = {} \/ (mask[Min(ends)] \in Leading /\ \A i \in DOMAIN mask : i > Min(ends) => mask[i] = 0)
\* IP.To4: an IPv4 address held in 16 bytes.
V4Prefix == <<0, 0, 0, 0, 0, 0, 0, 0, 0, 0, 255, 255>>
To4(ip) == IF Len(ip) = 16 /\ SubSeq(ip, 1, 12) = V4Prefix THEN SubSeq(ip, 13, 16) ELSE ip

-----------------------------------------------------------------------------
(* The fields extensions fill in, as of an empty certificate.               *)

NoNames == [dns |-> <<>>, ips |-> <<>>, emails |-> <<>>, uris |-> <<>>]
NewCertificate ==
  [KeyUsage |-> 0, ExtKeyUsage |-> <<>>, UnknownExtKeyUsage |-> <<>>,
   BasicConstraintsValid |-> FALSE, IsCA |-> FALSE, MaxPathLen |-> 0, MaxPathLenZero |-> FALSE,
   SubjectKeyId |-> "", AuthorityKeyId |-> "", OCSPServer |-> <<>>, IssuingCertificateURL |-> <<>>,
   SubjectTimestamps |-> <<>>, SubjectCARepositories |-> <<>>, SAN |-> NoNames, PolicyIdentifiers |-> <<>>,
   Permitted |-> NoNames, Excluded |-> NoNames, PermittedDNSDomainsCritical |-> FALSE,
   CRLDistributionPoints |-> <<>>, RawSCT |-> Nil, SCTList |-> <<>>,
   RPKIAddressRanges |-> <<>>, RPKIASNumbers |-> Nil, RPKIRoutingDomainIDs |-> Nil,
   Extensions |-> <<>>, UnhandledCriticalExtensions |-> <<>>]

ExtKeyUsages ==
  {"Any", "ServerAuth", "ClientAuth", "CodeSigning", "EmailProtection", "IPSECEndSystem", "IPSECTunnel", "IPSECUser",
   "TimeStamping", "OCSPSigning", "MicrosoftServerGatedCrypto", "NetscapeServerGatedCrypto",
   "MicrosoftCommercialCodeSigning", "MicrosoftKernelCodeSigning", "CertificateTransparency"}

Extension(id, critical, value) == [id |-> id, critical |-> critical, value |-> value]
OIDInExtensions(id, exts) == \E i \in DOMAIN exts : exts[i].id = id
Tagged(tag, names) == [i \in DOMAIN names |-> [tag |-> tag, data |-> names[i]]]

-----------------------------------------------------------------------------
(* Parsing.  A parser of one extension takes the certificate so far and     *)
(* returns it with the errors, and whether the extension was not handled.   *)

Parsed(out, nfe, unhandled) == [fatal |-> FALSE, out |-> out, nfe |-> nfe, unhandled |-> unhandled]
Refused == [fatal |-> TRUE, out |-> Nil, nfe |-> {}, unhandled |-> FALSE]
Names(gns, tag) == LET those == SelectSeq(gns, LAMBDA g : g.tag = tag) IN [i \in DOMAIN those |-> those[i].data]

\* A distribution point: its full names, and whether it also holds reasons, an
\* issuer or a relative name.  A policy: its identifier, and whether it is qualified.
Point(fullName, limited) == [fullName |-> fullName, limited |-> limited]
Policy(id, qualified) == [id |-> id, qualified |-> qualified]

ParseDistributionPoints(out, v) ==
  IF ~Strict(v) THEN Refused
  ELSE Parsed([out EXCEPT !.CRLDistributionPoints =
                 @ \o FlattenSeq([i \in DOMAIN v.data |-> Names(v.data[i].fullName, "uri")])], {}, FALSE)

\* parseSANExtension: Nil, or the names and the errors.
ParseSANExtension(v) ==
  LET gns  == v.data
      ips  == Names(gns, "ip")
      good == SelectSeq(ips, LAMBDA ip : Len(ip) \in {4, 16})
      uris == Names(gns, "uri")
  IN  IF ~Strict(v) \/ \E i \in DOMAIN gns : gns[i].tag = "bad" THEN Nil
      ELSE IF \E i \in DOMAIN uris : ~URIParses(uris[i]) \/ ~NameParses(uris[i]) THEN Nil
      ELSE [names |-> [dns |-> Names(gns, "dns"), ips |-> good, emails |-> Names(gns, "email"), uris |-> uris],
            nfe |-> IF good # ips THEN {"IP length"} ELSE {}]

WithSAN(out, r) == IF r = Nil THEN Refused ELSE Parsed([out EXCEPT !.SAN = r.names], r.nfe, r.names = NoNames)
ParseSAN(out, v) == WithSAN(out, ParseSANExtension(v))

\* parseNameConstraintsExtension: the subtrees are a sequence of names, Nil when absent.
ConstraintFatal(g) ==
  CASE g.tag = "bad" -> TRUE
    [] g.tag \in {"dns", "email"} -> ~IsIA5String(g.data)
    [] g.tag = "uri" -> ~IsIA5String(g.data) \/ IsIP(g.data)
    [] g.tag = "ip" -> Len(g.data) \notin {8, 32} \/ ~IsValidIPMask(SubSeq(g.data, (Len(g.data) \div 2) + 1, Len(g.data)))
    [] OTHER -> FALSE
GetValues(subtrees) ==
  LET ips == Names(subtrees, "ip")
  IN  [dns |-> Names(subtrees, "dns"), emails |-> Names(subtrees, "email"), uris |-> Names(subtrees, "uri"),
       ips |-> [i \in DOMAIN ips |-> [ip |-> SubSeq(ips[i], 1, Len(ips[i]) \div 2), mask |-> SubSeq(ips[i], (Len(ips[i]) \div 2) + 1, Len(ips[i]))]]]

\* A slip: the excluded subtrees overwrite what the permitted ones left unhandled.
UnhandledLast(permitted, excluded) == \E i \in DOMAIN excluded : excluded[i].tag \notin {"dns", "email", "uri", "ip"}
Unhandled(permitted, excluded) ==
  LET all == permitted \o excluded IN \E i \in DOMAIN all : all[i].tag \notin {"dns", "email", "uri", "ip"}

ParseNameConstraintsExtension(out, e) ==
  LET Given(t) == IF t = Nil THEN <<>> ELSE t
      all      == Given(e.value.data.permitted) \o Given(e.value.data.excluded)
  IN  IF ~Strict(e.value) THEN Refused
      ELSE IF all = <<>> \/ \E i \in DOMAIN all : ConstraintFatal(all[i]) THEN Refused
      ELSE Parsed([out EXCEPT !.Permitted = GetValues(Given(e.value.data.permitted)),
                              !.Excluded = GetValues(Given(e.value.data.excluded)),
                              !.PermittedDNSDomainsCritical = e.critical],
                  IF \E i \in DOMAIN all : all[i].tag \in {"dns", "email", "uri"} /\ ~NameParses(all[i].data)
                  THEN {"constraint"} ELSE {},
                  Unhandled(Given(e.value.data.permitted), Given(e.value.data.excluded)))

ParseExtKeyUsage(out, v) ==
  IF v.enc = "empty" THEN Parsed(out, {"empty ExtendedKeyUsage"}, FALSE)
  ELSE IF v.enc = "bad" \/ v.rest THEN Refused
  ELSE Parsed([out EXCEPT !.ExtKeyUsage = @ \o SelectSeq(v.data, LAMBDA u : u \in ExtKeyUsages),
                          !.UnknownExtKeyUsage = @ \o SelectSeq(v.data, LAMBDA u : u \notin ExtKeyUsages)],
              IF v.enc = "lax" THEN {"lax ExtendedKeyUsage"} ELSE {}, FALSE)

\* The locations, of those that are URIs, of one method of access.
Access(v, method) ==
  LET those == SelectSeq(v.data, LAMBDA a : a.uri /\ a.method = method) IN [i \in DOMAIN those |-> those[i].location]
ParseAIA(out, v) ==
  IF ~Strict(v) THEN Refused
  ELSE Parsed([out EXCEPT !.OCSPServer = @ \o Access(v, "OCSP"), !.IssuingCertificateURL = @ \o Access(v, "Issuers")],
              IF v.data = <<>> THEN {"empty AuthorityInfoAccess"} ELSE {}, FALSE)
ParseSIA(out, v) ==
  IF ~Strict(v) THEN Refused
  ELSE Parsed([out EXCEPT !.SubjectTimestamps = @ \o Access(v, "Timestamp"), !.SubjectCARepositories = @ \o Access(v, "CARepo")],
              IF v.data = <<>> THEN {"empty SubjectInfoAccess"} ELSE {}, FALSE)

\* The SCT list is a TLS encoding within an octet string; its errors are never fatal.
ParseSCT(out, v) ==
  IF v.enc # "der" THEN Parsed(out, {"SCT list"}, FALSE)
  ELSE LET raw == [out EXCEPT !.RawSCT = v.data]
       IN  IF v.rest THEN Parsed(raw, {"SCT list"}, FALSE)
           ELSE IF v.data.enc # "der" THEN Parsed(raw, {"SCT list"}, FALSE)
           ELSE Parsed([raw EXCEPT !.SCTList = v.data.data], IF v.data.rest THEN {"SCT list"} ELSE {}, FALSE)

(* Resource certificates (rpki.go).                                         *)

\* An element that is a single value, a range of two, or neither.
Values(items, kind) == LET those == SelectSeq(items, LAMBDA a : a.kind = kind /\ a.enc = "der") IN [i \in DOMAIN those |-> those[i].data]
AllRead(items) == \A i \in DOMAIN items : items[i].kind \in {"one", "range"} /\ items[i].enc = "der"

ParseRPKIAddrBlocks(v) ==
  LET Readable(b) == b.familyLen \in {2, 3} /\ (b.inherit \/ b.choice.enc = "der")
      blocks == SelectSeq(v.data, Readable)
      Family(b) == [afi |-> b.afi, inherit |-> b.inherit,
                    prefixes |-> IF b.inherit THEN <<>> ELSE Values(b.choice.data, "one"),
                    ranges |-> IF b.inherit THEN <<>> ELSE Values(b.choice.data, "range")]
  IN  IF ~Strict(v) THEN [res |-> <<>>, nfe |-> {"ipAddrBlocks"}]
      ELSE [res |-> [i \in DOMAIN blocks |-> Family(blocks[i])],
            nfe |-> IF Len(blocks) < Len(v.data) \/ \E i \in DOMAIN blocks : ~blocks[i].inherit /\ ~AllRead(blocks[i].choice.data)
                    THEN {"ipAddrBlocks"} ELSE {}]

\* parseASIDChoice of an optional choice: absent (Nil), to inherit, or a list.
ParseASIDChoice(c) ==
  CASE c = Nil -> [res |-> Nil, nfe |-> {}]
    [] c # Nil /\ c.inherit -> [res |-> [inherit |-> TRUE, ids |-> <<>>, ranges |-> <<>>], nfe |-> {}]
    [] c # Nil /\ ~c.inherit ->
         IF ~Strict(c.list) THEN [res |-> Nil, nfe |-> {"ASIdentifiers"}]
         ELSE [res |-> [inherit |-> FALSE, ids |-> Values(c.list.data, "one"), ranges |-> Values(c.list.data, "range")],
               nfe |-> IF AllRead(c.list.data) THEN {} ELSE {"ASIdentifiers"}]
ParseRPKIASIdentifiers(out, v) ==
  IF ~Strict(v) THEN Parsed([out EXCEPT !.RPKIASNumbers = Nil, !.RPKIRoutingDomainIDs = Nil], {"ASIdentifiers"}, FALSE)
  ELSE LET num == ParseASIDChoice(v.data.asNum)
           rdi == ParseASIDChoice(v.data.rdi)
       IN  Parsed([out EXCEPT !.RPKIASNumbers = num.res, !.RPKIRoutingDomainIDs = rdi.res], num.nfe \cup rdi.nfe, FALSE)

-----------------------------------------------------------------------------
ParseExtension(out, e) ==
  LET v == e.value
      Field(ok, new) == IF ok THEN Parsed(new, {}, FALSE) ELSE Refused
  IN  CASE e.id = "KeyUsage" ->
             Field(Strict(v), [out EXCEPT !.KeyUsage = FoldFunction(+, 0, [i \in 0 .. 8 |-> BitAt(v.data, i) * 2 ^ i])])
        [] e.id = "BasicConstraints" ->
             Field(Strict(v), [out EXCEPT !.BasicConstraintsValid = TRUE, !.IsCA = v.data.isCA,
                                          !.MaxPathLen = v.data.maxPathLen, !.MaxPathLenZero = v.data.maxPathLen = 0])
        [] e.id = "SAN" -> ParseSAN(out, v)
        [] e.id = "NameConstraints" -> ParseNameConstraintsExtension(out, e)
        [] e.id = "CRLDistributionPoints" -> ParseDistributionPoints(out, v)
        [] e.id = "AKI" -> Field(Strict(v), [out EXCEPT !.AuthorityKeyId = v.data])
        [] e.id = "ExtKeyUsage" -> ParseExtKeyUsage(out, v)
        [] e.id = "SKI" -> Field(Strict(v), [out EXCEPT !.SubjectKeyId = v.data])
        [] e.id = "CertificatePolicies" -> Field(Strict(v), [out EXCEPT !.PolicyIdentifiers = [i \in DOMAIN v.data |-> v.data[i].id]])
        [] e.id = "AIA" -> ParseAIA(out, v)
        [] e.id = "SIA" -> ParseSIA(out, v)
        [] e.id = "IPPrefixList" ->
             LET r == ParseRPKIAddrBlocks(v) IN Parsed([out EXCEPT !.RPKIAddressRanges = r.res], r.nfe, FALSE)
        [] e.id = "ASList" -> ParseRPKIASIdentifiers(out, v)
        [] e.id = "CTSCT" -> ParseSCT(out, v)
        [] OTHER -> Parsed(out, {}, TRUE)

\* The loop of parseCertificate: the first fatal error ends it.
WithErrors(nfe, e, r) ==
  IF r.fatal THEN r
  ELSE Parsed(IF e.critical /\ r.unhandled THEN [r.out EXCEPT !.UnhandledCriticalExtensions = Append(@, e.id)] ELSE r.out,
              nfe \cup r.nfe, FALSE)
AddExtension(acc, e) ==
  IF acc.fatal THEN acc
  ELSE WithErrors(acc.nfe, e, ParseExtension([acc.out EXCEPT !.Extensions = Append(@, e)], e))

\* A name of the certificate: DER without more, or what lax takes (with or
\* without more) and an error.
NameFatal(v) == v.enc = "bad" \/ (v.enc = "der" /\ v.rest)
NameErrors(v) == IF v.enc = "lax" THEN {"lax name"} ELSE {}

FieldsRead(in, pub) ==
  [RawTBS |-> in.tbs, RawSubject |-> in.tbs.subject, RawIssuer |-> in.tbs.issuer, SerialNumber |-> in.tbs.serial,
   SignatureAlgorithm |-> SignatureAlgorithmFromAI(in.tbs.sigAlgo), Signature |-> in.signature,
   PublicKey |-> pub, Version |-> in.tbs.version + 1, Validity |-> in.tbs.validity]
CertificateOf(in, key, exts) ==
  IF key.fatal \/ NameFatal(in.tbs.subject) \/ NameFatal(in.tbs.issuer) THEN Refused
  ELSE IF exts.fatal THEN Refused
  ELSE Parsed(exts.out @@ FieldsRead(in, key.pub),
              exts.nfe \cup key.nfe \cup NameErrors(in.tbs.subject) \cup NameErrors(in.tbs.issuer), FALSE)
ParseCertificateIn(in) ==
  CertificateOf(in, ParsePublicKey(in.tbs.key), FoldLeft(AddExtension, Parsed(NewCertificate, {}, FALSE), in.tbs.extensions))

Noting(r, nfe) == IF r.fatal THEN r ELSE [r EXCEPT !.nfe = @ \cup nfe]
ParseCertificate(v) ==
  IF v.enc = "bad" \/ v.rest THEN Refused
  ELSE Noting(ParseCertificateIn(v.data), IF v.enc = "der" THEN {} ELSE {"lax certificate"})

\* The same for the part that is signed.
ParseTBSCertificate(v) ==
  ParseCertificate([v EXCEPT !.data = [tbs |-> v.data, sigAlgo |-> Nil, signature |-> Nil]])

\* ParseCertificates of certificates one after the other.  Once the strict
\* parser fails, what is left is lost and the lax one gets nothing to read.
ParseCertificates(vs) ==
  IF \E i \in DOMAIN vs : vs[i].enc # "der" THEN Refused
  ELSE FoldLeft(LAMBDA acc, r : IF acc.fatal \/ r.fatal THEN Refused ELSE Parsed(Append(acc.out, r.out), acc.nfe \cup r.nfe, FALSE),
                Parsed(<<>>, {}, FALSE), [i \in DOMAIN vs |-> ParseCertificateIn(vs[i].data)])
=============================================================================
