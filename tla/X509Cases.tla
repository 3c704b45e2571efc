----------------------------- MODULE X509Cases ------------------------------
(***************************************************************************)
(* Templates of certificates and requests, certificates as another issuer  *)
(* might write them, and revocation lists; and what the x509 package is    *)
(* to do with each.                                                        *)
(***************************************************************************)
EXTENDS X509Create

NewKey(type, curve, id) == [type |-> type, curve |-> curve, n |-> 1, e |-> 1, id |-> id]
RSAKey == NewKey("RSA", "", "rsa")
ECKey(curve) == NewKey("ECDSA", curve, curve)
EdKey == NewKey("Ed25519", "", "ed")
Keys == {RSAKey, EdKey, NewKey("DSA", "", "dsa")} \cup {ECKey(c) : c \in Curves \cup {"P999"}}

Plain == NewCertificate @@ [SerialNumber |-> 1, SignatureAlgorithm |-> "", Subject |-> <<"leaf">>, RawSubject |-> Nil,
                            Validity |-> <<0, 9>>, ExtraExtensions |-> <<>>, Attributes |-> <<>>]
V4 == <<10, 1, 2, 3>>
Mapped == V4Prefix \o V4
Net(mask) == [ip |-> V4, mask |-> mask]
MappedNet == [ip |-> Mapped, mask |-> <<255, 255, 0, 0>>]
\* Written with four bytes of address and sixteen of mask.
LongMask == Net([i \in 1 .. 16 |-> IF i = 16 THEN 0 ELSE 255])
Full ==
  [Plain EXCEPT !.KeyUsage = 97, !.ExtKeyUsage = <<"ServerAuth", "ClientAuth">>, !.UnknownExtKeyUsage = <<"oid9">>,
     !.BasicConstraintsValid = TRUE, !.IsCA = TRUE, !.MaxPathLen = 3, !.SubjectKeyId = "ski", !.AuthorityKeyId = "aki",
     !.OCSPServer = <<"o1", "o2">>, !.IssuingCertificateURL = <<"i1">>, !.SubjectTimestamps = <<"t1">>,
     !.SubjectCARepositories = <<"r1">>, !.SAN = [dns |-> <<"d1", "d2">>, ips |-> <<V4>>, emails |-> <<"e1">>, uris |-> <<"u1">>],
     !.PolicyIdentifiers = <<"p1">>, !.Permitted = [dns |-> <<"d1">>, ips |-> <<Net(<<255, 255, 0, 0>>)>>, emails |-> <<"e1">>, uris |-> <<"u1">>],
     !.Excluded = [NoNames EXCEPT !.emails = <<"e2">>], !.PermittedDNSDomainsCritical = TRUE,
     !.CRLDistributionPoints = <<"c1", "c2">>, !.SCTList = <<"s1">>]
Parent == [Plain EXCEPT !.Subject = <<"ca">>, !.SubjectKeyId = "pki"]
Other == Der("other")
OverridingSAN == Der(Tagged("dns", <<"x1">>))

\* Templates: each group of fields varied, with the others empty and with all of them.
Templates(b) ==
  {[b EXCEPT !.KeyUsage = u] : u \in 0 .. 511}
  \cup {[b EXCEPT !.BasicConstraintsValid = v, !.IsCA = ca, !.MaxPathLen = n, !.MaxPathLenZero = z] :
          v \in BOOLEAN, ca \in BOOLEAN, n \in -1 .. 2, z \in BOOLEAN}
  \cup {[b EXCEPT !.SAN = [dns |-> d, ips |-> i, emails |-> <<>>, uris |-> u], !.Subject = s, !.RawSubject = r] :
          d \in {<<>>, <<"d1">>}, i \in {<<>>, <<V4, Mapped>>, <<<<1, 2>>>>}, u \in {<<>>, <<"bad uri">>}, s \in {<<>>, <<"leaf">>, <<"ca">>},
          r \in {Nil, Der(<<"raw">>)}}
  \cup {[b EXCEPT !.Permitted = [NoNames EXCEPT !.dns = d, !.ips = i], !.Excluded = [NoNames EXCEPT !.uris = u]] :
          d \in {<<>>, <<"d1">>, <<"bad name">>, <<"non-ascii">>}, u \in {<<>>, <<"u1">>, <<"1.2.3.4">>},
          i \in {<<>>, <<Net(<<255, 128, 0, 0>>)>>, <<Net(<<255, 0, 255, 0>>)>>, <<MappedNet>>, <<LongMask>>}}
  \cup {[b EXCEPT !.RawSCT = r, !.SCTList = l] : r \in {Nil, Der(<<"s2">>), [Der(<<>>) EXCEPT !.enc = "bad"]}, l \in {<<>>, <<"s1">>}}
  \cup {[b EXCEPT !.SubjectTimestamps = t, !.SubjectCARepositories = r, !.ExtraExtensions = e] :
          t \in {<<>>, <<"t1">>}, r \in {<<>>, <<"r1">>},
          e \in {<<>>, <<Extension("SAN", TRUE, OverridingSAN)>>,
                 <<Extension("SIA", FALSE, Der(<<>>))>>, <<Extension("Unknown", TRUE, Other), Extension("KeyUsage", FALSE, Der(KeyUsageBits(1)))>>}}
  \cup {[b EXCEPT !.SignatureAlgorithm = a] : a \in Algorithms \cup {"Other"}}

CertCases ==
  {[t |-> t, pub |-> ECKey("P256"), priv |-> RSAKey] : t \in Templates(Plain) \cup Templates(Full)}
  \cup {[t |-> [Plain EXCEPT !.SignatureAlgorithm = a], pub |-> p, priv |-> k] :
          a \in {"", "SHA256WithRSAPSS", "ECDSAWithSHA256", "PureEd25519"}, p \in Keys, k \in Keys}

-----------------------------------------------------------------------------
\* The parts of a template that ExtraExtensions takes the place of.
FieldsOf(id) ==
  CASE id = "KeyUsage" -> {"KeyUsage"} [] id = "SAN" -> {"SAN"}
    [] id = "SIA" -> {"SubjectTimestamps", "SubjectCARepositories"} [] OTHER -> {}
Overridden(t) == UNION {FieldsOf(t.ExtraExtensions[i].id) : i \in DOMAIN t.ExtraExtensions}
Compared == DOMAIN NewCertificate \ {"Extensions", "UnhandledCriticalExtensions", "RawSCT"}

\* What reading a template back is to give.
Expected(t) ==
  LET basic == t.BasicConstraintsValid
      Masked(names) == [names EXCEPT !.ips = [i \in DOMAIN names.ips |->
        [ip |-> [j \in 1 .. 4 |-> ByteAnd(V4[j], names.ips[i].mask[j])], mask |-> names.ips[i].mask]]]
      four == [i \in DOMAIN t.SAN.ips |-> To4(t.SAN.ips[i])]
  IN  [t EXCEPT !.IsCA = basic /\ t.IsCA,
                !.MaxPathLen = IF ~basic THEN 0 ELSE IF t.MaxPathLen = 0 /\ ~t.MaxPathLenZero THEN -1 ELSE t.MaxPathLen,
                !.MaxPathLenZero = basic /\ t.MaxPathLenZero /\ t.MaxPathLen = 0,
                !.AuthorityKeyId = IF SubjectBytes(t) = Der(<<"ca">>) THEN t.AuthorityKeyId ELSE "pki",
                !.SAN.ips = SelectSeq(four, LAMBDA ip : Len(ip) = 4),
                !.Permitted = Masked(t.Permitted), !.Excluded = Masked(t.Excluded),
                !.PermittedDNSDomainsCritical = t.PermittedDNSDomainsCritical /\ (t.Permitted # NoNames \/ t.Excluded # NoNames),
                !.SCTList = IF t.SCTList # <<>> \/ t.RawSCT = Nil THEN t.SCTList ELSE IF t.RawSCT.enc = "bad" THEN <<>> ELSE t.RawSCT.data]
\* Templates that can be written but hold what no certificate may.
Unreadable(t) ==
  \/ t.SAN.uris = <<"bad uri">> /\ "SAN" \notin Overridden(t)
  \/ ToSet(t.Permitted.ips) \cap {Net(<<255, 0, 255, 0>>), LongMask} # {} \/ "1.2.3.4" \in ToSet(t.Excluded.uris)
Doubtful(t) ==
  \/ "bad name" \in ToSet(t.Permitted.dns) \/ (<<1, 2>> \in ToSet(t.SAN.ips) /\ "SAN" \notin Overridden(t))
  \/ t.SCTList = <<>> /\ t.RawSCT # Nil /\ t.RawSCT.enc = "bad"

\* What a field is to be, read back: the template's, or what the extension in
\* ExtraExtensions says that overrides it.
ReadAs(t, f) ==
  IF f \notin Overridden(t) THEN Expected(t)[f]
  ELSE CASE f = "KeyUsage" -> 1 [] f = "SAN" -> [NoNames EXCEPT !.dns = <<"x1">>] [] OTHER -> <<>>

\* The fields that are not overridden although they should be (x509.go:818-820):
\* timestamps are written next to the subject information in ExtraExtensions,
\* as && binds before || in the guard of x509.go:2402.
NotOverridden(t) ==
  IF t.SubjectTimestamps # <<>> /\ OIDInExtensions("SIA", t.ExtraExtensions) THEN FieldsOf("SIA") ELSE {}

\* That ExtraExtensions always override, as documented.  Refuted by the templates
\* of NotOverridden, so no run checks it.
ExtraExtensionsOverride(c) ==
  \A v \in {CreateCertificate(c.t, Parent, c.pub, c.priv)} : v # Nil =>
    \A r \in {ParseCertificate(v)} : ~r.fatal => \A f \in Overridden(c.t) : r.out[f] = ReadAs(c.t, f)

CertificateReadsBack(c) ==
  LET d == FirstDetail(LAMBDA a : a.algo = c.t.SignatureAlgorithm)
      canSign == /\ SigningParamsForPublicKey(c.priv, "") # Nil
                 /\ c.t.SignatureAlgorithm # "" =>
                      /\ d # 0 /\ c.t.SignatureAlgorithm # "MD2WithRSA" /\ SignatureAlgorithmDetails[d].pubKeyAlgo = c.priv.type
  IN  \A v \in {CreateCertificate(c.t, Parent, c.pub, c.priv)} :
      /\ (v = Nil) = (~canSign \/ c.pub.type = "DSA" \/ c.pub.curve = "P999" \/ "non-ascii" \in ToSet(c.t.Permitted.dns))
      /\ v # Nil => \A r \in {ParseCertificate(v)} :
           /\ r.fatal = Unreadable(c.t)
           /\ ~r.fatal =>
                /\ (r.nfe = {}) = (~Doubtful(c.t) /\ c.pub.curve # "P192" /\ ~OIDInExtensions("SIA", c.t.ExtraExtensions))
                /\ \A f \in Compared \ NotOverridden(c.t) : r.out[f] = ReadAs(c.t, f)
                /\ r.out.PublicKey = c.pub
                /\ ~Doubtful(c.t) => r.out.UnhandledCriticalExtensions = SelectSeq([i \in DOMAIN c.t.ExtraExtensions |-> c.t.ExtraExtensions[i].id], LAMBDA id : id = "Unknown")
                /\ CheckSignature(r.out.SignatureAlgorithm, r.out.RawTBS, r.out.Signature, c.priv) = (c.t.SignatureAlgorithm # "MD5WithRSA")
                \* A certificate made from what was read has the same extensions.
                /\ c.t.ExtraExtensions = <<>> /\ ~Doubtful(c.t) =>
                     CreateCertificate(r.out @@ Plain, Parent, c.pub, c.priv).data.tbs.extensions = v.data.tbs.extensions

-----------------------------------------------------------------------------
(* Requests.                                                                *)

AttrExt(id, v) == Extension(id, FALSE, Der(Tagged("dns", <<v>>)))
Attribute(type, values) == [type |-> type, values |-> values]
Attributes ==
  {<<>>, <<Attribute("challengePassword", <<<<>>>>)>>, <<Attribute("extensionRequest", <<>>)>>,
   <<Attribute("extensionRequest", <<<<AttrExt("SAN", "a1")>>>>)>>,
   <<Attribute("extensionRequest", <<<<AttrExt("Unknown", "a2")>>>>), Attribute("challengePassword", <<<<>>>>)>>,
   <<Attribute("extensionRequest", <<<<>>, <<AttrExt("SAN", "a3")>>>>)>>}
RequestCases ==
  {[t |-> [Plain EXCEPT !.SAN.dns = d, !.ExtraExtensions = e, !.Attributes = a], priv |-> RSAKey] :
     d \in {<<>>, <<"d1">>}, a \in Attributes,
     e \in {<<>>, <<Extension("SAN", TRUE, OverridingSAN)>>, <<Extension("Unknown", TRUE, Other)>>}}
  \cup {[t |-> [Plain EXCEPT !.SignatureAlgorithm = a], priv |-> k] : a \in Algorithms \cup {""}, k \in Keys}

\* The first given of these wins: the template's attributes, ExtraExtensions, the fields.
RequestReadsBack(c) ==
  LET requested(a) == SelectSeq(a, LAMBDA x : x.type = "extensionRequest" /\ x.values # <<>>)
      given == IF requested(c.t.Attributes) = <<>> THEN <<>> ELSE requested(c.t.Attributes)[1].values
      first == IF given = <<>> THEN <<>> ELSE given[1]
      anywhere == UNION {ToSet(given[i]) : i \in DOMAIN given}
      SANOf(exts) == exts[SelectInSeq(exts, LAMBDA e : e.id = "SAN")].value
  IN  \A v \in {CreateCertificateRequest(c.t, c.priv)} : v # Nil => \A r \in {ParseCertificateRequest(v)} :
        /\ r.fatal = (c.priv.curve = "P192")
        /\ ~r.fatal =>
             /\ r.out.SAN.dns = CASE OIDInExtensions("SAN", first) -> Names(SANOf(first).data, "dns")
                                  [] ~OIDInExtensions("SAN", first) /\ (\E e \in anywhere : e.id = "SAN") -> <<>>
                                  [] OTHER -> IF OIDInExtensions("SAN", c.t.ExtraExtensions) THEN <<"x1">> ELSE c.t.SAN.dns
             /\ \A i \in DOMAIN r.out.Extensions, j \in DOMAIN r.out.Extensions : i # j => r.out.Extensions[i].id # r.out.Extensions[j].id
             /\ ToSet(first) \subseteq ToSet(r.out.Extensions)
             /\ \A e \in ToSet(c.t.ExtraExtensions) : (\E a \in anywhere : a.id = e.id) \/ OIDInExtensions(e.id, r.out.Extensions)
             /\ CheckSignature(r.out.SignatureAlgorithm, r.out.RawTBS, r.out.Signature, r.out.PublicKey)
                  = (c.t.SignatureAlgorithm # "MD5WithRSA" /\ ~IsRSAPSS(c.t.SignatureAlgorithm))

-----------------------------------------------------------------------------
(* Certificates of other issuers: extensions in any encoding.               *)

Encodings(d) == {Der(d), [Der(d) EXCEPT !.rest = TRUE], [Der(d) EXCEPT !.enc = "lax"], [Der(d) EXCEPT !.enc = "bad"]}
Subtree(tag, d) == [tag |-> tag, data |-> d]
Subtrees == {Nil, <<>>} \cup {<<Subtree(t, "n1")>> : t \in {"dns", "email", "uri", "directory"}}
            \cup {<<Subtree("directory", "n2"), Subtree("dns", "non-ascii")>>, <<Subtree("dns", "n1"), Subtree("other", "n3")>>,
                  <<Subtree("ip", V4 \o <<255, 0, 0, 0>>)>>, <<Subtree("ip", V4)>>, <<Subtree("dns", "n4") @@ [minimum |-> 1]>>}
Constraints == {Der([permitted |-> p, excluded |-> e]) : p, e \in Subtrees}
Item(kind, enc, d) == [kind |-> kind, enc |-> enc, data |-> d]
Items == {<<>>, <<Item("one", "der", 1), Item("range", "der", <<1, 2>>)>>, <<Item("one", "bad", 1), Item("other", "der", 2)>>}
Block(n, inherit, c) == [familyLen |-> n, afi |-> 1, inherit |-> inherit, choice |-> c]
ForeignExtensions ==
  {Extension("NameConstraints", c, v) : c \in BOOLEAN, v \in Constraints \cup Encodings([permitted |-> <<Subtree("dns", "n1")>>, excluded |-> Nil])}
  \cup {Extension("BasicConstraints", TRUE, v) : v \in Encodings([isCA |-> TRUE, maxPathLen |-> 0])}
  \cup {Extension("KeyUsage", TRUE, v) : v \in Encodings([bytes |-> <<4, 0>>, bitLength |-> 9])}
  \cup {Extension("ExtKeyUsage", c, v) : c \in BOOLEAN, v \in Encodings(<<"Any", "oid9">>) \cup {[Der(<<>>) EXCEPT !.enc = "empty"]}}
  \cup {Extension("SAN", c, Der(Tagged(t, <<"d1">>) \o Tagged(u, <<"d2">>) \o n)) :
          c \in BOOLEAN, t \in {"dns", "directory", "bad"}, u \in {"directory", "email", "uri"},
          n \in {<<>>, Tagged("ip", <<V4>>), Tagged("ip", <<<<1, 2>>>>), Tagged("other", <<"d3">>)}}
  \cup {Extension(id, c, v) : c \in BOOLEAN, id \in {"AIA", "SIA"}, v \in Encodings(<<>>) \cup
          {Der(Located("OCSP", <<"o">>) \o Located("CARepo", <<"r">>)),
           Der(Located("Issuers", <<"i">>) \o Located("Timestamp", <<"t">>) \o <<[method |-> "OCSP", uri |-> FALSE, location |-> "d"]>>)}}
  \cup {Extension("CTSCT", FALSE, v) : v \in UNION {Encodings(w) : w \in Encodings(<<"s1">>)}}
  \cup {Extension("IPPrefixList", TRUE, v) : v \in Encodings(<<>>) \cup {Der(<<Block(n, b, Der(i))>>) : n \in {2, 4}, b \in BOOLEAN, i \in Items}}
  \cup {Extension("ASList", TRUE, v) :
          v \in Encodings([asNum |-> Nil, rdi |-> Nil]) \cup {Der([asNum |-> [inherit |-> b, list |-> l], rdi |-> Nil]) : b \in BOOLEAN, l \in UNION {Encodings(i) : i \in Items}}}
  \cup {Extension("Unknown", c, Other) : c \in BOOLEAN} \cup {Extension("CTPoison", TRUE, Other)}
  \cup {Extension(id, FALSE, v) : id \in {"SKI", "AKI"}, v \in Encodings("id")} 
  \cup {Extension("CRLDistributionPoints", TRUE, v) :
          v \in Encodings(<<>>) \cup {Der(<<Point(Tagged("uri", <<"c1">>), l), Point(n, FALSE)>>) : l \in BOOLEAN, n \in {<<>>, Tagged("directory", <<"c2">>)}}}
  \cup {Extension("CertificatePolicies", TRUE, v) : v \in UNION {Encodings(<<Policy("p1", q), Policy("p2", FALSE)>>) : q \in BOOLEAN}}
PublicInfos ==
  {[oid |-> o, params |-> [kind |-> k, value |-> v], key |-> w] :
     o \in {"RSA", "DSA", "RSAESOAEP", "ECDSA", "oidEd25519", "oid9"}, k \in {"null", "absent", "dsa", "oaep", "curve"},
     v \in Encodings("P192"), w \in UNION {Encodings(key) : key \in {RSAKey, [RSAKey EXCEPT !.n = 0], [RSAKey EXCEPT !.e = 0], ECKey("P192")}}}
ForeignCert(exts, info, subject) ==
  [tbs |-> [version |-> 2, serial |-> 1, sigAlgo |-> [oid |-> "oidMD2WithRSA", params |-> Params("null")], issuer |-> Der(<<"ca">>),
            validity |-> <<0, 9>>, subject |-> subject, key |-> info, extensions |-> exts], sigAlgo |-> Nil, signature |-> Nil]
EdInfo == MarshalPublicKey(EdKey)
ForeignCases ==
  {ForeignCert(<<e>>, EdInfo, Der(<<"leaf">>)) : e \in ForeignExtensions}
  \cup {ForeignCert(<<e, Extension("Unknown", TRUE, Other)>>, EdInfo, Der(<<"leaf">>)) : e \in {f \in ForeignExtensions : f.id \in {"SAN", "NameConstraints"}}}
  \cup {ForeignCert(<<>>, i, Der(<<"leaf">>)) : i \in PublicInfos} \cup {ForeignCert(<<>>, EdInfo, s) : s \in Encodings(<<"leaf">>)}

\* What an extension says, as a set of tuples that begin with the kind of what is
\* said.  (Of the issuer and serial number of an authority key id, which a
\* certificate has no field for, nothing is modelled; it is never critical here.)
NamesIn(gns) == {<<g.tag, g.data>> : g \in ToSet(gns)}
Listed(items) == {<<a.kind, a.data>> : a \in ToSet(items)}
Content(e) ==
  LET d == e.value.data
      Sides(side) ==
        IF d[side] = Nil THEN {}
        ELSE {<<g.tag, side, g.data>> : g \in ToSet(d[side])}
             \cup {<<"distance", side, g.data>> : g \in {h \in ToSet(d[side]) : "minimum" \in DOMAIN h}}
      Choice(c, of) == IF c = Nil THEN {} ELSE IF c.inherit THEN {<<"inherit", of>>} ELSE {<<i[1], of, i[2]>> : i \in Listed(c.list.data)}
  IN  CASE e.id = "NameConstraints" -> Sides("permitted") \cup Sides("excluded")
        [] e.id = "BasicConstraints" -> {<<"basic", d.isCA, d.maxPathLen, d.maxPathLen = 0>>}
        [] e.id = "KeyUsage" -> {<<"bit", i>> : i \in {j \in 0 .. 8 : BitAt(d, j) = 1}}
        [] e.id = "ExtKeyUsage" -> {<<"usage", u>> : u \in ToSet(d)}
        [] e.id = "SAN" -> NamesIn(d)
        [] e.id \in {"AIA", "SIA"} -> {<<IF a.uri THEN a.method ELSE "not a URI", a.location>> : a \in ToSet(d)}
        [] e.id = "CRLDistributionPoints" ->
             UNION {NamesIn(p.fullName) \cup (IF p.limited THEN {<<"limit">>} ELSE {}) : p \in ToSet(d)}
        [] e.id = "CertificatePolicies" ->
             {<<"policy", p.id>> : p \in ToSet(d)} \cup {<<"qualifier", p.id>> : p \in {q \in ToSet(d) : q.qualified}}
        [] e.id = "IPPrefixList" -> UNION {Choice([inherit |-> b.inherit, list |-> b.choice], b.afi) : b \in ToSet(d)}
        [] e.id = "ASList" -> Choice(d.asNum, 0) \cup Choice(d.rdi, 1)
        [] e.id \in {"SKI", "AKI"} -> {<<"id", d>>}
        [] e.id = "CTSCT" -> {<<"sct", s>> : s \in ToSet(d.data)}
        [] OTHER -> {<<"unknown", d>>}

\* What the fields of a parsed certificate say of it.
Held(out, id) ==
  LET Named(names) == {<<"dns", n>> : n \in ToSet(names.dns)} \cup {<<"email", n>> : n \in ToSet(names.emails)}
                      \cup {<<"uri", n>> : n \in ToSet(names.uris)}
      Sides(names, side) == {<<n[1], side, n[2]>> : n \in Named(names)} \cup {<<"ip", side, n.ip \o n.mask>> : n \in ToSet(names.ips)}
      Choice(inherit, ones, ranges, of) ==
        (IF inherit THEN {<<"inherit", of>>} ELSE {}) \cup {<<"one", of, n>> : n \in ToSet(ones)} \cup {<<"range", of, n>> : n \in ToSet(ranges)}
      Numbers(c, of) == IF c = Nil THEN {} ELSE Choice(c.inherit, c.ids, c.ranges, of)
      Each(kind, s) == {<<kind, v>> : v \in ToSet(s)}
  IN  CASE id = "NameConstraints" -> Sides(out.Permitted, "permitted") \cup Sides(out.Excluded, "excluded")
        [] id = "BasicConstraints" -> IF out.BasicConstraintsValid THEN {<<"basic", out.IsCA, out.MaxPathLen, out.MaxPathLenZero>>} ELSE {}
        [] id = "KeyUsage" -> {<<"bit", i>> : i \in {j \in 0 .. 8 : Bit(out.KeyUsage, j) = 1}}
        [] id = "ExtKeyUsage" -> Each("usage", out.ExtKeyUsage \o out.UnknownExtKeyUsage)
        [] id = "SAN" -> Named(out.SAN) \cup Each("ip", out.SAN.ips)
        [] id = "AIA" -> Each("OCSP", out.OCSPServer) \cup Each("Issuers", out.IssuingCertificateURL)
        [] id = "SIA" -> Each("Timestamp", out.SubjectTimestamps) \cup Each("CARepo", out.SubjectCARepositories)
        [] id = "CRLDistributionPoints" -> Each("uri", out.CRLDistributionPoints)
        [] id = "CertificatePolicies" -> Each("policy", out.PolicyIdentifiers)
        [] id = "IPPrefixList" -> UNION {Choice(f.inherit, f.prefixes, f.ranges, f.afi) : f \in ToSet(out.RPKIAddressRanges)}
        [] id = "ASList" -> Numbers(out.RPKIASNumbers, 0) \cup Numbers(out.RPKIRoutingDomainIDs, 1)
        [] id = "SKI" -> {<<"id", out.SubjectKeyId>>} [] id = "AKI" -> {<<"id", out.AuthorityKeyId>>}
        [] id = "CTSCT" -> Each("sct", out.SCTList)
        [] OTHER -> {}
Lost(out, e) == Content(e) \ Held(out, e.id)
Reported(out, e) == e.id \in ToSet(out.UnhandledCriticalExtensions)

\* What is dropped from a critical extension without being reported, although it
\* was not processed: names of other kinds in a SAN that has one of a known kind,
\* access by other methods and to what is no URI, all of a distribution point
\* but its URIs, the qualifiers of a policy, the distances of a subtree.
DroppedSilently(id) ==
  CASE id = "SAN" -> {"directory", "other"}
    [] id = "AIA" -> {"not a URI", "CARepo", "Timestamp"} [] id = "SIA" -> {"not a URI", "OCSP", "Issuers"}
    [] id = "CRLDistributionPoints" -> {"directory", "limit"}
    [] id = "CertificatePolicies" -> {"qualifier"} [] id = "NameConstraints" -> {"distance"}
    [] OTHER -> {}

\* That every critical extension not fully processed is reported, as documented
\* (x509.go:824-825).  Refuted by what DroppedSilently names, so no run checks it.
CriticalReported(c) ==
  \A r \in {ParseCertificate(Der(c))} : ~r.fatal /\ r.nfe = {} =>
    \A e \in ToSet(c.tbs.extensions) : e.critical /\ Lost(r.out, e) # {} => Reported(r.out, e)

Clean(v) == v.enc = "der" /\ ~v.rest

\* ParseCertificate, for a certificate of any issuer: what a
\* critical extension says is represented in the result, or the extension is named
\* among the unhandled ones, but for what DroppedSilently lists, and it is named
\* only if something of it was lost; and an encoding that is not DER is never read
\* without an error.  The three entry points agree
\* on DER; of a certificate that only the lax mode reads the first makes a
\* non-fatal error and ParseCertificates a fatal one.
ForeignParsed(c) ==
  \A r \in {ParseCertificate(Der(c))} :
      /\ ~r.fatal =>
           /\ \A i \in DOMAIN c.tbs.extensions :
                LET e == c.tbs.extensions[i]
                IN  /\ e.critical /\ r.nfe = {} =>
                         IF Reported(r.out, e) THEN Lost(r.out, e) # {}
                         ELSE \A said \in Lost(r.out, e) : said[1] \in DroppedSilently(e.id)
                    /\ r.nfe = {} => Clean(e.value)
           /\ r.nfe = {} => Clean(c.tbs.subject) /\ (c.tbs.key.oid \notin {"oid9", "oidEd25519"} => Clean(c.tbs.key.key))
           /\ ParsePKIXPublicKey(Der(c.tbs.key)) # Fatal => ParsePKIXPublicKey(Der(c.tbs.key)).pub = r.out.PublicKey
           /\ ~CheckSignature(r.out.SignatureAlgorithm, r.out.RawTBS, Sign(RSAKey, "none", FALSE, c.tbs), RSAKey)
      /\ ParseCertificate([Der(c) EXCEPT !.enc = "lax"]) = Noting(r, {"lax certificate"})
      /\ \A tbs \in {ParseTBSCertificate(Der(c.tbs))} : tbs.fatal = r.fatal /\ tbs.nfe = r.nfe
      /\ \A two \in {ParseCertificates(<<Der(c), Der(c)>>)} : two.fatal = r.fatal /\ (~r.fatal => two.out = <<r.out, r.out>>)
      /\ ParseCertificates(<<Der(c), [Der(c) EXCEPT !.enc = "lax"]>>).fatal

-----------------------------------------------------------------------------
(* Revocation lists.                                                        *)

RevokedExts == {<<>>} \cup {<<Extension(id, c, v)>> : id \in {"CRLReasons", "CertificateIssuer", "Unknown"}, c \in BOOLEAN, v \in Encodings(<<>>)}
               \cup {<<Extension("CertificateIssuer", TRUE, Der(<<Subtree(t, V4)>>))>> : t \in {"ip", "x400"}}
IDP(only, names) == Der([only |-> [k \in {"user", "ca", "attribute"} |-> k \in only], fullName |-> names])
ListExts ==
  {<<>>} \cup {<<Extension(id, c, v)>> : id \in {"CRLNumber", "DeltaCRLIndicator"}, c \in BOOLEAN, v \in Encodings(1) \cup {Der(-1)}}
  \cup {<<Extension(id, c, v)>> : id \in {"AKI", "AIA", "IssuerAltName", "FreshestCRL", "Unknown"}, c \in BOOLEAN, v \in Encodings(<<>>)}
  \cup {<<Extension("IssuingDistributionPoint", c, IDP(o, n))>> :
          c \in BOOLEAN, o \in SUBSET {"user", "ca", "attribute"}, n \in {<<>>, <<Subtree("uri", "u")>>, <<Subtree("edi", "u")>>}}
ListCases ==
  {[created |-> TRUE, cert |-> [Plain EXCEPT !.SubjectKeyId = i], priv |-> k, revoked |-> r, exts |-> <<>>] :
     i \in {"", "ski"}, k \in Keys, r \in {<<>>, <<[serial |-> 1, extensions |-> <<>>]>>}}
  \cup {[created |-> FALSE, cert |-> Plain, priv |-> RSAKey, revoked |-> <<[serial |-> 1, extensions |-> r]>>, exts |-> e] : r \in RevokedExts, e \in ListExts}

\* A list that CreateCRL signs is read by both parsers and verified by the key of
\* the signer and by no other.  The parser of extensions accepts no list with a
\* critical extension it does not know, with a value it cannot read, a negative
\* number or an issuing point of two kinds; it may only complain of criticality.
ListParsed(c) ==
  LET ents == ToSet(c.exts) \cup UNION {ToSet(c.revoked[i].extensions) : i \in DOMAIN c.revoked}
      read == \A e \in ents : (e.id = "Unknown" /\ ~e.critical) \/ (e.id # "Unknown" /\ Clean(e.value))
  IN  \A v \in {CreateCRL(c.cert, c.priv, c.revoked, 0, 9)} : v # Nil =>
      \A r \in {ParseCertificateListDER(IF c.created THEN v ELSE [v EXCEPT !.data.tbs.extensions = c.exts])} :
      IF c.created
      THEN /\ ~r.fatal /\ r.nfe = {} /\ r.out.AuthorityKeyID = c.cert.SubjectKeyId
           /\ ParseCRL(v) = v.data /\ ParseCRL([enc |-> "pem", type |-> "X509 CRL", data |-> v]) = v.data
           /\ \A k \in Keys : CheckCRLSignature(k, v.data) = (k = c.priv)
      ELSE /\ ~r.fatal = (/\ read
                          /\ \A e \in ents : e.id \in {"CRLNumber", "DeltaCRLIndicator"} => e.value.data >= 0
                          /\ \A e \in ents : e.id = "IssuingDistributionPoint" =>
                               /\ \A k, l \in {"user", "ca", "attribute"} : e.value.data.only[k] /\ e.value.data.only[l] => k = l
                               /\ e.value.data.fullName # <<Subtree("edi", "u")>>
                          /\ \A e \in ents : e.id = "CertificateIssuer" /\ e.value.data # <<>> => e.value.data[1].tag = "ip")
           /\ ~r.fatal => (r.nfe = {}) = (\A e \in ents : e.id # "Unknown" =>
                                           e.critical = (e.id \in {"DeltaCRLIndicator", "IssuingDistributionPoint", "CertificateIssuer"}))
=============================================================================
