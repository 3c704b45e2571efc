----------------------------- MODULE X509Create -----------------------------
(***************************************************************************)
(* Creating certificates, requests and revocation lists from templates.    *)
(* Nil stands for an error.                                                *)
(***************************************************************************)
EXTENDS X509Cert, FiniteSets

MarshalSANs(names) ==
  Der(Tagged("dns", names.dns) \o Tagged("email", names.emails)
      \o Tagged("ip", [i \in DOMAIN names.ips |-> To4(names.ips[i])]) \o Tagged("uri", names.uris))

\* IP.Mask: an IPv4 address or mask held in 16 bytes is cut to the four of the
\* other; if their lengths still differ there is no result.
MaskIP(ip, mask) ==
  LET m == IF Len(ip) = 4 /\ Len(mask) = 16 /\ \A i \in 1 .. 12 : mask[i] = 255 THEN SubSeq(mask, 13, 16) ELSE mask
      a == IF Len(m) = 4 THEN To4(ip) ELSE ip
  IN  IF Len(a) # Len(m) THEN <<>> ELSE [i \in DOMAIN a |-> ByteAnd(a[i], m[i])]
\* ipAndMask: the network's address is masked first; its mask is written as it is.
IPAndMask(net) == MaskIP(net.ip, net.mask) \o net.mask
SerialiseConstraints(names) ==
  Tagged("dns", names.dns) \o Tagged("ip", [i \in DOMAIN names.ips |-> IPAndMask(names.ips[i])])
  \o Tagged("email", names.emails) \o Tagged("uri", names.uris)
Serialisable(names) == \A s \in ToSet(names.dns) \cup ToSet(names.emails) \cup ToSet(names.uris) : IsIA5String(s)

\* A slip: always one byte.
KeyUsageBitsOneByte(usage) ==
  LET a == <<ReverseBitsInAByte(usage % 256)>> IN [bytes |-> a, bitLength |-> ASN1BitLength(a)]

KeyUsageBits(usage) ==
  LET a == <<ReverseBitsInAByte(usage % 256), ReverseBitsInAByte((usage \div 256) % 256)>>
      bytes == IF a[2] # 0 THEN a ELSE <<a[1]>>
  IN  [bytes |-> bytes, bitLength |-> ASN1BitLength(bytes)]

\* Zero means no limit unless the template says that it is the limit; the
\* encoder leaves -1 out.
MaxPathLen(t) == IF t.MaxPathLen = 0 /\ ~t.MaxPathLenZero THEN -1 ELSE t.MaxPathLen

Located(method, urls) == [i \in DOMAIN urls |-> [method |-> method, uri |-> TRUE, location |-> urls[i]]]

\* The extensions a template's fields ask for, in buildExtensions' order; the
\* ones among ExtraExtensions take their place.
When(given, id, critical, value) == IF given THEN <<Extension(id, critical, value)>> ELSE <<>>
Unless(t, given, id, critical, value) == When(given /\ ~OIDInExtensions(id, t.ExtraExtensions), id, critical, value)

\* Usage, keys and access.  The guard of the subject information lets timestamps
\* through whatever ExtraExtensions holds.
UsageExtensions(t, authorityKeyId) ==
  Unless(t, t.KeyUsage # 0, "KeyUsage", TRUE, Der(KeyUsageBits(t.KeyUsage)))
  \o Unless(t, t.ExtKeyUsage # <<>> \/ t.UnknownExtKeyUsage # <<>>, "ExtKeyUsage", FALSE, Der(t.ExtKeyUsage \o t.UnknownExtKeyUsage))
  \o Unless(t, t.BasicConstraintsValid, "BasicConstraints", TRUE, Der([isCA |-> t.IsCA, maxPathLen |-> MaxPathLen(t)]))
  \o Unless(t, t.SubjectKeyId # "", "SKI", FALSE, Der(t.SubjectKeyId))
  \o Unless(t, authorityKeyId # "", "AKI", FALSE, Der(authorityKeyId))
  \o Unless(t, t.OCSPServer # <<>> \/ t.IssuingCertificateURL # <<>>, "AIA", FALSE,
            Der(Located("OCSP", t.OCSPServer) \o Located("Issuers", t.IssuingCertificateURL)))
  \o When(t.SubjectTimestamps # <<>> \/ (t.SubjectCARepositories # <<>> /\ ~OIDInExtensions("SIA", t.ExtraExtensions)), "SIA", FALSE,
          Der(Located("Timestamp", t.SubjectTimestamps) \o Located("CARepo", t.SubjectCARepositories)))

\* Names, policies, constraints and SCTs.
Constrained(t) == (t.Permitted # NoNames \/ t.Excluded # NoNames) /\ ~OIDInExtensions("NameConstraints", t.ExtraExtensions)
NameExtensions(t, subjectIsEmpty) ==
  LET Subtrees(names) == LET s == SerialiseConstraints(names) IN IF s = <<>> THEN Nil ELSE s
  IN  Unless(t, t.SAN # NoNames, "SAN", subjectIsEmpty, MarshalSANs(t.SAN))
      \o Unless(t, t.PolicyIdentifiers # <<>>, "CertificatePolicies", FALSE,
                Der([i \in DOMAIN t.PolicyIdentifiers |-> Policy(t.PolicyIdentifiers[i], FALSE)]))
      \o When(Constrained(t), "NameConstraints", t.PermittedDNSDomainsCritical,
              Der([permitted |-> Subtrees(t.Permitted), excluded |-> Subtrees(t.Excluded)]))
      \o Unless(t, t.CRLDistributionPoints # <<>>, "CRLDistributionPoints", FALSE,
                Der([i \in DOMAIN t.CRLDistributionPoints |-> Point(Tagged("uri", <<t.CRLDistributionPoints[i]>>), FALSE)]))
      \o Unless(t, t.RawSCT # Nil \/ t.SCTList # <<>>, "CTSCT", FALSE, Der(IF t.SCTList # <<>> THEN Der(t.SCTList) ELSE t.RawSCT))

BuildExtensions(t, subjectIsEmpty, authorityKeyId) ==
  IF Constrained(t) /\ ~(Serialisable(t.Permitted) /\ Serialisable(t.Excluded)) THEN Nil
  ELSE UsageExtensions(t, authorityKeyId) \o NameExtensions(t, subjectIsEmpty) \o t.ExtraExtensions

EmptySubject == Der(<<>>)
\* subjectBytes: as it was parsed, else encoded anew.
SubjectBytes(c) == IF c.RawSubject # Nil THEN c.RawSubject ELSE Der(c.Subject)

\* What is signed, its algorithm and its signature.
SignedBy(priv, params, isPSS, tbs) ==
  Der([tbs |-> tbs, sigAlgo |-> params.ai, signature |-> Sign(priv, params.hash, isPSS, tbs)])

CreateCertificate(t, parent, pub, priv) ==
  LET params == SigningParamsForPublicKey(priv, t.SignatureAlgorithm)
      key    == MarshalPublicKey(pub)
      issuer == SubjectBytes(parent)
      subject == SubjectBytes(t)
      aki    == IF issuer # subject /\ parent.SubjectKeyId # "" THEN parent.SubjectKeyId ELSE t.AuthorityKeyId
      exts   == BuildExtensions(t, subject = EmptySubject, aki)
      tbs    == [version |-> 2, serial |-> t.SerialNumber, sigAlgo |-> params.ai, issuer |-> issuer, validity |-> t.Validity,
                 subject |-> subject, key |-> key, extensions |-> exts]
  IN  IF t.SerialNumber = Nil \/ params = Nil \/ key = Nil \/ exts = Nil THEN Nil
      ELSE SignedBy(priv, params, IsRSAPSS(t.SignatureAlgorithm), tbs)

-----------------------------------------------------------------------------
(* Certificate requests.  An attribute has a type and a sequence of values; *)
(* a value of the extension request is a sequence of extensions.            *)

\* The extensions of fields and ExtraExtensions go into the first attribute of
\* the template that requests extensions, but for the ones it has already (in
\* any of its values); there is no place for their criticality.
RequestAttributes(t) ==
  LET exts == (IF t.SAN # NoNames /\ ~OIDInExtensions("SAN", t.ExtraExtensions)
               THEN <<Extension("SAN", FALSE, MarshalSANs(t.SAN))>> ELSE <<>>) \o t.ExtraExtensions
      at   == SelectInSeq(t.Attributes, LAMBDA a : a.type = "extensionRequest" /\ a.values # <<>>)
      specified == UNION {{e.id : e \in ToSet(v)} : v \in ToSet(t.Attributes[at].values)}
      added == SelectSeq(exts, LAMBDA e : e.id \notin specified)
  IN  IF exts = <<>> THEN t.Attributes
      ELSE IF at = 0 THEN Append(t.Attributes, [type |-> "extensionRequest", values |-> <<exts>>])
      ELSE [t.Attributes EXCEPT ![at].values[1] = @ \o [i \in DOMAIN added |-> [added[i] EXCEPT !.critical = FALSE]]]
\* The signer gets the hash alone as its option, whatever the algorithm.
CreateCertificateRequest(t, priv) ==
  LET params == SigningParamsForPublicKey(priv, t.SignatureAlgorithm)
      key    == MarshalPublicKey(priv)
      tbs    == [version |-> 0, subject |-> SubjectBytes(t), key |-> key, attributes |-> RequestAttributes(t)]
  IN  IF params = Nil \/ key = Nil THEN Nil
      ELSE SignedBy(priv, params, FALSE, tbs)

\* parseCSRExtensions: the first value of every attribute that requests some.
ParseCSRExtensions(attributes) ==
  LET those == SelectSeq(attributes, LAMBDA a : a.type = "extensionRequest" /\ a.values # <<>>)
  IN  FlattenSeq([i \in DOMAIN those |-> those[i].values[1]])

ParseCertificateRequest(v) ==
  LET tbs  == v.data.tbs
      key  == ParsePublicKey(tbs.key)
      exts == ParseCSRExtensions(tbs.attributes)
      sans == SelectSeq(exts, LAMBDA e : e.id = "SAN")
  IN  IF ~Strict(v) THEN Refused
      ELSE IF key.fatal \/ key.nfe # {} \/ ~Strict(tbs.subject) THEN Refused
      ELSE IF \E i \in DOMAIN sans : ParseSANExtension(sans[i].value) = Nil THEN Refused
      ELSE Parsed([RawTBS |-> tbs, RawSubject |-> tbs.subject, Version |-> tbs.version, PublicKey |-> key.pub,
                   SignatureAlgorithm |-> SignatureAlgorithmFromAI(v.data.sigAlgo), Signature |-> v.data.signature,
                   Extensions |-> exts,
                   SAN |-> IF sans = <<>> THEN NoNames ELSE ParseSANExtension(Last(sans).value).names], {}, FALSE)

-----------------------------------------------------------------------------
(* Revocation lists.                                                        *)

CreateCRL(c, priv, revoked, now, expiry) ==
  LET params == SigningParamsForPublicKey(priv, "")
      tbs    == [version |-> 1, sigAlgo |-> params.ai, issuer |-> c.Subject, thisUpdate |-> now, nextUpdate |-> expiry,
                 revoked |-> revoked,
                 extensions |-> IF c.SubjectKeyId # "" THEN <<Extension("AKI", FALSE, Der(c.SubjectKeyId))>> ELSE <<>>]
  IN  IF params = Nil THEN Nil
      ELSE SignedBy(priv, params, FALSE, tbs)

\* ParseCRL: the PEM block of a list, or the list itself.
ParseCRL(v) ==
  LET inner == IF v.enc = "pem" /\ v.type = "X509 CRL" THEN v.data ELSE v
  IN  IF Strict(inner) THEN inner.data ELSE Nil
CheckCRLSignature(pub, crl) == CheckSignature(SignatureAlgorithmFromAI(crl.sigAlgo), crl.tbs, crl.signature, pub)

(* The parser that looks into the extensions.  It goes on after an error    *)
(* and gives the list up at the end if one of them was fatal.               *)

\* errorInfo: all are fatal but for a criticality that is not the expected one.
ErrorFatal(err) == err.kind \notin {"UnexpectedlyCritical", "UnexpectedlyNonCritical"}
Failed(ok, kind, what) == IF ok THEN {} ELSE {[kind |-> kind, of |-> what]}

\* Which extensions of a list and of its entries must be critical (TRUE) or must not be.
ListExtCritical ==
  [id \in {"AKI", "IssuerAltName", "CRLNumber", "DeltaCRLIndicator", "IssuingDistributionPoint", "FreshestCRL", "AIA"} |->
     id \in {"DeltaCRLIndicator", "IssuingDistributionPoint"}]
CertExtCritical == [id \in {"CRLReasons", "InvalidityDate", "CertificateIssuer"} |-> id = "CertificateIssuer"]
Criticality(e, table) ==
  IF e.id \notin DOMAIN table THEN {}
  ELSE Failed(e.critical = table[e.id], IF e.critical THEN "UnexpectedlyCritical" ELSE "UnexpectedlyNonCritical", e.id)

\* parseGeneralName: of the general names, two are not supported.
GeneralNameParses(g) ==
  /\ g.tag \in {"other", "email", "dns", "directory", "uri", "ip", "registeredID"}
  /\ g.tag = "ip" => Len(g.data) \in {4, 16}
ParseGeneralNames(v) == IF Strict(v) /\ \A i \in DOMAIN v.data : GeneralNameParses(v.data[i]) THEN v.data ELSE Nil

ParseIssuingDistributionPoint(v) ==
  LET idp == v.data
  IN  IF v.enc # "der" THEN Failed(FALSE, "Invalid", "IssuingDP")
      ELSE Failed(~v.rest, "Trailing", "IssuingDP")
        \cup Failed(Cardinality({k \in {"user", "ca", "attribute"} : idp.only[k]}) <= 1, "MultipleTypes", "IssuingDP")
        \cup Failed(\A i \in DOMAIN idp.fullName : GeneralNameParses(idp.fullName[i]), "InvalidFullName", "IssuingDP")

\* parseRevokedCertificate: the errors of one entry.
RevokedErrors(r) ==
  UNION {LET e == r.extensions[i]
         IN  Criticality(e, CertExtCritical)
             \cup CASE e.id \in {"CRLReasons", "InvalidityDate"} -> Failed(Strict(e.value), "Invalid", e.id)
                    [] e.id = "CertificateIssuer" -> Failed(ParseGeneralNames(e.value) # Nil, "Invalid", e.id)
                    [] OTHER -> Failed(~e.critical, "UnhandledCritical", e.id)
         : i \in DOMAIN r.extensions}

ListExtErrors(e) ==
  LET v == e.value
  IN  Criticality(e, ListExtCritical)
      \cup CASE e.id \in {"AKI", "AIA"} -> Failed(Strict(v), "Invalid", e.id)
             [] e.id = "IssuerAltName" -> Failed(ParseGeneralNames(v) # Nil, "Invalid", e.id)
             [] e.id \in {"CRLNumber", "DeltaCRLIndicator"} ->
                  Failed(Strict(v), "Invalid", e.id)
                  \* A number that was not read is -1.
                  \cup Failed(v.enc = "der" /\ v.data >= 0, "Negative", e.id)
             [] e.id = "IssuingDistributionPoint" -> ParseIssuingDistributionPoint(v)
             [] e.id = "FreshestCRL" -> Failed(Strict(v), "Invalid", e.id)
             [] OTHER -> Failed(~e.critical, "UnhandledCritical", e.id)

ParseCertificateListDER(v) ==
  LET tbs  == v.data.tbs
      errs == UNION {RevokedErrors(tbs.revoked[i]) : i \in DOMAIN tbs.revoked}
              \cup UNION {ListExtErrors(tbs.extensions[i]) : i \in DOMAIN tbs.extensions}
      Value(id, none) == LET i == SelectLastInSeq(tbs.extensions, LAMBDA e : e.id = id)
                         IN  IF i = 0 THEN none ELSE tbs.extensions[i].value.data
  IN  IF ~Strict(v) THEN Refused
      ELSE IF \E err \in errs : ErrorFatal(err) THEN Refused
      ELSE Parsed([list |-> v.data, AuthorityKeyID |-> Value("AKI", ""), CRLNumber |-> Value("CRLNumber", -1),
                   BaseCRLNumber |-> Value("DeltaCRLIndicator", -1)], errs, FALSE)
=============================================================================
