----------------------------- MODULE CertChains -----------------------------
(***************************************************************************)
(* x509: Certificate.Verify, which builds all chains it can find from a    *)
(* certificate to a pool of roots, with the checks on each candidate.      *)
(*                                                                         *)
(* A certificate is a record of what these checks look at.  A key stands   *)
(* for the pair of keys: a signature is good if "signer" is the key of the *)
(* parent.  Pools are sequences, in the order in which certificates were   *)
(* added.                                                                  *)
(***************************************************************************)
EXTENDS Integers, Sequences, SequencesExt

CONSTANTS
  MaxChainSignatureChecks,
  MaxConstraintComparisons,
  None

OK == "ok"
AnyUsage == "ExtKeyUsageAny"

\* A result: chains, or the reason why there are none.
Fails(reason) == [chains |-> <<>>, err |-> reason]

\* The first of a sequence of <<condition, reason>> whose condition holds.
FirstError(checks) ==
  LET failed == {i \in 1 .. Len(checks) : checks[i][1]}
  IN  IF failed = {} THEN OK ELSE checks[CHOOSE i \in failed : \A j \in failed : i <= j][2]

-----------------------------------------------------------------------------
(* CertPool.                                                                *)

\* AddCert for a sequence of certificates: no certificate twice.
NewPool(certs) == FoldLeft(LAMBDA pool, c : IF c \in ToSet(pool) THEN pool ELSE Append(pool, c),
                           <<>>, certs)

FindPotentialParents(pool, cert) ==
  LET byKeyId == SelectSeq(pool, LAMBDA p : p.skid = cert.akid)
  IN  IF cert.akid # None /\ byKeyId # <<>> THEN byKeyId
      ELSE SelectSeq(pool, LAMBDA p : p.subject = cert.issuer)

\* CheckSignatureFrom: only a CA that may sign certificates, and whose key the
\* signature was made with.  (One broken root of Entrust is exempt by its key.)
CheckSignatureFrom(cert, parent) ==
  /\ parent.version = 3 => parent.bc
  /\ parent.bc => parent.ca
  /\ parent.certSign
  /\ parent.key = cert.signer

-----------------------------------------------------------------------------
(* Names.                                                                   *)

\* A name is the sequence of its labels from the first to the last; its last
\* label is empty if it ends with a period.  Case is ignored (toLowerCaseASCII).
TrimDot(host) == IF host # <<>> /\ Last(host) = "" THEN Front(host) ELSE host

\* domainToReverseLabels: no empty label, not even at the end.
DomainToReverseLabels(host) == IF host = None \/ "" \in ToSet(host) THEN None ELSE Reverse(host)

\* validHostname; a wildcard may only be the first label.
ValidHostname(host) ==
  LET labels == TrimDot(host)
  IN  labels # <<>> /\ \A i \in 1 .. Len(labels) : labels[i] # "" /\ (labels[i] = "*" => i = 1)

MatchHostnames(pattern, host) ==
  LET p == TrimDot(pattern)
      h == TrimDot(host)
  IN  /\ p # <<>> /\ Len(p) = Len(h)
      /\ \A i \in 1 .. Len(p) : (i = 1 /\ p[i] = "*") \/ p[i] = h[i]

HasSAN(c) == c.sans # None

\* The common name counts only without subject alternative names, and only if
\* it could be a hostname.
CommonNameAsHostname(c) == ~HasSAN(c) /\ c.cn # None /\ ValidHostname(c.cn)

DNSNames(c) == IF HasSAN(c) THEN {n.host : n \in {m \in ToSet(c.sans) : m.type = "dns"}} ELSE {}

VerifyHostname(c, h) ==
  CASE h.type = "ip" -> HasSAN(c) /\ h \in ToSet(c.sans)
    [] h.type = "dns" -> IF CommonNameAsHostname(c) THEN MatchHostnames(c.cn, h.host)
                         ELSE \E name \in DNSNames(c) : MatchHostnames(name, h.host)

\* matchDomainConstraint, on reversed labels; a leading period asks for at
\* least one label more.  A constraint without labels matches everything.
MatchDomainConstraint(labels, constraint) ==
  /\ IsPrefix(constraint.labels, labels)
  /\ constraint.labels # <<>> /\ constraint.leadingDot => Len(labels) > Len(constraint.labels)

\* matchEmailConstraint, matchURIConstraint and matchIPConstraint.  An address
\* is the sequence of its bits, a range of addresses a prefix of them.
MatchConstraint(name, constraint) ==
  CASE name.type \in {"dns", "uri"} -> MatchDomainConstraint(DomainToReverseLabels(name.host), constraint)
    [] name.type = "email" ->
         IF constraint.local = None THEN MatchDomainConstraint(DomainToReverseLabels(name.host), constraint)
         ELSE name.local = constraint.local /\ DomainToReverseLabels(name.host) = constraint.labels
    [] name.type = "ip" -> Len(name.host) = constraint.bits /\ IsPrefix(constraint.labels, name.host)

\* checkNameConstraints for one name, with the comparisons made before.  Names
\* of a type for which c has no permitted constraints are not restricted by it.
\* The host of a URI with an address or nothing in its place is None, which
\* only matters if it is compared.
CheckNameConstraints(c, name, count) ==
  LET excluded  == SelectSeq(c.excluded, LAMBDA x : x.type = name.type)
      permitted == SelectSeq(c.permitted, LAMBDA x : x.type = name.type)
      all       == count + Len(excluded) + Len(permitted)
      parsed    == IF name.type = "ip" THEN name.host ELSE DomainToReverseLabels(name.host)
      matches(s) == parsed # None /\ \E i \in 1 .. Len(s) : MatchConstraint(name, s[i])
      hidden(s) == parsed = None /\ s # <<>>
  IN  [count |-> all,
       err |-> FirstError(<<
         <<parsed = None /\ name.type # "uri", "UnparsableName">>,
         <<count + Len(excluded) > MaxConstraintComparisons, "TooManyConstraints">>,
         <<hidden(excluded) \/ matches(excluded), "CANotAuthorizedForThisName">>,
         <<all > MaxConstraintComparisons, "TooManyConstraints">>,
         <<hidden(permitted) \/ (permitted # <<>> /\ ~matches(permitted)),
           "CANotAuthorizedForThisName">>>>)]

\* The names of a leaf against the constraints of c, in order.
NamesPermitted(c, leaf) ==
  FoldLeft(LAMBDA acc, name : IF acc.err # OK THEN acc ELSE CheckNameConstraints(c, name, acc.count),
           [count |-> 0, err |-> OK], leaf.sans).err

-----------------------------------------------------------------------------
(* isValid and the chain builder.                                           *)

\* isValid: may c be appended to the chain, given the number of intermediates?
IsValidAbove(c, type, chain, intermediates, opts) ==
  LET constrained == opts.checkConstraints /\ type # "leaf" /\ c.constrained
      names == IF constrained /\ HasSAN(chain[1]) THEN NamesPermitted(c, chain[1]) ELSE OK
  IN  FirstError(<<
        <<opts.checkCritical /\ c.critical # {}, "UnhandledCriticalExtension">>,
        <<opts.checkNames /\ chain # <<>> /\ Last(chain).issuer # c.subject, "NameMismatch">>,
        <<opts.checkTime /\ (opts.now < c.notBefore \/ opts.now > c.notAfter), "Expired">>,
        <<constrained /\ CommonNameAsHostname(chain[1]), "NameConstraintsWithoutSANs">>,
        <<names # OK, names>>,
        <<type = "intermediate" /\ ~(c.bc /\ c.ca), "NotAuthorizedToSign">>,
        <<opts.checkPathLen /\ c.bc /\ c.maxPathLen >= 0 /\ intermediates > c.maxPathLen,
          "TooManyIntermediates">>>>)

\* A slip: the certificate below the candidate is not counted.
IsValidShortPath(c, type, chain, opts) == IsValidAbove(c, type, chain, Len(chain) - 2, opts)

IsValid(c, type, chain, opts) == IsValidAbove(c, type, chain, Len(chain) - 1, opts)

\* The candidates for the parent of cert: roots first.
Candidates(cert, opts) ==
  LET all(type, certs) == [i \in 1 .. Len(certs) |-> [type |-> type, cert |-> certs[i]]]
  IN  all("root", FindPotentialParents(opts.roots, cert)) \o all("intermediate", FindPotentialParents(opts.intermediates, cert))

\* What was found above a candidate, added to what there was and kept.
Keep(acc, candidate, above) ==
  [above EXCEPT !.chains = acc.chains \o @,
                !.cache = [c \in DOMAIN @ \cup {candidate} |-> IF c = candidate THEN above.chains ELSE @[c]]]

Concluded(done) ==
  [done EXCEPT !.err = IF done.chains # <<>> THEN OK ELSE IF @ = OK THEN "UnknownAuthority" ELSE @]

\* buildChains for the last certificate of a chain.  Chains found above a
\* candidate are kept, with the chain below it at that time, and used again
\* whenever it is considered again.
RECURSIVE BuildChains(_, _, _, _)
ConsiderValid(acc, chain, candidate, valid, opts) ==
  LET path == Append(chain, candidate.cert)
      found(chains) == [acc EXCEPT !.err = OK, !.chains = @ \o chains]
  IN  IF valid # OK THEN [acc EXCEPT !.err = valid]
      ELSE IF candidate.type = "root" THEN found(<<path>>)
      ELSE IF candidate.cert \in DOMAIN acc.cache THEN found(acc.cache[candidate.cert])
      ELSE Keep(acc, candidate.cert, BuildChains(path, acc.cache, acc.sigChecks, opts))

Consider(acc, chain, candidate, opts) ==
  LET checked == [acc EXCEPT !.sigChecks = @ + 1]
  IN  IF candidate.cert \in ToSet(chain) THEN acc
      ELSE IF checked.sigChecks > MaxChainSignatureChecks THEN [checked EXCEPT !.err = "SignatureCheckLimit"]
      ELSE IF ~CheckSignatureFrom(Last(chain), candidate.cert) THEN checked
      ELSE ConsiderValid(checked, chain, candidate, IsValid(candidate.cert, candidate.type, chain, opts), opts)

BuildChains(chain, cache, sigChecks, opts) ==
  Concluded(FoldLeft(LAMBDA acc, candidate : Consider(acc, chain, candidate, opts),
                     [chains |-> <<>>, err |-> OK, sigChecks |-> sigChecks, cache |-> cache],
                     Candidates(Last(chain), opts)))

\* checkChainForKeyUsage: usages that every certificate of the chain allows.
ServerGated == {"NetscapeServerGatedCrypto", "MicrosoftServerGatedCrypto"}

UsageAllowed(c, usage) ==
  \/ c.ekus = {} \/ AnyUsage \in c.ekus \/ usage \in c.ekus
  \/ usage = "ServerAuth" /\ c.ekus \cap ServerGated # {}

CheckChainForKeyUsage(chain, usages) ==
  FoldRight(LAMBDA c, remaining : {u \in remaining : UsageAllowed(c, u)}, chain, usages) # {}

\* Verify: of the chains built, those that allow one of the usages asked for.
WithUsage(built, opts) ==
  LET usages == IF opts.usages = {} THEN {"ServerAuth"} ELSE opts.usages
      good   == IF AnyUsage \in usages \/ ~opts.checkEKU THEN built.chains
                ELSE SelectSeq(built.chains, LAMBDA ch : CheckChainForKeyUsage(ch, usages))
  IN  IF built.err # OK THEN Fails(built.err)
      ELSE IF good = <<>> THEN Fails("IncompatibleUsage")
      ELSE [chains |-> good, err |-> OK]

Verify(cert, opts) ==
  LET valid == IsValid(cert, "leaf", <<>>, opts)
  IN  IF valid # OK THEN Fails(valid)
      ELSE IF opts.dnsName # None /\ ~VerifyHostname(cert, opts.dnsName) THEN Fails("Hostname")
      ELSE WithUsage(IF cert \in ToSet(opts.roots) THEN [chains |-> <<<<cert>>>>, err |-> OK]
                     ELSE BuildChains(<<cert>>, <<>>, 0, opts), opts)
=============================================================================
