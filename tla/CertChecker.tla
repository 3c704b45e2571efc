----------------------------- MODULE CertChecker -----------------------------
(***************************************************************************)
(* trillian/ctfe: which chains a log accepts.  ValidateChain checks the    *)
(* submitted certificate against the log's policy and asks x509 for chains *)
(* to the log's roots, one of which has to be the one submitted.  Last,    *)
(* the matcher of a scan that looks for entries that do not verify.        *)
(***************************************************************************)
EXTENDS CertChains

\* PEMCertPool.AppendCertsFromPEM: blocks that are no certificates are skipped,
\* one that does not parse ends it.  It succeeds if it found one certificate.
AppendCertsFromPEM(pool, blocks) ==
  LET bad   == {i \in 1 .. Len(blocks) : blocks[i].type = "bad"}
      read  == IF bad = {} THEN blocks ELSE SubSeq(blocks, 1, (CHOOSE i \in bad : \A j \in bad : i <= j) - 1)
      found == SelectSeq(read, LAMBDA b : b.type = "cert")
  IN  [pool |-> NewPool(pool \o [i \in 1 .. Len(found) |-> found[i].cert]),
       ok   |-> bad = {} /\ found # <<>>]

\* IsPrecertificate, for a poison extension that is absent, good or bad.
IsPrecertificate(cert) == CASE cert.poison = "none" -> "no" [] cert.poison = "good" -> "yes" [] OTHER -> "error"

\* The checks of ValidateChain before the verification; the bounds of NotAfter
\* may be None.
PolicyError(cert, log) ==
  LET expired == log.now > cert.notAfter
  IN  FirstError(<<
        <<log.notAfterStart # None /\ cert.notAfter < log.notAfterStart, "NotAfterTooEarly">>,
        <<log.notAfterLimit # None /\ cert.notAfter >= log.notAfterLimit, "NotAfterTooLate">>,
        <<log.acceptOnlyCA /\ ~cert.ca, "NotCA">>,
        <<log.rejectExpired /\ expired, "Expired">>,
        <<log.rejectUnexpired /\ ~expired, "Unexpired">>,
        <<cert.extensions \cap log.rejectExtIds # {}, "RejectedExtension">>,
        <<log.extKeyUsages # {} /\ cert.ekus \cap log.extKeyUsages = {}, "WrongEKU">>>>)

\* The lax options: CT is to observe certificates, not to police them.
LaxOptions(log, intermediates) ==
  [roots |-> log.roots, intermediates |-> intermediates, now |-> log.now, dnsName |-> None,
   checkTime |-> FALSE, checkCritical |-> FALSE, checkEKU |-> FALSE, checkPathLen |-> FALSE,
   checkConstraints |-> FALSE, checkNames |-> TRUE, usages |-> log.extKeyUsages]

\* A slip: a chain may have more certificates than the verified one.
ChainsEquivalentLonger(inChain, verified) == IsPrefix(inChain, verified) \/ IsPrefix(verified, inChain)

\* The root may be left out, nothing else.
ChainsEquivalent(inChain, verified) ==
  Len(inChain) \in {Len(verified), Len(verified) - 1} /\ IsPrefix(inChain, verified)

Refused(reason) == [chain |-> <<>>, err |-> reason]

\* The first verified chain that is the submitted one.
Compliant(chain, verified) ==
  LET good == SelectSeq(verified.chains, LAMBDA ch : ChainsEquivalent(chain, ch))
  IN  IF verified.err # OK THEN Refused(verified.err)
      ELSE IF good = <<>> THEN Refused("NoCompliantPath")
      ELSE [chain |-> good[1], err |-> OK]

\* ValidateChain, for a chain of certificates that parse.
ValidateChain(chain, log) ==
  LET policy == PolicyError(chain[1], log)
  IN  IF policy # OK THEN Refused(policy)
      ELSE Compliant(chain, Verify(chain[1], LaxOptions(log, NewPool(Tail(chain)))))

\* verifyAddChain: the chain must also be of the kind the endpoint is for.
OfKind(valid, precert, expectingPrecert) ==
  IF valid.err # OK THEN valid
  ELSE IF precert = "error" THEN Refused("BadPoison")
  ELSE IF (precert = "yes") # expectingPrecert THEN Refused("WrongEndpoint")
  ELSE valid
VerifyAddChain(chain, log, expectingPrecert) ==
  OfKind(ValidateChain(chain, log), IsPrecertificate(chain[1]), expectingPrecert)

-----------------------------------------------------------------------------
(* scanner: CertVerifyFailMatcher, which finds the entries of a log whose  *)
(* certificate does not verify.  An entry has a certificate or             *)
(* precertificate and the chain the log has stored with it.                *)

DropUnhandledExtension(cert, oid) == [cert EXCEPT !.critical = @ \ {oid}]

\* The chain of a precertificate as it is verified: policy constraints above
\* the issuer, and the issuer's right to sign only precertificates, are ignored.
PrecertChain(chain) ==
  [i \in 1 .. Len(chain) |->
     IF i = 1 THEN [chain[i] EXCEPT !.ekus = @ \ {"CertificateTransparency"}]
     ELSE DropUnhandledExtension(chain[i], "PolicyConstraints")]

\* Matches: verification just before the certificate expires fails.
VerifyFails(entry, roots) ==
  LET cert == IF entry.precert THEN DropUnhandledExtension(entry.cert, "CTPoison") ELSE entry.cert
      opts == [roots |-> roots, now |-> cert.notAfter - 1, dnsName |-> None,
               intermediates |-> NewPool(IF entry.precert THEN PrecertChain(entry.chain) ELSE entry.chain),
               checkTime |-> TRUE, checkCritical |-> TRUE, checkEKU |-> TRUE, checkPathLen |-> TRUE,
               checkConstraints |-> TRUE, checkNames |-> TRUE, usages |-> {AnyUsage}]
  IN  Verify(cert, opts).err # OK
=============================================================================
