----------------------------- MODULE ChainCases -----------------------------
(***************************************************************************)
(* Chains of certificates put together one by one, for the three users of  *)
(* x509.Verify: a log that validates a submission, a strict verification,  *)
(* and Fix with certificates found on the web; and lists of chains that a  *)
(* Fixer sends on.                                                         *)
(***************************************************************************)
EXTENDS CertChecker, FiniteSets

CONSTANTS MaxSubmission, MaxPool

VARIABLES part, chain, roots, web

F == INSTANCE FixChain WITH MaxChainLength <- 20, Hash <- LAMBDA c : c, Before <- LAMBDA a, b : a < b

-----------------------------------------------------------------------------
(* The certificates.  The names X, Y and Z are of authorities with one key  *)
(* each; key identifiers, where there are any, are right.                   *)

Cert == [subject |-> "L", issuer |-> "X", key |-> "L", signer |-> "X", skid |-> None,
         akid |-> None, version |-> 3, bc |-> TRUE, ca |-> FALSE, certSign |-> TRUE,
         maxPathLen |-> -1, notBefore |-> 1, notAfter |-> 3, critical |-> {}, cn |-> None,
         sans |-> None, permitted |-> <<>>, excluded |-> <<>>, constrained |-> FALSE,
         ekus |-> {}, poison |-> "none", extensions |-> {}, aia |-> <<>>]

Issued(subject, issuer) ==
  [Cert EXCEPT !.subject = subject, !.key = subject, !.issuer = issuer, !.signer = issuer,
               !.ca = subject # "L"]

\* What a log is given: forged signatures, certificates that are no CAs, and
\* certificates with key identifiers.
Forged(c) == {[c EXCEPT !.signer = s, !.ca = ca] : s \in {"X", "Y"}, ca \in BOOLEAN}
WithIds(c) == {c, [c EXCEPT !.skid = c.key, !.akid = c.signer]}
Submittable(first) ==
  UNION {Forged(Issued(s, i)) : s \in IF first THEN {"L", "X"} ELSE {"X", "Y"}, i \in {"X", "Y"}}
  \cup IF first THEN {[Issued("L", "X") EXCEPT !.poison = p, !.critical = {"CTPoison"}] : p \in {"good", "bad"}} ELSE {}

Block(c) == [type |-> "cert", cert |-> c]
LogRoots == {AppendCertsFromPEM(<<>>, <<Block(a), [type |-> "key"], Block(b)>>).pool : a \in WithIds(Issued("X", "X")),
                                 b \in {Issued("Y", "Y"), Issued("X", "Y"), Issued("X", "X")}}

Log == [roots |-> roots, now |-> 2, notAfterStart |-> None, notAfterLimit |-> None,
        acceptOnlyCA |-> FALSE, rejectExpired |-> FALSE, rejectUnexpired |-> FALSE,
        rejectExtIds |-> {}, extKeyUsages |-> {}]

\* For strict verification: names, dates, key usages and path lengths matter.
DNS(host) == [type |-> "dns", host |-> host, local |-> None]
Domain(labels, dot) == [type |-> "dns", labels |-> labels, leadingDot |-> dot, local |-> None]
Leaves == {[Issued("L", "X") EXCEPT !.sans = s, !.ekus = e] :
             s \in {None, <<DNS(<<"a", "com">>)>>, <<DNS(<<"www", "a", "com">>), DNS(<<"com">>)>>},
             e \in {{}, {"ClientAuth"}}}
          \cup {[Issued("L", "X") EXCEPT !.cn = h] : h \in {<<"a", "com">>, <<"a", "*">>}}
Limited(c) ==
  {[c EXCEPT !.maxPathLen = n] : n \in {-1, 0, 1}}
  \cup {[c EXCEPT !.constrained = TRUE, !.excluded = <<Domain(<<"com", "a">>, dot)>>] : dot \in BOOLEAN}
  \cup {[c EXCEPT !.constrained = TRUE, !.permitted = <<Domain(<<"com">>, TRUE)>>],
        [c EXCEPT !.notAfter = 1], [c EXCEPT !.ekus = {"ServerAuth"}], [c EXCEPT !.critical = {"PolicyConstraints"}]}
Intermediates == Limited(Issued("X", "Y")) \cup Limited(Issued("Y", "Z"))
                 \cup {Issued("Y", "X"), Issued("X", "Z"), Issued("Z", "Y")}
StrictRoots == {<<Issued("Z", "Z")>>, <<[Issued("Z", "Z") EXCEPT !.maxPathLen = 1]>>}

Strict(usage) == [F!FixOptions(roots, NewPool(Tail(chain))) EXCEPT
                    !.now = 2, !.checkTime = TRUE, !.usages = {usage}]

\* For Fix: any certificate may name the others' places on the web.
URLs == {"u", "v"}
Authorities == {[Issued(s, i) EXCEPT !.aia = a] :
                  s \in {"X", "Y"}, i \in {"X", "Y", "Z"}, a \in {<<>>, <<"v", "u">>}}
Served == {[certs |-> <<>>, err |-> "CannotFetchURL"]}
          \cup {[certs |-> <<c>>, err |-> OK] : c \in Authorities}

\* For the chains sent on: certificates are just numbers.
Chains == UNION {[1 .. n -> 1 .. 2] : n \in 1 .. 3}

-----------------------------------------------------------------------------
Init ==
  \/ /\ part = "log" /\ web = <<>>
     /\ roots \in LogRoots
     /\ \E c \in Submittable(TRUE) : chain = <<c>>
  \/ /\ part = "verify" /\ web = <<>>
     /\ roots \in StrictRoots
     /\ \E c \in Leaves : chain = <<c>>
  \/ /\ part = "fix" /\ roots = <<Issued("Z", "Z")>>
     /\ web \in [URLs -> Served]
     /\ \E a \in {<<>>, <<"u">>, <<"v", "u">>} : chain = <<[Issued("L", "X") EXCEPT !.aia = a]>>
  \/ part = "forward" /\ roots = <<>> /\ web = <<>> /\ chain = <<>>

Add(c) == chain' = Append(chain, c) /\ UNCHANGED <<part, roots, web>>

AddSubmitted == part = "log" /\ Len(chain) < MaxSubmission /\ \E c \in Submittable(FALSE) : Add(c)
AddIntermediate == part = "verify" /\ Len(chain) <= MaxPool /\ \E c \in Intermediates : Add(c)
AddAuthority == part = "fix" /\ Len(chain) < 2 /\ \E c \in Authorities : Add(c)
AddChain == part = "forward" /\ Len(chain) < 3 /\ \E c \in Chains : Add(c)

Next == AddSubmitted \/ AddIntermediate \/ AddAuthority \/ AddChain

-----------------------------------------------------------------------------
\* Every certificate of a path signed and names the one before it; all but the
\* first are CAs.
SignedPath(path) ==
  /\ IsInjective(path)
  /\ \A i \in 1 .. Len(path) - 1 :
       /\ path[i].signer = path[i + 1].key /\ path[i].issuer = path[i + 1].subject
       /\ path[i + 1].ca

\* ValidateChain accepts a submission exactly if it is a path signed and named
\* by CAs, in order and without gaps, to a root of the log that may be left out
\* or given.  (A root may itself be submitted, but nothing then follows it.)
\* It can then be added at exactly one of the two endpoints, unless it has a
\* bad poison extension; the chain returned is the submitted one to a root, and
\* a scan of the log's entries for invalid chains does not report it.
AcceptsExactlyPaths ==
  part = "log" =>
    LET toRoot(path) == SignedPath(path) /\ Last(path) \in ToSet(roots)
    IN  \A result \in {ValidateChain(chain, Log)} :
          /\ result.err = OK <=>
               IF chain[1] \in ToSet(roots) THEN Len(chain) = 1
               ELSE toRoot(chain) \/ \E r \in ToSet(roots) : toRoot(Append(chain, r))
          /\ \A p \in BOOLEAN : \A added \in {VerifyAddChain(chain, Log, p)} :
               /\ added.err = OK <=> result.err = OK /\ chain[1].poison = IF p THEN "good" ELSE "none"
               /\ added.err = OK =>
                    /\ toRoot(added.chain) /\ IsPrefix(chain, added.chain)
                    /\ ~VerifyFails([precert |-> p, cert |-> chain[1], chain |-> Tail(added.chain)], roots)

\* Every chain that Verify returns leads from the certificate to a root by
\* signatures, is within all the dates, has no more intermediates under a
\* certificate than it allows, no name that one of them excludes, not even one
\* in the common name only, and allows the wanted usage; whatever chains were
\* kept from other paths.
VerifySound ==
  part = "verify" =>
    \A usage \in {"ServerAuth", "ClientAuth"} :
      LET hosts == IF chain[1].sans = None THEN {} ELSE {n.host : n \in ToSet(chain[1].sans)}
          under(host, con) == \* con.labels are in reverse order
            /\ IsSuffix(Reverse(con.labels), host)
            /\ con.leadingDot => host # Reverse(con.labels)
      IN  \A result \in {Verify(chain[1], Strict(usage))} :
          /\ (result.err = OK) = (result.chains # <<>>)
          /\ \A path \in ToSet(result.chains) :
               /\ path[1] = chain[1] /\ Last(path) \in ToSet(roots) /\ SignedPath(path)
               /\ \A i \in 1 .. Len(path) :
                    /\ 2 \in path[i].notBefore .. path[i].notAfter /\ path[i].critical = {}
                    /\ path[i].ekus = {} \/ usage \in path[i].ekus
                    /\ path[i].maxPathLen >= 0 => i - 2 <= path[i].maxPathLen
                    /\ chain[1].sans = None /\ chain[1].cn = <<"a", "com">> => ~path[i].constrained
                    /\ \A host \in hosts :
                         /\ \A con \in ToSet(path[i].excluded) : ~under(host, con)
                         /\ path[i].permitted # <<>> =>
                              \E con \in ToSet(path[i].permitted) : under(host, con)

\* The certificates Fix can come to know: the given ones, and those served at
\* the URLs of a known one.
RECURSIVE Known(_)
Known(certs) ==
  LET next == certs \cup UNION {ToSet(web[u].certs) : u \in UNION {ToSet(c.aia) : c \in certs}}
  IN  IF next = certs THEN certs ELSE Known(next)


\* removeSuperChains: of the chains found, those that continue no other are
\* sent on, each once, whatever their order.
ForwardsShortest ==
  part = "forward" =>
    LET kept == F!RemoveSuperChains(chain)
    IN  /\ ToSet(kept) = {c \in ToSet(chain) : \A d \in ToSet(chain) \ {c} : ~IsPrefix(d, c)}
        /\ IsInjective(kept)
=============================================================================
