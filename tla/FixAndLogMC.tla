---------------------------- MODULE FixAndLogMC ----------------------------
(* A certificate a of an authority that has a certificate x under the root  *)
(* r and is itself a root s, and a certificate b that is queued without an  *)
(* issuer and names a URL for it.  FixChain finds the chains.               *)
EXTENDS FixAndLog

Cert(name, key, issuer, aia) ==
  [name |-> name, subject |-> key, issuer |-> issuer, key |-> key, signer |-> issuer,
   skid |-> None, akid |-> None, version |-> 3, bc |-> TRUE, ca |-> TRUE, certSign |-> TRUE,
   maxPathLen |-> -1, notBefore |-> 1, notAfter |-> 3, critical |-> {}, cn |-> None,
   sans |-> None, permitted |-> <<>>, excluded |-> <<>>, constrained |-> FALSE, ekus |-> {},
   aia |-> aia]

Certs == <<Cert("a", "A", "X", <<>>), Cert("b", "B", "W", <<"u">>), Cert("x", "X", "R", <<>>),
           Cert("w", "W", "R", <<>>), Cert("r", "R", "R", <<>>), Cert("s", "X", "X", <<>>)>>
Index(name) == CHOOSE i \in DOMAIN Certs : Certs[i].name = name
Named(name) == Certs[Index(name)]

\* hash: newHash().Sum(c.Raw) is the encoded certificate with a constant
\* appended, of which the first 32 bytes are kept.  Those of a and b are alike.
MCHash(name) == IF name \in {"a", "b"} THEN "prefix" ELSE name

F == INSTANCE FixChain WITH
       MaxChainLength <- 20, MaxChainSignatureChecks <- 100, MaxConstraintComparisons <- 10,
       Hash <- LAMBDA c : MCHash(c.name), Before <- LAMBDA c, d : Index(c.name) < Index(d.name)

MCURLs == {"u"}
MCCertificates == {Certs[i].name : i \in DOMAIN Certs}
MCInput == <<<<[all |-> TRUE, chain |-> <<"a", "x">>]>>,
             <<[all |-> TRUE, chain |-> <<"x", "a", "a">>], [all |-> FALSE, chain |-> <<"b">>]>>>>
MCRefused == {<<"a", "x", "r">>, <<"a", "s">>}

Names(chain) == [i \in DOMAIN chain |-> chain[i].name]
Found(name, dchain, down) ==
  LET fix == F!HandleChain(Named(name), [i \in DOMAIN dchain |-> Named(dchain[i])],
                           <<Named("r"), Named("s")>>,
                           [u \in MCURLs |-> IF u \in down THEN [certs |-> <<>>, err |-> "CannotFetchURL"]
                                             ELSE [certs |-> <<Named("w")>>, err |-> F!OK]])
      chains == F!RemoveSuperChains(fix.chains)
  IN  [chains |-> [i \in DOMAIN chains |-> Names(chains[i])], fetched |-> fix.fetched,
       errors |-> [i \in DOMAIN fix.errors |-> <<fix.errors[i][1], name, fix.errors[i][3]>>]]

\* The same as a table, for TLC.
Jobs == {"a", "x"} \X {<<"a", "x">>, <<"x", "a">>} \cup {<<"b", <<"b">>>>}
MCFixResult ==
  [q \in {<<j[1], j[2], down>> : j \in Jobs, down \in SUBSET MCURLs} |->
     CASE q[1] = "a" -> [chains |-> <<<<"a", "x", "r">>, <<"a", "s">>>>, fetched |-> {}, errors |-> <<>>]
       [] q[1] = "x" -> [chains |-> <<<<"x", "r">>>>, fetched |-> {}, errors |-> <<>>]
       [] q[1] = "b" /\ q[3] = {} ->
            [chains |-> <<<<"b", "w", "r">>>>, fetched |-> {"u"}, errors |-> <<<<"VerifyFailed", "b", None>>>>]
       [] q[1] = "b" /\ q[3] # {} ->
            [chains |-> <<>>, fetched |-> {},
             errors |-> <<<<"VerifyFailed", "b", None>>, <<"CannotFetchURL", "b", "u">>,
                          <<"FixFailed", "b", None>>>>]]

ASSUME FixResultTable ==
  \A q \in DOMAIN MCFixResult : MCFixResult[q] = Found(q[1], q[2], q[3])
=============================================================================
