------------------------------ MODULE FixChain ------------------------------
(***************************************************************************)
(* fixchain: Fix, which looks for chains from a certificate to the roots   *)
(* of a log, and if the given chain is not enough follows the URLs of      *)
(* issuers (AIA) in the certificates.                                      *)
(*                                                                         *)
(* The web maps a URL to the certificates it serves, of which there can be *)
(* several only for the URLs with a replacement, and to OK or one of the   *)
(* errors of getIntermediates.                                             *)
(***************************************************************************)
EXTENDS CertChains

CONSTANTS
  MaxChainLength,   \* maxChainLength
  Hash(_),          \* hash of a certificate
  Before(_, _)      \* bytes.Compare(a.Raw, b.Raw) < 0

-----------------------------------------------------------------------------
(* fix.go.                                                                  *)

AddCertToFront(chain, cert) == IF cert \in ToSet(chain) THEN chain ELSE <<cert>> \o chain

\* The options of handleChain: only the checks of dates are disabled.
FixOptions(roots, intermediates) ==
  [roots |-> roots, intermediates |-> intermediates, now |-> 0, dnsName |-> None,
   checkTime |-> FALSE, checkCritical |-> TRUE, checkEKU |-> TRUE, checkPathLen |-> TRUE,
   checkConstraints |-> TRUE, checkNames |-> TRUE, usages |-> {AnyUsage}]

\* augmentIntermediates and getIntermediates, for a search that ends with the
\* first chains found: st = [pool, seen, chains, errors, fetched].
RECURSIVE AugmentIntermediates(_, _, _, _, _, _)
AugmentIntermediates(st, cert, length, target, roots, web) ==
  LET pool  == NewPool(Append(st.pool, cert))
      added == [st EXCEPT !.seen = @ \cup {Hash(cert)}, !.pool = pool,
                          !.chains = Verify(target, FixOptions(roots, pool)).chains]
      explore(s, icert) == IF s.chains # <<>> THEN s
                           ELSE AugmentIntermediates(s, icert, length + 1, target, roots, web)
      follow(s, url) ==
        IF s.chains # <<>> THEN s
        ELSE IF web[url].err # OK
        THEN [s EXCEPT !.errors = Append(@, <<web[url].err, target, url>>)]
        ELSE FoldLeft(explore, [s EXCEPT !.fetched = @ \cup {url}], web[url].certs)
  IN  IF length > MaxChainLength \/ Hash(cert) \in st.seen THEN st
      ELSE FoldLeft(follow, added, cert.aia)

\* Without chains the search has failed.
Searched(done, cert) ==
  IF done.chains # <<>> THEN done ELSE [done EXCEPT !.errors = Append(@, <<"FixFailed", cert, None>>)]


\* fixChain: a search from each certificate of the chain that no search before
\* it has seen.  Explored certificates are found by their hash, which names
\* the last certificate of the chain that has it.
FixFromChain(cert, chain, roots, web) ==
  LET dchain == AddCertToFront(chain, cert)
      lookup(h) == CHOOSE i \in 1 .. Len(dchain) : /\ Hash(dchain[i]) = h
                     /\ \A j \in i + 1 .. Len(dchain) : Hash(dchain[j]) # h
      explore(found) == [found EXCEPT !.explored = @ \cup {lookup(h) : h \in found.seen \cap {Hash(c) : c \in ToSet(dchain)}}]
      from(st, i) ==
        IF st.chains # <<>> \/ i \in st.explored THEN st
        ELSE explore(AugmentIntermediates([st EXCEPT !.seen = {}], dchain[i], 1, cert, roots, web))
  IN  Searched(FoldLeft(from, [pool |-> chain, seen |-> {}, explored |-> {}, chains |-> <<>>,
                               errors |-> <<>>, fetched |-> {}], [i \in 1 .. Len(dchain) |-> i]), cert)

\* Fix, handleChain and constructChain.
Fixed(cert, verified, fixed) ==
  IF verified.err = OK THEN [chains |-> verified.chains, errors |-> <<>>, fetched |-> {}]
  ELSE [chains |-> fixed.chains, fetched |-> fixed.fetched,
        errors |-> <<<<"VerifyFailed", cert, None>>>> \o fixed.errors]
HandleChain(cert, chain, roots, web) ==
  Fixed(cert, Verify(cert, FixOptions(roots, chain)), FixFromChain(cert, chain, roots, web))

-----------------------------------------------------------------------------
(* fixer.go.                                                                *)

\* chainSlice.Less.
Less(a, b) ==
  LET shorter == IF Len(a) < Len(b) THEN Len(a) ELSE Len(b)
      differ == {k \in 1 .. shorter : a[k] # b[k]}
      first == CHOOSE k \in differ : \A j \in differ : k <= j
  IN  IF differ = {} THEN Len(a) < Len(b) ELSE Before(a[first], b[first])

\* removeSuperChains: sort, and keep each chain that does not continue the one
\* kept last.
RemoveSuperChains(chains) ==
  FoldLeft(LAMBDA kept, ch : IF kept # <<>> /\ IsPrefix(Last(kept), ch) THEN kept ELSE Append(kept, ch),
           <<>>, SortSeq(chains, Less))
=============================================================================
