------------------------------ MODULE FetcherMC ------------------------------
(* Small instances of Fetcher for TLC.                                      *)
EXTENDS Fetcher

\* One-off and continuous fetches from the first or a later entry, to the end
\* of the tree (EndIndex 0), inside it or past it.
AllOptions ==
  [StartIndex : {0, 1}, EndIndex : {0, 2, MaxTree + 1}, Continuous : BOOLEAN]

ContinuousOptions ==
  {[StartIndex |-> 1, EndIndex |-> 0, Continuous |-> TRUE]}
=============================================================================
