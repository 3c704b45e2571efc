-------------------------- MODULE SubmissionProxyMC --------------------------
(* Small instances of SubmissionProxy for TLC.                              *)
EXTENDS SubmissionProxy, TLC

CONSTANTS a, b, bad, ra, rb, v1

List(usable, pending, parses) == [usable |-> usable, pending |-> pending, parses |-> parses]

\* Two lists that can be used, one with a usable log whose client cannot be
\* built, and one that does not parse.
AllLists == {List({a, b}, {}, TRUE), List({a}, {bad}, TRUE), List({bad}, {}, TRUE),
             List({}, {}, FALSE)}

TwoLists == {List({a, b}, {}, TRUE), List({a}, {}, TRUE)}

Roots == (a :> {ra}) @@ (b :> {rb, v1}) @@ (bad :> {ra})

\* Chains under roots that b accepts but a does not: a CA, and a version 1
\* certificate, for which IsCA is not set.
AllChains == {[root |-> r, fits |-> {a, b}] : r \in {rb, v1}}
=============================================================================
