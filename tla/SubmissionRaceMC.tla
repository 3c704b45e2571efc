-------------------------- MODULE SubmissionRaceMC --------------------------
(* Small instances of SubmissionRace for TLC: the groups, minimal numbers   *)
(* and delays are what CTPolicy computes for a certificate of the given     *)
(* lifetime.                                                                *)
EXTENDS CTPolicy, SubmissionRace

CONSTANTS g1, n1, Other

\* A certificate valid for a year: two SCTs in all.
Year == LifetimeInMonths([y |-> 2019, m |-> 3, d |-> 9], [y |-> 2020, m |-> 3, d |-> 8])

\* A policy's groups, minimal numbers and delays.
GroupLogsOf(p) == [g \in DOMAIN p |-> p[g].logs]
MinOf(p)       == [g \in DOMAIN p |-> p[g].min]
DelayOf(p)     == [g \in DOMAIN p |->
                     [i \in 0 .. 9 |-> PostInterval(i, ParallelNums(p)[g])]]

\* Chrome's policy on one log of Google and one of another operator: one SCT
\* from each, two in all.
TwoLogs      == [l \in {g1, n1} |-> IF l = n1 THEN Other ELSE Google]
Chrome       == ChromeLogsByGroup(Year, TwoLogs)
ChromeGroups == DOMAIN Chrome
ChromeLogs   == GroupLogsOf(Chrome)
ChromeMin    == MinOf(Chrome)
ChromeDelay  == DelayOf(Chrome)

\* One SCT from Google's log and one from any log: the groups overlap, either
\* may be complete first, and one SCT may be enough for both.
Either       == [g \in {GoogleGroup, Base} |->
                   Group(TwoLogs, IF g = Base THEN {Google, Other} ELSE {Google}, 1)]
EitherGroups == DOMAIN Either
EitherLogs   == GroupLogsOf(Either)
EitherMin    == MinOf(Either)
EitherDelay  == DelayOf(Either)
=============================================================================
