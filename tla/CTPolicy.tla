------------------------------ MODULE CTPolicy ------------------------------
(***************************************************************************)
(* ctpolicy: how a certificate and the usable logs determine the groups of *)
(* logs from which SCTs must be collected (LogsByGroup), and how races.go  *)
(* splits the requests that start at once between the groups.              *)
(*                                                                         *)
(* A policy is a function from group names to [logs, min], or NoPolicy     *)
(* when the logs cannot satisfy it.  A log list is a function from log     *)
(* names to the operators that run them.                                   *)
(***************************************************************************)
EXTENDS Integers, FiniteSets, Functions

CONSTANTS NoPolicy,  \* LogsByGroup returned an error
          Google     \* the operator for which GoogleOperated() holds

Base          == "All-logs"
GoogleGroup   == "Google-operated"
NonGoogleGroup == "Non-Google-operated"

\* Whole months between two dates [y, m, d], flooring an incomplete month.
LifetimeInMonths(from, to) ==
  (to.y - from.y) * 12 + (to.m - from.m) - (IF to.d < from.d THEN 1 ELSE 0)

\* SCTs required from all logs together, by lifetime.
IncCount(months) == CASE months < 15        -> 2
                      [] months \in 15 .. 27 -> 3
                      [] months \in 28 .. 39 -> 4
                      [] OTHER              -> 5

\* A group of the logs whose operator is in ops.
Group(ll, ops, min) == [logs |-> {l \in DOMAIN ll : ll[l] \in ops}, min |-> min]

\* A slip: a group whose logs are all needed is refused.
OrErrorWhenFull(groups) ==
  IF \E g \in DOMAIN groups : groups[g].min >= Cardinality(groups[g].logs)
  THEN NoPolicy ELSE groups

\* setMinInclusions refuses more inclusions than the group has logs, and
\* LogsByGroup passes its error on.
OrError(groups) ==
  IF \E g \in DOMAIN groups : groups[g].min > Cardinality(groups[g].logs)
  THEN NoPolicy ELSE groups

Operators(ll) == {ll[l] : l \in DOMAIN ll}

ChromeLogsByGroup(months, ll) ==
  OrError([g \in {GoogleGroup, NonGoogleGroup, Base} |->
            CASE g = GoogleGroup    -> Group(ll, {Google}, 1)
              [] g = NonGoogleGroup -> Group(ll, Operators(ll) \ {Google}, 1)
              [] g = Base           -> Group(ll, Operators(ll), IncCount(months))])

AppleLogsByGroup(months, ll) ==
  OrError([g \in {Base} |-> Group(ll, Operators(ll), IncCount(months))])

\* The stub policy for pending and qualified logs.
PendingLogsByGroup(ll) == OrError([g \in {Base} |-> Group(ll, Operators(ll), 1)])

\* GroupByLogs: the groups each log belongs to.
GroupByLogs(groups) ==
  [l \in UNION {groups[g].logs : g \in DOMAIN groups} |->
     {g \in DOMAIN groups : l \in groups[g].logs}]

\* parallelNums: how many requests of each group start without delay; those
\* of the other groups count towards the base group's.
ParallelNums(groups) ==
  LET subsetSum == SumFunction([g \in DOMAIN groups \ {Base} |-> groups[g].min])
  IN  [g \in DOMAIN groups |->
         IF g # Base THEN groups[g].min
         ELSE IF groups[g].min >= subsetSum THEN groups[g].min - subsetSum ELSE 0]

\* postInterval: the delay, in intervals, of the request at a position.
PostInterval(idx, parallelStart) ==
  IF idx < parallelStart THEN 0 ELSE idx + 1 - parallelStart
=============================================================================
