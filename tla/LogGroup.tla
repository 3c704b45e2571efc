------------------------------- MODULE LogGroup -------------------------------
(***************************************************************************)
(* ctpolicy.LogGroupInfo: a group of logs with weights that decide which   *)
(* logs a submission session may contain.  A session holds the logs of     *)
(* positive weight, in random order.  And what the groups are made from: a *)
(* certificate's dates and a list of logs (CTPolicy).                      *)
(***************************************************************************)
EXTENDS CTPolicy

CONSTANTS AllLogs,    \* log URLs, those of other groups too
          MaxWeight   \* bound: weights told apart are 0 .. MaxWeight

VARIABLES logURLs,        \* LogGroupInfo.LogURLs
          minInclusions,  \* LogGroupInfo.MinInclusions
          logWeights,     \* LogGroupInfo.LogWeights
          notBefore, notAfter, logList  \* what LogsByGroup is called with

groupVars == <<logURLs, minInclusions, logWeights>>
certVars  == <<notBefore, notAfter, logList>>

\* populate and a successful setMinInclusions.
GroupInit ==
  /\ logURLs \in SUBSET AllLogs
  /\ minInclusions \in 0 .. Cardinality(logURLs)
  /\ logWeights = [l \in logURLs |-> 1]

\* A slip: logs of other groups count as well.
SatisfiedByAny(weights) ==
  Cardinality({l \in DOMAIN weights : weights[l] > 0}) >= minInclusions

\* satisfyMinimalInclusion: a positive weight must have been seen, even when
\* no inclusion is required.
SatisfyMinimalInclusion(weights) ==
  LET positive == {l \in DOMAIN weights \cap logURLs : weights[l] > 0}
  IN  positive # {} /\ Cardinality(positive) >= minInclusions

\* SetLogWeights, accepted: logs that are not mentioned lose their weight.
SetLogWeights(weights) ==
  /\ \A l \in DOMAIN weights : weights[l] >= 0
  /\ SatisfyMinimalInclusion(weights)
  /\ logWeights' = [l \in logURLs |-> IF l \in DOMAIN weights THEN weights[l] ELSE 0]
  /\ UNCHANGED <<logURLs, minInclusions>>

\* SetLogWeight, accepted.
SetLogWeight(l, w) ==
  /\ l \in logURLs
  /\ w >= 0
  /\ SatisfyMinimalInclusion([logWeights EXCEPT ![l] = w])
  /\ logWeights' = [logWeights EXCEPT ![l] = w]
  /\ UNCHANGED <<logURLs, minInclusions>>

\* A weight of -1 stands for the negative ones, which are refused.
GroupNext ==
  \/ \E S \in SUBSET AllLogs : \E weights \in [S -> -1 .. MaxWeight] : SetLogWeights(weights)
  \/ \E l \in AllLogs, w \in -1 .. MaxWeight : SetLogWeight(l, w)

\* The logs of a session (GetSubmissionSession).  A call is one step: the copy of
\* the weights is taken before the lock is, and SetLogWeights resets them in place,
\* so that two goroutines may not share a group; those of this repository build
\* theirs afresh for each submission.
Session == {l \in logURLs : logWeights[l] > 0}

\* After any sequence of accepted weights a session of the group can still
\* reach the minimal number of inclusions.
SessionReachesMinimum == Cardinality(Session) >= minInclusions

-----------------------------------------------------------------------------
\* Order of dates [y, m, d], and the same day some months later.
NotLater(a, b) == LET x == a.y * 12 + a.m
                      y == b.y * 12 + b.m IN x < y \/ (x = y /\ a.d <= b.d)
Later(a, months) == [a EXCEPT !.m = @ + months]

\* What Chrome asks of the logs S whose SCTs a certificate carries.
MeetsChrome(months, ll, S) ==
  /\ Cardinality(S) >= IncCount(months)
  /\ \E a, b \in S : ll[a] = Google /\ ll[b] # Google

\* LogsByGroup for a certificate's lifetime: lifetimeInMonths is the greatest
\* number of calendar months that fit between the two dates; a policy is refused
\* exactly when no set of the listed logs would meet it; and if it is not,
\* parallelNums makes Chrome's groups together start exactly as many requests at
\* once as the policy needs SCTs, and never more than a group has logs.
PolicyExact ==
  LET n    == LifetimeInMonths(notBefore, notAfter)
      p    == ChromeLogsByGroup(n, logList)
      nums == ParallelNums(p)
  IN  /\ NotLater(Later(notBefore, n), notAfter) /\ ~NotLater(Later(notBefore, n + 1), notAfter)
      /\ p = NoPolicy <=> ~\E S \in SUBSET DOMAIN logList : MeetsChrome(n, logList, S)
      /\ p # NoPolicy => /\ SumFunction(nums) = p[Base].min
                         /\ \A g \in DOMAIN p : nums[g] <= Cardinality(p[g].logs)
=============================================================================
