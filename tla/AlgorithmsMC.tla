---------------------------- MODULE AlgorithmsMC ----------------------------
(* The sequential parts of the system, each on its own bounded inputs: a    *)
(* behaviour is one of a range Tracker, one of a LogGroupInfo, a chain of   *)
(* certificates that grows (ChainCases), or a single state that holds a     *)
(* certificate's dates and a log list for CTPolicy.                         *)
EXTENDS LogGroup, RangeTracker

CONSTANTS Other,
          MaxChainSignatureChecks, MaxConstraintComparisons, None, MaxSubmission, MaxPool

VARIABLES part,                                  \* which of them it is
          chain, roots, web                      \* ChainCases

C == INSTANCE ChainCases

chainVars   == <<chain, roots, web>>
vars        == <<part, trackerVars, groupVars, certVars, chainVars>>

Dates == [y : {2019, 2020}, m : 1 .. 12, d : 1 .. 3]
LogLists == UNION {[S -> {Google, Other}] : S \in SUBSET AllLogs}

\* Months a year apart, for the log lists; all dates, for one log list.
CTInputs == {<<[y |-> 2019, m |-> 1, d |-> 2], [y |-> y, m |-> m, d |-> 2], l>> :
               y \in 2019 .. 2023, m \in {1, 4}, l \in LogLists}
            \cup {<<a, b, <<>>>> : a, b \in Dates}

NoTracker == start = 0 /\ end = 0 /\ subRanges = <<>> /\ wm = NoMarks
NoGroup   == logURLs = {} /\ minInclusions = 0 /\ logWeights = <<>>
NoCert    == notBefore = [y |-> 2019, m |-> 1, d |-> 1] /\ notAfter = notBefore /\ logList = <<>>
NoChain   == chain = <<>> /\ roots = <<>> /\ web = <<>>

Init ==
  \/ part = "tracker" /\ TrackerInit /\ NoGroup /\ NoCert /\ NoChain
  \/ part = "group" /\ GroupInit /\ NoTracker /\ NoCert /\ NoChain
  \/ part = "policy" /\ NoTracker /\ NoGroup /\ NoChain
     /\ \E c \in CTInputs : notBefore = c[1] /\ notAfter = c[2] /\ logList = c[3]
  \/ C!Init /\ NoTracker /\ NoGroup /\ NoCert

Next ==
  \/ part = "tracker" /\ TrackerNext /\ UNCHANGED <<part, groupVars, certVars, chainVars>>
  \/ part = "group" /\ GroupNext /\ UNCHANGED <<part, trackerVars, certVars, chainVars>>
  \/ C!Next /\ UNCHANGED <<trackerVars, groupVars, certVars>>

Spec == Init /\ [][Next]_vars

-----------------------------------------------------------------------------
\* ValidateChain accepts exactly the signed paths to a root of the log, at one of
\* add-chain and add-pre-chain (ChainCases says it in full).
AcceptsExactlyPaths == C!AcceptsExactlyPaths

\* A chain that Verify returns is signed, in date, and within every path length,
\* name constraint and key usage on it (ChainCases).
VerifySound == C!VerifySound

=============================================================================
