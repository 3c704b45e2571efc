SPECIFICATION Spec
CONSTANTS
  MaxIndex = 5
  MaxWeight = 1
  AllLogs = {l1, l2, l3, l4}
  Google = Google
  Other = Other
  NoPolicy = NoPolicy
  MaxChainSignatureChecks = 100
  MaxConstraintComparisons = 10
  None = None
  MaxSubmission = 3
  MaxPool = 3
INVARIANTS TrackerExact SessionReachesMinimum PolicyExact
           AcceptsExactlyPaths VerifySound 
CHECK_DEADLOCK FALSE
