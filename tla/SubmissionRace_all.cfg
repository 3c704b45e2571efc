SPECIFICATION FairSpec
CONSTANTS
  g1 = g1
  n1 = n1
  Google = Google
  Other = Other
  NoPolicy = NoPolicy
  Logs = {g1, n1}
  Groups <- EitherGroups
  GroupLogs <- EitherLogs
  MinInclusions <- EitherMin
  Delay <- EitherDelay
  MaxClock = 2
INVARIANTS SCTsCounted NoErrorMeansPolicyMet CancelledExactly
PROPERTY AllGoroutinesEnd
