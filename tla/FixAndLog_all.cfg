SPECIFICATION Spec
CONSTANTS
  None = None
  Hash <- MCHash
  FixResult <- MCFixResult
  Callers = {1, 2}
  Fixers = {f1, f2}
  Posters = {p1, p2}
  Certificates <- MCCertificates
  Input <- MCInput
  URLs <- MCURLs
  Refused <- MCRefused
INVARIANTS EachLoggedOnce ClosedLast
PROPERTIES WaitReturns
CHECK_DEADLOCK FALSE
