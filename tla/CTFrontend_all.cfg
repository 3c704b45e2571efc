SPECIFICATION MCSpec
CONSTANTS
  Certs = {cert, precert}
  Precerts = {precert}
  Frontends = {f1}
  Requests = {r1, r2}
  NanosPerMilli = 2
  MaxNanos = 2
  Lag = 1
  MaxGetEntriesAllowed = 2
  MaxInt = 7
  MaxSize = 4
  None = None
INVARIANTS SCTsExact STHSound ReadsExact
PROPERTY SCTEventuallyIncluded
