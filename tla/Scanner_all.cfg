CONSTANTS
  Log <- MCLog
  Options <- MCOptions
  FetchWorkers = {w1, w2}
  Matchers = {m1, m2}
  BufferSize = 1
  BatchSize = 2
SPECIFICATION Spec
INVARIANTS ScanExact
PROPERTIES ScanReturns
CHECK_DEADLOCK FALSE
