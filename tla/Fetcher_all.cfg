SPECIFICATION FairSpec
CONSTANTS
  Workers = {w1, w2}
  BatchSize = 2
  MaxTree = 4
  Options <- AllOptions
INVARIANTS FetchExact
PROPERTIES ImplementsStream RunTerminates KeepsUp
