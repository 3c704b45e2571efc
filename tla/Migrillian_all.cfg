SPECIFICATION FairSpec
CONSTANTS
  s1 = s1
  s2 = s2
  Options <- AllOptions
  Submitters = {s1, s2}
  ParallelFetch = 2
  BatchSize = 2
  ChannelSize = 1
  MaxTree = 2
  MaxLag = 1
  MaxFailures = 1
  MaxLosses = 1
INVARIANT MigrationExact
PROPERTIES FetchEnds MirrorKeepsUp
