SPECIFICATION FairSpec
CONSTANTS
  s1 = s1
  s2 = s2
  Options <- Endless
  Submitters = {s1}
  ParallelFetch = 2
  BatchSize = 2
  ChannelSize = 0
  MaxTree = 2
  MaxLag = 0
  MaxFailures = 1
  MaxLosses = 0
PROPERTY RunKeepsUp
