SPECIFICATION FairSpec
CONSTANTS
  a = a
  b = b
  bad = bad
  ra = ra
  rb = rb
  v1 = v1
  Logs = {a, b, bad}
  Buildable = {a, b}
  Lists <- AllLists
  Accepts <- Roots
  CARoots = {ra, rb}
  Chains <- AllChains
  Requests = {r1}
  MaxPublish = 2
INVARIANT AcceptingLogsTried
PROPERTIES NeverOlderList ProxyConverges
