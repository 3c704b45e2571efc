CONSTANTS
  r1 = r1
  r2 = r2
  Requests = {r1, r2}
  None = None
  Clients <- MCClients
  Deadline <- MCDeadline
  Answers <- MCAnswers
  Configs <- MCConfigs
  Chains <- MCChains
  Roots <- MCRoots
  MaxTime = 4
  Verifier = TRUE
  MaxMultiplier = 2
SPECIFICATION Spec
INVARIANTS HonoursRetryAfter AnswersAsOneLog
PROPERTIES CallsEnd
CHECK_DEADLOCK FALSE
