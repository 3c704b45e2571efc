CONSTANTS
  None = None
  Configs <- MCConfigs
  MinGetEntries = 1
  MaxGetEntries = 3
  MaxRetryDuration = 1
  MMD = 2
  SthCount = 2
  SctCount = 2
  InvalidStretch = 10
  MaxTime = 4
  MaxTree = 6
SPECIFICATION HammerSpec
INVARIANTS NoFalseAlarm
PROPERTIES KeptUntilProved
CHECK_DEADLOCK FALSE
