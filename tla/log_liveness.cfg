CONSTANTS
  Retention = 2
  Day = 1
  Skew = 1
  CallTime = 0
  MaxLag = 1
  HistoryResetAt = 0
  MaxLines = 2
  MaxClock = 2
  MaxFiles = 2
  Mishaps = {}
  MaxMishaps = 0
  MaxReplays = 1
SPECIFICATION FairSpec
PROPERTY EventuallyCounted
CHECK_DEADLOCK FALSE
