CONSTANTS
  Retention = 2
  Day = 1
  Skew = 0
  CallTime = 0
  MaxLag = 1
  HistoryResetAt = 0
  MaxLines = 2
  MaxClock = 2
  MaxFiles = 1
  Mishaps = {}
  MaxMishaps = 0
  MaxReplays = 0
SPECIFICATION Spec
INVARIANT ThroughIsRead
CHECK_DEADLOCK FALSE
