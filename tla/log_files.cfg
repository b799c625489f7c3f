CONSTANTS
  Retention = 1
  Day = 1
  Skew = 1
  CallTime = 0
  MaxLag = 1
  HistoryResetAt = 0
  MaxLines = 2
  MaxClock = 2
  MaxFiles = 2
  Mishaps = {"truncate", "garbage", "setback"}
  MaxMishaps = 1
  MaxReplays = 0
SPECIFICATION Spec
INVARIANT TypeOK ConsumedIsCounted ThroughIsRead CountedAboveFloor
PROPERTY ImplementsLedger
CHECK_DEADLOCK FALSE
