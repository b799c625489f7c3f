CONSTANTS
  null = null
  junk = junk
  Null = null
  Junk = junk
  a1 = a1
  a2 = a2
  Account = {a1, a2}
  Published <- SomePublished
  Rosters <- SomeRosters
  FreshFor = 1
  Skew = 1
  Statistics <- SomeStatistics
  Costs <- SomeCosts
  Tolerance = 1
  TableRows = 1
  o1 = o1
  o2 = o2
  Owner = {o1, o2}
  Holdings <- SomeHoldings
  PeriodHours <- SomePeriodHours
  CapacityHours <- SomeCapacityHours
  SpanSlack = 1
  Covered = 2
  HalfUlps = 16
  StopAfter <- Stops
  extless = extless
  cut = cut
  Truncated = cut
  Extensionless = extless
  Leftover = "old.js"
  Compiled <- SomeCompiled
  Copied <- SomeCopied
  MaxRevision = 2
  Poll = 2
  MaxBackoff = 30
  AuthCooldown = 30
  Failures <- MCFailures
  Floors <- MCFloors
  nobody = nobody
  Nobody = nobody
  LastPort = 2
SPECIFICATION FiguresSpec
INVARIANTS
  ReasonExplains
  WordMatchesSpan
  PublishedAgrees
  NeedIsLeast
  PassIsWhole
  EmbedWhole
  LoopMatchesTable
  PassIsOfThisBuild
CHECK_DEADLOCK FALSE
