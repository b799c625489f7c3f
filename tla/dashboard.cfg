CONSTANTS
  Refresh = 1
  Timeout = 1
  Minute = 2
  FreshFor = 1
  MaxVersion = 1
  MaxRequests = 2
  p1 = p1
  p2 = p2
  Listed <- TwoListed
  Overview = Overview
  Gone = Gone
  Malformed = Malformed
  none = none
  Unseen = none
  Series <- SomeSeries
  Wide = 2
SPECIFICATION DashboardSpec
INVARIANTS
  ExpiredNotCurrent
  SilenceIsTold
  FocusReachable
  FocusKept
  HashNamesPage
  TipMatches
PROPERTIES
  NeverBackwards
  EventuallyCurrent
