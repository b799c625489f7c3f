CONSTANTS
  Local = {}
  Direct = {d}
  Endpoints = {e, f}
  CacheWindow = cachewin
  t1 = t1
  t2 = t2
  k = k
  r = r
  Credentials = {t1, t2, k}
  Refs = {r}
  Ref <- MCRef
  None = None
  FreshFor = 1
  Retention = 2
  MaxClock = 2
  MaxTurns = 0
  MaxMishaps = 0
  MaxRestarts = 0
SPECIFICATION Spec
PROPERTY FailedLookupKeepsAnalysis
