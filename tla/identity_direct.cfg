CONSTANTS
  Local = {}
  Direct = {d}
  Endpoints = {e, f}
  CacheWindow = cachewin
  t1 = t1
  t2 = t2
  k = k
  r = r
  Credentials = {t1, t2, k}
  Refs = {r}
  Ref <- MCRef
  None = None
  FreshFor = 0
  Retention = 1
  MaxClock = 2
  MaxTurns = 1
  MaxMishaps = 1
  MaxRestarts = 0
SPECIFICATION Spec
SYMMETRY MCSymmetry
INVARIANT AnalysisIsOwn
