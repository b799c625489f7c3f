CONSTANTS
  Local = {l}
  Direct = {}
  Endpoints = {e}
  CacheWindow = cachewin
  t1 = t1
  t2 = t2
  k = k
  r = r
  Credentials = {t1, t2, k}
  Refs = {r}
  Ref <- MCRef
  None = None
  FreshFor = 1
  Retention = 2
  MaxClock = 3
  MaxTurns = 2
  MaxMishaps = 1
  MaxRestarts = 1
SPECIFICATION Spec
SYMMETRY MCSymmetry
INVARIANT TypeOK OwnReadings WithinEpoch OneOpenEpoch BookedOnce
PROPERTY NumbersAreFresh
