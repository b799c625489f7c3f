CONSTANTS
  a1 = a1
  e1 = e1
  e2 = e2
  d1 = d1
  d2 = d2
  c1 = c1
  c2 = c2
  Account = {a1}
  Endpoint = {e1, e2}
  Cred = {d1}
  NoCred = NoCred
  Collector = {c1}
  Limit = 1
  Poll = 1
  MaxBackoff = 2
  AuthCooldown = 2
  RetryAfter = {0}
  MaxFailures = 2
  MaxReplaces = 0
  MaxRestarts = 0
  Unbuildable <- NoneUnbuildable
SPECIFICATION FairSpec
PROPERTY EventuallyRead
