CONSTANTS
  a1 = a1
  e1 = e1
  e2 = e2
  d1 = d1
  d2 = d2
  c1 = c1
  c2 = c2
  Account = {a1}
  Endpoint = {e1}
  Cred = {d1, d2}
  NoCred = NoCred
  Collector = {c1}
  Limit = 1
  Poll = 1
  MaxBackoff = 3
  AuthCooldown = 3
  RetryAfter = {0}
  MaxFailures = 3
  MaxReplaces = 1
  MaxRestarts = 1
  Unbuildable <- NoneUnbuildable
SPECIFICATION Spec
PROPERTY RestartKeepsBackoff
