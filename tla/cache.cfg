CONSTANTS
  i1 = i1
  i2 = i2
  i3 = i3
  v1 = v1
  v2 = v2
  r1 = r1
  r2 = r2
  Id = {i1, i2, i3}
  Content = {v1, v2}
  Reference = {r1, r2}
  RefetchLimit = 1
  MaxRow = 2
  Call = {"c1", "c2", "c3"}
  ModelOf <- SomeModelOf
  At <- SomeAt
  Fast = {"c2"}
  Revision = {1, 2, 3}
  Rules <- SomeRules
  Repriced <- SomeRepriced
  Catalogs <- SomeCatalogs
  Unpriced = Unpriced
  Never = 0
  MaxFloor = 1
SYMMETRY IdSymmetry
SPECIFICATION StoreSpec
INVARIANT CacheCoherent AmountsExplained
PROPERTY ReadsAreCurrent SettledOnce
