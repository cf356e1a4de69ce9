CONSTANTS
  Models = {m1, m2}
  Objects = {o1, o2, o3, o4}
  MaxPoolCount = 2
  MaxCacheTime = 1
  MaxNow = 3
SPECIFICATION PoolSpec
INVARIANTS NoAlias OldestFirst
