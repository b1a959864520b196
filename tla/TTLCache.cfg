SPECIFICATION FairCacheSpec
CONSTANTS
  CacheKeys = {list, hub1}
  Values = {v1, v2}
  TTL = 2
  MaxTime = 6
  Absent = Absent
INVARIANT CacheTypeOK
PROPERTY IsTTLMap
PROPERTY DeadAreSwept
