SPECIFICATION CacheSpec
CONSTANTS
  Request = {r1}
  Admin = {a1}
  CacheTTL = 2
  MaxStall = 1
  MayFail = FALSE
INVARIANT StatusChangeIsImmediate
