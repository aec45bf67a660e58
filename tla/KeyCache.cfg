SPECIFICATION CacheSpec
CONSTANTS
  Request = {r1, r2}
  Admin = {a1, a2}
  CacheTTL = 2
  MaxStall = 1
  MayFail = TRUE
SYMMETRY Actors
PROPERTIES RevocationIsTimely RestorationIsTimely
