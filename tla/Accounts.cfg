SPECIFICATION Spec
CONSTANTS
  Handler = {h1, h2}
  Account = {a0, a1, a2, a3}
  a0 = a0
  a1 = a1
  a2 = a2
  a3 = a3
  Dept = {d1, d2, d3}
  d1 = d1
  d2 = d2
  d3 = d3
  Key = {k1, k2, k3}
  k1 = k1
  k2 = k2
  k3 = k3
  Token = {t0, t1, t2}
  t0 = t0
  t1 = t1
  t2 = t2
  None = None
  Gone = Gone
  MaxKeys = 1
  MaxFailCount = 2
  InitialLockTime = 1
  MaxLockTime = 2
  TokenLife = 2
  Workloads <- MCWorkloads
  InitialUsers <- MCUsers
  InitialDepartments <- MCDepartments
  InitialKeys <- MCKeys
  InitialTokens <- MCTokens
  MaxRequests = 4
  MaxTicks = 2
  MaxFaults = 1
SYMMETRY Symmetry
INVARIANTS
  GuessesAreBounded
  KeysOvershootIsBounded
PROPERTIES
  LoggedOutStaysOut
  LiveUsersStay
  OnlyRacersAreOrphaned
CHECK_DEADLOCK FALSE
