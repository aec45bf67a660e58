SPECIFICATION QuotaSpec
CONSTANTS
  TokenCall = {r1, r2, r3}
  MaxTokens = 2
  MaxCall = 2
  Period = 2
  Grace = 1
  MaxNow = 5
  MaxFailures = 1
SYMMETRY Calls
INVARIANTS UncontendedCycleIsExact OvershootIsBounded
PROPERTY IdleUserAdmitted
