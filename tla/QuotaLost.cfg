SPECIFICATION QuotaSpec
CONSTANTS
  TokenCall = {r1, r2}
  MaxTokens = 2
  MaxCall = 1
  Period = 1
  Grace = 1
  MaxNow = 2
  MaxFailures = 0
SYMMETRY Calls
INVARIANT RecordedUsageCounts
