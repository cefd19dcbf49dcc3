CONSTANTS
  api = api
  cli = cli
  k1 = k1
  k2 = k2
  Callers <- MCCallers
  ApiCallers <- MCApiCallers
  Keys = {k1, k2}
  NoKey = NoKey
  NoReport = NoReport
  Forces = {TRUE, FALSE}
  MaxAttempts = 2
  MaxRuns = 2
SPECIFICATION FairSpec
PROPERTIES
  EveryRunResolved
  LedgerSpec
CHECK_DEADLOCK FALSE
