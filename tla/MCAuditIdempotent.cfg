CONSTANTS
  api = api
  cli = cli
  k1 = k1
  k2 = k2
  Callers <- MCCallers
  ApiCallers <- MCApiCallers
  Keys = {k1, k2}
  NoKey = NoKey
  NoReport = NoReport
  Forces = {FALSE}
  MaxAttempts = 2
  MaxRuns = 3
SYMMETRY MCSymmetry
SPECIFICATION Spec
INVARIANT
  DefaultRunsShareOneExecution
CHECK_DEADLOCK FALSE
