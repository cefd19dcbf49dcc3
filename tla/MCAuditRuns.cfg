CONSTANTS
  api = api
  cli = cli
  k1 = k1
  k2 = k2
  Callers <- MCCallers
  ApiCallers <- MCApiCallers
  Keys = {k1, k2}
  NoKey = NoKey
  NoReport = NoReport
  Forces = {TRUE, FALSE}
  MaxAttempts = 2
  MaxRuns = 3
SYMMETRY MCSymmetry
SPECIFICATION Spec
INVARIANTS
  TypeOK
  ReportsTraceable
  AnswersDurable
  CallsOwnTheirRows
PROPERTIES
  RowLifecycle
CHECK_DEADLOCK FALSE
