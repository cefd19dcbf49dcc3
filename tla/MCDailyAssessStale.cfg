CONSTANTS
  timer = timer
  manual = manual
  timed = timed
  plain = plain
  None = None
  NEmployees = 1
  NDays = 1
  Width = 1
  Texts <- MCTexts
  Timed <- MCTimed
  Priors <- MCPriors
  Timer <- timer
  Manuals <- MCNoManual
  WindowDays = 2
  MaxFaults = 0
SPECIFICATION Spec
PROPERTY
  NoStaleCycles
CHECK_DEADLOCK FALSE
