CONSTANTS
  timer = timer
  manual = manual
  timed = timed
  plain = plain
  None = None
  NEmployees = 1
  NDays = 2
  Width = 1
  Texts <- MCTexts
  Timed <- MCTimed
  Priors <- MCPriors
  Timer <- timer
  Manuals <- MCNoManual
  WindowDays = 2
  MaxFaults = 1
SPECIFICATION FairSpec
PROPERTIES
  TodayAssessed
CHECK_DEADLOCK FALSE
