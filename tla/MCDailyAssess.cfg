CONSTANTS
  timer = timer
  manual = manual
  timed = timed
  plain = plain
  None = None
  NEmployees = 2
  NDays = 1
  Width = 1
  Texts <- MCOneText
  Timed <- MCTimed
  Priors <- MCNoPriors
  Timer <- timer
  Manuals <- MCManual
  WindowDays = 2
  MaxFaults = 0
SPECIFICATION Spec
INVARIANTS
  AssessmentsSound
  NoGhostFromNothing
PROPERTY
  RunLeavesDateConsistent
CHECK_DEADLOCK FALSE
