CONSTANTS
  timer = timer
  manual = manual
  Blank = Blank
  NoTask = NoTask
  NSheets = 1
  Width = 1
  NDays = 1
  Kinds = {"fine", "raises"}
  Normalizers <- MCOneRun
  MaxCells = 1
  MaxRows = 1
  MaxErrors = 1
  MaxChanges = 2
  MaxFaults = 0
SPECIFICATION Spec
PROPERTY
  ParseRefreshesEverySheet
CHECK_DEADLOCK FALSE
