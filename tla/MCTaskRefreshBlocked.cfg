CONSTANTS
  timer = timer
  manual = manual
  Blank = Blank
  NoTask = NoTask
  NSheets = 2
  Width = 2
  NDays = 1
  Kinds = {"fine", "raises"}
  Normalizers <- MCOneRun
  MaxCells = 2
  MaxRows = 2
  MaxErrors = 1
  MaxChanges = 2
  MaxFaults = 0
SPECIFICATION FairSpec
PROPERTY
  SheetsIndependent
CHECK_DEADLOCK FALSE
