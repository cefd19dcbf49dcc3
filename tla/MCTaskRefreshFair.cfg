CONSTANTS
  timer = timer
  manual = manual
  Blank = Blank
  NoTask = NoTask
  NSheets = 2
  Width = 2
  NDays = 1
  Kinds = {"fine", "raises", "overflows"}
  Normalizers <- MCOneRun
  MaxCells = 2
  MaxRows = 1
  MaxErrors = 1
  MaxChanges = 2
  MaxFaults = 1
SPECIFICATION FairSpec
PROPERTIES
  OnlyParseRemovesRows
  BroughtUpToDate
CHECK_DEADLOCK FALSE
