CONSTANTS
  timer = timer
  manual = manual
  Blank = Blank
  NoTask = NoTask
  NSheets = 1
  Width = 2
  NDays = 2
  Kinds = {"fine", "raises"}
  Normalizers <- MCTwoRuns
  MaxCells = 2
  MaxRows = 2
  MaxErrors = 1
  MaxChanges = 2
  MaxFaults = 0
SYMMETRY MCSymmetry
SPECIFICATION Spec
INVARIANTS
  TypeOK
  SheetFromOneSnapshot
  NoDuplicateKeys
  WholeDays
PROPERTIES
  StoreSpec
CHECK_DEADLOCK FALSE
