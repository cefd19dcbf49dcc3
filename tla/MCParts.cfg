SPECIFICATION PartsSpec
CONSTANTS
  MaxText = 9
  Windows <- ChunkWindows
  MaxTasks = 3
  Workers = {1, 2}
  Categories = {"x", "y"}
  Texts = {"a", "b", "c"}
  Similar <- SimilarTexts
  Threads = {t1, t2}
  MaxPools = 3
  Paths = {p1, p2}
  Bodies = {b0, b1, b2}
  Blank = {b0}
  Absent = Absent
  Broken = Broken
  Indexers = {i1, i2}
  Lookups = {l1}
  MaxEdits = 2
  c1 = c1
  c2 = c2
  c3 = c3
  c4 = c4
  Cells = {c1, c2, c3, c4}
  CellTexts = {"a"}
  Empty = Empty
  Batches <- IngestBatches
  Ingests = {r1, r2}
  MaxRetries = 1
  MaxChanges = 2
  Alerts = {a1}
  Names = {"ann", "anna", "anya", "an.na", "vera", "zed"}
  AliasMap <- AliasFile
  KeyOf <- MatchKeys
  Score <- Similarity
  Threshold = 85
  Processes = {n1, n2}
  TaskIds = {k1, k2}
  LastDay = 4
  WindowDays = 2
  Priors <- MethodPriors
  Others = {"other"}
  Durations = {0, 7, 90}
  PriorWeight = 2
  MaxCents = 8000
  MaxUpdates = 3
  CostRuns = {1, 2}
  CostReports = {rep1, rep2}
  rep1 = rep1
  rep2 = rep2
  NoDay = NoDay
  NoUsageReport = NoUsageReport
  CostDays = 4
  LiveDays = {4}
  PastCosts <- CostsBefore
  Usage <- ReportUsage
  NoUsage = NoUsage
  Rollups = {w1, w2}
  States = {1, 2}
  Trust <- StateTrust
  GhostHours <- StateGhost
  NoneRatio <- StateNone
  VagueRatio <- StateVague
  CrewOutputs <- CrewSays
  MaxTries = 2
  MaxRefreshes = 2
  NRows = 4
  Columns <- BoardDays
  FirstColumns <- BoardColumns
  Weeks = {"w1", "w2"}
  ValidWeek <- BoardCalendar
  HeaderOffset = 1
  YearOffsets <- BoardOffsets
  DateColumn = 10
  MaxHeaders = 2
  YearRow = 3
  BoardYears = {1, 2}
  DiffTables = {"raw", "cycles", "audits"}
  RefCount <- ReferenceCounts
  RowCounts = {0, 19, 20, 21, 22}
  Tolerance = 5
  NotANumber = NotANumber
  Units = {u1, u2}
  SheetCells = {s1, s2}
  WorkDates = {d1, d2}
  NoLine = NoLine
  Parsers = {q1, q2}
  MaxIngests = 1
  Lines = {1, 2}
  Derived = {2}
  TimeSource <- LineSource
  MaxRowIds = 2
  MaxConfirms = 1
  Assessors = {e1, e2}
INVARIANTS
  TextCovered
  MergedAsDefined
  OnePoolWhileServing
  LostOnlyToShutdown
  ChunksMatchArticles
  AnswersAreWhole
  IngestedExactly
  ExitCodeTruthful
  LogMatchesChats
  EmployeesStable
  NormsBetweenExtremes
  TotalsOfOneMoment
  BoardReadOnce
  GoAheadTruthful
  ConfirmationsHold
PROPERTIES
  ChunkingEnds
  RunLeavesIndexFresh
  RunsStayCounted
  ReportsShowTheDay
  YearCellsPinDates
  OverlapHeals
  ConfirmingNeverCosts
CHECK_DEADLOCK FALSE
