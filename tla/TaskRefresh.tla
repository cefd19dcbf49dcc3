----------------------------- MODULE TaskRefresh -----------------------------
(***************************************************************************)
(* From sheet_cells to raw_tasks to tasks_normalized: the parse and the    *)
(* normalize runs (WorkAI/parse/runner.py, WorkAI/normalize/runner.py),    *)
(* separate processes that refresh their tables from snapshots taken in    *)
(* earlier transactions, against ingest and against each other.            *)
(*                                                                         *)
(* A slot is one cell of a sheet, with one task line; employees are left   *)
(* out. Transactions run at READ COMMITTED in two steps: the DELETE, which *)
(* locks the rows it sees, and the rest up to the COMMIT, which waits for  *)
(* rows another transaction locked and fails on a foreign or unique key.   *)
(***************************************************************************)
EXTENDS Naturals, FiniteSets

CONSTANTS
  NSheets, Width, NDays,  \* sheets, cells of a sheet, work dates
  Blank,                  \* no cell; no row
  NoTask,                 \* a cell parse_cells skips: headers, no date, no name
  Kinds,                  \* the kinds of task lines that occur
  Normalizers,            \* normalize runs that can overlap: timer and manual
  MaxCells,               \* parse.max_cells_per_sheet
  MaxRows,                \* normalize.max_rows_per_sheet
  MaxErrors,              \* normalize.max_errors_per_sheet
  MaxChanges,             \* bound: ingest writes that change a sheet
  MaxFaults               \* bound: crashes and database failures

ASSUME TaskRefreshAssumption ==
  /\ NSheets \in Nat /\ Width \in Nat /\ NDays \in Nat
  /\ MaxCells \in Nat \ {0} /\ MaxRows \in Nat \ {0} /\ MaxErrors \in Nat \ {0}
  /\ MaxChanges \in Nat /\ MaxFaults \in Nat
  /\ Kinds \subseteq {"fine", "raises", "overflows"}
  /\ Blank # NoTask
  /\ Blank \notin [day : 1 .. NDays, kind : Kinds]
  /\ NoTask \notin [day : 1 .. NDays, kind : Kinds]

VARIABLES
  cells,       \* sheet_cells
  raw,         \* raw_tasks, by the natural key
  norm,        \* tasks_normalized, by the natural key: the raw row it came from
  parser,      \* the parse run
  normalizer,  \* the normalize runs
  parsed,      \* history: the cells of each sheet at its last refresh
  changes, faults

vars == <<cells, raw, norm, parser, normalizer, parsed, changes, faults>>

Sheets == 1 .. NSheets
Days   == 1 .. NDays
Slots  == Sheets \X (1 .. Width)
Parts  == Sheets \X Days

\* A task line has a work date. The time in it is fine, or has too many digits
\* for int() in _normalize_sheet_rows, or too many minutes for the INTEGER column.
Task  == [day : Days, kind : Kinds]
Cell  == Task \union {Blank, NoTask}
Table == [Slots -> Task \union {Blank}]

SlotsOf(sh) == {s \in Slots : s[1] = sh}
NoRows      == [s \in Slots |-> Blank]

IdleParser     == [stage |-> "idle", cells |-> NoRows, todo |-> {},
                   target |-> {}, locked |-> {}]
IdleNormalizer == [stage |-> "idle", rows |-> NoRows, gone |-> {}, todo |-> {},
                   target |-> {}, locked |-> {}]

Parser     == [stage : {"idle", "sheet", "refresh"}, cells : [Slots -> Cell],
               todo : SUBSET Sheets, target : SUBSET Slots, locked : SUBSET Slots]
Normalizer == [stage : {"idle", "partition", "write"}, rows : Table,
               gone : SUBSET Slots, todo : SUBSET Parts,
               target : SUBSET Slots, locked : SUBSET Slots]

TypeOK ==
  /\ cells \in [Slots -> Cell]
  /\ raw \in Table
  /\ norm \in Table
  /\ parser \in Parser
  /\ normalizer \in [Normalizers -> Normalizer]
  /\ parsed \in [Slots -> Cell]
  /\ changes \in 0 .. MaxChanges
  /\ faults \in 0 .. MaxFaults

Init ==
  /\ cells = NoRows /\ raw = NoRows /\ norm = NoRows /\ parsed = NoRows
  /\ parser = IdleParser
  /\ normalizer = [p \in Normalizers |-> IdleNormalizer]
  /\ changes = 0 /\ faults = 0

-----------------------------------------------------------------------------
(* Row locks                                                               *)

LockedBy(q)     == IF q = "parser" THEN parser.locked ELSE normalizer[q].locked
LockedByOthers(p) ==
  UNION {LockedBy(q) : q \in (Normalizers \union {"parser"}) \ {p}}

-----------------------------------------------------------------------------
(* Ingest: one transaction replaces the cells of one range, here a sheet.  *)

IngestRange(sh, f) ==
  /\ changes < MaxChanges
  /\ cells' = [s \in Slots |-> IF s[1] = sh THEN f[s[2]] ELSE cells[s]]
  /\ cells' # cells
  /\ changes' = changes + 1
  /\ UNCHANGED <<raw, norm, parser, normalizer, parsed, faults>>

-----------------------------------------------------------------------------
(* run_parse                                                               *)

\* Mutant: every cell becomes a task line.
TaskSlotsUnfiltered(table, sh) == {s \in SlotsOf(sh) : table[s] # Blank}

TaskSlots(table, sh) == {s \in SlotsOf(sh) : table[s] \in Task}

\* The rows of a sheet dated in D.
Dated(table, sh, D) == {s \in TaskSlots(table, sh) : table[s].day \in D}

DaysOf(table, sh) == {table[s].day : s \in TaskSlots(table, sh)}

FilledSlots(sh) == {s \in SlotsOf(sh) : cells[s] # Blank}

\* All cells are read once; a sheet without cells is not visited at all.
ParseBegin ==
  /\ parser.stage = "idle"
  /\ parser' = [IdleParser EXCEPT
                  !.stage = "sheet", !.cells = cells,
                  !.todo = {sh \in Sheets : /\ FilledSlots(sh) # {}
                                            /\ Cardinality(FilledSlots(sh)) <= MaxCells}]
  /\ UNCHANGED <<cells, raw, norm, normalizer, parsed, changes, faults>>

FirstSheet(sh) == sh \in parser.todo /\ \A other \in parser.todo : sh <= other

\* Mutant: only the dates of the new rows are refreshed.
RefreshDaysParsed(sh) == DaysOf(parser.cells, sh)

RefreshDays(sh) == DaysOf(raw, sh) \union DaysOf(parser.cells, sh)

\* The transaction of a sheet opens and deletes the normalized rows in scope.
ParseDeleteNormalized(sh) ==
  /\ parser.stage = "sheet"
  /\ FirstSheet(sh)
  /\ LET target == Dated(norm, sh, RefreshDays(sh)) IN
     parser' = [parser EXCEPT !.stage = "refresh", !.target = target,
                              !.locked = target \ LockedByOthers("parser")]
  /\ UNCHANGED <<cells, raw, norm, normalizer, parsed, changes, faults>>

\* ON DELETE RESTRICT: no normalized row is left behind.
RawRowsFree(S) == \A s \in S : norm[s] = Blank \/ s \in parser.target

\* ... deletes the raw rows in scope, inserts the new ones, with new ids, and
\* commits; normalize runs keep the ids of the old rows.
ParseCommit(sh) ==
  LET old == Dated(raw, sh, RefreshDays(sh))
      new == TaskSlots(parser.cells, sh) IN
  /\ parser.stage = "refresh"
  /\ FirstSheet(sh)
  /\ parser.target \intersect LockedByOthers("parser") = {}
  /\ RawRowsFree(old)
  /\ \A s \in new : raw[s] = Blank \/ s \in old
  /\ raw' = [s \in Slots |-> IF s \in new THEN parser.cells[s]
                             ELSE IF s \in old THEN Blank ELSE raw[s]]
  /\ norm' = [s \in Slots |-> IF s \in parser.target THEN Blank ELSE norm[s]]
  /\ parsed' = [s \in Slots |-> IF s[1] = sh THEN parser.cells[s] ELSE parsed[s]]
  /\ parser' = [parser EXCEPT !.stage = "sheet", !.todo = @ \ {sh},
                              !.target = {}, !.locked = {}]
  /\ normalizer' = [p \in Normalizers |->
                      IF normalizer[p].stage = "idle" THEN normalizer[p]
                      ELSE [normalizer[p] EXCEPT !.gone = @ \union old,
                                                 !.target = @ \ parser.target]]
  /\ UNCHANGED <<cells, changes, faults>>

\* A normalize run committed rows that reference the old ones: the RESTRICT
\* error rolls the sheet back and ends the run.
ParseRestricted(sh) ==
  /\ parser.stage = "refresh"
  /\ FirstSheet(sh)
  /\ parser.target \intersect LockedByOthers("parser") = {}
  /\ ~RawRowsFree(Dated(raw, sh, RefreshDays(sh)))
  /\ parser' = IdleParser
  /\ UNCHANGED <<cells, raw, norm, normalizer, parsed, changes, faults>>

ParseEnd ==
  /\ parser.stage = "sheet"
  /\ parser.todo = {}
  /\ parser' = IdleParser
  /\ UNCHANGED <<cells, raw, norm, normalizer, parsed, changes, faults>>

-----------------------------------------------------------------------------
(* run_normalize                                                           *)

\* Mutant: a sheet that is too large ends the run.
NormalizeBeginBreaks(p) ==
  /\ normalizer[p].stage = "idle"
  /\ normalizer' = [normalizer EXCEPT ![p] =
                      [IdleNormalizer EXCEPT
                         !.stage = "partition", !.rows = raw,
                         !.todo = {part \in Parts :
                                     /\ Dated(raw, part[1], {part[2]}) # {}
                                     /\ \A sh \in 1 .. part[1] : Cardinality(TaskSlots(raw, sh)) <= MaxRows}]]
  /\ UNCHANGED <<cells, raw, norm, parser, parsed, changes, faults>>

\* All raw rows are read once, ids included, and grouped by sheet and date.
NormalizeBegin(p) ==
  /\ normalizer[p].stage = "idle"
  /\ normalizer' = [normalizer EXCEPT ![p] =
                      [IdleNormalizer EXCEPT
                         !.stage = "partition", !.rows = raw,
                         !.todo = {part \in Parts :
                                     /\ Dated(raw, part[1], {part[2]}) # {}
                                     /\ Cardinality(TaskSlots(raw, part[1])) <= MaxRows}]]
  /\ UNCHANGED <<cells, raw, norm, parser, parsed, changes, faults>>

Before(a, b) == a[1] < b[1] \/ (a[1] = b[1] /\ a[2] <= b[2])

FirstPart(p, part) ==
  /\ part \in normalizer[p].todo
  /\ \A other \in normalizer[p].todo : Before(part, other)

PartRows(p, part) == Dated(normalizer[p].rows, part[1], {part[2]})
GoodRows(p, part) == {s \in PartRows(p, part) : normalizer[p].rows[s].kind # "raises"}
BadRows(p, part)  == PartRows(p, part) \ GoodRows(p, part)

\* Mutant: no lock.
NeverLocked(part) == FALSE

\* pg_try_advisory_lock fails while another session holds the partition, that
\* is, from before its DELETE until after its COMMIT.
AdvisoryLocked(part) ==
  \E q \in Normalizers : normalizer[q].stage = "write" /\ FirstPart(q, part)

\* Too many failed rows end the run with a RuntimeError.
NormalizeLimit(p, part) ==
  /\ normalizer[p].stage = "partition"
  /\ FirstPart(p, part)
  /\ Cardinality(BadRows(p, part)) > MaxErrors
  /\ normalizer' = [normalizer EXCEPT ![p] = IdleNormalizer]
  /\ UNCHANGED <<cells, raw, norm, parser, parsed, changes, faults>>

NormalizeSkip(p, part) ==
  /\ normalizer[p].stage = "partition"
  /\ FirstPart(p, part)
  /\ Cardinality(BadRows(p, part)) <= MaxErrors
  /\ AdvisoryLocked(part)
  /\ normalizer' = [normalizer EXCEPT ![p].todo = @ \ {part}]
  /\ UNCHANGED <<cells, raw, norm, parser, parsed, changes, faults>>

\* Mutant: the DELETE forgets the sheet and takes the date of every sheet.
NormalizeDeleteDate(p, part) ==
  /\ normalizer[p].stage = "partition"
  /\ FirstPart(p, part)
  /\ Cardinality(BadRows(p, part)) <= MaxErrors
  /\ ~AdvisoryLocked(part)
  /\ LET target == UNION {Dated(norm, sh, {part[2]}) : sh \in Sheets} IN
     normalizer' = [normalizer EXCEPT ![p] =
                      [@ EXCEPT !.stage = "write", !.target = target,
                                !.locked = target \ LockedByOthers(p)]]
  /\ UNCHANGED <<cells, raw, norm, parser, parsed, changes, faults>>

\* The lock is taken and the DELETE of the partition runs.
NormalizeDelete(p, part) ==
  /\ normalizer[p].stage = "partition"
  /\ FirstPart(p, part)
  /\ Cardinality(BadRows(p, part)) <= MaxErrors
  /\ ~AdvisoryLocked(part)
  /\ LET target == Dated(norm, part[1], {part[2]}) IN
     normalizer' = [normalizer EXCEPT ![p] =
                      [@ EXCEPT !.stage = "write", !.target = target,
                                !.locked = target \ LockedByOthers(p)]]
  /\ UNCHANGED <<cells, raw, norm, parser, parsed, changes, faults>>

\* Mutant: a row with the same natural key is good enough.
RawKeysExist(p, S) == \A s \in S : raw[s] # Blank

\* The foreign key to raw_tasks: the rows read at the start still exist.
RawRowsExist(p, S) == S \intersect normalizer[p].gone = {}

\* duration_minutes is a 32 bit INTEGER.
InRange(p, S) == \A s \in S : normalizer[p].rows[s].kind # "overflows"

\* UNIQUE on the natural key, after the run's own DELETE.
KeysFree(p, S) == \A s \in S : norm[s] = Blank \/ s \in normalizer[p].target

NormalizeCommit(p, part) ==
  LET target == normalizer[p].target  good == GoodRows(p, part) IN
  /\ normalizer[p].stage = "write"
  /\ FirstPart(p, part)
  /\ target \intersect LockedByOthers(p) = {}
  /\ RawRowsExist(p, good)
  /\ KeysFree(p, good)
  /\ InRange(p, good)
  /\ norm' = [s \in Slots |-> IF s \in good THEN normalizer[p].rows[s]
                              ELSE IF s \in target THEN Blank ELSE norm[s]]
  /\ normalizer' = [q \in Normalizers |->
                      IF q = p
                      THEN [normalizer[p] EXCEPT !.stage = "partition",
                                                 !.todo = @ \ {part},
                                                 !.target = {}, !.locked = {}]
                      ELSE [normalizer[q] EXCEPT !.target = @ \ target]]
  /\ parser' = [parser EXCEPT !.target = @ \ target]
  /\ UNCHANGED <<cells, raw, parsed, changes, faults>>

\* A key or range error rolls the partition back, frees the lock, ends the run.
NormalizeRejected(p, part) ==
  /\ normalizer[p].stage = "write"
  /\ FirstPart(p, part)
  /\ normalizer[p].target \intersect LockedByOthers(p) = {}
  /\ LET good == GoodRows(p, part) IN
     ~(RawRowsExist(p, good) /\ KeysFree(p, good) /\ InRange(p, good))
  /\ normalizer' = [normalizer EXCEPT ![p] = IdleNormalizer]
  /\ UNCHANGED <<cells, raw, norm, parser, parsed, changes, faults>>

NormalizeEnd(p) ==
  /\ normalizer[p].stage = "partition"
  /\ normalizer[p].todo = {}
  /\ normalizer' = [normalizer EXCEPT ![p] = IdleNormalizer]
  /\ UNCHANGED <<cells, raw, norm, parser, parsed, changes, faults>>

-----------------------------------------------------------------------------
(* A crash or a database failure: the open transaction rolls back, the     *)
(* session's advisory lock is released and the run ends.                   *)

ParseFault ==
  /\ parser.stage # "idle"
  /\ faults < MaxFaults
  /\ parser' = IdleParser
  /\ faults' = faults + 1
  /\ UNCHANGED <<cells, raw, norm, normalizer, parsed, changes>>

NormalizeFault(p) ==
  /\ normalizer[p].stage # "idle"
  /\ faults < MaxFaults
  /\ normalizer' = [normalizer EXCEPT ![p] = IdleNormalizer]
  /\ faults' = faults + 1
  /\ UNCHANGED <<cells, raw, norm, parser, parsed, changes>>

-----------------------------------------------------------------------------
ParseStep ==
  \/ ParseBegin \/ ParseEnd
  \/ \E sh \in Sheets :
       ParseDeleteNormalized(sh) \/ ParseCommit(sh) \/ ParseRestricted(sh)

NormalizeStep(p) ==
  \/ NormalizeEnd(p)
  \/ \E part \in Parts :
       \/ NormalizeLimit(p, part) \/ NormalizeSkip(p, part)
       \/ NormalizeDelete(p, part) \/ NormalizeCommit(p, part)
       \/ NormalizeRejected(p, part)

Next ==
  \/ \E sh \in Sheets, f \in [1 .. Width -> Cell] : IngestRange(sh, f)
  \/ ParseStep \/ ParseFault
  \/ \E p \in Normalizers :
       NormalizeBegin(p) \/ NormalizeStep(p) \/ NormalizeFault(p)

\* The timers start parse and normalize again and again, and a run goes on to
\* its end. Nothing forces a transaction that fails to succeed the next time.
Fairness ==
  /\ WF_vars(ParseStep)
  /\ \A p \in Normalizers : WF_vars(NormalizeBegin(p)) /\ WF_vars(NormalizeStep(p))

Spec     == Init /\ [][Next]_vars
FairSpec == Spec /\ Fairness

-----------------------------------------------------------------------------
(* Safety                                                                  *)

\* A normalized row always is what its raw row says, whatever snapshot it was
\* written from: a run that read raw_tasks before a refresh cannot write after it.
NormalizedMirrorsRaw == \A s \in Slots : norm[s] # Blank => raw[s] = norm[s]

\* The raw rows of a sheet are those of one state of its cells: a refresh
\* leaves no row of a date, or of a cell, that is gone from the sheet.
SheetFromOneSnapshot ==
  \A s \in Slots : raw[s] = IF parsed[s] \in Task THEN parsed[s] ELSE Blank

\* Single flight (ADR-0008): a run that holds the partition and whose raw rows
\* still exist never hits a duplicate key: nobody wrote them meanwhile.
NoDuplicateKeys ==
  \A p \in Normalizers, part \in Parts :
    normalizer[p].stage = "write" /\ FirstPart(p, part)
      /\ RawRowsExist(p, GoodRows(p, part))
    => KeysFree(p, GoodRows(p, part))

(* Action properties                                                       *)

\* Overlapping full-refresh writes corrupt nothing (ADR-0008): a normalized row
\* disappears only when parse refreshes the sheet, whose rows it recreates.
OnlyParseRemovesRows ==
  [][\A s \in Slots :
       norm[s] # Blank /\ norm'[s] = Blank =>
         parser.stage = "refresh" /\ parser'.stage = "sheet"]_vars

\* Parse is a full refresh per sheet (ADR-0005): at the end of a run the raw
\* rows of every sheet are those of the cells the run has read.
ParseRefreshesEverySheet ==
  [][ParseEnd =>
       \A s \in Slots :
         raw[s] = IF parser.cells[s] \in Task THEN parser.cells[s] ELSE Blank]_vars

(* Liveness                                                                *)

\* tasks_normalized holds the task lines a sheet has of a date, but those that raise.
FreshDay(sh, day) ==
  LET due == {s \in Dated(cells, sh, {day}) : cells[s].kind # "raises"} IN
  /\ Dated(norm, sh, {day}) = due
  /\ \A s \in due : norm[s] = cells[s]

\* No limit leaves the sheet out: of its cells in parse, of its rows in normalize.
Taken(sh) ==
  /\ FilledSlots(sh) # {} /\ Cardinality(FilledSlots(sh)) <= MaxCells
  /\ \A table \in {raw, cells} : Cardinality(TaskSlots(table, sh)) <= MaxRows

\* A normalize run does not end at the date, as the sheet was parsed or is now:
\* the sheet is left out as too large, or all times of the date are in range and
\* not too many of its lines raise.
Passable(sh, day) ==
  \A table \in {raw, cells} :
    LET lines == Dated(table, sh, {day}) IN
    \/ Cardinality(TaskSlots(table, sh)) > MaxRows
    \/ /\ \A s \in lines : table[s].kind # "overflows"
       /\ Cardinality({s \in lines : table[s].kind = "raises"}) <= MaxErrors

\* The timers are two minutes apart so that the two runs do not overlap.
Overlap == parser.stage # "idle" /\ \E p \in Normalizers : normalizer[p].stage # "idle"

\* Whatever overlaps, crashes and rejected transactions came before, once the
\* sheets rest and the runs do not overlap any more, the normalized tasks of a
\* date of a sheet that is not too large are brought up to date, again after each
\* parse that clears them, unless a run ends at this date or one before it.  What
\* comes after it in a run, a sheet that is too large and lines out of range
\* included, and sheets before it that are too large never hold it up.
BroughtUpToDate ==
  \A part \in Parts :
    <>[](/\ ~Overlap /\ Taken(part[1])
         /\ \A any \in Parts : Before(any, part) => Passable(any[1], any[2]))
      => []<>FreshDay(part[1], part[2])

\* Too many failures stop the sheet and date they are in (ADR-0009): one that
\* can be processed is brought up to date whatever is in the others.
SheetsIndependent ==
  \A part \in Parts :
    <>[](~Overlap /\ Taken(part[1]) /\ Passable(part[1], part[2]))
      => []<>FreshDay(part[1], part[2])

-----------------------------------------------------------------------------
(* Refinement                                                              *)

Store == INSTANCE TaskStore

\* To a reader of the two tables every step of the runs is a change of one
\* sheet, of one day of one sheet, or no change: the DELETE and the INSERTs of
\* two transactions never show half of either.
StoreSpec == Store!Spec

\* Whoever reads the tasks of a date, as assess does, finds every task of a
\* sheet that can be normalized, as the sheet has it, or none: a late or half
\* failed run never leaves a part of the day.
WholeDays == Store!WholeDays
=============================================================================
