----------------------------- MODULE ParseOverlap -----------------------------
(***************************************************************************)
(* Two parse runs of one sheet beside each other (WorkAI/parse/runner.py): *)
(* the timer's and a manual one.  TaskRefresh has one parse run and the    *)
(* normalize runs; here each statement of the sheet's READ COMMITTED       *)
(* transaction is a step of its own: the SELECT of the dates, the DELETE,  *)
(* which waits for rows another transaction deletes and does not see rows  *)
(* that transaction inserts, and the INSERT with its unique key.           *)
(***************************************************************************)
EXTENDS Naturals, FiniteSets

CONSTANTS
  SheetCells,    \* the cells of the sheet
  WorkDates, \* the dates a cell's task can have
  NoLine,    \* no task in a cell; no row in raw_tasks
  Parsers,   \* runs that can be in progress at once
  MaxIngests \* bound: changes of the sheet

ASSUME ParseOverlapAssumption ==
  /\ NoLine \notin WorkDates
  /\ MaxIngests \in Nat

VARIABLES
  lines,   \* sheet_cells: the date of the task line in each cell
  stored,  \* raw_tasks, what is committed
  parsing, \* the runs
  ingests

overlapVars == <<lines, stored, parsing, ingests>>

Content == [SheetCells -> WorkDates \union {NoLine}]

\* lines: the cells read; dates: those found in the table; target: the rows to
\* delete; alone: no other run was in its transaction meanwhile (history).
IdleParse == [stage |-> "idle", lines |-> [c \in SheetCells |-> NoLine],
              dates |-> {}, target |-> {}, alone |-> FALSE]

OverlapTypeOK ==
  /\ lines \in Content /\ stored \in Content
  /\ parsing \in [Parsers -> [stage : {"idle", "read", "dated", "deleting", "deleted", "inserted"},
                              lines : Content, dates : SUBSET WorkDates,
                              target : SUBSET SheetCells, alone : BOOLEAN]]
  /\ ingests \in 0 .. MaxIngests

OverlapInit ==
  /\ lines \in Content
  /\ stored = [c \in SheetCells |-> NoLine]
  /\ parsing = [p \in Parsers |-> IdleParse]
  /\ ingests = 0

-----------------------------------------------------------------------------
IngestSheet ==
  /\ ingests < MaxIngests
  /\ lines' \in Content /\ lines' # lines
  /\ ingests' = ingests + 1
  /\ UNCHANGED <<stored, parsing>>

ReadSheet(p) ==
  /\ parsing[p].stage = "idle"
  /\ parsing' = [parsing EXCEPT ![p] = [IdleParse EXCEPT !.stage = "read", !.lines = lines]]
  /\ UNCHANGED <<lines, stored, ingests>>

LinesOf(content) == {c \in SheetCells : content[c] # NoLine}

DatesOf(content) == {content[c] : c \in LinesOf(content)}

InTransaction(p) == parsing[p].stage \notin {"idle", "read"}

\* fetch_raw_task_dates_for_sheet opens the transaction.
ReadDates(p) ==
  /\ parsing[p].stage = "read"
  /\ LET others == {q \in Parsers \ {p} : InTransaction(q)} IN
     parsing' = [q \in Parsers |->
                   IF q = p
                   THEN [parsing[p] EXCEPT !.stage = "dated", !.dates = DatesOf(stored),
                                           !.alone = (others = {})]
                   ELSE [parsing[q] EXCEPT !.alone = FALSE]]
  /\ UNCHANGED <<lines, stored, ingests>>

\* Mutant: the dates of the new rows only.
ScopeParsed(p) ==
  {c \in LinesOf(stored) : stored[c] \in DatesOf(parsing[p].lines)}

\* _delete_refresh_scope: the rows with a date that was in the table or is in
\* the new rows, as the statement sees the table when it starts.
Scope(p) ==
  {c \in LinesOf(stored) : stored[c] \in parsing[p].dates \union DatesOf(parsing[p].lines)}

DeleteStarts(p) ==
  /\ parsing[p].stage = "dated"
  /\ parsing' = [parsing EXCEPT ![p].stage = "deleting", ![p].target = Scope(p)]
  /\ UNCHANGED <<lines, stored, ingests>>

\* Rows another transaction has deleted are waited for; if it commits they are
\* gone and no longer in target (Committed).
DeleteEnds(p) ==
  /\ parsing[p].stage = "deleting"
  /\ \A q \in Parsers \ {p} :
       parsing[q].stage \in {"deleted", "inserted"} => parsing[q].target \intersect parsing[p].target = {}
  /\ parsing' = [parsing EXCEPT ![p].stage = "deleted"]
  /\ UNCHANGED <<lines, stored, ingests>>

\* Rows of the run's keys that another transaction inserted or deleted are
\* waited for.
WaitsForKey(p) ==
  \E q \in Parsers \ {p}, c \in LinesOf(parsing[p].lines) :
    \/ parsing[q].stage = "inserted" /\ c \in LinesOf(parsing[q].lines)
    \/ parsing[q].stage \in {"deleted", "inserted"} /\ c \in parsing[q].target

KeyTaken(p) ==
  \E c \in LinesOf(parsing[p].lines) : stored[c] # NoLine /\ c \notin parsing[p].target

InsertRows(p) ==
  /\ parsing[p].stage = "deleted"
  /\ ~WaitsForKey(p)
  /\ ~KeyTaken(p)
  /\ parsing' = [parsing EXCEPT ![p].stage = "inserted"]
  /\ UNCHANGED <<lines, stored, ingests>>

\* A unique violation: the sheet is rolled back and the run ends.
InsertRejected(p) ==
  /\ parsing[p].stage = "deleted"
  /\ ~WaitsForKey(p)
  /\ KeyTaken(p)
  /\ parsing' = [parsing EXCEPT ![p] = IdleParse]
  /\ UNCHANGED <<lines, stored, ingests>>

\* What a commit leaves in the table.
Refreshed(p) ==
  [c \in SheetCells |-> IF parsing[p].lines[c] # NoLine THEN parsing[p].lines[c]
                    ELSE IF c \in parsing[p].target THEN NoLine ELSE stored[c]]

CommitRows(p) ==
  /\ parsing[p].stage = "inserted"
  /\ stored' = Refreshed(p)
  /\ parsing' = [q \in Parsers |->
                   IF q = p THEN IdleParse
                   ELSE [parsing[q] EXCEPT !.target = @ \ parsing[p].target]]
  /\ UNCHANGED <<lines, ingests>>

\* A crash, a failed statement, or the database ends a deadlock of the two.
ParseAborts(p) ==
  /\ parsing[p].stage # "idle"
  /\ parsing' = [parsing EXCEPT ![p] = IdleParse]
  /\ UNCHANGED <<lines, stored, ingests>>

OverlapNext ==
  \/ IngestSheet
  \/ \E p \in Parsers :
       \/ ReadSheet(p) \/ ReadDates(p)
       \/ DeleteStarts(p) \/ DeleteEnds(p)
       \/ InsertRows(p) \/ InsertRejected(p)
       \/ CommitRows(p) \/ ParseAborts(p)

OverlapSpec == OverlapInit /\ [][OverlapNext]_overlapVars

-----------------------------------------------------------------------------
\* A step keeps the lines all runs know; a run alone leaves what it read.
Heals ==
  /\ \A c \in SheetCells :
       /\ stored[c] # NoLine /\ stored[c] = lines[c]
       /\ \A p \in Parsers : parsing[p].stage # "idle" => parsing[p].lines[c] = stored[c]
       => stored'[c] = stored[c]
  /\ \A p \in Parsers :
       CommitRows(p) /\ parsing[p].alone => stored' = parsing[p].lines

\* Two runs can leave the lines of both in the table, or one of them fails on a
\* key.  But no line is lost on the way: one that is stored, still in the sheet
\* and known to every run stays stored at every moment.  And the mix lasts only
\* until a run whose transaction no other overlaps: that leaves exactly the
\* lines it has read, rows of dates it did not know before included.
OverlapHeals == [][Heals]_overlapVars
=============================================================================
