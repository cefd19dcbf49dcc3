----------------------------- MODULE WeeklyBoard -----------------------------
(***************************************************************************)
(* parse_cells (WorkAI/parse/parser.py): the task lines of one sheet.  A   *)
(* sheet is first read as a matrix, employees down the first column and    *)
(* dates along the first row; if that gives nothing, as a board of weeks,  *)
(* each with its own header row and a column for each day.  Ingest may     *)
(* fetch the same sheet again, in a later year.                            *)
(***************************************************************************)
EXTENDS Integers, FiniteSets, FiniteSetsExt, Sequences

CONSTANTS
  NRows,         \* rows of the sheet
  Columns,       \* where a board without headers has its days
  FirstColumns,  \* what the first column may hold, row by row
  Weeks,         \* week ranges, which block starts show
  ValidWeek,     \* the <<week, year>> whose first day exists
  HeaderOffset,  \* 10: from a block's start to its header row
  YearOffsets,   \* <<12, 44>>: where its year is looked for
  MaxHeaders,    \* bound: cells with the word of the header
  YearRow,       \* bound: the one row that may show a year
  DateColumn,    \* bound: the one column that may show a date
  BoardYears     \* years of ingestion, consecutive

ASSUME WeeklyBoardAssumption ==
  /\ NRows \in Nat \ {0}
  /\ Columns \subseteq Nat /\ IsFiniteSet(Columns) /\ DateColumn \in Columns
  /\ Weeks \intersect {"blank", "name", "matrix"} = {}
  /\ FirstColumns \subseteq [1 .. NRows -> Weeks \union {"blank", "name"}]
  /\ HeaderOffset \in Nat \ {0}
  /\ YearOffsets \in Seq(Nat)
  /\ BoardYears \subseteq Nat /\ BoardYears # {} /\ YearRow \in 1 .. NRows

VARIABLES
  first,   \* the first column
  body,    \* the other cells: a task, the header's text, a task with its word, or a date
  yearAt,  \* row -> the year the cell of the year column shows, or 0
  fetched, \* the year of ingested_at
  layout,  \* how the sheet was read last: "none", "matrix" or "board"; or "empty"
  emitted  \* the task rows it gave

boardVars == <<first, body, yearAt, fetched, layout, emitted>>

Body == (1 .. NRows) \X Columns

\* A task row: its cell and its date, the day of a week of a year or, in the
\* matrix, that of its column.
BoardRow == [cell : Body, week : Weeks \union {"matrix"}, year : Nat, day : Nat]

BoardTypeOK ==
  /\ first \in FirstColumns
  /\ body \in [Body -> {"blank", "task", "header", "mention", "date"}]
  /\ yearAt \in [1 .. NRows -> BoardYears \union {0}]
  /\ fetched \in BoardYears
  /\ layout \in {"empty", "none", "matrix", "board"}
  /\ emitted \subseteq BoardRow

BoardInit ==
  /\ first \in FirstColumns
  /\ body = [c \in Body |-> "blank"]
  /\ yearAt = [r \in 1 .. NRows |-> 0]
  /\ fetched = CHOOSE y \in BoardYears : \A z \in BoardYears : y <= z
  /\ layout = "empty"
  /\ emitted = {}

-----------------------------------------------------------------------------
\* Ingest stores a sheet: any cells, with few headers, one date and one year.
Fill ==
  /\ layout = "empty"
  /\ layout' = "none"
  /\ \E texts \in SUBSET {c \in Body : c[1] > 1}, dates \in SUBSET {<<1, DateColumn>>} :
     \E headers \in SUBSET texts, kind \in {"header", "mention"} :
       /\ Cardinality(headers) <= MaxHeaders
       /\ body' = [c \in Body |-> CASE c \in headers -> kind
                                    [] c \in dates -> "date"
                                    [] c \in texts \ headers -> "task"
                                    [] OTHER -> "blank"]
  /\ \E r \in {0, YearRow} : yearAt' = [q \in 1 .. NRows |-> IF q = r THEN fetched ELSE 0]
  /\ UNCHANGED <<first, fetched, emitted>>

\* The matrix: below the header row, where the row has an employee (any text in
\* the first column) and the column has a date.
MatrixRows ==
  {[cell |-> c, week |-> "matrix", year |-> 0, day |-> c[2]] :
     c \in {d \in Body : /\ d[1] > 1 /\ body[d] # "blank"
                         /\ first[d[1]] # "blank"
                         /\ body[<<1, d[2]>>] = "date"}}

\* The board: a block starts at each week range.
BlockStarts == {r \in 1 .. NRows : first[r] \in Weeks}

StartsAfter(start) == {s \in BlockStarts : s > start}

\* Mutant: up to and with the next block's start.
BlockEndWithNext(start) == IF StartsAfter(start) = {} THEN NRows ELSE Min(StartsAfter(start))

BlockEnd(start) == IF StartsAfter(start) = {} THEN NRows ELSE Min(StartsAfter(start)) - 1

\* _detect_task_columns, or the usual ones; the header's word is enough.
TaskColumns(header) ==
  LET found == {c \in Columns : header <= NRows /\ body[<<header, c>>] \in {"header", "mention"}}
  IN  IF found = {} THEN Columns ELSE found

\* Mutant: the year of the fetch comes first.
WeekYearOfFetch(start) == fetched

\* _resolve_week_year: the offsets at which a block shows a year; the first one counts.
YearCells(start) ==
  {i \in DOMAIN YearOffsets : start + YearOffsets[i] <= NRows /\ yearAt[start + YearOffsets[i]] # 0}

WeekYear(start) ==
  IF YearCells(start) = {} THEN fetched ELSE yearAt[start + YearOffsets[Min(YearCells(start))]]

\* Not _is_non_task_text, which knows the header only by its whole text.
IsTask(c) == body[c] \in {"task", "mention", "date"}

\* _parse_weekly_board_cells: what each block gives; the days go by the columns.
BlockRows(start) ==
  LET days == TaskColumns(start + HeaderOffset)
  IN  IF <<first[start], WeekYear(start)>> \notin ValidWeek THEN {}
      ELSE {[cell |-> c, week |-> first[start], year |-> WeekYear(start),
             day |-> Cardinality({d \in days : d < c[2]})] :
              c \in {b \in (start + HeaderOffset + 1 .. BlockEnd(start)) \X days : IsTask(b)}}

BoardRows == UNION {BlockRows(start) : start \in BlockStarts}

ParseCells ==
  /\ layout = "none"
  /\ IF MatrixRows # {}
     THEN layout' = "matrix" /\ emitted' = MatrixRows
     ELSE layout' = "board" /\ emitted' = BoardRows
  /\ UNCHANGED <<first, body, yearAt, fetched>>

\* Ingest writes the cells anew, with the time of the fetch, and parse runs again.
FetchNextYear ==
  /\ layout \in {"matrix", "board"}
  /\ fetched + 1 \in BoardYears
  /\ fetched' = fetched + 1
  /\ layout' = "none"
  /\ UNCHANGED <<first, body, yearAt, emitted>>

BoardNext == Fill \/ ParseCells \/ FetchNextYear

BoardSpec == BoardInit /\ [][BoardNext]_boardVars

-----------------------------------------------------------------------------
\* The block a row lies in: the one that starts last above it.
BlockOf(r) == {s \in 1 .. r : first[s] \in Weeks /\ \A q \in s + 1 .. r : first[q] \notin Weeks}

\* Every task cell of a board belongs to at most one week and one day, whatever
\* the blocks look like, a header cut off by the next block, no header or no
\* block at all: it is read exactly if it lies below the header of the block
\* that starts last above it, in one of that block's day columns, and then for
\* that week.  Anything the matrix finds hides the board.
BoardReadOnce ==
  /\ \A a, b \in emitted : a.cell = b.cell => a = b
  /\ layout = "board" =>
       \A c \in Body :
         {a.week : a \in {b \in emitted : b.cell = c}} =
           {first[s] : s \in {q \in BlockOf(c[1]) :
             /\ c[1] > q + HeaderOffset /\ IsTask(c)
             /\ c[2] \in TaskColumns(q + HeaderOffset)
             /\ <<first[q], WeekYear(q)>> \in ValidWeek}}
  /\ layout = "matrix" => \A a \in emitted : a.week = "matrix"

\* A step that parses anew leaves the dates that year cells fix.
DatesStay ==
  layout = "none" /\ layout' = "board" =>
    \A s \in BlockStarts : YearCells(s) # {} =>
      {a \in emitted : a.week # "matrix" /\ s \in BlockOf(a.cell[1])} \in
        {{}, {a \in emitted' : s \in BlockOf(a.cell[1])}}

\* Fetching an unchanged board again, in the new year, moves no task whose week
\* has a year cell where it is looked for; only the others follow the calendar.
YearCellsPinDates == [][DatesStay]_boardVars
=============================================================================
