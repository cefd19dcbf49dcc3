# WorkAI: a TLA+ verification project

WorkAI turns spreadsheets of daily work reports into normalised tasks, assesses
them, and has an LLM crew audit each employee's day. Its parts are short
programs around one PostgreSQL database: timers and people start them, they
overlap, they crash, and each works in several transactions on rows another
part may be replacing. This directory models that: TLA+ modules translated from
`src/WorkAI`, TLC configurations that check small instances, and TLAPS proofs
for every instance. Paths below are relative to `src/WorkAI` unless they say
otherwise.

## Inventory

| Component | State | Operations | Interacts through |
|---|---|---|---|
| **ingest** `ingest/` | `sheet_cells` | `run_ingest`: per range, one transaction deletes and inserts its cells | Sheets API; parse reads its table |
| **parse** `parse/` | `raw_tasks` | `run_parse`: reads all cells in one transaction; per sheet one transaction deletes the dates in scope (normalized rows first) and inserts | `sheet_cells`, `tasks_normalized` (RESTRICT key) |
| **normalize** `normalize/` | `tasks_normalized`, `employees`, `pipeline_errors` | `run_normalize`: reads all raw rows once; per sheet and date a transaction under an advisory lock | `raw_tasks` (foreign key), advisory locks |
| **normalize text rules** | none | categories, names, times: pure functions | called by normalize |
| **assess** `assess/` | ghost time, assessments, cycles, norms | `run_assess`: four transactions for one date | `tasks_normalized` (assessments cascade with it) |
| **assess algorithms** | none | merging of micro tasks, scores: pure functions | called by assess |
| **audit runs** `audit/crew.py`, `audit/queries.py` | `audit_runs` | `run_audit`: cache lookup, insert, attempts, completion or failure | CLI, API threads, sweeper |
| **audit crew** | none | agents, tools, report validation | LLM framework, the figures of the day |
| **stale sweeper** `ops/stale_sweeper.py` | `audit_runs` | marks old processing rows stale | timer |
| **cost rollup** `ops/cost_rollup.py` | `audit_cost_daily` | sums the usage of a date's runs | `audit_runs`, timer |
| **knowledge base** `knowledge_base/` | articles, chunks, a cache in each process | soft sync, lookup | files, the crew's tools |
| **notifier** `notifier/` | `notification_log` | send, then log | Telegram |
| **db pool** `db/pool.py` | one pool per process, no lock | init, close, use | every component |
| **api** `api/` | feedback rows, confirmations | reads, starts an audit with a timeout | every table |
| **healthcheck, verification, cutover tools** `ops/` | none | reads, thresholds, exit codes | tables, units, files |
| **settings, migrations, scripts, units** | none | configuration, schema, timers | everything |

What is hard here, and what must then hold:

- *audit runs*: two callers miss the cache together; the client gives up while
  the thread goes on; a commit succeeds and its acknowledgement is lost; the
  process dies with its row in processing; the sweeper marks a run that is still
  alive. Rows must stay owned by one call, a stored report must be attributable,
  an answered report must stay readable, and no row may stay in processing.
- *parse, normalize*: snapshots read in an earlier transaction than the one that
  writes; runs that overlap; keys that reject a stale write. A normalized row
  must say what its raw row says, a sheet must come from one snapshot, the lock
  must keep writers apart, and a sheet at rest must be brought up to date.
- *assess*: four transactions while refreshes delete the rows under them. No
  result may rest on rows that are gone, an undisturbed run must leave its date
  consistent, and today must be assessed again and again.
- *db pool*: a global variable that a server, its threads and their failure
  handlers open, read and close without a lock. While the server serves there must
  be one pool, and an outcome must not be lost to a pool somebody closed.
- *knowledge base*: files change while runs index them and lookups remember their
  answers. Chunks must be those of their article, an answer must be one that was
  true, and chunking must end and lose no word.
- *ingest*: ranges overlap, batches are retried, a run fails half-way. An
  undisturbed run must leave exactly what the spreadsheet holds.
- *assess algorithms*: one pass over the tasks with a cycle under construction;
  means over a window. No task may be lost or counted twice, no norm may leave
  what it is a mean of.
- *notifier, healthcheck, employee names*: a message sent but not recorded, a check
  skipped, a tie broken by hash order. The log, the exit code and the employee of a
  name must say no more than is so.
- *cost rollup*: it reads runs that go on changing, beside other rollups of the day.
  A total must be that of one moment, and a rerun must not lose what was counted.
- *audit crew*: the day changes while the crew works, and its answer carries figures
  too. A report must show the database's figures, of one moment of its own run.
- *confirmations (api)*: a client holds ids of rows that refreshes replace, and assess
  runs that may overlap score what they read. A confirmation must reach the task the
  client saw or none, and cost nothing by itself.
- *weekly boards (parse)*: blocks of rows without fixed places, dates without a year.
  A task must belong to one week and one day, and must not move with the calendar
  where the board says its year.
- *cutover tools*: a go-ahead after many checks, each of which may be skipped by an
  exception or be off by one. A zero must mean that everything was looked at.

`PROJECT.json` lists every component with its status and every hazard at its
line, with the properties that cover it or the reason none does.

## Modules

| Module | Kind | Models |
|---|---|---|
| `AuditRuns` | detailed | `run_audit` and the stale sweeper on `audit_runs` |
| `AuditLedger` | abstract | what readers of `audit_runs` are promised |
| `AuditRefinement` | refinement | `AuditRuns` implements `AuditLedger` |
| `TaskRefresh` | detailed | ingest, `run_parse`, `run_normalize` on three tables |
| `TaskStore` | abstract | what readers of `raw_tasks` and `tasks_normalized` are promised |
| `DailyAssess` | detailed | `run_assess` against refreshes and a second run |
| `DbPool` | detailed | the API's connection pool, its lifespan and audit threads |
| `KnowledgeIndex` | detailed | `index_knowledge_sources`, `lookup_methodology` and its cache |
| `ChunkText` | algorithm | `chunk_text` |
| `CycleMerge` | algorithm | `aggregate_operational_cycles` and its keys |
| `ParseOverlap` | detailed | two `run_parse` beside each other, statement by statement |
| `WeeklyBoard` | algorithm | `parse_cells` on matrices and boards of weeks |
| `AuditAttempt` | detailed | what an attempt of `run_audit` reads, gets from the crew and stores |
| `AuditCost` | detailed | `run_cost_rollup` over `AuditLedger` |
| `TaskConfirm` | detailed | listing and confirming tasks, between refreshes and overlapping assess runs |
| `CutoverCheck` | detailed | the readiness check, the timer check and the parallel diff |
| `TaskNorms` | algorithm | the norms of `run_assess_bayesian_norms` |
| `IngestRun` | detailed | `run_ingest` with batches, retries and overlapping ranges |
| `HealthCheck` | detailed | `run_healthcheck` and its exit code |
| `Notifier` | detailed | `send_alert` and its log |
| `EmployeeMatch` | algorithm | `resolve_employee` |
| `*_proofs` | proofs | see *What is proved* |
| `MC*` | instances | constants and symmetry for TLC; `MCParts` composes the last fifteen |

In all of them PostgreSQL is READ COMMITTED: a statement sees what is committed
when it starts, a transaction that fails leaves nothing, and the constraints the
migrations declare reject what they reject.

### AuditRuns

A row of `audit_runs` is a record of its status, key, report, error and
`finished_at`; a call holds its stage, run id, attempt and report. One action is
one stretch between two points where another process can run. `Begin` fixes
`started_at`, so run ids are ordered like it. A transaction commits, rolls back, or
commits while its caller sees an exception (`CommitOutcomes`), which is how the
code's failure paths are reached: after `InsertProcessing` the id is already kept
and `PersistFailed` runs, after `InsertCached` it is not. `ClientTimeout` is the
API's `wait_for`; the call goes on. `Crash` may strike anywhere. `Sweep` takes
any cutoff up to now. `published` and `answers` are histories: what was ever
stored as completed, and what was handed back to a client that still waited.

`AuditLedger` forgets calls, attempts and crashes: runs open, publish, reuse,
expire or are abandoned, and a report becomes public once. The mapping reads
`status` as a phase; `published` is mapped to itself.

### TaskRefresh

The three tables are functions over slots (the cells of all sheets). A cell is
blank, holds no task, or a task line with its date and kind: `fine`, `raises`
(the time in it makes the line's normalization raise) or `overflows` (its minutes
do not fit INTEGER, so the insert fails). Each transaction is two steps: the
DELETE with the rows it saw and could lock, then the rest up to COMMIT, which
waits for rows another transaction locked and is rejected by a foreign or unique
key. `gone` stands for row ids: the snapshot's rows that a parse refresh has
replaced since. `parsed` is a history.

`TaskStore` forgets cells, snapshots, locks and transactions that fail: a sheet gets new
raw rows and loses its normalized ones in one step (`Refresh`), a day of a sheet gets
all the rows its raw rows give now (`Normalize`), or a run that could normalize none
of what it read clears the day (`Forget`), even when the day has other rows by then.
That last step is the code's: a run whose lines of a day all failed has no row a
foreign key could reject, and its DELETE stands. `TaskRefresh` implements this store
(`StoreSpec`), so whoever reads a day, as assess does, finds all of it or none
(`WholeDays`).

Simplifications: one parser at a time (two are `ParseOverlap`); employees are left out; a range is a whole
sheet; raw rows always have a date (the code deletes rows without one, but never
writes them); the advisory lock is released with the commit. Limits are at least
1, as the validators in `config/settings.py` demand.

### DailyAssess

A place is an employee, a date and a position in the sheet; a task is a place and
a text. An assessment is absent, scored, or normed. A ghost-time row is the set of
tasks it was computed from, a cycle carries the key of its first task, a norm is
the category of its text, so each table records *what it was computed from*, which is
all the properties compare. `Begin` lists the employees of the date, then each
has its metrics read in a statement of its own (`GhostMetrics`, or `GhostFails`
when the sums are NULL); scoring, aggregation and norms follow as their own
transactions. Refreshes (`NormalizeDate`, `ParseClears`) replace the rows of dates
and cascade to their assessments. `disturbed` is a history: the date was refreshed
under the run, or another run was active on it.

Simplifications: each text is a category of its own; micro tasks are not merged
(one cycle per task); parse clears all dates, as for one sheet; deadlock aborts are
among the faults.

### The smaller parts

Fifteen modules model parts that share no variable with each other. Their tables meet
those of the modules above only through what those already take as input: ingest
writes the cells that `TaskRefresh` changes as a whole, the norms and cycles are the
insides of two steps of `DailyAssess`.

- `DbPool`. `init_db` is two steps, open and assign, `connection` is two, `get_pool`
  and use, `close_db` is two, close and forget; a thread is at one of these places
  (`at`) for one of the reasons `run_audit` has (`phase`). Pools are numbered, 0 is
  None. `UseSucceeds` covers every transaction of an audit and the second `init_db`
  of `lookup_methodology`. `NoPool` is the `DatabaseError` of `get_pool`;
  `PoolClosed` is what psycopg raises for a closed pool, which
  `_persist_failed_run` does not catch. The database itself is up.
- `KnowledgeIndex`. A file, an article and the chunks of an article are each a body,
  so a row says which version it is of. A run lists, parses file by file, upserts
  articles (waiting for rows another run has written), then replaces chunks and
  commits. A lookup reads in one step and fills the cache in another; the cache is
  of one query, and `Evict` stands for the other entries that push it out.
- `ChunkText`. A text is its length and the places of its blanks, a piece an
  interval; one step is one turn of the loop.
- `CycleMerge`. Tasks are a sorted sequence, a cycle its first task and its members;
  similarity of texts is any relation. Minutes and scores are left out: they are
  sums and averages over the members.
- `TaskNorms`. Norms in hundredths, rounded half up as NUMERIC(7, 2) rounds. The mean
  is taken exactly, where PostgreSQL's AVG keeps sixteen digits or more.
- `IngestRun`. A range is a set of cells, and ranges may overlap. The DELETE of a
  range finds the rows that are there as it begins and ends when those another
  transaction has deleted are decided; what that one inserted it does not see, and an
  insert over it fails on the key.
- `HealthCheck`. A function from each check to the next; what a check finds is
  chosen from what it may find. `Interrupted` is an exception of a data check.
- `Notifier`. The settings of the process, the outcome of the send and what the
  caller knows of it are chosen; a row may fail to be written.
- `EmployeeMatch`. Keys and scores are constants; each process has an order of the
  canonical names of its own, as a set of strings has.
- `ParseOverlap`. A sheet's transaction is SELECT of the dates, DELETE (which starts
  with what it sees and ends when rows another transaction deletes are decided),
  INSERT (which waits for a key or fails on it), COMMIT. `target` holds the rows it
  deletes; `alone` is a history. The normalized rows are left to `TaskRefresh`.
- `WeeklyBoard`. A sheet is its first column, the kind of each other cell and the
  years in the year column. The header's distance and the places of the year are
  constants (10, 12 and 44 in the code, smaller in the run); a week's dates are
  its week, its year and the number of the day; `ValidWeek` says which exist.
- `AuditAttempt`. A day is in one of a few states, each with its four figures;
  tasks and ghost time may be of different ones. An answer of the crew has a format,
  figures and perhaps scores. An answer that was validated already has scores, which
  `derive_scores` made of the crew's figures.
- `AuditCost`. The audits are the abstract ledger, which `AuditRuns` implements, so
  the rollup runs beside whatever `AuditRuns` can do. Upsert to commit is one step:
  nobody sees the row before, and a second upsert waits. Costs are small numbers.
- `TaskConfirm`. A refresh is its two transactions, with the rows' new ids; an
  assess run is what it reads and what it commits of its first two steps. Nothing
  locks a date, so any number of runs may be at it (a timer's and one by hand), and
  each upserts over what is there. `overtaken` is a history: another run has written
  to the table since this one read. Trust is kept as the three counts it is made of,
  quality in tenths.
- `CutoverCheck`. Each tool looks at one thing after the other; what it finds is
  chosen, with the amounts on both sides of each bound. A section is done when `bool()`
  of what it says is true; hours and minutes may also be NaN, which JSON admits and
  `float()` keeps, and with which no comparison holds. `ToolRaises` is any exception.

## Runs

| Run | Instance | Shows |
|---|---|---|
| `audit_runs` | API thread and CLI call, 2 keys, 2 attempts, 3 runs | rows stay owned, reports traceable, answers durable; the life cycle of a row |
| `audit_liveness` | the same, 2 runs, fair | every run is resolved; the ledger is implemented |
| `audit_idempotent` | calls without force | **violated**: two default calls both execute |
| `refresh_safety` | 1 sheet, 2 cells, 2 dates, two normalize runs, 2 changes | days are whole and mirror raw rows, a sheet is of one snapshot, no duplicate keys; the store is implemented |
| `refresh_fair` | 2 sheets of 2 cells, 1 date, all kinds, one normalize run, 1 fault, fair | what no limit or failure stops is brought up to date, whatever comes after it; only parse removes rows |
| `refresh_overlap` | 1 cell, two normalize runs | **violated**: an older run overwrites a newer one |
| `refresh_emptied` | 1 cell | **violated**: an emptied sheet is never refreshed |
| `refresh_blocked` | 2 sheets, fair | **violated**: one failing sheet starves the others |
| `assess_safety` | 2 employees, 1 date, timer and manual run | results rest on rows that exist; an undisturbed run leaves its date consistent |
| `assess_fair` | 1 employee, 2 dates, 2 texts, 1 fault, fair | over a change of date, today is assessed again and again |
| `assess_stale` | 1 employee, 1 date | **violated**: cycles of an emptied date stay |
| `small_parts` | the fifteen smaller parts, one after the other | what each of them promises |

`small_parts` chooses in its first state the part that acts; the others rest. As the
parts share no variable, their interleavings would add states and no behaviour of any
of them.

Bounds. `MaxRuns` bounds the audit calls: three give a completed run, a cached one
and a third beside them; two keys let a wrong key show; two attempts give one
retry. `MaxChanges` and `MaxFaults` bound what can happen from outside: two
changes are the least with which a snapshot is outdated by a second one, one
fault leaves a half-finished run for the next to find. `refresh_safety` has no
fault: rolled-back transactions are in it (keys reject them), a process that dies is
in `refresh_fair`, and the proofs have any number of both. Two cells of a sheet hold
two dates or two failing lines. In `refresh_fair` a sheet of two lines is above the limit of
one row and one of a single line is at it, and one line that raises is as many as a date
may have; that two end the run is `refresh_blocked`. Its one date keeps two sheets small;
two dates are in `refresh_safety`. In DailyAssess refreshes are unbounded; two employees separate
the one whose rows are gone from the one still present, two dates let the window
and the change of date matter. `CHECK_DEADLOCK FALSE`: the bounds make all
behaviours end, and the programs themselves may stop for good when nobody starts
them again.

In `small_parts`: texts of up to nine characters in nine windows, so that words are
shorter than, as long as and longer than a window, and the overlap reaches back to
the start of a piece; three tasks with three texts, the middle one similar to
both others, for similarity is not transitive; two threads and three pools, one of
the server and one of each thread that finds none; two files, a blank body and two
others, two index runs and two edits; ranges that overlap within and across batches,
two runs, one retry, two edits; six names among which one is tied, one is above, one
just below the threshold; two tasks on four days with a window of two, and a column
small enough that a norm can fail to fit; two audit runs of one live day after three
past ones, with a costly report and one without usage, and two rollups (a spike needs
three days of history); a good day and a bad one, two tries and two refreshes (each
can strike before or after the figures are read), and answers with and without scores,
one of them out of range; boards
of four rows in which a block has no row, has its header cut off by the next or begins
late; a day and its reference one below, at and one above the tolerance, and each
amount of evidence on both sides of its bound, or not a number; two cells, two dates and
two parsers; of the tasks that are confirmed two lines, one without a time and one its
text confirms, and two row ids, so that both rows are there or one and then its successor;
one confirmation or withdrawal; two assess runs, of which either may overtake the other;
and any number of refreshes, runs and failures one after the other.

Fairness is weak only. In `small_parts` it is the loop of `chunk_text`, which goes on
once it is called. In the other runs it is the timers: units in `src/deploy/systemd` start ingest at minute 0, parse
at 2, normalize at 4, assess at 6 of each quarter of an hour, the sweeper every five
minutes, and a unit is never started beside itself; so each program runs again and
again, and once started a live process takes its next step. Callers of the audit,
manual runs, ingest changes, refreshes and crashes are not fair. Nothing makes a
transaction that fails succeed later. The liveness properties carry their
hypotheses in the formula. `BroughtUpToDate` asks, for a sheet and a date, that the sheets
rest, that the sheet has cells and is not above the limits of parse and normalize, that no
run ends at this date or at one before it (with a duration that does not fit its column,
or with too many failing lines, unless that sheet is passed over as too large), and that
parse and normalize do not overlap in the end (which is what the two minutes are for). It
asks nothing of what comes after, and allows sheets above the limit before it. `TodayAssessed` that refreshes happen between the
runs of the current date. It promises only the current date because the timer
rebuilds no other, while each refresh deletes the assessments of all its dates.

## Where the code and its documents disagree

1. `run_audit(force=False)` is idempotent for one employee and day
   (ADR-0015), but two calls that overlap both find nothing and both execute.
2. Overlapping normalize runs corrupt nothing (ADR-0008), but a run reads its rows
   before it takes the lock: a slow one deletes the newer rows before it writes its own.
   If raw rows it has results for were replaced, the foreign key rejects it and the
   newer rows stay; but if the lines it read all failed it has nothing to insert, and
   the day is left empty.
3. Parse refreshes every sheet (ADR-0005), but a sheet without cells is not
   visited and keeps its tasks.
4. Too many errors abort the sheet and date (ADR-0009), but the exception ends the
   run, and every later partition waits for good.
5. Aggregation avoids stale rows (ADR-0012), but the cycles of an employee whose
   tasks of the date are all gone are never deleted.

Not runs of their own, but met while modelling:

- ADR-0020 says a failed run is recorded even when the pool is closed under it. The
  handler opens a new pool only for `DatabaseError`; between close and forget of
  `close_db` a thread gets psycopg's `PoolClosed` and the status is lost.
  `LostOnlyToShutdown` says exactly when. Threads that outlive the server may then
  create two pools, and nobody closes what they open.
- ADR-0014 clears the lookup cache after an index run, but in the indexer's
  process; the API's cache is cleared by nothing but eviction.
- ADR-0007 calls the resolution of names deterministic; a name equally near to two
  employees depends on the order of a set of strings. `EmployeesStable` shows that
  this is the only exception.
- README and RUNBOOK say every attempt to alert is logged; an attempt without a
  database, or one whose process dies after the send, is not.
- README gives the healthcheck exit code 1 for a data warning; an exception in a
  data check, such as the database failing then, is also 1.
- A cached audit copies the usage of the run it repeats, and the cost rollup sums
  both; its timer rolls up the date on which it runs, at the beginning of that date.
- Two ingest runs beside each other may leave cells of two fetches in one sheet.
- `FinalAuditReport` derives trust and priority "from base metrics"
  (`audit/schemas.py:61`). The reporter's answer was validated once already
  (`output_pydantic`), so it carries scores derived from the figures the crew wrote
  down; the merge replaces the figures and keeps those scores.
- `AuditPrefetchPayload` is a "single prefetch snapshot" (`audit/models.py:12`) of two
  statements, cycles and figures, each with a snapshot of its own, and is taken anew
  for each attempt.
- A confirmation sets `result_confirmed` of a row, and the next refresh of the sheet
  replaces the row with one whose flag comes from its text again.
- Two assess runs of one date may overlap, and no document says which wins: the older
  one's upsert puts the scores and the trust of what it has read over those a newer run
  made of a confirmation, until the next run. `ConfirmingNeverCosts` names this as the
  one way to a lower figure besides a withdrawal.
- Hours or minutes that are NaN in the evidence of a cutover pass its bounds
  (`hold_hours < 24.0`, `rollback_minutes <= 0.0`, `> 5.0`); `GoAheadTruthful` names
  this exception.
- The week of a board without a year cell takes the year of the fetch: after New Year
  the same board gives the dates of the new year.
- A table the reference of a parallel diff does not have counts as different by 100
  percent, however small it is.

## What is proved

All theorems are of `Init /\ [][Next]_vars`, for every value of the constants the
`ASSUME` of the module allows: any number of callers, keys, runs, sheets, dates,
employees, texts, faults, files, threads.

- `AuditRuns_proofs`: every safety and action property of `audit_runs`. The
  inductive invariant adds to them that rows above `nextRun` are absent and that a
  run somebody was answered for belongs to no call any more; without it a later
  failure handler could rewrite an answered row. Most actions rewrite one call and
  at most its own row, so one lemma (`OwnRowStep`) says what such an edit must
  respect, and each action only shows that it does.
- `AuditRefinement_proofs`: `AuditRuns` implements `AuditLedger`. Each action is
  a ledger step or a stutter, under the invariant above, which is what shows
  that a report is not published twice and that a cached one is public.
- `TaskRefresh_proofs`: types, `NormalizedMirrorsRaw`, `SheetFromOneSnapshot` and
  `NoDuplicateKeys`. The mirror property is not inductive: a run about to commit
  must have a snapshot that raw_tasks still shows wherever it is not `gone`
  (`SnapshotsValid`), no other run writes the partition (`OneWriterEach`), and its
  DELETE has seen every row its own would hit (`PartitionsOwned`).
  `OnlyParseRemovesRows` is proved for a single normalize run; with two it is
  false, as `refresh_overlap` shows. `ImplementsStore` and `WholeDays` need three facts
  more: what a run has read of a sheet is as raw_tasks has it, or all of it is gone,
  since a refresh removes every raw row of its sheet (`SnapshotsWhole`); between its
  DELETE and its COMMIT a run has as target exactly the rows its partition has
  (`TargetsExact`, for nobody else writes there); and the target of parse is in its
  sheet (`TargetInSheet`). So a commit is a `Normalize` in the first case, and in the
  second it can only be a `Forget`.
- `DailyAssess_proofs`: types, `AssessmentsSound`, `NoGhostFromNothing` and
  `RunLeavesDateConsistent`. The first part of the invariant says what a run has
  read: rows that exist unless known to be gone, metrics of some tasks, all on its
  own date. The second (`UndisturbedDone`) says for a run nothing has disturbed
  that it is alone on its date and, by stage, which tables already agree with the
  tasks. A step of any other run is on another date and leaves this one alone
  (`OtherDates`); a refresh of the date disturbs the run; its own steps move it to
  the next stage (`OwnStep`).

- `Text_proofs`.
  - `TextCovered`, whole words included, for any text and window. The invariant of the
    loop (`LoopInv`) says that everything before the next start is covered already and
    each word that ends before it is whole in a piece; a word across the start is whole
    in the next one because a piece is cut at the last blank it contains.
  - `CycleMerge`: every task is in one cycle, no two cycles share a key, and
    `MergedAsDefined`. `CycleInv` says the finished cycles and the current one divide the
    tasks of the turns so far, and each contains the task that gives it its key;
    `RuleInv` that each cycle is the stretch from its first task to the next first one,
    that the current one has the last first task, and that the first ones are those the
    rule begins a cycle with.
  - `KnowledgeIndex`: `ChunksMatchArticles`, `AnswersAreWhole`, `RunLeavesIndexFresh`.
    `IndexInv` adds that a run during which no file changed has parsed what it has not
    left to do as the files are (`FreshParsed`).
- `Sheet_proofs`.
  - `IngestedExactly`. A run alone on the table has, in the batches and ranges it is done
    with, the cells of the spreadsheet, if that was not edited meanwhile
    (`AloneIsExact`), and its DELETE has found every row of its range; a range that is
    fetched again, or that overlaps, writes the same. What a transaction does to others is
    that rows they were waiting for are gone (`OthersWait`).
    Cells outside every range are never filled.
  - `OverlapHeals`. A run that is alone from its first statement on sees in its dates and
    in its target every row there is (`AloneKnows`); so whatever two runs beside each
    other left, one that nobody joins leaves the lines it has read, and no other.
  - `BoardReadOnce` and `YearCellsPinDates`. The invariant (`ReadOfThese`) is that what
    is emitted was read of the cells as they are, in the present year or an earlier one;
    the rest is about the operators: a block ends before the next one's header, so each
    line is in one block at most, and a week with a year cell has the same dates in any
    year of fetch.
  - `EmployeesStable`: an answer is what its method may give, whatever the order of the
    names (`ResolvedWell`), so two answers for a name differ in a tie only.
- `AuditService_proofs`.
  - `OnePoolWhileServing` and `LostOnlyToShutdown`, for any number of threads. Only the
    server's pool, the first, is ever closed, and once a thread is in the second try of
    its handler the server has forgotten that one and every other stays open.
  - `ReportsShowTheDay`: the figures of an attempt are those of a moment its call has
    seen, and the answer it holds is one that can be used (`AttemptInv`).
  - `LogMatchesChats`: by stage of an alert, what the chat has, what the log has, and what
    its process knows of both (`AlertOK`).
  - `ExitCodeTruthful` and `GoAheadTruthful`: what was seen is what may be, and at each
    check all the ones before it, or before the exception, were looked at (`InOrder`,
    `StillToCome`; `LooksAt`, `SeenSoFar`).
- `Figures_proofs`.
  - `TotalsOfOneMoment` and `RunsStayCounted`. What a rollup holds is the ledger of
    one moment, as far as it can still be told (`RollupOK`); a stored total is the sum of
    what one rollup held (`OriginOK`); and a run that was counted before and is missed by
    a later rollup, which nothing overlapped, has been abandoned since.
  - `NormsBetweenExtremes`: a weighted mean of a mean and of a prior, rounded, is between
    the smallest and the greatest of what went into it: a fact about sums over
    finite sets, proved by a smallest counterexample.
  - `ConfirmationsHold` and `ConfirmingNeverCosts`: ids grow and are never given twice, so
    the row a client has seen is that row or gone (`RowsOK`); neither a score nor what a
    run has read is ever above what its row deserves now, unless a confirmation was
    withdrawn (`ScoresOK`), and only confirmations lie between figures and the rows they
    are of (`TrustOK`). A run that was not overtaken has read after the figures that stand
    were made (`ScoresBefore`, `TrustBefore`), so that what it writes is not lower; of one
    that was, nothing can be said. Any number of runs may overlap.

The assumptions are named in the modules and evaluated by the runs: sets of runs, lines,
tables, units, names, columns and task ids are finite; counts and bounds are numbers;
values that stand for "none" are not among the others; an answer of the crew that was
validated has figures of the right type; a category that no prior knows has none; a
week is neither blank nor a name. Each holds in the code by what the values are there.

The types of `DailyAssess` are proved and no longer part of a run; what
`OutcomeColumnsAgree` says of `audit_runs` is proved as well.
The types of the smaller parts are proved as the first conjunct of each part's
invariant, and no run repeats them. `NormalizedMirrorsRaw` is a part of `WholeDays`,
which the run checks in its place.

Only model-checked: everything under fairness (`EveryRunResolved`, `BroughtUpToDate`,
`TodayAssessed`, `ChunkingEnds`), which is out of the prover's reach, and the five
violations, which are one behaviour each. Induction over data is done without the
library's induction theorems, whose operator parameters the backends cannot
instantiate: a non-empty set of numbers has a least one (`LeastNat`), so a statement
about all finite sets that failed would fail first for a smallest one
(`SmallestSubset`).

## What is not modelled, and why

- Dates, times and categories as strings, and the lines within a cell: the models
  take the outcome of parsing a text as given.
- The Sheets API, Telegram and the LLM crew: external; only that a call succeeds,
  fails or times out matters to the state, and only where it is kept.
- `pipeline_errors`, `employees`: only added to, and read by no modelled step.
- Feedback, and the API's reads: feedback only adds rows nobody reads, and a read
  changes nothing; only the list a confirmation starts from is modelled.
- The agents and prompts of the crew: an answer is any of a set.
- The benchmark and other scripts that only call what is modelled.
- Migrating a database: the schema is taken as its last revision has it.
- The numbers in ghost time and the smart score: `DailyAssess` records what they were
  computed from; quality and trust have their numbers in `TaskConfirm`.

## Plan

Done, in this order: the audit ledger, the refresh of tasks, the daily assessment,
nine of the smaller parts; then the rollup over the ledger, an attempt's report, the
confirmation of tasks, weekly boards, overlapping parse runs and the cutover tools.
Next:

1. Several ranges of a sheet in `TaskRefresh`, with `IngestRun` in place of its change
   of cells.
2. A1 ranges as rectangles, with the bounds of `ingest/a1.py`.
3. The extractors of the knowledge base and the ranking of its matches.

Abstract specifications worth stating next: a date that a run replaces in one step, which
`DailyAssess` implements for an undisturbed one; an index of whole articles, which
`KnowledgeIndex` implements; a sheet that two overlapping parse runs change in two steps,
so that `ParseOverlap` says what a reader may see before it heals.

Theorems to follow: those refinements, and `WholeDays` as what `DailyAssess` may assume of
the rows it reads.
