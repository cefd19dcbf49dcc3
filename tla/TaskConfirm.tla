----------------------------- MODULE TaskConfirm -----------------------------
(***************************************************************************)
(* The confirmation of a task (WorkAI/api/routes/tasks.py): a client lists *)
(* the normalized tasks of an employee and day and sets result_confirmed   *)
(* of one by its id, while parse and normalize replace the rows, each with *)
(* a new id, and assess scores them.  TaskRefresh and DailyAssess model    *)
(* these in detail; here a refresh is its two transactions, and an assess  *)
(* run the SELECT and the commit of its first two steps.  No lock keeps    *)
(* the timer's run and one started by hand apart, so that one may write    *)
(* over what the other has written since it read the tasks.                *)
(***************************************************************************)
EXTENDS Integers, FiniteSets, FiniteSetsExt

CONSTANTS
  Lines,      \* the task lines of the employee and day, numbered as in the sheet
  Derived,    \* the lines normalize takes to be confirmed by their text
  TimeSource, \* line -> time_source
  Assessors,  \* assess runs that can be in progress at once
  MaxRowIds,  \* bound: rows inserted
  MaxConfirms \* bound: calls of the endpoint

ASSUME TaskConfirmAssumption ==
  /\ Lines \subseteq Nat /\ IsFiniteSet(Lines) /\ Derived \subseteq Lines
  /\ TimeSource \in [Lines -> {"none", "estimated", "logged", "inferred"}]
  /\ MaxRowIds \in Nat /\ MaxConfirms \in Nat

VARIABLES
  raw,       \* the lines in raw_tasks
  dayRows,   \* tasks_normalized: id -> line and result_confirmed
  nextId,    \* the sequence of ids
  shown,     \* the client's list: <<id, line>>
  told,      \* history: <<id, line, flag>> of the last confirmation of each row
  confirms,  \* calls made
  withdrawn, \* history: the rows whose confirmation was ever withdrawn
  quality,   \* daily_task_assessments: id -> quality_score in tenths
  trust,     \* employee_daily_ghost_time: what index_of_trust_base is made of
  assess     \* the assess runs

confirmVars == <<raw, dayRows, nextId, shown, told, confirms, withdrawn,
                 quality, trust, assess>>

RowIds == 1 .. MaxRowIds

ConfirmRow == [line : Lines, confirmed : BOOLEAN]

\* What is counted of the tasks, and as history, of which rows.
Metrics == [rows : SUBSET RowIds, total : Nat, none : Nat, unconfirmed : Nat]

NoMetrics == [rows |-> {}, total |-> 0, none |-> 0, unconfirmed |-> 0]

\* A run and, as history, whether another has overtaken it: has written to the
\* same table since the SELECT.
IdleAssess == [stage |-> "idle", metrics |-> NoMetrics, tasks |-> <<>>, overtaken |-> FALSE]

\* tasks and quality are functions on the ids that have a row.
ConfirmTypeOK ==
  /\ raw \subseteq Lines
  /\ DOMAIN dayRows \subseteq RowIds /\ dayRows \in [DOMAIN dayRows -> ConfirmRow]
  /\ nextId \in 1 .. MaxRowIds + 1
  /\ shown \subseteq RowIds \X Lines
  /\ told \subseteq RowIds \X Lines \X BOOLEAN
  /\ confirms \in 0 .. MaxConfirms
  /\ withdrawn \subseteq RowIds
  /\ DOMAIN quality \subseteq DOMAIN dayRows /\ quality \in [DOMAIN quality -> 0 .. 10]
  /\ trust \in Metrics
  /\ DOMAIN assess = Assessors
  /\ \A p \in Assessors :
       /\ assess[p].stage \in {"idle", "metrics", "ghost", "scoring"}
       /\ assess[p].metrics \in Metrics /\ assess[p].overtaken \in BOOLEAN
       /\ DOMAIN assess[p].tasks \subseteq RowIds

ConfirmInit ==
  /\ raw = Lines
  /\ dayRows = <<>>
  /\ nextId = 1
  /\ shown = {} /\ told = {} /\ confirms = 0 /\ withdrawn = {}
  /\ quality = <<>> /\ trust = NoMetrics
  /\ assess = [p \in Assessors |-> IdleAssess]

-----------------------------------------------------------------------------
\* Parse refreshes the sheet: the rows of both tables are deleted, and their
\* assessments with them; the sheet may have changed.
ParseAgain ==
  /\ raw' \in SUBSET Lines
  /\ dayRows' = <<>> /\ quality' = <<>>
  /\ UNCHANGED <<nextId, shown, told, confirms, withdrawn, trust, assess>>

\* The ids of a batch of new rows.
NewIds == nextId .. nextId + Cardinality(raw) - 1

\* Mutant: the rows are written over the old ones, whose ids they keep.
NormalizeInPlace ==
  /\ raw # {} /\ Cardinality(raw) <= MaxRowIds
  /\ \E place \in [1 .. Cardinality(raw) -> raw] :
       /\ \A i, j \in DOMAIN place : i < j => place[i] < place[j]
       /\ dayRows' = [i \in DOMAIN place |-> [line |-> place[i], confirmed |-> place[i] \in Derived]]
  /\ quality' = <<>>
  /\ UNCHANGED <<raw, nextId, shown, told, confirms, withdrawn, trust, assess>>

\* Normalize deletes the rows of the day and inserts one for each raw line in the
\* order of the sheet, with the flag its text gives (_is_result_confirmed), in one
\* transaction.
NormalizeAgain ==
  /\ nextId + Cardinality(raw) <= MaxRowIds + 1
  /\ raw # {}
  /\ \E place \in [NewIds -> raw] :
       /\ \A i, j \in NewIds : i < j => place[i] < place[j]
       /\ dayRows' = [i \in NewIds |-> [line |-> place[i], confirmed |-> place[i] \in Derived]]
  /\ nextId' = nextId + Cardinality(raw)
  /\ quality' = <<>>
  /\ UNCHANGED <<raw, shown, told, confirms, withdrawn, trust, assess>>

-----------------------------------------------------------------------------
\* GET /tasks/normalized
ListTasks ==
  /\ shown' = {<<i, dayRows[i].line>> : i \in DOMAIN dayRows}
  /\ UNCHANGED <<raw, dayRows, nextId, told, confirms, withdrawn, quality, trust, assess>>

\* POST /tasks/{id}/confirm for a task the client was shown: an UPDATE by id and
\* a commit.  The client is told so unless the answer is lost on the way.
Confirm(seen, flag) ==
  LET id == seen[1] IN
  /\ confirms < MaxConfirms
  /\ id \in DOMAIN dayRows
  /\ confirms' = confirms + 1
  /\ dayRows' = [dayRows EXCEPT ![id].confirmed = flag]
  /\ told' = {t \in told : t[1] # id} \union {<<id, seen[2], flag>>}
  /\ withdrawn' = IF flag THEN withdrawn ELSE withdrawn \union {id}
  /\ UNCHANGED <<raw, nextId, shown, quality, trust, assess>>

\* 404: the row is gone.
ConfirmNotFound(seen) ==
  /\ confirms < MaxConfirms
  /\ seen[1] \notin DOMAIN dayRows
  /\ confirms' = confirms + 1
  /\ UNCHANGED <<raw, dayRows, nextId, shown, told, withdrawn, quality, trust, assess>>

-----------------------------------------------------------------------------
WithoutTime == {i \in DOMAIN dayRows : TimeSource[dayRows[i].line] = "none"}

ConfirmedRows == {i \in DOMAIN dayRows : dayRows[i].confirmed}

\* Mutant: the trust counts the confirmed.
MetricsInverted ==
  [rows  |-> DOMAIN dayRows,
   total |-> Cardinality(DOMAIN dayRows),
   none  |-> Cardinality(WithoutTime), unconfirmed |-> Cardinality(ConfirmedRows)]

\* fetch_employee_day_metrics
MetricsNow ==
  [rows  |-> DOMAIN dayRows,
   total |-> Cardinality(DOMAIN dayRows),
   none  |-> Cardinality(WithoutTime),
   unconfirmed |-> Cardinality(DOMAIN dayRows \ ConfirmedRows)]

\* compute_quality_score, in tenths: "none" costs 6, "estimated" 3, a result
\* that is not confirmed 4, and no score is below 0.
QualityOf(t) ==
  LET evidence == CASE TimeSource[t.line] = "none" -> 6
                    [] TimeSource[t.line] = "estimated" -> 3
                    [] OTHER -> 0
  IN  Max({0, 10 - evidence - IF t.confirmed THEN 0 ELSE 4})

\* p commits what it writes between the SELECT and the commit of those in stage.
Overtaking(p, stage, run) ==
  assess' = [q \in Assessors |->
               IF q = p THEN run
               ELSE [assess[q] EXCEPT !.overtaken = @ \/ assess[q].stage = stage]]

\* run_assess_ghost_time: an employee without rows is not listed.
ReadMetrics(p) ==
  /\ assess[p].stage = "idle"
  /\ DOMAIN dayRows # {}
  /\ assess' = [assess EXCEPT ![p] = [IdleAssess EXCEPT !.stage = "metrics", !.metrics = MetricsNow]]
  /\ UNCHANGED <<raw, dayRows, nextId, shown, told, confirms, withdrawn, quality, trust>>

\* INSERT ... ON CONFLICT DO UPDATE, whatever has been written since.
WriteGhost(p) ==
  /\ assess[p].stage = "metrics"
  /\ trust' = assess[p].metrics
  /\ Overtaking(p, "metrics", [IdleAssess EXCEPT !.stage = "ghost"])
  /\ UNCHANGED <<raw, dayRows, nextId, shown, told, confirms, withdrawn, quality>>

\* run_assess_scoring
ReadTasks(p) ==
  /\ assess[p].stage = "ghost"
  /\ assess' = [assess EXCEPT ![p] = [IdleAssess EXCEPT !.stage = "scoring", !.tasks = dayRows]]
  /\ UNCHANGED <<raw, dayRows, nextId, shown, told, confirms, withdrawn, quality, trust>>

\* INSERT ... ON CONFLICT DO UPDATE of each row that was read.
WriteScores(p) ==
  LET tasks == assess[p].tasks IN
  /\ assess[p].stage = "scoring"
  /\ DOMAIN tasks \subseteq DOMAIN dayRows
  /\ quality' = [i \in DOMAIN quality \union DOMAIN tasks |->
                   IF i \in DOMAIN tasks THEN QualityOf(tasks[i]) ELSE quality[i]]
  /\ Overtaking(p, "scoring", IdleAssess)
  /\ UNCHANGED <<raw, dayRows, nextId, shown, told, confirms, withdrawn, trust>>

\* The run dies, or fails on a foreign key when a row it scored is gone.
AssessFails(p) ==
  /\ assess[p].stage # "idle"
  /\ assess' = [assess EXCEPT ![p] = IdleAssess]
  /\ UNCHANGED <<raw, dayRows, nextId, shown, told, confirms, withdrawn, quality, trust>>

ConfirmNext ==
  \/ ParseAgain
  \/ NormalizeAgain
  \/ ListTasks
  \/ \E seen \in shown, flag \in BOOLEAN : Confirm(seen, flag)
  \/ \E seen \in shown : ConfirmNotFound(seen)
  \/ \E p \in Assessors :
       \/ ReadMetrics(p) \/ WriteGhost(p)
       \/ ReadTasks(p) \/ WriteScores(p)
       \/ AssessFails(p)

ConfirmSpec == ConfirmInit /\ [][ConfirmNext]_confirmVars

-----------------------------------------------------------------------------
\* A confirmation reaches the task the client was shown, however long ago, or
\* none: its row still is that task, with the flag that was asked for.  Only a
\* refresh, which gives the task a new row, ends it.
ConfirmationsHold ==
  \A t \in told :
    t[1] \in DOMAIN dayRows => dayRows[t[1]] = [line |-> t[2], confirmed |-> t[3]]

\* The index of trust of the day, doubled and times total: as a fraction,
\* 1 - none / 2 total - unconfirmed / 2 total.
TrustParts(t) == 2 * t.total - t.none - t.unconfirmed

TrustNotLess(t, u) ==
  t.total # 0 => u.total # 0 /\ TrustParts(t) * u.total <= TrustParts(u) * t.total

\* A run that another has overtaken writes, in its own stage.
OvertakenWrites(stage) ==
  \E p \in Assessors :
    assess[p].stage = stage /\ assess[p].overtaken /\ assess'[p].stage # stage

\* A step lowers no score without a reason.
NeverCosts ==
  /\ \A i \in DOMAIN quality :
       i \in DOMAIN quality' /\ quality'[i] < quality[i]
         => i \in withdrawn \/ OvertakenWrites("scoring")
  /\ trust'.rows = trust.rows /\ trust.rows \intersect withdrawn = {}
       => TrustNotLess(trust, trust') \/ OvertakenWrites("metrics")

\* Confirming a result never costs: while the rows stay, a task's quality score
\* and the day's index of trust become lower in two ways only: a confirmation
\* was withdrawn, or a run that read the rows before another run wrote what it
\* had read puts its older figures over them.  Otherwise neither is ever lower
\* than before, wherever confirmations, refreshes, overlapping runs and failures
\* of runs fell.
ConfirmingNeverCosts == [][NeverCosts]_confirmVars
=============================================================================
