----------------------------- MODULE DailyAssess -----------------------------
(***************************************************************************)
(* run_assess (WorkAI/assess/runner.py): ghost time, scoring, aggregation  *)
(* and norms of one date, four transactions one after the other, while     *)
(* parse and normalize runs replace the rows of tasks_normalized under     *)
(* them, and a manual run may assess the same date.                        *)
(*                                                                         *)
(* A place is a cell of the sheet: an employee, a date and a position. A   *)
(* row of tasks_normalized is its place and its text; an aggregated cycle  *)
(* is that of its first task. Transactions run at READ COMMITTED: each     *)
(* statement sees what is committed when it starts.                        *)
(***************************************************************************)
EXTENDS Integers, FiniteSets

CONSTANTS
  NEmployees, NDays, Width,  \* employees, dates, positions of an employee and date
  Texts,                     \* task texts; each has a task_category of its own
  Timed,                     \* the texts with a duration
  Priors,                    \* the texts whose category has a baseline prior
  None,                      \* no row
  Timer, Manuals,            \* the timer's assess run; runs started by hand
  WindowDays,                \* window_days of the norms
  MaxFaults                  \* bound: crashes and database failures

ASSUME DailyAssessAssumption ==
  /\ NEmployees \in Nat /\ NDays \in Nat \ {0} /\ Width \in Nat
  /\ Timed \subseteq Texts /\ Priors \subseteq Texts
  /\ None \notin Texts
  /\ Timer \notin Manuals
  /\ WindowDays \in Nat \ {0}
  /\ MaxFaults \in Nat

VARIABLES
  tasks,     \* tasks_normalized
  assessed,  \* daily_task_assessments: what the row's assessment holds
  cycles,    \* operational_cycles
  ghost,     \* employee_daily_ghost_time: the tasks it was computed from
  norms,     \* dynamic_task_norms: the categories with a row
  today,     \* date.today()
  run,       \* the assess runs
  faults

vars == <<tasks, assessed, cycles, ghost, norms, today, run, faults>>

Employees == 1 .. NEmployees
Days      == 1 .. NDays
Places    == Employees \X Days \X (1 .. Width)
Runs      == {Timer} \union Manuals

PlacesOf(e, d) == {pl \in Places : pl[1] = e /\ pl[2] = d}
PlacesOn(d)    == {pl \in Places : pl[2] = d}

\* An assessment has its scores from step 2 on and a norm from step 4 on.
Assessments == {"absent", "scored", "normed"}

\* Rows of a day as a SELECT returns them; the same shape serves for cycles,
\* whose key is the place and text of their first task.
Row == [place : Places, text : Texts, scored : BOOLEAN]

RowsOf(e, d) ==
  {[place |-> pl, text |-> tasks[pl], scored |-> assessed[pl] # "absent"] :
     pl \in {q \in PlacesOf(e, d) : tasks[q] # None}}

DayRows(d)      == UNION {RowsOf(e, d) : e \in Employees}
Tasks(S)        == {<<r.place, r.text>> : r \in S}
CyclesOf(e, d)  == {c \in cycles : c.place[1] = e /\ c.place[2] = d}
Present(d)      == {e \in Employees : \E pl \in PlacesOf(e, d) : tasks[pl] # None}

Stages == {"idle", "ghost", "scoring", "score", "aggregation", "delete",
           "aggregate", "norms", "recompute"}

IdleRun ==
  [stage |-> "idle", day |-> 1, todo |-> {}, ghost |-> [e \in Employees |-> {}],
   keys |-> {}, read |-> {}, gone |-> {}, target |-> {}, locked |-> {},
   stats |-> {}, disturbed |-> FALSE]

Run ==
  [stage : Stages, day : Days, todo : SUBSET Employees,
   ghost : [Employees -> SUBSET (Places \X Texts)], keys : SUBSET Employees,
   read : SUBSET Row, gone : SUBSET Places,
   target : SUBSET Row, locked : SUBSET Row,
   stats : SUBSET Texts, disturbed : BOOLEAN]

TypeOK ==
  /\ tasks \in [Places -> Texts \union {None}]
  /\ assessed \in [Places -> Assessments]
  /\ cycles \in SUBSET Row
  /\ ghost \in [Employees \X Days -> {None} \union SUBSET (Places \X Texts)]
  /\ norms \in SUBSET Texts
  /\ today \in Days
  /\ run \in [Runs -> Run]
  /\ faults \in 0 .. MaxFaults

Init ==
  /\ tasks = [pl \in Places |-> None]
  /\ assessed = [pl \in Places |-> "absent"]
  /\ cycles = {}
  /\ ghost = [k \in Employees \X Days |-> None]
  /\ norms = {}
  /\ today = 1
  /\ run = [p \in Runs |-> IdleRun]
  /\ faults = 0

-----------------------------------------------------------------------------
(* The rest of the pipeline                                                *)

\* A transaction of parse or normalize deletes the rows of the dates D, and with
\* them their assessments (ON DELETE CASCADE); normalize, which takes one date at
\* a time, inserts rows with new ids, parse none.
Replace(D, f) ==
  /\ tasks' = [pl \in Places |-> IF pl[2] \in D THEN f[pl] ELSE tasks[pl]]
  /\ assessed' = [pl \in Places |-> IF pl[2] \in D THEN "absent" ELSE assessed[pl]]
  /\ run' = [p \in Runs |->
               IF run[p].stage # "idle" /\ run[p].day \in D
               THEN [run[p] EXCEPT !.disturbed = TRUE,
                                   !.gone = PlacesOn(run[p].day)]
               ELSE run[p]]
  /\ UNCHANGED <<cycles, ghost, norms, today, faults>>

NormalizeDate(d, f) == Replace({d}, f)

ParseClears == Replace(Days, [pl \in Places |-> None])

NextDay ==
  /\ today < NDays
  /\ today' = today + 1
  /\ UNCHANGED <<tasks, assessed, cycles, ghost, norms, run, faults>>

-----------------------------------------------------------------------------
(* Step 1: run_assess_ghost_time                                           *)

\* The timer's run takes today, a manual one any date; the employees of the
\* date are listed. A run beside another on its date disturbs both.
Begin(p, d) ==
  LET beside == {q \in Runs : run[q].stage # "idle" /\ run[q].day = d} IN
  /\ run[p].stage = "idle"
  /\ p = Timer => d = today
  /\ run' = [q \in Runs |->
               IF q = p
               THEN [IdleRun EXCEPT !.stage = "ghost", !.day = d,
                                    !.todo = Present(d), !.keys = Present(d),
                                    !.disturbed = beside # {}]
               ELSE IF q \in beside THEN [run[q] EXCEPT !.disturbed = TRUE]
               ELSE run[q]]
  /\ UNCHANGED <<tasks, assessed, cycles, ghost, norms, today, faults>>

\* A run after a transaction: only the date is kept.
After(p, stage) ==
  [IdleRun EXCEPT !.stage = stage, !.day = run[p].day, !.disturbed = run[p].disturbed]

NextEmployee(p, e) == e \in run[p].todo /\ \A other \in run[p].todo : e <= other

\* Mutant: sums over no rows are taken as zero.
HasMetricsAlways(p, e) == TRUE

\* The sums over no rows are NULL.
HasMetrics(p, e) == e \in Present(run[p].day)

\* The metrics of an employee are a statement of their own.
GhostMetrics(p, e) ==
  /\ run[p].stage = "ghost"
  /\ NextEmployee(p, e)
  /\ HasMetrics(p, e)
  /\ run' = [run EXCEPT ![p].todo = @ \ {e},
                        ![p].ghost[e] = Tasks(RowsOf(e, run[p].day))]
  /\ UNCHANGED <<tasks, assessed, cycles, ghost, norms, today, faults>>

\* int(None) raises: the transaction rolls back and the run ends.
GhostFails(p, e) ==
  /\ run[p].stage = "ghost"
  /\ NextEmployee(p, e)
  /\ ~HasMetrics(p, e)
  /\ run' = [run EXCEPT ![p] = IdleRun]
  /\ UNCHANGED <<tasks, assessed, cycles, ghost, norms, today, faults>>

GhostCommit(p) ==
  /\ run[p].stage = "ghost"
  /\ run[p].todo = {}
  /\ ghost' = [k \in Employees \X Days |->
                 IF k[1] \in run[p].keys /\ k[2] = run[p].day
                 THEN run[p].ghost[k[1]] ELSE ghost[k]]
  /\ run' = [run EXCEPT ![p] = After(p, "scoring")]
  /\ UNCHANGED <<tasks, assessed, cycles, norms, today, faults>>

-----------------------------------------------------------------------------
(* Step 2: run_assess_scoring                                              *)

ScoreRead(p) ==
  /\ run[p].stage = "scoring"
  /\ run' = [run EXCEPT ![p].stage = "score", ![p].gone = {},
                        ![p].read = DayRows(run[p].day)]
  /\ UNCHANGED <<tasks, assessed, cycles, ghost, norms, today, faults>>

ReadPlaces(p) == {r.place : r \in run[p].read}

\* Mutant: no foreign key.
TasksUnchecked(p) == TRUE

\* The foreign key of the assessments: the rows read are still there.
TasksExist(p) == ReadPlaces(p) \intersect run[p].gone = {}

\* The upsert resets norm_minutes.
ScoreCommit(p) ==
  /\ run[p].stage = "score"
  /\ TasksExist(p)
  /\ assessed' = [pl \in Places |-> IF pl \in ReadPlaces(p) THEN "scored" ELSE assessed[pl]]
  /\ run' = [run EXCEPT ![p] = After(p, "aggregation")]
  /\ UNCHANGED <<tasks, cycles, ghost, norms, today, faults>>

ScoreRejected(p) ==
  /\ run[p].stage = "score"
  /\ ~TasksExist(p)
  /\ run' = [run EXCEPT ![p] = IdleRun]
  /\ UNCHANGED <<tasks, assessed, cycles, ghost, norms, today, faults>>

-----------------------------------------------------------------------------
(* Step 3: run_assess_aggregation                                          *)

AggregateRead(p) ==
  /\ run[p].stage = "aggregation"
  /\ run' = [run EXCEPT ![p].stage = "delete", ![p].read = DayRows(run[p].day)]
  /\ UNCHANGED <<tasks, assessed, cycles, ghost, norms, today, faults>>

LockedByOthers(p) == UNION {run[q].locked : q \in Runs \ {p}}

\* The old cycles of the employees with a task in what was read.
Outdated(p) ==
  {c \in cycles : c.place[2] = run[p].day /\ \E r \in run[p].read : r.place[1] = c.place[1]}

AggregateDelete(p) ==
  /\ run[p].stage = "delete"
  /\ run' = [run EXCEPT ![p].stage = "aggregate", ![p].target = Outdated(p),
                        ![p].locked = Outdated(p) \ LockedByOthers(p)]
  /\ UNCHANGED <<tasks, assessed, cycles, ghost, norms, today, faults>>

\* The cycles whose key one of the rows has.
SameKey(S, rows) == {c \in S : <<c.place, c.text>> \in Tasks(rows)}

\* The DELETE has waited for the rows another run deletes, whose new cycles it
\* does not see; then the cycles read are inserted or updated.
AggregateCommit(p) ==
  LET kept == cycles \ run[p].target IN
  /\ run[p].stage = "aggregate"
  /\ run[p].target \intersect LockedByOthers(p) = {}
  /\ cycles' = (kept \ SameKey(kept, run[p].read)) \union run[p].read
  /\ run' = [q \in Runs |->
               IF q = p
               THEN After(p, "norms")
               ELSE [run[q] EXCEPT !.target = @ \ run[p].target]]
  /\ UNCHANGED <<tasks, assessed, ghost, norms, today, faults>>

-----------------------------------------------------------------------------
(* Step 4: run_assess_bayesian_norms                                       *)

\* Mutant: the window ends the day before.
WindowExclusive(d) == {other \in Days : d - WindowDays <= other /\ other < d}

Window(d) == {other \in Days : d - WindowDays < other /\ other <= d}

NormsRead(p) ==
  /\ run[p].stage = "norms"
  /\ run' = [run EXCEPT ![p].stage = "recompute",
                        ![p].stats = {tasks[pl] : pl \in
                           {q \in Places : q[2] \in Window(run[p].day) /\ tasks[q] \in Timed}}]
  /\ UNCHANGED <<tasks, assessed, cycles, ghost, norms, today, faults>>

\* The categories of the window and the priors get a norm, and with it the
\* assessments of the date whose category has one, now or from before.
NormsCommit(p) ==
  /\ run[p].stage = "recompute"
  /\ norms' = norms \union Priors \union run[p].stats
  /\ assessed' = [pl \in Places |->
                    IF /\ pl[2] = run[p].day
                       /\ assessed[pl] # "absent"
                       /\ tasks[pl] \in norms'
                    THEN "normed" ELSE assessed[pl]]
  /\ run' = [run EXCEPT ![p] = IdleRun]
  /\ UNCHANGED <<tasks, cycles, ghost, today, faults>>

-----------------------------------------------------------------------------
\* A crash or a database failure rolls the open transaction back; what earlier
\* steps committed stays.
Fault(p) ==
  /\ run[p].stage # "idle"
  /\ faults < MaxFaults
  /\ run' = [run EXCEPT ![p] = IdleRun]
  /\ faults' = faults + 1
  /\ UNCHANGED <<tasks, assessed, cycles, ghost, norms, today>>

Step(p) ==
  \/ \E e \in Employees : GhostMetrics(p, e) \/ GhostFails(p, e)
  \/ GhostCommit(p)
  \/ ScoreRead(p) \/ ScoreCommit(p) \/ ScoreRejected(p)
  \/ AggregateRead(p) \/ AggregateDelete(p) \/ AggregateCommit(p)
  \/ NormsRead(p) \/ NormsCommit(p)

Next ==
  \/ \E d \in Days : \E f \in [PlacesOn(d) -> Texts \union {None}] : NormalizeDate(d, f)
  \/ ParseClears
  \/ NextDay
  \/ \E p \in Runs : (\E d \in Days : Begin(p, d)) \/ Step(p) \/ Fault(p)

\* The timer starts a run every 15 minutes, and a run goes on to its end.
Fairness ==
  /\ WF_vars(\E d \in Days : Begin(Timer, d))
  /\ \A p \in Runs : WF_vars(Step(p))

Spec     == Init /\ [][Next]_vars
FairSpec == Spec /\ Fairness

-----------------------------------------------------------------------------
(* Safety                                                                  *)

\* An assessment always belongs to a row that is there, and its norm to a
\* category with a norm, whatever the run read before the rows were replaced.
AssessmentsSound ==
  \A pl \in Places :
    /\ assessed[pl] # "absent" => tasks[pl] # None
    /\ assessed[pl] = "normed" => tasks[pl] \in norms

\* No employee is booked a day without work: a ghost-time row is never
\* computed from the moment between a parse run and the normalize run after it.
NoGhostFromNothing == \A k \in Employees \X Days : ghost[k] # None => ghost[k] # {}

\* Steps 1 to 4 left e's date d as tasks_normalized has it.
Consistent(e, d) ==
  /\ ghost[<<e, d>>] = Tasks(RowsOf(e, d))
  /\ CyclesOf(e, d) = RowsOf(e, d)
  /\ \A pl \in PlacesOf(e, d) :
       tasks[pl] # None =>
         /\ assessed[pl] # "absent"
         /\ tasks[pl] \in Timed \union Priors => assessed[pl] = "normed"

(* Action properties                                                       *)

\* A run nothing disturbs ends with all four tables of its date consistent, for
\* every employee with tasks on it, whatever earlier runs left behind.
RunLeavesDateConsistent ==
  [][\A p \in Runs, d \in Days :
       run[p].stage = "recompute" /\ NormsCommit(p) /\ run[p].day = d /\ ~run[p].disturbed =>
         \A e \in Present(d) : Consistent(e, d)']_vars

\* Refresh semantics avoid stale rows (ADR-0012): when such a run ends, every
\* cycle of its date is a task of that date.
NoStaleCycles ==
  [][\A p \in Runs :
       run[p].stage = "recompute" /\ NormsCommit(p) /\ ~run[p].disturbed =>
         \A c \in cycles' : c.place[2] = run[p].day => tasks[c.place] = c.text]_vars

(* Liveness                                                                *)

\* However often parse and normalize replace the rows, once they do so between
\* the runs of the current date, every employee with tasks on it is assessed
\* again and again.
TodayAssessed ==
  \A d \in Days :
    <>[](today = d /\ \A p \in Runs : ~run[p].disturbed)
      => \A e \in Employees : []<>(e \in Present(d) => Consistent(e, d))
=============================================================================
