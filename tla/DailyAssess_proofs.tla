-------------------------- MODULE DailyAssess_proofs --------------------------
(***************************************************************************)
(* Proofs about DailyAssess, for any employees, dates, texts, runs and     *)
(* bounds.                                                                 *)
(***************************************************************************)
EXTENDS DailyAssess, TLAPS

\* The rows scoring has read are in tasks_normalized, but for those deleted since.
ReadsExist ==
  \A p \in Runs : run[p].stage = "score" =>
    \A r \in run[p].read : r.place \notin run[p].gone => tasks[r.place] # None

\* The metrics a ghost-time transaction has computed are those of some tasks.
MetricsOfTasks ==
  \A p \in Runs : run[p].stage = "ghost" =>
    \A e \in run[p].keys \ run[p].todo : run[p].ghost[e] # {}

\* What a run has read, or found to delete, is of its own date.
OwnDate ==
  \A p \in Runs :
    /\ \A r \in run[p].read : r.place[2] = run[p].day
    /\ \A c \in run[p].target : c.place[2] = run[p].day

\* The only run on its date.
Alone(p) == \A q \in Runs \ {p} : run[q].stage = "idle" \/ run[q].day # run[p].day

\* What the steps an undisturbed run has done so far have left, by stage.
GhostSoFar(p) ==
  run[p].stage = "ghost" =>
    /\ run[p].keys = Present(run[p].day)
    /\ \A e \in run[p].keys \ run[p].todo :
         run[p].ghost[e] = Tasks(RowsOf(e, run[p].day))

GhostDone(p) ==
  run[p].stage # "ghost" =>
    \A e \in Present(run[p].day) :
      ghost[<<e, run[p].day>>] = Tasks(RowsOf(e, run[p].day))

ReadCurrent(p) ==
  run[p].stage \in {"score", "delete", "aggregate"} => run[p].read = DayRows(run[p].day)

ScoringDone(p) ==
  run[p].stage \in {"aggregation", "delete", "aggregate", "norms", "recompute"} =>
    \A pl \in PlacesOn(run[p].day) : tasks[pl] # None => assessed[pl] # "absent"

TargetCurrent(p) == run[p].stage = "aggregate" => run[p].target = Outdated(p)

CyclesDone(p) ==
  run[p].stage \in {"norms", "recompute"} =>
    \A e \in Present(run[p].day) : CyclesOf(e, run[p].day) = RowsOf(e, run[p].day)

StatsCurrent(p) ==
  run[p].stage = "recompute" =>
    \A pl \in PlacesOn(run[p].day) : tasks[pl] \in Timed => tasks[pl] \in run[p].stats

Done(p) ==
  /\ Alone(p)
  /\ GhostSoFar(p) /\ GhostDone(p)
  /\ ReadCurrent(p) /\ ScoringDone(p)
  /\ TargetCurrent(p) /\ CyclesDone(p)
  /\ StatsCurrent(p)

UndisturbedDone ==
  \A p \in Runs : run[p].stage # "idle" /\ ~run[p].disturbed => Done(p)

SInv ==
  /\ TypeOK
  /\ AssessmentsSound
  /\ NoGhostFromNothing
  /\ ReadsExist
  /\ MetricsOfTasks
  /\ OwnDate

IInv == SInv /\ UndisturbedDone

-----------------------------------------------------------------------------
(* Facts about places and rows                                             *)

\* The parts of a place.
LEMMA PlaceParts ==
  ASSUME NEW pl \in Places
  PROVE  /\ pl[1] \in Employees /\ pl[2] \in Days
         /\ pl \in PlacesOf(pl[1], pl[2])
         /\ pl \in PlacesOn(pl[2])
BY DEF Places, PlacesOf, PlacesOn

\* The rows of an employee and a date are those of their places with a task.
LEMMA RowsOfFacts ==
  ASSUME TypeOK, NEW e \in Employees, NEW d \in Days
  PROVE  /\ RowsOf(e, d) \subseteq Row
         /\ \A r \in RowsOf(e, d) :
              /\ r.place \in PlacesOf(e, d)
              /\ r.place[1] = e /\ r.place[2] = d
              /\ tasks[r.place] # None /\ r.text = tasks[r.place]
              /\ r.scored = (assessed[r.place] # "absent")
         /\ \A pl \in PlacesOf(e, d) : tasks[pl] # None =>
              \E r \in RowsOf(e, d) : r.place = pl
<1>1. \A pl \in PlacesOf(e, d) :
        pl \in Places /\ pl[1] = e /\ pl[2] = d /\ tasks[pl] \in Texts \union {None}
  BY DEF PlacesOf, TypeOK
<1> DEFINE row(pl) ==
      [place |-> pl, text |-> tasks[pl], scored |-> assessed[pl] # "absent"]
<1>2. \A r : r \in RowsOf(e, d) <=> \E pl \in PlacesOf(e, d) : tasks[pl] # None /\ r = row(pl)
  BY DEF RowsOf
<1>3. ASSUME NEW pl \in PlacesOf(e, d), tasks[pl] # None
      PROVE  /\ row(pl) \in Row
             /\ row(pl).place = pl /\ row(pl).text = tasks[pl]
             /\ row(pl).scored = (assessed[pl] # "absent")
  <2>1. (assessed[pl] # "absent") \in BOOLEAN
    OBVIOUS
  <2> QED
    BY <1>1, <1>3, <2>1 DEF Row
<1> HIDE DEF row
<1>4. \A r \in RowsOf(e, d) : \E pl \in PlacesOf(e, d) : tasks[pl] # None /\ r = row(pl)
  BY <1>2
<1>5. \A pl \in PlacesOf(e, d) : tasks[pl] # None => \E r \in RowsOf(e, d) : r.place = pl
  BY <1>2, <1>3
<1>6. RowsOf(e, d) \subseteq Row
  BY <1>3, <1>4
<1>7. ASSUME NEW r \in RowsOf(e, d)
      PROVE  /\ r.place \in PlacesOf(e, d)
             /\ r.place[1] = e /\ r.place[2] = d
             /\ tasks[r.place] # None /\ r.text = tasks[r.place]
             /\ r.scored = (assessed[r.place] # "absent")
  <2>1. PICK pl \in PlacesOf(e, d) : tasks[pl] # None /\ r = row(pl)
    BY <1>4
  <2>2. r.place = pl /\ r.text = tasks[pl] /\ r.scored = (assessed[pl] # "absent")
    BY <1>3, <2>1
  <2> QED
    BY <1>1, <2>1, <2>2
<1> QED
  BY <1>5, <1>6, <1>7

\* The rows of a date are those of its places with a task.
LEMMA DayRowsFacts ==
  ASSUME TypeOK, NEW d \in Days
  PROVE  /\ DayRows(d) \subseteq Row
         /\ \A r \in DayRows(d) :
              /\ r.place \in PlacesOn(d) /\ r.place[2] = d
              /\ tasks[r.place] # None /\ r.text = tasks[r.place]
              /\ r.place[1] \in Present(d)
         /\ \A pl \in PlacesOn(d) : tasks[pl] # None =>
              \E r \in DayRows(d) : r.place = pl
         /\ \A e \in Employees : \A r : r \in RowsOf(e, d) <=> r \in DayRows(d) /\ r.place[1] = e
<1>1. \A r : r \in DayRows(d) <=> \E e \in Employees : r \in RowsOf(e, d)
  BY DEF DayRows
<1>2. DayRows(d) \subseteq Row
  BY <1>1, RowsOfFacts
<1>3. ASSUME NEW r \in DayRows(d)
      PROVE  /\ r.place \in PlacesOn(d) /\ r.place[2] = d
             /\ tasks[r.place] # None /\ r.text = tasks[r.place]
             /\ r.place[1] \in Present(d)
  <2>1. PICK e \in Employees : r \in RowsOf(e, d)
    BY <1>1, <1>3
  <2> QED
    BY <2>1, RowsOfFacts DEF PlacesOf, PlacesOn, Present
<1>4. ASSUME NEW pl \in PlacesOn(d), tasks[pl] # None
      PROVE  \E r \in DayRows(d) : r.place = pl
  <2>1. pl \in Places /\ pl[2] = d
    BY DEF PlacesOn
  <2>2. pl[1] \in Employees /\ pl \in PlacesOf(pl[1], d)
    BY <2>1, PlaceParts
  <2>3. PICK r \in RowsOf(pl[1], d) : r.place = pl
    BY <1>4, <2>2, RowsOfFacts
  <2> QED
    BY <1>1, <2>2, <2>3
<1>5. \A e \in Employees : \A r : r \in RowsOf(e, d) <=> r \in DayRows(d) /\ r.place[1] = e
  BY <1>1, RowsOfFacts
<1> QED
  BY <1>2, <1>3, <1>4, <1>5

\* Whoever is present has tasks, and these tell no more than tasks_normalized.
LEMMA TasksFacts ==
  ASSUME TypeOK, NEW e \in Employees, NEW d \in Days
  PROVE  /\ Tasks(RowsOf(e, d)) =
              {<<pl, tasks[pl]>> : pl \in {q \in PlacesOf(e, d) : tasks[q] # None}}
         /\ Tasks(RowsOf(e, d)) \subseteq Places \X Texts
         /\ e \in Present(d) => Tasks(RowsOf(e, d)) # {}
<1> DEFINE pairs == {<<pl, tasks[pl]>> : pl \in {q \in PlacesOf(e, d) : tasks[q] # None}}
<1>1. Tasks(RowsOf(e, d)) \subseteq pairs
  BY RowsOfFacts DEF Tasks
<1>2. pairs \subseteq Tasks(RowsOf(e, d))
  <2>1. ASSUME NEW pl \in PlacesOf(e, d), tasks[pl] # None
        PROVE  <<pl, tasks[pl]>> \in Tasks(RowsOf(e, d))
    <3>1. PICK r \in RowsOf(e, d) : r.place = pl
      BY <2>1, RowsOfFacts
    <3> QED
      BY <3>1, RowsOfFacts DEF Tasks
  <2> QED
    BY <2>1
<1>3. \A pl \in PlacesOf(e, d) : pl \in Places /\ tasks[pl] \in Texts \union {None}
  BY DEF TypeOK, PlacesOf
<1>4. pairs \subseteq Places \X Texts
  BY <1>3
<1>5. e \in Present(d) => pairs # {}
  <2> SUFFICES ASSUME e \in Present(d) PROVE pairs # {}
    OBVIOUS
  <2>1. PICK pl \in PlacesOf(e, d) : tasks[pl] # None
    BY DEF Present
  <2> QED
    BY <2>1
<1> QED
  BY <1>1, <1>2, <1>4, <1>5

-----------------------------------------------------------------------------
(* Type correctness                                                        *)

\* A run that holds nothing is a run.
LEMMA IdleRunType == IdleRun \in Run /\ 1 \in Days
<1>1. 1 \in Days /\ "idle" \in Stages
  BY DailyAssessAssumption DEF Days, Stages
<1>2. [e \in Employees |-> {}] \in [Employees -> SUBSET (Places \X Texts)]
  OBVIOUS
<1> QED
  BY <1>1, <1>2 DEF IdleRun, Run

\* So is what a transaction leaves of a run.
LEMMA AfterType ==
  ASSUME TypeOK, NEW p \in Runs, NEW stage \in Stages
  PROVE  /\ After(p, stage) \in Run
         /\ After(p, stage).stage = stage
         /\ After(p, stage).day = run[p].day
         /\ After(p, stage).disturbed = run[p].disturbed
         /\ After(p, stage).read = {} /\ After(p, stage).target = {}
<1>1. run[p].day \in Days /\ run[p].disturbed \in BOOLEAN
  BY DEF TypeOK, Run
<1>2. After(p, stage) \in Run
  BY <1>1, IdleRunType DEF After, Run
<1> QED
  BY IdleRunType, <1>2 DEF After, IdleRun

\* The initial state has the types.
LEMMA InitType == Init => TypeOK
<1>1. 1 \in Days /\ 0 \in 0 .. MaxFaults
  BY DailyAssessAssumption DEF Days
<1>2. IdleRun \in Run
  BY IdleRunType
<1> SUFFICES ASSUME Init PROVE TypeOK
  OBVIOUS
<1>3. tasks \in [Places -> Texts \union {None}] /\ assessed \in [Places -> Assessments]
  BY DEF Init, Assessments
<1>4. ghost \in [Employees \X Days -> {None} \union SUBSET (Places \X Texts)]
  <2>1. None \in {None} \union SUBSET (Places \X Texts)
    OBVIOUS
  <2> QED
    BY <2>1, Zenon DEF Init
<1>5. run \in [Runs -> Run]
  BY <1>2 DEF Init
<1> QED
  BY <1>1, <1>3, <1>4, <1>5 DEF Init, TypeOK

\* A refresh of some dates keeps the types.
LEMMA ReplaceType ==
  ASSUME TypeOK, NEW D \in SUBSET Days,
         NEW f, \A pl \in Places : pl[2] \in D => f[pl] \in Texts \union {None},
         Replace(D, f)
  PROVE  TypeOK'
<1>1. tasks' \in [Places -> Texts \union {None}]
  BY DEF TypeOK, Replace
<1>2. assessed' \in [Places -> Assessments]
  BY DEF TypeOK, Replace, Assessments
<1>3. run' \in [Runs -> Run]
  <2>1. ASSUME NEW p \in Runs PROVE run'[p] \in Run
    <3>1. run[p] \in Run /\ PlacesOn(run[p].day) \in SUBSET Places
      BY DEF TypeOK, PlacesOn
    <3> QED
      BY <3>1 DEF Replace, Run
  <2> QED
    BY <2>1 DEF Replace
<1> QED
  BY <1>1, <1>2, <1>3 DEF TypeOK, Replace

\* Both refreshes delete dates and insert texts or nothing.
LEMMA RefreshForm ==
  ASSUME NEW D \in SUBSET Days, NEW f,
         \/ \E d \in Days : D = {d} /\ f \in [PlacesOn(d) -> Texts \union {None}]
         \/ f = [pl \in Places |-> None]
  PROVE  \A pl \in Places : pl[2] \in D => f[pl] \in Texts \union {None}
BY DEF PlacesOn

\* Starting a run keeps the types.
LEMMA BeginType ==
  ASSUME TypeOK, NEW p \in Runs, NEW d \in Days, Begin(p, d)
  PROVE  TypeOK'
<1>1. ASSUME NEW q \in Runs PROVE run'[q] \in Run
  <2>1. Present(d) \in SUBSET Employees
    BY DEF Present
  <2>2. run[q] \in Run
    BY DEF TypeOK
  <2>3. CASE q = p
    <3> DEFINE b == {other \in Runs : run[other].stage # "idle" /\ run[other].day = d} # {}
    <3>1. run'[p] = [IdleRun EXCEPT !.stage = "ghost", !.day = d, !.todo = Present(d),
                                    !.keys = Present(d), !.disturbed = b]
      BY DEF Begin
    <3>2. b \in BOOLEAN /\ "ghost" \in Stages
      BY DEF Stages
    <3> HIDE DEF b
    <3> QED
      BY <2>1, <2>3, <3>1, <3>2, IdleRunType DEF Run
  <2>4. CASE q # p
    <3>1. run'[q] = run[q] \/ run'[q] = [run[q] EXCEPT !.disturbed = TRUE]
      BY <2>4 DEF Begin
    <3> QED
      BY <2>2, <3>1 DEF Run
  <2> QED
    BY <2>3, <2>4
<1>2. run' \in [Runs -> Run]
  BY <1>1 DEF Begin
<1> QED
  BY <1>2 DEF TypeOK, Begin

\* An EXCEPT of one run keeps the type of the others.
LEMMA OneRun ==
  ASSUME TypeOK, NEW p \in Runs, NEW r, run' = [run EXCEPT ![p] = r]
  PROVE  /\ run'[p] = r
         /\ \A q \in Runs \ {p} : run'[q] = run[q]
         /\ r \in Run => run' \in [Runs -> Run]
BY DEF TypeOK
\* Every statement and commit of a run keeps the types.
LEMMA StepType ==
  ASSUME TypeOK, NEW p \in Runs, Step(p)
  PROVE  TypeOK'
<1> USE DEF Stages
<1>1. run[p] \in Run /\ run[p].day \in Days /\ IdleRun \in Run
  BY IdleRunType DEF TypeOK, Run
<1>2. ASSUME NEW e \in Employees, GhostMetrics(p, e) PROVE TypeOK'
  <2>1. Tasks(RowsOf(e, run[p].day)) \in SUBSET (Places \X Texts)
    BY <1>1, TasksFacts
  <2>2. run'[p] \in Run /\ \A q \in Runs \ {p} : run'[q] = run[q]
    BY <1>1, <1>2, <2>1 DEF GhostMetrics, TypeOK, Run
  <2>3. run' \in [Runs -> Run]
    BY <1>2, <2>2 DEF GhostMetrics, TypeOK
  <2> QED
    BY <1>2, <2>3 DEF GhostMetrics, TypeOK
<1>3. ASSUME NEW e \in Employees, GhostFails(p, e) PROVE TypeOK'
  BY <1>1, <1>3, OneRun DEF GhostFails, TypeOK
<1>4. CASE GhostCommit(p)
  <2>1. ghost' \in [Employees \X Days -> {None} \union SUBSET (Places \X Texts)]
    <3>1. ASSUME NEW k \in Employees \X Days
          PROVE  ghost'[k] \in {None} \union SUBSET (Places \X Texts)
      <4>1. k[1] \in Employees /\ ghost[k] \in {None} \union SUBSET (Places \X Texts)
        BY DEF TypeOK
      <4>2. run[p].ghost[k[1]] \in SUBSET (Places \X Texts)
        BY <1>1, <4>1 DEF Run
      <4> QED
        BY <1>4, <4>1, <4>2 DEF GhostCommit
    <3> QED
      BY <1>4, <3>1 DEF GhostCommit
  <2>2. run' \in [Runs -> Run]
    BY <1>4, AfterType, OneRun DEF GhostCommit
  <2> QED
    BY <1>4, <2>1, <2>2 DEF GhostCommit, TypeOK
<1>5. CASE ScoreRead(p)
  <2>1. DayRows(run[p].day) \in SUBSET Row
    BY <1>1, DayRowsFacts
  <2>2. run' \in [Runs -> Run]
    BY <1>1, <1>5, <2>1 DEF ScoreRead, TypeOK, Run
  <2> QED
    BY <1>5, <2>2 DEF ScoreRead, TypeOK
<1>6. CASE ScoreCommit(p)
  <2>1. run' \in [Runs -> Run]
    BY <1>6, AfterType, OneRun DEF ScoreCommit
  <2>2. assessed' \in [Places -> Assessments]
    BY <1>6 DEF ScoreCommit, TypeOK, Assessments
  <2> QED
    BY <1>6, <2>1, <2>2 DEF ScoreCommit, TypeOK
<1>7. CASE ScoreRejected(p)
  BY <1>1, <1>7, OneRun DEF ScoreRejected, TypeOK
<1>8. CASE AggregateRead(p)
  <2>1. DayRows(run[p].day) \in SUBSET Row
    BY <1>1, DayRowsFacts
  <2>2. run' \in [Runs -> Run]
    BY <1>1, <1>8, <2>1 DEF AggregateRead, TypeOK, Run
  <2> QED
    BY <1>8, <2>2 DEF AggregateRead, TypeOK
<1>9. CASE AggregateDelete(p)
  <2>1. Outdated(p) \in SUBSET Row /\ Outdated(p) \ LockedByOthers(p) \in SUBSET Row
    BY DEF Outdated, TypeOK
  <2>2. run' \in [Runs -> Run]
    BY <1>1, <1>9, <2>1 DEF AggregateDelete, TypeOK, Run
  <2> QED
    BY <1>9, <2>2 DEF AggregateDelete, TypeOK
<1>10. CASE AggregateCommit(p)
  <2>1. cycles' \in SUBSET Row
    BY <1>1, <1>10 DEF AggregateCommit, SameKey, TypeOK, Run
  <2>2. ASSUME NEW q \in Runs PROVE run'[q] \in Run
    <3>1. After(p, "norms") \in Run /\ run[q] \in Run
      BY AfterType DEF TypeOK
    <3> QED
      BY <1>10, <3>1 DEF AggregateCommit, Run
  <2>3. run' \in [Runs -> Run]
    BY <1>10, <2>2 DEF AggregateCommit
  <2> QED
    BY <1>10, <2>1, <2>3 DEF AggregateCommit, TypeOK
<1>11. CASE NormsRead(p)
  <2> DEFINE timedTexts ==
        {tasks[pl] : pl \in {q \in Places : q[2] \in Window(run[p].day) /\ tasks[q] \in Timed}}
  <2>1. timedTexts \in SUBSET Texts
    BY DailyAssessAssumption
  <2>2. run' = [run EXCEPT ![p].stage = "recompute", ![p].stats = timedTexts]
    BY <1>11 DEF NormsRead
  <2> HIDE DEF timedTexts
  <2>3. run' \in [Runs -> Run]
    BY <1>1, <2>1, <2>2 DEF TypeOK, Run
  <2> QED
    BY <1>11, <2>3 DEF NormsRead, TypeOK
<1>12. CASE NormsCommit(p)
  <2>1. norms' \in SUBSET Texts
    BY <1>1, <1>12, DailyAssessAssumption DEF NormsCommit, TypeOK, Run
  <2>2. assessed' \in [Places -> Assessments]
    BY <1>12 DEF NormsCommit, TypeOK, Assessments
  <2>3. run' \in [Runs -> Run]
    BY <1>1, <1>12, OneRun DEF NormsCommit
  <2> QED
    BY <1>12, <2>1, <2>2, <2>3 DEF NormsCommit, TypeOK
<1> QED
  BY <1>2, <1>3, <1>4, <1>5, <1>6, <1>7, <1>8, <1>9, <1>10, <1>11, <1>12 DEF Step

\* Every step keeps the types.
LEMMA NextType == TypeOK /\ [Next]_vars => TypeOK'
<1> SUFFICES ASSUME TypeOK, [Next]_vars PROVE TypeOK'
  OBVIOUS
<1>1. ASSUME NEW d \in Days, NEW f \in [PlacesOn(d) -> Texts \union {None}], NormalizeDate(d, f)
      PROVE  TypeOK'
  <2>1. {d} \in SUBSET Days
    OBVIOUS
  <2>2. \A pl \in Places : pl[2] \in {d} => f[pl] \in Texts \union {None}
    BY <2>1, RefreshForm
  <2> QED
    BY <1>1, <2>1, <2>2, ReplaceType DEF NormalizeDate
<1>2. CASE ParseClears
  <2>1. \A pl \in Places : pl[2] \in Days =>
          [other \in Places |-> None][pl] \in Texts \union {None}
    OBVIOUS
  <2> QED
    BY <1>2, <2>1, ReplaceType DEF ParseClears
<1>3. CASE NextDay
  BY <1>3, DailyAssessAssumption DEF NextDay, TypeOK, Days
<1>4. ASSUME NEW p \in Runs, NEW d \in Days, Begin(p, d) PROVE TypeOK'
  BY <1>4, BeginType
<1>5. ASSUME NEW p \in Runs, Step(p) PROVE TypeOK'
  BY <1>5, StepType
<1>6. ASSUME NEW p \in Runs, Fault(p) PROVE TypeOK'
  <2>1. run' \in [Runs -> Run]
    BY <1>6, IdleRunType, OneRun DEF Fault
  <2>2. faults' \in 0 .. MaxFaults
    BY <1>6, DailyAssessAssumption DEF Fault, TypeOK
  <2> QED
    BY <1>6, <2>1, <2>2 DEF Fault, TypeOK
<1>7. CASE UNCHANGED vars
  BY <1>7 DEF vars, TypeOK
<1> QED
  BY <1>1, <1>2, <1>3, <1>4, <1>5, <1>6, <1>7 DEF Next
-----------------------------------------------------------------------------
(* What a step does to the runs                                            *)

\* The disjuncts of Next, the two refreshes in their common form.
LEMMA NextCases ==
  ASSUME [Next]_vars
  PROVE  \/ \E D \in SUBSET Days : \E f : Replace(D, f)
         \/ UNCHANGED <<tasks, assessed, cycles, ghost, norms, run>>
         \/ \E p \in Runs, d \in Days : Begin(p, d)
         \/ \E p \in Runs : Step(p) \/ Fault(p)
<1>1. ASSUME NEW d \in Days, NEW f, NormalizeDate(d, f)
      PROVE  \E D \in SUBSET Days : \E g : Replace(D, g)
  <2>1. {d} \in SUBSET Days
    OBVIOUS
  <2> QED
    BY <1>1, <2>1 DEF NormalizeDate
<1>2. CASE ParseClears
  <2>1. Days \in SUBSET Days
    OBVIOUS
  <2> QED
    BY <1>2, <2>1 DEF ParseClears
<1>3. NextDay \/ UNCHANGED vars => UNCHANGED <<tasks, assessed, cycles, ghost, norms, run>>
  BY DEF NextDay, vars
<1> QED
  BY <1>1, <1>2, <1>3 DEF Next

\* What a run does to the others is to shorten the cycles they wait to delete.
LEMMA OtherRuns ==
  ASSUME TypeOK, NEW p \in Runs, Step(p) \/ Fault(p), NEW q \in Runs \ {p}
  PROVE  \/ run'[q] = run[q]
         \/ run'[q] = [run[q] EXCEPT !.target = @ \ run[p].target]
<1>1. CASE AggregateCommit(p)
  BY <1>1 DEF AggregateCommit
<1>2. CASE ~AggregateCommit(p)
  <2>1. \E r : run' = [run EXCEPT ![p] = r]
    BY <1>2 DEF Step, Fault, GhostMetrics, GhostFails, GhostCommit, ScoreRead, ScoreCommit,
                ScoreRejected, AggregateRead, AggregateDelete, NormsRead, NormsCommit
  <2> QED
    BY <2>1 DEF TypeOK
<1> QED
  BY <1>1, <1>2
\* What a run does to itself: it gives up, goes on to the next transaction, or
\* is a statement further in this one.
LEMMA OwnRun ==
  ASSUME TypeOK, NEW p \in Runs, Step(p) \/ Fault(p)
  PROVE  /\ run[p].stage # "idle"
         /\ \/ run'[p] = IdleRun
            \/ \E e \in Employees : GhostMetrics(p, e) /\ run'[p].stage = "ghost"
            \/ GhostCommit(p) /\ run'[p] = After(p, "scoring")
            \/ ScoreRead(p) /\ run'[p].stage = "score"
            \/ ScoreCommit(p) /\ run'[p] = After(p, "aggregation")
            \/ AggregateRead(p) /\ run'[p].stage = "delete"
            \/ AggregateDelete(p) /\ run'[p].stage = "aggregate"
            \/ AggregateCommit(p) /\ run'[p] = After(p, "norms")
            \/ NormsRead(p) /\ run'[p].stage = "recompute"
         /\ \/ run'[p].stage = "idle"
            \/ /\ run'[p].stage # "idle" /\ run'[p].day = run[p].day
               /\ run'[p].disturbed = run[p].disturbed
         /\ run'[p].stage = "score" => ScoreRead(p)
<1>1. run[p] \in Run
  BY DEF TypeOK
<1> DEFINE kept == run'[p].stage # "idle" /\ run'[p].day = run[p].day
                   /\ run'[p].disturbed = run[p].disturbed
<1>2. \A stage \in Stages : 
        /\ After(p, stage).stage = stage /\ After(p, stage).day = run[p].day
        /\ After(p, stage).disturbed = run[p].disturbed
  BY AfterType
<1>3. IdleRun.stage = "idle"
  BY DEF IdleRun
<1>4. ASSUME NEW e \in Employees, GhostMetrics(p, e)
      PROVE  run[p].stage # "idle" /\ run'[p].stage = "ghost" /\ kept
  BY <1>1, <1>4 DEF GhostMetrics, TypeOK, Run
<1>5. ASSUME NEW e \in Employees, GhostFails(p, e)
      PROVE  run[p].stage # "idle" /\ run'[p] = IdleRun
  BY <1>5 DEF GhostFails, TypeOK
<1>6. ASSUME GhostCommit(p)
      PROVE  run[p].stage # "idle" /\ run'[p] = After(p, "scoring") /\ kept
  BY <1>2, <1>6 DEF GhostCommit, TypeOK, Stages
<1>7. ASSUME ScoreRead(p)
      PROVE  run[p].stage # "idle" /\ run'[p].stage = "score" /\ kept
  BY <1>1, <1>7 DEF ScoreRead, TypeOK, Run
<1>8. ASSUME ScoreCommit(p)
      PROVE  run[p].stage # "idle" /\ run'[p] = After(p, "aggregation") /\ kept
  BY <1>2, <1>8 DEF ScoreCommit, TypeOK, Stages
<1>9. ASSUME ScoreRejected(p) \/ NormsCommit(p) \/ Fault(p)
      PROVE  run[p].stage # "idle" /\ run'[p] = IdleRun
  BY <1>9 DEF ScoreRejected, NormsCommit, Fault, TypeOK
<1>10. ASSUME AggregateRead(p)
       PROVE  run[p].stage # "idle" /\ run'[p].stage = "delete" /\ kept
  BY <1>1, <1>10 DEF AggregateRead, TypeOK, Run
<1>11. ASSUME AggregateDelete(p)
       PROVE  run[p].stage # "idle" /\ run'[p].stage = "aggregate" /\ kept
  BY <1>1, <1>11 DEF AggregateDelete, TypeOK, Run
<1>12. ASSUME AggregateCommit(p)
       PROVE  run[p].stage # "idle" /\ run'[p] = After(p, "norms") /\ kept
  BY <1>2, <1>12 DEF AggregateCommit, Stages
<1>13. ASSUME NormsRead(p)
       PROVE  run[p].stage # "idle" /\ run'[p].stage = "recompute" /\ kept
  BY <1>1, <1>13 DEF NormsRead, TypeOK, Run
<1>14. \/ \E e \in Employees : GhostMetrics(p, e) \/ GhostFails(p, e)
       \/ GhostCommit(p) \/ ScoreRead(p) \/ ScoreCommit(p)
       \/ ScoreRejected(p) \/ NormsCommit(p) \/ Fault(p)
       \/ AggregateRead(p) \/ AggregateDelete(p) \/ AggregateCommit(p) \/ NormsRead(p)
  BY DEF Step
<1>15. \A stage \in {"scoring", "aggregation", "norms"} : After(p, stage).stage # "score"
  BY <1>2 DEF Stages
<1> HIDE DEF kept
<1>16. /\ run[p].stage # "idle"
       /\ \/ run'[p] = IdleRun
          \/ \E e \in Employees : GhostMetrics(p, e) /\ run'[p].stage = "ghost"
          \/ GhostCommit(p) /\ run'[p] = After(p, "scoring")
          \/ ScoreRead(p) /\ run'[p].stage = "score"
          \/ ScoreCommit(p) /\ run'[p] = After(p, "aggregation")
          \/ AggregateRead(p) /\ run'[p].stage = "delete"
          \/ AggregateDelete(p) /\ run'[p].stage = "aggregate"
          \/ AggregateCommit(p) /\ run'[p] = After(p, "norms")
          \/ NormsRead(p) /\ run'[p].stage = "recompute"
       /\ run'[p].stage = "idle" \/ kept
  BY <1>3, <1>4, <1>5, <1>6, <1>7, <1>8, <1>9, <1>10, <1>11, <1>12, <1>13, <1>14
<1>17. run'[p].stage = "score" => ScoreRead(p)
  BY <1>3, <1>15, <1>16
<1> QED
  BY <1>16, <1>17 DEF kept

-----------------------------------------------------------------------------
(* The safety invariant                                                    *)

\* Steps that leave the assessments, their tasks and the norms alone.
LEMMA SoundUnchanged ==
  ASSUME AssessmentsSound, UNCHANGED <<tasks, assessed, norms>>
  PROVE  AssessmentsSound'
BY DEF AssessmentsSound

\* A transaction's assessments are of rows that are there.
LEMMA SoundStep ==
  ASSUME SInv, [Next]_vars
  PROVE  AssessmentsSound'
<1>1. ASSUME NEW D \in SUBSET Days, NEW f, Replace(D, f) PROVE AssessmentsSound'
  BY <1>1 DEF SInv, TypeOK, AssessmentsSound, Replace
<1>2. CASE UNCHANGED <<tasks, assessed, cycles, ghost, norms, run>>
  BY <1>2, SoundUnchanged DEF SInv
<1>3. ASSUME NEW p \in Runs, NEW d \in Days, Begin(p, d) PROVE AssessmentsSound'
  BY <1>3, SoundUnchanged DEF SInv, Begin
<1>4. ASSUME NEW p \in Runs, Fault(p) PROVE AssessmentsSound'
  BY <1>4, SoundUnchanged DEF SInv, Fault
<1>5. ASSUME NEW p \in Runs, Step(p) PROVE AssessmentsSound'
  <2>1. CASE ScoreCommit(p)
    <3>1. \A pl \in ReadPlaces(p) : tasks[pl] # None
      BY <2>1 DEF ScoreCommit, TasksExist, ReadPlaces, SInv, ReadsExist
    <3> QED
      BY <2>1, <3>1 DEF ScoreCommit, SInv, AssessmentsSound, TypeOK
  <2>2. CASE NormsCommit(p)
    <3>1. norms \subseteq norms' /\ tasks' = tasks
      BY <2>2 DEF NormsCommit
    <3>2. \A pl \in Places :
            /\ assessed'[pl] # "absent" => assessed[pl] # "absent"
            /\ assessed'[pl] = "normed" => assessed[pl] = "normed" \/ tasks[pl] \in norms'
      BY <2>2 DEF NormsCommit, SInv, TypeOK
    <3> QED
      BY <3>1, <3>2 DEF SInv, AssessmentsSound
  <2>3. CASE UNCHANGED <<tasks, assessed, norms>>
    BY <2>3, SoundUnchanged DEF SInv
  <2> QED
    BY <1>5, <2>1, <2>2, <2>3
    DEF Step, GhostMetrics, GhostFails, GhostCommit, ScoreRead, ScoreRejected,
        AggregateRead, AggregateDelete, AggregateCommit, NormsRead
<1> QED
  BY <1>1, <1>2, <1>3, <1>4, <1>5, NextCases

\* A committed ghost-time row was computed from tasks.
LEMMA GhostStep ==
  ASSUME SInv, [Next]_vars
  PROVE  NoGhostFromNothing'
<1>1. ASSUME NEW p \in Runs, GhostCommit(p) PROVE NoGhostFromNothing'
  <2>1. \A e \in run[p].keys : run[p].ghost[e] # {}
    BY <1>1 DEF GhostCommit, SInv, MetricsOfTasks
  <2> QED
    BY <1>1, <2>1 DEF GhostCommit, SInv, NoGhostFromNothing, TypeOK
<1>2. ASSUME ghost' = ghost PROVE NoGhostFromNothing'
  BY <1>2 DEF SInv, NoGhostFromNothing
<1> QED
  BY <1>1, <1>2, NextCases
  DEF Replace, Begin, Fault, Step, GhostMetrics, GhostFails, ScoreRead, ScoreCommit,
      ScoreRejected, AggregateRead, AggregateDelete, AggregateCommit, NormsRead, NormsCommit

\* What a run has read stays there, or is known to be gone.
LEMMA ReadsStep ==
  ASSUME SInv, [Next]_vars
  PROVE  ReadsExist'
<1>1. ASSUME NEW D \in SUBSET Days, NEW f, Replace(D, f), NEW p \in Runs,
             run'[p].stage = "score", NEW r \in run'[p].read, r.place \notin run'[p].gone
      PROVE  tasks'[r.place] # None
  <2>1. run[p] \in Run /\ run[p].read \subseteq Row
    BY DEF SInv, TypeOK, Run
  <2>2. run[p].stage = "score" /\ run'[p].read = run[p].read
    BY <1>1, <2>1 DEF Replace, Run
  <2>3. r.place \in Places /\ r.place[2] = run[p].day /\ r.place \in PlacesOn(run[p].day)
    BY <1>1, <2>1, <2>2 DEF SInv, OwnDate, Row, PlacesOn
  <2>4. run[p].day \notin D
    BY <1>1, <2>1, <2>2, <2>3 DEF Replace, Run
  <2>5. tasks'[r.place] = tasks[r.place] /\ run'[p] = run[p]
    BY <1>1, <2>3, <2>4 DEF Replace
  <2> QED
    BY <1>1, <2>2, <2>5 DEF SInv, ReadsExist
<1>2. ASSUME NEW p \in Runs, tasks' = tasks, run'[p].stage = "score" => 
                /\ run[p].stage = "score"
                /\ run'[p].read = run[p].read /\ run'[p].gone = run[p].gone
      PROVE  run'[p].stage = "score" =>
               \A r \in run'[p].read : r.place \notin run'[p].gone => tasks'[r.place] # None
  BY <1>2 DEF SInv, ReadsExist
<1>3. CASE UNCHANGED <<tasks, assessed, cycles, ghost, norms, run>>
  BY <1>3 DEF SInv, ReadsExist
<1>4. ASSUME NEW p \in Runs, NEW d \in Days, Begin(p, d) PROVE ReadsExist'
  <2>1. ASSUME NEW q \in Runs, run'[q].stage = "score"
        PROVE  /\ run[q].stage = "score"
               /\ run'[q].read = run[q].read /\ run'[q].gone = run[q].gone
    <3>1. run[q] \in Run
      BY DEF SInv, TypeOK
    <3> QED
      BY <1>4, <2>1, <3>1 DEF Begin, Run, IdleRun
  <2>2. tasks' = tasks
    BY <1>4 DEF Begin
  <2> QED
    BY <1>2, <2>1, <2>2 DEF ReadsExist
<1>5. ASSUME NEW p \in Runs, Step(p) \/ Fault(p) PROVE ReadsExist'
  <2>1. tasks' = tasks
    BY <1>5 DEF Step, Fault, GhostMetrics, GhostFails, GhostCommit, ScoreRead, ScoreCommit,
                ScoreRejected, AggregateRead, AggregateDelete, AggregateCommit,
                NormsRead, NormsCommit
  <2>2. ASSUME NEW q \in Runs \ {p}, run'[q].stage = "score"
        PROVE  /\ run[q].stage = "score"
               /\ run'[q].read = run[q].read /\ run'[q].gone = run[q].gone
    <3>1. run[q] \in Run
      BY DEF SInv, TypeOK
    <3>2. run'[q] = run[q] \/ run'[q] = [run[q] EXCEPT !.target = @ \ run[p].target]
      BY <1>5, OtherRuns DEF SInv
    <3> QED
      BY <2>2, <3>1, <3>2 DEF Run
  <2>3. CASE ScoreRead(p)
    <3>1. run[p] \in Run /\ run[p].day \in Days
      BY DEF SInv, TypeOK, Run
    <3>2. run'[p].read = DayRows(run[p].day)
      BY <2>3 DEF ScoreRead, SInv, TypeOK, Run
    <3>3. \A r \in run'[p].read : tasks[r.place] # None
      BY <3>1, <3>2, DayRowsFacts DEF SInv
    <3> QED
      BY <1>2, <2>1, <2>2, <3>3 DEF ReadsExist
  <2>4. CASE ~ScoreRead(p)
    <3>1. run'[p].stage # "score"
      BY <1>5, <2>4, OwnRun DEF SInv
    <3> QED
      BY <1>2, <2>1, <2>2, <3>1 DEF ReadsExist
  <2> QED
    BY <2>3, <2>4
<1>6. ASSUME NEW D \in SUBSET Days, NEW f, Replace(D, f) PROVE ReadsExist'
  BY <1>1, <1>6 DEF ReadsExist
<1> QED
  BY <1>3, <1>4, <1>5, <1>6, NextCases
\* What a refresh or the start of a run leaves of the runs.
LEMMA SameRuns ==
  ASSUME TypeOK, NEW q \in Runs,
         \/ \E D \in SUBSET Days : \E f : Replace(D, f)
         \/ \E p \in Runs \ {q}, d \in Days : Begin(p, d)
  PROVE  /\ run'[q].stage = run[q].stage /\ run'[q].day = run[q].day
         /\ run'[q].todo = run[q].todo /\ run'[q].keys = run[q].keys
         /\ run'[q].ghost = run[q].ghost /\ run'[q].read = run[q].read
         /\ run'[q].target = run[q].target /\ run'[q].stats = run[q].stats
         /\ run[q].disturbed => run'[q].disturbed
<1>1. run[q] \in Run
  BY DEF TypeOK
<1>2. \/ run'[q] = run[q]
      \/ run'[q] = [run[q] EXCEPT !.disturbed = TRUE]
      \/ run'[q] = [run[q] EXCEPT !.disturbed = TRUE, !.gone = PlacesOn(run[q].day)]
  BY DEF Replace, Begin
<1> QED
  BY <1>1, <1>2 DEF Run

\* A run that starts has read nothing.
LEMMA BeginRun ==
  ASSUME TypeOK, NEW p \in Runs, NEW d \in Days, Begin(p, d)
  PROVE  /\ run'[p].stage = "ghost" /\ run'[p].day = d
         /\ run'[p].todo = Present(d) /\ run'[p].keys = Present(d)
         /\ run'[p].read = {} /\ run'[p].target = {}
         /\ run'[p].disturbed = (\E q \in Runs : run[q].stage # "idle" /\ run[q].day = d)
<1> DEFINE b == {q \in Runs : run[q].stage # "idle" /\ run[q].day = d} # {}
<1>1. run'[p] = [IdleRun EXCEPT !.stage = "ghost", !.day = d, !.todo = Present(d),
                                !.keys = Present(d), !.disturbed = b]
  BY DEF Begin
<1>2. b = \E q \in Runs : run[q].stage # "idle" /\ run[q].day = d
  OBVIOUS
<1> HIDE DEF b
<1>3. run'[p].disturbed = b
  BY <1>1 DEF IdleRun
<1>4. /\ run'[p].stage = "ghost" /\ run'[p].day = d
      /\ run'[p].todo = Present(d) /\ run'[p].keys = Present(d)
      /\ run'[p].read = {} /\ run'[p].target = {}
  BY <1>1 DEF IdleRun
<1> QED
  BY <1>2, <1>3, <1>4, Zenon

\* The metrics of an employee without tasks end the run.
LEMMA MetricsStep ==
  ASSUME SInv, [Next]_vars
  PROVE  MetricsOfTasks'
<1>1. ASSUME NEW q \in Runs, run'[q].stage = "ghost", NEW e \in run'[q].keys \ run'[q].todo,
             run[q].stage = "ghost", run'[q].keys = run[q].keys, run'[q].todo = run[q].todo,
             run'[q].ghost = run[q].ghost
      PROVE  run'[q].ghost[e] # {}
  BY <1>1 DEF SInv, MetricsOfTasks
<1>2. CASE UNCHANGED <<tasks, assessed, cycles, ghost, norms, run>>
  BY <1>2 DEF SInv, MetricsOfTasks
<1>3. ASSUME NEW D \in SUBSET Days, NEW f, Replace(D, f) PROVE MetricsOfTasks'
  BY <1>1, <1>3, SameRuns DEF SInv, MetricsOfTasks
<1>4. ASSUME NEW p \in Runs, NEW d \in Days, Begin(p, d) PROVE MetricsOfTasks'
  <2>1. run'[p].keys \ run'[p].todo = {}
    BY <1>4, BeginRun DEF SInv
  <2> QED
    BY <1>1, <1>4, <2>1, SameRuns DEF SInv, MetricsOfTasks
<1>5. ASSUME NEW p \in Runs, Step(p) \/ Fault(p) PROVE MetricsOfTasks'
  <2>1. ASSUME NEW q \in Runs \ {p}
        PROVE  /\ run'[q].stage = run[q].stage /\ run'[q].keys = run[q].keys
               /\ run'[q].todo = run[q].todo /\ run'[q].ghost = run[q].ghost
    <3>1. run'[q] = run[q] \/ run'[q] = [run[q] EXCEPT !.target = @ \ run[p].target]
      BY <1>5, OtherRuns DEF SInv
    <3>2. run[q] \in Run
      BY DEF SInv, TypeOK
    <3> QED
      BY <3>1, <3>2 DEF Run
  <2>2. ASSUME NEW e \in Employees, GhostMetrics(p, e), NEW other \in run'[p].keys \ run'[p].todo
        PROVE  run'[p].ghost[other] # {}
    <3>1. run[p] \in Run /\ run[p].day \in Days /\ run[p].stage = "ghost"
      BY <2>2 DEF SInv, TypeOK, Run, GhostMetrics
    <3>2. /\ run'[p].keys = run[p].keys /\ run'[p].todo = run[p].todo \ {e}
          /\ run'[p].ghost = [run[p].ghost EXCEPT ![e] = Tasks(RowsOf(e, run[p].day))]
      BY <2>2, <3>1 DEF SInv, TypeOK, Run, GhostMetrics
    <3>3. Tasks(RowsOf(e, run[p].day)) # {}
      BY <2>2, <3>1, TasksFacts DEF SInv, GhostMetrics, HasMetrics
    <3>4. other \in Employees /\ run[p].ghost \in [Employees -> SUBSET (Places \X Texts)]
      BY <2>2, <3>1, <3>2 DEF Run
    <3>5. CASE other = e
      BY <3>2, <3>3, <3>4, <3>5
    <3>6. CASE other # e
      BY <2>2, <3>1, <3>2, <3>4, <3>6 DEF SInv, MetricsOfTasks
    <3> QED
      BY <3>5, <3>6
  <2>3. run'[p].stage = "ghost" => \E e \in Employees : GhostMetrics(p, e)
    <3>1. \A stage \in {"scoring", "aggregation", "norms"} : After(p, stage).stage # "ghost"
      BY AfterType DEF SInv, Stages
    <3>2. IdleRun.stage # "ghost"
      BY DEF IdleRun
    <3> QED
      BY <1>5, <3>1, <3>2, OwnRun DEF SInv
  <2> QED
    BY <1>1, <2>1, <2>2, <2>3 DEF MetricsOfTasks
<1> QED
  BY <1>2, <1>3, <1>4, <1>5, NextCases

\* A run reads, and deletes, on its own date.
LEMMA OwnDateStep ==
  ASSUME SInv, [Next]_vars
  PROVE  OwnDate'
<1>1. ASSUME NEW q \in Runs,
             run'[q].day = run[q].day, run'[q].read = run[q].read,
             run'[q].target \subseteq run[q].target
      PROVE  /\ \A r \in run'[q].read : r.place[2] = run'[q].day
             /\ \A c \in run'[q].target : c.place[2] = run'[q].day
  BY <1>1 DEF SInv, OwnDate
<1>2. CASE UNCHANGED <<tasks, assessed, cycles, ghost, norms, run>>
  BY <1>2 DEF SInv, OwnDate
<1>3. ASSUME NEW D \in SUBSET Days, NEW f, Replace(D, f) PROVE OwnDate'
  BY <1>1, <1>3, SameRuns DEF SInv, OwnDate
<1>4. ASSUME NEW p \in Runs, NEW d \in Days, Begin(p, d) PROVE OwnDate'
  <2>1. run'[p].read = {} /\ run'[p].target = {}
    BY <1>4, BeginRun DEF SInv
  <2>2. ASSUME NEW q \in Runs \ {p}
        PROVE  /\ run'[q].day = run[q].day /\ run'[q].read = run[q].read
               /\ run'[q].target = run[q].target
    BY <1>4, SameRuns DEF SInv
  <2> QED
    BY <1>1, <2>1, <2>2 DEF OwnDate
<1>5. ASSUME NEW p \in Runs, Step(p) \/ Fault(p) PROVE OwnDate'
  <2>1. ASSUME NEW q \in Runs \ {p}
        PROVE  /\ run'[q].day = run[q].day /\ run'[q].read = run[q].read
               /\ run'[q].target \subseteq run[q].target
    <3>1. run'[q] = run[q] \/ run'[q] = [run[q] EXCEPT !.target = @ \ run[p].target]
      BY <1>5, OtherRuns DEF SInv
    <3>2. run[q] \in Run
      BY DEF SInv, TypeOK
    <3> QED
      BY <3>1, <3>2 DEF Run
  <2>2. run[p] \in Run /\ run[p].day \in Days
    BY DEF SInv, TypeOK, Run
  <2> DEFINE own == /\ \A r \in run'[p].read : r.place[2] = run'[p].day
                    /\ \A c \in run'[p].target : c.place[2] = run'[p].day
  <2>3. (\E e \in Employees : GhostMetrics(p, e)) \/ NormsRead(p) => own
    <3> DEFINE same == /\ run'[p].day = run[p].day /\ run'[p].read = run[p].read
                       /\ run'[p].target = run[p].target
    <3>1. ASSUME NEW e \in Employees, GhostMetrics(p, e) PROVE same
      BY <2>2, <3>1 DEF SInv, TypeOK, Run, GhostMetrics
    <3>2. ASSUME NormsRead(p) PROVE same
      BY <2>2, <3>2 DEF SInv, TypeOK, Run, NormsRead
    <3> QED
      BY <1>1, <3>1, <3>2
  <2>4. ScoreRead(p) \/ AggregateRead(p) => own
    <3>1. \A r \in DayRows(run[p].day) : r.place[2] = run[p].day
      BY <2>2, DayRowsFacts DEF SInv
    <3>2. ScoreRead(p) \/ AggregateRead(p) =>
            /\ run'[p].day = run[p].day /\ run'[p].read = DayRows(run[p].day)
            /\ run'[p].target = run[p].target
      BY <2>2 DEF SInv, TypeOK, Run, ScoreRead, AggregateRead
    <3> QED
      BY <3>1, <3>2 DEF SInv, OwnDate
  <2>5. AggregateDelete(p) => own
    <3>1. \A c \in Outdated(p) : c.place[2] = run[p].day
      BY DEF Outdated
    <3> QED
      BY <2>2, <3>1 DEF SInv, OwnDate, TypeOK, Run, AggregateDelete
  <2>6. ASSUME NEW stage \in {"scoring", "aggregation", "norms"}, run'[p] = After(p, stage)
        PROVE  own
    BY <2>6, AfterType DEF SInv, Stages
  <2>7. run'[p] = IdleRun => own
    BY DEF IdleRun
  <2>8. own
    BY <1>5, <2>3, <2>4, <2>5, <2>6, <2>7, OwnRun DEF SInv
  <2> QED
    BY <1>1, <2>1, <2>8 DEF OwnDate
<1> QED
  BY <1>2, <1>3, <1>4, <1>5, NextCases
\* The safety invariant is inductive.
LEMMA SafetyStep == SInv /\ [Next]_vars => SInv'
<1> SUFFICES ASSUME SInv, [Next]_vars PROVE SInv'
  OBVIOUS
<1>1. TypeOK'
  BY NextType DEF SInv
<1> QED
  BY <1>1, SoundStep, GhostStep, ReadsStep, MetricsStep, OwnDateStep DEF SInv

\* It holds initially.
LEMMA SafetyInit == Init => SInv
<1> SUFFICES ASSUME Init PROVE SInv
  OBVIOUS
<1>1. TypeOK
  BY InitType
<1>2. \A p \in Runs : run[p].stage = "idle" /\ run[p].read = {} /\ run[p].target = {}
  BY DEF Init, IdleRun
<1>3. AssessmentsSound /\ NoGhostFromNothing
  BY DEF Init, AssessmentsSound, NoGhostFromNothing
<1> QED
  BY <1>1, <1>2, <1>3 DEF SInv, ReadsExist, MetricsOfTasks, OwnDate
-----------------------------------------------------------------------------
(* A date that a step leaves alone                                         *)

SameTasks(d)    == \A pl \in PlacesOn(d) : tasks'[pl] = tasks[pl]
SameAssessed(d) == \A pl \in PlacesOn(d) : assessed'[pl] = assessed[pl]
SameCycles(d)   == \A c \in Row : c.place[2] = d => (c \in cycles' <=> c \in cycles)
SameGhost(d)    == \A e \in Employees : ghost'[<<e, d>>] = ghost[<<e, d>>]

SameDate(d) == SameTasks(d) /\ SameAssessed(d) /\ SameCycles(d) /\ SameGhost(d)

\* What TasksFacts says of every employee and date, as a formula to prime.
TasksForm ==
  \A e \in Employees, d \in Days :
    Tasks(RowsOf(e, d)) = {<<pl, tasks[pl]>> : pl \in {q \in PlacesOf(e, d) : tasks[q] # None}}

LEMMA TasksAll == TypeOK => TasksForm
BY TasksFacts DEF TasksForm

\* With the same tasks, the same employees are present with the same tasks.
LEMMA PresentKept ==
  ASSUME TypeOK, TypeOK', NEW d \in Days, SameTasks(d)
  PROVE  /\ Present(d)' = Present(d)
         /\ \A e \in Employees : Tasks(RowsOf(e, d))' = Tasks(RowsOf(e, d))
<1>1. ASSUME NEW e \in Employees, NEW pl \in PlacesOf(e, d)
      PROVE  tasks'[pl] = tasks[pl]
  BY <1>1 DEF PlacesOf, PlacesOn, SameTasks
<1>2. Present(d)' = Present(d)
  BY <1>1 DEF Present
<1>3. ASSUME NEW e \in Employees
      PROVE  Tasks(RowsOf(e, d))' = Tasks(RowsOf(e, d))
  <2>1. Tasks(RowsOf(e, d)) =
          {<<pl, tasks[pl]>> : pl \in {q \in PlacesOf(e, d) : tasks[q] # None}}
    BY TasksFacts
  <2>2. Tasks(RowsOf(e, d))' =
          {<<pl, tasks'[pl]>> : pl \in {q \in PlacesOf(e, d) : tasks'[q] # None}}
    <3>1. TasksForm'
      BY TasksAll, PTL
    <3> QED
      BY <3>1 DEF TasksForm
  <2>3. {q \in PlacesOf(e, d) : tasks'[q] # None} = {q \in PlacesOf(e, d) : tasks[q] # None}
    BY <1>1
  <2> QED
    BY <1>1, <2>1, <2>2, <2>3
<1> QED
  BY <1>2, <1>3
\* With the same tasks, and assessments for the same of them, the rows are the same.
LEMMA RowsKept ==
  ASSUME NEW d \in Days, SameTasks(d),
         \A pl \in PlacesOn(d) : tasks[pl] # None =>
           ((assessed'[pl] = "absent") <=> (assessed[pl] = "absent"))
  PROVE  /\ \A e \in Employees : RowsOf(e, d)' = RowsOf(e, d)
         /\ DayRows(d)' = DayRows(d)
<1>1. ASSUME NEW e \in Employees
      PROVE  RowsOf(e, d)' = RowsOf(e, d)
  <2>1. \A pl \in PlacesOf(e, d) : tasks'[pl] = tasks[pl] /\ pl \in PlacesOn(d)
    BY DEF PlacesOf, PlacesOn, SameTasks
  <2>2. {q \in PlacesOf(e, d) : tasks'[q] # None} = {q \in PlacesOf(e, d) : tasks[q] # None}
    BY <2>1
  <2> DEFINE S == {q \in PlacesOf(e, d) : tasks[q] # None}
             old(pl) == [place |-> pl, text |-> tasks[pl], scored |-> assessed[pl] # "absent"]
             new(pl) == [place |-> pl, text |-> tasks'[pl], scored |-> assessed'[pl] # "absent"]
  <2>3. ASSUME NEW pl \in S PROVE new(pl) = old(pl)
    <3>1. tasks'[pl] = tasks[pl] /\ tasks[pl] # None /\ pl \in PlacesOn(d)
      BY <2>1, <2>3
    <3>2. (assessed'[pl] # "absent") = (assessed[pl] # "absent")
      BY <3>1
    <3> QED
      BY <3>1, <3>2
  <2>4. RowsOf(e, d) = {old(pl) : pl \in S}
    BY DEF RowsOf
  <2>5. RowsOf(e, d)' = {new(pl) : pl \in {q \in PlacesOf(e, d) : tasks'[q] # None}}
    BY DEF RowsOf
  <2>6. RowsOf(e, d)' = {new(pl) : pl \in S}
    BY <2>2, <2>5
  <2> HIDE DEF S, old, new
  <2> QED
    BY <2>3, <2>4, <2>6
<1>2. DayRows(d)' = DayRows(d)
  BY <1>1 DEF DayRows
<1> QED
  BY <1>1, <1>2

\* With the same cycles on the date, every employee has the same.
LEMMA CyclesKept ==
  ASSUME TypeOK, TypeOK', NEW d \in Days, SameCycles(d)
  PROVE  \A e \in Employees : CyclesOf(e, d)' = CyclesOf(e, d)
BY DEF CyclesOf, SameCycles, TypeOK

\* A date left alone is as consistent as it was, for a run that has not moved.
LEMMA DoneKept ==
  ASSUME TypeOK, TypeOK', NEW p \in Runs, NEW d \in Days, Done(p), Alone(p)',
         run[p].day = d, run'[p].day = d, SameDate(d),
         run'[p].stage = run[p].stage, run'[p].todo = run[p].todo,
         run'[p].keys = run[p].keys, run'[p].ghost = run[p].ghost,
         run'[p].read = run[p].read, run'[p].target = run[p].target,
         run'[p].stats = run[p].stats
  PROVE  Done(p)'
<1>1. /\ Present(d)' = Present(d)
      /\ \A e \in Employees : Tasks(RowsOf(e, d))' = Tasks(RowsOf(e, d))
  BY PresentKept DEF SameDate
<1>2. /\ \A e \in Employees : RowsOf(e, d)' = RowsOf(e, d)
      /\ DayRows(d)' = DayRows(d)
  BY RowsKept DEF SameDate, SameAssessed
<1>3. \A e \in Employees : CyclesOf(e, d)' = CyclesOf(e, d)
  BY CyclesKept DEF SameDate
<1>4. Present(d) \subseteq Employees
  BY DEF Present
<1>5. run[p] \in Run
  BY DEF TypeOK
<1>6. GhostSoFar(p)'
  BY <1>1, <1>4, <1>5 DEF GhostSoFar, Done
<1>7. GhostDone(p)'
  BY <1>1, <1>4 DEF GhostDone, Done, SameDate, SameGhost
<1>8. ReadCurrent(p)'
  BY <1>2 DEF ReadCurrent, Done
<1>9. ScoringDone(p)'
  BY DEF ScoringDone, Done, SameDate, SameTasks, SameAssessed
<1>10. TargetCurrent(p)'
  <2>1. Outdated(p)' = Outdated(p)
    BY DEF Outdated, SameDate, SameCycles, TypeOK
  <2> QED
    BY <2>1 DEF TargetCurrent, Done
<1>11. CyclesDone(p)'
  BY <1>1, <1>2, <1>3, <1>4 DEF CyclesDone, Done
<1>12. StatsCurrent(p)'
  BY DEF StatsCurrent, Done, SameDate, SameTasks
<1> QED
  BY <1>6, <1>7, <1>8, <1>9, <1>10, <1>11, <1>12 DEF Done
-----------------------------------------------------------------------------
(* Runs nothing disturbs                                                   *)

\* A run under way keeps its date and, unless it starts, was under way before.
LEMMA DatesKept ==
  ASSUME TypeOK, [Next]_vars, NEW q \in Runs, ~(\E d \in Days : Begin(q, d)),
         run'[q].stage # "idle"
  PROVE  run[q].stage # "idle" /\ run'[q].day = run[q].day
<1>1. ASSUME NEW p \in Runs, Step(p) \/ Fault(p) 
      PROVE  run[q].stage # "idle" /\ run'[q].day = run[q].day
  <2>1. CASE q = p
    BY <1>1, <2>1, OwnRun
  <2>2. CASE q # p
    <3>1. run'[q] = run[q] \/ run'[q] = [run[q] EXCEPT !.target = @ \ run[p].target]
      BY <1>1, <2>2, OtherRuns
    <3>2. run[q] \in Run
      BY DEF TypeOK
    <3> QED
      BY <3>1, <3>2 DEF Run
  <2> QED
    BY <2>1, <2>2
<1>2. ASSUME NEW p \in Runs, NEW d \in Days, Begin(p, d)
      PROVE  run[q].stage # "idle" /\ run'[q].day = run[q].day
  BY <1>2, SameRuns
<1>3. ASSUME NEW D \in SUBSET Days, NEW f, Replace(D, f)
      PROVE  run[q].stage # "idle" /\ run'[q].day = run[q].day
  BY <1>3, SameRuns
<1> QED
  BY <1>1, <1>2, <1>3, NextCases

\* A run nothing disturbs was not disturbed before.
LEMMA UndisturbedBefore ==
  ASSUME TypeOK, [Next]_vars, NEW q \in Runs, ~(\E d \in Days : Begin(q, d)),
         run'[q].stage # "idle", ~run'[q].disturbed
  PROVE  ~run[q].disturbed
<1>1. ASSUME NEW p \in Runs, Step(p) \/ Fault(p) PROVE  ~run[q].disturbed
  <2>1. CASE q = p
    BY <1>1, <2>1, OwnRun
  <2>2. CASE q # p
    <3>1. run'[q] = run[q] \/ run'[q] = [run[q] EXCEPT !.target = @ \ run[p].target]
      BY <1>1, <2>2, OtherRuns
    <3>2. run[q] \in Run
      BY DEF TypeOK
    <3> QED
      BY <3>1, <3>2 DEF Run
  <2> QED
    BY <2>1, <2>2
<1>2. ASSUME NEW p \in Runs, NEW d \in Days, Begin(p, d) PROVE  ~run[q].disturbed
  BY <1>2, SameRuns
<1>3. ASSUME NEW D \in SUBSET Days, NEW f, Replace(D, f) PROVE  ~run[q].disturbed
  BY <1>3, SameRuns
<1> QED
  BY <1>1, <1>2, <1>3, NextCases

\* A run nothing disturbs is alone on its date.
LEMMA AloneStep ==
  ASSUME IInv, [Next]_vars, NEW p \in Runs, run'[p].stage # "idle", ~run'[p].disturbed
  PROVE  Alone(p)'
<1>1. ASSUME NEW d \in Days, Begin(p, d), NEW q \in Runs \ {p}, run'[q].stage # "idle"
      PROVE  run'[q].day # run'[p].day
  <2>1. run'[p].day = d /\ (run[q].stage = "idle" \/ run[q].day # d)
    <3>1. /\ run'[p].day = d
          /\ run'[p].disturbed = (\E other \in Runs : run[other].stage # "idle" /\ run[other].day = d)
      BY <1>1, BeginRun DEF IInv, SInv
    <3>2. \A other \in Runs : run[other].stage = "idle" \/ run[other].day # d
      BY <3>1, Zenon
    <3> QED
      BY <3>1, <3>2
  <2>2. run'[q].stage = run[q].stage /\ run'[q].day = run[q].day
    BY <1>1, SameRuns DEF IInv, SInv
  <2> QED
    BY <1>1, <2>1, <2>2
<1>2. ASSUME ~(\E d \in Days : Begin(p, d)), NEW q \in Runs \ {p}, run'[q].stage # "idle"
      PROVE  run'[q].day # run'[p].day
  <2>1. run[p].stage # "idle" /\ run'[p].day = run[p].day /\ ~run[p].disturbed
    BY <1>2, DatesKept, UndisturbedBefore DEF IInv, SInv
  <2>2. run[q].stage = "idle" \/ run[q].day # run[p].day
    BY <2>1 DEF IInv, UndisturbedDone, Done, Alone
  <2>3. ASSUME NEW d \in Days, Begin(q, d) PROVE run'[q].day # run'[p].day
    <3>1. run'[q].day = d
      BY <2>3, BeginRun DEF IInv, SInv
    <3>2. run[p].day # d
      <4>1. SUFFICES ASSUME run[p].day = d PROVE FALSE
        OBVIOUS
      <4>2. run'[p] = [run[p] EXCEPT !.disturbed = TRUE]
        BY <1>2, <2>1, <2>3, <4>1 DEF Begin
      <4>3. run[p] \in Run
        BY DEF IInv, SInv, TypeOK
      <4> QED
        BY <4>2, <4>3 DEF Run
    <3> QED
      BY <2>1, <3>1, <3>2
  <2>4. CASE ~(\E d \in Days : Begin(q, d))
    BY <1>2, <2>1, <2>2, <2>4, DatesKept DEF IInv, SInv
  <2> QED
    BY <2>3, <2>4
<1> QED
  BY <1>1, <1>2 DEF Alone

\* A run writes rows of its own date only.
LEMMA OtherDates ==
  ASSUME SInv, SInv', NEW q \in Runs, Step(q) \/ Fault(q), NEW d \in Days, run[q].day # d
  PROVE  SameDate(d)
<1>1. tasks' = tasks
  BY DEF Step, Fault, GhostMetrics, GhostFails, GhostCommit, ScoreRead, ScoreCommit,
         ScoreRejected, AggregateRead, AggregateDelete, AggregateCommit, NormsRead, NormsCommit
<1>2. SameTasks(d)
  BY <1>1 DEF SameTasks
<1>3. \A r \in run[q].read : r.place[2] # d
  BY DEF SInv, OwnDate
<1>4. \A c \in run[q].target : c.place[2] # d
  BY DEF SInv, OwnDate
<1>5. \A pl \in PlacesOn(d) : pl \in Places /\ pl[2] = d
  BY DEF PlacesOn
<1>6. SameAssessed(d)
  <2>1. CASE ScoreCommit(q)
    BY <1>3, <1>5, <2>1 DEF ScoreCommit, ReadPlaces, SameAssessed
  <2>2. CASE NormsCommit(q)
    BY <1>5, <2>2 DEF NormsCommit, SameAssessed
  <2>3. CASE assessed' = assessed
    BY <2>3 DEF SameAssessed
  <2> QED
    BY <2>1, <2>2, <2>3
    DEF Step, Fault, GhostMetrics, GhostFails, GhostCommit, ScoreRead, ScoreRejected,
        AggregateRead, AggregateDelete, AggregateCommit, NormsRead
<1>7. SameGhost(d)
  <2>1. CASE GhostCommit(q)
    BY <2>1 DEF GhostCommit, SameGhost
  <2>2. CASE ghost' = ghost
    BY <2>2 DEF SameGhost
  <2> QED
    BY <2>1, <2>2
    DEF Step, Fault, GhostMetrics, GhostFails, ScoreRead, ScoreCommit, ScoreRejected,
        AggregateRead, AggregateDelete, AggregateCommit, NormsRead, NormsCommit
<1>8. SameCycles(d)
  <2>1. CASE AggregateCommit(q)
    <3>1. ASSUME NEW c \in Row, c.place[2] = d
          PROVE  c \in cycles' <=> c \in cycles
      <4>1. c \notin run[q].target /\ c \notin run[q].read
        BY <1>3, <1>4, <3>1
      <4>2. \A S : c \notin SameKey(S, run[q].read)
        BY <1>3, <3>1 DEF SameKey, Tasks
      <4> QED
        BY <2>1, <4>1, <4>2 DEF AggregateCommit
    <3> QED
      BY <3>1 DEF SameCycles
  <2>2. CASE cycles' = cycles
    BY <2>2 DEF SameCycles
  <2> QED
    BY <2>1, <2>2
    DEF Step, Fault, GhostMetrics, GhostFails, GhostCommit, ScoreRead, ScoreCommit,
        ScoreRejected, AggregateRead, AggregateDelete, NormsRead, NormsCommit
<1> QED
  BY <1>2, <1>6, <1>7, <1>8 DEF SameDate
\* A run that goes on undisturbed keeps up with its date.
LEMMA OwnStep ==
  ASSUME SInv, SInv', NEW p \in Runs, Step(p), Done(p), Alone(p)', run'[p].stage # "idle"
  PROVE  Done(p)'
<1>1. run[p] \in Run /\ run[p].day \in Days /\ run'[p].day = run[p].day
  BY OwnRun DEF SInv, TypeOK, Run
<1>2. SUFFICES ASSUME NEW d \in Days, run[p].day = d, run'[p].day = d PROVE Done(p)'
  BY <1>1
<1>3. tasks' = tasks
  BY DEF Step, GhostMetrics, GhostFails, GhostCommit, ScoreRead, ScoreCommit, ScoreRejected,
         AggregateRead, AggregateDelete, AggregateCommit, NormsRead, NormsCommit
<1>4. /\ Present(d)' = Present(d) /\ Present(d) \subseteq Employees
      /\ \A e \in Employees : Tasks(RowsOf(e, d))' = Tasks(RowsOf(e, d))
  <2>1. SameTasks(d)
    BY <1>3 DEF SameTasks
  <2> QED
    BY <2>1, PresentKept DEF SInv, Present
<1>5. ASSUME assessed' = assessed
      PROVE  /\ \A e \in Employees : RowsOf(e, d)' = RowsOf(e, d)
             /\ DayRows(d)' = DayRows(d)
  BY <1>3, <1>5, RowsKept DEF SameTasks
<1>6. ASSUME ghost' = ghost, run[p].stage # "ghost" PROVE GhostDone(p)'
  BY <1>2, <1>4, <1>6 DEF GhostDone, Done
<1>7. ASSUME assessed' = assessed,
             run[p].stage \in {"aggregation", "delete", "aggregate", "norms", "recompute"}
      PROVE  ScoringDone(p)'
  BY <1>2, <1>3, <1>7 DEF ScoringDone, Done
<1>8. ASSUME NEW e \in Employees, GhostMetrics(p, e) PROVE Done(p)'
  <2>1. /\ run[p].stage = "ghost" /\ run'[p].stage = "ghost"
        /\ run'[p].keys = run[p].keys /\ run'[p].todo = run[p].todo \ {e}
        /\ run'[p].ghost = [run[p].ghost EXCEPT ![e] = Tasks(RowsOf(e, d))]
        /\ run[p].ghost \in [Employees -> SUBSET (Places \X Texts)]
    BY <1>1, <1>2, <1>8 DEF GhostMetrics, SInv, TypeOK, Run
  <2>2. ASSUME NEW other \in run'[p].keys \ run'[p].todo
        PROVE  run'[p].ghost[other] = Tasks(RowsOf(other, d))
    <3>1. other \in Employees
      BY <1>1, <2>1, <2>2 DEF Run
    <3> QED
      BY <1>2, <2>1, <2>2, <3>1 DEF Done, GhostSoFar
  <2>3. run'[p].keys = Present(d)' /\ Present(d) \subseteq Employees
    BY <1>2, <1>4, <2>1 DEF Done, GhostSoFar
  <2>4. GhostSoFar(p)'
    BY <1>2, <1>4, <2>2, <2>3 DEF GhostSoFar
  <2> QED
    BY <2>1, <2>4 DEF Done, GhostDone, ReadCurrent, ScoringDone, TargetCurrent, CyclesDone,
                      StatsCurrent
<1>9. CASE GhostCommit(p)
  <2>1. run'[p].stage = "scoring"
    BY <1>9, AfterType DEF GhostCommit, SInv, TypeOK, Stages
  <2>2. ASSUME NEW e \in Present(d)
        PROVE  ghost'[<<e, d>>] = Tasks(RowsOf(e, d))
    <3>1. e \in Employees /\ e \in run[p].keys \ run[p].todo
          /\ run[p].ghost[e] = Tasks(RowsOf(e, d))
      BY <1>2, <1>4, <1>9 DEF GhostCommit, Done, GhostSoFar
    <3> QED
      BY <1>2, <1>9, <3>1 DEF GhostCommit
  <2>3. GhostDone(p)'
    BY <1>2, <1>4, <2>2 DEF GhostDone
  <2> QED
    BY <2>1, <2>3 DEF Done, GhostSoFar, ReadCurrent, ScoringDone, TargetCurrent, CyclesDone,
                      StatsCurrent
<1>10. CASE ScoreRead(p)
  <2>1. run[p].stage # "ghost" /\ run'[p].stage = "score" /\ run'[p].read = DayRows(d)
    BY <1>1, <1>2, <1>10 DEF ScoreRead, SInv, TypeOK, Run
  <2>2. GhostDone(p)' /\ ReadCurrent(p)'
    BY <1>2, <1>5, <1>6, <1>10, <2>1 DEF ScoreRead, ReadCurrent
  <2> QED
    BY <2>1, <2>2 DEF Done, GhostSoFar, ScoringDone, TargetCurrent, CyclesDone, StatsCurrent
<1>11. CASE ScoreCommit(p)
  <2>1. run[p].stage = "score" /\ run'[p].stage = "aggregation"
    BY <1>11, AfterType DEF ScoreCommit, SInv, TypeOK, Stages
  <2>2. GhostDone(p)'
    BY <1>6, <1>11, <2>1 DEF ScoreCommit
  <2>3. ASSUME NEW pl \in PlacesOn(d), tasks[pl] # None
        PROVE  assessed'[pl] # "absent"
    <3>1. run[p].read = DayRows(d)
      BY <1>2, <2>1 DEF Done, ReadCurrent
    <3>2. pl \in ReadPlaces(p) /\ pl \in Places
      BY <2>3, <3>1, DayRowsFacts DEF ReadPlaces, SInv, PlacesOn
    <3> QED
      BY <1>11, <3>2 DEF ScoreCommit
  <2>4. ScoringDone(p)'
    BY <1>2, <1>3, <2>3 DEF ScoringDone
  <2> QED
    BY <2>1, <2>2, <2>4 DEF Done, GhostSoFar, ReadCurrent, TargetCurrent, CyclesDone, StatsCurrent
<1>12. CASE AggregateRead(p)
  <2>1. /\ run[p].stage = "aggregation" /\ run'[p].stage = "delete"
        /\ run'[p].read = DayRows(d)
    BY <1>1, <1>2, <1>12 DEF AggregateRead, SInv, TypeOK, Run
  <2>2. GhostDone(p)' /\ ScoringDone(p)' /\ ReadCurrent(p)'
    BY <1>2, <1>5, <1>6, <1>7, <1>12, <2>1 DEF AggregateRead, ReadCurrent
  <2> QED
    BY <2>1, <2>2 DEF Done, GhostSoFar, TargetCurrent, CyclesDone, StatsCurrent
<1>13. CASE AggregateDelete(p)
  <2>1. /\ run[p].stage = "delete" /\ run'[p].stage = "aggregate"
        /\ run'[p].read = run[p].read /\ run'[p].target = Outdated(p)
    BY <1>1, <1>13 DEF AggregateDelete, SInv, TypeOK, Run
  <2>2. ReadCurrent(p)'
    BY <1>2, <1>5, <1>13, <2>1 DEF AggregateDelete, ReadCurrent, Done
  <2>3. TargetCurrent(p)'
    BY <1>2, <1>13, <2>1 DEF AggregateDelete, TargetCurrent, Outdated
  <2>4. GhostDone(p)' /\ ScoringDone(p)'
    BY <1>6, <1>7, <1>13, <2>1 DEF AggregateDelete
  <2> QED
    BY <2>1, <2>2, <2>3, <2>4 DEF Done, GhostSoFar, CyclesDone, StatsCurrent
<1>14. CASE AggregateCommit(p)
  <2>1. run[p].stage = "aggregate" /\ run'[p].stage = "norms"
    BY <1>14, AfterType DEF AggregateCommit, SInv, Stages
  <2>2. GhostDone(p)' /\ ScoringDone(p)'
    BY <1>6, <1>7, <1>14, <2>1 DEF AggregateCommit
  <2>3. run[p].read = DayRows(d) /\ run[p].target = Outdated(p)
    BY <1>2, <2>1 DEF Done, ReadCurrent, TargetCurrent
  <2>4. ASSUME NEW e \in Present(d)
        PROVE  CyclesOf(e, d)' = RowsOf(e, d)
    <3>1. e \in Employees
      BY <1>4, <2>4
    <3>2. PICK pl \in PlacesOf(e, d) : tasks[pl] # None
      BY <2>4 DEF Present
    <3>3. \E r \in DayRows(d) : r.place[1] = e
      BY <1>2, <3>1, <3>2, RowsOfFacts, DayRowsFacts DEF SInv
    <3>4. \A c \in cycles \ run[p].target : ~(c.place[1] = e /\ c.place[2] = d)
      BY <1>2, <2>3, <3>3 DEF Outdated
    <3>5. \A c : c \in cycles' /\ c.place[1] = e /\ c.place[2] = d
                  <=> c \in run[p].read /\ c.place[1] = e /\ c.place[2] = d
      BY <1>14, <3>4 DEF AggregateCommit, SameKey
    <3>6. \A r : r \in RowsOf(e, d) <=> r \in DayRows(d) /\ r.place[1] = e /\ r.place[2] = d
      BY <3>1, DayRowsFacts DEF SInv
    <3>7. \A c : c \in CyclesOf(e, d)' <=> c \in cycles' /\ c.place[1] = e /\ c.place[2] = d
      BY DEF CyclesOf
    <3> QED
      BY <2>3, <3>5, <3>6, <3>7
  <2>5. CyclesDone(p)'
    BY <1>2, <1>4, <1>5, <1>14, <2>4 DEF CyclesDone, AggregateCommit
  <2> QED
    BY <2>1, <2>2, <2>5 DEF Done, GhostSoFar, ReadCurrent, TargetCurrent, StatsCurrent
<1>15. CASE NormsRead(p)
  <2> DEFINE timedTexts ==
        {tasks[pl] : pl \in {q \in Places : q[2] \in Window(d) /\ tasks[q] \in Timed}}
  <2>1. /\ run[p].stage = "norms" /\ run'[p].stage = "recompute"
        /\ run'[p].stats = timedTexts
    BY <1>1, <1>2, <1>15 DEF NormsRead, SInv, TypeOK, Run
  <2>2. d \in Window(d)
    BY DailyAssessAssumption DEF Window, Days
  <2>3. \A pl \in PlacesOn(d) : tasks[pl] \in Timed => tasks[pl] \in timedTexts
    BY <2>2 DEF PlacesOn
  <2>4. StatsCurrent(p)'
    BY <1>2, <1>3, <2>1, <2>3 DEF StatsCurrent
  <2>5. GhostDone(p)' /\ ScoringDone(p)'
    BY <1>6, <1>7, <1>15, <2>1 DEF NormsRead
  <2>6. CyclesDone(p)'
    <3>1. \A e \in Present(d) : CyclesOf(e, d) = RowsOf(e, d)
      BY <1>2, <2>1 DEF Done, CyclesDone
    <3>2. \A e \in Employees : CyclesOf(e, d)' = CyclesOf(e, d)
      BY <1>15 DEF NormsRead, CyclesOf
    <3> QED
      BY <1>2, <1>4, <1>5, <1>15, <3>1, <3>2 DEF CyclesDone, NormsRead
  <2> QED
    BY <2>1, <2>4, <2>5, <2>6 DEF Done, GhostSoFar, ReadCurrent, TargetCurrent
<1>16. CASE ScoreRejected(p) \/ NormsCommit(p) \/ \E e \in Employees : GhostFails(p, e)
  <2>1. run'[p].stage = "idle"
    BY <1>16 DEF ScoreRejected, NormsCommit, GhostFails, IdleRun, SInv, TypeOK
  <2> QED
    BY <2>1
<1> QED
  BY <1>8, <1>9, <1>10, <1>11, <1>12, <1>13, <1>14, <1>15, <1>16 DEF Step
\* A run that starts undisturbed has all its work before it.
LEMMA BeginDone ==
  ASSUME SInv, NEW p \in Runs, NEW d \in Days, Begin(p, d), Alone(p)'
  PROVE  Done(p)'
<1>1. /\ run'[p].stage = "ghost" /\ run'[p].day = d
      /\ run'[p].todo = Present(d) /\ run'[p].keys = Present(d)
  BY BeginRun DEF SInv
<1>2. Present(d)' = Present(d)
  BY DEF Begin, Present
<1> QED
  BY <1>1, <1>2 DEF Done, GhostSoFar, GhostDone, ReadCurrent, ScoringDone, TargetCurrent,
                    CyclesDone, StatsCurrent

\* Every undisturbed run is where its stage says, after every step.
LEMMA DoneStep ==
  ASSUME IInv, SInv', [Next]_vars, NEW p \in Runs, run'[p].stage # "idle", ~run'[p].disturbed
  PROVE  Done(p)'
<1>1. Alone(p)'
  BY AloneStep
<1>2. CASE \E d \in Days : Begin(p, d)
  BY <1>1, <1>2, BeginDone DEF IInv
<1>3. CASE ~(\E d \in Days : Begin(p, d))
  <2>1. /\ run[p].stage # "idle" /\ run'[p].day = run[p].day /\ ~run[p].disturbed
        /\ Done(p) /\ run[p] \in Run /\ run[p].day \in Days
    BY <1>3, DatesKept, UndisturbedBefore DEF IInv, SInv, TypeOK, Run, UndisturbedDone
  <2>2. SUFFICES ASSUME NEW d \in Days, run[p].day = d, run'[p].day = d PROVE Done(p)'
    BY <2>1
  <2>3. ASSUME NEW D \in SUBSET Days, NEW f, Replace(D, f) PROVE Done(p)'
    <3>1. d \notin D
      <4>1. SUFFICES ASSUME d \in D PROVE FALSE
        OBVIOUS
      <4>2. run'[p] = [run[p] EXCEPT !.disturbed = TRUE, !.gone = PlacesOn(run[p].day)]
        BY <2>1, <2>2, <2>3, <4>1 DEF Replace
      <4> QED
        BY <2>1, <4>2 DEF Run
    <3>2. SameDate(d)
      BY <2>3, <3>1 DEF Replace, SameDate, SameTasks, SameAssessed, SameCycles, SameGhost,
                        PlacesOn
    <3>3. /\ run'[p].stage = run[p].stage
          /\ run'[p].todo = run[p].todo /\ run'[p].keys = run[p].keys
          /\ run'[p].ghost = run[p].ghost /\ run'[p].read = run[p].read
          /\ run'[p].target = run[p].target /\ run'[p].stats = run[p].stats
      BY <2>3, SameRuns DEF IInv, SInv
    <3> QED
      BY <1>1, <2>1, <2>2, <3>2, <3>3, DoneKept DEF SInv, IInv
  <2>4. ASSUME UNCHANGED <<tasks, assessed, cycles, ghost, norms, run>> PROVE Done(p)'
    <3>1. SameDate(d)
      BY <2>4 DEF SameDate, SameTasks, SameAssessed, SameCycles, SameGhost
    <3> QED
      BY <1>1, <2>1, <2>2, <2>4, <3>1, DoneKept DEF SInv, IInv
  <2>5. ASSUME NEW q \in Runs, NEW other \in Days, Begin(q, other) PROVE Done(p)'
    <3>1. SameDate(d)
      BY <2>5 DEF Begin, SameDate, SameTasks, SameAssessed, SameCycles, SameGhost
    <3>2. q # p
      BY <1>3, <2>5
    <3>3. /\ run'[p].stage = run[p].stage
          /\ run'[p].todo = run[p].todo /\ run'[p].keys = run[p].keys
          /\ run'[p].ghost = run[p].ghost /\ run'[p].read = run[p].read
          /\ run'[p].target = run[p].target /\ run'[p].stats = run[p].stats
      BY <2>5, <3>2, SameRuns DEF IInv, SInv
    <3> QED
      BY <1>1, <2>1, <2>2, <3>1, <3>3, DoneKept DEF SInv, IInv
  <2>6. ASSUME NEW q \in Runs, q # p, Step(q) \/ Fault(q) PROVE Done(p)'
    <3>1. run[q].stage # "idle" /\ run[q].day # d
      BY <2>1, <2>2, <2>6, OwnRun DEF IInv, SInv, Done, Alone
    <3>2. SameDate(d)
      BY <2>6, <3>1, OtherDates DEF IInv
    <3>3. run[p].target \ run[q].target = run[p].target
      BY <2>2, <3>1 DEF IInv, SInv, OwnDate
    <3>4. run'[p] = run[p] \/ run'[p] = [run[p] EXCEPT !.target = @ \ run[q].target]
      BY <2>6, OtherRuns DEF IInv, SInv
    <3>5. /\ run'[p].stage = run[p].stage
          /\ run'[p].todo = run[p].todo /\ run'[p].keys = run[p].keys
          /\ run'[p].ghost = run[p].ghost /\ run'[p].read = run[p].read
          /\ run'[p].target = run[p].target /\ run'[p].stats = run[p].stats
      BY <2>1, <3>3, <3>4 DEF Run
    <3> QED
      BY <1>1, <2>1, <2>2, <3>2, <3>5, DoneKept DEF SInv, IInv
  <2>7. ASSUME Step(p) PROVE Done(p)'
    BY <1>1, <2>1, <2>7, OwnStep DEF IInv
  <2>8. ~Fault(p)
    <3>1. Fault(p) => run'[p].stage = "idle"
      BY DEF Fault, IdleRun, IInv, SInv, TypeOK
    <3> QED
      BY <3>1
  <2> QED
    BY <2>3, <2>4, <2>5, <2>6, <2>7, <2>8, NextCases
<1> QED
  BY <1>2, <1>3

-----------------------------------------------------------------------------
(* The theorems                                                            *)

\* The invariant is inductive.
THEOREM Inductive == Spec => []IInv
<1>1. Init => IInv
  <2> SUFFICES ASSUME Init PROVE IInv
    OBVIOUS
  <2>1. \A p \in Runs : run[p].stage = "idle"
    BY DEF Init, IdleRun
  <2> QED
    BY <2>1, SafetyInit DEF IInv, UndisturbedDone
<1>2. IInv /\ [Next]_vars => IInv'
  <2> SUFFICES ASSUME IInv, [Next]_vars PROVE IInv'
    OBVIOUS
  <2>1. SInv'
    BY SafetyStep DEF IInv
  <2> QED
    BY <2>1, DoneStep DEF IInv, UndisturbedDone
<1> QED
  BY <1>1, <1>2, PTL DEF Spec

\* Every table and every run has its type.
THEOREM TypeCorrect == Spec => []TypeOK
<1>1. IInv => TypeOK
  BY DEF IInv, SInv
<1> QED
  BY <1>1, Inductive, PTL

\* Whatever the refreshes and the other runs do between a run's statements, an
\* assessment is of a row that is there and its norm of a category with one.
THEOREM AssessmentsAreSound == Spec => []AssessmentsSound
<1>1. IInv => AssessmentsSound
  BY DEF IInv, SInv
<1> QED
  BY <1>1, Inductive, PTL

\* No ghost-time row is computed from an emptied date.
THEOREM NoGhost == Spec => []NoGhostFromNothing
<1>1. IInv => NoGhostFromNothing
  BY DEF IInv, SInv
<1> QED
  BY <1>1, Inductive, PTL

\* The last commit of an undisturbed run finds, and leaves, its date consistent.
LEMMA CommitConsistent ==
  ASSUME IInv, NEW p \in Runs, NEW d \in Days, run[p].stage = "recompute", NormsCommit(p),
         run[p].day = d, ~run[p].disturbed, NEW e \in Present(d)
  PROVE  Consistent(e, d)'
<1>1. Done(p) /\ TypeOK /\ TypeOK' /\ e \in Employees
  BY NextType DEF IInv, SInv, UndisturbedDone, Present, Next, Step
<1>2. SameTasks(d) /\ tasks' = tasks /\ cycles' = cycles /\ ghost' = ghost
  BY DEF NormsCommit, SameTasks
<1>3. \A pl \in PlacesOn(d) : tasks[pl] # None =>
        /\ assessed[pl] # "absent" /\ assessed'[pl] # "absent"
        /\ tasks[pl] \in Timed \union Priors => assessed'[pl] = "normed"
  <2>1. ASSUME NEW pl \in PlacesOn(d), tasks[pl] # None
        PROVE  /\ assessed[pl] # "absent" /\ assessed'[pl] # "absent"
               /\ tasks[pl] \in Timed \union Priors => assessed'[pl] = "normed"
    <3>1. assessed[pl] # "absent" /\ (tasks[pl] \in Timed => tasks[pl] \in run[p].stats)
      BY <1>1, <2>1 DEF Done, ScoringDone, StatsCurrent
    <3>2. pl \in Places /\ pl[2] = d
      BY DEF PlacesOn
    <3>3. tasks[pl] \in Timed \union Priors => tasks[pl] \in norms'
      BY <3>1 DEF NormsCommit
    <3> QED
      BY <3>1, <3>2, <3>3 DEF NormsCommit
  <2> QED
    BY <2>1
<1>4. RowsOf(e, d)' = RowsOf(e, d)
  BY <1>1, <1>2, <1>3, RowsKept
<1>5. Tasks(RowsOf(e, d))' = Tasks(RowsOf(e, d))
  BY <1>1, <1>2, PresentKept
<1>6. ghost'[<<e, d>>] = Tasks(RowsOf(e, d))'
  BY <1>1, <1>2, <1>5 DEF Done, GhostDone
<1>7. CyclesOf(e, d)' = RowsOf(e, d)'
  <2>1. CyclesOf(e, d) = RowsOf(e, d)
    BY <1>1 DEF Done, CyclesDone
  <2>2. CyclesOf(e, d)' = CyclesOf(e, d)
    BY <1>2 DEF CyclesOf
  <2> QED
    BY <1>4, <2>1, <2>2
<1>8. \A pl \in PlacesOf(e, d) : pl \in PlacesOn(d)
  BY DEF PlacesOf, PlacesOn
<1> QED
  BY <1>2, <1>3, <1>6, <1>7, <1>8 DEF Consistent

\* A run that no refresh of its date and no other run on it disturbed leaves ghost
\* time, cycles, scores and norms of the date as its tasks have them, for every
\* employee with tasks, after any history of crashes and refreshes.
THEOREM RunsLeaveDatesConsistent == Spec => RunLeavesDateConsistent
<1> DEFINE CommitsConsistent ==
      \A p \in Runs, d \in Days :
        run[p].stage = "recompute" /\ NormsCommit(p) /\ run[p].day = d /\ ~run[p].disturbed =>
          \A e \in Present(d) : Consistent(e, d)'
<1>1. IInv /\ [Next]_vars => [CommitsConsistent]_vars
  BY CommitConsistent
<1>2. RunLeavesDateConsistent <=> [][CommitsConsistent]_vars
  BY DEF RunLeavesDateConsistent
<1> HIDE DEF CommitsConsistent
<1> QED
  BY <1>1, <1>2, Inductive, PTL DEF Spec
=============================================================================
