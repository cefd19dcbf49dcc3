----------------------------- MODULE AuditAttempt -----------------------------
(***************************************************************************)
(* What an attempt of run_audit puts into its report (WorkAI/audit): the   *)
(* metrics it reads before the crew is built, what the crew answers, and   *)
(* the report the model validators make of both, while normalize and       *)
(* assess replace what is read.  AuditRuns has the row, its statuses and   *)
(* the calls beside each other; here is the data, of one call after the    *)
(* other.  The cycles are read by a statement of their own, so they may be *)
(* of another state; they only go into the prompt and are left out.        *)
(***************************************************************************)
EXTENDS Integers

CONSTANTS
  States,       \* states of the employee's day; 0 is none of them
  Trust,        \* state -> index_of_trust_base, in thousandths
  GhostHours,   \* state -> ghost time in hours
  NoneRatio,    \* state -> share of tasks without a time source, in thousandths
  VagueRatio,   \* state -> share of tasks that are not SMART, in thousandths
  CrewOutputs,      \* what the crew may answer
  MaxTries,     \* failed_retry_attempts + 1
  MaxRefreshes  \* bound: changes of the tasks

\* The four figures of the prefetch, which are in the report as well.
FiguresType == [base : 0 .. 1000, hours : Nat, none : 0 .. 1000, vague : 0 .. 1000]

ASSUME AuditAttemptAssumption ==
  /\ \A answer \in CrewOutputs : answer.format = "pydantic" => answer.figures \in FiguresType
  /\ 0 \notin States
  /\ {Trust, NoneRatio, VagueRatio} \subseteq [States \union {0} -> 0 .. 1000]
  /\ GhostHours \in [States \union {0} -> Nat]
  /\ \A f \in {Trust, NoneRatio, VagueRatio, GhostHours} : f[0] = 0
  /\ MaxTries \in Nat \ {0} /\ MaxRefreshes \in Nat

VARIABLES
  dayTasks,   \* tasks_normalized of the day: the state it holds
  dayGhost,   \* employee_daily_ghost_time: the state it was computed from
  auditCall,  \* the run in progress
  kept,       \* the report stored last, if any
  refreshes

attemptVars == <<dayTasks, dayGhost, auditCall, kept, refreshes>>

\* What the validators derive, and what the crew may say instead.
Priorities == {"low", "medium", "high"} \union UNION {answer.priority : answer \in CrewOutputs}

NoFigures == [base |-> 0, hours |-> 0, none |-> 0, vague |-> 0]

\* answer: what the crew answered, if anything; moments: the states of the two
\* tables since the run began (history).
NoCall == [stage |-> "idle", try |-> 0, figures |-> NoFigures, answer |-> {}, moments |-> {}]

Moment == <<dayGhost, dayTasks>>

AttemptTypeOK ==
  /\ {dayTasks, dayGhost} \subseteq States \union {0}
  /\ auditCall.stage \in {"idle", "attempt", "crew", "complete"}
  /\ auditCall.try \in 0 .. MaxTries
  /\ auditCall.figures \in FiguresType
  /\ auditCall.answer \subseteq CrewOutputs
  /\ kept \subseteq [figures : FiguresType, trust : 0 .. 1000, priority : Priorities, tool : BOOLEAN]
  /\ refreshes \in 0 .. MaxRefreshes

AttemptInit ==
  /\ dayTasks = 0 /\ dayGhost = 0
  /\ auditCall = NoCall
  /\ kept = {}
  /\ refreshes = 0

-----------------------------------------------------------------------------
(* Parse and normalize replace the tasks; assess the ghost time, for an    *)
(* employee that has tasks, in a transaction of its own.                   *)

Remember(call) ==
  IF call.stage = "idle" THEN call ELSE [call EXCEPT !.moments = @ \union {<<dayGhost', dayTasks'>>}]

RefreshTasks ==
  /\ refreshes < MaxRefreshes
  /\ refreshes' = refreshes + 1
  /\ dayTasks' \in (States \union {0}) \ {dayTasks}
  /\ UNCHANGED <<dayGhost, kept>>
  /\ auditCall' = Remember(auditCall)

AssessGhost ==
  /\ dayTasks # 0
  /\ dayGhost' = dayTasks
  /\ UNCHANGED <<dayTasks, kept, refreshes>>
  /\ auditCall' = Remember(auditCall)

-----------------------------------------------------------------------------
StartAudit ==
  /\ auditCall.stage = "idle"
  /\ auditCall' = [NoCall EXCEPT !.stage = "attempt", !.try = 1, !.moments = {Moment}]
  /\ UNCHANGED <<dayTasks, dayGhost, kept, refreshes>>

\* FETCH_AUDIT_METRICS_SQL: both tables as one statement sees them.
FiguresNow ==
  [base |-> Trust[dayGhost], hours |-> GhostHours[dayGhost],
   none |-> NoneRatio[dayTasks], vague |-> VagueRatio[dayTasks]]

\* fetch_prefetch_payload, again for each attempt.
FetchPayload ==
  /\ auditCall.stage = "attempt"
  /\ auditCall' = [auditCall EXCEPT !.stage = "crew", !.figures = FiguresNow]
  /\ UNCHANGED <<dayTasks, dayGhost, kept, refreshes>>

\* should_use_methodology_lookup
UsesLookup(figures) == figures.hours >= 4

\* derive_scores: what the model validators add to a report of these figures.
Adjusted(figures) ==
  LET tenths == 10 * figures.base - 4 * figures.none - 2 * figures.vague
  IN  IF tenths < 0 THEN 0 ELSE (tenths + 5) \div 10

PriorityOf(hours, trust) ==
  IF hours >= 4 \/ trust < 400 THEN "high"
  ELSE IF hours >= 2 \/ trust < 700 THEN "medium" ELSE "low"

\* Mutant: the answer of the crew overrides the figures.
MergedAnswerWins(answer) == IF answer.format = "dict" THEN auditCall.figures ELSE answer.figures

\* The figures of the report: {**raw_report, ..., the payload}.
Merged(answer) == auditCall.figures

\* An answer that was validated already (crew_result.pydantic, for the reporter's
\* task has output_pydantic=FinalAuditReport) has scores, which derive_scores made
\* of the figures the crew wrote down; a plain one only if the crew gave some.
ScoresOf(answer) ==
  IF answer.format = "pydantic" /\ answer.trust = {}
  THEN {Adjusted(answer.figures)}
  ELSE answer.trust

PriorityGiven(answer) ==
  IF answer.format = "pydantic" /\ answer.priority = {}
  THEN {PriorityOf(answer.figures.hours, trust) : trust \in ScoresOf(answer)}
  ELSE answer.priority

\* An output of another format, JSON that cannot be decoded, a score out of range.
Unusable(answer) == answer.format = "text" \/ ~ answer.trust \subseteq 0 .. 1000

TrustOf(answer) ==
  IF ScoresOf(answer) = {} THEN Adjusted(Merged(answer))
  ELSE CHOOSE trust \in ScoresOf(answer) : TRUE

\* _extract_report_payload, the merge and FinalAuditReport.model_validate.
ReportOf(answer) ==
  [figures  |-> Merged(answer),
   trust    |-> TrustOf(answer),
   priority |-> IF PriorityGiven(answer) = {}
                THEN PriorityOf(Merged(answer).hours, TrustOf(answer))
                ELSE CHOOSE p \in PriorityGiven(answer) : TRUE,
   tool     |-> UsesLookup(auditCall.figures)]

CrewAnswers(answer) ==
  /\ auditCall.stage = "crew"
  /\ ~ Unusable(answer)
  /\ auditCall' = [auditCall EXCEPT !.stage = "complete", !.answer = {answer}]
  /\ UNCHANGED <<dayTasks, dayGhost, kept, refreshes>>

NextTry ==
  IF auditCall.try < MaxTries
  THEN [auditCall EXCEPT !.stage = "attempt", !.try = @ + 1, !.answer = {}]
  ELSE NoCall

\* A statement or the crew raises, or the answer cannot be used.
AttemptRaises ==
  /\ auditCall.stage \in {"attempt", "crew", "complete"}
  /\ auditCall' = NextTry
  /\ UNCHANGED <<dayTasks, dayGhost, kept, refreshes>>

\* mark_run_completed; the answer to the commit may be lost, and the attempt
\* then counts as failed although its report is stored.
StoreReport ==
  /\ auditCall.stage = "complete"
  /\ kept' = {ReportOf(answer) : answer \in auditCall.answer}
  /\ auditCall' \in {NoCall, NextTry}
  /\ UNCHANGED <<dayTasks, dayGhost, refreshes>>

AttemptNext ==
  \/ RefreshTasks \/ AssessGhost
  \/ StartAudit
  \/ FetchPayload
  \/ \E answer \in CrewOutputs : CrewAnswers(answer)
  \/ AttemptRaises
  \/ StoreReport

AttemptSpec == AttemptInit /\ [][AttemptNext]_attemptVars

-----------------------------------------------------------------------------
\* A step that stores a report stores what the database says.
StoresTheDay ==
  kept' # kept =>
    \A report \in kept', answer \in auditCall.answer :
      /\ \E m \in auditCall.moments :
           report.figures = [base |-> Trust[m[1]], hours |-> GhostHours[m[1]],
                             none |-> NoneRatio[m[2]], vague |-> VagueRatio[m[2]]]
      /\ report.tool <=> report.figures.hours >= 4
      /\ answer.format # "pydantic" /\ answer.trust = {} =>
           LET f == report.figures
           IN  /\ report.trust <= f.base
               /\ 10 * report.trust + 5 >= 10 * f.base - 4 * f.none - 2 * f.vague
      /\ answer.format # "pydantic" /\ answer.priority = {}
           /\ (report.figures.hours >= 4 \/ report.trust < 400)
           => report.priority = "high"

\* The figures of a stored report are the database's, never the crew's, and of
\* one moment of its own run, however often it was retried while the day changed;
\* the reporter had the methodology exactly if these figures ask for it.  The
\* scores are derived from the figures unless the crew's answer carried scores
\* of its own; a day of four ghost hours or little trust is then never less than
\* of high priority.
ReportsShowTheDay == [][StoresTheDay]_attemptVars
=============================================================================
