------------------------------ MODULE AuditRuns ------------------------------
(***************************************************************************)
(* The audit ledger: rows of the table audit_runs written by concurrent    *)
(* calls of run_audit (WorkAI/audit/crew.py), from the CLI and from API    *)
(* threads, and by the stale sweeper (WorkAI/ops).                         *)
(*                                                                         *)
(* One action is one stretch of a call between two points where another    *)
(* process can run: a SQL statement or a transaction, or the Crew run.     *)
(* A transaction may commit, roll back with an exception, or commit while  *)
(* the acknowledgement is lost, so that the caller sees an exception.      *)
(***************************************************************************)
EXTENDS Naturals, FiniteSets

CONSTANTS
  Callers,      \* run_audit calls that can be in progress at once
  ApiCallers,   \* the callers that are API threads: their client may give up
  Forces,       \* the values of the force argument the callers pass
  Keys,         \* (employee_id, task_date) pairs
  NoKey,        \* the key of a row that does not exist
  NoReport,     \* report_json IS NULL
  MaxAttempts,  \* max(1, failed_retry_attempts + 1)
  MaxRuns       \* bound: calls started in a behaviour

ASSUME AuditRunsAssumption ==
  /\ ApiCallers \subseteq Callers
  /\ Forces \subseteq BOOLEAN
  /\ NoKey \notin Keys
  /\ NoReport \notin [run : Nat, attempt : Nat]
  /\ MaxAttempts \in Nat \ {0}
  /\ MaxRuns \in Nat

VARIABLES
  runs,        \* the table: RunIds -> row, an id is the rank of started_at
  nextRun,     \* the started_at of the next transaction
  calls,       \* the local state of each run_audit call
  published,   \* history: every report ever stored by mark_run_completed
  answers      \* history: every result a call handed back to its client

vars == <<runs, nextRun, calls, published, answers>>

-----------------------------------------------------------------------------
(* Types. A report is identified by the run and the attempt that made it.  *)

RunIds   == 1 .. MaxRuns
Attempts == 1 .. MaxAttempts
Report   == [run : RunIds, attempt : Attempts]

Statuses == {"absent", "processing", "completed", "completed_cached",
             "failed", "stale"}

\* What the columns error and finished_at tell apart.
Errors == {"none", "exception", "sweeper_timeout"}

Row == [status   : Statuses,
        key      : Keys \union {NoKey},
        report   : Report \union {NoReport},
        error    : Errors,
        finished : BOOLEAN]

NoRow == [status |-> "absent", key |-> NoKey, report |-> NoReport,
          error |-> "none", finished |-> FALSE]

Stages == {"idle", "lookup", "reuse", "open", "attempt", "complete", "fail"}

Call == [stage   : Stages,
         key     : Keys \union {NoKey},
         run     : 0 .. MaxRuns,
         attempt : 0 .. MaxAttempts,
         report  : Report \union {NoReport},
         waiting : BOOLEAN]

Idle == [stage |-> "idle", key |-> NoKey, run |-> 0, attempt |-> 0,
         report |-> NoReport, waiting |-> FALSE]

Published == [key : Keys, report : Report]
Answer    == [run : RunIds, status : {"completed", "completed_cached"},
              report : Report]

TypeOK ==
  /\ runs \in [RunIds -> Row]
  /\ nextRun \in 1 .. MaxRuns + 1
  /\ calls \in [Callers -> Call]
  /\ published \in SUBSET Published
  /\ answers \in SUBSET Answer

Init ==
  /\ runs = [r \in RunIds |-> NoRow]
  /\ nextRun = 1
  /\ calls = [c \in Callers |-> Idle]
  /\ published = {}
  /\ answers = {}

-----------------------------------------------------------------------------
(* Helpers                                                                 *)

CommitOutcomes == {"ok", "ack_lost", "rolled_back"}

\* One transaction that writes row r. It reaches the table unless rolled back.
Write(r, row, outcome) ==
  runs' = IF outcome = "rolled_back" THEN runs ELSE [runs EXCEPT ![r] = row]

\* UPDATE audit_runs ... WHERE id = r touches nothing when the row is absent.
UpdateOf(r, row) == IF runs[r].status = "absent" THEN NoRow ELSE row

\* Mutant: the lookup forgets the employee and the day.
CompletedRunsAnyKey(k) == {r \in RunIds : runs[r].status = "completed"}

CompletedRuns(k) ==
  {r \in RunIds : runs[r].status = "completed" /\ runs[r].key = k}

\* Mutants: one retry too many; a retry that is not counted.
AfterFailedAttemptOffByOne(call) ==
  IF call.attempt <= MaxAttempts
  THEN [call EXCEPT !.stage = "attempt", !.attempt = @ + 1, !.report = NoReport]
  ELSE [call EXCEPT !.stage = "fail", !.report = NoReport]

AfterFailedAttemptUncounted(call) ==
  [call EXCEPT !.stage = "attempt", !.report = NoReport]

\* The exception handler of one attempt: retry on the same row, or give up.
AfterFailedAttempt(call) ==
  IF call.attempt < MaxAttempts
  THEN [call EXCEPT !.stage = "attempt", !.attempt = @ + 1, !.report = NoReport]
  ELSE [call EXCEPT !.stage = "fail", !.report = NoReport]

\* run_audit returns a result: only a client that still waits receives it.
Return(c, status, report) ==
  /\ calls' = [calls EXCEPT ![c] = Idle]
  /\ answers' = IF calls[c].waiting
                THEN answers \union {[run |-> calls[c].run, status |-> status,
                                      report |-> report]}
                ELSE answers

-----------------------------------------------------------------------------
(* run_audit                                                               *)

\* A client calls run_audit; its first transaction fixes started_at (now()).
Begin(c, k, f) ==
  /\ calls[c].stage = "idle"
  /\ nextRun <= MaxRuns
  /\ calls' = [calls EXCEPT ![c] =
                 [Idle EXCEPT !.stage = IF f THEN "open" ELSE "lookup",
                              !.key = k, !.run = nextRun,
                              !.waiting = TRUE]]
  /\ nextRun' = nextRun + 1
  /\ UNCHANGED <<runs, published, answers>>

\* find_completed_run: the latest completed row of the key, whatever call
\* made it, or a miss.
LookupHit(c) ==
  /\ calls[c].stage = "lookup"
  /\ \E r \in CompletedRuns(calls[c].key) :
       /\ \A q \in CompletedRuns(calls[c].key) : q <= r
       /\ runs[r].report # NoReport
       /\ calls' = [calls EXCEPT ![c] = [@ EXCEPT !.stage = "reuse",
                                                  !.report = runs[r].report]]
  /\ UNCHANGED <<runs, nextRun, published, answers>>

LookupMiss(c) ==
  /\ calls[c].stage = "lookup"
  /\ \A r \in CompletedRuns(calls[c].key) :
       (\A q \in CompletedRuns(calls[c].key) : q <= r) => runs[r].report = NoReport
  /\ calls' = [calls EXCEPT ![c].stage = "open"]
  /\ UNCHANGED <<runs, nextRun, published, answers>>

\* Mutant: the failure handler also runs for the row of a cache hit.
InsertCachedThenFail(c) ==
  /\ calls[c].stage = "reuse"
  /\ \E outcome \in CommitOutcomes :
       /\ Write(calls[c].run,
                [NoRow EXCEPT !.status = "completed_cached", !.key = calls[c].key,
                              !.report = calls[c].report], outcome)
       /\ IF outcome = "ok"
          THEN Return(c, "completed_cached", calls[c].report)
          ELSE calls' = [calls EXCEPT ![c].stage = "fail"] /\ UNCHANGED answers
  /\ UNCHANGED <<nextRun, published>>

\* insert_run(status='completed_cached') and commit. An exception here leaves
\* processing_run_id unset, so nothing is persisted on the way out.
InsertCached(c) ==
  /\ calls[c].stage = "reuse"
  /\ \E outcome \in CommitOutcomes :
       /\ Write(calls[c].run,
                [NoRow EXCEPT !.status = "completed_cached", !.key = calls[c].key,
                              !.report = calls[c].report], outcome)
       /\ IF outcome = "ok"
          THEN Return(c, "completed_cached", calls[c].report)
          ELSE calls' = [calls EXCEPT ![c] = Idle] /\ UNCHANGED answers
  /\ UNCHANGED <<nextRun, published>>

\* insert_run(status='processing') and commit. processing_run_id is assigned
\* before the commit, so a failed commit goes through _persist_failed_run.
InsertProcessing(c) ==
  /\ calls[c].stage = "open"
  /\ \E outcome \in CommitOutcomes :
       /\ Write(calls[c].run,
                [NoRow EXCEPT !.status = "processing", !.key = calls[c].key],
                outcome)
       /\ calls' = [calls EXCEPT ![c] =
                      IF outcome = "ok"
                      THEN [@ EXCEPT !.stage = "attempt", !.attempt = 1]
                      ELSE [@ EXCEPT !.stage = "fail"]]
  /\ UNCHANGED <<nextRun, published, answers>>

\* The first transaction fails before the INSERT returned an id.
FirstStatementFails(c) ==
  /\ calls[c].stage \in {"lookup", "reuse", "open"}
  /\ calls' = [calls EXCEPT ![c] = Idle]
  /\ UNCHANGED <<runs, nextRun, published, answers>>

\* Prefetch, Crew run, extraction and validation of the report.
AttemptSucceeds(c) ==
  /\ calls[c].stage = "attempt"
  /\ calls' = [calls EXCEPT ![c] =
                 [@ EXCEPT !.stage = "complete",
                           !.report = [run |-> calls[c].run,
                                       attempt |-> calls[c].attempt]]]
  /\ UNCHANGED <<runs, nextRun, published, answers>>

AttemptFails(c) ==
  /\ calls[c].stage = "attempt"
  /\ calls' = [calls EXCEPT ![c] = AfterFailedAttempt(calls[c])]
  /\ UNCHANGED <<runs, nextRun, published, answers>>

\* mark_run_completed and commit: by id, whatever the row's status is now.
MarkCompleted(c) ==
  LET call == calls[c] IN
  /\ call.stage = "complete"
  /\ \E outcome \in CommitOutcomes :
       /\ Write(call.run,
                UpdateOf(call.run,
                         [runs[call.run] EXCEPT !.status = "completed",
                                                !.report = call.report,
                                                !.error = "none",
                                                !.finished = TRUE]), outcome)
       /\ published' = IF outcome = "rolled_back" \/ runs[call.run].status = "absent"
                       THEN published
                       ELSE published \union {[key |-> runs[call.run].key,
                                               report |-> call.report]}
       /\ IF outcome = "ok"
          THEN Return(c, "completed", call.report)
          ELSE /\ calls' = [calls EXCEPT ![c] = AfterFailedAttempt(call)]
               /\ UNCHANGED answers
  /\ UNCHANGED nextRun

\* Mutant: the failure is stored by employee and day instead of by id.
PersistFailedByKey(c) ==
  /\ calls[c].stage = "fail"
  /\ runs' = [r \in RunIds |->
                IF runs[r].key = calls[c].key /\ runs[r].status = "processing"
                THEN [runs[r] EXCEPT !.status = "failed", !.error = "exception",
                                     !.finished = TRUE]
                ELSE runs[r]]
  /\ calls' = [calls EXCEPT ![c] = Idle]
  /\ UNCHANGED <<nextRun, published, answers>>

\* _persist_failed_run, with its one retry: the update by id commits, or the
\* exception escapes and the row stays as it is. The client gets an error.
PersistFailed(c) ==
  LET r == calls[c].run IN
  /\ calls[c].stage = "fail"
  /\ \E outcome \in {"ok", "rolled_back"} :
       Write(r, UpdateOf(r, [runs[r] EXCEPT !.status = "failed",
                                            !.error = "exception",
                                            !.finished = TRUE]), outcome)
  /\ calls' = [calls EXCEPT ![c] = Idle]
  /\ UNCHANGED <<nextRun, published, answers>>

\* The process of the call dies: its open transaction rolls back.
Crash(c) ==
  /\ calls[c].stage # "idle"
  /\ calls' = [calls EXCEPT ![c] = Idle]
  /\ UNCHANGED <<runs, nextRun, published, answers>>

\* wait_for gives up after 30 s: the client gets 504, the thread goes on.
ClientTimeout(c) ==
  /\ c \in ApiCallers
  /\ calls[c].waiting
  /\ calls' = [calls EXCEPT ![c].waiting = FALSE]
  /\ UNCHANGED <<runs, nextRun, published, answers>>

-----------------------------------------------------------------------------
(* run_stale_sweeper: one UPDATE marks every processing row started before *)
(* the cutoff now() - threshold.                                           *)

Swept(row) == [row EXCEPT !.status = "stale", !.error = "sweeper_timeout",
                          !.finished = TRUE]

\* Mutants: no status in the WHERE clause; a cutoff one too early.
SweepAnyStatus(cutoff) ==
  /\ runs' = [r \in RunIds |->
                IF runs[r].status # "absent" /\ r < cutoff
                THEN Swept(runs[r]) ELSE runs[r]]
  /\ UNCHANGED <<nextRun, calls, published, answers>>

SweepTooEarly(cutoff) ==
  /\ runs' = [r \in RunIds |->
                IF runs[r].status = "processing" /\ r + 1 < cutoff
                THEN Swept(runs[r]) ELSE runs[r]]
  /\ UNCHANGED <<nextRun, calls, published, answers>>

Sweep(cutoff) ==
  /\ runs' = [r \in RunIds |->
                IF runs[r].status = "processing" /\ r < cutoff
                THEN Swept(runs[r]) ELSE runs[r]]
  /\ UNCHANGED <<nextRun, calls, published, answers>>

-----------------------------------------------------------------------------
CallStep(c) ==
  \/ LookupHit(c) \/ LookupMiss(c)
  \/ InsertCached(c) \/ InsertProcessing(c) \/ FirstStatementFails(c)
  \/ AttemptSucceeds(c) \/ AttemptFails(c)
  \/ MarkCompleted(c) \/ PersistFailed(c)

Next ==
  \/ \E c \in Callers, k \in Keys, f \in Forces : Begin(c, k, f)
  \/ \E c \in Callers : CallStep(c) \/ Crash(c) \/ ClientTimeout(c)
  \/ \E cutoff \in 1 .. nextRun : Sweep(cutoff)

\* A call goes on until it returns or its process dies (retries are counted),
\* and the sweeper timer fires every 5 minutes with a cutoff that passes every
\* started_at in the end. Calls, crashes and client timeouts are not fair.
Fairness ==
  /\ \A c \in Callers : WF_vars(CallStep(c))
  /\ WF_vars(Sweep(nextRun))

Spec     == Init /\ [][Next]_vars
FairSpec == Spec /\ Fairness

-----------------------------------------------------------------------------
(* Safety                                                                  *)

\* A stored report was made by the call that owns the row, for the row's own
\* employee and day; a cached row carries a report that another run of the
\* same employee and day did publish (crew.py, ADR-0015).
Provenance(r) ==
  LET row == runs[r] IN
  /\ row.status = "completed" => row.report # NoReport
  /\ row.status \in {"processing", "stale"} => row.report = NoReport
  /\ row.report # NoReport =>
       /\ [key |-> row.key, report |-> row.report] \in published
       /\ (row.report.run = r) <=> (row.status # "completed_cached")

ReportProvenance == \A r \in RunIds : Provenance(r)

\* A result handed to a client stays readable: no later sweep, retry or
\* failure handler rewrites the row it names (GET /analysis/status).
AnswersDurable ==
  \A a \in answers :
    runs[a.run].status = a.status /\ runs[a.run].report = a.report

\* A call in progress works on a row of its own, of its own employee and day,
\* that no other call shares: there is no row before the INSERT, and from then
\* on the row is neither failed nor cached until the call itself ends.
OwnsItsRow(c) ==
  LET call == calls[c]  row == runs[calls[c].run] IN
  IF call.stage = "idle" THEN call = Idle
  ELSE /\ call.run \in RunIds /\ call.run < nextRun /\ call.key \in Keys
       /\ call.stage \in {"lookup", "reuse", "open"} => row = NoRow
       /\ call.stage \in {"attempt", "complete"} =>
            /\ row.status \in {"processing", "stale", "completed"}
            /\ row.key = call.key
            /\ call.attempt \in Attempts
       /\ call.stage = "fail" =>
            row.status \in {"absent", "processing", "stale", "completed"}
       /\ call.stage = "complete" =>
            call.report = [run |-> call.run, attempt |-> call.attempt]

CallsOwnTheirRows ==
  /\ \A c \in Callers : OwnsItsRow(c)
  /\ \A c, d \in Callers :
       calls[c].stage # "idle" /\ calls[c].run = calls[d].run => c = d

\* What was made public stays attributable: its run exists, has the employee
\* and day it was published for, is not cached, in progress or swept, and its
\* call, if still retrying, can only publish a later attempt. A cache hit in
\* flight holds such a report.
Attributable(p) ==
  /\ runs[p.report.run].status \in {"completed", "failed"}
  /\ runs[p.report.run].key = p.key
  /\ \A c \in Callers :
       calls[c].run = p.report.run /\ calls[c].stage \in {"attempt", "complete"}
         => p.report.attempt < calls[c].attempt

PublishedByRealRuns ==
  /\ \A p \in published : Attributable(p)
  /\ \A c \in Callers :
       calls[c].stage = "reuse" =>
         [key |-> calls[c].key, report |-> calls[c].report] \in published

\* Every report can be traced, in both directions: the one in a row to the call
\* that made it, the one made public to the row it was published from.
ReportsTraceable == ReportProvenance /\ PublishedByRealRuns

\* The columns tell one story: an error text exactly on failed and swept rows,
\* finished_at exactly on rows that were processing once and are no more.
ColumnsAgree(row) ==
  /\ row.error = CASE row.status = "failed" -> "exception"
                  [] row.status = "stale"  -> "sweeper_timeout"
                  [] OTHER                 -> "none"
  /\ row.finished <=> row.status \in {"completed", "failed", "stale"}

OutcomeColumnsAgree == \A r \in RunIds : ColumnsAgree(runs[r])

\* run_audit(force=False) is idempotent for an employee and day: repeated calls
\* share one real execution and one report (DECISIONS.md, ADR-0015).
DefaultRunsShareOneExecution ==
  Forces = {FALSE} =>
    \A q, r \in RunIds :
      runs[q].status = "completed" /\ runs[r].status = "completed"
        /\ runs[q].key = runs[r].key => q = r

(* Action properties                                                       *)

\* A row never goes back to processing, a cached or failed row is final, and a
\* completed row is never swept: the only way out of completed is the failure
\* handler of its own call, after a commit whose acknowledgement was lost.
StatusInOrder(r) ==
  LET s == runs[r].status  t == runs'[r].status IN
  s # t => \/ s = "absent" /\ t \in {"processing", "completed_cached"}
           \/ s \in {"processing", "stale"} /\ t \in {"completed", "failed"}
           \/ s = "processing" /\ t = "stale"
           \/ s = "completed" /\ t = "failed"

\* Once no call owns a row, only the sweeper may change it and only while it
\* is processing: a finished or crashed call never comes back to its row.
OnlySweptIfAbandoned(r) ==
  (\A c \in Callers : calls[c].run # r) /\ runs[r].status # "absent"
    => \/ runs'[r] = runs[r]
       \/ runs[r].status = "processing" /\ runs'[r] = Swept(runs[r])

\* The life of a row: its statuses in order, and nobody but the sweeper near it
\* once its call is gone.
RowLifecycle ==
  [][\A r \in RunIds : StatusInOrder(r) /\ OnlySweptIfAbandoned(r)]_vars

(* Liveness                                                                *)

\* No run is left in progress: its call or the sweeper resolves it, also when
\* the call's process died or its failure could not be stored.
EveryRunResolved ==
  \A r \in RunIds :
    runs[r].status = "processing" ~> runs[r].status \notin {"absent", "processing"}
=============================================================================
