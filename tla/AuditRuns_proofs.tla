--------------------------- MODULE AuditRuns_proofs ---------------------------
(* Theorems about AuditRuns, for every set of callers and keys, every number *)
(* of attempts and every number of runs.                                     *)
EXTENDS AuditRuns, TLAPS

USE AuditRunsAssumption

-----------------------------------------------------------------------------
(* Editing fields of a call or of a row keeps its type.                    *)

\* A new call.
LEMMA NewCall ==
  ASSUME NEW x \in Call, NEW s \in Stages, NEW k \in Keys, NEW r \in 0 .. MaxRuns
  PROVE  [x EXCEPT !.stage = s, !.key = k, !.run = r, !.waiting = TRUE] \in Call
  BY DEF Call

\* Moving a call to another stage.
LEMMA StageEdit ==
  ASSUME NEW x \in Call, NEW s \in Stages
  PROVE  [x EXCEPT !.stage = s] \in Call
  BY DEF Call

\* ... with a report in hand, found or made.
LEMMA ReportEdit ==
  ASSUME NEW x \in Call, NEW s \in Stages, NEW rep \in Report \union {NoReport}
  PROVE  [x EXCEPT !.stage = s, !.report = rep] \in Call
  BY DEF Call

\* ... as an attempt starts.
LEMMA AttemptEdit ==
  ASSUME NEW x \in Call, NEW s \in Stages, NEW n \in 0 .. MaxAttempts
  PROVE  [x EXCEPT !.stage = s, !.attempt = n] \in Call
  BY DEF Call

\* ... as a retry drops the report of the failed attempt.
LEMMA RetryEdit ==
  ASSUME NEW x \in Call, NEW s \in Stages, NEW n \in 0 .. MaxAttempts,
         NEW rep \in Report \union {NoReport}
  PROVE  [x EXCEPT !.stage = s, !.attempt = n, !.report = rep] \in Call
  BY DEF Call

\* An outcome of a row: stale or failed.
LEMMA OutcomeEdit ==
  ASSUME NEW x \in Row, NEW s \in Statuses, NEW e \in Errors, NEW b \in BOOLEAN
  PROVE  [x EXCEPT !.status = s, !.error = e, !.finished = b] \in Row
  BY DEF Row

\* ... and the edit of mark_run_completed, which stores a report.
LEMMA CompletionEdit ==
  ASSUME NEW x \in Row, NEW s \in Statuses, NEW rep \in Report, NEW e \in Errors,
         NEW b \in BOOLEAN
  PROVE  [x EXCEPT !.status = s, !.report = rep, !.error = e, !.finished = b] \in Row
  BY DEF Row

\* The rows insert_run creates, for a real and for a cached run.
LEMMA NewRow ==
  ASSUME NEW s \in Statuses, NEW k \in Keys
  PROVE  [NoRow EXCEPT !.status = s, !.key = k] \in Row
  BY DEF Row, NoRow, Errors

\* A cached run is inserted with the report it repeats.
LEMMA NewCachedRow ==
  ASSUME NEW s \in Statuses, NEW k \in Keys, NEW rep \in Report
  PROVE  [NoRow EXCEPT !.status = s, !.key = k, !.report = rep] \in Row
  BY DEF Row, NoRow, Errors

\* The absent row and the idle call are well typed.
LEMMA Blanks == NoRow \in Row /\ Idle \in Call
  BY DEF NoRow, Row, Idle, Call, Stages, Statuses, Errors

\* What the type of one call, or of one row, says about its fields.
LEMMA CallFields ==
  ASSUME TypeOK, NEW c \in Callers
  PROVE  /\ calls[c] \in Call
         /\ calls[c].stage \in Stages
         /\ calls[c].key \in Keys \union {NoKey}
         /\ calls[c].run \in 0 .. MaxRuns
         /\ calls[c].attempt \in 0 .. MaxAttempts
         /\ calls[c].report \in Report \union {NoReport}
         /\ calls[c].waiting \in BOOLEAN
  BY DEF TypeOK, Call

\* ... and the same for a row.
LEMMA RowFields ==
  ASSUME TypeOK, NEW r \in RunIds
  PROVE  /\ runs[r] \in Row
         /\ runs[r].status \in Statuses
         /\ runs[r].key \in Keys \union {NoKey}
         /\ runs[r].report \in Report \union {NoReport}
  BY DEF TypeOK, Row

\* The exception handler of an attempt leaves a well-typed call.
LEMMA RetryTyped ==
  ASSUME TypeOK, NEW c \in Callers
  PROVE  AfterFailedAttempt(calls[c]) \in Call
<1>1. calls[c].attempt < MaxAttempts => calls[c].attempt + 1 \in 0 .. MaxAttempts
  BY CallFields
<1>2. QED
  BY <1>1, CallFields, ReportEdit, RetryEdit DEF AfterFailedAttempt, Stages

-----------------------------------------------------------------------------
(* The inductive invariant                                                 *)

\* An id that was not given out has no row, and an absent row is the blank row.
UnusedRowsAbsent ==
  \A r \in RunIds : (r >= nextRun \/ runs[r].status = "absent") => runs[r] = NoRow

\* AnswersDurable made inductive: no call in progress still owns the row of an
\* answer, so nothing but the sweeper could write it, and it is not processing.
AnsweredRunsReleased ==
  \A a \in answers :
    /\ runs[a.run].status = a.status /\ runs[a.run].report = a.report
    /\ \A c \in Callers : calls[c].run # a.run

IInv ==
  /\ TypeOK
  /\ CallsOwnTheirRows
  /\ UnusedRowsAbsent
  /\ PublishedByRealRuns
  /\ ReportProvenance
  /\ AnsweredRunsReleased
  /\ OutcomeColumnsAgree

\* A live call has a run of its own, of its own key, that nobody was answered.
LEMMA LiveCall ==
  ASSUME IInv, NEW c \in Callers, calls[c].stage # "idle"
  PROVE  /\ calls[c].run \in RunIds
         /\ calls[c].run < nextRun
         /\ calls[c].key \in Keys
         /\ \A d \in Callers : d # c => calls[d].run # calls[c].run
         /\ \A a \in answers : a.run # calls[c].run
  BY DEF IInv, CallsOwnTheirRows, OwnsItsRow, AnsweredRunsReleased

\* A step in which a live call c rewrites at most its own row preserves the
\* invariant if it does so for that call, that row and what it published.
LEMMA OwnRowStep ==
  ASSUME IInv,
         NEW c \in Callers, calls[c].stage # "idle",
         NEW r \in RunIds, r = calls[c].run,
         NEW x \in Call, calls' = [calls EXCEPT ![c] = x],
         x = Idle \/ (x.stage # "idle" /\ x.run = r),
         NEW row \in Row, runs' = [runs EXCEPT ![r] = row],
         nextRun' = nextRun,
         row.status = "absent" => row = NoRow,
         runs[r].status \in {"completed", "failed"} =>
           row.status \in {"completed", "failed"} /\ row.key = runs[r].key,
         \/ published' = published
         \/ /\ published' = published \union {[key |-> row.key, report |-> row.report]}
            /\ row.key \in Keys /\ row.report \in Report
            /\ row.status = "completed" /\ row.report.run = r
            /\ x.stage \in {"attempt", "complete"} => row.report.attempt < x.attempt,
         \/ answers' = answers
         \/ /\ answers' = answers \union {[run |-> r, status |-> row.status,
                                           report |-> row.report]}
            /\ x = Idle /\ row.report \in Report
            /\ row.status \in {"completed", "completed_cached"},
         OwnsItsRow(c)',
         \A p \in published :
           x.run = p.report.run /\ x.stage \in {"attempt", "complete"}
             => p.report.attempt < x.attempt,
         x.stage = "reuse" => [key |-> x.key, report |-> x.report] \in published',
         Provenance(r)',
         ColumnsAgree(row)
  PROVE  IInv'
<1>1. /\ r \in RunIds /\ calls \in [Callers -> Call] /\ runs \in [RunIds -> Row]
      /\ \A d \in Callers : d # c => calls[d].run # r
      /\ \A a \in answers : a.run # r
  BY LiveCall DEF IInv, TypeOK
<1>2. /\ calls'[c] = x /\ \A d \in Callers : d # c => calls'[d] = calls[d]
      /\ runs'[r] = row /\ \A q \in RunIds : q # r => runs'[q] = runs[q]
      /\ published \subseteq published' /\ answers \subseteq answers'
  BY <1>1
<1>3. TypeOK'
  <2>1. runs' \in [RunIds -> Row] /\ calls' \in [Callers -> Call]
    BY <1>1
  <2>2. published' \in SUBSET Published
    BY DEF IInv, TypeOK, Published
  <2>3. answers' \in SUBSET Answer
    BY <1>1 DEF IInv, TypeOK, Answer
  <2>4. QED
    BY <2>1, <2>2, <2>3 DEF IInv, TypeOK
<1>4. CallsOwnTheirRows'
  <2>1. ASSUME NEW d \in Callers, d # c PROVE OwnsItsRow(d)'
    <3>1. OwnsItsRow(d)
      BY DEF IInv, CallsOwnTheirRows
    <3>2. calls'[d] = calls[d] /\ (calls[d].run \in RunIds => runs'[calls[d].run] = runs[calls[d].run])
      BY <1>1, <1>2, <2>1
    <3>3. QED
      BY <3>1, <3>2 DEF OwnsItsRow
  <2>2. ASSUME NEW b \in Callers, NEW d \in Callers,
               calls'[b].stage # "idle", calls'[b].run = calls'[d].run
        PROVE  b = d
    <3>1. calls[b].stage # "idle" /\ calls'[b].run = calls[b].run
      BY <1>2, <2>2 DEF Idle
    <3>2. calls[b].run \in RunIds
      BY <3>1, LiveCall
    <3>3. calls'[d].run = calls[d].run
      BY <1>2, <2>2, <3>1, <3>2 DEF Idle, RunIds
    <3>4. QED
      BY <2>2, <3>1, <3>3 DEF IInv, CallsOwnTheirRows
  <2>3. QED
    BY <2>1, <2>2 DEF CallsOwnTheirRows
<1>5. UnusedRowsAbsent'
  BY <1>1, <1>2, LiveCall DEF IInv, UnusedRowsAbsent, RunIds, TypeOK
<1>6. PublishedByRealRuns'
  <2>1. ASSUME NEW p \in published PROVE Attributable(p)'
    <3>1. p \in Published /\ p.report.run \in RunIds
      BY DEF IInv, TypeOK, Published, Report
    <3>2. Attributable(p)
      BY DEF IInv, PublishedByRealRuns
    <3>3. QED
      BY <1>1, <1>2, <3>1, <3>2 DEF Attributable
  <2>2. ASSUME NEW p \in published', p \notin published PROVE Attributable(p)'
    <3>1. p.key = row.key /\ p.report = row.report /\ row.report.run = r
          /\ row.status = "completed"
          /\ (x.stage \in {"attempt", "complete"} => row.report.attempt < x.attempt)
      BY <2>2
    <3>2. \A d \in Callers : d # c => calls'[d].run # r
      BY <1>1, <1>2
    <3>3. QED
      BY <1>2, <3>1, <3>2 DEF Attributable
  <2>3. ASSUME NEW d \in Callers, calls'[d].stage = "reuse"
        PROVE  [key |-> calls'[d].key, report |-> calls'[d].report] \in published'
    BY <1>2, <2>3 DEF IInv, PublishedByRealRuns
  <2>4. QED
    BY <2>1, <2>2, <2>3 DEF PublishedByRealRuns
<1>7. ReportProvenance'
  <2>1. ASSUME NEW q \in RunIds, q # r PROVE Provenance(q)'
    <3>1. Provenance(q) /\ runs'[q] = runs[q]
      BY <1>2, <2>1 DEF IInv, ReportProvenance
    <3>2. QED
      BY <1>2, <3>1 DEF Provenance
  <2>2. QED
    BY <2>1 DEF ReportProvenance
<1>8. AnsweredRunsReleased'
  <2>1. ASSUME NEW a \in answers
        PROVE  /\ runs'[a.run].status = a.status /\ runs'[a.run].report = a.report
               /\ \A d \in Callers : calls'[d].run # a.run
    <3>1. a.run \in RunIds /\ a.run # r
      BY <1>1 DEF IInv, TypeOK, Answer
    <3>2. QED
      BY <1>2, <3>1 DEF IInv, AnsweredRunsReleased, Idle, RunIds
  <2>2. ASSUME NEW a \in answers', a \notin answers
        PROVE  /\ runs'[a.run].status = a.status /\ runs'[a.run].report = a.report
               /\ \A d \in Callers : calls'[d].run # a.run
    <3>1. a.run = r /\ a.status = row.status /\ a.report = row.report /\ x = Idle
      BY <2>2
    <3>2. QED
      BY <1>1, <1>2, <3>1 DEF Idle, RunIds
  <2>3. QED
    BY <2>1, <2>2 DEF AnsweredRunsReleased
<1>9. OutcomeColumnsAgree'
  BY <1>1, <1>2 DEF IInv, OutcomeColumnsAgree
<1>10. QED
  BY <1>3, <1>4, <1>5, <1>6, <1>7, <1>8, <1>9 DEF IInv

\* The special case of a step that touches no row.
LEMMA LocalStep ==
  ASSUME IInv,
         NEW c \in Callers, calls[c].stage # "idle",
         NEW x \in Call, calls' = [calls EXCEPT ![c] = x],
         x = Idle \/ (x.stage # "idle" /\ x.run = calls[c].run),
         UNCHANGED <<runs, nextRun, published, answers>>,
         OwnsItsRow(c)',
         \A p \in published :
           x.run = p.report.run /\ x.stage \in {"attempt", "complete"}
             => p.report.attempt < x.attempt,
         x.stage = "reuse" => [key |-> x.key, report |-> x.report] \in published
  PROVE  IInv'
<1> DEFINE r == calls[c].run
           row == runs[r]
<1>1. r \in RunIds
  BY LiveCall
<1>2. row \in Row /\ runs' = [runs EXCEPT ![r] = row]
  BY <1>1, RowFields DEF IInv, TypeOK
<1>3. row.status = "absent" => row = NoRow
  BY <1>1 DEF IInv, UnusedRowsAbsent
<1>4. \A q \in RunIds : Provenance(q)'
  BY DEF IInv, ReportProvenance, Provenance
<1>5. ColumnsAgree(row)
  BY <1>1 DEF IInv, OutcomeColumnsAgree
<1>6. runs[r].status \in {"completed", "failed"} =>
        row.status \in {"completed", "failed"} /\ row.key = runs[r].key
  OBVIOUS
<1> HIDE DEF r, row
<1>7. r = calls[c].run
  BY DEF r
<1>8. QED
  BY <1>1, <1>2, <1>3, <1>4, <1>5, <1>6, <1>7, OwnRowStep

\* A call whose run ends gives up its row.
LEMMA IdleOwnsNothing ==
  ASSUME IInv, NEW c \in Callers, calls'[c] = Idle
  PROVE  OwnsItsRow(c)'
  BY DEF OwnsItsRow, Idle

\* A call that returns, fails early or crashes without writing keeps the
\* invariant: its row, if any, is abandoned to the sweeper as it is.
LEMMA EndStep ==
  ASSUME IInv, NEW c \in Callers, calls[c].stage # "idle",
         calls' = [calls EXCEPT ![c] = Idle],
         UNCHANGED <<runs, nextRun, published, answers>>
  PROVE  IInv'
<1>1. calls'[c] = Idle
  BY DEF IInv, TypeOK
<1>2. OwnsItsRow(c)' /\ Idle \in Call /\ Idle.stage = "idle"
  BY <1>1, IdleOwnsNothing, Blanks DEF Idle
<1>3. QED
  BY <1>2, LocalStep

-----------------------------------------------------------------------------
(* One lemma per action                                                    *)

\* Begin: the new call takes an id no row, call or published report uses.
LEMMA BeginStep ==
  ASSUME IInv, NEW c \in Callers, NEW k \in Keys, NEW f \in Forces, Begin(c, k, f)
  PROVE  IInv'
<1> DEFINE s == IF f THEN "open" ELSE "lookup"
           x == [Idle EXCEPT !.stage = s, !.key = k, !.run = nextRun, !.waiting = TRUE]
<1>1. s \in Stages /\ s \in {"open", "lookup"}
  BY DEF Stages
<1> HIDE DEF s
<1>2. nextRun \in RunIds /\ nextRun \in 0 .. MaxRuns /\ nextRun' = nextRun + 1
  BY DEF IInv, TypeOK, RunIds, Begin
<1>3. x \in Call
  BY <1>1, <1>2, NewCall, Blanks
<1>4. x.stage = s /\ x.key = k /\ x.run = nextRun
  BY DEF Idle
<1> HIDE DEF x
<1>5. /\ calls' = [calls EXCEPT ![c] = x]
      /\ runs' = runs /\ published' = published /\ answers' = answers
  BY DEF Begin, x, s
<1>6. calls'[c] = x /\ \A d \in Callers : d # c => calls'[d] = calls[d]
  BY <1>5 DEF IInv, TypeOK
<1>7. runs[nextRun] = NoRow
  BY <1>2 DEF IInv, UnusedRowsAbsent
<1>8. TypeOK'
  BY <1>2, <1>3, <1>5 DEF IInv, TypeOK, RunIds
<1>9. \A d \in Callers : calls[d].run < nextRun
  <2>1. SUFFICES ASSUME NEW d \in Callers PROVE calls[d].run < nextRun
    OBVIOUS
  <2>2. CASE calls[d].stage = "idle"
    <3>1. calls[d] = Idle
      BY <2>2 DEF IInv, CallsOwnTheirRows, OwnsItsRow
    <3>2. QED
      BY <1>2, <3>1 DEF Idle, RunIds
  <2>3. CASE calls[d].stage # "idle"
    BY <2>3, LiveCall
  <2>4. QED
    BY <2>2, <2>3
<1>10. CallsOwnTheirRows'
  <2>1. OwnsItsRow(c)'
    BY <1>1, <1>2, <1>4, <1>5, <1>6, <1>7 DEF OwnsItsRow, RunIds
  <2>2. ASSUME NEW d \in Callers, d # c PROVE OwnsItsRow(d)'
    <3>1. OwnsItsRow(d) /\ calls'[d] = calls[d] /\ nextRun < nextRun'
      BY <1>2, <1>6, <2>2 DEF IInv, CallsOwnTheirRows, RunIds
    <3>2. QED
      BY <1>2, <1>5, <3>1 DEF OwnsItsRow, RunIds
  <2>3. ASSUME NEW b \in Callers, NEW d \in Callers,
               calls'[b].stage # "idle", calls'[b].run = calls'[d].run
        PROVE  b = d
    <3>1. CASE b = c \/ d = c
      BY <1>2, <1>4, <1>6, <1>9, <2>3, <3>1 DEF RunIds
    <3>2. CASE b # c /\ d # c
      BY <1>6, <2>3, <3>2 DEF IInv, CallsOwnTheirRows
    <3>3. QED
      BY <3>1, <3>2
  <2>4. QED
    BY <2>1, <2>2, <2>3 DEF CallsOwnTheirRows
<1>11. UnusedRowsAbsent'
  BY <1>2, <1>5 DEF IInv, UnusedRowsAbsent, TypeOK, RunIds
<1>12. PublishedByRealRuns'
  <2>1. ASSUME NEW p \in published PROVE Attributable(p)'
    <3>1. Attributable(p)
      BY DEF IInv, PublishedByRealRuns
    <3>2. QED
      BY <1>1, <1>4, <1>5, <1>6, <3>1 DEF Attributable
  <2>2. ASSUME NEW d \in Callers, calls'[d].stage = "reuse"
        PROVE  [key |-> calls'[d].key, report |-> calls'[d].report] \in published
    BY <1>1, <1>4, <1>6, <2>2 DEF IInv, PublishedByRealRuns
  <2>3. QED
    BY <1>5, <2>1, <2>2 DEF PublishedByRealRuns
<1>13. ReportProvenance' /\ OutcomeColumnsAgree'
  BY <1>5 DEF IInv, ReportProvenance, Provenance, OutcomeColumnsAgree
<1>14. AnsweredRunsReleased'
  <2>1. ASSUME NEW a \in answers PROVE a.run # nextRun
    <3>1. a.run \in RunIds /\ a.status # "absent" /\ runs[a.run].status = a.status
      BY DEF IInv, TypeOK, Answer, AnsweredRunsReleased
    <3>2. QED
      BY <1>7, <3>1 DEF NoRow
  <2>2. QED
    BY <1>4, <1>5, <1>6, <2>1 DEF IInv, AnsweredRunsReleased
<1>15. QED
  BY <1>8, <1>10, <1>11, <1>12, <1>13, <1>14 DEF IInv

\* LookupHit: the report found is published, for the key of the call.
LEMMA LookupHitStep ==
  ASSUME IInv, NEW c \in Callers, LookupHit(c)
  PROVE  IInv'
<1>1. PICK r \in RunIds :
        /\ runs[r].status = "completed" /\ runs[r].key = calls[c].key
        /\ runs[r].report # NoReport
        /\ calls' = [calls EXCEPT ![c] = [calls[c] EXCEPT !.stage = "reuse",
                                                        !.report = runs[r].report]]
  BY DEF LookupHit, CompletedRuns
<1> DEFINE x == [calls[c] EXCEPT !.stage = "reuse", !.report = runs[r].report]
<1>2. calls[c].stage = "lookup" /\ UNCHANGED <<runs, nextRun, published, answers>>
  BY DEF LookupHit
<1>3. x \in Call
  BY CallFields, RowFields, ReportEdit DEF IInv, Stages
<1>4. x.stage = "reuse" /\ x.report = runs[r].report /\ x.key = calls[c].key
      /\ x.run = calls[c].run
  BY CallFields DEF IInv, Call
<1>5. [key |-> x.key, report |-> x.report] \in published
  BY <1>1, <1>4 DEF IInv, ReportProvenance, Provenance
<1> HIDE DEF x
<1>6. calls' = [calls EXCEPT ![c] = x] /\ calls'[c] = x
  BY <1>1 DEF x, IInv, TypeOK
<1>7. OwnsItsRow(c)'
  <2>1. runs[calls[c].run] = NoRow
    BY <1>2 DEF IInv, CallsOwnTheirRows, OwnsItsRow
  <2>2. QED
    BY <1>2, <1>4, <1>6, <2>1, LiveCall DEF OwnsItsRow
<1>8. QED
  BY <1>2, <1>3, <1>4, <1>5, <1>6, <1>7, LocalStep

\* LookupMiss: the call goes on to open a run of its own.
LEMMA LookupMissStep ==
  ASSUME IInv, NEW c \in Callers, LookupMiss(c)
  PROVE  IInv'
<1> DEFINE x == [calls[c] EXCEPT !.stage = "open"]
<1>1. calls[c].stage = "lookup" /\ UNCHANGED <<runs, nextRun, published, answers>>
  BY DEF LookupMiss
<1>2. x \in Call /\ x.stage = "open" /\ x.run = calls[c].run /\ x.key = calls[c].key
  BY CallFields, StageEdit DEF IInv, Stages, Call
<1> HIDE DEF x
<1>3. calls' = [calls EXCEPT ![c] = x] /\ calls'[c] = x
  BY DEF LookupMiss, x, IInv, TypeOK
<1>4. OwnsItsRow(c)'
  <2>1. runs[calls[c].run] = NoRow
    BY <1>1 DEF IInv, CallsOwnTheirRows, OwnsItsRow
  <2>2. QED
    BY <1>1, <1>2, <1>3, <2>1, LiveCall DEF OwnsItsRow
<1>5. QED
  BY <1>1, <1>2, <1>3, <1>4, LocalStep

\* InsertCached: the new row repeats a published report of another run.
LEMMA InsertCachedStep ==
  ASSUME IInv, NEW c \in Callers, InsertCached(c)
  PROVE  IInv'
<1>1. calls[c].stage = "reuse" /\ nextRun' = nextRun /\ published' = published
  BY DEF InsertCached
<1> DEFINE rep == calls[c].report
           row == [NoRow EXCEPT !.status = "completed_cached", !.key = calls[c].key,
                                !.report = rep]
<1>2. PICK r \in RunIds : r = calls[c].run
  BY <1>1, LiveCall
<1>3. runs[r] = NoRow
  BY <1>1, <1>2 DEF IInv, CallsOwnTheirRows, OwnsItsRow
<1>4. [key |-> calls[c].key, report |-> rep] \in published
  BY <1>1 DEF IInv, PublishedByRealRuns
<1>5. rep \in Report /\ rep # NoReport /\ calls[c].key \in Keys
  BY <1>4 DEF IInv, TypeOK, Published, Report, RunIds, Attempts
<1>6. rep.run # r
  <2>1. runs[rep.run].status \in {"completed", "failed"}
    BY <1>4 DEF IInv, PublishedByRealRuns, Attributable
  <2>2. QED
    BY <1>3, <2>1 DEF NoRow
<1>7. row \in Row
  BY <1>5, NewCachedRow DEF Statuses
<1>8. /\ row.status = "completed_cached" /\ row.key = calls[c].key /\ row.report = rep
      /\ row.error = "none" /\ row.finished = FALSE
  BY DEF NoRow
<1>9. PICK outcome \in CommitOutcomes :
        /\ Write(calls[c].run, row, outcome)
        /\ IF outcome = "ok" THEN Return(c, "completed_cached", rep)
           ELSE calls' = [calls EXCEPT ![c] = Idle] /\ UNCHANGED answers
  BY DEF InsertCached
<1> HIDE DEF row, rep
<1>10. calls' = [calls EXCEPT ![c] = Idle] /\ calls'[c] = Idle
  BY <1>9 DEF Return, IInv, TypeOK
<1>11. CASE outcome = "rolled_back"
  BY <1>1, <1>9, <1>10, <1>11, EndStep DEF Write
<1>12. CASE outcome # "rolled_back"
  <2>1. runs' = [runs EXCEPT ![r] = row]
    BY <1>2, <1>9, <1>12 DEF Write
  <2>2. \/ answers' = answers
        \/ answers' = answers \union {[run |-> r, status |-> row.status,
                                       report |-> row.report]}
    BY <1>2, <1>8, <1>9 DEF Return
  <2>3. runs'[r] = row
    BY <2>1 DEF IInv, TypeOK
  <2>4. Provenance(r)'
    BY <1>1, <1>4, <1>6, <1>8, <2>3 DEF Provenance
  <2>5. ColumnsAgree(row)
    BY <1>8 DEF ColumnsAgree
  <2>6. OwnsItsRow(c)' /\ Idle \in Call /\ Idle.stage = "idle"
    BY <1>10, IdleOwnsNothing, Blanks DEF Idle
  <2>7. runs[r].status = "absent"
    BY <1>3 DEF NoRow
  <2>8. QED
    BY <1>1, <1>2, <1>5, <1>7, <1>8, <1>10, <2>1, <2>2, <2>4, <2>5, <2>6, <2>7,
       OwnRowStep
<1>13. QED
  BY <1>11, <1>12

\* InsertProcessing: the row appears whether or not the caller learns of it.
LEMMA InsertProcessingStep ==
  ASSUME IInv, NEW c \in Callers, InsertProcessing(c)
  PROVE  IInv'
<1>1. /\ calls[c].stage = "open" /\ nextRun' = nextRun
      /\ published' = published /\ answers' = answers
  BY DEF InsertProcessing
<1>2. PICK r \in RunIds : r = calls[c].run
  BY <1>1, LiveCall
<1>3. runs[r] = NoRow /\ runs[r].status = "absent" /\ calls[c].key \in Keys
  <2>1. runs[r] = NoRow
    BY <1>1, <1>2 DEF IInv, CallsOwnTheirRows, OwnsItsRow
  <2>2. QED
    BY <1>1, <2>1, LiveCall DEF NoRow
<1> DEFINE row == [NoRow EXCEPT !.status = "processing", !.key = calls[c].key]
           go   == [calls[c] EXCEPT !.stage = "attempt", !.attempt = 1]
           quit == [calls[c] EXCEPT !.stage = "fail"]
<1>4. row \in Row
  BY <1>3, NewRow DEF Statuses
<1>5. /\ row.status = "processing" /\ row.key = calls[c].key /\ row.report = NoReport
      /\ row.error = "none" /\ row.finished = FALSE
  BY DEF NoRow
<1>6. /\ go \in Call /\ go.stage = "attempt" /\ go.attempt = 1
      /\ go.run = r /\ go.key = calls[c].key
  <2>1. 1 \in 0 .. MaxAttempts /\ calls[c] \in Call
    BY CallFields DEF IInv
  <2>2. go \in Call
    BY <2>1, AttemptEdit DEF Stages
  <2>3. QED
    BY <1>2, <2>1, <2>2 DEF Call
<1>7. quit \in Call /\ quit.stage = "fail" /\ quit.run = r /\ quit.key = calls[c].key
  BY <1>2, CallFields, StageEdit DEF IInv, Stages, Call
<1>8. PICK outcome \in CommitOutcomes :
        /\ Write(calls[c].run, row, outcome)
        /\ calls' = [calls EXCEPT ![c] = IF outcome = "ok" THEN go ELSE quit]
  BY DEF InsertProcessing
<1> HIDE DEF row, go, quit
<1>9. \A p \in published : p.report.run # r
  BY <1>3 DEF IInv, PublishedByRealRuns, Attributable
<1>10. calls'[c] = IF outcome = "ok" THEN go ELSE quit
  BY <1>8 DEF IInv, TypeOK
<1>11. CASE outcome = "rolled_back"
  <2>1. runs' = runs /\ calls' = [calls EXCEPT ![c] = quit] /\ calls'[c] = quit
    BY <1>8, <1>10, <1>11 DEF Write
  <2>2. OwnsItsRow(c)'
    BY <1>1, <1>2, <1>3, <1>7, <2>1, LiveCall DEF OwnsItsRow
  <2>3. QED
    BY <1>1, <1>2, <1>7, <2>1, <2>2, LocalStep
<1>12. CASE outcome # "rolled_back"
  <2> DEFINE x == IF outcome = "ok" THEN go ELSE quit
  <2>1. runs' = [runs EXCEPT ![r] = row] /\ runs'[r] = row
    BY <1>2, <1>8, <1>12 DEF Write, IInv, TypeOK
  <2>2. x \in Call /\ x.stage \in {"attempt", "fail"} /\ x.run = r
    BY <1>6, <1>7
  <2>3. OwnsItsRow(c)'
    BY <1>1, <1>2, <1>3, <1>5, <1>6, <1>7, <1>10, <2>1, LiveCall DEF OwnsItsRow, Attempts
  <2>4. Provenance(r)'
    BY <1>5, <2>1 DEF Provenance
  <2>5. ColumnsAgree(row)
    BY <1>5 DEF ColumnsAgree
  <2>6. calls' = [calls EXCEPT ![c] = x]
    BY <1>8
  <2> HIDE DEF x
  <2>7. \A p \in published :
          x.run = p.report.run /\ x.stage \in {"attempt", "complete"}
            => p.report.attempt < x.attempt
    BY <1>9, <2>2
  <2>8. runs[r].status \in {"completed", "failed"} =>
          row.status \in {"completed", "failed"} /\ row.key = runs[r].key
    BY <1>3
  <2>9. QED
    BY <1>1, <1>2, <1>4, <1>5, <2>1, <2>2, <2>3, <2>4, <2>5, <2>6, <2>7, <2>8,
       OwnRowStep
<1>13. QED
  BY <1>11, <1>12

\* AttemptSucceeds: the report carries the number of this attempt, which no
\* published report of the run has reached.
LEMMA AttemptSucceedsStep ==
  ASSUME IInv, NEW c \in Callers, AttemptSucceeds(c)
  PROVE  IInv'
<1> DEFINE rep == [run |-> calls[c].run, attempt |-> calls[c].attempt]
           x   == [calls[c] EXCEPT !.stage = "complete", !.report = rep]
<1>1. calls[c].stage = "attempt" /\ UNCHANGED <<runs, nextRun, published, answers>>
  BY DEF AttemptSucceeds
<1>2. /\ runs[calls[c].run].status \in {"processing", "stale", "completed"}
      /\ runs[calls[c].run].key = calls[c].key
      /\ calls[c].attempt \in Attempts
  BY <1>1 DEF IInv, CallsOwnTheirRows, OwnsItsRow
<1>3. rep \in Report
  BY <1>1, <1>2, LiveCall DEF Report
<1>4. x \in Call
  BY <1>3, CallFields, ReportEdit DEF IInv, Stages
<1>5. /\ x.stage = "complete" /\ x.report = rep /\ x.key = calls[c].key
      /\ x.run = calls[c].run /\ x.attempt = calls[c].attempt
  BY CallFields DEF IInv, Call
<1>6. calls' = [calls EXCEPT ![c] = x]
  BY DEF AttemptSucceeds
<1> HIDE DEF x
<1>7. calls'[c] = x
  BY <1>6 DEF IInv, TypeOK
<1>8. OwnsItsRow(c)'
  BY <1>1, <1>2, <1>5, <1>7, LiveCall DEF OwnsItsRow
<1>9. \A p \in published : x.run = p.report.run => p.report.attempt < x.attempt
  BY <1>1, <1>5 DEF IInv, PublishedByRealRuns, Attributable
<1>10. QED
  BY <1>1, <1>4, <1>5, <1>6, <1>8, <1>9, LocalStep

\* After a failed attempt a call keeps its run, and a retry has a later number.
LEMMA RetryFields ==
  ASSUME IInv, NEW c \in Callers, calls[c].attempt \in Attempts
  PROVE  LET x == AfterFailedAttempt(calls[c]) IN
         /\ x.run = calls[c].run /\ x.key = calls[c].key
         /\ x.stage \in {"attempt", "fail"}
         /\ x.stage = "attempt" => /\ x.attempt = calls[c].attempt + 1
                                   /\ x.attempt \in Attempts
<1>1. calls[c] \in Call
  BY CallFields DEF IInv
<1>2. CASE calls[c].attempt < MaxAttempts
  <2>1. calls[c].attempt + 1 \in Attempts
    BY <1>2 DEF Attempts
  <2>2. QED
    BY <1>1, <1>2, <2>1 DEF AfterFailedAttempt, Call
<1>3. CASE ~(calls[c].attempt < MaxAttempts)
  BY <1>1, <1>3 DEF AfterFailedAttempt, Call
<1>4. QED
  BY <1>2, <1>3

\* AttemptFails: a retry keeps the row and takes the next attempt number.
LEMMA AttemptFailsStep ==
  ASSUME IInv, NEW c \in Callers, AttemptFails(c)
  PROVE  IInv'
<1> DEFINE x == AfterFailedAttempt(calls[c])
<1>1. calls[c].stage = "attempt" /\ UNCHANGED <<runs, nextRun, published, answers>>
  BY DEF AttemptFails
<1>2. /\ runs[calls[c].run].status \in {"processing", "stale", "completed"}
      /\ runs[calls[c].run].key = calls[c].key
      /\ calls[c].attempt \in Attempts
  BY <1>1 DEF IInv, CallsOwnTheirRows, OwnsItsRow
<1>3. /\ x \in Call /\ x.run = calls[c].run /\ x.key = calls[c].key
      /\ x.stage \in {"attempt", "fail"}
      /\ x.stage = "attempt" => x.attempt = calls[c].attempt + 1 /\ x.attempt \in Attempts
  BY <1>2, RetryFields, RetryTyped DEF IInv
<1>4. calls' = [calls EXCEPT ![c] = x]
  BY DEF AttemptFails
<1> HIDE DEF x
<1>5. calls'[c] = x
  BY <1>4 DEF IInv, TypeOK
<1>6. OwnsItsRow(c)'
  BY <1>1, <1>2, <1>3, <1>5, LiveCall DEF OwnsItsRow
<1>7. ASSUME NEW p \in published, x.run = p.report.run, x.stage = "attempt"
      PROVE  p.report.attempt < x.attempt
  <2>1. p.report.attempt < calls[c].attempt
    BY <1>1, <1>3, <1>7 DEF IInv, PublishedByRealRuns, Attributable
  <2>2. p.report.attempt \in Nat /\ calls[c].attempt \in Nat
    BY <1>2 DEF IInv, TypeOK, Published, Report, Attempts
  <2>3. QED
    BY <1>3, <1>7, <2>1, <2>2
<1>8. QED
  BY <1>1, <1>3, <1>4, <1>6, <1>7, LocalStep

\* MarkCompleted: the only step that publishes; a lost acknowledgement leaves
\* the report public while the call retries.
LEMMA MarkCompletedStep ==
  ASSUME IInv, NEW c \in Callers, MarkCompleted(c)
  PROVE  IInv'
<1> DEFINE call == calls[c]
           rep  == call.report
           row  == [runs[call.run] EXCEPT !.status = "completed", !.report = rep,
                                          !.error = "none", !.finished = TRUE]
           x    == AfterFailedAttempt(call)
<1>1. call.stage = "complete" /\ nextRun' = nextRun
  BY DEF MarkCompleted
<1>2. PICK r \in RunIds : r = call.run
  BY <1>1, LiveCall
<1>3. /\ runs[r].status \in {"processing", "stale", "completed"}
      /\ runs[r].key = call.key /\ call.key \in Keys
      /\ call.attempt \in Attempts
      /\ rep = [run |-> call.run, attempt |-> call.attempt]
  BY <1>1, <1>2, LiveCall DEF IInv, CallsOwnTheirRows, OwnsItsRow
<1>4. rep \in Report /\ rep.run = r /\ rep.attempt = call.attempt /\ rep # NoReport
  BY <1>2, <1>3 DEF Report, RunIds, Attempts
<1>5. row \in Row
  BY <1>2, <1>4, RowFields, CompletionEdit DEF IInv, Statuses, Errors
<1>6. /\ row.status = "completed" /\ row.key = call.key /\ row.report = rep
      /\ row.error = "none" /\ row.finished = TRUE
  BY <1>2, <1>3, RowFields DEF IInv, Row
<1>7. /\ x \in Call /\ x.run = r /\ x.key = call.key /\ x.stage \in {"attempt", "fail"}
      /\ x.stage = "attempt" => x.attempt = call.attempt + 1 /\ x.attempt \in Attempts
  BY <1>2, <1>3, RetryFields, RetryTyped DEF IInv
<1>8. UpdateOf(call.run, row) = row
  BY <1>2, <1>3 DEF UpdateOf
<1>9. PICK outcome \in CommitOutcomes :
        /\ Write(call.run, UpdateOf(call.run, row), outcome)
        /\ published' = IF outcome = "rolled_back" \/ runs[call.run].status = "absent"
                        THEN published
                        ELSE published \union {[key |-> runs[call.run].key, report |-> rep]}
        /\ IF outcome = "ok" THEN Return(c, "completed", rep)
           ELSE calls' = [calls EXCEPT ![c] = x] /\ UNCHANGED answers
  BY DEF MarkCompleted
<1> HIDE DEF row, x
<1>10. ASSUME NEW p \in published, p.report.run = r
       PROVE  p.report.attempt < call.attempt /\ p.report.attempt < call.attempt + 1
  <2>1. p.report.attempt < call.attempt
    BY <1>1, <1>2, <1>10 DEF IInv, PublishedByRealRuns, Attributable
  <2>2. p.report.attempt \in Nat /\ call.attempt \in Nat
    BY <1>3 DEF IInv, TypeOK, Published, Report, Attempts
  <2>3. QED
    BY <2>1, <2>2
<1>11. CASE outcome = "rolled_back"
  <2>1. /\ runs' = runs /\ published' = published /\ answers' = answers
        /\ calls' = [calls EXCEPT ![c] = x] /\ calls'[c] = x
    BY <1>9, <1>11 DEF Write, IInv, TypeOK
  <2>2. OwnsItsRow(c)'
    BY <1>1, <1>2, <1>3, <1>7, <2>1, LiveCall DEF OwnsItsRow
  <2>3. QED
    BY <1>1, <1>2, <1>7, <1>10, <2>1, <2>2, LocalStep
<1>12. CASE outcome # "rolled_back"
  <2> DEFINE y == IF outcome = "ok" THEN Idle ELSE x
  <2>1. runs' = [runs EXCEPT ![r] = row] /\ runs'[r] = row
    BY <1>2, <1>8, <1>9, <1>12 DEF Write, IInv, TypeOK
  <2>2. published' = published \union {[key |-> row.key, report |-> row.report]}
    BY <1>2, <1>3, <1>6, <1>9, <1>12
  <2>3. calls' = [calls EXCEPT ![c] = y] /\ calls'[c] = y
    BY <1>9 DEF Return, IInv, TypeOK
  <2>4. \/ answers' = answers
        \/ /\ answers' = answers \union {[run |-> r, status |-> row.status,
                                           report |-> row.report]}
           /\ y = Idle
    BY <1>2, <1>6, <1>9 DEF Return
  <2>5. y \in Call /\ (y = Idle \/ (y.stage # "idle" /\ y.run = r)) /\ y.stage # "reuse"
    BY <1>7, Blanks DEF Idle
  <2>6. y.stage \in {"attempt", "complete"} =>
          y.attempt = call.attempt + 1 /\ row.report.attempt < y.attempt
    BY <1>3, <1>4, <1>6, <1>7 DEF Idle, Attempts
  <2>7. OwnsItsRow(c)'
    <3>1. CASE outcome = "ok"
      BY <2>3, <3>1, IdleOwnsNothing
    <3>2. CASE outcome # "ok"
      BY <1>1, <1>2, <1>6, <1>7, <2>1, <2>3, <3>2, LiveCall DEF OwnsItsRow
    <3>3. QED
      BY <3>1, <3>2
  <2>8. Provenance(r)'
    BY <1>4, <1>6, <2>1, <2>2 DEF Provenance
  <2>9. ColumnsAgree(row)
    BY <1>6 DEF ColumnsAgree
  <2> HIDE DEF y
  <2>10. \A p \in published :
           y.run = p.report.run /\ y.stage \in {"attempt", "complete"}
             => p.report.attempt < y.attempt
    BY <1>10, <2>5, <2>6 DEF Idle
  <2>11. runs[r].status \in {"completed", "failed"} =>
           row.status \in {"completed", "failed"} /\ row.key = runs[r].key
    BY <1>3, <1>6
  <2>12. QED
    BY <1>1, <1>2, <1>3, <1>4, <1>5, <1>6, <2>1, <2>2, <2>3, <2>4, <2>5, <2>6,
       <2>7, <2>8, <2>9, <2>10, <2>11, OwnRowStep
<1>13. QED
  BY <1>11, <1>12

\* PersistFailed: the row may be absent, swept or even completed by then.
LEMMA PersistFailedStep ==
  ASSUME IInv, NEW c \in Callers, PersistFailed(c)
  PROVE  IInv'
<1> DEFINE call == calls[c]
           row  == [runs[call.run] EXCEPT !.status = "failed", !.error = "exception",
                                          !.finished = TRUE]
<1>1. /\ call.stage = "fail" /\ nextRun' = nextRun /\ published' = published
      /\ answers' = answers /\ calls' = [calls EXCEPT ![c] = Idle]
  BY DEF PersistFailed
<1>2. PICK r \in RunIds : r = call.run
  BY <1>1, LiveCall
<1>3. runs[r].status \in {"absent", "processing", "stale", "completed"}
  BY <1>1, <1>2 DEF IInv, CallsOwnTheirRows, OwnsItsRow
<1>4. row \in Row
  BY <1>2, RowFields, OutcomeEdit DEF IInv, Statuses, Errors
<1>5. /\ row.status = "failed" /\ row.key = runs[r].key /\ row.report = runs[r].report
      /\ row.error = "exception" /\ row.finished = TRUE
  BY <1>2, RowFields DEF IInv, Row
<1>6. PICK outcome \in {"ok", "rolled_back"} : Write(call.run, UpdateOf(call.run, row), outcome)
  BY DEF PersistFailed
<1> HIDE DEF row
<1>7. CASE outcome = "rolled_back" \/ runs[r].status = "absent"
  <2>1. runs[r].status = "absent" => runs[r] = NoRow
    BY DEF IInv, UnusedRowsAbsent
  <2>2. runs' = runs
    BY <1>2, <1>6, <1>7, <2>1 DEF Write, UpdateOf, IInv, TypeOK
  <2>3. QED
    BY <1>1, <2>2, EndStep
<1>8. CASE outcome # "rolled_back" /\ runs[r].status # "absent"
  <2>1. runs' = [runs EXCEPT ![r] = row] /\ runs'[r] = row
    BY <1>2, <1>6, <1>8 DEF Write, UpdateOf, IInv, TypeOK
  <2>2. Provenance(r)'
    <3>1. Provenance(r)
      BY DEF IInv, ReportProvenance
    <3>2. QED
      BY <1>1, <1>3, <1>5, <2>1, <3>1 DEF Provenance
  <2>3. ColumnsAgree(row)
    BY <1>5 DEF ColumnsAgree
  <2>4. OwnsItsRow(c)' /\ Idle \in Call /\ Idle.stage = "idle"
    <3>1. calls'[c] = Idle
      BY <1>1 DEF IInv, TypeOK
    <3>2. QED
      BY <3>1, IdleOwnsNothing, Blanks DEF Idle
  <2>5. QED
    BY <1>1, <1>2, <1>4, <1>5, <2>1, <2>2, <2>3, <2>4, OwnRowStep
<1>9. QED
  BY <1>7, <1>8

\* ClientTimeout: only the promise of an answer is dropped.
LEMMA ClientTimeoutStep ==
  ASSUME IInv, NEW c \in Callers, ClientTimeout(c)
  PROVE  IInv'
<1> DEFINE x == [calls[c] EXCEPT !.waiting = FALSE]
<1>1. calls[c].waiting /\ UNCHANGED <<runs, nextRun, published, answers>>
  BY DEF ClientTimeout
<1>2. calls[c].stage # "idle"
  <2>1. calls[c].stage = "idle" => calls[c] = Idle
    BY DEF IInv, CallsOwnTheirRows, OwnsItsRow
  <2>2. QED
    BY <1>1, <2>1 DEF Idle
<1>3. x \in Call
  BY CallFields DEF IInv, Call
<1>4. /\ x.stage = calls[c].stage /\ x.run = calls[c].run /\ x.key = calls[c].key
      /\ x.attempt = calls[c].attempt /\ x.report = calls[c].report
  BY CallFields DEF IInv, Call
<1>5. calls' = [calls EXCEPT ![c] = x]
  BY DEF ClientTimeout
<1> HIDE DEF x
<1>6. calls'[c] = x
  BY <1>5 DEF IInv, TypeOK
<1>7. OwnsItsRow(c)'
  BY <1>1, <1>2, <1>4, <1>6 DEF IInv, CallsOwnTheirRows, OwnsItsRow
<1>8. \A p \in published :
        x.run = p.report.run /\ x.stage \in {"attempt", "complete"}
          => p.report.attempt < x.attempt
  BY <1>4 DEF IInv, PublishedByRealRuns, Attributable
<1>9. x.stage = "reuse" => [key |-> x.key, report |-> x.report] \in published
  BY <1>4 DEF IInv, PublishedByRealRuns
<1>10. QED
  BY <1>1, <1>2, <1>3, <1>4, <1>5, <1>7, <1>8, <1>9, LocalStep

\* Sweep: only rows still processing change, so no answered or published run.
LEMMA SweepStep ==
  ASSUME IInv, NEW cutoff \in 1 .. nextRun, Sweep(cutoff)
  PROVE  IInv'
<1>1. UNCHANGED <<nextRun, calls, published, answers>>
  BY DEF Sweep
<1>2. ASSUME NEW r \in RunIds
      PROVE  \/ runs'[r] = runs[r]
             \/ /\ runs[r].status = "processing" /\ runs'[r].status = "stale"
                /\ runs'[r].error = "sweeper_timeout" /\ runs'[r].finished = TRUE
                /\ runs'[r].key = runs[r].key /\ runs'[r].report = runs[r].report
                /\ runs'[r] \in Row
  <2>1. runs'[r] = runs[r] \/ (runs[r].status = "processing" /\ runs'[r] = Swept(runs[r]))
    BY DEF Sweep
  <2>2. runs[r] \in Row /\ Swept(runs[r]) \in Row
    BY RowFields, OutcomeEdit DEF IInv, Swept, Statuses, Errors
  <2>3. QED
    BY <2>1, <2>2 DEF Swept, Row
<1>3. TypeOK'
  <2>1. \A r \in RunIds : runs'[r] \in Row
    BY <1>2, RowFields DEF IInv
  <2>2. DOMAIN runs' = RunIds /\ runs' = [r \in RunIds |-> runs'[r]]
    BY DEF Sweep
  <2>3. QED
    BY <1>1, <2>1, <2>2 DEF IInv, TypeOK
<1>4. CallsOwnTheirRows'
  <2>1. ASSUME NEW c \in Callers PROVE OwnsItsRow(c)'
    <3>1. OwnsItsRow(c)
      BY DEF IInv, CallsOwnTheirRows
    <3>2. CASE calls[c].stage = "idle"
      BY <1>1, <3>1, <3>2 DEF OwnsItsRow
    <3>3. CASE calls[c].stage # "idle"
      <4>1. calls[c].run \in RunIds /\ NoRow.status = "absent"
        BY <3>3, LiveCall DEF NoRow
      <4>2. \/ runs'[calls[c].run] = runs[calls[c].run]
            \/ /\ runs[calls[c].run].status = "processing"
               /\ runs'[calls[c].run].status = "stale"
               /\ runs'[calls[c].run].key = runs[calls[c].run].key
        BY <1>2, <4>1
      <4>3. QED
        BY <1>1, <3>1, <3>3, <4>1, <4>2 DEF OwnsItsRow
    <3>4. QED
      BY <3>2, <3>3
  <2>2. QED
    BY <1>1, <2>1 DEF IInv, CallsOwnTheirRows
<1>5. UnusedRowsAbsent'
  <2>1. NoRow.status = "absent"
    BY DEF NoRow
  <2>2. QED
    BY <1>1, <1>2, <2>1 DEF IInv, UnusedRowsAbsent
<1>6. PublishedByRealRuns'
  <2>1. ASSUME NEW p \in published PROVE Attributable(p)'
    <3>1. p.report.run \in RunIds /\ Attributable(p)
      BY DEF IInv, TypeOK, Published, Report, PublishedByRealRuns
    <3>2. runs'[p.report.run] = runs[p.report.run]
      BY <1>2, <3>1 DEF Attributable
    <3>3. QED
      BY <1>1, <3>1, <3>2 DEF Attributable
  <2>2. QED
    BY <1>1, <2>1 DEF IInv, PublishedByRealRuns
<1>7. ReportProvenance'
  <2>1. ASSUME NEW r \in RunIds PROVE Provenance(r)'
    <3>1. Provenance(r)
      BY DEF IInv, ReportProvenance
    <3>2. QED
      BY <1>1, <1>2, <3>1 DEF Provenance
  <2>2. QED
    BY <2>1 DEF ReportProvenance
<1>8. AnsweredRunsReleased'
  <2>1. ASSUME NEW a \in answers PROVE runs'[a.run] = runs[a.run]
    <3>1. a.run \in RunIds /\ runs[a.run].status = a.status /\ a.status # "processing"
      BY DEF IInv, TypeOK, Answer, AnsweredRunsReleased
    <3>2. QED
      BY <1>2, <3>1
  <2>2. QED
    BY <1>1, <2>1 DEF IInv, AnsweredRunsReleased
<1>9. OutcomeColumnsAgree'
  <2>1. ASSUME NEW r \in RunIds PROVE ColumnsAgree(runs'[r])
    <3>1. ColumnsAgree(runs[r])
      BY DEF IInv, OutcomeColumnsAgree
    <3>2. QED
      BY <1>2, <3>1 DEF ColumnsAgree
  <2>2. QED
    BY <2>1 DEF OutcomeColumnsAgree
<1>10. QED
  BY <1>3, <1>4, <1>5, <1>6, <1>7, <1>8, <1>9 DEF IInv

\* The empty table satisfies the invariant.
LEMMA InitInvariant == Init => IInv
<1> SUFFICES ASSUME Init PROVE IInv
  OBVIOUS
<1>1. TypeOK
  BY Blanks DEF Init, TypeOK, RunIds
<1>2. CallsOwnTheirRows
  BY DEF Init, CallsOwnTheirRows, OwnsItsRow, Idle
<1>3. UnusedRowsAbsent /\ PublishedByRealRuns /\ AnsweredRunsReleased
  BY DEF Init, UnusedRowsAbsent, PublishedByRealRuns, AnsweredRunsReleased, Idle
<1>4. ReportProvenance /\ OutcomeColumnsAgree
  BY DEF Init, ReportProvenance, Provenance, OutcomeColumnsAgree, ColumnsAgree, NoRow
<1>5. QED
  BY <1>1, <1>2, <1>3, <1>4 DEF IInv

\* A step that changes no variable keeps the invariant.
LEMMA StutterStep ==
  ASSUME IInv, UNCHANGED vars
  PROVE  IInv'
<1>1. UNCHANGED <<runs, nextRun, calls, published, answers>>
  BY DEF vars
<1>2. TypeOK' /\ UnusedRowsAbsent' /\ AnsweredRunsReleased'
  BY <1>1 DEF IInv, TypeOK, UnusedRowsAbsent, AnsweredRunsReleased
<1>3. CallsOwnTheirRows'
  BY <1>1 DEF IInv, CallsOwnTheirRows, OwnsItsRow
<1>4. PublishedByRealRuns'
  BY <1>1 DEF IInv, PublishedByRealRuns, Attributable
<1>5. ReportProvenance' /\ OutcomeColumnsAgree'
  BY <1>1 DEF IInv, ReportProvenance, Provenance, OutcomeColumnsAgree, ColumnsAgree
<1>6. QED
  BY <1>2, <1>3, <1>4, <1>5 DEF IInv

\* Every step keeps the invariant.
LEMMA NextStep ==
  ASSUME IInv, [Next]_vars
  PROVE  IInv'
<1>1. ASSUME NEW c \in Callers, NEW k \in Keys, NEW f \in Forces, Begin(c, k, f)
      PROVE  IInv'
  BY <1>1, BeginStep
<1>2. ASSUME NEW c \in Callers, CallStep(c)
      PROVE  IInv'
  <2>1. CASE LookupHit(c)
    BY <2>1, LookupHitStep
  <2>2. CASE LookupMiss(c)
    BY <2>2, LookupMissStep
  <2>3. CASE InsertCached(c)
    BY <2>3, InsertCachedStep
  <2>4. CASE InsertProcessing(c)
    BY <2>4, InsertProcessingStep
  <2>5. CASE FirstStatementFails(c)
    BY <2>5, EndStep DEF FirstStatementFails
  <2>6. CASE AttemptSucceeds(c)
    BY <2>6, AttemptSucceedsStep
  <2>7. CASE AttemptFails(c)
    BY <2>7, AttemptFailsStep
  <2>8. CASE MarkCompleted(c)
    BY <2>8, MarkCompletedStep
  <2>9. CASE PersistFailed(c)
    BY <2>9, PersistFailedStep
  <2>10. QED
    BY <1>2, <2>1, <2>2, <2>3, <2>4, <2>5, <2>6, <2>7, <2>8, <2>9 DEF CallStep
<1>3. ASSUME NEW c \in Callers, Crash(c)
      PROVE  IInv'
  BY <1>3, EndStep DEF Crash
<1>4. ASSUME NEW c \in Callers, ClientTimeout(c)
      PROVE  IInv'
  BY <1>4, ClientTimeoutStep
<1>5. ASSUME NEW cutoff \in 1 .. nextRun, Sweep(cutoff)
      PROVE  IInv'
  BY <1>5, SweepStep
<1>6. CASE UNCHANGED vars
  BY <1>6, StutterStep
<1>7. QED
  BY <1>1, <1>2, <1>3, <1>4, <1>5, <1>6 DEF Next

-----------------------------------------------------------------------------
(* The theorems                                                            *)

\* IInv holds in every reachable state: the six safety theorems rest on it.
THEOREM Inductive == Spec => []IInv
  BY InitInvariant, NextStep, PTL DEF Spec

\* Every variable keeps its type, for any number of callers, keys and runs.
THEOREM TypeCorrect == Spec => []TypeOK
  BY Inductive, PTL DEF IInv

\* Every stored report was made by the call owning the row for its own employee
\* and day, and a cached row repeats a report another run published
\* (crew.py, run_audit).
THEOREM ReportsHaveProvenance == Spec => []ReportProvenance
  BY Inductive, PTL DEF IInv

\* No two calls in progress ever work on one row of audit_runs, and a call finds
\* its row in the status its stage expects or swept (crew.py, processing_run_id).
THEOREM RowsOwned == Spec => []CallsOwnTheirRows
  BY Inductive, PTL DEF IInv

\* A report made public by mark_run_completed stays attributable to a run of its
\* employee and day, whatever retries, sweeps and failures follow.
THEOREM PublishedAttributable == Spec => []PublishedByRealRuns
  BY Inductive, PTL DEF IInv

\* Both directions together: every report in a row or made public can be traced.
THEOREM ReportsAreTraceable == Spec => []ReportsTraceable
  BY ReportsHaveProvenance, PublishedAttributable, PTL DEF ReportsTraceable

\* error and finished_at agree with the status in every row (audit/queries.py,
\* ops/queries.py).
THEOREM ColumnsConsistent == Spec => []OutcomeColumnsAgree
  BY Inductive, PTL DEF IInv

\* What run_audit returned to a client is what the status endpoint reads back,
\* ever after: no sweep, retry or failure handler touches that row again.
THEOREM AnswersStayReadable == Spec => []AnswersDurable
<1>1. IInv => AnswersDurable
  BY DEF IInv, AnsweredRunsReleased, AnswersDurable
<1>2. QED
  BY <1>1, Inductive, PTL

-----------------------------------------------------------------------------
(* What one step may do to one row                                         *)

\* The edits of a row that only the call owning it makes.
OwnerEdit(s, t) ==
  \/ s = "absent" /\ t \in {"processing", "completed_cached"}
  \/ s \in {"processing", "stale", "completed"} /\ t \in {"completed", "failed"}

\* All that one step may do to row r.
RowStep(r) ==
  \/ runs'[r] = runs[r]
  \/ runs[r].status = "processing" /\ runs'[r] = Swept(runs[r])
  \/ /\ \E c \in Callers : calls[c].run = r
     /\ OwnerEdit(runs[r].status, runs'[r].status)

\* A step of a call edits only the row of its own run, in one of two ways.
LEMMA CallRowStep ==
  ASSUME IInv, NEW c \in Callers, CallStep(c), NEW r \in RunIds
  PROVE  RowStep(r)
<1>1. CASE LookupHit(c) \/ LookupMiss(c) \/ FirstStatementFails(c)
           \/ AttemptSucceeds(c) \/ AttemptFails(c)
  BY <1>1 DEF LookupHit, LookupMiss, FirstStatementFails, AttemptSucceeds,
              AttemptFails, RowStep
<1>2. ASSUME NEW row, NEW o, Write(calls[c].run, row, o), calls[c].stage # "idle",
             row = runs[calls[c].run] \/ OwnerEdit(runs[calls[c].run].status, row.status)
      PROVE  RowStep(r)
  <2>1. calls[c].run \in RunIds
    BY <1>2, LiveCall
  <2>2. CASE r = calls[c].run
    <3>1. runs'[r] = runs[r] \/ runs'[r] = row
      BY <1>2, <2>1, <2>2 DEF Write, IInv, TypeOK
    <3>2. QED
      BY <1>2, <2>2, <3>1 DEF RowStep
  <2>3. CASE r # calls[c].run
    BY <1>2, <2>1, <2>3 DEF Write, RowStep, IInv, TypeOK
  <2>4. QED
    BY <2>2, <2>3
<1>3. CASE InsertCached(c)
  <2>1. calls[c].stage = "reuse"
    BY <1>3 DEF InsertCached
  <2>2. runs[calls[c].run] = NoRow
    BY <2>1 DEF IInv, CallsOwnTheirRows, OwnsItsRow
  <2> DEFINE row == [NoRow EXCEPT !.status = "completed_cached", !.key = calls[c].key,
                                  !.report = calls[c].report]
  <2>3. OwnerEdit(runs[calls[c].run].status, row.status)
    BY <2>2 DEF OwnerEdit, NoRow
  <2>4. \E o : Write(calls[c].run, row, o)
    BY <1>3 DEF InsertCached
  <2> HIDE DEF row
  <2>5. QED
    BY <1>2, <2>1, <2>3, <2>4
<1>4. CASE InsertProcessing(c)
  <2>1. calls[c].stage = "open"
    BY <1>4 DEF InsertProcessing
  <2>2. runs[calls[c].run] = NoRow
    BY <2>1 DEF IInv, CallsOwnTheirRows, OwnsItsRow
  <2> DEFINE row == [NoRow EXCEPT !.status = "processing", !.key = calls[c].key]
  <2>3. OwnerEdit(runs[calls[c].run].status, row.status)
    BY <2>2 DEF OwnerEdit, NoRow
  <2>4. \E o : Write(calls[c].run, row, o)
    BY <1>4 DEF InsertProcessing
  <2> HIDE DEF row
  <2>5. QED
    BY <1>2, <2>1, <2>3, <2>4
<1>5. CASE MarkCompleted(c)
  <2>1. calls[c].stage = "complete"
    BY <1>5 DEF MarkCompleted
  <2>2. runs[calls[c].run].status \in {"processing", "stale", "completed"}
    BY <2>1 DEF IInv, CallsOwnTheirRows, OwnsItsRow
  <2> DEFINE row == [runs[calls[c].run] EXCEPT !.status = "completed",
                                               !.report = calls[c].report,
                                               !.error = "none", !.finished = TRUE]
  <2>3. row.status = "completed"
    BY <2>1, LiveCall, RowFields DEF IInv, Row
  <2>4. OwnerEdit(runs[calls[c].run].status, row.status)
    BY <2>2, <2>3 DEF OwnerEdit
  <2>5. \E o : Write(calls[c].run, UpdateOf(calls[c].run, row), o)
    BY <1>5 DEF MarkCompleted
  <2> HIDE DEF row
  <2>6. UpdateOf(calls[c].run, row) = row
    BY <2>2 DEF UpdateOf
  <2>7. QED
    BY <1>2, <2>1, <2>4, <2>5, <2>6
<1>6. CASE PersistFailed(c)
  <2>1. calls[c].stage = "fail"
    BY <1>6 DEF PersistFailed
  <2>2. /\ calls[c].run \in RunIds
        /\ runs[calls[c].run].status \in {"absent", "processing", "stale", "completed"}
    BY <2>1, LiveCall DEF IInv, CallsOwnTheirRows, OwnsItsRow
  <2> DEFINE row == [runs[calls[c].run] EXCEPT !.status = "failed",
                                               !.error = "exception", !.finished = TRUE]
  <2>3. row.status = "failed"
    BY <2>2, RowFields DEF IInv, Row
  <2>4. \E o : Write(calls[c].run, UpdateOf(calls[c].run, row), o)
    BY <1>6 DEF PersistFailed
  <2> HIDE DEF row
  <2>5. \/ UpdateOf(calls[c].run, row) = runs[calls[c].run]
        \/ OwnerEdit(runs[calls[c].run].status, UpdateOf(calls[c].run, row).status)
    BY <2>2, <2>3 DEF UpdateOf, OwnerEdit, IInv, UnusedRowsAbsent
  <2>6. QED
    BY <1>2, <2>1, <2>4, <2>5
<1>7. QED
  BY <1>1, <1>3, <1>4, <1>5, <1>6 DEF CallStep

\* ... and every other step leaves the rows alone or sweeps them.
LEMMA EveryRowStep ==
  ASSUME IInv, [Next]_vars, NEW r \in RunIds
  PROVE  RowStep(r)
<1>1. ASSUME NEW c \in Callers, CallStep(c)
      PROVE  RowStep(r)
  BY <1>1, CallRowStep
<1>2. ASSUME NEW cutoff \in 1 .. nextRun, Sweep(cutoff)
      PROVE  RowStep(r)
  BY <1>2 DEF Sweep, RowStep
<1>3. CASE UNCHANGED runs
  BY <1>3 DEF RowStep
<1>4. QED
  BY <1>1, <1>2, <1>3 DEF Next, Begin, Crash, ClientTimeout, vars

\* The life of a row of audit_runs: its statuses in order, and once its call is
\* gone nobody but the sweeper near it (crew.py, stale_sweeper.py).
THEOREM Lifecycle == Spec => RowLifecycle
<1>1. ASSUME IInv, [Next]_vars
      PROVE  [\A r \in RunIds : StatusInOrder(r) /\ OnlySweptIfAbandoned(r)]_vars
  <2>1. SUFFICES ASSUME NEW r \in RunIds
        PROVE  StatusInOrder(r) /\ OnlySweptIfAbandoned(r)
    OBVIOUS
  <2>2. RowStep(r)
    BY <1>1, EveryRowStep
  <2>3. Swept(runs[r]).status = "stale"
    BY <1>1, RowFields DEF IInv, Swept, Row
  <2>4. StatusInOrder(r)
    BY <2>2, <2>3 DEF RowStep, OwnerEdit, StatusInOrder
  <2>5. OnlySweptIfAbandoned(r)
    BY <2>2 DEF RowStep, OnlySweptIfAbandoned
  <2>6. QED
    BY <2>4, <2>5
<1>2. QED
  BY <1>1, Inductive, PTL DEF Spec, RowLifecycle
=============================================================================
