----------------------- MODULE AuditRefinement_proofs -----------------------
(* AuditRuns implements AuditLedger, for every value of the constants.     *)
EXTENDS AuditRefinement, AuditRuns_proofs

\* What a reader sees of the table.
Seen == [r \in RunIds |-> EntryOf(runs[r])]

\* A step that rewrites row r to a row that reads as an entry of the same key
\* is, to a reader, that edit of the entry of r and of no other.
LEMMA SeenEdit ==
  ASSUME TypeOK, NEW r \in RunIds, NEW row, runs' = [runs EXCEPT ![r] = row]
  PROVE  Seen' = [Seen EXCEPT ![r] = EntryOf(row)]
<1>1. \A q \in RunIds : runs'[q] = IF q = r THEN row ELSE runs[q]
  BY DEF TypeOK
<1>2. Seen' = [q \in RunIds |-> EntryOf(runs'[q])]
  BY DEF Seen, EntryOf, PhaseOf
<1>3. \A q \in RunIds : EntryOf(runs'[q]) = IF q = r THEN EntryOf(row) ELSE Seen[q]
  BY <1>1 DEF Seen
<1>4. DOMAIN Seen = RunIds /\ [Seen EXCEPT ![r] = EntryOf(row)] =
                                [q \in RunIds |-> IF q = r THEN EntryOf(row) ELSE Seen[q]]
  BY DEF Seen
<1>5. QED
  BY <1>2, <1>3, <1>4

\* A step that changes neither a row nor the published reports is no step of
\* the ledger.
LEMMA Unseen ==
  ASSUME UNCHANGED <<runs, published>>
  PROVE  UNCHANGED Ledger!ledger
  BY DEF Ledger!ledger, EntryOf, PhaseOf

\* An empty table reads as an empty ledger.
LEMMA LedgerInit == Init => Ledger!Init
  BY DEF Init, Ledger!Init, Ledger!NoEntry, EntryOf, PhaseOf, NoRow

\* Opening, reusing, publishing and failing a row are the ledger's actions.
LEMMA InsertProcessingLedger ==
  ASSUME IInv, NEW c \in Callers, InsertProcessing(c)
  PROVE  [Ledger!Next]_(Ledger!ledger)
<1> DEFINE r == calls[c].run
           row == [NoRow EXCEPT !.status = "processing", !.key = calls[c].key]
<1>1. calls[c].stage = "open" /\ published' = published
  BY DEF InsertProcessing
<1>2. r \in RunIds /\ runs[r] = NoRow /\ calls[c].key \in Keys
  BY <1>1, LiveCall DEF IInv, CallsOwnTheirRows, OwnsItsRow
<1>3. runs' = runs \/ runs' = [runs EXCEPT ![r] = row]
  BY DEF InsertProcessing, Write
<1>4. CASE runs' = runs
  BY <1>1, <1>4, Unseen
<1>5. CASE runs' = [runs EXCEPT ![r] = row]
  <2>1. Seen' = [Seen EXCEPT ![r] = EntryOf(row)]
    BY <1>2, <1>5, SeenEdit DEF IInv
  <2>2. EntryOf(row) = [phase |-> "open", key |-> calls[c].key, report |-> NoReport]
    BY DEF EntryOf, PhaseOf, NoRow
  <2>3. Seen[r].phase = "none"
    BY <1>2 DEF Seen, EntryOf, PhaseOf, NoRow
  <2>4. Ledger!Open(r, calls[c].key)
    BY <1>1, <2>1, <2>2, <2>3 DEF Ledger!Open, Seen
  <2>5. QED
    BY <1>2, <2>4 DEF Ledger!Next
<1>6. QED
  BY <1>3, <1>4, <1>5

\* InsertCached is Reuse of a published report, unless rolled back.
LEMMA InsertCachedLedger ==
  ASSUME IInv, NEW c \in Callers, InsertCached(c)
  PROVE  [Ledger!Next]_(Ledger!ledger)
<1> DEFINE r == calls[c].run
           p == [key |-> calls[c].key, report |-> calls[c].report]
           row == [NoRow EXCEPT !.status = "completed_cached", !.key = calls[c].key,
                                !.report = calls[c].report]
<1>1. calls[c].stage = "reuse" /\ published' = published
  BY DEF InsertCached
<1>2. r \in RunIds /\ runs[r] = NoRow /\ p \in published
  BY <1>1, LiveCall DEF IInv, CallsOwnTheirRows, OwnsItsRow, PublishedByRealRuns
<1>3. runs' = runs \/ runs' = [runs EXCEPT ![r] = row]
  BY DEF InsertCached, Write
<1>4. CASE runs' = runs
  BY <1>1, <1>4, Unseen
<1>5. CASE runs' = [runs EXCEPT ![r] = row]
  <2>1. Seen' = [Seen EXCEPT ![r] = EntryOf(row)]
    BY <1>2, <1>5, SeenEdit DEF IInv
  <2>2. EntryOf(row) = [phase |-> "reused", key |-> p.key, report |-> p.report]
    BY DEF EntryOf, PhaseOf, NoRow
  <2>3. Seen[r].phase = "none"
    BY <1>2 DEF Seen, EntryOf, PhaseOf, NoRow
  <2>4. Ledger!Reuse(r, p)
    BY <1>1, <1>2, <2>1, <2>2, <2>3 DEF Ledger!Reuse, Seen
  <2>5. QED
    BY <1>2, <2>4 DEF Ledger!Next
<1>6. QED
  BY <1>3, <1>4, <1>5

\* MarkCompleted is Publish of a report never published before, also when the
\* row was swept meanwhile or the acknowledgement is lost.
LEMMA MarkCompletedLedger ==
  ASSUME IInv, NEW c \in Callers, MarkCompleted(c)
  PROVE  [Ledger!Next]_(Ledger!ledger)
<1> DEFINE r == calls[c].run
           rep == calls[c].report
           row == [runs[r] EXCEPT !.status = "completed", !.report = rep,
                                  !.error = "none", !.finished = TRUE]
<1>1. calls[c].stage = "complete"
  BY DEF MarkCompleted
<1>2. /\ r \in RunIds
      /\ runs[r].status \in {"processing", "stale", "completed"}
      /\ rep = [run |-> r, attempt |-> calls[c].attempt] /\ calls[c].attempt \in Attempts
  BY <1>1, LiveCall DEF IInv, CallsOwnTheirRows, OwnsItsRow
<1>3. rep \in Report /\ rep.run = r /\ rep.attempt = calls[c].attempt
  BY <1>2 DEF Report
<1>4. UpdateOf(r, row) = row
  BY <1>2 DEF UpdateOf
<1>5. \/ runs' = runs /\ published' = published
      \/ /\ runs' = [runs EXCEPT ![r] = row]
         /\ published' = published \union {[key |-> runs[r].key, report |-> rep]}
  BY <1>2, <1>4 DEF MarkCompleted, Write
<1>6. CASE runs' = runs /\ published' = published
  BY <1>6, Unseen
<1>7. CASE /\ runs' = [runs EXCEPT ![r] = row]
           /\ published' = published \union {[key |-> runs[r].key, report |-> rep]}
  <2>1. Seen' = [Seen EXCEPT ![r] = EntryOf(row)]
    BY <1>2, <1>7, SeenEdit DEF IInv
  <2>2. EntryOf(row) = [phase |-> "published", key |-> runs[r].key, report |-> rep]
    <3>1. row.status = "completed" /\ row.key = runs[r].key /\ row.report = rep
      BY <1>2, RowFields DEF IInv, Row
    <3>2. QED
      BY <3>1 DEF EntryOf, PhaseOf
  <2>3. /\ Seen[r] = [phase |-> Seen[r].phase, key |-> runs[r].key, report |-> Seen[r].report]
        /\ Seen[r].phase \in {"open", "expired", "published"}
        /\ Seen[r].key = runs[r].key
    BY <1>2 DEF Seen, EntryOf, PhaseOf
  <2>4. Seen' = [Seen EXCEPT ![r].phase = "published", ![r].report = rep]
    <3>1. DOMAIN Seen = RunIds
      BY DEF Seen
    <3>2. QED
      BY <1>2, <2>1, <2>2, <2>3, <3>1
  <2>5. \A p \in published : p.report # rep
    <3>1. SUFFICES ASSUME NEW p \in published, p.report = rep PROVE FALSE
      OBVIOUS
    <3>2. p.report.attempt < calls[c].attempt
      BY <1>1, <1>3, <3>1 DEF IInv, PublishedByRealRuns, Attributable
    <3>3. QED
      BY <1>2, <1>3, <3>1, <3>2 DEF Attempts
  <2>6. Ledger!Publish(r, rep)
    BY <1>7, <2>3, <2>4, <2>5 DEF Ledger!Publish, Seen
  <2>7. QED
    BY <1>2, <1>3, <2>6 DEF Ledger!Next
<1>8. QED
  BY <1>5, <1>6, <1>7

\* PersistFailed is Abandon, or nothing when the row never appeared.
LEMMA PersistFailedLedger ==
  ASSUME IInv, NEW c \in Callers, PersistFailed(c)
  PROVE  [Ledger!Next]_(Ledger!ledger)
<1> DEFINE r == calls[c].run
           row == [runs[r] EXCEPT !.status = "failed", !.error = "exception",
                                  !.finished = TRUE]
<1>1. calls[c].stage = "fail" /\ published' = published
  BY DEF PersistFailed
<1>2. /\ r \in RunIds
      /\ runs[r].status \in {"absent", "processing", "stale", "completed"}
  BY <1>1, LiveCall DEF IInv, CallsOwnTheirRows, OwnsItsRow
<1>3. \/ runs' = runs
      \/ runs' = [runs EXCEPT ![r] = UpdateOf(r, row)]
  BY DEF PersistFailed, Write
<1>4. CASE runs' = runs \/ runs[r].status = "absent"
  <2>1. runs[r].status = "absent" => UpdateOf(r, row) = runs[r]
    BY <1>2 DEF UpdateOf, IInv, UnusedRowsAbsent
  <2>2. runs' = runs
    BY <1>2, <1>3, <1>4, <2>1 DEF IInv, TypeOK
  <2>3. QED
    BY <1>1, <2>2, Unseen
<1>5. CASE runs' # runs /\ runs[r].status # "absent"
  <2>1. Seen' = [Seen EXCEPT ![r] = EntryOf(row)]
    <3>1. UpdateOf(r, row) = row
      BY <1>5 DEF UpdateOf
    <3>2. QED
      BY <1>2, <1>3, <1>5, <3>1, SeenEdit DEF IInv
  <2>2. EntryOf(row) = [phase |-> "abandoned", key |-> runs[r].key, report |-> runs[r].report]
    <3>1. row.status = "failed" /\ row.key = runs[r].key /\ row.report = runs[r].report
      BY <1>2, RowFields DEF IInv, Row
    <3>2. QED
      BY <3>1 DEF EntryOf, PhaseOf
  <2>3. /\ Seen[r] = [phase |-> Seen[r].phase, key |-> runs[r].key, report |-> runs[r].report]
        /\ Seen[r].phase \in {"open", "expired", "published"}
    BY <1>2, <1>5 DEF Seen, EntryOf, PhaseOf
  <2>4. Seen' = [Seen EXCEPT ![r].phase = "abandoned"]
    <3>1. [Seen[r] EXCEPT !.phase = "abandoned"] = EntryOf(row)
      BY <2>2, <2>3
    <3>2. QED
      BY <2>1, <3>1
  <2>5. Ledger!Abandon(r)
    BY <1>1, <2>3, <2>4 DEF Ledger!Abandon, Seen
  <2>6. QED
    BY <1>2, <2>5 DEF Ledger!Next
<1>6. QED
  BY <1>4, <1>5

\* A sweep expires the open entries whose rows it marks, or none.
LEMMA SweepLedger ==
  ASSUME IInv, NEW cutoff \in 1 .. nextRun, Sweep(cutoff)
  PROVE  [Ledger!Next]_(Ledger!ledger)
<1> DEFINE S == {r \in RunIds : runs[r].status = "processing" /\ r < cutoff}
<1>1. published' = published
  BY DEF Sweep
<1>2. CASE S = {}
  <2>1. runs' = runs
    BY <1>2 DEF Sweep, IInv, TypeOK
  <2>2. QED
    BY <1>1, <2>1, Unseen
<1>3. CASE S # {}
  <2>1. \A r \in S : Seen[r].phase = "open"
    BY DEF Seen, EntryOf, PhaseOf
  <2>2. \A r \in RunIds :
          EntryOf(runs'[r]) = IF r \in S THEN [Seen[r] EXCEPT !.phase = "expired"]
                              ELSE Seen[r]
    <3>1. SUFFICES ASSUME NEW r \in RunIds
          PROVE EntryOf(runs'[r]) = IF r \in S THEN [Seen[r] EXCEPT !.phase = "expired"]
                                    ELSE Seen[r]
      OBVIOUS
    <3>2. CASE r \in S
      <4>1. /\ runs'[r].status = "stale" /\ runs'[r].key = runs[r].key
            /\ runs'[r].report = runs[r].report
        BY <3>2, RowFields DEF Sweep, Swept, IInv, Row
      <4>2. QED
        BY <3>2, <4>1 DEF Seen, EntryOf, PhaseOf
    <3>3. CASE r \notin S
      BY <3>3 DEF Sweep, Seen
    <3>4. QED
      BY <3>2, <3>3
  <2>3. Ledger!Expire(S)
    BY <1>1, <1>3, <2>1, <2>2 DEF Ledger!Expire, Seen
  <2>4. S \in SUBSET RunIds
    OBVIOUS
  <2>5. QED
    BY <2>3, <2>4 DEF Ledger!Next
<1>4. QED
  BY <1>2, <1>3

\* Every step is a ledger step or a stutter.
LEMMA LedgerStep ==
  ASSUME IInv, [Next]_vars
  PROVE  [Ledger!Next]_(Ledger!ledger)
<1>1. CASE UNCHANGED <<runs, published>>
  BY <1>1, Unseen
<1>2. ASSUME NEW c \in Callers, CallStep(c)
      PROVE  [Ledger!Next]_(Ledger!ledger)
  <2>1. CASE InsertCached(c)
    BY <2>1, InsertCachedLedger
  <2>2. CASE InsertProcessing(c)
    BY <2>2, InsertProcessingLedger
  <2>3. CASE MarkCompleted(c)
    BY <2>3, MarkCompletedLedger
  <2>4. CASE PersistFailed(c)
    BY <2>4, PersistFailedLedger
  <2>5. CASE UNCHANGED <<runs, published>>
    BY <2>5, Unseen
  <2>6. QED
    BY <1>2, <2>1, <2>2, <2>3, <2>4, <2>5
    DEF CallStep, LookupHit, LookupMiss, FirstStatementFails, AttemptSucceeds,
        AttemptFails
<1>3. ASSUME NEW cutoff \in 1 .. nextRun, Sweep(cutoff)
      PROVE  [Ledger!Next]_(Ledger!ledger)
  BY <1>3, SweepLedger
<1>4. QED
  BY <1>1, <1>2, <1>3 DEF Next, Begin, Crash, ClientTimeout, vars

\* Every behaviour of the calls and the sweeper is a behaviour of the ledger:
\* the refinement the liveness run checks on its instance, for all constants.
THEOREM ImplementsLedger == Spec => LedgerSpec
  BY LedgerInit, LedgerStep, Inductive, PTL DEF Spec, LedgerSpec, Ledger!Spec
=============================================================================
