--------------------------- MODULE AuditRefinement ---------------------------
(* AuditRuns implements AuditLedger: the status column read as a phase.    *)
EXTENDS AuditRuns

PhaseOf(status) ==
  CASE status = "absent"           -> "none"
    [] status = "processing"       -> "open"
    [] status = "stale"            -> "expired"
    [] status = "completed"        -> "published"
    [] status = "completed_cached" -> "reused"
    [] status = "failed"           -> "abandoned"

EntryOf(row) == [phase |-> PhaseOf(row.status), key |-> row.key, report |-> row.report]

Ledger == INSTANCE AuditLedger WITH
            Entries <- RunIds,
            Reports <- Report,
            entry   <- [r \in RunIds |-> EntryOf(runs[r])]

\* Every step of the calls and of the sweeper is, to a reader of the table, a
\* step of the ledger or no step at all: a report is public once, a cached run
\* repeats a public report of its own employee and day, and nothing else moves.
LedgerSpec == Ledger!Spec
=============================================================================
