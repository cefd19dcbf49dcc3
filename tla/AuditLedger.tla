----------------------------- MODULE AuditLedger -----------------------------
(***************************************************************************)
(* What the audit ledger promises to the readers of audit_runs (the status *)
(* and history endpoints, the cost rollup, the cache lookup of the next    *)
(* run), without the calls, retries, commits and crashes that write it.    *)
(***************************************************************************)
EXTENDS Naturals

CONSTANTS Entries, Keys, NoKey, Reports, NoReport

VARIABLES
  entry,      \* what a reader sees of each run
  published   \* every report a run has made public, with its employee and day

ledger == <<entry, published>>

Phases == {"none", "open", "expired", "published", "reused", "abandoned"}

NoEntry == [phase |-> "none", key |-> NoKey, report |-> NoReport]

Init ==
  /\ entry = [e \in Entries |-> NoEntry]
  /\ published = {}

\* A run is announced before any work is done for it.
Open(e, k) ==
  /\ entry[e].phase = "none"
  /\ entry' = [entry EXCEPT ![e] = [phase |-> "open", key |-> k, report |-> NoReport]]
  /\ UNCHANGED published

\* A report is made public once, for the employee and day the run was opened
\* with; a run whose publication was not acknowledged may publish another one.
Publish(e, rep) ==
  /\ entry[e].phase \in {"open", "expired", "published"}
  /\ \A p \in published : p.report # rep
  /\ entry' = [entry EXCEPT ![e].phase = "published", ![e].report = rep]
  /\ published' = published \union {[key |-> entry[e].key, report |-> rep]}

\* A cached run repeats a report that is already public for its key.
Reuse(e, p) ==
  /\ entry[e].phase = "none"
  /\ p \in published
  /\ entry' = [entry EXCEPT ![e] = [phase |-> "reused", key |-> p.key,
                                    report |-> p.report]]
  /\ UNCHANGED published

Abandon(e) ==
  /\ entry[e].phase \in {"open", "expired", "published"}
  /\ entry' = [entry EXCEPT ![e].phase = "abandoned"]
  /\ UNCHANGED published

Expire(S) ==
  /\ S # {}
  /\ \A e \in S : entry[e].phase = "open"
  /\ entry' = [e \in Entries |->
                 IF e \in S THEN [entry[e] EXCEPT !.phase = "expired"] ELSE entry[e]]
  /\ UNCHANGED published

Next ==
  \/ \E e \in Entries, k \in Keys : Open(e, k)
  \/ \E e \in Entries, rep \in Reports : Publish(e, rep)
  \/ \E e \in Entries, p \in published : Reuse(e, p)
  \/ \E e \in Entries : Abandon(e)
  \/ \E S \in SUBSET Entries : Expire(S)

Spec == Init /\ [][Next]_ledger
=============================================================================
