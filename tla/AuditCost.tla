------------------------------ MODULE AuditCost ------------------------------
(***************************************************************************)
(* The daily cost rollup (WorkAI/ops/cost_rollup.py) over the audit runs.  *)
(* The runs themselves are the ledger AuditLedger, which AuditRuns is      *)
(* shown to implement; a rollup reads the readable runs of one day, stores *)
(* their total over the one of the day before it and compares it with the  *)
(* days before, in one READ COMMITTED transaction.  Timer and manual       *)
(* rollups of any day run beside each other and beside the audits.         *)
(***************************************************************************)
EXTENDS Integers, FiniteSets, FiniteSetsExt

CONSTANTS
  CostRuns, CostReports, \* rows of audit_runs and the reports they may carry
  NoDay, NoUsageReport,  \* the ledger's "no key" and "no report"
  CostDays,              \* the days 1 .. CostDays
  LiveDays,              \* the days the runs are for
  PastCosts,             \* what audit_cost_daily may hold of the other days
  Usage,                 \* report -> its cost_usd, or NoUsage
  NoUsage,               \* no _usage in the report; no row in audit_cost_daily
  Rollups                \* rollups that can be in progress at once

ASSUME AuditCostAssumption ==
  /\ IsFiniteSet(CostRuns)
  /\ CostDays \in Nat /\ LiveDays \subseteq 1 .. CostDays
  /\ NoDay \notin LiveDays /\ NoUsageReport \notin CostReports
  /\ NoUsage \notin Int
  /\ Usage \in [CostReports -> Int \union {NoUsage}]
  /\ PastCosts \subseteq [(1 .. CostDays) \ LiveDays -> Nat \union {NoUsage}]

VARIABLES
  entry, published, \* the ledger
  total,            \* audit_cost_daily.cost_usd of each day
  rollup,           \* the rollups in progress
  origin            \* history: the rollup that stored the total of each day

costVars == <<entry, published, total, rollup, origin>>

Ledger == INSTANCE AuditLedger WITH
            Entries <- CostRuns, Keys <- LiveDays, NoKey <- NoDay,
            Reports <- CostReports, NoReport <- NoUsageReport

HistoryLimit == 7
MinHistory   == 3

\* What the SELECT of a rollup returned: the report of each run it saw.
Nothing == [r \in CostRuns |-> NoUsageReport]

\* since: the runs that changed after the SELECT; overlapped: another rollup of
\* the day stored its total meanwhile (both are history).
IdleRollup == [stage |-> "idle", day |-> NoDay, seen |-> Nothing, since |-> {},
               overlapped |-> FALSE]

CostTypeOK ==
  /\ total \in [1 .. CostDays -> Nat \union {NoUsage}]
  /\ origin \in [LiveDays -> [seen : [CostRuns -> CostReports \union {NoUsageReport}],
                              since : SUBSET CostRuns, spike : BOOLEAN]]
  /\ rollup \in [Rollups ->
                   [stage : {"idle", "read"}, day : LiveDays \union {NoDay},
                    seen : [CostRuns -> CostReports \union {NoUsageReport}],
                    since : SUBSET CostRuns, overlapped : BOOLEAN]]

CostInit ==
  /\ Ledger!Init
  /\ \E past \in PastCosts :
       total = [d \in 1 .. CostDays |-> IF d \in LiveDays THEN NoUsage ELSE past[d]]
  /\ rollup = [w \in Rollups |-> IdleRollup]
  /\ origin = [d \in LiveDays |-> [seen |-> Nothing, since |-> {}, spike |-> FALSE]]

-----------------------------------------------------------------------------
\* Mutant: the latest run only.
ReadableLatest(d) ==
  [r \in CostRuns |->
     IF /\ entry[r].phase \in {"published", "reused"} /\ entry[r].key = d
        /\ \A q \in CostRuns : entry[q].phase \in {"published", "reused"} /\ entry[q].key = d => q <= r
     THEN entry[r].report ELSE NoUsageReport]

\* fetch_audit_usage_for_date: the completed and the cached runs of the day.
Readable(d) ==
  [r \in CostRuns |-> IF entry[r].phase \in {"published", "reused"} /\ entry[r].key = d
                      THEN entry[r].report ELSE NoUsageReport]

\* _extract_usage: a report without usage is skipped, a negative cost is none.
CostOf(report) ==
  IF report = NoUsageReport \/ Usage[report] = NoUsage \/ Usage[report] < 0
  THEN 0 ELSE Usage[report]

TotalOf(seen) == MapThenSumSet(LAMBDA r : CostOf(seen[r]), CostRuns)

\* fetch_recent_cost_history: the latest days before d that have a total.
History(d) ==
  LET earlier == {e \in 1 .. d - 1 : total[e] # NoUsage}
  IN  {e \in earlier : Cardinality({f \in earlier : f > e}) < HistoryLimit}

\* should_alert_on_cost_spike: at least one and a half times the mean.
CostSpike(cost, days) ==
  LET sum == MapThenSumSet(LAMBDA e : total[e], days)
  IN  /\ Cardinality(days) >= MinHistory
      /\ IF sum <= 0 THEN cost > 0 ELSE 2 * cost * Cardinality(days) >= 3 * sum

-----------------------------------------------------------------------------
ReadUsage(w, d) ==
  /\ rollup[w].stage = "idle"
  /\ rollup' = [rollup EXCEPT ![w] = [IdleRollup EXCEPT !.stage = "read", !.day = d,
                                                        !.seen = Readable(d)]]
  /\ UNCHANGED <<entry, published, total, origin>>

\* Mutant: the upsert adds to what is stored.
StoreAdded(w) ==
  /\ rollup[w].stage = "read"
  /\ LET d    == rollup[w].day
         cost == TotalOf(rollup[w].seen) + IF total[d] = NoUsage THEN 0 ELSE total[d] IN
     /\ total' = [total EXCEPT ![d] = cost]
     /\ origin' = [origin EXCEPT ![d] = [seen |-> rollup[w].seen, since |-> rollup[w].since,
                                         spike |-> CostSpike(cost, History(d))]]
     /\ rollup' = [v \in Rollups |->
                     IF v = w THEN IdleRollup
                     ELSE IF rollup[v].day = d THEN [rollup[v] EXCEPT !.overlapped = TRUE]
                     ELSE rollup[v]]
  /\ UNCHANGED <<entry, published>>

\* The upsert, the SELECT of the days before and the commit, as one step: nobody
\* sees the row before the commit and a second upsert of it waits for that one.
\* Whether the acknowledgement arrives changes nothing but the result.
StoreTotal(w) ==
  /\ rollup[w].stage = "read"
  /\ LET d    == rollup[w].day
         cost == TotalOf(rollup[w].seen) IN
     /\ total' = [total EXCEPT ![d] = cost]
     /\ origin' = [origin EXCEPT ![d] = [seen |-> rollup[w].seen, since |-> rollup[w].since,
                                         spike |-> CostSpike(cost, History(d))]]
     /\ rollup' = [v \in Rollups |->
                     IF v = w THEN IdleRollup
                     ELSE IF rollup[v].day = d THEN [rollup[v] EXCEPT !.overlapped = TRUE]
                     ELSE rollup[v]]
  /\ UNCHANGED <<entry, published>>

\* A statement fails or the process dies: the transaction rolls back.
RollupFails(w) ==
  /\ rollup[w].stage # "idle"
  /\ rollup' = [rollup EXCEPT ![w] = IdleRollup]
  /\ UNCHANGED <<entry, published, total, origin>>

\* The audits go on.
AuditsGoOn ==
  /\ Ledger!Next
  /\ LET changed == {r \in CostRuns : entry'[r] # entry[r]} IN
     /\ rollup' = [w \in Rollups |-> IF rollup[w].stage = "idle" THEN rollup[w]
                                     ELSE [rollup[w] EXCEPT !.since = @ \union changed]]
     /\ origin' = [d \in LiveDays |-> [origin[d] EXCEPT !.since = @ \union changed]]
  /\ UNCHANGED total

CostNext ==
  \/ AuditsGoOn
  \/ \E w \in Rollups, d \in LiveDays : ReadUsage(w, d)
  \/ \E w \in Rollups : StoreTotal(w) \/ RollupFails(w)

CostSpec == CostInit /\ [][CostNext]_costVars

-----------------------------------------------------------------------------
\* A stored total is the cost of the runs of its day as they all were at one
\* moment: every run that has not changed since is in it with the report it
\* shows, once for the run that made the report and once for each cached copy,
\* and all it holds was published for that day.  An alert needs a cost.
TotalsOfOneMoment ==
  \A d \in LiveDays :
    /\ \A r \in CostRuns \ origin[d].since :
         total[d] # NoUsage => origin[d].seen[r] = Readable(d)[r]
    /\ \A r \in CostRuns : origin[d].seen[r] # NoUsageReport =>
         [key |-> d, report |-> origin[d].seen[r]] \in published
    /\ total[d] # NoUsage => total[d] = TotalOf(origin[d].seen)
    /\ origin[d].spike => total[d] > 0

\* A step that replaces a total keeps the runs that were in it.
CountedStay ==
  \A w \in Rollups :
    rollup[w].stage = "read" /\ rollup'[w].stage = "idle" /\ ~ rollup[w].overlapped
      => \A d \in LiveDays, r \in CostRuns :
           origin[d].seen[r] # NoUsageReport /\ origin'[d].seen[r] = NoUsageReport
             => entry[r].phase = "abandoned"

\* A rollup no other one of its day overlapped drops a run from the total only
\* if the run's own call has declared it failed since: a late rerun never loses
\* what the nightly one counted.
RunsStayCounted == [][CountedStay]_costVars
=============================================================================
