----------------------------- MODULE CutoverCheck -----------------------------
(***************************************************************************)
(* The three tools an operator runs before and during the cutover          *)
(* (WorkAI/ops and scripts): the readiness check of a working copy and its *)
(* evidence file, the check of the timers and services of the last day,    *)
(* and the comparison of each table's rows of a day with a reference.      *)
(* Each looks at one thing after the other, of which any may be missing,   *)
(* wrong or unreadable at that moment, and ends in an exit code.           *)
(***************************************************************************)
EXTENDS Integers, FiniteSets

CONSTANTS
  DiffTables,  \* the tables that are compared
  RefCount,    \* table -> rows in the reference
  RowCounts,   \* how many rows a table may hold when it is counted
  Tolerance,   \* tolerance_pct
  NotANumber,  \* NaN, which json.loads and float() accept
  Units        \* the timers, each with its service, that are expected

ASSUME CutoverCheckAssumption ==
  /\ IsFiniteSet(DiffTables) /\ IsFiniteSet(Units)
  /\ RefCount \in [DiffTables -> Nat]
  /\ RowCounts \subseteq Nat
  /\ Tolerance \in 0 .. 99
  /\ NotANumber \notin Int

VARIABLES
  tool,     \* the tool that runs
  look,     \* what it looks at next, or "verdict", or "ended"
  state,    \* readiness: what was found of the files
  claims,   \* readiness: the sections of the evidence file that were read
  counted,  \* comparison: the rows counted so far
  units,    \* timers: what was found of each unit
  status    \* the exit code, none or one

cutoverVars == <<tool, look, state, claims, counted, units, status>>

Files == {"deploy", "templates", "evidence"}

Sections == {"path_policy", "parallel_run", "hold_window", "rollback_rehearsal"}

\* A section: whether it claims to be done, which is what bool() makes of it (any
\* text does), its days or hours or minutes, and whether its artifact exists.
Claim == [done : BOOLEAN, amount : Nat \union {NotANumber}, artifact : BOOLEAN]

\* A unit: its timer is listed, was triggered within the window, its service has
\* journal entries and no failed result.
UnitState == [listed : BOOLEAN, triggered : BOOLEAN, journal : BOOLEAN, success : BOOLEAN]

\* claims, counted and units are functions on what was looked at.
CutoverTypeOK ==
  /\ tool \in {"none", "readiness", "timers", "diff"}
  /\ look \in Files \union Sections \union {"start", "units", "tables", "verdict", "ended"}
  /\ state \in [Files -> {"unseen", "good", "missing", "wrong"}]
  /\ DOMAIN claims \subseteq Sections /\ claims \in [DOMAIN claims -> Claim]
  /\ DOMAIN counted \subseteq DiffTables /\ counted \in [DOMAIN counted -> Nat]
  /\ DOMAIN units \subseteq Units /\ units \in [DOMAIN units -> UnitState]
  /\ status \subseteq 0 .. 2 /\ Cardinality(status) <= 1

CutoverInit ==
  /\ tool = "none" /\ look = "start"
  /\ state = [f \in Files |-> "unseen"]
  /\ claims = <<>> /\ counted = <<>> /\ units = <<>>
  /\ status = {}

With(f, x, y) == [z \in DOMAIN f \union {x} |-> IF z = x THEN y ELSE f[z]]

StartTool ==
  /\ look = "start"
  /\ \/ tool' = "readiness" /\ look' = "deploy"
     \/ tool' = "timers" /\ look' = "units"
     \/ tool' = "diff" /\ look' = "tables"
  /\ UNCHANGED <<state, claims, counted, units, status>>

-----------------------------------------------------------------------------
(* run_cutover_readiness                                                   *)

CheckDeploy ==
  /\ look = "deploy"
  /\ \E found \in {"good", "missing"} : state' = [state EXCEPT !.deploy = found]
  /\ look' = "templates"
  /\ UNCHANGED <<tool, claims, counted, units, status>>

\* All templates are there, and then all follow the policy.
CheckTemplates ==
  /\ look = "templates"
  /\ \E found \in {"good", "missing", "wrong"} : state' = [state EXCEPT !.templates = found]
  /\ look' = "evidence"
  /\ UNCHANGED <<tool, claims, counted, units, status>>

\* Without a file that can be decoded nothing is documented.
ReadEvidence ==
  /\ look = "evidence"
  /\ \E found \in {"good", "missing", "wrong"} :
       /\ state' = [state EXCEPT !.evidence = found]
       /\ look' = IF found = "good" THEN "path_policy" ELSE "verdict"
  /\ UNCHANGED <<tool, claims, counted, units, status>>

AfterSection ==
  [path_policy |-> "parallel_run", parallel_run |-> "hold_window",
   hold_window |-> "rollback_rehearsal", rollback_rehearsal |-> "verdict"]

\* The amounts around each section's bound; int() of NaN raises (ToolRaises).
Amounts ==
  [path_policy |-> {0}, parallel_run |-> {6, 7}, hold_window |-> {23, 24, NotANumber},
   rollback_rehearsal |-> {0, 5, 6, NotANumber}]

CheckSection ==
  /\ look \in Sections
  /\ \E claim \in [done : BOOLEAN, amount : Amounts[look], artifact : BOOLEAN] :
       claims' = With(claims, look, claim)
  /\ look' = AfterSection[look]
  /\ UNCHANGED <<tool, state, counted, units, status>>

\* No comparison with NaN holds.
Below(amount, bound)  == amount # NotANumber /\ amount < bound
AtMost(amount, bound) == amount # NotANumber /\ amount <= bound
Above(amount, bound)  == amount # NotANumber /\ amount > bound

\* Mutant: a rehearsal that took no time is within five minutes.
DocumentedAtOnce(s) ==
  /\ s \in DOMAIN claims
  /\ claims[s].done /\ claims[s].artifact
  /\ s = "parallel_run" => claims[s].amount >= 7
  /\ s = "hold_window" => ~ Below(claims[s].amount, 24)
  /\ s = "rollback_rehearsal" => ~ Above(claims[s].amount, 5)

Documented(s) ==
  /\ s \in DOMAIN claims
  /\ claims[s].done /\ claims[s].artifact
  /\ s = "parallel_run" => claims[s].amount >= 7
  /\ s = "hold_window" => ~ Below(claims[s].amount, 24)
  /\ s = "rollback_rehearsal" => ~ AtMost(claims[s].amount, 0) /\ ~ Above(claims[s].amount, 5)

Blockers == {f \in {"deploy", "templates"} : state[f] # "good"}
Risks    == {s \in Sections : ~ Documented(s)}

Readiness == IF Blockers # {} THEN "blocked" ELSE IF Risks # {} THEN "risky" ELSE "ready"

-----------------------------------------------------------------------------
(* run_timer_chain_check: the timers and then the services.                *)

CheckUnit ==
  /\ look = "units"
  /\ \E u \in Units \ DOMAIN units, found \in UnitState : units' = With(units, u, found)
  /\ look' = IF Cardinality(DOMAIN units) + 1 = Cardinality(Units) THEN "verdict" ELSE "units"
  /\ UNCHANGED <<tool, state, claims, counted, status>>

Issues ==
  {u \in DOMAIN units :
     ~ (units[u].listed /\ units[u].triggered /\ units[u].journal /\ units[u].success)}

-----------------------------------------------------------------------------
(* run_parallel_diff: each table is counted by a statement of its own, so  *)
(* that a refresh may fall between two of them.                            *)

CountTable ==
  /\ look = "tables"
  /\ \E t \in DiffTables \ DOMAIN counted, n \in RowCounts : counted' = With(counted, t, n)
  /\ look' = IF Cardinality(DOMAIN counted) + 1 = Cardinality(DiffTables) THEN "verdict" ELSE "tables"
  /\ UNCHANGED <<tool, state, claims, units, status>>

Delta(t) ==
  IF counted[t] >= RefCount[t] THEN counted[t] - RefCount[t] ELSE RefCount[t] - counted[t]

\* compare_counts: from nothing to something is a difference of 100 %.
WithinTolerance(t) ==
  IF RefCount[t] = 0
  THEN IF counted[t] = 0 THEN TRUE ELSE 100 <= Tolerance
  ELSE Delta(t) * 100 <= Tolerance * RefCount[t]

Violations == {t \in DOMAIN counted : ~ WithinTolerance(t)}

-----------------------------------------------------------------------------
(* A template or evidence file that cannot be decoded or parsed, a section *)
(* of the wrong type, a failed systemctl or statement: nobody catches it,  *)
(* and Python exits with 1.                                                *)
ToolRaises ==
  /\ look \in {"templates", "evidence", "units", "tables"} \union Sections
  /\ look' = "ended"
  /\ status' = {1}
  /\ UNCHANGED <<tool, state, claims, counted, units>>

ExitCode ==
  CASE tool = "readiness" -> [ready |-> 0, risky |-> 1, blocked |-> 2][Readiness]
    [] tool = "timers" -> IF Issues = {} THEN 0 ELSE 1
    [] tool = "diff" -> IF Violations = {} THEN 0 ELSE 1

ToolEnds ==
  /\ look = "verdict"
  /\ look' = "ended"
  /\ status' = {ExitCode}
  /\ UNCHANGED <<tool, state, claims, counted, units>>

CutoverNext ==
  \/ StartTool
  \/ CheckDeploy \/ CheckTemplates \/ ReadEvidence \/ CheckSection
  \/ CheckUnit
  \/ CountTable
  \/ ToolRaises
  \/ ToolEnds

CutoverSpec == CutoverInit /\ [][CutoverNext]_cutoverVars

-----------------------------------------------------------------------------
\* The go-ahead can be trusted: an exit code of zero means that everything was
\* looked at and nothing was missing, also at the bounds (seven days, 24 hours,
\* a rehearsal that took some time and at most five minutes, a table that is
\* empty in the reference), and that nothing raised on the way; a two, that a
\* file the service needs is missing or wrong.  Hours or minutes that are NaN in
\* the evidence file are taken for good.
GoAheadTruthful ==
  /\ 0 \in status => CASE
       tool = "readiness" ->
         /\ \A f \in Files : state[f] = "good"
         /\ \A s \in Sections : claims[s].done /\ claims[s].artifact
         /\ claims["parallel_run"].amount >= 7
         /\ claims["hold_window"].amount # NotANumber => claims["hold_window"].amount >= 24
         /\ claims["rollback_rehearsal"].amount \in (1 .. 5) \union {NotANumber}
     [] tool = "timers" ->
         \A u \in Units : units[u] = [listed |-> TRUE, triggered |-> TRUE,
                                      journal |-> TRUE, success |-> TRUE]
     [] tool = "diff" ->
         \A t \in DiffTables : /\ RefCount[t] = 0 <=> counted[t] = 0
                               /\ 100 * counted[t] <= (100 + Tolerance) * RefCount[t]
                               /\ 100 * counted[t] >= (100 - Tolerance) * RefCount[t]
  /\ 2 \in status => \E f \in {"deploy", "templates"} : state[f] \in {"missing", "wrong"}
=============================================================================
