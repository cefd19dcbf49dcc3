----------------------------- MODULE HealthCheck -----------------------------
(***************************************************************************)
(* ops/healthcheck.py: run_healthcheck makes one check after the other and *)
(* its script turns the worst of them into an exit code, which systemd and *)
(* the operators read.  What a check looks at is reduced to what it may    *)
(* find; the database can fail before any of its queries.                  *)
(***************************************************************************)
EXTENDS Integers, FiniteSets

VARIABLES step,     \* the next check, or "verdict", or "ended"
          found,    \* what each check has found so far
          exitCode  \* of the script: none or one number

healthVars == <<step, found, exitCode>>

(* The checks, each with the one after it. *)
After ==
  [reachable |-> "pool", pool |-> "raw", raw |-> "normalized", normalized |-> "audits",
   audits |-> "volume", volume |-> "errorRate", errorRate |-> "failedLastHour",
   failedLastHour |-> "confirmed", confirmed |-> "api", api |-> "units", units |-> "verdict"]

Checks == DOMAIN After

(* The checks made in one database connection, if there is one. *)
DataChecks == Checks \ {"reachable", "pool", "units"}

(* "absent": there is nothing to judge, the check does not apply. *)
Findings == {"good", "absent", "poor", "broken"}

HealthTypeOK ==
  /\ step \in Checks \union {"verdict", "ended"}
  /\ found \in [Checks -> Findings \union {"unchecked"}]
  /\ exitCode \subseteq 0 .. 2 /\ Cardinality(exitCode) <= 1

HealthInit ==
  /\ step = "reachable"
  /\ found = [c \in Checks |-> "unchecked"]
  /\ exitCode = {}

-----------------------------------------------------------------------------
(* What each check may find: data that is old, missing or unconfirmed is poor; *)
(* a database, an API or a unit that fails, or a failed audit, is broken.      *)
MayFind ==
  [c \in Checks |->
     CASE c = "reachable" -> {"good", "broken"}
       [] c = "pool" -> {"good", "broken"}
       [] c = "failedLastHour" -> {"good", "broken"}
       [] c = "api" -> {"good", "absent", "broken"}
       [] c = "units" -> {"good", "poor", "broken"}
       [] OTHER -> {"good", "absent", "poor"}]

Find(c, f) == found' = [found EXCEPT ![c] = f]

(* init_db and SELECT 1: an exception is a finding. *)
CheckReachable ==
  /\ step = "reachable"
  /\ \E f \in MayFind["reachable"] : Find("reachable", f)
  /\ step' = After["reachable"]
  /\ UNCHANGED exitCode

(* get_pool: what opened a connection is there; without one, init_db may have   *)
(* failed or the server may be away.  The data checks need both.                *)
CheckPool ==
  /\ step = "pool"
  /\ \E f \in MayFind["pool"] :
       /\ found["reachable"] = "good" => f = "good"
       /\ Find("pool", f)
       /\ step' = IF found["reachable"] = "good" /\ f = "good" THEN After["pool"] ELSE "units"
  /\ UNCHANGED exitCode

CheckData ==
  /\ step \in DataChecks
  /\ \E f \in MayFind[step] : Find(step, f)
  /\ step' = After[step]
  /\ UNCHANGED exitCode

(* Nobody catches what a query raises, or the API probe when the server hangs up: *)
(* Python's exit code is 1.                                                       *)
Interrupted ==
  /\ step \in DataChecks
  /\ step' = "ended"
  /\ exitCode' = {1}
  /\ UNCHANGED found

CheckUnits ==
  /\ step = "units"
  /\ \E f \in MayFind["units"] : Find("units", f)
  /\ step' = After["units"]
  /\ UNCHANGED exitCode

(* The CheckResult of a finding: its severity, which for the pool and the database *)
(* does not depend on the status, and its status.                                  *)
Result(c) ==
  [severity |-> IF c \in {"reachable", "pool"} \/ found[c] = "broken" THEN "infra_critical"
                ELSE IF found[c] = "poor" THEN "data_warning" ELSE "info",
   status |-> CASE found[c] = "broken" -> "critical"
                [] found[c] = "poor" -> "warning"
                [] found[c] = "absent" -> "not_applicable"
                [] OTHER -> "ok"]

(* The results of the checks that were made. *)
Results == {Result(c) : c \in {d \in Checks : found[d] # "unchecked"}}

(* Mutant: the warnings are looked for first. *)
AggregateWarningsFirst ==
  IF \E r \in Results : r.severity = "data_warning" /\ r.status \in {"warning", "critical"}
  THEN "data_warning"
  ELSE IF \E r \in Results : r.severity = "infra_critical" /\ r.status = "critical"
       THEN "infra_critical" ELSE "info"

Critical(r) == r.severity = "infra_critical" /\ r.status = "critical"

Warning(r) ==
  \/ r.severity = "data_warning" /\ r.status \in {"warning", "critical", "unknown"}
  \/ r.severity = "infra_critical" /\ r.status = "warning"

AggregateSeverity ==
  IF \E r \in Results : Critical(r) THEN "infra_critical"
  ELSE IF \E r \in Results : Warning(r) THEN "data_warning" ELSE "info"

ExitCodeOf == [info |-> 0, data_warning |-> 1, infra_critical |-> 2]

Conclude ==
  /\ step = "verdict"
  /\ step' = "ended"
  /\ exitCode' = {ExitCodeOf[AggregateSeverity]}
  /\ UNCHANGED found

HealthNext ==
  \/ CheckReachable
  \/ CheckPool
  \/ CheckData
  \/ Interrupted
  \/ CheckUnits
  \/ Conclude

HealthSpec == HealthInit /\ [][HealthNext]_healthVars

-----------------------------------------------------------------------------
(* The exit code can be trusted (README: 0 info, 1 data_warning, 2             *)
(* infra_critical).  Zero: every check was made and nothing is wrong, so a     *)
(* check that was skipped or interrupted never passes.  Two: something is      *)
(* broken.  Whatever is found broken gives two, unless the run is interrupted: *)
(* then a broken database is reported as a warning, the one gap of the mapping.*)
ExitCodeTruthful ==
  /\ 0 \in exitCode => \A c \in Checks : found[c] \in {"good", "absent"}
  /\ 2 \in exitCode => \E c \in Checks : found[c] = "broken"
  /\ step = "ended" /\ found["units"] # "unchecked" /\ (\E c \in Checks : found[c] = "broken")
       => 2 \in exitCode
=============================================================================
