------------------------------ MODULE TaskNorms ------------------------------
(***************************************************************************)
(* assess/bayesian_norms.py: run_assess_bayesian_norms keeps a norm in     *)
(* minutes for each category of tasks, a weighted mean of a prior and of   *)
(* the durations in a window of days.  The table has one row per category, *)
(* whatever date it was computed for, while tasks change from day to day.  *)
(***************************************************************************)
EXTENDS Integers, FiniteSets, FiniteSetsExt

CONSTANTS TaskIds,     \* the tasks
          LastDay,     \* the days are 1 to LastDay
          WindowDays,  \* window_days
          Priors,      \* BASELINE_PRIORS_MINUTES: a function of some categories
          Others,      \* the categories without a prior
          Durations,   \* what a task may take, in minutes
          PriorWeight, \* DEFAULT_PRIOR_WEIGHT
          MaxCents,    \* the most that NUMERIC(7, 2) holds, in hundredths
          MaxUpdates   \* how often tasks change

ASSUME NormsAssumption ==
  /\ LastDay \in Nat /\ WindowDays \in Nat \ {0} /\ PriorWeight \in Nat \ {0}
  /\ \A c \in DOMAIN Priors : Priors[c] \in Nat
  /\ IsFiniteSet(TaskIds) /\ Others \intersect DOMAIN Priors = {}
  /\ Durations \subseteq Nat
  /\ MaxCents \in Nat /\ MaxUpdates \in Nat

VARIABLES task,    \* tasks_normalized: the rows with a duration, each none or one
          updates, \* how often they changed
          norm,    \* dynamic_task_norms: the row of each category, none or one
          basis    \* history: the durations in the window each row was computed for

normsVars == <<task, updates, norm, basis>>

NormCategories == DOMAIN Priors \union Others

DEFAULT_BASELINE_PRIOR == 30

Prior(c) == IF c \in DOMAIN Priors THEN Priors[c] ELSE DEFAULT_BASELINE_PRIOR

TaskRow == [day : 1 .. LastDay, category : NormCategories, minutes : Durations]

NormsTypeOK ==
  /\ \A t \in TaskIds : task[t] \subseteq TaskRow /\ Cardinality(task[t]) <= 1
  /\ updates \in 0 .. MaxUpdates
  /\ \A c \in NormCategories :
       /\ norm[c] \subseteq [cents : 0 .. MaxCents, size : 0 .. Cardinality(TaskIds)]
       /\ Cardinality(norm[c]) <= 1
       /\ basis[c] \subseteq Durations

NormsInit ==
  /\ task = [t \in TaskIds |-> {}]
  /\ updates = 0
  /\ norm = [c \in NormCategories |-> {}]
  /\ basis = [c \in NormCategories |-> {}]

-----------------------------------------------------------------------------
(* Normalize adds, changes or removes a task; one without a duration does not count. *)
UpdateTask(t) ==
  /\ updates < MaxUpdates
  /\ updates' = updates + 1
  /\ \E row \in {{}} \union {{r} : r \in TaskRow} : task' = [task EXCEPT ![t] = row]
  /\ UNCHANGED <<norm, basis>>

(* Mutant: the window begins a day early. *)
InWindowWide(day, anchor) == anchor - WindowDays <= day /\ day <= anchor

(* resolve_window_bounds: the days up to the anchor, both ends included. *)
InWindow(day, anchor) == anchor - (WindowDays - 1) <= day /\ day <= anchor

(* fetch_window_category_stats *)
Samples(c, anchor) ==
  {t \in TaskIds : \E row \in task[t] : row.category = c /\ InWindow(row.day, anchor)}

Minutes(t) == CHOOSE m \in Durations : \E row \in task[t] : row.minutes = m

Total(samples) == MapThenSumSet(Minutes, samples)

(* compute_bayesian_norm, rounded half up to hundredths. *)
BayesianCents(c, samples) ==
  LET numerator == PriorWeight * Prior(c) + Total(samples)
      denominator == PriorWeight + Cardinality(samples)
  IN (200 * numerator + denominator) \div (2 * denominator)

(* The categories that get a row: those with a prior, and those observed. *)
Computed(anchor) == DOMAIN Priors \union {c \in Others : Samples(c, anchor) # {}}

(* One transaction, for the current date or any other; a norm too large for its *)
(* column ends it without effect.                                               *)
UpdateNorms(anchor) ==
  /\ \A c \in Computed(anchor) : BayesianCents(c, Samples(c, anchor)) <= MaxCents
  /\ norm' = [c \in NormCategories |->
       IF c \in Computed(anchor)
       THEN {[cents |-> BayesianCents(c, Samples(c, anchor)),
              size |-> Cardinality(Samples(c, anchor))]}
       ELSE norm[c]]
  /\ basis' = [c \in NormCategories |->
       IF c \in Computed(anchor)
       THEN {m \in Durations : \E t \in TaskIds : \E row \in task[t] :
               row.minutes = m /\ row.category = c /\ row.day \in anchor - WindowDays + 1 .. anchor}
       ELSE basis[c]]
  /\ UNCHANGED <<task, updates>>

NormsNext ==
  \/ \E t \in TaskIds : UpdateTask(t)
  \/ \E anchor \in 1 .. LastDay : UpdateNorms(anchor)

NormsSpec == NormsInit /\ [][NormsNext]_normsVars

-----------------------------------------------------------------------------
(* A norm lies between the extremes of the prior and of the durations in the   *)
(* window of its run, and is the prior when there are none: no task outside    *)
(* the window, no rounding and no weight takes it further.  A category without *)
(* a prior that leaves the window keeps the row it had.                        *)
NormsBetweenExtremes ==
  \A c \in NormCategories :
    \A row \in norm[c] :
      /\ \E m \in basis[c] \union {Prior(c)} : 100 * m <= row.cents
      /\ \E m \in basis[c] \union {Prior(c)} : row.cents <= 100 * m
      /\ row.size = 0 <=> basis[c] = {}
      /\ c \in Others => row.size > 0
=============================================================================
