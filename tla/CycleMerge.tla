----------------------------- MODULE CycleMerge -----------------------------
(***************************************************************************)
(* assess/aggregation.py: aggregate_operational_cycles merges the micro    *)
(* tasks of a date into operational cycles, one pass over the tasks in     *)
(* sheet order.  One step is one turn of the loop.  Durations and scores   *)
(* are sums and averages over the members of a cycle and are left out.     *)
(***************************************************************************)
EXTENDS Integers, Sequences

CONSTANTS MaxTasks,   \* the most tasks of a date
          Workers,    \* the employees, numbers
          Categories, \* the categories, "uncategorized" among them
          Texts,      \* the canonical texts
          Similar     \* the pairs of texts whose similarity_ratio is at least 0.70

ASSUME CycleAssumption ==
  /\ MaxTasks \in Nat
  /\ Workers \subseteq Nat
  /\ Similar \subseteq Texts \X Texts

VARIABLES merging, \* "idle", "merging" or "done"
          tasks,   \* the tasks, sorted
          next,    \* the task of the next turn
          current, \* the cycle being built: none or one
          cycles   \* the finished cycles

cycleVars == <<merging, tasks, next, current, cycles>>

(* A task; its place stands for spreadsheet, sheet, row, column and line, which *)
(* are unique together.                                                         *)
Task == [worker : Workers, place : 1 .. MaxTasks, category : Categories,
         text : Texts, micro : BOOLEAN]

(* The order of sorted(): by employee, then by place in the sheet. *)
Before(s, t) == s.worker < t.worker \/ (s.worker = t.worker /\ s.place < t.place)

IsSorted(q) ==
  \A i, j \in DOMAIN q : i < j => Before(q[i], q[j]) /\ q[i].place # q[j].place

SortedTasks ==
  {q \in UNION {[1 .. n -> Task] : n \in 0 .. MaxTasks} : IsSorted(q)}

(* A cycle: the task it takes text, category and anchor from, and all its tasks. *)
Cycle == [first : 1 .. MaxTasks, members : SUBSET (1 .. MaxTasks)]

CycleTypeOK ==
  /\ merging \in {"idle", "merging", "done"}
  /\ tasks \in Seq(Task) /\ Len(tasks) <= MaxTasks /\ IsSorted(tasks)
  /\ next \in 1 .. MaxTasks + 1
  /\ \A cycle \in current \union cycles : cycle \in Cycle

CycleInit ==
  /\ merging = "idle"
  /\ tasks = <<>>
  /\ next = 1
  /\ current = {}
  /\ cycles = {}

-----------------------------------------------------------------------------
(* aggregate_operational_cycles is called; without tasks it returns at once. *)
Aggregate ==
  /\ merging = "idle"
  /\ tasks' \in SortedTasks
  /\ merging' = IF tasks' = <<>> THEN "done" ELSE "merging"
  /\ UNCHANGED <<next, current, cycles>>

(* A micro task joins the cycle being built if employee and category agree and  *)
(* its text is similar to the text of the cycle's first task.                   *)
CanMerge(cycle, i) ==
  /\ tasks[cycle.first].worker = tasks[i].worker
  /\ tasks[cycle.first].category = tasks[i].category
  /\ <<tasks[cycle.first].text, tasks[i].text>> \in Similar

NewCycle(i) == [first |-> i, members |-> {i}]

Turn ==
  /\ merging = "merging"
  /\ next \in DOMAIN tasks
  /\ next' = next + 1
  /\ UNCHANGED <<merging, tasks>>

(* Mutant: the text is compared with the previous task's. *)
MergeMicroPrevious ==
  /\ Turn
  /\ tasks[next].micro
  /\ \E cycle \in current :
       /\ CanMerge([first |-> next - 1], next)
       /\ current' = {[cycle EXCEPT !.members = @ \union {next}]}
  /\ UNCHANGED cycles

MergeMicro ==
  /\ Turn
  /\ tasks[next].micro
  /\ \E cycle \in current :
       /\ CanMerge(cycle, next)
       /\ current' = {[cycle EXCEPT !.members = @ \union {next}]}
  /\ UNCHANGED cycles

OpenMicro ==
  /\ Turn
  /\ tasks[next].micro
  /\ ~ \E cycle \in current : CanMerge(cycle, next)
  /\ cycles' = cycles \union current
  /\ current' = {NewCycle(next)}

(* A task that is not micro ends the cycle being built and is one by itself. *)
Singleton ==
  /\ Turn
  /\ ~tasks[next].micro
  /\ cycles' = cycles \union current \union {NewCycle(next)}
  /\ current' = {}

Flush ==
  /\ merging = "merging"
  /\ next \notin DOMAIN tasks
  /\ merging' = "done"
  /\ cycles' = cycles \union current
  /\ current' = {}
  /\ UNCHANGED <<tasks, next>>

CycleNext ==
  \/ Aggregate
  \/ MergeMicro
  \/ OpenMicro
  \/ Singleton
  \/ Flush

CycleSpec == CycleInit /\ [][CycleNext]_cycleVars

-----------------------------------------------------------------------------
(* build_cycle_key: what the cycle's row is stored under. *)
CycleKey(cycle) ==
  LET t == tasks[cycle.first]
  IN <<t.worker, t.category, t.text, t.place>>

(* Every task counts once: each is a member of exactly one cycle.  One lost   *)
(* in a flush would take its minutes with it.                                 *)
EveryTaskCounted ==
  merging = "done" =>
    \A i \in DOMAIN tasks :
      \E c \in cycles : i \in c.members /\ \A d \in cycles : i \in d.members => d = c

(* The rows are stored by key, an upsert: two cycles never share one, so no   *)
(* cycle overwrites another of the same run.                                  *)
KeysTellApart ==
  \A c, d \in cycles \union current : CycleKey(c) = CycleKey(d) => c = d

(* Whether task i begins a cycle, given the set of tasks that do: unless it is *)
(* micro and so is the last that did, with whose text it can merge.            *)
Begins(i, firsts) ==
  ~ \E f \in firsts :
      /\ f < i
      /\ \A g \in firsts : g < i => g <= f
      /\ tasks[i].micro /\ tasks[f].micro
      /\ CanMerge([first |-> f], i)

(* The result is the one the rule defines, whatever the loop's state was on   *)
(* the way: the first tasks are those that begin a cycle, a cycle goes on up  *)
(* to the next one, and no two are stored under one key.                      *)
MergedAsDefined ==
  merging = "done" =>
    LET firsts == {c.first : c \in cycles}
    IN /\ \A i \in DOMAIN tasks : i \in firsts <=> Begins(i, firsts)
       /\ \A c \in cycles :
            c.members = {i \in DOMAIN tasks :
                           c.first <= i /\ \A f \in firsts : ~(c.first < f /\ f <= i)}
       /\ \A c, d \in cycles : CycleKey(c) = CycleKey(d) => c = d
=============================================================================
