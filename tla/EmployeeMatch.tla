---------------------------- MODULE EmployeeMatch ----------------------------
(***************************************************************************)
(* normalize/employee_map.py: resolve_employee finds the employee a name   *)
(* in a sheet stands for.  Every normalize run is a new process, which     *)
(* goes through the set of canonical names in an order of its own, for the *)
(* hashes of strings differ from process to process.                       *)
(***************************************************************************)
EXTENDS Integers, FiniteSets

CONSTANTS Names,     \* names after canonicalize_employee_name
          AliasMap,  \* the alias file: a function from some names to names
          KeyOf,     \* _key_for_match of each name: without punctuation
          Score,     \* the similarity of two keys, in tenths of a percent
          Threshold, \* fuzzy_threshold, in percent
          Processes  \* the normalize runs

ASSUME MatchAssumption ==
  /\ IsFiniteSet(Names) /\ DOMAIN AliasMap \subseteq Names
  /\ \A n \in DOMAIN AliasMap : AliasMap[n] \in Names
  /\ DOMAIN KeyOf = Names
  /\ \A m, n \in Names : Score[KeyOf[m]][KeyOf[n]] \in Nat
  /\ Threshold \in 0 .. 100

VARIABLES order,   \* the order of the canonical names in each process, if it runs
          resolved \* the employee each process found for a name, and how

matchVars == <<order, resolved>>

Canonical == {AliasMap[n] : n \in DOMAIN AliasMap}

Orders == {f \in [Canonical -> 1 .. Cardinality(Canonical)] :
             \A m, n \in Canonical : f[m] = f[n] => m = n}

Resolution == [process : Processes, name : Names, employee : Names,
               method : {"exact", "alias", "fuzzy", "fallback"}]

MatchTypeOK ==
  /\ \A p \in Processes : order[p] \subseteq Orders /\ Cardinality(order[p]) <= 1
  /\ resolved \subseteq Resolution

MatchInit ==
  /\ order = [p \in Processes |-> {}]
  /\ resolved = {}

-----------------------------------------------------------------------------
(* A process starts and loads the alias file. *)
LoadAliases(p) ==
  /\ order[p] = {}
  /\ \E f \in Orders : order' = [order EXCEPT ![p] = {f}]
  /\ UNCHANGED resolved

(* target_by_key: of the names with one key the last in the order remains, at the *)
(* place of the first.                                                            *)
Target(f, k) ==
  CHOOSE v \in Canonical :
    KeyOf[v] = k /\ \A w \in Canonical : KeyOf[w] = k => f[w] <= f[v]

Comes(f, k, l) ==
  \E v \in Canonical : KeyOf[v] = k /\ \A w \in Canonical : KeyOf[w] = l => f[v] <= f[w]

(* The key with the highest score, the first of them if they are equal. *)
IsBest(f, name, k) ==
  \A l \in {KeyOf[v] : v \in Canonical} :
    \/ Score[KeyOf[name]][k] > Score[KeyOf[name]][l]
    \/ Score[KeyOf[name]][k] = Score[KeyOf[name]][l] /\ Comes(f, k, l)

(* round() of a score: to the nearest percent, a half to the even one. *)
Rounded(s) == IF s % 10 = 5 THEN 2 * ((s + 10) \div 20) ELSE (s + 5) \div 10

Found(p, name, employee, method) ==
  /\ resolved' = resolved \union
       {[process |-> p, name |-> name, employee |-> employee, method |-> method]}
  /\ UNCHANGED order

Exact(p, name) ==
  /\ name \in Canonical
  /\ Found(p, name, name, "exact")

Alias(p, name) ==
  /\ name \in DOMAIN AliasMap \ Canonical
  /\ Found(p, name, AliasMap[name], "alias")

Unknown(name) == name \notin Canonical \union DOMAIN AliasMap

(* Mutant: the first name that is near enough is taken. *)
FuzzyFirst(p, name) ==
  /\ Unknown(name)
  /\ \E k \in {KeyOf[v] : v \in Canonical}, f \in order[p] :
       /\ Rounded(Score[KeyOf[name]][k]) >= Threshold
       /\ Found(p, name, Target(f, k), "fuzzy")

Fuzzy(p, name) ==
  /\ Unknown(name)
  /\ \E k \in {KeyOf[v] : v \in Canonical}, f \in order[p] :
       /\ IsBest(f, name, k)
       /\ Rounded(Score[KeyOf[name]][k]) >= Threshold
       /\ Found(p, name, Target(f, k), "fuzzy")

(* Otherwise the name is an employee of its own. *)
Fallback(p, name) ==
  /\ Unknown(name)
  /\ \A k \in {KeyOf[v] : v \in Canonical}, f \in order[p] :
       IsBest(f, name, k) => Rounded(Score[KeyOf[name]][k]) < Threshold
  /\ Found(p, name, name, "fallback")

Resolve(p, name) ==
  /\ order[p] # {}
  /\ Exact(p, name) \/ Alias(p, name) \/ Fuzzy(p, name) \/ Fallback(p, name)

MatchNext ==
  \E p \in Processes :
    \/ LoadAliases(p)
    \/ \E name \in Names : Resolve(p, name)

MatchSpec == MatchInit /\ [][MatchNext]_matchVars

-----------------------------------------------------------------------------
(* Two canonical names a name is equally near to: as similar, or with one key. *)
Tied(name, v, w) == v # w /\ Score[KeyOf[name]][KeyOf[v]] = Score[KeyOf[name]][KeyOf[w]]

(* The tasks of a name stay with their employee ("deterministic matching"):       *)
(* every run resolves a name to the same employee, in whatever order it goes      *)
(* through the names.  The code keeps this only up to ties: between two employees *)
(* a name is equally near to, each run decides anew.                              *)
EmployeesStable ==
  \A r, s \in resolved :
    r.name = s.name =>
      \/ r.employee = s.employee
      \/ r.method = "fuzzy" /\ s.method = "fuzzy" /\ Tied(r.name, r.employee, s.employee)
=============================================================================
