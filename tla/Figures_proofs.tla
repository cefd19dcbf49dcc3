--------------------------- MODULE Figures_proofs ---------------------------
(***************************************************************************)
(* The figures of a day: for any costs, durations, priors, tasks and       *)
(* orders of runs, a daily total is that of one moment, a norm lies        *)
(* between the extremes of what it is made of, and confirming a task never *)
(* costs, unless one assess run writes over what a newer one has written.  *)
(* Sums over sets are reasoned about by a smallest counterexample.         *)
(***************************************************************************)
EXTENDS AuditCost, TaskNorms, TaskConfirm, TLAPS, FiniteSetTheorems

-----------------------------------------------------------------------------
(* Least elements and sums.                                                *)

\* A set of numbers has a least one.
LEMMA LeastNat ==
  ASSUME NEW T \in SUBSET Nat, T # {}
  PROVE  \E n \in T : \A m \in T : n <= m
<1>1. PICK n \in T : \A m \in T : <<m, n>> \notin OpToRel(<, Nat)
  BY NatLessThanWellFounded, WFMin
<1>2. \A m \in T : ~ (m < n)
  BY <1>1 DEF OpToRel
<1> QED
  BY <1>2

\* One turn of a sum over a set, which takes an element out of it.
SumStep(f, g, s) == IF s = {} THEN 0 ELSE f[CHOOSE x \in s : TRUE] + g[s \ {CHOOSE x \in s : TRUE}]

\* g sums f up over every subset of S.
IsSum(f, g, S) == g = [s \in SUBSET S |-> SumStep(f, g, s)]

\* There is such a sum, over a finite set: a smallest size without one is impossible.
LEMMA FoldExists ==
  ASSUME NEW S, IsFiniteSet(S), NEW f
  PROVE  \E g : IsSum(f, g, S)
<1> DEFINE Small(n) == {s \in SUBSET S : Cardinality(s) < n}
           Bad == {n \in Nat : ~ \E g : g = [s \in Small(n) |-> SumStep(f, g, s)]}
<1>1. Bad = {}
  <2> SUFFICES ASSUME Bad # {} PROVE FALSE
    OBVIOUS
  <2>1. PICK n \in Bad : \A m \in Bad : n <= m
    <3>1. Bad \in SUBSET Nat
      OBVIOUS
    <3> HIDE DEF Bad
    <3> QED
      BY <3>1, LeastNat
  <2>2. n # 0
    <3>1. Small(0) = {}
      BY FS_Subset, FS_CardinalityType
    <3> DEFINE g0 == [s \in {} |-> 0]
    <3>2. g0 = [s \in Small(0) |-> SumStep(f, g0, s)]
      BY <3>1, Zenon
    <3> QED
      BY <3>2, Zenon
  <2>3. PICK g : g = [s \in Small(n - 1) |-> SumStep(f, g, s)]
    <3>0. n \in Nat
      OBVIOUS
    <3>1. n - 1 \in Nat /\ n - 1 \notin Bad
      <4> HIDE DEF Bad
      <4> QED
        BY <2>1, <2>2, <3>0
    <3> QED
      BY <3>1
  <2> DEFINE h == [s \in Small(n) |-> SumStep(f, g, s)]
  <2>4. ASSUME NEW s \in Small(n)
        PROVE  SumStep(f, h, s) = SumStep(f, g, s)
    <3>1. CASE s = {}
      BY <3>1 DEF SumStep
    <3>2. CASE s # {}
      <4> DEFINE x == CHOOSE y \in s : TRUE
      <4>1. x \in s
        BY <3>2
      <4>2. s \ {x} \in Small(n - 1) /\ s \ {x} \in Small(n)
        <5>1. IsFiniteSet(s) /\ Cardinality(s) \in Nat
          BY FS_Subset, FS_CardinalityType
        <5>2. Cardinality(s \ {x}) = Cardinality(s) - 1
          BY <4>1, <5>1, FS_RemoveElement
        <5> HIDE DEF x
        <5> QED
          BY <5>1, <5>2
      <4>3. g[s \ {x}] = SumStep(f, g, s \ {x})
        BY <2>3, <4>2, Zenon
      <4>4. h[s \ {x}] = SumStep(f, g, s \ {x})
        BY <4>2, Zenon
      <4>5. g[s \ {x}] = h[s \ {x}]
        BY <4>3, <4>4
      <4> HIDE DEF h
      <4> QED
        BY <4>3, <4>4, Zenon DEF SumStep
    <3> QED
      BY <3>1, <3>2
  <2>5. h = [s \in Small(n) |-> SumStep(f, h, s)]
    BY <2>4, Zenon
  <2> QED
    BY <2>5, <2>1, Zenon
<1>2. Cardinality(S) + 1 \in Nat
  BY FS_CardinalityType
<1>3. PICK g : g = [s \in Small(Cardinality(S) + 1) |-> SumStep(f, g, s)]
  BY <1>1, <1>2, Zenon
<1>4. Small(Cardinality(S) + 1) = SUBSET S
  BY FS_Subset, FS_CardinalityType
<1> QED
  BY <1>3, <1>4, Zenon DEF IsSum

\* Among subsets of a finite set, some one has no smaller one among them.
LEMMA SmallestSubset ==
  ASSUME NEW S, IsFiniteSet(S), NEW Bad \in SUBSET SUBSET S, Bad # {}
  PROVE  \E U \in Bad : \A V \in SUBSET U : V # U => V \notin Bad
<1>1. IsWellFoundedOn(StrictSubsetOrdering(S), SUBSET S)
  BY FS_StrictSubsetOrderingWellFounded, FS_FiniteSubsetsOfFinite
<1>2. PICK U \in Bad : \A V \in Bad : <<V, U>> \notin StrictSubsetOrdering(S)
  BY <1>1, WFMin
<1> QED
  BY <1>2 DEF StrictSubsetOrdering

\* A sum is at least its number of terms times a lower bound of them.
LEMMA SumAtLeast ==
  ASSUME NEW S, IsFiniteSet(S), NEW f, NEW g, IsSum(f, g, S), NEW lo \in Int,
         \A x \in S : f[x] \in Int /\ lo <= f[x]
  PROVE  \A U \in SUBSET S : g[U] \in Int /\ lo * Cardinality(U) <= g[U]
<1> DEFINE Good(U) == g[U] \in Int /\ lo * Cardinality(U) <= g[U]
           Bad == {U \in SUBSET S : ~ Good(U)}
<1>1. SUFFICES ASSUME Bad # {} PROVE FALSE
  OBVIOUS
<1>2. PICK U \in Bad : \A V \in SUBSET U : V # U => V \notin Bad
  <2>1. Bad \in SUBSET SUBSET S
    OBVIOUS
  <2> HIDE DEF Bad
  <2> QED
    BY <1>1, <2>1, SmallestSubset
<1>3. g[U] = SumStep(f, g, U)
  BY Zenon DEF IsSum
<1>4. CASE U = {}
  BY <1>3, <1>4, FS_EmptySet DEF SumStep
<1>5. CASE U # {}
  <2> DEFINE x == CHOOSE y \in U : TRUE
  <2>1. x \in U /\ x \in S
    BY <1>5
  <2>2. g[U] = f[x] + g[U \ {x}]
    BY <1>3, <1>5, Zenon DEF SumStep
  <2>3. U \ {x} \in SUBSET S /\ U \ {x} \notin Bad
    BY <1>2, <2>1, Zenon
  <2>4. Good(U \ {x})
    BY <2>3, Zenon
  <2>5. Cardinality(U) \in Nat /\ Cardinality(U \ {x}) = Cardinality(U) - 1
    BY <2>1, FS_Subset, FS_RemoveElement, FS_CardinalityType
  <2>6. f[x] \in Int /\ lo <= f[x]
    BY <2>1, Zenon
  <2> HIDE DEF x
  <2>7. lo * Cardinality(U) = lo * (Cardinality(U) - 1) + lo
    BY <2>5
  <2>8. lo * (Cardinality(U) - 1) \in Int
    BY <2>5
  <2> QED
    BY <2>2, <2>4, <2>5, <2>6, <2>7, <2>8
<1> QED
  BY <1>4, <1>5

\* A sum is at most its number of terms times an upper bound of them.
LEMMA SumAtMost ==
  ASSUME NEW S, IsFiniteSet(S), NEW f, NEW g, IsSum(f, g, S), NEW hi \in Int,
         \A x \in S : f[x] \in Nat /\ f[x] <= hi
  PROVE  \A U \in SUBSET S : g[U] <= hi * Cardinality(U)
<1> DEFINE Bad == {U \in SUBSET S : ~ (g[U] <= hi * Cardinality(U))}
<1>1. SUFFICES ASSUME Bad # {} PROVE FALSE
  OBVIOUS
<1>2. PICK U \in Bad : \A V \in SUBSET U : V # U => V \notin Bad
  <2>1. Bad \in SUBSET SUBSET S
    OBVIOUS
  <2> HIDE DEF Bad
  <2> QED
    BY <1>1, <2>1, SmallestSubset
<1>3. g[U] = SumStep(f, g, U)
  BY Zenon DEF IsSum
<1>4. CASE U = {}
  BY <1>3, <1>4, FS_EmptySet DEF SumStep
<1>5. CASE U # {}
  <2> DEFINE x == CHOOSE y \in U : TRUE
  <2>1. x \in U /\ x \in S
    BY <1>5
  <2>2. g[U] = f[x] + g[U \ {x}]
    BY <1>3, <1>5, Zenon DEF SumStep
  <2>3. U \ {x} \in SUBSET S /\ U \ {x} \notin Bad
    BY <1>2, <2>1, Zenon
  <2>4. g[U \ {x}] <= hi * Cardinality(U \ {x})
    BY <2>3, Zenon
  <2>5. Cardinality(U) \in Nat /\ Cardinality(U \ {x}) = Cardinality(U) - 1
    BY <2>1, FS_Subset, FS_RemoveElement, FS_CardinalityType
  <2>6. f[x] \in Nat /\ f[x] <= hi
    BY <2>1, Zenon
  <2>9. g[U \ {x}] \in Int
    BY <2>3, SumAtLeast
  <2> HIDE DEF x
  <2>7. hi * Cardinality(U) = hi * (Cardinality(U) - 1) + hi
    BY <2>5
  <2>8. hi * (Cardinality(U) - 1) \in Int
    BY <2>5
  <2> QED
    BY <2>2, <2>4, <2>5, <2>6, <2>7, <2>8, <2>9
<1> QED
  BY <1>4, <1>5

\* The library's sum of a function over a set.
SumOver(f, S) == MapThenSumSet(LAMBDA x : f[x], S)

\* The library's fold is a sum in this sense.
LEMMA SumOverIsSum ==
  ASSUME NEW S, IsFiniteSet(S), NEW f
  PROVE  \E g : IsSum(f, g, S) /\ SumOver(f, S) = g[S]
<1> DEFINE iter == CHOOSE g : g = [s \in SUBSET S |->
                     IF s = {} THEN 0 ELSE f[CHOOSE x \in s : TRUE] + g[s \ {CHOOSE x \in s : TRUE}]]
<1>1. SumOver(f, S) = iter[S]
  BY Zenon DEF SumOver, MapThenSumSet, MapThenFoldSet
<1>2. \E g : g = [s \in SUBSET S |->
                     IF s = {} THEN 0 ELSE f[CHOOSE x \in s : TRUE] + g[s \ {CHOOSE x \in s : TRUE}]]
  <2>1. \E g : IsSum(f, g, S)
    BY FoldExists
  <2> QED
    BY <2>1, Zenon DEF IsSum, SumStep
<1>3. iter = [s \in SUBSET S |->
                     IF s = {} THEN 0 ELSE f[CHOOSE x \in s : TRUE] + iter[s \ {CHOOSE x \in s : TRUE}]]
  BY <1>2, Zenon
<1> QED
  BY <1>1, <1>3, Zenon DEF IsSum, SumStep

-----------------------------------------------------------------------------
(* AuditCost: the daily rollup.                                            *)

\* What a reader may see of a run: an open run has a day, a readable one a
\* report that was published for its day.
EntryOK(r) ==
  /\ entry[r] \in [phase : {"none", "open", "expired", "published", "reused", "abandoned"},
                   key : LiveDays \union {NoDay}, report : CostReports \union {NoUsageReport}]
  /\ entry[r].phase # "none" => entry[r].key \in LiveDays
  /\ entry[r].phase \in {"published", "reused"} =>
       /\ entry[r].report \in CostReports
       /\ [key |-> entry[r].key, report |-> entry[r].report] \in published

\* The ledger, as a reader finds it.
LedgerOK ==
  /\ entry = [r \in CostRuns |-> entry[r]]
  /\ published \subseteq [key : LiveDays, report : CostReports]
  /\ \A r \in CostRuns : EntryOK(r)

\* What the SELECT of day d returns of a table, as Readable does of the present one.
ReadableIn(table, d) ==
  [r \in CostRuns |-> IF table[r].phase \in {"published", "reused"} /\ table[r].key = d
                      THEN table[r].report ELSE NoUsageReport]

\* A run a rollup of day d has counted: it was published, for that day.
Counted(table, r, d) ==
  table[r].phase \in {"published", "reused", "abandoned"} /\ table[r].key = d

\* What a SELECT of day d returned, as long as the runs in since are left aside.
Snapshot(table, public, seen, since, d) ==
  /\ \A r \in CostRuns \ since : seen[r] = ReadableIn(table, d)[r]
  /\ \A r \in CostRuns : seen[r] # NoUsageReport =>
       /\ [key |-> d, report |-> seen[r]] \in public
       /\ Counted(table, r, d)

\* A rollup under way holds a snapshot of its day, and one that no other
\* rollup overlapped misses no run of the stored total but those given up since.
RollupOK(w) ==
  rollup[w].stage = "read" =>
    /\ rollup[w].day \in LiveDays
    /\ Snapshot(entry, published, rollup[w].seen, rollup[w].since, rollup[w].day)
    /\ ~ rollup[w].overlapped =>
         \A r \in CostRuns :
           /\ origin[rollup[w].day].seen[r] # NoUsageReport
           /\ rollup[w].seen[r] = NoUsageReport
           => entry[r].phase = "abandoned"

\* A stored total was computed of a snapshot of its day.
OriginOK(d) ==
  IF total[d] = NoUsage THEN origin[d].seen = Nothing /\ ~ origin[d].spike
  ELSE /\ Snapshot(entry, published, origin[d].seen, origin[d].since, d)
       /\ total[d] = TotalOf(origin[d].seen)
       /\ origin[d].spike => total[d] > 0

\* The inductive invariant: the property speaks of the stored totals, but they
\* come of what the rollups hold, and these of what the ledger showed.
CostInv ==
  /\ CostTypeOK
  /\ LedgerOK
  /\ \A w \in Rollups : RollupOK(w)
  /\ \A d \in LiveDays : OriginOK(d)

-----------------------------------------------------------------------------
\* One turn of the sum of a day's costs.
CostStep(seen, g, s) ==
  IF s = {} THEN 0 ELSE CostOf(seen[CHOOSE x \in s : TRUE]) + g[s \ {CHOOSE x \in s : TRUE}]

\* The cost of a day is a natural number, whatever its reports say.
LEMMA TotalIsNat ==
  ASSUME NEW seen \in [CostRuns -> CostReports \union {NoUsageReport}]
  PROVE  TotalOf(seen) \in Nat
<1> DEFINE f == [r \in CostRuns |-> CostOf(seen[r])]
           iter == CHOOSE g : g = [s \in SUBSET CostRuns |-> CostStep(seen, g, s)]
<1>1. TotalOf(seen) = iter[CostRuns]
  BY Zenon DEF TotalOf, MapThenSumSet, MapThenFoldSet, CostStep
<1>2. \A r \in CostRuns : f[r] \in Int /\ 0 <= f[r]
  BY AuditCostAssumption DEF CostOf
<1>3. ASSUME NEW g, NEW s \in SUBSET CostRuns
      PROVE  SumStep(f, g, s) = CostStep(seen, g, s)
  <2>1. s # {} => f[CHOOSE x \in s : TRUE] = CostOf(seen[CHOOSE x \in s : TRUE])
    <3> HAVE s # {}
    <3>1. (CHOOSE x \in s : TRUE) \in CostRuns
      OBVIOUS
    <3> QED
      BY <3>1, Zenon
  <2> HIDE DEF f
  <2> QED
    BY <2>1, Zenon DEF SumStep, CostStep
<1> HIDE DEF f
<1>4. \E g : g = [s \in SUBSET CostRuns |-> CostStep(seen, g, s)]
  <2>1. PICK g : IsSum(f, g, CostRuns)
    BY FoldExists, AuditCostAssumption
  <2>2. g = [s \in SUBSET CostRuns |-> CostStep(seen, g, s)]
    BY <1>3, <2>1 DEF IsSum
  <2> QED
    BY <2>2, Zenon
<1>5. iter = [s \in SUBSET CostRuns |-> CostStep(seen, iter, s)]
  BY <1>4, Zenon
<1> HIDE DEF iter
<1>6. IsSum(f, iter, CostRuns)
  BY <1>3, <1>5 DEF IsSum
<1>7. iter[CostRuns] \in Int /\ 0 * Cardinality(CostRuns) <= iter[CostRuns]
  BY <1>2, <1>6, SumAtLeast, AuditCostAssumption
<1> QED
  BY <1>1, <1>7, FS_CardinalityType, AuditCostAssumption

\* The sum of the totals of the days before is a number.
LEMMA SumOfDays ==
  ASSUME CostTypeOK, NEW d \in LiveDays
  PROVE  /\ SumOver(total, History(d)) \in Nat
         /\ Cardinality(History(d)) \in Nat
<1>1. IsFiniteSet(History(d)) /\ Cardinality(History(d)) \in Nat
  <2>1. History(d) \in SUBSET (1 .. d - 1) /\ d - 1 \in Int
    BY AuditCostAssumption DEF History
  <2>2. IsFiniteSet(1 .. d - 1)
    BY <2>1, FS_Interval
  <2>3. IsFiniteSet(History(d))
    BY <2>1, <2>2, FS_Subset
  <2> QED
    BY <2>3, FS_CardinalityType
<1>2. \A e \in History(d) : total[e] \in Int /\ 0 <= total[e]
  <2>1. TAKE e \in History(d)
  <2>2. e \in 1 .. CostDays /\ total[e] # NoUsage
    BY AuditCostAssumption DEF History
  <2> QED
    BY <2>2 DEF CostTypeOK
<1>3. PICK g : IsSum(total, g, History(d)) /\ SumOver(total, History(d)) = g[History(d)]
  BY <1>1, SumOverIsSum
<1>4. g[History(d)] \in Int /\ 0 * Cardinality(History(d)) <= g[History(d)]
  BY <1>1, <1>2, <1>3, SumAtLeast
<1> QED
  BY <1>1, <1>3, <1>4

\* An alert needs a cost.
LEMMA SpikeNeedsCost ==
  ASSUME CostTypeOK, NEW d \in LiveDays, NEW cost \in Nat, CostSpike(cost, History(d))
  PROVE  cost > 0
<1> DEFINE sum == SumOver(total, History(d))
           n == Cardinality(History(d))
<1>1. sum \in Nat /\ n \in Nat
  BY SumOfDays
<1>2. IF sum <= 0 THEN cost > 0 ELSE 2 * cost * n >= 3 * sum
  BY Zenon DEF CostSpike, SumOver
<1> HIDE DEF sum, n
<1>3. cost = 0 => 2 * cost * n = 0
  BY <1>1
<1> QED
  BY <1>1, <1>2, <1>3

-----------------------------------------------------------------------------
\* At first there is nothing to hold a snapshot of.
LEMMA CostInvInit == CostInit => CostInv
<1> SUFFICES ASSUME CostInit PROVE CostInv
  OBVIOUS
<1> USE AuditCostAssumption DEF CostInit, Ledger!Init, Ledger!NoEntry
<1>1. CostTypeOK
  <2>1. total \in [1 .. CostDays -> Nat \union {NoUsage}]
    OBVIOUS
  <2> QED
    BY <2>1 DEF CostTypeOK, IdleRollup, Nothing
<1>2. LedgerOK
  BY DEF LedgerOK, EntryOK
<1>3. \A w \in Rollups : RollupOK(w)
  BY DEF RollupOK, IdleRollup
<1>4. \A d \in LiveDays : OriginOK(d)
  BY DEF OriginOK
<1> QED
  BY <1>1, <1>2, <1>3, <1>4 DEF CostInv

\* What a SELECT returns is typed, and a snapshot that nothing has changed yet.
LEMMA ReadableIsSnapshot ==
  ASSUME LedgerOK, NEW d \in LiveDays
  PROVE  /\ Readable(d) \in [CostRuns -> CostReports \union {NoUsageReport}]
         /\ Snapshot(entry, published, Readable(d), {}, d)
BY DEF LedgerOK, EntryOK, Readable, ReadableIn, Snapshot, Counted

\* Records with some fields replaced, as records.
LEMMA NewRollup ==
  ASSUME NEW A, NEW B, NEW C, NEW D, NEW E,
         NEW x \in [stage : A, day : B, seen : C, since : D, overlapped : E],
         NEW stage \in A, NEW day \in B, NEW seen \in C,
         NEW y, y = [x EXCEPT !.stage = stage, !.day = day, !.seen = seen]
  PROVE  y = [stage |-> stage, day |-> day, seen |-> seen, since |-> x.since,
              overlapped |-> x.overlapped]
OBVIOUS

\* ... and of the ledger.
LEMMA NewEntry ==
  ASSUME NEW P, NEW K, NEW R, NEW x \in [phase : P, key : K, report : R],
         NEW phase \in P, NEW report \in R,
         NEW y, y = [x EXCEPT !.phase = phase, !.report = report]
  PROVE  y = [phase |-> phase, key |-> x.key, report |-> report]
OBVIOUS

\* A SELECT returns a snapshot, and nothing has changed since.
LEMMA ReadUsageKeeps ==
  ASSUME CostInv, NEW w \in Rollups, NEW d \in LiveDays, ReadUsage(w, d)
  PROVE  CostInv'
<1> DEFINE run == [IdleRollup EXCEPT !.stage = "read", !.day = d, !.seen = Readable(d)]
<1>1. /\ UNCHANGED <<entry, published, total, origin>>
      /\ rollup' = [rollup EXCEPT ![w] = run]
  BY DEF ReadUsage
<1>2. /\ Readable(d) \in [CostRuns -> CostReports \union {NoUsageReport}]
      /\ Snapshot(entry, published, Readable(d), {}, d)
  BY ReadableIsSnapshot DEF CostInv
<1>3. /\ run = [stage |-> "read", day |-> d, seen |-> Readable(d), since |-> {}, overlapped |-> FALSE]
      /\ \A v \in Rollups : rollup'[v] = IF v = w THEN run ELSE rollup[v]
  <2>1. run = [stage |-> "read", day |-> d, seen |-> Readable(d), since |-> {}, overlapped |-> FALSE]
    <3>1. IdleRollup \in [stage : {"idle", "read"}, day : LiveDays \union {NoDay},
                          seen : [CostRuns -> CostReports \union {NoUsageReport}],
                          since : SUBSET CostRuns, overlapped : BOOLEAN]
      BY DEF IdleRollup, Nothing
    <3>2. IdleRollup.since = {} /\ IdleRollup.overlapped = FALSE
      BY DEF IdleRollup
    <3>3. /\ "read" \in {"idle", "read"} /\ d \in LiveDays \union {NoDay}
          /\ Readable(d) \in [CostRuns -> CostReports \union {NoUsageReport}]
      BY <1>2
    <3>4. run = [IdleRollup EXCEPT !.stage = "read", !.day = d, !.seen = Readable(d)]
      OBVIOUS
    <3> HIDE DEF run
    <3> QED
      BY ONLY <3>1, <3>2, <3>3, <3>4, NewRollup
  <2> HIDE DEF run
  <2> QED
    BY <1>1, <2>1 DEF CostInv, CostTypeOK
<1> HIDE DEF run
<1>4. CostTypeOK'
  BY <1>1, <1>2, <1>3 DEF CostInv, CostTypeOK
<1>5. LedgerOK' /\ \A e \in LiveDays : OriginOK(e)'
  BY <1>1 DEF CostInv, LedgerOK, EntryOK, OriginOK, Snapshot, Counted
<1>6. ASSUME NEW v \in Rollups PROVE RollupOK(v)'
  <2>1. CASE v # w
    BY <1>1, <1>3, <2>1 DEF CostInv, RollupOK, Snapshot, Counted
  <2>2. CASE v = w
    <3>2. ASSUME NEW r \in CostRuns, origin[d].seen[r] # NoUsageReport, Readable(d)[r] = NoUsageReport
          PROVE  entry[r].phase = "abandoned"
      <4>1. EntryOK(r) /\ OriginOK(d)
        BY DEF CostInv, LedgerOK
      <4>2. Counted(entry, r, d)
        BY <3>2, <4>1 DEF OriginOK, Snapshot, Nothing
      <4> QED
        BY <3>2, <4>1, <4>2, AuditCostAssumption DEF Counted, EntryOK, Readable
    <3> QED
      BY <1>1, <1>2, <1>3, <2>2, <3>2 DEF RollupOK
  <2> QED
    BY <2>1, <2>2
<1> QED
  BY <1>4, <1>5, <1>6 DEF CostInv

\* The UPSERT stores the total of a snapshot, and the others are overlapped.
LEMMA StoreTotalKeeps ==
  ASSUME CostInv, NEW w \in Rollups, StoreTotal(w)
  PROVE  CostInv'
<1> DEFINE d    == rollup[w].day
           cost == TotalOf(rollup[w].seen)
           new  == [seen |-> rollup[w].seen, since |-> rollup[w].since,
                    spike |-> CostSpike(cost, History(d))]
<1>1. /\ rollup[w].stage = "read"
      /\ UNCHANGED <<entry, published>>
      /\ total' = [total EXCEPT ![d] = cost]
      /\ origin' = [origin EXCEPT ![d] = new]
      /\ rollup' = [v \in Rollups |->
                      IF v = w THEN IdleRollup
                      ELSE IF rollup[v].day = d THEN [rollup[v] EXCEPT !.overlapped = TRUE]
                      ELSE rollup[v]]
  BY DEF StoreTotal
<1>2. /\ d \in LiveDays /\ d \in 1 .. CostDays
      /\ rollup[w].seen \in [CostRuns -> CostReports \union {NoUsageReport}]
      /\ rollup[w].since \in SUBSET CostRuns
      /\ Snapshot(entry, published, rollup[w].seen, rollup[w].since, d)
  BY <1>1, AuditCostAssumption DEF CostInv, CostTypeOK, RollupOK
<1>3. cost \in Nat
  BY <1>2, TotalIsNat
<1>4. new.spike => cost > 0
  BY <1>2, <1>3, SpikeNeedsCost DEF CostInv
<1>5. CostSpike(cost, History(d)) \in BOOLEAN
  BY DEF CostSpike
<1> HIDE DEF cost
<1>6. CostTypeOK'
  <2>1. total' \in [1 .. CostDays -> Nat \union {NoUsage}]
    BY <1>1, <1>2, <1>3 DEF CostInv, CostTypeOK
  <2>2. origin' \in [LiveDays -> [seen : [CostRuns -> CostReports \union {NoUsageReport}],
                                  since : SUBSET CostRuns, spike : BOOLEAN]]
    BY <1>1, <1>2, <1>5 DEF CostInv, CostTypeOK
  <2>3. rollup' \in [Rollups ->
                   [stage : {"idle", "read"}, day : LiveDays \union {NoDay},
                    seen : [CostRuns -> CostReports \union {NoUsageReport}],
                    since : SUBSET CostRuns, overlapped : BOOLEAN]]
    BY <1>1 DEF CostInv, CostTypeOK, IdleRollup, Nothing
  <2> QED
    BY <2>1, <2>2, <2>3 DEF CostTypeOK
<1>7. LedgerOK'
  BY <1>1 DEF CostInv, LedgerOK, EntryOK
<1>8. ASSUME NEW v \in Rollups PROVE RollupOK(v)'
  <2>1. CASE v = w
    BY <1>1, <2>1 DEF RollupOK, IdleRollup
  <2>2. CASE v # w /\ rollup[v].day = d
    BY <1>1, <2>2 DEF CostInv, CostTypeOK, RollupOK, Snapshot, Counted
  <2>3. CASE v # w /\ rollup[v].day # d
    <3>1. rollup'[v] = rollup[v] /\ (rollup[v].day \in LiveDays => origin'[rollup[v].day] = origin[rollup[v].day])
      BY <1>1, <2>3 DEF CostInv, CostTypeOK
    <3> QED
      BY <1>1, <3>1 DEF CostInv, RollupOK, Snapshot, Counted
  <2> QED
    BY <2>1, <2>2, <2>3
<1>9. ASSUME NEW e \in LiveDays PROVE OriginOK(e)'
  <2>1. CASE e = d
    <3>1. total'[e] = cost /\ origin'[e] = new /\ cost # NoUsage
      BY <1>1, <1>2, <1>3, <2>1, AuditCostAssumption DEF CostInv, CostTypeOK
    <3>2. cost = TotalOf(rollup[w].seen)
      BY DEF cost
    <3>3. Snapshot(entry', published', rollup[w].seen, rollup[w].since, d)
      BY <1>1, <1>2 DEF Snapshot, Counted
    <3> QED
      BY <1>1, <1>4, <2>1, <3>1, <3>2, <3>3 DEF OriginOK
  <2>2. CASE e # d
    <3>1. total'[e] = total[e] /\ origin'[e] = origin[e]
      BY <1>1, <2>2, AuditCostAssumption DEF CostInv, CostTypeOK
    <3> QED
      BY <1>1, <3>1 DEF CostInv, OriginOK, Snapshot, Counted
  <2> QED
    BY <2>1, <2>2
<1> QED
  BY <1>6, <1>7, <1>8, <1>9 DEF CostInv

\* A rollup that fails leaves the totals.
LEMMA RollupFailsKeeps ==
  ASSUME CostInv, NEW w \in Rollups, RollupFails(w)
  PROVE  CostInv'
<1>1. /\ UNCHANGED <<entry, published, total, origin>>
      /\ rollup' = [rollup EXCEPT ![w] = IdleRollup]
  BY DEF RollupFails
<1>2. CostTypeOK'
  BY <1>1 DEF CostInv, CostTypeOK, IdleRollup, Nothing
<1>3. LedgerOK' /\ \A e \in LiveDays : OriginOK(e)'
  BY <1>1 DEF CostInv, LedgerOK, EntryOK, OriginOK, Snapshot, Counted
<1>4. ASSUME NEW v \in Rollups PROVE RollupOK(v)'
  BY <1>1 DEF CostInv, CostTypeOK, RollupOK, Snapshot, Counted, IdleRollup
<1> QED
  BY <1>2, <1>3, <1>4 DEF CostInv

-----------------------------------------------------------------------------
\* What a step of the audits may do to a run: a report stays public, and a run
\* that was published stays published, is published anew or is given up.
LedgerMove ==
  /\ published \subseteq published'
  /\ \A r \in CostRuns, d \in LiveDays : Counted(entry, r, d) => Counted(entry', r, d)
  /\ \A r \in CostRuns : entry[r].phase = "abandoned" => entry'[r].phase = "abandoned"

\* The steps of the audits are such moves.
LEMMA LedgerKeeps ==
  ASSUME LedgerOK, Ledger!Next
  PROVE  LedgerOK' /\ LedgerMove
<1> USE DEF LedgerOK, EntryOK, LedgerMove, Counted
<1>1. ASSUME NEW r \in CostRuns, NEW k \in LiveDays, Ledger!Open(r, k)
      PROVE  LedgerOK' /\ LedgerMove
  BY <1>1, AuditCostAssumption DEF Ledger!Open
<1>2. ASSUME NEW r \in CostRuns, NEW rep \in CostReports, Ledger!Publish(r, rep)
      PROVE  LedgerOK' /\ LedgerMove
  <2>1. PICK new : /\ new = [entry[r] EXCEPT !.phase = "published", !.report = rep]
                   /\ new = [phase |-> "published", key |-> entry[r].key, report |-> rep]
    <3>1. /\ entry[r] \in [phase : {"none", "open", "expired", "published", "reused", "abandoned"},
                           key : LiveDays \union {NoDay}, report : CostReports \union {NoUsageReport}]
          /\ "published" \in {"none", "open", "expired", "published", "reused", "abandoned"}
          /\ rep \in CostReports \union {NoUsageReport}
      OBVIOUS
    <3> DEFINE new == [entry[r] EXCEPT !.phase = "published", !.report = rep]
    <3>2. new = [entry[r] EXCEPT !.phase = "published", !.report = rep]
      OBVIOUS
    <3> HIDE DEF new
    <3>3. new = [phase |-> "published", key |-> entry[r].key, report |-> rep]
      BY ONLY <3>1, <3>2, NewEntry
    <3> QED
      BY ONLY <3>2, <3>3
  <2>2. \A q \in CostRuns :
          entry'[q] = IF q = r THEN [phase |-> "published", key |-> entry[r].key, report |-> rep]
                      ELSE entry[q]
    BY <1>2, <2>1 DEF Ledger!Publish
  <2>3. entry' = [q \in CostRuns |-> entry'[q]]
    BY <1>2 DEF Ledger!Publish
  <2>4. /\ entry[r].phase \in {"open", "expired", "published"}
        /\ published' = published \union {[key |-> entry[r].key, report |-> rep]}
    BY <1>2 DEF Ledger!Publish
  <2>5. entry[r].key \in LiveDays
    BY <2>4
  <2>6. LedgerMove
    BY <2>2, <2>4
  <2>7. \A q \in CostRuns : EntryOK(q)'
    BY <2>2, <2>4, <2>5
  <2> QED
    BY <2>3, <2>4, <2>5, <2>6, <2>7
<1>3. ASSUME NEW r \in CostRuns, NEW p \in published, Ledger!Reuse(r, p)
      PROVE  LedgerOK' /\ LedgerMove
  BY <1>3, AuditCostAssumption DEF Ledger!Reuse
<1>4. ASSUME NEW r \in CostRuns, Ledger!Abandon(r)
      PROVE  LedgerOK' /\ LedgerMove
  BY <1>4, AuditCostAssumption DEF Ledger!Abandon
<1>5. ASSUME NEW S \in SUBSET CostRuns, Ledger!Expire(S)
      PROVE  LedgerOK' /\ LedgerMove
  BY <1>5, AuditCostAssumption DEF Ledger!Expire
<1> QED
  BY <1>1, <1>2, <1>3, <1>4, <1>5 DEF Ledger!Next

\* A snapshot stays one, if the runs that change are put aside.
LEMMA SnapshotKept ==
  ASSUME LedgerMove, NEW seen, NEW since, NEW d \in LiveDays,
         Snapshot(entry, published, seen, since, d)
  PROVE  Snapshot(entry', published', seen,
                  since \union {r \in CostRuns : entry'[r] # entry[r]}, d)
BY DEF LedgerMove, Snapshot, ReadableIn

\* The audits go on: whoever changed is put aside.
LEMMA AuditsGoOnKeeps ==
  ASSUME CostInv, AuditsGoOn
  PROVE  CostInv'
<1> DEFINE changed == {r \in CostRuns : entry'[r] # entry[r]}
<1>1. /\ total' = total
      /\ rollup' = [w \in Rollups |-> IF rollup[w].stage = "idle" THEN rollup[w]
                                      ELSE [rollup[w] EXCEPT !.since = @ \union changed]]
      /\ origin' = [d \in LiveDays |-> [origin[d] EXCEPT !.since = @ \union changed]]
  BY DEF AuditsGoOn
<1>2. LedgerOK' /\ LedgerMove
  BY LedgerKeeps DEF CostInv, AuditsGoOn
<1>3. changed \in SUBSET CostRuns
  OBVIOUS
<1>4. CostTypeOK'
  <2> HIDE DEF changed
  <2>1. total' \in [1 .. CostDays -> Nat \union {NoUsage}]
    BY <1>1 DEF CostInv, CostTypeOK
  <2>2. origin' \in [LiveDays -> [seen : [CostRuns -> CostReports \union {NoUsageReport}],
                                  since : SUBSET CostRuns, spike : BOOLEAN]]
    BY <1>1, <1>3 DEF CostInv, CostTypeOK
  <2>3. rollup' \in [Rollups ->
                   [stage : {"idle", "read"}, day : LiveDays \union {NoDay},
                    seen : [CostRuns -> CostReports \union {NoUsageReport}],
                    since : SUBSET CostRuns, overlapped : BOOLEAN]]
    BY <1>1, <1>3 DEF CostInv, CostTypeOK
  <2> QED
    BY <2>1, <2>2, <2>3 DEF CostTypeOK
<1>5. ASSUME NEW d \in LiveDays PROVE OriginOK(d)'
  <2>1. /\ origin'[d].seen = origin[d].seen /\ origin'[d].spike = origin[d].spike
        /\ origin'[d].since = origin[d].since \union changed
    BY <1>1 DEF CostInv, CostTypeOK
  <2>2. total[d] # NoUsage => Snapshot(entry', published', origin[d].seen, origin[d].since \union changed, d)
    BY <1>2, SnapshotKept DEF CostInv, OriginOK
  <2> HIDE DEF changed
  <2> QED
    BY <1>1, <2>1, <2>2 DEF CostInv, OriginOK
<1>6. ASSUME NEW w \in Rollups PROVE RollupOK(w)'
  <2>1. CASE rollup[w].stage = "idle"
    BY <1>1, <2>1 DEF RollupOK
  <2>2. CASE rollup[w].stage = "read"
    <3>1. /\ rollup[w].day \in LiveDays
          /\ Snapshot(entry, published, rollup[w].seen, rollup[w].since, rollup[w].day)
      BY <2>2 DEF CostInv, RollupOK
    <3>2. rollup'[w] = [rollup[w] EXCEPT !.since = @ \union changed]
      BY <1>1, <2>2
    <3>3. /\ rollup'[w].seen = rollup[w].seen /\ rollup'[w].day = rollup[w].day
          /\ rollup'[w].overlapped = rollup[w].overlapped
          /\ rollup'[w].since = rollup[w].since \union changed
      BY <3>2 DEF CostInv, CostTypeOK
    <3>4. Snapshot(entry', published', rollup[w].seen, rollup[w].since \union changed, rollup[w].day)
      BY <1>2, <3>1, SnapshotKept
    <3>5. origin'[rollup[w].day].seen = origin[rollup[w].day].seen
      BY <1>1, <3>1 DEF CostInv, CostTypeOK
    <3> HIDE DEF changed
    <3> QED
      BY <1>2, <2>2, <3>1, <3>3, <3>4, <3>5
         DEF CostInv, RollupOK, LedgerMove, Snapshot, Counted
  <2> QED
    BY <2>1, <2>2 DEF CostInv, CostTypeOK
<1> QED
  BY <1>2, <1>4, <1>5, <1>6 DEF CostInv

\* Every step of rollups and audits preserves the invariant.
LEMMA CostInvNext == CostInv /\ [CostNext]_costVars => CostInv'
<1> SUFFICES ASSUME CostInv, [CostNext]_costVars PROVE CostInv'
  OBVIOUS
<1>1. CASE UNCHANGED costVars
  BY <1>1 DEF costVars, CostInv, CostTypeOK, LedgerOK, EntryOK, RollupOK, OriginOK, Snapshot,
              Counted, Readable
<1>2. CASE CostNext
  BY <1>2, AuditsGoOnKeeps, ReadUsageKeeps, StoreTotalKeeps, RollupFailsKeeps DEF CostNext
<1> QED
  BY <1>1, <1>2

\* For any audits, days and rollups: what a rollup holds and what is stored are
\* the costs of the day at one moment, but for the runs that changed since.
THEOREM CostInvariant == CostSpec => []CostInv
BY CostInvInit, CostInvNext, PTL DEF CostSpec

\* TotalsOfOneMoment: a daily total is that of one moment, holds published
\* reports only, and an alert has a cost.
THEOREM TotalsAreOfOneMoment == CostSpec => []TotalsOfOneMoment
<1>1. CostInv => TotalsOfOneMoment
  BY DEF CostInv, OriginOK, Snapshot, TotalsOfOneMoment, Nothing, Readable, ReadableIn
<1> QED
  BY <1>1, CostInvariant, PTL

\* The step RunsStayCounted is about.
LEMMA StoreKeepsCounted ==
  ASSUME CostInv, [CostNext]_costVars, NEW w \in Rollups,
         rollup[w].stage = "read", rollup'[w].stage = "idle", ~ rollup[w].overlapped,
         NEW d \in LiveDays, NEW r \in CostRuns,
         origin[d].seen[r] # NoUsageReport, origin'[d].seen[r] = NoUsageReport
  PROVE  entry[r].phase = "abandoned"
<1>1. CASE UNCHANGED costVars
  BY <1>1 DEF costVars
<1>2. CASE AuditsGoOn
  BY <1>2 DEF AuditsGoOn, CostInv, CostTypeOK
<1>3. ASSUME NEW v \in Rollups, NEW e \in LiveDays, ReadUsage(v, e) PROVE FALSE
  BY <1>3 DEF ReadUsage
<1>4. ASSUME NEW v \in Rollups, RollupFails(v) PROVE FALSE
  BY <1>4 DEF RollupFails
<1>5. ASSUME NEW v \in Rollups, StoreTotal(v)
      PROVE  entry[r].phase = "abandoned"
  <2>1. v = w
    BY <1>5 DEF StoreTotal, CostInv, CostTypeOK
  <2>2. d = rollup[w].day
    BY <1>5, <2>1 DEF StoreTotal, CostInv, CostTypeOK
  <2>3. origin'[d].seen = rollup[w].seen
    BY <1>5, <2>1, <2>2 DEF StoreTotal, CostInv, CostTypeOK
  <2> QED
    BY <2>2, <2>3 DEF CostInv, RollupOK
<1> QED
  BY <1>1, <1>2, <1>3, <1>4, <1>5 DEF CostNext

\* RunsStayCounted: a rollup alone drops no run but one that was given up.
THEOREM CountedRunsStay == CostSpec => RunsStayCounted
<1>1. CostInv /\ [CostNext]_costVars => [CountedStay]_costVars
  BY StoreKeepsCounted DEF CountedStay
<1> QED
  BY <1>1, CostInvariant, PTL DEF CostSpec, RunsStayCounted

-----------------------------------------------------------------------------
(* TaskNorms: the baselines.                                               *)

\* The inductive invariant: at most one row for a task, and what is stored
\* between the extremes of what the tasks have taken.
NormsInv ==
  /\ NormsTypeOK
  /\ task \in [TaskIds -> SUBSET TaskRow]
  /\ \A t \in TaskIds : \A r, s \in task[t] : r = s
  /\ NormsBetweenExtremes

-----------------------------------------------------------------------------
\* A finite set of numbers has a greatest one.
LEMMA GreatestNat ==
  ASSUME NEW T \in SUBSET Nat, IsFiniteSet(T), T # {}
  PROVE  \E n \in T : \A m \in T : m <= n
<1> DEFINE Greatest(U) == \E n \in U : \A m \in U : m <= n
           Bad == {U \in SUBSET T : U # {} /\ ~ Greatest(U)}
<1>1. SUFFICES ASSUME Bad # {} PROVE FALSE
  OBVIOUS
<1>2. PICK U \in Bad : \A V \in SUBSET U : V # U => V \notin Bad
  <2>1. Bad \in SUBSET SUBSET T
    OBVIOUS
  <2> HIDE DEF Bad
  <2> QED
    BY <1>1, <2>1, SmallestSubset
<1>3. PICK n \in U : n \in Nat
  OBVIOUS
<1>4. CASE U = {n}
  <2>1. Greatest(U)
    BY <1>3, <1>4
  <2> QED
    BY <2>1
<1>5. CASE U # {n}
  <2>1. U \ {n} \in SUBSET U /\ U \ {n} # U /\ U \ {n} # {} /\ U \in SUBSET T
    BY <1>3, <1>5
  <2>2. Greatest(U \ {n})
    <3>1. U \ {n} \notin Bad
      BY <1>2, <2>1
    <3> QED
      BY <2>1, <3>1
  <2>3. PICK k \in U \ {n} : \A m \in U \ {n} : m <= k
    BY <2>2
  <2>4. k \in Nat /\ U \subseteq Nat
    BY <2>1
  <2>5. Greatest(U)
    <3>1. CASE k <= n
      BY <1>3, <2>3, <2>4, <3>1
    <3>2. CASE ~ (k <= n)
      BY <1>3, <2>3, <2>4, <3>2
    <3> QED
      BY <3>1, <3>2
  <2> QED
    BY <2>5
<1> QED
  BY <1>4, <1>5

\* A weighted mean of a prior and of n values whose total is s, rounded to hundredths.
LEMMA MeanBetween ==
  ASSUME NEW w \in Nat \ {0}, NEW n \in Nat, NEW p \in Nat, NEW s \in Int, NEW lo \in Nat, NEW hi \in Nat,
         lo <= p, p <= hi, lo * n <= s, s <= hi * n,
         NEW cents, cents = (200 * (w * p + s) + (w + n)) \div (2 * (w + n))
  PROVE  cents \in Nat /\ 100 * lo <= cents /\ cents <= 100 * hi
<1>1. PICK d \in Nat \ {0} : d = w + n
  OBVIOUS
<1>2. PICK wp \in Int : wp = w * p /\ lo * w <= wp /\ wp <= hi * w
  OBVIOUS
<1>3. PICK num \in Int : num = wp + s
  OBVIOUS
<1>4. lo * d <= num /\ num <= hi * d
  <2>1. lo * d = lo * w + lo * n /\ hi * d = hi * w + hi * n
    BY <1>1
  <2>2. PICK lw \in Int, ln \in Int : lw = lo * w /\ ln = lo * n
    OBVIOUS
  <2>3. PICK hw \in Int, hn \in Int : hw = hi * w /\ hn = hi * n
    OBVIOUS
  <2> QED
    BY <1>2, <1>3, <2>1, <2>2, <2>3
<1>5. PICK a \in Int : a = 200 * num + d
  BY <1>1, <1>3
<1>6. PICK b \in Nat \ {0} : b = 2 * d
  BY <1>1
<1>7. cents = a \div b
  BY <1>1, <1>2, <1>3, <1>5, <1>6
<1>8. cents \in Int /\ b * cents <= a /\ a < b * cents + b
  BY ONLY <1>5, <1>6, <1>7
<1>9. 100 * lo <= cents
  <2>1. SUFFICES ASSUME cents + 1 <= 100 * lo PROVE FALSE
    BY <1>8
  <2>2. b * (cents + 1) <= b * (100 * lo)
    BY <1>6, <1>8, <2>1
  <2>3. b * (100 * lo) = 200 * (lo * d) /\ b * (cents + 1) = b * cents + b
    BY <1>6, <1>8
  <2>4. PICK x \in Int : x = lo * d
    BY <1>1
  <2>5. PICK y \in Int : y = b * cents
    BY <1>8
  <2> QED
    BY <1>1, <1>4, <1>5, <1>8, <2>2, <2>3, <2>4, <2>5
<1>10. cents <= 100 * hi
  <2>1. SUFFICES ASSUME 100 * hi + 1 <= cents PROVE FALSE
    BY <1>8
  <2>2. b * (100 * hi + 1) <= b * cents
    BY <1>6, <1>8, <2>1
  <2>3. b * (100 * hi + 1) = 200 * (hi * d) + b
    BY <1>6
  <2>4. PICK x \in Int : x = hi * d
    BY <1>1
  <2>5. PICK y \in Int : y = b * cents
    BY <1>8
  <2> QED
    BY <1>1, <1>4, <1>5, <1>6, <1>8, <2>2, <2>3, <2>4, <2>5
<1> QED
  BY <1>8, <1>9, <1>10

-----------------------------------------------------------------------------
\* The minutes of some tasks, summed up.
LEMMA TotalIsSum ==
  ASSUME NEW S, IsFiniteSet(S)
  PROVE  \E g : IsSum([t \in S |-> Minutes(t)], g, S) /\ Total(S) = g[S]
<1> DEFINE f == [t \in S |-> Minutes(t)]
           iter == CHOOSE g : g = [s \in SUBSET S |->
                     IF s = {} THEN 0 ELSE Minutes(CHOOSE x \in s : TRUE) + g[s \ {CHOOSE x \in s : TRUE}]]
<1>1. Total(S) = iter[S]
  BY Zenon DEF Total, MapThenSumSet, MapThenFoldSet
<1>2. \A s \in SUBSET S : s # {} => f[CHOOSE x \in s : TRUE] = Minutes(CHOOSE x \in s : TRUE)
  <2> SUFFICES ASSUME NEW s \in SUBSET S, s # {}
               PROVE  f[CHOOSE x \in s : TRUE] = Minutes(CHOOSE x \in s : TRUE)
    OBVIOUS
  <2>1. (CHOOSE x \in s : TRUE) \in S
    <3>1. (CHOOSE x \in s : TRUE) \in s
      OBVIOUS
    <3> QED
      BY <3>1
  <2> QED
    BY <2>1, Zenon
<1> HIDE DEF f
<1>3. \A g : IsSum(f, g, S) <=> g = [s \in SUBSET S |->
                     IF s = {} THEN 0 ELSE Minutes(CHOOSE x \in s : TRUE) + g[s \ {CHOOSE x \in s : TRUE}]]
  <2> SUFFICES ASSUME NEW g
               PROVE  [s \in SUBSET S |-> SumStep(f, g, s)] =
                      [s \in SUBSET S |-> IF s = {} THEN 0 ELSE Minutes(CHOOSE x \in s : TRUE)
                                                                + g[s \ {CHOOSE x \in s : TRUE}]]
    BY Zenon DEF IsSum
  <2>1. \A s \in SUBSET S :
          SumStep(f, g, s) = IF s = {} THEN 0 ELSE Minutes(CHOOSE x \in s : TRUE)
                                                   + g[s \ {CHOOSE x \in s : TRUE}]
    <3> SUFFICES ASSUME NEW s \in SUBSET S
                 PROVE  SumStep(f, g, s) = IF s = {} THEN 0 ELSE Minutes(CHOOSE x \in s : TRUE)
                                                              + g[s \ {CHOOSE x \in s : TRUE}]
      OBVIOUS
    <3> DEFINE first == CHOOSE x \in s : TRUE
    <3>1. SumStep(f, g, s) = IF s = {} THEN 0 ELSE f[first] + g[s \ {first}]
      BY Zenon DEF SumStep
    <3>2. s # {} => f[first] = Minutes(first)
      BY <1>2, Zenon
    <3>3. SumStep(f, g, s) = IF s = {} THEN 0 ELSE Minutes(first) + g[s \ {first}]
      <4> HIDE DEF first
      <4> QED
        BY <3>1, <3>2
    <3> QED
      BY <3>3, Zenon
  <2> QED
    BY <2>1, Zenon
<1>4. \E g : IsSum(f, g, S)
  BY FoldExists
<1>5. IsSum(f, iter, S)
  BY <1>3, <1>4, Zenon
<1> QED
  BY <1>1, <1>5, Zenon DEF f

\* What the tasks in a window have taken.
Taken(c, anchor) ==
  {m \in Durations : \E t \in TaskIds : \E row \in task[t] :
     row.minutes = m /\ row.category = c /\ row.day \in anchor - WindowDays + 1 .. anchor}

\* The prior of a category is a number.
LEMMA PriorIsNat == \A c \in NormCategories : Prior(c) \in Nat
BY NormsAssumption DEF Prior, NormCategories, DEFAULT_BASELINE_PRIOR

\* The samples of a run are what tasks have taken in its window.
LEMMA SamplesAreTaken ==
  ASSUME NormsInv, NEW c, NEW anchor \in 1 .. LastDay
  PROVE  /\ \A t \in Samples(c, anchor) : Minutes(t) \in Taken(c, anchor)
         /\ Taken(c, anchor) = {Minutes(t) : t \in Samples(c, anchor)}
         /\ Taken(c, anchor) \subseteq Nat
<1>1. \A t \in TaskIds : \A row \in task[t] : /\ row.day \in Int /\ row.minutes \in Durations
                                              /\ Minutes(t) = row.minutes
  <2> SUFFICES ASSUME NEW t \in TaskIds, NEW row \in task[t]
               PROVE  row.day \in Int /\ row.minutes \in Durations /\ Minutes(t) = row.minutes
    OBVIOUS
  <2>1. row \in TaskRow
    BY DEF NormsInv, NormsTypeOK
  <2>2. row.day \in Int /\ row.minutes \in Durations
    BY <2>1 DEF TaskRow
  <2>3. \A other \in task[t] : other = row
    BY DEF NormsInv
  <2>4. \A m \in Durations : (\E other \in task[t] : other.minutes = m) <=> m = row.minutes
    BY <2>2, <2>3
  <2> QED
    BY <2>2, <2>4 DEF Minutes
<1>2. \A day \in Int : InWindow(day, anchor) <=> day \in anchor - WindowDays + 1 .. anchor
  BY NormsAssumption DEF InWindow
<1>3. \A t \in TaskIds : t \in Samples(c, anchor) <=>
        \E row \in task[t] : row.category = c /\ row.day \in anchor - WindowDays + 1 .. anchor
  BY <1>1, <1>2 DEF Samples
<1>4. \A t \in Samples(c, anchor) : t \in TaskIds
  BY DEF Samples
<1>5. \A t \in Samples(c, anchor) : Minutes(t) \in Taken(c, anchor)
  BY <1>1, <1>3, <1>4 DEF Taken
<1>6. \A m \in Taken(c, anchor) : \E t \in Samples(c, anchor) : m = Minutes(t)
  BY <1>1, <1>3 DEF Taken
<1>7. Taken(c, anchor) = {Minutes(t) : t \in Samples(c, anchor)}
  BY <1>5, <1>6
<1>8. Taken(c, anchor) \subseteq Nat
  BY NormsAssumption DEF Taken
<1> QED
  BY <1>5, <1>7, <1>8

\* What a run computes for a category.
LEMMA NormIsBetween ==
  ASSUME NormsInv, NEW c \in NormCategories, NEW anchor \in 1 .. LastDay
  PROVE  /\ BayesianCents(c, Samples(c, anchor)) \in Nat
         /\ \E m \in Taken(c, anchor) \union {Prior(c)} : 100 * m <= BayesianCents(c, Samples(c, anchor))
         /\ \E m \in Taken(c, anchor) \union {Prior(c)} : BayesianCents(c, Samples(c, anchor)) <= 100 * m
         /\ Cardinality(Samples(c, anchor)) \in 0 .. Cardinality(TaskIds)
         /\ Cardinality(Samples(c, anchor)) = 0 <=> Samples(c, anchor) = {}
         /\ Taken(c, anchor) = {} <=> Samples(c, anchor) = {}
<1> DEFINE S == Samples(c, anchor)
           T == Taken(c, anchor) \union {Prior(c)}
           f == [t \in S |-> Minutes(t)]
<1>1. IsFiniteSet(S) /\ IsFiniteSet(TaskIds) /\ Cardinality(S) \in Nat
      /\ Cardinality(S) <= Cardinality(TaskIds) /\ Cardinality(TaskIds) \in Nat
  <2>1. S \subseteq TaskIds /\ IsFiniteSet(TaskIds)
    BY NormsAssumption DEF Samples
  <2> QED
    BY <2>1, FS_Subset, FS_CardinalityType
<1>2. Cardinality(S) = 0 <=> S = {}
  BY <1>1, FS_EmptySet
<1>3. /\ \A t \in S : Minutes(t) \in T
      /\ Taken(c, anchor) = {Minutes(t) : t \in S}
      /\ T \subseteq Nat /\ T # {} /\ Prior(c) \in T /\ Prior(c) \in Nat
  BY SamplesAreTaken, PriorIsNat
<1>4. IsFiniteSet(T)
  <2>1. IsFiniteSet({Minutes(t) : t \in S})
    <3>1. {Minutes(t) : t \in S} = {f[t] : t \in S}
      OBVIOUS
    <3>2. f \in [S -> {f[t] : t \in S}]
      OBVIOUS
    <3>3. f \in Surjection(S, {f[t] : t \in S})
      BY <3>2 DEF Surjection
    <3> QED
      BY <1>1, <3>1, <3>3, FS_Surjection
  <2> QED
    BY <1>3, <2>1, FS_AddElement
<1>5. PICK lo \in T : \A m \in T : lo <= m
  BY <1>3, LeastNat
<1>6. PICK hi \in T : \A m \in T : m <= hi
  BY <1>3, <1>4, GreatestNat
<1>7. PICK g : IsSum(f, g, S) /\ Total(S) = g[S]
  BY <1>1, TotalIsSum
<1>8. lo \in Nat /\ hi \in Nat
  BY <1>3
<1>9. \A t \in S : f[t] \in Nat /\ lo <= f[t] /\ f[t] <= hi
  BY <1>3, <1>5, <1>6
<1> HIDE DEF f, S, T
<1>10. Total(S) \in Int /\ lo * Cardinality(S) <= Total(S)
  BY <1>1, <1>7, <1>8, <1>9, SumAtLeast
<1>11. Total(S) <= hi * Cardinality(S)
  BY <1>1, <1>7, <1>8, <1>9, SumAtMost
<1>12. PICK n \in Nat : n = Cardinality(S)
  BY <1>1
<1>13. PICK s \in Int : s = Total(S)
  BY <1>10
<1>14. PICK p \in Nat : p = Prior(c)
  BY <1>3
<1>15. PICK w \in Nat \ {0} : w = PriorWeight
  BY NormsAssumption
<1> DEFINE cents == (200 * (w * p + s) + (w + n)) \div (2 * (w + n))
<1>16. BayesianCents(c, S) = cents
  BY <1>12, <1>13, <1>14, <1>15, Zenon DEF BayesianCents
<1>17. lo <= p /\ p <= hi /\ lo * n <= s /\ s <= hi * n
  BY <1>3, <1>5, <1>6, <1>10, <1>11, <1>12, <1>13, <1>14
<1>18. cents \in Nat /\ 100 * lo <= cents /\ cents <= 100 * hi
  BY <1>8, <1>17, MeanBetween
<1> HIDE DEF cents
<1>19. Taken(c, anchor) = {} <=> S = {}
  BY <1>3
<1> QED
  BY <1>1, <1>2, <1>5, <1>6, <1>16, <1>18, <1>19 DEF S, T

-----------------------------------------------------------------------------
\* At first there are no norms.
LEMMA NormsInvInit == NormsInit => NormsInv
BY FS_EmptySet, NormsAssumption DEF NormsInit, NormsInv, NormsTypeOK, NormsBetweenExtremes

\* A task that changes only adds to what tasks have taken.
LEMMA UpdateTaskKeeps ==
  ASSUME NormsInv, NEW t \in TaskIds, UpdateTask(t)
  PROVE  NormsInv'
<1>1. PICK row \in {{}} \union {{r} : r \in TaskRow} : task' = [task EXCEPT ![t] = row]
  BY DEF UpdateTask
<1>2. row \subseteq TaskRow /\ Cardinality(row) <= 1 /\ \A r, s \in row : r = s
  <2>1. row = {} \/ \E r \in TaskRow : row = {r}
    OBVIOUS
  <2> QED
    BY <2>1, FS_EmptySet, FS_Singleton
<1>3. task' \in [TaskIds -> SUBSET TaskRow] /\ \A u \in TaskIds : task'[u] \in {task[u], row}
  BY <1>1, <1>2 DEF NormsInv
<1>4. \A u \in TaskIds : /\ task'[u] \subseteq TaskRow /\ Cardinality(task'[u]) <= 1
                         /\ \A r, s \in task'[u] : r = s
  BY <1>2, <1>3 DEF NormsInv, NormsTypeOK
<1>5. updates' \in 0 .. MaxUpdates /\ UNCHANGED <<norm, basis>>
  BY NormsAssumption DEF UpdateTask, NormsInv, NormsTypeOK
<1>6. NormsTypeOK'
  BY <1>4, <1>5 DEF NormsInv, NormsTypeOK
<1>7. NormsBetweenExtremes'
  BY <1>5 DEF NormsInv, NormsBetweenExtremes
<1> QED
  BY <1>3, <1>4, <1>6, <1>7 DEF NormsInv

\* A run stores a weighted mean, which lies between the extremes.
LEMMA UpdateNormsKeeps ==
  ASSUME NormsInv, NEW anchor \in 1 .. LastDay, UpdateNorms(anchor)
  PROVE  NormsInv'
<1>1. /\ UNCHANGED <<task, updates>>
      /\ \A c \in Computed(anchor) : BayesianCents(c, Samples(c, anchor)) <= MaxCents
      /\ \A c \in NormCategories :
           norm'[c] = IF c \in Computed(anchor)
                      THEN {[cents |-> BayesianCents(c, Samples(c, anchor)),
                             size |-> Cardinality(Samples(c, anchor))]}
                      ELSE norm[c]
      /\ \A c \in NormCategories : basis'[c] = IF c \in Computed(anchor) THEN Taken(c, anchor) ELSE basis[c]
  BY DEF UpdateNorms, Taken
<1>2. ASSUME NEW c \in NormCategories
      PROVE  /\ norm'[c] \subseteq [cents : 0 .. MaxCents, size : 0 .. Cardinality(TaskIds)]
             /\ Cardinality(norm'[c]) <= 1
             /\ basis'[c] \subseteq Durations
             /\ \A row \in norm'[c] :
                  /\ \E m \in basis'[c] \union {Prior(c)} : 100 * m <= row.cents
                  /\ \E m \in basis'[c] \union {Prior(c)} : row.cents <= 100 * m
                  /\ row.size = 0 <=> basis'[c] = {}
                  /\ c \in Others => row.size > 0
  <2>1. CASE c \notin Computed(anchor)
    <3>1. norm'[c] = norm[c] /\ basis'[c] = basis[c]
      BY <1>1, <2>1
    <3> QED
      BY <3>1 DEF NormsInv, NormsTypeOK, NormsBetweenExtremes
  <2>2. CASE c \in Computed(anchor)
    <3> DEFINE cents == BayesianCents(c, Samples(c, anchor))
               size == Cardinality(Samples(c, anchor))
               new == [cents |-> cents, size |-> size]
    <3>1. /\ cents \in Nat /\ cents <= MaxCents /\ size \in 0 .. Cardinality(TaskIds)
          /\ \E m \in Taken(c, anchor) \union {Prior(c)} : 100 * m <= cents
          /\ \E m \in Taken(c, anchor) \union {Prior(c)} : cents <= 100 * m
          /\ size = 0 <=> Taken(c, anchor) = {}
      BY <1>1, <2>2, NormIsBetween
    <3>2. c \in Others => size > 0
      <4> SUFFICES ASSUME c \in Others PROVE size > 0
        OBVIOUS
      <4>1. c \notin DOMAIN Priors
        BY NormsAssumption
      <4>2. Samples(c, anchor) # {}
        BY <2>2, <4>1 DEF Computed
      <4>3. size # 0
        BY <4>2, NormIsBetween
      <4> HIDE DEF size
      <4> QED
        BY <3>1, <4>3
    <3>3. norm'[c] = {new} /\ basis'[c] = Taken(c, anchor)
      BY <1>1, <2>2
    <3> HIDE DEF cents, size
    <3>4. new.cents = cents /\ new.size = size /\ new \in [cents : 0 .. MaxCents, size : 0 .. Cardinality(TaskIds)]
      BY <3>1, NormsAssumption
    <3> HIDE DEF new
    <3>5. Cardinality(norm'[c]) <= 1
      <4>1. Cardinality({new}) = 1
        BY FS_Singleton, Zenon
      <4> QED
        BY <3>3, <4>1
    <3>6. Taken(c, anchor) \subseteq Durations
      BY DEF Taken
    <3> QED
      BY <3>1, <3>2, <3>3, <3>4, <3>5, <3>6
  <2> QED
    BY <2>1, <2>2
<1>3. NormsTypeOK'
  BY <1>1, <1>2 DEF NormsInv, NormsTypeOK
<1>4. NormsBetweenExtremes'
  BY <1>2 DEF NormsBetweenExtremes, Prior
<1> QED
  BY <1>1, <1>3, <1>4 DEF NormsInv

\* Every step preserves the invariant.
LEMMA NormsInvNext == NormsInv /\ [NormsNext]_normsVars => NormsInv'
<1> SUFFICES ASSUME NormsInv, [NormsNext]_normsVars PROVE NormsInv'
  OBVIOUS
<1>1. CASE UNCHANGED normsVars
  BY <1>1 DEF normsVars, NormsInv, NormsTypeOK, NormsBetweenExtremes
<1> QED
  BY <1>1, UpdateTaskKeeps, UpdateNormsKeeps DEF NormsNext

\* For any tasks, days and priors, and runs in any order: the invariant.
THEOREM NormsInvariant == NormsSpec => []NormsInv
BY NormsInvInit, NormsInvNext, PTL DEF NormsSpec

\* NormsBetweenExtremes: a norm is never outside of what its prior and the
\* tasks of its window span.
THEOREM NormsAreBetweenExtremes == NormsSpec => []NormsBetweenExtremes
<1>1. NormsInv => NormsBetweenExtremes
  BY DEF NormsInv
<1> QED
  BY <1>1, NormsInvariant, PTL

-----------------------------------------------------------------------------
(* TaskConfirm: confirmations and scores.                                  *)

\* The tables of a day's tasks.
Table == UNION {[D -> ConfirmRow] : D \in SUBSET RowIds}

\* An assess run.
AssessRun == [stage : {"idle", "metrics", "ghost", "scoring"}, metrics : Metrics,
              tasks : Table, overtaken : BOOLEAN]

\* The ids that were given away.
Given(id) == id < nextId

\* The rows: ids are given once, so what a client was shown is the row or none.
RowsOK ==
  /\ raw \subseteq Lines
  /\ dayRows \in Table
  /\ nextId \in 1 .. MaxRowIds + 1
  /\ shown \subseteq RowIds \X Lines
  /\ told \subseteq RowIds \X Lines \X BOOLEAN
  /\ confirms \in 0 .. MaxConfirms
  /\ withdrawn \subseteq RowIds
  /\ \A i \in DOMAIN dayRows : Given(i)
  /\ \A s \in shown : /\ Given(s[1])
                      /\ s[1] \in DOMAIN dayRows => dayRows[s[1]].line = s[2]
  /\ \A t \in told : /\ Given(t[1])
                     /\ t[1] \in DOMAIN dayRows =>
                          dayRows[t[1]] = [line |-> t[2], confirmed |-> t[3]]

\* The tasks of a run: what it read deserves no more than the row does now.
ReadOK(run) ==
  \A i \in DOMAIN run.tasks :
    /\ Given(i)
    /\ i \in DOMAIN dayRows => i \in withdrawn \/ QualityOf(run.tasks[i]) <= QualityOf(dayRows[i])

\* A run that was not overtaken has read its tasks after the scores were made.
ScoresBefore(run) ==
  run.stage = "scoring" /\ ~ run.overtaken =>
    \A i \in DOMAIN run.tasks :
      i \in DOMAIN quality => i \in withdrawn \/ quality[i] <= QualityOf(run.tasks[i])

\* The scores: never above what the row deserves now.
ScoresOK ==
  /\ quality \in [DOMAIN quality -> 0 .. 10]
  /\ DOMAIN quality \subseteq DOMAIN dayRows
  /\ \A i \in DOMAIN quality : i \in withdrawn \/ quality[i] <= QualityOf(dayRows[i])
  /\ \A p \in Assessors : ReadOK(assess[p]) /\ ScoresBefore(assess[p])

\* The same rows, if all that happened between is confirmations.
OnlyConfirmed(m, n) ==
  /\ n.total = m.total /\ n.none = m.none
  /\ n.unconfirmed <= m.unconfirmed

\* Of m's rows no confirmation was withdrawn.
Steady(m) == m.rows # {} /\ m.rows \intersect withdrawn = {}

\* What was counted: if the rows are still there, they were only confirmed since.
CountedOK(m) ==
  /\ m.rows = {} => m.total = 0
  /\ \A i \in m.rows : Given(i)
  /\ m.rows = DOMAIN dayRows /\ Steady(m) => OnlyConfirmed(m, MetricsNow)

\* A run that was not overtaken has counted after the trust's metrics were.
TrustBefore(run) ==
  run.stage = "metrics" /\ ~ run.overtaken =>
    (run.metrics.rows = trust.rows /\ Steady(trust) => OnlyConfirmed(trust, run.metrics))

\* The trust, and the metrics of the runs.
TrustOK ==
  /\ trust \in Metrics /\ CountedOK(trust)
  /\ \A p \in Assessors : CountedOK(assess[p].metrics) /\ TrustBefore(assess[p])

\* The inductive invariant.
ConfirmInv == RowsOK /\ assess \in [Assessors -> AssessRun] /\ ScoresOK /\ TrustOK

-----------------------------------------------------------------------------
\* Scores are cut off at zero.
LEMMA MaxOfTwo ==
  ASSUME NEW x \in Int, NEW m, m = Max({0, x})
  PROVE  m = IF x > 0 THEN x ELSE 0
<1>1. \E y \in {0, x} : \A z \in {0, x} : y >= z
  OBVIOUS
<1>2. m \in {0, x} /\ m >= 0 /\ m >= x
  BY <1>1 DEF Max
<1> QED
  BY <1>2

\* A quality score is in its range, and a confirmation does not lower it.
LEMMA QualityBounds ==
  ASSUME NEW line
  PROVE  /\ \A b \in BOOLEAN : QualityOf([line |-> line, confirmed |-> b]) \in 0 .. 10
         /\ QualityOf([line |-> line, confirmed |-> FALSE]) <= QualityOf([line |-> line, confirmed |-> TRUE])
<1> DEFINE e == CASE TimeSource[line] = "none" -> 6
                  [] TimeSource[line] = "estimated" -> 3
                  [] OTHER -> 0
<1>1. e \in {0, 3, 6}
  OBVIOUS
<1>2. \A b \in BOOLEAN : QualityOf([line |-> line, confirmed |-> b]) = Max({0, 10 - e - IF b THEN 0 ELSE 4})
  BY DEF QualityOf
<1> HIDE DEF e
<1>3. PICK p : p = QualityOf([line |-> line, confirmed |-> TRUE]) /\ p = Max({0, 10 - e - 0})
  BY <1>2
<1>4. PICK q : q = QualityOf([line |-> line, confirmed |-> FALSE]) /\ q = Max({0, 10 - e - 4})
  BY <1>2
<1>5. p = IF 10 - e - 0 > 0 THEN 10 - e - 0 ELSE 0
  BY <1>1, <1>3, MaxOfTwo
<1>6. q = IF 10 - e - 4 > 0 THEN 10 - e - 4 ELSE 0
  BY <1>1, <1>4, MaxOfTwo
<1>7. p \in 0 .. 10 /\ q \in 0 .. 10 /\ q <= p
  BY <1>1, <1>5, <1>6
<1> QED
  BY <1>3, <1>4, <1>7

\* ... for rows.
LEMMA RowQuality ==
  ASSUME NEW x \in ConfirmRow, NEW y \in ConfirmRow, x.line = y.line, x.confirmed => y.confirmed
  PROVE  /\ QualityOf(x) \in 0 .. 10 /\ QualityOf(y) \in 0 .. 10
         /\ QualityOf(x) <= QualityOf(y)
<1>1. /\ x = [line |-> x.line, confirmed |-> x.confirmed] /\ x.confirmed \in BOOLEAN
      /\ y = [line |-> x.line, confirmed |-> y.confirmed] /\ y.confirmed \in BOOLEAN
  BY DEF ConfirmRow
<1>2. QualityOf(x) \in 0 .. 10 /\ QualityOf(y) \in 0 .. 10
  BY <1>1, QualityBounds
<1>3. CASE x.confirmed = y.confirmed
  <2>1. x = y
    BY <1>1, <1>3
  <2> QED
    BY <1>2, <2>1
<1>4. CASE x.confirmed = FALSE /\ y.confirmed = TRUE
  BY <1>1, <1>2, <1>4, QualityBounds
<1> QED
  BY <1>1, <1>2, <1>3, <1>4

\* The rows of a table, and a table of rows.
LEMMA TableRows ==
  ASSUME NEW f \in Table
  PROVE  /\ DOMAIN f \subseteq RowIds /\ IsFiniteSet(DOMAIN f)
         /\ f \in [DOMAIN f -> ConfirmRow]
<1>1. PICK D \in SUBSET RowIds : f \in [D -> ConfirmRow]
  BY DEF Table
<1>2. DOMAIN f = D
  BY <1>1
<1>3. IsFiniteSet(RowIds)
  BY FS_Interval, TaskConfirmAssumption DEF RowIds
<1>4. IsFiniteSet(D)
  BY <1>3, FS_Subset
<1> QED
  BY <1>1, <1>2, <1>4

\* A function on ids is a table.
LEMMA TableMade ==
  ASSUME NEW D \in SUBSET RowIds, NEW f \in [D -> ConfirmRow]
  PROVE  f \in Table
BY DEF Table

\* The rows of a table that are not confirmed.
UnconfirmedIn(rows) == {i \in DOMAIN rows : ~ rows[i].confirmed}

\* The rows without a time.
TimelessIn(rows) == {i \in DOMAIN rows : TimeSource[rows[i].line] = "none"}

\* What an assess run counts of rows.
DayMetrics(rows) ==
  [rows |-> DOMAIN rows, total |-> Cardinality(DOMAIN rows),
   none |-> Cardinality(TimelessIn(rows)), unconfirmed |-> Cardinality(UnconfirmedIn(rows))]

\* The metrics of the day are those of its table, before a step and after.
LEMMA MetricsAre ==
  MetricsNow = DayMetrics(dayRows) /\ MetricsNow' = DayMetrics(dayRows')
<1>1. DOMAIN dayRows \ ConfirmedRows = UnconfirmedIn(dayRows)
  BY DEF ConfirmedRows, UnconfirmedIn
<1>2. (DOMAIN dayRows \ ConfirmedRows)' = UnconfirmedIn(dayRows')
  BY DEF ConfirmedRows, UnconfirmedIn
<1> QED
  BY <1>1, <1>2, Zenon DEF MetricsNow, DayMetrics, TimelessIn, WithoutTime

\* They are numbers, the parts no more than the whole.
LEMMA MetricsTyped ==
  ASSUME NEW rows \in Table
  PROVE  DayMetrics(rows) \in Metrics
<1>1. \A S \in SUBSET DOMAIN rows : Cardinality(S) \in Nat
  BY TableRows, FS_Subset, FS_CardinalityType
<1>2. TimelessIn(rows) \in SUBSET DOMAIN rows /\ UnconfirmedIn(rows) \in SUBSET DOMAIN rows
  BY DEF TimelessIn, UnconfirmedIn
<1>3. DOMAIN rows \in SUBSET RowIds
  BY TableRows
<1> QED
  BY <1>1, <1>2, <1>3 DEF DayMetrics, Metrics

\* Confirmations only: the index of trust is not less.
LEMMA ConfirmedTrust ==
  ASSUME NEW m \in Metrics, NEW n \in Metrics, OnlyConfirmed(m, n)
  PROVE  TrustNotLess(m, n)
<1>1. PICK t \in Nat : m.total = t /\ n.total = t
  BY DEF OnlyConfirmed, Metrics
<1>2. PICK a \in Nat : m.none = a /\ n.none = a
  BY DEF OnlyConfirmed, Metrics
<1>3. PICK b \in Nat : m.unconfirmed = b
  BY DEF Metrics
<1>4. PICK c \in Nat : n.unconfirmed = c /\ c <= b
  BY <1>3 DEF OnlyConfirmed, Metrics
<1>5. (2 * t - a - b) * t <= (2 * t - a - c) * t
  <2>1. \A x, y \in Int : x <= y => x * t <= y * t
    OBVIOUS
  <2>2. 2 * t - a - b \in Int /\ 2 * t - a - c \in Int /\ 2 * t - a - b <= 2 * t - a - c
    BY <1>4
  <2> QED
    BY ONLY <2>1, <2>2
<1> QED
  BY <1>1, <1>2, <1>3, <1>4, <1>5, Zenon DEF TrustNotLess, TrustParts

-----------------------------------------------------------------------------
\* A table without rows.
LEMMA EmptyTable == <<>> \in Table /\ DOMAIN <<>> = {}
<1>1. <<>> \in [{} -> ConfirmRow] /\ DOMAIN <<>> = {}
  OBVIOUS
<1> QED
  BY <1>1 DEF Table

\* Nothing counted.
LEMMA NothingCounted == NoMetrics \in Metrics /\ NoMetrics.rows = {} /\ NoMetrics.total = 0
BY DEF NoMetrics, Metrics

\* A run that has neither counted nor read.
LEMMA NoAssess ==
  ASSUME NEW stage \in {"idle", "metrics", "ghost", "scoring"}
  PROVE  /\ IdleAssess \in AssessRun
         /\ IdleAssess.stage = "idle" /\ DOMAIN IdleAssess.tasks = {} /\ IdleAssess.metrics = NoMetrics
         /\ LET run == [IdleAssess EXCEPT !.stage = stage]
            IN run \in AssessRun /\ run.stage = stage /\ DOMAIN run.tasks = {} /\ run.metrics = NoMetrics
BY EmptyTable, NothingCounted DEF IdleAssess, AssessRun

\* At first there is no task.
LEMMA ConfirmInvInit == ConfirmInit => ConfirmInv
<1> SUFFICES ASSUME ConfirmInit PROVE ConfirmInv
  OBVIOUS
<1>1. RowsOK
  BY EmptyTable, TaskConfirmAssumption DEF ConfirmInit, RowsOK
<1>2. assess \in [Assessors -> AssessRun]
  BY NoAssess DEF ConfirmInit
<1>3. ScoresOK
  BY NoAssess, EmptyTable DEF ConfirmInit, ScoresOK, ReadOK, ScoresBefore
<1>4. TrustOK
  BY NoAssess, NothingCounted DEF ConfirmInit, TrustOK, CountedOK, TrustBefore, Steady
<1> QED
  BY <1>1, <1>2, <1>3, <1>4 DEF ConfirmInv

-----------------------------------------------------------------------------
(* The steps.                                                              *)

\* Parse and normalize end what rows and scores there were.
LEMMA RefreshKeeps ==
  ASSUME ConfirmInv, ParseAgain \/ NormalizeAgain
  PROVE  ConfirmInv'
<1>1. /\ raw' \subseteq Lines /\ quality' = <<>>
      /\ UNCHANGED <<shown, told, confirms, withdrawn, trust, assess>>
  BY DEF ParseAgain, NormalizeAgain, ConfirmInv, RowsOK
<1>2. nextId' \in 1 .. MaxRowIds + 1 /\ dayRows' \in Table /\ nextId <= nextId'
      /\ \A i \in DOMAIN dayRows' : ~ Given(i) /\ i < nextId'
  <2>1. CASE ParseAgain
    BY <2>1, EmptyTable, TaskConfirmAssumption DEF ParseAgain, ConfirmInv, RowsOK
  <2>2. CASE NormalizeAgain
    <3>1. Cardinality(raw) \in Nat
      BY TaskConfirmAssumption, FS_Subset, FS_CardinalityType DEF ConfirmInv, RowsOK
    <3>2. PICK n \in Nat : n = Cardinality(raw)
      BY <3>1
    <3>3. /\ nextId' = nextId + n /\ nextId + n <= MaxRowIds + 1
          /\ \E place \in [NewIds -> raw] :
               dayRows' = [i \in NewIds |-> [line |-> place[i], confirmed |-> place[i] \in Derived]]
      BY <2>2, <3>2 DEF NormalizeAgain
    <3>4. NewIds = nextId .. nextId + n - 1
      BY <3>2 DEF NewIds
    <3>5. nextId \in 1 .. MaxRowIds + 1 /\ MaxRowIds \in Nat
      BY TaskConfirmAssumption DEF ConfirmInv, RowsOK
    <3>6. NewIds \in SUBSET RowIds /\ \A i \in NewIds : ~ Given(i) /\ i < nextId'
      BY <3>3, <3>4, <3>5 DEF RowIds, Given
    <3>7. dayRows' \in [NewIds -> ConfirmRow]
      BY <3>3 DEF ConfirmRow, ConfirmInv, RowsOK
    <3>8. dayRows' \in Table /\ DOMAIN dayRows' = NewIds
      BY <3>6, <3>7, TableMade
    <3> QED
      BY <3>3, <3>5, <3>6, <3>8
  <2> QED
    BY <2>1, <2>2
<1>3. nextId \in Int /\ nextId' \in Int /\ \A i : Given(i) => i \notin DOMAIN dayRows'
  BY <1>2, TaskConfirmAssumption DEF ConfirmInv, RowsOK
<1>4. RowsOK'
  <2>1. \A s \in shown : s[1] \in Int /\ Given(s[1])
    BY DEF ConfirmInv, RowsOK, RowIds
  <2>2. \A t \in told : t[1] \in Int /\ Given(t[1])
    <3>1. \A t \in RowIds \X Lines \X BOOLEAN : t[1] \in RowIds
      OBVIOUS
    <3>2. \A i \in RowIds : i \in Int
      BY DEF RowIds
    <3> QED
      BY <3>1, <3>2 DEF ConfirmInv, RowsOK
  <2>3. \A i \in Int : Given(i) => i < nextId'
    BY <1>2, <1>3 DEF Given
  <2> QED
    BY <1>1, <1>2, <1>3, <2>1, <2>2, <2>3 DEF ConfirmInv, RowsOK, Given
<1>5. ScoresOK'
  <2>1. ASSUME NEW p \in Assessors PROVE ReadOK(assess[p])' /\ ScoresBefore(assess[p])'
    <3>1. \A i \in DOMAIN assess[p].tasks : i \in Int /\ Given(i)
      <4>1. assess[p].tasks \in Table /\ ReadOK(assess[p])
        BY <2>1 DEF ConfirmInv, ScoresOK, AssessRun
      <4> QED
        BY <4>1, TableRows DEF ReadOK, RowIds
    <3>2. \A i \in DOMAIN assess[p].tasks : i < nextId' /\ i \notin DOMAIN dayRows'
      BY <1>2, <1>3, <3>1 DEF Given
    <3>3. ReadOK(assess[p])'
      BY <1>1, <3>2 DEF ReadOK, Given
    <3>4. ScoresBefore(assess[p])'
      BY <1>1, EmptyTable DEF ScoresBefore
    <3> QED
      BY <3>3, <3>4
  <2>2. quality' \in [DOMAIN quality' -> 0 .. 10] /\ DOMAIN quality' = {}
    BY <1>1
  <2> QED
    BY <1>1, <2>1, <2>2 DEF ConfirmInv, ScoresOK
<1>6. TrustOK'
  <2>1. ASSUME NEW m \in Metrics, CountedOK(m)
        PROVE  CountedOK(m)'
    <3>1. m.rows \in SUBSET RowIds
      BY DEF Metrics
    <3>2. \A i \in m.rows : i \in Int /\ Given(i)
      BY <2>1, <3>1 DEF CountedOK, RowIds
    <3>3. \A i \in m.rows : i < nextId' /\ i \notin DOMAIN dayRows'
      BY <1>2, <1>3, <3>2 DEF Given
    <3>4. m.rows = DOMAIN dayRows' => m.rows = {}
      BY <3>3
    <3> QED
      BY <2>1, <3>3, <3>4 DEF CountedOK, Steady, Given
  <2>2. \A p \in Assessors : assess[p].metrics \in Metrics
    BY DEF ConfirmInv, AssessRun
  <2>3. CountedOK(trust)'
    BY <1>1, <2>1 DEF ConfirmInv, TrustOK, CountedOK, Steady
  <2>4. \A p \in Assessors : CountedOK(assess[p].metrics)'
    BY <1>1, <2>1, <2>2 DEF ConfirmInv, TrustOK, CountedOK, Steady
  <2>5. \A p \in Assessors : TrustBefore(assess[p])'
    BY <1>1 DEF ConfirmInv, TrustOK, TrustBefore, Steady
  <2> QED
    BY <1>1, <2>3, <2>4, <2>5 DEF ConfirmInv, TrustOK
<1> QED
  BY <1>1, <1>4, <1>5, <1>6 DEF ConfirmInv

\* A step that leaves rows, runs and scores alone.
LEMMA RestKeeps ==
  ASSUME ConfirmInv, UNCHANGED <<dayRows, nextId, withdrawn, quality, trust, assess>>
  PROVE  (assess \in [Assessors -> AssessRun])' /\ ScoresOK' /\ TrustOK'
<1>1. (assess \in [Assessors -> AssessRun])'
  BY DEF ConfirmInv
<1>2. ScoresOK'
  BY DEF ConfirmInv, ScoresOK, ReadOK, ScoresBefore, Given
<1>3. TrustOK'
  BY MetricsAre DEF ConfirmInv, TrustOK, CountedOK, TrustBefore, Steady, Given
<1> QED
  BY <1>1, <1>2, <1>3

\* A client is shown rows.
LEMMA ListTasksKeeps ==
  ASSUME ConfirmInv, ListTasks
  PROVE  ConfirmInv'
<1>1. RowsOK'
  <2>1. shown' \subseteq RowIds \X Lines /\ \A s \in shown' : s[1] \in DOMAIN dayRows /\ dayRows[s[1]].line = s[2]
    BY TableRows DEF ListTasks, ConfirmInv, RowsOK, ConfirmRow
  <2> QED
    BY <2>1 DEF ListTasks, ConfirmInv, RowsOK, Given
<1> QED
  BY <1>1, RestKeeps DEF ListTasks, ConfirmInv

\* A confirmation that finds no row changes none.
LEMMA NotFoundKeeps ==
  ASSUME ConfirmInv, NEW seen \in shown, ConfirmNotFound(seen)
  PROVE  ConfirmInv'
<1>1. RowsOK'
  BY TaskConfirmAssumption DEF ConfirmNotFound, ConfirmInv, RowsOK, Given
<1> QED
  BY <1>1, RestKeeps DEF ConfirmNotFound, ConfirmInv

\* A confirmation changes the metrics of the day by one task at most.
LEMMA ConfirmedMetrics ==
  ASSUME NEW rows \in Table, NEW new \in Table, DOMAIN new = DOMAIN rows,
         \A i \in DOMAIN rows : new[i].line = rows[i].line /\ (rows[i].confirmed => new[i].confirmed)
  PROVE  OnlyConfirmed(DayMetrics(rows), DayMetrics(new))
<1>1. TimelessIn(new) = TimelessIn(rows)
  <2>1. \A i \in DOMAIN rows : TimeSource[new[i].line] = TimeSource[rows[i].line]
    BY Zenon
  <2> QED
    BY <2>1, Zenon DEF TimelessIn
<1>2. UnconfirmedIn(new) \subseteq UnconfirmedIn(rows)
  BY Zenon DEF UnconfirmedIn
<1>3. IsFiniteSet(UnconfirmedIn(rows))
  BY TableRows, FS_Subset DEF UnconfirmedIn
<1>4. Cardinality(UnconfirmedIn(new)) <= Cardinality(UnconfirmedIn(rows))
  BY <1>2, <1>3, FS_Subset
<1> QED
  BY <1>1, <1>4 DEF OnlyConfirmed, DayMetrics

\* Confirmations after confirmations.
LEMMA OnlyConfirmedTransitive ==
  ASSUME NEW m \in Metrics, NEW n \in Metrics, NEW k \in Metrics,
         OnlyConfirmed(m, n), OnlyConfirmed(n, k)
  PROVE  OnlyConfirmed(m, k)
BY DEF OnlyConfirmed, Metrics

\* A confirmation changes one row, and its quality for the better.
LEMMA ConfirmKeeps ==
  ASSUME ConfirmInv, NEW seen \in shown, NEW flag \in BOOLEAN, Confirm(seen, flag)
  PROVE  ConfirmInv'
<1> DEFINE id == seen[1]
<1>1. /\ id \in DOMAIN dayRows /\ confirms < MaxConfirms /\ confirms' = confirms + 1
      /\ dayRows' = [dayRows EXCEPT ![id].confirmed = flag]
      /\ told' = {t \in told : t[1] # id} \union {<<id, seen[2], flag>>}
      /\ withdrawn' = IF flag THEN withdrawn ELSE withdrawn \union {id}
      /\ UNCHANGED <<raw, nextId, shown, quality, trust, assess>>
  BY DEF Confirm
<1>2. dayRows \in Table /\ dayRows \in [DOMAIN dayRows -> ConfirmRow] /\ DOMAIN dayRows \subseteq RowIds
  BY TableRows DEF ConfirmInv, RowsOK
<1>3. /\ dayRows' \in Table /\ DOMAIN dayRows' = DOMAIN dayRows
      /\ dayRows'[id] = [line |-> dayRows[id].line, confirmed |-> flag]
      /\ \A i \in DOMAIN dayRows : i # id => dayRows'[i] = dayRows[i]
  <2>1. dayRows' = [dayRows EXCEPT ![id].confirmed = flag] /\ id \in DOMAIN dayRows
    BY <1>1
  <2> HIDE DEF id
  <2>2. /\ dayRows' \in [DOMAIN dayRows -> ConfirmRow]
        /\ dayRows'[id] = [line |-> dayRows[id].line, confirmed |-> flag]
        /\ \A i \in DOMAIN dayRows : i # id => dayRows'[i] = dayRows[i]
    BY ONLY <1>2, <2>1, flag \in BOOLEAN DEF ConfirmRow
  <2> QED
    BY <1>2, <2>2, TableMade
<1>4. seen[2] = dayRows[id].line /\ id \in RowIds /\ seen[2] \in Lines /\ Given(id)
  BY <1>1, <1>2 DEF ConfirmInv, RowsOK
<1> HIDE DEF id
<1>5. RowsOK'
  <2>1. told' \subseteq RowIds \X Lines \X BOOLEAN
    BY <1>1, <1>4 DEF ConfirmInv, RowsOK
  <2>2. ASSUME NEW t \in told'
        PROVE  /\ Given(t[1])
               /\ t[1] \in DOMAIN dayRows' => dayRows'[t[1]] = [line |-> t[2], confirmed |-> t[3]]
    <3>1. CASE t = <<id, seen[2], flag>>
      BY <1>3, <1>4, <3>1
    <3>2. CASE t \in told /\ t[1] # id
      BY <1>3, <3>2 DEF ConfirmInv, RowsOK
    <3> QED
      BY <1>1, <3>1, <3>2
  <2>3. \A s \in shown : s[1] \in DOMAIN dayRows' => dayRows'[s[1]].line = s[2]
    BY <1>3 DEF ConfirmInv, RowsOK
  <2>4. withdrawn' \subseteq RowIds /\ confirms' \in 0 .. MaxConfirms
    BY <1>1, <1>4, TaskConfirmAssumption DEF ConfirmInv, RowsOK
  <2> QED
    BY <1>1, <1>3, <2>1, <2>2, <2>3, <2>4 DEF ConfirmInv, RowsOK, Given
<1>6. \A i \in DOMAIN dayRows : \/ i \in withdrawn'
                                   \/ QualityOf(dayRows[i]) <= QualityOf(dayRows'[i])
  <2>1. TAKE i \in DOMAIN dayRows
  <2>2. dayRows[i] \in ConfirmRow
    BY <1>2
  <2>3. CASE i # id
    BY <1>3, <2>2, <2>3, RowQuality
  <2>4. CASE i = id /\ flag
    <3>1. dayRows'[i] = [line |-> dayRows[i].line, confirmed |-> TRUE]
      BY <1>3, <2>4
    <3> QED
      BY <2>2, <3>1, RowQuality DEF ConfirmRow
  <2>5. CASE i = id /\ ~ flag
    BY <1>1, <2>5
  <2> QED
    BY <2>3, <2>4, <2>5
<1>7. ScoresOK'
  <2>1. \A i \in DOMAIN quality : quality[i] \in Int
    BY DEF ConfirmInv, ScoresOK
  <2>2. \A i \in DOMAIN dayRows : QualityOf(dayRows[i]) \in Int /\ QualityOf(dayRows'[i]) \in Int
    BY <1>2, <1>3, TableRows, RowQuality
  <2>3. withdrawn \subseteq withdrawn'
    BY <1>1
  <2>4. \A i \in DOMAIN quality : i \in withdrawn' \/ quality[i] <= QualityOf(dayRows'[i])
    BY <1>6, <2>1, <2>2, <2>3 DEF ConfirmInv, ScoresOK
  <2>5. ASSUME NEW p \in Assessors PROVE ReadOK(assess[p])' /\ ScoresBefore(assess[p])'
    <3>1. assess[p].tasks \in Table /\ ReadOK(assess[p]) /\ ScoresBefore(assess[p])
      BY DEF ConfirmInv, ScoresOK, AssessRun
    <3>2. \A i \in DOMAIN assess[p].tasks : QualityOf(assess[p].tasks[i]) \in Int
      BY <3>1, TableRows, RowQuality
    <3>3. \A i \in DOMAIN assess[p].tasks :
            i \in DOMAIN dayRows => i \in withdrawn' \/ QualityOf(assess[p].tasks[i]) <= QualityOf(dayRows'[i])
      BY <1>6, <2>2, <2>3, <3>1, <3>2 DEF ReadOK
    <3> QED
      BY <1>1, <1>3, <2>3, <3>1, <3>3 DEF ReadOK, ScoresBefore, Given
  <2> QED
    BY <1>1, <1>3, <2>4, <2>5 DEF ConfirmInv, ScoresOK
<1>8. TrustOK'
  <2>1. MetricsNow \in Metrics /\ MetricsNow' \in Metrics
    BY <1>2, <1>3, MetricsAre, MetricsTyped
  <2>2. ASSUME flag PROVE OnlyConfirmed(MetricsNow, MetricsNow')
    BY <1>2, <1>3, <2>2, ConfirmedMetrics, MetricsAre
  <2>3. ASSUME NEW m \in Metrics, CountedOK(m)
        PROVE  CountedOK(m)'
    <3>1. CASE ~ flag
      <4>1. id \in withdrawn' /\ (m.rows = DOMAIN dayRows' => id \in m.rows)
        BY <1>1, <1>3, <3>1
      <4> QED
        BY <1>1, <2>3, <4>1 DEF CountedOK, Steady, Given
    <3>2. CASE flag
      <4>1. m.rows = DOMAIN dayRows' /\ Steady(m)' => OnlyConfirmed(m, MetricsNow)
        BY <1>1, <1>3, <2>3, <3>2 DEF CountedOK, Steady
      <4>2. m.rows = DOMAIN dayRows' /\ Steady(m)' => OnlyConfirmed(m, MetricsNow')
        BY <2>1, <2>2, <3>2, <4>1, OnlyConfirmedTransitive
      <4> QED
        BY <1>1, <2>3, <4>2 DEF CountedOK, Given
    <3> QED
      BY <3>1, <3>2
  <2>4. \A p \in Assessors : assess[p].metrics \in Metrics
    BY DEF ConfirmInv, AssessRun
  <2>5. CountedOK(trust)'
    BY <1>1, <2>3 DEF ConfirmInv, TrustOK, CountedOK, Steady
  <2>6. \A p \in Assessors : CountedOK(assess[p].metrics)'
    BY <1>1, <2>3, <2>4 DEF ConfirmInv, TrustOK, CountedOK, Steady
  <2>7. withdrawn \subseteq withdrawn'
    BY <1>1
  <2>8. \A p \in Assessors : TrustBefore(assess[p])'
    BY <1>1, <2>7 DEF ConfirmInv, TrustOK, TrustBefore, Steady
  <2> QED
    BY <1>1, <2>5, <2>6, <2>8 DEF ConfirmInv, TrustOK
<1> QED
  BY <1>1, <1>5, <1>7, <1>8 DEF ConfirmInv

-----------------------------------------------------------------------------
\* One run moves on by itself: what concerns the others stays.
LEMMA AloneKeeps ==
  ASSUME ConfirmInv, NEW p \in Assessors, NEW run \in AssessRun, assess' = [assess EXCEPT ![p] = run],
         UNCHANGED <<raw, dayRows, nextId, shown, told, confirms, withdrawn, quality, trust>>,
         ReadOK(run), ScoresBefore(run), CountedOK(run.metrics), TrustBefore(run)
  PROVE  ConfirmInv'
<1>1. /\ assess' \in [Assessors -> AssessRun] /\ assess'[p] = run
      /\ \A q \in Assessors \ {p} : assess'[q] = assess[q]
  BY DEF ConfirmInv
<1>2. RowsOK'
  BY DEF ConfirmInv, RowsOK, Given
<1>3. \A q \in Assessors : ReadOK(assess'[q]) /\ ScoresBefore(assess'[q])
                           /\ CountedOK(assess'[q].metrics) /\ TrustBefore(assess'[q])
  BY <1>1 DEF ConfirmInv, ScoresOK, TrustOK
<1>4. ScoresOK'
  BY <1>3 DEF ConfirmInv, ScoresOK, ReadOK, ScoresBefore, Given
<1>5. TrustOK'
  BY <1>3, MetricsAre DEF ConfirmInv, TrustOK, CountedOK, TrustBefore, Steady, Given
<1> QED
  BY <1>1, <1>2, <1>4, <1>5 DEF ConfirmInv

\* A run that has neither counted nor read anything owes nothing.
LEMMA EmptyRunOK ==
  ASSUME NEW run, run.metrics = NoMetrics, DOMAIN run.tasks = {}, run.stage # "metrics"
  PROVE  ReadOK(run) /\ ScoresBefore(run) /\ CountedOK(run.metrics) /\ TrustBefore(run)
BY NothingCounted DEF ReadOK, ScoresBefore, CountedOK, TrustBefore, Steady

\* The run counts the tasks.
LEMMA ReadMetricsKeeps ==
  ASSUME ConfirmInv, NEW p \in Assessors, ReadMetrics(p)
  PROVE  ConfirmInv'
<1> DEFINE run == [IdleAssess EXCEPT !.stage = "metrics", !.metrics = MetricsNow]
<1>1. MetricsNow \in Metrics /\ MetricsNow.rows = DOMAIN dayRows
  BY MetricsAre, MetricsTyped DEF DayMetrics, ConfirmInv, RowsOK
<1>2. /\ run \in AssessRun /\ run.stage = "metrics" /\ run.metrics = MetricsNow
      /\ DOMAIN run.tasks = {}
  BY <1>1, EmptyTable DEF IdleAssess, AssessRun
<1>3. assess' = [assess EXCEPT ![p] = run] /\ DOMAIN dayRows # {}
  BY DEF ReadMetrics
<1> HIDE DEF run
<1>4. ReadOK(run) /\ ScoresBefore(run)
  BY <1>2 DEF ReadOK, ScoresBefore
<1>5. CountedOK(run.metrics)
  <2>1. OnlyConfirmed(MetricsNow, MetricsNow)
    BY <1>1 DEF OnlyConfirmed, Metrics
  <2> QED
    BY <1>1, <1>2, <1>3, <2>1 DEF CountedOK, ConfirmInv, RowsOK
<1>6. TrustBefore(run)
  BY <1>1, <1>2 DEF TrustBefore, ConfirmInv, TrustOK, CountedOK
<1> QED
  BY <1>2, <1>3, <1>4, <1>5, <1>6, AloneKeeps DEF ReadMetrics

\* It reads the tasks.
LEMMA ReadTasksKeeps ==
  ASSUME ConfirmInv, NEW p \in Assessors, ReadTasks(p)
  PROVE  ConfirmInv'
<1> DEFINE run == [IdleAssess EXCEPT !.stage = "scoring", !.tasks = dayRows]
<1>1. dayRows \in Table
  BY DEF ConfirmInv, RowsOK
<1>2. run \in AssessRun /\ run.stage = "scoring" /\ run.metrics = NoMetrics /\ run.tasks = dayRows
  BY <1>1, NothingCounted DEF IdleAssess, AssessRun
<1>3. assess' = [assess EXCEPT ![p] = run]
  BY DEF ReadTasks
<1> HIDE DEF run
<1>4. ReadOK(run)
  <2>1. \A i \in DOMAIN dayRows : QualityOf(dayRows[i]) \in Int
    BY <1>1, TableRows, RowQuality
  <2> QED
    BY <1>2, <2>1 DEF ReadOK, ConfirmInv, RowsOK
<1>5. ScoresBefore(run)
  BY <1>2 DEF ScoresBefore, ConfirmInv, ScoresOK
<1>6. CountedOK(run.metrics) /\ TrustBefore(run)
  BY <1>2, NothingCounted DEF CountedOK, TrustBefore, Steady
<1> QED
  BY <1>2, <1>3, <1>4, <1>5, <1>6, AloneKeeps DEF ReadTasks

\* It fails.
LEMMA AssessFailsKeeps ==
  ASSUME ConfirmInv, NEW p \in Assessors, AssessFails(p)
  PROVE  ConfirmInv'
<1>1. IdleAssess \in AssessRun /\ IdleAssess.metrics = NoMetrics /\ DOMAIN IdleAssess.tasks = {}
      /\ IdleAssess.stage # "metrics"
  BY NoAssess
<1> QED
  BY <1>1, EmptyRunOK, AloneKeeps DEF AssessFails

\* A run overtakes those in stage.
LEMMA Overtaken ==
  ASSUME ConfirmInv, NEW p \in Assessors, NEW stage, NEW run \in AssessRun, Overtaking(p, stage, run)
  PROVE  /\ assess' \in [Assessors -> AssessRun] /\ assess'[p] = run
         /\ \A q \in Assessors \ {p} :
              /\ assess'[q].stage = assess[q].stage /\ assess'[q].metrics = assess[q].metrics
              /\ assess'[q].tasks = assess[q].tasks
              /\ assess[q].overtaken \/ assess[q].stage = stage => assess'[q].overtaken
              /\ assess'[q].overtaken /\ assess[q].stage # stage => assess[q].overtaken
<1> DEFINE after(q) == [assess[q] EXCEPT !.overtaken = @ \/ assess[q].stage = stage]
<1>1. ASSUME NEW q \in Assessors
      PROVE  /\ after(q) \in AssessRun
             /\ after(q).stage = assess[q].stage /\ after(q).metrics = assess[q].metrics
             /\ after(q).tasks = assess[q].tasks
             /\ after(q).overtaken = (assess[q].overtaken \/ assess[q].stage = stage)
  <2>1. PICK b \in BOOLEAN : b = (assess[q].overtaken \/ assess[q].stage = stage)
    OBVIOUS
  <2>2. after(q) = [assess[q] EXCEPT !.overtaken = b] /\ assess[q] \in AssessRun
    BY <2>1 DEF ConfirmInv
  <2> HIDE DEF after
  <2>3. /\ after(q) \in AssessRun
        /\ after(q).stage = assess[q].stage /\ after(q).metrics = assess[q].metrics
        /\ after(q).tasks = assess[q].tasks /\ after(q).overtaken = b
    BY ONLY <2>2, b \in BOOLEAN DEF AssessRun
  <2> QED
    BY <2>1, <2>3
<1>2. assess' = [q \in Assessors |-> IF q = p THEN run ELSE after(q)]
  BY DEF Overtaking
<1> HIDE DEF after
<1>3. assess' \in [Assessors -> AssessRun] /\ assess'[p] = run
  BY <1>1, <1>2
<1>4. \A q \in Assessors \ {p} : assess'[q] = after(q)
  BY <1>2
<1> QED
  BY <1>1, <1>3, <1>4

\* It writes the index of trust.
LEMMA WriteGhostKeeps ==
  ASSUME ConfirmInv, NEW p \in Assessors, WriteGhost(p)
  PROVE  ConfirmInv'
<1> DEFINE run == [IdleAssess EXCEPT !.stage = "ghost"]
<1>1. /\ run \in AssessRun /\ run.stage = "ghost" /\ DOMAIN run.tasks = {}
      /\ run.metrics = NoMetrics
  BY NoAssess
<1>2. /\ trust' = assess[p].metrics /\ Overtaking(p, "metrics", run)
      /\ UNCHANGED <<raw, dayRows, nextId, shown, told, confirms, withdrawn, quality>>
  BY DEF WriteGhost
<1> HIDE DEF run
<1>3. /\ assess' \in [Assessors -> AssessRun] /\ assess'[p] = run
      /\ \A q \in Assessors \ {p} :
           /\ assess'[q].stage = assess[q].stage /\ assess'[q].metrics = assess[q].metrics
           /\ assess'[q].tasks = assess[q].tasks
           /\ assess[q].overtaken \/ assess[q].stage = "metrics" => assess'[q].overtaken
  BY <1>1, <1>2, Overtaken
<1>4. RowsOK'
  BY <1>2 DEF ConfirmInv, RowsOK, Given
<1>5. ScoresOK'
  <2>1. ASSUME NEW q \in Assessors PROVE ReadOK(assess[q])' /\ ScoresBefore(assess[q])'
    <3>1. CASE q = p
      BY <1>1, <1>3, <3>1 DEF ReadOK, ScoresBefore
    <3>2. CASE q # p
      <4>1. ReadOK(assess[q]) /\ ScoresBefore(assess[q])
        BY DEF ConfirmInv, ScoresOK
      <4> QED
        BY <1>2, <1>3, <3>2, <4>1 DEF ReadOK, ScoresBefore, Given
    <3> QED
      BY <3>1, <3>2
  <2> QED
    BY <1>2, <2>1 DEF ConfirmInv, ScoresOK
<1>6. TrustOK'
  <2>1. MetricsNow' = MetricsNow
    BY <1>2, MetricsAre
  <2>2. trust' \in Metrics /\ CountedOK(trust)'
    BY <1>2, <2>1 DEF ConfirmInv, TrustOK, CountedOK, Steady, Given, AssessRun
  <2>3. ASSUME NEW q \in Assessors PROVE CountedOK(assess[q].metrics)' /\ TrustBefore(assess[q])'
    <3>1. CASE q = p
      BY <1>1, <1>3, <3>1, NothingCounted DEF CountedOK, TrustBefore, Steady
    <3>2. CASE q # p
      <4>1. CountedOK(assess[q].metrics)
        BY DEF ConfirmInv, TrustOK
      <4> QED
        BY <1>2, <1>3, <2>1, <3>2, <4>1 DEF CountedOK, TrustBefore, Steady, Given
    <3> QED
      BY <3>1, <3>2
  <2> QED
    BY <2>2, <2>3 DEF TrustOK
<1> QED
  BY <1>3, <1>4, <1>5, <1>6 DEF ConfirmInv

\* It writes the scores.
LEMMA WriteScoresKeeps ==
  ASSUME ConfirmInv, NEW p \in Assessors, WriteScores(p)
  PROVE  ConfirmInv'
<1> DEFINE tasks == assess[p].tasks
<1>1. /\ DOMAIN tasks \subseteq DOMAIN dayRows
      /\ quality' = [i \in DOMAIN quality \union DOMAIN tasks |->
                       IF i \in DOMAIN tasks THEN QualityOf(tasks[i]) ELSE quality[i]]
      /\ Overtaking(p, "scoring", IdleAssess)
      /\ UNCHANGED <<raw, dayRows, nextId, shown, told, confirms, withdrawn, trust>>
  BY DEF WriteScores
<1>2. tasks \in Table /\ ReadOK(assess[p])
  BY DEF ConfirmInv, ScoresOK, AssessRun
<1>3. /\ assess' \in [Assessors -> AssessRun] /\ assess'[p] = IdleAssess
      /\ \A q \in Assessors \ {p} :
           /\ assess'[q].stage = assess[q].stage /\ assess'[q].metrics = assess[q].metrics
           /\ assess'[q].tasks = assess[q].tasks
           /\ assess[q].overtaken \/ assess[q].stage = "scoring" => assess'[q].overtaken
  BY <1>1, NoAssess, Overtaken
<1>4. RowsOK'
  BY <1>1 DEF ConfirmInv, RowsOK, Given
<1>5. ScoresOK'
  <2>1. \A i \in DOMAIN tasks : QualityOf(tasks[i]) \in 0 .. 10
    BY <1>2, TableRows, RowQuality
  <2>2. \A i \in DOMAIN tasks : i \in withdrawn \/ QualityOf(tasks[i]) <= QualityOf(dayRows[i])
    BY <1>1, <1>2 DEF ReadOK
  <2> HIDE DEF tasks
  <2>3. /\ quality' \in [DOMAIN quality' -> 0 .. 10]
        /\ DOMAIN quality' \subseteq DOMAIN dayRows
        /\ \A i \in DOMAIN quality' : i \in withdrawn \/ quality'[i] <= QualityOf(dayRows[i])
    BY <1>1, <2>1, <2>2 DEF ConfirmInv, ScoresOK
  <2>4. ASSUME NEW q \in Assessors PROVE ReadOK(assess[q])' /\ ScoresBefore(assess[q])'
    <3>1. CASE q = p
      BY <1>3, <3>1, NoAssess DEF ReadOK, ScoresBefore
    <3>2. CASE q # p
      <4>1. ReadOK(assess[q])
        BY DEF ConfirmInv, ScoresOK
      <4> QED
        BY <1>1, <1>3, <3>2, <4>1 DEF ReadOK, ScoresBefore, Given
    <3> QED
      BY <3>1, <3>2
  <2> QED
    BY <1>1, <2>3, <2>4 DEF ScoresOK
<1>6. TrustOK'
  <2>1. MetricsNow' = MetricsNow
    BY <1>1, MetricsAre
  <2>2. trust' \in Metrics /\ CountedOK(trust)'
    BY <1>1, <2>1 DEF ConfirmInv, TrustOK, CountedOK, Steady, Given
  <2>3. ASSUME NEW q \in Assessors PROVE CountedOK(assess[q].metrics)' /\ TrustBefore(assess[q])'
    <3>1. CASE q = p
      BY <1>3, <3>1, NoAssess, NothingCounted DEF CountedOK, TrustBefore, Steady
    <3>2. CASE q # p
      <4>1. CountedOK(assess[q].metrics) /\ TrustBefore(assess[q])
        BY DEF ConfirmInv, TrustOK
      <4> QED
        BY <1>1, <1>3, <2>1, <3>2, <4>1 DEF CountedOK, TrustBefore, Steady, Given
    <3> QED
      BY <3>1, <3>2
  <2> QED
    BY <2>2, <2>3 DEF TrustOK
<1> QED
  BY <1>3, <1>4, <1>5, <1>6 DEF ConfirmInv

\* Every step preserves the invariant.
LEMMA ConfirmInvNext == ConfirmInv /\ [ConfirmNext]_confirmVars => ConfirmInv'
<1> SUFFICES ASSUME ConfirmInv, [ConfirmNext]_confirmVars PROVE ConfirmInv'
  OBVIOUS
<1>1. CASE UNCHANGED confirmVars
  <2>1. RowsOK'
    BY <1>1 DEF confirmVars, ConfirmInv, RowsOK, Given
  <2> QED
    BY <1>1, <2>1, RestKeeps DEF confirmVars, ConfirmInv
<1>2. CASE ConfirmNext
  BY <1>2, RefreshKeeps, ListTasksKeeps, ConfirmKeeps, NotFoundKeeps, ReadMetricsKeeps,
     WriteGhostKeeps, ReadTasksKeeps, WriteScoresKeeps, AssessFailsKeeps DEF ConfirmNext
<1> QED
  BY <1>1, <1>2

\* For any tasks, any runs and any order of confirmations, refreshes and their
\* steps: the invariant.
THEOREM ConfirmInvariant == ConfirmSpec => []ConfirmInv
BY ConfirmInvInit, ConfirmInvNext, PTL DEF ConfirmSpec

\* ConfirmationsHold: a confirmation reaches the task that was shown, or none.
THEOREM ConfirmationsReachTheirTask == ConfirmSpec => []ConfirmationsHold
<1>1. ConfirmInv => ConfirmationsHold
  BY DEF ConfirmInv, RowsOK, ConfirmationsHold
<1> QED
  BY <1>1, ConfirmInvariant, PTL

\* A score is lowered only by a run that was overtaken, or after a withdrawal.
LEMMA ScoreLowered ==
  ASSUME ConfirmInv, ConfirmNext, NEW i \in DOMAIN quality, i \in DOMAIN quality',
         quality'[i] < quality[i], i \notin withdrawn
  PROVE  OvertakenWrites("scoring")
<1>1. quality' # quality
  <2>1. quality[i] \in Int
    BY DEF ConfirmInv, ScoresOK
  <2> QED
    BY <2>1
<1>2. quality' # <<>>
  BY EmptyTable
<1>3. PICK p \in Assessors : WriteScores(p)
  BY <1>1, <1>2 DEF ConfirmNext, ParseAgain, NormalizeAgain, ListTasks, Confirm, ConfirmNotFound,
                    ReadMetrics, WriteGhost, ReadTasks, AssessFails
<1>4. assess[p].stage = "scoring" /\ assess'[p].stage = "idle"
  BY <1>3, NoAssess, Overtaken DEF WriteScores
<1>5. ASSUME ~ assess[p].overtaken PROVE FALSE
  <2>1. i \in DOMAIN assess[p].tasks /\ quality'[i] = QualityOf(assess[p].tasks[i])
    <3>1. i \notin DOMAIN assess[p].tasks => quality'[i] = quality[i]
      BY <1>3 DEF WriteScores
    <3>2. quality[i] \in Int
      BY DEF ConfirmInv, ScoresOK
    <3> QED
      BY <1>3, <3>1, <3>2 DEF WriteScores
  <2>2. QualityOf(assess[p].tasks[i]) \in Int /\ quality[i] \in Int
    BY <2>1, TableRows, RowQuality DEF ConfirmInv, ScoresOK, AssessRun
  <2>3. quality[i] <= QualityOf(assess[p].tasks[i])
    BY <1>4, <1>5, <2>1 DEF ConfirmInv, ScoresOK, ScoresBefore
  <2> QED
    BY <2>1, <2>2, <2>3
<1> QED
  BY <1>4, <1>5 DEF OvertakenWrites

\* So is the trust in the same rows.
LEMMA TrustLowered ==
  ASSUME ConfirmInv, ConfirmNext, trust'.rows = trust.rows, trust.rows \intersect withdrawn = {},
         ~ TrustNotLess(trust, trust')
  PROVE  OvertakenWrites("metrics")
<1>1. trust \in Metrics /\ CountedOK(trust)
  BY DEF ConfirmInv, TrustOK
<1>2. Steady(trust)
  <2>1. trust.total # 0
    BY DEF TrustNotLess
  <2> QED
    BY <1>1, <2>1 DEF CountedOK, Steady
<1>3. trust' # trust
  <2>1. OnlyConfirmed(trust, trust)
    BY <1>1 DEF OnlyConfirmed, Metrics
  <2> QED
    BY <1>1, <2>1, ConfirmedTrust
<1>4. PICK p \in Assessors : WriteGhost(p)
  BY <1>3 DEF ConfirmNext, ParseAgain, NormalizeAgain, ListTasks, Confirm, ConfirmNotFound,
              ReadMetrics, WriteScores, ReadTasks, AssessFails
<1>5. assess[p].stage = "metrics" /\ assess'[p].stage = "ghost" /\ trust' = assess[p].metrics
  <2>1. PICK run : run = [IdleAssess EXCEPT !.stage = "ghost"] /\ run \in AssessRun /\ run.stage = "ghost"
    BY NoAssess
  <2>2. Overtaking(p, "metrics", run)
    BY <1>4, <2>1 DEF WriteGhost
  <2>3. assess'[p] = run
    BY <2>1, <2>2, Overtaken
  <2> QED
    BY <1>4, <2>1, <2>3 DEF WriteGhost
<1>6. ASSUME ~ assess[p].overtaken PROVE FALSE
  <2>1. OnlyConfirmed(trust, assess[p].metrics)
    BY <1>2, <1>5, <1>6 DEF ConfirmInv, TrustOK, TrustBefore
  <2>2. assess[p].metrics \in Metrics
    BY DEF ConfirmInv, AssessRun
  <2> QED
    BY <1>1, <1>5, <2>1, <2>2, ConfirmedTrust
<1> QED
  BY <1>5, <1>6 DEF OvertakenWrites

\* No step lowers a figure without a reason.
LEMMA StepsNeverCost == ConfirmInv /\ [ConfirmNext]_confirmVars => [NeverCosts]_confirmVars
<1> SUFFICES ASSUME ConfirmInv, ConfirmNext PROVE NeverCosts
  OBVIOUS
<1> QED
  BY ScoreLowered, TrustLowered DEF NeverCosts

\* ConfirmingNeverCosts: figures are lowered by a withdrawn confirmation or by a
\* run that another has overtaken, and by nothing else.
THEOREM ConfirmationsNeverCost == ConfirmSpec => ConfirmingNeverCosts
BY ConfirmInvariant, StepsNeverCost, PTL DEF ConfirmSpec, ConfirmingNeverCosts
=============================================================================
