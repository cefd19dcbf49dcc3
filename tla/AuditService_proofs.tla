------------------------- MODULE AuditService_proofs ------------------------
(***************************************************************************)
(* Around the audit: for any threads, tries, answers, alerts, checks and   *)
(* tables, there is one pool while the server serves, a stored report      *)
(* shows the day, and the log, the exit codes and the go-aheads are        *)
(* truthful.                                                               *)
(***************************************************************************)
EXTENDS DbPool, AuditAttempt, Notifier, HealthCheck, CutoverCheck, TLAPS, FiniteSetTheorems

-----------------------------------------------------------------------------
(* DbPool: one pool for all threads.                                       *)

(* The life of the pools.  The first one is the lifespan's; later ones are made *)
(* only after it was forgotten, and nobody closes them.                         *)
PoolsByStage ==
  /\ server = "down" => made = 0 /\ pool = 0 /\ opened = {}
  /\ server = "serving" => made = 1 /\ pool = 1 /\ opened = {1}
  /\ server = "closing" => made = 1 /\ pool = 1 /\ opened = {}
  /\ server = "closed" => made >= 1 /\ pool # 1 /\ opened = 2 .. made

(* What a thread at each place knows. *)
ThreadKnows(t) ==
  /\ server = "down" => at[t] = "out" /\ phase[t] = "none"
  /\ at[t] = "assign" => server = "closed" /\ held[t] \in opened
  /\ at[t] = "use" => held[t] # 0
  /\ phase[t] = "again" => server = "closed" /\ (at[t] = "get" => pool # 0)
  /\ phase[t] = "lost" => held[t] = 1 /\ server \in {"closing", "closed"} /\ at[t] = "out"

(* The inductive invariant.  Whoever is in the second try of the handler has *)
(* seen no pool and made one, or seen one; from then on there always is one. *)
PoolInv == PoolTypeOK /\ PoolsByStage /\ \A t \in Threads : ThreadKnows(t)

-----------------------------------------------------------------------------
LEMMA PoolInvInit == PoolInit => PoolInv
BY PoolAssumption
   DEF PoolInit, PoolInv, PoolTypeOK, PoolsByStage, ThreadKnows, Places, Phases

(* A step that moves one thread, between known places. *)
LEMMA GotoKeepsTypes ==
  ASSUME PoolTypeOK, NEW t \in Threads, NEW place \in Places, NEW what \in Phases,
         Goto(t, place, what)
  PROVE  /\ at' \in [Threads -> Places] /\ phase' \in [Threads -> Phases]
         /\ at'[t] = place /\ phase'[t] = what
         /\ \A u \in Threads : u # t => at'[u] = at[u] /\ phase'[u] = phase[u]
BY DEF PoolTypeOK, Goto

LEMMA LifespanKeeps ==
  ASSUME PoolInv, Startup \/ Close \/ Forget
  PROVE  PoolInv'
<1> USE PoolAssumption DEF PoolInv, PoolTypeOK, PoolsByStage, ThreadKnows
<1>1. CASE Startup
  <2>0. made = 0 /\ opened = {}
    BY <1>1 DEF Startup
  <2>1. made' = 1 /\ pool' = 1 /\ opened' = {1} /\ server' = "serving" /\ 1 <= MaxPools
    BY ONLY <1>1, <2>0, PoolAssumption DEF Startup
  <2>2. UNCHANGED <<at, held, phase>> /\ \A t \in Threads : at[t] = "out" /\ phase[t] = "none"
    BY <1>1 DEF Startup
  <2>3. PoolTypeOK'
    BY <1>1, <2>1, <2>2 DEF Startup
  <2> QED
    BY <2>1, <2>2, <2>3
<1>2. CASE Close
  BY <1>2 DEF Close
<1>3. CASE Forget
  BY <1>3 DEF Forget
<1> QED
  BY <1>1, <1>2, <1>3

(* A step of a thread that changes no pool. *)
LEMMA ThreadMoves ==
  ASSUME PoolInv, NEW t \in Threads, NEW place \in Places, NEW what \in Phases,
         Goto(t, place, what), UNCHANGED <<server, pool, opened, made, held>>,
         server # "down", place # "assign",
         place = "use" => held[t] # 0,
         what = "again" => server = "closed" /\ (place = "get" => pool # 0),
         what = "lost" => held[t] = 1 /\ server \in {"closing", "closed"} /\ place = "out"
  PROVE  PoolInv'
<1>1. PoolTypeOK /\ PoolsByStage /\ \A u \in Threads : ThreadKnows(u)
  BY DEF PoolInv
<1>2. /\ at' \in [Threads -> Places] /\ phase' \in [Threads -> Phases]
      /\ at'[t] = place /\ phase'[t] = what
      /\ \A u \in Threads : u # t => at'[u] = at[u] /\ phase'[u] = phase[u]
  BY <1>1, GotoKeepsTypes
<1>3. PoolTypeOK'
  BY <1>1, <1>2 DEF PoolTypeOK
<1>4. PoolsByStage'
  BY <1>1 DEF PoolsByStage
<1>5. ASSUME NEW u \in Threads PROVE ThreadKnows(u)'
  BY <1>1, <1>2 DEF ThreadKnows
<1> QED
  BY <1>3, <1>4, <1>5 DEF PoolInv

LEMMA OpensKeeps ==
  ASSUME PoolInv, NEW t \in Threads, InitOpens(t)
  PROVE  PoolInv'
<1>1. PoolTypeOK /\ PoolsByStage /\ \A u \in Threads : ThreadKnows(u)
  BY DEF PoolInv
<1>2. phase[t] \in Phases /\ made \in 0 .. MaxPools /\ pool \in 0 .. made
  BY <1>1 DEF PoolTypeOK
<1>3. server = "closed" /\ made >= 1 /\ opened = 2 .. made
  BY <1>1, <1>2 DEF InitOpens, PoolsByStage, ThreadKnows, PoolTypeOK
<1>4. /\ at' \in [Threads -> Places] /\ phase' \in [Threads -> Phases]
      /\ at'[t] = "assign" /\ phase'[t] = phase[t]
      /\ \A u \in Threads : u # t => at'[u] = at[u] /\ phase'[u] = phase[u]
  BY <1>1, <1>2, GotoKeepsTypes DEF InitOpens, Places
<1>5. made' = made + 1 /\ opened' = 2 .. made + 1 /\ server' = server /\ pool' = pool
  BY <1>2, <1>3, PoolAssumption DEF InitOpens
<1>6. /\ held' \in [Threads -> 0 .. made + 1] /\ held'[t] = made + 1
      /\ \A u \in Threads : u # t => held'[u] = held[u]
  BY <1>1, <1>2, PoolAssumption DEF InitOpens, PoolTypeOK
<1>7. PoolTypeOK'
  BY <1>1, <1>2, <1>3, <1>4, <1>5, <1>6, PoolAssumption DEF PoolTypeOK, InitOpens
<1>8. PoolsByStage'
  BY <1>1, <1>2, <1>3, <1>5, PoolAssumption DEF PoolsByStage
<1>9. ASSUME NEW u \in Threads PROVE ThreadKnows(u)'
  BY <1>1, <1>2, <1>3, <1>4, <1>5, <1>6, PoolAssumption DEF ThreadKnows, InitOpens, PoolTypeOK
<1> QED
  BY <1>7, <1>8, <1>9 DEF PoolInv

LEMMA AssignKeeps ==
  ASSUME PoolInv, NEW t \in Threads, Assign(t)
  PROVE  PoolInv'
<1>1. PoolTypeOK /\ PoolsByStage /\ \A u \in Threads : ThreadKnows(u)
  BY DEF PoolInv
<1>2. server = "closed" /\ held[t] \in 2 .. made /\ phase[t] \in Phases
  BY <1>1 DEF Assign, ThreadKnows, PoolsByStage, PoolTypeOK
<1>3. /\ at' \in [Threads -> Places] /\ phase' \in [Threads -> Phases]
      /\ at'[t] = "get" /\ phase'[t] = phase[t]
      /\ \A u \in Threads : u # t => at'[u] = at[u] /\ phase'[u] = phase[u]
  BY <1>1, <1>2, GotoKeepsTypes DEF Assign, Places
<1>4. pool' = held[t] /\ pool' \in 2 .. made /\ UNCHANGED <<server, opened, made, held>>
  BY <1>2 DEF Assign
<1>5. PoolTypeOK'
  BY <1>1, <1>2, <1>3, <1>4, PoolAssumption DEF PoolTypeOK
<1>6. PoolsByStage'
  BY <1>1, <1>2, <1>4, PoolAssumption DEF PoolsByStage, PoolTypeOK
<1>7. ASSUME NEW u \in Threads PROVE ThreadKnows(u)'
  BY <1>1, <1>2, <1>3, <1>4, PoolAssumption DEF ThreadKnows, PoolTypeOK
<1> QED
  BY <1>5, <1>6, <1>7 DEF PoolInv

LEMMA GetKeeps ==
  ASSUME PoolInv, NEW t \in Threads, GetPool(t)
  PROVE  PoolInv'
<1>1. PoolTypeOK /\ PoolsByStage /\ \A u \in Threads : ThreadKnows(u)
  BY DEF PoolInv
<1>2. phase[t] \in Phases /\ pool # 0 /\ at[t] = "get" /\ phase[t] # "lost"
  BY <1>1 DEF GetPool, PoolTypeOK, ThreadKnows
<1>3. /\ at' \in [Threads -> Places] /\ phase' \in [Threads -> Phases]
      /\ at'[t] = "use" /\ phase'[t] = phase[t]
      /\ \A u \in Threads : u # t => at'[u] = at[u] /\ phase'[u] = phase[u]
  BY <1>1, <1>2, GotoKeepsTypes DEF GetPool, Places
<1>4. /\ held' \in [Threads -> 0 .. made] /\ held'[t] = pool
      /\ \A u \in Threads : u # t => held'[u] = held[u]
      /\ UNCHANGED <<server, pool, opened, made>>
  BY <1>1 DEF GetPool, PoolTypeOK
<1>5. PoolTypeOK'
  BY <1>1, <1>3, <1>4 DEF PoolTypeOK
<1>6. PoolsByStage'
  BY <1>1, <1>4 DEF PoolsByStage
<1>7. ASSUME NEW u \in Threads PROVE ThreadKnows(u)'
  BY <1>1, <1>2, <1>3, <1>4 DEF ThreadKnows
<1> QED
  BY <1>5, <1>6, <1>7 DEF PoolInv

(* The handler's second failure is impossible without a pool, and PoolClosed can *)
(* only come from the first pool.                                                *)
LEMMA LossIsShutdown ==
  ASSUME PoolInv, NEW t \in Threads, PoolClosed(t)
  PROVE  held[t] = 1 /\ server \in {"closing", "closed"}
BY PoolAssumption DEF PoolInv, PoolTypeOK, PoolsByStage, ThreadKnows, PoolClosed

LEMMA MovesKeep ==
  ASSUME PoolInv, NEW t \in Threads,
         Accept(t) \/ InitReturns(t) \/ UseSucceeds(t) \/ NoPool(t) \/ PoolClosed(t)
  PROVE  PoolInv'
<1>1. PoolTypeOK /\ PoolsByStage /\ ThreadKnows(t) /\ phase[t] \in Phases
  BY DEF PoolInv, PoolTypeOK
<1>2. CASE Accept(t)
  BY <1>1, <1>2, ThreadMoves DEF Accept, Places, Phases
<1>3. CASE InitReturns(t)
  BY <1>1, <1>3, ThreadMoves DEF InitReturns, ThreadKnows, Places
<1>4. CASE UseSucceeds(t)
  <2>1. server # "down" /\ UNCHANGED <<server, pool, opened, made, held>>
    BY <1>1, <1>4 DEF UseSucceeds, ThreadKnows
  <2>2. PICK place \in {"get", "init", "out"}, what \in {"attempt", "persist", "recorded"} :
          Goto(t, place, what)
    BY <1>4 DEF UseSucceeds
  <2> QED
    BY <2>1, <2>2, ThreadMoves DEF Places, Phases
<1>5. CASE NoPool(t)
  <2>1. server # "down" /\ pool = 0 /\ at[t] = "get" /\ UNCHANGED <<server, pool, opened, made, held>>
    BY <1>1, <1>5 DEF NoPool, ThreadKnows
  <2>2. server = "closed" /\ phase[t] # "again"
    BY <1>1, <2>1 DEF PoolsByStage, ThreadKnows, PoolTypeOK
  <2>3. CASE Goto(t, "init", "again")
    BY <2>1, <2>2, <2>3, ThreadMoves DEF Places, Phases
  <2>4. CASE Fails(t)
    BY <2>1, <2>4, ThreadMoves DEF Fails, Places, Phases
  <2> QED
    BY <1>5, <2>2, <2>3, <2>4 DEF NoPool
<1>6. CASE PoolClosed(t)
  <2>1. server # "down" /\ UNCHANGED <<server, pool, opened, made, held>>
    BY <1>1, <1>6 DEF PoolClosed, ThreadKnows
  <2>2. CASE Goto(t, "out", "lost")
    BY <1>6, <2>1, <2>2, LossIsShutdown, ThreadMoves DEF Places, Phases
  <2>3. CASE Fails(t)
    BY <2>1, <2>3, ThreadMoves DEF Fails, Places, Phases
  <2> QED
    BY <1>6, <2>2, <2>3 DEF PoolClosed
<1> QED
  BY <1>2, <1>3, <1>4, <1>5, <1>6

LEMMA PoolInvNext == PoolInv /\ [PoolNext]_poolVars => PoolInv'
<1> SUFFICES ASSUME PoolInv, [PoolNext]_poolVars PROVE PoolInv'
  OBVIOUS
<1>1. CASE UNCHANGED poolVars
  BY <1>1 DEF PoolInv, PoolTypeOK, PoolsByStage, ThreadKnows, poolVars
<1>2. CASE Startup \/ Close \/ Forget
  BY <1>2, LifespanKeeps
<1>3. ASSUME NEW t \in Threads, Thread(t) PROVE PoolInv'
  BY <1>3, OpensKeeps, AssignKeeps, GetKeeps, MovesKeep DEF Thread
<1> QED
  BY <1>1, <1>2, <1>3 DEF PoolNext

-----------------------------------------------------------------------------
(* The invariant holds in every reachable state, for any number of threads. *)
THEOREM PoolInvariant == PoolSpec => []PoolInv
BY PoolInvInit, PoolInvNext, PTL DEF PoolSpec

(* While the server serves, the global pool is the only open one. *)
THEOREM AlwaysOnePool == PoolSpec => []OnePoolWhileServing
<1>1. PoolInv => OnePoolWhileServing
  BY DEF PoolInv, PoolsByStage, OnePoolWhileServing
<1> QED
  BY PoolInvariant, <1>1, PTL

(* A run's outcome is lost only if its thread held the pool the lifespan closed. *)
THEOREM OutcomesLostOnlyToShutdown == PoolSpec => []LostOnlyToShutdown
<1>1. PoolInv => LostOnlyToShutdown
  BY DEF PoolInv, ThreadKnows, LostOnlyToShutdown
<1> QED
  BY PoolInvariant, <1>1, PTL

-----------------------------------------------------------------------------
(* AuditAttempt: the crew and its report.                                  *)

\* A call of the audit service.
CallType ==
  [stage : {"idle", "attempt", "crew", "complete"}, try : 0 .. MaxTries, figures : FiguresType,
   answer : SUBSET CrewOutputs, moments : SUBSET ((States \union {0}) \X (States \union {0}))]

\* The figures of a moment.
FiguresAt(m) ==
  [base |-> Trust[m[1]], hours |-> GhostHours[m[1]], none |-> NoneRatio[m[2]], vague |-> VagueRatio[m[2]]]

\* The inductive invariant: the figures of a call are of one moment it has
\* seen, and the answer it holds is usable.
AttemptInv ==
  /\ AttemptTypeOK
  /\ auditCall \in CallType
  /\ auditCall.stage # "idle" => Moment \in auditCall.moments
  /\ auditCall.stage \in {"crew", "complete"} =>
       \E m \in auditCall.moments : auditCall.figures = FiguresAt(m)
  /\ \A a, b \in auditCall.answer : a = b /\ ~ Unusable(a)

\* The bounds are numbers.
LEMMA TriesAssumption == MaxTries \in Nat \ {0} /\ MaxRefreshes \in Nat
BY AuditAttemptAssumption

\* No call.
LEMMA NoCallFields ==
  /\ NoCall \in CallType
  /\ NoCall.stage = "idle" /\ NoCall.answer = {}
BY AuditAttemptAssumption DEF NoCall, CallType, NoFigures, FiguresType

\* Moving a call.
LEMMA StartEdit ==
  ASSUME NEW moments \in SUBSET ((States \union {0}) \X (States \union {0})),
         NEW y, y = [NoCall EXCEPT !.stage = "attempt", !.try = 1, !.moments = moments]
  PROVE  y \in CallType /\ y.stage = "attempt" /\ y.answer = {} /\ y.moments = moments
<1>1. NoCall \in CallType /\ NoCall.answer = {} /\ 1 \in 0 .. MaxTries
  BY NoCallFields, TriesAssumption
<1> QED
  BY ONLY <1>1, y = [NoCall EXCEPT !.stage = "attempt", !.try = 1, !.moments = moments] DEF CallType

\* ... to the crew, with figures.
LEMMA FiguresEdit ==
  ASSUME NEW x \in CallType, NEW figures \in FiguresType,
         NEW y, y = [x EXCEPT !.stage = "crew", !.figures = figures]
  PROVE  /\ y \in CallType /\ y.stage = "crew" /\ y.figures = figures
         /\ y.answer = x.answer /\ y.moments = x.moments
BY DEF CallType

\* ... to its end, with an answer.
LEMMA AnswerEdit ==
  ASSUME NEW x \in CallType, NEW answer \in CrewOutputs,
         NEW y, y = [x EXCEPT !.stage = "complete", !.answer = {answer}]
  PROVE  /\ y \in CallType /\ y.stage = "complete" /\ y.figures = x.figures
         /\ y.answer = {answer} /\ y.moments = x.moments
BY DEF CallType

\* ... to another try.
LEMMA TryEdit ==
  ASSUME NEW x \in CallType, NEW n \in 0 .. MaxTries,
         NEW y, y = [x EXCEPT !.stage = "attempt", !.try = n, !.answer = {}]
  PROVE  /\ y \in CallType /\ y.stage = "attempt"
         /\ y.answer = {} /\ y.moments = x.moments
BY DEF CallType

\* ... and the moments it remembers.
LEMMA MomentEdit ==
  ASSUME NEW x \in CallType, NEW m \in (States \union {0}) \X (States \union {0}),
         NEW y, y = [x EXCEPT !.moments = @ \union {m}]
  PROVE  /\ y \in CallType /\ y.stage = x.stage /\ y.figures = x.figures
         /\ y.answer = x.answer /\ y.moments = x.moments \union {m}
BY DEF CallType

\* The score derived from figures: within the scale, never above the base, and
\* within rounding of the base less both deductions.
LEMMA AdjustedBounds ==
  ASSUME NEW f \in FiguresType
  PROVE  /\ Adjusted(f) \in 0 .. 1000
         /\ Adjusted(f) <= f.base
         /\ 10 * Adjusted(f) + 5 >= 10 * f.base - 4 * f.none - 2 * f.vague
<1>1. f.base \in 0 .. 1000 /\ f.none \in 0 .. 1000 /\ f.vague \in 0 .. 1000
  BY DEF FiguresType
<1>2. PICK b \in 0 .. 1000 : f.base = b
  BY <1>1
<1>3. PICK n \in 0 .. 1000 : f.none = n
  BY <1>1
<1>4. PICK v \in 0 .. 1000 : f.vague = v
  BY <1>1
<1> DEFINE t == 10 * b - 4 * n - 2 * v
<1>5. PICK a : a = Adjusted(f) /\ a = IF t < 0 THEN 0 ELSE (t + 5) \div 10
  BY <1>2, <1>3, <1>4, Zenon DEF Adjusted
<1>6. t \in Int /\ t <= 10 * b
  OBVIOUS
<1> HIDE DEF t
<1>7. a \in 0 .. 1000 /\ a <= b /\ 10 * a + 5 >= t
  <2>1. CASE t < 0
    BY <1>5, <1>6, <2>1
  <2>2. CASE ~ (t < 0)
    <3>1. a = (t + 5) \div 10
      BY <1>5, <2>2
    <3>2. a \in Int /\ 10 * a <= t + 5 /\ t + 5 < 10 * a + 10
      BY ONLY <1>6, <3>1
    <3> QED
      BY ONLY <1>6, <2>2, <3>2, b \in 0 .. 1000
  <2> QED
    BY <2>1, <2>2
<1> QED
  BY <1>2, <1>5, <1>7, <1>3, <1>4 DEF t

\* A report is typed.
LEMMA ReportTyped ==
  ASSUME auditCall \in CallType, NEW answer \in auditCall.answer, ~ Unusable(answer)
  PROVE  ReportOf(answer) \in [figures : FiguresType, trust : 0 .. 1000, priority : Priorities, tool : BOOLEAN]
<1>1. /\ auditCall.figures \in FiguresType /\ answer \in CrewOutputs
      /\ answer.trust \subseteq 0 .. 1000
      /\ answer.format = "pydantic" => answer.figures \in FiguresType
      /\ answer.priority \subseteq Priorities
  BY AuditAttemptAssumption DEF CallType, Unusable, Priorities
<1>2. ScoresOf(answer) \subseteq 0 .. 1000
  BY <1>1, AdjustedBounds DEF ScoresOf
<1>3. TrustOf(answer) \in 0 .. 1000
  <2>1. CASE ScoresOf(answer) = {}
    BY <1>1, <2>1, AdjustedBounds DEF TrustOf, Merged
  <2>2. CASE ScoresOf(answer) # {}
    <3>1. TrustOf(answer) = CHOOSE trust \in ScoresOf(answer) : TRUE
      BY <2>2 DEF TrustOf
    <3> QED
      BY <1>2, <2>2, <3>1
  <2> QED
    BY <2>1, <2>2
<1>4. \A h \in Nat, t \in Int : PriorityOf(h, t) \in Priorities
  BY DEF PriorityOf, Priorities
<1>5. PriorityGiven(answer) \subseteq Priorities
  <2>1. CASE answer.format = "pydantic" /\ answer.priority = {}
    <3>1. answer.figures.hours \in Nat
      BY <1>1, <2>1 DEF FiguresType
    <3>2. PriorityGiven(answer) = {PriorityOf(answer.figures.hours, trust) : trust \in ScoresOf(answer)}
      BY <2>1 DEF PriorityGiven
    <3> QED
      BY <1>2, <1>4, <3>1, <3>2
  <2>2. CASE ~ (answer.format = "pydantic" /\ answer.priority = {})
    BY <1>1, <2>2, Zenon DEF PriorityGiven
  <2> QED
    BY <2>1, <2>2
<1>6. ReportOf(answer).priority \in Priorities
  <2>1. ReportOf(answer).priority =
          IF PriorityGiven(answer) = {} THEN PriorityOf(auditCall.figures.hours, TrustOf(answer))
          ELSE CHOOSE p \in PriorityGiven(answer) : TRUE
    BY DEF ReportOf, Merged
  <2>2. auditCall.figures.hours \in Nat /\ TrustOf(answer) \in Int
    BY <1>1, <1>3 DEF FiguresType
  <2>3. PriorityOf(auditCall.figures.hours, TrustOf(answer)) \in Priorities
    BY <1>4, <2>2, Zenon
  <2> QED
    BY <1>5, <2>1, <2>3
<1>7. UsesLookup(auditCall.figures) \in BOOLEAN
  BY DEF UsesLookup
<1> QED
  BY <1>1, <1>3, <1>6, <1>7 DEF ReportOf, Merged

\* A failed try: another one, or the end of the call.
LEMMA NextTryKeeps ==
  ASSUME AttemptInv, auditCall.stage # "idle",
         auditCall' \in {NoCall, NextTry}, UNCHANGED <<dayTasks, dayGhost, refreshes>>,
         kept' \subseteq [figures : FiguresType, trust : 0 .. 1000, priority : Priorities, tool : BOOLEAN]
  PROVE  AttemptInv'
<1> USE DEF AttemptInv, AttemptTypeOK
<1>1. CASE auditCall' = NoCall
  BY <1>1, NoCallFields DEF CallType
<1>2. CASE auditCall' = [auditCall EXCEPT !.stage = "attempt", !.try = @ + 1, !.answer = {}] /\ auditCall.try < MaxTries
  <2>1. /\ auditCall' \in CallType /\ auditCall'.stage = "attempt"
        /\ auditCall'.answer = {} /\ auditCall'.moments = auditCall.moments
    <3> DEFINE n == auditCall.try + 1
    <3>1. n \in 0 .. MaxTries
      BY <1>2, TriesAssumption DEF CallType
    <3>2. auditCall' = [auditCall EXCEPT !.stage = "attempt", !.try = n, !.answer = {}]
      BY <1>2
    <3> HIDE DEF n
    <3> QED
      BY ONLY <3>1, <3>2, auditCall \in CallType DEF CallType
  <2> QED
    BY <2>1 DEF CallType, Moment
<1> QED
  BY <1>1, <1>2 DEF NextTry

\* At first there is no call.
LEMMA AttemptInvInit == AttemptInit => AttemptInv
BY NoCallFields, AuditAttemptAssumption DEF AttemptInit, AttemptInv, AttemptTypeOK, CallType

\* The day changes, and the call remembers it.
LEMMA RememberKeeps ==
  ASSUME AttemptInv, dayTasks' \in States \union {0}, dayGhost' \in States \union {0},
         auditCall' = Remember(auditCall), kept' = kept, refreshes' \in 0 .. MaxRefreshes
  PROVE  AttemptInv'
<1> USE DEF AttemptInv, AttemptTypeOK
<1>1. CASE auditCall.stage = "idle"
  BY <1>1 DEF Remember, Unusable
<1>2. CASE auditCall.stage # "idle"
  <2>1. auditCall' = [auditCall EXCEPT !.moments = @ \union {<<dayGhost', dayTasks'>>}]
    BY <1>2 DEF Remember
  <2>2. <<dayGhost', dayTasks'>> \in (States \union {0}) \X (States \union {0})
    OBVIOUS
  <2>3. /\ auditCall' \in CallType /\ auditCall'.stage = auditCall.stage
        /\ auditCall'.figures = auditCall.figures /\ auditCall'.answer = auditCall.answer
        /\ auditCall'.moments = auditCall.moments \union {<<dayGhost', dayTasks'>>}
    BY <2>1, <2>2, MomentEdit
  <2> QED
    BY <2>3 DEF CallType, Moment, Unusable, FiguresAt
<1> QED
  BY <1>1, <1>2

\* Every step preserves the invariant.
LEMMA AttemptInvNext == AttemptInv /\ [AttemptNext]_attemptVars => AttemptInv'
<1> SUFFICES ASSUME AttemptInv, [AttemptNext]_attemptVars PROVE AttemptInv'
  OBVIOUS
<1>1. CASE UNCHANGED attemptVars
  BY <1>1 DEF attemptVars, AttemptInv, AttemptTypeOK, Moment, Unusable
<1>2. CASE RefreshTasks
  BY <1>2, RememberKeeps, AuditAttemptAssumption DEF RefreshTasks, AttemptInv, AttemptTypeOK
<1>3. CASE AssessGhost
  BY <1>3, RememberKeeps, AuditAttemptAssumption DEF AssessGhost, AttemptInv, AttemptTypeOK
<1>4. CASE StartAudit
  <2>1. Moment \in (States \union {0}) \X (States \union {0})
    BY DEF AttemptInv, AttemptTypeOK, Moment
  <2>2. /\ auditCall' \in CallType /\ auditCall'.stage = "attempt" /\ auditCall'.answer = {}
        /\ auditCall'.moments = {Moment}
    <3> DEFINE m == {Moment}
    <3>1. auditCall' = [NoCall EXCEPT !.stage = "attempt", !.try = 1, !.moments = m]
      BY <1>4 DEF StartAudit
    <3>2. m \in SUBSET ((States \union {0}) \X (States \union {0})) /\ 1 \in 0 .. MaxTries
      BY <2>1, TriesAssumption
    <3> HIDE DEF m
    <3>3. /\ auditCall' \in CallType /\ auditCall'.stage = "attempt" /\ auditCall'.answer = {}
          /\ auditCall'.moments = m
      BY ONLY <3>1, <3>2, NoCallFields DEF CallType
    <3> QED
      BY <3>3 DEF m
  <2> QED
    BY <1>4, <2>2 DEF StartAudit, AttemptInv, AttemptTypeOK, CallType, Moment
<1>5. CASE FetchPayload
  <2>0. dayTasks \in States \union {0} /\ dayGhost \in States \union {0}
    BY DEF AttemptInv, AttemptTypeOK
  <2>1. FiguresNow = FiguresAt(Moment) /\ FiguresNow \in FiguresType
    <3>1. FiguresNow = FiguresAt(Moment)
      BY DEF FiguresNow, FiguresAt, Moment
    <3>2. FiguresNow \in FiguresType
      BY <2>0, AuditAttemptAssumption DEF FiguresNow, FiguresType
    <3> QED
      BY <3>1, <3>2
  <2>2. /\ auditCall' \in CallType /\ auditCall'.stage = "crew" /\ auditCall'.figures = FiguresNow
        /\ auditCall'.answer = auditCall.answer /\ auditCall'.moments = auditCall.moments
    BY <1>5, <2>1, FiguresEdit DEF FetchPayload, AttemptInv, CallType
  <2> QED
    BY <1>5, <2>1, <2>2 DEF FetchPayload, AttemptInv, AttemptTypeOK, CallType, Moment, Unusable
<1>6. ASSUME NEW answer \in CrewOutputs, CrewAnswers(answer) PROVE AttemptInv'
  <2>1. /\ auditCall' \in CallType /\ auditCall'.stage = "complete" /\ auditCall'.figures = auditCall.figures
        /\ auditCall'.answer = {answer} /\ auditCall'.moments = auditCall.moments
    BY <1>6, AnswerEdit DEF CrewAnswers, AttemptInv, CallType
  <2> QED
    BY <1>6, <2>1 DEF CrewAnswers, AttemptInv, AttemptTypeOK, CallType, Moment, Unusable, FiguresAt
<1>7. CASE AttemptRaises
  BY <1>7, NextTryKeeps DEF AttemptRaises, AttemptInv, AttemptTypeOK
<1>8. CASE StoreReport
  <2>1. kept' \subseteq [figures : FiguresType, trust : 0 .. 1000, priority : Priorities, tool : BOOLEAN]
    BY <1>8, ReportTyped DEF StoreReport, AttemptInv
  <2> QED
    BY <1>8, <2>1, NextTryKeeps DEF StoreReport
<1> QED
  BY <1>1, <1>2, <1>3, <1>4, <1>5, <1>6, <1>7, <1>8 DEF AttemptNext

\* For any figures, answers, changes of the day and number of tries: the
\* invariant.
THEOREM AttemptInvariant == AttemptSpec => []AttemptInv
BY AttemptInvInit, AttemptInvNext, PTL DEF AttemptSpec

\* What is stored of a usable answer.
LEMMA StoredShowsTheDay ==
  ASSUME AttemptInv, [AttemptNext]_attemptVars, kept' # kept,
         NEW report \in kept', NEW answer \in auditCall.answer
  PROVE  /\ \E m \in auditCall.moments :
              report.figures = [base |-> Trust[m[1]], hours |-> GhostHours[m[1]],
                                none |-> NoneRatio[m[2]], vague |-> VagueRatio[m[2]]]
         /\ report.tool <=> report.figures.hours >= 4
         /\ answer.format # "pydantic" /\ answer.trust = {} =>
              LET f == report.figures
              IN  /\ report.trust <= f.base
                  /\ 10 * report.trust + 5 >= 10 * f.base - 4 * f.none - 2 * f.vague
         /\ answer.format # "pydantic" /\ answer.priority = {}
              /\ (report.figures.hours >= 4 \/ report.trust < 400)
              => report.priority = "high"
<1>1. StoreReport
  BY DEF AttemptNext, attemptVars, RefreshTasks, AssessGhost, StartAudit, FetchPayload, CrewAnswers,
         AttemptRaises
<1>2. report = ReportOf(answer) /\ auditCall.stage = "complete"
  BY <1>1 DEF StoreReport, AttemptInv
<1>3. /\ report.figures = auditCall.figures /\ report.trust = TrustOf(answer)
      /\ report.tool = UsesLookup(auditCall.figures)
      /\ PriorityGiven(answer) = {} =>
           report.priority = PriorityOf(auditCall.figures.hours, TrustOf(answer))
  BY <1>2 DEF ReportOf, Merged
<1>4. auditCall.figures \in FiguresType
  BY DEF AttemptInv, CallType
<1>5. \E m \in auditCall.moments : report.figures = FiguresAt(m)
  BY <1>2, <1>3 DEF AttemptInv
<1>6. answer.format # "pydantic" /\ answer.trust = {} => TrustOf(answer) = Adjusted(auditCall.figures)
  BY DEF TrustOf, ScoresOf, Merged
<1>7. answer.format # "pydantic" /\ answer.priority = {} => PriorityGiven(answer) = {}
  BY DEF PriorityGiven
<1>8. answer.format # "pydantic" /\ answer.trust = {} =>
        LET f == report.figures
        IN  /\ report.trust <= f.base
            /\ 10 * report.trust + 5 >= 10 * f.base - 4 * f.none - 2 * f.vague
  BY <1>3, <1>4, <1>6, AdjustedBounds
<1>9. (report.figures.hours >= 4 \/ report.trust < 400)
        => PriorityOf(auditCall.figures.hours, TrustOf(answer)) = "high"
  BY <1>3, Zenon DEF PriorityOf
<1>10. report.tool <=> report.figures.hours >= 4
  BY <1>3 DEF UsesLookup
<1> QED
  BY <1>3, <1>5, <1>7, <1>8, <1>9, <1>10 DEF FiguresAt

\* ReportsShowTheDay: a stored report shows figures of one moment of its run,
\* and scores that follow from them.
THEOREM ReportsAreTheDay == AttemptSpec => ReportsShowTheDay
<1>1. AttemptInv /\ [AttemptNext]_attemptVars => [StoresTheDay]_attemptVars
  BY StoredShowsTheDay DEF StoresTheDay
<1> QED
  BY <1>1, AttemptInvariant, PTL DEF AttemptSpec, ReportsShowTheDay

-----------------------------------------------------------------------------
(* Notifier: alerts and their log.                                         *)

\* What an alert that is still to be logged, or was, has in the log and the chats.
AlertOK(a) ==
  /\ alert[a].stage # "returned" => LogRows(a) = {}
  /\ alert[a].stage = "returned" =>
       LogRows(a) = {[alert |-> a, channel |-> Channel(a),
                      delivered |-> alert[a].outcome = "delivered"]}
  /\ alert[a].stage \in {"new", "opened"} =>
       alert[a].outcome = "unknown" /\ \A c \in Chats : a \notin chats[c]
  /\ alert[a].outcome = "delivered" => a \in chats[Chat(a)]
  /\ \A c \in Chats : a \in chats[c] => c = Chat(a)

\* The inductive invariant.
NotifierInv == NotifierTypeOK /\ \A a \in Alerts : AlertOK(a)

-----------------------------------------------------------------------------
\* Every alert has a channel and a chat.
LEMMA ChannelTypes ==
  ASSUME NEW a \in Alerts
  PROVE  Channel(a) \in Chats \union {"admin_fallback"} /\ Chat(a) \in Chats
BY DEF Channel, Chat, ChatOf, Chats

\* At first nothing is sent.
LEMMA NotifierInvInit == NotifierInit => NotifierInv
BY DEF NotifierInit, NotifierInv, NotifierTypeOK, AlertOK, Call, LogRow, LogRows, Levels, Chats

\* The other alerts keep what they have.
LEMMA OneAlertMoves ==
  ASSUME NotifierInv, NEW a \in Alerts, NEW new \in Call, alert' = [alert EXCEPT ![a] = new],
         log' \subseteq LogRow, chats' \in [Chats -> SUBSET Alerts],
         \A row \in LogRow : row.alert # a => (row \in log' <=> row \in log),
         \A b \in Alerts \ {a} : \A c \in Chats : b \in chats'[c] <=> b \in chats[c],
         AlertOK(a)'
  PROVE  NotifierInv'
<1>1. alert \in [Alerts -> Call] /\ log \subseteq LogRow
  BY DEF NotifierInv, NotifierTypeOK
<1>2. NotifierTypeOK'
  BY <1>1 DEF NotifierTypeOK
<1>3. ASSUME NEW b \in Alerts \ {a} PROVE AlertOK(b)'
  <2>1. alert'[b] = alert[b]
    BY <1>1
  <2>2. Channel(b)' = Channel(b)
    BY <2>1 DEF Channel
  <2>3. Chat(b)' = Chat(b) /\ Chat(b) \in Chats
    BY <2>2, ChannelTypes DEF Chat
  <2>4. LogRows(b)' = LogRows(b)
    BY <1>1 DEF LogRows
  <2>5. AlertOK(b)
    BY DEF NotifierInv
  <2> QED
    BY <2>1, <2>2, <2>3, <2>4, <2>5 DEF AlertOK
<1> QED
  BY <1>2, <1>3 DEF NotifierInv

\* Now changes nothing of a call but its stage and its outcome.
LEMMA NowMoves ==
  ASSUME NotifierInv, NEW a \in Alerts, NEW stage \in {"sent", "returned", "raised"},
         NEW outcome \in {"unknown", "delivered", "error"}, Now(a, stage, outcome)
  PROVE  \E new \in Call : /\ alert' = [alert EXCEPT ![a] = new] /\ alert'[a] = new
                           /\ new.stage = stage /\ new.outcome = outcome
                           /\ Channel(a)' = Channel(a) /\ Chat(a)' = Chat(a)
<1> DEFINE new == [alert[a] EXCEPT !.stage = stage, !.outcome = outcome]
<1>1. alert \in [Alerts -> Call] /\ alert[a] \in Call
  BY DEF NotifierInv, NotifierTypeOK
<1>2. /\ new \in Call /\ new.stage = stage /\ new.outcome = outcome
      /\ new.level = alert[a].level /\ new.configured = alert[a].configured
  BY <1>1 DEF Call
<1>3. alert' = [alert EXCEPT ![a] = new]
  BY <1>1 DEF Now
<1> HIDE DEF new
<1>4. alert'[a] = new
  BY <1>1, <1>3
<1>5. Channel(a)' = Channel(a)
  BY <1>2, <1>4 DEF Channel
<1> QED
  BY <1>2, <1>3, <1>4, <1>5 DEF Chat

\* An alert is sent or not.
LEMMA OpenAlertKeeps ==
  ASSUME NotifierInv, NEW a \in Alerts, OpenAlert(a)
  PROVE  NotifierInv'
<1>1. PICK stage \in {"opened", "raised"} :
        \E level \in Levels, settings \in SUBSET (Chats \union {"token"}) :
          alert' = [alert EXCEPT ![a] =
            [stage |-> stage, level |-> level, configured |-> settings, outcome |-> "unknown"]]
  BY DEF OpenAlert
<1>2. PICK level \in Levels :
        \E settings \in SUBSET (Chats \union {"token"}) :
          alert' = [alert EXCEPT ![a] =
            [stage |-> stage, level |-> level, configured |-> settings, outcome |-> "unknown"]]
  BY <1>1
<1>3. PICK settings \in SUBSET (Chats \union {"token"}) :
        alert' = [alert EXCEPT ![a] =
          [stage |-> stage, level |-> level, configured |-> settings, outcome |-> "unknown"]]
  BY <1>2
<1> DEFINE new == [stage |-> stage, level |-> level, configured |-> settings, outcome |-> "unknown"]
<1>4. new \in Call /\ new.stage \in {"opened", "raised"} /\ new.outcome = "unknown"
  BY DEF Call
<1>5. alert' = [alert EXCEPT ![a] = new]
  BY <1>3
<1> HIDE DEF new
<1>6. /\ alert \in [Alerts -> Call] /\ UNCHANGED <<chats, log>> /\ AlertOK(a) /\ alert[a].stage = "new"
      /\ chats \in [Chats -> SUBSET Alerts] /\ log \subseteq LogRow
  BY DEF NotifierInv, NotifierTypeOK, OpenAlert
<1>7. alert'[a] = new
  BY <1>5, <1>6
<1>8. AlertOK(a)'
  <2>1. LogRows(a)' = {} /\ \A c \in Chats : a \notin chats'[c]
    BY <1>6 DEF AlertOK, LogRows
  <2> QED
    BY <1>4, <1>7, <2>1 DEF AlertOK
<1> QED
  BY <1>4, <1>5, <1>6, <1>8, OneAlertMoves

\* The message is sent, or not, and what is believed of it is true.
LEMMA SendKeeps ==
  ASSUME NotifierInv, NEW a \in Alerts, alert[a].stage = "opened",
         NEW outcome \in {"delivered", "error"}, Now(a, "sent", outcome), UNCHANGED log,
         \/ chats' = [chats EXCEPT ![Chat(a)] = @ \union {a}]
         \/ outcome = "error" /\ UNCHANGED chats
  PROVE  NotifierInv'
<1>1. PICK new \in Call : /\ alert' = [alert EXCEPT ![a] = new] /\ alert'[a] = new
                          /\ new.stage = "sent" /\ new.outcome = outcome
                          /\ Channel(a)' = Channel(a) /\ Chat(a)' = Chat(a)
  BY NowMoves
<1>2. /\ Chat(a) \in Chats /\ chats \in [Chats -> SUBSET Alerts] /\ log \subseteq LogRow /\ AlertOK(a)
  BY ChannelTypes DEF NotifierInv, NotifierTypeOK
<1>3. /\ chats' \in [Chats -> SUBSET Alerts]
      /\ \A b \in Alerts \ {a} : \A c \in Chats : b \in chats'[c] <=> b \in chats[c]
      /\ \A c \in Chats : a \in chats'[c] => c = Chat(a)
      /\ outcome = "delivered" => a \in chats'[Chat(a)]
  BY <1>2 DEF AlertOK
<1>4. LogRows(a)' = {}
  BY <1>2 DEF AlertOK, LogRows
<1>5. AlertOK(a)'
  BY <1>1, <1>2, <1>3, <1>4 DEF AlertOK
<1> QED
  BY <1>1, <1>2, <1>3, <1>5, OneAlertMoves

\* It is logged.
LEMMA LogAttemptKeeps ==
  ASSUME NotifierInv, NEW a \in Alerts, LogAttempt(a)
  PROVE  NotifierInv'
<1> DEFINE row == [alert |-> a, channel |-> Channel(a), delivered |-> alert[a].outcome = "delivered"]
           outcome == alert[a].outcome
<1>1. /\ alert[a].stage = "sent" /\ log' = log \union {row} /\ Now(a, "returned", outcome)
      /\ UNCHANGED chats
  BY DEF LogAttempt
<1>2. /\ chats \in [Chats -> SUBSET Alerts] /\ log \subseteq LogRow /\ AlertOK(a) /\ alert[a] \in Call
  BY DEF NotifierInv, NotifierTypeOK
<1>3. outcome \in {"unknown", "delivered", "error"}
  BY <1>2 DEF Call
<1>4. PICK new \in Call : /\ alert' = [alert EXCEPT ![a] = new] /\ alert'[a] = new
                          /\ new.stage = "returned" /\ new.outcome = outcome
                          /\ Channel(a)' = Channel(a) /\ Chat(a)' = Chat(a)
  BY <1>1, <1>3, NowMoves
<1>5. row \in LogRow /\ row.alert = a
  BY ChannelTypes DEF LogRow
<1>6. LogRows(a)' = {row}
  <2>1. LogRows(a) = {}
    BY <1>1, <1>2 DEF AlertOK
  <2> HIDE DEF row
  <2> QED
    BY <1>1, <1>5, <2>1 DEF LogRows
<1>7. AlertOK(a)'
  <2>1. row = [alert |-> a, channel |-> Channel(a)', delivered |-> alert'[a].outcome = "delivered"]
    BY <1>4
  <2> HIDE DEF row
  <2> QED
    BY <1>1, <1>2, <1>4, <1>6, <2>1 DEF AlertOK
<1>8. log' \subseteq LogRow /\ \A other \in LogRow : other.alert # a => (other \in log' <=> other \in log)
  <2> HIDE DEF row
  <2> QED
    BY <1>1, <1>2, <1>5
<1> QED
  BY <1>1, <1>2, <1>4, <1>7, <1>8, OneAlertMoves

\* The log fails, or the call.
LEMMA LogFailsKeeps ==
  ASSUME NotifierInv, NEW a \in Alerts, LogFails(a)
  PROVE  NotifierInv'
<1> DEFINE outcome == alert[a].outcome
<1>1. /\ alert[a].stage \in {"opened", "sent"} /\ Now(a, "raised", outcome) /\ UNCHANGED <<chats, log>>
  BY DEF LogFails
<1>2. /\ chats \in [Chats -> SUBSET Alerts] /\ log \subseteq LogRow /\ AlertOK(a) /\ alert[a] \in Call
  BY DEF NotifierInv, NotifierTypeOK
<1>3. outcome \in {"unknown", "delivered", "error"}
  BY <1>2 DEF Call
<1>4. PICK new \in Call : /\ alert' = [alert EXCEPT ![a] = new] /\ alert'[a] = new
                          /\ new.stage = "raised" /\ new.outcome = outcome
                          /\ Channel(a)' = Channel(a) /\ Chat(a)' = Chat(a)
  BY <1>1, <1>3, NowMoves
<1>5. LogRows(a)' = {}
  BY <1>1, <1>2 DEF AlertOK, LogRows
<1>6. AlertOK(a)'
  BY <1>1, <1>2, <1>4, <1>5 DEF AlertOK
<1> QED
  BY <1>1, <1>2, <1>4, <1>6, OneAlertMoves

\* Every step preserves the invariant.
LEMMA NotifierInvNext == NotifierInv /\ [NotifierNext]_notifierVars => NotifierInv'
<1> SUFFICES ASSUME NotifierInv, [NotifierNext]_notifierVars PROVE NotifierInv'
  OBVIOUS
<1>1. CASE UNCHANGED notifierVars
  BY <1>1 DEF notifierVars, NotifierInv, NotifierTypeOK, AlertOK, LogRows, Channel, Chat
<1>2. ASSUME NEW a \in Alerts, NotSendable(a) PROVE NotifierInv'
  BY <1>2, SendKeeps DEF NotSendable
<1>3. ASSUME NEW a \in Alerts, Accepted(a) PROVE NotifierInv'
  BY <1>3, SendKeeps DEF Accepted
<1>4. ASSUME NEW a \in Alerts, Rejected(a) PROVE NotifierInv'
  BY <1>4, SendKeeps DEF Rejected
<1> QED
  BY <1>1, <1>2, <1>3, <1>4, OpenAlertKeeps, LogAttemptKeeps, LogFailsKeeps DEF NotifierNext

\* For any number of alerts at once: the invariant.
THEOREM NotifierInvariant == NotifierSpec => []NotifierInv
BY NotifierInvInit, NotifierInvNext, PTL DEF NotifierSpec

\* LogMatchesChats: the log says delivered only of what reached its chat.
THEOREM LogsMatchTheChats == NotifierSpec => []LogMatchesChats
<1>1. NotifierInv => LogMatchesChats
  <2> SUFFICES ASSUME NotifierInv PROVE LogMatchesChats
    OBVIOUS
  <2>1. \A a \in Alerts : AlertOK(a) /\ alert[a] \in Call /\ Chat(a) \in Chats
    BY ChannelTypes DEF NotifierInv, NotifierTypeOK
  <2>2. ASSUME NEW a \in Alerts, alert[a].stage = "returned" PROVE Cardinality(LogRows(a)) = 1
    <3>1. \E row : LogRows(a) = {row}
      BY <2>1, <2>2 DEF AlertOK
    <3> QED
      BY <3>1, FS_Singleton
  <2>3. ASSUME NEW row \in log, row.delivered PROVE row.alert \in chats[ChatOf(row.channel)]
    <3>1. row.alert \in Alerts /\ row \in LogRows(row.alert)
      BY DEF NotifierInv, NotifierTypeOK, LogRow, LogRows
    <3>2. PICK a \in Alerts : a = row.alert
      BY <3>1
    <3>3. row = [alert |-> a, channel |-> Channel(a), delivered |-> alert[a].outcome = "delivered"]
      BY <2>1, <3>1, <3>2 DEF AlertOK
    <3>4. a \in chats[Chat(a)] /\ row.channel = Channel(a)
      BY <2>1, <2>3, <3>3 DEF AlertOK
    <3> QED
      BY <3>2, <3>4 DEF Chat
  <2>4. ASSUME NEW c \in Chats, NEW a \in chats[c]
        PROVE  ChatOf(Channel(a)) = c /\ (LogRows(a) # {} \/ alert[a].stage \in {"sent", "raised"})
    <3>1. a \in Alerts
      BY DEF NotifierInv, NotifierTypeOK
    <3>2. c = Chat(a) /\ alert[a].stage \notin {"new", "opened"}
      BY <2>1, <2>4, <3>1 DEF AlertOK
    <3>3. alert[a].stage \in {"returned", "sent", "raised"}
      BY <2>1, <3>1, <3>2 DEF Call
    <3>4. alert[a].stage = "returned" => LogRows(a) # {}
      BY <2>1, <3>1 DEF AlertOK
    <3> QED
      BY <3>2, <3>3, <3>4 DEF Chat
  <2> QED
    BY <2>2, <2>3, <2>4 DEF LogMatchesChats
<1> QED
  BY <1>1, NotifierInvariant, PTL

-----------------------------------------------------------------------------
(* HealthCheck: the monitor.                                               *)

\* Without a connection the data checks are skipped.
NoConnection == "broken" \in {found["reachable"], found["pool"]}

\* A check that was made.
Made(c) == found[c] # "unchecked"

\* The checks are made one after the other, and only a missing connection skips any.
InOrder ==
  \A c \in Checks :
    After[c] = step \/ (After[c] \in Checks /\ Made(After[c]))
      => Made(c) \/ (After[c] = "units" /\ NoConnection)

\* What is still to come, and the end.
StillToCome ==
  /\ step = "reachable" => \A c \in Checks : ~ Made(c)
  /\ step = "pool" => \A c \in Checks \ {"reachable"} : ~ Made(c)
  /\ step \in Checks => ~ Made("units")
  /\ step # "ended" => exitCode = {}

\* A check finds only what it may.
AsMayBe == \A c \in Checks : Made(c) => found[c] \in MayFind[c]

\* The inductive invariant: the verdict is about all checks because they
\* were made in order.
HealthInv == HealthTypeOK /\ AsMayBe /\ InOrder /\ StillToCome /\ ExitCodeTruthful

-----------------------------------------------------------------------------
\* The checks, and their order.
LEMMA ChecksAre ==
  /\ Checks = {"reachable", "pool", "raw", "normalized", "audits", "volume", "errorRate",
               "failedLastHour", "confirmed", "api", "units"}
  /\ After["reachable"] = "pool" /\ After["pool"] = "raw" /\ After["raw"] = "normalized"
  /\ After["normalized"] = "audits" /\ After["audits"] = "volume" /\ After["volume"] = "errorRate"
  /\ After["errorRate"] = "failedLastHour" /\ After["failedLastHour"] = "confirmed"
  /\ After["confirmed"] = "api" /\ After["api"] = "units" /\ After["units"] = "verdict"
BY DEF Checks, After

\* A check finds findings.
LEMMA MayFindFindings == \A c \in Checks : MayFind[c] \subseteq Findings
BY DEF MayFind, Findings

\* A check follows one other.
LEMMA AfterOnlyOne == \A c, d \in Checks : After[c] = After[d] => c = d
BY ChecksAre

\* At first nothing is checked.
LEMMA HealthInvInit == HealthInit => HealthInv
<1> SUFFICES ASSUME HealthInit PROVE HealthInv
  OBVIOUS
<1>1. HealthTypeOK
  <2>1. "reachable" \in Checks
    BY ChecksAre
  <2> QED
    BY <2>1, FS_EmptySet DEF HealthInit, HealthTypeOK
<1>2. AsMayBe /\ InOrder /\ StillToCome
  BY ChecksAre DEF HealthInit, AsMayBe, InOrder, StillToCome, Made
<1> QED
  BY <1>1, <1>2 DEF HealthInit, HealthInv, ExitCodeTruthful

\* A check is made: what it finds is one of the findings, and the run goes on with
\* the check after it, or with the units when there is no connection.
LEMMA OneCheckKeeps ==
  ASSUME HealthInv, step \in Checks, NEW f \in MayFind[step], Find(step, f), UNCHANGED exitCode,
         \/ step' = After[step]
         \/ step = "pool" /\ step' = "units" /\ NoConnection'
  PROVE  HealthInv'
<1>1. /\ found \in [Checks -> Findings \union {"unchecked"}] /\ exitCode = {} /\ ~ Made("units")
      /\ step # "ended" /\ step # "verdict" /\ f \in Findings
  BY ChecksAre, MayFindFindings DEF HealthInv, HealthTypeOK, StillToCome
<1>2. /\ found' = [found EXCEPT ![step] = f] /\ f # "unchecked"
      /\ found'[step] = f /\ \A c \in Checks \ {step} : found'[c] = found[c]
  BY <1>1 DEF Find, Findings
<1>3. HealthTypeOK'
  BY <1>1, <1>2, ChecksAre DEF HealthInv, HealthTypeOK
<1>4. /\ \A c \in Checks : c = step => Made(c)'
      /\ \A c \in Checks \ {step} : Made(c)' <=> Made(c)
  BY <1>2 DEF Made
<1>9. AsMayBe'
  <2> SUFFICES ASSUME NEW c \in Checks, Made(c)' PROVE found'[c] \in MayFind[c]
    BY DEF AsMayBe, MayFind
  <2> QED
    BY <1>2, <1>4 DEF HealthInv, AsMayBe
<1>5. step \notin {"reachable", "pool"} => NoConnection' = NoConnection
  BY <1>2, ChecksAre DEF NoConnection
<1>6. step' # "ended" /\ exitCode' = {} /\ ExitCodeTruthful'
  BY <1>1, ChecksAre DEF ExitCodeTruthful
<1>7. StillToCome'
  BY <1>1, <1>4, <1>6, ChecksAre DEF HealthInv, StillToCome
<1>8. InOrder'
  <2> SUFFICES ASSUME NEW c \in Checks, After[c] = step' \/ (After[c] \in Checks /\ Made(After[c])')
               PROVE  Made(c)' \/ (After[c] = "units" /\ NoConnection')
    BY DEF InOrder
  <2>1. CASE c = step
    BY <1>4, <2>1
  <2>2. CASE c # step /\ After[c] = step'
    <3>1. After[c] # After[step]
      BY <2>2, AfterOnlyOne
    <3>2. After[c] = "units" /\ NoConnection'
      BY <2>2, <3>1
    <3> QED
      BY <3>2
  <2>3. CASE c # step /\ After[c] # step'
    <3>1. After[c] = step \/ (After[c] \in Checks /\ Made(After[c]))
      BY <1>4, <2>3
    <3>2. Made(c) \/ (After[c] = "units" /\ NoConnection)
      BY <3>1 DEF HealthInv, InOrder
    <3>3. CASE step \in {"reachable", "pool"}
      BY <1>1, <1>4, <2>3, <3>1, <3>2, <3>3, ChecksAre DEF HealthInv, StillToCome
    <3> QED
      BY <1>4, <1>5, <2>3, <3>2, <3>3
  <2> QED
    BY <2>1, <2>2, <2>3
<1> QED
  BY <1>3, <1>6, <1>7, <1>8, <1>9 DEF HealthInv

\* What is broken makes the result the worst; nothing else does.
LEMMA WorstResult ==
  /\ AggregateSeverity \in {"info", "data_warning", "infra_critical"}
  /\ AggregateSeverity = "infra_critical" <=> \E c \in Checks : found[c] = "broken"
  /\ AggregateSeverity = "info" => \A c \in Checks : found[c] \notin {"broken", "poor"}
<1>1. \A c \in Checks : /\ Critical(Result(c)) <=> found[c] = "broken"
                        /\ found[c] = "poor" => Warning(Result(c)) \/ Critical(Result(c))
  BY DEF Result, Critical, Warning
<1>2. \A r \in Results : \E c \in Checks : r = Result(c)
  BY DEF Results
<1>3. \A c \in Checks : found[c] \in {"broken", "poor"} => Result(c) \in Results
  BY DEF Results
<1>4. (\E r \in Results : Critical(r)) <=> \E c \in Checks : found[c] = "broken"
  BY <1>1, <1>2, <1>3
<1>5. (\E c \in Checks : found[c] = "poor") => \E r \in Results : Warning(r) \/ Critical(r)
  BY <1>1, <1>3
<1> QED
  BY <1>4, <1>5 DEF AggregateSeverity

\* Every step preserves the invariant.
LEMMA HealthInvNext == HealthInv /\ [HealthNext]_healthVars => HealthInv'
<1> SUFFICES ASSUME HealthInv, [HealthNext]_healthVars PROVE HealthInv'
  OBVIOUS
<1>1. CASE UNCHANGED healthVars
  BY <1>1 DEF healthVars, HealthInv, HealthTypeOK, AsMayBe, InOrder, StillToCome, ExitCodeTruthful, Made,
              NoConnection
<1>2. CASE CheckReachable
  <2>1. step = "reachable" /\ step \in Checks
    BY <1>2, ChecksAre DEF CheckReachable
  <2>2. PICK f \in MayFind["reachable"] : Find(step, f)
    BY <1>2, <2>1 DEF CheckReachable
  <2>4. step' = After[step] /\ UNCHANGED exitCode
    BY <1>2, <2>1 DEF CheckReachable
  <2> QED
    BY <2>1, <2>2, <2>4, OneCheckKeeps
<1>3. CASE CheckPool
  <2>1. step = "pool" /\ step \in Checks /\ UNCHANGED exitCode /\ "pool" \in Checks /\ "reachable" \in Checks
    BY <1>3, ChecksAre DEF CheckPool
  <2>2. PICK f \in MayFind["pool"] :
          /\ found["reachable"] = "good" => f = "good"
          /\ Find("pool", f)
          /\ step' = IF found["reachable"] = "good" /\ f = "good" THEN After["pool"] ELSE "units"
    BY <1>3 DEF CheckPool
  <2>4. found \in [Checks -> Findings \union {"unchecked"}] /\ found["reachable"] \in {"good", "broken"}
    <3>1. Made("reachable")
      BY <2>1, ChecksAre DEF HealthInv, InOrder
    <3>2. MayFind["reachable"] = {"good", "broken"}
      BY ChecksAre DEF MayFind
    <3> QED
      BY <2>1, <3>1, <3>2 DEF HealthInv, HealthTypeOK, AsMayBe
  <2>5. step' # After[step] => step' = "units" /\ NoConnection'
    <3>1. MayFind["pool"] = {"good", "broken"}
      BY ChecksAre DEF MayFind
    <3> QED
      BY <2>1, <2>2, <2>4, <3>1 DEF Find, NoConnection
  <2> QED
    BY <2>1, <2>2, <2>5, OneCheckKeeps
<1>4. CASE CheckData
  <2>1. step \in Checks
    BY <1>4 DEF CheckData, DataChecks
  <2>2. PICK f \in MayFind[step] : Find(step, f)
    BY <1>4 DEF CheckData
  <2>4. step' = After[step] /\ UNCHANGED exitCode
    BY <1>4 DEF CheckData
  <2> QED
    BY <2>1, <2>2, <2>4, OneCheckKeeps
<1>5. CASE Interrupted
  <2>1. step \in Checks /\ step' = "ended" /\ exitCode' = {1} /\ found' = found
    BY <1>5 DEF Interrupted, DataChecks
  <2>2. HealthTypeOK'
    BY <2>1, FS_Singleton DEF HealthInv, HealthTypeOK
  <2>3. ~ Made("units")
    BY <2>1 DEF HealthInv, StillToCome
  <2>4. AsMayBe' /\ InOrder' /\ StillToCome'
    BY <2>1, ChecksAre DEF HealthInv, AsMayBe, InOrder, StillToCome, Made, NoConnection
  <2>5. ExitCodeTruthful'
    BY <2>1, <2>3 DEF ExitCodeTruthful, Made
  <2> QED
    BY <2>2, <2>4, <2>5 DEF HealthInv
<1>6. CASE CheckUnits
  <2>1. step = "units" /\ step \in Checks
    BY <1>6, ChecksAre DEF CheckUnits
  <2>2. PICK f \in MayFind["units"] : Find(step, f)
    BY <1>6, <2>1 DEF CheckUnits
  <2>4. step' = After[step] /\ UNCHANGED exitCode
    BY <1>6, <2>1 DEF CheckUnits
  <2> QED
    BY <2>1, <2>2, <2>4, OneCheckKeeps
<1>7. CASE Conclude
  <2>1. step = "verdict" /\ step' = "ended" /\ found' = found /\ exitCode' = {ExitCodeOf[AggregateSeverity]}
    BY <1>7 DEF Conclude
  <2> DEFINE severity == AggregateSeverity
             code == ExitCodeOf[severity]
  <2>2. /\ severity \in {"info", "data_warning", "infra_critical"}
        /\ severity = "infra_critical" <=> \E c \in Checks : found[c] = "broken"
        /\ severity = "info" => \A c \in Checks : found[c] \notin {"broken", "poor"}
    BY WorstResult
  <2> HIDE DEF severity
  <2>3. /\ code \in 0 .. 2 /\ (code = 0 => severity = "info") /\ (code = 2 <=> severity = "infra_critical")
    BY <2>2 DEF ExitCodeOf
  <2>4. exitCode' = {code}
    BY <2>1 DEF severity
  <2> HIDE DEF code
  <2>5. HealthTypeOK'
    <3>1. exitCode' \subseteq 0 .. 2 /\ Cardinality(exitCode') <= 1
      BY <2>3, <2>4, FS_Singleton
    <3> QED
      BY <2>1, <3>1 DEF HealthInv, HealthTypeOK
  <2>6. AsMayBe' /\ InOrder' /\ StillToCome'
    BY <2>1, ChecksAre DEF HealthInv, AsMayBe, InOrder, StillToCome, Made, NoConnection
  <2>7. (\A c \in Checks : found[c] # "broken") => \A c \in Checks : Made(c)
    <3> SUFFICES ASSUME \A c \in Checks : found[c] # "broken" PROVE \A c \in Checks : Made(c)
      OBVIOUS
    <3>1. ~ NoConnection
      BY ChecksAre DEF NoConnection
    <3>2. \A c \in Checks : After[c] = "verdict" \/ (After[c] \in Checks /\ Made(After[c])) => Made(c)
      BY <2>1, <3>1 DEF HealthInv, InOrder
    <3> QED
      BY <3>2, ChecksAre
  <2>8. \A c \in Checks : found[c] \in Findings \union {"unchecked"}
    BY DEF HealthInv, HealthTypeOK
  <2>9. ExitCodeTruthful'
    <3>1. code = 0 => \A c \in Checks : found[c] \in {"good", "absent"}
      BY <2>2, <2>3, <2>7, <2>8 DEF Made, Findings
    <3> QED
      BY <2>1, <2>2, <2>3, <2>4, <3>1 DEF ExitCodeTruthful
  <2> QED
    BY <2>5, <2>6, <2>9 DEF HealthInv
<1> QED
  BY <1>1, <1>2, <1>3, <1>4, <1>5, <1>6, <1>7 DEF HealthNext

\* Whatever the checks find: the invariant.
THEOREM HealthInvariant == HealthSpec => []HealthInv
BY HealthInvInit, HealthInvNext, PTL DEF HealthSpec

\* ExitCodeTruthful: the exit code tells the worst of what was found, and is
\* never good when a check was skipped.
THEOREM ExitCodesAreTruthful == HealthSpec => []ExitCodeTruthful
<1>1. HealthInv => ExitCodeTruthful
  BY DEF HealthInv
<1> QED
  BY <1>1, HealthInvariant, PTL

-----------------------------------------------------------------------------
(* CutoverCheck: the tools of the cutover.                                 *)

\* What each tool looks at.
LooksAt ==
  /\ tool = "none" => look = "start"
  /\ tool = "readiness" => look \in Files \union Sections \union {"verdict", "ended"}
  /\ tool = "timers" => look \in {"units", "verdict", "ended"}
  /\ tool = "diff" => look \in {"tables", "verdict", "ended"}

\* What a tool that comes to its verdict has seen.
SeenSoFar ==
  /\ look \in Files \union {"start"} => DOMAIN claims = {}
  /\ look \in Sections \/ DOMAIN claims # {} => state["evidence"] = "good"
  /\ tool = "readiness" /\ look \notin {"deploy", "ended"} => state["deploy"] # "unseen"
  /\ tool = "readiness" /\ look \notin {"deploy", "templates", "ended"} => state["templates"] # "unseen"
  /\ tool = "timers" /\ look = "verdict" => DOMAIN units = Units
  /\ tool = "diff" /\ look = "verdict" => DOMAIN counted = DiffTables
  /\ look # "ended" => status = {}

\* The inductive invariant.
CutoverInv == CutoverTypeOK /\ LooksAt /\ SeenSoFar /\ GoAheadTruthful

-----------------------------------------------------------------------------
\* What was seen, and one more.
LEMMA WithOneMore ==
  ASSUME NEW S, NEW T, NEW f, DOMAIN f \subseteq S, f \in [DOMAIN f -> T], NEW x \in S, NEW y \in T
  PROVE  /\ DOMAIN With(f, x, y) = DOMAIN f \union {x}
         /\ DOMAIN With(f, x, y) \subseteq S
         /\ With(f, x, y) \in [DOMAIN With(f, x, y) -> T]
BY DEF With

\* One more of a set, as many as there are: all of them.
LEMMA LastOne ==
  ASSUME NEW S, IsFiniteSet(S), NEW D, D \subseteq S, NEW x \in S \ D,
         Cardinality(D) + 1 = Cardinality(S)
  PROVE  D \union {x} = S
<1>1. IsFiniteSet(D) /\ D \union {x} \subseteq S /\ IsFiniteSet(D \union {x})
  BY FS_Subset
<1>2. Cardinality(D \union {x}) = Cardinality(S)
  BY <1>1, FS_AddElement
<1> QED
  BY <1>1, <1>2, FS_Subset

\* At first no tool runs.
LEMMA CutoverInvInit == CutoverInit => CutoverInv
<1> SUFFICES ASSUME CutoverInit PROVE CutoverInv
  OBVIOUS
<1>1. claims = <<>> /\ counted = <<>> /\ units = <<>> /\ status = {} /\ Cardinality(status) <= 1
  BY FS_EmptySet DEF CutoverInit
<1>2. DOMAIN <<>> = {} /\ \A T : <<>> \in [{} -> T]
  OBVIOUS
<1>3. CutoverTypeOK
  BY <1>1, <1>2 DEF CutoverInit, CutoverTypeOK
<1> QED
  BY <1>1, <1>2, <1>3 DEF CutoverInit, CutoverInv, LooksAt, SeenSoFar, GoAheadTruthful, Files, Sections

\* A step that ends nothing has nothing to answer for.
LEMMA GoesOn ==
  ASSUME CutoverTypeOK', LooksAt', SeenSoFar', status' = {}
  PROVE  CutoverInv'
BY DEF CutoverInv, GoAheadTruthful

-----------------------------------------------------------------------------
\* A tool starts.
LEMMA StartToolKeeps == CutoverInv /\ StartTool => CutoverInv'
<1> SUFFICES ASSUME CutoverInv, StartTool PROVE CutoverInv'
  OBVIOUS
<1>1. /\ look = "start" /\ UNCHANGED <<state, claims, counted, units, status>> /\ status = {}
      /\ DOMAIN claims = {}
      /\ \/ tool' = "readiness" /\ look' = "deploy"
         \/ tool' = "timers" /\ look' = "units"
         \/ tool' = "diff" /\ look' = "tables"
  BY DEF StartTool, CutoverInv, SeenSoFar
<1>2. CutoverTypeOK'
  BY <1>1 DEF CutoverInv, CutoverTypeOK, Files
<1>3. LooksAt' /\ SeenSoFar'
  BY <1>1 DEF LooksAt, SeenSoFar, Files, Sections
<1> QED
  BY <1>1, <1>2, <1>3, GoesOn

\* The files, one after the other.
LEMMA FilesKeep == CutoverInv /\ (CheckDeploy \/ CheckTemplates \/ ReadEvidence) => CutoverInv'
<1> SUFFICES ASSUME CutoverInv, CheckDeploy \/ CheckTemplates \/ ReadEvidence PROVE CutoverInv'
  OBVIOUS
<1>1. /\ look \in Files /\ UNCHANGED <<tool, claims, counted, units, status>>
      /\ status = {} /\ DOMAIN claims = {} /\ tool = "readiness"
      /\ state \in [Files -> {"unseen", "good", "missing", "wrong"}]
  <2>1. look \in Files /\ UNCHANGED <<tool, claims, counted, units, status>>
    BY DEF CheckDeploy, CheckTemplates, ReadEvidence, Files
  <2>2. status = {} /\ DOMAIN claims = {}
    BY <2>1 DEF CutoverInv, SeenSoFar, Files
  <2>3. tool = "readiness"
    BY <2>1 DEF CutoverInv, CutoverTypeOK, LooksAt, Files
  <2> QED
    BY <2>1, <2>2, <2>3 DEF CutoverInv, CutoverTypeOK
<1>2. PICK what \in {"good", "missing", "wrong"} : state' = [state EXCEPT ![look] = what]
  BY <1>1 DEF CheckDeploy, CheckTemplates, ReadEvidence
<1>3. /\ look = "deploy" => look' = "templates"
      /\ look = "templates" => look' = "evidence"
      /\ look = "evidence" => look' \in {"path_policy", "verdict"}
      /\ look' = "path_policy" => state'["evidence"] = "good"
  BY <1>1 DEF CheckDeploy, CheckTemplates, ReadEvidence, Files
<1>4. /\ state' \in [Files -> {"unseen", "good", "missing", "wrong"}]
      /\ state'[look] # "unseen" /\ \A f \in Files \ {look} : state'[f] = state[f]
  BY <1>1, <1>2
<1>5. CutoverTypeOK'
  BY <1>1, <1>3, <1>4 DEF CutoverInv, CutoverTypeOK, Files, Sections
<1>6. LooksAt'
  BY <1>1, <1>3 DEF LooksAt, Files, Sections
<1>7. SeenSoFar'
  BY <1>1, <1>3, <1>4 DEF CutoverInv, SeenSoFar, Files, Sections
<1> QED
  BY <1>1, <1>5, <1>6, <1>7, GoesOn

\* It looks at a section of the evidence.
LEMMA CheckSectionKeeps == CutoverInv /\ CheckSection => CutoverInv'
<1> SUFFICES ASSUME CutoverInv, CheckSection PROVE CutoverInv'
  OBVIOUS
<1>1. /\ look \in Sections /\ UNCHANGED <<tool, state, counted, units, status>> /\ status = {}
      /\ look' = AfterSection[look] /\ state["evidence"] = "good" /\ tool = "readiness"
  <2>1. look \in Sections /\ UNCHANGED <<tool, state, counted, units, status>> /\ look' = AfterSection[look]
    BY DEF CheckSection
  <2>2. tool = "readiness"
    BY <2>1 DEF CutoverInv, CutoverTypeOK, LooksAt, Sections
  <2> QED
    BY <2>1, <2>2 DEF CutoverInv, SeenSoFar, Sections
<1>2. PICK claim \in [done : BOOLEAN, amount : Amounts[look], artifact : BOOLEAN] :
        claims' = With(claims, look, claim)
  BY DEF CheckSection
<1>3. claim \in Claim
  BY <1>1, <1>2 DEF Claim, Amounts, Sections
<1>4. /\ DOMAIN claims' = DOMAIN claims \union {look} /\ DOMAIN claims' \subseteq Sections
      /\ claims' \in [DOMAIN claims' -> Claim]
  <2>1. DOMAIN claims \subseteq Sections /\ claims \in [DOMAIN claims -> Claim]
    BY DEF CutoverInv, CutoverTypeOK
  <2>2. PICK s \in Sections : s = look
    BY <1>1
  <2>3. claims' = With(claims, s, claim)
    BY <1>2, <2>2
  <2>4. /\ DOMAIN claims' = DOMAIN claims \union {s} /\ DOMAIN claims' \subseteq Sections
        /\ claims' \in [DOMAIN claims' -> Claim]
    BY <1>3, <2>1, <2>3, WithOneMore
  <2> QED
    BY <2>2, <2>4
<1>5. look' \in Sections \union {"verdict"} /\ look' # "path_policy"
  BY <1>1 DEF AfterSection, Sections
<1>6. CutoverTypeOK'
  BY <1>1, <1>4, <1>5 DEF CutoverInv, CutoverTypeOK
<1>7. LooksAt'
  BY <1>1, <1>5 DEF LooksAt
<1>8. SeenSoFar'
  BY <1>1, <1>4, <1>5 DEF CutoverInv, SeenSoFar, Files, Sections
<1> QED
  BY <1>1, <1>6, <1>7, <1>8, GoesOn

\* It looks at a unit.
LEMMA CheckUnitKeeps == CutoverInv /\ CheckUnit => CutoverInv'
<1> SUFFICES ASSUME CutoverInv, CheckUnit PROVE CutoverInv'
  OBVIOUS
<1>1. /\ look = "units" /\ UNCHANGED <<tool, state, claims, counted, status>> /\ status = {}
      /\ look' = IF Cardinality(DOMAIN units) + 1 = Cardinality(Units) THEN "verdict" ELSE "units"
      /\ tool = "timers"
  BY DEF CheckUnit, CutoverInv, CutoverTypeOK, LooksAt, SeenSoFar, Files, Sections
<1>2. PICK u \in Units \ DOMAIN units : \E what \in UnitState : units' = With(units, u, what)
  BY DEF CheckUnit
<1>3. PICK what \in UnitState : units' = With(units, u, what)
  BY <1>2
<1>4. DOMAIN units \subseteq Units /\ units \in [DOMAIN units -> UnitState]
  BY DEF CutoverInv, CutoverTypeOK
<1>5. /\ DOMAIN units' = DOMAIN units \union {u} /\ DOMAIN units' \subseteq Units
      /\ units' \in [DOMAIN units' -> UnitState]
  BY <1>3, <1>4, WithOneMore
<1>6. look' = "verdict" => DOMAIN units' = Units
  <2>1. IsFiniteSet(Units)
    BY CutoverCheckAssumption
  <2> QED
    BY <1>1, <1>4, <1>5, <2>1, LastOne
<1>7. look' \in {"units", "verdict"}
  BY <1>1
<1>8. CutoverTypeOK'
  BY <1>1, <1>5, <1>7 DEF CutoverInv, CutoverTypeOK
<1>9. LooksAt' /\ SeenSoFar'
  BY <1>1, <1>6, <1>7 DEF CutoverInv, LooksAt, SeenSoFar, Files, Sections
<1> QED
  BY <1>1, <1>8, <1>9, GoesOn

\* It counts the rows of a table.
LEMMA CountTableKeeps == CutoverInv /\ CountTable => CutoverInv'
<1> SUFFICES ASSUME CutoverInv, CountTable PROVE CutoverInv'
  OBVIOUS
<1>1. /\ look = "tables" /\ UNCHANGED <<tool, state, claims, units, status>> /\ status = {}
      /\ look' = IF Cardinality(DOMAIN counted) + 1 = Cardinality(DiffTables) THEN "verdict" ELSE "tables"
      /\ tool = "diff"
  BY DEF CountTable, CutoverInv, CutoverTypeOK, LooksAt, SeenSoFar, Files, Sections
<1>2. PICK t \in DiffTables \ DOMAIN counted : \E n \in RowCounts : counted' = With(counted, t, n)
  BY DEF CountTable
<1>3. PICK n \in RowCounts : counted' = With(counted, t, n)
  BY <1>2
<1>4. DOMAIN counted \subseteq DiffTables /\ counted \in [DOMAIN counted -> Nat] /\ n \in Nat
  BY CutoverCheckAssumption DEF CutoverInv, CutoverTypeOK
<1>5. /\ DOMAIN counted' = DOMAIN counted \union {t} /\ DOMAIN counted' \subseteq DiffTables
      /\ counted' \in [DOMAIN counted' -> Nat]
  BY <1>3, <1>4, WithOneMore
<1>6. look' = "verdict" => DOMAIN counted' = DiffTables
  <2>1. IsFiniteSet(DiffTables)
    BY CutoverCheckAssumption
  <2> QED
    BY <1>1, <1>4, <1>5, <2>1, LastOne
<1>7. look' \in {"tables", "verdict"}
  BY <1>1
<1>8. CutoverTypeOK'
  BY <1>1, <1>5, <1>7 DEF CutoverInv, CutoverTypeOK
<1>9. LooksAt' /\ SeenSoFar'
  BY <1>1, <1>6, <1>7 DEF CutoverInv, LooksAt, SeenSoFar, Files, Sections
<1> QED
  BY <1>1, <1>8, <1>9, GoesOn

-----------------------------------------------------------------------------
\* Within the tolerance, between the bounds.
LEMMA WithinBounds ==
  ASSUME NEW n \in Nat, NEW ref \in Nat, NEW pct \in 0 .. 99,
         IF ref = 0 THEN n = 0
         ELSE (IF n >= ref THEN n - ref ELSE ref - n) * 100 <= pct * ref
  PROVE  (ref = 0 <=> n = 0) /\ 100 * n <= (100 + pct) * ref /\ 100 * n >= (100 - pct) * ref
<1>1. CASE ref = 0
  BY <1>1
<1>2. CASE ref # 0
  <2>1. PICK m \in Nat : m = pct * ref /\ m < 100 * ref
    BY <1>2
  <2>2. (100 + pct) * ref = 100 * ref + m /\ (100 - pct) * ref = 100 * ref - m
    BY <2>1
  <2>3. IF n >= ref THEN (n - ref) * 100 <= m ELSE (ref - n) * 100 <= m
    BY <1>2, <2>1
  <2> QED
    BY <1>2, <2>1, <2>2, <2>3
<1> QED
  BY <1>1, <1>2

\* A tool that ends with an exit code leaves everything else as it is.
LEMMA EndsKeep ==
  ASSUME CutoverInv, NEW code \in 0 .. 2, look' = "ended", status' = {code},
         UNCHANGED <<tool, state, claims, counted, units>>, tool # "none", GoAheadTruthful'
  PROVE  CutoverInv'
<1>1. status' \subseteq 0 .. 2 /\ Cardinality(status') <= 1
  BY FS_Singleton
<1>2. CutoverTypeOK'
  BY <1>1 DEF CutoverInv, CutoverTypeOK
<1>3. LooksAt' /\ SeenSoFar'
  BY DEF CutoverInv, LooksAt, SeenSoFar, Files, Sections
<1> QED
  BY <1>2, <1>3 DEF CutoverInv

\* It raises.
LEMMA ToolRaisesKeeps == CutoverInv /\ ToolRaises => CutoverInv'
<1> SUFFICES ASSUME CutoverInv, ToolRaises PROVE CutoverInv'
  OBVIOUS
<1>1. /\ look' = "ended" /\ status' = {1} /\ UNCHANGED <<tool, state, claims, counted, units>>
      /\ tool # "none"
  BY DEF ToolRaises, CutoverInv, LooksAt, Sections
<1>2. GoAheadTruthful'
  BY <1>1 DEF GoAheadTruthful
<1> QED
  BY <1>1, <1>2, EndsKeep

\* A tool that says ready has seen everything.
LEMMA ReadyMeansSeen ==
  ASSUME CutoverInv, tool = "readiness", look = "verdict", Readiness = "ready"
  PROVE  /\ \A f \in Files : state[f] = "good"
         /\ \A s \in Sections : claims[s].done /\ claims[s].artifact
         /\ claims["parallel_run"].amount >= 7
         /\ claims["hold_window"].amount # NotANumber => claims["hold_window"].amount >= 24
         /\ claims["rollback_rehearsal"].amount \in (1 .. 5) \union {NotANumber}
<1>1. Blockers = {} /\ Risks = {}
  BY DEF Readiness
<1>2. \A s \in Sections : Documented(s)
  BY <1>1 DEF Risks
<1>3. state["deploy"] = "good" /\ state["templates"] = "good"
  BY <1>1 DEF Blockers
<1>4. state["evidence"] = "good"
  BY <1>2 DEF Sections, Documented, CutoverInv, SeenSoFar
<1>5. \A s \in Sections : claims[s].done /\ claims[s].artifact
                           /\ claims[s].amount \in Nat \union {NotANumber}
  <2>1. \A s \in Sections : s \in DOMAIN claims /\ claims[s].done /\ claims[s].artifact
    BY <1>2 DEF Documented
  <2> QED
    BY <2>1 DEF CutoverInv, CutoverTypeOK, Claim
<1>6. claims["parallel_run"].amount >= 7
  BY <1>2 DEF Documented, Sections
<1>7. claims["hold_window"].amount # NotANumber => claims["hold_window"].amount >= 24
  BY <1>2, <1>5 DEF Documented, Below, Sections
<1>8. claims["rollback_rehearsal"].amount \in (1 .. 5) \union {NotANumber}
  BY <1>2, <1>5 DEF Documented, AtMost, Above, Sections
<1> QED
  BY <1>3, <1>4, <1>5, <1>6, <1>7, <1>8 DEF Files, Sections

\* It ends, with its status.
LEMMA ToolEndsKeeps == CutoverInv /\ ToolEnds => CutoverInv'
<1> SUFFICES ASSUME CutoverInv, ToolEnds PROVE CutoverInv'
  OBVIOUS
<1>1. /\ look = "verdict" /\ look' = "ended" /\ status' = {ExitCode}
      /\ UNCHANGED <<tool, state, claims, counted, units>>
      /\ tool \in {"readiness", "timers", "diff"}
  BY DEF ToolEnds, CutoverInv, CutoverTypeOK, LooksAt
<1>2. CASE tool = "readiness"
  <2>1. ExitCode = [ready |-> 0, risky |-> 1, blocked |-> 2][Readiness]
    BY <1>2 DEF ExitCode
  <2>2. Readiness \in {"ready", "risky", "blocked"}
    BY DEF Readiness
  <2>3. /\ ExitCode \in 0 .. 2
        /\ ExitCode = 0 => Readiness = "ready"
        /\ ExitCode = 2 => Readiness = "blocked"
    BY <2>1, <2>2
  <2>4. Readiness = "blocked" => \E f \in {"deploy", "templates"} : state[f] \in {"missing", "wrong"}
    <3>1. \A f \in {"deploy", "templates"} : state[f] \in {"good", "missing", "wrong"}
      BY <1>1, <1>2 DEF CutoverInv, CutoverTypeOK, SeenSoFar, Files
    <3> QED
      BY <3>1 DEF Readiness, Blockers
  <2> DEFINE code == ExitCode
  <2>5. status' = {code} /\ code \in 0 .. 2 /\ (code = 0 => Readiness = "ready")
        /\ (code = 2 => Readiness = "blocked")
    BY <1>1, <2>3
  <2> HIDE DEF code
  <2>6. 0 \in status' => Readiness = "ready"
    BY <2>5
  <2>7. 2 \in status' => \E f \in {"deploy", "templates"} : state'[f] \in {"missing", "wrong"}
    BY <1>1, <2>4, <2>5
  <2>8. GoAheadTruthful'
    <3>1. 0 \in status' =>
            /\ \A f \in Files : state'[f] = "good"
            /\ \A s \in Sections : claims'[s].done /\ claims'[s].artifact
            /\ claims'["parallel_run"].amount >= 7
            /\ claims'["hold_window"].amount # NotANumber => claims'["hold_window"].amount >= 24
            /\ claims'["rollback_rehearsal"].amount \in (1 .. 5) \union {NotANumber}
      BY <1>1, <1>2, <2>6, ReadyMeansSeen
    <3>2. tool' = "readiness"
      BY <1>1, <1>2
    <3> QED
      BY <2>7, <3>1, <3>2 DEF GoAheadTruthful
  <2> QED
    BY <1>1, <1>2, <2>5, <2>8, EndsKeep
<1>3. CASE tool = "timers"
  <2> DEFINE code == IF Issues = {} THEN 0 ELSE 1
  <2>1. status' = {code} /\ code \in 0 .. 1 /\ (code = 0 => Issues = {})
    BY <1>1, <1>3 DEF ExitCode
  <2> HIDE DEF code
  <2>2. DOMAIN units = Units /\ units \in [Units -> UnitState]
    BY <1>1, <1>3 DEF CutoverInv, CutoverTypeOK, SeenSoFar
  <2>3. Issues = {} => \A u \in Units : units[u] = [listed |-> TRUE, triggered |-> TRUE,
                                                   journal |-> TRUE, success |-> TRUE]
    BY <2>2 DEF Issues, UnitState
  <2>4. GoAheadTruthful'
    <3>1. tool' = "timers" /\ 2 \notin status' /\ units' = units
      BY <1>1, <1>3, <2>1
    <3>2. 0 \in status' => Issues = {}
      BY <2>1
    <3> QED
      BY <2>3, <3>1, <3>2 DEF GoAheadTruthful
  <2> QED
    BY <1>1, <1>3, <2>1, <2>4, EndsKeep
<1>4. CASE tool = "diff"
  <2> DEFINE code == IF Violations = {} THEN 0 ELSE 1
  <2>1. status' = {code} /\ code \in 0 .. 1 /\ (code = 0 => Violations = {})
    BY <1>1, <1>4 DEF ExitCode
  <2> HIDE DEF code
  <2>2. DOMAIN counted = DiffTables /\ counted \in [DiffTables -> Nat]
    BY <1>1, <1>4 DEF CutoverInv, CutoverTypeOK, SeenSoFar
  <2>3. ASSUME Violations = {}, NEW t \in DiffTables
        PROVE  /\ RefCount[t] = 0 <=> counted[t] = 0
               /\ 100 * counted[t] <= (100 + Tolerance) * RefCount[t]
               /\ 100 * counted[t] >= (100 - Tolerance) * RefCount[t]
    <3>1. WithinTolerance(t)
      BY <2>2, <2>3 DEF Violations
    <3>2. RefCount[t] \in Nat /\ counted[t] \in Nat /\ Tolerance \in 0 .. 99
      BY <2>2, CutoverCheckAssumption
    <3>3. IF RefCount[t] = 0 THEN counted[t] = 0
          ELSE (IF counted[t] >= RefCount[t] THEN counted[t] - RefCount[t]
                ELSE RefCount[t] - counted[t]) * 100 <= Tolerance * RefCount[t]
      BY <3>1, <3>2 DEF WithinTolerance, Delta
    <3>4. PICK n \in Nat : n = counted[t]
      BY <3>2
    <3>5. PICK ref \in Nat : ref = RefCount[t]
      BY <3>2
    <3>6. IF ref = 0 THEN n = 0
          ELSE (IF n >= ref THEN n - ref ELSE ref - n) * 100 <= Tolerance * ref
      BY <3>3, <3>4, <3>5
    <3>7. (ref = 0 <=> n = 0) /\ 100 * n <= (100 + Tolerance) * ref /\ 100 * n >= (100 - Tolerance) * ref
      BY ONLY <3>2, <3>6, WithinBounds
    <3> QED
      BY <3>4, <3>5, <3>7
  <2>4. GoAheadTruthful'
    <3>1. tool' = "diff" /\ 2 \notin status' /\ counted' = counted
      BY <1>1, <1>4, <2>1
    <3>2. 0 \in status' => Violations = {}
      BY <2>1
    <3> QED
      BY <2>3, <3>1, <3>2 DEF GoAheadTruthful
  <2> QED
    BY <1>1, <1>4, <2>1, <2>4, EndsKeep
<1> QED
  BY <1>1, <1>2, <1>3, <1>4

\* Every step preserves the invariant.
LEMMA CutoverInvNext == CutoverInv /\ [CutoverNext]_cutoverVars => CutoverInv'
<1> SUFFICES ASSUME CutoverInv, [CutoverNext]_cutoverVars PROVE CutoverInv'
  OBVIOUS
<1>1. CASE UNCHANGED cutoverVars
  BY <1>1 DEF cutoverVars, CutoverInv, CutoverTypeOK, LooksAt, SeenSoFar, GoAheadTruthful
<1> QED
  BY <1>1, StartToolKeeps, FilesKeep, CheckSectionKeeps, CheckUnitKeeps, CountTableKeeps,
     ToolRaisesKeeps, ToolEndsKeeps DEF CutoverNext

\* For any files, sections, units and tables: the invariant.
THEOREM CutoverInvariant == CutoverSpec => []CutoverInv
BY CutoverInvInit, CutoverInvNext, PTL DEF CutoverSpec

\* GoAheadTruthful: a go-ahead is given only when all there is to see was seen,
\* and was good.
THEOREM GoAheadsAreTruthful == CutoverSpec => []GoAheadTruthful
<1>1. CutoverInv => GoAheadTruthful
  BY DEF CutoverInv
<1> QED
  BY <1>1, CutoverInvariant, PTL
=============================================================================
