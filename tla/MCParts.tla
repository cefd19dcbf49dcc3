------------------------------ MODULE MCParts ------------------------------
(***************************************************************************)
(* The smaller parts, which share no state, checked in one run: each       *)
(* behaviour is one of one of them, while the others rest.                 *)
(***************************************************************************)
EXTENDS ChunkText, CycleMerge, DbPool, KnowledgeIndex, IngestRun, HealthCheck,
        Notifier, EmployeeMatch, TaskNorms, AuditCost, AuditAttempt, WeeklyBoard,
        CutoverCheck, ParseOverlap, TaskConfirm

CONSTANTS c1, c2, c3, c4, rep1, rep2

ChunkWindows == {<<1, 0>>, <<2, 0>>, <<2, 1>>, <<3, 0>>, <<3, 1>>, <<3, 2>>, <<4, 2>>, <<4, 3>>, <<5, 3>>}

(* "b" is similar to both others, which are not similar to each other. *)
SimilarTexts ==
  {<<"a", "a">>, <<"b", "b">>, <<"c", "c">>, <<"a", "b">>, <<"b", "a">>, <<"b", "c">>, <<"c", "b">>}

IngestBatches == << <<{c1}, {c2, c3}>>, <<{c3}>> >>

MethodPriors == [c \in {"coding"} |-> 60]

(* "an.na" and "anya" are canonical, "vera" is an alias; "anna" is as near to one *)
(* as to the other, "ann" is nearer to the first, "zed" not near enough to any.   *)
AliasFile == [n \in {"an.na", "anya", "vera"} |-> IF n = "vera" THEN "anya" ELSE n]

MatchKeys == [n \in Names |-> IF n = "an.na" THEN "an na" ELSE n]

Similarity ==
  [k \in {MatchKeys[n] : n \in Names} |->
     [l \in {MatchKeys[n] : n \in Names} |->
        IF k = l THEN 1000
        ELSE CASE k = "anna" -> 900
               [] k = "ann" -> IF l = "an na" THEN 860 ELSE 850
               [] OTHER -> 845]]

(* Three days before the live one, each with the same cost or none. *)
CostsBefore == {[d \in 1 .. 3 |-> cost] : cost \in {0, 2}}

ReportUsage == [report \in {rep1, rep2} |-> IF report = rep1 THEN 3 ELSE NoUsage]

(* A good day and a bad one. *)
StateTrust == [s \in 0 .. 2 |-> <<0, 900, 500>>[s + 1]]
StateGhost == [s \in 0 .. 2 |-> <<0, 1, 5>>[s + 1]]
StateNone  == [s \in 0 .. 2 |-> <<0, 250, 1000>>[s + 1]]
StateVague == [s \in 0 .. 2 |-> <<0, 500, 1000>>[s + 1]]

Praise == [base |-> 950, hours |-> 0, none |-> 0, vague |-> 0]

CrewAnswer(format, score, urgency) ==
  [format |-> format, figures |-> Praise, trust |-> score, priority |-> urgency]

CrewSays ==
  {CrewAnswer("pydantic", {}, {}), CrewAnswer("dict", {}, {}), CrewAnswer("dict", {300}, {}),
   CrewAnswer("dict", {300}, {"low"}), CrewAnswer("dict", {1200}, {}), CrewAnswer("text", {}, {})}

(* A block without rows after one with a row; one whose header the next cuts    *)
(* off; one that begins late, before a row that has an employee in the matrix.  *)
BoardColumns == {<<"w1", "blank", "blank", "w2">>, <<"w1", "w2", "blank", "blank">>,
                 <<"blank", "w2", "blank", "name">>}

BoardDays     == {10, 14}
BoardOffsets  == <<1, 2>>
BoardCalendar == {<<"w1", 1>>, <<"w1", 2>>, <<"w2", 1>>}

ReferenceCounts == [t \in {"raw", "cycles", "audits"} |-> IF t = "audits" THEN 0 ELSE 20]

(* One line without a time, one that is confirmed by its text. *)
LineSource == [line \in 1 .. 2 |-> IF line = 1 THEN "none" ELSE "logged"]

-----------------------------------------------------------------------------
VARIABLE part \* the part that acts

PartsInit ==
  /\ part \in {"chunk", "cycle", "pool", "knowledge", "ingest", "health", "notifier", "match",
               "norms", "cost", "attempt", "board", "cutover", "overlap", "confirm"}
  /\ ChunkInit /\ window = <<1, 0>> \* Chunk chooses it anew
  /\ CycleInit
  /\ PoolInit
  /\ KnowledgeInit
  /\ IngestInit
  /\ HealthInit
  /\ NotifierInit
  /\ MatchInit
  /\ NormsInit
  /\ CostInit /\ (part = "cost" \/ total[1] = 0)
  /\ AttemptInit
  /\ BoardInit /\ (part = "board" \/ first[1] = "blank")
  /\ CutoverInit
  /\ OverlapInit /\ (part = "overlap" \/ lines = [c \in SheetCells |-> NoLine])
  /\ ConfirmInit

partsVars == <<part, chunkVars, cycleVars, poolVars, knowledgeVars, ingestVars, healthVars,
               notifierVars, matchVars, normsVars, costVars, attemptVars, boardVars,
               cutoverVars, overlapVars, confirmVars>>

OthersRest ==
  /\ UNCHANGED part
  /\ IF part = "chunk" THEN TRUE ELSE UNCHANGED chunkVars
  /\ IF part = "cycle" THEN TRUE ELSE UNCHANGED cycleVars
  /\ IF part = "pool" THEN TRUE ELSE UNCHANGED poolVars
  /\ IF part = "knowledge" THEN TRUE ELSE UNCHANGED knowledgeVars
  /\ IF part = "ingest" THEN TRUE ELSE UNCHANGED ingestVars
  /\ IF part = "health" THEN TRUE ELSE UNCHANGED healthVars
  /\ IF part = "notifier" THEN TRUE ELSE UNCHANGED notifierVars
  /\ IF part = "match" THEN TRUE ELSE UNCHANGED matchVars
  /\ IF part = "norms" THEN TRUE ELSE UNCHANGED normsVars
  /\ IF part = "cost" THEN TRUE ELSE UNCHANGED costVars
  /\ IF part = "attempt" THEN TRUE ELSE UNCHANGED attemptVars
  /\ IF part = "board" THEN TRUE ELSE UNCHANGED boardVars
  /\ IF part = "cutover" THEN TRUE ELSE UNCHANGED cutoverVars
  /\ IF part = "overlap" THEN TRUE ELSE UNCHANGED overlapVars
  /\ IF part = "confirm" THEN TRUE ELSE UNCHANGED confirmVars

ChunkActs     == part = "chunk" /\ ChunkNext /\ OthersRest
CycleActs     == part = "cycle" /\ CycleNext /\ OthersRest
PoolActs      == part = "pool" /\ PoolNext /\ OthersRest
KnowledgeActs == part = "knowledge" /\ KnowledgeNext /\ OthersRest
IngestActs    == part = "ingest" /\ IngestNext /\ OthersRest
HealthActs    == part = "health" /\ HealthNext /\ OthersRest
NotifierActs  == part = "notifier" /\ NotifierNext /\ OthersRest
MatchActs     == part = "match" /\ MatchNext /\ OthersRest
NormsActs     == part = "norms" /\ NormsNext /\ OthersRest
CostActs      == part = "cost" /\ CostNext /\ OthersRest
AttemptActs   == part = "attempt" /\ AttemptNext /\ OthersRest
BoardActs     == part = "board" /\ BoardNext /\ OthersRest
CutoverActs   == part = "cutover" /\ CutoverNext /\ OthersRest
OverlapActs   == part = "overlap" /\ OverlapNext /\ OthersRest
ConfirmActs   == part = "confirm" /\ ConfirmNext /\ OthersRest

PartsNext ==
  \/ ChunkActs
  \/ CycleActs
  \/ PoolActs
  \/ KnowledgeActs
  \/ IngestActs
  \/ HealthActs
  \/ NotifierActs
  \/ MatchActs
  \/ NormsActs
  \/ CostActs
  \/ AttemptActs
  \/ BoardActs
  \/ CutoverActs
  \/ OverlapActs
  \/ ConfirmActs

(* A loop that has begun goes on. *)
PartsSpec == PartsInit /\ [][PartsNext]_partsVars /\ WF_partsVars(ChunkActs)
=============================================================================
