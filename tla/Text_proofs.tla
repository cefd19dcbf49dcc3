----------------------------- MODULE Text_proofs ----------------------------
(***************************************************************************)
(* Texts: for any text and any pair of window and overlap, chunk_text      *)
(* loses nothing; for any tasks, the cycles are those of the rule; for any *)
(* files, indexing runs and lookups, the chunks are those of the articles. *)
(***************************************************************************)
EXTENDS ChunkText, CycleMerge, KnowledgeIndex, TLAPS, SequenceTheorems

-----------------------------------------------------------------------------
(* ChunkText: the pieces of a text.                                        *)

(* Some piece so far holds the interval from a to b. *)
Held(a, b) == \E piece \in parts : Holds(piece, a, b)

(* No piece is empty or longer than max_chars. *)
PiecesFit == \A piece \in parts : piece.to - piece.from \in 1 .. window[1]

(* Every character before position p is held, unless it is blank. *)
CoveredTo(p) == \A c \in Nat : c < p => c \in text.blanks \/ Held(c, c + 1)

(* Every short word that begins before position p is held. *)
WordsTo(p) ==
  \A a, b \in 0 .. text.size :
    a < p /\ a < b /\ b - a < window[1] /\ IsWord(a, b) => Held(a, b)

(* The loop's invariant: what lies before the next start is dealt with.  It  *)
(* strengthens the two properties, which speak of the end only.              *)
LoopInv ==
  /\ ChunkTypeOK
  /\ PiecesFit
  /\ chunking = "idle" => parts = {} /\ start = 0
  /\ chunking = "cutting" =>
       start < text.size /\ CoveredTo(start) /\ WordsTo(start)
  /\ chunking = "done" => CoveredTo(text.size) /\ WordsTo(text.size)

-----------------------------------------------------------------------------
(* A cut lies behind the start, at most max_chars away, and within the text. *)
LEMMA CutBounds ==
  ASSUME ChunkTypeOK, start < text.size, NEW end \in 0 .. text.size, IsCut(end)
  PROVE  start < end /\ end - start <= window[1]
BY ChunkAssumption DEF ChunkTypeOK, IsCut, Splits, Text

(* What the stripped piece of a turn holds: every interval between its ends   *)
(* that neither begins nor ends with a blank.                                 *)
LEMMA StrippedHolds ==
  ASSUME ChunkTypeOK, NEW end \in 0 .. text.size, start < end,
         NEW a \in 0 .. text.size, NEW b \in 0 .. text.size,
         start <= a, a < b, b <= end, a \notin text.blanks, b - 1 \notin text.blanks
  PROVE  /\ Holds(Stripped(start, end), a, b)
         /\ Stripped(start, end).from < Stripped(start, end).to
BY DEF ChunkTypeOK, Holds, Stripped, Text

(* The heart of it: a short word that begins before the cut ends before it.  *)
LEMMA CutBetweenWords ==
  ASSUME ChunkTypeOK, start < text.size,
         NEW end \in 0 .. text.size, IsCut(end),
         NEW a \in 0 .. text.size, NEW b \in 0 .. text.size,
         start <= a, a < end, a < b, b - a < window[1], IsWord(a, b)
  PROVE  b <= end
<1>1. /\ start \in Nat /\ text.size \in Nat /\ text.blanks \subseteq Nat
      /\ window[1] \in Nat /\ a \in Nat /\ b \in Nat /\ end \in Nat
  BY ChunkAssumption DEF ChunkTypeOK, Text
<1>2. CASE end \in text.blanks
  BY <1>1, <1>2 DEF IsWord
<1>3. CASE end = text.size
  BY <1>1, <1>3
<1>4. CASE end \notin text.blanks /\ end # text.size
  <2>1. end = start + window[1] /\ Splits(end) = {}
    BY <1>1, <1>4 DEF IsCut, Splits
  <2>2. ~(start < a - 1)
    BY <1>1, <2>1 DEF IsWord, Splits
  <2> QED
    BY <1>1, <2>1, <2>2
<1> QED
  BY <1>2, <1>3, <1>4

-----------------------------------------------------------------------------
LEMMA LoopInit == ChunkInit => LoopInv
<1> SUFFICES ASSUME ChunkInit PROVE LoopInv
  OBVIOUS
<1>1. text \in Text
  BY ChunkAssumption DEF ChunkInit, Text
<1>2. parts = {} /\ parts \subseteq Piece
  BY DEF ChunkInit
<1> QED
  BY ChunkAssumption, <1>1, <1>2 DEF ChunkInit, LoopInv, ChunkTypeOK, PiecesFit

LEMMA LoopStart ==
  ASSUME LoopInv, Chunk
  PROVE  LoopInv'
<1>1. text' \in Text /\ text'.size \in Nat /\ parts' = {} /\ start' = 0 /\ window' \in Windows
  BY ChunkAssumption DEF LoopInv, Chunk, Text
<1>2. ChunkTypeOK'
  BY <1>1, ChunkAssumption DEF LoopInv, Chunk, ChunkTypeOK
<1>3. PiecesFit' /\ CoveredTo(0)' /\ WordsTo(0)'
  BY <1>1 DEF PiecesFit, CoveredTo, WordsTo
<1>4. chunking' = "done" => text'.size = 0
  BY <1>1 DEF Chunk
<1>5. chunking' = "cutting" => 0 < text'.size
  BY <1>1 DEF Chunk, LoopInv
<1>6. chunking' # "idle"
  BY DEF Chunk
<1>7. CoveredTo(start)' /\ WordsTo(start)'
  BY <1>1, <1>3 DEF CoveredTo, WordsTo
<1>8. chunking' = "done" => (CoveredTo(text.size) /\ WordsTo(text.size))'
  BY <1>1, <1>3, <1>4 DEF CoveredTo, WordsTo
<1> QED
  BY <1>1, <1>2, <1>3, <1>5, <1>6, <1>7, <1>8 DEF LoopInv

LEMMA LoopTurn ==
  ASSUME LoopInv, CutPiece
  PROVE  LoopInv'
<1>1. PICK end \in 0 .. text.size :
        /\ IsCut(end)
        /\ parts' = WithPiece(Stripped(start, end))
        /\ IF end >= text.size
           THEN chunking' = "done" /\ start' = start
           ELSE chunking' = chunking /\ start' = NextStart(end)
  BY DEF CutPiece
<1> DEFINE piece == Stripped(start, end)
<1>2. /\ ChunkTypeOK /\ start < text.size /\ chunking = "cutting"
      /\ text' = text /\ window' = window
      /\ PiecesFit /\ CoveredTo(start) /\ WordsTo(start)
  BY DEF LoopInv, CutPiece
<1>3. /\ start \in Nat /\ text.size \in Nat /\ text.blanks \subseteq Nat
      /\ window[1] \in Nat /\ window[2] \in Nat /\ end \in Nat /\ text.size <= MaxText
  BY <1>2, ChunkAssumption DEF ChunkTypeOK, Text
<1>4. start < end /\ end - start <= window[1]
  BY <1>1, <1>2, CutBounds
<1>5. piece \in Piece /\ piece.to - piece.from <= window[1]
  BY <1>3, <1>4, ChunkAssumption DEF Stripped, Piece
<1>6. /\ parts' \subseteq Piece /\ parts \subseteq parts' /\ parts' \subseteq parts \union {piece}
      /\ piece.from < piece.to => piece \in parts'
      /\ piece \in parts' \ parts => piece.from < piece.to
  BY <1>1, <1>2, <1>5 DEF WithPiece, ChunkTypeOK
<1>7. start' \in 0 .. MaxText
  BY <1>1, <1>3, <1>4, ChunkAssumption DEF NextStart
<1>8. ChunkTypeOK'
  BY <1>1, <1>2, <1>6, <1>7 DEF ChunkTypeOK
<1>9. PiecesFit'
  <2>1. piece.from \in Nat /\ piece.to \in Nat
    BY <1>5, ChunkAssumption DEF Piece
  <2> QED
    BY <1>2, <1>3, <1>5, <1>6, <2>1 DEF PiecesFit
<1>10. ASSUME NEW a, NEW b, Held(a, b)
       PROVE  Held(a, b)'
  BY <1>6, <1>10 DEF Held
<1>11. ASSUME NEW a \in 0 .. text.size, NEW b \in 0 .. text.size,
              start <= a, a < b, b <= end, a \notin text.blanks, b - 1 \notin text.blanks
       PROVE  Held(a, b)'
  <2>1. Holds(piece, a, b) /\ piece.from < piece.to
    BY <1>2, <1>4, <1>11, StrippedHolds
  <2> QED
    BY <1>6, <2>1 DEF Held
<1>12. CoveredTo(end)'
  <2> SUFFICES ASSUME NEW c \in Nat, c < end, c \notin text.blanks
               PROVE  Held(c, c + 1)'
    BY <1>2 DEF CoveredTo
  <2>1. CASE c < start
    BY <1>2, <1>3, <1>10, <2>1 DEF CoveredTo
  <2>2. CASE start <= c
    BY <1>3, <1>11, <2>2
  <2> QED
    BY <1>3, <2>1, <2>2
<1>13. WordsTo(end)'
  <2> SUFFICES ASSUME NEW a \in 0 .. text.size, NEW b \in 0 .. text.size,
                      a < end, a < b, b - a < window[1], IsWord(a, b)
               PROVE  Held(a, b)'
    BY <1>2 DEF WordsTo, IsWord
  <2>1. CASE a < start
    BY <1>2, <1>10, <2>1 DEF WordsTo
  <2>2. CASE start <= a
    <3>1. b <= end
      BY <1>1, <1>2, <2>2, CutBetweenWords
    <3>2. a \notin text.blanks /\ b - 1 \notin text.blanks
      BY <1>3 DEF IsWord
    <3> QED
      BY <1>11, <2>2, <3>1, <3>2
  <2> QED
    BY <1>3, <2>1, <2>2
<1>14. CASE end >= text.size
  <2>1. end = text.size /\ chunking' = "done" /\ text'.size = end
    BY <1>1, <1>2, <1>3, <1>14
  <2>2. CoveredTo(text.size)' /\ WordsTo(text.size)'
    BY <1>12, <1>13, <2>1 DEF CoveredTo, WordsTo
  <2> QED
    BY <1>8, <1>9, <2>1, <2>2 DEF LoopInv
<1>15. CASE ~(end >= text.size)
  <2>1. chunking' = "cutting" /\ start' \in Nat /\ start' <= end /\ start' < text.size
    BY <1>1, <1>2, <1>3, <1>4, <1>15 DEF NextStart
  <2>2. CoveredTo(start)'
    BY <1>3, <1>12, <2>1 DEF CoveredTo
  <2>3. WordsTo(start)'
    BY <1>2, <1>3, <1>13, <2>1 DEF WordsTo
  <2> QED
    BY <1>2, <1>8, <1>9, <2>1, <2>2, <2>3 DEF LoopInv
<1> QED
  BY <1>14, <1>15

-----------------------------------------------------------------------------
(* The invariant holds in every state of every call. *)
THEOREM LoopInvariant == ChunkSpec => []LoopInv
<1>1. LoopInv /\ [ChunkNext]_chunkVars => LoopInv'
  <2> SUFFICES ASSUME LoopInv, [ChunkNext]_chunkVars PROVE LoopInv'
    OBVIOUS
  <2>1. CASE CutPiece
    BY <2>1, LoopTurn
  <2>2. CASE Chunk
    BY <2>2, LoopStart
  <2>3. CASE UNCHANGED chunkVars
    BY <2>3 DEF chunkVars, LoopInv, ChunkTypeOK, PiecesFit, CoveredTo, WordsTo, Held, IsWord
  <2> QED
    BY <2>1, <2>2, <2>3 DEF ChunkNext
<1> QED
  BY LoopInit, <1>1, PTL DEF ChunkSpec

(* Every word shorter than max_chars is whole in some piece. *)
LEMMA WordsAreWhole == LoopInv /\ chunking = "done" => WordsWhole
  BY ChunkAssumption DEF LoopInv, WordsWhole, WordsTo, Held, ChunkTypeOK, Text

(* chunk_text loses no character, keeps its words whole and makes no piece too long. *)
THEOREM TextIsCovered == ChunkSpec => []TextCovered
<1>1. LoopInv => TextCovered
  BY ChunkAssumption, WordsAreWhole DEF LoopInv, TextCovered, CoveredTo, Held, PiecesFit, ChunkTypeOK, Text
<1> QED
  BY LoopInvariant, <1>1, PTL

-----------------------------------------------------------------------------
(* CycleMerge: tasks into cycles.                                          *)

All == cycles \union current

(* The cycles hold the tasks before next, ... *)
HoldPast ==
  /\ \A c \in All : c \in Cycle /\ c.first \in c.members /\ \A i \in c.members : i < next
  /\ \A i \in 1 .. MaxTasks : i < next => \E c \in All : i \in c.members

(* ... each of them once. *)
Apart == \A c, d \in All : \A i \in c.members : i \in d.members => c = d

(* There is at most one cycle being built, and it is not among the finished. *)
OneCurrent ==
  /\ \A c, d \in current : c = d
  /\ \A c \in current : c \notin cycles

LoopState ==
  /\ merging = "idle" => next = 1 /\ All = {} /\ tasks = <<>>
  /\ merging = "merging" => next <= Len(tasks) + 1
  /\ merging = "done" => current = {} /\ next = Len(tasks) + 1

CycleInv == CycleTypeOK /\ HoldPast /\ Apart /\ OneCurrent /\ LoopState

-----------------------------------------------------------------------------
LEMMA CycleInvInit == CycleInit => CycleInv
BY CycleAssumption, EmptySeq
   DEF CycleInit, CycleInv, CycleTypeOK, IsSorted, HoldPast, Apart, OneCurrent, LoopState, All

LEMMA SortedIsSeq ==
  ASSUME NEW q \in SortedTasks
  PROVE  q \in Seq(Task) /\ Len(q) <= MaxTasks /\ IsSorted(q)
<1>1. PICK n \in 0 .. MaxTasks : q \in [1 .. n -> Task]
  BY DEF SortedTasks
<1>2. q \in Seq(Task) /\ Len(q) = n
  BY <1>1, CycleAssumption, SeqDef, LenProperties
<1> QED
  BY <1>1, <1>2, CycleAssumption DEF SortedTasks

LEMMA AggregateKeeps ==
  ASSUME CycleInv, Aggregate
  PROVE  CycleInv'
<1>1. tasks' \in Seq(Task) /\ Len(tasks') <= MaxTasks /\ IsSorted(tasks)'
  BY SortedIsSeq DEF Aggregate, IsSorted, Before
<1>2. next = 1 /\ current = {} /\ cycles = {} /\ UNCHANGED <<next, current, cycles>>
  BY DEF CycleInv, LoopState, Aggregate, All
<1>3. tasks' = <<>> => Len(tasks') = 0
  BY EmptySeq
<1>4. Len(tasks') \in Nat
  BY <1>1, LenProperties
<1> QED
  BY <1>1, <1>2, <1>3, <1>4, CycleAssumption
     DEF Aggregate, CycleInv, CycleTypeOK, HoldPast, Apart, OneCurrent, LoopState, All

(* What every turn of the loop has in common. *)
LEMMA TurnFacts ==
  ASSUME CycleInv, Turn
  PROVE  /\ next \in 1 .. MaxTasks /\ next <= Len(tasks) /\ Len(tasks) \in Nat
         /\ next' = next + 1 /\ next' \in 1 .. MaxTasks + 1
         /\ merging = "merging" /\ UNCHANGED <<merging, tasks>>
         /\ NewCycle(next) \in Cycle
<1>1. tasks \in Seq(Task) /\ Len(tasks) <= MaxTasks /\ next \in 1 .. MaxTasks + 1
  BY DEF CycleInv, CycleTypeOK
<1>2. Len(tasks) \in Nat /\ DOMAIN tasks = 1 .. Len(tasks)
  BY <1>1, LenProperties
<1>3. next \in 1 .. MaxTasks /\ next <= Len(tasks)
  BY <1>1, <1>2, CycleAssumption DEF Turn
<1> QED
  BY <1>2, <1>3, CycleAssumption DEF Turn, NewCycle, Cycle

LEMMA MergeKeeps ==
  ASSUME CycleInv, MergeMicro
  PROVE  CycleInv'
<1>1. Turn /\ cycles' = cycles
  BY DEF MergeMicro
<1>2. PICK cycle \in current : current' = {[cycle EXCEPT !.members = @ \union {next}]}
  BY DEF MergeMicro
<1> DEFINE longer == [cycle EXCEPT !.members = @ \union {next}]
<1>3. /\ cycle \in Cycle /\ cycle.first \in cycle.members
      /\ current = {cycle} /\ cycle \notin cycles
  BY <1>2 DEF CycleInv, HoldPast, OneCurrent, All
<1>4. /\ longer \in Cycle /\ longer.members = cycle.members \union {next}
      /\ longer.first \in longer.members
  BY <1>1, <1>3, TurnFacts DEF Cycle
<1>5. All' = cycles \union {longer} /\ All = cycles \union {cycle}
  BY <1>1, <1>2, <1>3 DEF All
<1> HIDE DEF longer
<1>6. \A c \in All : \A i \in c.members : i < next /\ i \in 1 .. MaxTasks
  BY DEF CycleInv, HoldPast, Cycle
<1>7. longer \notin cycles
  BY <1>1, <1>4, <1>5, <1>6, TurnFacts
<1>8. HoldPast'
  <2>1. next \in 1 .. MaxTasks /\ next' = next + 1
    BY <1>1, TurnFacts
  <2>2. \A c \in All' : c \in Cycle /\ c.first \in c.members /\ \A i \in c.members : i < next'
    <3>1. \A c \in All : \A i \in c.members : i < next'
      BY <1>6, <2>1
    <3>2. \A i \in longer.members : i < next'
      BY <1>3, <1>4, <1>5, <2>1, <3>1
    <3>3. \A c \in cycles : c \in Cycle /\ c.first \in c.members
      BY <1>5 DEF CycleInv, HoldPast
    <3> QED
      BY <1>4, <1>5, <3>1, <3>2, <3>3
  <2>3. \A i \in 1 .. MaxTasks : i < next' => \E c \in All' : i \in c.members
    <3> TAKE i \in 1 .. MaxTasks
    <3> HAVE i < next'
    <3>1. CASE i = next
      BY <1>4, <1>5, <3>1
    <3>2. CASE i < next
      <4>1. PICK c \in All : i \in c.members
        BY <3>2 DEF CycleInv, HoldPast
      <4> QED
        BY <1>4, <1>5, <4>1
    <3> QED
      BY <2>1, <3>1, <3>2
  <2> QED
    BY <2>2, <2>3 DEF HoldPast
<1>9. Apart'
  BY <1>1, <1>3, <1>4, <1>5, <1>6, TurnFacts DEF CycleInv, Apart
<1>10. OneCurrent' /\ LoopState'
  BY <1>1, <1>2, <1>5, <1>7, TurnFacts DEF OneCurrent, LoopState, longer
<1>11. CycleTypeOK'
  BY <1>1, <1>4, <1>5, TurnFacts DEF CycleInv, CycleTypeOK, IsSorted, Before, All
<1> QED
  BY <1>8, <1>9, <1>10, <1>11 DEF CycleInv

(* A turn that adds the cycle of the task alone, and perhaps flushes. *)
LEMMA NewCycleKeeps ==
  ASSUME CycleInv, Turn, All' = All \union {NewCycle(next)}, OneCurrent'
  PROVE  CycleInv'
<1>1. NewCycle(next).members = {next} /\ NewCycle(next).first = next
  BY DEF NewCycle
<1>2. \A c \in All : \A i \in c.members : i < next /\ i \in 1 .. MaxTasks
  BY DEF CycleInv, HoldPast, Cycle
<1>3. HoldPast'
  BY <1>1, <1>2, TurnFacts, CycleAssumption DEF CycleInv, HoldPast
<1>4. Apart'
  BY <1>1, <1>2, TurnFacts DEF CycleInv, Apart
<1>5. LoopState'
  BY TurnFacts DEF LoopState
<1>6. CycleTypeOK'
  BY TurnFacts DEF CycleInv, CycleTypeOK, IsSorted, Before, All
<1> QED
  BY <1>3, <1>4, <1>5, <1>6 DEF CycleInv

LEMMA FlushKeeps ==
  ASSUME CycleInv, Flush
  PROVE  CycleInv'
<1>1. All' = All /\ current' = {} /\ UNCHANGED <<tasks, next>> /\ merging' = "done"
  BY DEF Flush, All
<1>2. DOMAIN tasks = 1 .. Len(tasks) /\ Len(tasks) \in Nat
  BY LenProperties DEF CycleInv, CycleTypeOK
<1>3. next \in 1 .. MaxTasks + 1 /\ next <= Len(tasks) + 1 /\ next \notin DOMAIN tasks
  BY DEF CycleInv, CycleTypeOK, LoopState, Flush
<1>4. next = Len(tasks) + 1
  BY <1>2, <1>3, CycleAssumption
<1>5. HoldPast' /\ Apart' /\ OneCurrent' /\ LoopState'
  BY <1>1, <1>4 DEF CycleInv, HoldPast, Apart, OneCurrent, LoopState
<1>6. CycleTypeOK'
  BY <1>1 DEF CycleInv, CycleTypeOK, IsSorted, Before, All, Flush
<1> QED
  BY <1>5, <1>6 DEF CycleInv

LEMMA CycleInvNext == CycleInv /\ [CycleNext]_cycleVars => CycleInv'
<1> SUFFICES ASSUME CycleInv, [CycleNext]_cycleVars PROVE CycleInv'
  OBVIOUS
<1>1. \A c \in All : \A i \in c.members : i < next
  BY DEF CycleInv, HoldPast
<1>2. CASE Aggregate
  BY <1>2, AggregateKeeps
<1>3. CASE MergeMicro
  BY <1>3, MergeKeeps
<1>4. CASE OpenMicro
  <2>0. Turn /\ next \in 1 .. MaxTasks /\ NewCycle(next).members = {next}
    BY <1>4, TurnFacts DEF OpenMicro, NewCycle
  <2>1. Turn /\ NewCycle(next) \notin All
    BY <1>1, <2>0
  <2>2. All' = All \union {NewCycle(next)} /\ OneCurrent'
    BY <1>4, <2>1 DEF OpenMicro, All, OneCurrent
  <2> QED
    BY <2>1, <2>2, NewCycleKeeps
<1>5. CASE Singleton
  <2>1. Turn /\ All' = All \union {NewCycle(next)} /\ OneCurrent'
    BY <1>5 DEF Singleton, All, OneCurrent
  <2> QED
    BY <2>1, NewCycleKeeps
<1>6. CASE Flush
  BY <1>6, FlushKeeps
<1>7. CASE UNCHANGED cycleVars
  BY <1>7 DEF CycleInv, CycleTypeOK, IsSorted, Before, HoldPast, Apart, OneCurrent, LoopState,
              All, cycleVars
<1> QED
  BY <1>2, <1>3, <1>4, <1>5, <1>6, <1>7 DEF CycleNext

-----------------------------------------------------------------------------
(* The loop's invariant: the cycles so far hold every task before next once. *)
THEOREM CycleInvariant == CycleSpec => []CycleInv
BY CycleInvInit, CycleInvNext, PTL DEF CycleSpec

(* In the end every task is a member of exactly one cycle. *)
THEOREM EachTaskCountsOnce == CycleSpec => []EveryTaskCounted
<1>1. CycleInv => EveryTaskCounted
  <2> SUFFICES ASSUME CycleInv, merging = "done", NEW i \in DOMAIN tasks
               PROVE  \E c \in cycles : i \in c.members /\ \A d \in cycles : i \in d.members => d = c
    BY DEF EveryTaskCounted
  <2>1. i \in 1 .. MaxTasks /\ i < next
    BY LenProperties, CycleAssumption DEF CycleInv, CycleTypeOK, LoopState
  <2>2. All = cycles
    BY DEF CycleInv, LoopState, All
  <2> QED
    BY <2>1, <2>2 DEF CycleInv, HoldPast, Apart
<1> QED
  BY CycleInvariant, <1>1, PTL

(* No two cycles have the same key: the anchors differ, for they are members. *)
THEOREM KeysAlwaysTellApart == CycleSpec => []KeysTellApart
<1>1. CycleInv => KeysTellApart
  <2> SUFFICES ASSUME CycleInv, NEW c \in All, NEW d \in All, CycleKey(c) = CycleKey(d)
               PROVE  c = d
    BY DEF KeysTellApart, All
  <2>1. tasks[c.first].place = tasks[d.first].place
    BY DEF CycleKey
  <2>2. c.first \in DOMAIN tasks /\ d.first \in DOMAIN tasks
    BY LenProperties, CycleAssumption DEF CycleInv, CycleTypeOK, HoldPast, LoopState, Cycle
  <2>3. c.first \in Nat /\ d.first \in Nat
    BY CycleAssumption DEF CycleInv, HoldPast, Cycle
  <2>4. c.first = d.first
    BY <2>1, <2>2, <2>3 DEF CycleInv, CycleTypeOK, IsSorted
  <2> QED
    BY <2>4 DEF CycleInv, HoldPast, Apart
<1> QED
  BY CycleInvariant, <1>1, PTL

-----------------------------------------------------------------------------
(* The loop builds what the rule defines                                   *)

Firsts == {c.first : c \in All}

(* The first tasks so far are those that begin a cycle, ... *)
FirstsByRule == \A i \in 1 .. MaxTasks : i < next => (i \in Firsts <=> Begins(i, Firsts))

(* ... a cycle goes on up to the next one, ... *)
Stretches ==
  \A c \in All : \A i \in 1 .. MaxTasks :
    i \in c.members <=> i < next /\ c.first <= i /\ \A f \in Firsts : ~(c.first < f /\ f <= i)

(* ... and the last one is being built, or is a task that is not micro. *)
LastFirst ==
  merging = "merging" =>
    /\ \A c \in current : tasks[c.first].micro /\ \A f \in Firsts : f <= c.first
    /\ current = {} => next = 1 \/ (next - 1 \in Firsts /\ ~tasks[next - 1].micro)

RuleInv == CycleInv /\ FirstsByRule /\ Stretches /\ LastFirst

LEMMA FirstFacts ==
  ASSUME CycleInv
  PROVE  /\ \A c \in All : c \in Cycle /\ c.first \in Firsts
         /\ \A f \in Firsts : f \in 1 .. MaxTasks /\ f < next
         /\ \A c, d \in All : c.first = d.first => c = d
<1>1. \A c \in All : c \in Cycle /\ c.first \in c.members /\ c.first \in 1 .. MaxTasks /\ c.first < next
  BY DEF CycleInv, HoldPast, Cycle
<1>2. \A c, d \in All : c.first = d.first => c = d
  BY <1>1 DEF CycleInv, Apart
<1> QED
  BY <1>1, <1>2 DEF Firsts

(* A turn that opens a cycle for its task. *)
LEMMA NewCycleByRule ==
  ASSUME RuleInv, Turn, All' = All \union {NewCycle(next)}, Begins(next, Firsts)
  PROVE  Firsts' = Firsts \union {next} /\ FirstsByRule' /\ Stretches'
<1>1. NewCycle(next).members = {next} /\ NewCycle(next).first = next
  BY DEF NewCycle
<1>2. /\ next \in 1 .. MaxTasks /\ next' = next + 1 /\ tasks' = tasks /\ MaxTasks \in Nat
      /\ \A f \in Firsts : f \in 1 .. MaxTasks /\ f < next
      /\ \A c \in All : c \in Cycle /\ c.first \in Firsts
  BY TurnFacts, FirstFacts, CycleAssumption DEF RuleInv
<1>3. Firsts' = Firsts \union {next}
  BY <1>1 DEF Firsts
<1>4. \A i : Begins(i, Firsts)' <=> Begins(i, Firsts \union {next})
  BY <1>2, <1>3 DEF Begins, CanMerge
<1>5. FirstsByRule'
  <2> SUFFICES ASSUME NEW i \in 1 .. MaxTasks, i < next'
               PROVE  i \in Firsts' <=> Begins(i, Firsts)'
    BY DEF FirstsByRule
  <2>1. Begins(i, Firsts \union {next}) <=> Begins(i, Firsts)
    <3>1. \A f : f < i => (f \in Firsts \union {next} <=> f \in Firsts)
      BY <1>2
    <3> QED
      BY <3>1, <1>2 DEF Begins
  <2>2. CASE i = next
    BY <1>3, <1>4, <2>1, <2>2
  <2>3. CASE i < next
    BY <1>2, <1>3, <1>4, <2>1, <2>3 DEF RuleInv, FirstsByRule
  <2> QED
    BY <1>2, <2>2, <2>3
<1>6. Stretches'
  <2> SUFFICES ASSUME NEW c \in All', NEW i \in 1 .. MaxTasks
               PROVE  i \in c.members <=> /\ i < next + 1 /\ c.first <= i
                                          /\ \A f \in Firsts \union {next} : ~(c.first < f /\ f <= i)
    BY <1>2, <1>3 DEF Stretches
  <2>1. CASE c \in All
    <3>1. i \in c.members <=> i < next /\ c.first <= i /\ \A f \in Firsts : ~(c.first < f /\ f <= i)
      BY <2>1 DEF RuleInv, Stretches
    <3>2. c.first \in 1 .. MaxTasks /\ c.first < next
      BY <1>2, <2>1
    <3> QED
      BY <1>2, <3>1, <3>2
  <2>2. CASE c = NewCycle(next)
    BY <1>1, <1>2, <2>2
  <2> QED
    BY <2>1, <2>2
<1> QED
  BY <1>3, <1>5, <1>6

LEMMA OpenMicroByRule ==
  ASSUME RuleInv, OpenMicro, CycleInv'
  PROVE  RuleInv'
<1>1. /\ Turn /\ tasks[next].micro /\ current' = {NewCycle(next)} /\ cycles' = cycles \union current
      /\ \A cycle \in current : ~CanMerge(cycle, next)
  BY DEF OpenMicro
<1>2. /\ next \in 1 .. MaxTasks /\ tasks' = tasks /\ MaxTasks \in Nat /\ merging = "merging"
      /\ \A f \in Firsts : f \in 1 .. MaxTasks /\ f < next
      /\ \A c \in All : c.first \in Firsts
  BY <1>1, TurnFacts, FirstFacts, CycleAssumption DEF RuleInv
<1>3. Begins(next, Firsts)
  <2> SUFFICES ASSUME NEW f \in Firsts, f < next, \A g \in Firsts : g < next => g <= f,
                      tasks[f].micro, CanMerge([first |-> f], next)
               PROVE  FALSE
    BY DEF Begins
  <2>1. CASE current = {}
    BY <1>2, <2>1 DEF RuleInv, LastFirst
  <2>2. CASE current # {}
    <3>1. PICK c \in current : TRUE
      BY <2>2
    <3>2. c.first \in Firsts /\ \A g \in Firsts : g <= c.first
      BY <1>2, <3>1 DEF RuleInv, LastFirst, All
    <3>3. c.first = f
      BY <1>2, <3>2
    <3>4. CanMerge(c, next)
      BY <3>3 DEF CanMerge
    <3> QED
      BY <1>1, <3>1, <3>4
  <2> QED
    BY <2>1, <2>2
<1>4. All' = All \union {NewCycle(next)}
  BY <1>1 DEF All
<1>5. Firsts' = Firsts \union {next} /\ FirstsByRule' /\ Stretches'
  BY <1>1, <1>3, <1>4, NewCycleByRule
<1>6. LastFirst'
  <2>1. NewCycle(next).first = next /\ NewCycle(next) \in current'
    BY <1>1 DEF NewCycle
  <2>2. \A c \in current' : c.first = next
    BY <1>1, <2>1
  <2>3. \A f \in Firsts' : f <= next
    BY <1>2, <1>5
  <2> QED
    BY <1>1, <1>2, <2>1, <2>2, <2>3 DEF LastFirst
<1> QED
  BY <1>5, <1>6 DEF RuleInv

LEMMA SingletonByRule ==
  ASSUME RuleInv, Singleton, CycleInv'
  PROVE  RuleInv'
<1>1. /\ Turn /\ ~tasks[next].micro /\ current' = {}
      /\ cycles' = cycles \union current \union {NewCycle(next)}
  BY DEF Singleton
<1>2. next \in 1 .. MaxTasks /\ next' = next + 1 /\ tasks' = tasks
  BY <1>1, TurnFacts DEF RuleInv
<1>3. Begins(next, Firsts)
  BY <1>1 DEF Begins
<1>4. All' = All \union {NewCycle(next)}
  BY <1>1 DEF All
<1>5. Firsts' = Firsts \union {next} /\ FirstsByRule' /\ Stretches'
  BY <1>1, <1>3, <1>4, NewCycleByRule
<1>6. LastFirst'
  BY <1>1, <1>2, <1>5 DEF LastFirst
<1> QED
  BY <1>5, <1>6 DEF RuleInv

LEMMA MergeByRule ==
  ASSUME RuleInv, MergeMicro, CycleInv'
  PROVE  RuleInv'
<1>1. Turn /\ tasks[next].micro /\ cycles' = cycles
  BY DEF MergeMicro
<1>2. PICK cycle \in current : /\ CanMerge(cycle, next)
                              /\ current' = {[cycle EXCEPT !.members = @ \union {next}]}
  BY DEF MergeMicro
<1> DEFINE longer == [cycle EXCEPT !.members = @ \union {next}]
<1>3. /\ next \in 1 .. MaxTasks /\ next' = next + 1 /\ tasks' = tasks /\ MaxTasks \in Nat
      /\ merging = "merging"
      /\ \A f \in Firsts : f \in 1 .. MaxTasks /\ f < next
      /\ \A c \in All : c \in Cycle /\ c.first \in Firsts
      /\ \A c, d \in All : c.first = d.first => c = d
      /\ current = {cycle} /\ cycle \in All /\ cycle \notin cycles
  BY <1>1, <1>2, TurnFacts, FirstFacts, CycleAssumption DEF RuleInv, CycleInv, OneCurrent, All
<1>4. longer.first = cycle.first /\ longer.members = cycle.members \union {next}
  BY <1>3 DEF Cycle
<1>5. All' = cycles \union {longer} /\ All = cycles \union {cycle} /\ current' = {longer}
  BY <1>1, <1>2, <1>3 DEF All
<1> HIDE DEF longer
<1>6. Firsts' = Firsts
  BY <1>4, <1>5 DEF Firsts
<1>7. tasks[cycle.first].micro /\ \A f \in Firsts : f <= cycle.first
  BY <1>2, <1>3 DEF RuleInv, LastFirst
<1>8. cycle.first \in Firsts /\ cycle.first < next /\ cycle.first \in 1 .. MaxTasks
  BY <1>3
<1>9. \A i : Begins(i, Firsts)' <=> Begins(i, Firsts)
  BY <1>3, <1>6 DEF Begins, CanMerge
<1>10. FirstsByRule'
  <2>1. next \notin Firsts
    BY <1>3
  <2>2. CanMerge([first |-> cycle.first], next)
    BY <1>2 DEF CanMerge
  <2>3. ~Begins(next, Firsts)
    BY <1>1, <1>7, <1>8, <2>2 DEF Begins
  <2> SUFFICES ASSUME NEW i \in 1 .. MaxTasks, i < next'
               PROVE  i \in Firsts <=> Begins(i, Firsts)
    BY <1>6, <1>9 DEF FirstsByRule
  <2>4. CASE i = next
    BY <2>1, <2>3, <2>4
  <2>5. CASE i < next
    BY <2>5 DEF RuleInv, FirstsByRule
  <2> QED
    BY <1>3, <2>4, <2>5
<1>11. Stretches'
  <2> SUFFICES ASSUME NEW c \in All', NEW i \in 1 .. MaxTasks
               PROVE  i \in c.members <=> /\ i < next + 1 /\ c.first <= i
                                          /\ \A f \in Firsts : ~(c.first < f /\ f <= i)
    BY <1>3, <1>6 DEF Stretches
  <2>1. \A d \in All : i \in d.members <=> i < next /\ d.first <= i
                                           /\ \A f \in Firsts : ~(d.first < f /\ f <= i)
    BY DEF RuleInv, Stretches
  <2>2. CASE c = longer
    BY <1>3, <1>4, <1>7, <1>8, <2>1, <2>2
  <2>3. CASE c \in cycles
    <3>1. c \in All /\ c.first \in Firsts /\ c # cycle
      BY <1>3, <1>5, <2>3
    <3>2. c.first # cycle.first /\ c.first <= cycle.first
      BY <1>3, <1>7, <3>1
    <3>3. c.first < cycle.first /\ cycle.first <= next
      BY <1>3, <1>8, <3>1, <3>2
    <3> QED
      BY <1>3, <1>8, <2>1, <3>1, <3>3
  <2> QED
    BY <1>5, <2>2, <2>3
<1>12. LastFirst'
  BY <1>3, <1>4, <1>5, <1>6, <1>7 DEF LastFirst
<1> QED
  BY <1>10, <1>11, <1>12 DEF RuleInv

(* Before the loop begins, and when it ends, the rule's cycles are the same. *)
LEMMA AggregateByRule ==
  ASSUME RuleInv, Aggregate, CycleInv'
  PROVE  RuleInv'
<1>1. next = 1 /\ All = {} /\ current = {} /\ UNCHANGED <<next, current, cycles>>
  BY DEF RuleInv, CycleInv, LoopState, Aggregate, All
<1>2. All' = {} /\ next' = 1 /\ current' = {}
  BY <1>1 DEF All
<1>3. FirstsByRule'
  BY <1>2 DEF FirstsByRule
<1>4. Stretches' /\ LastFirst'
  BY <1>2 DEF Stretches, LastFirst
<1> QED
  BY <1>3, <1>4 DEF RuleInv

LEMMA FlushByRule ==
  ASSUME RuleInv, Flush, CycleInv'
  PROVE  RuleInv'
<1>1. All' = All /\ Firsts' = Firsts /\ next' = next /\ tasks' = tasks
  BY DEF Flush, All, Firsts
<1>2. \A i : Begins(i, Firsts)' <=> Begins(i, Firsts)
  BY <1>1 DEF Begins, CanMerge
<1>3. FirstsByRule'
  BY <1>1, <1>2 DEF RuleInv, FirstsByRule
<1>4. Stretches'
  BY <1>1 DEF RuleInv, Stretches
<1>5. LastFirst'
  BY DEF LastFirst, Flush
<1> QED
  BY <1>3, <1>4, <1>5 DEF RuleInv

LEMMA RuleInvInit == CycleInit => RuleInv
<1> SUFFICES ASSUME CycleInit PROVE RuleInv
  OBVIOUS
<1>1. All = {} /\ next = 1 /\ merging = "idle"
  BY DEF CycleInit, All
<1> QED
  BY <1>1, CycleInvInit DEF RuleInv, FirstsByRule, Stretches, LastFirst

LEMMA RuleInvNext == RuleInv /\ [CycleNext]_cycleVars => RuleInv'
<1> SUFFICES ASSUME RuleInv, [CycleNext]_cycleVars PROVE RuleInv'
  OBVIOUS
<1>1. CycleInv'
  BY CycleInvNext DEF RuleInv
<1>2. CASE Aggregate
  BY <1>1, <1>2, AggregateByRule
<1>3. CASE MergeMicro
  BY <1>1, <1>3, MergeByRule
<1>4. CASE OpenMicro
  BY <1>1, <1>4, OpenMicroByRule
<1>5. CASE Singleton
  BY <1>1, <1>5, SingletonByRule
<1>6. CASE Flush
  BY <1>1, <1>6, FlushByRule
<1>7. CASE UNCHANGED cycleVars
  <2>1. All' = All /\ Firsts' = Firsts /\ next' = next /\ tasks' = tasks
        /\ current' = current /\ merging' = merging
    BY <1>7 DEF cycleVars, All, Firsts
  <2>2. \A i : Begins(i, Firsts)' <=> Begins(i, Firsts)
    BY <2>1 DEF Begins, CanMerge
  <2>3. FirstsByRule'
    BY <2>1, <2>2 DEF RuleInv, FirstsByRule
  <2> QED
    BY <1>1, <2>1, <2>3 DEF RuleInv, Stretches, LastFirst
<1> QED
  BY <1>2, <1>3, <1>4, <1>5, <1>6, <1>7 DEF CycleNext

(* The cycles that are stored are those the merging rule defines, for any tasks. *)
THEOREM MergedByTheRule == CycleSpec => []MergedAsDefined
<1>1. RuleInv /\ KeysTellApart => MergedAsDefined
  <2> SUFFICES ASSUME RuleInv, KeysTellApart, merging = "done"
               PROVE  MergedAsDefined
    BY DEF MergedAsDefined
  <2>1. /\ All = cycles /\ next = Len(tasks) + 1 /\ DOMAIN tasks = 1 .. Len(tasks)
        /\ Len(tasks) \in Nat /\ Len(tasks) <= MaxTasks /\ MaxTasks \in Nat
        /\ Firsts = {c.first : c \in cycles}
    BY LenProperties, CycleAssumption DEF RuleInv, CycleInv, CycleTypeOK, LoopState, All, Firsts
  <2>2. \A i \in DOMAIN tasks : i \in Firsts <=> Begins(i, Firsts)
    BY <2>1 DEF RuleInv, FirstsByRule
  <2>3. \A c \in cycles :
          c.members = {i \in DOMAIN tasks :
                         c.first <= i /\ \A f \in Firsts : ~(c.first < f /\ f <= i)}
    <3> SUFFICES ASSUME NEW c \in cycles
                 PROVE  c.members = {i \in DOMAIN tasks :
                                       c.first <= i /\ \A f \in Firsts : ~(c.first < f /\ f <= i)}
      OBVIOUS
    <3>1. c.members \subseteq 1 .. MaxTasks
      BY <2>1 DEF RuleInv, CycleInv, HoldPast, Cycle
    <3>2. \A i \in 1 .. MaxTasks :
            i \in c.members <=> i < next /\ c.first <= i
                               /\ \A f \in Firsts : ~(c.first < f /\ f <= i)
      BY <2>1 DEF RuleInv, Stretches
    <3>3. \A i \in 1 .. MaxTasks : i < next <=> i \in DOMAIN tasks
      BY <2>1
    <3>4. DOMAIN tasks \subseteq 1 .. MaxTasks
      BY <2>1
    <3> QED
      BY <3>1, <3>2, <3>3, <3>4
  <2>4. \A c, d \in cycles : CycleKey(c) = CycleKey(d) => c = d
    BY DEF KeysTellApart
  <2> QED
    BY <2>1, <2>2, <2>3, <2>4 DEF MergedAsDefined
<1>2. CycleSpec => []RuleInv
  BY RuleInvInit, RuleInvNext, PTL DEF CycleSpec
<1> QED
  BY <1>1, <1>2, KeysAlwaysTellApart, PTL

-----------------------------------------------------------------------------
(* KnowledgeIndex: articles and chunks.                                    *)

(* While no file changes, a run has parsed what it has not left to do. *)
FreshParsed ==
  \A i \in Indexers :
    /\ run[i].stage = "writing" => run[i].todo = {}
    /\ run[i].stage \in {"parsing", "writing"} /\ run[i].fresh =>
         \A p \in Paths : p \notin run[i].todo => run[i].parsed[p] = Parsed(p)

(* The inductive invariant.  FreshParsed is what the freshness of a run needs; *)
(* the answers are whole because the chunks match when they are read.          *)
IndexInv ==
  /\ KnowledgeTypeOK
  /\ ChunksMatchArticles
  /\ AnswersAreWhole
  /\ FreshParsed

-----------------------------------------------------------------------------
LEMMA RunFields ==
  ASSUME KnowledgeTypeOK, NEW i \in Indexers
  PROVE  /\ run[i] \in Run
         /\ run[i].parsed \in Rows /\ run[i].todo \subseteq Paths
BY DEF KnowledgeTypeOK, Run

LEMMA IndexInit == KnowledgeInit => IndexInv
<1> SUFFICES ASSUME KnowledgeInit PROVE IndexInv
  OBVIOUS
<1> USE DEF KnowledgeInit, NoRows
<1>1. IdleRun \in Run
  BY DEF IdleRun, Run, Rows
<1>2. KnowledgeTypeOK
  BY <1>1, KnowledgeAssumption DEF KnowledgeTypeOK, Rows
<1>3. ChunksMatchArticles
  BY KnowledgeAssumption DEF ChunksMatchArticles, ChunksOf
<1>4. AnswersAreWhole
  BY DEF AnswersAreWhole
<1>5. FreshParsed
  BY DEF FreshParsed, IdleRun
<1> QED
  BY <1>2, <1>3, <1>4, <1>5 DEF IndexInv

(* An edit makes no run fresh, and leaves the index alone. *)
LEMMA EditKeeps ==
  ASSUME IndexInv, NEW q \in Paths, Edit(q)
  PROVE  IndexInv'
<1>1. KnowledgeTypeOK'
  <2> USE DEF IndexInv, Edit, KnowledgeTypeOK
  <2>1. files' \in [Paths -> Bodies \union {Absent, Broken}]
    OBVIOUS
  <2>2. edits' \in 0 .. MaxEdits
    BY KnowledgeAssumption
  <2>3. ASSUME NEW i \in Indexers
        PROVE  [run[i] EXCEPT !.fresh = FALSE] \in Run
    <3>1. run[i] \in Run
      OBVIOUS
    <3> QED
      BY ONLY <3>1 DEF Run
  <2>4. run' \in [Indexers -> Run]
    BY <2>3
  <2> QED
    BY <2>1, <2>2, <2>4
<1>2. ChunksMatchArticles' /\ AnswersAreWhole'
  BY DEF IndexInv, Edit, ChunksMatchArticles, ChunksOf, AnswersAreWhole
<1>3. FreshParsed'
  BY DEF IndexInv, Edit, FreshParsed, KnowledgeTypeOK, Run
<1> QED
  BY <1>1, <1>2, <1>3 DEF IndexInv

(* A step of a run that leaves the tables alone. *)
LEMMA IndexUntouched ==
  ASSUME IndexInv, UNCHANGED <<article, chunks, cache, answer>>
  PROVE  ChunksMatchArticles' /\ AnswersAreWhole'
BY DEF IndexInv, ChunksMatchArticles, ChunksOf, AnswersAreWhole

LEMMA ListKeeps ==
  ASSUME IndexInv, NEW i \in Indexers, List(i)
  PROVE  IndexInv'
<1> DEFINE new == [stage |-> "parsing", todo |-> {p \in Paths : files[p] # Absent},
                   parsed |-> NoRows, fresh |-> TRUE]
<1>1. /\ KnowledgeTypeOK /\ run' = [run EXCEPT ![i] = new]
      /\ UNCHANGED <<files, edits, article, chunks, cache, answer>>
  BY DEF IndexInv, List
<1>2. new \in Run
  BY DEF Run, Rows, NoRows
<1>3. KnowledgeTypeOK'
  BY <1>1, <1>2 DEF KnowledgeTypeOK
<1>4. FreshParsed'
  <2>1. \A p \in Paths : p \notin new.todo => new.parsed[p] = Parsed(p)
    BY KnowledgeAssumption DEF NoRows, Parsed
  <2>2. \A j \in Indexers : run'[j] = IF j = i THEN new ELSE run[j]
    BY <1>1 DEF KnowledgeTypeOK
  <2> HIDE DEF new
  <2>3. new.stage = "parsing"
    BY DEF new
  <2> QED
    BY <1>1, <2>1, <2>2, <2>3 DEF FreshParsed, IndexInv, Parsed
<1> QED
  BY <1>1, <1>3, <1>4, IndexUntouched DEF IndexInv

LEMMA ParseKeeps ==
  ASSUME IndexInv, NEW i \in Indexers, Parse(i)
  PROVE  IndexInv'
<1>1. KnowledgeTypeOK /\ run[i].stage = "parsing"
      /\ UNCHANGED <<files, edits, article, chunks, cache, answer>>
  BY DEF IndexInv, Parse
<1>2. PICK p \in run[i].todo :
        run' = [run EXCEPT ![i].todo = @ \ {p}, ![i].parsed[p] = Parsed(p)]
  BY DEF Parse, Parsed
<1>3. run[i] \in Run /\ run[i].parsed \in Rows /\ run[i].todo \subseteq Paths
  BY <1>1, RunFields
<1>4. Parsed(p) \in Bodies \union {Absent}
  BY DEF Parsed
<1>5. /\ run'[i].stage = "parsing" /\ run'[i].fresh = run[i].fresh
      /\ run'[i].todo = run[i].todo \ {p}
      /\ run'[i].parsed = [run[i].parsed EXCEPT ![p] = Parsed(p)]
      /\ \A j \in Indexers : j # i => run'[j] = run[j]
  BY <1>1, <1>2, <1>3 DEF KnowledgeTypeOK, Run
<1>6. run' \in [Indexers -> Run]
  BY <1>1, <1>2, <1>3, <1>4 DEF KnowledgeTypeOK, Run, Rows
<1>7. KnowledgeTypeOK'
  BY <1>1, <1>6 DEF KnowledgeTypeOK
<1>8. FreshParsed'
  <2> SUFFICES ASSUME NEW j \in Indexers
               PROVE  /\ run'[j].stage = "writing" => run'[j].todo = {}
                      /\ run'[j].stage \in {"parsing", "writing"} /\ run'[j].fresh =>
                           \A q \in Paths : q \notin run'[j].todo => run'[j].parsed[q] = Parsed(q)
    BY <1>1 DEF FreshParsed, Parsed
  <2>1. CASE j # i
    BY <1>5, <2>1 DEF IndexInv, FreshParsed
  <2>2. CASE j = i
    BY <1>1, <1>3, <1>5, <2>2 DEF IndexInv, FreshParsed, Rows
  <2> QED
    BY <2>1, <2>2
<1> QED
  BY <1>1, <1>7, <1>8, IndexUntouched DEF IndexInv

(* UpsertArticles and IndexFault only change the stage. *)
LEMMA StageKeeps ==
  ASSUME IndexInv, NEW i \in Indexers, UpsertArticles(i) \/ IndexFault(i)
  PROVE  IndexInv'
<1>1. /\ KnowledgeTypeOK
      /\ UNCHANGED <<files, edits, article, chunks, cache, answer>>
  BY DEF IndexInv, UpsertArticles, IndexFault
<1>2. PICK stage \in {"writing", "failed"} :
        /\ run' = [run EXCEPT ![i].stage = stage]
        /\ stage = "writing" => run[i].stage = "parsing" /\ run[i].todo = {}
  BY DEF UpsertArticles, IndexFault
<1>3. KnowledgeTypeOK'
  BY <1>1, <1>2 DEF KnowledgeTypeOK, Run
<1>4. FreshParsed'
  BY <1>1, <1>2 DEF IndexInv, FreshParsed, Parsed, KnowledgeTypeOK, Run
<1> QED
  BY <1>1, <1>3, <1>4, IndexUntouched DEF IndexInv

LEMMA CommitKeeps ==
  ASSUME IndexInv, NEW i \in Indexers, Commit(i)
  PROVE  IndexInv'
<1>1. KnowledgeTypeOK /\ run[i].stage = "writing"
      /\ run' = [run EXCEPT ![i].stage = "done"]
      /\ UNCHANGED <<files, edits, cache, answer>>
  BY DEF IndexInv, Commit
<1>2. run[i].parsed \in Rows
  BY <1>1, RunFields
<1>3. article' \in Rows /\ chunks' \in Rows
  BY <1>1, <1>2 DEF Commit, Rows, KnowledgeTypeOK, ChunksOf
<1>4. KnowledgeTypeOK'
  BY <1>1, <1>3 DEF KnowledgeTypeOK, Run
<1>5. ChunksMatchArticles'
  BY DEF IndexInv, Commit, ChunksMatchArticles, ChunksOf
<1>6. AnswersAreWhole'
  BY <1>1 DEF IndexInv, AnswersAreWhole
<1>7. FreshParsed'
  BY <1>1 DEF IndexInv, FreshParsed, Parsed, KnowledgeTypeOK, Run
<1> QED
  BY <1>4, <1>5, <1>6, <1>7 DEF IndexInv

(* What one statement reads is whole, for the chunks match. *)
LEMMA MatchesWhole ==
  ASSUME IndexInv
  PROVE  Matches \in Answers /\ \A row \in Matches : row.title = row.excerpt
BY KnowledgeAssumption DEF IndexInv, Matches, Answers, ChunksMatchArticles, ChunksOf, KnowledgeTypeOK, Rows

LEMMA LookupKeeps ==
  ASSUME IndexInv, NEW l \in Lookups, LookupMiss(l) \/ LookupReturns(l)
  PROVE  IndexInv'
<1>1. UNCHANGED <<files, edits, article, chunks, run>>
  BY DEF LookupMiss, LookupReturns
<1>2. ChunksMatchArticles' /\ FreshParsed'
  BY <1>1 DEF IndexInv, ChunksMatchArticles, ChunksOf, FreshParsed, Parsed
<1>3. CASE LookupMiss(l)
  <2>1. KnowledgeTypeOK'
    BY <1>1, <1>3, MatchesWhole DEF IndexInv, KnowledgeTypeOK, LookupMiss
  <2>2. AnswersAreWhole'
    BY <1>1, <1>3, MatchesWhole DEF IndexInv, KnowledgeTypeOK, LookupMiss, AnswersAreWhole
  <2> QED
    BY <1>2, <2>1, <2>2 DEF IndexInv
<1>4. CASE LookupReturns(l)
  <2>1. KnowledgeTypeOK'
    BY <1>1, <1>4 DEF IndexInv, KnowledgeTypeOK, LookupReturns
  <2>2. AnswersAreWhole'
    BY <1>1, <1>4 DEF IndexInv, KnowledgeTypeOK, LookupReturns, AnswersAreWhole
  <2> QED
    BY <1>2, <2>1, <2>2 DEF IndexInv
<1> QED
  BY <1>3, <1>4

LEMMA EvictKeeps ==
  ASSUME IndexInv, Evict
  PROVE  IndexInv'
BY DEF IndexInv, Evict, KnowledgeTypeOK, ChunksMatchArticles, ChunksOf, AnswersAreWhole, FreshParsed, Parsed

LEMMA IndexNext == IndexInv /\ [KnowledgeNext]_knowledgeVars => IndexInv'
<1> SUFFICES ASSUME IndexInv, [KnowledgeNext]_knowledgeVars PROVE IndexInv'
  OBVIOUS
<1>1. CASE \E p \in Paths : Edit(p)
  BY <1>1, EditKeeps
<1>2. CASE \E i \in Indexers : List(i)
  BY <1>2, ListKeeps
<1>3. CASE \E i \in Indexers : Parse(i)
  BY <1>3, ParseKeeps
<1>4. CASE \E i \in Indexers : UpsertArticles(i) \/ IndexFault(i)
  BY <1>4, StageKeeps
<1>5. CASE \E i \in Indexers : Commit(i)
  BY <1>5, CommitKeeps
<1>6. CASE \E l \in Lookups : LookupMiss(l) \/ LookupReturns(l)
  BY <1>6, LookupKeeps
<1>7. CASE Evict
  BY <1>7, EvictKeeps
<1>8. CASE UNCHANGED knowledgeVars
  BY <1>8 DEF knowledgeVars, IndexInv, KnowledgeTypeOK, ChunksMatchArticles, ChunksOf,
              AnswersAreWhole, FreshParsed, Parsed
<1> QED
  BY <1>1, <1>2, <1>3, <1>4, <1>5, <1>6, <1>7, <1>8 DEF KnowledgeNext

-----------------------------------------------------------------------------
(* The invariant holds in every reachable state, for any number of runs. *)
THEOREM IndexInvariant == KnowledgeSpec => []IndexInv
BY IndexInit, IndexNext, PTL DEF KnowledgeSpec

(* The chunks of every path are those of its article, however runs overlap. *)
THEOREM ChunksAlwaysMatch == KnowledgeSpec => []ChunksMatchArticles
<1>1. IndexInv => ChunksMatchArticles
  BY DEF IndexInv
<1> QED
  BY IndexInvariant, <1>1, PTL

(* No answer, cached or not, mixes two versions of an article. *)
THEOREM AnswersAlwaysWhole == KnowledgeSpec => []AnswersAreWhole
<1>1. IndexInv => AnswersAreWhole
  BY DEF IndexInv
<1> QED
  BY IndexInvariant, <1>1, PTL

(* What a commit of an undisturbed run leaves. *)
FreshCommit ==
  \A i \in Indexers :
    run[i].stage = "writing" /\ run'[i].stage = "done" /\ run[i].fresh
      => \A p \in Paths : article'[p] = IF files[p] \in Bodies THEN files[p] ELSE article[p]

LEMMA CommitIsFresh ==
  ASSUME IndexInv, NEW i \in Indexers, Commit(i), run[i].fresh
  PROVE  \A p \in Paths : article'[p] = IF files[p] \in Bodies THEN files[p] ELSE article[p]
BY KnowledgeAssumption DEF IndexInv, FreshParsed, Commit, Written, Parsed

LEMMA StepIsFresh == IndexInv /\ [KnowledgeNext]_knowledgeVars => FreshCommit
<1> SUFFICES ASSUME IndexInv, [KnowledgeNext]_knowledgeVars, NEW i \in Indexers,
                    run[i].stage = "writing", run'[i].stage = "done", run[i].fresh
             PROVE  \A p \in Paths : article'[p] = IF files[p] \in Bodies THEN files[p] ELSE article[p]
  BY DEF FreshCommit
<1>1. KnowledgeTypeOK
  BY DEF IndexInv
<1>2. \A q \in Paths : ~Edit(q)
  BY <1>1 DEF Edit, KnowledgeTypeOK, Run
<1>3. \A j \in Indexers : ~List(j) /\ ~Parse(j)
  BY <1>1 DEF List, Parse, KnowledgeTypeOK, Run
<1>4. \A j \in Indexers : ~UpsertArticles(j) /\ ~IndexFault(j)
  BY <1>1 DEF UpsertArticles, IndexFault, KnowledgeTypeOK, Run
<1>5. \A j \in Indexers : Commit(j) => j = i
  BY <1>1 DEF Commit, KnowledgeTypeOK, Run
<1>6. run' # run
  OBVIOUS
<1>7. Commit(i)
  BY <1>2, <1>3, <1>4, <1>5, <1>6 DEF KnowledgeNext, LookupMiss, LookupReturns, Evict, knowledgeVars
<1> QED
  BY <1>7, CommitIsFresh

(* A run during which no file changes leaves the index as the files are. *)
THEOREM RunsLeaveIndexFresh == KnowledgeSpec => RunLeavesIndexFresh
<1>1. IndexInv /\ [KnowledgeNext]_knowledgeVars => [FreshCommit]_knowledgeVars
  BY StepIsFresh
<1> QED
  BY IndexInvariant, <1>1, PTL DEF KnowledgeSpec, RunLeavesIndexFresh, FreshCommit
=============================================================================
