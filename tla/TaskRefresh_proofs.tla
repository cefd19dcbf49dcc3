------------------------- MODULE TaskRefresh_proofs -------------------------
(***************************************************************************)
(* Proofs about TaskRefresh, for any sheets, task lines, normalize runs,   *)
(* limits and bounds.                                                      *)
(***************************************************************************)
EXTENDS TaskRefresh, TLAPS

\* The rows a normalize run has read are those of raw_tasks, but for the rows a
\* parse refresh has removed since.
SnapshotsValid ==
  \A p \in Normalizers : normalizer[p].stage # "idle" =>
    \A s \in Slots \ normalizer[p].gone :
      normalizer[p].rows[s] # Blank => raw[s] = normalizer[p].rows[s]

\* No two normalize runs write the same sheet and date.
OneWriterEach ==
  \A p, q \in Normalizers, part \in Parts :
    /\ p # q
    /\ normalizer[p].stage = "write" /\ FirstPart(p, part)
    /\ normalizer[q].stage = "write"
    => ~FirstPart(q, part)

\* A normalize run has deleted whatever normalized row its own rows would hit.
PartitionsOwned ==
  \A p \in Normalizers, part \in Parts :
    normalizer[p].stage = "write" /\ FirstPart(p, part) =>
      \A s \in PartRows(p, part) \ normalizer[p].gone :
        norm[s] # Blank => s \in normalizer[p].target

IInv ==
  /\ TypeOK
  /\ NormalizedMirrorsRaw
  /\ SheetFromOneSnapshot
  /\ SnapshotsValid
  /\ OneWriterEach
  /\ PartitionsOwned

-----------------------------------------------------------------------------
(* Facts about slots and partitions                                        *)

\* Blank is no task line, so a cell of a table holds one exactly if not Blank.
LEMMA BlankIsNoTask == Blank \notin Task
BY TaskRefreshAssumption DEF Task, Days

\* The rows of a sheet with given dates are slots of the sheet with such rows.
LEMMA DatedRows ==
  ASSUME NEW table, NEW sh, NEW D, NEW s
  PROVE  s \in Dated(table, sh, D) <=>
           /\ s \in Slots /\ s[1] = sh
           /\ table[s] \in Task /\ table[s].day \in D
BY DEF Dated, TaskSlots, SlotsOf

\* A row of a sheet is dated in the dates of the sheet.
LEMMA DaysOfRows ==
  ASSUME NEW table, NEW s \in Slots, table[s] \in Task
  PROVE  table[s].day \in DaysOf(table, s[1])
BY DEF DaysOf, TaskSlots, SlotsOf

\* A normalize run works on one partition at a time.
LEMMA FirstPartUnique ==
  ASSUME NEW p, NEW a \in Parts, NEW b \in Parts, FirstPart(p, a), FirstPart(p, b)
  PROVE  a = b
<1>1. Before(a, b) /\ Before(b, a)
  BY DEF FirstPart
<1>2. a[1] \in Nat /\ a[2] \in Nat /\ b[1] \in Nat /\ b[2] \in Nat
  BY DEF Parts, Sheets, Days
<1>3. a[1] = b[1] /\ a[2] = b[2]
  BY <1>1, <1>2 DEF Before
<1>4. a = <<a[1], a[2]>> /\ b = <<b[1], b[2]>>
  BY DEF Parts
<1> QED
  BY <1>3, <1>4

-----------------------------------------------------------------------------
(* Which steps change what                                                 *)

\* Only the two commits write raw_tasks and tasks_normalized.
LEMMA TablesChange ==
  ASSUME [Next]_vars
  PROVE  \/ \E sh \in Sheets : ParseCommit(sh)
         \/ \E p \in Normalizers, part \in Parts : NormalizeCommit(p, part)
         \/ UNCHANGED <<raw, norm, parsed>>
BY DEF Next, vars, ParseStep, NormalizeStep, IngestRange, ParseBegin, ParseEnd,
       ParseDeleteNormalized, ParseRestricted, ParseFault, NormalizeBegin,
       NormalizeEnd, NormalizeLimit, NormalizeSkip, NormalizeDelete,
       NormalizeRejected, NormalizeFault

\* What a step leaves of a normalize run it does not start, delete for or commit.
LEMMA NormalizersChange ==
  ASSUME [Next]_vars, TypeOK, NEW q \in Normalizers
  PROVE  \/ \E sh \in Sheets : ParseCommit(sh)
         \/ NormalizeBegin(q)
         \/ \E p \in Normalizers, part \in Parts :
              NormalizeDelete(p, part) \/ NormalizeCommit(p, part)
         \/ normalizer'[q] = IdleNormalizer
         \/ \E part \in Parts :
              /\ normalizer[q].stage = "partition"
              /\ normalizer'[q] = [normalizer[q] EXCEPT !.todo = @ \ {part}]
         \/ normalizer'[q] = normalizer[q]
<1>1. ASSUME NEW p \in Normalizers, NormalizeBegin(p)
      PROVE  NormalizeBegin(q) \/ normalizer'[q] = normalizer[q]
  BY <1>1 DEF TypeOK, NormalizeBegin
<1>2. ASSUME NEW p \in Normalizers, NormalizeEnd(p) \/ NormalizeFault(p)
      PROVE  normalizer'[q] = IdleNormalizer \/ normalizer'[q] = normalizer[q]
  BY <1>2 DEF TypeOK, NormalizeEnd, NormalizeFault
<1>3. ASSUME NEW p \in Normalizers, NEW part \in Parts,
             NormalizeLimit(p, part) \/ NormalizeRejected(p, part)
      PROVE  normalizer'[q] = IdleNormalizer \/ normalizer'[q] = normalizer[q]
  BY <1>3 DEF TypeOK, NormalizeLimit, NormalizeRejected
<1>4. ASSUME NEW p \in Normalizers, NEW part \in Parts, NormalizeSkip(p, part)
      PROVE  \/ /\ normalizer[q].stage = "partition"
                /\ normalizer'[q] = [normalizer[q] EXCEPT !.todo = @ \ {part}]
             \/ normalizer'[q] = normalizer[q]
  BY <1>4 DEF TypeOK, NormalizeSkip
<1>5. CASE UNCHANGED vars
  BY <1>5 DEF vars
<1>6. CASE \E sh \in Sheets, f \in [1 .. Width -> Cell] : IngestRange(sh, f)
  BY <1>6 DEF IngestRange
<1>7. CASE ParseFault \/ ParseBegin \/ ParseEnd
  BY <1>7 DEF ParseFault, ParseBegin, ParseEnd
<1>8. ASSUME NEW sh \in Sheets, ParseDeleteNormalized(sh) \/ ParseRestricted(sh)
      PROVE  normalizer'[q] = normalizer[q]
  BY <1>8 DEF ParseDeleteNormalized, ParseRestricted
<1> QED
  BY <1>1, <1>2, <1>3, <1>4, <1>5, <1>6, <1>7, <1>8 DEF Next, ParseStep, NormalizeStep

-----------------------------------------------------------------------------
(* Type correctness                                                        *)

\* The records of a run have the fields of their type.
LEMMA IdleTypes ==
  /\ IdleParser \in Parser
  /\ IdleNormalizer \in Normalizer
BY DEF Parser, Normalizer, IdleParser, IdleNormalizer, NoRows, Table, Cell

\* Initially every variable has its type.
LEMMA InitTypeOK == Init => TypeOK
BY IdleTypes, TaskRefreshAssumption DEF Init, TypeOK, NoRows, Table, Cell

\* The steps of the parse run preserve the types.
LEMMA ParseTypeOK ==
  ASSUME TypeOK, ParseStep \/ ParseFault
  PROVE  TypeOK'
<1>1. CASE ParseBegin
  BY <1>1, IdleTypes DEF TypeOK, Parser, ParseBegin
<1>2. CASE ParseEnd
  BY <1>2, IdleTypes DEF TypeOK, ParseEnd
<1>3. CASE ParseFault
  BY <1>3, IdleTypes, TaskRefreshAssumption DEF TypeOK, ParseFault
<1>4. ASSUME NEW sh \in Sheets, ParseRestricted(sh)
      PROVE  TypeOK'
  BY <1>4, IdleTypes DEF TypeOK, ParseRestricted
<1>5. ASSUME NEW sh \in Sheets, ParseDeleteNormalized(sh)
      PROVE  TypeOK'
  <2> DEFINE target == Dated(norm, sh, RefreshDays(sh))
  <2>1. target \subseteq Slots
    BY DatedRows
  <2>2. parser' = [parser EXCEPT !.stage = "refresh", !.target = target,
                                 !.locked = target \ LockedByOthers("parser")]
    BY <1>5 DEF ParseDeleteNormalized
  <2> HIDE DEF target
  <2>3. [parser EXCEPT !.stage = "refresh", !.target = target,
                       !.locked = target \ LockedByOthers("parser")] \in Parser
    BY <2>1 DEF TypeOK, Parser
  <2> QED
    BY <1>5, <2>2, <2>3 DEF TypeOK, ParseDeleteNormalized
<1>6. ASSUME NEW sh \in Sheets, ParseCommit(sh)
      PROVE  TypeOK'
  <2> DEFINE old == Dated(raw, sh, RefreshDays(sh))
             new == TaskSlots(parser.cells, sh)
  <2>1. old \subseteq Slots
    BY DatedRows
  <2>2. \A s \in new : s \in Slots /\ parser.cells[s] \in Task
    BY DEF TaskSlots, SlotsOf
  <2>3. raw' \in Table
    <3>1. raw' = [s \in Slots |-> IF s \in new THEN parser.cells[s]
                                  ELSE IF s \in old THEN Blank ELSE raw[s]]
      BY <1>6 DEF ParseCommit
    <3> HIDE DEF old, new
    <3> QED
      BY <2>2, <3>1 DEF TypeOK, Table, Parser
  <2>4. norm' \in Table
    BY <1>6 DEF ParseCommit, TypeOK, Table
  <2>5. parser' \in Parser
    BY <1>6 DEF ParseCommit, TypeOK, Parser
  <2>6. parsed' \in [Slots -> Cell]
    BY <1>6 DEF ParseCommit, TypeOK, Parser
  <2>7. normalizer' \in [Normalizers -> Normalizer]
    <3>1. normalizer' = [p \in Normalizers |->
                          IF normalizer[p].stage = "idle" THEN normalizer[p]
                          ELSE [normalizer[p] EXCEPT !.gone = @ \union old,
                                                     !.target = @ \ parser.target]]
      BY <1>6 DEF ParseCommit
    <3> HIDE DEF old, new
    <3>2. ASSUME NEW p \in Normalizers
          PROVE  [normalizer[p] EXCEPT !.gone = @ \union old,
                                       !.target = @ \ parser.target] \in Normalizer
      BY <2>1 DEF TypeOK, Normalizer
    <3> QED
      BY <3>1, <3>2 DEF TypeOK
  <2> QED
    BY <1>6, <2>3, <2>4, <2>5, <2>6, <2>7 DEF ParseCommit, TypeOK
<1> QED
  BY <1>1, <1>2, <1>3, <1>4, <1>5, <1>6 DEF ParseStep

\* The steps of a normalize run preserve the types.
LEMMA NormalizeTypeOK ==
  ASSUME TypeOK, NEW p \in Normalizers,
         NormalizeBegin(p) \/ NormalizeStep(p) \/ NormalizeFault(p)
  PROVE  TypeOK'
<1>1. CASE NormalizeBegin(p)
  BY <1>1, IdleTypes DEF TypeOK, Normalizer, NormalizeBegin
<1>2. CASE NormalizeEnd(p)
  BY <1>2, IdleTypes DEF TypeOK, NormalizeEnd
<1>3. CASE NormalizeFault(p)
  BY <1>3, IdleTypes, TaskRefreshAssumption DEF TypeOK, NormalizeFault
<1>4. ASSUME NEW part \in Parts, NormalizeLimit(p, part) \/ NormalizeRejected(p, part)
      PROVE  TypeOK'
  BY <1>4, IdleTypes DEF TypeOK, NormalizeLimit, NormalizeRejected
<1>5. ASSUME NEW part \in Parts, NormalizeSkip(p, part)
      PROVE  TypeOK'
  BY <1>5 DEF TypeOK, Normalizer, NormalizeSkip
<1>6. ASSUME NEW part \in Parts, NormalizeDelete(p, part)
      PROVE  TypeOK'
  <2> DEFINE target == Dated(norm, part[1], {part[2]})
  <2>1. target \subseteq Slots
    BY DatedRows
  <2>2. normalizer' = [normalizer EXCEPT ![p] =
                        [@ EXCEPT !.stage = "write", !.target = target,
                                  !.locked = target \ LockedByOthers(p)]]
    BY <1>6 DEF NormalizeDelete
  <2> HIDE DEF target
  <2>3. [normalizer[p] EXCEPT !.stage = "write", !.target = target,
                              !.locked = target \ LockedByOthers(p)] \in Normalizer
    BY <2>1 DEF TypeOK, Normalizer
  <2> QED
    BY <1>6, <2>2, <2>3 DEF TypeOK, NormalizeDelete
<1>7. ASSUME NEW part \in Parts, NormalizeCommit(p, part)
      PROVE  TypeOK'
  <2>1. norm' \in Table
    <3>1. norm' = [s \in Slots |-> IF s \in GoodRows(p, part) THEN normalizer[p].rows[s]
                                   ELSE IF s \in normalizer[p].target THEN Blank ELSE norm[s]]
      BY <1>7 DEF NormalizeCommit
    <3> QED
      BY <3>1 DEF TypeOK, Table, Normalizer
  <2>2. parser' \in Parser
    BY <1>7 DEF NormalizeCommit, TypeOK, Parser
  <2>3. normalizer' \in [Normalizers -> Normalizer]
    <3>1. [normalizer[p] EXCEPT !.stage = "partition", !.todo = @ \ {part},
                                !.target = {}, !.locked = {}] \in Normalizer
      BY DEF TypeOK, Normalizer
    <3>2. ASSUME NEW q \in Normalizers
          PROVE  [normalizer[q] EXCEPT !.target = @ \ normalizer[p].target] \in Normalizer
      BY DEF TypeOK, Normalizer
    <3>3. normalizer' = [q \in Normalizers |->
                          IF q = p
                          THEN [normalizer[p] EXCEPT !.stage = "partition", !.todo = @ \ {part},
                                                     !.target = {}, !.locked = {}]
                          ELSE [normalizer[q] EXCEPT !.target = @ \ normalizer[p].target]]
      BY <1>7 DEF NormalizeCommit
    <3> QED
      BY <3>1, <3>2, <3>3
  <2> QED
    BY <1>7, <2>1, <2>2, <2>3 DEF NormalizeCommit, TypeOK
<1> QED
  BY <1>1, <1>2, <1>3, <1>4, <1>5, <1>6, <1>7 DEF NormalizeStep

\* Every step preserves the types.
LEMMA NextTypeOK ==
  ASSUME TypeOK, [Next]_vars
  PROVE  TypeOK'
<1>1. CASE UNCHANGED vars
  BY <1>1 DEF TypeOK, vars
<1>2. ASSUME NEW sh \in Sheets, NEW f \in [1 .. Width -> Cell], IngestRange(sh, f)
      PROVE  TypeOK'
  <2>1. cells' \in [Slots -> Cell]
    BY <1>2 DEF IngestRange, TypeOK, Slots
  <2> QED
    BY <1>2, <2>1, TaskRefreshAssumption DEF IngestRange, TypeOK
<1> QED
  BY <1>1, <1>2, ParseTypeOK, NormalizeTypeOK DEF Next

-----------------------------------------------------------------------------
(* The inductive invariant                                                 *)

\* Initially the tables are empty and no run is under way.
LEMMA InitIInv == Init => IInv
<1> SUFFICES ASSUME Init PROVE IInv
  OBVIOUS
<1>1. TypeOK
  BY InitTypeOK
<1>2. \A s \in Slots : norm[s] = Blank /\ raw[s] = Blank /\ parsed[s] = Blank
  BY DEF Init, NoRows
<1>3. \A p \in Normalizers : normalizer[p].stage = "idle"
  BY DEF Init, IdleNormalizer
<1> QED
  BY <1>1, <1>2, <1>3, BlankIsNoTask
     DEF IInv, NormalizedMirrorsRaw, SheetFromOneSnapshot, SnapshotsValid,
         OneWriterEach, PartitionsOwned

\* What a committed parse refresh does to a row of raw_tasks: it is replaced by
\* the cell of the snapshot in the sheet, and kept elsewhere.
LEMMA RefreshedRaw ==
  ASSUME TypeOK, NEW sh \in Sheets, ParseCommit(sh), NEW s \in Slots
  PROVE  raw'[s] = IF s[1] # sh THEN raw[s]
                   ELSE IF parser.cells[s] \in Task THEN parser.cells[s] ELSE Blank
<1> DEFINE old == Dated(raw, sh, RefreshDays(sh))
           new == TaskSlots(parser.cells, sh)
<1>1. raw'[s] = IF s \in new THEN parser.cells[s]
                ELSE IF s \in old THEN Blank ELSE raw[s]
  BY DEF ParseCommit
<1>2. s \in new <=> s[1] = sh /\ parser.cells[s] \in Task
  BY DEF TaskSlots, SlotsOf
<1>3. s \in old => s[1] = sh
  BY DatedRows
<1>4. s[1] = sh /\ s \notin old => raw[s] = Blank
  <2>1. raw[s] \in Task => raw[s].day \in RefreshDays(sh) \/ s[1] # sh
    BY DaysOfRows DEF RefreshDays
  <2> QED
    BY <2>1, DatedRows DEF TypeOK, Table
<1> HIDE DEF old, new
<1> QED
  BY <1>1, <1>2, <1>3, <1>4

\* A committed parse refresh keeps the raw rows that normalized rows refer to:
\* RESTRICT and the unique key of raw_tasks.
LEMMA RefreshKeeps ==
  ASSUME TypeOK, NEW sh \in Sheets, ParseCommit(sh), NEW s \in Slots,
         raw[s] # Blank, s \notin Dated(raw, sh, RefreshDays(sh))
  PROVE  raw'[s] = raw[s]
BY DEF ParseCommit

\* Normalized rows keep mirroring their raw rows.
LEMMA NextMirrors ==
  ASSUME IInv, [Next]_vars
  PROVE  NormalizedMirrorsRaw'
<1> USE DEF IInv
<1>1. ASSUME NEW sh \in Sheets, ParseCommit(sh)
      PROVE  NormalizedMirrorsRaw'
  <2> SUFFICES ASSUME NEW s \in Slots, norm'[s] # Blank
               PROVE  raw'[s] = norm'[s]
    BY DEF NormalizedMirrorsRaw
  <2>1. s \notin parser.target /\ norm'[s] = norm[s]
    BY <1>1 DEF ParseCommit
  <2>2. raw[s] = norm[s]
    BY <2>1 DEF NormalizedMirrorsRaw
  <2>3. s \notin Dated(raw, sh, RefreshDays(sh))
    BY <1>1, <2>1 DEF ParseCommit, RawRowsFree
  <2> QED
    BY <1>1, <2>1, <2>2, <2>3, RefreshKeeps
<1>2. ASSUME NEW p \in Normalizers, NEW part \in Parts, NormalizeCommit(p, part)
      PROVE  NormalizedMirrorsRaw'
  <2> SUFFICES ASSUME NEW s \in Slots, norm'[s] # Blank
               PROVE  raw'[s] = norm'[s]
    BY DEF NormalizedMirrorsRaw
  <2>1. raw' = raw
    BY <1>2 DEF NormalizeCommit
  <2>2. CASE s \in GoodRows(p, part)
    <3>1. s \notin normalizer[p].gone /\ normalizer[p].stage # "idle"
      BY <1>2, <2>2 DEF NormalizeCommit, RawRowsExist
    <3>2. norm'[s] = normalizer[p].rows[s]
      BY <1>2, <2>2 DEF NormalizeCommit
    <3> QED
      BY <2>1, <3>1, <3>2 DEF SnapshotsValid
  <2>3. CASE s \notin GoodRows(p, part)
    <3>1. norm'[s] = norm[s]
      BY <1>2, <2>3 DEF NormalizeCommit
    <3> QED
      BY <2>1, <3>1 DEF NormalizedMirrorsRaw
  <2> QED
    BY <2>2, <2>3
<1>3. CASE UNCHANGED <<raw, norm, parsed>>
  BY <1>3 DEF NormalizedMirrorsRaw
<1> QED
  BY <1>1, <1>2, <1>3, TablesChange

\* The raw rows of a sheet keep being those of one state of its cells.
LEMMA NextSnapshot ==
  ASSUME IInv, [Next]_vars
  PROVE  SheetFromOneSnapshot'
<1> USE DEF IInv
<1>1. ASSUME NEW sh \in Sheets, ParseCommit(sh)
      PROVE  SheetFromOneSnapshot'
  <2> SUFFICES ASSUME NEW s \in Slots
               PROVE  raw'[s] = IF parsed'[s] \in Task THEN parsed'[s] ELSE Blank
    BY DEF SheetFromOneSnapshot
  <2>1. parsed'[s] = IF s[1] = sh THEN parser.cells[s] ELSE parsed[s]
    BY <1>1 DEF ParseCommit
  <2> QED
    BY <1>1, <2>1, RefreshedRaw DEF SheetFromOneSnapshot
<1>2. ASSUME NEW p \in Normalizers, NEW part \in Parts, NormalizeCommit(p, part)
      PROVE  SheetFromOneSnapshot'
  BY <1>2 DEF NormalizeCommit, SheetFromOneSnapshot
<1>3. CASE UNCHANGED <<raw, norm, parsed>>
  BY <1>3 DEF SheetFromOneSnapshot
<1> QED
  BY <1>1, <1>2, <1>3, TablesChange

-----------------------------------------------------------------------------
(* What the writing steps do to one normalize run                          *)

\* A parse refresh adds the raw rows it removes to what a run knows is gone.
LEMMA RefreshSeen ==
  ASSUME TypeOK, NEW sh \in Sheets, ParseCommit(sh), NEW q \in Normalizers
  PROVE  /\ normalizer'[q].stage = normalizer[q].stage
         /\ normalizer'[q].rows = normalizer[q].rows
         /\ normalizer'[q].todo = normalizer[q].todo
         /\ normalizer[q].stage # "idle" =>
              /\ normalizer'[q].gone =
                   normalizer[q].gone \union Dated(raw, sh, RefreshDays(sh))
              /\ normalizer'[q].target = normalizer[q].target \ parser.target
<1> DEFINE old == Dated(raw, sh, RefreshDays(sh))
<1>1. normalizer' = [p \in Normalizers |->
                      IF normalizer[p].stage = "idle" THEN normalizer[p]
                      ELSE [normalizer[p] EXCEPT !.gone = @ \union old,
                                                 !.target = @ \ parser.target]]
  BY DEF ParseCommit
<1> HIDE DEF old
<1>2. CASE normalizer[q].stage = "idle"
  BY <1>1, <1>2
<1>3. CASE normalizer[q].stage # "idle"
  <2>1. normalizer'[q] = [normalizer[q] EXCEPT !.gone = @ \union old,
                                               !.target = @ \ parser.target]
    BY <1>1, <1>3
  <2> QED
    BY <1>3, <2>1 DEF TypeOK, Normalizer, old
<1> QED
  BY <1>2, <1>3

\* A run starts a partition with the normalized rows of the partition as target.
LEMMA DeleteSeen ==
  ASSUME TypeOK, NEW p \in Normalizers, NEW part \in Parts, NormalizeDelete(p, part),
         NEW q \in Normalizers
  PROVE  /\ q # p => normalizer'[q] = normalizer[q]
         /\ normalizer[p].stage = "partition"
         /\ normalizer'[q].rows = normalizer[q].rows
         /\ normalizer'[q].todo = normalizer[q].todo
         /\ normalizer'[q].gone = normalizer[q].gone
         /\ normalizer'[p].stage = "write"
         /\ normalizer'[p].target = Dated(norm, part[1], {part[2]})
<1> DEFINE target == Dated(norm, part[1], {part[2]})
<1>1. normalizer' = [normalizer EXCEPT ![p] =
                      [@ EXCEPT !.stage = "write", !.target = target,
                                !.locked = target \ LockedByOthers(p)]]
  BY DEF NormalizeDelete
<1>2. normalizer[p].stage = "partition"
  BY DEF NormalizeDelete
<1> HIDE DEF target
<1>3. normalizer'[p] = [normalizer[p] EXCEPT !.stage = "write", !.target = target,
                                             !.locked = target \ LockedByOthers(p)]
  BY <1>1 DEF TypeOK
<1>4. q # p => normalizer'[q] = normalizer[q]
  BY <1>1 DEF TypeOK
<1> QED
  BY <1>2, <1>3, <1>4 DEF TypeOK, Normalizer, target

\* A committed partition leaves its run and takes the deleted rows from the
\* targets of the others.
LEMMA CommitSeen ==
  ASSUME TypeOK, NEW p \in Normalizers, NEW part \in Parts, NormalizeCommit(p, part),
         NEW q \in Normalizers
  PROVE  /\ normalizer[p].stage = "write"
         /\ normalizer'[p].stage = "partition"
         /\ normalizer'[q].rows = normalizer[q].rows
         /\ normalizer'[q].gone = normalizer[q].gone
         /\ q # p =>
              /\ normalizer'[q].stage = normalizer[q].stage
              /\ normalizer'[q].todo = normalizer[q].todo
              /\ normalizer'[q].target = normalizer[q].target \ normalizer[p].target
<1>1. normalizer' = [r \in Normalizers |->
                      IF r = p
                      THEN [normalizer[p] EXCEPT !.stage = "partition", !.todo = @ \ {part},
                                                 !.target = {}, !.locked = {}]
                      ELSE [normalizer[r] EXCEPT !.target = @ \ normalizer[p].target]]
  BY DEF NormalizeCommit
<1>2. normalizer'[p] = [normalizer[p] EXCEPT !.stage = "partition", !.todo = @ \ {part},
                                             !.target = {}, !.locked = {}]
  BY <1>1
<1>3. q # p => normalizer'[q] = [normalizer[q] EXCEPT !.target = @ \ normalizer[p].target]
  BY <1>1
<1>4. normalizer[p].stage = "write"
  BY DEF NormalizeCommit
<1>5. /\ normalizer'[p].stage = "partition"
      /\ normalizer'[p].rows = normalizer[p].rows
      /\ normalizer'[p].gone = normalizer[p].gone
  BY <1>2 DEF TypeOK, Normalizer
<1>6. CASE q # p
  <2>1. /\ normalizer'[q].stage = normalizer[q].stage
        /\ normalizer'[q].rows = normalizer[q].rows
        /\ normalizer'[q].gone = normalizer[q].gone
        /\ normalizer'[q].todo = normalizer[q].todo
        /\ normalizer'[q].target = normalizer[q].target \ normalizer[p].target
    BY <1>3, <1>6 DEF TypeOK, Normalizer
  <2> QED
    BY <1>4, <1>5, <2>1
<1> QED
  BY <1>4, <1>5, <1>6

\* What a run has read stays true of the raw rows that are not gone.
LEMMA NextSnapshotsValid ==
  ASSUME IInv, [Next]_vars
  PROVE  SnapshotsValid'
<1> USE DEF IInv
<1> SUFFICES ASSUME NEW q \in Normalizers, normalizer'[q].stage # "idle",
                    NEW s \in Slots, s \notin normalizer'[q].gone,
                    normalizer'[q].rows[s] # Blank
             PROVE  raw'[s] = normalizer'[q].rows[s]
  BY DEF SnapshotsValid
<1>1. ASSUME NEW sh \in Sheets, ParseCommit(sh)
      PROVE  raw'[s] = normalizer'[q].rows[s]
  <2>1. /\ normalizer[q].stage # "idle"
        /\ normalizer'[q].rows = normalizer[q].rows
        /\ s \notin normalizer[q].gone
        /\ s \notin Dated(raw, sh, RefreshDays(sh))
    BY <1>1, RefreshSeen
  <2>2. raw[s] = normalizer[q].rows[s] /\ raw[s] # Blank
    BY <2>1 DEF SnapshotsValid
  <2> QED
    BY <1>1, <2>1, <2>2, RefreshKeeps
<1>2. CASE NormalizeBegin(q)
  <2>1. raw' = raw /\ normalizer'[q].rows = raw
    BY <1>2 DEF NormalizeBegin, TypeOK, IdleNormalizer
  <2> QED
    BY <2>1
<1>3. ASSUME raw' = raw,
             /\ normalizer[q].stage # "idle"
             /\ normalizer'[q].rows = normalizer[q].rows
             /\ normalizer'[q].gone = normalizer[q].gone
      PROVE  raw'[s] = normalizer'[q].rows[s]
  BY <1>3 DEF SnapshotsValid
<1>4. ASSUME NEW p \in Normalizers, NEW part \in Parts,
             NormalizeDelete(p, part) \/ NormalizeCommit(p, part)
      PROVE  raw'[s] = normalizer'[q].rows[s]
  <2>1. raw' = raw
    BY <1>4 DEF NormalizeDelete, NormalizeCommit
  <2>2. /\ normalizer[q].stage # "idle"
        /\ normalizer'[q].rows = normalizer[q].rows
        /\ normalizer'[q].gone = normalizer[q].gone
    BY <1>4, DeleteSeen, CommitSeen
  <2> QED
    BY <1>3, <2>1, <2>2
<1>5. CASE normalizer'[q] = IdleNormalizer
  BY <1>5 DEF IdleNormalizer
<1>6. CASE /\ ~ \E sh \in Sheets : ParseCommit(sh)
           /\ \/ normalizer'[q] = normalizer[q]
              \/ \E part \in Parts :
                   /\ normalizer[q].stage = "partition"
                   /\ normalizer'[q] = [normalizer[q] EXCEPT !.todo = @ \ {part}]
  <2>1. raw' = raw
    BY <1>6, TablesChange DEF NormalizeCommit
  <2>2. /\ normalizer[q].stage # "idle"
        /\ normalizer'[q].rows = normalizer[q].rows
        /\ normalizer'[q].gone = normalizer[q].gone
    BY <1>6 DEF TypeOK, Normalizer
  <2> QED
    BY <1>3, <2>1, <2>2
<1> QED
  BY <1>1, <1>2, <1>4, <1>5, <1>6, NormalizersChange

-----------------------------------------------------------------------------
(* The advisory lock                                                       *)

\* A run goes on writing its partition through the steps that do not commit.
LEMMA WriterStays ==
  ASSUME TypeOK, [Next]_vars, NEW q \in Normalizers, normalizer'[q].stage = "write",
         ~ \E sh \in Sheets : ParseCommit(sh),
         ~ \E p \in Normalizers, part \in Parts :
             NormalizeDelete(p, part) \/ NormalizeCommit(p, part)
  PROVE  normalizer'[q] = normalizer[q]
<1>1. CASE NormalizeBegin(q)
  <2>1. normalizer'[q].stage = "partition"
    BY <1>1 DEF NormalizeBegin, TypeOK, IdleNormalizer
  <2> QED
    BY <2>1
<1>2. CASE normalizer'[q] = IdleNormalizer
  BY <1>2 DEF IdleNormalizer
<1>3. ASSUME NEW part \in Parts, normalizer[q].stage = "partition",
             normalizer'[q] = [normalizer[q] EXCEPT !.todo = @ \ {part}]
      PROVE  FALSE
  <2>1. normalizer'[q].stage = "partition"
    BY <1>3 DEF TypeOK, Normalizer
  <2> QED
    BY <2>1
<1> QED
  BY <1>1, <1>2, <1>3, NormalizersChange

\* The first partition of a run depends on what it has left to do.
LEMMA FirstPartSame ==
  ASSUME NEW q, NEW part, normalizer'[q].todo = normalizer[q].todo
  PROVE  FirstPart(q, part)' <=> FirstPart(q, part)
BY DEF FirstPart, Before

\* No two runs come to write the same partition.
LEMMA NextOneWriter ==
  ASSUME IInv, [Next]_vars
  PROVE  OneWriterEach'
<1> USE DEF IInv
<1> SUFFICES ASSUME NEW p \in Normalizers, NEW q \in Normalizers, NEW part \in Parts, p # q,
                    normalizer'[p].stage = "write", FirstPart(p, part)',
                    normalizer'[q].stage = "write", FirstPart(q, part)'
             PROVE  FALSE
  BY DEF OneWriterEach
<1>1. ASSUME normalizer[p].stage = "write", normalizer'[p].todo = normalizer[p].todo,
             normalizer[q].stage = "write", normalizer'[q].todo = normalizer[q].todo
      PROVE  FALSE
  BY <1>1, FirstPartSame DEF OneWriterEach
<1>2. ASSUME NEW sh \in Sheets, ParseCommit(sh)
      PROVE  FALSE
  BY <1>1, <1>2, RefreshSeen
<1>3. ASSUME NEW r \in Normalizers, NEW other \in Parts, NormalizeDelete(r, other)
      PROVE  FALSE
  <2>1. FirstPart(p, part) /\ FirstPart(q, part) /\ FirstPart(r, other)
    <3>1. normalizer'[p].todo = normalizer[p].todo /\ normalizer'[q].todo = normalizer[q].todo
      BY <1>3, DeleteSeen
    <3>2. FirstPart(r, other)
      BY <1>3 DEF NormalizeDelete
    <3> QED
      BY <3>1, <3>2, FirstPartSame
  <2>2. ~AdvisoryLocked(other)
    BY <1>3 DEF NormalizeDelete
  <2>3. CASE r = p
    <3>1. other = part
      BY <2>1, <2>3, FirstPartUnique
    <3>2. normalizer[q].stage = "write"
      BY <1>3, <2>3, DeleteSeen
    <3> QED
      BY <2>1, <2>2, <3>1, <3>2 DEF AdvisoryLocked
  <2>4. CASE r = q
    <3>1. other = part
      BY <2>1, <2>4, FirstPartUnique
    <3>2. normalizer[p].stage = "write"
      BY <1>3, <2>4, DeleteSeen
    <3> QED
      BY <2>1, <2>2, <3>1, <3>2 DEF AdvisoryLocked
  <2>5. CASE r # p /\ r # q
    <3>1. normalizer'[p] = normalizer[p] /\ normalizer'[q] = normalizer[q]
      BY <1>3, <2>5, DeleteSeen
    <3> QED
      BY <1>1, <3>1
  <2> QED
    BY <2>3, <2>4, <2>5
<1>4. ASSUME NEW r \in Normalizers, NEW other \in Parts, NormalizeCommit(r, other)
      PROVE  FALSE
  <2>1. r # p /\ r # q
    BY <1>4, CommitSeen
  <2> QED
    BY <1>1, <1>4, <2>1, CommitSeen
<1> QED
  BY <1>1, <1>2, <1>3, <1>4, WriterStays

\* A writing run keeps holding the rows its own rows would hit.
LEMMA NextOwned ==
  ASSUME IInv, [Next]_vars
  PROVE  PartitionsOwned'
<1> USE DEF IInv
<1> SUFFICES ASSUME NEW p \in Normalizers, NEW part \in Parts,
                    normalizer'[p].stage = "write", FirstPart(p, part)',
                    NEW s \in PartRows(p, part)', s \notin normalizer'[p].gone,
                    norm'[s] # Blank
             PROVE  s \in normalizer'[p].target
  BY DEF PartitionsOwned
<1>1. /\ s \in Slots /\ s[1] = part[1]
      /\ normalizer'[p].rows[s] \in Task /\ normalizer'[p].rows[s].day = part[2]
  BY DatedRows DEF PartRows, Dated, TaskSlots, SlotsOf
<1>2. ASSUME normalizer'[p].todo = normalizer[p].todo,
             normalizer'[p].rows = normalizer[p].rows
      PROVE  FirstPart(p, part) /\ s \in PartRows(p, part)
  BY <1>1, <1>2, FirstPartSame, DatedRows DEF PartRows
<1>3. ASSUME NEW sh \in Sheets, ParseCommit(sh)
      PROVE  s \in normalizer'[p].target
  <2>1. FirstPart(p, part) /\ s \in PartRows(p, part)
    BY <1>2, <1>3, RefreshSeen
  <2>2. /\ normalizer[p].stage = "write" /\ s \notin normalizer[p].gone
        /\ normalizer'[p].target = normalizer[p].target \ parser.target
    BY <1>3, RefreshSeen
  <2>3. s \notin parser.target /\ norm[s] # Blank
    BY <1>1, <1>3 DEF ParseCommit
  <2> QED
    BY <2>1, <2>2, <2>3 DEF PartitionsOwned
<1>4. ASSUME NEW r \in Normalizers, NEW other \in Parts, NormalizeDelete(r, other)
      PROVE  s \in normalizer'[p].target
  <2>1. FirstPart(p, part) /\ s \in PartRows(p, part) /\ s \notin normalizer[p].gone
    BY <1>2, <1>4, DeleteSeen
  <2>2. norm' = norm
    BY <1>4 DEF NormalizeDelete
  <2>3. CASE r = p
    <3>1. other = part
      BY <1>4, <2>1, <2>3, FirstPartUnique DEF NormalizeDelete
    <3>2. norm[s] = normalizer[p].rows[s]
      <4>1. normalizer[p].stage = "partition" /\ normalizer'[p].rows = normalizer[p].rows
        BY <1>4, <2>3, DeleteSeen
      <4>2. raw[s] = normalizer[p].rows[s]
        BY <1>1, <2>1, <4>1, BlankIsNoTask DEF SnapshotsValid
      <4> QED
        BY <1>1, <2>2, <4>2 DEF NormalizedMirrorsRaw
    <3>3. norm[s] \in Task /\ norm[s].day = part[2]
      <4>1. normalizer'[p].rows = normalizer[p].rows
        BY <1>4, DeleteSeen
      <4> QED
        BY <1>1, <3>2, <4>1
    <3>4. s \in Dated(norm, part[1], {part[2]})
      BY <1>1, <3>3, DatedRows
    <3> QED
      BY <1>4, <2>3, <3>1, <3>4, DeleteSeen
  <2>4. CASE r # p
    <3>1. normalizer'[p] = normalizer[p]
      BY <1>4, <2>4, DeleteSeen
    <3> QED
      BY <2>1, <2>2, <3>1 DEF PartitionsOwned
  <2> QED
    BY <2>3, <2>4
<1>5. ASSUME NEW r \in Normalizers, NEW other \in Parts, NormalizeCommit(r, other)
      PROVE  s \in normalizer'[p].target
  <2>1. r # p
    BY <1>5, CommitSeen
  <2>2. /\ normalizer[p].stage = "write"
        /\ normalizer'[p].todo = normalizer[p].todo
        /\ normalizer'[p].rows = normalizer[p].rows
        /\ s \notin normalizer[p].gone
        /\ normalizer'[p].target = normalizer[p].target \ normalizer[r].target
    BY <1>5, <2>1, CommitSeen
  <2>3. FirstPart(p, part) /\ s \in PartRows(p, part)
    BY <1>2, <2>2
  <2>4. s \notin GoodRows(r, other)
    <3> SUFFICES ASSUME s \in GoodRows(r, other)
                 PROVE  FALSE
      OBVIOUS
    <3>1. /\ s[1] = other[1]
          /\ normalizer[r].rows[s] \in Task /\ normalizer[r].rows[s].day = other[2]
      BY DatedRows DEF GoodRows, PartRows
    <3>2. normalizer[r].stage = "write" /\ s \notin normalizer[r].gone /\ FirstPart(r, other)
      BY <1>5 DEF NormalizeCommit, RawRowsExist
    <3>3. raw[s] = normalizer[r].rows[s]
      BY <1>1, <3>1, <3>2, BlankIsNoTask DEF SnapshotsValid
    <3>4. raw[s] = normalizer[p].rows[s]
      BY <1>1, <2>2, BlankIsNoTask DEF SnapshotsValid
    <3>5. other[1] = part[1] /\ other[2] = part[2]
      BY <1>1, <2>2, <3>1, <3>3, <3>4
    <3>6. other = part
      BY <3>5 DEF Parts
    <3> QED
      BY <2>1, <2>2, <2>3, <3>2, <3>6 DEF OneWriterEach
  <2>5. s \notin normalizer[r].target /\ norm[s] # Blank
    BY <1>1, <1>5, <2>4 DEF NormalizeCommit
  <2> QED
    BY <2>2, <2>3, <2>5 DEF PartitionsOwned
<1>6. CASE /\ ~ \E sh \in Sheets : ParseCommit(sh)
           /\ ~ \E r \in Normalizers, other \in Parts :
                NormalizeDelete(r, other) \/ NormalizeCommit(r, other)
  <2>1. normalizer'[p] = normalizer[p] /\ norm' = norm
    BY <1>6, WriterStays, TablesChange
  <2> QED
    BY <1>2, <2>1 DEF PartitionsOwned
<1> QED
  BY <1>3, <1>4, <1>5, <1>6

-----------------------------------------------------------------------------
(* The invariants                                                          *)

\* The inductive invariant holds in every reachable state.
THEOREM Inductive == Spec => []IInv
<1>1. Init => IInv
  BY InitIInv
<1>2. IInv /\ [Next]_vars => IInv'
  <2> SUFFICES ASSUME IInv, [Next]_vars PROVE IInv'
    OBVIOUS
  <2>1. TypeOK'
    BY NextTypeOK DEF IInv
  <2> QED
    BY <2>1, NextMirrors, NextSnapshot, NextSnapshotsValid, NextOneWriter, NextOwned DEF IInv
<1> QED
  BY <1>1, <1>2, PTL DEF Spec

\* Every variable keeps its type: raw_tasks and tasks_normalized hold task
\* lines only, whatever the runs do (parse_cells, _normalize_sheet_rows).
THEOREM TypeCorrect == Spec => []TypeOK
<1>1. IInv => TypeOK
  BY DEF IInv
<1> QED
  BY <1>1, Inductive, PTL

\* A normalized row always is what its raw row says: run_normalize writes from
\* a snapshot, and the foreign key rejects rows a refresh has replaced since.
THEOREM MirrorsRaw == Spec => []NormalizedMirrorsRaw
<1>1. IInv => NormalizedMirrorsRaw
  BY DEF IInv
<1> QED
  BY <1>1, Inductive, PTL

\* The raw rows of a sheet are those of one state of its cells: the scope of
\* _delete_refresh_scope covers every row that was there.
THEOREM OneSnapshot == Spec => []SheetFromOneSnapshot
<1>1. IInv => SheetFromOneSnapshot
  BY DEF IInv
<1> QED
  BY <1>1, Inductive, PTL

\* With the advisory lock of run_normalize no INSERT whose raw rows exist meets
\* a duplicate key.
THEOREM SingleFlight == Spec => []NoDuplicateKeys
<1>1. IInv => NoDuplicateKeys
  <2> SUFFICES ASSUME IInv, NEW p \in Normalizers, NEW part \in Parts,
                      normalizer[p].stage = "write", FirstPart(p, part),
                      RawRowsExist(p, GoodRows(p, part)),
                      NEW s \in GoodRows(p, part), norm[s] # Blank
               PROVE  s \in normalizer[p].target
    BY DEF NoDuplicateKeys, KeysFree
  <2>1. s \in PartRows(p, part) /\ s \notin normalizer[p].gone
    BY DEF RawRowsExist, GoodRows
  <2> QED
    BY <2>1 DEF IInv, PartitionsOwned
<1> QED
  BY <1>1, Inductive, PTL

-----------------------------------------------------------------------------
(* Normalize runs that do not overlap                                      *)

\* While a run is under way, every normalized row is as the run has read it.
NothingNewer ==
  \A p \in Normalizers : normalizer[p].stage # "idle" =>
    \A s \in Slots : norm[s] # Blank =>
      s \notin normalizer[p].gone /\ normalizer[p].rows[s] = norm[s]

\* tasks_normalized has no row that raises.
NormFine == \A s \in Slots : norm[s] # Blank => norm[s].kind # "raises"

\* The rows a run has deleted are rows of its partition.
TargetsInPart ==
  \A p \in Normalizers, part \in Parts :
    normalizer[p].stage = "write" /\ FirstPart(p, part) =>
      \A s \in normalizer[p].target :
        norm[s] # Blank => s[1] = part[1] /\ norm[s].day = part[2]

SingleInv == IInv /\ NothingNewer /\ NormFine /\ TargetsInPart

\* Only rows that did not raise are written.
LEMMA NextNormFine ==
  ASSUME SingleInv, [Next]_vars
  PROVE  NormFine'
<1> USE DEF SingleInv, IInv
<1> SUFFICES ASSUME NEW s \in Slots, norm'[s] # Blank
             PROVE  norm'[s].kind # "raises"
  BY DEF NormFine
<1>1. ASSUME NEW sh \in Sheets, ParseCommit(sh)
      PROVE  norm'[s].kind # "raises"
  BY <1>1 DEF ParseCommit, NormFine
<1>2. ASSUME NEW p \in Normalizers, NEW part \in Parts, NormalizeCommit(p, part)
      PROVE  norm'[s].kind # "raises"
  <2>1. CASE s \in GoodRows(p, part)
    BY <1>2, <2>1 DEF NormalizeCommit, GoodRows
  <2>2. CASE s \notin GoodRows(p, part)
    BY <1>2, <2>2 DEF NormalizeCommit, NormFine
  <2> QED
    BY <2>1, <2>2
<1>3. CASE UNCHANGED <<raw, norm, parsed>>
  BY <1>3 DEF NormFine
<1> QED
  BY <1>1, <1>2, <1>3, TablesChange

\* A single run meets no normalized row it has not read.
LEMMA NextNothingNewer ==
  ASSUME NEW one, Normalizers = {one}, SingleInv, [Next]_vars
  PROVE  NothingNewer'
<1> USE DEF SingleInv, IInv
<1> SUFFICES ASSUME normalizer'[one].stage # "idle", NEW s \in Slots, norm'[s] # Blank
             PROVE  s \notin normalizer'[one].gone /\ normalizer'[one].rows[s] = norm'[s]
  BY DEF NothingNewer
<1>1. ASSUME NEW sh \in Sheets, ParseCommit(sh)
      PROVE  s \notin normalizer'[one].gone /\ normalizer'[one].rows[s] = norm'[s]
  <2>1. s \notin parser.target /\ norm'[s] = norm[s]
    BY <1>1 DEF ParseCommit
  <2>2. s \notin Dated(raw, sh, RefreshDays(sh))
    BY <1>1, <2>1 DEF ParseCommit, RawRowsFree
  <2>3. s \notin normalizer[one].gone /\ normalizer[one].rows[s] = norm[s]
    BY <1>1, <2>1, RefreshSeen DEF NothingNewer
  <2> QED
    BY <1>1, <2>1, <2>2, <2>3, RefreshSeen
<1>2. CASE NormalizeBegin(one)
  <2>1. /\ norm' = norm /\ raw' = raw
        /\ normalizer'[one].rows = raw /\ normalizer'[one].gone = {}
    BY <1>2 DEF NormalizeBegin, TypeOK, IdleNormalizer
  <2> QED
    BY <2>1 DEF NormalizedMirrorsRaw
<1>3. ASSUME norm' = norm,
             /\ normalizer[one].stage # "idle"
             /\ normalizer'[one].rows = normalizer[one].rows
             /\ normalizer'[one].gone = normalizer[one].gone
      PROVE  s \notin normalizer'[one].gone /\ normalizer'[one].rows[s] = norm'[s]
  BY <1>3 DEF NothingNewer
<1>4. ASSUME NEW part \in Parts, NormalizeDelete(one, part)
      PROVE  s \notin normalizer'[one].gone /\ normalizer'[one].rows[s] = norm'[s]
  <2>1. norm' = norm
    BY <1>4 DEF NormalizeDelete
  <2> QED
    BY <1>3, <1>4, <2>1, DeleteSeen
<1>5. ASSUME NEW part \in Parts, NormalizeCommit(one, part)
      PROVE  s \notin normalizer'[one].gone /\ normalizer'[one].rows[s] = norm'[s]
  <2>1. /\ normalizer[one].stage # "idle"
        /\ normalizer'[one].rows = normalizer[one].rows
        /\ normalizer'[one].gone = normalizer[one].gone
    BY <1>5, CommitSeen
  <2>2. CASE s \in GoodRows(one, part)
    BY <1>5, <2>1, <2>2 DEF NormalizeCommit, RawRowsExist
  <2>3. CASE s \notin GoodRows(one, part)
    <3>1. norm'[s] = norm[s]
      BY <1>5, <2>3 DEF NormalizeCommit
    <3> QED
      BY <2>1, <3>1 DEF NothingNewer
  <2> QED
    BY <2>2, <2>3
<1>6. CASE normalizer'[one] = IdleNormalizer
  BY <1>6 DEF IdleNormalizer
<1>7. CASE /\ ~ \E sh \in Sheets : ParseCommit(sh)
           /\ ~ \E part \in Parts : NormalizeCommit(one, part)
           /\ \/ normalizer'[one] = normalizer[one]
              \/ \E part \in Parts :
                   /\ normalizer[one].stage = "partition"
                   /\ normalizer'[one] = [normalizer[one] EXCEPT !.todo = @ \ {part}]
  <2>1. norm' = norm
    BY <1>7, TablesChange
  <2>2. /\ normalizer[one].stage # "idle"
        /\ normalizer'[one].rows = normalizer[one].rows
        /\ normalizer'[one].gone = normalizer[one].gone
    BY <1>7 DEF TypeOK, Normalizer
  <2> QED
    BY <1>3, <2>1, <2>2
<1> QED
  BY <1>1, <1>2, <1>4, <1>5, <1>6, <1>7, NormalizersChange

\* The target of a single run stays in its partition.
LEMMA NextTargetsInPart ==
  ASSUME NEW one, Normalizers = {one}, SingleInv, [Next]_vars
  PROVE  TargetsInPart'
<1> USE DEF SingleInv, IInv
<1> SUFFICES ASSUME NEW part \in Parts,
                    normalizer'[one].stage = "write", FirstPart(one, part)',
                    NEW s \in normalizer'[one].target, norm'[s] # Blank
             PROVE  s[1] = part[1] /\ norm'[s].day = part[2]
  BY DEF TargetsInPart
<1>1. ASSUME NEW sh \in Sheets, ParseCommit(sh)
      PROVE  s[1] = part[1] /\ norm'[s].day = part[2]
  <2>1. /\ FirstPart(one, part) /\ normalizer[one].stage = "write"
        /\ s \in normalizer[one].target
    BY <1>1, RefreshSeen, FirstPartSame
  <2>2. norm'[s] = norm[s]
    BY <1>1, <2>1 DEF ParseCommit, TypeOK, Normalizer
  <2> QED
    BY <2>1, <2>2 DEF TargetsInPart
<1>2. ASSUME NEW other \in Parts, NormalizeDelete(one, other)
      PROVE  s[1] = part[1] /\ norm'[s].day = part[2]
  <2>1. FirstPart(one, part) /\ FirstPart(one, other)
    BY <1>2, DeleteSeen, FirstPartSame DEF NormalizeDelete
  <2>2. other = part
    BY <2>1, FirstPartUnique
  <2>3. s \in Dated(norm, part[1], {part[2]})
    BY <1>2, <2>2, DeleteSeen
  <2>4. norm' = norm
    BY <1>2 DEF NormalizeDelete
  <2> QED
    BY <2>3, <2>4, DatedRows
<1>3. ASSUME NEW other \in Parts, NormalizeCommit(one, other)
      PROVE  FALSE
  BY <1>3, CommitSeen
<1>4. CASE /\ ~ \E sh \in Sheets : ParseCommit(sh)
           /\ ~ \E other \in Parts :
                NormalizeDelete(one, other) \/ NormalizeCommit(one, other)
  <2>1. normalizer'[one] = normalizer[one] /\ norm' = norm
    BY <1>4, WriterStays, TablesChange
  <2> QED
    BY <2>1, FirstPartSame DEF TargetsInPart
<1> QED
  BY <1>1, <1>2, <1>3, <1>4

\* As long as normalize runs do not overlap each other, whatever the parse run
\* does, normalized rows disappear only by a parse refresh: a run that reads
\* raw_tasks before it takes the lock removes nothing newer.
THEOREM OnlyParseRemoves ==
  ASSUME NEW one, Normalizers = {one}
  PROVE  Spec => OnlyParseRemovesRows
<1>1. Init => SingleInv
  <2> SUFFICES ASSUME Init PROVE SingleInv
    OBVIOUS
  <2>1. IInv
    BY InitIInv
  <2>2. \A s \in Slots : norm[s] = Blank
    BY DEF Init, NoRows
  <2>3. \A p \in Normalizers : normalizer[p].stage = "idle"
    BY DEF Init, IdleNormalizer
  <2> QED
    BY <2>1, <2>2, <2>3 DEF SingleInv, NothingNewer, NormFine, TargetsInPart
<1>2. SingleInv /\ [Next]_vars => SingleInv'
  <2> SUFFICES ASSUME SingleInv, [Next]_vars PROVE SingleInv'
    OBVIOUS
  <2>1. IInv'
    <3>1. TypeOK'
      BY NextTypeOK DEF SingleInv, IInv
    <3> QED
      BY <3>1, NextMirrors, NextSnapshot, NextSnapshotsValid, NextOneWriter, NextOwned
         DEF SingleInv, IInv
  <2> QED
    BY <2>1, NextNothingNewer, NextNormFine, NextTargetsInPart DEF SingleInv
<1>3. SingleInv /\ [Next]_vars =>
        [\A s \in Slots : norm[s] # Blank /\ norm'[s] = Blank =>
           parser.stage = "refresh" /\ parser'.stage = "sheet"]_vars
  <2> SUFFICES ASSUME SingleInv, [Next]_vars,
                      NEW s \in Slots, norm[s] # Blank, norm'[s] = Blank
               PROVE  parser.stage = "refresh" /\ parser'.stage = "sheet"
    OBVIOUS
  <2> USE DEF SingleInv, IInv
  <2>1. ASSUME NEW sh \in Sheets, ParseCommit(sh)
        PROVE  parser.stage = "refresh" /\ parser'.stage = "sheet"
    BY <2>1 DEF ParseCommit, TypeOK, Parser
  <2>2. ASSUME NEW part \in Parts, NormalizeCommit(one, part)
        PROVE  FALSE
    <3>1. s \notin GoodRows(one, part) /\ s \in normalizer[one].target
      <4>1. s \in GoodRows(one, part) => normalizer[one].rows[s] \in Task
        BY DatedRows DEF GoodRows, PartRows
      <4> QED
        BY <2>2, <4>1, BlankIsNoTask DEF NormalizeCommit
    <3>2. /\ normalizer[one].stage = "write" /\ FirstPart(one, part)
      BY <2>2 DEF NormalizeCommit
    <3>3. s[1] = part[1] /\ norm[s].day = part[2] /\ norm[s].kind # "raises"
      BY <3>1, <3>2 DEF TargetsInPart, NormFine
    <3>4. normalizer[one].rows[s] = norm[s] /\ norm[s] \in Task
      BY <3>2 DEF NothingNewer, TypeOK, Table
    <3>5. s \in PartRows(one, part)
      BY <3>3, <3>4, DatedRows DEF PartRows
    <3> QED
      BY <3>1, <3>3, <3>4, <3>5 DEF GoodRows
  <2>3. CASE UNCHANGED <<raw, norm, parsed>>
    BY <2>3
  <2> QED
    BY <2>1, <2>2, <2>3, TablesChange
<1> QED
  BY <1>1, <1>2, <1>3, PTL DEF Spec, OnlyParseRemovesRows
-----------------------------------------------------------------------------
(* The store                                                               *)

\* A run has read a sheet as raw_tasks has it now, or all it read of it is gone.
SnapshotsWhole ==
  \A p \in Normalizers, sh \in Sheets : normalizer[p].stage # "idle" =>
    \/ \A s \in SlotsOf(sh) : s \notin normalizer[p].gone /\ normalizer[p].rows[s] = raw[s]
    \/ \A s \in SlotsOf(sh) : normalizer[p].rows[s] # Blank => s \in normalizer[p].gone

\* A run that writes a partition deletes exactly the normalized rows it has.
TargetsExact ==
  \A p \in Normalizers, part \in Parts :
    normalizer[p].stage = "write" /\ FirstPart(p, part) =>
      normalizer[p].target = Dated(norm, part[1], {part[2]})

\* The parse run deletes normalized rows of the sheet it refreshes only.
TargetInSheet ==
  \A sh \in Sheets : parser.stage = "refresh" /\ FirstSheet(sh) =>
    \A s \in parser.target : s[1] = sh

StoreInv == IInv /\ SnapshotsWhole /\ TargetsExact /\ TargetInSheet /\ WholeDays

\* A refresh removes every raw row of its sheet.
LEMMA OldRows ==
  ASSUME TypeOK, NEW sh, NEW s \in Slots
  PROVE  s \in Dated(raw, sh, RefreshDays(sh)) <=> s[1] = sh /\ raw[s] # Blank
<1>1. raw[s] \in Task <=> raw[s] # Blank
  BY BlankIsNoTask DEF TypeOK, Table
<1>2. raw[s] \in Task /\ s[1] = sh => raw[s].day \in RefreshDays(sh)
  BY DaysOfRows DEF RefreshDays
<1> QED
  BY <1>1, <1>2, DatedRows

\* The rows of a day, in the terms of the store.
LEMMA DayRows ==
  ASSUME NEW table \in Table, NEW sh, NEW day, NEW s
  PROVE  /\ s \in Dated(table, sh, {day}) <=> s \in Store!OfDay(table, sh, day)
         /\ s \in Store!OfDay(table, sh, day) <=>
              s \in Slots /\ s[1] = sh /\ table[s] # Blank /\ table[s].day = day
<1>1. s \in Slots => (table[s] \in Task <=> table[s] # Blank)
  BY BlankIsNoTask DEF Table
<1>2. s \in Store!OfDay(table, sh, day) <=>
        s \in Slots /\ s[1] = sh /\ table[s] # Blank /\ table[s].day = day
  BY DEF Store!OfDay
<1> QED
  BY <1>1, <1>2, DatedRows

\* A snapshot stays whole: a refresh makes all that was read of a sheet gone.
LEMMA NextSnapshotsWhole ==
  ASSUME StoreInv, [Next]_vars
  PROVE  SnapshotsWhole'
<1> USE DEF StoreInv, IInv
<1> SUFFICES ASSUME NEW q \in Normalizers, NEW sh \in Sheets, normalizer'[q].stage # "idle"
             PROVE  \/ \A s \in SlotsOf(sh) : /\ s \notin normalizer'[q].gone
                                              /\ normalizer'[q].rows[s] = raw'[s]
                    \/ \A s \in SlotsOf(sh) :
                         normalizer'[q].rows[s] # Blank => s \in normalizer'[q].gone
  BY DEF SnapshotsWhole, SlotsOf
<1> DEFINE Same  == \A s \in SlotsOf(sh) : /\ s \notin normalizer'[q].gone
                                           /\ normalizer'[q].rows[s] = raw'[s]
           Lost == \A s \in SlotsOf(sh) :
                     normalizer'[q].rows[s] # Blank => s \in normalizer'[q].gone
<1> SUFFICES Same \/ Lost
  OBVIOUS
<1>1. ASSUME NEW new \in Sheets, ParseCommit(new)
      PROVE  Same \/ Lost
  <2>1. /\ normalizer[q].stage # "idle"
        /\ normalizer'[q].rows = normalizer[q].rows
        /\ normalizer'[q].gone = normalizer[q].gone \union Dated(raw, new, RefreshDays(new))
    BY <1>1, RefreshSeen
  <2>2. \A s \in SlotsOf(sh) : s \in Slots /\ s[1] = sh
    BY DEF SlotsOf
  <2>3. CASE \A s \in SlotsOf(sh) : normalizer[q].rows[s] # Blank => s \in normalizer[q].gone
    BY <2>1, <2>3
  <2>4. CASE \A s \in SlotsOf(sh) :
               s \notin normalizer[q].gone /\ normalizer[q].rows[s] = raw[s]
    <3>1. CASE new = sh
      BY <2>1, <2>2, <2>4, <3>1, OldRows
    <3>2. CASE new # sh
      <4> SUFFICES ASSUME NEW s \in SlotsOf(sh)
                   PROVE  s \notin normalizer'[q].gone /\ normalizer'[q].rows[s] = raw'[s]
        OBVIOUS
      <4>1. s \in Slots /\ s[1] # new
        BY <2>2, <3>2
      <4>2. raw'[s] = raw[s]
        BY <1>1, <4>1, RefreshedRaw
      <4> QED
        BY <2>1, <2>4, <4>1, <4>2, OldRows
    <3> QED
      BY <3>1, <3>2
  <2> QED
    BY <2>1, <2>3, <2>4 DEF SnapshotsWhole
<1>2. CASE NormalizeBegin(q)
  <2>1. raw' = raw /\ normalizer'[q].rows = raw /\ normalizer'[q].gone = {}
    BY <1>2 DEF NormalizeBegin, TypeOK, IdleNormalizer
  <2> QED
    BY <2>1
<1>3. ASSUME raw' = raw,
             /\ normalizer[q].stage # "idle"
             /\ normalizer'[q].rows = normalizer[q].rows
             /\ normalizer'[q].gone = normalizer[q].gone
      PROVE  Same \/ Lost
  BY <1>3 DEF SnapshotsWhole
<1>4. ASSUME NEW p \in Normalizers, NEW part \in Parts,
             NormalizeDelete(p, part) \/ NormalizeCommit(p, part)
      PROVE  Same \/ Lost
  <2>1. raw' = raw
    BY <1>4 DEF NormalizeDelete, NormalizeCommit
  <2>2. /\ normalizer[q].stage # "idle"
        /\ normalizer'[q].rows = normalizer[q].rows
        /\ normalizer'[q].gone = normalizer[q].gone
    BY <1>4, DeleteSeen, CommitSeen
  <2> HIDE DEF Same, Lost
  <2> QED
    BY <1>3, <2>1, <2>2
<1>5. CASE normalizer'[q] = IdleNormalizer
  BY <1>5 DEF IdleNormalizer
<1>6. CASE /\ ~ \E new \in Sheets : ParseCommit(new)
           /\ \/ normalizer'[q] = normalizer[q]
              \/ \E part \in Parts :
                   /\ normalizer[q].stage = "partition"
                   /\ normalizer'[q] = [normalizer[q] EXCEPT !.todo = @ \ {part}]
  <2>1. raw' = raw
    BY <1>6, TablesChange DEF NormalizeCommit
  <2> HIDE DEF Same, Lost
  <2>2. /\ normalizer[q].stage # "idle"
        /\ normalizer'[q].rows = normalizer[q].rows
        /\ normalizer'[q].gone = normalizer[q].gone
    <3>1. CASE normalizer'[q] = normalizer[q]
      BY <3>1
    <3>2. ASSUME NEW part \in Parts, normalizer[q].stage = "partition",
                 normalizer'[q] = [normalizer[q] EXCEPT !.todo = @ \ {part}]
          PROVE  /\ normalizer[q].stage # "idle"
                 /\ normalizer'[q].rows = normalizer[q].rows
                 /\ normalizer'[q].gone = normalizer[q].gone
      BY <3>2 DEF TypeOK, Normalizer
    <3> QED
      BY <1>6, <3>1, <3>2
  <2> QED
    BY <1>3, <2>1, <2>2
<1> HIDE DEF Same, Lost
<1> QED
  BY <1>1, <1>2, <1>4, <1>5, <1>6, NormalizersChange

\* The lock keeps what a run deletes and what its partition has the same.
LEMMA NextTargetsExact ==
  ASSUME StoreInv, [Next]_vars
  PROVE  TargetsExact'
<1> USE DEF StoreInv, IInv
<1> SUFFICES ASSUME NEW p \in Normalizers, NEW part \in Parts,
                    normalizer'[p].stage = "write", FirstPart(p, part)'
             PROVE  normalizer'[p].target = Dated(norm', part[1], {part[2]})
  BY DEF TargetsExact, Dated, TaskSlots, SlotsOf
<1>1. ASSUME NEW sh \in Sheets, ParseCommit(sh)
      PROVE  normalizer'[p].target = Dated(norm', part[1], {part[2]})
  <2>1. FirstPart(p, part) /\ normalizer[p].stage = "write"
    BY <1>1, RefreshSeen, FirstPartSame
  <2>2. normalizer'[p].target = Dated(norm, part[1], {part[2]}) \ parser.target
    BY <1>1, <2>1, RefreshSeen DEF TargetsExact
  <2>3. \A s \in Slots : norm'[s] = IF s \in parser.target THEN Blank ELSE norm[s]
    BY <1>1 DEF ParseCommit
  <2>4. \A s : s \in Dated(norm', part[1], {part[2]}) <=>
                 s \in Dated(norm, part[1], {part[2]}) /\ s \notin parser.target
    BY <2>3, DatedRows, BlankIsNoTask
  <2> QED
    BY <2>2, <2>4
<1>2. ASSUME NEW r \in Normalizers, NEW other \in Parts, NormalizeDelete(r, other)
      PROVE  normalizer'[p].target = Dated(norm', part[1], {part[2]})
  <2>1. norm' = norm /\ FirstPart(r, other)
    BY <1>2 DEF NormalizeDelete
  <2>2. FirstPart(p, part)
    BY <1>2, DeleteSeen, FirstPartSame
  <2>3. CASE r = p
    <3>1. other = part
      BY <2>1, <2>2, <2>3, FirstPartUnique
    <3> QED
      BY <1>2, <2>1, <2>3, <3>1, DeleteSeen
  <2>4. CASE r # p
    <3>1. normalizer'[p] = normalizer[p]
      BY <1>2, <2>4, DeleteSeen
    <3> QED
      BY <2>1, <2>2, <3>1 DEF TargetsExact
  <2> QED
    BY <2>3, <2>4
<1>3. ASSUME NEW r \in Normalizers, NEW other \in Parts, NormalizeCommit(r, other)
      PROVE  normalizer'[p].target = Dated(norm', part[1], {part[2]})
  <2> DEFINE good == GoodRows(r, other)
  <2>1. r # p
    BY <1>3, CommitSeen
  <2>2. /\ normalizer[p].stage = "write"
        /\ normalizer'[p].todo = normalizer[p].todo
        /\ normalizer'[p].target = normalizer[p].target \ normalizer[r].target
    BY <1>3, <2>1, CommitSeen
  <2>3. FirstPart(p, part)
    BY <2>2, FirstPartSame
  <2>4. normalizer[p].target = Dated(norm, part[1], {part[2]})
    BY <2>2, <2>3 DEF TargetsExact
  <2>5. normalizer[r].stage = "write" /\ FirstPart(r, other) /\ KeysFree(r, good)
    BY <1>3 DEF NormalizeCommit
  <2>6. ~(other[1] = part[1] /\ other[2] = part[2])
    <3>1. other # part
      BY <2>1, <2>2, <2>3, <2>5 DEF OneWriterEach
    <3> QED
      BY <3>1 DEF Parts
  <2>7. \A s \in Slots : norm'[s] = IF s \in good THEN normalizer[r].rows[s]
                                    ELSE IF s \in normalizer[r].target THEN Blank ELSE norm[s]
    BY <1>3 DEF NormalizeCommit
  <2>8. \A s \in good : /\ s[1] = other[1] /\ normalizer[r].rows[s].day = other[2]
                        /\ norm[s] = Blank \/ s \in normalizer[r].target
    BY <2>5, DatedRows DEF GoodRows, PartRows, KeysFree
  <2> HIDE DEF good
  <2>9. ASSUME NEW s
        PROVE  s \in Dated(norm', part[1], {part[2]}) <=>
                 s \in Dated(norm, part[1], {part[2]}) /\ s \notin normalizer[r].target
    <3>1. CASE s \in good
      <4>1. s \notin Dated(norm', part[1], {part[2]})
        BY <2>6, <2>7, <2>8, <3>1, DatedRows
      <4>2. s \in normalizer[r].target \/ s \notin Dated(norm, part[1], {part[2]})
        BY <2>8, <3>1, DatedRows, BlankIsNoTask
      <4> QED
        BY <4>1, <4>2
    <3>2. CASE s \notin good
      BY <2>7, <3>2, DatedRows, BlankIsNoTask
    <3> QED
      BY <3>1, <3>2
  <2> QED
    BY <2>2, <2>4, <2>9
<1>4. CASE /\ ~ \E sh \in Sheets : ParseCommit(sh)
           /\ ~ \E r \in Normalizers, other \in Parts :
                NormalizeDelete(r, other) \/ NormalizeCommit(r, other)
  <2>1. normalizer'[p] = normalizer[p] /\ norm' = norm
    BY <1>4, WriterStays, TablesChange
  <2> QED
    BY <2>1, FirstPartSame DEF TargetsExact
<1> QED
  BY <1>1, <1>2, <1>3, <1>4

\* The target of the parse run stays in its sheet.
LEMMA NextTargetInSheet ==
  ASSUME StoreInv, [Next]_vars
  PROVE  TargetInSheet'
<1> USE DEF StoreInv, IInv
<1> SUFFICES ASSUME NEW sh \in Sheets, parser'.stage = "refresh", FirstSheet(sh)',
                    NEW s \in parser'.target
             PROVE  s[1] = sh
  BY DEF TargetInSheet
<1>1. ASSUME NEW now \in Sheets, ParseDeleteNormalized(now)
      PROVE  s[1] = sh
  <2> DEFINE target == Dated(norm, now, RefreshDays(now))
  <2>1. parser' = [parser EXCEPT !.stage = "refresh", !.target = target,
                                 !.locked = target \ LockedByOthers("parser")]
    BY <1>1 DEF ParseDeleteNormalized
  <2> HIDE DEF target
  <2>2. parser'.target = target /\ parser'.todo = parser.todo
    BY <2>1 DEF TypeOK, Parser
  <2>3. FirstSheet(now)
    BY <1>1 DEF ParseDeleteNormalized
  <2>4. sh = now
    BY <2>2, <2>3 DEF FirstSheet, Sheets
  <2> QED
    BY <2>2, <2>4, DatedRows DEF target
<1>2. ASSUME parser'.todo = parser.todo, parser'.target \subseteq parser.target,
             parser.stage = "refresh"
      PROVE  s[1] = sh
  BY <1>2 DEF TargetInSheet, FirstSheet
<1>3. ASSUME NEW now \in Sheets, ParseCommit(now)
      PROVE  FALSE
  <2>1. parser' = [parser EXCEPT !.stage = "sheet", !.todo = @ \ {now},
                                 !.target = {}, !.locked = {}]
    BY <1>3 DEF ParseCommit
  <2>2. parser'.stage = "sheet"
    BY <2>1 DEF TypeOK, Parser
  <2> QED
    BY <2>2
<1>4. parser' # IdleParser
  BY DEF IdleParser
<1>5. ~ParseBegin
  <2> SUFFICES ASSUME ParseBegin PROVE FALSE
    OBVIOUS
  <2>1. parser'.stage = "sheet"
    BY DEF ParseBegin, IdleParser
  <2> QED
    BY <2>1
<1>6. ASSUME NEW p \in Normalizers, NEW part \in Parts, NormalizeCommit(p, part)
      PROVE  s[1] = sh
  <2>1. parser' = [parser EXCEPT !.target = @ \ normalizer[p].target]
    BY <1>6 DEF NormalizeCommit
  <2>2. /\ parser'.todo = parser.todo /\ parser'.target \subseteq parser.target
        /\ parser'.stage = parser.stage
    BY <2>1 DEF TypeOK, Parser
  <2> QED
    BY <1>2, <2>2
<1>7. CASE parser' = parser
  BY <1>2, <1>7
<1>8. \/ \E now \in Sheets :
           ParseDeleteNormalized(now) \/ ParseCommit(now)
      \/ ParseBegin \/ parser' = IdleParser
      \/ \E p \in Normalizers, part \in Parts : NormalizeCommit(p, part)
      \/ parser' = parser
  BY DEF Next, vars, ParseStep, NormalizeStep, IngestRange, NormalizeBegin, NormalizeEnd,
         NormalizeLimit, NormalizeSkip, NormalizeDelete, NormalizeRejected, NormalizeFault,
         ParseEnd, ParseFault, ParseRestricted
<1> QED
  BY <1>1, <1>3, <1>4, <1>6, <1>7, <1>8, <1>5

\* The commit of a parse refresh is a refresh of the store.
LEMMA RefreshStep ==
  ASSUME StoreInv, TypeOK', NEW sh \in Sheets, ParseCommit(sh)
  PROVE  Store!Refresh(sh)
<1> USE DEF StoreInv, IInv
<1>1. raw' \in [Slots -> Task \union {Blank}]
  BY DEF TypeOK, Table
<1>2. \A s \in Slots : s[1] # sh => raw'[s] = raw[s]
  BY RefreshedRaw
<1>3. norm' = [s \in Slots |-> IF s \in parser.target THEN Blank ELSE norm[s]]
  BY DEF ParseCommit
<1>4. ASSUME NEW s \in Slots
      PROVE  (IF s \in parser.target THEN Blank ELSE norm[s])
               = IF s[1] = sh THEN Blank ELSE norm[s]
  <2>1. s \in parser.target => s[1] = sh
    BY DEF ParseCommit, TargetInSheet
  <2>2. s[1] = sh /\ norm[s] # Blank => s \in parser.target
    <3> SUFFICES ASSUME s[1] = sh, norm[s] # Blank
                 PROVE  s \in parser.target
      OBVIOUS
    <3>1. raw[s] # Blank
      BY DEF NormalizedMirrorsRaw
    <3>2. s \in Dated(raw, sh, RefreshDays(sh))
      BY <3>1, OldRows
    <3> QED
      BY <3>2 DEF ParseCommit, RawRowsFree
  <2> QED
    BY <2>1, <2>2
<1>5. norm' = [s \in Slots |-> IF s[1] = sh THEN Blank ELSE norm[s]]
  BY <1>3, <1>4
<1> QED
  BY <1>1, <1>2, <1>5 DEF Store!Refresh, Store!Rows

\* The commit of a partition normalizes its day as the raw rows are, or finds
\* that all it has read of the sheet is gone and clears the day.
LEMMA PartitionStep ==
  ASSUME StoreInv, NEW p \in Normalizers, NEW part \in Parts, NormalizeCommit(p, part)
  PROVE  Store!Normalize(part[1], part[2]) \/ Store!Forget(part[1], part[2])
<1> USE DEF StoreInv, IInv
<1> DEFINE good == GoodRows(p, part)
<1>1. /\ normalizer[p].stage = "write" /\ FirstPart(p, part)
      /\ RawRowsExist(p, good) /\ InRange(p, good)
      /\ raw' = raw
  BY DEF NormalizeCommit
<1>2. norm' = [s \in Slots |-> IF s \in good THEN normalizer[p].rows[s]
                               ELSE IF s \in normalizer[p].target THEN Blank ELSE norm[s]]
  BY DEF NormalizeCommit
<1>3. normalizer[p].target = Store!OfDay(norm, part[1], part[2])
  <2>1. normalizer[p].target = Dated(norm, part[1], {part[2]})
    BY <1>1 DEF TargetsExact
  <2>2. \A s : s \in Dated(norm, part[1], {part[2]})
                 <=> s \in Store!OfDay(norm, part[1], part[2])
    BY DayRows DEF TypeOK
  <2> QED
    BY <2>1, <2>2
<1>4. part[1] \in Sheets /\ part \in Sheets \X Days
  BY DEF Parts
<1>5. \A s : s \in good <=> /\ s \in Store!OfDay(normalizer[p].rows, part[1], part[2])
                            /\ normalizer[p].rows[s].kind # "raises"
  BY DayRows DEF GoodRows, PartRows, TypeOK, Normalizer
<1>6. CASE \A s \in SlotsOf(part[1]) :
             s \notin normalizer[p].gone /\ normalizer[p].rows[s] = raw[s]
  <2>1. \A s \in Slots : s[1] = part[1] => normalizer[p].rows[s] = raw[s]
    BY <1>6 DEF SlotsOf
  <2>2. good = Store!Good(part[1], part[2])
    BY <1>5, <2>1, DayRows DEF Store!Good, Store!OfDay
  <2>3. \A s \in good : normalizer[p].rows[s] = raw[s]
    BY <1>5, <2>1 DEF Store!OfDay
  <2>4. \A s \in good : raw[s].kind # "overflows"
    BY <1>1, <2>3 DEF InRange
  <2> HIDE DEF good
  <2>5. norm' = [s \in Slots |-> IF s \in good THEN raw[s]
                                 ELSE IF s \in Store!OfDay(norm, part[1], part[2]) THEN Blank
                                 ELSE norm[s]]
    BY <1>2, <1>3, <2>3
  <2>6. Store!Normalize(part[1], part[2])
    BY <1>1, <2>2, <2>4, <2>5 DEF Store!Normalize
  <2> QED
    BY <2>6
<1>7. CASE \A s \in SlotsOf(part[1]) :
             normalizer[p].rows[s] # Blank => s \in normalizer[p].gone
  <2>1. good = {}
    BY <1>1, <1>5, <1>7 DEF Store!OfDay, SlotsOf, RawRowsExist
  <2> HIDE DEF good
  <2>2. norm' = [s \in Slots |-> IF s \in Store!OfDay(norm, part[1], part[2]) THEN Blank
                                 ELSE norm[s]]
    BY <1>2, <1>3, <2>1
  <2>3. Store!Forget(part[1], part[2])
    BY <1>1, <2>2 DEF Store!Forget
  <2> QED
    BY <2>3
<1>8. normalizer[p].stage # "idle"
  BY <1>1
<1> QED
  BY <1>4, <1>6, <1>7, <1>8 DEF SnapshotsWhole

\* Every step is one of the store or changes neither of its tables.
LEMMA StoreStep ==
  ASSUME StoreInv, [Next]_vars
  PROVE  [Store!Next]_(Store!vars)
<1>1. TypeOK'
  BY NextTypeOK DEF StoreInv, IInv
<1>2. ASSUME NEW sh \in Sheets, ParseCommit(sh)
      PROVE  Store!Next
  BY <1>1, <1>2, RefreshStep DEF Store!Next
<1>3. ASSUME NEW p \in Normalizers, NEW part \in Parts, NormalizeCommit(p, part)
      PROVE  Store!Next
  <2>1. part[1] \in Sheets /\ part[2] \in Days
    BY DEF Parts
  <2> QED
    BY <1>3, <2>1, PartitionStep DEF Store!Next
<1>4. CASE UNCHANGED <<raw, norm, parsed>>
  BY <1>4 DEF Store!vars
<1> QED
  BY <1>2, <1>3, <1>4, TablesChange

\* The days of the store stay whole: a step of one day leaves the others alone,
\* for a row of another day is not one of its raw rows.
LEMMA NextWholeDays ==
  ASSUME StoreInv, [Next]_vars
  PROVE  WholeDays'
<1> USE DEF StoreInv, IInv
<1>1. TypeOK' /\ NormalizedMirrorsRaw'
  BY NextTypeOK, NextMirrors
<1> SUFFICES ASSUME NEW sh \in Sheets, NEW day \in Days
             PROVE  Store!OfDay(norm', sh, day) \in
                      {{}, {s \in Store!OfDay(raw', sh, day) : raw'[s].kind # "raises"}}
  BY <1>1 DEF WholeDays, Store!WholeDays, Store!Good, Store!OfDay, NormalizedMirrorsRaw
<1>2. Store!OfDay(norm, sh, day) \in
        {{}, {s \in Store!OfDay(raw, sh, day) : raw[s].kind # "raises"}}
  BY DEF WholeDays, Store!WholeDays, Store!Good
<1>3. ASSUME NEW new \in Sheets, Store!Refresh(new)
      PROVE  Store!OfDay(norm', sh, day) \in
               {{}, {s \in Store!OfDay(raw', sh, day) : raw'[s].kind # "raises"}}
  <2>1. \A s \in Slots : /\ norm'[s] = IF s[1] = new THEN Blank ELSE norm[s]
                         /\ s[1] # new => raw'[s] = raw[s]
    BY <1>3 DEF Store!Refresh
  <2>2. CASE new = sh
    <3>1. Store!OfDay(norm', sh, day) = {}
      BY <2>1, <2>2 DEF Store!OfDay
    <3> QED
      BY <3>1
  <2>3. CASE new # sh
    <3>1. Store!OfDay(norm', sh, day) = Store!OfDay(norm, sh, day)
      BY <2>1, <2>3 DEF Store!OfDay
    <3>2. {s \in Store!OfDay(raw', sh, day) : raw'[s].kind # "raises"}
            = {s \in Store!OfDay(raw, sh, day) : raw[s].kind # "raises"}
      BY <2>1, <2>3 DEF Store!OfDay
    <3> QED
      BY <1>2, <3>1, <3>2
  <2> QED
    BY <2>2, <2>3
<1>4. ASSUME NEW here \in Sheets, NEW now \in Days,
             Store!Normalize(here, now) \/ Store!Forget(here, now)
      PROVE  Store!OfDay(norm', sh, day) \in
               {{}, {s \in Store!OfDay(raw', sh, day) : raw'[s].kind # "raises"}}
  <2>1. raw' = raw
    BY <1>4 DEF Store!Normalize, Store!Forget
  <2>2. CASE here = sh /\ now = day /\ Store!Normalize(here, now)
    <3>1. \A s \in Slots : norm'[s] = IF s \in Store!Good(sh, day) THEN raw[s]
                                      ELSE IF s \in Store!OfDay(norm, sh, day) THEN Blank
                                      ELSE norm[s]
      BY <2>2 DEF Store!Normalize
    <3>2. Store!OfDay(norm', sh, day) = Store!Good(sh, day)
      BY <3>1 DEF Store!OfDay, Store!Good
    <3> QED
      BY <2>1, <3>2 DEF Store!Good
  <2>3. CASE here = sh /\ now = day /\ Store!Forget(here, now)
    <3>1. \A s \in Slots : norm'[s] = IF s \in Store!OfDay(norm, sh, day) THEN Blank
                                      ELSE norm[s]
      BY <2>3 DEF Store!Forget
    <3>2. Store!OfDay(norm', sh, day) = {}
      BY <3>1 DEF Store!OfDay
    <3> QED
      BY <3>2
  <2>4. CASE ~(here = sh /\ now = day)
    <3>1. \A s \in Slots :
            \/ norm'[s] = norm[s]
            \/ /\ s \in Store!OfDay(raw, here, now) \/ s \in Store!OfDay(norm, here, now)
               /\ norm'[s] \in {Blank, raw[s]}
      BY <1>4 DEF Store!Normalize, Store!Forget, Store!Good
    <3>2. \A s \in Slots : norm[s] # Blank => raw[s] = norm[s]
      BY DEF NormalizedMirrorsRaw
    <3>3. \A s \in Slots : norm'[s] # Blank => raw[s] = norm'[s]
      BY <1>1, <2>1 DEF NormalizedMirrorsRaw
    <3>4. ASSUME NEW s
          PROVE  s \in Store!OfDay(norm', sh, day) <=> s \in Store!OfDay(norm, sh, day)
      BY <2>4, <3>1, <3>2, <3>3 DEF Store!OfDay
    <3>5. Store!OfDay(norm', sh, day) = Store!OfDay(norm, sh, day)
      BY <3>4 DEF Store!OfDay
    <3> QED
      BY <1>2, <2>1, <3>5
  <2> QED
    BY <1>4, <2>2, <2>3, <2>4
<1>5. CASE UNCHANGED Store!vars
  <2>1. raw' = raw /\ norm' = norm
    BY <1>5 DEF Store!vars
  <2> QED
    BY <1>2, <2>1
<1>6. [Store!Next]_(Store!vars)
  BY StoreStep
<1> QED
  BY <1>3, <1>4, <1>5, <1>6 DEF Store!Next

\* The invariant of the store holds in every reachable state.
LEMMA StoreInvariant == Spec => []StoreInv
<1>1. Init => StoreInv
  <2> SUFFICES ASSUME Init PROVE StoreInv
    OBVIOUS
  <2>1. IInv
    BY InitIInv
  <2>2. \A p \in Normalizers : normalizer[p].stage = "idle"
    BY DEF Init, IdleNormalizer
  <2>3. parser.stage = "idle"
    BY DEF Init, IdleParser
  <2>4. \A s \in Slots : norm[s] = Blank
    BY DEF Init, NoRows
  <2>5. WholeDays
    BY <2>4 DEF WholeDays, Store!WholeDays, Store!OfDay
  <2> QED
    BY <2>1, <2>2, <2>3, <2>5 DEF StoreInv, SnapshotsWhole, TargetsExact, TargetInSheet
<1>2. StoreInv /\ [Next]_vars => StoreInv'
  <2> SUFFICES ASSUME StoreInv, [Next]_vars PROVE StoreInv'
    OBVIOUS
  <2>1. IInv'
    <3>1. TypeOK'
      BY NextTypeOK DEF StoreInv, IInv
    <3> QED
      BY <3>1, NextMirrors, NextSnapshot, NextSnapshotsValid, NextOneWriter, NextOwned
         DEF StoreInv, IInv
  <2> QED
    BY <2>1, NextSnapshotsWhole, NextTargetsExact, NextTargetInSheet, NextWholeDays DEF StoreInv
<1> QED
  BY <1>1, <1>2, PTL DEF Spec

\* run_parse and run_normalize implement the store: their transactions change
\* one sheet, or one day of one sheet, at a time, from raw rows that are still
\* there, however many runs overlap, are rejected or crash.
THEOREM ImplementsStore == Spec => StoreSpec
<1>1. Init => Store!Init
  BY DEF Init, NoRows, Store!Init
<1>2. StoreInv /\ [Next]_vars => [Store!Next]_(Store!vars)
  BY StoreStep
<1> QED
  BY <1>1, <1>2, StoreInvariant, PTL DEF Spec, StoreSpec, Store!Spec

\* Whoever reads tasks_normalized for a date finds of each sheet all the tasks
\* that can be normalized, as raw_tasks has them, or none.
THEOREM DaysAreWhole == Spec => []WholeDays
<1>1. StoreInv => WholeDays
  BY DEF StoreInv
<1> QED
  BY <1>1, StoreInvariant, PTL
=============================================================================
