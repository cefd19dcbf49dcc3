---------------------------- MODULE Sheet_proofs ----------------------------
(***************************************************************************)
(* From a sheet to task lines: for any sheet, batches, runs, blocks,       *)
(* columns and names, a run nobody disturbs leaves the sheet in the table, *)
(* no line all runs know is lost, a cell is read once, and a name gets one *)
(* employee.                                                               *)
(***************************************************************************)
EXTENDS IngestRun, ParseOverlap, WeeklyBoard, EmployeeMatch, TLAPS, FiniteSetTheorems,
        SequenceTheorems

-----------------------------------------------------------------------------
(* IngestRun: sheets into the table.                                       *)

\* A run between its transactions.
Working(run) == run.stage \in {"replacing", "deleting", "inserting"}

\* The ranges of its batch a run has replaced.
Replaced(run) == Len(Batches[run.batch]) - Len(run.pending)

\* What remains of the batch, and the rows a transaction has deleted.
RunOK(run) ==
  /\ run \in Ingest
  /\ run.stage = "idle" => ~ run.undisturbed
  /\ run.stage = "fetching" => run.batch <= Len(Batches)
  /\ run.stage = "ended" => run.batch = Len(Batches) + 1
  /\ Working(run) =>
       /\ run.batch <= Len(Batches)
       /\ run.pending # <<>> /\ Len(run.pending) <= Len(Batches[run.batch])
       /\ \A k \in 1 .. Len(run.pending) : run.pending[k] = Batches[run.batch][Replaced(run) + k]

\* The ranges a run has replaced so far.
Done(run, b, k) ==
  b < run.batch \/ (b = run.batch /\ Working(run) /\ k <= Replaced(run))

\* A run nobody disturbs works alone on the present values: the ranges it has
\* replaced hold them.
AloneIsExact(r) ==
  ingest[r].undisturbed =>
    /\ \A q \in Ingests \ {r} : ingest[q].stage \in Idling
    /\ Working(ingest[r]) => ingest[r].values = grid
    /\ ingest[r].stage \in {"deleting", "inserting"} =>
         ingest[r].deleted = {c \in ingest[r].pending[1] : rows[c] # Empty}
    /\ ingest[r].stage # "failed" =>
         \A b \in DOMAIN Batches : \A k \in DOMAIN Batches[b] :
           Done(ingest[r], b, k) => \A c \in Batches[b][k] : rows[c] = grid[c]

\* The inductive invariant.
IngestInv ==
  /\ IngestTypeOK
  /\ \A c \in Cells \ Configured : rows[c] = Empty
  /\ \A r \in Ingests : RunOK(ingest[r]) /\ AloneIsExact(r)

-----------------------------------------------------------------------------
\* The batches, and their ranges.
LEMMA BatchTypes ==
  ASSUME NEW b \in DOMAIN Batches
  PROVE  /\ b \in 1 .. Len(Batches) /\ Len(Batches) \in Nat /\ Len(Batches) > 0
         /\ Batches[b] \in Seq(SUBSET Cells) /\ Len(Batches[b]) \in Nat /\ Len(Batches[b]) > 0
         /\ DOMAIN Batches[b] = 1 .. Len(Batches[b])
         /\ \A k \in DOMAIN Batches[b] : Batches[b][k] \subseteq Cells /\ Batches[b][k] \subseteq Configured
BY IngestAssumption DEF Configured

\* A run that has not begun.
LEMMA NoIngest == RunOK(IdleIngest) /\ ~ IdleIngest.undisturbed /\ IdleIngest.stage = "idle"
<1>1. Len(Batches) \in Nat /\ MaxRetries \in Nat /\ <<>> \in Seq(SUBSET Cells)
  BY IngestAssumption
<1>2. BlankGrid \in [Cells -> CellValues]
  BY DEF BlankGrid, CellValues
<1> QED
  BY <1>1, <1>2 DEF IdleIngest, RunOK, Ingest, Working

\* The range a run works on is one of its batch.
LEMMA RangeOfBatch ==
  ASSUME NEW run, RunOK(run), Working(run)
  PROVE  /\ run.batch \in DOMAIN Batches
         /\ Replaced(run) + 1 \in DOMAIN Batches[run.batch]
         /\ run.pending[1] = Batches[run.batch][Replaced(run) + 1]
         /\ run.pending[1] \subseteq Configured
         /\ Replaced(run) \in Nat
<1>1. run.batch \in DOMAIN Batches
  BY IngestAssumption DEF RunOK, Ingest
<1>2. run.pending \in Seq(SUBSET Cells) /\ Len(run.pending) \in Nat /\ Len(run.pending) # 0
  BY DEF RunOK, Ingest
<1>3. Len(Batches[run.batch]) \in Nat /\ DOMAIN Batches[run.batch] = 1 .. Len(Batches[run.batch])
  BY <1>1, BatchTypes
<1>4. Replaced(run) + 1 \in DOMAIN Batches[run.batch] /\ Replaced(run) \in Nat
  <2>1. PICK n \in Nat, m \in Nat \ {0} : Len(Batches[run.batch]) = n /\ Len(run.pending) = m
    BY <1>2, <1>3
  <2>2. m <= n
    BY <2>1 DEF RunOK
  <2> QED
    BY <1>3, <2>1, <2>2 DEF Replaced
<1>5. run.pending[1] = Batches[run.batch][Replaced(run) + 1]
  BY <1>2 DEF RunOK
<1> QED
  BY <1>1, <1>4, <1>5, BatchTypes

\* At first the table is empty.
LEMMA IngestInvInit == IngestInit => IngestInv
<1> SUFFICES ASSUME IngestInit PROVE IngestInv
  OBVIOUS
<1>1. BlankGrid \in [Cells -> CellValues] /\ \A c \in Cells : BlankGrid[c] = Empty
  BY DEF BlankGrid, CellValues
<1>2. \A r \in Ingests : ingest[r] = IdleIngest
  BY DEF IngestInit
<1>3. IngestTypeOK
  BY <1>1, NoIngest, IngestAssumption DEF IngestInit, IngestTypeOK, RunOK
<1> QED
  BY <1>1, <1>2, <1>3, NoIngest DEF IngestInit, IngestInv, AloneIsExact

-----------------------------------------------------------------------------
\* What a step makes of its run.
LEMMA InBatchMoves ==
  ASSUME NEW run \in Ingest, run.batch <= Len(Batches)
  PROVE  \E new \in Ingest :
           /\ InBatch(run) = new
           /\ new.values = run.values /\ new.undisturbed = run.undisturbed /\ new.pending = run.pending
           /\ run.pending # <<>> => new.stage = "replacing" /\ new.batch = run.batch
           /\ run.pending = <<>> => /\ new.batch = run.batch + 1
                                   /\ new.stage = IF run.batch < Len(Batches) THEN "fetching" ELSE "ended"
<1>1. Len(Batches) \in Nat /\ 0 \in 0 .. MaxRetries
  BY IngestAssumption
<1>2. CASE run.pending # <<>>
  <2> DEFINE new == [run EXCEPT !.stage = "replacing", !.deleted = {}]
  <2>1. /\ new \in Ingest /\ new.stage = "replacing" /\ new.batch = run.batch
        /\ new.values = run.values /\ new.undisturbed = run.undisturbed /\ new.pending = run.pending
    BY DEF Ingest
  <2>2. InBatch(run) = new
    BY <1>2 DEF InBatch
  <2> HIDE DEF new
  <2> QED
    BY <1>2, <2>1, <2>2
<1>3. CASE run.pending = <<>>
  <2> DEFINE batch == run.batch + 1
             stage == IF run.batch < Len(Batches) THEN "fetching" ELSE "ended"
             new == [run EXCEPT !.batch = batch, !.attempt = 0, !.deleted = {}, !.stage = stage]
  <2>1. batch \in 1 .. Len(Batches) + 1 /\ stage \in {"fetching", "ended"}
    BY <1>1 DEF Ingest
  <2>2. InBatch(run) = new
    BY <1>3 DEF InBatch
  <2>3. batch = run.batch + 1 /\ stage = IF run.batch < Len(Batches) THEN "fetching" ELSE "ended"
    OBVIOUS
  <2> HIDE DEF batch, stage
  <2>4. /\ new \in Ingest /\ new.stage = stage /\ new.batch = batch
        /\ new.values = run.values /\ new.undisturbed = run.undisturbed /\ new.pending = run.pending
    BY <1>1, <2>1 DEF Ingest
  <2> HIDE DEF new
  <2> QED
    BY <1>3, <2>2, <2>3, <2>4
<1> QED
  BY <1>2, <1>3

\* What a run that is at work does to the others: rows they wait for may go.
OthersWait(r) ==
  \A q \in Ingests \ {r} :
    \E gone \in SUBSET Cells : ingest'[q] = [ingest[q] EXCEPT !.deleted = gone]

LEMMA OthersKeep ==
  ASSUME ingest \in [Ingests -> Ingest], NEW r \in Ingests, OthersWait(r), NEW q \in Ingests \ {r}
  PROVE  /\ ingest'[q] \in Ingest
         /\ ingest'[q].stage = ingest[q].stage /\ ingest'[q].batch = ingest[q].batch
         /\ ingest'[q].pending = ingest[q].pending /\ ingest'[q].undisturbed = ingest[q].undisturbed
<1>1. PICK gone \in SUBSET Cells : ingest'[q] = [ingest[q] EXCEPT !.deleted = gone]
  BY DEF OthersWait
<1>2. ingest[q] \in Ingest
  OBVIOUS
<1> QED
  BY <1>1, <1>2 DEF Ingest

\* A run that is at work moves: no other run is undisturbed.
LEMMA ActiveMoves ==
  ASSUME IngestInv, NEW r \in Ingests, ingest[r].stage \notin Idling,
         ingest' = [q \in Ingests |-> ingest'[q]], OthersWait(r),
         ingest'[r] \in Ingest, RunOK(ingest'[r]),
         UNCHANGED <<grid, changes>>, rows' \in [Cells -> CellValues],
         \A c \in Cells \ Configured : rows'[c] = Empty,
         AloneIsExact(r)'
  PROVE  IngestInv'
<1>1. ingest \in [Ingests -> Ingest]
  BY DEF IngestInv, IngestTypeOK
<1>2. ASSUME NEW q \in Ingests \ {r}
      PROVE  ingest'[q] \in Ingest /\ RunOK(ingest'[q]) /\ ~ ingest'[q].undisturbed
  <2>1. RunOK(ingest[q]) /\ ~ ingest[q].undisturbed
    BY DEF IngestInv, AloneIsExact
  <2>2. /\ ingest'[q] \in Ingest
        /\ ingest'[q].stage = ingest[q].stage /\ ingest'[q].batch = ingest[q].batch
        /\ ingest'[q].pending = ingest[q].pending /\ ingest'[q].undisturbed = ingest[q].undisturbed
    BY <1>1, OthersKeep
  <2> QED
    BY <2>1, <2>2 DEF RunOK, Working, Replaced
<1>3. \A q \in Ingests : AloneIsExact(q)'
  BY <1>2 DEF AloneIsExact
<1>4. \A q \in Ingests : ingest'[q] \in Ingest /\ RunOK(ingest'[q])
  BY <1>2
<1>5. \A q \in Ingests : RunOK(ingest[q])'
  BY <1>4 DEF RunOK, Working, Replaced
<1>6. IngestTypeOK'
  <2>1. ingest' \in [Ingests -> Ingest]
    BY <1>4
  <2> QED
    BY <2>1 DEF IngestInv, IngestTypeOK
<1> QED
  BY <1>3, <1>5, <1>6 DEF IngestInv

\* A run that moves alone leaves the others as they are.
LEMMA OnlyOneMoves ==
  ASSUME ingest \in [Ingests -> Ingest], NEW r \in Ingests, NEW new, ingest' = [ingest EXCEPT ![r] = new]
  PROVE  /\ ingest'[r] = new /\ \A q \in Ingests \ {r} : ingest'[q] = ingest[q]
         /\ ingest' = [q \in Ingests |-> ingest'[q]]
         /\ OthersWait(r)
<1>1. /\ ingest'[r] = new /\ \A q \in Ingests \ {r} : ingest'[q] = ingest[q]
      /\ ingest' = [q \in Ingests |-> ingest'[q]]
  OBVIOUS
<1>2. ASSUME NEW q \in Ingests \ {r}
      PROVE  \E gone \in SUBSET Cells : ingest'[q] = [ingest[q] EXCEPT !.deleted = gone]
  <2>1. ingest[q] \in Ingest
    OBVIOUS
  <2>2. ingest[q].deleted \in SUBSET Cells /\ ingest[q] = [ingest[q] EXCEPT !.deleted = ingest[q].deleted]
    BY <2>1 DEF Ingest
  <2> QED
    BY <1>1, <2>2
<1> QED
  BY <1>1, <1>2 DEF OthersWait

\* The invariant of a run at work that is undisturbed.
LEMMA EditCellKeeps ==
  ASSUME IngestInv, NEW c \in Cells, EditCell(c)
  PROVE  IngestInv'
<1>1. ingest \in [Ingests -> Ingest]
  BY DEF IngestInv, IngestTypeOK
<1>2. /\ changes' = changes + 1 /\ changes < MaxChanges /\ UNCHANGED rows
      /\ \E v \in CellValues \ {grid[c]} : grid' = [grid EXCEPT ![c] = v]
      /\ ingest' = [r \in Ingests |-> [ingest[r] EXCEPT !.undisturbed = FALSE]]
  BY DEF EditCell
<1>3. \A r \in Ingests :
        /\ ingest'[r] \in Ingest /\ ~ ingest'[r].undisturbed
        /\ ingest'[r].stage = ingest[r].stage /\ ingest'[r].batch = ingest[r].batch
        /\ ingest'[r].pending = ingest[r].pending
  BY <1>1, <1>2 DEF Ingest
<1>4. IngestTypeOK'
  <2>1. ingest' \in [Ingests -> Ingest]
    BY <1>2, <1>3
  <2>2. grid' \in [Cells -> CellValues]
    BY <1>2 DEF IngestInv, IngestTypeOK
  <2>3. changes' \in 0 .. MaxChanges
    BY <1>2, IngestAssumption DEF IngestInv, IngestTypeOK
  <2> QED
    BY <1>2, <2>1, <2>2, <2>3 DEF IngestInv, IngestTypeOK
<1>5. ASSUME NEW r \in Ingests PROVE RunOK(ingest[r])' /\ AloneIsExact(r)'
  <2>1. RunOK(ingest[r])
    BY DEF IngestInv
  <2>2. RunOK(ingest'[r])
    BY <1>3, <2>1 DEF RunOK, Working, Replaced
  <2> QED
    BY <1>3, <2>2 DEF RunOK, Working, Replaced, AloneIsExact
<1> QED
  BY <1>2, <1>4, <1>5 DEF IngestInv

\* A run begins.
LEMMA BeginIngestKeeps ==
  ASSUME IngestInv, NEW r \in Ingests, BeginIngest(r)
  PROVE  IngestInv'
<1> DEFINE alone == \A q \in Ingests \ {r} : ingest[q].stage \in Idling
           new == [IdleIngest EXCEPT !.stage = "fetching", !.undisturbed = alone]
<1>1. ingest \in [Ingests -> Ingest]
  BY DEF IngestInv, IngestTypeOK
<1>2. /\ UNCHANGED <<grid, changes, rows>>
      /\ ingest' = [q \in Ingests |-> IF q = r THEN new ELSE [ingest[q] EXCEPT !.undisturbed = FALSE]]
  BY DEF BeginIngest
<1>3. new \in Ingest /\ new.stage = "fetching" /\ new.undisturbed = alone /\ new.batch = 1
  <2>1. alone \in BOOLEAN
    OBVIOUS
  <2> HIDE DEF alone
  <2>2. IdleIngest \in Ingest /\ IdleIngest.batch = 1
    BY NoIngest DEF RunOK, IdleIngest
  <2> QED
    BY ONLY <2>1, <2>2 DEF Ingest
<1>4. RunOK(new)
  BY <1>3, IngestAssumption DEF RunOK, Working
<1> HIDE DEF new
<1>5. \A q \in Ingests \ {r} :
        /\ ingest'[q] \in Ingest /\ ~ ingest'[q].undisturbed
        /\ ingest'[q].stage = ingest[q].stage /\ ingest'[q].batch = ingest[q].batch
        /\ ingest'[q].pending = ingest[q].pending
  BY <1>1, <1>2 DEF Ingest
<1>6. IngestTypeOK'
  BY <1>2, <1>3, <1>5 DEF IngestInv, IngestTypeOK
<1>7. \A q \in Ingests : RunOK(ingest'[q])
  <2>1. ASSUME NEW q \in Ingests \ {r} PROVE RunOK(ingest'[q])
    <3>1. RunOK(ingest[q])
      BY DEF IngestInv
    <3> QED
      BY <1>5, <3>1 DEF RunOK, Working, Replaced
  <2> QED
    BY <1>2, <1>4, <2>1
<1>8. ASSUME NEW q \in Ingests PROVE AloneIsExact(q)'
  <2>1. CASE q # r
    BY <1>5, <2>1 DEF AloneIsExact
  <2>2. CASE q = r
    <3>1. ingest'[r] = new /\ ~ Working(new)
      BY <1>2, <1>3 DEF Working
    <3>2. \A b \in DOMAIN Batches : \A k : ~ Done(new, b, k)
      BY <1>3, <3>1, BatchTypes DEF Done
    <3>3. new.undisturbed => \A p \in Ingests \ {r} : ingest'[p].stage \in Idling
      BY <1>3, <1>5
    <3> QED
      BY <1>3, <2>2, <3>1, <3>2, <3>3 DEF AloneIsExact, Done, Working, Replaced
  <2> QED
    BY <2>1, <2>2
<1> QED
  BY <1>2, <1>6, <1>7, <1>8 DEF IngestInv, RunOK, Working, Replaced

\* The fields of a run that a step does not name.
LEMMA FetchBatchKeeps ==
  ASSUME IngestInv, NEW r \in Ingests, FetchBatch(r)
  PROVE  IngestInv'
<1> DEFINE b == ingest[r].batch
           run == [ingest[r] EXCEPT !.pending = Batches[b], !.values = grid]
<1>1. /\ ingest \in [Ingests -> Ingest] /\ RunOK(ingest[r]) /\ AloneIsExact(r)
      /\ grid \in [Cells -> CellValues] /\ rows \in [Cells -> CellValues]
  BY DEF IngestInv, IngestTypeOK
<1>2. /\ ingest[r].stage = "fetching" /\ b <= Len(Batches)
      /\ ingest' = [ingest EXCEPT ![r] = InBatch(run)]
      /\ UNCHANGED <<grid, changes, rows>>
  BY DEF FetchBatch
<1>3. b \in DOMAIN Batches
  BY <1>1, <1>2, IngestAssumption DEF Ingest
<1>4. /\ Batches[b] \in Seq(SUBSET Cells) /\ Len(Batches[b]) \in Nat /\ Len(Batches[b]) > 0
      /\ Batches[b] # <<>>
  BY <1>3, BatchTypes
<1>5. /\ run \in Ingest /\ run.batch = b /\ run.pending = Batches[b] /\ run.values = grid
      /\ run.undisturbed = ingest[r].undisturbed
  BY <1>1, <1>4 DEF Ingest
<1> HIDE DEF run
<1>6. PICK new \in Ingest :
        /\ InBatch(run) = new
        /\ new.values = run.values /\ new.undisturbed = run.undisturbed /\ new.pending = run.pending
        /\ new.stage = "replacing" /\ new.batch = run.batch
  BY <1>2, <1>4, <1>5, InBatchMoves
<1>10. /\ ingest'[r] = new /\ \A q \in Ingests \ {r} : ingest'[q] = ingest[q]
       /\ ingest' = [q \in Ingests |-> ingest'[q]] /\ OthersWait(r)
  <2>1. ingest' = [ingest EXCEPT ![r] = new]
    BY <1>2, <1>6
  <2> QED
    BY <1>1, <2>1, OnlyOneMoves
<1>7. ingest'[r] = new /\ Replaced(new) = 0
  BY <1>4, <1>5, <1>6, <1>10 DEF Replaced
<1>8. RunOK(new)
  <2>1. \A k \in 1 .. Len(new.pending) : new.pending[k] = Batches[b][0 + k]
    BY <1>4, <1>5, <1>6
  <2> QED
    BY <1>2, <1>4, <1>5, <1>6, <1>7, <2>1 DEF RunOK
<1>9. AloneIsExact(r)'
  <2>1. \A q \in Ingests \ {r} : ingest'[q] = ingest[q]
    BY <1>10
  <2>2. \A a \in DOMAIN Batches : \A k \in DOMAIN Batches[a] : Done(new, a, k) => Done(ingest[r], a, k)
    BY <1>5, <1>6, <1>7, BatchTypes DEF Done
  <2>3. \A a \in DOMAIN Batches : \A k \in DOMAIN Batches[a] : Done(ingest[r], a, k)' => Done(ingest[r], a, k)
    BY <1>7, <2>2 DEF Done, Working, Replaced
  <2>4. \A a \in DOMAIN Batches : \A k \in DOMAIN Batches[a] : \A c \in Batches[a][k] : (rows[c] = grid[c])' <=> rows[c] = grid[c]
    BY <1>2
  <2> QED
    BY <1>1, <1>2, <1>5, <1>6, <1>7, <2>1, <2>3 DEF AloneIsExact
<1> QED
  BY <1>1, <1>2, <1>6, <1>8, <1>9, <1>10, ActiveMoves DEF IngestInv, Idling

\* It fetches its batch, at last or once more.
LEMMA FetchAgainKeeps ==
  ASSUME IngestInv, NEW r \in Ingests, FetchAgain(r)
  PROVE  IngestInv'
<1> DEFINE n == ingest[r].attempt + 1
           new == [ingest[r] EXCEPT !.attempt = n]
<1>1. /\ ingest \in [Ingests -> Ingest] /\ RunOK(ingest[r]) /\ AloneIsExact(r)
      /\ rows \in [Cells -> CellValues]
  BY DEF IngestInv, IngestTypeOK
<1>2. /\ ingest[r].stage = "fetching" /\ ingest[r].attempt < MaxRetries
      /\ UNCHANGED <<grid, changes, rows>>
      /\ ingest' = [ingest EXCEPT ![r].attempt = @ + 1]
  BY DEF FetchAgain
<1>3. n \in 0 .. MaxRetries
  BY <1>1, <1>2, IngestAssumption DEF Ingest
<1>4. ingest' = [ingest EXCEPT ![r] = new]
  BY <1>1, <1>2
<1> HIDE DEF n
<1>5. /\ new \in Ingest /\ new.stage = "fetching" /\ new.batch = ingest[r].batch
      /\ new.undisturbed = ingest[r].undisturbed
  BY <1>1, <1>2, <1>3 DEF Ingest
<1> HIDE DEF new
<1>6. RunOK(new)
  BY <1>1, <1>2, <1>5 DEF RunOK, Working
<1>7. /\ ingest'[r] = new /\ \A q \in Ingests \ {r} : ingest'[q] = ingest[q]
      /\ ingest' = [q \in Ingests |-> ingest'[q]] /\ OthersWait(r)
  BY <1>1, <1>4, OnlyOneMoves
<1>8. AloneIsExact(r)'
  BY <1>1, <1>2, <1>5, <1>7 DEF AloneIsExact, Done, Working
<1> QED
  BY <1>1, <1>2, <1>5, <1>6, <1>7, <1>8, ActiveMoves DEF IngestInv, Idling

\* It fails, and the others are alone again.
LEMMA IngestFailsKeeps ==
  ASSUME IngestInv, NEW r \in Ingests, IngestFails(r)
  PROVE  IngestInv'
<1>1. /\ ingest \in [Ingests -> Ingest] /\ RunOK(ingest[r]) /\ AloneIsExact(r)
      /\ rows \in [Cells -> CellValues]
  BY DEF IngestInv, IngestTypeOK
<1>2. /\ ingest[r].stage \notin Idling /\ UNCHANGED <<grid, changes, rows>>
      /\ ingest' = [ingest EXCEPT ![r].stage = "failed", ![r].deleted = {}]
  BY DEF IngestFails, Idling
<1> DEFINE new == [ingest[r] EXCEPT !.stage = "failed", !.deleted = {}]
<1>3. new \in Ingest /\ new.stage = "failed" /\ new.undisturbed = ingest[r].undisturbed
  BY <1>1 DEF Ingest
<1>4. ingest' = [ingest EXCEPT ![r] = new]
  BY <1>1, <1>2
<1> HIDE DEF new
<1>5. RunOK(new)
  BY <1>3 DEF RunOK, Working
<1>6. /\ ingest'[r] = new /\ \A q \in Ingests \ {r} : ingest'[q] = ingest[q]
      /\ ingest' = [q \in Ingests |-> ingest'[q]] /\ OthersWait(r)
  BY <1>1, <1>4, OnlyOneMoves
<1>7. AloneIsExact(r)'
  BY <1>1, <1>3, <1>6 DEF AloneIsExact, Working
<1> QED
  BY <1>1, <1>2, <1>3, <1>5, <1>6, <1>7, ActiveMoves DEF IngestInv

\* The delete finds what a range has.
LEMMA RangeDeleteStartsKeeps ==
  ASSUME IngestInv, NEW r \in Ingests, RangeDeleteStarts(r)
  PROVE  IngestInv'
<1> DEFINE gone == {c \in ingest[r].pending[1] : rows[c] # Empty}
           new == [ingest[r] EXCEPT !.stage = "deleting", !.deleted = gone]
<1>1. /\ ingest \in [Ingests -> Ingest] /\ RunOK(ingest[r]) /\ AloneIsExact(r)
      /\ rows \in [Cells -> CellValues]
  BY DEF IngestInv, IngestTypeOK
<1>2. /\ ingest[r].stage = "replacing" /\ UNCHANGED <<grid, changes, rows>>
      /\ ingest' = [ingest EXCEPT ![r].stage = "deleting", ![r].deleted = gone]
  BY DEF RangeDeleteStarts, CurrentRange
<1>3. gone \in SUBSET Cells
  BY <1>1, <1>2, RangeOfBatch, BatchTypes DEF Working
<1>4. gone = {c \in ingest[r].pending[1] : rows[c] # Empty}
  OBVIOUS
<1>5. ingest' = [ingest EXCEPT ![r] = new]
  BY <1>1, <1>2
<1> HIDE DEF gone
<1>6. /\ new \in Ingest /\ new.stage = "deleting" /\ new.deleted = gone /\ new.batch = ingest[r].batch
      /\ new.pending = ingest[r].pending /\ new.values = ingest[r].values
      /\ new.undisturbed = ingest[r].undisturbed
  BY <1>1, <1>3 DEF Ingest
<1> HIDE DEF new
<1>7. RunOK(new)
  BY <1>1, <1>2, <1>6 DEF RunOK, Working, Replaced
<1>8. /\ ingest'[r] = new /\ \A q \in Ingests \ {r} : ingest'[q] = ingest[q]
      /\ ingest' = [q \in Ingests |-> ingest'[q]] /\ OthersWait(r)
  BY <1>1, <1>5, OnlyOneMoves
<1>9. AloneIsExact(r)'
  <2>1. \A b, k : Done(new, b, k) => Done(ingest[r], b, k)
    BY <1>2, <1>6 DEF Done, Working, Replaced
  <2>2. \A b, k : Done(ingest[r], b, k)' => Done(ingest[r], b, k)
    BY <1>8, <2>1 DEF Done, Working, Replaced
  <2> QED
    <3>1. AloneIsExact(r)
      BY <1>1
    <3>2. new.undisturbed => \A q \in Ingests \ {r} : ingest'[q].stage \in Idling
      BY <1>6, <1>8, <3>1 DEF AloneIsExact
    <3>3. new.undisturbed => new.values = grid'
      BY <1>2, <1>6, <3>1 DEF AloneIsExact, Working
    <3>4. new.deleted = {c \in new.pending[1] : rows'[c] # Empty}
      BY <1>2, <1>4, <1>6
    <3>5. new.undisturbed => \A b \in DOMAIN Batches : \A k \in DOMAIN Batches[b] :
             Done(ingest[r], b, k)' => \A c \in Batches[b][k] : rows'[c] = grid'[c]
      BY <1>2, <1>6, <2>2, <3>1 DEF AloneIsExact
    <3> QED
      BY <1>8, <3>2, <3>3, <3>4, <3>5 DEF AloneIsExact
<1> QED
  BY <1>1, <1>2, <1>6, <1>7, <1>8, <1>9, ActiveMoves DEF IngestInv, Idling

\* It has waited for those other transactions deleted.
LEMMA RangeDeleteEndsKeeps ==
  ASSUME IngestInv, NEW r \in Ingests, RangeDeleteEnds(r)
  PROVE  IngestInv'
<1> DEFINE new == [ingest[r] EXCEPT !.stage = "inserting"]
<1>1. /\ ingest \in [Ingests -> Ingest] /\ RunOK(ingest[r]) /\ AloneIsExact(r)
      /\ rows \in [Cells -> CellValues]
  BY DEF IngestInv, IngestTypeOK
<1>2. /\ ingest[r].stage = "deleting" /\ UNCHANGED <<grid, changes, rows>>
      /\ ingest' = [ingest EXCEPT ![r].stage = "inserting"]
  BY DEF RangeDeleteEnds
<1>3. ingest' = [ingest EXCEPT ![r] = new]
  BY <1>1, <1>2
<1>4. /\ new \in Ingest /\ new.stage = "inserting" /\ new.deleted = ingest[r].deleted
      /\ new.batch = ingest[r].batch /\ new.pending = ingest[r].pending
      /\ new.values = ingest[r].values /\ new.undisturbed = ingest[r].undisturbed
  BY <1>1 DEF Ingest
<1> HIDE DEF new
<1>5. RunOK(new)
  BY <1>1, <1>2, <1>4 DEF RunOK, Working, Replaced
<1>6. /\ ingest'[r] = new /\ \A q \in Ingests \ {r} : ingest'[q] = ingest[q]
      /\ ingest' = [q \in Ingests |-> ingest'[q]] /\ OthersWait(r)
  BY <1>1, <1>3, OnlyOneMoves
<1>7. \A b, k : Done(ingest[r], b, k)' => Done(ingest[r], b, k)
  BY <1>2, <1>4, <1>6 DEF Done, Working, Replaced
<1>8. AloneIsExact(r)'
  BY <1>1, <1>2, <1>4, <1>6, <1>7 DEF AloneIsExact, Working
<1> QED
  BY <1>1, <1>2, <1>4, <1>5, <1>6, <1>8, ActiveMoves DEF IngestInv, Idling

\* What the transaction leaves in a range: the values, if the run is alone.
LEMMA TailOf ==
  ASSUME NEW S, NEW s \in Seq(S), s # <<>>
  PROVE  /\ Tail(s) \in Seq(S) /\ Len(s) \in Nat /\ Len(s) # 0
         /\ Len(Tail(s)) = Len(s) - 1
         /\ \A k \in 1 .. Len(Tail(s)) : Tail(s)[k] = s[k + 1]
         /\ Tail(s) = <<>> <=> Len(Tail(s)) = 0
<1>1. Tail(s) \in Seq(S) /\ Len(Tail(s)) = Len(s) - 1
  BY HeadTailProperties
<1>2. \A k \in 1 .. Len(Tail(s)) : Tail(s)[k] = s[k + 1]
  BY HeadTailProperties
<1> QED
  BY <1>1, <1>2, EmptySeq

\* It inserts what it has fetched, and commits.
LEMMA InsertCellsKeeps ==
  ASSUME IngestInv, NEW r \in Ingests, InsertCells(r)
  PROVE  IngestInv'
<1> DEFINE old == ingest[r]
           range == old.pending[1]
           inserted == {c \in range : old.values[c] # Empty}
           tail == Tail(old.pending)
           run == [old EXCEPT !.pending = tail]
<1>1. /\ ingest \in [Ingests -> Ingest] /\ RunOK(old) /\ AloneIsExact(r)
      /\ rows \in [Cells -> CellValues] /\ old \in Ingest
  BY DEF IngestInv, IngestTypeOK
<1>2. /\ old.stage = "inserting" /\ Working(old) /\ UNCHANGED <<grid, changes>>
      /\ ingest' = Committed(r)
      /\ rows' = [c \in Cells |-> IF c \in inserted THEN old.values[c]
                                  ELSE IF c \in old.deleted THEN Empty
                                  ELSE rows[c]]
  BY DEF InsertCells, CurrentRange, Working
<1>3. /\ old.batch \in DOMAIN Batches /\ Replaced(old) + 1 \in DOMAIN Batches[old.batch]
      /\ range = Batches[old.batch][Replaced(old) + 1] /\ range \subseteq Configured
      /\ Replaced(old) \in Nat
  BY <1>1, <1>2, RangeOfBatch
<1>4. /\ Len(old.pending) # 0
      /\ tail \in Seq(SUBSET Cells) /\ Len(tail) = Len(old.pending) - 1 /\ Len(old.pending) \in Nat
      /\ \A k \in 1 .. Len(tail) : tail[k] = old.pending[k + 1]
      /\ tail = <<>> <=> Len(tail) = 0
  <2>1. old.pending \in Seq(SUBSET Cells) /\ old.pending # <<>>
    BY <1>1, <1>2 DEF RunOK, Ingest
  <2> QED
    BY <2>1, TailOf
<1>5. rows' \in [Cells -> CellValues] /\ \A c \in Cells \ Configured : rows'[c] = Empty
  BY <1>1, <1>2, <1>3 DEF IngestInv, Ingest, CellValues
<1> HIDE DEF tail
<1>6. /\ run \in Ingest /\ run.batch = old.batch /\ run.pending = tail /\ run.values = old.values
      /\ run.undisturbed = old.undisturbed
  BY <1>1, <1>4 DEF Ingest
<1> HIDE DEF run
<1>7. old.batch <= Len(Batches) /\ old.batch \in Nat /\ Len(Batches) \in Nat
  BY <1>3, BatchTypes
<1>8. PICK new \in Ingest :
        /\ InBatch(run) = new
        /\ new.values = old.values /\ new.undisturbed = old.undisturbed /\ new.pending = tail
        /\ tail # <<>> => new.stage = "replacing" /\ new.batch = old.batch
        /\ tail = <<>> => /\ new.batch = old.batch + 1
                         /\ new.stage = IF old.batch < Len(Batches) THEN "fetching" ELSE "ended"
  BY <1>6, <1>7, InBatchMoves
<1>9. tail # <<>> => Replaced(new) = Replaced(old) + 1
  <2>1. CASE tail # <<>>
    <3>1. PICK n \in Nat, m \in Nat : n = Len(Batches[old.batch]) /\ m = Len(old.pending)
      BY <1>3, <1>4, BatchTypes
    <3> QED
      <4>1. new.batch = old.batch /\ Len(new.pending) = m - 1
        BY <1>4, <1>8, <2>1, <3>1
      <4> QED
        BY <3>1, <4>1 DEF Replaced
  <2> QED
    BY <2>1
<1>10. RunOK(new)
  <2>1. CASE tail = <<>>
    <3>1. ~ Working(new) /\ new.stage \in {"fetching", "ended"}
      BY <1>7, <1>8, <2>1 DEF Working
    <3> QED
      BY <1>7, <1>8, <2>1, <3>1 DEF RunOK
  <2>2. CASE tail # <<>>
    <3>1. Working(new) /\ new.stage = "replacing" /\ new.batch = old.batch /\ new.pending = tail
      BY <1>8, <2>2 DEF Working
    <3>2. Len(tail) <= Len(Batches[old.batch])
      BY <1>1, <1>2, <1>3, <1>4, BatchTypes DEF RunOK
    <3>3. ASSUME NEW k \in 1 .. Len(tail) PROVE tail[k] = Batches[old.batch][Replaced(new) + k]
      <4>1. k + 1 \in 1 .. Len(old.pending) /\ tail[k] = old.pending[k + 1]
        BY <1>4
      <4>2. old.pending[k + 1] = Batches[old.batch][Replaced(old) + (k + 1)]
        BY <1>1, <1>2, <4>1 DEF RunOK
      <4>3. Replaced(old) + (k + 1) = Replaced(new) + k
        BY <1>3, <1>4, <1>9, <2>2
      <4> QED
        BY <4>1, <4>2, <4>3
    <3> QED
      BY <1>7, <2>2, <3>1, <3>2, <3>3 DEF RunOK
  <2> QED
    BY <2>1, <2>2
<1>11. /\ ingest'[r] = new /\ ingest' = [q \in Ingests |-> ingest'[q]] /\ OthersWait(r)
       /\ \A q \in Ingests \ {r} : ingest'[q].stage = ingest[q].stage
  <2>1. ingest' = [q \in Ingests |-> IF q = r THEN new
                                     ELSE [ingest[q] EXCEPT !.deleted = @ \ old.deleted]]
    BY <1>2, <1>8 DEF Committed, run, tail
  <2>2. ASSUME NEW q \in Ingests \ {r}
        PROVE  \E gone \in SUBSET Cells : ingest'[q] = [ingest[q] EXCEPT !.deleted = gone]
    <3>1. ingest[q] \in Ingest
      BY <1>1
    <3>2. ingest[q].deleted \ old.deleted \in SUBSET Cells
      BY <3>1 DEF Ingest
    <3>3. ingest'[q] = [ingest[q] EXCEPT !.deleted = ingest[q].deleted \ old.deleted]
      BY <2>1
    <3> QED
      BY <3>2, <3>3
  <2>3. OthersWait(r)
    BY <2>2 DEF OthersWait
  <2> QED
    BY <1>1, <2>1, <2>3, OthersKeep
<1>12. ASSUME old.undisturbed
       PROVE  /\ \A c \in range : rows'[c] = grid[c]
              /\ \A c \in Cells \ range : rows'[c] = rows[c]
  <2>1. old.values = grid /\ old.deleted = {c \in range : rows[c] # Empty}
    BY <1>1, <1>2, <1>12 DEF AloneIsExact
  <2>2. range \subseteq Cells
    BY <1>3, BatchTypes
  <2> QED
    BY <1>1, <1>2, <2>1, <2>2
<1>13. ASSUME NEW b \in DOMAIN Batches, NEW k \in DOMAIN Batches[b], Done(new, b, k)
       PROVE  Done(old, b, k) \/ (b = old.batch /\ k = Replaced(old) + 1)
  <2>1. b \in Nat /\ k \in Nat /\ k <= Len(Batches[b])
    BY BatchTypes
  <2>2. CASE tail # <<>>
    BY <1>2, <1>3, <1>7, <1>8, <1>9, <1>13, <2>1, <2>2 DEF Done
  <2>3. CASE tail = <<>>
    <3>1. Len(old.pending) = 1
      BY <1>4, <2>3
    <3>2. Replaced(old) + 1 = Len(Batches[old.batch])
      BY <1>3, <3>1, BatchTypes DEF Replaced
    <3>3. ~ Working(new) /\ new.batch = old.batch + 1
      BY <1>8, <2>3 DEF Working
    <3>4. b <= old.batch
      BY <1>7, <1>13, <2>1, <3>3 DEF Done
    <3> QED
      BY <1>2, <1>3, <1>7, <2>1, <3>2, <3>4 DEF Done
  <2> QED
    BY <2>2, <2>3
<1>14. AloneIsExact(r)'
  <2>1. ASSUME old.undisturbed, NEW b \in DOMAIN Batches, NEW k \in DOMAIN Batches[b], Done(new, b, k),
               NEW c \in Batches[b][k]
        PROVE  rows'[c] = grid[c]
    <3>1. c \in Cells
      BY BatchTypes
    <3>2. CASE c \in range
      BY <1>12, <2>1, <3>2
    <3>3. CASE c \notin range
      <4>1. Done(old, b, k)
        BY <1>3, <1>13, <2>1, <3>3
      <4> QED
        BY <1>1, <1>2, <1>12, <2>1, <3>1, <3>3, <4>1 DEF AloneIsExact
    <3> QED
      BY <3>2, <3>3
  <2>2. \A b, k : Done(ingest[r], b, k)' => Done(new, b, k)
    BY <1>11 DEF Done, Working, Replaced
  <2>3. new.stage \notin {"deleting", "inserting"}
    BY <1>8
  <2> QED
    <3>1. AloneIsExact(r)
      BY <1>1
    <3>2. new.undisturbed => \A q \in Ingests \ {r} : ingest'[q].stage \in Idling
      BY <1>8, <1>11, <3>1 DEF AloneIsExact
    <3>3. new.undisturbed => new.values = grid'
      BY <1>2, <1>8, <3>1 DEF AloneIsExact
    <3>5. new.undisturbed => \A b \in DOMAIN Batches : \A k \in DOMAIN Batches[b] :
             Done(ingest[r], b, k)' => \A c \in Batches[b][k] : rows'[c] = grid'[c]
      BY <1>2, <1>8, <2>1, <2>2
    <3> QED
      BY <1>11, <2>3, <3>2, <3>3, <3>5 DEF AloneIsExact
<1> QED
  BY <1>2, <1>5, <1>8, <1>10, <1>11, <1>14, ActiveMoves DEF Idling

\* Every step preserves the invariant.
LEMMA IngestInvNext == IngestInv /\ [IngestNext]_ingestVars => IngestInv'
<1> SUFFICES ASSUME IngestInv, [IngestNext]_ingestVars PROVE IngestInv'
  OBVIOUS
<1>1. CASE UNCHANGED ingestVars
  <2>1. UNCHANGED <<grid, changes, rows, ingest>>
    BY <1>1 DEF ingestVars
  <2>2. IngestTypeOK'
    BY <2>1 DEF IngestInv, IngestTypeOK
  <2>3. ASSUME NEW r \in Ingests PROVE RunOK(ingest[r])' /\ AloneIsExact(r)'
    <3>1. RunOK(ingest[r])'
      BY <2>1 DEF IngestInv, RunOK, Working, Replaced
    <3>2. \A b, k : Done(ingest[r], b, k)' = Done(ingest[r], b, k)
      BY <2>1 DEF Done, Working, Replaced
    <3>3. AloneIsExact(r)'
      BY <2>1, <3>2 DEF IngestInv, AloneIsExact, Working
    <3> QED
      BY <3>1, <3>3
  <2> QED
    BY <2>1, <2>2, <2>3 DEF IngestInv
<1>2. CASE IngestNext
  BY <1>2, EditCellKeeps, BeginIngestKeeps, FetchBatchKeeps, FetchAgainKeeps, IngestFailsKeeps,
     RangeDeleteStartsKeeps, RangeDeleteEndsKeeps, InsertCellsKeeps DEF IngestNext
<1> QED
  BY <1>1, <1>2

\* For any sheet, batches, retries and number of runs: the invariant.
THEOREM IngestInvariant == IngestSpec => []IngestInv
BY IngestInvInit, IngestInvNext, PTL DEF IngestSpec

\* IngestedExactly: a run nobody disturbed leaves the sheet in the table.
THEOREM SheetsAreIngestedExactly == IngestSpec => []IngestedExactly
<1>1. IngestInv => IngestedExactly
  <2> SUFFICES ASSUME IngestInv PROVE IngestedExactly
    OBVIOUS
  <2>1. ASSUME NEW r \in Ingests, ingest[r].stage = "ended", ingest[r].undisturbed, NEW c \in Configured
        PROVE  rows[c] = grid[c]
    <3>4. PICK b \in DOMAIN Batches : \E k \in DOMAIN Batches[b] : c \in Batches[b][k]
      BY DEF Configured
    <3>1. PICK k \in DOMAIN Batches[b] : c \in Batches[b][k]
      BY <3>4
    <3>2. RunOK(ingest[r]) /\ AloneIsExact(r)
      BY DEF IngestInv
    <3>3. Done(ingest[r], b, k)
      BY <2>1, <3>2, BatchTypes DEF RunOK, Done
    <3> QED
      BY <2>1, <3>1, <3>2, <3>3 DEF AloneIsExact
  <2> QED
    BY <2>1 DEF IngestInv, IngestedExactly
<1> QED
  BY <1>1, IngestInvariant, PTL

-----------------------------------------------------------------------------
(* ParseOverlap: parse runs that overlap.                                  *)

\* A run no other one overlaps is the only one in a transaction; the dates it
\* found are those of the table, and it deletes all there is.
AloneKnows(p) ==
  parsing[p].alone =>
    /\ InTransaction(p)
    /\ \A q \in Parsers \ {p} : ~ InTransaction(q)
    /\ parsing[p].stage = "dated" => parsing[p].dates = DatesOf(stored)
    /\ parsing[p].stage \in {"deleting", "deleted", "inserted"} => parsing[p].target = LinesOf(stored)

\* Where a run is.
ParseStages == {"idle", "read", "dated", "deleting", "deleted", "inserted"}

\* A run of parse.
ParseRecord == [stage : ParseStages, lines : Content, dates : SUBSET WorkDates,
                target : SUBSET SheetCells, alone : BOOLEAN]

\* The inductive invariant.
OverlapInv ==
  /\ OverlapTypeOK
  /\ \A p \in Parsers : AloneKnows(p)

\* A run that has not begun.
LEMMA IdleRecord == IdleParse \in ParseRecord /\ IdleParse.stage = "idle" /\ IdleParse.alone = FALSE
BY DEF IdleParse, ParseRecord, ParseStages, Content

\* The changes a step makes to a run, and the type and the fields they leave.
LEMMA ReadEdit ==
  ASSUME NEW content \in Content, NEW y, y = [IdleParse EXCEPT !.stage = "read", !.lines = content]
  PROVE  y \in ParseRecord /\ y.stage = "read" /\ y.alone = FALSE
BY IdleRecord DEF ParseRecord, ParseStages

\* At first no run has begun.
LEMMA OverlapInvInit == OverlapInit => OverlapInv
BY IdleRecord, ParseOverlapAssumption
   DEF OverlapInit, OverlapInv, OverlapTypeOK, AloneKnows, ParseRecord, ParseStages, Content

\* The types, in these terms.
LEMMA OverlapTyped == OverlapTypeOK <=> /\ lines \in Content /\ stored \in Content
                                        /\ parsing \in [Parsers -> ParseRecord]
                                        /\ ingests \in 0 .. MaxIngests
BY DEF OverlapTypeOK, ParseRecord, ParseStages

\* A step that changes nothing but one run.
LEMMA OneRunMoves ==
  ASSUME OverlapInv, NEW p \in Parsers, NEW new \in ParseRecord,
         parsing' = [parsing EXCEPT ![p] = new], UNCHANGED <<lines, stored, ingests>>,
         new.stage \notin {"idle", "read"} => InTransaction(p),
         new.alone => /\ parsing[p].alone /\ InTransaction(p) /\ new.stage \notin {"idle", "read"}
                      /\ new.stage = "dated" => new.dates = DatesOf(stored)
                      /\ new.stage \in {"deleting", "deleted", "inserted"} => new.target = LinesOf(stored)
  PROVE  OverlapInv'
<1>1. parsing \in [Parsers -> ParseRecord]
  BY OverlapTyped DEF OverlapInv
<1>2. OverlapTypeOK'
  BY <1>1, OverlapTyped DEF OverlapInv, OverlapTypeOK, ParseRecord, ParseStages
<1>3. \A q \in Parsers : parsing'[q] = IF q = p THEN new ELSE parsing[q]
  BY <1>1
<1>4. DatesOf(stored') = DatesOf(stored) /\ LinesOf(stored') = LinesOf(stored)
  OBVIOUS
<1>5. ASSUME NEW q \in Parsers PROVE AloneKnows(q)'
  <2>1. AloneKnows(q) /\ AloneKnows(p)
    BY DEF OverlapInv
  <2>2. CASE q = p
    BY <1>3, <1>4, <2>1, <2>2 DEF AloneKnows, InTransaction
  <2>3. CASE q # p
    BY <1>3, <1>4, <2>1, <2>3 DEF AloneKnows, InTransaction
  <2> QED
    BY <2>2, <2>3
<1> QED
  BY <1>2, <1>5 DEF OverlapInv

\* Every step preserves the invariant.
LEMMA OverlapInvNext == OverlapInv /\ [OverlapNext]_overlapVars => OverlapInv'
<1> SUFFICES ASSUME OverlapInv, [OverlapNext]_overlapVars PROVE OverlapInv'
  OBVIOUS
<1>0. parsing \in [Parsers -> ParseRecord] /\ lines \in Content /\ stored \in Content
  BY OverlapTyped DEF OverlapInv
<1>1. CASE UNCHANGED overlapVars
  BY <1>1 DEF overlapVars, OverlapInv, OverlapTypeOK, AloneKnows, InTransaction
<1>2. CASE IngestSheet
  BY <1>2, ParseOverlapAssumption DEF IngestSheet, OverlapInv, OverlapTypeOK, AloneKnows, InTransaction
<1>3. ASSUME NEW p \in Parsers, ReadSheet(p) PROVE OverlapInv'
  <2> DEFINE new == [IdleParse EXCEPT !.stage = "read", !.lines = lines]
  <2>1. new \in ParseRecord /\ new.stage = "read" /\ new.alone = FALSE
    BY <1>0, ReadEdit
  <2>2. parsing' = [parsing EXCEPT ![p] = new] /\ UNCHANGED <<lines, stored, ingests>>
    BY <1>3 DEF ReadSheet
  <2> HIDE DEF new
  <2> QED
    BY <2>1, <2>2, OneRunMoves
<1>4. ASSUME NEW p \in Parsers, ReadDates(p) PROVE OverlapInv'
  <2> DEFINE others == {q \in Parsers \ {p} : InTransaction(q)}
             alone == (others = {})
             dates == DatesOf(stored)
             new == [parsing[p] EXCEPT !.stage = "dated", !.dates = dates, !.alone = alone]
  <2>1. DatesOf(stored) \in SUBSET WorkDates
    BY <1>0 DEF DatesOf, LinesOf, Content
  <2>2. new \in ParseRecord /\ new.stage = "dated" /\ new.dates = DatesOf(stored) /\ new.alone = (others = {})
    <3>1. alone \in BOOLEAN /\ dates \in SUBSET WorkDates /\ parsing[p] \in ParseRecord
      BY <1>0, <2>1
    <3> HIDE DEF alone, dates
    <3>2. new \in ParseRecord /\ new.stage = "dated" /\ new.dates = dates /\ new.alone = alone
      BY ONLY <3>1 DEF ParseRecord, ParseStages
    <3> QED
      BY <3>2 DEF alone, dates
  <2>3. /\ parsing' = [q \in Parsers |-> IF q = p THEN new ELSE [parsing[q] EXCEPT !.alone = FALSE]]
        /\ UNCHANGED <<lines, stored, ingests>>
    BY <1>4 DEF ReadDates
  <2>4. new.alone => \A q \in Parsers \ {p} : ~ InTransaction(q)
    BY <2>2
  <2> HIDE DEF new, others
  <2>5. \A q \in Parsers \ {p} : /\ parsing'[q] \in ParseRecord /\ parsing'[q].alone = FALSE
                                 /\ parsing'[q].stage = parsing[q].stage
    BY <1>0, <2>3 DEF ParseRecord
  <2>6. OverlapTypeOK'
    BY <2>2, <2>3, <2>5, OverlapTyped DEF OverlapInv, OverlapTypeOK, ParseRecord, ParseStages
  <2>7. ASSUME NEW q \in Parsers PROVE AloneKnows(q)'
    BY <2>2, <2>3, <2>4, <2>5 DEF AloneKnows, InTransaction, DatesOf, LinesOf
  <2> QED
    BY <2>6, <2>7 DEF OverlapInv
<1>5. ASSUME NEW p \in Parsers, DeleteStarts(p) PROVE OverlapInv'
  <2> DEFINE new == [parsing[p] EXCEPT !.stage = "deleting", !.target = Scope(p)]
  <2>1. Scope(p) \in SUBSET SheetCells
    BY DEF Scope, LinesOf
  <2>2. /\ new \in ParseRecord /\ new.stage = "deleting" /\ new.target = Scope(p)
        /\ new.alone = parsing[p].alone
    BY <1>0, <2>1 DEF ParseRecord, ParseStages
  <2>3. /\ parsing' = [parsing EXCEPT ![p] = new] /\ UNCHANGED <<lines, stored, ingests>>
        /\ parsing[p].stage = "dated"
    BY <1>0, <1>5 DEF DeleteStarts, ParseRecord
  <2>4. parsing[p].alone => Scope(p) = LinesOf(stored)
    <3>1. parsing[p].alone => parsing[p].dates = DatesOf(stored)
      BY <2>3 DEF OverlapInv, AloneKnows
    <3> QED
      BY <3>1 DEF Scope, DatesOf
  <2> HIDE DEF new
  <2> QED
    BY <2>2, <2>3, <2>4, OneRunMoves DEF InTransaction
<1>6. ASSUME NEW p \in Parsers, NEW stage \in {"deleted", "inserted"},
             parsing[p].stage \in {"deleting", "deleted"},
             parsing' = [parsing EXCEPT ![p].stage = stage], UNCHANGED <<lines, stored, ingests>>
      PROVE  OverlapInv'
  <2> DEFINE new == [parsing[p] EXCEPT !.stage = stage]
  <2>1. /\ new \in ParseRecord /\ new.stage = stage /\ new.target = parsing[p].target
        /\ new.alone = parsing[p].alone
    BY <1>0 DEF ParseRecord, ParseStages
  <2>2. parsing' = [parsing EXCEPT ![p] = new]
    BY <1>0, <1>6 DEF ParseRecord
  <2>3. InTransaction(p) /\ (parsing[p].alone => parsing[p].target = LinesOf(stored))
    BY <1>6 DEF InTransaction, OverlapInv, AloneKnows
  <2> HIDE DEF new
  <2> QED
    BY <1>6, <2>1, <2>2, <2>3, OneRunMoves
<1>7. ASSUME NEW p \in Parsers, InsertRejected(p) \/ ParseAborts(p) PROVE OverlapInv'
  BY <1>7, IdleRecord, OneRunMoves DEF InsertRejected, ParseAborts
<1>8. ASSUME NEW p \in Parsers, CommitRows(p) PROVE OverlapInv'
  <2>1. /\ parsing[p].stage = "inserted" /\ stored' = Refreshed(p) /\ UNCHANGED <<lines, ingests>>
        /\ parsing' = [q \in Parsers |-> IF q = p THEN IdleParse
                                         ELSE [parsing[q] EXCEPT !.target = @ \ parsing[p].target]]
    BY <1>8 DEF CommitRows
  <2>2. stored' \in Content
    BY <1>0, <2>1 DEF Refreshed, Content, ParseRecord
  <2>3. \A q \in Parsers \ {p} : /\ parsing'[q] \in ParseRecord /\ parsing'[q].alone = parsing[q].alone
                                 /\ parsing'[q].stage = parsing[q].stage
    BY <1>0, <2>1 DEF ParseRecord
  <2>4. OverlapTypeOK'
    BY <2>1, <2>2, <2>3, IdleRecord, OverlapTyped DEF OverlapInv, OverlapTypeOK, ParseRecord, ParseStages
  <2>5. ASSUME NEW q \in Parsers PROVE AloneKnows(q)'
    <3>1. CASE q = p
      BY <2>1, <3>1, IdleRecord DEF AloneKnows
    <3>2. CASE q # p
      <4>1. InTransaction(p) /\ AloneKnows(q)
        BY <2>1 DEF InTransaction, OverlapInv
      <4>2. ~ parsing[q].alone
        BY <3>2, <4>1 DEF AloneKnows
      <4> QED
        BY <2>3, <3>2, <4>2 DEF AloneKnows
    <3> QED
      BY <3>1, <3>2
  <2> QED
    BY <2>4, <2>5 DEF OverlapInv
<1>9. ASSUME NEW p \in Parsers, DeleteEnds(p) \/ InsertRows(p) PROVE OverlapInv'
  BY <1>6, <1>9 DEF DeleteEnds, InsertRows
<1> QED
  BY <1>1, <1>2, <1>3, <1>4, <1>5, <1>7, <1>8, <1>9 DEF OverlapNext

\* For any sheet and number of runs: the invariant.
THEOREM OverlapInvariant == OverlapSpec => []OverlapInv
BY OverlapInvInit, OverlapInvNext, PTL DEF OverlapSpec

\* No step loses a line, and a run alone leaves what it read.
LEMMA StepsHeal == OverlapInv /\ [OverlapNext]_overlapVars => [Heals]_overlapVars
<1> SUFFICES ASSUME OverlapInv, OverlapNext PROVE Heals
  OBVIOUS
<1>0. parsing \in [Parsers -> ParseRecord] /\ lines \in Content /\ stored \in Content
  BY OverlapTyped DEF OverlapInv
<1>1. stored' = stored \/ \E p \in Parsers : CommitRows(p)
  BY DEF OverlapNext, IngestSheet, ReadSheet, ReadDates, DeleteStarts, DeleteEnds, InsertRows,
         InsertRejected, ParseAborts
<1>2. ASSUME NEW c \in SheetCells, stored[c] # NoLine, stored[c] = lines[c],
             \A p \in Parsers : parsing[p].stage # "idle" => parsing[p].lines[c] = stored[c]
      PROVE  stored'[c] = stored[c]
  <2>1. ASSUME NEW p \in Parsers, CommitRows(p) PROVE stored'[c] = stored[c]
    BY <1>2, <2>1 DEF CommitRows, Refreshed
  <2> QED
    BY <1>1, <2>1
<1>3. ASSUME NEW p \in Parsers, CommitRows(p), parsing[p].alone
      PROVE  stored' = parsing[p].lines
  <2>1. stored' = Refreshed(p) /\ parsing[p].target = LinesOf(stored)
    BY <1>3 DEF CommitRows, OverlapInv, AloneKnows
  <2>2. parsing[p].lines \in Content
    BY <1>0 DEF ParseRecord
  <2>3. \A c \in SheetCells : Refreshed(p)[c] = parsing[p].lines[c]
    BY <1>0, <2>1 DEF Refreshed, LinesOf
  <2> QED
    BY <2>1, <2>2, <2>3 DEF Content, Refreshed
<1> QED
  BY <1>2, <1>3 DEF Heals

\* OverlapHeals: no line all runs know is lost, and a run no other overlaps
\* mends whatever mix it finds.
THEOREM RefreshesHeal == OverlapSpec => OverlapHeals
BY OverlapInvariant, StepsHeal, PTL DEF OverlapSpec, OverlapHeals

-----------------------------------------------------------------------------
(* Least elements.                                                         *)

\* A set of numbers has a least one.
LEMMA LeastNat ==
  ASSUME NEW T \in SUBSET Nat, T # {}
  PROVE  \E n \in T : \A m \in T : n <= m
<1>1. PICK n \in T : \A m \in T : <<m, n>> \notin OpToRel(<, Nat)
  BY NatLessThanWellFounded, WFMin
<1>2. \A m \in T : ~ (m < n)
  BY <1>1 DEF OpToRel
<1> QED
  BY <1>2

-----------------------------------------------------------------------------
(* WeeklyBoard: the lines of a sheet.                                      *)

\* What a block and the board give when fetched in a year.
YearIn(s, y) == IF YearCells(s) = {} THEN y ELSE yearAt[s + YearOffsets[Min(YearCells(s))]]

\* The cells a block gives.
CellsOf(s) == {b \in (s + HeaderOffset + 1 .. BlockEnd(s)) \X TaskColumns(s + HeaderOffset) : IsTask(b)}

\* What a cell of a block gives.
RowOf(s, y, c) ==
  [cell |-> c, week |-> first[s], year |-> YearIn(s, y),
   day |-> Cardinality({d \in TaskColumns(s + HeaderOffset) : d < c[2]})]

\* What a block gives.
RowsIn(s, y) == IF <<first[s], YearIn(s, y)>> \notin ValidWeek THEN {} ELSE {RowOf(s, y, c) : c \in CellsOf(s)}

\* What the board gives.
AllIn(y) == UNION {RowsIn(s, y) : s \in BlockStarts}

\* What was read last was read of these cells, the present or an earlier year.
ReadOfThese ==
  /\ layout = "empty" => emitted = {}
  /\ layout = "matrix" => emitted = MatrixRows
  /\ layout = "board" => emitted = AllIn(fetched)
  /\ layout = "none" => emitted = {} \/ emitted = MatrixRows \/ \E y \in BoardYears : emitted = AllIn(y)

\* The inductive invariant.
BoardInv == BoardTypeOK /\ ReadOfThese

-----------------------------------------------------------------------------
\* The rows of the model are these.
LEMMA BoardRowsAre == BoardRows = AllIn(fetched)
<1>1. \A s : WeekYear(s) = YearIn(s, fetched)
  BY DEF WeekYear, YearIn
<1>2. \A s : BlockRows(s) = RowsIn(s, fetched)
  BY <1>1, Zenon DEF BlockRows, RowsIn, RowOf, CellsOf
<1> QED
  BY <1>2 DEF BoardRows, AllIn

\* The library's minimum, of numbers.
LEMMA LeastOf ==
  ASSUME NEW T \in SUBSET Nat, T # {}
  PROVE  Min(T) \in T /\ \A m \in T : Min(T) <= m
BY LeastNat DEF Min

\* A block ends before the next one starts.
LEMMA BlockEnds ==
  ASSUME NEW s \in BlockStarts
  PROVE  /\ s \in 1 .. NRows /\ BlockEnd(s) \in Int /\ BlockEnd(s) <= NRows
         /\ \A t \in BlockStarts : t > s => BlockEnd(s) < t
         /\ \A r \in 1 .. NRows : r > BlockEnd(s) => \E t \in BlockStarts : s < t /\ t <= r
<1>1. NRows \in Nat /\ s \in 1 .. NRows /\ BlockStarts \subseteq 1 .. NRows
  BY WeeklyBoardAssumption DEF BlockStarts
<1>2. CASE StartsAfter(s) = {}
  BY <1>1, <1>2 DEF BlockEnd, StartsAfter
<1>3. CASE StartsAfter(s) # {}
  <2>1. StartsAfter(s) \in SUBSET Nat
    <3>1. \A r \in 1 .. NRows : r \in Nat
      OBVIOUS
    <3> QED
      BY <1>1, <3>1 DEF StartsAfter
  <2>2. PICK n \in Nat : n = Min(StartsAfter(s)) /\ n \in StartsAfter(s) /\ \A m \in StartsAfter(s) : n <= m
    BY <1>3, <2>1, LeastOf
  <2>3. BlockEnd(s) = n - 1
    BY <1>3, <2>2 DEF BlockEnd
  <2>4. n \in BlockStarts /\ n > s /\ n \in 1 .. NRows /\ \A t \in BlockStarts : t > s => n <= t
    BY <1>1, <2>2 DEF StartsAfter
  <2> QED
    BY <1>1, <2>2, <2>3, <2>4
<1> QED
  BY <1>2, <1>3

\* A row lies in one block.
LEMMA BlockOfOne ==
  ASSUME NEW r \in Int, NEW s \in BlockOf(r), NEW t \in BlockOf(r)
  PROVE  s = t
BY DEF BlockOf

\* It lies in the block between whose start and end it is.
LEMMA BlockOfIs ==
  ASSUME NEW r \in 1 .. NRows, NEW s
  PROVE  s \in BlockOf(r) <=> s \in BlockStarts /\ s <= r /\ r <= BlockEnd(s)
<1>0. NRows \in Nat
  BY WeeklyBoardAssumption
<1>1. s \in BlockOf(r) => s \in BlockStarts /\ s <= r
  BY <1>0 DEF BlockOf, BlockStarts
<1>2. ASSUME s \in BlockStarts, s <= r, r <= BlockEnd(s) PROVE s \in BlockOf(r)
  <2>1. s \in 1 .. r /\ first[s] \in Weeks
    BY <1>2 DEF BlockStarts
  <2>2. ASSUME NEW q \in s + 1 .. r PROVE first[q] \notin Weeks
    <3>1. q \in 1 .. NRows /\ q > s /\ q <= BlockEnd(s) /\ BlockEnd(s) \in Int
      BY <1>0, <1>2, <2>1, BlockEnds
    <3> QED
      BY <1>2, <3>1, BlockEnds DEF BlockStarts
  <2> QED
    BY <2>1, <2>2 DEF BlockOf
<1>3. ASSUME s \in BlockOf(r) PROVE r <= BlockEnd(s)
  <2>1. s \in BlockStarts /\ s \in 1 .. r /\ \A q \in s + 1 .. r : first[q] \notin Weeks
    BY <1>1, <1>3 DEF BlockOf
  <2>2. SUFFICES ASSUME r > BlockEnd(s) PROVE FALSE
    BY <2>1, BlockEnds
  <2>3. PICK t \in BlockStarts : s < t /\ t <= r
    BY <2>1, <2>2, BlockEnds
  <2>4. t \in s + 1 .. r /\ first[t] \in Weeks
    BY <2>1, <2>3 DEF BlockStarts
  <2> QED
    BY <2>1, <2>4
<1> QED
  BY <1>1, <1>2, <1>3

\* The day columns are columns.
LEMMA TaskColumnsAre ==
  ASSUME NEW header
  PROVE  TaskColumns(header) \subseteq Columns /\ Columns \subseteq Nat
BY WeeklyBoardAssumption DEF TaskColumns

\* The cells a block gives.
LEMMA CellsOfAre ==
  ASSUME NEW s \in BlockStarts, NEW c
  PROVE  c \in CellsOf(s) <=> /\ c \in Body /\ s \in BlockOf(c[1]) /\ c[1] > s + HeaderOffset
                              /\ IsTask(c) /\ c[2] \in TaskColumns(s + HeaderOffset)
<1>1. /\ NRows \in Nat /\ HeaderOffset \in Nat \ {0} /\ s \in 1 .. NRows /\ BlockEnd(s) \in Int
      /\ BlockEnd(s) <= NRows
  BY WeeklyBoardAssumption, BlockEnds
<1>2. PICK h \in Nat : h = s + HeaderOffset /\ h > s
  BY <1>1
<1> DEFINE days == TaskColumns(h)
<1>3. days \subseteq Columns
  BY TaskColumnsAre
<1> HIDE DEF days
<1>4. c \in CellsOf(s) <=> c \in (h + 1 .. BlockEnd(s)) \X days /\ IsTask(c)
  BY <1>2, Zenon DEF CellsOf, days
<1>5. c \in Body <=> c \in (1 .. NRows) \X Columns
  BY DEF Body
<1>6. ASSUME c \in (h + 1 .. BlockEnd(s)) \X days
      PROVE  c \in (1 .. NRows) \X Columns /\ c[1] > h /\ c[2] \in days /\ s \in BlockOf(c[1])
  <2>1. c[1] \in h + 1 .. BlockEnd(s) /\ c[2] \in days /\ c = <<c[1], c[2]>>
    BY <1>6
  <2>2. c[1] \in 1 .. NRows /\ c[2] \in Columns /\ c[1] > h /\ s <= c[1] /\ c[1] <= BlockEnd(s)
    BY <1>1, <1>2, <1>3, <2>1
  <2> QED
    BY <2>1, <2>2, BlockOfIs
<1>7. ASSUME c \in (1 .. NRows) \X Columns, c[1] > h, c[2] \in days, s \in BlockOf(c[1])
      PROVE  c \in (h + 1 .. BlockEnd(s)) \X days
  <2>1. c[1] \in 1 .. NRows /\ c = <<c[1], c[2]>>
    BY <1>7
  <2>2. c[1] <= BlockEnd(s)
    BY <1>7, <2>1, BlockOfIs
  <2> QED
    BY <1>1, <1>2, <1>7, <2>1, <2>2
<1> QED
  BY <1>2, <1>4, <1>5, <1>6, <1>7 DEF days

\* What is read of a block is a row of the board.
LEMMA RowsInTypes ==
  ASSUME BoardTypeOK, NEW s \in BlockStarts, NEW y \in BoardYears
  PROVE  RowsIn(s, y) \subseteq BoardRow /\ \A a \in RowsIn(s, y) : a.week = first[s] /\ a.cell \in CellsOf(s)
<1>1. first[s] \in Weeks
  BY DEF BlockStarts
<1>2. YearIn(s, y) \in Nat
  <2>1. CASE YearCells(s) = {}
    BY <2>1, WeeklyBoardAssumption DEF YearIn
  <2>2. CASE YearCells(s) # {}
    <3>1. DOMAIN YearOffsets \subseteq Nat /\ \A i \in DOMAIN YearOffsets : YearOffsets[i] \in Nat
      BY WeeklyBoardAssumption
    <3>2. YearCells(s) \in SUBSET Nat
      BY <3>1 DEF YearCells
    <3>3. PICK i \in YearCells(s) : i = Min(YearCells(s))
      BY <2>2, <3>2, LeastOf
    <3>4. i \in DOMAIN YearOffsets /\ s + YearOffsets[i] <= NRows
      BY DEF YearCells
    <3>5. s \in 1 .. NRows /\ NRows \in Nat
      BY WeeklyBoardAssumption DEF BlockStarts
    <3>6. s + YearOffsets[i] \in 1 .. NRows
      BY <3>1, <3>4, <3>5
    <3>7. yearAt[s + YearOffsets[i]] \in Nat
      <4>1. PICK r \in 1 .. NRows : r = s + YearOffsets[i]
        BY <3>6
      <4>2. BoardYears \union {0} \subseteq Nat
        BY WeeklyBoardAssumption
      <4>3. yearAt[r] \in BoardYears \union {0}
        BY DEF BoardTypeOK
      <4>4. yearAt[r] \in Nat
        BY <4>2, <4>3
      <4> QED
        BY <4>1, <4>4
    <3> QED
      BY <2>2, <3>3, <3>7 DEF YearIn
  <2> QED
    BY <2>1, <2>2
<1>3. ASSUME NEW c \in CellsOf(s)
      PROVE  RowOf(s, y, c) \in BoardRow /\ RowOf(s, y, c).week = first[s] /\ RowOf(s, y, c).cell = c
  <2> DEFINE before == {d \in TaskColumns(s + HeaderOffset) : d < c[2]}
             day == Cardinality(before)
             year == YearIn(s, y)
  <2>1. day \in Nat
    <3>1. before \subseteq Columns
      BY TaskColumnsAre
    <3>2. IsFiniteSet(before)
      BY <3>1, WeeklyBoardAssumption, FS_Subset
    <3> QED
      BY <3>2, FS_CardinalityType
  <2>2. c \in Body
    BY CellsOfAre
  <2>3. RowOf(s, y, c) = [cell |-> c, week |-> first[s], year |-> year, day |-> day]
    BY DEF RowOf
  <2>4. year \in Nat
    BY <1>2
  <2> HIDE DEF before, day, year
  <2> QED
    BY <1>1, <2>1, <2>2, <2>3, <2>4 DEF BoardRow
<1>4. \A a \in RowsIn(s, y) : \E c \in CellsOf(s) : a = RowOf(s, y, c)
  BY DEF RowsIn
<1> QED
  BY <1>3, <1>4

\* What the matrix gives are rows, one for a cell.
LEMMA MatrixRowsTypes ==
  ASSUME BoardTypeOK
  PROVE  MatrixRows \subseteq BoardRow /\ \A a, b \in MatrixRows : a.week = "matrix" /\ (a.cell = b.cell => a = b)
<1> DEFINE row(c) == [cell |-> c, week |-> "matrix", year |-> 0, day |-> c[2]]
<1>1. \A a \in MatrixRows : \E c \in Body : a = row(c)
  BY DEF MatrixRows
<1>2. ASSUME NEW c \in Body PROVE row(c) \in BoardRow /\ row(c).week = "matrix" /\ row(c).cell = c
  <2>1. c[2] \in Nat
    BY WeeklyBoardAssumption DEF Body
  <2> QED
    BY <2>1 DEF BoardRow
<1> HIDE DEF row
<1> QED
  BY <1>1, <1>2

\* Rows of one cell are of one block, and so the same.
LEMMA CellReadOnce ==
  ASSUME BoardTypeOK, NEW y \in BoardYears, NEW a \in AllIn(y), NEW b \in AllIn(y), a.cell = b.cell
  PROVE  a = b
<1>1. PICK s \in BlockStarts : a \in RowsIn(s, y)
  BY DEF AllIn
<1>2. PICK t \in BlockStarts : b \in RowsIn(t, y)
  BY DEF AllIn
<1>3. PICK c \in CellsOf(s) : a = RowOf(s, y, c)
  BY <1>1 DEF RowsIn
<1>4. PICK d \in CellsOf(t) : b = RowOf(t, y, d)
  BY <1>2 DEF RowsIn
<1>5. a.cell = c /\ b.cell = d
  BY <1>3, <1>4 DEF RowOf
<1>6. c[1] \in Int /\ s \in BlockOf(c[1]) /\ t \in BlockOf(c[1])
  <2>1. c \in Body /\ s \in BlockOf(c[1]) /\ t \in BlockOf(c[1])
    BY <1>5, CellsOfAre
  <2> QED
    BY <2>1 DEF Body
<1>7. s = t
  BY <1>6, BlockOfOne
<1> QED
  BY <1>3, <1>4, <1>5, <1>7

-----------------------------------------------------------------------------
\* An empty sheet gives nothing.
LEMMA BoardInvInit == BoardInit => BoardInv
<1> SUFFICES ASSUME BoardInit PROVE BoardInv
  OBVIOUS
<1>1. BoardYears \in SUBSET Nat /\ BoardYears # {}
  BY WeeklyBoardAssumption
<1>2. \E n \in BoardYears : \A m \in BoardYears : n <= m
  BY <1>1, LeastNat
<1>3. fetched \in BoardYears
  BY <1>2 DEF BoardInit
<1> QED
  BY <1>3 DEF BoardInit, BoardInv, BoardTypeOK, ReadOfThese

\* Storing a sheet.
LEMMA FillKeeps == BoardInv /\ Fill => BoardInv'
<1> SUFFICES ASSUME BoardInv, Fill PROVE BoardInv'
  OBVIOUS
<1>1. layout = "empty" /\ layout' = "none" /\ UNCHANGED <<first, fetched, emitted>> /\ emitted = {}
  BY DEF Fill, BoardInv, ReadOfThese
<1>2. body' \in [Body -> {"blank", "task", "header", "mention", "date"}]
  <2> DEFINE Filled(headers, dates, texts, kind) ==
               [c \in Body |-> CASE c \in headers -> kind
                               [] c \in dates -> "date"
                               [] c \in texts \ headers -> "task"
                               [] OTHER -> "blank"]
  <2>1. ASSUME NEW headers, NEW dates, NEW texts, NEW kind \in {"header", "mention"}
        PROVE  Filled(headers, dates, texts, kind) \in
                 [Body -> {"blank", "task", "header", "mention", "date"}]
    OBVIOUS
  <2>2. PICK texts \in SUBSET {c \in Body : c[1] > 1}, dates \in SUBSET {<<1, DateColumn>>} :
          \E headers \in SUBSET texts, kind \in {"header", "mention"} :
            /\ Cardinality(headers) <= MaxHeaders
            /\ body' = [c \in Body |-> CASE c \in headers -> kind
                                         [] c \in dates -> "date"
                                         [] c \in texts \ headers -> "task"
                                         [] OTHER -> "blank"]
    BY DEF Fill
  <2>3. PICK headers \in SUBSET texts, kind \in {"header", "mention"} : body' = Filled(headers, dates, texts, kind)
    BY <2>2
  <2> HIDE DEF Filled
  <2> QED
    BY <2>1, <2>3
<1>3. yearAt' \in [1 .. NRows -> BoardYears \union {0}]
  BY DEF Fill, BoardInv, BoardTypeOK
<1>4. BoardTypeOK'
  BY <1>1, <1>2, <1>3 DEF BoardInv, BoardTypeOK
<1>5. ReadOfThese'
  BY <1>1 DEF ReadOfThese
<1> QED
  BY <1>4, <1>5 DEF BoardInv

\* The cells decide what the matrix and the board give.
LEMMA SameCells ==
  ASSUME UNCHANGED <<first, body, yearAt>>
  PROVE  MatrixRows' = MatrixRows /\ \A y : AllIn(y)' = AllIn(y)
<1>1. MatrixRows' = MatrixRows
  BY DEF MatrixRows
<1>2. BlockStarts' = BlockStarts
  BY DEF BlockStarts
<1>3. \A s : BlockEnd(s)' = BlockEnd(s)
  BY <1>2 DEF BlockEnd, StartsAfter
<1>4. \A h : TaskColumns(h)' = TaskColumns(h)
  BY DEF TaskColumns
<1>5. \A s : CellsOf(s)' = CellsOf(s)
  BY <1>3, <1>4 DEF CellsOf, IsTask
<1>6. \A s, y : YearIn(s, y)' = YearIn(s, y)
  BY DEF YearIn, YearCells
<1>7. \A s, y, c : RowOf(s, y, c)' = RowOf(s, y, c)
  BY <1>4, <1>6 DEF RowOf
<1>8. \A s, y : RowsIn(s, y)' = RowsIn(s, y)
  BY <1>5, <1>6, <1>7 DEF RowsIn
<1> QED
  BY <1>1, <1>2, <1>8 DEF AllIn

\* Parsing it.
LEMMA ParseCellsKeeps == BoardInv /\ ParseCells => BoardInv'
<1> SUFFICES ASSUME BoardInv, ParseCells PROVE BoardInv'
  OBVIOUS
<1>1. /\ layout = "none" /\ UNCHANGED <<first, body, yearAt, fetched>>
      /\ \/ layout' = "matrix" /\ emitted' = MatrixRows
         \/ layout' = "board" /\ emitted' = AllIn(fetched)
  BY BoardRowsAre DEF ParseCells
<1>2. MatrixRows' = MatrixRows /\ AllIn(fetched)' = AllIn(fetched)
  BY <1>1, SameCells
<1>3. BoardTypeOK /\ fetched \in BoardYears
  BY DEF BoardInv, BoardTypeOK
<1>4. MatrixRows \subseteq BoardRow /\ AllIn(fetched) \subseteq BoardRow
  BY <1>3, MatrixRowsTypes, RowsInTypes DEF AllIn
<1>5. BoardTypeOK'
  BY <1>1, <1>3, <1>4 DEF BoardTypeOK
<1>6. ReadOfThese'
  BY <1>1, <1>2 DEF ReadOfThese
<1> QED
  BY <1>5, <1>6 DEF BoardInv

\* Fetching it again.
LEMMA FetchNextYearKeeps == BoardInv /\ FetchNextYear => BoardInv'
<1> SUFFICES ASSUME BoardInv, FetchNextYear PROVE BoardInv'
  OBVIOUS
<1>1. /\ layout \in {"matrix", "board"} /\ layout' = "none" /\ UNCHANGED <<first, body, yearAt, emitted>>
      /\ fetched' \in BoardYears
  BY DEF FetchNextYear
<1>2. BoardTypeOK'
  BY <1>1 DEF BoardInv, BoardTypeOK
<1>3. fetched \in BoardYears /\ (emitted = MatrixRows \/ emitted = AllIn(fetched))
  BY <1>1 DEF BoardInv, BoardTypeOK, ReadOfThese
<1>4. emitted' = MatrixRows' \/ \E y \in BoardYears : emitted' = AllIn(y)'
  BY <1>1, <1>3, SameCells
<1>5. ReadOfThese'
  BY <1>1, <1>4 DEF ReadOfThese
<1> QED
  BY <1>2, <1>5 DEF BoardInv

\* Every step preserves the invariant.
LEMMA BoardInvNext == BoardInv /\ [BoardNext]_boardVars => BoardInv'
<1> SUFFICES ASSUME BoardInv, [BoardNext]_boardVars PROVE BoardInv'
  OBVIOUS
<1>1. CASE UNCHANGED boardVars
  <2>1. UNCHANGED <<first, body, yearAt, fetched, layout, emitted>>
    BY <1>1 DEF boardVars
  <2>2. MatrixRows' = MatrixRows /\ \A y : AllIn(y)' = AllIn(y)
    BY <2>1, SameCells
  <2>3. AllIn(fetched)' = AllIn(fetched)
    BY <2>1, SameCells
  <2>4. BoardTypeOK'
    BY <2>1 DEF BoardInv, BoardTypeOK
  <2>5. ReadOfThese'
    BY <2>1, <2>2, <2>3 DEF BoardInv, ReadOfThese
  <2> QED
    BY <2>4, <2>5 DEF BoardInv
<1> QED
  BY <1>1, FillKeeps, ParseCellsKeeps, FetchNextYearKeeps DEF BoardNext

\* For sheets of any size, blocks and columns: what was read last was read of
\* these cells.
THEOREM BoardInvariant == BoardSpec => []BoardInv
BY BoardInvInit, BoardInvNext, PTL DEF BoardSpec

-----------------------------------------------------------------------------
\* Of which the property follows.
LEMMA ReadOnce == BoardInv => BoardReadOnce
<1> SUFFICES ASSUME BoardInv PROVE BoardReadOnce
  OBVIOUS
<1>1. BoardTypeOK /\ fetched \in BoardYears
  BY DEF BoardInv, BoardTypeOK
<1>2. emitted = {} \/ emitted = MatrixRows \/ \E y \in BoardYears : emitted = AllIn(y)
  BY <1>1 DEF BoardInv, BoardTypeOK, ReadOfThese
<1>3. \A a, b \in emitted : a.cell = b.cell => a = b
  BY <1>1, <1>2, MatrixRowsTypes, CellReadOnce
<1>4. layout = "matrix" => \A a \in emitted : a.week = "matrix"
  BY <1>1, MatrixRowsTypes DEF BoardInv, ReadOfThese
<1>5. ASSUME layout = "board", NEW c \in Body
      PROVE  {a.week : a \in {b \in emitted : b.cell = c}} =
               {first[s] : s \in {q \in BlockOf(c[1]) :
                 /\ c[1] > q + HeaderOffset /\ IsTask(c)
                 /\ c[2] \in TaskColumns(q + HeaderOffset)
                 /\ <<first[q], WeekYear(q)>> \in ValidWeek}}
  <2> DEFINE Reads(q) == /\ q \in BlockOf(c[1]) /\ c[1] > q + HeaderOffset /\ IsTask(c)
                         /\ c[2] \in TaskColumns(q + HeaderOffset)
                         /\ <<first[q], WeekYear(q)>> \in ValidWeek
  <2>1. emitted = AllIn(fetched)
    BY <1>5 DEF BoardInv, ReadOfThese
  <2>2. c[1] \in 1 .. NRows
    BY DEF Body
  <2>3. \A q : WeekYear(q) = YearIn(q, fetched)
    BY DEF WeekYear, YearIn
  <2>4. ASSUME NEW a \in emitted, a.cell = c PROVE \E q : Reads(q) /\ a.week = first[q]
    <3>1. PICK q \in BlockStarts : a \in RowsIn(q, fetched)
      BY <2>1 DEF AllIn
    <3>2. a.week = first[q] /\ c \in CellsOf(q)
      BY <1>1, <2>4, <3>1, RowsInTypes
    <3>3. <<first[q], WeekYear(q)>> \in ValidWeek
      BY <2>3, <3>1 DEF RowsIn
    <3> QED
      BY <3>2, <3>3, CellsOfAre
  <2>5. ASSUME NEW q, Reads(q) PROVE \E a \in emitted : a.cell = c /\ a.week = first[q]
    <3>1. q \in BlockStarts
      BY <2>2, <2>5, BlockOfIs
    <3>2. c \in CellsOf(q)
      BY <2>5, <3>1, CellsOfAre
    <3> DEFINE a == RowOf(q, fetched, c)
    <3>3. a \in RowsIn(q, fetched)
      BY <2>3, <2>5, <3>2 DEF RowsIn
    <3>4. a.cell = c /\ a.week = first[q]
      BY DEF RowOf
    <3>5. a \in emitted
      BY <2>1, <3>1, <3>3 DEF AllIn
    <3> QED
      BY <3>4, <3>5
  <2> HIDE DEF Reads
  <2>6. {first[s] : s \in {q \in BlockOf(c[1]) :
           /\ c[1] > q + HeaderOffset /\ IsTask(c)
           /\ c[2] \in TaskColumns(q + HeaderOffset)
           /\ <<first[q], WeekYear(q)>> \in ValidWeek}} = {first[s] : s \in {q \in BlockOf(c[1]) : Reads(q)}}
    BY DEF Reads
  <2>7. \A q : Reads(q) => q \in BlockOf(c[1])
    BY DEF Reads
  <2>8. {a.week : a \in {b \in emitted : b.cell = c}} = {first[s] : s \in {q \in BlockOf(c[1]) : Reads(q)}}
    BY <2>4, <2>5, <2>7
  <2> QED
    BY <2>6, <2>8
<1> QED
  BY <1>3, <1>4, <1>5 DEF BoardReadOnce

\* BoardReadOnce: a cell is read at most once, and exactly if it lies in a day
\* column below the header of its block.
THEOREM BoardsAreReadOnce == BoardSpec => []BoardReadOnce
BY BoardInvariant, ReadOnce, PTL

\* Among the rows of a board, those of a block are the ones it gives.
LEMMA BlockAmongAll ==
  ASSUME BoardTypeOK, NEW y \in BoardYears, NEW s \in BlockStarts
  PROVE  /\ {a \in AllIn(y) : s \in BlockOf(a.cell[1])} = RowsIn(s, y)
         /\ \A a \in AllIn(y) : a.week # "matrix"
<1>1. \A a \in AllIn(y) : \E t \in BlockStarts : a \in RowsIn(t, y)
  BY DEF AllIn
<1>2. \A t \in BlockStarts : \A a \in RowsIn(t, y) :
        a \in AllIn(y) /\ t \in BlockOf(a.cell[1]) /\ a.cell[1] \in Int /\ a.week = first[t]
  <2> SUFFICES ASSUME NEW t \in BlockStarts, NEW a \in RowsIn(t, y)
               PROVE  a \in AllIn(y) /\ t \in BlockOf(a.cell[1]) /\ a.cell[1] \in Int /\ a.week = first[t]
    OBVIOUS
  <2>1. a.week = first[t] /\ a.cell \in CellsOf(t)
    BY RowsInTypes
  <2>2. t \in BlockOf(a.cell[1]) /\ a.cell \in Body
    BY <2>1, CellsOfAre
  <2>3. a.cell[1] \in Int
    BY <2>2 DEF Body
  <2>4. a \in AllIn(y)
    BY DEF AllIn
  <2> QED
    BY <2>1, <2>2, <2>3, <2>4
<1>3. \A t \in BlockStarts : first[t] # "matrix"
  BY WeeklyBoardAssumption DEF BlockStarts
<1>4. \A a \in AllIn(y) : s \in BlockOf(a.cell[1]) => a \in RowsIn(s, y)
  BY <1>1, <1>2, BlockOfOne
<1> QED
  BY <1>1, <1>2, <1>3, <1>4

\* A block with a year cell gives the same in every year.
LEMMA DatesStayNext == BoardInv /\ [BoardNext]_boardVars => [DatesStay]_boardVars
<1> SUFFICES ASSUME BoardInv, layout = "none", layout' = "board", [BoardNext]_boardVars,
                    NEW s \in BlockStarts, YearCells(s) # {}
             PROVE  {a \in emitted : a.week # "matrix" /\ s \in BlockOf(a.cell[1])} \in
                      {{}, {a \in emitted' : s \in BlockOf(a.cell[1])}}
  BY DEF DatesStay
<1> DEFINE Shown == {a \in emitted : a.week # "matrix" /\ s \in BlockOf(a.cell[1])}
<1>1. emitted' = AllIn(fetched)
  BY BoardRowsAre DEF BoardNext, boardVars, Fill, ParseCells, FetchNextYear
<1>2. BoardTypeOK /\ fetched \in BoardYears
  BY DEF BoardInv, BoardTypeOK
<1>3. {a \in emitted' : s \in BlockOf(a.cell[1])} = RowsIn(s, fetched)
  BY <1>1, <1>2, BlockAmongAll
<1>4. emitted = {} \/ emitted = MatrixRows \/ \E y \in BoardYears : emitted = AllIn(y)
  BY DEF BoardInv, ReadOfThese
<1>5. CASE emitted = {} \/ emitted = MatrixRows
  <2>1. Shown = {}
    BY <1>2, <1>5, MatrixRowsTypes
  <2> QED
    BY <2>1
<1>6. CASE \E y \in BoardYears : emitted = AllIn(y)
  <2>1. PICK y \in BoardYears : emitted = AllIn(y)
    BY <1>6
  <2>2. Shown = {a \in AllIn(y) : s \in BlockOf(a.cell[1])}
    BY <1>2, <2>1, BlockAmongAll
  <2>3. Shown = RowsIn(s, y)
    BY <1>2, <2>2, BlockAmongAll
  <2>4. YearIn(s, y) = YearIn(s, fetched)
    BY DEF YearIn
  <2>5. RowsIn(s, y) = RowsIn(s, fetched)
    BY <2>4, Zenon DEF RowsIn, RowOf
  <2> QED
    BY <1>3, <2>3, <2>5
<1> QED
  BY <1>4, <1>5, <1>6

\* YearCellsPinDates: a board fetched again moves no task whose week shows a year.
THEOREM YearCellsPin == BoardSpec => YearCellsPinDates
BY BoardInvariant, DatesStayNext, PTL DEF BoardSpec, YearCellsPinDates

-----------------------------------------------------------------------------
(* EmployeeMatch: names.                                                   *)

\* The similarity of two names.
Near(m, n) == Score[KeyOf[m]][KeyOf[n]]

\* No canonical name is nearer.
Nearest(name, v) == v \in Canonical /\ \A w \in Canonical : Near(name, w) <= Near(name, v)

\* What each method may have found, for any order of the names.
ResolvedWell(r) ==
  /\ r.method = "exact" => r.name \in Canonical /\ r.employee = r.name
  /\ r.method = "alias" => r.name \in DOMAIN AliasMap \ Canonical /\ r.employee = AliasMap[r.name]
  /\ r.method = "fuzzy" =>
       Unknown(r.name) /\ Nearest(r.name, r.employee) /\ Rounded(Near(r.name, r.employee)) >= Threshold
  /\ r.method = "fallback" =>
       /\ Unknown(r.name) /\ r.employee = r.name
       /\ \A v \in Canonical : Nearest(r.name, v) => Rounded(Near(r.name, v)) < Threshold

\* The inductive invariant: every answer is what its method may give, for any
\* order in which the names come.
MatchInv == MatchTypeOK /\ \A r \in resolved : ResolvedWell(r)

-----------------------------------------------------------------------------
\* The canonical names are finitely many.
LEMMA CanonicalNames == Canonical \subseteq Names /\ Cardinality(Canonical) \in Nat
<1>1. Canonical \subseteq Names
  BY MatchAssumption DEF Canonical
<1> QED
  BY <1>1, MatchAssumption, FS_Subset, FS_CardinalityType

\* Similarities are numbers.
LEMMA NearIsInt == \A m, n \in Names : Near(m, n) \in Int
<1> SUFFICES ASSUME NEW m \in Names, NEW n \in Names PROVE Near(m, n) \in Int
  OBVIOUS
<1>1. Score[KeyOf[m]][KeyOf[n]] \in Nat
  BY MatchAssumption, Zenon
<1>2. Score[KeyOf[m]][KeyOf[n]] \in Int
  BY <1>1
<1> QED
  BY <1>2 DEF Near

\* In an order, some name of a set comes first, and some comes last.
LEMMA FirstAndLast ==
  ASSUME NEW f \in Orders, NEW V \in SUBSET Canonical, V # {}
  PROVE  /\ \E v \in V : \A w \in V : f[v] <= f[w]
         /\ \E v \in V : \A w \in V : f[w] <= f[v]
<1> DEFINE N == Cardinality(Canonical)
<1>1. f \in [Canonical -> 1 .. N] /\ N \in Nat
  BY CanonicalNames DEF Orders
<1> HIDE DEF N
<1>2. \E v \in V : \A w \in V : f[v] <= f[w]
  <2> DEFINE T == {f[v] : v \in V}
  <2>1. T \in SUBSET Nat /\ T # {}
    BY <1>1
  <2>2. PICK n \in T : \A m \in T : n <= m
    <3> HIDE DEF T
    <3> QED
      BY <2>1, LeastNat
  <2> QED
    BY <2>2
<1>3. \E v \in V : \A w \in V : f[w] <= f[v]
  <2> DEFINE T == {N - f[v] : v \in V}
  <2>1. T \in SUBSET Nat /\ T # {}
    BY <1>1
  <2>2. PICK n \in T : \A m \in T : n <= m
    <3> HIDE DEF T
    <3> QED
      BY <2>1, LeastNat
  <2>3. PICK v \in V : n = N - f[v]
    BY <2>2
  <2>4. \A w \in V : N - f[v] <= N - f[w]
    BY <2>2, <2>3
  <2>5. \A w \in V : f[w] \in Int /\ f[v] \in Int
    BY <1>1
  <2> QED
    BY <1>1, <2>4, <2>5
<1> QED
  BY <1>2, <1>3

\* The name a key stands for has that key.
LEMMA TargetHasKey ==
  ASSUME NEW f \in Orders, NEW k \in {KeyOf[v] : v \in Canonical}
  PROVE  Target(f, k) \in Canonical /\ KeyOf[Target(f, k)] = k
<1> DEFINE V == {v \in Canonical : KeyOf[v] = k}
<1>1. V \in SUBSET Canonical /\ V # {}
  OBVIOUS
<1>2. PICK v \in V : \A w \in V : f[w] <= f[v]
  <2> HIDE DEF V
  <2> QED
    BY <1>1, FirstAndLast
<1>3. v \in Canonical /\ KeyOf[v] = k /\ \A w \in Canonical : KeyOf[w] = k => f[w] <= f[v]
  BY <1>2
<1> QED
  BY <1>3 DEF Target

\* The best key is that of a nearest name ...
LEMMA BestIsNearest ==
  ASSUME NEW f \in Orders, NEW name \in Names, NEW v \in Canonical, IsBest(f, name, KeyOf[v])
  PROVE  Nearest(name, v)
<1> SUFFICES ASSUME NEW w \in Canonical PROVE Near(name, w) <= Near(name, v)
  BY DEF Nearest
<1>1. \/ Score[KeyOf[name]][KeyOf[v]] > Score[KeyOf[name]][KeyOf[w]]
      \/ Score[KeyOf[name]][KeyOf[v]] = Score[KeyOf[name]][KeyOf[w]]
  BY DEF IsBest
<1>2. Near(name, v) \in Int /\ Near(name, w) \in Int
  BY NearIsInt, CanonicalNames
<1> QED
  BY <1>1, <1>2 DEF Near

\* ... and of the nearest names, that of the first one is the best key.
LEMMA SomeNearestIsBest ==
  ASSUME NEW f \in Orders, NEW name \in Names, NEW v, Nearest(name, v)
  PROVE  \E u \in Canonical : Nearest(name, u) /\ IsBest(f, name, KeyOf[u])
<1> DEFINE V == {u \in Canonical : Nearest(name, u)}
<1>1. V \in SUBSET Canonical /\ V # {}
  BY DEF Nearest
<1>2. PICK u \in V : \A w \in V : f[u] <= f[w]
  <2> HIDE DEF V
  <2> QED
    BY <1>1, FirstAndLast
<1>3. u \in Canonical /\ Nearest(name, u)
  OBVIOUS
<1>4. ASSUME NEW w \in Canonical
      PROVE  \/ Score[KeyOf[name]][KeyOf[u]] > Score[KeyOf[name]][KeyOf[w]]
             \/ /\ Score[KeyOf[name]][KeyOf[u]] = Score[KeyOf[name]][KeyOf[w]]
                /\ Comes(f, KeyOf[u], KeyOf[w])
  <2>1. Near(name, w) <= Near(name, u) /\ Near(name, w) \in Int /\ Near(name, u) \in Int
    BY <1>3, NearIsInt, CanonicalNames DEF Nearest
  <2>2. CASE Near(name, w) = Near(name, u)
    <3>1. \A x \in Canonical : KeyOf[x] = KeyOf[w] => x \in V
      BY <1>3, <2>2 DEF Nearest, Near
    <3>2. Comes(f, KeyOf[u], KeyOf[w])
      BY <1>2, <1>3, <3>1 DEF Comes
    <3> QED
      BY <2>2, <3>2 DEF Near
  <2>3. CASE Near(name, w) < Near(name, u)
    BY <2>1, <2>3 DEF Near
  <2> QED
    BY <2>1, <2>2, <2>3
<1>5. IsBest(f, name, KeyOf[u])
  BY <1>4 DEF IsBest
<1> QED
  BY <1>3, <1>5

-----------------------------------------------------------------------------
\* At first nothing is resolved.
LEMMA MatchInvInit == MatchInit => MatchInv
BY FS_EmptySet DEF MatchInit, MatchInv, MatchTypeOK

\* One more resolution.
LEMMA FoundKeeps ==
  ASSUME MatchInv, NEW p \in Processes, NEW name \in Names, NEW employee \in Names,
         NEW method \in {"exact", "alias", "fuzzy", "fallback"}, Found(p, name, employee, method),
         \A r : r.name = name /\ r.employee = employee /\ r.method = method => ResolvedWell(r)
  PROVE  MatchInv'
<1> DEFINE new == [process |-> p, name |-> name, employee |-> employee, method |-> method]
<1>1. new \in Resolution /\ ResolvedWell(new)
  BY DEF Resolution
<1>2. resolved' = resolved \union {new} /\ order' = order
  BY DEF Found
<1> HIDE DEF new
<1> QED
  BY <1>1, <1>2 DEF MatchInv, MatchTypeOK

\* Another process, another order.
LEMMA LoadAliasesKeeps ==
  ASSUME MatchInv, NEW p \in Processes, LoadAliases(p)
  PROVE  MatchInv'
<1>1. PICK f \in Orders : order' = [order EXCEPT ![p] = {f}]
  BY DEF LoadAliases
<1>2. \A q \in Processes : order'[q] \in {order[q], {f}}
  BY <1>1
<1>3. \A q \in Processes : order'[q] \subseteq Orders /\ Cardinality(order'[q]) <= 1
  BY <1>2, FS_Singleton DEF MatchInv, MatchTypeOK
<1> QED
  BY <1>3 DEF LoadAliases, MatchInv, MatchTypeOK

\* An answer is what its method may give.
LEMMA ResolveKeeps ==
  ASSUME MatchInv, NEW p \in Processes, NEW name \in Names, Resolve(p, name)
  PROVE  MatchInv'
<1>1. PICK f : f \in order[p] /\ f \in Orders
  BY DEF Resolve, MatchInv, MatchTypeOK
<1>2. CASE Exact(p, name)
  BY <1>2, FoundKeeps DEF Exact, ResolvedWell
<1>3. CASE Alias(p, name)
  <2>1. AliasMap[name] \in Names
    BY <1>3, MatchAssumption DEF Alias
  <2> QED
    BY <1>3, <2>1, FoundKeeps DEF Alias, ResolvedWell
<1>4. CASE Fuzzy(p, name)
  <2>1. PICK k \in {KeyOf[v] : v \in Canonical} : \E g \in order[p] :
          /\ IsBest(g, name, k)
          /\ Rounded(Score[KeyOf[name]][k]) >= Threshold
          /\ Found(p, name, Target(g, k), "fuzzy")
    BY <1>4 DEF Fuzzy
  <2>2. PICK g \in order[p] :
          /\ IsBest(g, name, k)
          /\ Rounded(Score[KeyOf[name]][k]) >= Threshold
          /\ Found(p, name, Target(g, k), "fuzzy")
    BY <2>1
  <2>3. g \in Orders
    BY DEF MatchInv, MatchTypeOK
  <2>4. PICK v \in Canonical : v = Target(g, k) /\ KeyOf[v] = k
    BY <2>3, TargetHasKey
  <2>5. v \in Names /\ Nearest(name, v) /\ Rounded(Near(name, v)) >= Threshold
    BY <2>2, <2>3, <2>4, BestIsNearest, CanonicalNames DEF Near
  <2> QED
    BY <1>4, <2>2, <2>4, <2>5, FoundKeeps DEF Fuzzy, ResolvedWell
<1>5. CASE Fallback(p, name)
  <2>1. ASSUME NEW v \in Canonical, Nearest(name, v) PROVE Rounded(Near(name, v)) < Threshold
    <3>1. PICK u \in Canonical : Nearest(name, u) /\ IsBest(f, name, KeyOf[u])
      BY <1>1, <2>1, SomeNearestIsBest
    <3>2. Rounded(Near(name, u)) < Threshold
      BY <1>1, <1>5, <3>1 DEF Fallback, Near
    <3>3. Near(name, u) = Near(name, v)
      BY <2>1, <3>1, NearIsInt, CanonicalNames DEF Nearest
    <3> QED
      BY <3>2, <3>3
  <2> QED
    BY <1>5, <2>1, FoundKeeps DEF Fallback, ResolvedWell
<1> QED
  BY <1>2, <1>3, <1>4, <1>5 DEF Resolve

\* Every step preserves the invariant.
LEMMA MatchInvNext == MatchInv /\ [MatchNext]_matchVars => MatchInv'
<1> SUFFICES ASSUME MatchInv, [MatchNext]_matchVars PROVE MatchInv'
  OBVIOUS
<1>1. CASE UNCHANGED matchVars
  BY <1>1 DEF matchVars, MatchInv, MatchTypeOK
<1> QED
  BY <1>1, LoadAliasesKeeps, ResolveKeeps DEF MatchNext

\* For any names, similarities, threshold and processes: the invariant.
THEOREM MatchInvariant == MatchSpec => []MatchInv
BY MatchInvInit, MatchInvNext, PTL DEF MatchSpec

\* EmployeesStable: a name gets one employee, whichever process asks, unless
\* two canonical names are equally near.
THEOREM EmployeesAreStable == MatchSpec => []EmployeesStable
<1>1. MatchInv => EmployeesStable
  <2> SUFFICES ASSUME MatchInv, NEW r \in resolved, NEW s \in resolved, r.name = s.name
               PROVE  \/ r.employee = s.employee
                      \/ /\ r.method = "fuzzy" /\ s.method = "fuzzy"
                         /\ Tied(r.name, r.employee, s.employee)
    BY DEF EmployeesStable
  <2>1. /\ r.name \in Names /\ ResolvedWell(r) /\ ResolvedWell(s)
        /\ r.method \in {"exact", "alias", "fuzzy", "fallback"}
        /\ s.method \in {"exact", "alias", "fuzzy", "fallback"}
    BY DEF MatchInv, MatchTypeOK, Resolution
  <2>2. CASE r.method \in {"exact", "alias"} \/ s.method \in {"exact", "alias"}
    BY <2>1, <2>2 DEF ResolvedWell, Unknown
  <2>3. CASE r.method = "fallback" /\ s.method = "fallback"
    BY <2>1, <2>3 DEF ResolvedWell
  <2>4. CASE r.method = "fuzzy" /\ s.method = "fuzzy"
    <3>1. Nearest(r.name, r.employee) /\ Nearest(r.name, s.employee)
      BY <2>1, <2>4 DEF ResolvedWell
    <3>2. Near(r.name, r.employee) = Near(r.name, s.employee)
      BY <2>1, <3>1, NearIsInt, CanonicalNames DEF Nearest
    <3> QED
      BY <2>4, <3>2 DEF Tied, Near
  <2>5. ASSUME NEW x \in resolved, NEW y \in resolved, x.name = y.name,
               x.method = "fuzzy", y.method = "fallback", ResolvedWell(x), ResolvedWell(y)
        PROVE  FALSE
    <3>1. Nearest(x.name, x.employee) /\ Rounded(Near(x.name, x.employee)) >= Threshold
      BY <2>5 DEF ResolvedWell
    <3>2. Rounded(Near(x.name, x.employee)) < Threshold
      BY <2>5, <3>1 DEF ResolvedWell, Nearest
    <3>3. Rounded(Near(x.name, x.employee)) \in Int /\ Threshold \in Int
      <4>1. x.name \in Names /\ x.employee \in Names
        BY DEF MatchInv, MatchTypeOK, Resolution
      <4>2. PICK d \in Int : d = Near(x.name, x.employee)
        BY <4>1, NearIsInt
      <4>3. Rounded(d) \in Int
        BY <4>2 DEF Rounded
      <4> QED
        BY <4>2, <4>3, MatchAssumption
    <3> QED
      BY <3>1, <3>2, <3>3
  <2> QED
    BY <2>1, <2>2, <2>3, <2>4, <2>5
<1> QED
  BY <1>1, MatchInvariant, PTL
=============================================================================
