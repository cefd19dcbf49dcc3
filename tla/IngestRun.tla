------------------------------ MODULE IngestRun ------------------------------
(***************************************************************************)
(* ingest/: run_ingest fetches the configured ranges in batches, with      *)
(* retries, and replaces each range of sheet_cells in a transaction of its *)
(* own, while the spreadsheet is edited and perhaps a second run, started  *)
(* by hand, does the same.                                                 *)
(***************************************************************************)
EXTENDS Integers, Sequences

CONSTANTS Cells,      \* the cells of the spreadsheet
          CellTexts,  \* what a cell may hold
          Empty,      \* a blank cell, which has no row
          Batches,    \* the configured ranges, sets of cells, in batches
          Ingests,    \* the runs that may work at the same time
          MaxRetries, \* gsheets.max_retries
          MaxChanges  \* how often the spreadsheet is edited

ASSUME IngestAssumption ==
  /\ Empty \notin CellTexts
  /\ Batches \in Seq(Seq(SUBSET Cells)) /\ Len(Batches) > 0
  /\ \A b \in DOMAIN Batches : Len(Batches[b]) > 0
  /\ MaxRetries \in Nat /\ MaxChanges \in Nat

VARIABLES grid,    \* the spreadsheet
          changes, \* how often it was edited
          rows,    \* sheet_cells
          ingest   \* the runs

ingestVars == <<grid, changes, rows, ingest>>

CellValues == CellTexts \union {Empty}

(* A run: its batch, the attempt at fetching it, the ranges fetched but not yet   *)
(* replaced, what it fetched, the rows its transaction deletes; and, as history,  *)
(* whether it has been alone in an unedited spreadsheet since it began.           *)
Ingest == [stage : {"idle", "fetching", "replacing", "deleting", "inserting", "ended", "failed"},
           batch : 1 .. Len(Batches) + 1, attempt : 0 .. MaxRetries,
           pending : Seq(SUBSET Cells), values : [Cells -> CellValues],
           deleted : SUBSET Cells, undisturbed : BOOLEAN]

IngestTypeOK ==
  /\ grid \in [Cells -> CellValues]
  /\ changes \in 0 .. MaxChanges
  /\ rows \in [Cells -> CellValues]
  /\ ingest \in [Ingests -> Ingest]

BlankGrid == [c \in Cells |-> Empty]

IdleIngest == [stage |-> "idle", batch |-> 1, attempt |-> 0, pending |-> <<>>,
               values |-> BlankGrid, deleted |-> {}, undisturbed |-> FALSE]

IngestInit ==
  /\ grid = BlankGrid
  /\ changes = 0
  /\ rows = BlankGrid
  /\ ingest = [r \in Ingests |-> IdleIngest]

-----------------------------------------------------------------------------
Idling == {"idle", "ended", "failed"}

(* Someone edits a cell. *)
EditCell(c) ==
  /\ changes < MaxChanges
  /\ changes' = changes + 1
  /\ \E v \in CellValues \ {grid[c]} : grid' = [grid EXCEPT ![c] = v]
  /\ ingest' = [r \in Ingests |-> [ingest[r] EXCEPT !.undisturbed = FALSE]]
  /\ UNCHANGED rows

(* run_ingest begins with the first batch. *)
BeginIngest(r) ==
  /\ ingest[r].stage \in Idling
  /\ LET alone == \A q \in Ingests \ {r} : ingest[q].stage \in Idling
     IN ingest' = [q \in Ingests |->
                     IF q = r THEN [IdleIngest EXCEPT !.stage = "fetching", !.undisturbed = alone]
                     ELSE [ingest[q] EXCEPT !.undisturbed = FALSE]]
  /\ UNCHANGED <<grid, changes, rows>>

(* The next batch: there is none after the last, and the run ends. *)
InBatch(run) ==
  IF run.pending # <<>> THEN [run EXCEPT !.stage = "replacing", !.deleted = {}]
  ELSE [run EXCEPT !.batch = @ + 1, !.attempt = 0, !.deleted = {},
                   !.stage = IF run.batch < Len(Batches) THEN "fetching" ELSE "ended"]

(* batchGet answers with the values of all ranges of the batch. *)
FetchBatch(r) ==
  /\ ingest[r].stage = "fetching"
  /\ ingest[r].batch <= Len(Batches)
  /\ ingest' = [ingest EXCEPT ![r] =
                   InBatch([@ EXCEPT !.pending = Batches[ingest[r].batch], !.values = grid])]
  /\ UNCHANGED <<grid, changes, rows>>

(* A rate limit, a server error or a broken connection is tried again ... *)
FetchAgain(r) ==
  /\ ingest[r].stage = "fetching"
  /\ ingest[r].attempt < MaxRetries
  /\ ingest' = [ingest EXCEPT ![r].attempt = @ + 1]
  /\ UNCHANGED <<grid, changes, rows>>

(* ... other errors, and the last one, end the run; so does an answer with a range *)
(* that is not bounded, or a transaction that fails.                               *)
IngestFails(r) ==
  /\ ingest[r].stage \notin Idling
  /\ ingest' = [ingest EXCEPT ![r].stage = "failed", ![r].deleted = {}]
  /\ UNCHANGED <<grid, changes, rows>>

-----------------------------------------------------------------------------
CurrentRange(r) == ingest[r].pending[1]

(* The delete finds the rows of the range that are there as it begins ... *)
RangeDeleteStarts(r) ==
  /\ ingest[r].stage = "replacing"
  /\ ingest' = [ingest EXCEPT ![r].stage = "deleting",
                              ![r].deleted = {c \in CurrentRange(r) : rows[c] # Empty}]
  /\ UNCHANGED <<grid, changes, rows>>

(* ... and waits for those another transaction has deleted; when that one commits, *)
(* they are gone, and what it has put in their place is not seen.                  *)
RangeDeleteEnds(r) ==
  /\ ingest[r].stage = "deleting"
  /\ \A q \in Ingests \ {r} :
       ingest[q].stage = "inserting" => ingest[q].deleted \intersect ingest[r].deleted = {}
  /\ ingest' = [ingest EXCEPT ![r].stage = "inserting"]
  /\ UNCHANGED <<grid, changes, rows>>

(* The range is replaced, and what the others wait for is gone. *)
Committed(r) ==
  [q \in Ingests |-> IF q = r THEN InBatch([ingest[r] EXCEPT !.pending = Tail(@)])
                     ELSE [ingest[q] EXCEPT !.deleted = @ \ ingest[r].deleted]]

(* Mutant: only the cells that have a value now are replaced. *)
InsertWithoutDelete(r) ==
  /\ ingest[r].stage = "inserting"
  /\ rows' = [c \in Cells |-> IF c \in CurrentRange(r) /\ ingest[r].values[c] # Empty
                              THEN ingest[r].values[c] ELSE rows[c]]
  /\ ingest' = Committed(r)
  /\ UNCHANGED <<grid, changes>>

(* The cells that are not blank are inserted, and all is committed.  A row that    *)
(* another run inserted after the delete began has the same key: IngestFails.      *)
InsertCells(r) ==
  /\ ingest[r].stage = "inserting"
  /\ LET inserted == {c \in CurrentRange(r) : ingest[r].values[c] # Empty}
     IN /\ \A c \in inserted : rows[c] # Empty => c \in ingest[r].deleted
        /\ rows' = [c \in Cells |-> IF c \in inserted THEN ingest[r].values[c]
                                    ELSE IF c \in ingest[r].deleted THEN Empty
                                    ELSE rows[c]]
  /\ ingest' = Committed(r)
  /\ UNCHANGED <<grid, changes>>

IngestNext ==
  \/ \E c \in Cells : EditCell(c)
  \/ \E r \in Ingests :
       \/ BeginIngest(r)
       \/ FetchBatch(r)
       \/ FetchAgain(r)
       \/ IngestFails(r)
       \/ RangeDeleteStarts(r)
       \/ RangeDeleteEnds(r)
       \/ InsertCells(r)

IngestSpec == IngestInit /\ [][IngestNext]_ingestVars

-----------------------------------------------------------------------------
Configured == UNION {UNION {Batches[b][k] : k \in DOMAIN Batches[b]} : b \in DOMAIN Batches}

(* A run that ends well, with nobody editing and no other run beside it, leaves   *)
(* exactly what the spreadsheet holds in every configured range, whatever earlier *)
(* runs left when they failed half-way, retried or got in each other's way; and   *)
(* cells outside the ranges never have a row.                                     *)
IngestedExactly ==
  /\ \A c \in Cells \ Configured : rows[c] = Empty
  /\ \A r \in Ingests :
       ingest[r].stage = "ended" /\ ingest[r].undisturbed
         => \A c \in Configured : rows[c] = grid[c]
=============================================================================
