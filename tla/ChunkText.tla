----------------------------- MODULE ChunkText -----------------------------
(***************************************************************************)
(* knowledge_base/chunking.py: chunk_text cuts the text of an article into *)
(* overlapping pieces for full-text search.  A text is reduced to its      *)
(* length and the positions of its blanks, a piece to the interval of the  *)
(* text it holds; the pieces are a set, for their places order them.  One  *)
(* step is one turn of the loop.                                           *)
(***************************************************************************)
EXTENDS Integers

CONSTANTS MaxText, \* the longest text, after whitespace is normalized
          Windows  \* the pairs <<max_chars, overlap>> chunk_text is called with

(* The pairs chunk_text accepts without a ValueError. *)
ASSUME ChunkAssumption ==
  /\ MaxText \in Nat
  /\ Windows \subseteq {w \in Nat \X Nat : w[2] < w[1]}

VARIABLES chunking, \* "idle", "cutting" or "done"
          text,     \* the text: its size and the positions of its blanks
          window,   \* max_chars and overlap
          start,    \* where the next piece starts
          parts     \* the pieces so far

chunkVars == <<chunking, text, window, start, parts>>

(* Normalized text: \s+ became one blank, and strip() left none at the ends. *)
Text ==
  {t \in [size : 0 .. MaxText, blanks : SUBSET (1 .. MaxText)] :
     \A b \in t.blanks : b + 1 < t.size /\ b + 1 \notin t.blanks}

Piece == [from : 0 .. MaxText, to : 0 .. MaxText]

ChunkTypeOK ==
  /\ chunking \in {"idle", "cutting", "done"}
  /\ text \in Text
  /\ window \in Windows
  /\ start \in 0 .. MaxText
  /\ parts \subseteq Piece

ChunkInit ==
  /\ chunking = "idle"
  /\ text = [size |-> 0, blanks |-> {}]
  /\ window \in Windows
  /\ start = 0
  /\ parts = {}

-----------------------------------------------------------------------------
(* chunk_text is called; an empty text returns at once. *)
Chunk ==
  /\ chunking = "idle"
  /\ text' \in Text
  /\ window' \in Windows
  /\ chunking' = IF text'.size = 0 THEN "done" ELSE "cutting"
  /\ UNCHANGED <<start, parts>>

(* The blanks rfind may cut at: after the start and before the full window. *)
Splits(end) == {b \in text.blanks : start < b /\ b < end}

(* Where the piece ends: at the last such blank, unless the rest fits or is one word. *)
IsCut(end) ==
  LET full == IF start + window[1] < text.size THEN start + window[1] ELSE text.size
  IN IF full < text.size /\ Splits(full) # {}
     THEN end \in Splits(full) /\ \A b \in Splits(full) : b <= end
     ELSE end = full

(* Mutants: nothing makes sure of progress; the overlap is skipped. *)
NextStartUnguarded(end) == end - window[2]

NextStartAhead(end) == end + window[2]

(* The next piece reaches back by the overlap, if that still makes progress. *)
NextStart(end) == IF end - window[2] > start THEN end - window[2] ELSE end

(* strip(): at most one blank at each end. *)
Stripped(from, to) ==
  [from |-> IF from \in text.blanks THEN from + 1 ELSE from,
   to   |-> IF to - 1 \in text.blanks THEN to - 1 ELSE to]

WithPiece(piece) == IF piece.from < piece.to THEN parts \union {piece} ELSE parts

CutPiece ==
  /\ chunking = "cutting"
  /\ \E end \in 0 .. text.size :
       /\ IsCut(end)
       /\ parts' = WithPiece(Stripped(start, end))
       /\ IF end >= text.size
          THEN chunking' = "done" /\ start' = start
          ELSE chunking' = chunking /\ start' = NextStart(end)
  /\ UNCHANGED <<text, window>>

ChunkNext == Chunk \/ CutPiece

ChunkSpec == ChunkInit /\ [][ChunkNext]_chunkVars

-----------------------------------------------------------------------------
(* A word: a longest interval without blanks. *)
IsWord(a, b) ==
  /\ \A c \in text.blanks : c < a \/ b <= c
  /\ a = 0 \/ a - 1 \in text.blanks
  /\ b = text.size \/ b \in text.blanks

Holds(piece, a, b) == piece.from <= a /\ b <= piece.to

(* A search can find every word: whatever the overlap, a word shorter than    *)
(* max_chars is whole in some piece, although a piece may start inside a word.*)
WordsWhole ==
  \A a, b \in 0 .. text.size :
    a < b /\ b - a < window[1] /\ IsWord(a, b)
      => \E piece \in parts : Holds(piece, a, b)

(* Nothing is lost: in the end every character that is not a blank is in a    *)
(* piece, every word a piece can hold is whole in one, and no piece is empty  *)
(* or longer than max_chars.                                                  *)
TextCovered ==
  chunking = "done" =>
    /\ \A c \in 0 .. text.size - 1 :
         c \in text.blanks \/ \E piece \in parts : Holds(piece, c, c + 1)
    /\ WordsWhole
    /\ \A piece \in parts : piece.to - piece.from \in 1 .. window[1]

(* The loop ends: each turn moves the start on, even if the overlap would put *)
(* it back where it was.                                                      *)
ChunkingEnds == chunking = "cutting" ~> chunking = "done"
=============================================================================
