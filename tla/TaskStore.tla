------------------------------ MODULE TaskStore ------------------------------
(***************************************************************************)
(* What readers of raw_tasks and tasks_normalized are promised, whatever   *)
(* runs refresh them: a sheet changes as a whole, and a day of a sheet is  *)
(* normalized as a whole or not at all. Snapshots, locks, row ids and the  *)
(* transactions that fail are forgotten.                                   *)
(***************************************************************************)
CONSTANTS
  Sheets, Days,
  Slots,    \* the places of the rows: pairs of a sheet and a position
  Task,     \* what a row says: a day and a kind
  Blank     \* no row

VARIABLES
  raw,      \* raw_tasks
  norm      \* tasks_normalized

vars == <<raw, norm>>

Rows == [Slots -> Task \union {Blank}]

OfDay(table, sh, day) ==
  {s \in Slots : s[1] = sh /\ table[s] # Blank /\ table[s].day = day}

\* The raw rows of a day that can be normalized.
Good(sh, day) == {s \in OfDay(raw, sh, day) : raw[s].kind # "raises"}

Init == raw = [s \in Slots |-> Blank] /\ norm = raw

\* Parse gives a sheet new rows; none of them is normalized yet.
Refresh(sh) ==
  /\ raw' \in Rows
  /\ norm' = [s \in Slots |-> IF s[1] = sh THEN Blank ELSE norm[s]]
  /\ \A s \in Slots : s[1] # sh => raw'[s] = raw[s]

\* Normalize replaces the rows of a day by those its raw rows give now.
Normalize(sh, day) ==
  /\ \A s \in Good(sh, day) : raw[s].kind # "overflows"
  /\ norm' = [s \in Slots |->
                IF s \in Good(sh, day) THEN raw[s]
                ELSE IF s \in OfDay(norm, sh, day) THEN Blank ELSE norm[s]]
  /\ UNCHANGED raw

\* A run that read a day none of whose rows could be normalized clears it, even
\* when it comes late and the day has other rows by then.
Forget(sh, day) ==
  /\ norm' = [s \in Slots |-> IF s \in OfDay(norm, sh, day) THEN Blank ELSE norm[s]]
  /\ UNCHANGED raw

Next ==
  \E sh \in Sheets :
    Refresh(sh) \/ \E day \in Days : Normalize(sh, day) \/ Forget(sh, day)

Spec == Init /\ [][Next]_vars

\* A day is normalized as a whole, by what its raw rows say, or not at all.
WholeDays ==
  \A sh \in Sheets, day \in Days :
    LET rows == OfDay(norm, sh, day) IN
    /\ rows \in {{}, Good(sh, day)}
    /\ \A s \in rows : norm[s] = raw[s]
=============================================================================
