----------------------------- MODULE MicroBatchDir -----------------------------
(***************************************************************************)
(* The directory data/batch_in/ through which the lander and the batch job  *)
(* interact: one Parquet file per window, and the job's state file.         *)
(*                                                                         *)
(* A row is normally filed under its own window.  Spill[e] = 1 puts row e   *)
(* in the next file instead: the "window's rows landing split across two    *)
(* physical files" that the batch job's look-back is there for.  The        *)
(* landers under src/ never spill.                                          *)
(***************************************************************************)
EXTENDS Detection, Functions

CONSTANTS
  Spill,            \* [Events -> {0, 1}]
  HoldWindow,       \* land_faulty --hold-window, None if not given
  TruncateWindow    \* land_faulty --truncate-window, None if not given

None == 0           \* Python's None for a window: real windows are epoch minutes

ASSUME DirAssumption ==
  /\ Spill \in [Events -> {0, 1}]
  /\ HoldWindow \in Nat
  /\ TruncateWindow \in Nat
  /\ HoldWindow = None \/ HoldWindow # TruncateWindow

FileOf(e) == window_index(e) + Spill[e]

Files == {FileOf(e) : e \in Events}

RowsIn(files) == {e \in Events : FileOf(e) \in files}

VARIABLES
  dir,        \* [Files -> "absent" | "truncated" | "complete"]: window-*.parquet
  stateFile   \* .batch_state.json; a missing file reads as [last None, seen {}]

windows_present == {w \in Files : dir[w] # "absent"}

DirType ==
  /\ dir \in [Files -> {"absent", "truncated", "complete"}]
  /\ stateFile \in [last : Files \cup {None}, seen : SUBSET AlertKeys]

DirInit ==
  /\ dir = [w \in Files |-> "absent"]
  /\ stateFile = [last |-> None, seen |-> {}]
=============================================================================
