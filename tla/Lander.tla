-------------------------------- MODULE Lander --------------------------------
(***************************************************************************)
(* The replay process that lands one Parquet file per window of event time: *)
(* batch/land_microbatches.py, and v2/land_faulty.py which perturbs the     *)
(* file of one window.  Files are landed in window order, each when its     *)
(* window has elapsed on the replay clock.                                  *)
(***************************************************************************)
EXTENDS MicroBatchDir

VARIABLES
  unlanded,     \* windows the replay loop has not reached
  holding,      \* the release_held thread waits with HoldWindow's rows
  replacing     \* the truncated_then_replace thread sleeps

landerVars == <<unlanded, holding, replacing>>

LanderType ==
  /\ unlanded \subseteq Files
  /\ holding \in BOOLEAN
  /\ replacing \in BOOLEAN

LanderInit ==
  /\ unlanded = Files
  /\ holding = FALSE
  /\ replacing = FALSE

NextWindow(w) == w \in unlanded /\ \A v \in unlanded : w <= v

\* _write_window_file: write under a temporary name, then rename into place.
WriteWindowFile(w) == dir' = [dir EXCEPT ![w] = "complete"]

\* land, the ordinary branch: the window's file appears whole.
Land(w) ==
  /\ NextWindow(w)
  /\ w \notin {HoldWindow, TruncateWindow}
  /\ WriteWindowFile(w)
  /\ unlanded' = unlanded \ {w}
  /\ UNCHANGED <<stateFile, holding, replacing>>

\* land, --hold-window: nothing is written, a release_held thread starts.
HoldBack(w) ==
  /\ NextWindow(w)
  /\ w = HoldWindow
  /\ holding' = TRUE
  /\ unlanded' = unlanded \ {w}
  /\ UNCHANGED <<dir, stateFile, replacing>>

\* release_held: lands the file once the saved state is two windows past it.
ReleaseHeld ==
  /\ holding
  /\ stateFile.last >= HoldWindow + 2
  /\ WriteWindowFile(HoldWindow)
  /\ holding' = FALSE
  /\ UNCHANGED <<stateFile, unlanded, replacing>>

\* land, --truncate-window: half of the bytes go straight to the final name.
Truncate(w) ==
  /\ NextWindow(w)
  /\ w = TruncateWindow
  /\ dir' = [dir EXCEPT ![w] = "truncated"]
  /\ replacing' = TRUE
  /\ unlanded' = unlanded \ {w}
  /\ UNCHANGED <<stateFile, holding>>

\* truncated_then_replace, after its sleep: the whole file replaces the half.
Replace ==
  /\ replacing
  /\ WriteWindowFile(TruncateWindow)
  /\ replacing' = FALSE
  /\ UNCHANGED <<stateFile, unlanded, holding>>
=============================================================================
