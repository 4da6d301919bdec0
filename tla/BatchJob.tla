------------------------------- MODULE BatchJob -------------------------------
(***************************************************************************)
(* batch/batch_job.py: the bare polling process of the batch arm.  Each     *)
(* tick lists the directory, queries the files newer than the last one      *)
(* processed together with the one just before them, appends one fsync'd    *)
(* line per new alert, and saves its state.  A tick is a sequence of steps  *)
(* because the process can be killed, and the lander can act, between any   *)
(* two of them.                                                             *)
(***************************************************************************)
EXTENDS MicroBatchDir, Sequences

CONSTANT max_idle_ticks

ASSUME JobAssumption == max_idle_ticks \in Nat \ {0}

VARIABLES
  pc,           \* where the process is, or how it ended
  last,         \* last_window_processed
  seen_keys,
  idle_ticks,
  ever_processed,
  candidate,    \* candidate_windows of the tick in progress
  pending,      \* rows of the query not yet in seen_keys and not yet appended
  out           \* alerts-batch.jsonl, as the sequence of its keys

jobVars == <<pc, last, seen_keys, idle_ticks, ever_processed, candidate,
             pending, out>>

Running == pc \in {"list", "scan", "emit"}

JobType ==
  /\ pc \in {"down", "list", "scan", "emit", "killed", "failed", "exited"}
  /\ last \in Files \cup {None}
  /\ seen_keys \subseteq AlertKeys
  /\ idle_ticks \in 0..max_idle_ticks
  /\ ever_processed \in BOOLEAN
  /\ candidate \subseteq Files
  /\ pending \subseteq AlertKeys
  /\ out \in Seq(AlertKeys)

JobInit ==
  /\ pc = "down"
  /\ last = None
  /\ seen_keys = {}
  /\ idle_ticks = 0
  /\ ever_processed = FALSE
  /\ candidate = {}
  /\ pending = {}
  /\ out = <<>>
-----------------------------------------------------------------------------
\* Mutant of Load: trusts the state file alone.
Load_StateFileOnly ==
  /\ last' = stateFile.last
  /\ seen_keys' = stateFile.seen

\* load_state, and reload_seen_from_output over the alerts file itself.
Load ==
  /\ last' = stateFile.last
  /\ seen_keys' = stateFile.seen \cup Range(out)

\* Mutant of Start: forgets what an earlier process had processed.
Start_NeverProcessed ==
  /\ Load
  /\ idle_ticks' = 0
  /\ ever_processed' = FALSE
  /\ pc' = "list"
  /\ UNCHANGED <<candidate, pending, out, dir, stateFile>>

\* main up to the loop.
Start ==
  /\ Load
  /\ idle_ticks' = 0
  /\ ever_processed' = (stateFile.last # None)
  /\ pc' = "list"
  /\ UNCHANGED <<candidate, pending, out, dir, stateFile>>

\* Mutant of new_windows: the last window counts as new again.
new_windows_Again == {w \in windows_present : last = None \/ w >= last}

new_windows == {w \in windows_present : last = None \/ w > last}

\* The window just before the oldest new one, if its file is there.
lookback ==
  {w \in windows_present :
     /\ last # None
     /\ w + 1 \in new_windows
     /\ \A v \in new_windows : w < v}

\* Mutant of Query: HAVING COUNT(*) > FAILURE_THRESHOLD - 2.
Query_OneShort(rows) ==
  {k \in AlertKeys : Cardinality(Failures(k) \cap rows) >= FAILURE_THRESHOLD - 1}

\* SELECT ... WHERE failure GROUP BY user, src_ip, window HAVING COUNT(*) >= 5
Query(rows) ==
  {k \in AlertKeys : Cardinality(Failures(k) \cap rows) >= FAILURE_THRESHOLD}

\* run_tick up to the query, with something new in the directory.
List ==
  /\ pc = "list"
  /\ new_windows # {}
  /\ candidate' = new_windows \cup lookback
  /\ pc' = "scan"
  /\ UNCHANGED <<last, seen_keys, idle_ticks, ever_processed, pending, out,
                 dir, stateFile>>

\* run_tick returns n_files = 0: an idle tick, and the drain test of main.
IdleTick ==
  /\ pc = "list"
  /\ new_windows = {}
  /\ idle_ticks' = IF idle_ticks < max_idle_ticks THEN idle_ticks + 1
                                                  ELSE idle_ticks
  /\ pc' = IF ever_processed /\ idle_ticks' >= max_idle_ticks
             THEN "exited" ELSE "list"
  /\ UNCHANGED <<last, seen_keys, ever_processed, candidate, pending, out,
                 dir, stateFile>>

\* The query reads the files as they are now, after the listing.
Scan ==
  /\ pc = "scan"
  /\ \A w \in candidate : dir[w] = "complete"
  /\ pending' = Query(RowsIn(candidate)) \ seen_keys
  /\ pc' = "emit"
  /\ UNCHANGED <<last, seen_keys, idle_ticks, ever_processed, candidate, out,
                 dir, stateFile>>

Forget ==
  /\ last' = None
  /\ seen_keys' = {}
  /\ idle_ticks' = 0
  /\ ever_processed' = FALSE
  /\ candidate' = {}
  /\ pending' = {}

\* read_parquet raises on a truncated file; nothing in main catches it.
ScanFails ==
  /\ pc = "scan"
  /\ \E w \in candidate : dir[w] = "truncated"
  /\ pc' = "failed"
  /\ Forget
  /\ UNCHANGED <<out, dir, stateFile>>

\* One row of the result, in window order: append, flush, fsync, remember.
Emit(k) ==
  /\ pc = "emit"
  /\ k \in pending
  /\ \A j \in pending : k[2] <= j[2]
  /\ out' = Append(out, k)
  /\ seen_keys' = seen_keys \cup {k}
  /\ pending' = pending \ {k}
  /\ UNCHANGED <<pc, last, idle_ticks, ever_processed, candidate, dir, stateFile>>

\* Mutant of Save: the state is saved before the rows are appended.
Save_BeforeAppend ==
  /\ pc = "emit"
  /\ \E new_last \in candidate :
       /\ \A w \in candidate : w <= new_last
       /\ last' = new_last
       /\ stateFile' = [last |-> new_last, seen |-> seen_keys]
  /\ ever_processed' = TRUE
  /\ idle_ticks' = 0
  /\ candidate' = {}
  /\ pc' = IF pending = {} THEN "list" ELSE "emit"
  /\ UNCHANGED <<seen_keys, pending, out, dir>>

\* Mutant of Save: idle ticks add up over the whole run.
Save_NoIdleReset ==
  /\ pc = "emit"
  /\ pending = {}
  /\ \E new_last \in candidate :
       /\ \A w \in candidate : w <= new_last
       /\ last' = new_last
       /\ stateFile' = [last |-> new_last, seen |-> seen_keys]
  /\ ever_processed' = TRUE
  /\ candidate' = {}
  /\ pc' = "list"
  /\ UNCHANGED <<seen_keys, idle_ticks, pending, out, dir>>

\* Mutant of Save: saves the next window to expect instead of the last one.
Save_NextWindow ==
  /\ pc = "emit"
  /\ pending = {}
  /\ \E new_last \in candidate :
       /\ \A w \in candidate : w <= new_last
       /\ last' = new_last + 1
       /\ stateFile' = [last |-> new_last + 1, seen |-> seen_keys]
  /\ ever_processed' = TRUE
  /\ idle_ticks' = 0
  /\ candidate' = {}
  /\ pc' = "list"
  /\ UNCHANGED <<seen_keys, pending, out, dir>>

\* The end of run_tick and the n_files > 0 branch of main; save_state
\* replaces the state file atomically.
Save ==
  /\ pc = "emit"
  /\ pending = {}
  /\ \E new_last \in candidate :
       /\ \A w \in candidate : w <= new_last
       /\ last' = new_last
       /\ stateFile' = [last |-> new_last, seen |-> seen_keys]
  /\ ever_processed' = TRUE
  /\ idle_ticks' = 0
  /\ candidate' = {}
  /\ pc' = "list"
  /\ UNCHANGED <<seen_keys, pending, out, dir>>

\* SIGKILL: the files stay as they are, the memory is gone.
Kill ==
  /\ Running
  /\ pc' = "killed"
  /\ Forget
  /\ UNCHANGED <<out, dir, stateFile>>
=============================================================================
