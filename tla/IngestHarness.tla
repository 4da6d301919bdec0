----------------------------- MODULE IngestHarness -----------------------------
(***************************************************************************)
(* sdpp-ingest-throughput/run.py: one row (engine, mode) is a number of       *)
(* trials.  An engine that reads stdin is run to its exit; a tailing daemon    *)
(* does not exit by itself, so the harness polls its output file, or its read *)
(* offset and CPU time, to find the moment it has finished, and stops it.     *)
(*                                                                         *)
(* The engine is external: it reads the corpus event by event, writes the     *)
(* survivors, and may crash or hang at any time.                             *)
(***************************************************************************)
EXTENDS Integers, Sequences, FiniteSets

CONSTANTS
  Survives,       \* per event of the corpus: does the filter keep it
  TRIALS, WARMUP,
  MAX_RETRIES     \* of crashed trials, over the whole row

ASSUME IngestAssumption ==
  /\ Survives \in Seq(BOOLEAN)
  /\ TRIALS \in Nat \ {0} /\ WARMUP \in Nat /\ MAX_RETRIES \in Nat

VARIABLES
  ingestRow,    \* kind and mode of the engine, warmups to go
  trial,        \* "idle", "running", "stopping", "row_done"
  ingestor,     \* the engine: "absent", "up", "hung", "crashed", "exited"
  offset,       \* events before its read position in the corpus
  read,         \* events it has read in this trial
  buffered,     \* survivors read and not yet written
  emitted,      \* survivors in the output file
  worked,       \* it has used CPU since the last poll
  watch,        \* what the poll loop remembers
  accepted,     \* the trials that entered the summary
  crash_retries

ingestVars == <<ingestRow, trial, ingestor, offset, read, buffered, emitted,
                worked, watch, accepted, crash_retries>>

engineVars == <<ingestor, offset, read, buffered, emitted, worked>>
rowVars    == <<ingestRow, accepted, crash_retries>>

corpus_size == Len(Survives)

SurvivorsIn(n) == Cardinality({i \in 1..n : Survives[i]})

expected_survivors == SurvivorsIn(corpus_size)

NotWatching == [last_count |-> -1, stable_polls |-> 0, eof_confirms |-> 0,
                drain_stable |-> 0, completed |-> FALSE]

IngestInit ==
  /\ ingestRow = [kind |-> "none", mode |-> "none", warm |-> WARMUP]
  /\ trial = "idle" /\ ingestor = "absent" /\ offset = 0 /\ read = 0
  /\ buffered = 0 /\ emitted = 0 /\ worked = FALSE /\ watch = NotWatching
  /\ accepted = <<>> /\ crash_retries = 0

StartRow(kind, mode) ==
  /\ ingestRow.kind = "none"
  /\ ingestRow' = [ingestRow EXCEPT !.kind = kind, !.mode = mode]
  /\ UNCHANGED <<engineVars, trial, watch, accepted, crash_retries>>

\* Mutant of StartIngest: the offset an engine left in its storage directory
\* is where it goes on.
StartIngest_StaleStorage ==
  /\ ingestRow.kind # "none" /\ trial = "idle"
  /\ trial' = "running" /\ ingestor' = "up"
  /\ read' = 0 /\ buffered' = 0 /\ emitted' = 0 /\ worked' = FALSE
  /\ watch' = NotWatching
  /\ UNCHANGED <<rowVars, offset>>

\* cmd_files and the head of _run_daemon_timed, or of _run_timed: storage
\* and output of the trial before are wiped.
StartIngest ==
  /\ ingestRow.kind # "none" /\ trial = "idle"
  /\ trial' = "running" /\ ingestor' = "up"
  /\ offset' = 0 /\ read' = 0 /\ buffered' = 0 /\ emitted' = 0 /\ worked' = FALSE
  /\ watch' = NotWatching
  /\ UNCHANGED rowVars
-----------------------------------------------------------------------------
EngineUp == trial = "running" /\ ingestor = "up"

Reads ==
  /\ EngineUp /\ offset < corpus_size
  /\ offset' = offset + 1 /\ read' = read + 1
  /\ buffered' = buffered + (IF Survives[offset + 1] THEN 1 ELSE 0)
  /\ worked' = TRUE
  /\ UNCHANGED <<rowVars, trial, ingestor, emitted, watch>>

Writes ==
  /\ EngineUp /\ buffered > 0
  /\ buffered' = buffered - 1 /\ emitted' = emitted + 1 /\ worked' = TRUE
  /\ UNCHANGED <<rowVars, trial, ingestor, offset, read, watch>>

\* Only an engine on stdin ends at the end of its input.
Exits ==
  /\ EngineUp /\ ingestRow.kind = "stdin"
  /\ offset = corpus_size /\ buffered = 0
  /\ ingestor' = "exited"
  /\ UNCHANGED <<rowVars, trial, offset, read, buffered, emitted, worked, watch>>

Breaks(how) ==
  /\ EngineUp
  /\ ingestor' = how
  /\ UNCHANGED <<rowVars, trial, offset, read, buffered, emitted, worked, watch>>
-----------------------------------------------------------------------------
\* subprocess.run returns, with the exit code of the engine.
StdinEnds ==
  /\ trial = "running" /\ ingestRow.kind = "stdin"
  /\ ingestor \in {"exited", "crashed"}
  /\ watch' = [watch EXCEPT !.completed = ingestor = "exited"]
  /\ trial' = "stopping"
  /\ UNCHANGED <<rowVars, engineVars>>

Polling == trial = "running" /\ ingestRow.kind = "daemon"

\* proc.poll() is not None: the trial counts as completed.
PollSeesExit ==
  /\ Polling /\ ingestor = "crashed"
  /\ watch' = [watch EXCEPT !.completed = TRUE]
  /\ trial' = "stopping"
  /\ UNCHANGED <<rowVars, engineVars>>

\* elapsed > max_wall_s
PollGivesUp ==
  /\ Polling /\ ingestor # "crashed"
  /\ trial' = "stopping"
  /\ UNCHANGED <<rowVars, engineVars, watch>>

\* The loop is left when w is complete.
Polled(w) ==
  /\ watch' = w
  /\ trial' = IF w.completed THEN "stopping" ELSE "running"
  /\ worked' = FALSE
  /\ UNCHANGED <<rowVars, ingestor, offset, read, buffered, emitted>>

\* The number of survivors in the file, three times the same and enough.
PollFile ==
  /\ Polling /\ ingestor # "crashed" /\ ingestRow.mode = "file"
  /\ LET n == IF emitted >= expected_survivors /\ emitted = watch.last_count
                THEN watch.stable_polls + 1 ELSE 0
     IN Polled([watch EXCEPT !.stable_polls = n, !.last_count = emitted,
                             !.completed = n >= 3])

\* The read position, twice at the end of the file; a blank reading of /proc
\* (None) starts over.
PollOffset(blank) ==
  /\ Polling /\ ingestor # "crashed" /\ ingestRow.mode = "discard"
  /\ watch.eof_confirms < 2
  /\ Polled([watch EXCEPT !.eof_confirms =
               IF ~blank /\ offset >= corpus_size THEN @ + 1 ELSE 0])

\* Then the CPU time: two polls in which it grew by at most one tick, which
\* little work may do as well as none.
PollDrain(settled) ==
  /\ Polling /\ ingestor # "crashed" /\ ingestRow.mode = "discard"
  /\ watch.eof_confirms = 2
  /\ worked \/ settled
  /\ LET n == IF settled THEN watch.drain_stable + 1 ELSE 0
     IN Polled([watch EXCEPT !.drain_stable = n, !.completed = n >= 2])
-----------------------------------------------------------------------------
Result(survivors) == [survivors |-> survivors, read |-> read,
                      alone |-> ingestor = "crashed"]

\* SIGTERM, on which the engine may flush, or SIGKILL; the survivors are
\* counted; the trial is summed up, tried again, or the row is given up.
EndTrial ==
  /\ trial = "stopping"
  /\ ingestor' = "absent"
  /\ IF ingestRow.warm > 0
       THEN /\ ingestRow' = [ingestRow EXCEPT !.warm = @ - 1]
            /\ trial' = "idle"
            /\ UNCHANGED <<accepted, crash_retries>>
       ELSE /\ UNCHANGED ingestRow
            /\ \/ /\ watch.completed
                  /\ \E flushed \in 0..(IF ingestor = "up" THEN buffered ELSE 0) :
                       accepted' = Append(accepted, Result(emitted + flushed))
                  /\ trial' = IF Len(accepted) + 1 = TRIALS THEN "row_done" ELSE "idle"
                  /\ UNCHANGED crash_retries
               \/ /\ ~watch.completed
                  /\ crash_retries' = crash_retries + 1
                  /\ trial' = IF crash_retries < MAX_RETRIES THEN "idle" ELSE "row_done"
                  /\ UNCHANGED accepted
  /\ UNCHANGED <<offset, read, buffered, emitted, worked, watch>>

IngestNext ==
  \/ \E kind \in {"stdin", "daemon"}, mode \in {"file", "discard"} : StartRow(kind, mode)
  \/ StartIngest
  \/ Reads \/ Writes \/ Exits
  \/ \E how \in {"hung", "crashed"} : Breaks(how)
  \/ StdinEnds
  \/ PollSeesExit \/ PollGivesUp \/ PollFile
  \/ \E blank \in BOOLEAN : PollOffset(blank)
  \/ \E settled \in BOOLEAN : PollDrain(settled)
  \/ EndTrial

\* The harness runs; an engine may hang but not loop: it exits, crashes,
\* hangs, or goes on.
IngestFairness ==
  /\ WF_ingestVars(\E kind \in {"stdin", "daemon"}, mode \in {"file", "discard"} :
                     StartRow(kind, mode))
  /\ WF_ingestVars(StartIngest)
  /\ WF_ingestVars(Reads \/ Writes \/ Exits)
  /\ WF_ingestVars(StdinEnds)
  /\ WF_ingestVars(PollSeesExit)
  /\ WF_ingestVars(PollGivesUp)
  /\ WF_ingestVars(EndTrial)
-----------------------------------------------------------------------------
(* What the polls take for the end is the end: a trial whose engine did not     *)
(* die has read the whole corpus, in this trial and not in one before, and has  *)
(* written every survivor once.  A tailing daemon is held to one of the two:   *)
(* what follows the last survivor it may not have read when its output file    *)
(* is complete, and what it discards is not counted.  An engine that died has   *)
(* an accepted trial only if it is a daemon, which the poll loop takes for     *)
(* completed wherever it was; it has written no survivor twice.              *)
AcceptedMeansFinished ==
  \A i \in DOMAIN accepted :
    LET t == accepted[i]
    IN IF t.alone
         THEN ingestRow.kind = "daemon" /\ t.survivors <= SurvivorsIn(t.read)
         ELSE /\ ingestRow.kind = "stdin" \/ ingestRow.mode = "discard" => t.read = corpus_size
              /\ ingestRow.kind = "stdin" \/ ingestRow.mode = "file" =>
                   t.survivors = expected_survivors

(* A row ends: a daemon that hangs costs max_wall_s and one of the bounded     *)
(* retries.  An engine on stdin that hangs is waited for without a deadline.  *)
RowEnds == <>(trial = "row_done" \/ (ingestRow.kind = "stdin" /\ ingestor = "hung"))
=============================================================================
