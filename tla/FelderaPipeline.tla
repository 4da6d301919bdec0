---------------------------- MODULE FelderaPipeline ----------------------------
(***************************************************************************)
(* feldera/detection.sql run by the open-source Feldera image: records come *)
(* in by HTTP, a waterline follows the newest event at a distance, windows  *)
(* it passes are emitted once (emit_final) to whoever is connected to the   *)
(* egress stream.  Nothing is kept: a killed pipeline comes back empty and  *)
(* its egress rows are gone.  The engine is external; the SQL program, the  *)
(* adapters and the scripts that rely on these behaviours are the code      *)
(* modelled.                                                                *)
(***************************************************************************)
EXTENDS Detection, Sequences, Functions

CONSTANT Lateness   \* LATENESS auth_ts.event_time INTERVAL 2 SECONDS

ASSUME FelderaAssumption == Lateness \in Nat

VARIABLES
  pipe,         \* the pipeline process: "running" or "dead"
  counts,       \* [AlertKeys -> Nat]: COUNT of each window not yet final
  maxTime,      \* newest event time of this incarnation
  waterline,
  conn,         \* egress connection of the drain: "live", "broken" or "none"
  egress        \* rows sent on that connection and not yet read

pipeVars == <<pipe, counts, maxTime, waterline, conn, egress>>

NoCounts == [k \in AlertKeys |-> 0]

PipeType ==
  /\ pipe \in {"running", "dead"}
  /\ counts \in [AlertKeys -> 0..Cardinality(Events)]
  /\ maxTime \in Nat
  /\ waterline \in Nat
  /\ conn \in {"live", "broken", "none"}
  /\ egress \subseteq AlertKeys

Empty ==
  /\ counts' = NoCounts
  /\ maxTime' = 0
  /\ waterline' = 0

\* deploy_pipeline.sh; the runner waits for the drain to be connected.
PipeInit ==
  /\ pipe = "running"
  /\ counts = NoCounts
  /\ maxTime = 0
  /\ waterline = 0
  /\ conn = "live"
  /\ egress = {}
-----------------------------------------------------------------------------
\* The records of one POST: failures are counted unless they are late.
Ingest(t) ==
  /\ pipe = "running"
  /\ counts' = [k \in AlertKeys |->
       counts[k] + IF t < waterline THEN 0
                   ELSE Cardinality({e \in Failures(k) : e.time = t})]
  /\ maxTime' = IF t > maxTime THEN t ELSE maxTime
  /\ UNCHANGED <<pipe, waterline, conn, egress>>

Final(k, wl) == WindowEnd(k) <= wl

Emitted(wl) == {k \in AlertKeys : Final(k, wl) /\ counts[k] >= FAILURE_THRESHOLD}

\* The pipeline works off its input; rows emitted while no client is
\* connected are lost.
AdvanceWaterline ==
  /\ pipe = "running"
  /\ maxTime - Lateness > waterline
  /\ waterline' = maxTime - Lateness
  /\ egress' = IF conn = "live" THEN egress \cup Emitted(waterline') ELSE egress
  /\ counts' = [k \in AlertKeys |-> IF Final(k, waterline') THEN 0 ELSE counts[k]]
  /\ UNCHANGED <<pipe, maxTime, conn>>

\* docker kill (F1) or SIGKILL of the process (F2).
KillPipeline ==
  /\ pipe = "running"
  /\ pipe' = "dead"
  /\ Empty
  /\ conn' = IF conn = "live" THEN "broken" ELSE conn
  /\ UNCHANGED egress

\* The operator's start: a new incarnation.
StartPipeline ==
  /\ pipe = "dead"
  /\ pipe' = "running"
  /\ Empty
  /\ UNCHANGED <<conn, egress>>
=============================================================================
