------------------------------- MODULE FlinkJob -------------------------------
(***************************************************************************)
(* streaming/flink_job.sql on the cluster of streaming/docker-compose.yml:  *)
(* a Kafka source with a watermark Lateness behind the newest event, a      *)
(* tumbling count per (user, src_ip) filtered by the threshold, an         *)
(* at-least-once Kafka sink, periodic checkpoints and a restart from the    *)
(* last of them.  Parallelism is 1.  The engine is external; the statement  *)
(* and the settings that choose these behaviours are the code modelled.     *)
(***************************************************************************)
EXTENDS Kafka

CONSTANT Lateness   \* WATERMARK FOR event_time AS event_time - INTERVAL '2' SECOND

ASSUME FlinkAssumption == Lateness \in Nat

VARIABLES
  tm,           \* smx-taskmanager: "up" or "down"
  pos,          \* records of smx-auth read so far
  counts,       \* [AlertKeys -> Nat]: COUNT(*) of each open window
  maxTime,      \* newest event time read since the job (re)started
  watermark,
  sinkBuf,      \* fired, not yet acknowledged by smx-alerts
  checkpoint    \* the last completed checkpoint

flinkVars == <<tm, pos, counts, maxTime, watermark, sinkBuf, checkpoint>>

NoCounts == [k \in AlertKeys |-> 0]

FlinkType ==
  /\ tm \in {"up", "down"}
  /\ pos \in 0..Len(authLog)
  /\ counts \in [AlertKeys -> 0..Len(authLog)]
  /\ maxTime \in Nat
  /\ watermark \in Nat
  /\ sinkBuf \subseteq AlertKeys
  /\ checkpoint.pos \in 0..Len(authLog)
  /\ checkpoint.counts \in [AlertKeys -> 0..Len(authLog)]
  /\ checkpoint.watermark \in Nat

FlinkInit ==
  /\ tm = "up"
  /\ pos = 0
  /\ counts = NoCounts
  /\ maxTime = 0
  /\ watermark = 0
  /\ sinkBuf = {}
  /\ checkpoint = [pos |-> 0, counts |-> NoCounts, watermark |-> 0]
-----------------------------------------------------------------------------
\* WHERE status = 'failure', and the window is not closed.
Counted(e) == e.status = "failure" /\ watermark < WindowEnd(AlertKey(e))

\* The source reads one event and the window operator counts it.
Consume ==
  /\ tm = "up"
  /\ broker = "up"
  /\ pos < Len(authLog)
  /\ LET e == authLog[pos + 1] IN
       /\ counts' = IF Counted(e) THEN [counts EXCEPT ![AlertKey(e)] = @ + 1]
                                  ELSE counts
       /\ maxTime' = IF e.time > maxTime THEN e.time ELSE maxTime
  /\ pos' = pos + 1
  /\ UNCHANGED <<tm, watermark, sinkBuf, checkpoint, kafkaVars>>

Closed(k, wm) == WindowEnd(k) <= wm

\* Mutant of Fired: the HAVING threshold is one short.
Fired_OneShort(wm) ==
  {k \in AlertKeys : Closed(k, wm) /\ counts[k] > 0 /\ counts[k] >= FAILURE_THRESHOLD - 1}

Fired(wm) == {k \in AlertKeys : Closed(k, wm) /\ counts[k] >= FAILURE_THRESHOLD}

\* The periodic watermark: windows that it closes fire and are dropped.
AdvanceWatermark ==
  /\ tm = "up"
  /\ maxTime - Lateness > watermark
  /\ watermark' = maxTime - Lateness
  /\ sinkBuf' = sinkBuf \cup Fired(watermark')
  /\ counts' = [k \in AlertKeys |-> IF Closed(k, watermark') THEN 0 ELSE counts[k]]
  /\ UNCHANGED <<tm, pos, maxTime, checkpoint, kafkaVars>>

\* alerts_sink: one record written and acknowledged, in window order.
SinkSend(k) ==
  /\ tm = "up"
  /\ broker = "up"
  /\ k \in sinkBuf
  /\ \A j \in sinkBuf : k[2] <= j[2]
  /\ alertLog' = Append(alertLog, k)
  /\ sinkBuf' = sinkBuf \ {k}
  /\ UNCHANGED <<tm, pos, counts, maxTime, watermark, checkpoint, broker, authLog>>

\* Mutant of Checkpoint: a sink with delivery guarantee 'none' is not
\* flushed.
Checkpoint_NoFlush ==
  /\ tm = "up"
  /\ checkpoint' = [pos |-> pos, counts |-> counts, watermark |-> watermark]
  /\ checkpoint' # checkpoint
  /\ UNCHANGED <<tm, pos, counts, maxTime, watermark, sinkBuf, kafkaVars>>

\* Every 10 s: source offset, window state and watermark, once the sink has
\* flushed everything fired before the barrier.
Checkpoint ==
  /\ tm = "up"
  /\ sinkBuf = {}
  /\ checkpoint' = [pos |-> pos, counts |-> counts, watermark |-> watermark]
  /\ checkpoint' # checkpoint
  /\ UNCHANGED <<tm, pos, counts, maxTime, watermark, sinkBuf, kafkaVars>>

\* faults/kill_taskmanager.sh.
KillTaskmanager ==
  /\ tm = "up"
  /\ tm' = "down"
  /\ sinkBuf' = {}
  /\ UNCHANGED <<pos, counts, maxTime, watermark, checkpoint, kafkaVars>>

\* Mutant of RestoreJob: the restored job reads from earliest-offset again.
RestoreJob_FromEarliest ==
  /\ tm = "down"
  /\ tm' = "up"
  /\ pos' = 0
  /\ counts' = checkpoint.counts
  /\ watermark' = checkpoint.watermark
  /\ maxTime' = 0
  /\ UNCHANGED <<sinkBuf, checkpoint, kafkaVars>>

\* faults/recover_taskmanager.sh, then the restart strategy: the job goes
\* on from the checkpoint; the watermark generator starts from nothing.
RestoreJob ==
  /\ tm = "down"
  /\ tm' = "up"
  /\ pos' = checkpoint.pos
  /\ counts' = checkpoint.counts
  /\ watermark' = checkpoint.watermark
  /\ maxTime' = 0
  /\ UNCHANGED <<sinkBuf, checkpoint, kafkaVars>>
=============================================================================
