------------------------------- MODULE FelderaArm -------------------------------
(***************************************************************************)
(* The Feldera arm as v2/faults_v2.py fault_f drives it: replayer, pipeline *)
(* and drain, the kill in mid-replay, and the operator's recovery           *)
(* (recover_f1.sh, recover_f2.sh with _feldera_restart_pipeline.sh).        *)
(*                                                                         *)
(* The three talk through HTTP, two JSON state files and a control file;    *)
(* timing holds the protocol together.  Timely says that it does: the 30 s  *)
(* hold outlasts the replayer's notice of the dead pipeline, the bounded    *)
(* waits of the scripts end with what they wait for, and the runner's watch *)
(* on the pipeline's counters ends with its work done and its rows read.    *)
(***************************************************************************)
EXTENDS Replayer, Drain, AnswerGate

CONSTANTS Timely, MaxKills

Closing(e) == \A k \in GroundTruth : WindowEnd(k) <= e.time - Lateness

ASSUME FelderaArmAssumption ==
  /\ Timely \in BOOLEAN
  /\ MaxKills \in Nat
  /\ \E e \in Events : Closing(e)
  /\ \A e \in Events : e.time >= Lateness

VARIABLES
  op,           \* where the recovery script is: "idle" if none runs
  connects0,    \* DRAIN_CONNECTS0, n_connects when the script started
  kills

opVars == <<op, connects0, kills>>

vars == <<pipe, counts, maxTime, waterline, conn, egress, rep, todo, accepted,
          last_acked, stateFile, control, rewinds, drain, n_connects, seen, out,
          stopFile, op, connects0, kills>>

Init ==
  /\ PipeInit
  /\ ReplayerInit
  /\ DrainInit
  /\ op = "idle"
  /\ connects0 = 0
  /\ kills = 0
-----------------------------------------------------------------------------
ReplayerStep ==
  /\ \/ Post
     \/ \E t \in BucketTimes : Accept(t) \/ Ack(t)
     \/ PostFails
     \/ Resume
     \/ Done
  /\ UNCHANGED <<drainVars, opVars>>

PipelineStep == AdvanceWaterline /\ UNCHANGED <<replayerVars, drainVars, opVars>>

DrainStep ==
  /\ Connect \/ Disconnect \/ (\E k \in AlertKeys : Handle(k))
  /\ UNCHANGED <<replayerVars, opVars>>

\* At KILL_EVENT_OFFSET of the replay, with some buckets acknowledged.
Kill ==
  /\ op = "idle"
  /\ rep \in {"replay", "posting"}
  /\ todo # {}
  /\ last_acked # None
  /\ kills < MaxKills
  /\ KillPipeline
  /\ kills' = kills + 1
  /\ UNCHANGED <<replayerVars, drainVars, op, connects0>>

\* time.sleep(HOLD_S), then the script starts.
StartRecovery ==
  /\ op = "idle"
  /\ pipe = "dead"
  /\ Timely => rep = "paused"
  /\ op' = "restart"
  /\ connects0' = n_connects
  /\ UNCHANGED <<replayerVars, drainVars, pipeVars, kills>>

\* The stopped pipeline is started; Running counts only for a new
\* incarnation.
RestartPipeline ==
  /\ op = "restart"
  /\ StartPipeline
  /\ op' = "attach"
  /\ UNCHANGED <<replayerVars, drainVars, connects0, kills>>

\* The sink must have connected since the script started.
WaitAttached ==
  /\ op = "attach"
  /\ Timely => connected /\ n_connects > connects0
  /\ op' = "rewind"
  /\ UNCHANGED <<replayerVars, drainVars, pipeVars, connects0, kills>>

\* Mutant of rewind_point: the lateness is forgotten.
rewind_point_NoLateness(la) == (la \div WINDOW_SECONDS) * WINDOW_SECONDS

\* Start of the oldest window still open at la.
rewind_point(la) == ((la - Lateness) \div WINDOW_SECONDS) * WINDOW_SECONDS

\* The script computes the point from the replayer's state file.
WriteControl ==
  /\ op = "rewind"
  /\ stateFile # None
  /\ control' = rewind_point(stateFile)
  /\ op' = "idle"
  /\ UNCHANGED <<rep, todo, accepted, last_acked, stateFile, rewinds, drainVars,
                 pipeVars, connects0, kills>>

PipelineIdle == pipe = "running" /\ waterline >= maxTime - Lateness

\* rep.wait(), the watch on total_processed_records, open(stop, "w").
Stop ==
  /\ rep = "done"
  /\ ~stopFile
  /\ Timely => PipelineIdle
  /\ stopFile' = TRUE
  /\ UNCHANGED <<replayerVars, pipeVars, opVars, drain, n_connects, seen, out>>

\* The stop file exists and the last row is ten seconds old.
Exit ==
  /\ drain = "run"
  /\ stopFile
  /\ Timely => egress = {}
  /\ drain' = "exited"
  /\ UNCHANGED <<replayerVars, pipeVars, opVars, n_connects, seen, out, stopFile>>

Finished == drain = "exited" /\ UNCHANGED vars

Operator == StartRecovery \/ RestartPipeline \/ WaitAttached \/ WriteControl

Next ==
  \/ ReplayerStep
  \/ PipelineStep
  \/ DrainStep
  \/ Kill
  \/ Operator
  \/ Stop
  \/ Exit
  \/ Finished

Spec == Init /\ [][Next]_vars

\* Every process and the operator keep going; kills need not happen.
Fairness ==
  /\ WF_vars(ReplayerStep)
  /\ WF_vars(PipelineStep)
  /\ WF_vars(DrainStep)
  /\ WF_vars(Operator)
  /\ WF_vars(Stop)
  /\ WF_vars(Exit)

FairSpec == Spec /\ Fairness
-----------------------------------------------------------------------------
(* Types of all the variables.                                              *)
TypeOK ==
  /\ PipeType
  /\ ReplayerType
  /\ DrainType
  /\ op \in {"idle", "restart", "attach", "rewind"}
  /\ connects0 \in Nat
  /\ kills \in 0..MaxKills

(* What the rewind rule is for: an incarnation of the pipeline is fed whole *)
(* windows.  When it finalises a window, its count is that of the corpus,   *)
(* so each window the waterline has not reached holds exactly the failures  *)
(* already sent.                                                            *)
FedWholeWindows ==
  Timely /\ pipe = "running" /\ op = "idle" /\ rep = "replay" /\ control = None =>
    \A k \in AlertKeys :
      ~Final(k, waterline) /\ counts[k] > 0 =>
        counts[k] = Cardinality({e \in Failures(k) : e.time \notin todo})

(* What the rewind rule does not bring back: an alert can only be missing   *)
(* at the end if an event acknowledged before a failure had closed its      *)
(* window.  It was emitted and not read, or due, when the pipeline died.    *)
LostOnlyIfClosed ==
  drain = "exited" /\ Timely =>
    \A k \in GroundTruth \ Range(out) :
      \E r \in rewinds, t \in BucketTimes :
        t < r.failed_at /\ Final(k, t - Lateness)

(* PRE-REG v2, P3, F1: "30/30 with 0 duplicates if the rewind rule is       *)
(* followed".                                                               *)
RuleFollowedComplete ==
  drain = "exited" /\ Timely => GroundTruth \subseteq Range(out)

(* The arm ends: the replayer never waits forever for a control file, nor   *)
(* the script for the drain.                                                *)
Drains == <>(drain = "exited")

Promise == INSTANCE AlertArm WITH
  Expected <- GroundTruth,
  Owed     <- IF Timely /\ MaxKills = 0 THEN GroundTruth ELSE {},
  output   <- out,
  closed   <- drain = "exited"

(* The arm writes only expected alerts, however the windows were re-sent,   *)
(* each once, even one emitted before a kill and again by the new           *)
(* incarnation, and nothing after its end; without kills it closes with the *)
(* whole ground truth.                                                      *)
KeepsPromise == Promise!ArmSpec
=============================================================================
