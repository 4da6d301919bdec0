------------------------------- MODULE StreamArm -------------------------------
(***************************************************************************)
(* The streaming arm as the runners drive it (v2/run_trial_v2.sh,           *)
(* v2/faults_v2.py fault_s): producer, broker, Flink job and consumer, the  *)
(* docker kills of broker and taskmanager in mid-replay, their recovery     *)
(* scripts, and the stop file.                                              *)
(*                                                                         *)
(* The runner takes three equal samples, 15 s apart, of the end of          *)
(* smx-alerts for the end of the job's work.  Prompt says that it is: a job *)
(* that has anything left to do moves the end within that time.  Without it *)
(* the runner may also stop early, which kills.early records.  The first     *)
(* fault runner, faults/run_faults.py, stops nothing: IdleTimeout says that   *)
(* the consumer's timeout is short enough to run out in a gap of the alerts. *)
(***************************************************************************)
EXTENDS Producer, FlinkJob, AlertConsumer, AnswerGate

CONSTANTS
  Prompt,             \* see above
  IdleTimeout,
  MaxBrokerKills,     \* bounds on the kills of one run
  MaxTMKills,
  MaxConsumerKills

(***************************************************************************)
(* gen_corpus._windows_available plants no burst in the last two windows:   *)
(* the last event closes the window of every alert.                         *)
(***************************************************************************)
Closing(e) == \A k \in GroundTruth : WindowEnd(k) <= e.time - Lateness

ASSUME StreamAssumption ==
  /\ Prompt \in BOOLEAN
  /\ IdleTimeout \in BOOLEAN
  /\ MaxBrokerKills \in Nat
  /\ MaxTMKills \in Nat
  /\ MaxConsumerKills \in Nat
  /\ \E e \in Events : Closing(e) /\ \A d \in Events : ~Before(e, d)

VARIABLE kills    \* of each of the three; and whether the consumer was ended early

vars == <<prod, unsent, queue, errors, broker, authLog, alertLog, tm, pos,
          counts, maxTime, watermark, sinkBuf, checkpoint, cons, fetch,
          committed, seen, row, savedSeen, out, stopFile, kills>>

Init ==
  /\ KafkaInit
  /\ ProducerInit
  /\ FlinkInit
  /\ ConsumerInit
  /\ kills = [broker |-> 0, tm |-> 0, consumer |-> 0, early |-> FALSE]
-----------------------------------------------------------------------------
ProducerStep ==
  /\ \/ \E e \in Events : Produce(e)
     \/ QueueFull
     \/ Flush
     \/ Deliver
     \/ Expire
     \/ Finish
  /\ UNCHANGED <<flinkVars, consumerVars, kills>>

JobStep ==
  /\ Consume \/ AdvanceWatermark \/ (\E k \in AlertKeys : SinkSend(k)) \/ Checkpoint
  /\ UNCHANGED <<prodVars, consumerVars, kills>>

ConsumerStep ==
  /\ Poll \/ Write \/ SaveSeen \/ Commit \/ Exit
  /\ UNCHANGED <<prodVars, flinkVars, kills>>

\* The runner waits for KILL_EVENT_OFFSET of the replay, then runs one of
\* the kill scripts: the end of the corpus is still to come.
MidReplay == prod = "replay" /\ unsent # {}

KillsBroker ==
  /\ MidReplay
  /\ kills.broker < MaxBrokerKills
  /\ KillBroker(queue, sinkBuf)
  /\ kills' = [kills EXCEPT !.broker = @ + 1]
  /\ UNCHANGED <<prodVars, flinkVars, consumerVars>>

KillsTaskmanager ==
  /\ MidReplay
  /\ kills.tm < MaxTMKills
  /\ KillTaskmanager
  /\ kills' = [kills EXCEPT !.tm = @ + 1]
  /\ UNCHANGED <<prodVars, consumerVars>>

KillsConsumer ==
  /\ kills.consumer < MaxConsumerKills
  /\ KillConsumer
  /\ kills' = [kills EXCEPT !.consumer = @ + 1]
  /\ UNCHANGED <<prodVars, flinkVars>>

RecoversBroker ==
  StartBroker /\ UNCHANGED <<prodVars, flinkVars, consumerVars, kills>>

RecoversTaskmanager ==
  RestoreJob /\ UNCHANGED <<prodVars, consumerVars, kills>>

RestartsConsumer ==
  RestartConsumer /\ UNCHANGED <<prodVars, flinkVars, kills>>

JobDrained ==
  /\ broker = "up"
  /\ tm = "up"
  /\ pos = Len(authLog)
  /\ watermark >= maxTime - Lateness
  /\ sinkBuf = {}

\* Mutant of Stop: the stop file is written when the producer has exited.
Stop_AtOnce ==
  /\ prod \in {"done", "crashed"}
  /\ ~stopFile
  /\ stopFile' = TRUE
  /\ UNCHANGED <<prodVars, flinkVars, kafkaVars, kills, cons, fetch, committed,
                 seen, row, savedSeen, out>>

\* prod.wait(), the watch on the end of smx-alerts, open(stop, "w").
Stop ==
  /\ prod \in {"done", "crashed"}
  /\ ~stopFile
  /\ Prompt => JobDrained
  /\ stopFile' = TRUE
  /\ kills' = [kills EXCEPT !.early = @ \/ ~JobDrained]
  /\ UNCHANGED <<prodVars, flinkVars, kafkaVars, cons, fetch, committed, seen,
                 row, savedSeen, out>>

\* The idle timeout runs out, which is early unless all is done.
IdlesOut ==
  /\ IdleTimeout
  /\ IdleExit
  /\ kills' = [kills EXCEPT !.early = @ \/ ~(JobDrained /\ prod \in {"done", "crashed"})]
  /\ UNCHANGED <<prodVars, flinkVars>>

\* The consumer has exited and nobody waits for the rest.
Finished ==
  /\ cons = "exited"
  /\ prod \in {"done", "crashed"}
  /\ UNCHANGED vars

Next ==
  \/ ProducerStep
  \/ JobStep
  \/ ConsumerStep
  \/ KillsBroker
  \/ KillsTaskmanager
  \/ KillsConsumer
  \/ RecoversBroker
  \/ RecoversTaskmanager
  \/ RestartsConsumer
  \/ Stop
  \/ IdlesOut
  \/ Finished

Spec == Init /\ [][Next]_vars

\* Every process runs, what was killed is recovered; the exit of the
\* consumer and the checkpoints happen between its other steps.
Fairness ==
  /\ WF_vars(ProducerStep)
  /\ WF_vars(JobStep)
  /\ WF_vars((Poll \/ Write \/ SaveSeen) /\ UNCHANGED <<prodVars, flinkVars, kills>>)
  /\ WF_vars(Exit /\ UNCHANGED <<prodVars, flinkVars, kills>>)
  /\ WF_vars(RecoversBroker)
  /\ WF_vars(RecoversTaskmanager)
  /\ WF_vars(RestartsConsumer)
  /\ WF_vars(JobDrained /\ Stop)

FairSpec == Spec /\ Fairness
-----------------------------------------------------------------------------
(* Types of all the variables: producer, topics, job, consumer, kills.      *)
TypeOK ==
  /\ KafkaType
  /\ ProducerType
  /\ FlinkType
  /\ ConsumerType
  /\ kills.broker \in 0..MaxBrokerKills
  /\ kills.tm \in 0..MaxTMKills
  /\ kills.consumer \in 0..MaxConsumerKills
  /\ kills.early \in BOOLEAN

(* The window counts of the job are the counts of what lies before its      *)
(* offset, in the state and in the checkpoint alike, as long as the window  *)
(* is open and the broker has not made the producer send twice.             *)
CountsMatchOffset ==
  \A s \in {[pos |-> pos, counts |-> counts, watermark |-> watermark], checkpoint} :
    tm = "up" /\ kills.broker = 0 =>
      \A k \in AlertKeys :
        ~Closed(k, s.watermark) =>
          s.counts[k] = Cardinality(Failures(k) \cap {authLog[i] : i \in 1..s.pos})

(* A checkpoint is never ahead of smx-alerts: each alert whose window is    *)
(* closed in the checkpoint has been written to the topic.  A restore from  *)
(* it will not fire that window again.                                      *)
CheckpointSafe ==
  \A k \in GroundTruth :
    Closed(k, checkpoint.watermark) => k \in Range(alertLog)

(* No gap in smx-auth: an event is in the topic only if all the earlier     *)
(* lines of the file are, across a broker that dies with a full queue.      *)
(* PRE-REG v2, S1: the producer "resumes from the first event not           *)
(* acknowledged by the broker".  Only a delivery error, which the producer  *)
(* counts and passes over, leaves a gap.                                    *)
NoGap ==
  errors = {} =>
    \A e \in Range(authLog) : \A d \in Events : Before(d, e) => d \in Range(authLog)

\* The consumer was left alone, until the work had ended.
Undisturbed == kills.consumer = 0 /\ ~kills.early

(* The run ends complete: if the whole corpus reached smx-auth and the      *)
(* consumer was not killed, every alert is in the file when it exits,       *)
(* whatever happened to the broker and the taskmanager.                     *)
Complete ==
  /\ cons = "exited"
  /\ Undisturbed
  /\ Events \subseteq Range(authLog)
  => GroundTruth \subseteq Range(out)

(* gen_corpus.py plants near misses that "must NOT alert": pairs of whose    *)
(* failures one more would raise an alert.                                  *)
NearMissSilent ==
  \A k \in Range(out) : buckets[k] # FAILURE_THRESHOLD - 1

(* The arm drains: the consumer ends by itself, with the whole answer       *)
(* unless it was killed or ended early.                                     *)
Drains == <>(cons = "exited" /\ (Undisturbed => GroundTruth \subseteq Range(out)))

Promise == INSTANCE AlertArm WITH
  Expected <- GroundTruth,
  Owed     <- GroundTruth,
  output   <- out,
  closed   <- cons = "exited" /\ Undisturbed

(* Without broker kills the arm implements AlertArm, whatever the kills of  *)
(* the taskmanager: an undisturbed consumer closes only with the whole      *)
(* answer, and one that was killed, or ended early, still writes only       *)
(* expected alerts, each once.                                              *)
KeepsPromise == Promise!ArmSpec
=============================================================================
