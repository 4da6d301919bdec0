--------------------------------- MODULE Kafka ---------------------------------
(***************************************************************************)
(* The single broker of streaming/docker-compose.yml, external code, as     *)
(* much of it as the arm relies on: two topics of one partition each, kept  *)
(* on a volume that survives a kill.  smx-auth carries events to the Flink  *)
(* job, smx-alerts carries alert keys to the consumer.                      *)
(***************************************************************************)
EXTENDS Detection, Sequences, Functions

VARIABLES
  broker,     \* smx-kafka: "up" or "down"
  authLog,    \* topic smx-auth: the events in the order they were appended
  alertLog    \* topic smx-alerts: the keys of the records Flink has written

kafkaVars == <<broker, authLog, alertLog>>

KafkaType ==
  /\ broker \in {"up", "down"}
  /\ authLog \in Seq(Events)
  /\ alertLog \in Seq(AlertKeys)

KafkaInit ==
  /\ broker = "up"
  /\ authLog = <<>>
  /\ alertLog = <<>>

(***************************************************************************)
(* faults/kill_broker.sh.  What the dying broker has appended but not       *)
(* acknowledged is a prefix of what its two producers had in flight; they   *)
(* will send it again.                                                      *)
(***************************************************************************)
KillBroker(inFlight, inSink) ==
  /\ broker = "up"
  /\ broker' = "down"
  /\ \E n \in 0..Len(inFlight) : authLog' = authLog \o SubSeq(inFlight, 1, n)
  /\ \/ alertLog' = alertLog
     \/ \E k \in inSink : alertLog' = Append(alertLog, k)

\* faults/recover_broker.sh: docker start of the same container and volume.
StartBroker ==
  /\ broker = "down"
  /\ broker' = "up"
  /\ UNCHANGED <<authLog, alertLog>>
=============================================================================
