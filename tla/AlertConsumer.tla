----------------------------- MODULE AlertConsumer -----------------------------
(***************************************************************************)
(* streaming/consume_alerts.py: the sink adapter.  It reads smx-alerts in a *)
(* consumer group with automatic commits, drops the keys it has seen, and   *)
(* appends one fsync'd line per new alert before it saves its seen set.     *)
(*                                                                         *)
(* What ends the consumer is the stop file, and the idle timeout a safety   *)
(* cap, in the runners; the first fault runner, faults/run_faults.py, has    *)
(* no stop file, and lets 30 idle seconds end it.                           *)
(***************************************************************************)
EXTENDS Kafka

VARIABLES
  cons,         \* where the process is, or how it ended
  fetch,        \* records of smx-alerts the client has handed to poll
  committed,    \* offset committed for the group
  seen,
  row,          \* key of the record in hand, if cons is not "poll"
  savedSeen,    \* seen_keys of the state file; {} if there is none
  out,          \* alerts-stream.jsonl, as the sequence of its keys
  stopFile

consumerVars == <<cons, fetch, committed, seen, row, savedSeen, out, stopFile>>

Nothing == <<>>

ConsumerRunning == cons \in {"poll", "write", "save"}

ConsumerType ==
  /\ cons \in {"poll", "write", "save", "killed", "exited"}
  /\ fetch \in 0..Len(alertLog)
  /\ committed \in 0..Len(alertLog)
  /\ seen \subseteq AlertKeys
  /\ row \in AlertKeys \cup {Nothing}
  /\ savedSeen \subseteq AlertKeys
  /\ out \in Seq(AlertKeys)
  /\ stopFile \in BOOLEAN

\* A fresh run: no state file, no alerts file, no committed offset.
ConsumerInit ==
  /\ cons = "poll"
  /\ fetch = 0
  /\ committed = 0
  /\ seen = {}
  /\ row = Nothing
  /\ savedSeen = {}
  /\ out = <<>>
  /\ stopFile = FALSE
-----------------------------------------------------------------------------
\* consumer.poll returns a record; a key already seen is a redelivery.
Poll ==
  /\ cons = "poll"
  /\ broker = "up"
  /\ fetch < Len(alertLog)
  /\ fetch' = fetch + 1
  /\ IF alertLog[fetch + 1] \in seen
       THEN UNCHANGED <<row, cons>>
       ELSE row' = alertLog[fetch + 1] /\ cons' = "write"
  /\ UNCHANGED <<committed, seen, savedSeen, out, stopFile, kafkaVars>>

\* Append, flush, fsync; then seen.add.
Write ==
  /\ cons = "write"
  /\ out' = Append(out, row)
  /\ seen' = seen \cup {row}
  /\ cons' = "save"
  /\ UNCHANGED <<fetch, committed, row, savedSeen, stopFile, kafkaVars>>

\* save_seen: replaces the state file atomically.
SaveSeen ==
  /\ cons = "save"
  /\ savedSeen' = seen
  /\ row' = Nothing
  /\ cons' = "poll"
  /\ UNCHANGED <<fetch, committed, seen, out, stopFile, kafkaVars>>

\* enable.auto.commit: the client commits what poll has returned, whether or
\* not the record has been written.
Commit ==
  /\ ConsumerRunning
  /\ broker = "up"
  /\ committed < fetch
  /\ committed' = fetch
  /\ UNCHANGED <<cons, fetch, seen, row, savedSeen, out, stopFile, kafkaVars>>

\* Polls in a row have returned nothing: there is nothing to fetch, or nobody
\* to fetch it from.  close() commits.
LeaveIdle ==
  /\ cons = "poll"
  /\ fetch = Len(alertLog) \/ broker = "down"
  /\ cons' = "exited"
  /\ committed' = IF broker = "up" THEN fetch ELSE committed
  /\ UNCHANGED <<fetch, seen, row, savedSeen, out, stopFile, kafkaVars>>

\* Ten of them and the stop file, or idle_timeout of them.
Exit     == stopFile /\ LeaveIdle
IdleExit == LeaveIdle

\* SIGKILL.
KillConsumer ==
  /\ ConsumerRunning
  /\ cons' = "killed"
  /\ fetch' = committed
  /\ seen' = {}
  /\ row' = Nothing
  /\ UNCHANGED <<committed, savedSeen, out, stopFile, kafkaVars>>

\* Mutant of load_seen: trusts the state file alone.
load_seen_StateFileOnly == savedSeen

load_seen == savedSeen \cup Range(out)

\* The script is started again on the same files and group.
RestartConsumer ==
  /\ cons = "killed"
  /\ cons' = "poll"
  /\ fetch' = committed
  /\ seen' = load_seen
  /\ UNCHANGED <<committed, row, savedSeen, out, stopFile, kafkaVars>>
=============================================================================
