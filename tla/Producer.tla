------------------------------- MODULE Producer -------------------------------
(***************************************************************************)
(* streaming/producer.py: replays the corpus into smx-auth.  produce() only *)
(* puts an event in librdkafka's queue; the client sends, retries and times *)
(* out on its own, and the delivery callback only counts the failures.      *)
(***************************************************************************)
EXTENDS Kafka

CONSTANTS
  MaxQueue,       \* queue.buffering.max.messages
  OutageExpires   \* an outage may outlast the client's message timeout

ASSUME ProducerAssumption ==
  /\ MaxQueue \in Nat \ {0}
  /\ OutageExpires \in BOOLEAN
  /\ \A e \in Events : e.id \in Nat

VARIABLES
  prod,       \* where the process is, or how it ended
  unsent,     \* lines of events.jsonl not yet passed to produce()
  queue,      \* librdkafka's queue: accepted, not acknowledged
  errors      \* events whose delivery callback got an error

prodVars == <<prod, unsent, queue, errors>>

ProducerType ==
  /\ prod \in {"replay", "flush", "done", "crashed"}
  /\ unsent \subseteq Events
  /\ queue \in Seq(Events)
  /\ Len(queue) <= MaxQueue
  /\ errors \subseteq Events

ProducerInit ==
  /\ prod = "replay"
  /\ unsent = Events
  /\ queue = <<>>
  /\ errors = {}

\* events.jsonl is sorted by time, then numbered in file order.
Before(d, e) == d.time < e.time \/ (d.time = e.time /\ d.id < e.id)
-----------------------------------------------------------------------------
\* Mutant of Produce: the events of one second go out in any order, and so
\* do those of different seconds.
Produce_Unordered(e) ==
  /\ prod = "replay"
  /\ e \in unsent
  /\ Len(queue) < MaxQueue
  /\ queue' = Append(queue, e)
  /\ unsent' = unsent \ {e}
  /\ UNCHANGED <<prod, errors, kafkaVars>>

\* One turn of the replay loop, whether or not the broker answers.
Produce(e) ==
  /\ prod = "replay"
  /\ e \in unsent
  /\ \A d \in unsent : ~Before(d, e)
  /\ Len(queue) < MaxQueue
  /\ queue' = Append(queue, e)
  /\ unsent' = unsent \ {e}
  /\ UNCHANGED <<prod, errors, kafkaVars>>

\* Mutant of QueueFull: nothing serves the queue between two events, and a
\* full queue ends the process while the broker is up too.
QueueFull_Unserved ==
  /\ prod = "replay"
  /\ unsent # {}
  /\ Len(queue) = MaxQueue
  /\ prod' = "crashed"
  /\ queue' = <<>>
  /\ UNCHANGED <<unsent, errors, kafkaVars>>

\* produce() raises BufferError, which nothing catches.  Pacing: the queue
\* never fills while the broker takes what is sent.
QueueFull ==
  /\ prod = "replay"
  /\ unsent # {}
  /\ Len(queue) = MaxQueue
  /\ broker = "down"
  /\ prod' = "crashed"
  /\ queue' = <<>>
  /\ UNCHANGED <<unsent, errors, kafkaVars>>

\* The loop is over: producer.flush(30).
Flush ==
  /\ prod = "replay"
  /\ unsent = {}
  /\ prod' = "flush"
  /\ UNCHANGED <<unsent, queue, errors, kafkaVars>>

\* The broker appends and acknowledges the head of the queue.
Deliver ==
  /\ queue # <<>>
  /\ broker = "up"
  /\ authLog' = Append(authLog, Head(queue))
  /\ queue' = Tail(queue)
  /\ UNCHANGED <<prod, unsent, errors, broker, alertLog>>

\* message.timeout.ms has passed: delivery_cb notes the error, no more.
Expire ==
  /\ OutageExpires
  /\ queue # <<>>
  /\ broker = "down"
  /\ errors' = errors \cup {Head(queue)}
  /\ queue' = Tail(queue)
  /\ UNCHANGED <<prod, unsent, kafkaVars>>

\* flush returns when the queue is empty, or after 30 s of a dead broker;
\* what it returns is not looked at, and the queue goes with the process.
Finish ==
  /\ prod = "flush"
  /\ queue = <<>> \/ broker = "down"
  /\ prod' = "done"
  /\ queue' = <<>>
  /\ UNCHANGED <<unsent, errors, kafkaVars>>
=============================================================================
