---------------------------- MODULE StreamArm_proofs ----------------------------
(***************************************************************************)
(* Proofs about the streaming arm, for every corpus, window, threshold,     *)
(* lateness and queue, and any number of kills of broker, taskmanager and   *)
(* consumer.  The inductive invariant comes first, as named parts.          *)
(***************************************************************************)
EXTENDS StreamArm, DetectionLemmas

\* What lies before an offset of smx-auth.
Read(n) == {authLog[i] : i \in 1..n}

\* Events that are in smx-auth or may still get there; the others have been
\* dropped by the producer, after an error or with its queue.
Alive == unsent \cup Range(queue) \cup Range(authLog)

Lost(k) == ~(Failures(k) \subseteq Alive)

Replaying == prod \in {"replay", "flush"}

KillsType ==
  kills \in [broker : 0..MaxBrokerKills, tm : 0..MaxTMKills,
             consumer : 0..MaxConsumerKills, early : BOOLEAN]

\* The producer passes the lines on in order, and loses none that it gets no
\* error for.
ProducerInv ==
  /\ ~Replaying => queue = <<>>
  /\ prod \in {"flush", "done"} => unsent = {}
  /\ \A e \in Range(queue) \cup Range(authLog) : e \notin unsent
  /\ \A e \in Events \ unsent, d \in unsent : ~Before(d, e)
  /\ \A i, j \in DOMAIN queue : i < j => ~Before(queue[j], queue[i])
  /\ errors = {} /\ Replaying =>
       Events \ unsent \subseteq Range(authLog) \cup Range(queue)

\* The first occurrences in smx-auth are in the order of the file, whatever
\* was sent again; without errors there is no gap in them either.
LogInv ==
  \A j \in DOMAIN authLog, d \in Events :
    Before(d, authLog[j]) /\ (d \in Alive \/ errors = {}) => d \in Read(j - 1)

\* With the broker left alone each event is appended once, and all of them
\* are once the producer is done.
OnceInv ==
  kills.broker = 0 =>
    /\ broker = "up"
    /\ errors = {}
    /\ prod # "crashed"
    /\ prod = "done" => Events \subseteq Range(authLog)
    /\ \A i, j \in DOMAIN authLog : authLog[i] = authLog[j] => i = j
    /\ \A i, j \in DOMAIN queue : queue[i] = queue[j] => i = j
    /\ Range(authLog) \cap Range(queue) = {}

\* A state of the window operator is what the offset it goes with says: the
\* watermark comes from an event before it, the open windows count what lies
\* before it, exactly so if nothing was sent twice.
Fits(s, log, once) ==
  /\ s.watermark = 0 \/ \E i \in 1..s.pos : s.watermark + Lateness = log[i].time
  /\ \A k \in AlertKeys : s.counts[k] <= s.pos
  /\ \A k \in AlertKeys : Closed(k, s.watermark) => s.counts[k] = 0
  /\ \A k \in AlertKeys : ~Closed(k, s.watermark) =>
       LET n == Cardinality(Failures(k) \cap {log[i] : i \in 1..s.pos})
       IN  s.counts[k] >= n /\ (once => s.counts[k] = n)

CountsFit(s) == Fits(s, authLog, kills.broker = 0)

JobState == [pos |-> pos, counts |-> counts, watermark |-> watermark]

JobInv ==
  /\ checkpoint \in [pos : Nat, counts : [AlertKeys -> Nat], watermark : Nat]
  /\ CountsFit(JobState)
  /\ CountsFit(checkpoint)
  /\ maxTime = 0 \/ \E i \in 1..pos : maxTime = authLog[i].time

\* An alert whose window is closed is in smx-alerts, or about to be, unless
\* an event of it never reached the job.
FiredInv ==
  /\ tm = "down" => sinkBuf = {}
  /\ tm = "up" => \A k \in GroundTruth :
       Closed(k, watermark) => k \in Range(alertLog) \cup sinkBuf \/ Lost(k)
  /\ \A k \in GroundTruth :
       Closed(k, checkpoint.watermark) => k \in Range(alertLog) \/ Lost(k)
  /\ kills.broker = 0 => Range(alertLog) \cup sinkBuf \subseteq GroundTruth

\* The taskmanager is killed before the end of the corpus is in the topic, so
\* the job that has read the end still knows its time.
EndEvents == {e \in Events : Closing(e) /\ \A d \in Events : d.time <= e.time}

EndInv ==
  /\ tm = "down" => ~(EndEvents \subseteq Read(checkpoint.pos))
  /\ tm = "up" /\ EndEvents \subseteq Read(pos) => \E e \in EndEvents : maxTime >= e.time

\* The alerts file, the consumer's memory and the record in hand.
ConsumerInv ==
  /\ ConsumerRunning => seen = Range(out)
  /\ savedSeen \subseteq Range(out)
  /\ cons = "write" => row \in Range(alertLog) \ Range(out)
  /\ Range(out) \subseteq Range(alertLog)
  /\ duplicates(out) = {}
  /\ cons = "killed" => kills.consumer > 0
  /\ kills.consumer = 0 => \A i \in 1..fetch :
       alertLog[i] \in Range(out) \/ (cons = "write" /\ row = alertLog[i])

\* Stopped, or exited, and not too early: all the work has ended.
WorkEnded == JobDrained /\ prod \in {"done", "crashed"}

StopInv ==
  /\ stopFile /\ ~kills.early => WorkEnded
  /\ cons = "exited" /\ ~kills.early => WorkEnded /\ fetch = Len(alertLog)

IInv ==
  /\ TypeOK
  /\ KillsType
  /\ ProducerInv
  /\ LogInv
  /\ OnceInv
  /\ JobInv
  /\ FiredInv
  /\ EndInv
  /\ ConsumerInv
  /\ StopInv
-----------------------------------------------------------------------------
\* An event falls before the end of its window, and no window ends at 0.
LEMMA InItsWindow ==
  ASSUME NEW e \in Events
  PROVE  /\ e.time \in Nat
         /\ e.time < WindowEnd(AlertKey(e))
         /\ WindowEnd(AlertKey(e)) \in Nat \ {0}
<1>1. /\ e.time \in Nat /\ WINDOW_SECONDS \in Nat \ {0}
      /\ WindowEnd(AlertKey(e)) = (e.time \div WINDOW_SECONDS + 1) * WINDOW_SECONDS
  BY DetectionAssumption DEF WindowEnd, AlertKey, window_index
<1>2. ASSUME NEW t \in Nat, NEW w \in Nat \ {0}
      PROVE  t < (t \div w + 1) * w /\ (t \div w + 1) * w \in Nat \ {0}
  <2>1. t \div w \in Nat /\ t % w \in 0..(w - 1) /\ t = w * (t \div w) + (t % w)
    OBVIOUS
  <2>2. (t \div w + 1) * w = w * (t \div w) + w
    BY <2>1
  <2> QED BY <2>1, <2>2
<1> QED BY <1>1, <1>2

\* Tail and head of a queue.
LEMMA HeadTail ==
  ASSUME NEW S, NEW s \in Seq(S), s # <<>>
  PROVE  /\ Head(s) \in S /\ Tail(s) \in Seq(S) /\ Len(s) \in Nat \ {0}
         /\ Len(Tail(s)) = Len(s) - 1
         /\ Head(s) = s[1]
         /\ \A i \in 1..Len(Tail(s)) : Tail(s)[i] = s[i + 1]
         /\ DOMAIN s = 1..Len(s) /\ DOMAIN Tail(s) = 1..Len(Tail(s))
         /\ Range(s) = Range(Tail(s)) \cup {Head(s)}
<1>1. /\ Head(s) \in S /\ Tail(s) \in Seq(S) /\ Len(s) \in Nat \ {0}
      /\ Len(Tail(s)) = Len(s) - 1
      /\ Head(s) = s[1]
      /\ \A i \in 1..Len(Tail(s)) : Tail(s)[i] = s[i + 1]
      /\ DOMAIN s = 1..Len(s) /\ DOMAIN Tail(s) = 1..Len(Tail(s))
  OBVIOUS
<1> DEFINE h == Head(s)  t == Tail(s)
<1> HIDE DEF h, t
<1>2. Range(s) = Range(t) \cup {h}
  <2>1. /\ Len(s) \in Nat \ {0} /\ Len(t) = Len(s) - 1 /\ h = s[1]
        /\ \A i \in 1..Len(t) : t[i] = s[i + 1]
        /\ DOMAIN s = 1..Len(s) /\ DOMAIN t = 1..Len(t)
    BY <1>1 DEF h, t
  <2>2. ASSUME NEW i \in DOMAIN s PROVE s[i] \in Range(t) \cup {h}
    <3>1. CASE i = 1
      BY <2>1, <3>1
    <3>2. CASE i # 1
      <4>1. i - 1 \in DOMAIN t /\ t[i - 1] = s[i]
        BY <2>1, <3>2
      <4> QED BY <4>1 DEF Range
    <3> QED BY <3>1, <3>2
  <2>3. ASSUME NEW i \in DOMAIN t PROVE t[i] \in Range(s)
    <3>1. i + 1 \in DOMAIN s
      BY <2>1
    <3> QED BY <3>1, <2>1 DEF Range
  <2>4. h \in Range(s)
    BY <2>1 DEF Range
  <2> QED BY <2>2, <2>3, <2>4 DEF Range
<1> QED BY <1>1, <1>2 DEF h, t

\* A prefix of one sequence put behind another.
LEMMA PutBehind ==
  ASSUME NEW S, NEW s \in Seq(S), NEW t \in Seq(S), NEW n \in 0..Len(t)
  PROVE  LET new == s \o SubSeq(t, 1, n) IN
         /\ new \in Seq(S) /\ Len(new) = Len(s) + n
         /\ DOMAIN new = 1..(Len(s) + n) /\ DOMAIN s = 1..Len(s) /\ DOMAIN t = 1..Len(t)
         /\ Len(s) \in Nat /\ Len(t) \in Nat
         /\ \A i \in 1..Len(s) : new[i] = s[i]
         /\ \A i \in 1..n : new[Len(s) + i] = t[i]
         /\ Range(s) \subseteq Range(new)
         /\ Range(new) \subseteq Range(s) \cup Range(t)
<1> DEFINE p == SubSeq(t, 1, n)  new == s \o p
<1>1. p \in Seq(S) /\ Len(p) = n /\ \A i \in 1..n : p[i] = t[i]
  OBVIOUS
<1>2. /\ Len(s) \in Nat /\ Len(t) \in Nat /\ n \in Nat /\ n <= Len(t)
      /\ DOMAIN s = 1..Len(s) /\ DOMAIN t = 1..Len(t)
  OBVIOUS
<1> HIDE DEF p
<1>3. /\ new \in Seq(S) /\ Len(new) = Len(s) + n
      /\ DOMAIN new = 1..(Len(s) + n)
      /\ \A i \in 1..Len(s) : new[i] = s[i]
      /\ \A i \in 1..n : new[Len(s) + i] = t[i]
  BY <1>1, <1>2
<1> HIDE DEF new
<1>4. Range(s) \subseteq Range(new)
  BY <1>2, <1>3 DEF Range
<1>5. ASSUME NEW i \in DOMAIN new PROVE new[i] \in Range(s) \cup Range(t)
  <2>1. CASE i \in 1..Len(s)
    BY <2>1, <1>2, <1>3 DEF Range
  <2>2. CASE i \notin 1..Len(s)
    <3>1. i - Len(s) \in 1..n
      BY <2>2, <1>2, <1>3
    <3>2. new[i] = t[i - Len(s)] /\ i - Len(s) \in DOMAIN t
      BY <3>1, <1>2, <1>3
    <3> QED BY <3>2 DEF Range
  <2> QED BY <2>1, <2>2
<1> QED BY <1>2, <1>3, <1>4, <1>5 DEF new, p, Range

\* A log that is only appended to.
Grows(old, new) ==
  /\ Len(new) >= Len(old)
  /\ \A i \in 1..Len(old) : new[i] = old[i]

LEMMA GrowsBy ==
  ASSUME NEW S, NEW s \in Seq(S)
  PROVE  /\ Grows(s, s)
         /\ \A x : Grows(s, Append(s, x))
         /\ \A t \in Seq(S) : \A n \in 0..Len(t) : Grows(s, s \o SubSeq(t, 1, n))
<1>1. Grows(s, s)
  BY Len(s) \in Nat DEF Grows
<1>2. ASSUME NEW x PROVE Grows(s, Append(s, x))
  <2>1. Len(s) \in Nat /\ Len(Append(s, x)) = Len(s) + 1
        /\ \A i \in 1..Len(s) : Append(s, x)[i] = s[i]
    OBVIOUS
  <2> QED BY <2>1 DEF Grows
<1>3. ASSUME NEW t \in Seq(S), NEW n \in 0..Len(t) PROVE Grows(s, s \o SubSeq(t, 1, n))
  <2>1. Len(s) \in Nat /\ n \in Nat
    OBVIOUS
  <2> QED BY <2>1, PutBehind DEF Grows
<1> QED BY <1>1, <1>2, <1>3

\* Who counts what in kills.
LEMMA KillsSteps ==
  ASSUME KillsType, [Next]_vars
  PROVE  /\ kills'.broker = kills.broker \/ (KillsBroker /\ kills'.broker = kills.broker + 1)
         /\ kills'.consumer = kills.consumer
              \/ (KillsConsumer /\ kills'.consumer = kills.consumer + 1)
         /\ kills'.early = kills.early \/ Stop \/ IdlesOut
         /\ kills.early => kills'.early
         /\ KillsType'
<1> USE StreamAssumption DEF KillsType
<1>1. CASE KillsBroker
  BY <1>1 DEF KillsBroker
<1>2. CASE KillsTaskmanager
  BY <1>2 DEF KillsTaskmanager
<1>3. CASE KillsConsumer
  BY <1>3 DEF KillsConsumer
<1>4. CASE Stop
  <2>1. /\ kills' = [kills EXCEPT !.early = kills.early \/ ~JobDrained]
        /\ JobDrained \in BOOLEAN
    BY <1>4 DEF Stop, JobDrained
  <2> HIDE DEF JobDrained
  <2> QED BY <1>4, <2>1
<1>5. CASE IdlesOut
  <2> DEFINE ended == JobDrained /\ prod \in {"done", "crashed"}
  <2>1. kills' = [kills EXCEPT !.early = kills.early \/ ~ended] /\ ended \in BOOLEAN
    BY <1>5 DEF IdlesOut, JobDrained
  <2> HIDE DEF ended
  <2> QED BY <1>5, <2>1
<1>6. CASE UNCHANGED kills
  BY <1>6
<1>7. \/ KillsBroker \/ KillsTaskmanager \/ KillsConsumer \/ Stop \/ IdlesOut
      \/ UNCHANGED kills
  BY DEF Next, vars, ProducerStep, JobStep, ConsumerStep, RecoversBroker,
         RecoversTaskmanager, RestartsConsumer, Finished
<1> QED BY <1>1, <1>2, <1>3, <1>4, <1>5, <1>6, <1>7

\* Who touches the producer and the topic it writes to.
LEMMA ProducerSteps ==
  ASSUME [Next]_vars
  PROVE  \/ ProducerStep
         \/ KillsBroker
         \/ UNCHANGED <<prodVars, authLog>> /\ (broker' = broker \/ broker' = "up")
<1>1. CASE JobStep
  BY <1>1 DEF JobStep, prodVars, kafkaVars, Consume, AdvanceWatermark, SinkSend, Checkpoint
<1>2. CASE ConsumerStep
  BY <1>2 DEF ConsumerStep, prodVars, kafkaVars, Poll, Write, SaveSeen, Commit, Exit, LeaveIdle
<1>3. CASE KillsTaskmanager \/ KillsConsumer \/ RecoversTaskmanager \/ RestartsConsumer
  BY <1>3 DEF KillsTaskmanager, KillsConsumer, RecoversTaskmanager, RestartsConsumer,
              KillTaskmanager, KillConsumer, RestoreJob, RestartConsumer, kafkaVars
<1>4. CASE RecoversBroker
  BY <1>4 DEF RecoversBroker, StartBroker
<1>5. CASE Stop \/ IdlesOut \/ Finished \/ UNCHANGED vars
  BY <1>5 DEF Stop, IdlesOut, IdleExit, LeaveIdle, Finished, vars, prodVars, kafkaVars
<1> QED BY <1>1, <1>2, <1>3, <1>4, <1>5 DEF Next

\* Who touches the job.
LEMMA JobSteps ==
  ASSUME [Next]_vars
  PROVE  JobStep \/ KillsTaskmanager \/ RecoversTaskmanager \/ UNCHANGED flinkVars
BY DEF Next, vars, ProducerStep, ConsumerStep, KillsBroker, KillsConsumer, RecoversBroker,
       RestartsConsumer, Stop, IdlesOut, Finished, flinkVars

\* Who touches the consumer.
LEMMA ConsumerSteps ==
  ASSUME [Next]_vars
  PROVE  \/ ConsumerStep \/ KillsConsumer \/ RestartsConsumer \/ Stop \/ IdlesOut
         \/ UNCHANGED consumerVars
BY DEF Next, vars, ProducerStep, JobStep, KillsBroker, KillsTaskmanager, RecoversBroker,
       RecoversTaskmanager, Finished, consumerVars

\* Who writes smx-alerts.
LEMMA AlertLogSteps ==
  ASSUME [Next]_vars
  PROVE  \/ \E k \in AlertKeys : SinkSend(k) /\ UNCHANGED <<prodVars, consumerVars, kills>>
         \/ KillsBroker
         \/ UNCHANGED alertLog
<1>1. CASE ProducerStep
  BY <1>1 DEF ProducerStep, kafkaVars, Produce, QueueFull, Flush, Deliver, Expire, Finish
<1>2. CASE JobStep
  BY <1>2 DEF JobStep, kafkaVars, Consume, AdvanceWatermark, Checkpoint
<1>3. CASE ConsumerStep
  BY <1>3 DEF ConsumerStep, kafkaVars, Poll, Write, SaveSeen, Commit, Exit, LeaveIdle
<1>4. CASE \/ KillsTaskmanager \/ KillsConsumer \/ RecoversTaskmanager \/ RestartsConsumer
           \/ RecoversBroker
  BY <1>4 DEF KillsTaskmanager, KillsConsumer, RecoversTaskmanager, RestartsConsumer,
              KillTaskmanager, KillConsumer, RestoreJob, RestartConsumer, kafkaVars,
              RecoversBroker, StartBroker
<1>5. CASE Stop \/ IdlesOut \/ Finished \/ UNCHANGED vars
  BY <1>5 DEF Stop, IdlesOut, IdleExit, LeaveIdle, Finished, vars, kafkaVars
<1> QED BY <1>1, <1>2, <1>3, <1>4, <1>5 DEF Next

\* Both topics are only appended to, and the types of their records hold.
LEMMA LogsGrow ==
  ASSUME TypeOK, [Next]_vars
  PROVE  /\ authLog' \in Seq(Events) /\ Grows(authLog, authLog')
         /\ alertLog' \in Seq(AlertKeys) /\ Grows(alertLog, alertLog')
<1>1. authLog \in Seq(Events) /\ alertLog \in Seq(AlertKeys) /\ queue \in Seq(Events)
  BY DEF TypeOK, KafkaType, ProducerType
<1>2. authLog' \in Seq(Events) /\ Grows(authLog, authLog')
  <2>1. CASE ProducerStep /\ Deliver
    <3>1. Head(queue) \in Events
      BY <2>1, <1>1, HeadTail DEF Deliver
    <3> QED BY <2>1, <3>1, <1>1, GrowsBy DEF Deliver
  <2>2. CASE KillsBroker
    <3>1. PICK n \in 0..Len(queue) : authLog' = authLog \o SubSeq(queue, 1, n)
      BY <2>2 DEF KillsBroker, KillBroker
    <3> QED BY <3>1, <1>1, GrowsBy, PutBehind
  <2>3. ASSUME ~(ProducerStep /\ Deliver), ~KillsBroker PROVE UNCHANGED authLog
    BY <2>3, ProducerSteps
       DEF ProducerStep, kafkaVars, Produce, QueueFull, Flush, Expire, Finish
  <2> QED BY <2>1, <2>2, <2>3, <1>1, GrowsBy
<1>3. alertLog' \in Seq(AlertKeys) /\ Grows(alertLog, alertLog')
  <2>1. sinkBuf \subseteq AlertKeys
    BY DEF TypeOK, FlinkType
  <2>2. \/ \E k \in AlertKeys : alertLog' = Append(alertLog, k)
        \/ UNCHANGED alertLog
    BY <2>1, AlertLogSteps DEF SinkSend, KillsBroker, KillBroker
  <2>3. ASSUME NEW k \in AlertKeys, alertLog' = Append(alertLog, k)
        PROVE  alertLog' \in Seq(AlertKeys) /\ Grows(alertLog, alertLog')
    BY <2>3, <1>1, GrowsBy
  <2>4. CASE UNCHANGED alertLog
    BY <2>4, <1>1, GrowsBy
  <2> QED BY <2>2, <2>3, <2>4
<1> QED BY <1>2, <1>3
-----------------------------------------------------------------------------
LEMMA TypeInit == Init => TypeOK /\ KillsType
<1> SUFFICES ASSUME Init PROVE TypeOK /\ KillsType
  OBVIOUS
<1> USE DEF Init, KafkaInit, ProducerInit, FlinkInit, ConsumerInit
<1>1. KafkaType
  BY DEF KafkaType
<1>2. ProducerType
  BY ProducerAssumption DEF ProducerType
<1>3. FlinkType
  BY DEF FlinkType, NoCounts
<1>4. ConsumerType
  <2>1. stopFile \in BOOLEAN
    BY Zenon
  <2>2. row \in AlertKeys \cup {Nothing}
    OBVIOUS
  <2> QED BY <2>1, <2>2 DEF ConsumerType
<1>5. KillsType
  BY StreamAssumption DEF KillsType
<1> QED BY <1>1, <1>2, <1>3, <1>4, <1>5 DEF TypeOK, KillsType

\* The counts never exceed the offset (JobInv), and a record in hand is a
\* record of the topic (ConsumerInv).
LEMMA TypeStep ==
  TypeOK /\ KillsType /\ JobInv /\ ConsumerInv /\ [Next]_vars => TypeOK' /\ KillsType'
<1> SUFFICES ASSUME TypeOK, KillsType, JobInv, ConsumerInv, [Next]_vars
             PROVE  TypeOK' /\ KillsType'
  OBVIOUS
<1>0. /\ authLog \in Seq(Events) /\ alertLog \in Seq(AlertKeys) /\ queue \in Seq(Events)
      /\ authLog' \in Seq(Events) /\ Grows(authLog, authLog')
      /\ alertLog' \in Seq(AlertKeys) /\ Grows(alertLog, alertLog')
  BY LogsGrow DEF TypeOK, KafkaType, ProducerType
<1>1. /\ Len(authLog) \in Nat /\ Len(authLog') \in Nat /\ Len(authLog') >= Len(authLog)
      /\ Len(alertLog) \in Nat /\ Len(alertLog') \in Nat /\ Len(alertLog') >= Len(alertLog)
  BY <1>0 DEF Grows
<1>2. KafkaType'
  <2>1. broker' \in {"up", "down"}
    <3>1. CASE ProducerStep
      BY <3>1 DEF ProducerStep, kafkaVars, Produce, QueueFull, Flush, Deliver, Expire,
                  Finish, TypeOK, KafkaType
    <3> QED BY <3>1, ProducerSteps DEF KillsBroker, KillBroker, TypeOK, KafkaType
  <2> QED BY <2>1, <1>0 DEF KafkaType
<1>3. ProducerType'
  <2> USE DEF TypeOK, ProducerType
  <2>1. ASSUME NEW e \in Events, Produce(e) PROVE ProducerType'
    <3>1. queue' = Append(queue, e) /\ Len(queue) < MaxQueue /\ unsent' = unsent \ {e}
          /\ UNCHANGED <<prod, errors>>
      BY <2>1 DEF Produce
    <3>2. queue' \in Seq(Events) /\ Len(queue') = Len(queue) + 1 /\ Len(queue) \in Nat
      BY <3>1, <1>0
    <3> QED BY <3>1, <3>2, ProducerAssumption
  <2>2. CASE QueueFull \/ Flush \/ Finish
    <3>1. /\ prod' \in {"flush", "done", "crashed"} /\ (queue' = queue \/ queue' = <<>>)
          /\ UNCHANGED <<unsent, errors>>
      BY <2>2 DEF QueueFull, Flush, Finish
    <3>2. <<>> \in Seq(Events) /\ Len(<<>>) = 0
      OBVIOUS
    <3>3. CASE queue' = queue
      BY <3>1, <3>3
    <3>4. CASE queue' = <<>>
      <4>1. queue' \in Seq(Events) /\ Len(queue') = 0
        BY <3>2, <3>4, Zenon
      <4> QED BY <3>1, <4>1, ProducerAssumption
    <3> QED BY <3>1, <3>3, <3>4
  <2>3. CASE Deliver \/ Expire
    <3>1. /\ Head(queue) \in Events /\ queue' = Tail(queue) /\ Tail(queue) \in Seq(Events)
          /\ Len(queue) \in Nat /\ Len(queue') = Len(queue) - 1
          /\ errors' \in {errors, errors \cup {Head(queue)}}
          /\ UNCHANGED <<prod, unsent>>
      BY <2>3, <1>0, HeadTail DEF Deliver, Expire
    <3> QED BY <3>1, ProducerAssumption
  <2>4. CASE UNCHANGED prodVars
    BY <2>4 DEF prodVars
  <2> QED BY <2>1, <2>2, <2>3, <2>4, ProducerSteps DEF ProducerStep, KillsBroker
<1>4. FlinkType'
  <2>0. /\ tm \in {"up", "down"} /\ pos \in 0..Len(authLog)
        /\ counts \in [AlertKeys -> 0..Len(authLog)] /\ maxTime \in Nat /\ watermark \in Nat
        /\ sinkBuf \subseteq AlertKeys /\ checkpoint.pos \in 0..Len(authLog)
        /\ checkpoint.counts \in [AlertKeys -> 0..Len(authLog)]
        /\ checkpoint.watermark \in Nat
    BY DEF TypeOK, FlinkType
  <2>1. CASE JobStep
    <3>0. UNCHANGED authLog
      BY <2>1 DEF JobStep, Consume, AdvanceWatermark, SinkSend, Checkpoint, kafkaVars
    <3>1. CASE Consume
      <4> DEFINE e == authLog[pos + 1]
      <4>1. /\ pos < Len(authLog) /\ pos' = pos + 1
            /\ counts' = IF Counted(e) THEN [counts EXCEPT ![AlertKey(e)] = @ + 1] ELSE counts
            /\ maxTime' = IF e.time > maxTime THEN e.time ELSE maxTime
            /\ UNCHANGED <<tm, watermark, sinkBuf, checkpoint>>
        BY <3>1 DEF Consume
      <4>2. e \in Events /\ e.time \in Nat
        BY <4>1, <1>0, <2>0, DetectionAssumption
      <4>3. \A k \in AlertKeys : counts[k] + 1 \in 0..Len(authLog)
        BY <4>1, <2>0, <1>1 DEF JobInv, CountsFit, Fits, JobState
      <4> HIDE DEF e
      <4>4. counts' \in [AlertKeys -> 0..Len(authLog)]
        BY <4>1, <4>3, <2>0
      <4>5. maxTime' \in Nat /\ pos' \in 0..Len(authLog)
        BY <4>1, <4>2, <2>0, <1>1
      <4> QED BY <4>1, <4>4, <4>5, <3>0, <2>0 DEF FlinkType
    <3>2. CASE AdvanceWatermark
      <4>1. /\ watermark' = maxTime - Lateness /\ maxTime - Lateness > watermark
            /\ sinkBuf' = sinkBuf \cup Fired(watermark')
            /\ counts' = [k \in AlertKeys |-> IF Closed(k, watermark') THEN 0 ELSE counts[k]]
            /\ UNCHANGED <<tm, pos, maxTime, checkpoint>>
        BY <3>2 DEF AdvanceWatermark
      <4>2. watermark' \in Nat
        BY <4>1, <2>0, FlinkAssumption
      <4>3. counts' \in [AlertKeys -> 0..Len(authLog)]
        BY <4>1, <2>0, <1>1
      <4> QED BY <4>1, <4>2, <4>3, <3>0, <2>0 DEF FlinkType, Fired
    <3>3. CASE (\E k \in AlertKeys : SinkSend(k)) \/ Checkpoint
      BY <3>3, <3>0, <2>0 DEF SinkSend, Checkpoint, FlinkType
    <3> QED BY <2>1, <3>1, <3>2, <3>3 DEF JobStep
  <2>2. CASE KillsTaskmanager \/ RecoversTaskmanager
    BY <2>2, <2>0
       DEF KillsTaskmanager, RecoversTaskmanager, KillTaskmanager, RestoreJob, kafkaVars,
           FlinkType
  <2>3. CASE UNCHANGED flinkVars
    <3>1. 0..Len(authLog) \subseteq 0..Len(authLog')
      BY <1>1
    <3>2. [AlertKeys -> 0..Len(authLog)] \subseteq [AlertKeys -> 0..Len(authLog')]
      BY <3>1
    <3> QED BY <2>3, <2>0, <3>1, <3>2 DEF flinkVars, FlinkType
  <2> QED BY <2>1, <2>2, <2>3, JobSteps
<1>5. ConsumerType'
  <2>0. /\ cons \in {"poll", "write", "save", "killed", "exited"}
        /\ fetch \in 0..Len(alertLog) /\ committed \in 0..Len(alertLog)
        /\ seen \subseteq AlertKeys /\ row \in AlertKeys \cup {Nothing}
        /\ savedSeen \subseteq AlertKeys /\ out \in Seq(AlertKeys) /\ stopFile \in BOOLEAN
    BY DEF TypeOK, ConsumerType
  <2>1. /\ fetch \in 0..Len(alertLog') /\ committed \in 0..Len(alertLog')
    BY <2>0, <1>1
  <2>2. CASE Poll
    <3>1. fetch' = fetch + 1 /\ fetch < Len(alertLog) /\ UNCHANGED alertLog
      BY <2>2 DEF Poll, kafkaVars
    <3>2. alertLog[fetch + 1] \in AlertKeys
      BY <3>1, <1>0, <2>0
    <3>3. fetch' \in 0..Len(alertLog')
      BY <3>1, <2>0, <1>1
    <3> QED BY <2>2, <2>0, <2>1, <3>2, <3>3 DEF Poll, ConsumerType
  <2>3. CASE Write
    <3>1. row \in AlertKeys => out' \in Seq(AlertKeys)
      BY <2>3, <2>0 DEF Write
    <3>2. row \in AlertKeys
      <4>1. row \in Range(alertLog)
        BY <2>3 DEF Write, ConsumerInv
      <4> QED BY <4>1, <1>0 DEF Range
    <3>3. out' \in Seq(AlertKeys) /\ seen' \subseteq AlertKeys
      BY <2>3, <2>0, <3>2, <3>1 DEF Write
    <3> QED BY <2>3, <2>0, <2>1, <3>3 DEF Write, ConsumerType
  <2>4. CASE SaveSeen
    BY <2>4, <2>0, <2>1 DEF SaveSeen, ConsumerType
  <2>5. CASE Commit \/ KillConsumer
    <3>1. /\ cons' \in {cons, "killed"} /\ fetch' \in {fetch, committed}
          /\ committed' \in {fetch, committed} /\ seen' \in {seen, {}}
          /\ row' \in {row, Nothing} /\ UNCHANGED <<savedSeen, out, stopFile>>
      BY <2>5 DEF Commit, KillConsumer
    <3> QED BY <3>1, <2>0, <2>1 DEF ConsumerType
  <2>6. CASE LeaveIdle
    <3>1. /\ cons' = "exited" /\ committed' \in {fetch, committed}
          /\ UNCHANGED <<fetch, seen, row, savedSeen, out, stopFile>>
      BY <2>6 DEF LeaveIdle
    <3> QED BY <3>1, <2>0, <2>1 DEF ConsumerType
  <2>7. CASE RestartsConsumer
    <3>1. /\ cons' = "poll" /\ fetch' = committed /\ seen' = savedSeen \cup Range(out)
          /\ UNCHANGED <<committed, row, savedSeen, out, stopFile>>
      BY <2>7 DEF RestartsConsumer, RestartConsumer, load_seen
    <3>2. Range(out) \subseteq AlertKeys
      BY <2>0 DEF Range
    <3> QED BY <3>1, <3>2, <2>0, <2>1 DEF ConsumerType
  <2>8. CASE Stop
    <3>1. stopFile' \in BOOLEAN
      BY <2>8, Zenon DEF Stop
    <3> QED BY <2>8, <3>1, <2>0, <2>1 DEF Stop, ConsumerType
  <2>9. CASE UNCHANGED consumerVars
    BY <2>9, <2>0, <2>1 DEF consumerVars, ConsumerType
  <2>10. IdlesOut \/ Exit => LeaveIdle
    BY DEF IdlesOut, IdleExit, Exit
  <2> QED BY <2>2, <2>3, <2>4, <2>5, <2>6, <2>7, <2>8, <2>9, <2>10, ConsumerSteps
          DEF ConsumerStep, KillsConsumer
<1>6. KillsType'
  BY KillsSteps
<1>7. /\ kills'.broker \in 0..MaxBrokerKills /\ kills'.tm \in 0..MaxTMKills
      /\ kills'.consumer \in 0..MaxConsumerKills /\ kills'.early \in BOOLEAN
  BY <1>6 DEF KillsType
<1> QED BY <1>2, <1>3, <1>4, <1>5, <1>6, <1>7 DEF TypeOK
-----------------------------------------------------------------------------
LEMMA NoEventBeforeItself == \A e \in Events : ~Before(e, e)
BY DetectionAssumption, ProducerAssumption DEF Before

\* Reading a log that has grown.
LEMMA ReadGrows ==
  ASSUME TypeOK, [Next]_vars
  PROVE  /\ \A n \in 0..Len(authLog) : Read(n)' = Read(n)
         /\ Range(authLog) = Read(Len(authLog))
         /\ Range(authLog) \subseteq Range(authLog)'
         /\ Range(authLog) \subseteq Events
<1>1. /\ authLog \in Seq(Events) /\ authLog' \in Seq(Events) /\ Grows(authLog, authLog')
      /\ Len(authLog) \in Nat /\ Len(authLog') \in Nat
      /\ DOMAIN authLog = 1..Len(authLog) /\ DOMAIN authLog' = 1..Len(authLog')
  BY LogsGrow DEF TypeOK, KafkaType
<1>2. \A i \in 1..Len(authLog) : i \in 1..Len(authLog') /\ authLog'[i] = authLog[i]
  BY <1>1 DEF Grows
<1> QED BY <1>1, <1>2 DEF Read, Range

LEMMA ProducerInvInit == Init => ProducerInv /\ LogInv /\ OnceInv
<1> SUFFICES ASSUME Init PROVE ProducerInv /\ LogInv /\ OnceInv
  OBVIOUS
<1>1. /\ authLog = <<>> /\ queue = <<>> /\ unsent = Events /\ errors = {}
      /\ prod = "replay" /\ broker = "up"
  BY DEF Init, KafkaInit, ProducerInit
<1>2. DOMAIN authLog = {} /\ DOMAIN queue = {} /\ Range(authLog) = {} /\ Range(queue) = {}
  BY <1>1 DEF Range
<1> QED BY <1>1, <1>2 DEF ProducerInv, LogInv, OnceInv, Replaying

\* The order in the queue, for a step that takes the head off it.
LEMMA QueueAfterTail ==
  ASSUME queue \in Seq(Events), queue # <<>>, queue' = Tail(queue), ProducerInv
  PROVE  /\ \A i, j \in DOMAIN queue' : i < j => ~Before(queue'[j], queue'[i])
         /\ \A e \in Range(queue)' : e \in Range(queue) /\ ~Before(e, Head(queue))
         /\ Range(queue) = Range(queue)' \cup {Head(queue)}
         /\ Head(queue) \in Events
<1>1. /\ Head(queue) \in Events /\ Len(queue) \in Nat \ {0}
      /\ Len(queue') = Len(queue) - 1
      /\ Head(queue) = queue[1]
      /\ \A i \in 1..Len(queue') : queue'[i] = queue[i + 1]
      /\ DOMAIN queue = 1..Len(queue) /\ DOMAIN queue' = 1..Len(queue')
      /\ Range(queue) = Range(queue)' \cup {Head(queue)}
  BY HeadTail
<1>2. \A i, j \in DOMAIN queue : i < j => ~Before(queue[j], queue[i])
  BY DEF ProducerInv
<1>3. \A i \in DOMAIN queue' : i + 1 \in DOMAIN queue /\ 1 \in DOMAIN queue /\ 1 < i + 1 /\ i \in Int
  BY <1>1
<1>4. ASSUME NEW i \in DOMAIN queue', NEW j \in DOMAIN queue', i < j
      PROVE  ~Before(queue'[j], queue'[i])
  <2>1. i + 1 < j + 1
    BY <1>3, <1>4
  <2> QED BY <2>1, <1>1, <1>2, <1>3
<1>5. ASSUME NEW i \in DOMAIN queue' PROVE ~Before(queue'[i], Head(queue))
  BY <1>1, <1>2, <1>3
<1> QED BY <1>1, <1>4, <1>5 DEF Range

LEMMA ProducerInvStep == TypeOK /\ ProducerInv /\ [Next]_vars => ProducerInv'
<1> SUFFICES ASSUME TypeOK, ProducerInv, [Next]_vars PROVE ProducerInv'
  OBVIOUS
<1>0. /\ authLog \in Seq(Events) /\ queue \in Seq(Events) /\ unsent \subseteq Events
      /\ prod \in {"replay", "flush", "done", "crashed"}
      /\ Range(authLog) \subseteq Range(authLog)'
  BY ReadGrows DEF TypeOK, KafkaType, ProducerType
<1>1. ASSUME NEW e \in Events, Produce(e) PROVE ProducerInv'
  <2>1. /\ prod = "replay" /\ e \in unsent /\ \A d \in unsent : ~Before(d, e)
        /\ queue' = Append(queue, e) /\ unsent' = unsent \ {e}
        /\ UNCHANGED <<prod, errors, authLog>>
    BY <1>1 DEF Produce, kafkaVars
  <2>2. /\ Range(queue)' = Range(queue) \cup {e}
        /\ DOMAIN queue' = 1..(Len(queue) + 1) /\ Len(queue) \in Nat
        /\ DOMAIN queue = 1..Len(queue)
        /\ \A i \in 1..Len(queue) : queue'[i] = queue[i]
        /\ queue'[Len(queue) + 1] = e
    BY <2>1, <1>0, AppendNew
  <2>3. ASSUME NEW i \in DOMAIN queue', NEW j \in DOMAIN queue', i < j
        PROVE  ~Before(queue'[j], queue'[i])
    <3>1. i \in DOMAIN queue
      BY <2>2, <2>3
    <3>2. CASE j \in DOMAIN queue
      BY <3>1, <3>2, <2>2, <2>3 DEF ProducerInv
    <3>3. CASE j \notin DOMAIN queue
      <4>1. queue'[j] = e /\ queue'[i] = queue[i]
        BY <3>1, <3>3, <2>2
      <4>2. queue[i] \in Events \ unsent
        BY <3>1, <1>0, <2>2 DEF ProducerInv, Range
      <4> QED BY <4>1, <4>2, <2>1 DEF ProducerInv
    <3> QED BY <3>2, <3>3
  <2>4. \A x \in Range(queue)' \cup Range(authLog)' : x \notin unsent'
    BY <2>1, <2>2 DEF ProducerInv
  <2>5. \A x \in Events \ unsent', d \in unsent' : ~Before(d, x)
    BY <2>1 DEF ProducerInv
  <2> QED BY <2>1, <2>2, <2>3, <2>4, <2>5 DEF ProducerInv, Replaying
<1>2. CASE QueueFull \/ Flush \/ Finish
  <2>1. /\ UNCHANGED <<unsent, errors, authLog>>
        /\ \/ QueueFull /\ queue' = <<>> /\ prod' = "crashed"
           \/ Flush /\ prod = "replay" /\ prod' = "flush" /\ unsent = {} /\ UNCHANGED queue
           \/ Finish /\ prod = "flush" /\ prod' = "done" /\ queue' = <<>>
    BY <1>2 DEF QueueFull, Flush, Finish, kafkaVars
  <2>2. DOMAIN <<>> = {} /\ Range(<<>>) = {}
    BY DEF Range
  <2> QED BY <2>1, <2>2 DEF ProducerInv, Replaying
<1>3. CASE Deliver \/ Expire
  <2>1. /\ queue # <<>> /\ queue' = Tail(queue) /\ UNCHANGED <<prod, unsent>>
    BY <1>3 DEF Deliver, Expire
  <2>2. /\ \A i, j \in DOMAIN queue' : i < j => ~Before(queue'[j], queue'[i])
        /\ Range(queue) = Range(queue)' \cup {Head(queue)}
    BY <2>1, <1>0, QueueAfterTail
  <2>3. CASE Deliver
    <3>1. /\ Range(authLog)' = Range(authLog) \cup {Head(queue)} /\ UNCHANGED errors
      <4>1. Head(queue) \in Events
        BY <2>1, <1>0, HeadTail
      <4> QED BY <4>1, <2>3, <1>0, AppendNew DEF Deliver
    <3> QED BY <2>1, <2>2, <3>1 DEF ProducerInv, Replaying
  <2>4. CASE Expire
    <3>1. UNCHANGED authLog /\ errors' # {}
      BY <2>4 DEF Expire, kafkaVars
    <3> QED BY <2>1, <2>2, <3>1 DEF ProducerInv, Replaying
  <2> QED BY <1>3, <2>3, <2>4
<1>4. CASE KillsBroker
  <2>1. PICK n \in 0..Len(queue) : authLog' = authLog \o SubSeq(queue, 1, n)
    BY <1>4 DEF KillsBroker, KillBroker
  <2>2. UNCHANGED prodVars
    BY <1>4 DEF KillsBroker
  <2>3. Range(authLog)' \subseteq Range(authLog) \cup Range(queue)
    BY <2>1, <1>0, PutBehind
  <2> QED BY <2>2, <2>3, <1>0 DEF ProducerInv, Replaying, prodVars
<1>5. CASE UNCHANGED <<prodVars, authLog>>
  BY <1>5 DEF ProducerInv, Replaying, prodVars
<1> QED BY <1>1, <1>2, <1>3, <1>4, <1>5, ProducerSteps DEF ProducerStep

\* First occurrences stay in order: what is put behind the log is either the
\* head of the queue, or the queue up to some event.
LEMMA LogInvStep ==
  TypeOK /\ ProducerInv /\ LogInv /\ [Next]_vars => LogInv'
<1> SUFFICES ASSUME TypeOK, ProducerInv, LogInv, [Next]_vars PROVE LogInv'
  OBVIOUS
<1>0. /\ authLog \in Seq(Events) /\ queue \in Seq(Events) /\ unsent \subseteq Events
      /\ Range(authLog) \subseteq Range(authLog)'
      /\ \A n \in 0..Len(authLog) : Read(n)' = Read(n)
      /\ Range(authLog) = Read(Len(authLog))
      /\ DOMAIN authLog = 1..Len(authLog) /\ Len(authLog) \in Nat
      /\ Range(authLog) \subseteq Events
  BY ReadGrows DEF TypeOK, KafkaType, ProducerType
<1>1. ASSUME \* nothing comes back to life, and errors are not forgotten
             \A d \in Events : d \in Alive' => d \in Alive, errors' = {} => errors = {},
             NEW j \in 1..Len(authLog), authLog'[j] = authLog[j], NEW d \in Events,
             Before(d, authLog'[j]), d \in Alive' \/ errors' = {}
      PROVE  d \in Read(j - 1)'
  <2>1. d \in Read(j - 1)
    BY <1>0, <1>1 DEF LogInv
  <2>2. j - 1 \in 0..Len(authLog)
    BY <1>0
  <2> QED BY <2>1, <2>2, <1>0
<1>2. CASE UNCHANGED authLog
  <2>1. (\A d \in Events : d \in Alive' => d \in Alive) /\ (errors' = {} => errors = {})
    <3>1. CASE ProducerStep
      <4>1. ASSUME NEW e \in Events, Produce(e)
            PROVE  Range(queue)' \cup unsent' \subseteq Range(queue) \cup unsent /\ errors' = errors
        BY <4>1, <1>0, AppendNew DEF Produce
      <4>2. CASE QueueFull \/ Flush \/ Finish
        <5>1. Range(<<>>) = {}
          BY DEF Range
        <5>2. (queue' = queue \/ queue' = <<>>) /\ UNCHANGED <<unsent, errors>>
          BY <4>2 DEF QueueFull, Flush, Finish
        <5> QED BY <5>1, <5>2, <1>2 DEF Alive
      <4>3. CASE Deliver \/ Expire
        <5>1. queue # <<>> /\ queue' = Tail(queue) /\ UNCHANGED unsent
              /\ (errors' = {} => errors = {})
          BY <4>3 DEF Deliver, Expire
        <5> QED BY <5>1, <1>0, <1>2, HeadTail DEF Alive
      <4> QED BY <3>1, <4>1, <4>2, <4>3, <1>2 DEF ProducerStep, Alive
    <3>2. CASE UNCHANGED prodVars
      BY <3>2, <1>2 DEF prodVars, Alive
    <3> QED BY <3>1, <3>2, ProducerSteps DEF KillsBroker
  <2> QED BY <2>1, <1>1, <1>2, <1>0 DEF LogInv
<1>3. CASE Deliver /\ ProducerStep
  <2> DEFINE h == Head(queue)
  <2>1. /\ queue # <<>> /\ queue' = Tail(queue) /\ authLog' = Append(authLog, h)
        /\ UNCHANGED <<unsent, errors, prod>>
    BY <1>3 DEF Deliver
  <2>2. /\ h \in Events /\ Range(queue) = Range(queue)' \cup {h}
        /\ \A e \in Range(queue)' : e \in Range(queue) /\ ~Before(e, h)
    BY <2>1, <1>0, QueueAfterTail
  <2>3. /\ DOMAIN authLog' = 1..(Len(authLog) + 1)
        /\ authLog'[Len(authLog) + 1] = h
        /\ \A i \in 1..Len(authLog) : authLog'[i] = authLog[i]
        /\ Range(authLog)' = Range(authLog) \cup {h}
    BY <2>1, <2>2, <1>0, AppendNew
  <2>4. \A d \in Events : d \in Alive' => d \in Alive
    BY <2>1, <2>2, <2>3 DEF Alive
  <2>5. ASSUME NEW d \in Events, Before(d, h), d \in Alive' \/ errors = {}
        PROVE  d \in Range(authLog)
    <3>1. d \notin unsent
      BY <2>2, <2>5 DEF ProducerInv, Range
    <3>2. h \in Range(queue) /\ Replaying
      BY <2>1, <2>2 DEF ProducerInv
    <3>3. d \in Range(authLog) \cup Range(queue)
      BY <2>4, <2>5, <3>1, <3>2 DEF Alive, ProducerInv
    <3>4. d # h /\ d \notin Range(queue)'
      BY <2>2, <2>5, NoEventBeforeItself
    <3> QED BY <3>3, <3>4, <2>2
  <2>6. ASSUME NEW j \in DOMAIN authLog', NEW d \in Events, Before(d, authLog'[j]),
               d \in Alive' \/ errors' = {}
        PROVE  d \in Read(j - 1)'
    <3>1. CASE j \in 1..Len(authLog)
      BY <3>1, <2>1, <2>3, <2>4, <2>6, <1>1
    <3>2. CASE j = Len(authLog) + 1
      <4>1. d \in Range(authLog)
        BY <3>2, <2>1, <2>3, <2>5, <2>6
      <4>2. j - 1 = Len(authLog) /\ Len(authLog) \in 0..Len(authLog)
        BY <3>2, <1>0
      <4> QED BY <4>1, <4>2, <1>0
    <3> QED BY <3>1, <3>2, <2>3, <1>0
  <2> QED BY <2>6 DEF LogInv
<1>4. CASE KillsBroker
  <2>1. PICK n \in 0..Len(queue) : authLog' = authLog \o SubSeq(queue, 1, n)
    BY <1>4 DEF KillsBroker, KillBroker
  <2>2. UNCHANGED <<prod, unsent, queue, errors>>
    BY <1>4 DEF KillsBroker, prodVars
  <2>3. /\ Len(queue) \in Nat /\ n \in Nat /\ n <= Len(queue)
        /\ DOMAIN authLog' = 1..(Len(authLog) + n)
        /\ DOMAIN queue = 1..Len(queue)
        /\ \A i \in 1..Len(authLog) : authLog'[i] = authLog[i]
        /\ \A i \in 1..n : authLog'[Len(authLog) + i] = queue[i]
        /\ Range(authLog)' \subseteq Range(authLog) \cup Range(queue)
    BY <2>1, <1>0, PutBehind
  <2>4. \A d \in Events : d \in Alive' => d \in Alive
    BY <2>2, <2>3 DEF Alive
  <2>5. ASSUME NEW m \in 1..n, NEW d \in Events, Before(d, queue[m]), d \in Alive' \/ errors = {}
        PROVE  d \in {authLog'[i] : i \in 1..(Len(authLog) + m - 1)}
    <3>0. m \in DOMAIN queue /\ queue[m] \in Range(queue) /\ queue[m] \in Events \ unsent
      <4>1. m \in DOMAIN queue
        BY <2>3
      <4>2. queue[m] \in Range(queue) /\ queue[m] \in Events
        BY <4>1, <1>0 DEF Range
      <4> QED BY <4>1, <4>2 DEF ProducerInv
    <3>1. d \notin unsent /\ Replaying
      <4>1. queue # <<>>
        BY <3>0
      <4> QED BY <3>0, <4>1, <2>5 DEF ProducerInv
    <3>2. d \in Range(authLog) \cup Range(queue)
      BY <2>4, <2>5, <3>1 DEF Alive, ProducerInv
    <3>3. CASE d \in Range(authLog)
      <4>1. PICK i \in 1..Len(authLog) : d = authLog[i]
        BY <3>3, <1>0 DEF Range
      <4>2. i \in 1..(Len(authLog) + m - 1) /\ authLog'[i] = d
        BY <4>1, <2>3, <1>0
      <4> QED BY <4>2
    <3>4. CASE d \in Range(queue)
      <4>1. PICK i \in DOMAIN queue : d = queue[i]
        BY <3>4 DEF Range
      <4>2. i # m
        BY <4>1, <2>5, NoEventBeforeItself
      <4>3. ~(m < i)
        BY <3>0, <4>1, <2>5 DEF ProducerInv
      <4>4. i \in 1..n /\ Len(authLog) + i \in 1..(Len(authLog) + m - 1)
        BY <4>2, <4>3, <2>3, <1>0
      <4>5. authLog'[Len(authLog) + i] = d
        BY <4>1, <4>4, <2>3
      <4> QED BY <4>4, <4>5
    <3> QED BY <3>2, <3>3, <3>4
  <2>6. ASSUME NEW j \in DOMAIN authLog', NEW d \in Events, Before(d, authLog'[j]),
               d \in Alive' \/ errors' = {}
        PROVE  d \in Read(j - 1)'
    <3>1. CASE j \in 1..Len(authLog)
      BY <3>1, <2>2, <2>3, <2>4, <2>6, <1>1
    <3>2. CASE j \notin 1..Len(authLog)
      <4>1. j - Len(authLog) \in 1..n /\ j = Len(authLog) + (j - Len(authLog))
            /\ Len(authLog) + (j - Len(authLog)) - 1 = j - 1
        BY <3>2, <2>3, <1>0
      <4>2. authLog'[j] = queue[j - Len(authLog)]
        BY <4>1, <2>3
      <4>3. d \in {authLog'[i] : i \in 1..(j - 1)}
        BY <4>1, <4>2, <2>2, <2>5, <2>6
      <4> QED BY <4>3 DEF Read
    <3> QED BY <3>1, <3>2
  <2> QED BY <2>6 DEF LogInv
<1> QED BY <1>2, <1>3, <1>4, ProducerSteps
        DEF ProducerStep, kafkaVars, Produce, QueueFull, Flush, Expire, Finish

\* Without a kill of the broker it stays up, and each event goes out once.
LEMMA OnceInvStep ==
  TypeOK /\ KillsType /\ ProducerInv /\ OnceInv /\ [Next]_vars => OnceInv'
<1> SUFFICES ASSUME TypeOK, KillsType, ProducerInv, OnceInv, [Next]_vars, kills'.broker = 0
             PROVE  OnceInv'
  BY DEF OnceInv
<1>0. /\ authLog \in Seq(Events) /\ queue \in Seq(Events)
      /\ Len(authLog) \in Nat /\ DOMAIN authLog = 1..Len(authLog)
      /\ Len(queue) \in Nat /\ DOMAIN queue = 1..Len(queue)
  BY DEF TypeOK, KafkaType, ProducerType
<1>1. ~KillsBroker /\ kills.broker = 0
  BY KillsSteps DEF KillsType, KillsBroker
<1>2. /\ broker = "up" /\ errors = {} /\ prod # "crashed"
      /\ prod = "done" => Events \subseteq Range(authLog)
      /\ \A i, j \in DOMAIN authLog : authLog[i] = authLog[j] => i = j
      /\ \A i, j \in DOMAIN queue : queue[i] = queue[j] => i = j
      /\ Range(authLog) \cap Range(queue) = {}
  BY <1>1 DEF OnceInv
<1>3. ASSUME NEW e \in Events, Produce(e) PROVE OnceInv'
  <2>1. /\ e \in unsent /\ queue' = Append(queue, e) /\ prod = "replay"
        /\ UNCHANGED <<prod, errors, broker, authLog>>
    BY <1>3 DEF Produce, kafkaVars
  <2>2. /\ Range(queue)' = Range(queue) \cup {e}
        /\ DOMAIN queue' = 1..(Len(queue) + 1)
        /\ \A i \in 1..Len(queue) : queue'[i] = queue[i]
        /\ queue'[Len(queue) + 1] = e
    BY <2>1, <1>0, AppendNew
  <2>3. e \notin Range(queue) \cup Range(authLog)
    BY <2>1 DEF ProducerInv
  <2>4. \A i \in DOMAIN queue : queue[i] # e
    BY <2>3 DEF Range
  <2>5. \A i, j \in DOMAIN queue' : queue'[i] = queue'[j] => i = j
    BY <2>2, <2>4, <1>0, <1>2
  <2> QED BY <2>1, <2>2, <2>3, <2>5, <1>2 DEF OnceInv
<1>4. CASE QueueFull \/ Expire
  BY <1>4, <1>2 DEF QueueFull, Expire
<1>5. CASE Flush
  BY <1>5, <1>2 DEF Flush, kafkaVars, OnceInv
<1>6. CASE Finish
  <2>1. /\ prod = "flush" /\ queue = <<>> /\ queue' = <<>> /\ prod' = "done"
        /\ UNCHANGED <<errors, broker, authLog>>
    BY <1>6, <1>2 DEF Finish, kafkaVars
  <2>2. Range(<<>>) = {} /\ DOMAIN <<>> = {}
    BY DEF Range
  <2>3. Events \subseteq Range(authLog)
    BY <2>1, <2>2, <1>2 DEF ProducerInv, Replaying
  <2> QED BY <2>1, <2>2, <2>3, <1>2 DEF OnceInv
<1>7. CASE Deliver
  <2> DEFINE h == Head(queue)
  <2>1. /\ queue # <<>> /\ queue' = Tail(queue) /\ authLog' = Append(authLog, h)
        /\ UNCHANGED <<prod, errors, broker>>
    BY <1>7 DEF Deliver
  <2>2. /\ h \in Events /\ Len(queue') = Len(queue) - 1 /\ h = queue[1]
        /\ \A i \in 1..Len(queue') : queue'[i] = queue[i + 1]
        /\ DOMAIN queue' = 1..Len(queue') /\ Len(queue) \in Nat \ {0}
        /\ Range(queue) = Range(queue)' \cup {h}
    BY <2>1, <1>0, HeadTail
  <2>3. /\ DOMAIN authLog' = 1..(Len(authLog) + 1)
        /\ authLog'[Len(authLog) + 1] = h
        /\ \A i \in 1..Len(authLog) : authLog'[i] = authLog[i]
        /\ Range(authLog)' = Range(authLog) \cup {h}
    BY <2>1, <2>2, <1>0, AppendNew
  <2> HIDE DEF h
  <2>4. \A i \in DOMAIN authLog : authLog[i] # h
    BY <2>2, <1>2 DEF Range
  <2>5. \A i, j \in DOMAIN authLog' : authLog'[i] = authLog'[j] => i = j
    BY <2>3, <2>4, <1>0, <1>2
  <2>6. \A i \in DOMAIN queue' : i + 1 \in DOMAIN queue /\ 1 \in DOMAIN queue /\ i \in Int /\ i + 1 # 1
    BY <2>2, <1>0
  <2>7. ASSUME NEW i \in DOMAIN queue', NEW j \in DOMAIN queue', queue'[i] = queue'[j]
        PROVE  i = j
    <3>1. i + 1 = j + 1
      BY <2>2, <2>6, <2>7, <1>2
    <3> QED BY <3>1, <2>6
  <2>8. h \notin Range(queue)'
    BY <2>2, <2>6, <1>2 DEF Range
  <2>9. Range(authLog)' \cap Range(queue)' = {}
    BY <2>2, <2>3, <2>8, <1>2
  <2>10. prod' = "done" => Events \subseteq Range(authLog)'
    BY <2>1, <2>3, <1>2
  <2> QED BY <2>1, <2>5, <2>7, <2>9, <2>10, <1>2 DEF OnceInv
<1>8. CASE UNCHANGED <<prodVars, authLog>> /\ (broker' = broker \/ broker' = "up")
  BY <1>8, <1>2 DEF prodVars, OnceInv
<1> QED BY <1>1, <1>3, <1>4, <1>5, <1>6, <1>7, <1>8, ProducerSteps DEF ProducerStep
-----------------------------------------------------------------------------
\* The next event is read: what lies before the offset grows by it.
LEMMA ReadNext ==
  ASSUME authLog \in Seq(Events), NEW n \in Nat, n < Len(authLog)
  PROVE  /\ authLog[n + 1] \in Events
         /\ Read(n + 1) = Read(n) \cup {authLog[n + 1]}
         /\ (\A i, j \in DOMAIN authLog : authLog[i] = authLog[j] => i = j)
              => authLog[n + 1] \notin Read(n)
<1>1. /\ n + 1 \in DOMAIN authLog /\ 1..n \subseteq DOMAIN authLog /\ n + 1 \notin 1..n
      /\ 1..(n + 1) = 1..n \cup {n + 1} /\ authLog[n + 1] \in Events
  OBVIOUS
<1> QED BY <1>1 DEF Read

\* A state of the job fits a topic that has grown.
LEMMA StillFits ==
  ASSUME NEW s, NEW old, NEW new, NEW once \in BOOLEAN, NEW still \in BOOLEAN,
         Fits(s, old, once), Grows(old, new), Len(old) \in Nat,
         s.pos \in 0..Len(old), still => once
  PROVE  Fits(s, new, still)
<1>1. \A i \in 1..s.pos : new[i] = old[i]
  BY DEF Grows
<1>2. {new[i] : i \in 1..s.pos} = {old[i] : i \in 1..s.pos}
  BY <1>1
<1> QED BY <1>1, <1>2 DEF Fits

LEMMA JobInvInit == Init => JobInv
<1> SUFFICES ASSUME Init PROVE JobInv
  OBVIOUS
<1>1. /\ pos = 0 /\ counts = NoCounts /\ watermark = 0 /\ maxTime = 0
      /\ checkpoint = JobState
  BY DEF Init, FlinkInit, JobState
<1>2. checkpoint \in [pos : Nat, counts : [AlertKeys -> Nat], watermark : Nat]
  BY <1>1 DEF NoCounts, JobState
<1>3. {authLog[i] : i \in 1..0} = {}
  OBVIOUS
<1>4. \A k : Cardinality(Failures(k) \cap {}) = 0
  BY FS_EmptySet
<1>5. CountsFit(JobState)
  <2>1. \A k \in AlertKeys : counts[k] = 0
    BY <1>1 DEF NoCounts
  <2> QED BY <1>1, <1>3, <1>4, <2>1 DEF CountsFit, Fits, JobState
<1> QED BY <1>1, <1>2, <1>5 DEF JobInv

LEMMA ConsumeFits ==
  ASSUME TypeOK, OnceInv, JobInv, Consume, UNCHANGED kills
  PROVE  CountsFit(JobState)' /\ (maxTime' = 0 \/ \E i \in 1..pos' : maxTime' = authLog'[i].time)
<1> DEFINE e == authLog[pos + 1]
<1>0. /\ authLog \in Seq(Events) /\ pos \in Nat /\ pos < Len(authLog) /\ watermark \in Nat
      /\ counts \in [AlertKeys -> Nat] /\ maxTime \in Nat
  BY DEF TypeOK, KafkaType, FlinkType, Consume
<1>1. /\ pos' = pos + 1 /\ UNCHANGED <<watermark, authLog, kills>>
      /\ counts' = IF Counted(e) THEN [counts EXCEPT ![AlertKey(e)] = @ + 1] ELSE counts
      /\ maxTime' = IF e.time > maxTime THEN e.time ELSE maxTime
  BY DEF Consume, kafkaVars
<1>2. /\ e \in Events /\ Read(pos + 1) = Read(pos) \cup {e}
      /\ kills.broker = 0 => e \notin Read(pos)
  BY <1>0, ReadNext DEF OnceInv
<1> HIDE DEF e
<1>3. /\ watermark = 0 \/ \E i \in 1..pos : watermark + Lateness = authLog[i].time
      /\ \A k \in AlertKeys : counts[k] <= pos
      /\ \A k \in AlertKeys : Closed(k, watermark) => counts[k] = 0
      /\ \A k \in AlertKeys : ~Closed(k, watermark) =>
           LET n == Cardinality(Failures(k) \cap Read(pos))
           IN  counts[k] >= n /\ (kills.broker = 0 => counts[k] = n)
  BY DEF JobInv, CountsFit, Fits, JobState, Read
<1>4. ASSUME NEW k \in AlertKeys PROVE counts'[k] <= pos + 1
  BY <1>0, <1>1, <1>3
<1>5. Counted(e) => e.status = "failure" /\ ~Closed(AlertKey(e), watermark)
  <2>1. WindowEnd(AlertKey(e)) \in Nat
    BY <1>2, InItsWindow
  <2> QED BY <2>1, <1>0 DEF Counted, Closed
<1>6. ASSUME NEW k \in AlertKeys, Closed(k, watermark) PROVE counts'[k] = 0
  BY <1>0, <1>1, <1>3, <1>5, <1>6
<1>7. ASSUME NEW k \in AlertKeys, ~Closed(k, watermark)
      PROVE  LET n == Cardinality(Failures(k) \cap Read(pos + 1))
             IN  counts'[k] >= n /\ (kills.broker = 0 => counts'[k] = n)
  <2> DEFINE old == Failures(k) \cap Read(pos)
  <2>1. /\ IsFiniteSet(old) /\ Cardinality(old) \in Nat
    BY FailuresFinite, FS_Subset, FS_CardinalityType
  <2>2. CASE e.status = "failure" /\ AlertKey(e) = k
    <3>1. Counted(e)
      <4>1. WindowEnd(AlertKey(e)) \in Nat
        BY <1>2, InItsWindow
      <4> QED BY <4>1, <2>2, <1>0, <1>7 DEF Counted, Closed
    <3>2. counts'[k] = counts[k] + 1
      BY <3>1, <2>2, <1>0, <1>1
    <3>3. Failures(k) \cap Read(pos + 1) = old \cup {e}
      BY <1>2, <2>2 DEF Failures
    <3>4. Cardinality(old \cup {e}) = IF e \in old THEN Cardinality(old) ELSE Cardinality(old) + 1
      BY <2>1, FS_AddElement
    <3>5. /\ counts[k] >= Cardinality(old) /\ counts[k] \in Nat
          /\ kills.broker = 0 => counts[k] = Cardinality(old) /\ e \notin old
      BY <1>0, <1>2, <1>3, <1>7
    <3> DEFINE n == Cardinality(Failures(k) \cap Read(pos + 1))
    <3>6. n = IF e \in old THEN Cardinality(old) ELSE Cardinality(old) + 1
      BY <3>3, <3>4
    <3> HIDE DEF old, n
    <3>7. counts'[k] >= n /\ (kills.broker = 0 => counts'[k] = n)
      BY <3>2, <3>5, <3>6, <2>1
    <3> QED BY <3>7 DEF n
  <2>3. CASE ~(e.status = "failure" /\ AlertKey(e) = k)
    <3>1. Failures(k) \cap Read(pos + 1) = old
      BY <1>2, <2>3 DEF Failures
    <3>2. counts'[k] = counts[k]
      BY <1>0, <1>1, <1>5, <2>3
    <3> QED BY <3>1, <3>2, <1>3, <1>7
  <2> QED BY <2>2, <2>3
<1>8. watermark = 0 \/ \E i \in 1..(pos + 1) : watermark + Lateness = authLog[i].time
  BY <1>0, <1>3
<1>9. CountsFit(JobState)'
  <2>1. CountsFit(JobState)' <=>
          Fits([pos |-> pos + 1, counts |-> counts', watermark |-> watermark], authLog,
               kills.broker = 0)
    BY <1>1 DEF CountsFit, Fits, JobState
  <2> QED BY <2>1, <1>4, <1>6, <1>7, <1>8 DEF Fits, Read
<1>10. maxTime' = 0 \/ \E i \in 1..(pos + 1) : maxTime' = authLog[i].time
  <2>1. maxTime = 0 \/ \E i \in 1..pos : maxTime = authLog[i].time
    BY DEF JobInv
  <2>2. pos + 1 \in 1..(pos + 1) /\ 1..pos \subseteq 1..(pos + 1)
    BY <1>0
  <2> QED BY <2>1, <2>2, <1>1 DEF e
<1> QED BY <1>1, <1>9, <1>10

LEMMA JobInvStep ==
  TypeOK /\ KillsType /\ OnceInv /\ JobInv /\ [Next]_vars => JobInv'
<1> SUFFICES ASSUME TypeOK, KillsType, OnceInv, JobInv, [Next]_vars PROVE JobInv'
  OBVIOUS
<1>0. /\ Grows(authLog, authLog') /\ authLog' \in Seq(Events) /\ authLog \in Seq(Events)
      /\ Len(authLog) \in Nat /\ kills.broker \in Nat
      /\ (kills'.broker = 0) => (kills.broker = 0)
      /\ pos \in 0..Len(authLog) /\ checkpoint.pos \in 0..Len(authLog)
      /\ counts \in [AlertKeys -> Nat] /\ watermark \in Nat /\ maxTime \in Nat
  BY LogsGrow, KillsSteps DEF TypeOK, KafkaType, FlinkType, KillsType
<1>1. ASSUME NEW s, CountsFit(s), s.pos \in 0..Len(authLog)
      PROVE  Fits(s, authLog', kills'.broker = 0)
  BY <1>0, <1>1, StillFits DEF CountsFit
<1>2. ASSUME UNCHANGED <<pos, counts, watermark>> PROVE CountsFit(JobState)'
  BY <1>0, <1>1, <1>2 DEF CountsFit, JobState, JobInv
<1>3. ASSUME UNCHANGED checkpoint
      PROVE  CountsFit(checkpoint)' /\ checkpoint' \in [pos : Nat, counts : [AlertKeys -> Nat], watermark : Nat]
  BY <1>0, <1>1, <1>3 DEF CountsFit, JobInv
<1>4. ASSUME UNCHANGED <<pos, maxTime>>
      PROVE  maxTime' = 0 \/ \E i \in 1..pos' : maxTime' = authLog'[i].time
  <2>1. CASE maxTime = 0
    BY <2>1, <1>4
  <2>2. ASSUME NEW i \in 1..pos, maxTime = authLog[i].time
        PROVE  maxTime' = authLog'[i].time /\ i \in 1..pos'
    BY <2>2, <1>0, <1>4 DEF Grows
  <2> QED BY <2>1, <2>2 DEF JobInv
<1>5. CASE Consume /\ JobStep
  <2>1. UNCHANGED <<checkpoint, kills>>
    BY <1>5 DEF Consume, JobStep
  <2> QED BY <2>1, <1>3, <1>5, ConsumeFits DEF JobInv
<1>6. CASE AdvanceWatermark /\ JobStep
  <2>1. /\ maxTime - Lateness > watermark /\ watermark' = maxTime - Lateness
        /\ counts' = [k \in AlertKeys |-> IF Closed(k, watermark') THEN 0 ELSE counts[k]]
        /\ UNCHANGED <<pos, maxTime, checkpoint, authLog, kills>>
    BY <1>6 DEF AdvanceWatermark, JobStep, kafkaVars
  <2>2. /\ \A k \in AlertKeys : counts[k] <= pos /\ WindowEnd(k) \in Nat
        /\ \A k \in AlertKeys : ~Closed(k, watermark) =>
             LET n == Cardinality(Failures(k) \cap Read(pos))
             IN  counts[k] >= n /\ (kills.broker = 0 => counts[k] = n)
    BY InItsWindow DEF JobInv, CountsFit, Fits, JobState, Read, AlertKeys
  <2>3. \E i \in 1..pos : watermark' + Lateness = authLog[i].time
    <3>1. maxTime # 0 /\ watermark' + Lateness = maxTime
      BY <2>1, <1>0, FlinkAssumption
    <3> QED BY <3>1 DEF JobInv
  <2>4. \A k \in AlertKeys : ~Closed(k, watermark') => ~Closed(k, watermark)
    BY <2>1, <2>2, <1>0, FlinkAssumption DEF Closed
  <2> DEFINE s == [pos |-> pos, counts |-> counts', watermark |-> watermark']
  <2>5. \A k \in AlertKeys : counts'[k] = IF Closed(k, watermark') THEN 0 ELSE counts[k]
    BY <2>1
  <2>6. Fits(s, authLog, kills.broker = 0)
    <3>1. s.pos = pos /\ s.counts = counts' /\ s.watermark = watermark'
      OBVIOUS
    <3>2. \A k \in AlertKeys : counts'[k] <= pos
      BY <2>2, <2>5, <1>0
    <3>3. \A k \in AlertKeys : ~Closed(k, watermark') =>
             LET n == Cardinality(Failures(k) \cap Read(pos))
             IN  counts'[k] >= n /\ (kills.broker = 0 => counts'[k] = n)
      BY <2>2, <2>4, <2>5
    <3> HIDE DEF s
    <3> QED BY <3>1, <3>2, <3>3, <2>3, <2>5 DEF Fits, Read
  <2>7. CountsFit(JobState)'
    BY <2>1, <2>6 DEF CountsFit, JobState
  <2> QED BY <2>1, <2>7, <1>3, <1>4 DEF JobInv
<1>7. CASE Checkpoint /\ JobStep
  <2>1. checkpoint' = JobState /\ UNCHANGED <<pos, counts, watermark, maxTime, authLog, kills>>
    BY <1>7 DEF Checkpoint, JobStep, JobState, kafkaVars
  <2>2. checkpoint' \in [pos : Nat, counts : [AlertKeys -> Nat], watermark : Nat]
    BY <2>1, <1>0 DEF JobState
  <2>3. CountsFit(checkpoint)' <=> CountsFit(JobState)
    BY <2>1 DEF CountsFit
  <2> QED BY <2>1, <2>2, <2>3, <1>2, <1>4 DEF JobInv
<1>8. CASE RecoversTaskmanager
  <2>1. /\ pos' = checkpoint.pos /\ counts' = checkpoint.counts
        /\ watermark' = checkpoint.watermark /\ maxTime' = 0
        /\ UNCHANGED <<checkpoint, authLog, kills>>
    BY <1>8 DEF RecoversTaskmanager, RestoreJob, kafkaVars
  <2>2. JobState' = checkpoint
    BY <2>1 DEF JobInv, JobState
  <2> QED BY <2>1, <2>2, <1>3 DEF JobInv, CountsFit
<1>9. CASE \/ JobStep /\ (\E k \in AlertKeys : SinkSend(k))
           \/ KillsTaskmanager \/ UNCHANGED flinkVars
  <2>1. UNCHANGED <<pos, counts, watermark, maxTime, checkpoint>>
    BY <1>9 DEF SinkSend, KillsTaskmanager, KillTaskmanager, flinkVars
  <2> QED BY <2>1, <1>2, <1>3, <1>4 DEF JobInv
<1> QED BY <1>5, <1>6, <1>7, <1>8, <1>9, JobSteps DEF JobStep
-----------------------------------------------------------------------------
\* What is not alive any more stays away.
LEMMA LostForGood ==
  ASSUME TypeOK, [Next]_vars, NEW k, Lost(k)
  PROVE  Lost(k)'
<1>0. /\ authLog \in Seq(Events) /\ queue \in Seq(Events) /\ unsent \subseteq Events
  BY DEF TypeOK, KafkaType, ProducerType
<1>1. Alive' \subseteq Alive
  <2>1. ASSUME NEW e \in Events, Produce(e) PROVE Alive' \subseteq Alive
    <3>1. /\ e \in unsent /\ unsent' = unsent \ {e} /\ UNCHANGED authLog
          /\ Range(queue)' = Range(queue) \cup {e}
      BY <2>1, <1>0, AppendNew DEF Produce, kafkaVars
    <3> QED BY <3>1 DEF Alive
  <2>2. CASE QueueFull \/ Flush \/ Finish
    <3>1. Range(<<>>) = {}
      BY DEF Range
    <3>2. (queue' = queue \/ queue' = <<>>) /\ UNCHANGED <<unsent, authLog>>
      BY <2>2 DEF QueueFull, Flush, Finish, kafkaVars
    <3> QED BY <3>1, <3>2 DEF Alive
  <2>3. CASE Deliver \/ Expire
    <3>1. queue # <<>> /\ queue' = Tail(queue) /\ UNCHANGED unsent
          /\ (authLog' = authLog \/ authLog' = Append(authLog, Head(queue)))
      BY <2>3 DEF Deliver, Expire, kafkaVars
    <3>2. /\ Range(queue) = Range(queue)' \cup {Head(queue)} /\ Head(queue) \in Events
      BY <3>1, <1>0, HeadTail
    <3>3. Range(authLog)' \subseteq Range(authLog) \cup {Head(queue)}
      <4>1. CASE authLog' = authLog
        BY <4>1
      <4>2. CASE authLog' = Append(authLog, Head(queue))
        BY <4>2, <3>2, <1>0, AppendNew
      <4> QED BY <3>1, <4>1, <4>2
    <3> QED BY <3>1, <3>2, <3>3 DEF Alive
  <2>4. CASE KillsBroker
    <3>1. PICK n \in 0..Len(queue) : authLog' = authLog \o SubSeq(queue, 1, n)
      BY <2>4 DEF KillsBroker, KillBroker
    <3>2. Range(authLog)' \subseteq Range(authLog) \cup Range(queue) /\ UNCHANGED prodVars
      BY <2>4, <3>1, <1>0, PutBehind DEF KillsBroker
    <3> QED BY <3>2 DEF Alive, prodVars
  <2>5. CASE UNCHANGED <<prodVars, authLog>>
    BY <2>5 DEF Alive, prodVars
  <2> QED BY <2>1, <2>2, <2>3, <2>4, <2>5, ProducerSteps DEF ProducerStep
<1> QED BY <1>1 DEF Lost

LEMMA FiredInvInit == Init => FiredInv
<1> SUFFICES ASSUME Init PROVE FiredInv
  OBVIOUS
<1>1. /\ tm = "up" /\ sinkBuf = {} /\ watermark = 0 /\ checkpoint.watermark = 0
      /\ alertLog = <<>>
  BY DEF Init, KafkaInit, FlinkInit
<1>2. \A k \in AlertKeys : ~Closed(k, 0)
  BY InItsWindow DEF AlertKeys, Closed
<1>3. Range(<<>>) = {}
  BY DEF Range
<1> QED BY <1>1, <1>2, <1>3 DEF FiredInv, GroundTruth

\* The windows that a watermark closes are counted in full, as far as their
\* events are alive: each of them lies before the event the watermark is from.
LEMMA FiresAll ==
  ASSUME TypeOK, LogInv, JobInv, AdvanceWatermark,
         NEW k \in GroundTruth, Closed(k, watermark'), ~Closed(k, watermark), ~Lost(k)
  PROVE  k \in Fired(watermark')
<1>0. /\ authLog \in Seq(Events) /\ pos \in 0..Len(authLog) /\ Len(authLog) \in Nat
      /\ DOMAIN authLog = 1..Len(authLog) /\ maxTime \in Nat /\ watermark \in Nat
      /\ counts \in [AlertKeys -> Nat] /\ k \in AlertKeys
  BY DEF TypeOK, KafkaType, FlinkType, GroundTruth
<1>1. maxTime - Lateness > watermark /\ watermark' = maxTime - Lateness
  BY DEF AdvanceWatermark
<1>2. PICK i \in 1..pos : maxTime = authLog[i].time
  BY <1>0, <1>1, FlinkAssumption DEF JobInv
<1>3. i \in DOMAIN authLog /\ authLog[i] \in Events /\ 1..(i - 1) \subseteq 1..pos
  BY <1>0
<1>4. ASSUME NEW d \in Failures(k) PROVE d \in Read(pos)
  <2>1. d \in Events /\ AlertKey(d) = k /\ d \in Alive
    BY DEF Failures, Lost
  <2>2. d.time < authLog[i].time
    <3>1. d.time \in Nat /\ d.time < WindowEnd(k) /\ WindowEnd(k) \in Nat
      BY <2>1, InItsWindow
    <3> QED BY <3>1, <1>0, <1>1, <1>2, FlinkAssumption DEF Closed
  <2>3. d \in Read(i - 1)
    BY <2>1, <2>2, <1>3 DEF Before, LogInv
  <2> QED BY <2>3, <1>3 DEF Read
<1>5. Failures(k) \cap Read(pos) = Failures(k)
  BY <1>4
<1>6. counts[k] >= Cardinality(Failures(k))
  BY <1>0, <1>5 DEF JobInv, CountsFit, Fits, JobState, Read
<1>7. Cardinality(Failures(k)) >= FAILURE_THRESHOLD /\ Cardinality(Failures(k)) \in Nat
  BY FailuresFinite DEF GroundTruth, buckets
<1> QED BY <1>0, <1>6, <1>7, DetectionAssumption DEF Fired

\* What fires is an alert of the corpus, if no event was counted twice.
LEMMA FiresTrue ==
  ASSUME TypeOK, JobInv, kills.broker = 0, NEW wm, NEW k \in Fired(wm)
  PROVE  k \in GroundTruth
<1>1. k \in AlertKeys /\ counts[k] >= FAILURE_THRESHOLD /\ counts[k] \in Nat
  BY DEF Fired, TypeOK, FlinkType
<1>2. ~Closed(k, watermark)
  BY <1>1, DetectionAssumption DEF JobInv, CountsFit, Fits, JobState
<1>3. counts[k] = Cardinality(Failures(k) \cap Read(pos))
  BY <1>1, <1>2 DEF JobInv, CountsFit, Fits, JobState, Read
<1> QED BY <1>1, <1>3, CountedOnce

LEMMA FiredInvStep ==
  /\ TypeOK /\ KillsType /\ LogInv /\ OnceInv /\ JobInv /\ FiredInv /\ [Next]_vars
  => FiredInv'
<1> SUFFICES ASSUME TypeOK, KillsType, LogInv, OnceInv, JobInv, FiredInv, [Next]_vars
             PROVE  FiredInv'
  OBVIOUS
<1>0. /\ alertLog \in Seq(AlertKeys) /\ Range(alertLog) \subseteq Range(alertLog)'
      /\ sinkBuf \subseteq AlertKeys /\ GroundTruth \subseteq AlertKeys
      /\ (kills'.broker = 0) => (kills.broker = 0)
      /\ tm \in {"up", "down"}
  <2>1. /\ alertLog \in Seq(AlertKeys) /\ alertLog' \in Seq(AlertKeys)
        /\ Grows(alertLog, alertLog')
    BY LogsGrow DEF TypeOK, KafkaType
  <2>2. Range(alertLog) \subseteq Range(alertLog)'
    <3>1. /\ DOMAIN alertLog = 1..Len(alertLog) /\ DOMAIN alertLog' = 1..Len(alertLog')
          /\ Len(alertLog) \in Nat /\ Len(alertLog') \in Nat
      BY <2>1
    <3> QED BY <3>1, <2>1 DEF Grows, Range
  <2> QED BY <2>1, <2>2, KillsSteps DEF TypeOK, FlinkType, GroundTruth, KillsType
<1>1. \A k : Lost(k) => Lost(k)'
  BY LostForGood
<1>2. CASE AdvanceWatermark /\ JobStep
  <2>1. /\ tm = "up" /\ sinkBuf' = sinkBuf \cup Fired(watermark')
        /\ UNCHANGED <<tm, checkpoint, alertLog, kills>>
    BY <1>2 DEF AdvanceWatermark, JobStep, kafkaVars
  <2>2. ASSUME NEW k \in GroundTruth, Closed(k, watermark')
        PROVE  k \in Range(alertLog)' \cup sinkBuf' \/ Lost(k)'
    <3>1. CASE Closed(k, watermark)
      BY <3>1, <2>1, <1>1 DEF FiredInv
    <3>2. CASE ~Closed(k, watermark)
      BY <3>2, <2>1, <2>2, <1>1, <1>2, FiresAll
    <3> QED BY <3>1, <3>2
  <2>3. kills.broker = 0 => Fired(watermark') \subseteq GroundTruth
    BY FiresTrue
  <2> QED BY <2>1, <2>2, <2>3, <1>1 DEF FiredInv
<1>3. ASSUME NEW k \in AlertKeys, SinkSend(k), JobStep PROVE FiredInv'
  <2>1. /\ k \in sinkBuf /\ sinkBuf' = sinkBuf \ {k} /\ alertLog' = Append(alertLog, k)
        /\ tm = "up" /\ UNCHANGED <<tm, watermark, checkpoint, kills>>
    BY <1>3 DEF SinkSend, JobStep
  <2>2. Range(alertLog)' = Range(alertLog) \cup {k}
    BY <2>1, <1>0, AppendNew
  <2> QED BY <2>1, <2>2, <1>1 DEF FiredInv
<1>4. CASE Checkpoint /\ JobStep
  <2>1. /\ sinkBuf = {} /\ tm = "up" /\ checkpoint'.watermark = watermark
        /\ UNCHANGED <<tm, watermark, sinkBuf, alertLog, kills>>
    BY <1>4 DEF Checkpoint, JobStep, kafkaVars
  <2> QED BY <2>1, <1>1 DEF FiredInv
<1>5. CASE KillsTaskmanager
  <2>1. /\ tm' = "down" /\ sinkBuf' = {} /\ UNCHANGED <<checkpoint, alertLog>>
    BY <1>5 DEF KillsTaskmanager, KillTaskmanager, kafkaVars
  <2> QED BY <2>1, <1>0, <1>1 DEF FiredInv
<1>6. CASE RecoversTaskmanager
  <2>1. /\ tm = "down" /\ tm' = "up" /\ watermark' = checkpoint.watermark
        /\ UNCHANGED <<sinkBuf, checkpoint, alertLog, kills>>
    BY <1>6 DEF RecoversTaskmanager, RestoreJob, kafkaVars
  <2> QED BY <2>1, <1>1 DEF FiredInv
<1>7. CASE Consume /\ JobStep
  <2>1. UNCHANGED <<tm, watermark, sinkBuf, checkpoint, alertLog, kills>>
    BY <1>7 DEF Consume, JobStep, kafkaVars
  <2> QED BY <2>1, <1>1 DEF FiredInv
<1>8. CASE UNCHANGED flinkVars
  <2>1. UNCHANGED <<tm, watermark, sinkBuf, checkpoint>>
    BY <1>8 DEF flinkVars
  <2>2. kills'.broker = 0 => Range(alertLog)' \cup sinkBuf' \subseteq GroundTruth
    <3>1. CASE KillsBroker
      <4>1. kills'.broker # 0
        BY <3>1, KillsSteps DEF KillsType, KillsBroker
      <4> QED BY <4>1
    <3>2. CASE \E k \in AlertKeys : SinkSend(k)
      <4>1. PICK k \in AlertKeys : SinkSend(k)
        BY <3>2
      <4>2. k \in sinkBuf /\ alertLog' = Append(alertLog, k)
        BY <4>1 DEF SinkSend
      <4> QED BY <4>2, <2>1, <1>0, AppendNew DEF FiredInv
    <3>3. CASE UNCHANGED alertLog
      BY <3>3, <2>1, <1>0 DEF FiredInv
    <3> QED BY <3>1, <3>2, <3>3, AlertLogSteps
  <2> QED BY <2>1, <2>2, <1>0, <1>1 DEF FiredInv
<1> QED BY <1>2, <1>3, <1>4, <1>5, <1>6, <1>7, <1>8, JobSteps DEF JobStep
-----------------------------------------------------------------------------
\* The corpus has an end, and while a line of it is unsent the end is.
LEMMA EndExists ==
  /\ EndEvents # {}
  /\ ProducerInv /\ unsent # {} /\ unsent \subseteq Events => unsent \cap EndEvents # {}
<1>1. PICK e \in Events : Closing(e) /\ \A d \in Events : ~Before(e, d)
  BY StreamAssumption
<1>2. \A d \in Events : d.time \in Nat
  BY DetectionAssumption
<1>3. \A d \in Events : d.time <= e.time
  BY <1>1, <1>2 DEF Before
<1>4. e \in EndEvents
  BY <1>1, <1>3 DEF EndEvents
<1>5. ASSUME ProducerInv, NEW x \in unsent, unsent \subseteq Events
      PROVE  unsent \cap EndEvents # {}
  <2>1. CASE e \in unsent
    BY <2>1, <1>4
  <2>2. CASE e \notin unsent
    <3>1. ~Before(x, e) /\ x \in Events
      BY <2>2, <1>5 DEF ProducerInv
    <3>2. x.time >= e.time
      BY <3>1, <1>2 DEF Before
    <3>3. \A d \in Events : d.time <= x.time
      BY <3>1, <3>2, <1>2, <1>3
    <3>4. Closing(x)
      <4>1. \A k \in GroundTruth : WindowEnd(k) \in Nat
        BY InItsWindow DEF GroundTruth, AlertKeys
      <4> QED BY <4>1, <3>1, <3>2, <1>1, <1>2, FlinkAssumption DEF Closing
    <3> QED BY <3>1, <3>3, <3>4, <1>5 DEF EndEvents
  <2> QED BY <2>1, <2>2
<1> QED BY <1>4, <1>5

LEMMA EndInvInit == Init => EndInv
<1> SUFFICES ASSUME Init PROVE EndInv
  OBVIOUS
<1>1. tm = "up" /\ pos = 0 /\ {authLog[i] : i \in 1..0} = {}
  BY DEF Init, FlinkInit
<1> QED BY <1>1, EndExists DEF EndInv, Read

LEMMA EndInvStep == TypeOK /\ ProducerInv /\ EndInv /\ [Next]_vars => EndInv'
<1> SUFFICES ASSUME TypeOK, ProducerInv, EndInv, [Next]_vars PROVE EndInv'
  OBVIOUS
<1>0. /\ authLog \in Seq(Events) /\ pos \in 0..Len(authLog) /\ checkpoint.pos \in 0..Len(authLog)
      /\ maxTime \in Nat /\ unsent \subseteq Events /\ tm \in {"up", "down"}
      /\ Len(authLog) \in Nat
      /\ \A n \in 0..Len(authLog) : Read(n)' = Read(n)
      /\ \A e \in EndEvents : e \in Events /\ e.time \in Nat
  BY ReadGrows, DetectionAssumption
     DEF TypeOK, KafkaType, FlinkType, ProducerType, EndEvents
<1>1. CASE Consume /\ JobStep
  <2> DEFINE e == authLog[pos + 1]
  <2>1. /\ tm = "up" /\ pos' = pos + 1 /\ pos < Len(authLog) /\ UNCHANGED <<tm, authLog>>
        /\ maxTime' = IF e.time > maxTime THEN e.time ELSE maxTime
    BY <1>1 DEF Consume, kafkaVars
  <2>2. e \in Events /\ Read(pos + 1) = Read(pos) \cup {e}
    BY <2>1, <1>0, ReadNext
  <2> HIDE DEF e
  <2>3. e.time \in Nat /\ maxTime' \in Nat /\ maxTime' >= maxTime /\ maxTime' >= e.time
    BY <2>1, <2>2, <1>0, DetectionAssumption
  <2>4. ASSUME EndEvents \subseteq Read(pos + 1) PROVE \E x \in EndEvents : maxTime' >= x.time
    <3>1. CASE e \in EndEvents
      BY <3>1, <2>3
    <3>2. CASE e \notin EndEvents
      <4>1. PICK x \in EndEvents : maxTime >= x.time
        BY <3>2, <2>1, <2>2, <2>4 DEF EndInv
      <4> QED BY <4>1, <2>3, <1>0
    <3> QED BY <3>1, <3>2
  <2>5. Read(pos)' = Read(pos + 1)
    BY <2>1 DEF Read
  <2> QED BY <2>1, <2>4, <2>5 DEF EndInv
<1>2. CASE JobStep /\ ~Consume
  <2>1. UNCHANGED <<tm, pos, maxTime, authLog>> /\ tm = "up"
    BY <1>2 DEF JobStep, AdvanceWatermark, SinkSend, Checkpoint, kafkaVars
  <2> QED BY <2>1 DEF EndInv, Read
<1>3. CASE KillsTaskmanager
  <2>1. /\ unsent # {} /\ tm' = "down" /\ UNCHANGED <<checkpoint, authLog>>
    BY <1>3 DEF KillsTaskmanager, KillTaskmanager, MidReplay, kafkaVars
  <2>2. PICK e \in EndEvents : e \in unsent
    BY <2>1, <1>0, EndExists
  <2>3. e \notin Read(checkpoint.pos)
    <3>1. e \notin Range(authLog)
      BY <2>2 DEF ProducerInv
    <3>2. \A i \in 1..checkpoint.pos : i \in DOMAIN authLog
      BY <1>0
    <3> QED BY <3>1, <3>2 DEF Read, Range
  <2>4. Read(checkpoint.pos)' = Read(checkpoint.pos)
    BY <2>1 DEF Read
  <2> QED BY <2>1, <2>2, <2>3, <2>4 DEF EndInv
<1>4. CASE RecoversTaskmanager
  <2>1. /\ tm = "down" /\ tm' = "up" /\ pos' = checkpoint.pos /\ UNCHANGED authLog
    BY <1>4 DEF RecoversTaskmanager, RestoreJob, kafkaVars
  <2>2. Read(pos)' = Read(checkpoint.pos)
    BY <2>1 DEF Read
  <2> QED BY <2>1, <2>2 DEF EndInv
<1>5. CASE UNCHANGED flinkVars
  <2>1. UNCHANGED <<tm, pos, maxTime, checkpoint>>
    BY <1>5 DEF flinkVars
  <2>2. Read(pos)' = Read(pos) /\ Read(checkpoint.pos)' = Read(checkpoint.pos)
    BY <2>1, <1>0
  <2> QED BY <2>1, <2>2 DEF EndInv
<1> QED BY <1>1, <1>2, <1>3, <1>4, <1>5, JobSteps
-----------------------------------------------------------------------------
LEMMA ConsumerInvInit == Init => ConsumerInv
<1> SUFFICES ASSUME Init PROVE ConsumerInv
  OBVIOUS
<1>1. Range(<<>>) = {} /\ duplicates(<<>>) = {}
  BY DEF Range, duplicates
<1> QED BY <1>1 DEF Init, ConsumerInit, KafkaInit, ConsumerInv, ConsumerRunning

LEMMA ConsumerInvStep ==
  TypeOK /\ KillsType /\ ConsumerInv /\ [Next]_vars => ConsumerInv'
<1> SUFFICES ASSUME TypeOK, KillsType, ConsumerInv, [Next]_vars PROVE ConsumerInv'
  OBVIOUS
<1>0. /\ alertLog \in Seq(AlertKeys) /\ Range(alertLog) \subseteq Range(alertLog)'
      /\ \A i \in 1..Len(alertLog) : alertLog'[i] = alertLog[i]
      /\ DOMAIN alertLog = 1..Len(alertLog) /\ Len(alertLog) \in Nat
      /\ out \in Seq(AlertKeys) /\ fetch \in 0..Len(alertLog)
      /\ committed \in 0..Len(alertLog) /\ kills.consumer \in Nat
      /\ cons \in {"poll", "write", "save", "killed", "exited"}
  <2>1. /\ alertLog \in Seq(AlertKeys) /\ alertLog' \in Seq(AlertKeys)
        /\ Grows(alertLog, alertLog')
    BY LogsGrow DEF TypeOK, KafkaType
  <2>2. /\ DOMAIN alertLog = 1..Len(alertLog) /\ DOMAIN alertLog' = 1..Len(alertLog')
        /\ Len(alertLog) \in Nat /\ Len(alertLog') \in Nat
    BY <2>1
  <2>3. Range(alertLog) \subseteq Range(alertLog)'
    BY <2>1, <2>2 DEF Grows, Range
  <2> QED BY <2>1, <2>2, <2>3 DEF Grows, TypeOK, ConsumerType, KillsType
<1>1. CASE Poll /\ ConsumerStep
  <2> DEFINE k == alertLog[fetch + 1]
  <2>1. /\ cons = "poll" /\ fetch < Len(alertLog) /\ fetch' = fetch + 1
        /\ IF k \in seen THEN UNCHANGED <<row, cons>> ELSE row' = k /\ cons' = "write"
        /\ UNCHANGED <<seen, savedSeen, out, alertLog, kills>>
    BY <1>1 DEF Poll, ConsumerStep, kafkaVars
  <2>2. k \in Range(alertLog)
    BY <2>1, <1>0 DEF Range
  <2>3. seen = Range(out)
    BY <2>1 DEF ConsumerInv, ConsumerRunning
  <2>4. kills.consumer = 0 => \A i \in 1..fetch : alertLog[i] \in Range(out)
    BY <2>1 DEF ConsumerInv
  <2>5. kills.consumer = 0 => \A i \in 1..(fetch + 1) :
          alertLog[i] \in Range(out) \/ (cons' = "write" /\ row' = alertLog[i])
    <3>1. \A i \in 1..(fetch + 1) : i \in 1..fetch \/ i = fetch + 1
      BY <1>0
    <3> QED BY <3>1, <2>1, <2>3, <2>4
  <2> HIDE DEF k
  <2>6. /\ cons' = "write" => row' \in Range(alertLog) \ Range(out)
        /\ cons' \in {"poll", "write"}
    BY <2>1, <2>2, <2>3
  <2> QED BY <2>1, <2>3, <2>5, <2>6 DEF ConsumerInv, ConsumerRunning
<1>2. CASE Write /\ ConsumerStep
  <2>1. /\ cons = "write" /\ cons' = "save" /\ out' = Append(out, row)
        /\ seen' = seen \cup {row} /\ UNCHANGED <<fetch, row, savedSeen, alertLog, kills>>
    BY <1>2 DEF Write, ConsumerStep, kafkaVars
  <2>2. row \in Range(alertLog) \ Range(out) /\ seen = Range(out)
    BY <2>1 DEF ConsumerInv, ConsumerRunning
  <2>3. row \in AlertKeys
    BY <2>2, <1>0 DEF Range
  <2>4. Range(out)' = Range(out) \cup {row} /\ duplicates(out)' = {}
    BY <2>1, <2>2, <2>3, <1>0, AppendNew DEF ConsumerInv
  <2> QED BY <2>1, <2>2, <2>4 DEF ConsumerInv, ConsumerRunning
<1>3. CASE SaveSeen /\ ConsumerStep
  BY <1>3 DEF SaveSeen, ConsumerStep, kafkaVars, ConsumerInv, ConsumerRunning
<1>4. CASE Commit /\ ConsumerStep
  BY <1>4 DEF Commit, ConsumerStep, kafkaVars, ConsumerInv, ConsumerRunning
<1>5. CASE LeaveIdle
  <2>1. /\ cons = "poll" /\ cons' = "exited"
        /\ UNCHANGED <<fetch, seen, row, savedSeen, out, alertLog>>
    BY <1>5 DEF LeaveIdle, kafkaVars
  <2>2. kills'.consumer = kills.consumer
    BY <2>1, KillsSteps DEF KillsConsumer, KillConsumer
  <2> QED BY <2>1, <2>2 DEF ConsumerInv, ConsumerRunning
<1>6. CASE KillsConsumer
  <2>1. /\ cons' = "killed" /\ UNCHANGED <<savedSeen, out, alertLog>>
        /\ kills'.consumer = kills.consumer + 1
    BY <1>6 DEF KillsConsumer, KillConsumer, kafkaVars, KillsType
  <2> QED BY <2>1, <1>0 DEF ConsumerInv, ConsumerRunning
<1>7. CASE RestartsConsumer
  <2>1. /\ cons = "killed" /\ cons' = "poll" /\ seen' = savedSeen \cup Range(out)
        /\ UNCHANGED <<savedSeen, out, alertLog, kills>>
    BY <1>7 DEF RestartsConsumer, RestartConsumer, load_seen, kafkaVars
  <2> QED BY <2>1, <1>0 DEF ConsumerInv, ConsumerRunning
<1>8. CASE Stop \/ UNCHANGED consumerVars
  <2>1. UNCHANGED <<cons, fetch, seen, row, savedSeen, out>>
    BY <1>8 DEF Stop, consumerVars
  <2>2. kills'.consumer = kills.consumer
    BY <2>1, <1>0, KillsSteps DEF KillsConsumer, KillConsumer, ConsumerRunning
  <2>3. \A i \in 1..fetch : alertLog'[i] = alertLog[i]
    BY <1>0
  <2> QED BY <2>1, <2>2, <2>3, <1>0 DEF ConsumerInv, ConsumerRunning
<1>9. IdlesOut \/ Exit => LeaveIdle
  BY DEF IdlesOut, IdleExit, Exit
<1> QED BY <1>1, <1>2, <1>3, <1>4, <1>5, <1>6, <1>7, <1>8, <1>9, ConsumerSteps
        DEF ConsumerStep
-----------------------------------------------------------------------------
\* Once the work has ended nothing of it starts again.
LEMMA EndedStaysEnded ==
  ASSUME TypeOK, ProducerInv, WorkEnded, [Next]_vars
  PROVE  WorkEnded' /\ UNCHANGED alertLog
<1>0. /\ prod \in {"done", "crashed"} /\ queue = <<>>
      /\ broker = "up" /\ tm = "up" /\ pos = Len(authLog)
      /\ watermark >= maxTime - Lateness /\ sinkBuf = {}
      /\ maxTime \in Nat /\ watermark \in Nat
  BY DEF WorkEnded, JobDrained, ProducerInv, Replaying, TypeOK, FlinkType
<1>1. ~MidReplay /\ ~KillsBroker /\ ~KillsTaskmanager
  BY <1>0 DEF MidReplay, KillsBroker, KillsTaskmanager
<1>2. ~ProducerStep
  BY <1>0 DEF ProducerStep, Produce, QueueFull, Flush, Deliver, Expire, Finish
<1>3. UNCHANGED <<prodVars, authLog>> /\ broker' = "up"
  BY <1>0, <1>1, <1>2, ProducerSteps
<1>4. ~Consume /\ ~AdvanceWatermark /\ \A k \in AlertKeys : ~SinkSend(k)
  BY <1>0, FlinkAssumption DEF Consume, AdvanceWatermark, SinkSend
<1>5. UNCHANGED <<tm, pos, maxTime, watermark, sinkBuf>>
  BY <1>0, <1>1, <1>4, JobSteps
     DEF JobStep, Checkpoint, RecoversTaskmanager, RestoreJob, flinkVars
<1>6. UNCHANGED alertLog
  BY <1>1, <1>4, AlertLogSteps
<1> QED BY <1>0, <1>3, <1>5, <1>6 DEF WorkEnded, JobDrained, prodVars

LEMMA StopInvInit == Init => StopInv
<1> SUFFICES ASSUME Init PROVE StopInv
  OBVIOUS
<1>1. ~stopFile /\ cons = "poll"
  BY Zenon DEF Init, ConsumerInit
<1> QED BY <1>1 DEF StopInv

LEMMA StopInvStep ==
  TypeOK /\ KillsType /\ ProducerInv /\ StopInv /\ [Next]_vars => StopInv'
<1> SUFFICES ASSUME TypeOK, KillsType, ProducerInv, StopInv, [Next]_vars PROVE StopInv'
  OBVIOUS
<1>1. ASSUME ~kills'.early, stopFile' PROVE WorkEnded'
  <2>1. ~kills.early
    BY <1>1, KillsSteps
  <2>2. CASE stopFile
    BY <2>1, <2>2, EndedStaysEnded DEF StopInv
  <2>3. CASE ~stopFile
    <3>1. Stop
      BY <1>1, <2>3, ConsumerSteps
         DEF ConsumerStep, Poll, Write, SaveSeen, Commit, Exit, LeaveIdle, KillsConsumer,
             KillConsumer, RestartsConsumer, RestartConsumer, IdlesOut, IdleExit, consumerVars
    <3>2. kills' = [kills EXCEPT !.early = kills.early \/ ~JobDrained]
          /\ prod \in {"done", "crashed"}
      BY <3>1 DEF Stop
    <3>3. JobDrained
      <4>1. kills'.early = (kills.early \/ ~JobDrained)
        BY <3>2 DEF KillsType
      <4> QED BY <4>1, <1>1
    <3> QED BY <3>2, <3>3, EndedStaysEnded DEF WorkEnded
  <2> QED BY <2>2, <2>3
<1>2. ASSUME ~kills'.early, cons' = "exited"
      PROVE  WorkEnded' /\ fetch' = Len(alertLog)'
  <2>1. ~kills.early
    BY <1>2, KillsSteps
  <2>2. CASE cons = "exited"
    <3>1. WorkEnded /\ fetch = Len(alertLog)
      BY <2>1, <2>2 DEF StopInv
    <3>2. UNCHANGED fetch
      BY <2>2, ConsumerSteps
         DEF ConsumerStep, Poll, Write, SaveSeen, Commit, Exit, LeaveIdle, KillsConsumer,
             KillConsumer, ConsumerRunning, RestartsConsumer, RestartConsumer, Stop,
             IdlesOut, IdleExit, consumerVars
    <3> QED BY <3>1, <3>2, EndedStaysEnded
  <2>3. CASE cons # "exited"
    <3>1. (Exit /\ ConsumerStep) \/ IdlesOut
      BY <1>2, <2>3, ConsumerSteps
         DEF ConsumerStep, Poll, Write, SaveSeen, Commit, KillsConsumer,
             KillConsumer, RestartsConsumer, RestartConsumer, Stop, consumerVars
    <3>2. LeaveIdle
      BY <3>1 DEF Exit, IdlesOut, IdleExit
    <3>3. WorkEnded
      <4>1. CASE Exit
        BY <4>1, <2>1 DEF Exit, StopInv
      <4>2. CASE IdlesOut
        <5> DEFINE ended == JobDrained /\ prod \in {"done", "crashed"}
        <5>1. kills' = [kills EXCEPT !.early = kills.early \/ ~ended]
          BY <4>2 DEF IdlesOut
        <5>2. kills'.early = (kills.early \/ ~ended)
          BY <5>1 DEF KillsType
        <5> QED BY <5>2, <1>2 DEF WorkEnded
      <4> QED BY <3>1, <4>1, <4>2
    <3>4. fetch' = fetch /\ fetch = Len(alertLog)
      BY <3>2, <3>3 DEF LeaveIdle, WorkEnded, JobDrained
    <3> QED BY <3>3, <3>4, EndedStaysEnded
  <2> QED BY <2>2, <2>3
<1> QED BY <1>1, <1>2 DEF StopInv
-----------------------------------------------------------------------------
LEMMA InvInit == Init => IInv
BY TypeInit, ProducerInvInit, JobInvInit, FiredInvInit, EndInvInit, ConsumerInvInit,
   StopInvInit DEF IInv

LEMMA InvStep == IInv /\ [Next]_vars => IInv'
BY TypeStep, ProducerInvStep, LogInvStep, OnceInvStep, JobInvStep, FiredInvStep,
   EndInvStep, ConsumerInvStep, StopInvStep DEF IInv

(* The named parts hold together in every reachable state: what the          *)
(* producer, the topics, the job, its checkpoint, the consumer and the       *)
(* runner's stop know of one another.                                       *)
THEOREM Inductive == Spec => []IInv
BY InvInit, InvStep, PTL DEF Spec

(* Every variable keeps its type; the job never counts more failures of a    *)
(* window than the topic holds.                                             *)
THEOREM TypeCorrect == Spec => []TypeOK
<1>1. IInv => TypeOK
  BY DEF IInv
<1> QED BY <1>1, Inductive, PTL

(* The file's lines reach smx-auth without a gap, as long as the producer   *)
(* has been told of no error: whatever the broker had in flight when it was *)
(* killed, and however the producer ended.                                  *)
THEOREM TopicHasNoGap == Spec => []NoGap
<1>1. IInv => NoGap
  <2> SUFFICES ASSUME IInv, errors = {}, NEW e \in Range(authLog), NEW d \in Events,
                      Before(d, e)
               PROVE  d \in Range(authLog)
    BY DEF NoGap
  <2>1. PICK j \in DOMAIN authLog : e = authLog[j]
    BY DEF Range
  <2>2. d \in Read(j - 1)
    BY <2>1 DEF IInv, LogInv
  <2>3. 1..(j - 1) \subseteq DOMAIN authLog
    BY <2>1 DEF IInv, TypeOK, KafkaType
  <2> QED BY <2>2, <2>3 DEF Read, Range
<1> QED BY <1>1, Inductive, PTL

(* The window counts of the job, and of its checkpoint, are the counts of    *)
(* what lies before their offset, through any number of restores.           *)
THEOREM CountsFollowOffset == Spec => []CountsMatchOffset
<1>1. IInv => CountsMatchOffset
  BY DEF IInv, JobInv, CountsFit, Fits, CountsMatchOffset, JobState
<1> QED BY <1>1, Inductive, PTL

(* As long as no event was lost to a delivery error, a checkpoint is never   *)
(* ahead of smx-alerts: a restore from it loses no alert, whatever was       *)
(* killed and in which order.                                               *)
THEOREM CheckpointNeverAhead == Spec => [](errors = {} => CheckpointSafe)
<1>1. IInv /\ errors = {} => CheckpointSafe
  <2> SUFFICES ASSUME IInv, errors = {}, NEW k \in GroundTruth,
                      Closed(k, checkpoint.watermark)
               PROVE  k \in Range(alertLog)
    BY DEF CheckpointSafe
  <2>0. /\ authLog \in Seq(Events) /\ checkpoint.pos \in 0..Len(authLog)
        /\ checkpoint.watermark \in Nat /\ Len(authLog) \in Nat
        /\ DOMAIN authLog = 1..Len(authLog)
        /\ k \in AlertKeys /\ WindowEnd(k) \in Nat \ {0}
    BY InItsWindow DEF IInv, TypeOK, KafkaType, FlinkType, GroundTruth, AlertKeys
  <2>1. checkpoint.watermark # 0
    BY <2>0 DEF Closed
  <2>2. PICK i \in 1..checkpoint.pos : checkpoint.watermark + Lateness = authLog[i].time
    BY <2>1 DEF IInv, JobInv, CountsFit, Fits
  <2>3. i \in DOMAIN authLog /\ 1..(i - 1) \subseteq DOMAIN authLog
    BY <2>0
  <2>4. ASSUME NEW d \in Failures(k) PROVE d \in Alive
    <3>1. d \in Events /\ AlertKey(d) = k
      BY DEF Failures
    <3>2. d.time < authLog[i].time
      <4>1. d.time \in Nat /\ d.time < WindowEnd(k)
        BY <3>1, InItsWindow
      <4> QED BY <4>1, <2>0, <2>2, FlinkAssumption DEF Closed
    <3>3. d \in Read(i - 1)
      BY <3>1, <3>2, <2>3 DEF Before, IInv, LogInv
    <3> QED BY <3>3, <2>3 DEF Read, Range, Alive
  <2>5. ~Lost(k)
    BY <2>4 DEF Lost
  <2> QED BY <2>5 DEF IInv, FiredInv
<1> QED BY <1>1, Inductive, PTL
-----------------------------------------------------------------------------
\* All the work has ended on a topic that has the corpus: every alert is there.
LEMMA EndedHasAll ==
  ASSUME IInv, WorkEnded, Events \subseteq Range(authLog)
  PROVE  GroundTruth \subseteq Range(alertLog)
<1> SUFFICES ASSUME NEW k \in GroundTruth PROVE k \in Range(alertLog)
  OBVIOUS
<1>0. /\ authLog \in Seq(Events) /\ pos = Len(authLog) /\ tm = "up" /\ sinkBuf = {}
      /\ watermark >= maxTime - Lateness /\ watermark \in Nat /\ maxTime \in Nat
      /\ DOMAIN authLog = 1..Len(authLog) /\ WindowEnd(k) \in Nat
  BY InItsWindow
     DEF IInv, TypeOK, KafkaType, FlinkType, WorkEnded, JobDrained, GroundTruth, AlertKeys
<1>1. EndEvents \subseteq Read(pos)
  BY <1>0 DEF EndEvents, Read, Range
<1>2. PICK e \in EndEvents : maxTime >= e.time
  BY <1>0, <1>1 DEF IInv, EndInv
<1>3. Closed(k, watermark)
  <2>1. e.time \in Nat /\ WindowEnd(k) <= e.time - Lateness
    BY <1>2, DetectionAssumption DEF EndEvents, Closing
  <2> QED BY <2>1, <1>0, <1>2, FlinkAssumption DEF Closed
<1>4. ~Lost(k)
  BY DEF Lost, Failures, Alive
<1> QED BY <1>0, <1>3, <1>4 DEF IInv, FiredInv

LEMMA ExitHasAll == IInv => Complete
<1> SUFFICES ASSUME IInv, cons = "exited", Undisturbed, Events \subseteq Range(authLog)
             PROVE  GroundTruth \subseteq Range(out)
  BY DEF Complete
<1>1. /\ WorkEnded /\ fetch = Len(alertLog) /\ kills.consumer = 0
  BY DEF Undisturbed, IInv, StopInv
<1>2. \A i \in 1..Len(alertLog) : alertLog[i] \in Range(out)
  BY <1>1 DEF IInv, ConsumerInv
<1>3. DOMAIN alertLog = 1..Len(alertLog)
  BY DEF IInv, TypeOK, KafkaType
<1> QED BY <1>1, <1>2, <1>3, EndedHasAll DEF Range

(* The run ends complete: whatever happened to the broker and the           *)
(* taskmanager, and even if records were sent twice, a consumer that was    *)
(* left alone exits with every alert, if the corpus reached smx-auth.       *)
THEOREM EndsComplete == Spec => []Complete
BY ExitHasAll, Inductive, PTL

(* Records written twice and redeliveries never show: whatever is killed,   *)
(* the alerts file has each key once, and only keys of smx-alerts.          *)
THEOREM EachAlertOnce ==
  Spec => [](duplicates(out) = {} /\ Range(out) \subseteq Range(alertLog))
<1>1. IInv => duplicates(out) = {} /\ Range(out) \subseteq Range(alertLog)
  BY DEF IInv, ConsumerInv
<1> QED BY <1>1, Inductive, PTL
-----------------------------------------------------------------------------
\* The steps of the abstract arm.
LEMMA PromiseInit == Init => Promise!ArmInit
<1> SUFFICES ASSUME Init PROVE Promise!ArmInit
  OBVIOUS
<1>1. out = <<>> /\ cons = "poll"
  BY DEF Init, ConsumerInit
<1> QED BY <1>1 DEF Promise!ArmInit

\* Each step of the arm writes one owed alert, or closes with all of them, or
\* is not seen by the abstract arm.
LEMMA PromiseStep ==
  ASSUME MaxBrokerKills = 0, IInv, [Next]_vars, IInv'
  PROVE  [Promise!ArmNext]_(Promise!armVars)
<1> USE DEF Promise!armVars
<1> DEFINE closed == cons = "exited" /\ Undisturbed
<1>0. /\ kills.broker = 0 /\ KillsType /\ out \in Seq(AlertKeys)
      /\ kills.consumer \in Nat /\ kills'.broker = 0
  BY DEF IInv, TypeOK, KillsType, ConsumerType
<1>1. CASE Write /\ ConsumerStep
  <2>1. /\ cons = "write" /\ cons' = "save" /\ out' = Append(out, row)
    BY <1>1 DEF Write
  <2>2. row \in Range(alertLog) \ Range(out)
    BY <2>1 DEF IInv, ConsumerInv
  <2>3. row \in GroundTruth
    BY <2>2, <1>0 DEF IInv, FiredInv
  <2>4. ~closed /\ ~closed'
    BY <2>1
  <2> QED BY <2>1, <2>2, <2>3, <2>4
          DEF Promise!ArmNext, Promise!Alert, Promise!Range, Range
<1>2. CASE ~(Write /\ ConsumerStep)
  <2>1. UNCHANGED out
    BY <1>2, ConsumerSteps
       DEF ConsumerStep, Poll, SaveSeen, Commit, Exit, LeaveIdle, KillsConsumer,
           KillConsumer, RestartsConsumer, RestartConsumer, Stop, IdlesOut, IdleExit,
           consumerVars
  <2>2. ASSUME ~closed, closed' PROVE Promise!Close
    <3>1. WorkEnded'
      BY <2>2 DEF Undisturbed, IInv, StopInv
    <3>2. prod' = "done"
      BY <3>1, <1>0 DEF WorkEnded, IInv, OnceInv
    <3>3. Events \subseteq Range(authLog)'
      BY <3>2, <1>0 DEF IInv, OnceInv
    <3>4. Complete'
      BY ExitHasAll, PTL
    <3>5. GroundTruth \subseteq Range(out)
      BY <2>1, <2>2, <3>3, <3>4
         DEF Complete, GroundTruth, buckets, AlertKeys, AlertKey, Failures, window_index, Range
    <3> QED BY <2>1, <2>2, <3>5 DEF Promise!Close, Promise!Range, Range
  <2>3. ASSUME closed PROVE closed'
    <3>1. cons' = "exited" /\ UNCHANGED kills.consumer
      BY <2>3, ConsumerSteps, KillsSteps
         DEF ConsumerStep, Poll, Write, SaveSeen, Commit, Exit, LeaveIdle, KillsConsumer,
             KillConsumer, ConsumerRunning, RestartsConsumer, RestartConsumer, Stop,
             IdlesOut, IdleExit, consumerVars, IInv
    <3>2. ~kills'.early
      <4>1. ~kills.early /\ JobDrained
        BY <2>3 DEF Undisturbed, IInv, StopInv, WorkEnded
      <4>2. ~IdlesOut
        BY <2>3 DEF IdlesOut, IdleExit, LeaveIdle
      <4>3. CASE Stop
        <5>1. kills' = [kills EXCEPT !.early = kills.early \/ ~JobDrained]
          BY <4>3 DEF Stop
        <5>2. kills'.early = (kills.early \/ ~JobDrained)
          BY <5>1, <1>0 DEF KillsType
        <5> QED BY <5>2, <4>1
      <4> QED BY <4>1, <4>2, <4>3, <1>0, KillsSteps
    <3> QED BY <2>3, <3>1, <3>2 DEF Undisturbed
  <2>4. closed \in BOOLEAN /\ closed' \in BOOLEAN
    BY DEF Undisturbed
  <2> HIDE DEF closed
  <2>5. CASE closed' = closed
    BY <2>1, <2>5 DEF Promise!armVars, closed
  <2> QED BY <2>2, <2>3, <2>4, <2>5 DEF Promise!ArmNext
<1> QED BY <1>1, <1>2

(* Without broker kills the streaming arm implements the arm the answer gate *)
(* expects, whatever the kills of the taskmanager and of the consumer.      *)
THEOREM StreamImplementsArm ==
  ASSUME MaxBrokerKills = 0
  PROVE  Spec => KeepsPromise
BY PromiseInit, PromiseStep, Inductive, MaxBrokerKills = 0, PTL
   DEF Spec, KeepsPromise, Promise!ArmSpec
=============================================================================
