---------------------------- MODULE FelderaArm_proofs ----------------------------
(***************************************************************************)
(* Proofs about the Feldera arm, for every corpus, window, threshold and    *)
(* lateness, and any number of kills.  The inductive invariant comes first, *)
(* as named parts.                                                          *)
(***************************************************************************)
EXTENDS FelderaArm, DetectionLemmas

\* Buckets the current incarnation has still to be sent, and the failures
\* that are not among them.
Left == {t \in todo : ~(accepted /\ NextBucket(t))}

Sent(k) == {e \in Failures(k) : e.time \notin Left}

Blank == counts = NoCounts /\ maxTime = 0 /\ waterline = 0

\* The replayer works through the buckets in order; the last one acknowledged
\* lies before what is left, or before what failed when it was last rewound.
ReplayInv ==
  /\ \A t \in BucketTimes \ todo, u \in todo : t < u
  /\ last_acked # None =>
       last_acked \notin todo \/ \E r \in rewinds : last_acked < r.failed_at
  /\ rep # "posting" => ~accepted
  /\ rep = "done" => todo = {}
  /\ pipe = "dead" \/ rep = "paused" => last_acked # None
  /\ rep = "paused" => stateFile = last_acked

\* A killed pipeline has nothing, and is given nothing before the rewind.
PipeInv ==
  /\ pipe = "dead" \/ rep = "paused" => Blank
  /\ pipe = "dead" => conn # "live" /\ op \in {"idle", "restart"}
  /\ op = "restart" => pipe = "dead"
  /\ \A k \in AlertKeys : counts[k] <= Cardinality(Sent(k))
  /\ egress \subseteq GroundTruth

\* The alerts file and the drain's memory; what it takes to have rewinds.
DrainInv ==
  /\ seen = Range(out)
  /\ duplicates(out) = {}
  /\ Range(out) \subseteq GroundTruth
  /\ kills = 0 => pipe = "running" /\ rep # "paused" /\ op = "idle" /\ rewinds = {}

\* The recovery in time: the script runs only while the replayer waits, the
\* sink is back before the replayer goes on, from the start of a window.
ScriptInv ==
  Timely =>
    /\ op # "idle" => rep = "paused" /\ control = None /\ n_connects >= connects0
    /\ op = "restart" => n_connects = connects0
    /\ op = "attach" /\ n_connects > connects0 => conn = "live"
    /\ op = "rewind" => conn = "live"
    /\ pipe = "running" /\ op = "idle" => conn = "live"
    /\ pipe = "dead" => control = None /\ todo # {}
    /\ pipe = "running" /\ op = "idle" /\ rep = "paused" => control # None
    /\ control # None => rep = "paused" /\ pipe = "running" /\ control = rewind_point(last_acked)

\* The pipeline is being fed.
Feeding == Timely /\ pipe = "running" /\ rep # "paused"

Evidence(k) ==
  \E r \in rewinds, t \in BucketTimes : t < r.failed_at /\ Final(k, t - Lateness)

\* While it is, each open window counts what was sent of it, or began before
\* the point of the rewind and gets no more; and an alert is written, on its
\* way, still open, or was closed before a rewind.
FeedInv ==
  Feeding =>
    /\ waterline <= maxTime
    /\ \A t \in todo : maxTime <= t
    /\ Left = {} => \A t \in BucketTimes : t <= maxTime
    /\ \A k \in AlertKeys : ~Final(k, waterline) =>
         \/ counts[k] = Cardinality(Sent(k))
         \/ counts[k] = 0 /\ \A t \in todo : t >= WindowEnd(k)
    /\ \A k \in GroundTruth :
         \/ k \in Range(out) \cup egress
         \/ Evidence(k)
         \/ ~Final(k, waterline) /\ counts[k] = Cardinality(Sent(k))

\* The end, if the runner waits for it.
EndInv ==
  Timely =>
    /\ stopFile => rep = "done" /\ PipelineIdle
    /\ drain = "exited" => stopFile /\ egress = {}

IInv ==
  /\ TypeOK
  /\ ReplayInv
  /\ PipeInv
  /\ DrainInv
  /\ ScriptInv
  /\ FeedInv
  /\ EndInv
-----------------------------------------------------------------------------
\* An event falls into its window, and no window ends at 0.
LEMMA InItsWindow ==
  ASSUME NEW e \in Events
  PROVE  /\ e.time \in Nat /\ e.time >= Lateness
         /\ AlertKey(e)[2] \in Nat
         /\ AlertKey(e)[2] * WINDOW_SECONDS <= e.time
         /\ e.time < WindowEnd(AlertKey(e))
         /\ WindowEnd(AlertKey(e)) \in Nat \ {0}
<1>1. /\ e.time \in Nat /\ e.time >= Lateness /\ WINDOW_SECONDS \in Nat \ {0}
      /\ AlertKey(e)[2] = e.time \div WINDOW_SECONDS
      /\ WindowEnd(AlertKey(e)) = (e.time \div WINDOW_SECONDS + 1) * WINDOW_SECONDS
  BY DetectionAssumption, FelderaArmAssumption DEF WindowEnd, AlertKey, window_index
<1>2. ASSUME NEW t \in Nat, NEW w \in Nat \ {0}
      PROVE  /\ t \div w \in Nat
             /\ (t \div w) * w <= t /\ t < (t \div w + 1) * w
             /\ (t \div w + 1) * w \in Nat \ {0}
  <2>1. t \div w \in Nat /\ t % w \in 0..(w - 1) /\ t = w * (t \div w) + (t % w)
    OBVIOUS
  <2>2. (t \div w + 1) * w = w * (t \div w) + w /\ (t \div w) * w = w * (t \div w)
        /\ w * (t \div w) \in Nat
    BY <2>1
  <2> QED BY <2>1, <2>2
<1> QED BY <1>1, <1>2

\* The rewind goes to the start of a window: no window straddles it.
LEMMA RewindAligned ==
  ASSUME NEW a \in BucketTimes
  PROVE  /\ rewind_point(a) \in Nat
         /\ rewind_point(a) <= a - Lateness
         /\ \A k \in AlertKeys :
              \/ WindowEnd(k) <= rewind_point(a)
              \/ k[2] * WINDOW_SECONDS >= rewind_point(a)
<1>1. /\ a \in Nat /\ a - Lateness \in Nat /\ WINDOW_SECONDS \in Nat \ {0}
  BY InItsWindow, DetectionAssumption, FelderaAssumption DEF BucketTimes
<1>2. ASSUME NEW t \in Nat, NEW w \in Nat \ {0}
      PROVE  /\ (t \div w) * w \in Nat /\ (t \div w) * w <= t
             /\ \A n \in Nat : (n + 1) * w <= (t \div w) * w \/ n * w >= (t \div w) * w
  <2>1. t \div w \in Nat /\ t % w \in 0..(w - 1) /\ t = w * (t \div w) + (t % w)
    OBVIOUS
  <2>2. (t \div w) * w = w * (t \div w) /\ w * (t \div w) \in Nat
    BY <2>1
  <2>3. ASSUME NEW q \in Nat, NEW n \in Nat
        PROVE  (n + 1) * w <= q * w \/ n * w >= q * w
    <3>1. CASE n + 1 <= q
      BY <3>1
    <3>2. CASE n >= q
      BY <3>2
    <3> QED BY <3>1, <3>2
  <2> DEFINE q == t \div w
  <2>4. q \in Nat /\ q * w \in Nat /\ q * w <= t
    BY <2>1, <2>2
  <2> HIDE DEF q
  <2>5. \A n \in Nat : (n + 1) * w <= q * w \/ n * w >= q * w
    BY <2>3, <2>4
  <2> QED BY <2>4, <2>5 DEF q
<1>3. \A k \in AlertKeys : k[2] \in Nat /\ WindowEnd(k) = (k[2] + 1) * WINDOW_SECONDS
  BY InItsWindow DEF AlertKeys, WindowEnd
<1> QED BY <1>1, <1>2, <1>3 DEF rewind_point

\* The sets of failures that are counted.
LEMMA SentFinite ==
  ASSUME NEW k
  PROVE  /\ IsFiniteSet(Sent(k)) /\ Cardinality(Sent(k)) \in Nat
         /\ Cardinality(Sent(k)) <= Cardinality(Failures(k))
         /\ Cardinality(Failures(k)) <= Cardinality(Events)
         /\ Cardinality(Events) \in Nat
<1>1. Sent(k) \subseteq Failures(k) /\ Failures(k) \subseteq Events
  BY DEF Sent, Failures
<1> QED BY <1>1, DetectionAssumption, FS_Subset, FS_CardinalityType

\* A bucket joins what has been sent.
LEMMA SentGrows ==
  ASSUME NEW k, NEW t \in Left, Left' = Left \ {t}
  PROVE  Cardinality(Sent(k)') =
           Cardinality(Sent(k)) + Cardinality({e \in Failures(k) : e.time = t})
<1> DEFINE new == {e \in Failures(k) : e.time = t}
<1>1. IsFiniteSet(Sent(k)) /\ IsFiniteSet(new)
  BY SentFinite, FailuresFinite, FS_Subset, new \subseteq Failures(k)
<1>2. Sent(k) \cap new = {}
  BY DEF Sent
<1>3. Sent(k)' = Sent(k) \cup new
  BY DEF Sent, Failures, AlertKey, window_index
<1>4. Cardinality(Sent(k) \cap new) = 0
  BY <1>2, FS_EmptySet
<1>5. /\ Cardinality(Sent(k) \cup new) = Cardinality(Sent(k)) + Cardinality(new) - Cardinality(Sent(k) \cap new)
      /\ Cardinality(Sent(k)) \in Nat /\ Cardinality(new) \in Nat
  BY <1>1, FS_Union, FS_CardinalityType
<1> HIDE DEF new
<1>6. Cardinality(Sent(k)') = Cardinality(Sent(k)) + Cardinality(new)
  BY <1>3, <1>4, <1>5
<1> QED BY <1>6 DEF new

\* And there is room for it among the events.
LEMMA RoomForBucket ==
  ASSUME NEW k, NEW t \in Left
  PROVE  /\ Cardinality({e \in Failures(k) : e.time = t}) \in Nat
         /\ Cardinality(Sent(k)) + Cardinality({e \in Failures(k) : e.time = t})
              <= Cardinality(Events)
<1> DEFINE new == {e \in Failures(k) : e.time = t}
<1>1. IsFiniteSet(Sent(k)) /\ IsFiniteSet(new)
  BY SentFinite, FailuresFinite, FS_Subset, new \subseteq Failures(k)
<1>2. Sent(k) \cap new = {} /\ Sent(k) \cup new \subseteq Events
  BY DEF Sent, Failures
<1>3. Cardinality(Sent(k) \cap new) = 0
  BY <1>2, FS_EmptySet
<1>4. /\ Cardinality(Sent(k) \cup new) = Cardinality(Sent(k)) + Cardinality(new) - Cardinality(Sent(k) \cap new)
      /\ Cardinality(Sent(k)) \in Nat /\ Cardinality(new) \in Nat
  BY <1>1, FS_Union, FS_CardinalityType
<1>5. Cardinality(Sent(k) \cup new) <= Cardinality(Events) /\ Cardinality(Events) \in Nat
  BY <1>2, DetectionAssumption, FS_Subset, FS_CardinalityType
<1> HIDE DEF new
<1>6. Cardinality(new) \in Nat /\ Cardinality(Sent(k)) + Cardinality(new) <= Cardinality(Events)
  BY <1>3, <1>4, <1>5
<1> QED BY <1>6 DEF new

LEMMA BucketsAreTimes ==
  /\ BucketTimes \subseteq Nat
  /\ \A S \in SUBSET BucketTimes : \A t, u : t \in S /\ u \in S => t \in Int /\ u \in Int
BY DetectionAssumption DEF BucketTimes
-----------------------------------------------------------------------------
LEMMA TypeInit == Init => TypeOK
<1> SUFFICES ASSUME Init PROVE TypeOK
  OBVIOUS
<1> USE DEF Init, PipeInit, ReplayerInit, DrainInit
<1>1. PipeType
  <2>1. NoCounts \in [AlertKeys -> 0..Cardinality(Events)]
    BY SentFinite DEF NoCounts
  <2> QED BY <2>1 DEF PipeType
<1>2. ReplayerType
  <2>1. accepted \in BOOLEAN
    BY Zenon
  <2> QED BY <2>1 DEF ReplayerType
<1>3. DrainType
  <2>1. stopFile \in BOOLEAN
    BY Zenon
  <2> QED BY <2>1 DEF DrainType
<1> QED BY <1>1, <1>2, <1>3, FelderaArmAssumption DEF TypeOK

\* The counts never exceed those of the corpus (PipeInv).
LEMMA TypeStep == TypeOK /\ PipeInv /\ ReplayInv /\ [Next]_vars => TypeOK'
<1> SUFFICES ASSUME TypeOK, PipeInv, ReplayInv, [Next]_vars PROVE TypeOK'
  OBVIOUS
<1>0. /\ pipe \in {"running", "dead"} /\ counts \in [AlertKeys -> 0..Cardinality(Events)]
      /\ maxTime \in Nat /\ waterline \in Nat /\ conn \in {"live", "broken", "none"}
      /\ egress \subseteq AlertKeys
      /\ rep \in {"replay", "posting", "paused", "done"} /\ todo \subseteq BucketTimes
      /\ accepted \in BOOLEAN /\ last_acked \in BucketTimes \cup {None}
      /\ stateFile \in BucketTimes \cup {None} /\ control \in Nat \cup {None}
      /\ rewinds \subseteq [rewind_to : Nat, failed_at : BucketTimes]
      /\ drain \in {"run", "exited"} /\ n_connects \in Nat /\ seen \subseteq AlertKeys
      /\ out \in Seq(AlertKeys) /\ stopFile \in BOOLEAN
      /\ op \in {"idle", "restart", "attach", "rewind"} /\ connects0 \in Nat
      /\ kills \in 0..MaxKills /\ MaxKills \in Nat
  BY FelderaArmAssumption DEF TypeOK, PipeType, ReplayerType, DrainType
<1>1. NoCounts \in [AlertKeys -> 0..Cardinality(Events)]
  BY SentFinite DEF NoCounts
<1>2. ASSUME ReplayerStep PROVE TypeOK'
  <2>0. UNCHANGED <<drainVars, opVars>>
    BY <1>2 DEF ReplayerStep
  <2>1. DrainType' /\ op' \in {"idle", "restart", "attach", "rewind"}
        /\ connects0' \in Nat /\ kills' \in 0..MaxKills
    BY <2>0, <1>0 DEF DrainType, drainVars, opVars
  <2>2. CASE Post \/ PostFails \/ Done
    <3>1. PipeType'
      BY <2>2, <1>0 DEF Post, PostFails, Done, PipeType, pipeVars
    <3>2. ReplayerType'
      <4>1. accepted' \in BOOLEAN
        BY <2>2, <1>0, Zenon DEF Post, PostFails, Done
      <4> QED BY <2>2, <4>1, <1>0 DEF Post, PostFails, Done, ReplayerType
    <3> QED BY <2>1, <3>1, <3>2 DEF TypeOK
  <2>3. ASSUME NEW t \in BucketTimes, Accept(t) PROVE TypeOK'
    <3>1. ReplayerType'
      <4>1. accepted' \in BOOLEAN
        BY <2>3, Zenon DEF Accept
      <4> QED BY <2>3, <4>1, <1>0 DEF Accept, ReplayerType
    <3>2. /\ counts' = [k \in AlertKeys |->
               counts[k] + IF t < waterline THEN 0
                           ELSE Cardinality({e \in Failures(k) : e.time = t})]
          /\ maxTime' = IF t > maxTime THEN t ELSE maxTime
          /\ UNCHANGED <<pipe, waterline, conn, egress>> /\ t \in Left /\ t \in Nat
      BY <2>3, BucketsAreTimes DEF Accept, Ingest, Left, NextBucket
    <3>3. ASSUME NEW k \in AlertKeys
          PROVE  counts[k] + (IF t < waterline THEN 0
                              ELSE Cardinality({e \in Failures(k) : e.time = t}))
                   \in 0..Cardinality(Events)
      <4>1. /\ counts[k] \in Nat /\ counts[k] <= Cardinality(Sent(k))
            /\ Cardinality(Sent(k)) \in Nat /\ Cardinality(Events) \in Nat
        BY <1>0, SentFinite DEF PipeInv
      <4> DEFINE n == Cardinality({e \in Failures(k) : e.time = t})
      <4>2. n \in Nat /\ Cardinality(Sent(k)) + n <= Cardinality(Events)
        BY <3>2, RoomForBucket
      <4> HIDE DEF n
      <4>3. counts[k] + 0 \in 0..Cardinality(Events) /\ counts[k] + n \in 0..Cardinality(Events)
        BY <4>1, <4>2
      <4>4. (IF t < waterline THEN 0 ELSE n) \in {0, n}
        OBVIOUS
      <4> QED BY <4>3, <4>4 DEF n
    <3>4. counts' \in [AlertKeys -> 0..Cardinality(Events)]
      BY <3>2, <3>3
    <3> QED BY <2>1, <3>1, <3>2, <3>4, <1>0 DEF TypeOK, PipeType
  <2>4. ASSUME NEW t \in BucketTimes, Ack(t) PROVE TypeOK'
    <3>1. PipeType'
      BY <2>4, <1>0 DEF Ack, PipeType, pipeVars
    <3>2. ReplayerType'
      <4>1. accepted' \in BOOLEAN
        BY <2>4, Zenon DEF Ack
      <4> QED BY <2>4, <4>1, <1>0 DEF Ack, ReplayerType
    <3> QED BY <2>1, <3>1, <3>2 DEF TypeOK
  <2>5. CASE Resume
    <3>1. PipeType'
      BY <2>5, <1>0 DEF Resume, PipeType, pipeVars
    <3>2. control \in Nat
      BY <2>5, <1>0 DEF Resume
    <3>3. rewinds' \subseteq [rewind_to : Nat, failed_at : BucketTimes]
      BY <2>5, <3>2, <1>0 DEF Resume
    <3>4. ReplayerType'
      <4>1. accepted' \in BOOLEAN
        BY <2>5, <1>0, Zenon DEF Resume
      <4> QED BY <2>5, <3>3, <4>1, <1>0 DEF Resume, ReplayerType
    <3> QED BY <2>1, <3>1, <3>4 DEF TypeOK
  <2> QED BY <1>2, <2>2, <2>3, <2>4, <2>5 DEF ReplayerStep
<1>3. CASE PipelineStep
  <2>1. /\ maxTime - Lateness > waterline /\ waterline' = maxTime - Lateness
        /\ egress' = IF conn = "live" THEN egress \cup Emitted(waterline') ELSE egress
        /\ counts' = [k \in AlertKeys |-> IF Final(k, waterline') THEN 0 ELSE counts[k]]
        /\ UNCHANGED <<pipe, maxTime, conn, replayerVars, drainVars, opVars>>
    BY <1>3 DEF PipelineStep, AdvanceWaterline
  <2>2. waterline' \in Nat
    BY <2>1, <1>0, FelderaAssumption
  <2>3. egress' \subseteq AlertKeys
    BY <2>1, <1>0 DEF Emitted
  <2>4. counts' \in [AlertKeys -> 0..Cardinality(Events)]
    <3>1. 0 \in 0..Cardinality(Events)
      BY SentFinite
    <3>2. \A k \in AlertKeys : counts[k] \in 0..Cardinality(Events)
      BY <1>0
    <3> QED BY <2>1, <3>1, <3>2
  <2>5. PipeType'
    BY <2>1, <2>2, <2>3, <2>4, <1>0 DEF PipeType
  <2>6. ReplayerType' /\ DrainType'
    BY <2>1 DEF replayerVars, drainVars, ReplayerType, DrainType, TypeOK
  <2> QED BY <2>1, <2>5, <2>6, <1>0 DEF TypeOK, opVars
<1>4. CASE DrainStep
  <2>0. UNCHANGED <<replayerVars, opVars>>
    BY <1>4 DEF DrainStep
  <2>1. ReplayerType' /\ op' \in {"idle", "restart", "attach", "rewind"}
        /\ connects0' \in Nat /\ kills' \in 0..MaxKills
    BY <2>0, <1>0 DEF replayerVars, opVars, ReplayerType, TypeOK
  <2>2. CASE Connect \/ Disconnect
    <3>1. /\ conn' \in {"live", "none"} /\ n_connects' \in {n_connects, n_connects + 1}
          /\ egress' \in {egress, {}}
          /\ UNCHANGED <<pipe, counts, maxTime, waterline, drain, seen, out, stopFile>>
      BY <2>2 DEF Connect, Disconnect, drainVars
    <3>2. n_connects' \in Nat /\ egress' \subseteq AlertKeys
      BY <3>1, <1>0
    <3> QED BY <2>1, <3>1, <3>2, <1>0 DEF TypeOK, PipeType, DrainType
  <2>3. ASSUME NEW k \in AlertKeys, Handle(k) PROVE TypeOK'
    <3>1. /\ egress' = egress \ {k} /\ seen' = seen \cup {k}
          /\ (out' = out \/ out' = Append(out, k))
          /\ UNCHANGED <<drain, n_connects, stopFile, pipe, counts, maxTime, waterline, conn>>
      BY <2>3 DEF Handle
    <3>2. out' \in Seq(AlertKeys)
      BY <3>1, <1>0, AppendNew
    <3> QED BY <2>1, <3>1, <3>2, <1>0 DEF TypeOK, PipeType, DrainType
  <2> QED BY <1>4, <2>2, <2>3 DEF DrainStep
<1>5. CASE Kill \/ RestartPipeline
  <2>1. /\ pipe' \in {"running", "dead"} /\ counts' = NoCounts /\ maxTime' = 0 /\ waterline' = 0
        /\ conn' \in {conn, "broken"} /\ UNCHANGED <<egress, replayerVars, drainVars, connects0>>
        /\ op' \in {op, "attach"}
        /\ kills' = kills \/ (kills < MaxKills /\ kills' = kills + 1)
    BY <1>5 DEF Kill, KillPipeline, RestartPipeline, StartPipeline, Empty
  <2>2. PipeType' /\ kills' \in 0..MaxKills
    BY <2>1, <1>0, <1>1 DEF PipeType
  <2>3. ReplayerType' /\ DrainType'
    BY <2>1 DEF replayerVars, drainVars, ReplayerType, DrainType, TypeOK
  <2> QED BY <2>1, <2>2, <2>3, <1>0 DEF TypeOK
<1>6. CASE StartRecovery \/ WaitAttached
  <2>1. /\ op' \in {"restart", "rewind"} /\ connects0' \in {connects0, n_connects}
        /\ UNCHANGED <<pipeVars, replayerVars, drainVars, kills>>
    BY <1>6 DEF StartRecovery, WaitAttached
  <2>2. PipeType' /\ ReplayerType' /\ DrainType'
    BY <2>1 DEF pipeVars, replayerVars, drainVars, PipeType, ReplayerType, DrainType, TypeOK
  <2> QED BY <2>1, <2>2, <1>0 DEF TypeOK
<1>7. CASE WriteControl
  <2>1. /\ stateFile # None /\ control' = rewind_point(stateFile) /\ op' = "idle"
        /\ UNCHANGED <<rep, todo, accepted, last_acked, stateFile, rewinds, drainVars,
                       pipeVars, connects0, kills>>
    BY <1>7 DEF WriteControl
  <2>2. control' \in Nat
    BY <2>1, <1>0, RewindAligned
  <2>3. ReplayerType'
    BY <2>1, <2>2, <1>0 DEF ReplayerType
  <2>4. PipeType' /\ DrainType'
    BY <2>1 DEF pipeVars, drainVars, PipeType, DrainType, TypeOK
  <2> QED BY <2>1, <2>3, <2>4, <1>0 DEF TypeOK
<1>8. CASE Stop \/ Exit
  <2>1. /\ stopFile' \in BOOLEAN
    BY <1>8, <1>0, Zenon DEF Stop, Exit
  <2>2. /\ drain' \in {drain, "exited"}
        /\ UNCHANGED <<pipeVars, replayerVars, opVars, n_connects, seen, out>>
    BY <1>8 DEF Stop, Exit
  <2>3. PipeType' /\ ReplayerType' /\ DrainType'
    BY <2>1, <2>2, <1>0 DEF pipeVars, replayerVars, PipeType, ReplayerType, DrainType, TypeOK
  <2> QED BY <2>2, <2>3, <1>0 DEF TypeOK, opVars
<1>9. CASE Finished \/ UNCHANGED vars
  BY <1>9 DEF Finished, vars, TypeOK, PipeType, ReplayerType, DrainType
<1> QED BY <1>2, <1>3, <1>4, <1>5, <1>6, <1>7, <1>8, <1>9 DEF Next, Operator
-----------------------------------------------------------------------------
LEMMA Typed ==
  ASSUME TypeOK
  PROVE  /\ pipe \in {"running", "dead"} /\ counts \in [AlertKeys -> 0..Cardinality(Events)]
         /\ maxTime \in Nat /\ waterline \in Nat /\ conn \in {"live", "broken", "none"}
         /\ rep \in {"replay", "posting", "paused", "done"}
         /\ todo \subseteq BucketTimes /\ BucketTimes \subseteq Nat
         /\ accepted \in BOOLEAN /\ last_acked \in BucketTimes \cup {None}
         /\ stateFile \in BucketTimes \cup {None} /\ control \in Nat \cup {None}
         /\ drain \in {"run", "exited"} /\ n_connects \in Nat
         /\ out \in Seq(AlertKeys) /\ stopFile \in BOOLEAN
         /\ op \in {"idle", "restart", "attach", "rewind"} /\ connects0 \in Nat
         /\ kills \in Nat /\ kills <= MaxKills /\ MaxKills \in Nat
BY FelderaArmAssumption, BucketsAreTimes DEF TypeOK, PipeType, ReplayerType, DrainType

\* What the steps of the others leave alone.
LEMMA NotReplayer ==
  ASSUME [Next]_vars, ~ReplayerStep
  PROVE  /\ UNCHANGED <<rep, todo, accepted, last_acked, stateFile, rewinds>>
         /\ control' # control => WriteControl
BY DEF Next, vars, PipelineStep, DrainStep, Kill, Operator, StartRecovery, RestartPipeline,
       WaitAttached, WriteControl, Stop, Exit, Finished, replayerVars

LEMMA NotDrain ==
  ASSUME [Next]_vars, ~DrainStep
  PROVE  /\ UNCHANGED <<seen, out, n_connects>>
         /\ drain' # drain => Exit
         /\ stopFile' # stopFile => Stop
BY DEF Next, vars, ReplayerStep, PipelineStep, Kill, Operator, StartRecovery, RestartPipeline,
       WaitAttached, WriteControl, Stop, Exit, Finished, drainVars

\* Who changes what the pipeline keeps.
LEMMA NotPipeline ==
  ASSUME [Next]_vars, ~PipelineStep, ~Kill, ~RestartPipeline, ~DrainStep,
         \A t \in BucketTimes : ~(ReplayerStep /\ Accept(t))
  PROVE  UNCHANGED pipeVars
BY DEF Next, vars, ReplayerStep, Operator, StartRecovery, WaitAttached, WriteControl,
       Stop, Exit, Finished, pipeVars, Post, Ack, PostFails, Resume, Done

LEMMA NotOperator ==
  ASSUME [Next]_vars, ~Operator
  PROVE  /\ UNCHANGED <<op, connects0>>
         /\ kills' # kills => Kill
BY DEF Next, vars, ReplayerStep, PipelineStep, DrainStep, Kill, Stop, Exit, Finished, opVars

LEMMA NextBucketIsOne ==
  ASSUME NEW t, NEW u, NextBucket(t), NextBucket(u), todo \subseteq Nat
  PROVE  t = u
BY DEF NextBucket
-----------------------------------------------------------------------------
LEMMA ReplayInvStep == IInv /\ [Next]_vars => ReplayInv'
<1> SUFFICES ASSUME IInv, [Next]_vars PROVE ReplayInv'
  OBVIOUS
<1>0. TypeOK /\ ReplayInv
  BY DEF IInv
<1> USE DEF ReplayInv
<1>1. CASE ReplayerStep
  <2>1. CASE Post
    BY <2>1, <1>0 DEF Post, pipeVars
  <2>2. ASSUME NEW t \in BucketTimes, Accept(t) PROVE ReplayInv'
    BY <2>2, <1>0 DEF Accept, Ingest
  <2>3. ASSUME NEW t \in BucketTimes, Ack(t) PROVE ReplayInv'
    <3>1. /\ todo' = todo \ {t} /\ last_acked' = t /\ ~accepted' /\ rep' = "replay"
          /\ UNCHANGED <<rewinds, pipe>> /\ t \in todo
      BY <2>3 DEF Ack, pipeVars, NextBucket
    <3>4. t # None /\ t \in Nat
      BY BucketsAreTimes DEF None
    <3>2. \A u \in todo \ {t} : t < u
      BY <2>3, <1>0, Typed DEF Ack, NextBucket
    <3>3. \A v \in BucketTimes \ todo', u \in todo' : v < u
      BY <3>1, <3>2, <1>0
    <3> QED BY <3>1, <3>3, <3>4
  <2>4. CASE PostFails
    BY <2>4, <1>0 DEF PostFails, pipeVars
  <2>5. CASE Resume
    <3>1. /\ rep = "paused" /\ rep' = "replay" /\ control \in Nat
          /\ todo' = {t \in BucketTimes : t >= control}
          /\ UNCHANGED <<accepted, last_acked, pipe>> /\ ~accepted
      BY <2>5, <1>0, Typed DEF Resume, pipeVars
    <3>2. PICK t \in todo : NextBucket(t)
             /\ rewinds' = rewinds \cup {[rewind_to |-> control, failed_at |-> t]}
      BY <2>5 DEF Resume
    <3>3. \A v \in BucketTimes \ todo', u \in todo' : v < u
      BY <3>1, <1>0, Typed
    <3>4. ASSUME last_acked' # None
          PROVE  \E r \in rewinds' : last_acked' < r.failed_at
      <4>1. last_acked \in BucketTimes
        BY <3>1, <3>4, <1>0, Typed
      <4>2. CASE last_acked \in todo
        BY <4>2, <3>1, <3>2, <3>4, <1>0
      <4>3. CASE last_acked \notin todo
        <5>1. last_acked < t
          BY <4>1, <4>3, <1>0
        <5> DEFINE r == [rewind_to |-> control, failed_at |-> t]
        <5>2. r \in rewinds' /\ r.failed_at = t
          BY <3>2
        <5> QED BY <5>1, <5>2, <3>1
      <4> QED BY <4>2, <4>3
    <3> QED BY <3>1, <3>3, <3>4, <1>0
  <2>6. CASE Done
    BY <2>6, <1>0 DEF Done, pipeVars
  <2> QED BY <1>1, <2>1, <2>2, <2>3, <2>4, <2>5, <2>6 DEF ReplayerStep
<1>2. CASE ~ReplayerStep
  <2>1. UNCHANGED <<rep, todo, accepted, last_acked, stateFile, rewinds>>
    BY <1>2, NotReplayer
  <2>2. pipe' = "dead" => pipe = "dead" \/ last_acked # None
    BY <1>2 DEF Next, vars, PipelineStep, DrainStep, Kill, Operator, StartRecovery,
       RestartPipeline, WaitAttached, WriteControl, Stop, Exit, Finished, pipeVars,
       AdvanceWaterline, Connect, Disconnect, Handle, StartPipeline
  <2> QED BY <2>1, <2>2, <1>0
<1> QED BY <1>1, <1>2

LEMMA DrainInvStep == IInv /\ [Next]_vars => DrainInv'
<1> SUFFICES ASSUME IInv, [Next]_vars PROVE DrainInv'
  OBVIOUS
<1>0. TypeOK /\ DrainInv /\ egress \subseteq GroundTruth /\ out \in Seq(AlertKeys) /\ kills \in Nat
  BY Typed DEF IInv, PipeInv
<1>1. /\ seen' = Range(out)' /\ duplicates(out)' = {} /\ Range(out)' \subseteq GroundTruth
  <2>1. CASE DrainStep
    <3>1. ASSUME NEW k \in AlertKeys, Handle(k)
          PROVE  seen' = Range(out)' /\ duplicates(out)' = {} /\ Range(out)' \subseteq GroundTruth
      <4>1. CASE k \in seen
        BY <4>1, <3>1, <1>0 DEF Handle, DrainInv, Range, duplicates
      <4>2. CASE k \notin seen
        <5>1. out' = Append(out, k) /\ seen' = seen \cup {k} /\ k \in GroundTruth
          BY <4>2, <3>1, <1>0 DEF Handle
        <5>2. /\ Range(Append(out, k)) = Range(out) \cup {k}
              /\ duplicates(Append(out, k)) = {}
          BY <4>2, <1>0, AppendNew DEF DrainInv
        <5>3. Range(out)' = Range(Append(out, k)) /\ duplicates(out)' = duplicates(Append(out, k))
          BY <5>1 DEF Range, duplicates
        <5> QED BY <5>1, <5>2, <5>3, <1>0 DEF DrainInv
      <4> QED BY <4>1, <4>2
    <3>2. CASE Connect \/ Disconnect
      BY <3>2, <1>0 DEF Connect, Disconnect, drainVars, DrainInv, Range, duplicates
    <3> QED BY <2>1, <3>1, <3>2 DEF DrainStep
  <2>2. CASE ~DrainStep
    <3>1. UNCHANGED <<seen, out>>
      BY <2>2, NotDrain
    <3> QED BY <3>1, <1>0 DEF DrainInv, Range, duplicates
  <2> QED BY <2>1, <2>2
<1>2. kills' = 0 => pipe' = "running" /\ rep' # "paused" /\ op' = "idle" /\ rewinds' = {}
  <2> SUFFICES ASSUME kills' = 0
               PROVE  pipe' = "running" /\ rep' # "paused" /\ op' = "idle" /\ rewinds' = {}
    OBVIOUS
  <2>1. ~Kill
    BY <1>0 DEF Kill
  <2>2. kills = 0
    BY <2>1 DEF Next, vars, ReplayerStep, PipelineStep, DrainStep, Operator, StartRecovery,
       RestartPipeline, WaitAttached, WriteControl, Stop, Exit, Finished, opVars
  <2>3. pipe = "running" /\ rep # "paused" /\ op = "idle" /\ rewinds = {}
    BY <2>2, <1>0 DEF DrainInv
  <2>4. ~Operator
    BY <2>3 DEF Operator, StartRecovery, RestartPipeline, WaitAttached, WriteControl
  <2>5. op' = "idle"
    BY <2>3, <2>4, NotOperator
  <2>6. pipe' = "running" 
    BY <2>1, <2>3, <2>4 DEF Next, vars, ReplayerStep, PipelineStep, DrainStep, Stop, Exit, Finished,
       pipeVars, AdvanceWaterline, Connect, Disconnect, Handle, Post, Accept, Ingest, Ack,
       PostFails, Resume, Done
  <2>7. rep' # "paused" /\ rewinds' = {}
    <3>1. CASE ReplayerStep
      BY <3>1, <2>3 DEF ReplayerStep, Post, Accept, Ack, PostFails, Resume, Done
    <3>2. CASE ~ReplayerStep
      BY <3>2, <2>3, NotReplayer
    <3> QED BY <3>1, <3>2
  <2> QED BY <2>5, <2>6, <2>7
<1> QED BY <1>1, <1>2 DEF DrainInv

LEMMA EndInvStep == IInv /\ [Next]_vars => EndInv'
<1> SUFFICES ASSUME IInv, [Next]_vars, Timely PROVE EndInv'
  BY DEF EndInv
<1>0. TypeOK /\ EndInv /\ (op = "restart" => pipe = "dead")
  BY DEF IInv, PipeInv
<1>1. ASSUME stopFile, rep = "done", PipelineIdle
      PROVE  /\ rep' = "done" /\ UNCHANGED <<pipe, waterline, maxTime>>
             /\ egress' \subseteq egress
  <2>1. ~PipelineStep /\ ~Kill /\ ~RestartPipeline /\ ~ReplayerStep
    BY <1>1, <1>0, Typed, FelderaAssumption DEF PipelineStep, AdvanceWaterline, PipelineIdle, Kill, RestartPipeline,
       ReplayerStep, Post, Accept, Ack, PostFails, Resume, Done
  <2>2. rep' = "done"
    BY <2>1, <1>1, NotReplayer
  <2>3. CASE DrainStep
    BY <2>2, <2>3 DEF DrainStep, Connect, Disconnect, Handle
  <2>4. CASE ~DrainStep
    BY <2>1, <2>2, <2>4, NotPipeline DEF pipeVars
  <2> QED BY <2>3, <2>4
<1>2. ASSUME stopFile' PROVE (rep = "done" /\ PipelineIdle)'
  <2>1. CASE stopFile
    BY <2>1, <1>1, <1>0 DEF EndInv, PipelineIdle
  <2>2. CASE ~stopFile
    <3>1. Stop
      <4>1. CASE DrainStep
        BY <4>1, <1>2, <2>2 DEF DrainStep, Connect, Disconnect, Handle, drainVars
      <4> QED BY <4>1, <1>2, <2>2, NotDrain
    <3> QED BY <3>1 DEF Stop, PipelineIdle, replayerVars, pipeVars
  <2> QED BY <2>1, <2>2
<1>3. ASSUME drain' = "exited" PROVE stopFile' /\ egress' = {}
  <2>1. CASE drain = "exited"
    <3>1. stopFile /\ egress = {} /\ rep = "done" /\ PipelineIdle
      BY <2>1, <1>0 DEF EndInv
    <3>2. egress' = {}
      BY <3>1, <1>1
    <3>3. ~DrainStep
      BY <2>1 DEF DrainStep, Connect, Disconnect, Handle
    <3>4. stopFile'
      BY <3>1, <3>3, NotDrain DEF Stop
    <3> QED BY <3>2, <3>4
  <2>2. CASE drain # "exited"
    <3>1. Exit
      <4>1. CASE DrainStep
        BY <4>1, <1>3, <2>2 DEF DrainStep, Connect, Disconnect, Handle, drainVars
      <4> QED BY <4>1, <1>3, <2>2, NotDrain
    <3> QED BY <3>1 DEF Exit, pipeVars
  <2> QED BY <2>1, <2>2
<1> QED BY <1>2, <1>3 DEF EndInv
-----------------------------------------------------------------------------
LEMMA ScriptInvStep == IInv /\ [Next]_vars => ScriptInv'
<1> SUFFICES ASSUME IInv, [Next]_vars, Timely PROVE ScriptInv'
  BY DEF ScriptInv
<1>0. /\ pipe \in {"running", "dead"} /\ conn \in {"live", "broken", "none"}
      /\ rep \in {"replay", "posting", "paused", "done"}
      /\ op \in {"idle", "restart", "attach", "rewind"}
      /\ n_connects \in Nat /\ connects0 \in Nat
      /\ todo \subseteq BucketTimes /\ BucketTimes \subseteq Nat
      /\ control \in Nat \cup {None}
  BY Typed DEF IInv
<1>1. /\ op # "idle" => rep = "paused" /\ control = None /\ n_connects >= connects0
      /\ op = "restart" => n_connects = connects0
      /\ op = "attach" /\ n_connects > connects0 => conn = "live"
      /\ op = "rewind" => conn = "live"
      /\ pipe = "running" /\ op = "idle" => conn = "live"
      /\ pipe = "dead" => control = None /\ todo # {}
      /\ pipe = "running" /\ op = "idle" /\ rep = "paused" => control # None
      /\ control # None => rep = "paused" /\ pipe = "running" /\ control = rewind_point(last_acked)
  BY DEF IInv, ScriptInv
<1>2. /\ pipe = "dead" => conn # "live" /\ op \in {"idle", "restart"}
      /\ op = "restart" => pipe = "dead"
      /\ rep = "paused" => stateFile = last_acked
      /\ pipe = "dead" \/ rep = "paused" => last_acked # None
  BY DEF IInv, PipeInv, ReplayInv
<1> USE DEF ScriptInv
<1>3. CASE ReplayerStep
  <2>1. UNCHANGED <<op, connects0, n_connects>>
    BY <1>3 DEF ReplayerStep, opVars, drainVars
  <2>2. CASE Post
    BY <2>1, <2>2, <1>1 DEF Post, pipeVars
  <2>3. ASSUME NEW t \in BucketTimes, Accept(t) PROVE ScriptInv'
    BY <2>1, <2>3, <1>1 DEF Accept, Ingest
  <2>4. ASSUME NEW t \in BucketTimes, Ack(t) PROVE ScriptInv'
    BY <2>1, <2>4, <1>1 DEF Ack, pipeVars
  <2>5. CASE PostFails
    BY <2>1, <2>5, <1>1 DEF PostFails, pipeVars
  <2>6. CASE Resume
    BY <2>1, <2>6, <1>1 DEF Resume, pipeVars
  <2>7. CASE Done
    BY <2>1, <2>7, <1>1 DEF Done, pipeVars
  <2> QED BY <1>3, <2>2, <2>3, <2>4, <2>5, <2>6, <2>7 DEF ReplayerStep
<1>4. CASE PipelineStep
  BY <1>4, <1>1 DEF PipelineStep, AdvanceWaterline, replayerVars, drainVars, opVars, rewind_point
<1>5. CASE DrainStep
  <2>1. UNCHANGED <<op, connects0, rep, todo, last_acked, control, pipe>>
    BY <1>5 DEF DrainStep, opVars, replayerVars, Connect, Disconnect, Handle
  <2>2. CASE Connect
    <3>1. pipe = "running" /\ conn = "none" /\ conn' = "live" /\ n_connects' = n_connects + 1
      BY <2>2 DEF Connect
    <3> QED BY <2>1, <3>1, <1>0, <1>1, <1>2 DEF rewind_point
  <2>3. CASE Disconnect
    <3>1. conn = "broken" /\ conn' = "none" /\ UNCHANGED n_connects
      BY <2>3 DEF Disconnect, drainVars
    <3> QED BY <2>1, <3>1, <1>0, <1>1, <1>2 DEF rewind_point
  <2>4. ASSUME NEW k \in AlertKeys, Handle(k) PROVE ScriptInv'
    <3>1. UNCHANGED <<conn, n_connects>>
      BY <2>4 DEF Handle
    <3> QED BY <2>1, <3>1, <1>1 DEF rewind_point
  <2> QED BY <1>5, <2>2, <2>3, <2>4 DEF DrainStep
<1>6. CASE Kill
  <2>1. /\ op = "idle" /\ rep \in {"replay", "posting"} /\ todo # {} /\ pipe' = "dead"
        /\ UNCHANGED <<rep, todo, last_acked, control, op, connects0, n_connects>>
    BY <1>6 DEF Kill, KillPipeline, replayerVars, drainVars
  <2> QED BY <2>1, <1>0, <1>1
<1>7. CASE StartRecovery
  <2>1. /\ op = "idle" /\ pipe = "dead" /\ rep = "paused" /\ op' = "restart" /\ connects0' = n_connects
        /\ UNCHANGED <<rep, todo, last_acked, control, n_connects, pipe, conn>>
    BY <1>7 DEF StartRecovery, replayerVars, drainVars, pipeVars
  <2> QED BY <2>1, <1>0, <1>1
<1>8. CASE RestartPipeline
  <2>1. /\ op = "restart" /\ pipe' = "running" /\ op' = "attach"
        /\ UNCHANGED <<rep, todo, last_acked, control, n_connects, connects0, conn>>
    BY <1>8 DEF RestartPipeline, StartPipeline, replayerVars, drainVars
  <2> QED BY <2>1, <1>0, <1>1
<1>9. CASE WaitAttached
  <2>1. /\ op = "attach" /\ op' = "rewind" /\ n_connects > connects0
        /\ UNCHANGED <<rep, todo, last_acked, control, n_connects, connects0, conn, pipe>>
    BY <1>9 DEF WaitAttached, replayerVars, drainVars, pipeVars
  <2> QED BY <2>1, <1>0, <1>1, <1>2
<1>10. CASE WriteControl
  <2>1. /\ op = "rewind" /\ op' = "idle" /\ control' = rewind_point(stateFile)
        /\ UNCHANGED <<rep, todo, last_acked, n_connects, connects0, conn, pipe>>
    BY <1>10 DEF WriteControl, drainVars, pipeVars
  <2>2. stateFile = last_acked /\ last_acked \in BucketTimes
    BY <2>1, <1>1, <1>2, Typed DEF IInv
  <2>3. control' \in Nat /\ control' # None
    BY <2>1, <2>2, RewindAligned DEF None
  <2>4. control' = rewind_point(last_acked)'
    BY <2>1, <2>2 DEF rewind_point
  <2> QED BY <2>1, <2>3, <2>4, <1>0, <1>1, <1>2
<1>11. CASE Stop \/ Exit
  BY <1>11, <1>1 DEF Stop, Exit, replayerVars, pipeVars, opVars, rewind_point
<1>12. CASE Finished \/ UNCHANGED vars
  BY <1>12, <1>1 DEF Finished, vars, rewind_point
<1> QED BY <1>3, <1>4, <1>5, <1>6, <1>7, <1>8, <1>9, <1>10, <1>11, <1>12 DEF Next, Operator

\* What is left to send, step by step.
LEMMA LeftSteps ==
  ASSUME IInv, [Next]_vars
  PROVE  /\ \A t \in BucketTimes : Accept(t) => t \in Left /\ todo = Left /\ Left' = Left \ {t}
         /\ ReplayerStep => Left' = Left \/ PostFails \/ Resume \/ \E t \in BucketTimes : Accept(t)
         /\ ~ReplayerStep => Left' = Left
<1>0. /\ todo \subseteq Nat /\ (rep # "posting" => ~accepted)
  BY Typed DEF IInv, ReplayInv
<1>1. ASSUME NEW t \in BucketTimes, Accept(t)
      PROVE  t \in Left /\ todo = Left /\ Left' = Left \ {t}
  <2>1. ~accepted /\ accepted' /\ NextBucket(t) /\ todo' = todo
    BY <1>1 DEF Accept
  <2>2. t \in todo /\ Left = todo
    BY <2>1 DEF Left, NextBucket
  <2>3. \A u : NextBucket(u)' <=> NextBucket(u)
    BY <2>1 DEF NextBucket
  <2>4. \A u : NextBucket(u) => u = t
    BY <2>1, <1>0, NextBucketIsOne
  <2>5. \A u : u \in Left' <=> u \in todo /\ ~NextBucket(u)
    BY <2>1, <2>3 DEF Left
  <2>6. \A u : u \in Left' <=> u \in todo /\ u # t
    BY <2>1, <2>4, <2>5
  <2> QED BY <2>2, <2>6
<1>2. ASSUME NEW t \in BucketTimes, Ack(t) PROVE Left' = Left
  <2>1. accepted /\ ~accepted' /\ NextBucket(t) /\ todo' = todo \ {t}
    BY <1>2 DEF Ack
  <2>2. \A u : NextBucket(u) <=> u = t
    BY <2>1, <1>0, NextBucketIsOne
  <2> QED BY <2>1, <2>2 DEF Left
<1>3. ASSUME UNCHANGED <<todo, accepted>> PROVE Left' = Left
  <2>1. \A u : NextBucket(u)' <=> NextBucket(u)
    BY <1>3 DEF NextBucket
  <2>2. \A u : u \in Left' <=> u \in Left
    BY <2>1, <1>3, Zenon DEF Left
  <2> QED BY <2>2
<1>4. /\ Post \/ Done => Left' = Left
      /\ ~ReplayerStep => Left' = Left
  BY <1>3, NotReplayer DEF Post, Done
<1> QED BY <1>1, <1>2, <1>3, <1>4 DEF ReplayerStep

LEMMA SentSame ==
  ASSUME Left' = Left, NEW k
  PROVE  Sent(k)' = Sent(k)
BY DEF Sent, Failures, AlertKey, window_index

\* What is counted is what was sent.
LEMMA CountsStep ==
  ASSUME IInv, [Next]_vars, NEW k \in AlertKeys
  PROVE  counts'[k] <= Cardinality(Sent(k)')
<1>0. /\ counts \in [AlertKeys -> 0..Cardinality(Events)] /\ counts[k] \in Nat
      /\ counts[k] <= Cardinality(Sent(k)) /\ Cardinality(Sent(k)) \in Nat
      /\ (pipe = "dead" \/ rep = "paused" => Blank)
  BY Typed, SentFinite DEF IInv, PipeInv
<1>1. Cardinality(Sent(k)') \in Nat
  <2>1. Sent(k)' \subseteq Events
    BY DEF Sent, Failures
  <2> QED BY <2>1, DetectionAssumption, FS_Subset, FS_CardinalityType
<1>2. CASE counts'[k] = 0
  BY <1>1, <1>2
<1>3. CASE counts'[k] = counts[k] /\ Left' = Left
  BY <1>0, <1>3, SentSame
<1>4. CASE ReplayerStep
  <2>1. ASSUME NEW t \in BucketTimes, Accept(t) PROVE counts'[k] <= Cardinality(Sent(k)')
    <3> DEFINE n == Cardinality({e \in Failures(k) : e.time = t})
    <3>1. counts'[k] = counts[k] + IF t < waterline THEN 0 ELSE n
      BY <2>1 DEF Accept, Ingest
    <3>2. n \in Nat
      BY <2>1, LeftSteps, RoomForBucket
    <3>3. Cardinality(Sent(k)') = Cardinality(Sent(k)) + n
      BY <2>1, LeftSteps, SentGrows
    <3> HIDE DEF n
    <3>4. CASE t < waterline
      BY <3>1, <3>2, <3>3, <3>4, <1>0
    <3>5. CASE ~(t < waterline)
      BY <3>1, <3>2, <3>3, <3>5, <1>0
    <3> QED BY <3>4, <3>5
  <2>2. CASE PostFails \/ Resume
    <3>1. counts' = counts /\ Blank
      BY <2>2, <1>0 DEF PostFails, Resume, pipeVars
    <3> QED BY <3>1, <1>2 DEF Blank, NoCounts
  <2>3. CASE Left' = Left /\ ~(\E t \in BucketTimes : Accept(t))
    <3>1. counts' = counts
      BY <1>4, <2>3 DEF ReplayerStep, Post, Ack, PostFails, Resume, Done, pipeVars
    <3> QED BY <2>3, <3>1, <1>3
  <2> QED BY <1>4, <2>1, <2>2, <2>3, LeftSteps
<1>5. CASE ~ReplayerStep
  <2>1. Left' = Left
    BY <1>5, LeftSteps
  <2>2. CASE PipelineStep
    <3>1. counts'[k] = 0 \/ counts'[k] = counts[k]
      BY <2>2 DEF PipelineStep, AdvanceWaterline
    <3> QED BY <2>1, <3>1, <1>2, <1>3
  <2>3. CASE Kill \/ RestartPipeline
    <3>1. counts' = NoCounts
      BY <2>3 DEF Kill, KillPipeline, RestartPipeline, StartPipeline, Empty
    <3> QED BY <3>1, <1>2 DEF NoCounts
  <2>4. CASE DrainStep
    BY <2>1, <2>4, <1>3 DEF DrainStep, Connect, Disconnect, Handle
  <2>5. CASE ~PipelineStep /\ ~Kill /\ ~RestartPipeline /\ ~DrainStep
    BY <1>5, <2>1, <2>5, <1>3, NotPipeline DEF pipeVars
  <2> QED BY <2>2, <2>3, <2>4, <2>5
<1> QED BY <1>4, <1>5

LEMMA PipeInvStep == IInv /\ [Next]_vars => PipeInv'
<1> SUFFICES ASSUME IInv, [Next]_vars PROVE PipeInv'
  OBVIOUS
<1>0. /\ pipe \in {"running", "dead"} /\ counts \in [AlertKeys -> 0..Cardinality(Events)]
      /\ pipe = "dead" \/ rep = "paused" => Blank
      /\ pipe = "dead" => conn # "live" /\ op \in {"idle", "restart"}
      /\ op = "restart" => pipe = "dead"
      /\ \A k \in AlertKeys : counts[k] <= Cardinality(Sent(k))
      /\ egress \subseteq GroundTruth /\ maxTime \in Nat /\ waterline \in Nat
  BY Typed DEF IInv, PipeInv
<1>2. (\A k \in AlertKeys : counts[k] <= Cardinality(Sent(k)))'
  <2>1. AlertKeys' = AlertKeys
    BY DEF AlertKeys, AlertKey, window_index
  <2> QED BY <2>1, CountsStep
<1>3. egress' \subseteq GroundTruth
  <2>1. CASE PipelineStep
    <3>1. egress' \subseteq egress \cup Emitted(waterline')
      BY <2>1 DEF PipelineStep, AdvanceWaterline
    <3>2. ASSUME NEW k \in Emitted(waterline') PROVE k \in GroundTruth
      <4>1. k \in AlertKeys /\ counts[k] >= FAILURE_THRESHOLD /\ counts[k] \in Nat
        BY <3>2, <1>0 DEF Emitted
      <4>2. Cardinality(Failures(k)) >= FAILURE_THRESHOLD
        BY <4>1, <1>0, SentFinite, FailuresFinite, DetectionAssumption
      <4> QED BY <4>1, <4>2 DEF GroundTruth, buckets
    <3> QED BY <3>1, <3>2, <1>0
  <2>2. CASE ~PipelineStep
    <3>1. egress' \subseteq egress
      BY <2>2 DEF Next, vars, ReplayerStep, DrainStep, Kill, KillPipeline, Operator, StartRecovery,
         RestartPipeline, StartPipeline, WaitAttached, WriteControl, Stop, Exit, Finished, pipeVars,
         Post, Accept, Ingest, Ack, PostFails, Resume, Done, Connect, Disconnect, Handle
    <3> QED BY <3>1, <1>0
  <2> QED BY <2>1, <2>2
<1>4. /\ (pipe = "dead" \/ rep = "paused" => Blank)'
      /\ (pipe = "dead" => conn # "live" /\ op \in {"idle", "restart"})'
      /\ (op = "restart" => pipe = "dead")'
  <2> USE DEF Blank
  <2>1. CASE ReplayerStep
    <3>1. UNCHANGED op
      BY <2>1 DEF ReplayerStep, opVars
    <3>2. ASSUME NEW t \in BucketTimes, Accept(t)
          PROVE  pipe' = "running" /\ rep' = "posting" /\ UNCHANGED op /\ op # "restart"
      BY <3>1, <3>2, <1>0 DEF Accept, Ingest
    <3>3. CASE PostFails
      <4>1. pipe = "dead" /\ UNCHANGED pipeVars
        BY <3>3 DEF PostFails
      <4> QED BY <3>1, <4>1, <1>0 DEF pipeVars, NoCounts, AlertKeys, AlertKey, window_index
    <3>4. ASSUME rep' # "paused" \/ rep = "paused", UNCHANGED pipeVars
          PROVE  <1>4!1 /\ <1>4!2 /\ <1>4!3
      BY <3>1, <3>4, <1>0 DEF pipeVars, NoCounts, AlertKeys, AlertKey, window_index
    <3>5. CASE Post \/ Resume \/ Done \/ \E t \in BucketTimes : Ack(t)
      BY <3>4, <3>5 DEF Post, Resume, Done, Ack
    <3> QED BY <2>1, <3>2, <3>3, <3>5 DEF ReplayerStep
  <2>2. CASE PipelineStep
    <3>1. /\ pipe = "running" /\ maxTime - Lateness > waterline
          /\ UNCHANGED <<pipe, conn, rep, op>>
      BY <2>2 DEF PipelineStep, AdvanceWaterline, replayerVars, opVars
    <3>2. rep # "paused"
      BY <3>1, <1>0, FelderaAssumption
    <3> QED BY <3>1, <3>2, <1>0
  <2>3. CASE DrainStep
    <3>1. /\ UNCHANGED <<pipe, counts, maxTime, waterline, rep, op>>
          /\ conn' = conn \/ conn' = "none" \/ pipe = "running"
      BY <2>3 DEF DrainStep, Connect, Disconnect, Handle, replayerVars, opVars
    <3> QED BY <3>1, <1>0 DEF NoCounts, AlertKeys, AlertKey, window_index
  <2>4. CASE Kill
    <3>1. /\ op = "idle" /\ op' = "idle" /\ pipe' = "dead" /\ conn' # "live"
          /\ counts' = NoCounts /\ maxTime' = 0 /\ waterline' = 0
      BY <2>4 DEF Kill, KillPipeline, Empty
    <3> QED BY <3>1 DEF NoCounts, AlertKeys, AlertKey, window_index
  <2>5. CASE RestartPipeline
    <3>1. /\ op' = "attach" /\ pipe' = "running"
          /\ counts' = NoCounts /\ maxTime' = 0 /\ waterline' = 0
      BY <2>5 DEF RestartPipeline, StartPipeline, Empty
    <3> QED BY <3>1 DEF NoCounts, AlertKeys, AlertKey, window_index
  <2>6. CASE StartRecovery \/ WaitAttached \/ WriteControl
    <3>1. /\ UNCHANGED <<pipe, counts, maxTime, waterline, conn, rep>>
          /\ StartRecovery => pipe = "dead" /\ op' = "restart"
          /\ WaitAttached => op = "attach" /\ op' = "rewind"
          /\ WriteControl => op' = "idle" /\ op = "rewind"
      BY <2>6 DEF StartRecovery, WaitAttached, WriteControl, pipeVars, replayerVars
    <3> QED BY <2>6, <3>1, <1>0 DEF NoCounts, AlertKeys, AlertKey, window_index
  <2>7. CASE Stop \/ Exit \/ Finished \/ UNCHANGED vars
    <3>1. UNCHANGED <<pipe, counts, maxTime, waterline, conn, rep, op>>
      BY <2>7 DEF Stop, Exit, Finished, vars, pipeVars, replayerVars, opVars
    <3> QED BY <3>1, <1>0 DEF NoCounts, AlertKeys, AlertKey, window_index
  <2> QED BY <2>1, <2>2, <2>3, <2>4, <2>5, <2>6, <2>7 DEF Next, Operator
<1> QED BY <1>2, <1>3, <1>4 DEF PipeInv
-----------------------------------------------------------------------------
\* While the pipeline is fed, nothing else is going on.
LEMMA FeedingFacts ==
  ASSUME IInv, Feeding
  PROVE  /\ Timely /\ op = "idle" /\ conn = "live" /\ control = None /\ pipe = "running"
         /\ waterline <= maxTime
         /\ \A t \in todo : maxTime <= t
         /\ Left = {} => \A t \in BucketTimes : t <= maxTime
         /\ \A k \in AlertKeys : ~Final(k, waterline) =>
              \/ counts[k] = Cardinality(Sent(k))
              \/ counts[k] = 0 /\ \A t \in todo : t >= WindowEnd(k)
         /\ \A k \in GroundTruth :
              \/ k \in Range(out) \cup egress
              \/ Evidence(k)
              \/ ~Final(k, waterline) /\ counts[k] = Cardinality(Sent(k))
<1>1. Timely /\ pipe = "running" /\ rep # "paused"
  BY DEF Feeding
<1>2. op = "idle" /\ control = None
  BY <1>1 DEF IInv, ScriptInv
<1>3. conn = "live"
  BY <1>1, <1>2 DEF IInv, ScriptInv
<1> QED BY <1>1, <1>2, <1>3 DEF IInv, FeedInv

\* The primed form of what is kept, when the corpus-side names stay put.
LEMMA SameKeys ==
  /\ AlertKeys' = AlertKeys /\ GroundTruth' = GroundTruth /\ BucketTimes' = BucketTimes
  /\ \A k : WindowEnd(k)' = WindowEnd(k) /\ Failures(k)' = Failures(k)
BY DEF AlertKeys, AlertKey, window_index, GroundTruth, buckets, Failures, BucketTimes, WindowEnd

\* FeedInv of the successor, with its names spelt out.
FedAfter ==
  /\ waterline' <= maxTime'
  /\ \A t \in todo' : maxTime' <= t
  /\ Left' = {} => \A t \in BucketTimes : t <= maxTime'
  /\ \A k \in AlertKeys : ~(WindowEnd(k) <= waterline') =>
       \/ counts'[k] = Cardinality(Sent(k)')
       \/ counts'[k] = 0 /\ \A t \in todo' : t >= WindowEnd(k)
  /\ \A k \in GroundTruth :
       \/ k \in Range(out') \cup egress'
       \/ \E r \in rewinds', t \in BucketTimes : t < r.failed_at /\ Final(k, t - Lateness)
       \/ ~(WindowEnd(k) <= waterline') /\ counts'[k] = Cardinality(Sent(k)')

LEMMA FeedInvNext == (Feeding' => FedAfter) => FeedInv'
<1>1. \A k : Evidence(k)' =
        (\E r \in rewinds', t \in BucketTimes : t < r.failed_at /\ Final(k, t - Lateness))
  BY SameKeys DEF Evidence, Final, BucketTimes, WindowEnd
<1>2. Range(out)' = Range(out')
  BY DEF Range
<1>3. \A k : Final(k, waterline)' = (WindowEnd(k) <= waterline')
  BY DEF Final, WindowEnd
<1> QED BY <1>1, <1>2, <1>3, SameKeys DEF FeedInv, FedAfter

\* The bucket that is next lies behind nothing: it is never late.
LEMMA FeedAccept ==
  ASSUME IInv, [Next]_vars, ReplayerStep, NEW t \in BucketTimes, Accept(t)
  PROVE  FeedInv'
<1>0. /\ todo \subseteq Nat /\ maxTime \in Nat /\ waterline \in Nat /\ t \in Nat
      /\ BucketTimes \subseteq Nat
      /\ counts \in [AlertKeys -> 0..Cardinality(Events)]
      /\ \A v \in BucketTimes \ todo, u \in todo : v < u
  BY Typed DEF IInv, ReplayInv
<1>1. /\ UNCHANGED <<rep, todo, rewinds, pipe, waterline, egress, out>>
      /\ NextBucket(t) /\ t \in todo
      /\ maxTime' = IF t > maxTime THEN t ELSE maxTime
      /\ \A k \in AlertKeys : counts'[k] = counts[k] +
            IF t < waterline THEN 0 ELSE Cardinality({e \in Failures(k) : e.time = t})
  BY DEF Accept, Ingest, NextBucket, ReplayerStep, drainVars
<1> SUFFICES ASSUME Feeding' PROVE FedAfter
  BY FeedInvNext
<1>2. Feeding
  BY <1>1 DEF Feeding
<1>3. waterline <= maxTime /\ maxTime <= t /\ maxTime' = t
  BY <1>0, <1>1, <1>2, FeedingFacts
<1>4. \A u \in todo : t <= u
  BY <1>1 DEF NextBucket
<1>5. Left' = {} => \A u \in BucketTimes : u <= maxTime'
  <2>1. ASSUME Left' = {}, NEW u \in BucketTimes PROVE u <= t
    <3>1. u \in todo => u = t
      BY <2>1, LeftSteps
    <3> QED BY <3>1, <1>0, <1>1
  <2> QED BY <2>1, <1>3
<1>6. ASSUME NEW k \in AlertKeys, counts[k] = Cardinality(Sent(k))
      PROVE  counts'[k] = Cardinality(Sent(k)')
  <2>1. Cardinality(Sent(k)') = Cardinality(Sent(k)) + Cardinality({e \in Failures(k) : e.time = t})
    BY LeftSteps, SentGrows
  <2>2. ~(t < waterline)
    BY <1>0, <1>3
  <2>3. counts'[k] = counts[k] + Cardinality({e \in Failures(k) : e.time = t})
    BY <2>2, <1>1
  <2> QED BY <2>1, <2>3, <1>6
<1>7. ASSUME NEW k \in AlertKeys, counts[k] = 0, \A u \in todo : u >= WindowEnd(k)
      PROVE  counts'[k] = 0
  <2>1. {e \in Failures(k) : e.time = t} = {}
    <3>1. ASSUME NEW e \in Failures(k), e.time = t PROVE FALSE
      <4>1. e \in Events /\ AlertKey(e) = k
        BY DEF Failures
      <4>2. t < WindowEnd(k) /\ WindowEnd(k) \in Nat
        BY <4>1, <3>1, InItsWindow
      <4> QED BY <4>2, <1>0, <1>1, <1>7
    <3> QED BY <3>1
  <2>2. Cardinality({e \in Failures(k) : e.time = t}) = 0
    BY <2>1, FS_EmptySet
  <2> QED BY <2>2, <1>1, <1>7
<1>8. ASSUME NEW k \in AlertKeys, ~(WindowEnd(k) <= waterline')
      PROVE  \/ counts'[k] = Cardinality(Sent(k)')
             \/ counts'[k] = 0 /\ \A u \in todo' : u >= WindowEnd(k)
  <2>1. \/ counts[k] = Cardinality(Sent(k))
        \/ counts[k] = 0 /\ \A u \in todo : u >= WindowEnd(k)
    BY <1>1, <1>2, <1>8, FeedingFacts DEF Final
  <2> QED BY <2>1, <1>1, <1>6, <1>7
<1>9. ASSUME NEW k \in GroundTruth
      PROVE  \/ k \in Range(out') \cup egress'
             \/ \E r \in rewinds', u \in BucketTimes : u < r.failed_at /\ Final(k, u - Lateness)
             \/ ~(WindowEnd(k) <= waterline') /\ counts'[k] = Cardinality(Sent(k)')
  <2>1. k \in AlertKeys
    BY DEF GroundTruth
  <2>2. \/ k \in Range(out) \cup egress
        \/ Evidence(k)
        \/ ~Final(k, waterline) /\ counts[k] = Cardinality(Sent(k))
    BY <1>2, FeedingFacts
  <2> QED BY <2>1, <2>2, <1>1, <1>6 DEF Evidence, Final
<1> QED BY <1>0, <1>1, <1>3, <1>4, <1>5, <1>8, <1>9 DEF FedAfter

\* A new incarnation starts at the start of a window.
LEMMA FeedResume ==
  ASSUME IInv, [Next]_vars, ReplayerStep, Resume, ReplayInv'
  PROVE  FeedInv'
<1>0. /\ todo \subseteq Nat /\ BucketTimes \subseteq Nat /\ last_acked \in BucketTimes \cup {None}
      /\ counts \in [AlertKeys -> 0..Cardinality(Events)]
      /\ rep = "paused" => Blank /\ last_acked # None
      /\ rep # "posting" => ~accepted
  BY Typed DEF IInv, ReplayInv, PipeInv
<1>1. /\ rep = "paused" /\ control # None /\ ~accepted
      /\ todo' = {t \in BucketTimes : t >= control}
      /\ UNCHANGED <<accepted, last_acked, pipe, waterline, maxTime, counts, egress, out>>
      /\ rewinds' # {} /\ rep' = "replay"
  BY <1>0 DEF Resume, ReplayerStep, drainVars, pipeVars
<1>2. Blank /\ last_acked \in BucketTimes /\ last_acked # None
  BY <1>0, <1>1
<1> SUFFICES ASSUME Feeding' PROVE FedAfter
  BY FeedInvNext
<1>3. control = rewind_point(last_acked)
  BY <1>1 DEF Feeding, IInv, ScriptInv
<1> DEFINE p == rewind_point(last_acked)
<1>4. /\ p \in Nat /\ p <= last_acked - Lateness /\ p <= last_acked
      /\ \A k \in AlertKeys : WindowEnd(k) <= p \/ k[2] * WINDOW_SECONDS >= p
  BY <1>0, <1>2, RewindAligned, FelderaAssumption
<1> HIDE DEF p
<1>5. todo' = {t \in BucketTimes : t >= p} /\ last_acked \in todo'
  BY <1>1, <1>2, <1>3, <1>4 DEF p
<1>6. Left' = todo'
  BY <1>1 DEF Left
<1>7. waterline' = 0 /\ maxTime' = 0 /\ \A k \in AlertKeys : counts'[k] = 0
  BY <1>1, <1>2 DEF Blank, NoCounts
<1>8. ASSUME NEW k \in AlertKeys, ~(WindowEnd(k) <= p)
      PROVE  counts'[k] = Cardinality(Sent(k)')
  <2>1. ASSUME NEW e \in Failures(k) PROVE e.time \in Left'
    <3>1. e \in Events /\ AlertKey(e) = k
      BY DEF Failures
    <3>2. k[2] * WINDOW_SECONDS <= e.time /\ e.time \in BucketTimes
          /\ k[2] \in Nat /\ WINDOW_SECONDS \in Nat /\ k[2] * WINDOW_SECONDS >= p
      BY <3>1, <1>4, <1>8, InItsWindow, DetectionAssumption DEF BucketTimes
    <3>3. k[2] * WINDOW_SECONDS \in Nat
      BY <3>2
    <3>4. e.time >= p
      <4> DEFINE m == k[2] * WINDOW_SECONDS
      <4>1. m \in Nat /\ m <= e.time /\ m >= p
        BY <3>2, <3>3
      <4>2. e.time \in Nat /\ p \in Nat
        BY <3>2, <1>0, <1>4
      <4> HIDE DEF m
      <4> QED BY <4>1, <4>2
    <3> QED BY <3>2, <3>4, <1>5, <1>6
  <2>2. Sent(k)' = {}
    BY <2>1, SameKeys DEF Sent
  <2> QED BY <2>2, <1>7, FS_EmptySet
<1>9. ASSUME NEW k \in AlertKeys, WindowEnd(k) <= p
      PROVE  /\ \A u \in todo' : u >= WindowEnd(k)
             /\ \E r \in rewinds', u \in BucketTimes : u < r.failed_at /\ Final(k, u - Lateness)
  <2>1. WindowEnd(k) \in Nat
    BY InItsWindow DEF AlertKeys
  <2>2. \A u \in todo' : u >= WindowEnd(k)
    BY <2>1, <1>0, <1>4, <1>5, <1>9
  <2>3. \E r \in rewinds' : last_acked < r.failed_at
    BY <1>1, <1>2, <1>5 DEF ReplayInv
  <2>4. Final(k, last_acked - Lateness)
    BY <2>1, <1>0, <1>2, <1>4, <1>9, FelderaAssumption DEF Final
  <2> QED BY <2>2, <2>3, <2>4, <1>2
<1>10. ASSUME NEW k \in GroundTruth, ~(WindowEnd(k) <= p)
       PROVE  ~(WindowEnd(k) <= waterline') /\ counts'[k] = Cardinality(Sent(k)')
  <2>1. k \in AlertKeys /\ WindowEnd(k) \in Nat
    BY InItsWindow DEF GroundTruth, AlertKeys
  <2> QED BY <2>1, <1>4, <1>7, <1>8, <1>10
<1>11. GroundTruth \subseteq AlertKeys
  BY DEF GroundTruth
<1> QED BY <1>0, <1>5, <1>6, <1>7, <1>8, <1>9, <1>10, <1>11 DEF FedAfter

\* A window that the waterline passes has been sent in full: its alert, if it
\* is one, goes out on a live connection.
LEMMA FeedAdvance ==
  ASSUME IInv, [Next]_vars, PipelineStep
  PROVE  FeedInv'
<1>0. /\ todo \subseteq Nat /\ maxTime \in Nat /\ waterline \in Nat /\ Lateness \in Nat
      /\ BucketTimes \subseteq Nat /\ counts \in [AlertKeys -> 0..Cardinality(Events)]
  BY Typed, FelderaAssumption DEF IInv
<1>1. /\ UNCHANGED <<rep, todo, rewinds, pipe, out, maxTime, accepted, conn>>
      /\ maxTime - Lateness > waterline /\ waterline' = maxTime - Lateness
      /\ egress' = IF conn = "live" THEN egress \cup Emitted(waterline') ELSE egress
      /\ \A k \in AlertKeys : ~(WindowEnd(k) <= waterline') => counts'[k] = counts[k]
  BY DEF PipelineStep, AdvanceWaterline, replayerVars, drainVars, Final
<1> SUFFICES ASSUME Feeding' PROVE FedAfter
  BY FeedInvNext
<1>2. Feeding
  BY <1>1 DEF Feeding
<1>3. ~ReplayerStep
  BY <1>1, <1>2 DEF ReplayerStep, PipelineStep, Post, Accept, Ingest, Ack, PostFails, Resume, Done,
     pipeVars, Feeding
<1>4. Left' = Left /\ \A k : Sent(k)' = Sent(k)
  BY <1>3, LeftSteps, SentSame
<1>5. \A k \in AlertKeys : WindowEnd(k) \in Nat
  BY InItsWindow DEF AlertKeys
<1>6. \A k \in AlertKeys : ~(WindowEnd(k) <= waterline') => ~Final(k, waterline)
  BY <1>0, <1>1, <1>5 DEF Final
<1>7. ASSUME NEW k \in AlertKeys, ~(WindowEnd(k) <= waterline')
      PROVE  \/ counts'[k] = Cardinality(Sent(k)')
             \/ counts'[k] = 0 /\ \A u \in todo' : u >= WindowEnd(k)
  BY <1>1, <1>2, <1>4, <1>6, <1>7, FeedingFacts
<1>8. ASSUME NEW k \in GroundTruth, WindowEnd(k) <= waterline', counts[k] = Cardinality(Sent(k))
      PROVE  k \in egress'
  <2>1. k \in AlertKeys /\ Cardinality(Failures(k)) >= FAILURE_THRESHOLD
    BY DEF GroundTruth, buckets
  <2>2. \A u \in todo : WindowEnd(k) <= u
    BY <1>0, <1>1, <1>2, <1>5, <1>8, <2>1, FeedingFacts
  <2>3. ASSUME NEW e \in Failures(k) PROVE e.time \notin Left
    <3>1. e \in Events /\ AlertKey(e) = k
      BY DEF Failures
    <3>2. e.time < WindowEnd(k) /\ e.time \in Nat
      BY <3>1, InItsWindow
    <3>3. e.time \notin todo
      BY <3>2, <2>1, <2>2, <1>5
    <3> QED BY <3>3 DEF Left
  <2>4. Sent(k) = Failures(k)
    BY <2>3 DEF Sent
  <2>5. counts[k] >= FAILURE_THRESHOLD
    BY <2>1, <2>4, <1>8
  <2> QED BY <2>1, <2>5, <1>1, <1>2, <1>8, FeedingFacts DEF Emitted, Final
<1>9. ASSUME NEW k \in GroundTruth
      PROVE  \/ k \in Range(out') \cup egress'
             \/ \E r \in rewinds', u \in BucketTimes : u < r.failed_at /\ Final(k, u - Lateness)
             \/ ~(WindowEnd(k) <= waterline') /\ counts'[k] = Cardinality(Sent(k)')
  <2>1. \/ k \in Range(out) \cup egress
        \/ Evidence(k)
        \/ ~Final(k, waterline) /\ counts[k] = Cardinality(Sent(k))
    BY <1>2, FeedingFacts
  <2>2. k \in AlertKeys
    BY DEF GroundTruth
  <2>3. egress \subseteq egress'
    BY <1>1
  <2> QED BY <2>1, <2>2, <2>3, <1>1, <1>4, <1>8 DEF Evidence
<1> QED BY <1>0, <1>1, <1>2, <1>4, <1>7, <1>9, FeedingFacts DEF FedAfter

\* The drain writes what it takes off the connection.
LEMMA FeedDrain ==
  ASSUME IInv, [Next]_vars, DrainStep
  PROVE  FeedInv'
<1>1. UNCHANGED <<rep, todo, accepted, rewinds, pipe, counts, maxTime, waterline>>
  BY DEF DrainStep, Connect, Disconnect, Handle, replayerVars
<1> SUFFICES ASSUME Feeding' PROVE FedAfter
  BY FeedInvNext
<1>2. Feeding
  BY <1>1 DEF Feeding
<1>3. Left' = Left /\ \A k : Sent(k)' = Sent(k)
  <2>1. \A u : NextBucket(u)' <=> NextBucket(u)
    BY <1>1 DEF NextBucket
  <2>2. \A u : u \in Left' <=> u \in Left
    BY <2>1, <1>1, Zenon DEF Left
  <2>3. Left' = Left
    BY <2>2
  <2> QED BY <2>3, SentSame
<1>4. PICK k \in AlertKeys : Handle(k)
  BY <1>2, FeedingFacts DEF DrainStep, Connect, Disconnect
<1>5. Range(out) \cup egress \subseteq Range(out') \cup egress'
  <2>1. egress' = egress \ {k} /\ out' = IF k \in seen THEN out ELSE Append(out, k)
    BY <1>4 DEF Handle
  <2>2. seen = Range(out) /\ out \in Seq(AlertKeys)
    BY Typed DEF IInv, DrainInv
  <2>3. Range(Append(out, k)) = Range(out) \cup {k}
    BY <2>2, AppendNew
  <2> QED BY <2>1, <2>2, <2>3
<1>6. ASSUME NEW g \in GroundTruth
      PROVE  \/ g \in Range(out') \cup egress'
             \/ \E r \in rewinds', u \in BucketTimes : u < r.failed_at /\ Final(g, u - Lateness)
             \/ ~(WindowEnd(g) <= waterline') /\ counts'[g] = Cardinality(Sent(g)')
  <2>1. \/ g \in Range(out) \cup egress
        \/ Evidence(g)
        \/ ~Final(g, waterline) /\ counts[g] = Cardinality(Sent(g))
    BY <1>2, FeedingFacts
  <2> QED BY <2>1, <1>1, <1>3, <1>5 DEF Evidence, Final
<1>7. ASSUME NEW g \in AlertKeys, ~(WindowEnd(g) <= waterline')
      PROVE  \/ counts'[g] = Cardinality(Sent(g)')
             \/ counts'[g] = 0 /\ \A u \in todo' : u >= WindowEnd(g)
  BY <1>1, <1>2, <1>3, <1>7, FeedingFacts DEF Final
<1> QED BY <1>1, <1>2, <1>3, <1>6, <1>7, FeedingFacts DEF FedAfter

\* The other steps leave what is fed alone.
LEMMA FeedSame ==
  ASSUME IInv, Left' = Left,
         UNCHANGED <<pipe, counts, maxTime, waterline, egress, rewinds, out>>,
         rep' # "paused" => rep # "paused", todo' \subseteq todo
  PROVE  FeedInv'
<1> SUFFICES ASSUME Feeding' PROVE FedAfter
  BY FeedInvNext
<1>1. Feeding
  BY DEF Feeding
<1>2. \A k : Sent(k)' = Sent(k)
  BY SentSame
<1>3. Range(out') = Range(out)
  OBVIOUS
<1>4. ASSUME NEW g \in GroundTruth
      PROVE  \/ g \in Range(out') \cup egress'
             \/ \E r \in rewinds', u \in BucketTimes : u < r.failed_at /\ Final(g, u - Lateness)
             \/ ~(WindowEnd(g) <= waterline') /\ counts'[g] = Cardinality(Sent(g)')
  <2>1. \/ g \in Range(out) \cup egress
        \/ Evidence(g)
        \/ ~Final(g, waterline) /\ counts[g] = Cardinality(Sent(g))
    BY <1>1, FeedingFacts
  <2> QED BY <2>1, <1>2, <1>3 DEF Evidence, Final
<1>5. ASSUME NEW g \in AlertKeys, ~(WindowEnd(g) <= waterline')
      PROVE  \/ counts'[g] = Cardinality(Sent(g)')
             \/ counts'[g] = 0 /\ \A u \in todo' : u >= WindowEnd(g)
  BY <1>1, <1>2, <1>5, FeedingFacts DEF Final
<1> QED BY <1>1, <1>2, <1>4, <1>5, FeedingFacts DEF FedAfter

LEMMA FeedInvStep == IInv /\ [Next]_vars /\ ReplayInv' => FeedInv'
<1> SUFFICES ASSUME IInv, [Next]_vars, ReplayInv' PROVE FeedInv'
  OBVIOUS
<1>1. CASE ReplayerStep
  <2>1. CASE PostFails
    BY <2>1 DEF PostFails, FeedInv, Feeding
  <2>2. CASE Post \/ Done \/ \E t \in BucketTimes : Ack(t)
    <3>1. /\ UNCHANGED <<pipeVars, rewinds, out>> /\ ~PostFails /\ ~Resume
          /\ (rep' # "paused" => rep # "paused") /\ todo' \subseteq todo
          /\ ~(\E t \in BucketTimes : Accept(t))
      BY <1>1, <2>2 DEF ReplayerStep, drainVars, Post, Done, Ack, PostFails, Resume, Accept
    <3> QED BY <1>1, <3>1, LeftSteps, FeedSame DEF pipeVars
  <2> QED BY <1>1, <2>1, <2>2, FeedAccept, FeedResume DEF ReplayerStep
<1>2. CASE Kill
  BY <1>2 DEF Kill, KillPipeline, FeedInv, Feeding
<1>3. CASE RestartPipeline
  <2>1. Timely => rep' = "paused"
    BY <1>3 DEF RestartPipeline, replayerVars, IInv, ScriptInv
  <2> QED BY <2>1 DEF FeedInv, Feeding
<1>4. CASE PipelineStep \/ DrainStep
  BY <1>4, FeedAdvance, FeedDrain
<1>5. CASE ~ReplayerStep /\ ~Kill /\ ~RestartPipeline /\ ~PipelineStep /\ ~DrainStep
  BY <1>5, NotReplayer, NotDrain, NotPipeline, LeftSteps, FeedSame DEF pipeVars
<1> QED BY <1>1, <1>2, <1>3, <1>4, <1>5
-----------------------------------------------------------------------------
\* At the start nothing has been sent, and there is room for the first event.
LEMMA InvInit == Init => IInv
<1> SUFFICES ASSUME Init PROVE IInv
  OBVIOUS
<1>0. /\ rep = "replay" /\ todo = BucketTimes /\ last_acked = None /\ control = None
      /\ rewinds = {} /\ pipe = "running" /\ counts = NoCounts /\ maxTime = 0
      /\ waterline = 0 /\ conn = "live" /\ egress = {} /\ drain = "run" /\ n_connects = 1
      /\ seen = {} /\ out = <<>> /\ op = "idle" /\ connects0 = 0 /\ kills = 0
      /\ BucketTimes \subseteq Nat
  BY BucketsAreTimes DEF Init, PipeInit, ReplayerInit, DrainInit
<1>1. ~accepted /\ ~stopFile
  BY Zenon DEF Init, ReplayerInit, DrainInit
<1>2. Left = BucketTimes
  BY <1>0, <1>1 DEF Left
<1>3. \A k \in AlertKeys : Sent(k) = {} /\ counts[k] = 0 /\ Cardinality(Sent(k)) = 0
  <2>1. ASSUME NEW k \in AlertKeys PROVE Sent(k) = {}
    BY <1>2 DEF Sent, Failures, BucketTimes
  <2> QED BY <2>1, <1>0, FS_EmptySet DEF NoCounts
<1>4. Range(out) = {} /\ duplicates(out) = {}
  BY <1>0 DEF Range, duplicates
<1>5. ReplayInv
  BY <1>0, <1>1 DEF ReplayInv
<1>6. PipeInv
  BY <1>0, <1>3 DEF PipeInv, Blank
<1>7. DrainInv
  BY <1>0, <1>4 DEF DrainInv
<1>8. ScriptInv
  BY <1>0 DEF ScriptInv
<1>9. FeedInv
  <2>1. BucketTimes # {}
    BY FelderaArmAssumption DEF BucketTimes
  <2>2. ASSUME NEW k \in GroundTruth PROVE k \in AlertKeys /\ ~Final(k, waterline)
    <3>1. k \in AlertKeys
      BY DEF GroundTruth
    <3>2. WindowEnd(k) \in Nat \ {0}
      BY <3>1, InItsWindow DEF AlertKeys
    <3> QED BY <3>1, <3>2, <1>0 DEF Final
  <2> QED BY <2>1, <2>2, <1>0, <1>2, <1>3 DEF FeedInv
<1>10. EndInv
  BY <1>0, <1>1 DEF EndInv
<1> QED BY <1>5, <1>6, <1>7, <1>8, <1>9, <1>10, TypeInit DEF IInv

LEMMA InvStep == IInv /\ [Next]_vars => IInv'
<1> SUFFICES ASSUME IInv, [Next]_vars PROVE IInv'
  OBVIOUS
<1>1. TypeOK'
  BY TypeStep DEF IInv
<1> QED BY <1>1, ReplayInvStep, PipeInvStep, DrainInvStep, ScriptInvStep, FeedInvStep, EndInvStep
        DEF IInv

(* The invariant is inductive, for every corpus, window length, threshold,  *)
(* lateness and number of kills, with and without the timing assumptions.   *)
THEOREM Inductive == Spec => []IInv
BY InvInit, InvStep, PTL DEF Spec

(* Every variable keeps its type; no window counts more failures than the   *)
(* corpus holds, however often it is sent again.                            *)
THEOREM TypeCorrect == Spec => []TypeOK
<1>1. IInv => TypeOK
  BY DEF IInv
<1> QED BY <1>1, Inductive, PTL

(* After every rewind the windows still open hold exactly what the replayer *)
(* has sent of them: rewind_point cuts no window in two.                    *)
THEOREM WindowsFedWhole == Spec => []FedWholeWindows
<1>1. IInv => FedWholeWindows
  <2> SUFFICES ASSUME IInv, Timely, pipe = "running", op = "idle", rep = "replay", control = None,
                      NEW k \in AlertKeys, ~Final(k, waterline), counts[k] > 0
               PROVE  counts[k] = Cardinality({e \in Failures(k) : e.time \notin todo})
    BY DEF FedWholeWindows
  <2>1. Feeding
    BY DEF Feeding
  <2>2. counts[k] = Cardinality(Sent(k))
    BY <2>1, FeedingFacts, Typed DEF IInv
  <2>3. Left = todo
    BY DEF IInv, ReplayInv, Left
  <2> QED BY <2>2, <2>3 DEF Sent
<1> QED BY <1>1, Inductive, PTL

LEMMA LostFromInv == IInv => LostOnlyIfClosed
<1> SUFFICES ASSUME IInv, drain = "exited", Timely, NEW k \in GroundTruth \ Range(out)
             PROVE  Evidence(k)
  BY DEF LostOnlyIfClosed, Evidence
<1>1. stopFile /\ egress = {} /\ rep = "done" /\ PipelineIdle
  BY DEF IInv, EndInv
<1>2. todo = {} /\ Left = {}
  BY <1>1 DEF IInv, ReplayInv, Left
<1>3. pipe = "running" /\ Feeding
  BY <1>1 DEF PipelineIdle, Feeding
<1>4. PICK e \in Events : Closing(e)
  BY FelderaArmAssumption
<1>5. e.time <= maxTime /\ e.time \in Nat /\ maxTime \in Nat /\ waterline \in Nat /\ Lateness \in Nat
  BY <1>2, <1>3, FeedingFacts, InItsWindow, Typed, FelderaAssumption DEF BucketTimes, IInv
<1>6. Final(k, waterline)
  <2>1. k \in AlertKeys /\ WindowEnd(k) <= e.time - Lateness
    BY <1>4 DEF Closing, GroundTruth
  <2>2. WindowEnd(k) \in Nat
    BY <2>1, InItsWindow DEF AlertKeys
  <2> QED BY <2>1, <2>2, <1>1, <1>5 DEF Final, PipelineIdle
<1> QED BY <1>1, <1>3, <1>6, FeedingFacts

(* When the runner waits for the end, an alert can be missing from the file *)
(* only if its window had been closed before a POST failed.                 *)
THEOREM OnlyClosedWindowsLost == Spec => []LostOnlyIfClosed
BY LostFromInv, Inductive, PTL
-----------------------------------------------------------------------------
LEMMA PromiseInit == Init => Promise!ArmInit
BY DEF Init, DrainInit, Promise!ArmInit

LEMMA PromiseStep ==
  ASSUME IInv, [Next]_vars, IInv'
  PROVE  [Promise!ArmNext]_(Promise!armVars)
<1> DEFINE closed == drain = "exited"
<1> DEFINE owed == IF Timely /\ MaxKills = 0 THEN GroundTruth ELSE {}
<1>0. /\ out \in Seq(AlertKeys) /\ drain \in {"run", "exited"} /\ kills' \in Nat
      /\ kills' <= MaxKills /\ seen = Range(out) /\ egress \subseteq GroundTruth
      /\ MaxKills \in Nat /\ TypeOK'
  <2>1. kills' \in 0..MaxKills /\ TypeOK'
    BY DEF IInv, TypeOK
  <2> QED BY <2>1, Typed DEF IInv, DrainInv, PipeInv
<1>1. CASE DrainStep
  <2>1. drain = "run" /\ UNCHANGED drain
    BY <1>1 DEF DrainStep, Connect, Disconnect, Handle, drainVars
  <2>2. CASE UNCHANGED out
    BY <2>1, <2>2 DEF Promise!armVars
  <2>3. CASE out' # out
    <3>1. PICK k \in AlertKeys : Handle(k)
      BY <2>3, <1>1 DEF DrainStep, Connect, Disconnect, drainVars
    <3>2. k \in egress /\ k \notin seen /\ out' = Append(out, k)
      BY <2>3, <3>1 DEF Handle
    <3>3. k \in GroundTruth /\ k \notin Range(out)
      BY <3>2, <1>0
    <3> QED BY <2>1, <3>2, <3>3 DEF Promise!ArmNext, Promise!Alert, Promise!Range, Range
  <2> QED BY <2>2, <2>3
<1>2. CASE ~DrainStep /\ ~Exit
  BY <1>2, NotDrain DEF Promise!armVars
<1>3. CASE ~DrainStep /\ Exit
  <2>1. UNCHANGED out /\ ~closed /\ closed'
    BY <1>3 DEF Exit
  <2>2. ASSUME Timely, MaxKills = 0, NEW k \in GroundTruth PROVE k \in Range(out)
    <3>1. kills' = 0
      BY <2>2, <1>0
    <3>2. rewinds' = {}
      BY <3>1 DEF IInv, DrainInv
    <3>3. LostOnlyIfClosed'
      BY LostFromInv, PTL
    <3>4. Range(out)' = Range(out)
      BY <2>1 DEF Range
    <3> QED BY <2>1, <2>2, <3>2, <3>3, <3>4, SameKeys DEF LostOnlyIfClosed
  <2>3. owed \subseteq Range(out)
    BY <2>2
  <2> QED BY <2>1, <2>3 DEF Promise!ArmNext, Promise!Close, Promise!Range, Range
<1> QED BY <1>1, <1>2, <1>3

(* The Feldera arm implements the arm the answer gate expects: expected     *)
(* alerts only, each once, whatever is killed and sent again; and, in time  *)
(* and without kills, it closes with the whole ground truth.                *)
THEOREM FelderaImplementsArm == Spec => KeepsPromise
BY PromiseInit, PromiseStep, Inductive, PTL DEF Spec, KeepsPromise, Promise!ArmSpec
=============================================================================
