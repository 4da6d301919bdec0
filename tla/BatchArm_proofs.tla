---------------------------- MODULE BatchArm_proofs ----------------------------
(***************************************************************************)
(* Proofs about the batch arm, for every corpus, every window and threshold,*)
(* every way rows are filed, and any number of kills.  The inductive        *)
(* invariant comes first, as named parts.                                   *)
(***************************************************************************)
EXTENDS BatchArm, DetectionLemmas

Reading == pc \in {"scan", "emit"}

\* The alerts file, the memory of the job and the rows still to be appended.
AlertsInv ==
  /\ Running => seen_keys = Range(out) /\ last = stateFile.last
  /\ stateFile.seen \subseteq Range(out)
  /\ pending \subseteq GroundTruth \ Range(out)
  /\ pc # "emit" => pending = {}
  /\ NoFalseAlert
  /\ NoDuplicateAlert

\* Windows are landed in order, and a file is there exactly when its window
\* has been landed, but for the one that is held back.
LanderInv ==
  /\ \A w \in Files : w \in unlanded => dir[w] = "absent"
  /\ \A w \in Files : dir[w] = "absent" => w \in unlanded \/ w = HoldWindow
  /\ \A v \in Files \ unlanded, w \in unlanded : v < w
  /\ HoldWindow \in Files /\ dir[HoldWindow] # "absent"
       => stateFile.last >= HoldWindow + 2
  /\ holding => HoldWindow \in Files \ unlanded
  /\ replacing => TruncateWindow \in Files \ unlanded
  /\ stateFile.last \in {None} \cup (Files \ unlanded)
  /\ stateFile.last \in Files => stateFile.last # HoldWindow

\* What a tick has opened: nothing older than the saved window, no gap above
\* it, and the saved window itself when the next one is there.
CandidateInv ==
  /\ ~Reading => candidate = {}
  /\ Reading => \E w \in candidate : w > stateFile.last
  /\ NeverReadsBehindState
  /\ \A w \in candidate : dir[w] # "absent"
  /\ \A f \in Files, m \in candidate :
       f # HoldWindow /\ stateFile.last < f /\ f <= m => f \in candidate
  /\ stateFile.last \in Files /\ stateFile.last + 1 \in candidate
       => stateFile.last \in candidate

\* An owed alert is on disk, or in the rows of the current query, once every
\* file of its rows is saved, or is not newer than the files being read.
OwedInv ==
  /\ SavedMeansAlerted
  /\ pc = "emit" => \A k \in OwedKeys :
       (\A f \in FilesOf(k) : \E m \in candidate : f <= m)
         => k \in Range(out) \cup pending

\* The idle counter never runs ahead of the landing clock.
DrainInv ==
  /\ Running /\ ever_processed => last # None
  /\ pc = "list" /\ new_windows = {} /\ unlanded # {} =>
       idle_ticks <= gap + (IF HoldWindow \in Files \ unlanded THEN max_gap ELSE 0)
  /\ Patient /\ pc = "exited" =>
       \A w \in Files : w = HoldWindow \/ w <= stateFile.last

IInv ==
  /\ TypeOK
  /\ AlertsInv
  /\ LanderInv
  /\ CandidateInv
  /\ OwedInv
  /\ DrainInv
-----------------------------------------------------------------------------
\* A key is a pair and a window number, and its failures are filed in the
\* file of that window or in the next one.
LEMMA KeyFiles ==
  /\ \A e \in Events : window_index(e) \in Nat /\ FileOf(e) \in Nat
  /\ \A f \in Files : f \in Nat /\ f >= 1
  /\ \A k \in AlertKeys : \A f \in FilesOf(k) :
       f \in Files /\ k[2] \in Nat /\ (f = k[2] \/ f = k[2] + 1)
<1>1. ASSUME NEW e \in Events PROVE window_index(e) \in Nat /\ window_index(e) >= 1
  <2>1. e.time \in Nat /\ e.time >= WINDOW_SECONDS /\ WINDOW_SECONDS \in Nat \ {0}
    BY DetectionAssumption
  <2>2. ASSUME NEW t \in Nat, NEW n \in Nat \ {0}, t >= n
        PROVE t \div n \in Nat /\ t \div n >= 1
    BY <2>2, SMTT(30)
  <2> QED BY <2>1, <2>2 DEF window_index
<1>2. \A e \in Events : Spill[e] \in {0, 1}
  BY DirAssumption
<1>3. \A e \in Events : FileOf(e) \in Nat /\ FileOf(e) >= 1
  BY <1>1, <1>2 DEF FileOf
<1>4. ASSUME NEW k \in AlertKeys, NEW f \in FilesOf(k)
      PROVE f \in Files /\ k[2] \in Nat /\ (f = k[2] \/ f = k[2] + 1)
  <2>1. PICK e \in Events : AlertKey(e) = k /\ f = FileOf(e)
    BY DEF FilesOf, Failures
  <2>2. k[2] = window_index(e)
    BY <2>1 DEF AlertKey
  <2> QED BY <2>1, <2>2, <1>1, <1>2 DEF FileOf, Files
<1> QED BY <1>1, <1>3, <1>4 DEF Files

\* The query never counts a row twice, so it finds alerts of the corpus only.
LEMMA QuerySound ==
  ASSUME NEW rows \in SUBSET Events
  PROVE  Query(rows) \subseteq GroundTruth
BY CountedOnce DEF Query

\* It finds every alert whose files have all been read.
LEMMA QueryComplete ==
  ASSUME NEW files, NEW k \in GroundTruth, FilesOf(k) \subseteq files
  PROVE  k \in Query(RowsIn(files))
<1>1. Failures(k) \cap RowsIn(files) = Failures(k)
  BY DEF FilesOf, RowsIn, Failures
<1>2. k \in AlertKeys /\ Cardinality(Failures(k)) >= FAILURE_THRESHOLD
  BY DEF GroundTruth, buckets
<1> QED BY <1>1, <1>2 DEF Query

\* An alert has rows, hence files.
LEMMA AlertHasFile ==
  ASSUME NEW k \in GroundTruth
  PROVE  FilesOf(k) # {}
BY AlertHasFailure DEF FilesOf

-----------------------------------------------------------------------------
LEMMA ZeroIdle == 0 \in 0..max_idle_ticks
BY JobAssumption

LEMMA TypeInit == Init => TypeOK
<1> SUFFICES ASSUME Init PROVE TypeOK
  OBVIOUS
<1> USE DEF Init, DirInit, LanderInit, JobInit
<1>1. DirType
  BY DEF DirType
<1>2. LanderType
  BY DEF LanderType
<1>3. JobType
  <2>1. ever_processed \in BOOLEAN
    OBVIOUS
  <2> QED BY <2>1, ZeroIdle DEF JobType
<1>4. gap \in 0..max_gap /\ kills \in 0..MaxKills
  BY ArmAssumption
<1> QED BY <1>1, <1>2, <1>3, <1>4 DEF TypeOK

LEMMA TypeStep == TypeOK /\ [Next]_vars => TypeOK'
<1> SUFFICES ASSUME TypeOK, [Next]_vars PROVE TypeOK'
  OBVIOUS
<1> USE DEF TypeOK, DirType, LanderType, JobType
<1>1. ASSUME NEW w \in Files, LanderLands(w) PROVE TypeOK'
  <2> USE <1>1, ArmAssumption DEF LanderLands, WriteWindowFile, jobVars
  <2>1. CASE Land(w)
    BY <2>1 DEF Land
  <2>2. CASE Truncate(w)
    BY <2>2 DEF Truncate
  <2>3. CASE HoldBack(w)
    BY <2>3 DEF HoldBack
  <2> QED BY <2>1, <2>2, <2>3
<1>2. CASE LanderReleases
  BY <1>2 DEF LanderReleases, ReleaseHeld, WriteWindowFile, jobVars, envVars
<1>3. CASE LanderReplaces
  BY <1>3 DEF LanderReplaces, Replace, WriteWindowFile, jobVars, envVars
<1>4. CASE Launch \/ Restart \/ RestartAfterFailure
  <2>1. Range(out) \subseteq AlertKeys
    <3>1. out \in Seq(AlertKeys)
      OBVIOUS
    <3>2. ASSUME NEW i \in DOMAIN out PROVE out[i] \in AlertKeys
      BY <3>1, DOMAIN out = 1..Len(out)
    <3> QED BY <3>2 DEF Range
  <2>2. ever_processed' \in BOOLEAN
    BY <1>4
       DEF Launch, Restart, RestartAfterFailure, Start
  <2> QED BY <1>4, <2>1, <2>2, ZeroIdle
     DEF Launch, Restart, RestartAfterFailure, Start, Load, landerVars, envVars
<1>5. CASE JobLists
  <2>1. candidate' \subseteq Files
    BY <1>5 DEF JobLists, List, new_windows, lookback, windows_present
  <2>2. gap' \in 0..max_gap
    BY <1>5, ArmAssumption DEF JobLists, Paced
  <2> QED BY <1>5, <2>1, <2>2 DEF JobLists, List, Paced, landerVars
<1>6. CASE JobIdles
  <2>1. idle_ticks' \in 0..max_idle_ticks
    BY <1>6, JobAssumption DEF JobIdles, IdleTick
  <2>2. gap' \in 0..max_gap
    BY <1>6, ArmAssumption DEF JobIdles, Paced
  <2>3. pc' \in {"list", "exited"}
    BY <1>6 DEF JobIdles, IdleTick
  <2> QED BY <1>6, <2>1, <2>2, <2>3 DEF JobIdles, IdleTick, Paced, landerVars
<1>7. CASE JobWorks
  <2> USE <1>7 DEF JobWorks, landerVars, envVars
  <2>1. CASE Scan
    BY <2>1 DEF Scan, Query
  <2>2. CASE ScanFails
    <3>1. ever_processed' \in BOOLEAN
      BY <2>2 DEF ScanFails, Forget
    <3> QED BY <2>2, <3>1, ZeroIdle DEF ScanFails, Forget
  <2>3. ASSUME NEW k \in AlertKeys, Emit(k) PROVE TypeOK'
    <3>1. out' \in Seq(AlertKeys)
      BY <2>3, AppendNew DEF Emit
    <3> QED BY <2>3, <3>1 DEF Emit
  <2>4. CASE Save
    BY <2>4, JobAssumption DEF Save
  <2> QED BY <2>1, <2>2, <2>3, <2>4
<1>8. CASE KillJob
  <2>1. ever_processed' \in BOOLEAN
    BY <1>8 DEF KillJob, Kill, Forget
  <2>2. kills' \in 0..MaxKills
    BY <1>8, ArmAssumption DEF KillJob
  <2> QED BY <1>8, <2>1, <2>2, ZeroIdle DEF KillJob, Kill, Forget, landerVars
<1>9. CASE Finished \/ UNCHANGED vars
  BY <1>9 DEF Finished, vars
<1> QED
  BY <1>1, <1>2, <1>3, <1>4, <1>5, <1>6, <1>7, <1>8, <1>9 DEF Next

(* Every reachable state is well typed. *)
THEOREM TypeCorrect == Spec => []TypeOK
BY TypeInit, TypeStep, PTL DEF Spec
-----------------------------------------------------------------------------
\* No step of the lander touches the job, its memory or its alerts file.
LEMMA LanderLeavesJob ==
  ASSUME (\E w \in Files : LanderLands(w)) \/ LanderReleases \/ LanderReplaces
  PROVE  UNCHANGED <<pc, last, seen_keys, idle_ticks, ever_processed,
                     candidate, pending, out, stateFile, kills>>
BY DEF LanderLands, Land, Truncate, HoldBack, LanderReleases, ReleaseHeld,
       LanderReplaces, Replace, jobVars, envVars

LEMMA AlertsInit == Init => AlertsInv
<1> SUFFICES ASSUME Init PROVE AlertsInv
  OBVIOUS
<1> USE DEF Init, DirInit, JobInit
<1>1. Range(out) = {} /\ duplicates(out) = {}
  BY DEF Range, duplicates
<1> QED
  BY <1>1 DEF AlertsInv, Running, NoFalseAlert, NoDuplicateAlert

LEMMA AlertsStep == TypeOK /\ AlertsInv /\ [Next]_vars => AlertsInv'
<1> SUFFICES ASSUME TypeOK, AlertsInv, [Next]_vars PROVE AlertsInv'
  OBVIOUS
<1> USE DEF AlertsInv, Running, NoFalseAlert, NoDuplicateAlert
<1>1. CASE (\E w \in Files : LanderLands(w)) \/ LanderReleases \/ LanderReplaces
  BY <1>1, LanderLeavesJob
<1>2. CASE Launch \/ Restart \/ RestartAfterFailure
  BY <1>2
     DEF Launch, Restart, RestartAfterFailure, Start, Load
<1>3. CASE JobLists \/ JobIdles
  <2>1. /\ UNCHANGED <<seen_keys, last, out, pending, stateFile>>
        /\ pc = "list" /\ pc' \in {"list", "scan", "exited"}
    BY <1>3 DEF JobLists, List, JobIdles, IdleTick
  <2> QED BY <2>1
<1>4. CASE JobWorks
  <2> USE <1>4 DEF JobWorks
  <2>1. CASE Scan
    <3>1. Query(RowsIn(candidate)) \subseteq GroundTruth
      BY QuerySound DEF RowsIn
    <3> QED BY <2>1, <3>1 DEF Scan
  <2>2. CASE ScanFails
    BY <2>2 DEF ScanFails, Forget
  <2>3. ASSUME NEW k \in AlertKeys, Emit(k) PROVE AlertsInv'
    <3>1. out \in Seq(AlertKeys) /\ k \in GroundTruth \ Range(out)
      BY <2>3 DEF Emit, TypeOK, JobType
    <3>2. Range(out') = Range(out) \cup {k} /\ duplicates(out') = {}
      BY <2>3, <3>1, AppendNew DEF Emit
    <3> QED BY <2>3, <3>1, <3>2 DEF Emit
  <2>4. CASE Save
    BY <2>4 DEF Save
  <2> QED BY <2>1, <2>2, <2>3, <2>4
<1>5. CASE KillJob
  BY <1>5 DEF KillJob, Kill, Forget
<1>6. CASE Finished \/ UNCHANGED vars
  BY <1>6 DEF Finished, vars
<1> QED
  BY <1>1, <1>2, <1>3, <1>4, <1>5, <1>6 DEF Next

(* No alert is written twice, whichever steps the kills fall between. *)
THEOREM NoDuplicates == Spec => []NoDuplicateAlert
<1>1. AlertsInv => NoDuplicateAlert
  BY DEF AlertsInv
<1> QED BY <1>1, TypeInit, TypeStep, AlertsInit, AlertsStep, PTL DEF Spec

(* Every alert written is an alert of the whole corpus. *)
THEOREM NoFalseAlerts == Spec => []NoFalseAlert
<1>1. AlertsInv => NoFalseAlert
  BY DEF AlertsInv
<1> QED BY <1>1, TypeInit, TypeStep, AlertsInit, AlertsStep, PTL DEF Spec
-----------------------------------------------------------------------------
\* Only the lander touches the directory and its own state.
LEMMA JobLeavesLander ==
  ASSUME \/ Launch \/ Restart \/ RestartAfterFailure
         \/ JobLists \/ JobIdles \/ JobWorks \/ KillJob
  PROVE  UNCHANGED <<dir, unlanded, holding, replacing>>
BY DEF Launch, Restart, RestartAfterFailure, Start, JobLists, List, JobIdles,
       IdleTick, Paced, JobWorks, Scan, ScanFails, Emit, Save, KillJob, Kill,
       landerVars

\* A tick opens files that have been landed, and never the one held back.
LEMMA CandidateLanded ==
  ASSUME TypeOK, LanderInv, CandidateInv, NEW w \in candidate
  PROVE  w \in Files \ unlanded /\ w # HoldWindow
<1>1. w \in Files /\ dir[w] # "absent" /\ w >= stateFile.last
  BY DEF CandidateInv, NeverReadsBehindState, TypeOK, JobType
<1>2. w \in Nat /\ stateFile.last \in Int
  BY <1>1, KeyFiles DEF TypeOK, DirType, None
<1>3. w \notin unlanded
  BY <1>1 DEF LanderInv
<1>4. w # HoldWindow
  BY <1>1, <1>2 DEF LanderInv
<1> QED BY <1>1, <1>3, <1>4

LEMMA LanderInvInit == Init => LanderInv
BY KeyFiles DEF Init, DirInit, LanderInit, LanderInv, None

LEMMA LanderInvStep ==
  TypeOK /\ LanderInv /\ CandidateInv /\ [Next]_vars => LanderInv'
<1> SUFFICES ASSUME TypeOK, LanderInv, CandidateInv, [Next]_vars PROVE LanderInv'
  OBVIOUS
<1>0. /\ \A w \in Files : w \in Nat
      /\ dir \in [Files -> {"absent", "truncated", "complete"}]
      /\ unlanded \subseteq Files
  BY KeyFiles DEF TypeOK, DirType, LanderType
<1>1. ASSUME NEW w \in Files, LanderLands(w) PROVE LanderInv'
  <2>1. /\ NextWindow(w) /\ unlanded' = unlanded \ {w} /\ UNCHANGED stateFile
        /\ w \in unlanded
    BY <1>1 DEF LanderLands, Land, Truncate, HoldBack, NextWindow
  <2>2. /\ \A v \in Files \ unlanded', u \in unlanded' : v < u
        /\ stateFile'.last \in {None} \cup (Files \ unlanded')
    BY <2>1, <1>0 DEF NextWindow, LanderInv
  <2>3. CASE Land(w)
    BY <2>1, <2>2, <2>3, <1>0 DEF Land, WriteWindowFile, LanderInv
  <2>4. CASE Truncate(w)
    <3>1. w # HoldWindow
      BY <2>1, <2>4, <1>0, DirAssumption, KeyFiles DEF Truncate, None
    <3> QED BY <2>1, <2>2, <2>4, <3>1, <1>0 DEF Truncate, LanderInv
  <2>5. CASE HoldBack(w)
    BY <2>1, <2>2, <2>5, <1>0 DEF HoldBack, LanderInv
  <2> QED BY <1>1, <2>3, <2>4, <2>5 DEF LanderLands
<1>2. CASE LanderReleases
  BY <1>2, <1>0 DEF LanderReleases, ReleaseHeld, WriteWindowFile, LanderInv
<1>3. CASE LanderReplaces
  <2>1. TruncateWindow \in Files => TruncateWindow # HoldWindow
    BY DirAssumption, KeyFiles DEF None
  <2> QED
    BY <1>3, <2>1, <1>0 DEF LanderReplaces, Replace, WriteWindowFile, LanderInv
<1>4. CASE JobWorks /\ Save
  <2>1. UNCHANGED <<dir, unlanded, holding, replacing>>
    BY <1>4, JobLeavesLander
  <2>2. PICK new_last \in candidate :
          /\ \A w \in candidate : w <= new_last
          /\ stateFile' = [last |-> new_last, seen |-> seen_keys]
    BY <1>4 DEF Save
  <2>3. new_last \in Files \ unlanded /\ new_last # HoldWindow
    BY CandidateLanded
  <2>4. stateFile'.last = new_last /\ new_last >= stateFile.last
    BY <2>2 DEF CandidateInv, NeverReadsBehindState
  <2>5. HoldWindow \in Files /\ dir'[HoldWindow] # "absent"
          => stateFile'.last >= HoldWindow + 2
    <3>1. stateFile.last \in Int /\ new_last \in Int /\ HoldWindow \in Int
      BY <2>3, KeyFiles, DirAssumption DEF TypeOK, DirType, None
    <3> QED BY <2>1, <2>4, <3>1 DEF LanderInv
  <2> QED BY <2>1, <2>3, <2>4, <2>5 DEF LanderInv
<1>5. ASSUME \/ Launch \/ Restart \/ RestartAfterFailure
             \/ JobLists \/ JobIdles \/ KillJob \/ (JobWorks /\ ~Save)
      PROVE  LanderInv'
  <2>1. UNCHANGED <<dir, unlanded, holding, replacing>>
    BY <1>5, JobLeavesLander
  <2>2. UNCHANGED stateFile
    BY <1>5 DEF Launch, Restart, RestartAfterFailure, Start, JobLists, List,
                JobIdles, IdleTick, KillJob, Kill, JobWorks, Scan, ScanFails, Emit
  <2> QED BY <2>1, <2>2 DEF LanderInv
<1>6. CASE Finished \/ UNCHANGED vars
  BY <1>6 DEF Finished, vars, LanderInv
<1> QED
  BY <1>1, <1>2, <1>3, <1>4, <1>5, <1>6 DEF Next
-----------------------------------------------------------------------------
LEMMA CandidateInvInit == Init => CandidateInv
BY DEF Init, DirInit, JobInit, CandidateInv, Reading, NeverReadsBehindState

\* The listing opens every file above the saved window up to the newest one:
\* windows are landed in order, so none of them is still to come.
LEMMA ListOpensAll ==
  ASSUME TypeOK, AlertsInv, LanderInv, List
  PROVE  CandidateInv'
<1>0. /\ \A w \in Files : w \in Nat /\ w >= 1
      /\ stateFile.last \in Files \cup {None} /\ stateFile.last \in Nat
      /\ last = stateFile.last
  BY KeyFiles DEF TypeOK, DirType, None, AlertsInv, Running, List
<1>1. /\ candidate' = new_windows \cup lookback /\ new_windows # {}
      /\ pc' = "scan" /\ UNCHANGED <<dir, stateFile>>
  BY DEF List
<1>2. /\ \A w \in new_windows : w \in Files /\ dir[w] # "absent" /\ w > stateFile.last
      /\ \A w \in Files : dir[w] # "absent" /\ w > stateFile.last => w \in new_windows
  BY <1>0 DEF new_windows, windows_present, None
<1>3. \A w \in lookback : w \in Files /\ dir[w] # "absent" /\ w = stateFile.last
  <2> SUFFICES ASSUME NEW w \in lookback
               PROVE  w \in Files /\ dir[w] # "absent" /\ w = stateFile.last
    OBVIOUS
  <2>1. /\ w \in Files /\ dir[w] # "absent"
        /\ w + 1 \in new_windows /\ \A v \in new_windows : w < v
    BY DEF lookback, windows_present
  <2>2. w + 1 > stateFile.last /\ ~(w > stateFile.last)
    BY <2>1, <1>0, <1>2
  <2> QED BY <2>1, <2>2, <1>0
<1>4. ASSUME NEW f \in Files, NEW m \in candidate', f # HoldWindow,
             stateFile.last < f, f <= m
      PROVE  f \in candidate'
  <2>1. m \in Files /\ m \notin unlanded
    BY <1>1, <1>2, <1>3 DEF LanderInv
  <2>2. f \notin unlanded
    BY <1>4, <2>1, <1>0 DEF LanderInv
  <2> QED BY <1>1, <1>2, <1>4, <2>2 DEF LanderInv
<1>5. ASSUME stateFile.last \in Files, stateFile.last + 1 \in candidate'
      PROVE  stateFile.last \in candidate'
  <2>1. dir[stateFile.last] # "absent"
    BY <1>0, <1>5 DEF LanderInv, None
  <2>2. stateFile.last + 1 \in new_windows
    BY <1>0, <1>1, <1>3, <1>5
  <2>3. stateFile.last \in lookback
    BY <1>0, <1>2, <1>5, <2>1, <2>2 DEF lookback, windows_present, None
  <2> QED BY <1>1, <2>3
<1>6. /\ \A w \in candidate' : w \in Files /\ dir[w] # "absent" /\ w >= stateFile.last
      /\ \E w \in candidate' : w > stateFile.last
  BY <1>0, <1>1, <1>2, <1>3
<1> QED
  BY <1>1, <1>4, <1>5, <1>6 DEF CandidateInv, Reading, NeverReadsBehindState

LEMMA CandidateInvStep ==
  TypeOK /\ AlertsInv /\ LanderInv /\ CandidateInv /\ [Next]_vars => CandidateInv'
<1> SUFFICES ASSUME TypeOK, AlertsInv, LanderInv, CandidateInv, [Next]_vars
             PROVE  CandidateInv'
  OBVIOUS
<1> USE DEF CandidateInv, Reading, NeverReadsBehindState
<1>1. CASE (\E w \in Files : LanderLands(w)) \/ LanderReleases \/ LanderReplaces
  <2>1. UNCHANGED <<pc, candidate, stateFile>>
    BY <1>1, LanderLeavesJob
  <2>2. \A w \in Files : dir[w] # "absent" => dir'[w] # "absent"
    BY <1>1 DEF LanderLands, Land, Truncate, HoldBack, LanderReleases, ReleaseHeld,
                LanderReplaces, Replace, WriteWindowFile, TypeOK, DirType
  <2>3. candidate \subseteq Files
    BY DEF TypeOK, JobType
  <2> QED BY <2>1, <2>2, <2>3
<1>2. CASE Launch \/ Restart \/ RestartAfterFailure
  BY <1>2 DEF Launch, Restart, RestartAfterFailure, Start
<1>3. CASE JobLists
  BY <1>3, ListOpensAll DEF JobLists
<1>4. CASE JobIdles
  <2>1. UNCHANGED <<candidate, dir, stateFile>> /\ ~Reading /\ ~Reading'
    BY <1>4 DEF JobIdles, IdleTick
  <2> QED BY <2>1
<1>5. CASE JobWorks
  <2> USE <1>5 DEF JobWorks
  <2>1. CASE Scan
    BY <2>1 DEF Scan
  <2>2. CASE ScanFails
    BY <2>2 DEF ScanFails, Forget
  <2>3. ASSUME NEW k \in AlertKeys, Emit(k) PROVE CandidateInv'
    BY <2>3 DEF Emit
  <2>4. CASE Save
    <3>1. candidate' = {} /\ pc' = "list"
      BY <2>4 DEF Save
    <3>2. stateFile'.last \notin Files \/ stateFile'.last + 1 \notin candidate'
      BY <3>1
    <3> QED BY <3>1, <3>2
  <2> QED BY <2>1, <2>2, <2>3, <2>4
<1>6. CASE KillJob
  BY <1>6 DEF KillJob, Kill, Forget
<1>7. CASE Finished \/ UNCHANGED vars
  BY <1>7 DEF Finished, vars
<1> QED
  BY <1>1, <1>2, <1>3, <1>4, <1>5, <1>6, <1>7 DEF Next
-----------------------------------------------------------------------------
LEMMA OwedInvInit == Init => OwedInv
<1> SUFFICES ASSUME Init PROVE OwedInv
  OBVIOUS
<1>1. stateFile.last = 0 /\ stateFile.seen = {} /\ pc = "down"
  BY DEF Init, DirInit, JobInit, None
<1>2. ASSUME NEW k \in OwedKeys, \A f \in FilesOf(k) : f <= stateFile.last
      PROVE  FALSE
  <2>1. k \in GroundTruth /\ k \in AlertKeys
    BY DEF OwedKeys, GroundTruth
  <2>2. PICK f \in FilesOf(k) : TRUE
    BY <2>1, AlertHasFile
  <2>3. f \in Nat /\ f >= 1
    BY <2>1, KeyFiles
  <2> QED BY <2>3, <1>1, <1>2
<1> QED BY <1>1, <1>2 DEF OwedInv, SavedMeansAlerted

\* The query over the files of a tick finds every owed alert that is not yet
\* on disk and whose files are no newer than those of the tick.
LEMMA ScanFindsOwed ==
  ASSUME TypeOK, AlertsInv, LanderInv, CandidateInv, OwedInv, Reading,
         NEW k \in OwedKeys,
         \A f \in FilesOf(k) : \E m \in candidate : f <= m
  PROVE  k \in Range(out) \cup Query(RowsIn(candidate))
<1>0. /\ k \in GroundTruth /\ k \in AlertKeys /\ HoldWindow \notin FilesOf(k)
      /\ stateFile.last \in Files \cup {None} /\ stateFile.last \in Nat
  BY KeyFiles DEF OwedKeys, GroundTruth, TypeOK, DirType, None
<1>1. CASE \A f \in FilesOf(k) : f <= stateFile.last
  BY <1>1 DEF OwedInv, SavedMeansAlerted
<1>2. CASE \E f \in FilesOf(k) : f > stateFile.last
  <2>1. PICK f \in FilesOf(k) : f > stateFile.last
    BY <1>2
  <2>2. /\ \A g \in FilesOf(k) : g \in Files /\ g \in Nat /\ g >= 1
        /\ \A g \in FilesOf(k) : g = k[2] \/ g = k[2] + 1
        /\ k[2] \in Nat
    BY <1>0, <2>1, KeyFiles
  <2>3. \A g \in FilesOf(k) : g > stateFile.last => g \in candidate
    BY <1>0, <2>2 DEF CandidateInv
  <2>4. ASSUME NEW g \in FilesOf(k), g <= stateFile.last
        PROVE  g \in candidate
    <3>1. g = stateFile.last /\ f = stateFile.last + 1
      BY <2>1, <2>2, <2>4, <1>0
    <3>2. f \in candidate /\ stateFile.last \in Files
      BY <2>1, <2>2, <2>3, <3>1
    <3> QED BY <3>1, <3>2 DEF CandidateInv
  <2>5. FilesOf(k) \subseteq candidate
    BY <2>2, <2>3, <2>4, <1>0
  <2> QED BY <2>5, <1>0, QueryComplete
<1>3. \A f \in FilesOf(k) : f \in Nat
  BY <1>0, KeyFiles
<1> QED BY <1>0, <1>1, <1>2, <1>3

LEMMA OwedInvStep ==
  /\ TypeOK /\ AlertsInv /\ LanderInv /\ CandidateInv /\ OwedInv
  /\ [Next]_vars
  => OwedInv'
<1> SUFFICES ASSUME TypeOK, AlertsInv, LanderInv, CandidateInv, OwedInv, [Next]_vars
             PROVE  OwedInv'
  OBVIOUS
<1> USE DEF OwedInv, SavedMeansAlerted
<1>1. CASE (\E w \in Files : LanderLands(w)) \/ LanderReleases \/ LanderReplaces
  BY <1>1, LanderLeavesJob
<1>2. CASE Launch \/ Restart \/ RestartAfterFailure \/ JobLists \/ JobIdles \/ KillJob
  <2>1. UNCHANGED <<out, stateFile>> /\ pc' # "emit"
    BY <1>2 DEF Launch, Restart, RestartAfterFailure, Start, JobLists, List,
                JobIdles, IdleTick, KillJob, Kill
  <2> QED BY <2>1
<1>3. CASE JobWorks
  <2> USE <1>3 DEF JobWorks
  <2>1. CASE Scan
    <3>1. /\ Reading /\ UNCHANGED <<out, stateFile, candidate>>
          /\ pending' = Query(RowsIn(candidate)) \ seen_keys
          /\ seen_keys = Range(out)
      BY <2>1 DEF Scan, Reading, AlertsInv, Running
    <3>2. ASSUME NEW k \in OwedKeys,
                 \A f \in FilesOf(k) : \E m \in candidate : f <= m
          PROVE  k \in Range(out) \cup pending'
      BY <3>1, <3>2, ScanFindsOwed
    <3> QED BY <3>1, <3>2
  <2>2. CASE ScanFails
    BY <2>2 DEF ScanFails, Forget
  <2>3. ASSUME NEW k \in AlertKeys, Emit(k) PROVE OwedInv'
    <3>1. /\ Range(out') = Range(out) \cup {k}
          /\ pending' = pending \ {k}
          /\ UNCHANGED <<stateFile, candidate>>
          /\ pc = "emit"
      BY <2>3, AppendNew DEF Emit, TypeOK, JobType
    <3> QED BY <3>1
  <2>4. CASE Save
    <3>1. /\ pc = "emit" /\ pending = {} /\ out' = out /\ pc' = "list"
          /\ seen_keys = Range(out)
      BY <2>4 DEF Save, AlertsInv, Running
    <3>2. PICK new_last \in candidate :
            stateFile' = [last |-> new_last, seen |-> seen_keys]
      BY <2>4 DEF Save
    <3>3. ASSUME NEW k \in OwedKeys, \A f \in FilesOf(k) : f <= stateFile'.last
          PROVE  k \in Range(out)
      BY <3>1, <3>2, <3>3
    <3> QED BY <3>1, <3>2, <3>3
  <2> QED BY <2>1, <2>2, <2>3, <2>4
<1>4. CASE Finished \/ UNCHANGED vars
  BY <1>4 DEF Finished, vars
<1> QED
  BY <1>1, <1>2, <1>3, <1>4 DEF Next
-----------------------------------------------------------------------------
LEMMA DrainInvInit == Init => DrainInv
BY DEF Init, JobInit, DrainInv, Running

LEMMA DrainInvStep ==
  /\ TypeOK /\ AlertsInv /\ LanderInv /\ CandidateInv /\ DrainInv
  /\ [Next]_vars
  => DrainInv'
<1> SUFFICES ASSUME TypeOK, AlertsInv, LanderInv, CandidateInv, DrainInv, [Next]_vars
             PROVE  DrainInv'
  OBVIOUS
<1> DEFINE slack == IF HoldWindow \in Files \ unlanded THEN max_gap ELSE 0
<1>0. /\ \A w \in Files : w \in Nat /\ w >= 1
      /\ stateFile.last \in Nat /\ stateFile.last \in Files \cup {None}
      /\ gap \in 0..max_gap /\ max_gap \in Nat \ {0}
      /\ idle_ticks \in 0..max_idle_ticks /\ max_idle_ticks \in Nat \ {0}
      /\ slack \in Nat
  BY KeyFiles, ArmAssumption, JobAssumption DEF TypeOK, DirType, JobType, None
<1>1. ASSUME NEW w \in Files, LanderLands(w) PROVE DrainInv'
  <2>1. /\ UNCHANGED <<pc, last, idle_ticks, ever_processed, stateFile>>
        /\ gap' = 0 /\ unlanded' = unlanded \ {w} /\ w \in unlanded
    BY <1>1 DEF LanderLands, Land, Truncate, HoldBack, NextWindow, jobVars
  <2>2. CASE Land(w) \/ Truncate(w)
    <3>1. pc = "list" => w \in new_windows'
      <4>1. dir'[w] # "absent"
        BY <2>2 DEF Land, Truncate, WriteWindowFile, TypeOK, DirType
      <4>2. w > stateFile.last
        BY <2>1, <1>0 DEF LanderInv, None
      <4> QED BY <2>1, <4>1, <4>2
              DEF new_windows, windows_present, AlertsInv, Running
    <3> QED BY <2>1, <3>1 DEF DrainInv, Running
  <2>3. CASE HoldBack(w)
    <3>1. new_windows' = new_windows /\ slack' = max_gap
      BY <2>1, <2>3 DEF HoldBack, new_windows, windows_present
    <3>2. slack = 0 /\ unlanded # {}
      BY <2>1, <2>3 DEF HoldBack
    <3>3. pc = "list" /\ new_windows = {} => idle_ticks <= gap
      BY <3>2, <1>0 DEF DrainInv
    <3> HIDE DEF slack
    <3>4. pc' = "list" /\ new_windows' = {} /\ unlanded' # {} =>
            idle_ticks' <= gap' + slack'
      BY <2>1, <3>1, <3>3, <1>0
    <3> QED BY <2>1, <3>4 DEF DrainInv, Running, slack
  <2> QED BY <1>1, <2>2, <2>3 DEF LanderLands
<1>2. CASE LanderReleases \/ LanderReplaces
  <2>1. UNCHANGED <<pc, last, idle_ticks, ever_processed, stateFile, gap, unlanded>>
    BY <1>2 DEF LanderReleases, ReleaseHeld, LanderReplaces, Replace, jobVars, envVars
  <2>2. new_windows \subseteq new_windows'
    BY <1>2, <2>1 DEF new_windows, windows_present, LanderReleases, ReleaseHeld,
       LanderReplaces, Replace, WriteWindowFile, TypeOK, DirType
  <2> QED BY <2>1, <2>2 DEF DrainInv, Running
<1>3. CASE Launch \/ Restart \/ RestartAfterFailure
  <2>1. /\ idle_ticks' = 0 /\ pc' = "list" /\ UNCHANGED <<gap, unlanded>>
        /\ last' = stateFile.last /\ ever_processed' = (stateFile.last # None)
    BY <1>3 DEF Launch, Restart, RestartAfterFailure, Start, Load, landerVars, envVars
  <2>2. idle_ticks' <= gap' + slack'
    BY <2>1, <1>0
  <2> QED BY <2>1, <2>2 DEF DrainInv, Running
<1>4. CASE JobLists
  BY <1>4 DEF JobLists, List, DrainInv, Running
<1>5. CASE JobIdles
  <2>1. /\ pc = "list" /\ new_windows = {} /\ pc' \in {"list", "exited"}
        /\ UNCHANGED <<last, ever_processed, dir, stateFile, unlanded>>
        /\ idle_ticks' <= idle_ticks + 1
        /\ unlanded # {} => gap < max_gap /\ gap' = gap + 1
        /\ pc' = "exited" => ever_processed /\ idle_ticks' >= max_idle_ticks
    BY <1>5, <1>0 DEF JobIdles, IdleTick, Paced, landerVars
  <2>2. new_windows' = new_windows /\ slack' = slack
    BY <2>1 DEF new_windows, windows_present
  <2>3. unlanded # {} => idle_ticks <= gap + slack
    BY <2>1 DEF DrainInv
  <2>4. idle_ticks' \in Int /\ slack <= max_gap /\ (slack # 0 => HoldWindow \in Files)
    BY <1>5, <1>0 DEF JobIdles, IdleTick
  <2> HIDE DEF slack
  <2>5. unlanded # {} => idle_ticks' <= gap' + slack'
    BY <2>1, <2>2, <2>3, <2>4, <1>0
  <2>6. ASSUME Patient, pc' = "exited"
        PROVE  \A w \in Files : w = HoldWindow \/ w <= stateFile.last
    <3>1. unlanded = {}
      BY <2>1, <2>3, <2>4, <2>6, <1>0 DEF Patient
    <3>2. last # None /\ last = stateFile.last
      BY <2>1, <2>6 DEF DrainInv, AlertsInv, Running
    <3>3. \A w \in Files : w = HoldWindow \/ dir[w] # "absent"
      BY <3>1 DEF LanderInv
    <3> QED BY <2>1, <3>2, <3>3, <1>0 DEF new_windows, windows_present
  <2> QED BY <2>1, <2>2, <2>5, <2>6 DEF DrainInv, Running, slack
<1>6. CASE JobWorks
  <2> USE <1>6 DEF JobWorks, landerVars, envVars
  <2>1. CASE Scan \/ ScanFails \/ \E k \in AlertKeys : Emit(k)
    BY <2>1 DEF Scan, ScanFails, Forget, Emit, DrainInv, Running
  <2>2. CASE Save
    <3>1. /\ idle_ticks' = 0 /\ pc' = "list" /\ UNCHANGED <<gap, unlanded>>
          /\ last' \in candidate
      BY <2>2 DEF Save
    <3>2. last' # None
      BY <3>1, <1>0 DEF None, TypeOK, JobType
    <3>3. idle_ticks' <= gap' + slack'
      BY <3>1, <1>0
    <3> QED BY <3>1, <3>2, <3>3 DEF DrainInv, Running
  <2> QED BY <2>1, <2>2
<1>7. CASE KillJob
  BY <1>7 DEF KillJob, Kill, DrainInv, Running
<1>8. CASE Finished \/ UNCHANGED vars
  BY <1>8 DEF Finished, vars, DrainInv, Running, new_windows, windows_present
<1> QED
  BY <1>1, <1>2, <1>3, <1>4, <1>5, <1>6, <1>7, <1>8 DEF Next
-----------------------------------------------------------------------------
LEMMA InvInit == Init => IInv
BY TypeInit, AlertsInit, LanderInvInit, CandidateInvInit, OwedInvInit, DrainInvInit
   DEF IInv

LEMMA InvStep == IInv /\ [Next]_vars => IInv'
BY TypeStep, AlertsStep, LanderInvStep, CandidateInvStep, OwedInvStep, DrainInvStep
   DEF IInv

(* The invariant is inductive, for every corpus and every setting.          *)
THEOREM Inductive == Spec => []IInv
BY InvInit, InvStep, PTL DEF Spec

(* A saved window never hides an owed alert that is not on disk.            *)
THEOREM NothingLostBySaving == Spec => []SavedMeansAlerted
<1>1. IInv => SavedMeansAlerted
  BY DEF IInv, OwedInv
<1> QED BY <1>1, Inductive, PTL

(* No tick opens a file older than the last window saved.                   *)
THEOREM LookbackIsOneBoundary == Spec => []NeverReadsBehindState
<1>1. IInv => NeverReadsBehindState
  BY DEF IInv, CandidateInv
<1> QED BY <1>1, Inductive, PTL

LEMMA ExitIsComplete == IInv => DrainedComplete
<1> SUFFICES ASSUME IInv, Patient, pc = "exited", NEW k \in OwedKeys
             PROVE  k \in Range(out)
  BY DEF DrainedComplete
<1>1. k \in AlertKeys /\ HoldWindow \notin FilesOf(k)
  BY DEF OwedKeys, GroundTruth
<1>2. \A f \in FilesOf(k) : f \in Files /\ f # HoldWindow
  BY <1>1, KeyFiles
<1>3. \A f \in FilesOf(k) : f <= stateFile.last
  BY <1>2 DEF IInv, DrainInv
<1> QED BY <1>3 DEF IInv, OwedInv, SavedMeansAlerted

(* With an idle limit longer than the pauses of the replay, the job never   *)
(* exits before every owed alert is on disk.                                *)
THEOREM DrainsComplete == Spec => []DrainedComplete
BY ExitIsComplete, Inductive, PTL
-----------------------------------------------------------------------------
LEMMA PromiseInit == Init => Promise!ArmInit
BY DEF Init, JobInit, Promise!ArmInit

LEMMA PromiseStep ==
  ASSUME Patient, IInv, IInv', [Next]_vars
  PROVE  [Promise!ArmNext]_(Promise!armVars)
<1> USE DEF Promise!armVars
<1>1. CASE (\E w \in Files : LanderLands(w)) \/ LanderReleases \/ LanderReplaces
  BY <1>1, LanderLeavesJob
<1>2. CASE Launch \/ Restart \/ RestartAfterFailure \/ JobLists \/ KillJob
  <2>1. out' = out /\ pc # "exited" /\ pc' # "exited"
    BY <1>2 DEF Launch, Restart, RestartAfterFailure, Start, JobLists, List,
                KillJob, Kill, Running
  <2> QED BY <2>1
<1>3. CASE JobIdles
  <2>1. out' = out /\ pc = "list" /\ pc' \in {"list", "exited"}
    BY <1>3 DEF JobIdles, IdleTick
  <2>2. CASE pc' = "exited"
    <3>1. DrainedComplete'
      BY ExitIsComplete, PTL
    <3>2. OwedKeys \subseteq Range(out')
      BY <2>2, <3>1 DEF DrainedComplete, Patient, OwedKeys, FilesOf, GroundTruth,
         Failures, buckets, AlertKeys, AlertKey, FileOf, window_index, Files, Range
    <3> QED BY <2>1, <2>2, <3>2 DEF Promise!ArmNext, Promise!Close, Promise!Range, Range
  <2> QED BY <2>1, <2>2
<1>4. CASE JobWorks
  <2> USE <1>4 DEF JobWorks
  <2>1. CASE Scan \/ ScanFails \/ Save
    BY <2>1 DEF Scan, ScanFails, Save
  <2>2. ASSUME NEW k \in AlertKeys, Emit(k) PROVE [Promise!ArmNext]_(Promise!armVars)
    <3>1. /\ pc = "emit" /\ pc' = "emit" /\ out' = Append(out, k)
          /\ k \in GroundTruth /\ k \notin Range(out)
      BY <2>2 DEF Emit, IInv, AlertsInv
    <3> QED BY <3>1 DEF Promise!ArmNext, Promise!Alert, Promise!Range, Range
  <2> QED BY <2>1, <2>2
<1>5. CASE Finished \/ UNCHANGED vars
  BY <1>5 DEF Finished, vars
<1> QED
  BY <1>1, <1>2, <1>3, <1>4, <1>5 DEF Next

(* The batch arm implements the arm the answer gate expects, when its idle  *)
(* limit outlasts the pauses of the replay: kills, restarts, truncated and  *)
(* split files only ever delay an alert.                                    *)
THEOREM BatchImplementsArm ==
  ASSUME Patient
  PROVE  Spec => KeepsPromise
BY PromiseInit, PromiseStep, Inductive, Patient, PTL
   DEF Spec, KeepsPromise, Promise!ArmSpec
=============================================================================
