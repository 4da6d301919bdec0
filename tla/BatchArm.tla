------------------------------- MODULE BatchArm -------------------------------
(***************************************************************************)
(* The batch arm as the fault runners drive it: lander and batch job over   *)
(* one directory, the SIGKILL of faults/kill_batch_job.sh at any step, the  *)
(* operator's restart scripts (arm B) or the container's restart policy     *)
(* (arm BC), and the pacing of the two processes on the wall clock.         *)
(*                                                                         *)
(* Pacing: while windows remain to be landed the job ticks at most max_gap  *)
(* times between two calls of land (landing interval over poll interval: 1  *)
(* at 20x with a 5 s poll, 12 at 1x).  Nothing bounds the ticks after the   *)
(* last one.                                                                *)
(***************************************************************************)
EXTENDS Lander, BatchJob, AnswerGate

CONSTANTS
  max_gap,      \* ticks of the job between two calls of land, at most
  MaxKills,     \* bound on the SIGKILLs of one run
  Supervised    \* TRUE: restart policy on-failure (BC); FALSE: operator (B)

ASSUME ArmAssumption ==
  /\ max_gap \in Nat \ {0}
  /\ MaxKills \in Nat
  /\ Supervised \in BOOLEAN

VARIABLES
  gap,          \* ticks since the last call of land
  kills

vars == <<dir, stateFile, unlanded, holding, replacing, pc, last, seen_keys,
          idle_ticks, ever_processed, candidate, pending, out, gap, kills>>

envVars == <<gap, kills>>

Init ==
  /\ DirInit
  /\ LanderInit
  /\ JobInit
  /\ gap = 0
  /\ kills = 0
-----------------------------------------------------------------------------
\* land is called for the next window on the replay clock.
LanderLands(w) ==
  /\ Land(w) \/ Truncate(w) \/ HoldBack(w)
  /\ gap' = 0
  /\ UNCHANGED <<jobVars, kills>>

LanderReleases == ReleaseHeld /\ UNCHANGED <<jobVars, envVars>>

LanderReplaces == Replace /\ UNCHANGED <<jobVars, envVars>>

\* time.sleep(poll_interval) has passed and the landing clock allows a tick.
Paced ==
  /\ unlanded # {} => gap < max_gap
  /\ gap' = IF unlanded # {} THEN gap + 1 ELSE gap
  /\ UNCHANGED <<landerVars, kills>>

JobLists == List /\ Paced

JobIdles == IdleTick /\ Paced

JobWorks ==
  /\ Scan \/ ScanFails \/ (\E k \in AlertKeys : Emit(k)) \/ Save
  /\ UNCHANGED <<landerVars, envVars>>

\* The runner starts the job next to the lander.
Launch ==
  /\ pc = "down"
  /\ Start
  /\ UNCHANGED <<landerVars, envVars>>

\* faults/kill_batch_job.sh, or docker kill of the container.
KillJob ==
  /\ kills < MaxKills
  /\ Kill
  /\ kills' = kills + 1
  /\ UNCHANGED <<landerVars, gap>>

\* recover_batch_job.sh; the restart policy, or recover_bc.sh.
Restart ==
  /\ pc = "killed"
  /\ Start
  /\ UNCHANGED <<landerVars, envVars>>

\* recover_b3.sh waits for a readable file; the restart policy does not.
RestartAfterFailure ==
  /\ pc = "failed"
  /\ Supervised \/ \A w \in Files : dir[w] # "truncated"
  /\ Start
  /\ UNCHANGED <<landerVars, envVars>>

\* The job has drained and every lander thread that can finish has.
Finished ==
  /\ pc = "exited"
  /\ unlanded = {}
  /\ ~replacing
  /\ holding => stateFile.last < HoldWindow + 2
  /\ UNCHANGED vars

Next ==
  \/ \E w \in Files : LanderLands(w)
  \/ LanderReleases
  \/ LanderReplaces
  \/ Launch
  \/ JobLists
  \/ JobIdles
  \/ JobWorks
  \/ KillJob
  \/ Restart
  \/ RestartAfterFailure
  \/ Finished

Spec == Init /\ [][Next]_vars

\* Every process keeps running: the replay clock advances, the poll loop
\* wakes, a dead job is restarted.  Kills need not happen.
Fairness ==
  /\ WF_vars(\E w \in Files : LanderLands(w))
  /\ WF_vars(LanderReplaces)
  /\ WF_vars(LanderReleases)
  /\ WF_vars(Launch)
  /\ WF_vars(JobLists \/ JobIdles \/ JobWorks)
  /\ WF_vars(Restart)
  /\ WF_vars(RestartAfterFailure)

FairSpec == Spec /\ Fairness
-----------------------------------------------------------------------------
(***************************************************************************)
(* What the arm owes.  A key is owed unless one of its failures is filed in *)
(* the window whose file is held back: that file is never read (below).     *)
(***************************************************************************)
FilesOf(k) == {FileOf(e) : e \in Failures(k)}

OwedKeys == {k \in GroundTruth : HoldWindow \notin FilesOf(k)}

\* The idle limit outlasts the longest pause between two files: one landing
\* interval, or two around the window that is held back.
Patient ==
  (IF HoldWindow \in Files THEN 2 * max_gap ELSE max_gap) < max_idle_ticks

(* Types of all the variables: directory, state file, lander, job, pacing.  *)
TypeOK ==
  /\ DirType
  /\ LanderType
  /\ JobType
  /\ gap \in 0..max_gap
  /\ kills \in 0..MaxKills

(* batch_job.py's docstring: "a crash-and-restart can never emit a duplicate *)
(* even if its last state write never happened", whichever steps the kills  *)
(* fall between.                                                            *)
NoDuplicateAlert == duplicates(out) = {}

(* Whatever subset of the files a tick reads, the alerts it writes are      *)
(* alerts of the whole corpus: re-reading a boundary file never counts a    *)
(* row twice, and a partly landed window never raises a wrong alert.  A part *)
(* of KeepsPromise, which the run checks; it is proved for itself.          *)
NoFalseAlert == Range(out) \subseteq GroundTruth

(* The state file is never ahead of the alerts file: once it says a window  *)
(* is processed, every owed alert whose rows all lie at or before it is on  *)
(* disk.  Otherwise a kill right after save_state would lose the alert.     *)
SavedMeansAlerted ==
  /\ stateFile.seen \subseteq Range(out)
  /\ \A k \in OwedKeys :
       (\A f \in FilesOf(k) : f <= stateFile.last) => k \in Range(out)

(* A tick never opens a file older than the last window saved: the look-back *)
(* reaches exactly one boundary and can only be the file of that window.    *)
(* This is why a file that lands late is never read.                        *)
NeverReadsBehindState == \A w \in candidate : w >= stateFile.last

(* The job does not drain early: it exits by itself only when every alert   *)
(* it owes is in the file, provided the idle limit outlasts the pauses of   *)
(* the replay.                                                              *)
DrainedComplete == Patient /\ pc = "exited" => OwedKeys \subseteq Range(out)

(* The arm drains: after any kills, failures and restarts, it ends by       *)
(* itself with every owed alert written.                                    *)
Drains == <>(pc = "exited" /\ OwedKeys \subseteq Range(out))

Promise == INSTANCE AlertArm WITH
  Expected <- GroundTruth,
  Owed     <- OwedKeys,
  output   <- out,
  closed   <- pc = "exited"

(* The batch arm implements the arm that compare_answers.py expects: each   *)
(* step appends one new expected alert, or closes with nothing owed, or     *)
(* changes neither the file nor the closing.                                *)
KeepsPromise == Promise!ArmSpec

(* The pre-registered expectation of fault B2: "30/30, with the late        *)
(* window's alert emitted late but present", without operator action.       *)
LateFileAlerted == pc = "exited" /\ ~holding => GroundTruth \subseteq Range(out)
=============================================================================
