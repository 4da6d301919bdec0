---------------------------- MODULE InterferenceArm ----------------------------
(***************************************************************************)
(* One arm's pass up the demand ladder (run_arm, run_ladder_step): warm-in  *)
(* and measured window, each with a generator and a probe driver of its      *)
(* own, joins that give up, the mechanical stop rule and the knee.          *)
(*                                                                         *)
(* The engine is external: a query may answer, fail in any way              *)
(* engines.classify knows, or never return.  The measured runtimes are      *)
(* abstracted to whether utilization reached 1.  Threads that outlive the    *)
(* join of their window only write to objects nothing reads any more, so     *)
(* they leave the model with them; so do the probes of the warm-in.          *)
(***************************************************************************)
EXTENDS ScheduledLoad

CONSTANTS
  Levels,      \* steps of LADDER: 6 in the pre-registration
  MaxProbes,   \* bound on the probes of one measured window
  Faults       \* the ways in which the engine fails a query

ASSUME LadderAssumption ==
  /\ Levels \in Nat \ {0}
  /\ MaxProbes \in Nat
  /\ Faults \subseteq Reasons

VARIABLES
  stage,              \* where run_ladder_step is
  probe,              \* the ProbeDriver of the measured window
  ladder,             \* stop_reason of each step recorded so far
  knee,               \* number of the knee's step, or 0
  steps_after_knee

vars == <<loadVars, stage, probe, ladder, knee, steps_after_knee>>

armVars == <<stage, ladder, knee, steps_after_knee>>

Stages == {"warm", "warm_join", "measured", "join", "judge", "done"}

StopReasons ==
  {"none", "hard_break", "probe_p95_over_30s",
   "utilization_ge_1_with_monotone_backlog", "outstanding_cap_64"}

\* Probes sent, one perhaps still in flight, answered within 30 s, answered
\* later than that, not finished.
NewProbe ==
  [busy |-> FALSE, sent |-> 0, quick |-> 0, slow |-> 0, dnf |-> NoFailures]

Init ==
  /\ LoadInit
  /\ stage = "warm"
  /\ probe = NewProbe
  /\ ladder = <<>>
  /\ knee = 0
  /\ steps_after_knee = 0
-----------------------------------------------------------------------------
\* run_for in the part of the step whose window is open.
Scheduler ==
  /\ stage \in {"warm", "measured"}
  /\ Intend \/ Send \/ BackUp \/ Sample
  /\ UNCHANGED <<armVars, probe>>

Workers ==
  /\ stage # "done"
  /\ Answer \/ (\E r \in Faults : Fail(r)) \/ Leave
  /\ UNCHANGED <<armVars, probe>>

\* ProbeDriver.run: the intended time has come, or has passed long ago.
ProbeSend ==
  /\ stage = "measured"
  /\ ~probe.busy
  /\ probe.sent < MaxProbes
  /\ probe' = [probe EXCEPT !.busy = TRUE, !.sent = @ + 1]
  /\ UNCHANGED <<loadVars, armVars>>

\* latencies() leaves out the fires that did not finish.
ProbeEnds ==
  /\ stage # "done"
  /\ probe.busy
  /\ \/ probe' = [probe EXCEPT !.busy = FALSE, !.quick = @ + 1]
     \/ probe' = [probe EXCEPT !.busy = FALSE, !.slow = @ + 1]
     \/ \E r \in Faults :
          probe' = [probe EXCEPT !.busy = FALSE, !.dnf[r] = @ + 1]
  /\ UNCHANGED <<loadVars, armVars>>

\* run_for returns: the window has elapsed, or a hard break was seen.
CloseWindow ==
  /\ stage \in {"warm", "measured"}
  /\ ~due
  /\ stage' = IF stage = "warm" THEN "warm_join" ELSE "join"
  /\ UNCHANGED <<loadVars, probe, ladder, knee, steps_after_knee>>

\* Mutant of Joined: join_inflight has no deadline.
Joined_NoDeadline ==
  /\ outstanding = 0
  /\ \/ /\ stage = "warm_join"
        /\ stage' = "measured"
        /\ NewLoad
     \/ /\ stage = "join"
        /\ stage' = "judge"
        /\ UNCHANGED loadVars
  /\ UNCHANGED <<probe, ladder, knee, steps_after_knee>>

\* join_inflight and probe.join: all threads are back, or the deadline has
\* passed; the caller cannot tell which.
Joined ==
  /\ \/ /\ stage = "warm_join"
        /\ stage' = "measured"
        /\ NewLoad
     \/ /\ stage = "join"
        /\ stage' = "judge"
        /\ UNCHANGED loadVars
  /\ UNCHANGED <<probe, ladder, knee, steps_after_knee>>
-----------------------------------------------------------------------------
\* Whether the 95th percentile of the finished probes is over 30 s: not
\* without a slow one, and surely if there is no other.
P95Over == {o \in BOOLEAN : /\ o => probe.slow > 0
                            /\ probe.slow > 0 /\ probe.quick = 0 => o}

\* The sum of the measured runtimes over the window is at least 1, or not.
Utilized == {u \in BOOLEAN : u => completed > 0}

\* step_stop_reason: the first trigger wins.
StopReason(utilized, p95_over) ==
  IF hard_break THEN "hard_break"
  ELSE IF p95_over THEN "probe_p95_over_30s"
  ELSE IF utilized /\ backlog_monotone THEN "utilization_ge_1_with_monotone_backlog"
  ELSE IF peak_outstanding >= OUTSTANDING_CAP THEN "outstanding_cap_64"
  ELSE "none"

\* Mutant of NextStep: two steps past the knee.
NextStep_TwoPast(reason) ==
  /\ knee' = IF knee = 0 /\ reason # "none" THEN Len(ladder) + 1 ELSE knee
  /\ steps_after_knee' = IF knee # 0 THEN steps_after_knee + 1 ELSE steps_after_knee
  /\ stage' = IF Len(ladder) + 1 = Levels \/ steps_after_knee' >= 2
              THEN "done" ELSE "warm"

\* run_arm: the first step with a reason is the knee; one more is run.
NextStep(reason) ==
  /\ knee' = IF knee = 0 /\ reason # "none" THEN Len(ladder) + 1 ELSE knee
  /\ steps_after_knee' = IF knee # 0 THEN steps_after_knee + 1 ELSE steps_after_knee
  /\ stage' = IF Len(ladder) + 1 = Levels \/ steps_after_knee' >= 1
              THEN "done" ELSE "warm"

\* The record is taken and the step's generators and drivers are dropped.
Judge ==
  /\ stage = "judge"
  /\ \E utilized \in Utilized, p95_over \in P95Over :
       LET reason == StopReason(utilized, p95_over) IN
       /\ ladder' = Append(ladder, reason)
       /\ NextStep(reason)
  /\ IF stage' = "done" THEN UNCHANGED <<loadVars, probe>>
     ELSE NewLoad /\ probe' = NewProbe

\* write_results has run; the daemon threads end with the process.
Finished == stage = "done" /\ UNCHANGED vars

Next ==
  \/ Scheduler
  \/ Workers
  \/ ProbeSend
  \/ ProbeEnds
  \/ CloseWindow
  \/ Joined
  \/ Judge
  \/ Finished

Spec == Init /\ [][Next]_vars

\* The main thread runs and its clocks advance.  Nothing is assumed of the
\* engine: a query or a probe may never return.
Fairness ==
  /\ WF_vars(Scheduler)
  /\ WF_vars(CloseWindow)
  /\ WF_vars(Joined)
  /\ WF_vars(Judge)

FairSpec == Spec /\ Fairness
-----------------------------------------------------------------------------
(* Types of all the variables; with them the cap: one generator never has   *)
(* more than OUTSTANDING_CAP of its queries in flight, whatever order the    *)
(* workers' two critical sections and the scheduler's take the lock in.      *)
TypeOK ==
  /\ LoadType
  /\ stage \in Stages
  /\ probe \in [busy : BOOLEAN, sent : 0..MaxProbes, quick : 0..MaxProbes,
                slow : 0..MaxProbes, dnf : [Reasons -> 0..MaxProbes]]
  /\ ladder \in Seq(StopReasons) /\ Len(ladder) <= Levels
  /\ knee \in 0..Levels
  /\ steps_after_knee \in 0..1

(* No fire is lost or counted twice: each one whose time has come has been   *)
(* answered, has failed, is in flight, waits for the lock, or is in the      *)
(* backlog, which only grows: what it counts is never sent.                  *)
Accounting ==
  fires_intended = completed + TotalDnf(dnf) + Working
                          + backlog + (IF due THEN 1 ELSE 0)

(* Backlog growth implies the cap was reached, so the utilization trigger    *)
(* of the stop rule never stops a step the cap would not have stopped: it    *)
(* decides only which reason is reported.                                    *)
UtilizationNeedsCap ==
  backlog_monotone => peak_outstanding = OUTSTANDING_CAP

(* The sweep protocol: the knee is the first step with a stop reason, one    *)
(* step is run past it and no more, and without a knee all steps are run.    *)
KneeRule ==
  /\ \A i \in 1..Len(ladder) : ladder[i] # "none" => knee # 0 /\ knee <= i
  /\ knee # 0 => knee <= Len(ladder) /\ ladder[knee] # "none"
                   /\ Len(ladder) <= knee + 1
  /\ stage = "done" =>
       Len(ladder) = IF knee \in {0, Levels} THEN Levels ELSE knee + 1

(* The pass ends although the engine may hang on every query: all joins      *)
(* have deadlines and no fire waits for a free worker.                       *)
ArmEnds == <>(stage = "done")

(* README.md, thresholds and stop rule: a hard break, which includes two     *)
(* queries that did not finish in 300 s, stops the ladder at its step.       *)
Strikes == dnf["timeout"] + probe.dnf["timeout"]

HardBreakStops ==
  [][ladder' # ladder /\ Strikes >= 2 => ladder'[Len(ladder')] # "none"]_vars
=============================================================================
