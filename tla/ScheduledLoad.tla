----------------------------- MODULE ScheduledLoad -----------------------------
(***************************************************************************)
(* The open-loop generator of workload-interference/run.py, class           *)
(* ScheduledLoad: the main thread takes fires from a fixed schedule and      *)
(* starts one worker thread for each, unless OUTSTANDING_CAP workers are in  *)
(* flight; then the fire is added to a counter and never sent.              *)
(*                                                                         *)
(* A worker leaves in two critical sections, with other threads between     *)
(* them: the counters of its outcome first, outstanding in the finally       *)
(* block.  "due" and "leaving" are those two places of the code.             *)
(***************************************************************************)
EXTENDS Integers, Sequences

CONSTANTS
  OUTSTANDING_CAP,   \* 64 in the pre-registration
  MaxFires,          \* bound on the fires of one window
  MaxSamples         \* bound on the backlog samples of one window

ASSUME LoadAssumption ==
  /\ OUTSTANDING_CAP \in Nat \ {0}
  /\ MaxFires \in Nat
  /\ MaxSamples \in Nat

VARIABLES
  fires_intended,     \* fires whose intended time has come
  outstanding,        \* dispatched fires whose thread has not left
  peak_outstanding,
  backlog,            \* fires that found the cap reached
  completed,
  dnf,                \* failed fires per reason
  hard_break,
  backlog_trace,      \* one sample of backlog a second
  due,                \* a fire is between the schedule and its dispatch
  leaving             \* threads counted and not yet in their finally block

loadVars == <<fires_intended, outstanding, peak_outstanding, backlog, completed,
              dnf, hard_break, backlog_trace, due, leaving>>

\* engines.classify
Reasons == {"timeout", "resource", "dialect", "server", "error"}

NoFailures == [r \in Reasons |-> 0]

LoadInit ==
  /\ fires_intended = 0 /\ outstanding = 0 /\ peak_outstanding = 0
  /\ backlog = 0 /\ completed = 0 /\ dnf = NoFailures /\ hard_break = FALSE
  /\ backlog_trace = <<>> /\ due = FALSE /\ leaving = 0

\* A new ScheduledLoad takes the place of the old one.
NewLoad ==
  /\ fires_intended' = 0 /\ outstanding' = 0 /\ peak_outstanding' = 0
  /\ backlog' = 0 /\ completed' = 0 /\ dnf' = NoFailures /\ hard_break' = FALSE
  /\ backlog_trace' = <<>> /\ due' = FALSE /\ leaving' = 0

\* Threads inside their try block: dispatched, outcome not yet counted.
Working == outstanding - leaving
-----------------------------------------------------------------------------
\* run_for: the intended time of the next fire has come.
Intend ==
  /\ ~due
  /\ fires_intended < MaxFires
  /\ fires_intended' = fires_intended + 1
  /\ due' = TRUE
  /\ UNCHANGED <<outstanding, peak_outstanding, backlog, completed, dnf,
                 hard_break, backlog_trace, leaving>>

room == outstanding < OUTSTANDING_CAP

\* Mutant of Send: the peak is taken before the new query is counted.
Send_PeakBefore ==
  /\ due /\ room
  /\ due' = FALSE
  /\ outstanding' = outstanding + 1
  /\ peak_outstanding' = IF peak_outstanding > outstanding THEN peak_outstanding
                         ELSE outstanding
  /\ UNCHANGED <<fires_intended, backlog, completed, dnf, hard_break,
                 backlog_trace, leaving>>

\* _dispatch: a worker thread is started for the fire.
Send ==
  /\ due /\ room
  /\ due' = FALSE
  /\ outstanding' = outstanding + 1
  /\ peak_outstanding' = IF peak_outstanding > outstanding THEN peak_outstanding
                         ELSE outstanding + 1
  /\ UNCHANGED <<fires_intended, backlog, completed, dnf, hard_break,
                 backlog_trace, leaving>>

\* _dispatch: no room; the fire is counted and forgotten.
BackUp ==
  /\ due /\ ~room
  /\ due' = FALSE
  /\ backlog' = backlog + 1
  /\ UNCHANGED <<fires_intended, outstanding, peak_outstanding, completed, dnf,
                 hard_break, backlog_trace, leaving>>

\* run_for: once a second, between two bursts.
Sample ==
  /\ ~due
  /\ Len(backlog_trace) < MaxSamples
  /\ backlog_trace' = Append(backlog_trace, backlog)
  /\ UNCHANGED <<fires_intended, outstanding, peak_outstanding, backlog,
                 completed, dnf, hard_break, due, leaving>>

\* _work: the query has answered.
Answer ==
  /\ Working > 0
  /\ completed' = completed + 1
  /\ leaving' = leaving + 1
  /\ UNCHANGED <<fires_intended, outstanding, peak_outstanding, backlog, dnf,
                 hard_break, backlog_trace, due>>

\* Mutant of Fail: each failure overwrites the count of its reason.
Fail_Overwrites(r) ==
  /\ Working > 0
  /\ dnf' = [dnf EXCEPT ![r] = 1]
  /\ hard_break' = (hard_break \/ r \in {"resource", "server"})
  /\ leaving' = leaving + 1
  /\ UNCHANGED <<fires_intended, outstanding, peak_outstanding, backlog,
                 completed, backlog_trace, due>>

\* _work: the query, or the connect before it, has failed.
Fail(r) ==
  /\ Working > 0
  /\ dnf' = [dnf EXCEPT ![r] = @ + 1]
  /\ hard_break' = (hard_break \/ r \in {"resource", "server"})
  /\ leaving' = leaving + 1
  /\ UNCHANGED <<fires_intended, outstanding, peak_outstanding, backlog,
                 completed, backlog_trace, due>>

\* _work: the finally block.
Leave ==
  /\ leaving > 0
  /\ outstanding' = outstanding - 1
  /\ leaving' = leaving - 1
  /\ UNCHANGED <<fires_intended, peak_outstanding, backlog, completed, dnf,
                 hard_break, backlog_trace, due>>
-----------------------------------------------------------------------------
TotalDnf(d) ==
  d["timeout"] + d["resource"] + d["dialect"] + d["server"] + d["error"]

\* The sampled backlog does not fall and ends above where it started.
backlog_monotone ==
  /\ Len(backlog_trace) >= 3
  /\ \A i \in 1..(Len(backlog_trace) - 1) : backlog_trace[i] <= backlog_trace[i + 1]
  /\ backlog_trace[Len(backlog_trace)] > backlog_trace[1]

LoadType ==
  /\ fires_intended \in 0..MaxFires
  /\ outstanding \in 0..OUTSTANDING_CAP
  /\ peak_outstanding \in 0..OUTSTANDING_CAP
  /\ backlog \in 0..MaxFires
  /\ completed \in 0..MaxFires
  /\ dnf \in [Reasons -> 0..MaxFires]
  /\ hard_break \in BOOLEAN
  /\ backlog_trace \in Seq(0..MaxFires) /\ Len(backlog_trace) <= MaxSamples
  /\ due \in BOOLEAN
  /\ leaving \in 0..OUTSTANDING_CAP
=============================================================================
