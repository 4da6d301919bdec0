------------------------------ MODULE ClosedLoop ------------------------------
(***************************************************************************)
(* concurrency-multiuser/concurrency_bench.py: for each level n client        *)
(* threads meet the main thread at a barrier of n + 1, query in a closed      *)
(* loop until the window ends or memory runs short, and are joined with a    *)
(* deadline; then the main thread reads the lists they append to.            *)
(*                                                                         *)
(* A query may never return, in the join's 130 s or at all: the drivers' own  *)
(* timeouts, 300 s and per read, come later.  Its thread is a daemon: it      *)
(* stays behind when the join gives up.  The warm-up query is the main        *)
(* thread's own, and hangs it.                                               *)
(***************************************************************************)
EXTENDS Naturals, Sequences, FiniteSets

CONSTANTS
  LEVELS,          \* clients per level: a sequence
  MaxQueries       \* bound on the queries of a client in one window

ASSUME ClosedLoopAssumption ==
  /\ LEVELS \in Seq(Nat \ {0}) /\ LEVELS # <<>>
  /\ MaxQueries \in Nat

VARIABLES
  bench,        \* main thread: "warmup", "level", "barrier", "window", "stopping", "join", "done"
  level,        \* index in LEVELS
  client,       \* per client of the level: where it is, and its counts
  stop,         \* the stop event
  aborted,      \* the memory floor was reached
  behind,       \* threads of earlier levels still in a query
  levels        \* res["levels"]

closedLoopVars == <<bench, level, client, stop, aborted, behind, levels>>

Clients == 1..LEVELS[level]

NewClient == [at |-> "connect", sent |-> 0, lat |-> 0, late |-> 0, err |-> 0]

ClosedLoopInit ==
  /\ bench = "warmup" /\ level = 1 /\ client = <<>>
  /\ stop = FALSE /\ aborted = FALSE /\ behind = 0 /\ levels = <<>>
-----------------------------------------------------------------------------
\* The warmup query fails: the error is written and nothing else is run.
WarmupFails ==
  /\ bench = "warmup"
  /\ bench' = "done"
  /\ UNCHANGED <<level, client, stop, aborted, behind, levels>>

WarmupOk ==
  /\ bench = "warmup"
  /\ bench' = "level"
  /\ UNCHANGED <<level, client, stop, aborted, behind, levels>>

\* mem_floor_pre: the level is skipped and the sweep ends.
SkipLevel ==
  /\ bench = "level"
  /\ levels' = Append(levels, [n |-> LEVELS[level], completed |-> 0, late |-> 0,
                               aborted |-> TRUE])
  /\ bench' = "done"
  /\ UNCHANGED <<level, client, stop, aborted, behind>>

StartLevel ==
  /\ bench = "level"
  /\ bench' = "barrier"
  /\ client' = [i \in Clients |-> NewClient]
  /\ stop' = FALSE /\ aborted' = FALSE
  /\ UNCHANGED <<level, behind, levels>>

At(i, place) == client[i].at = place

\* make_runner has returned, as it need not: ready.wait().
Connect(i) ==
  /\ At(i, "connect")
  /\ client' = [client EXCEPT ![i].at = "ready"]
  /\ UNCHANGED <<bench, level, stop, aborted, behind, levels>>

\* Mutant of ConnectFails: the thread returns without going to the barrier.
ConnectFails_NoWait(i) ==
  /\ At(i, "connect")
  /\ client' = [client EXCEPT ![i].at = "exited", ![i].err = 1]
  /\ UNCHANGED <<bench, level, stop, aborted, behind, levels>>

\* make_runner raises: the error is noted, the barrier is still met.
ConnectFails(i) ==
  /\ At(i, "connect")
  /\ client' = [client EXCEPT ![i].at = "ready_to_exit", ![i].err = 1]
  /\ UNCHANGED <<bench, level, stop, aborted, behind, levels>>

\* The n + 1 parties are there, and all go on at once.
PassBarrier ==
  /\ bench = "barrier"
  /\ \A i \in Clients : client[i].at \in {"ready", "ready_to_exit"}
  /\ bench' = "window"
  /\ client' = [i \in Clients |->
       [client[i] EXCEPT !.at = IF @ = "ready" THEN "loop" ELSE "exited"]]
  /\ UNCHANGED <<level, stop, aborted, behind, levels>>

\* Mutant of SendQuery: the loop ends on an error only.
SendQuery_WhateverStop(i) ==
  /\ At(i, "loop")
  /\ client[i].sent < MaxQueries
  /\ client' = [client EXCEPT ![i].at = "query", ![i].sent = @ + 1]
  /\ UNCHANGED <<bench, level, stop, aborted, behind, levels>>

\* while not stop.is_set(): the next query goes out.
SendQuery(i) ==
  /\ At(i, "loop") /\ ~stop
  /\ client[i].sent < MaxQueries
  /\ client' = [client EXCEPT ![i].at = "query", ![i].sent = @ + 1]
  /\ UNCHANGED <<bench, level, stop, aborted, behind, levels>>

\* Its latency is appended, when the window is over as well as in it.
QueryReturns(i) ==
  /\ At(i, "query")
  /\ client' = [client EXCEPT ![i].at = "loop", ![i].lat = @ + 1,
                              ![i].late = IF stop THEN @ + 1 ELSE @]
  /\ UNCHANGED <<bench, level, stop, aborted, behind, levels>>

QueryFails(i) ==
  /\ At(i, "query")
  /\ client' = [client EXCEPT ![i].at = IF stop THEN "exited" ELSE "loop",
                              ![i].err = @ + 1]
  /\ UNCHANGED <<bench, level, stop, aborted, behind, levels>>

LeaveLoop(i) ==
  /\ At(i, "loop") /\ stop
  /\ client' = [client EXCEPT ![i].at = "exited"]
  /\ UNCHANGED <<bench, level, stop, aborted, behind, levels>>

\* WINDOW seconds are over, or a sample of the free memory is below the floor:
\* elapsed is read, by which qps will divide.
EndWindow(short) ==
  /\ bench = "window"
  /\ bench' = "stopping"
  /\ aborted' = short
  /\ UNCHANGED <<level, client, stop, behind, levels>>

\* stop.set(), the statement after: until it the clients go on.
SetStop ==
  /\ bench = "stopping"
  /\ bench' = "join"
  /\ stop' = TRUE
  /\ UNCHANGED <<level, client, aborted, behind, levels>>

TotalOf(field) ==
  LET upTo[i \in 0..LEVELS[level]] ==
        IF i = 0 THEN 0 ELSE upTo[i - 1] + client[i][field]
  IN upTo[LEVELS[level]]

InQuery == {i \in Clients : At(i, "query")}

\* Every join has returned: the thread has exited, or its 130 s are over
\* while a query hangs.  The lists are read as they are now.
ReportLevel ==
  /\ bench = "join"
  /\ \A i \in Clients : client[i].at \in {"exited", "query"}
  /\ levels' = Append(levels, [n |-> LEVELS[level],
                               completed |-> TotalOf("lat"),
                               late |-> TotalOf("late"),
                               aborted |-> aborted])
  /\ behind' = behind + Cardinality(InQuery)
  /\ bench' = IF aborted \/ level = Len(LEVELS) THEN "done" ELSE "level"
  /\ level' = IF aborted \/ level = Len(LEVELS) THEN level ELSE level + 1
  /\ client' = <<>>
  /\ UNCHANGED <<stop, aborted>>

\* A thread left behind finishes: nobody reads its list any more.
Straggle ==
  /\ behind > 0
  /\ behind' = behind - 1
  /\ UNCHANGED <<bench, level, client, stop, aborted, levels>>

ClientStep(i) ==
  \/ Connect(i) \/ ConnectFails(i) \/ SendQuery(i) \/ QueryReturns(i)
  \/ QueryFails(i) \/ LeaveLoop(i)

ClosedLoopNext ==
  \/ WarmupFails \/ WarmupOk \/ SkipLevel \/ StartLevel
  \/ \E i \in DOMAIN client : ClientStep(i)
  \/ PassBarrier
  \/ \E short \in BOOLEAN : EndWindow(short)
  \/ SetStop
  \/ ReportLevel
  \/ Straggle

\* The main thread goes on and its clocks run.  Of what waits for an engine, the
\* warm-up, a connect and a query, nothing is assumed.
ClosedLoopFairness ==
  /\ WF_closedLoopVars(StartLevel)
  /\ WF_closedLoopVars(\E i \in DOMAIN client : LeaveLoop(i))
  /\ WF_closedLoopVars(PassBarrier)
  /\ WF_closedLoopVars(EndWindow(FALSE))
  /\ WF_closedLoopVars(SetStop)
  /\ WF_closedLoopVars(ReportLevel)
-----------------------------------------------------------------------------
(* qps divides all completions by the time to the end of the window.  Of those *)
(* it counts, at most one per client is of after the stop event: a client that *)
(* was in a query or just before one finishes it and sends no other.  What     *)
(* completes between the reading of the clock and the stop, the next           *)
(* statement, is counted too, and nothing bounds it.                         *)
OvershootIsBounded == \A i \in DOMAIN levels : levels[i].late <= levels[i].n

(* Once the warm-up has returned the sweep ends, with a level that was cut      *)
(* short only in the last place, although queries may hang for ever: unless a  *)
(* thread never gets out of make_runner, for which all wait at the barrier.    *)
SweepEnds ==
  \/ <>[](\E i \in DOMAIN client : At(i, "connect"))
  \/ (bench # "warmup") ~>
       (bench = "done" /\ \A i \in 1..(Len(levels) - 1) : ~levels[i].aborted)
=============================================================================
