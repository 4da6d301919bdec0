----------------------------- MODULE MultiEngine -----------------------------
(***************************************************************************)
(* clickhouse-vs-duckdb/multi_engine_correctness.py: counts are asked of      *)
(* engines that read the same Parquet file, and of a control, and compared    *)
(* with the generator's truth and with one another.  The engines in           *)
(* containers (server_engines.py, trino_runner.py) are started one after the  *)
(* other; a start that raises is recorded and its container removed; the end  *)
(* of the program removes the containers that did start, one after the other. *)
(* Whether docker removed one is never looked at.                            *)
(***************************************************************************)
EXTENDS Naturals, Sequences, FiniteSets, FiniteSetsExt, SequencesExt

CONSTANTS
  Readers,         \* the Parquet readers in the process, in order, DuckDB first
  Servers,         \* the servers asked for, in order
  Cells            \* the probes, a value and a predicate each

Control == "chdb_mergetree"

VARIABLES
  matrixPc,         \* "construct", "start", "discard", "matrix", "closing", "over"
  turn,             \* the server that is started, an index of Servers
  steps,            \* how many steps of its start have succeeded
  containers,       \* the containers that exist, by server
  kept,             \* the servers whose container stop() could not remove
  parquet_engines,  \* the engines that vote, in order
  started,          \* the servers the end of the program stops, in order
  stopped,          \* how many of them it has
  startup_errors,
  results           \* the answers of the cells done, by engine

matrixVars == <<matrixPc, turn, steps, containers, kept, parquet_engines, started,
                stopped, startup_errors, results>>

startVars == <<parquet_engines, started, startup_errors, results>>

\* After the container is run: what start() and query_fn() still do, each of
\* which can raise.  Feldera raises before it runs one.
StartSteps ==
  [clickhouse_server |-> <<"run", "ready", "client">>,
   starrocks         |-> <<"run", "ready">>,
   spark             |-> <<"run", "ready">>,
   postgres          |-> <<"run", "ready", "load">>,
   dremio            |-> <<"run", "http", "auth", "source", "promote">>,
   risingwave        |-> <<"run", "ready", "scan">>,
   trino             |-> <<"run", "ready", "table">>,
   feldera           |-> <<"unwired">>]

ASSUME MatrixAssumption ==
  /\ Servers \in Seq(STRING) /\ Readers \in Seq(STRING) /\ Cells \in Nat \ {0}

server == Servers[turn]

nextStep == StartSteps[server][steps + 1]

\* An interrupted run leaves its containers behind for the next one.
MatrixInit ==
  /\ matrixPc = "construct" /\ turn = 1 /\ steps = 0 /\ stopped = 0
  /\ containers \in SUBSET {s \in ToSet(Servers) : s # "feldera"} /\ kept = {}
  /\ parquet_engines = Readers /\ started = <<>> /\ startup_errors = {}
  /\ results = <<>>
-----------------------------------------------------------------------------
(* The starts *)

\* Every start begins with a docker rm of the container of that name, which may
\* fail like any other.
Construct ==
  /\ matrixPc = "construct" /\ turn <= Len(Servers)
  /\ matrixPc' = "start" /\ steps' = 0
  /\ containers' \in {containers, containers \ {server}}
  /\ UNCHANGED <<startVars, turn, kept, stopped>>

\* The constructor of Trino looks for a local image, before the try.
NoImage ==
  /\ matrixPc = "construct" /\ turn <= Len(Servers) /\ server = "trino"
  /\ matrixPc' = "closing"
  /\ UNCHANGED <<startVars, turn, steps, containers, kept, stopped>>

\* Not of two containers with one name.
StepOk ==
  /\ matrixPc = "start" /\ steps < Len(StartSteps[server])
  /\ nextStep # "unwired"
  /\ nextStep = "run" => server \notin containers
  /\ steps' = steps + 1
  /\ containers' = containers \cup {server}
  /\ UNCHANGED <<startVars, matrixPc, turn, kept, stopped>>

\* A docker run that fails, or is cut off, may have created the container.
MayHaveRun == {containers, IF nextStep = "run" THEN containers \cup {server} ELSE containers}

\* Mutant: a start that raised is recorded, and its container kept.
StepFails_Kept ==
  /\ matrixPc = "start" /\ steps < Len(StartSteps[server])
  /\ startup_errors' = startup_errors \cup {server}
  /\ containers' \in MayHaveRun
  /\ matrixPc' = "construct" /\ turn' = turn + 1
  /\ UNCHANGED <<steps, kept, stopped, parquet_engines, started, results>>

StepFails ==
  /\ matrixPc = "start" /\ steps < Len(StartSteps[server])
  /\ startup_errors' = startup_errors \cup {server}
  /\ containers' \in MayHaveRun
  /\ matrixPc' = "discard"
  /\ UNCHANGED <<turn, steps, kept, stopped, parquet_engines, started, results>>

\* stop(): docker rm -f, whose exit code is not looked at.
StopsContainer(s) ==
  \/ containers' = containers \ {s} /\ UNCHANGED kept
  \/ kept' = kept \cup {s} /\ UNCHANGED containers

\* A partially-started container must still be torn down.
Discard ==
  /\ matrixPc = "discard"
  /\ StopsContainer(server)
  /\ matrixPc' = "construct" /\ turn' = turn + 1
  /\ UNCHANGED <<startVars, steps, stopped>>

Register ==
  /\ matrixPc = "start" /\ steps = Len(StartSteps[server])
  /\ parquet_engines' = Append(parquet_engines, server)
  /\ started' = Append(started, server)
  /\ matrixPc' = "construct" /\ turn' = turn + 1
  /\ UNCHANGED <<steps, containers, kept, stopped, startup_errors, results>>

StartMatrix ==
  /\ matrixPc = "construct" /\ turn > Len(Servers)
  /\ matrixPc' = "matrix"
  /\ UNCHANGED <<startVars, turn, steps, containers, kept, stopped>>

\* A KeyboardInterrupt is no Exception: no handler stops the start it cuts off,
\* and the stop() of a failed one may be cut off as well.
Interrupt ==
  /\ matrixPc \in {"construct", "start", "discard", "matrix"}
  /\ matrixPc' = "closing"
  /\ \/ UNCHANGED containers
     \/ /\ matrixPc = "start" /\ steps < Len(StartSteps[server])
        /\ containers' \in MayHaveRun
     \/ matrixPc = "discard" /\ containers' = containers \ {server}
  /\ UNCHANGED <<startVars, turn, steps, kept, stopped>>

\* The end of the program stops the next of those that did start.
Stop ==
  /\ matrixPc = "closing" /\ stopped < Len(started)
  /\ stopped' = stopped + 1
  /\ StopsContainer(started[stopped'])
  /\ UNCHANGED <<startVars, matrixPc, turn, steps>>

\* An interrupt gets out of this loop too, and the rest are not stopped.
CutTeardown ==
  /\ matrixPc = "closing" /\ stopped < Len(started)
  /\ matrixPc' = "over"
  /\ containers' \in {containers, containers \ {started[stopped + 1]}}
  /\ UNCHANGED <<startVars, turn, steps, kept, stopped>>

Close ==
  /\ matrixPc = "closing" /\ stopped = Len(started)
  /\ matrixPc' = "over"
  /\ UNCHANGED <<startVars, turn, steps, containers, kept, stopped>>
-----------------------------------------------------------------------------
(* The matrix *)

engines == ToSet(parquet_engines) \cup {Control}

\* The answer of an engine: the truth, a count that is too low, or an error.
Cell ==
  /\ matrixPc = "matrix" /\ Len(results) < Cells
  /\ \E answers \in [engines -> {"truth", "less", "error"}] :
       results' = Append(results, answers)
  /\ UNCHANGED <<matrixPc, turn, steps, containers, kept, parquet_engines, started, stopped,
                 startup_errors>>

MatrixDone ==
  /\ matrixPc = "matrix" /\ Len(results) = Cells
  /\ matrixPc' = "closing"
  /\ UNCHANGED <<startVars, turn, steps, containers, kept, stopped>>

MatrixNext ==
  \/ Construct \/ NoImage \/ StepOk \/ StepFails \/ Discard \/ Register \/ StartMatrix
  \/ Interrupt \/ Stop \/ CutTeardown \/ Close \/ Cell \/ MatrixDone

vote(answers, i) == answers[parquet_engines[i]]

\* The places of parquet_engines that have an answer.
votes(answers) == {i \in DOMAIN parquet_engines : vote(answers, i) # "error"}

Tally(answers, a) == Cardinality({i \in votes(answers) : vote(answers, i) = a})

\* Counter.most_common: of the answers with the most votes the one seen first.
consensus(answers) ==
  LET most == {i \in votes(answers) : \A j \in votes(answers) :
                 Tally(answers, vote(answers, j)) <= Tally(answers, vote(answers, i))}
  IN  IF votes(answers) = {} THEN "none" ELSE vote(answers, Min(most))

unanimous(answers) == \A i, j \in votes(answers) : vote(answers, i) = vote(answers, j)

ambiguous(answers) ==
  /\ ~unanimous(answers)
  /\ 2 * Tally(answers, consensus(answers)) <= Cardinality(votes(answers))

failers == {e \in ToSet(parquet_engines) : \E i \in DOMAIN results : results[i][e] = "less"}

any_div == \E i \in DOMAIN results : ~unanimous(results[i])
any_amb == \E i \in DOMAIN results : ambiguous(results[i])

\* Reported as "cross-engine catches every divergence without truth".
catches == any_div /\ ~any_amb

MatrixReported == matrixPc = "closing" /\ Len(results) = Cells
-----------------------------------------------------------------------------
(* A container that is there at the end, one of an earlier run included, is     *)
(* one that docker did not remove when stop() asked it to, or of a server that *)
(* the teardown did not reach for an interrupt, or of the server whose turn it *)
(* was, or those after it, when an interrupt or a missing Trino image came:    *)
(* no start that raised leaves one, whichever of its steps it was.  And of a   *)
(* reported matrix every server asked for was started or is unavailable.      *)
TornDown ==
  /\ matrixPc = "over" =>
       \A s \in containers :
         \/ s \in kept
         \/ \E i \in (stopped + 1)..Len(started) : s = started[i]
         \/ \E i \in turn..Len(Servers) : s = Servers[i]
  /\ MatrixReported => ToSet(Servers) = startup_errors \cup ToSet(started)

(* What the report says of a comparison without a generator: if in each cell   *)
(* the right votes outnumber the wrong ones, then no split is ambiguous, the   *)
(* consensus finds exactly the engines that the ground truth finds, and the    *)
(* comparison is said to catch them if there are any.                        *)
MajorityFindsFailers ==
  (/\ MatrixReported
   /\ \A i \in DOMAIN results : Tally(results[i], "less") < Tally(results[i], "truth")) =>
     /\ failers = {e \in ToSet(parquet_engines) : \E i \in DOMAIN results :
                     results[i][e] \notin {"error", consensus(results[i])}}
     /\ catches <=> failers # {}

(* The engine matrix removes the container of every server it is done with as   *)
(* far as docker does, and the comparison without a generator finds what the   *)
(* truth finds wherever the right answers outnumber the wrong ones.          *)
Matrix == TornDown /\ MajorityFindsFailers
=============================================================================
