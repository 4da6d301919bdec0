# Formal models of sdw-lab-benchmarks

This directory holds TLA+ models of the parts of the repository whose published
results rest on more than one statement and its timing. They are of two kinds.

- **Protocols**: programs that share files, topics, tables or counters, are
  killed and restarted in mid-run, wait for one another or give up waiting
  ("30/30 alerts, 0 duplicates").
- **Rules**: functions whose answer is published as a fact about something else:
  a merge, a router, a pruning test, a scorer, a planted attack chain.

TLC checks the models on small instances; the TLA+ proof system proves the
safety properties of the protocols, those of the stream-complexity arms, of the
load generator and of all eight benches that keep state, and of four of the rules,
for every corpus, every number of kills and every bound.

The rest of the repository is one-client benchmarks that issue a fixed sequence
of statements to an engine and time it. They are listed below with the reason
they are left out.

Contents: [inventory](#1-inventory) · [modules](#2-modules) ·
[correspondence](#3-how-state-and-actions-correspond-to-the-code) ·
[runs](#4-runs) · [fairness](#5-fairness) · [proofs](#6-proofs) ·
[divergences](#7-where-code-and-documents-disagree) ·
[not modelled](#8-what-is-not-modelled) · [plan](#9-plan)

## 1. Inventory

### stream-complexity/: one detection, four arms, nine faults

One corpus of login events is replayed on a scaled clock into several arms. All
of them must raise the same alerts: one per (user, src_ip) with at least
`FAILURE_THRESHOLD` failures in an epoch-aligned window of `WINDOW_SECONDS`.
`compare_answers.py` then compares each arm's output file with a ground truth
computed without any engine: no alert missing, none extra, none twice.

| part | state it keeps | operations | talks to |
|---|---|---|---|
| corpus, ground truth (`gen_corpus.py`) | `events.jsonl`, `ground_truth.json` | one pass, before the trial | everything, by file |
| lander (`batch/land_microbatches.py`, `v2/land_faulty.py`) | position in the corpus; timer threads for B2 and B3 | land the next window's file by rename; hold one back; write one truncated and replace it | batch job, by directory |
| batch job (`batch/batch_job.py`) | state file (last window, seen keys), alerts file, memory | per tick: list, query, append and fsync each alert, save the state by rename; idle exit | directory, two files |
| restart and kill scripts (`v2/faults_v2.py`, `faults/*.sh`, container policy) | - | SIGKILL, manual restart, restart on failure | processes |
| producer (`streaming/producer.py`) | client queue, delivery-error count | produce on the clock, poll, flush, exit | topic `smx-auth` |
| broker | two topics, group offsets | append, acknowledge, die, come back | producer, job, consumer |
| Flink job (`streaming/flink_job.sql`) | source offset, window counts, watermark, checkpoint | consume, fire windows, write alerts, checkpoint, restore | both topics |
| consumer (`streaming/consume_alerts.py`) | state file, alerts file, group offset | poll, deduplicate, append and fsync, save, commit, exit on the stop file | topic `smx-alerts` |
| replayer (`feldera/replay_http.py`) | bucket position, `last_acked`, state file, rewinds | POST a second of events, pause on failure, resume at a rewind point | pipeline by HTTP, operator by control file |
| pipeline (`feldera/detection.sql`) | window counts, waterline, unread output | ingest, advance the waterline, emit; forgets everything when killed | replayer, drain |
| drain (`feldera/drain_alerts.py`) | connection count, seen keys, alerts file | connect, read, deduplicate, append and fsync, exit on the stop file | pipeline, operator by state file |
| recovery (`faults/recover_f1.sh`, `_feldera_restart_pipeline.sh`) | where the script is | restart the pipeline, wait for the drain to attach, write the rewind point | all three |
| freshness trial (`freshness/*`) | per directory: files and end marker; per replica: last file, seen rows, two output files | land spans of windows; poll with two detections; exit after the marker | directory |

What is hard here: a kill between the fsync'd append of an alert and the save
of the state; a directory that changes between listing and reading; an idle
exit that races the replay; a restored job whose offset, counts and watermark
must belong together; delivery callbacks that report late or never; a recovery
whose four participants learn of each other through two JSON files and a 30 s
hold.

What makes it correct, for every arm: the file only ever holds expected alerts,
each once, and when the arm ends by itself all it owes are there. That is the
specification `AlertArm`; the rest of the properties say why each arm keeps it.

### workload-interference/: open-loop load ladder

`run.py` raises a stream of hunt queries step by step while a probe measures the
query under test. A scheduler thread fires at fixed intervals; each query is a
thread; a fire beyond `OUTSTANDING_CAP` in flight is counted as backlog and not
sent. After each measured window the step is judged by a stop rule; the first
step with a stop reason is the knee and one more step is run. State: the
counters of `SharedState` under one lock, the probe's record, the ladder. Hard:
a worker counts its result and gives its place back in two critical sections;
queries may never return; threads of the warm-in outlive it. Correct: each fire
is accounted for once, the cap holds, the knee is the first stop, the sweep ends.

### Benches with a protocol

| program | state it keeps | what is hard | what makes it correct |
|---|---|---|---|
| resumable mapping run (`ocsf-mapping-oracle/run_gemma4_full.py`) | append-only JSONL checkpoint, an aggregate replaced by rename | a kill tears a line and the next run writes on it | a condition is called complete only with an answer for every item; resuming is cheap |
| catalog contention (`ocsf-catalog-contention/run.py`) | a table, attempts per commit, error and retry counts | a commit that took effect and still reports an error | what the trial reports can be told from the table |
| closed-loop bench (`concurrency-multiuser/`) | client threads, barrier, window, memory floor | queries that never return, connects that fail at the barrier | once warm, the sweep ends; completions after the stop are bounded |
| ingest harness (`sdpp-ingest-throughput/run.py`) | output file or read offset of a daemon, retries | a daemon has to be seen to finish, or crashes, or hangs | what is accepted of an engine that lives is a whole trial; every row ends |
| tiered tables (`bench-d-tiered-realization/`) | hot table, warm snapshots, watermark, view | a reader between two steps of the hand-off of a day | a reader sees each row once, outside one known gap |
| engine matrix (`clickhouse-vs-duckdb/multi_engine_correctness.py`) | containers that run, votes of a cell | a start that fails at any step, a removal that fails, an interrupt | a container that stays has a reason; the vote finds what the truth finds |
| path search (`security-context-graph/scg_mcp.py`) | a stack, results, a budget shared by all branches | stops on budget or limit in the middle | what is found is real; all of it is found if no bound was met |
| linker (`ocsf-data-health/run.py`, identity) | a label per record | propagation for a bounded number of rounds | the clusters are the connected components |

### Benches that are rules

| program | what is published | what could be wrong |
|---|---|---|
| asset merge (`ocsf-data-health/run.py`, assets) | the gap between weighted and naive merge, its insensitivity to the half-life | order of decay and bonus, ties |
| router (`deterministic-routing-sim/route_sim.py`) | the native engine never gets a join it cannot finish | order of the rules, views that hide joins |
| Z-order (`ocsf-zorder-pruning/run.py`) | how many row groups a layout prunes | a group pruned that holds an answer |
| context graph (`security-context-graph/scg.py`) | reach figures of the layers | figures counted on the rows beside a graph of edges; the first loader to name a node decides its type |
| normalization scorer (`pipeline-normalization-fidelity/`) | the fidelity of tools against a gold key | denominators: absent fields, shared homes, nested objects |
| detection corpora (`ocsf-sigma-detection/`) | alerts a rule adds or loses without its window or in a schedule | bucket arithmetic with a phase, edges of windows |
| context collapse (`bench-a-context-collapse/`, `ocsf-semantic-testbed/generate.py`) | what a coarse store costs, by query and by coarseness | which knob costs what; background that looks like the chain |

Not modelled: the other detection and mapping scorers, the DuckLake
reproductions, write-path, query and format benches, correctness matrices of
third-party libraries, measurements, catalog dry run, notebooks, shared library and
charts. Section 8 says why.

`PROJECT.json` repeats the list with the sources of each, and lists the hazards,
each at the line of the code where it bites and with the properties that would
catch it.

## 2. Modules

    Detection          the detection, its windows and the ground truth
    AnswerGate         compare_answers.py
      AlertArm         what every arm promises (abstract), and the proof that
                       a file that keeps the promise passes the gate

    MicroBatchDir      directory and state file
      Lander, BatchJob     one process each
        BatchArm           composed, with kills, restarts, pacing
          MC_BatchArm, BatchArm_proofs

    Kafka              the two topics and the broker       (external)
      Producer, FlinkJob, AlertConsumer
        StreamArm          composed, with faults S1, S2 and the runner's watch
          MC_StreamArm, StreamArm_proofs

    FelderaPipeline    the pipeline                        (external)
      Replayer, Drain
        FelderaArm         composed, with F1, F2 and the recovery scripts
          MC_FelderaArm, FelderaArm_proofs

    FreshArm           landers and replicas of the freshness trial
      MC_FreshArm, FreshArm_proofs

    ScheduledLoad      scheduler, workers, their counters
      InterferenceArm      windows, joins, probe, stop rule, knee

    DetectionLemmas    facts about Detection the proofs share

    MC_Benches         the programs below, side by side
      MappingRun, CatalogContention, ClosedLoop, IngestHarness,
      TieredTables, MultiEngine, ContextPaths, IdentityMerge
      AssuranceGap, Routing, ContextGraph, ZOrder, NormScore,
      SigmaWindows, ContextCollapse      (no state but the input drawn)

    Trials_proofs      what runs against an engine, each for itself: InterferenceArm,
                       MappingRun, CatalogContention, ClosedLoop, IngestHarness
                       and MultiEngine; before them induction, least elements, sums
      Benches_proofs   TieredTables, ContextPaths, ContextGraph, IdentityMerge,
                       AssuranceGap, Routing, ZOrder, NormScore and SigmaWindows,
                       each for itself

A component module declares its variables and one action per operation; it says
nothing of the others' variables except those it shares. A composing module
adds what is between the processes (kills, restarts, scripts, time), frames
each action with `UNCHANGED`, and states the properties. `BatchArm`, `StreamArm`
and `FelderaArm` each hold an `INSTANCE` of `AlertArm`, named `Promise`, with a
refinement mapping: the arm's alerts file is `output`, its own exit is `closed`.

Definitions whose name has a suffix after the name of another
(`Save_BeforeAppend`, `rewind_point_NoLateness`) are mutants: plausible bugs of
the definition that follows them, kept because each property is known to fail
when its mutant is put in. They take part in no specification. They are
listed in `PROJECT.json`.

The MC modules define corpora and instances. `InterferenceArm` is checked
directly: its constants are numbers. The bench programs share nothing, so
`MC_Benches` puts them side by side rather than composing them: a behaviour has a
*subject*, and the program of that name takes its steps while the
others stay where they start. A rule that only computes draws its input
(`GapNext`, `RoutingNext`, `GraphNext`, `ZOrderNext`, `ScoreNext`, `PlantedNext`,
`CollapseNext`) and its property is evaluated on it; those programs treat one asset, query,
source or user after another and keep nothing between them. One run covers them all.

## 3. How state and actions correspond to the code

`PROJECT.json` maps every definition to its lines. This section says what was
abstracted.

**Corpus.** An event is a record of id, pair, time and status; `pair` stands for
(user, src_ip), which the code only groups by. Event times are small integers,
windows are `time \div WINDOW_SECONDS` as in the code. Alerts are identified by
`<<pair, window>>`, the dedup key of all the arms.

**Batch arm.** A tick of `batch_job.py` is split wherever the process can be
killed or the lander can act: `List` (chooses the files), `Scan` (reads them *as
they are then*), `Emit(k)` (append, flush, fsync, remember one alert), `Save`
(rename of the state file together with the end of the tick). `IdleTick` is the
branch with no new file and the drain test. `ScanFails` is `read_parquet` on a
truncated file, which nothing catches. `Kill` keeps both files and forgets the
memory; `Start` is `main` up to the loop with both ways the seen keys are read
back. Rename and fsync'd append are atomic: the code uses `os.replace` and one
short write followed by `fsync`. A state file is therefore old or new, never
torn.

`Spill` files an event one window late. The landers never do; the docstring of
`batch_job.py` gives such rows as the reason for the look-back, and the model
contains them so that the look-back has something to do. `HoldWindow` and
`TruncateWindow` are faults B2 and B3 (0: none). `max_gap` relates the two
clocks: at most so many ticks fall between two files. It is the ratio of landing
interval to poll interval, 1 for the 20x replay and 12 for the 1x replay.

**Streaming arm.** `Producer` keeps the client's queue: `Produce`, `QueueFull`
(`BufferError`, which ends the process), `Deliver` (append and acknowledge),
`Expire` (the delivery callback with an error), `Flush` and `Finish` (the final
`flush(30)`, whose result is dropped). The client is not idempotent, so a broker
that dies (`KillBroker`) may have appended a prefix of what it did not
acknowledge: which one is a free choice. `FlinkJob` is modelled from the SQL and
the submit script: one partition, bounded lateness, tumbling window, threshold,
at-least-once sink flushed at a checkpoint. `RestoreJob` takes offset, counts and
watermark from the last checkpoint. `AlertConsumer` keeps what was fetched, the
file, the state file and the committed offset apart, so that a kill can fall
between any two of them; `Commit` is the client's own, at any moment.

**Feldera arm.** A POST is three steps: sent (`Post`), taken by the pipeline
(`Accept`), answered (`Ack`); a kill can fall between each. `AdvanceWaterline`
closes windows and puts rows on the wire; `Handle(k)` reads, deduplicates and
appends; `Disconnect` loses what was on the wire, as the drain's reconnect does.
The recovery script is a process with the steps `StartRecovery`,
`RestartPipeline`, `WaitAttached`, `WriteControl`.

**Freshness trial.** Landers put `Span` windows in a file (1 and 5 in the
trial, 1 and 2 in the run) and touch an end marker; a replica wakes at any moment, reads the marker
*before* it lists, runs both detections over the same files, appends, advances.
Poll intervals and phases are thereby covered: any schedule of ticks is a
behaviour. Two detections are kept apart because their files end separately.

**Load generator.** `ScheduledLoad` has one action per critical section of the
lock: `Intend`, `Send`, `BackUp`, `Sample` of the scheduler, `Answer`, `Fail`,
`Leave` of the workers. `InterferenceArm` is the main thread. Times become
what the stop rule reads: whether the 95th percentile of the probe is over 30 s
and whether utilisation is at least 1 are free choices within what the counts
allow. `Joined` may happen at any time, since a join ends with its threads or
with its deadline. Threads that outlive their join leave the model: the next
window has new counters and they touch only the old ones.

**Mapping run.** `ckpt` is the file: whole lines, torn lines, and whether the
last one lacks its newline, so that `KillInWrite` can leave a prefix and the next
`Answer` be glued to it. `load_done` drops what does not parse. An answer is one of
what `classify` tells apart.

**Contention.** A writer holds the table state it loaded; `Commit`, `Conflict`,
`Refused` (failed before it took effect) and `LateError` (after) are the outcomes
of an attempt, `Retry` the loop around it; an Iceberg writer loads the table again
there, or fails to (`RetryUnloaded`) and tries with the old one.

**Closed loop.** The lists that clients append to are counters; `EndWindow` reads the
clock and `SetStop`, the next statement, sets the event, with the clients running between
them; `Straggle` is a thread that answers after the join gave up, which the report must
not read.

**Ingest harness.** The three ways to see the end are the three poll actions
(`PollFile`, `PollOffset`, `PollDrain`); the engine reads and writes by itself
between polls, may stop with rows unwritten, and storage left over from the
trial before is part of the state of `StartIngest`.

**Tiered tables.** A table is the number of rows of each day. `conn_all_view` is what
a reader of the view gets; the invariant evaluates it in every state, hence
between any two steps of the hand-off. The overlap probe is computed with the
contracts it compares.

**Engine matrix.** A start raises at any of its steps, with or without a container
left behind, and `Discard` is its handler. The loop of `stop()` calls at the end is one
`Stop` per server; docker may fail to remove any container, which nothing looks at
(`kept`). An interrupt comes at any step, in the handler and in that loop as well
(`CutTeardown`). A cell is the tuple of answers, each the truth, too low, or an error.

**Context graph.** The loaders of `scg.py` are operators from graph to graph,
applied in the order of `main`; `ContextPaths` steps through the search one
expansion at a time over the edges a small crosswalk gives. The adjacency drops
an edge that repeats another, and its hops keep their direction, as in the code: an edge
and its reverse between the same nodes are two hops and make two chains. The base of a
technique is an attribute: a technique and its sub-technique have no edge between them,
and `Chains` has none. Tactic nodes and the edges of the other
frameworks are left out; no figure reads them.

**Identities.** A record is a person and a tool's rank, and `node_id` numbers them so
that a number tells both; ids of the code follow tool, then person. Only the order
of the records of one component matters to propagation, and that component
is one person's. An estate is what the draws of the generator decide for each person;
which of them it can draw is `Possible`.

**Rules.** Confidences and decay are integers (per cent, per mille) with a table
for the powers of two, so that a tie is a tie. An asset's readings have the ages their
draws range over (`Assets`): the proof is for all of them, the run draws the ends. The
rows of the pruning corpus have the columns of the predicates but one of Q3. A query of the router is what its
rules read of it. A leaf of an event is a path and the source field its value
comes from. Times of the detection corpora and of the chain are seconds as in the
code; of a random offset its extremes are drawn, and of the background of the chain
the connections that can be taken for it.

## 4. Runs

All runs are exhaustive. The figures are distinct states.

| run | configuration | states | what it asks |
|---|---|---|---|
| `batch_faults` | `BatchArm_faults` | 1,958 | B2 and B3 together, under the container's restart policy, which restarts at once into the same truncated file; up to 3 SIGKILLs at any step; split rows. Nothing duplicate, false or lost; `SavedMeansAlerted`, `NeverReadsBehindState`, `DrainedComplete` say why; the arm implements `AlertArm` and drains. |
| `batch_late_file` | `BatchArm_latefile` | violated | B2 without operator: divergence 1 of section 7. |
| `stream_restore` | `StreamArm_restore` | 378,665 | S2, 2 kills of the taskmanager at any moment of the replay, a checkpoint at any moment, a SIGKILL of the consumer at any step, a runner that may stop early, an idle timeout that may run out. Counts, offset and watermark stay of one piece; no checkpoint is ahead of the alerts topic; the arm implements `AlertArm`, so nothing is written twice or false; it drains. |
| `stream_outage` | `StreamArm_outage` | 1,834,192 | S1 and S2 in one run; the outage may expire messages or fill the queue. No gap in the topic without a delivery error; complete if the corpus got through. |
| `stream_retried` | `StreamArm_retried` | violated | Divergence 2. |
| `feldera_rewind` | `FelderaArm_rewind` | 17,016 | F1/F2, 2 kills, also in the middle of a POST, and a second one after a recovery. Each incarnation is fed whole windows; only alerts of closed windows can be lost; nothing false or twice; the arm ends. |
| `feldera_unread` | `FelderaArm_unread` | violated | Divergence 3. |
| `interference_sweep` | `InterferenceArm_sweep` | 214,428 | 3 ladder steps, 3 fires each, queries that answer, fail in two ways or hang. Accounting, cap, knee, end. |
| `interference_strikes` | `InterferenceArm_strikes` | violated | Divergence 4. |
| `fresh_trial` | `FreshArm_trial` | 26,496 | A replica on each of two landers with different spans. Both detections complete and free of duplicates at exit; nothing waits more than a tick; every replica exits. |
| `benches` | `Benches` | 427,440 | The fifteen bench models, each for itself (below). |
| `benches_gap` | `Benches_gap` | violated | Divergence 5. |

`benches` asks, by property:

| property | subject | holds that |
|---|---|---|
| `Resumption` | mapping run | complete means all, for up to 2 kills in or between lines; resuming costs at most two requests per kill |
| `TrialFigures` | contention | lost and duplicate batches are within the reported errors; retries within the commits of others and the faults |
| `OvershootIsBounded` | closed loop | of the completions counted in `qps`, at most one per client is later than the stop event |
| `AcceptedMeansFinished` | ingest harness | a trial that is kept read the whole corpus, itself, and wrote all survivors in file mode, if its engine did not die; if it did, it is a daemon's, and wrote nothing twice |
| `ProgramsEnd` | both | the sweep ends once the warm-up has returned, though queries hang, unless a connect never returns; the row ends, though engines crash or hang |
| `OneWatermark` | tiered tables | a reader sees each row once between any two steps, except that the day handed off is missing from its delete until the view is created again; the probe tells the contracts apart |
| `Matrix` | engine matrix | a container that stays was not removed by docker when asked, or was not reached by a teardown that an interrupt cut off, or is of a server whose turn was not over, or not yet come, when an interrupt or a missing image ended the starts; with a right majority the vote finds the failers |
| `PathsExact` | path search | chains are real; all are found if neither budget nor limit was met |
| `Identity`, `Gap` | data health | components are exact; the half-life changes no merge, whatever the ages of the readings |
| `Cliff`, `Pruning`, `Graph`, `Scorer` | rules | no join of five tables on the engine that cannot, and the hot tier only for a boundary that is static and recent, in whichever direction; no pruned group holds an answer; reach figures leave out no chain of edges, and agree; the key scores itself in full and any lost leaf is seen |
| `Planted` | detection corpora | what is planted is flagged as planned; schedules are ordered; the sequence rule errs on whole populations |
| `Collapse` | context collapse | the faithful store loses only what the background confuses, the coarse one exactly what its knobs cut |

**Why the bounds are enough.** The batch corpus has eleven events, five windows
with a gap between them, two pairs, three alerts, a near miss of one pair
between two of its alerts and next to one of the other, and rows split over files: each branch of the
look-back, with and without a predecessor, is taken. Three kills allow a kill of
a job that was itself restarted after a kill. `WINDOW_SECONDS` and
`FAILURE_THRESHOLD` of 2 are the least with a near miss and a window of more
than one instant. The stream and Feldera corpora add a lateness of 1 in windows of
3, the least where an open window is not the newest, and a pair that is one short
in one window and alerts in the next. Two kills suffice to restore from a
checkpoint taken after a restore. A queue of 2 or 3 for six events fills and
empties. A cap of 2 with three fires gives both a second query in flight and a
fire beyond the cap; three levels are the least where the knee may be first,
middle or last. In the freshness run two replicas of one directory are omitted:
they share nothing but files they only read. 
In `benches`, the mapping run has two items under two conditions and 2 kills: a torn
line in the first condition, one in the second, or a torn line after a torn line. Two
writers with two commits each, two attempts and two faults give each outcome of an
attempt after each other one. Levels of one and then two clients let one of two leave the
barrier to the other, and a level follow one that was aborted. A corpus of three events with one dropped, two trials, a
warm-up and one retry let a stale offset, a crash in the warm-up and one in the last
trial happen. Four days, one of them empty, against hot windows shorter and longer
than the replay. Two people with every conflict of keys the generator can draw. Of the assets, 660: every kind,
each age at the ends of its range, all as fresh or as old as they may be and one against the other, and scans
on both sides of the seventh day; the decay tables are the powers of two for each day.
Two-bit coordinates and four rows give every order of two row groups. The
crosswalks hold one entry of each kind the loaders distinguish. One reader and three
servers, one of which never starts, hold a majority, a tie and a lone dissenter. Two records per source are the
least where one is incomplete and the denominators differ; the first counts once, or 1332 times, which
brings a source of fifteen fields just below the 20000 where one field in four digits
rounds away. Bursts lie in the first, a middle and the last window of a week with each number of
failures at its early end; decoys have each stretch of failures late in its slot; hosts have the extremes
of their draws. The other rules have no bound:
their inputs are all the cases the code can tell apart at the edges of its
windows. The proofs of section 6 remove the bounds altogether: for the arms, the
freshness trial, the load generator, the benches that keep state, and of the rules for all
but the context collapse.

**Assumptions that are constants.** Four parameters stand for time, and each is
named in the properties that need it.

- `Patient` (batch): the idle limit exceeds the longest pause between files,
  `max_gap` ticks, twice that around a held window. The runner uses a 5 s poll
  and 6 idle ticks, which satisfies it at 20x (`max_gap` 1); at 1x (`max_gap`
  12) it would not. `DrainedComplete` and the `Close` of the promise need it.
- `Prompt` (stream): three equal samples, 15 s apart, of the end of `smx-alerts`
  mean that the job is done. `stream_restore` runs with it FALSE, and with an idle
  timeout of the consumer that may run out (`IdleTimeout`), as in the first fault
  runner; the runners of the second version set it beyond the run.
- `Timely` (Feldera): the 30 s hold outlasts the replayer's notice of the dead
  pipeline, and the scripts' bounded waits end with what they wait for.
- `Closing`: the last event lies past the end and the lateness of every alert's
  window. It is what `gen_corpus._windows_available` arranges by planting
  nothing in the last two windows; without it no engine could close them.

Kills of broker and taskmanager happen in mid-replay, where the runner places
them; kills of batch job and consumer at any step. Deadlock is checked in every
run but those of the benches, whose programs end: each composing module has a
`Finished` step for the state in which the trial is over, and no other state may be
without successor.

## 5. Fairness

Fairness is weak, and only of what a running machine does by itself.

- Batch: the replay clock advances, the timer threads of B2 and B3 run, the poll
  loop wakes, a dead job is restarted by operator or policy. A kill need never
  happen.
- Stream: producer, job and consumer take steps, what was killed is recovered,
  the runner writes the stop file when its condition holds. The consumer's reads
  and its exit are separate, since it polls again before it looks at the stop
  file. Checkpoints and commits need not happen.
- Feldera: replayer, pipeline, drain, operator, stop and exit.
- Freshness: each lander and each replica on its own, since they are processes.
- Benches: the closed loop's main thread and the clients' own code, but not the
  warm-up, which the main thread runs without a deadline, nor a connect or a query; the ingest harness's polls and deadlines, and an engine that reads or
  writes while it is neither broken nor done (`Breaks` may always come first).
- Interference: scheduler and main thread only. Nothing is assumed of the
  engine: `ArmEnds` holds with queries that never return.

## 6. Proofs

47 theorems in seven modules and the lemmas they rest on (393, some in an eighth), 16,747
proof obligations, all proved from the `ASSUME`s on the constants. Each arm and
each bench has an inductive invariant made of named parts, and its theorems
follow from the invariant. What a
property needs of time (`Patient`, `Prompt`, `Timely`) is inside the property, or a
hypothesis of the theorem; hypotheses of a theorem are named below.

The assumptions are those TLC evaluates in every run: a finite corpus, positive widths and
thresholds, natural numbers as bounds. Beyond that: event ids are natural
numbers and break ties of time (`gen_corpus.py:212`); no event lies before the lateness, which says only
that the clock's zero is early enough; the items of the mapping run are distinct, being the
keys of a dictionary; edges and searches are what `paths` is given (hops, limit and
budget are natural numbers, trusts are integers); people are natural numbers, and labels
are propagated for at least three rounds (40 in the code): a person has at most four
records, which three links join; a decay factor is at most one, one for a reading
of today, at least a half after a day, and does not grow with age; queries are what the rules read of them, with any tables and any number of
joins; no entry of the ontology is named like a field, a page or the class, since
those ids have prefixes of their own; rows of the pruning corpus have natural values; users and
hosts of the detection corpora are drawn from the ranges their generators give; and a gold key
holds together (`NormAssumption`): no home is a catch-all or on the way to another leaf, two
fields that share a home share a value, and the probes ask for what is mapped. No document
states the last; a faithful mapping exists only for such keys, and the four generators keep it, as TLC's
evaluation of the assumption on their keys shows.

**Batch arm** (`BatchArm_proofs`). None of the safety properties is inductive by
itself. `IInv` strengthens them by parts, and each part is
proved in terms of the ones before it:

1. `TypeOK`.
2. `AlertsInv`: a running job's `seen_keys` is exactly the content of its alerts
   file, and `pending` is disjoint from it. The saved keys may lag behind, which
   is why `Load` must read the file as well. With `QuerySound` (a query over some
   files counts at most what the corpus holds, each row once) this gives
   `NoDuplicates` and `NoFalseAlerts`.
3. `LanderInv`: files appear in window order, except the held one, which is not
   released before the saved window is two past it.
4. `CandidateInv`: a tick has opened nothing older than the saved window, leaves
   no gap above it, and includes the saved window if its successor is new. This
   rests on 3 and is `LookbackIsOneBoundary`; it is also why a late file is never read.
5. `OwedInv`: if all files of an owed alert are at or below what is saved, the
   alert is on disk; in mid-tick, if they are at or below what is being read, it is on
   disk or in `pending`. The look-back enters here (`ScanFindsOwed`): an alert's
   rows span at most two adjacent files, so either both were opened together or
   the first was the saved window. This gives `NothingLostBySaving`.
6. `DrainInv`: the idle counter never runs ahead of the landing clock, so an exit
   means that all files are saved. With 5: `DrainsComplete`.

`Inductive` states `IInv` itself.
`BatchImplementsArm` shows that each step of the arm is an `Alert`, a `Close` or
a stutter of `AlertArm`, and `PromisePassesGate` in `AlertArm` that a behaviour of `AlertArm`
passes the gate when it closes and never shows more than a missing alert before.
Here `Patient` is a hypothesis of the theorem.

**Stream arm** (`StreamArm_proofs`). The parts of `IInv` follow the data:

1. `TypeOK`, `KillsType`. The window counts are bounded by the job's offset, so
   the job cannot count more than the topic holds, however often it is restored.
2. `ProducerInv`: what is in the topic or the queue has been read from the file,
   the queue is in file order, and without a delivery error nothing read is missing from both.
3. `LogInv`: the *first* occurrences in the topic are in file order, whatever was
   sent again after the broker died. This is `TopicHasNoGap`. `OnceInv`: if the broker
   is left alone, each event is there once.
4. `JobInv`: a state of the window operator (`Fits`) is what its offset says: the
   watermark comes from an event before it, each open window counts at least the
   failures before it, and exactly those if nothing was sent twice. It is stated
   of the running job *and* of the checkpoint, so that `RestoreJob` has nothing to
   prove: `CountsFollowOffset`.
5. `FiredInv`: an alert whose window is closed is in `smx-alerts` or in the sink's
   buffer, and if closed in the checkpoint, in `smx-alerts`, unless an event of it
   was lost. That `LogInv` holds is what makes closing it safe: an event that comes after the
   watermark has passed its window can only be a copy. With it: `CheckpointNeverAhead`,
   under the hypothesis that no delivery error was reported (with one, the count may
   never be reached, and the property is false).
6. `EndInv`: a taskmanager is killed before the end of the corpus is in the topic,
   so a job that has read the end knows its time and closes every window.
7. `ConsumerInv`: the memory of a running consumer is its file, and the saved keys are
   among those of the file: `EachAlertOnce`, whatever is killed. `StopInv`: who stopped in time
   stopped after all work. With 6: `EndsComplete`.

`StreamImplementsArm` has the hypothesis `MaxBrokerKills = 0`. It is needed: divergence
2 is a behaviour with a broker kill in which a near miss alerts.

**Feldera arm** (`FelderaArm_proofs`). `ReplayInv`: buckets are worked through in
order, and the one last acknowledged is before what is left or before the failure of a
rewind. `PipeInv`: a killed pipeline has nothing and is given nothing before the
rewind; no window counts more than was sent of it. `DrainInv`: memory and file are
the same, each alert once, all of them expected. `ScriptInv`: the script runs only while
the replayer waits, and the drain is back before the rewind point is written. `FeedInv` is the heart:
while the pipeline is fed, each open window counts all that was sent of it, or it ends
before all that is left and counts nothing; and each
alert is in the file, on the wire, still to come from an open window, or was closed
before a rewind (`Evidence`). It is re-established by `WriteControl`, where
`rewind_point` cuts no open window in two: an argument on multiples of the window
length, for any length and lateness. Theorems: `Inductive`, `TypeCorrect`,
`WindowsFedWhole`, `OnlyClosedWindowsLost`, `FelderaImplementsArm`.

**Freshness trial** (`FreshArm_proofs`). The invariant has a part for each lander
(files appear in order, the marker means all of them) and for each replica
(written rows are the seen ones; what is listed has no gap above `last`; what was
listed is reported; a marker seen means that the listing is final). The marker's
part is what makes reading it before the listing sufficient. Theorems: `Inductive`,
`ExitMeansGate`, `NothingWaits`, `EachRowOnce`, and `NoCoarseLookback`, which
rests on a lemma of integer arithmetic: multiples of a span greater than 1 are
never neighbours. `SameFile` and `Coarser` show that a window's rows share a file
for every span, so an alert is never split there.

**Load generator** (`Trials_proofs`). `LoadInv` relates the counters
(queries in flight, those that have counted their result and not left, peak,
backlog) and is preserved by every critical section: `LoadCounters`,
`FiresAccounted`, `UtilizationImpliesCap`. `LadderInv` ties knee, ladder and
steps past the knee: `KneeIsFirst`.

**Benches** (`Trials_proofs` and `Benches_proofs`). Eight programs and six rules that draw their input, each from
its own `Init` and `Next`:

- `MappingResumes`. What is paid for each request: a key that can be read in the
  checkpoint, or a kill, which pays for two. What a torn end will still cost (`Owed`: the
  record torn, and the record the next run writes onto it) is put aside, so that
  `asked + Owed <= readable keys + 2 * kills` is kept by every step. "Complete means
  all" follows from `DoneInv`: a running process has answered every item of the
  conditions before the current one.
- `TrialFiguresHold`. Two ghost accounts, neither of them in the code: `own` and
  `f` split the version and the faults between the writers, and each writer's retries,
  own commits and the retry it already owes for a stale table are within the version
  and its faults. Summed over the writers this is the bound on retries. The `Ledger`
  gives each batch its late commits and says which batches were given up; the number of those
  is the errors.
- `OneWatermarkHolds`. `Lifecycle` says at each step of the hand-off which days are in
  hot and in which snapshot of warm, and what the view was made of. Conservation is
  then a statement about three intervals of days. For the probe, sums of
  rows are compared day by day, strictly on the day in question.
- `MatrixHolds`. `MatrixInv` gives each container its reason at every step (`Explained`):
  not removed when asked, started and not yet stopped, or of a server whose turn is not over; the
  vote is arithmetic of a majority of two answers.
- `TrialsFinish`. `EngineInv`: what an engine has buffered and emitted are the survivors
  of what it has read. `WatchInv`: a poll that reports completion has seen the end of
  the corpus, or all the survivors written, or a dead engine. The theorem claims of the last no more than that
  it is a daemon's and wrote nothing twice: lines 286 to 289 accept it wherever it was.
- `OvershootBounded`. A client's late count is 1 only when it has seen the stop.
- `PathsExactHolds`. The stack of a running search is a walk (`Walk`): each frame holds the
  rest of the neighbours of its node, and the hops below it are the trail to it (`FrameInv`).
  `Awaits` says which trails within the bounds the stack has still to come to;
  `FoundInv`, that of every trail within the bounds either the stack awaits it or its chain
  has been found, and not both. So nothing is found twice, and when the stack is empty
  and no bound was met nothing is left. `TrailChain` and `ChainTrail` turn this into
  the statement about chains, which knows nothing of stacks.
- `IdentityHolds`. `LinkerInv`: each label is that of a record of its component (`Connected`,
  `Component`), and the records that already have the component's least label (`Settled`)
  are more after each round until they are all of it (`RoundSettles`, since a part of a component
  that is not the whole has an edge to the rest, `CutHasEdge`). Edges stay within a
  person, because a key names its person, and a person has at most four records: hence three
  rounds. For the scoring: a person's records in a cluster make twice as many readings, or one more
  with HR's (`RowsAre`), so the plurality of readings is one of records (`PluralityOf`); and only
  the late logon of a directory can be wrong, which another cluster can hide and
  none can correct (`NoGain`).
- `GapHolds`. A tool reports an attribute once and no attribute has three reports, so the order
  by score, then name, has a first (`FirstOfTwo`). A wrong report is alone, or it is
  the CMDB's stale reading beside the agent's of today or yesterday. Of the addresses, at most 65 plus the bonus of 5
  stands against at least 90, whatever the half-life; of `os_version` the agent's 92 may be a day old, and then the older
  reading has decayed as well, to no more of it (`ScoreIs`, `AgentWins`, `BestIsRight`). So the recovered cells
  are those that some tool has right (`BestRecovers`), which no half-life enters; the
  counts follow from merges being injective on attributes (`AttributesOf`, `ChoiceIsWithin`).
- `CliffNeverReached`. For any query the first rule that holds comes no later than the one for
  five tables if that one holds (`FirstRule`), and the cells of the shapes that are left
  (`ShapeIs`) have another engine on both tiers (`CellIs`).
- `GraphHolds`. A loader only adds (`HopsKeep`) and only the wall and the SCF file give edges of the
  two kinds that join defense, attack and control (`MainOfRel`), so a chain is a row of each over the same
  technique (`EdgeChainIs`), and the counts, which go by base, include it (`ReachHolds`). An entry with an OCSF page is named first by
  the loader of the pages (`EventIsFirst`), which is what the next loader selects by.
- `PruningKeepsAnswer`. For any file order, group size and predicates, also over values the runs
  do not draw: the statistics of a group enclose its values (`EndsOf`), so a group that is
  pruned has no matching row, and groups are disjoint and cover the file (`OneGroup`), so
  each row of the answer is in exactly one group that is scanned. It needs nothing of the
  order.
- `PruningHolds` adds what the layouts have to do with it. A sort is a bijection of positions (the
  rank of a row is the number of rows before it), so a layout has the rows of the
  corpus and counts as many answers. A Z-order code is built bit by bit: its lowest
  bits are those of the columns, and half of it is the code of the halves, so codes tell cells apart and
  grow with each column, by induction on the width. The groups and the answer they
  scan are sums of parts of the file.
- `ScorerHolds`. The reference event after `n` fields holds the leaves of the mapped ones among them
  (`HoldsUpTo`): no home is on the way to another, so writing one leaves the others alone, and a home that two fields
  share gets the same value twice. So every field lands in value, no probe fails, and each figure is
  whole divided by whole. For the converse the totals are monotone in each entry, strictly in one that
  counts fewer; a figure below a whole of less than 20000 rounds to less than the whole.
- `PlantedHolds`. Counting by bucket is compared through quotients: a grid that keeps together
  what another keeps together flags at least as much (`CoarserFlags`), one quotient by `M` is one by each multiple of
  `M` (`QuotientRefines`), and equal quotients are less than the divisor apart
  (`QuotientApart`), which is the statement about phases once the dividend is known to be natural (`BucketIs`). A
  decoy's failures lie in slots longer than a window, so at most neighbours share one (`DecoyApart`,
  `SpreadIsNotFlagged`).

`Trials_proofs` also has the theory of sums over a finite set that these need
(`SumFunction` of the community modules: monotone, strictly monotone, additive,
changed by an update at one point). Library theorems on induction take an operator as
their parameter, which the installed provers cannot instantiate;
`Induction` and `FiniteInduction` state the principle on the *set* of those that have the property,
and are proved from the well-foundedness of the naturals. So a recursive function
over the naturals or over a finite set can be reasoned about here.

**Checked before proved.** The invariants of the arms, of the load generator and of the
benches were first checked by TLC on the instances of section 4 or smaller ones,
where their quantifiers are finite. `AcceptedMeansFinished` was corrected in the course of the proof. It
used to say that every accepted trial has read the corpus; a daemon that tails its
input and writes a file is done, for the harness, when all survivors are
written, and dropped events after the last survivor may still be unread. The earlier instance ended
with a survivor, which hid it; the present one ends with a dropped event. `Hop` gained its direction in the proof of
`PathsExactHolds`: without it an edge and its reverse coincided, and what is two
chains in the code was one found twice, which no crosswalk of the run contains. For
the rules the invariant says only that the input is one that can be drawn. The bound on
fields in `Scorer` came out of its proof; above it the property is false (section 7).

**Only model-checked.** All liveness (`Drains`, `AllExit`, `ArmEnds`, `SweepEnds`, `ProgramsEnd`), since
fairness and ENABLED are outside what the prover handles; `Collapse`, which is a statement about two given
chains, four given rungs and a given stretch of days, with no constant to prove it for every value
of (the run enumerates its corpora); and the divergences, which
are counterexamples.

## 7. Where code and documents disagree

1. **A late file is never read** (`LateFileAlerted`). `run_tick` takes windows newer than
   the last one processed and the one before the oldest of those
   (`batch/batch_job.py:96`). A file released two windows late (fault B2) is
   neither. The pre-registration (`PRE-REG-stream-complexity-v2-2026-11-03.md:123`)
   expects "30/30, with the late window's alert emitted late but present", with 0
   operator steps. `OwedKeys` leaves those alerts out of what the arm promises.
2. **A retried event counts twice** (`NearMissSilent`). The producer sets no
   `enable.idempotence` (`streaming/producer.py:55`): an event appended and not
   acknowledged by a dying broker is sent again and counted again, and a near miss
   can alert. `gen_corpus.py:71` says of the near misses "MUST NOT alert".
3. **The rewind rule does not restore unread alerts** (`RuleFollowedComplete`).
   `recover_f1.sh:18` rewinds to the oldest window still open. An alert of a
   window already closed, due or on the wire when the pipeline died, is not
   produced again; `PRE-REG...v2:126` says "30/30 with 0 duplicates if the rewind
   rule is followed". `LostOnlyIfClosed` bounds the loss: it is the only kind.
   The results document of the second version reports the same limit.
4. **Timeouts are no hard break** (`HardBreakStops`). `run.py:270` counts
   only resource and server failures as a hard break; the README of
   workload-interference, line 42, lists "DNF (>300 s, two strikes)" among them.

5. **A gap is traversed** (`GapsNotTraversed`). The trust table of the server calls
   an unmapped edge an "explicit honest gap (a null mapping), not traversable"
   (`security-context-graph/scg_mcp.py:53`) by its *quality*. The loader marks it
   by its *relation* and gives it quality `measured` (`scg.py:227`), the highest
   trust: a search goes through it at any threshold.

Smaller ones, which the models contain and no run is spent on:

- Streaming: "idleness alone can never mean 'done'" (`consume_alerts.py:86`), after a
  trial lost eight alerts to it; line 90 still exits by it, and `run_faults.py:108`
  and the commands of the README (`stream-complexity/README.md:80`) set it to 30 s
  with no stop file.
- Context collapse: `_background_host` says "WS1/WS2 are reserved for the chain"
  (`generate.py:165`). Names are; addresses are not: `WS21` and `WS22` have the
  addresses of chain A's machines. Its traffic to port 443 before the chain is
  the coarse store's first "beacon", which explains the two discordant pairs of the
  published A3 (0.905 = 19/21). Chain B has no such host and no such loss. A small
  connection of that host would cost the faithful store the same.
- Context collapse: `DOSE-RESPONSE.md` puts the step at the "heavy" rung down to the
  rollup window perturbing the order. It is the command line cut to 24 characters,
  before the end of `-EncodedCommand` at 41: the execution phase is gone, and
  the dwell with it. Without confusion the rollup reorders phases at one hour only.
  The "light" rung's 256 characters lose the payload by two (258).
- Normalization: a value emitted where the key has none "surfaces at the value level"
  (`score.py:190`), but only fields the key homes are compared. Scores are
  rounded to four digits, so that one loss in more than 20,000 leaves prints 1.0, and the self-check,
  which "must preserve everything" (`score.py:420`), compares the rounded figures: with the
  100,000 records of `gen_corpus.py:82` it would pass one.
- Engine matrix: "a failed startup is recorded and skipped, never aborts the matrix"
  (`multi_engine_correctness.py:234`); the constructor, which looks for an image, is
  outside the `try` (line 237). An interrupt in the middle of a start leaves the
  container of that server, one in the loop of `stop()` calls (lines 320 to 325) those of the
  servers not yet stopped, and a `docker rm` that fails its own.
- Engine matrix: `server_engines.py:480` keeps the signature "whose total row count
  matches"; the code takes any count above 0 (line 531).
- Ingest: survivors are "verified equal across engines before any throughput is
  reported" (`run.py:40`). The comparison is a column of the report, not a
  condition. The docstring of `_run_daemon_timed` takes for completion that the emitted count
  reaches the expected one, or the read offset the end (line 256); a daemon that exits by itself
  is taken for completed wherever it was (lines 286 to 289).
- Closed loop: `qps` counts what completes after its denominator was read: one query per client
  that is out when the event is set, and whatever completes between the clock and the event, two statements apart.
- Context graph: under the count of the reached defenses a comment says "defenses with a derived
  governance edge: mark on the graph as well" (`scg.py:492`), and nothing is marked. The count goes by the
  base of a technique, so a defense whose attack only shares its base with what a control mitigates is
  counted, and no chain of edges joins the two.
- Tiered tables: `_tiered_post_handoff_freshness` says it reads "through conn_all"
  (line 293) and reads the warm table (line 303).
- Routing: the branch under "no joins" (`route_sim.py:188`) is also reached with
  joins, and `NATIVE_CLIFF_ROWS` is read by nothing.

Behaviours the models contain and no document denies are not listed as
divergences: automatic commits can lose an alert when the consumer is
killed (`AlertConsumer.Commit`), so the arm owes nothing at its close in runs with
such kills; a stop file written in the middle of an outage ends the arm early
(`Prompt` FALSE), as does an idle timeout.

## 8. What is not modelled

- Corpus generation, except the placement rule: random data.
- Feldera: a POST that times out on a live pipeline (no script answers it), and
  bounded waits that run out (`Timely`).
- Freshness: the trial's streaming side is `StreamArm` without faults plus a
  stateless statement and its drain (`consume_ioc.py`).
- Interference: the baseline and the calibration gate before the ladder, the
  rendering of the SQL, the results writer.
- Measurements, reports and charts: one pass over finished files.
- Of the bench programs, what `PROJECT.json` names in the note of each component:
  prompts, rendering, timings, quantiles, seeded shares, single lookups of
  the graph server, rows both stores copy one by one.
- Benches with a single client and no state across steps, and no rule of their
  own: the engine's answer or time is the result.
- The correctness matrices and the DuckLake reproductions: the behaviour at
  stake lives in engines and libraries outside this repository.
- The other scorers (`sigma-portability`, `ocsf-mapping-fidelity`,
  `ocsf-nl2sql-silenterror`, ...): tables of expectations compared with recorded
  outputs; a model would repeat the table.

The map covers a small share of the repository's lines for this reason: most of them
set up engines, draw data, time statements and write reports.

## 9. Plan

The models, in the order of the importance of the behaviour, are done: detection,
gate and `AlertArm`; the batch, streaming and Feldera arms; the load generator and
its sweep; the freshness trial; the benches with a protocol; the benches that are
rules. So are the proofs about all of the arms, the load generator, the eight benches that
keep state, and the rules but the context collapse.

Left: the hazard no property covers, warm-in queries of the load generator that
outlive their join and run on in the measured window; and a statement of `Collapse` for
any chain and ladder, which could be proved.
