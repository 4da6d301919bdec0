--------------------------------- MODULE Drain ---------------------------------
(***************************************************************************)
(* feldera/drain_alerts.py: the sink adapter.  A reader thread holds the    *)
(* egress connection, reconnects when it breaks, and appends one line per   *)
(* new alert; the main thread ends the process some time after the stop     *)
(* file appears.                                                            *)
(***************************************************************************)
EXTENDS FelderaPipeline

VARIABLES
  drain,        \* "run" or "exited"
  n_connects,
  seen,
  out,          \* alerts-feldera.jsonl, as the sequence of its keys
  stopFile

drainVars == <<drain, n_connects, seen, out, stopFile>>

DrainType ==
  /\ drain \in {"run", "exited"}
  /\ n_connects \in Nat
  /\ seen \subseteq AlertKeys
  /\ out \in Seq(AlertKeys)
  /\ stopFile \in BOOLEAN

DrainInit ==
  /\ drain = "run"
  /\ n_connects = 1
  /\ seen = {}
  /\ out = <<>>
  /\ stopFile = FALSE

\* st["connected"] of the state file.
connected == conn # "none"
-----------------------------------------------------------------------------
\* requests.post to the egress URL is answered with 200.
Connect ==
  /\ drain = "run"
  /\ conn = "none"
  /\ pipe = "running"
  /\ conn' = "live"
  /\ n_connects' = n_connects + 1
  /\ UNCHANGED <<drain, seen, out, stopFile, pipe, counts, maxTime, waterline, egress>>

\* The reader notices the end of the stream; what was still on it is lost.
Disconnect ==
  /\ drain = "run"
  /\ conn = "broken"
  /\ conn' = "none"
  /\ egress' = {}
  /\ UNCHANGED <<drainVars, pipe, counts, maxTime, waterline>>

\* Mutant of Handle: no test for a key already seen.
Handle_NoDedup(k) ==
  /\ drain = "run"
  /\ k \in egress
  /\ egress' = egress \ {k}
  /\ seen' = seen \cup {k}
  /\ out' = Append(out, k)
  /\ UNCHANGED <<drain, n_connects, stopFile, pipe, counts, maxTime, waterline, conn>>

\* One insert record of the stream, under the lock.
Handle(k) ==
  /\ drain = "run"
  /\ k \in egress
  /\ egress' = egress \ {k}
  /\ seen' = seen \cup {k}
  /\ out' = IF k \in seen THEN out ELSE Append(out, k)
  /\ UNCHANGED <<drain, n_connects, stopFile, pipe, counts, maxTime, waterline, conn>>
=============================================================================
