-------------------------- MODULE CatalogContention --------------------------
(***************************************************************************)
(* ocsf-catalog-contention/run.py: writer processes append batches to one    *)
(* table, each batch with a bounded number of attempts, and the trial adds   *)
(* up their retries and errors.                                              *)
(*                                                                         *)
(* The catalogs are external.  Iceberg: a commit takes effect if the table    *)
(* has not changed since the writer loaded it.  DuckLake: a commit is a       *)
(* transaction of the SQL catalog.  Either may also fail for another reason, *)
(* before or after it took effect, at most MaxFaults times in a trial.        *)
(***************************************************************************)
EXTENDS Naturals, FiniteSetsExt, Functions

CONSTANTS
  Writers,
  COMMITS_PER_WRITER,
  MaxAttempts,         \* range(10)
  MaxFaults            \* bound

ASSUME ContentionAssumption ==
  /\ IsFiniteSet(Writers) /\ Writers # {}
  /\ COMMITS_PER_WRITER \in Nat \ {0}
  /\ MaxAttempts \in Nat \ {0}
  /\ MaxFaults \in Nat

VARIABLES
  engine,        \* "none" before the trial, then "ducklake" or "iceberg"
  writer,        \* per writer: where it is, batch, attempt, loaded version, counts
  stored,        \* the table: how often each batch is in it
  version,       \* of the table's metadata pointer
  lateErrors,    \* commits that took effect and raised
  faults

contentionVars == <<engine, writer, stored, version, lateErrors, faults>>

Batches == Writers \X (1..COMMITS_PER_WRITER)

ContentionInit ==
  /\ engine = "none"
  /\ writer = [w \in Writers |-> [at |-> "load", ci |-> 1, attempt |-> 1,
                                  loaded |-> 0, retries |-> 0, errors |-> 0]]
  /\ stored = [b \in Batches |-> 0]
  /\ version = 0 /\ lateErrors = 0 /\ faults = 0

\* _setup_table and the start of the pool.
StartTrial(e) ==
  /\ engine = "none"
  /\ engine' = e
  /\ UNCHANGED <<writer, stored, version, lateErrors, faults>>

\* The head of a writer: connect, and for Iceberg cat.load_table.
LoadTable(w) ==
  /\ engine # "none"
  /\ writer[w].at = "load"
  /\ writer' = [writer EXCEPT ![w].at = "try", ![w].loaded = version]
  /\ UNCHANGED <<engine, stored, version, lateErrors, faults>>

Trying(w) ==
  /\ writer[w].at = "try"
  /\ writer[w].ci <= COMMITS_PER_WRITER

Current(w) == engine = "iceberg" => writer[w].loaded = version

Stores(w) ==
  /\ stored' = [stored EXCEPT ![<<w, writer[w].ci>>] = @ + 1]
  /\ version' = version + 1

\* ok = True; break
Commit(w) ==
  /\ Trying(w) /\ Current(w)
  /\ Stores(w)
  /\ writer' = [writer EXCEPT ![w].ci = @ + 1, ![w].attempt = 1,
                              ![w].loaded = version + 1]
  /\ UNCHANGED <<engine, lateErrors, faults>>

\* except Exception: retries += 1, sleep
Raises(w) == writer' = [writer EXCEPT ![w].retries = @ + 1, ![w].at = "retry"]

\* CommitFailedException: another writer has moved the pointer.
Conflict(w) ==
  /\ Trying(w) /\ ~Current(w)
  /\ Raises(w)
  /\ UNCHANGED <<engine, stored, version, lateErrors, faults>>

\* The catalog refuses or cannot be reached: nothing took effect.
Refused(w) ==
  /\ Trying(w)
  /\ faults < MaxFaults /\ faults' = faults + 1
  /\ Raises(w)
  /\ UNCHANGED <<engine, stored, version, lateErrors>>

\* The commit took effect and its answer was lost.
LateError(w) ==
  /\ Trying(w) /\ Current(w)
  /\ faults < MaxFaults /\ faults' = faults + 1
  /\ Stores(w)
  /\ lateErrors' = lateErrors + 1
  /\ Raises(w)
  /\ UNCHANGED engine

\* The next attempt, or after the last one errors += 1 and the next batch.
NextTry(r) ==
  IF r.attempt < MaxAttempts
    THEN [r EXCEPT !.at = "try", !.attempt = @ + 1]
    ELSE [r EXCEPT !.at = "try", !.attempt = 1, !.ci = @ + 1, !.errors = @ + 1]

\* Mutant of Retry: a batch that is given up is not counted.
Retry_NoError(w) ==
  /\ writer[w].at = "retry"
  /\ writer' = [writer EXCEPT ![w] = [NextTry(@) EXCEPT !.loaded = version,
                                                        !.errors = writer[w].errors]]
  /\ UNCHANGED <<engine, stored, version, lateErrors, faults>>

\* tbl = cat.load_table(...); DuckLake has nothing to load.
Retry(w) ==
  /\ writer[w].at = "retry"
  /\ writer' = [writer EXCEPT ![w] = [NextTry(@) EXCEPT !.loaded = version]]
  /\ UNCHANGED <<engine, stored, version, lateErrors, faults>>

\* load_table raises too: pass, and the old table is tried again.
RetryUnloaded(w) ==
  /\ writer[w].at = "retry"
  /\ engine = "iceberg"
  /\ faults < MaxFaults /\ faults' = faults + 1
  /\ writer' = [writer EXCEPT ![w] = NextTry(@)]
  /\ UNCHANGED <<engine, stored, version, lateErrors>>

ContentionNext ==
  \/ \E e \in {"ducklake", "iceberg"} : StartTrial(e)
  \/ \E w \in Writers :
       LoadTable(w) \/ Commit(w) \/ Conflict(w) \/ Refused(w) \/ LateError(w)
                    \/ Retry(w) \/ RetryUnloaded(w)

\* ex.map has every result: all writers went through their batches.
TrialEnded ==
  engine # "none" /\ \A w \in Writers : writer[w].ci > COMMITS_PER_WRITER

ContentionFairness ==
  /\ WF_contentionVars(\E e \in {"ducklake", "iceberg"} : StartTrial(e))
  /\ \A w \in Writers : 
       WF_contentionVars(LoadTable(w) \/ Commit(w) \/ Conflict(w) \/ Retry(w))
-----------------------------------------------------------------------------
\* The figures of the report.
retries == SumFunction([w \in Writers |-> writer[w].retries])
errors  == SumFunction([w \in Writers |-> writer[w].errors])

Lost       == {b \in Batches : stored[b] = 0}
Duplicated == SumFunction([b \in Batches |-> IF stored[b] > 1 THEN stored[b] - 1 ELSE 0])

(* The report's rows are the intended ones.  At the end of a trial the       *)
(* table holds each batch once, but for at most one batch lost per error     *)
(* and one duplicate per commit whose answer was lost; without such commits  *)
(* errors is exactly the number of batches that are missing.                 *)
ReportMatchesTable ==
  TrialEnded =>
    /\ Duplicated <= lateErrors
    /\ Cardinality(Lost) <= errors /\ errors <= Cardinality(Lost) + lateErrors

(* "The retry rate IS the Iceberg contention cost": every retry is owed to   *)
(* a fault or to the commit of another writer since the last load, and each  *)
(* commit costs each of the others at most one retry.                         *)
RetriesAreContention ==
  retries <= (Cardinality(Writers) - 1) * version + faults

(* What a contention trial reports can be told from the table: lost and        *)
(* duplicate batches are within its errors, retries within the commits of      *)
(* other writers and the faults of the catalog.                              *)
TrialFigures == ReportMatchesTable /\ RetriesAreContention
=============================================================================
