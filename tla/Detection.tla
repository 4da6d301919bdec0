------------------------------- MODULE Detection -------------------------------
(***************************************************************************)
(* The detection every arm of stream-complexity/ must reproduce: an alert  *)
(* for each (user, src_ip) with at least FAILURE_THRESHOLD failed logins in *)
(* one epoch-aligned tumbling window of WINDOW_SECONDS of event time.       *)
(*                                                                         *)
(* An event is a record with the fields id, pair, time and status; "pair"  *)
(* stands for (user, src_ip), which the code only ever groups by.  A window *)
(* is named by its index time \div WINDOW_SECONDS, an alert by its dedup    *)
(* key <<pair, window>>.                                                    *)
(***************************************************************************)
EXTENDS Integers, FiniteSets

CONSTANTS
  Events,             \* the corpus, data/events.jsonl: a finite set of records
  WINDOW_SECONDS,     \* frozen at 60 by the pre-registration
  FAILURE_THRESHOLD   \* frozen at 5 by the pre-registration

ASSUME DetectionAssumption ==
  /\ IsFiniteSet(Events)
  /\ WINDOW_SECONDS \in Nat \ {0}
  /\ FAILURE_THRESHOLD \in Nat \ {0}
  /\ \A e \in Events : e.time \in Nat /\ e.time >= WINDOW_SECONDS

window_index(e) == e.time \div WINDOW_SECONDS

AlertKey(e) == <<e.pair, window_index(e)>>

WindowEnd(k) == (k[2] + 1) * WINDOW_SECONDS

AlertKeys == {AlertKey(e) : e \in Events}

Failures(k) == {e \in Events : e.status = "failure" /\ AlertKey(e) = k}

(***************************************************************************)
(* gen_corpus.independent_ground_truth: counts the failures of each key     *)
(* over the whole corpus, without the query of any arm.                     *)
(***************************************************************************)
buckets == [k \in AlertKeys |-> Cardinality(Failures(k))]

GroundTruth == {k \in AlertKeys : buckets[k] >= FAILURE_THRESHOLD}
=============================================================================
