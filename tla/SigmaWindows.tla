---------------------------- MODULE SigmaWindows ----------------------------
(***************************************************************************)
(* ocsf-sigma-detection: populations planted so that a rule compiled without  *)
(* its window, with a tumbling one, or run by a scheduler of some lookback,    *)
(* differs from the rule that was written (ppl_execution.py, temporal_,        *)
(* scheduled_arm_ and value_count_execution.py).  A user, or an address that    *)
(* fails against one more user each time, is the sequence of the times of its   *)
(* failures; a host is the times of its two events.  Times are seconds after    *)
(* BASE, which is a multiple of the window.                                   *)
(***************************************************************************)
EXTENDS Integers, Sequences, FiniteSets

CONSTANTS
  Users,   \* of the counting rules, [rule, kind, times]
  Hosts    \* of the sequence rule, [rule, kind, ps, rdp]

VARIABLE
  planted  \* the user or host that is looked at, <<>> before

WINDOW_S  == 600
BURST_N   == 12
DECOY_N   == 12
threshold == 10
Day       == 24 * 3600

LOOKBACKS == {300, 600, 3600, 6 * 3600, Day, 2 * Day, 7 * Day}
-----------------------------------------------------------------------------
(* The planted users *)

\* Twelve failures inside one aligned bucket, at some distance from its ends.
true_user(times, margin) ==
  \E bucket \in 0..(6 * 24 * 6) :
    LET start == bucket * WINDOW_S
    IN  times \in [1..BURST_N -> (start + margin)..(start + WINDOW_S - margin)]

\* value_count: the addresses that spray are nearer to the ends.
spray_ip(times) == true_user(times, 5)

\* Twelve failures, one in each twelfth of the span.
decoy_user(times, span) ==
  LET step == span \div DECOY_N
  IN  /\ times \in [1..DECOY_N -> 0..span]
      /\ \A k \in 1..DECOY_N : times[k] - (k - 1) * step \in 0..(step - 1)

benign_user(times) == \E n \in 0..5 : times \in [1..n -> 0..(7 * Day)]

Drawable(user) ==
  \/ user.kind = "true" /\ (true_user(user.times, 10) \/ spray_ip(user.times))
  \/ user.kind = "benign" /\ benign_user(user.times)
  \/ /\ user.kind = "decoy"
     /\ decoy_user(user.times, 7 * Day) \/ decoy_user(user.times, Day)
-----------------------------------------------------------------------------
(* What flags a user *)

InBucket(times, BucketOf, b) == Cardinality({i \in DOMAIN times : BucketOf[times[i]] = b})

\* GROUP BY user, bucket HAVING count >= 10.
reaches(times, BucketOf) ==
  \E i \in DOMAIN times : InBucket(times, BucketOf, BucketOf[times[i]]) >= threshold

Times(times) == {times[i] : i \in DOMAIN times}

\* The emitted rule has no window.
unbounded(times) == reaches(times, [t \in Times(times) |-> 0])

\* The control: tumbling buckets of the epoch.
windowed(times) == reaches(times, [t \in Times(times) |-> t \div WINDOW_S])

\* DuckDB's // rounds towards zero.
Truncated(a, b) == IF a >= 0 THEN a \div b ELSE -((-a) \div b)

\* Mutant: the dividend may be negative.
sched_bucket_Negative(t, L, phase) == Truncated(t - phase, L)

sched_bucket(t, L, phase) == Truncated(t - phase + 100 * L, L)

\* A scheduler that runs the emitted rule every L over the last L.
scheduled(times, L, phase) ==
  reaches(times, [t \in Times(times) |-> sched_bucket(t, L, phase)])

Phases(L) == {(L * quarter) \div 4 : quarter \in 0..3}
-----------------------------------------------------------------------------
(* The sequence rule: ps_exec, then rdp_lat on the same host within 2 h *)

SPAN_S == 7200

\* Two events after b, the start of a bucket: inside it, around its end, or too far
\* apart.
Inside(first, second, b) == first - b \in 60..3000 /\ second - first \in 30..1500

Straddling(first, second, b) ==
  b + SPAN_S - first \in 120..600 /\ second - b - SPAN_S \in 120..600

FarApart(first, second, b) ==
  first - b \in 60..1200 /\ second - first - SPAN_S \in 1800..7200

\* The hosts of benign_single have one event and are left out.
Plants(h, b) ==
  \/ h.kind = "inbucket" /\ Inside(h.ps, h.rdp, b)
  \/ h.kind = "straddle" /\ Straddling(h.ps, h.rdp, b)
  \/ h.kind = "wrong_order" /\ Inside(h.rdp, h.ps, b)
  \/ h.kind = "benign_farapart" /\ FarApart(h.ps, h.rdp, b)

Plantable(h) == \E bucket \in 0..(5 * 12) : Plants(h, bucket * SPAN_S)

ASSUME SigmaAssumption ==
  /\ \A user \in Users : user.rule = "count" /\ Drawable(user)
  /\ \A h \in Hosts : h.rule = "sequence" /\ {h.ps, h.rdp} \subseteq Nat /\ Plantable(h)

PlantedInit == planted = <<>>

PlantedNext == planted = <<>> /\ planted' \in Users \cup Hosts

reference(h) == h.ps < h.rdp /\ h.rdp <= h.ps + SPAN_S

emitted_ppl(h) == h.ps \div SPAN_S = h.rdp \div SPAN_S
-----------------------------------------------------------------------------
(* Whatever is drawn, the control flags the users with a burst and no others,   *)
(* nothing flags a benign user, the emitted rule flags what any schedule of it  *)
(* flags, and where one grid refines another, the coarser flags at least as    *)
(* much: the decoys a schedule flags grow with its lookback.                  *)
SchedulesOrdered(user) ==
  /\ windowed(user.times) <=> user.kind = "true"
  /\ unbounded(user.times) <=> user.kind # "benign"
  /\ \A L \in LOOKBACKS :
       /\ \A phase \in Phases(L) :
            scheduled(user.times, L, phase) => unbounded(user.times)
       /\ \A M \in LOOKBACKS :
            L % M = 0 /\ scheduled(user.times, M, 0) => scheduled(user.times, L, 0)

(* A shifted grid is a grid: two failures of one bucket are less than the       *)
(* lookback apart.                                                           *)
PhaseKeepsLookback(user) ==
  \A L \in LOOKBACKS : \A phase \in Phases(L) :
    \A i, j \in DOMAIN user.times :
      sched_bucket(user.times[i], L, phase) = sched_bucket(user.times[j], L, phase) =>
        user.times[i] - user.times[j] < L

(* Of the sequence rule the reference flags the two populations with an attack, *)
(* and the emitted one errs on whole populations: it misses each attack that     *)
(* straddles a bucket and flags each reversed pair.                           *)
SequencePlanted(h) ==
  /\ reference(h) <=> h.kind \in {"inbucket", "straddle"}
  /\ emitted_ppl(h) <=> h.kind \in {"inbucket", "wrong_order"}

(* What is planted in the detection corpora is flagged as it was planted to be,  *)
(* and the schedules of the windowless rule are ordered.                        *)
Planted ==
  planted # <<>> =>
    /\ planted.rule = "count" => SchedulesOrdered(planted) /\ PhaseKeepsLookback(planted)
    /\ planted.rule = "sequence" => SequencePlanted(planted)
=============================================================================
