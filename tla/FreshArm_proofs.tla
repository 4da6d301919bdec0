---------------------------- MODULE FreshArm_proofs ----------------------------
(***************************************************************************)
(* Proofs about the freshness trial for every corpus, every number of       *)
(* landers and replicas, every span, and ticks at any moment.               *)
(***************************************************************************)
EXTENDS FreshArm, DetectionLemmas

Busy == {"query_w", "append_w", "append_i"}

FilesOf(l, k) == {first_window(l, e) : e \in Failures(k)}

\* Files land in order, and the marker comes after all of them.
LandingInv(l) ==
  /\ \A f \in landed[l], g \in Files(l) : g <= f => g \in landed[l]
  /\ marker[l] => landed[l] = Files(l)

\* What has been written is expected and remembered, and what a query has
\* left to write is expected and new.
Written(r) ==
  /\ Range(out_w[r]) = seen_w[r] /\ duplicates(out_w[r]) = {}
  /\ Range(out_i[r]) = seen_i[r] /\ duplicates(out_i[r]) = {}
  /\ seen_w[r] \subseteq GroundTruth /\ rows_w[r] \subseteq GroundTruth \ seen_w[r]
  /\ seen_i[r] \subseteq planted /\ rows_i[r] \subseteq planted \ seen_i[r]

\* The candidates of a tick leave no gap after the last file processed.
Listed(r) ==
  /\ last[r] \in landed[Reads[r]] \cup {None}
  /\ cand[r] \subseteq landed[Reads[r]]
  /\ pc[r] \in Busy => \E c \in cand[r] : c > last[r]
  /\ pc[r] \notin Busy => cand[r] = {}
  /\ \A c \in cand[r], f \in Files(Reads[r]) :
       f <= c => f <= last[r] \/ f \in cand[r]

\* Everything up to the last file processed is reported; of the files of the
\* tick in progress, what the steps done so far have found.
Reported(r) ==
  /\ \A k \in GroundTruth :
       (\A f \in FilesOf(Reads[r], k) : f <= last[r]) => k \in seen_w[r]
  /\ \A e \in planted : first_window(Reads[r], e) <= last[r] => e \in seen_i[r]
  /\ pc[r] \in {"append_w", "append_i"} => \A k \in GroundTruth :
       FilesOf(Reads[r], k) \subseteq cand[r] => k \in seen_w[r] \cup rows_w[r]
  /\ pc[r] = "append_i" => rows_w[r] = {}
  /\ pc[r] = "append_i" => \A e \in planted :
       first_window(Reads[r], e) \in cand[r] => e \in seen_i[r] \cup rows_i[r]

\* A replica that has seen the marker has all the files before it.
Marked(r) ==
  /\ done_seen[r] => marker[Reads[r]]
  /\ pc[r] \in Busy /\ done_seen[r] =>
       \A f \in Files(Reads[r]) : f <= last[r] \/ f \in cand[r]
  /\ pc[r] = "exited" => \A f \in Files(Reads[r]) : f <= last[r]

ReplicaInv(r) == Written(r) /\ Listed(r) /\ Reported(r) /\ Marked(r)

FreshInv ==
  /\ TypeOK
  /\ \A l \in Landers : LandingInv(l)
  /\ \A r \in Replicas : ReplicaInv(r)
-----------------------------------------------------------------------------
\* What division by a positive number bounds.
LEMMA DivBounds ==
  ASSUME NEW t \in Nat, NEW n \in Nat \ {0}
  PROVE  /\ t \div n \in Nat
         /\ n * (t \div n) <= t
         /\ t < n * (t \div n) + n
BY SMT

LEMMA Positive ==
  ASSUME NEW a \in Nat \ {0}, NEW b \in Nat \ {0}
  PROVE  a * b \in Nat \ {0}
<1>1. a >= 1 /\ b >= 1
  OBVIOUS
<1> QED BY <1>1, SMTT(30)

\* A positive factor can be cancelled.
LEMMA Cancel ==
  ASSUME NEW a \in Nat, NEW b \in Nat, NEW n \in Nat \ {0}, a * n < b * n
  PROVE  a < b
<1>1. ASSUME a >= b PROVE FALSE
  <2>1. PICK d \in Nat : a = b + d
    BY <1>1
  <2>2. a * n = b * n + d * n /\ d * n \in Nat
    BY <2>1
  <2> QED BY <2>2
<1> QED BY <1>1

\* Multiples of a number above one are never neighbours.
LEMMA NoNeighbours ==
  ASSUME NEW a \in Nat, NEW b \in Nat, NEW s \in Nat, s > 1
  PROVE  a * s # b * s + 1
<1>1. CASE a <= b
  <2>1. PICK d \in Nat : b = a + d
    BY <1>1
  <2>2. b * s = a * s + d * s /\ d * s \in Nat /\ a * s \in Nat
    BY <2>1
  <2> QED BY <2>2
<1>2. CASE a > b
  <2>1. PICK d \in Nat : a = b + 1 + d
    <3>1. a - b - 1 \in Nat
      BY <1>2
    <3> QED BY <3>1
  <2>2. a * s = b * s + s + d * s /\ d * s \in Nat /\ b * s \in Nat
    BY <2>1
  <2> QED BY <2>2
<1> QED BY <1>1, <1>2

\* Equal quotients stay equal when the divisor is multiplied.
LEMMA Coarser ==
  ASSUME NEW t \in Nat, NEW u \in Nat, NEW n \in Nat \ {0}, NEW s \in Nat \ {0},
         t \div n = u \div n
  PROVE  t \div (s * n) <= u \div (s * n)
<1> DEFINE m == s * n
           q == t \div m
           p == u \div m
           w == u \div n
<1>1. m \in Nat \ {0}
  BY Positive
<1>2. q \in Nat /\ m * q <= t
  BY <1>1, DivBounds
<1>3. p \in Nat /\ u < m * p + m
  BY <1>1, DivBounds
<1>4. w \in Nat /\ n * w <= u /\ t < n * w + n
  BY DivBounds
<1> HIDE DEF q, p, w
<1>5. (q * s) * n < (w + 1) * n
  <2>1. m * q = (q * s) * n
    BY <1>2
  <2>2. n * w + n = (w + 1) * n
    BY <1>4
  <2>3. m * q \in Nat
    BY <1>1, <1>2
  <2> HIDE DEF m
  <2> QED BY <1>2, <1>4, <2>1, <2>2, <2>3
<1>6. w * n < ((p + 1) * s) * n
  <2>1. m * p + m = ((p + 1) * s) * n
    BY <1>3
  <2>2. n * w = w * n /\ n * w \in Nat /\ m * p + m \in Nat
    BY <1>1, <1>3, <1>4
  <2> HIDE DEF m
  <2> QED BY <1>3, <1>4, <2>1, <2>2
<1>7. q * s < w + 1 /\ w < (p + 1) * s
  <2>1. q * s \in Nat /\ w + 1 \in Nat /\ (p + 1) * s \in Nat
    BY <1>2, <1>3, <1>4
  <2> QED BY <1>5, <1>6, <2>1, <1>4, Cancel
<1>8. q * s < (p + 1) * s
  <2>1. q * s \in Nat /\ (p + 1) * s \in Nat
    BY <1>2, <1>3
  <2> QED BY <1>4, <1>7, <2>1
<1>9. q < p + 1
  BY <1>2, <1>3, <1>8, Cancel
<1> QED BY <1>2, <1>3, <1>9 DEF q, p

\* Failures of one key lie in one window, hence in one file.
LEMMA SameFile ==
  ASSUME NEW l \in Landers, NEW k, NEW d \in Failures(k), NEW e \in Failures(k)
  PROVE  first_window(l, d) = first_window(l, e)
<1> DEFINE q(x) == x.time \div (Span[l] * WINDOW_SECONDS)
<1>1. /\ d \in Events /\ e \in Events
      /\ AlertKey(d) = k /\ AlertKey(e) = k
  BY DEF Failures
<1>2. d.time \div WINDOW_SECONDS = e.time \div WINDOW_SECONDS
  BY <1>1 DEF AlertKey, window_index
<1>3. d.time \in Nat /\ e.time \in Nat /\ WINDOW_SECONDS \in Nat \ {0}
  BY <1>1, DetectionAssumption
<1>4. Span[l] \in Nat \ {0}
  BY FreshAssumption
<1>5. q(d) <= q(e) /\ q(e) <= q(d)
  BY <1>2, <1>3, <1>4, Coarser
<1>6. q(d) \in Nat /\ q(e) \in Nat
  <2>1. Span[l] * WINDOW_SECONDS \in Nat \ {0}
    BY <1>3, <1>4, Positive
  <2> QED BY <1>3, <2>1, DivBounds
<1>7. q(d) = q(e)
  BY <1>5, <1>6
<1> QED BY <1>7 DEF first_window

\* Files are numbered from one up; a multi-window file has no neighbour.
LEMMA FileNumbers ==
  ASSUME NEW l \in Landers
  PROVE  /\ \A e \in Events : first_window(l, e) \in Files(l)
         /\ \A f \in Files(l) : f \in Nat /\ f >= 1
         /\ Span[l] > 1 => \A f, g \in Files(l) : f # g + 1
<1> DEFINE m == Span[l] * WINDOW_SECONDS
           q(e) == e.time \div m
<1>1. Span[l] \in Nat \ {0} /\ WINDOW_SECONDS \in Nat \ {0}
  BY FreshAssumption, DetectionAssumption
<1>2. m \in Nat \ {0}
  BY <1>1, Positive
<1>3. ASSUME NEW e \in Events PROVE q(e) \in Nat /\ q(e) >= 1
  <2>1. e.time \in Nat /\ e.time >= m
    BY FreshAssumption, DetectionAssumption
  <2> HIDE DEF m
  <2>2. q(e) \in Nat /\ e.time < m * q(e) + m
    BY <1>2, <2>1, DivBounds
  <2>3. q(e) # 0
    <3> HIDE DEF q
    <3> SUFFICES ASSUME q(e) = 0 PROVE FALSE
      OBVIOUS
    <3>1. m * q(e) + m = m
      BY <1>2
    <3> QED BY <1>2, <2>1, <2>2, <3>1
  <2> QED BY <2>2, <2>3
<1>4. \A e \in Events : first_window(l, e) = q(e) * Span[l]
  BY DEF first_window
<1> HIDE DEF q
<1>5. \A e \in Events : first_window(l, e) \in Nat /\ first_window(l, e) >= 1
  <2> SUFFICES ASSUME NEW e \in Events PROVE q(e) * Span[l] \in Nat /\ q(e) * Span[l] >= 1
    BY <1>4
  <2>1. q(e) \in Nat \ {0}
    BY <1>3
  <2>2. q(e) * Span[l] \in Nat \ {0}
    BY <2>1, <1>1, Positive
  <2> QED BY <2>2
<1>6. ASSUME Span[l] > 1, NEW f \in Files(l), NEW g \in Files(l) PROVE f # g + 1
  <2>1. PICK d \in Events : f = q(d) * Span[l]
    BY <1>4 DEF Files
  <2>2. PICK e \in Events : g = q(e) * Span[l]
    BY <1>4 DEF Files
  <2> QED BY <1>1, <1>3, <1>6, <2>1, <2>2, NoNeighbours
<1> QED BY <1>5, <1>6 DEF Files
-----------------------------------------------------------------------------
LEMMA TypeInit == Init => TypeOK
BY DEF Init, TypeOK

LEMMA TypeStep == TypeOK /\ [Next]_vars => TypeOK'
<1> SUFFICES ASSUME TypeOK, [Next]_vars PROVE TypeOK'
  OBVIOUS
<1> USE FreshAssumption DEF TypeOK, landerVars, rowVars, seenVars, fileVars, Goto
<1>1. ASSUME NEW l \in Landers, Landing(l) PROVE TypeOK'
  <2>1. CASE TouchDone(l)
    BY <2>1 DEF TouchDone
  <2>2. ASSUME NEW f \in Files(l), Land(l, f) PROVE TypeOK'
    BY <2>2 DEF Land
  <2> QED BY <1>1, <2>1, <2>2 DEF Landing
<1>2. ASSUME NEW r \in Replicas, Tick(r) PROVE TypeOK'
  <2>1. CASE Wake(r)
    BY <2>1 DEF Wake
  <2>2. CASE ListNew(r)
    BY <2>2 DEF ListNew, new, before
  <2>3. CASE ListNothing(r)
    BY <2>3 DEF ListNothing, EndTick
  <2>4. CASE QueryW(r)
    BY <2>4 DEF QueryW
  <2>5. ASSUME NEW k \in AlertKeys, AppendW(r, k) PROVE TypeOK'
    <3>1. Append(out_w[r], k) \in Seq(AlertKeys)
      OBVIOUS
    <3> QED BY <2>5, <3>1 DEF AppendW
  <2>6. CASE QueryI(r)
    BY <2>6 DEF QueryI, RowsIn
  <2>7. ASSUME NEW e \in Events, AppendI(r, e) PROVE TypeOK'
    <3>1. Append(out_i[r], e) \in Seq(Events)
      OBVIOUS
    <3> QED BY <2>7, <3>1 DEF AppendI
  <2>8. CASE Advance(r)
    <3>1. PICK w \in cand[r] : last' = [last EXCEPT ![r] = w]
      BY <2>8 DEF Advance
    <3>2. w \in Files(Reads[r])
      OBVIOUS
    <3>3. /\ DOMAIN last' = Replicas
          /\ \A q \in Replicas : last'[q] \in Files(Reads[q]) \cup {None}
      BY <3>1, <3>2
    <3>4. /\ DOMAIN cand' = Replicas
          /\ \A q \in Replicas : cand'[q] \subseteq Files(Reads[q])
      BY <2>8 DEF Advance
    <3>5. pc' \in [Replicas -> {"sleep", "list", "query_w", "append_w", "append_i",
                               "exited"}]
      <4>1. \/ pc' = [pc EXCEPT ![r] = "exited"]
            \/ pc' = [pc EXCEPT ![r] = "sleep"]
        BY <2>8 DEF Advance, EndTick
      <4> QED BY <4>1
    <3>6. UNCHANGED <<landed, marker, done_seen, seen_w, seen_i, rows_w, rows_i,
                      out_w, out_i>>
      BY <2>8 DEF Advance
    <3> QED BY <3>3, <3>4, <3>5, <3>6
  <2> QED BY <1>2, <2>1, <2>2, <2>3, <2>4, <2>5, <2>6, <2>7, <2>8 DEF Tick
<1>3. CASE UNCHANGED vars
  BY <1>3 DEF vars
<1> QED BY <1>1, <1>2, <1>3 DEF Next, TrialOver
-----------------------------------------------------------------------------
LEMMA LandingStep ==
  ASSUME TypeOK, \A l \in Landers : LandingInv(l), [Next]_vars
  PROVE  (\A l \in Landers : LandingInv(l))'
<1> USE DEF LandingInv, TypeOK
<1>1. ASSUME NEW m \in Landers, NEW f \in Files(m), Land(m, f), NEW l \in Landers
      PROVE LandingInv(l)'
  <2>1. CASE l = m
    <3>1. landed'[l] = landed[l] \cup {f} /\ marker' = marker
      BY <1>1, <2>1 DEF Land
    <3>2. \A g \in Files(l) : g <= f => g \in landed'[l]
      <4> SUFFICES ASSUME NEW g \in Files(l), g <= f, g \notin landed[l] PROVE g = f
        BY <3>1
      <4>1. f <= g /\ f \in Nat /\ g \in Nat
        BY <1>1, <2>1, FileNumbers DEF Land
      <4> QED BY <4>1
    <3>3. f \notin landed[l]
      BY <1>1, <2>1 DEF Land
    <3> QED BY <1>1, <2>1, <3>1, <3>2, <3>3
  <2>2. CASE l # m
    BY <1>1, <2>2 DEF Land
  <2> QED BY <2>1, <2>2
<1>2. ASSUME NEW m \in Landers, TouchDone(m), NEW l \in Landers
      PROVE LandingInv(l)'
  BY <1>2 DEF TouchDone
<1>3. ASSUME UNCHANGED landerVars, NEW l \in Landers PROVE LandingInv(l)'
  BY <1>3 DEF landerVars
<1>4. ASSUME NEW r \in Replicas, Tick(r) PROVE UNCHANGED landerVars
  BY <1>4 DEF Tick, Wake, ListNew, ListNothing, QueryW, AppendW, QueryI, AppendI,
              Advance
<1>5. ASSUME UNCHANGED vars PROVE UNCHANGED landerVars
  BY <1>5 DEF vars, landerVars
<1> QED BY <1>1, <1>2, <1>3, <1>4, <1>5 DEF Next, Landing, TrialOver

\* A replica none of whose variables change keeps its invariant, even while
\* files land.
Unmoved(r) ==
  /\ pc'[r] = pc[r] /\ done_seen'[r] = done_seen[r] /\ last'[r] = last[r]
  /\ cand'[r] = cand[r] /\ seen_w'[r] = seen_w[r] /\ seen_i'[r] = seen_i[r]
  /\ rows_w'[r] = rows_w[r] /\ rows_i'[r] = rows_i[r]
  /\ out_w'[r] = out_w[r] /\ out_i'[r] = out_i[r]

LEMMA Frame ==
  ASSUME NEW r \in Replicas, ReplicaInv(r), Unmoved(r),
         landed[Reads[r]] \subseteq landed'[Reads[r]],
         marker[Reads[r]] => marker'[Reads[r]]
  PROVE  ReplicaInv(r)'
<1> USE DEF ReplicaInv, Unmoved
<1>1. Written(r)'
  BY DEF Written
<1>2. Listed(r)'
  BY DEF Listed
<1>3. Reported(r)'
  BY DEF Reported
<1>4. Marked(r)'
  BY DEF Marked
<1> QED BY <1>1, <1>2, <1>3, <1>4

LEMMA OthersUnmoved ==
  ASSUME TypeOK, NEW r \in Replicas, NEW q \in Replicas, q # r, Tick(r)
  PROVE  Unmoved(q) /\ UNCHANGED landerVars
<1> USE DEF Unmoved, TypeOK, Goto, landerVars, rowVars, seenVars, fileVars
<1>1. CASE Wake(r)
  BY <1>1 DEF Wake
<1>2. CASE ListNew(r)
  BY <1>2 DEF ListNew
<1>3. CASE ListNothing(r)
  BY <1>3 DEF ListNothing, EndTick
<1>4. CASE QueryW(r)
  BY <1>4 DEF QueryW
<1>5. ASSUME NEW k \in AlertKeys, AppendW(r, k) PROVE Unmoved(q) /\ UNCHANGED landerVars
  BY <1>5 DEF AppendW
<1>6. CASE QueryI(r)
  BY <1>6 DEF QueryI
<1>7. ASSUME NEW e \in Events, AppendI(r, e) PROVE Unmoved(q) /\ UNCHANGED landerVars
  BY <1>7 DEF AppendI
<1>8. CASE Advance(r)
  BY <1>8 DEF Advance, EndTick
<1> QED BY <1>1, <1>2, <1>3, <1>4, <1>5, <1>6, <1>7, <1>8 DEF Tick

LEMMA LandingMoves ==
  ASSUME TypeOK, NEW l \in Landers, Landing(l), NEW q \in Replicas
  PROVE  /\ Unmoved(q)
         /\ landed[Reads[q]] \subseteq landed'[Reads[q]]
         /\ marker[Reads[q]] => marker'[Reads[q]]
<1> USE FreshAssumption DEF Unmoved, TypeOK, rowVars, seenVars, fileVars
<1>1. CASE TouchDone(l)
  BY <1>1 DEF TouchDone
<1>2. CASE \E f \in Files(l) : Land(l, f)
  BY <1>2 DEF Land
<1> QED BY <1>1, <1>2 DEF Landing
-----------------------------------------------------------------------------
LEMMA InitInv == Init => FreshInv
<1> SUFFICES ASSUME Init PROVE FreshInv
  OBVIOUS
<1> USE DEF Init
<1>1. \A l \in Landers : LandingInv(l)
  BY DEF LandingInv
<1>2. ASSUME NEW r \in Replicas PROVE ReplicaInv(r)
  <2>1. Written(r)
    BY DEF Written, duplicates, Range
  <2>2. Listed(r)
    BY DEF Listed, Busy
  <2>3. Reported(r)
    <3>1. Reads[r] \in Landers
      BY FreshAssumption
    <3>2. ASSUME NEW e \in Events PROVE ~(first_window(Reads[r], e) <= None)
      BY <3>1, FileNumbers DEF None
    <3>3. ASSUME NEW k \in GroundTruth PROVE \E f \in FilesOf(Reads[r], k) : ~(f <= None)
      <4>1. PICK e \in Failures(k) : TRUE
        BY AlertHasFailure
      <4> QED BY <4>1, <3>2 DEF FilesOf, Failures
    <3> QED BY <3>2, <3>3 DEF Reported, planted
  <2>4. Marked(r)
    BY DEF Marked, Busy
  <2> QED BY <2>1, <2>2, <2>3, <2>4 DEF ReplicaInv
<1> QED BY <1>1, <1>2, TypeInit DEF FreshInv

LEMMA WakeStep ==
  ASSUME FreshInv, NEW r \in Replicas, Wake(r) PROVE ReplicaInv(r)'
<1> USE DEF FreshInv, TypeOK, ReplicaInv, Wake, Goto, rowVars, seenVars, fileVars,
            landerVars, Busy
<1>1. Written(r)'
  BY DEF Written
<1>2. Listed(r)'
  BY DEF Listed
<1>3. Reported(r)'
  BY DEF Reported
<1>4. Marked(r)'
  BY DEF Marked
<1> QED BY <1>1, <1>2, <1>3, <1>4

LEMMA ListNewStep ==
  ASSUME FreshInv, NEW r \in Replicas, ListNew(r) PROVE ReplicaInv(r)'
<1> DEFINE l == Reads[r]
<1>1. l \in Landers
  BY FreshAssumption
<1>2. /\ pc[r] = "list" /\ pc'[r] = "query_w"
      /\ cand'[r] = new(r) \cup before(r)
      /\ UNCHANGED <<done_seen, last, seen_w, seen_i, rows_w, rows_i, out_w, out_i,
                     landed, marker>>
  BY DEF ListNew, Goto, FreshInv, TypeOK, rowVars, seenVars, fileVars, landerVars
<1>3. /\ landed[l] \subseteq Files(l)
      /\ last[r] \in landed[l] \cup {None}
      /\ \A f \in Files(l) : f \in Nat /\ f >= 1
      /\ \A f \in landed[l], g \in Files(l) : g <= f => g \in landed[l]
  BY <1>1, FileNumbers DEF FreshInv, TypeOK, ReplicaInv, Listed, LandingInv
<1>4. new(r) = {f \in landed[l] : f > last[r]}
  BY <1>3 DEF new, None
<1>5. last[r] \in Nat
  BY <1>3 DEF None
<1> USE <1>2 DEF FreshInv, ReplicaInv
<1>6. Written(r)'
  BY DEF Written
<1>7. Listed(r)'
  <2>1. cand'[r] \subseteq landed[l]
    BY <1>4 DEF before
  <2>2. \E c \in cand'[r] : c > last[r]
    BY <1>4 DEF ListNew
  <2>3. ASSUME NEW c \in cand'[r], NEW f \in Files(l), f <= c, ~(f <= last[r])
        PROVE f \in cand'[r]
    <3>1. f \in landed[l]
      BY <1>3, <2>1, <2>3
    <3> QED BY <1>3, <1>4, <1>5, <2>3, <3>1
  <2> QED BY <1>3, <2>1, <2>2, <2>3 DEF Listed, Busy
<1>8. Reported(r)'
  BY DEF Reported
<1>9. Marked(r)'
  <2>1. ASSUME done_seen[r], NEW f \in Files(l), ~(f <= last[r]) PROVE f \in cand'[r]
    <3>1. f \in landed[l]
      BY <1>1, <2>1 DEF Marked, LandingInv
    <3> QED BY <1>3, <1>4, <1>5, <2>1, <3>1
  <2> QED BY <2>1 DEF Marked, Busy
<1> QED BY <1>6, <1>7, <1>8, <1>9

LEMMA ListNothingStep ==
  ASSUME FreshInv, NEW r \in Replicas, ListNothing(r) PROVE ReplicaInv(r)'
<1> DEFINE l == Reads[r]
<1>1. l \in Landers
  BY FreshAssumption
<1>2. /\ pc[r] = "list" /\ new(r) = {}
      /\ pc'[r] = IF done_seen[r] THEN "exited" ELSE "sleep"
      /\ UNCHANGED <<done_seen, last, cand, seen_w, seen_i, rows_w, rows_i, out_w,
                     out_i, landed, marker>>
  BY DEF ListNothing, EndTick, Goto, FreshInv, TypeOK, rowVars, seenVars, fileVars,
         landerVars
<1> USE <1>2 DEF FreshInv, ReplicaInv
<1>3. Written(r)'
  BY DEF Written
<1>4. Listed(r)'
  BY DEF Listed, Busy
<1>5. Reported(r)'
  BY DEF Reported
<1>6. Marked(r)'
  <2>1. ASSUME done_seen[r], NEW f \in Files(l) PROVE f <= last[r]
    <3>1. f \in landed[l]
      BY <1>1, <2>1 DEF Marked, LandingInv
    <3>2. f \in Nat /\ last[r] \in Nat
      BY <1>1, FileNumbers DEF TypeOK, None
    <3> QED BY <3>1, <3>2 DEF new
  <2> QED BY <2>1 DEF Marked, Busy
<1> QED BY <1>3, <1>4, <1>5, <1>6

LEMMA QueryWStep ==
  ASSUME FreshInv, NEW r \in Replicas, QueryW(r) PROVE ReplicaInv(r)'
<1> DEFINE l == Reads[r]
           found == {k \in AlertKeys :
             Cardinality(Failures(k) \cap RowsIn(l, cand[r])) >= FAILURE_THRESHOLD}
<1>1. /\ pc[r] = "query_w" /\ pc'[r] = "append_w"
      /\ rows_w'[r] = found \ seen_w[r]
      /\ UNCHANGED <<done_seen, last, cand, seen_w, seen_i, rows_i, out_w, out_i,
                     landed, marker>>
  BY DEF QueryW, Goto, FreshInv, TypeOK, seenVars, fileVars, landerVars
<1>2. found \subseteq GroundTruth
  BY CountedOnce
<1>3. ASSUME NEW k \in GroundTruth, FilesOf(l, k) \subseteq cand[r] PROVE k \in found
  <2>1. Failures(k) \cap RowsIn(l, cand[r]) = Failures(k)
    BY <1>3 DEF FilesOf, RowsIn, Failures
  <2> QED BY <2>1 DEF GroundTruth, buckets
<1> HIDE DEF found
<1> USE <1>1 DEF FreshInv, ReplicaInv
<1>4. Written(r)'
  BY <1>2 DEF Written
<1>5. Listed(r)'
  BY DEF Listed, Busy
<1>6. Reported(r)'
  BY <1>3 DEF Reported
<1>7. Marked(r)'
  BY DEF Marked, Busy
<1> QED BY <1>4, <1>5, <1>6, <1>7

LEMMA AppendWStep ==
  ASSUME FreshInv, NEW r \in Replicas, NEW k \in AlertKeys, AppendW(r, k)
  PROVE  ReplicaInv(r)'
<1>1. /\ pc[r] = "append_w" /\ pc' = pc /\ k \in rows_w[r]
      /\ rows_w'[r] = rows_w[r] \ {k} /\ seen_w'[r] = seen_w[r] \cup {k}
      /\ out_w'[r] = Append(out_w[r], k)
      /\ UNCHANGED <<done_seen, last, cand, seen_i, rows_i, out_i, landed, marker>>
  BY DEF AppendW, Goto, FreshInv, TypeOK, landerVars
<1>2. Range(out_w'[r]) = Range(out_w[r]) \cup {k} /\ duplicates(out_w'[r]) = {}
  <2>1. out_w[r] \in Seq(AlertKeys)
    BY DEF FreshInv, TypeOK
  <2>2. k \notin Range(out_w[r]) /\ duplicates(out_w[r]) = {}
    BY <1>1 DEF FreshInv, ReplicaInv, Written
  <2> QED BY <1>1, <2>1, <2>2, AppendNew
<1> USE <1>1 DEF FreshInv, ReplicaInv
<1>3. Written(r)'
  BY <1>2 DEF Written
<1>4. Listed(r)'
  BY DEF Listed
<1>5. Reported(r)'
  BY DEF Reported
<1>6. Marked(r)'
  BY DEF Marked
<1> QED BY <1>3, <1>4, <1>5, <1>6

LEMMA QueryIStep ==
  ASSUME FreshInv, NEW r \in Replicas, QueryI(r) PROVE ReplicaInv(r)'
<1> DEFINE found == {e \in RowsIn(Reads[r], cand[r]) : e.pair \in ioc_pairs}
<1>1. /\ pc[r] = "append_w" /\ pc'[r] = "append_i" /\ rows_w[r] = {}
      /\ rows_i'[r] = found \ seen_i[r]
      /\ UNCHANGED <<done_seen, last, cand, seen_w, seen_i, rows_w, out_w, out_i,
                     landed, marker>>
  BY DEF QueryI, Goto, FreshInv, TypeOK, seenVars, fileVars, landerVars
<1>2. found = {e \in planted : first_window(Reads[r], e) \in cand[r]}
  BY DEF RowsIn, planted
<1> HIDE DEF found
<1> USE <1>1 DEF FreshInv, ReplicaInv
<1>3. Written(r)'
  BY <1>2 DEF Written
<1>4. Listed(r)'
  BY DEF Listed, Busy
<1>5. Reported(r)'
  BY <1>2 DEF Reported
<1>6. Marked(r)'
  BY DEF Marked, Busy
<1> QED BY <1>3, <1>4, <1>5, <1>6

LEMMA AppendIStep ==
  ASSUME FreshInv, NEW r \in Replicas, NEW e \in Events, AppendI(r, e)
  PROVE  ReplicaInv(r)'
<1>1. /\ pc[r] = "append_i" /\ pc' = pc /\ e \in rows_i[r]
      /\ rows_i'[r] = rows_i[r] \ {e} /\ seen_i'[r] = seen_i[r] \cup {e}
      /\ out_i'[r] = Append(out_i[r], e)
      /\ UNCHANGED <<done_seen, last, cand, seen_w, rows_w, out_w, landed, marker>>
  BY DEF AppendI, Goto, FreshInv, TypeOK, landerVars
<1>2. Range(out_i'[r]) = Range(out_i[r]) \cup {e} /\ duplicates(out_i'[r]) = {}
  <2>1. out_i[r] \in Seq(Events)
    BY DEF FreshInv, TypeOK
  <2>2. e \notin Range(out_i[r]) /\ duplicates(out_i[r]) = {}
    BY <1>1 DEF FreshInv, ReplicaInv, Written
  <2> QED BY <1>1, <2>1, <2>2, AppendNew
<1> USE <1>1 DEF FreshInv, ReplicaInv
<1>3. Written(r)'
  BY <1>2 DEF Written
<1>4. Listed(r)'
  BY DEF Listed
<1>5. Reported(r)'
  BY DEF Reported
<1>6. Marked(r)'
  BY DEF Marked
<1> QED BY <1>3, <1>4, <1>5, <1>6

LEMMA AdvanceStep ==
  ASSUME FreshInv, NEW r \in Replicas, Advance(r) PROVE ReplicaInv(r)'
<1> DEFINE l == Reads[r]
<1>1. PICK w \in cand[r] : /\ \A v \in cand[r] : v <= w
                           /\ last' = [last EXCEPT ![r] = w]
  BY DEF Advance
<1>2. /\ pc[r] = "append_i" /\ rows_i[r] = {}
      /\ last'[r] = w /\ cand'[r] = {}
      /\ pc'[r] = IF done_seen[r] THEN "exited" ELSE "sleep"
      /\ UNCHANGED <<done_seen, seen_w, seen_i, rows_w, rows_i, out_w, out_i,
                     landed, marker>>
  BY <1>1 DEF Advance, EndTick, Goto, FreshInv, TypeOK, rowVars, seenVars, fileVars,
              landerVars
<1>3. l \in Landers
  BY FreshAssumption
<1>4. /\ \A f \in Files(l) : f \in Nat
      /\ w \in landed[l] /\ w \in Nat /\ last[r] \in Nat
      /\ cand[r] \subseteq Files(l)
  BY <1>1, <1>3, FileNumbers DEF FreshInv, TypeOK, ReplicaInv, Listed, None
<1>5. w > last[r]
  <2>1. PICK c \in cand[r] : c > last[r]
    BY <1>2 DEF FreshInv, ReplicaInv, Listed, Busy
  <2> QED BY <1>1, <1>4, <2>1
<1>6. \A f \in Files(l) : f <= w => f <= last[r] \/ f \in cand[r]
  BY <1>1 DEF FreshInv, ReplicaInv, Listed
<1> USE <1>2 DEF FreshInv, ReplicaInv
<1>7. Written(r)'
  BY DEF Written
<1>8. Listed(r)'
  BY <1>4 DEF Listed, Busy
<1>9. Reported(r)'
  <2>1. ASSUME NEW k \in GroundTruth, \A f \in FilesOf(l, k) : f <= w
        PROVE k \in seen_w[r]
    <3>1. PICK d \in Failures(k) : TRUE
      BY AlertHasFailure
    <3>2. FilesOf(l, k) = {first_window(l, d)}
      BY <1>3, SameFile DEF FilesOf
    <3>3. first_window(l, d) \in Files(l)
      BY <3>1 DEF Failures, Files
    <3>4. CASE first_window(l, d) <= last[r]
      BY <3>2, <3>4 DEF Reported
    <3>5. CASE first_window(l, d) \in cand[r]
      BY <3>2, <3>5 DEF Reported
    <3> QED BY <1>6, <2>1, <3>2, <3>3, <3>4, <3>5
  <2>2. ASSUME NEW e \in planted, first_window(l, e) <= w PROVE e \in seen_i[r]
    <3>1. first_window(l, e) \in Files(l)
      BY DEF planted, Files
    <3> QED BY <1>6, <2>2, <3>1 DEF Reported
  <2> QED BY <2>1, <2>2 DEF Reported
<1>10. Marked(r)'
  <2>1. ASSUME done_seen[r], NEW f \in Files(l) PROVE f <= w
    <3>1. f <= last[r] \/ f \in cand[r]
      BY <2>1 DEF Marked, Busy
    <3> QED BY <1>1, <1>4, <1>5, <3>1
  <2> QED BY <2>1 DEF Marked, Busy
<1> QED BY <1>7, <1>8, <1>9, <1>10

LEMMA TickStep ==
  ASSUME FreshInv, NEW r \in Replicas, Tick(r), NEW q \in Replicas
  PROVE  ReplicaInv(q)'
<1>1. CASE q = r
  <2>1. CASE Wake(r)
    BY <1>1, <2>1, WakeStep
  <2>2. CASE ListNew(r)
    BY <1>1, <2>2, ListNewStep
  <2>3. CASE ListNothing(r)
    BY <1>1, <2>3, ListNothingStep
  <2>4. CASE QueryW(r)
    BY <1>1, <2>4, QueryWStep
  <2>5. ASSUME NEW k \in AlertKeys, AppendW(r, k) PROVE ReplicaInv(q)'
    BY <1>1, <2>5, AppendWStep
  <2>6. CASE QueryI(r)
    BY <1>1, <2>6, QueryIStep
  <2>7. ASSUME NEW e \in Events, AppendI(r, e) PROVE ReplicaInv(q)'
    BY <1>1, <2>7, AppendIStep
  <2>8. CASE Advance(r)
    BY <1>1, <2>8, AdvanceStep
  <2> QED BY <2>1, <2>2, <2>3, <2>4, <2>5, <2>6, <2>7, <2>8 DEF Tick
<1>2. CASE q # r
  BY <1>2, OthersUnmoved, Frame DEF FreshInv, landerVars
<1> QED BY <1>1, <1>2

LEMMA StepInv == FreshInv /\ [Next]_vars => FreshInv'
<1> SUFFICES ASSUME FreshInv, [Next]_vars PROVE FreshInv'
  OBVIOUS
<1>1. TypeOK' /\ (\A l \in Landers : LandingInv(l))'
  BY TypeStep, LandingStep DEF FreshInv
<1>2. ASSUME NEW q \in Replicas PROVE ReplicaInv(q)'
  <2>1. ASSUME NEW l \in Landers, Landing(l) PROVE ReplicaInv(q)'
    BY <2>1, LandingMoves, Frame DEF FreshInv
  <2>2. ASSUME NEW r \in Replicas, Tick(r) PROVE ReplicaInv(q)'
    BY <2>2, TickStep
  <2>3. CASE UNCHANGED vars
    BY <2>3, Frame DEF FreshInv, vars, Unmoved
  <2> QED BY <2>1, <2>2, <2>3 DEF Next, TrialOver
<1> QED BY <1>1, <1>2 DEF FreshInv
-----------------------------------------------------------------------------
(* Lander and replicas keep the invariant whatever steps their ticks fall   *)
(* between (batch_fresh.main, land_fresh.main).                             *)
THEOREM Inductive == Spec => []FreshInv
<1>1. FreshInv /\ UNCHANGED vars => FreshInv'
  BY StepInv
<1> QED BY InitInv, StepInv, PTL DEF Spec

(* The variables keep their types.                                          *)
THEOREM TypeCorrect == Spec => []TypeOK
<1>1. FreshInv => TypeOK
  BY DEF FreshInv
<1> QED BY <1>1, Inductive, PTL

(* batch_fresh.py: a replica that has exited has written both answers in    *)
(* full, with nothing else and nothing twice, so compare_fresh.py passes.   *)
THEOREM ExitMeansGate == Spec => []GatePasses
<1>1. ASSUME FreshInv, NEW r \in Replicas, pc[r] = "exited"
      PROVE  identical(out_w[r], GroundTruth) /\ identical(out_i[r], planted)
  <2> DEFINE l == Reads[r]
  <2>1. l \in Landers /\ \A f \in Files(l) : f <= last[r]
    BY <1>1, FreshAssumption DEF FreshInv, ReplicaInv, Marked
  <2>2. GroundTruth \subseteq seen_w[r]
    <3> SUFFICES ASSUME NEW k \in GroundTruth PROVE k \in seen_w[r]
      OBVIOUS
    <3>1. FilesOf(l, k) \subseteq Files(l)
      BY DEF FilesOf, Files, Failures
    <3> QED BY <1>1, <2>1, <3>1 DEF FreshInv, ReplicaInv, Reported
  <2>3. planted \subseteq seen_i[r]
    <3> SUFFICES ASSUME NEW e \in planted PROVE e \in seen_i[r]
      OBVIOUS
    <3>1. first_window(l, e) \in Files(l)
      BY DEF planted, Files
    <3> QED BY <1>1, <2>1, <3>1 DEF FreshInv, ReplicaInv, Reported
  <2>4. /\ Range(out_w[r]) = GroundTruth /\ duplicates(out_w[r]) = {}
        /\ Range(out_i[r]) = planted /\ duplicates(out_i[r]) = {}
    BY <1>1, <2>2, <2>3 DEF FreshInv, ReplicaInv, Written
  <2> QED BY <2>4 DEF identical, missing, extra
<1>2. FreshInv => GatePasses
  BY <1>1 DEF GatePasses
<1> QED BY <1>2, Inductive, PTL

(* Freshness: when a tick is over, everything in the files up to the last   *)
(* one it processed is in the alerts files.                                 *)
THEOREM NothingWaits == Spec => []NothingLeftBehind
<1>1. ASSUME FreshInv, NEW r \in Replicas, NEW read,
             read = RowsIn(Reads[r], {f \in landed[Reads[r]] : f <= last[r]})
      PROVE  /\ {k \in GroundTruth : Failures(k) \subseteq read} \subseteq Range(out_w[r])
             /\ planted \cap read \subseteq Range(out_i[r])
  <2>1. \A e \in read : first_window(Reads[r], e) <= last[r]
    BY <1>1 DEF RowsIn
  <2>2. ASSUME NEW k \in GroundTruth, Failures(k) \subseteq read PROVE k \in seen_w[r]
    <3>1. \A f \in FilesOf(Reads[r], k) : f <= last[r]
      BY <2>1, <2>2 DEF FilesOf
    <3> QED BY <1>1, <3>1 DEF FreshInv, ReplicaInv, Reported
  <2>3. ASSUME NEW e \in planted, e \in read PROVE e \in seen_i[r]
    BY <1>1, <2>1, <2>3 DEF FreshInv, ReplicaInv, Reported
  <2> QED BY <1>1, <2>2, <2>3 DEF FreshInv, ReplicaInv, Written
<1>2. FreshInv => NothingLeftBehind
  BY <1>1 DEF NothingLeftBehind
<1> QED BY <1>2, Inductive, PTL

(* No row is appended twice, although the look-back re-reads files.         *)
THEOREM EachRowOnce == Spec => []WrittenOnce
<1>1. FreshInv => WrittenOnce
  BY DEF FreshInv, ReplicaInv, Written, WrittenOnce
<1> QED BY <1>1, Inductive, PTL

(* land_fresh.py's names: a file of several windows never has a neighbour   *)
(* for the look-back to find.                                               *)
THEOREM NoCoarseLookback == Spec => []LookbackNeedsSingles
<1>1. ASSUME FreshInv, NEW r \in Replicas, Span[Reads[r]] > 1,
             NEW v \in cand[r], NEW w \in cand[r]
      PROVE  w # v + 1
  <2>1. cand[r] \subseteq Files(Reads[r]) /\ Reads[r] \in Landers
    BY <1>1, FreshAssumption DEF FreshInv, TypeOK
  <2> QED BY <1>1, <2>1, FileNumbers
<1>2. FreshInv => LookbackNeedsSingles
  BY <1>1 DEF LookbackNeedsSingles
<1> QED BY <1>2, Inductive, PTL
=============================================================================
