---------------------------- MODULE Benches_proofs ----------------------------
(***************************************************************************)
(* Proofs about the programs of MC_Benches that keep or search tables and    *)
(* about those that compute from drawn inputs, each on its own, for every     *)
(* value of its constants: the tiered tables, the search for chains in the    *)
(* context graph and the graph itself, the linker of identities, the router   *)
(* and the merges of an asset, the pruning of row groups, the fidelity        *)
(* scorer and the populations that detection rules are run on.               *)
(***************************************************************************)
EXTENDS Trials_proofs, TieredTables, ContextPaths, ContextGraph, IdentityMerge, AssuranceGap,
        Routing, ZOrder, NormScore, SigmaWindows
-----------------------------------------------------------------------------
\* The tables as the watermark describes them.
Between(lo, hi) == [x \in Days |-> IF lo < x /\ x <= hi THEN Of(x) ELSE 0]

\* The view is not created yet, or has watermark w over snapshot n.
Views(w, n) == conn_all.meta = 0 \/ conn_all = [wm |-> w, meta |-> n]

\* Snapshot n of warm has the days up to w, and hot those above h.
Placed(n, w, h, last) == /\ n \in 1..Len(warm) /\ warm[n] = Between(-1, w)
                         /\ hot = Between(h, last)

(* The states of the tiered tables.                                          *)
TieredType ==
  /\ tierPc \in {"build", "insert", "append", "advance", "delete", "view", "probe",
                 "fresh_hot", "fresh_warm", "done"}
  /\ W_HOT \in Nat /\ d \in 0..(max_day + 1)
  /\ warm \in Seq([Days -> Nat]) /\ warm_meta \in Nat
  /\ wm \in -1..max_day

(* Where the rows are at each step of the lifecycle: the days of warm end    *)
(* and those of hot begin at the watermark, but for the day in hand-off      *)
(* between the two.                                                          *)
Lifecycle ==
  /\ tierPc = "build" => d = 0 /\ wm = -1 /\ conn_all.meta = 0
  /\ tierPc \in {"build", "insert"} =>
       /\ Placed(Len(warm), wm, wm, d - 1) /\ Views(wm, Len(warm)) /\ warm_meta = Len(warm)
       /\ tierPc = "insert" => wm = IF d - 1 - W_HOT >= 0 THEN d - 1 - W_HOT ELSE -1
  /\ tierPc = "append" =>
       /\ Placed(Len(warm), wm, wm, d) /\ Views(wm, Len(warm))
       /\ d <= max_day /\ wm + 1 = d - W_HOT
  /\ tierPc = "advance" =>
       /\ Placed(Len(warm) - 1, wm, wm, d) /\ Views(wm, Len(warm) - 1)
       /\ warm[Len(warm)] = Between(-1, wm + 1)
       /\ d <= max_day /\ wm + 1 = d - W_HOT
  /\ tierPc \in {"delete", "view"} =>
       /\ Placed(Len(warm) - 1, wm - 1, IF tierPc = "view" THEN wm ELSE wm - 1, d)
       /\ Views(wm - 1, Len(warm) - 1)
       /\ warm[Len(warm)] = Between(-1, wm) /\ warm_meta = Len(warm)
       /\ d <= max_day /\ wm >= 0 /\ wm = d - W_HOT
  /\ tierPc \in {"probe", "fresh_hot", "fresh_warm"} =>
       /\ Placed(Len(warm), wm, wm, max_day) /\ conn_all = [wm |-> wm, meta |-> Len(warm)]
       /\ warm_meta = Len(warm)
  /\ tierPc = "done" =>
       /\ Placed(Len(warm) - 1, wm, wm, max_day)
       /\ conn_all = [wm |-> wm, meta |-> Len(warm) - 1]
  /\ tierPc \in {"probe", "fresh_hot", "fresh_warm", "done"} => d = max_day + 1

(* The probe says nothing before it has run, and then what the contracts     *)
(* predict.                                                                  *)
Probed ==
  /\ tierPc \notin {"fresh_hot", "fresh_warm", "done"} => overlap = <<>>
  /\ ProbeTellsContracts

(* The inductive invariant of the tiered tables.                             *)
TieredInv == TieredType /\ Lifecycle /\ Probed

(* The days of the corpus are finitely many, each with a number of rows,     *)
(* and nothing is on the day after the last.                                 *)
LEMMA CorpusType ==
  /\ max_day \in Nat
  /\ \A x \in Int : Of(x) \in Nat
  /\ Days = 0..(max_day + 1) /\ IsFiniteSet(Days)
  /\ Of(max_day + 1) = 0
  /\ \A lo, hi : Between(lo, hi) \in [Days -> Nat]
<1>1. max_day \in Nat
  BY TieredAssumption DEF max_day
<1>2. \A x \in Int : Of(x) \in Nat
  <2> TAKE x \in Int
  <2>1. CASE x \in 0..max_day
    <3>1. x + 1 \in 1..Len(DayRows)
      BY <1>1, <2>1, TieredAssumption DEF max_day
    <3> QED
      BY <2>1, <3>1, TieredAssumption DEF Of
  <2>2. CASE x \notin 0..max_day
    BY <2>2 DEF Of
  <2> QED
    BY <2>1, <2>2
<1>3. Days = 0..(max_day + 1) /\ IsFiniteSet(Days)
  BY <1>1, FS_Interval DEF Days
<1>4. Of(max_day + 1) = 0
  BY <1>1 DEF Of
<1>5. \A lo, hi : Between(lo, hi) \in [Days -> Nat]
  <2>1. \A x \in Days : Of(x) \in Nat
    BY <1>1, <1>2, <1>3
  <2> QED
    BY <2>1 DEF Between
<1> QED
  BY <1>1, <1>2, <1>3, <1>4, <1>5

(* A table up to a day grows by the rows of the next, and one above a day    *)
(* loses those of its first.                                                 *)
LEMMA BetweenGrows ==
  /\ \A lo \in Int, n \in Days : lo < n => Plus(Between(lo, n - 1), n, Of(n)) = Between(lo, n)
  /\ \A n \in Days, hi \in Int : [Between(n - 1, hi) EXCEPT ![n] = 0] = Between(n, hi)
<1>1. max_day \in Nat /\ Days = 0..(max_day + 1) /\ \A x \in Days : Of(x) \in Nat
  BY CorpusType
<1>2. ASSUME NEW lo \in Int, NEW n \in Days, lo < n
      PROVE  Plus(Between(lo, n - 1), n, Of(n)) = Between(lo, n)
  <2>1. ASSUME NEW x \in Days
        PROVE  (IF x = n THEN (IF lo < x /\ x <= n - 1 THEN Of(x) ELSE 0) + Of(n)
                         ELSE IF lo < x /\ x <= n - 1 THEN Of(x) ELSE 0)
                 = (IF lo < x /\ x <= n THEN Of(x) ELSE 0)
    <3>1. x \in Int /\ n \in Int /\ Of(x) \in Nat
      BY <1>1
    <3> QED
      BY <1>2, <3>1
  <2> QED
    BY <2>1 DEF Plus, Between
<1>3. ASSUME NEW n \in Days, NEW hi \in Int
      PROVE  [Between(n - 1, hi) EXCEPT ![n] = 0] = Between(n, hi)
  <2>1. ASSUME NEW x \in Days
        PROVE  (IF x = n THEN 0 ELSE IF n - 1 < x /\ x <= hi THEN Of(x) ELSE 0)
                 = (IF n < x /\ x <= hi THEN Of(x) ELSE 0)
    <3>1. x \in Int /\ n \in Int
      BY <1>1
    <3> QED
      BY <3>1
  <2> QED
    BY <2>1 DEF Between
<1> QED
  BY <1>2, <1>3

(* An append makes a new snapshot of warm and leaves the earlier ones.       *)
LEMMA WarmAppends ==
  ASSUME NEW t \in [Days -> Nat], warm \in Seq([Days -> Nat]), warm' = Append(warm, t)
  PROVE  /\ warm' \in Seq([Days -> Nat]) /\ Len(warm') = Len(warm) + 1 /\ Len(warm) \in Nat
         /\ warm'[Len(warm')] = t /\ \A n \in 1..Len(warm) : warm'[n] = warm[n]
OBVIOUS

(* A table with more rows on a day is a table.                               *)
LEMMA PlusType ==
  ASSUME NEW t \in [Days -> Nat], NEW x \in Days, NEW n \in Nat
  PROVE  Plus(t, x, n) \in [Days -> Nat]
BY DEF Plus

(* The lifecycle starts in its invariant.                                    *)
LEMMA TieredStarts ==
  ASSUME TieredInit
  PROVE  TieredInv
<1>1. max_day \in Nat /\ Days = 0..(max_day + 1)
  BY CorpusType
<1>2. Nothing = Between(-1, -1)
  <2>1. \A x \in Days : ~(-1 < x /\ x <= -1)
    BY <1>1
  <2> QED
    BY <2>1 DEF Nothing, Between
<1>3. Nothing \in [Days -> Nat]
  BY DEF Nothing
<1>4. TieredType
  BY <1>1, <1>3 DEF TieredInit, TieredType
<1>5. warm = <<Nothing>> /\ Len(warm) = 1 /\ warm[1] = Nothing
  BY DEF TieredInit
<1>6. Lifecycle
  BY <1>2, <1>5 DEF TieredInit, Lifecycle, Placed, Views
<1>7. Probed
  BY DEF TieredInit, Probed, ProbeTellsContracts
<1> QED
  BY <1>4, <1>6, <1>7 DEF TieredInv

\* Until the overlap there is nothing to say of it.
(* The probe stays empty while the lifecycle has not reached it.             *)
LEMMA NotProbed ==
  ASSUME TieredInv, tierPc \notin {"fresh_hot", "fresh_warm", "done"}, overlap' = overlap,
         tierPc' \notin {"fresh_hot", "fresh_warm", "done"}
  PROVE  Probed'
<1>1. overlap' = <<>>
  BY DEF TieredInv, Probed
<1> QED
  BY <1>1 DEF Probed, ProbeTellsContracts

(* Creating the empty tables keeps the invariant.                            *)
LEMMA BuildKept ==
  ASSUME TieredInv, BuildTiered
  PROVE  TieredInv'
<1>1. TieredType'
  BY TieredAssumption DEF TieredInv, TieredType, BuildTiered, Days, max_day
<1>2. /\ d = 0 /\ wm = -1 /\ Placed(Len(warm), wm, wm, d - 1) /\ Views(wm, Len(warm))
      /\ warm_meta = Len(warm)
  BY DEF TieredInv, Lifecycle, BuildTiered
<1>3. UNCHANGED <<d, hot, warm, warm_meta, wm, conn_all, overlap>> /\ tierPc' = "insert"
      /\ W_HOT' \in Nat
  BY TieredAssumption DEF BuildTiered
<1>4. Placed(Len(warm), wm, wm, d - 1)' /\ Views(wm, Len(warm))'
  BY <1>2, <1>3 DEF Placed, Views, Between, Days, Of, max_day
<1>5. wm' = IF d' - 1 - W_HOT' >= 0 THEN d' - 1 - W_HOT' ELSE -1
  <2>1. d' = 0 /\ wm' = -1 /\ W_HOT' \in Nat
    BY <1>2, <1>3
  <2>2. ~(d' - 1 - W_HOT' >= 0)
    <3>1. \A n \in Nat : ~(0 - 1 - n >= 0)
      OBVIOUS
    <3> QED
      BY <2>1, <3>1
  <2> QED
    BY <2>1, <2>2
<1>6. Lifecycle'
  BY <1>2, <1>3, <1>4, <1>5 DEF Lifecycle
<1>7. Probed'
  BY <1>3, NotProbed DEF BuildTiered
<1> QED
  BY <1>1, <1>6, <1>7 DEF TieredInv

(* The insert of a day in hot keeps the invariant.                           *)
LEMMA InsertKept ==
  ASSUME TieredInv, InsertDay
  PROVE  TieredInv'
<1>1. max_day \in Nat /\ Days = 0..(max_day + 1) /\ \A x \in Int : Of(x) \in Nat
  BY CorpusType
<1>2. /\ W_HOT \in Nat /\ d \in 0..(max_day + 1) /\ wm \in -1..max_day
      /\ warm \in Seq([Days -> Nat]) /\ warm_meta \in Nat
  BY DEF TieredInv, TieredType
<1>3. /\ tierPc = "insert" /\ d <= max_day /\ hot' = Plus(hot, d, Of(d))
      /\ UNCHANGED <<W_HOT, warm, warm_meta, wm, conn_all, overlap>>
  BY DEF InsertDay
<1>4. /\ Placed(Len(warm), wm, wm, d - 1) /\ Views(wm, Len(warm)) /\ warm_meta = Len(warm)
      /\ wm = IF d - 1 - W_HOT >= 0 THEN d - 1 - W_HOT ELSE -1
  BY <1>3 DEF TieredInv, Lifecycle
<1>5. hot' = Between(wm, d)
  <2>1. wm < d /\ d \in Days /\ wm \in Int
    BY <1>1, <1>2, <1>3, <1>4
  <2>2. hot = Between(wm, d - 1)
    BY <1>4 DEF Placed
  <2> QED
    BY <1>3, <2>1, <2>2, BetweenGrows
<1>6. CASE d - W_HOT >= 0
  <2>1. tierPc' = "append" /\ d' = d
    BY <1>6 DEF InsertDay
  <2>2. wm + 1 = d - W_HOT
    BY <1>1, <1>2, <1>4, <1>6
  <2>3. TieredType'
    BY <1>2, <1>3, <2>1 DEF TieredType, Days, max_day
  <2>4. Placed(Len(warm), wm, wm, d)' /\ Views(wm, Len(warm))'
    BY <1>3, <1>4, <1>5, <2>1 DEF Placed, Views, Between, Days, Of, max_day
  <2>5. d' <= max_day /\ wm' + 1 = d' - W_HOT'
    BY <1>3, <2>1, <2>2
  <2>6. Lifecycle'
    BY <2>1, <2>4, <2>5 DEF Lifecycle, max_day
  <2>7. Probed'
    BY <1>3, <2>1, NotProbed
  <2> QED
    BY <2>3, <2>6, <2>7 DEF TieredInv
<1>7. CASE ~(d - W_HOT >= 0)
  <2>1. tierPc' = "insert" /\ d' = d + 1
    BY <1>7 DEF InsertDay
  <2>2. d' - 1 = d
    BY <1>2, <2>1
  <2>3. TieredType'
    BY <1>1, <1>2, <1>3, <2>1 DEF TieredType, Days, max_day
  <2>4. Placed(Len(warm), wm, wm, d - 1)' /\ Views(wm, Len(warm))'
    BY <1>3, <1>4, <1>5, <2>2 DEF Placed, Views, Between, Days, Of, max_day
  <2>5. wm' = IF d' - 1 - W_HOT' >= 0 THEN d' - 1 - W_HOT' ELSE -1
    BY <1>2, <1>3, <1>4, <1>7, <2>2
  <2>6. warm_meta' = Len(warm')
    BY <1>3, <1>4
  <2>7. Lifecycle'
    BY <2>1, <2>4, <2>5, <2>6 DEF Lifecycle, max_day
  <2>8. Probed'
    BY <1>3, <2>1, NotProbed
  <2> QED
    BY <2>3, <2>7, <2>8 DEF TieredInv
<1> QED
  BY <1>6, <1>7

(* The append of the day that leaves hot to warm keeps the invariant.        *)
LEMMA AppendKept ==
  ASSUME TieredInv, AppendWarm
  PROVE  TieredInv'
<1>1. max_day \in Nat /\ Days = 0..(max_day + 1) /\ \A x \in Int : Of(x) \in Nat
  BY CorpusType
<1>2. /\ W_HOT \in Nat /\ d \in 0..(max_day + 1) /\ wm \in -1..max_day
      /\ warm \in Seq([Days -> Nat]) /\ warm_meta \in Nat
  BY DEF TieredInv, TieredType
<1>3. /\ tierPc = "append" /\ tierPc' = "advance"
      /\ warm' = Append(warm, Plus(warm[Len(warm)], d - W_HOT, Of(d - W_HOT)))
      /\ UNCHANGED <<W_HOT, d, hot, warm_meta, wm, conn_all, overlap>>
  BY DEF AppendWarm
<1>4. /\ Placed(Len(warm), wm, wm, d) /\ Views(wm, Len(warm))
      /\ d <= max_day /\ wm + 1 = d - W_HOT
  BY <1>3 DEF TieredInv, Lifecycle
<1>5. Len(warm) \in 1..Len(warm) /\ warm[Len(warm)] = Between(-1, wm) /\ hot = Between(wm, d)
  BY <1>4 DEF Placed
<1> DEFINE t == Plus(warm[Len(warm)], d - W_HOT, Of(d - W_HOT))
<1>6. t = Between(-1, wm + 1)
  <2>1. d - W_HOT \in Days /\ -1 < d - W_HOT /\ wm = (d - W_HOT) - 1
    <3>1. wm \in Int /\ -1 <= wm /\ wm <= max_day /\ d \in Int
      BY <1>1, <1>2
    <3>2. d - W_HOT = wm + 1 /\ d - W_HOT <= d
      BY <1>2, <1>4, <3>1
    <3> QED
      BY <1>1, <1>2, <1>4, <3>1, <3>2
  <2> QED
    BY <1>4, <1>5, <2>1, BetweenGrows
<1>7. t \in [Days -> Nat]
  BY <1>6, CorpusType
<1> HIDE DEF t
<1>8. /\ warm' \in Seq([Days -> Nat]) /\ Len(warm') = Len(warm) + 1 /\ Len(warm) \in Nat
      /\ warm'[Len(warm')] = t /\ \A n \in 1..Len(warm) : warm'[n] = warm[n]
  BY <1>2, <1>3, <1>7, WarmAppends DEF t
<1>9. TieredType'
  BY <1>2, <1>3, <1>8 DEF TieredType, Days, max_day
<1>10. Len(warm') - 1 = Len(warm) /\ Len(warm) \in 1..Len(warm')
  BY <1>5, <1>8
<1>11. Placed(Len(warm) - 1, wm, wm, d)' /\ Views(wm, Len(warm) - 1)'
  <2>1. warm'[Len(warm)] = warm[Len(warm)]
    BY <1>5, <1>8
  <2>2. (Between(-1, wm) = Between(-1, wm)') /\ (Between(wm, d) = Between(wm, d)')
    BY <1>3 DEF Between, Days, Of, max_day
  <2>3. Placed(Len(warm) - 1, wm, wm, d)'
    BY <1>3, <1>5, <1>10, <2>1, <2>2 DEF Placed
  <2> QED
    BY <1>3, <1>4, <1>10, <2>3 DEF Views
<1>12. warm'[Len(warm')] = Between(-1, wm + 1)'
  BY <1>3, <1>6, <1>8 DEF Between, Days, Of, max_day
<1>13. d' <= max_day' /\ wm' + 1 = d' - W_HOT'
  BY <1>3, <1>4 DEF max_day
<1>14. Lifecycle'
  BY <1>3, <1>11, <1>12, <1>13 DEF Lifecycle
<1>15. Probed'
  BY <1>3, NotProbed
<1> QED
  BY <1>9, <1>14, <1>15 DEF TieredInv

(* The advance of the watermark keeps the invariant.                         *)
LEMMA AdvanceKept ==
  ASSUME TieredInv, AdvanceWatermark
  PROVE  TieredInv'
<1>1. max_day \in Nat /\ Days = 0..(max_day + 1)
  BY CorpusType
<1>2. /\ W_HOT \in Nat /\ d \in 0..(max_day + 1) /\ wm \in -1..max_day
      /\ warm \in Seq([Days -> Nat]) /\ Len(warm) \in Nat
  BY DEF TieredInv, TieredType
<1>3. /\ tierPc = "advance" /\ tierPc' = "delete" /\ warm_meta' = Len(warm)
      /\ wm' = d - W_HOT /\ UNCHANGED <<W_HOT, d, hot, warm, conn_all, overlap>>
  BY DEF AdvanceWatermark
<1>4. /\ Placed(Len(warm) - 1, wm, wm, d) /\ Views(wm, Len(warm) - 1)
      /\ warm[Len(warm)] = Between(-1, wm + 1)
      /\ d <= max_day /\ wm + 1 = d - W_HOT
  BY <1>3 DEF TieredInv, Lifecycle
<1>5. wm' = wm + 1 /\ wm' - 1 = wm /\ wm' \in -1..max_day
  <2>1. wm \in Int /\ -1 <= wm /\ d \in Int
    BY <1>1, <1>2
  <2> QED
    BY <1>1, <1>2, <1>3, <1>4, <2>1
<1>6. TieredType'
  BY <1>2, <1>3, <1>5 DEF TieredType, Days, max_day
<1>7. Placed(Len(warm) - 1, wm - 1, wm - 1, d)' /\ Views(wm - 1, Len(warm) - 1)'
      /\ warm'[Len(warm')] = Between(-1, wm)'
  BY <1>3, <1>4, <1>5 DEF Placed, Views, Between, Days, Of, max_day
<1>8. d' <= max_day' /\ wm' >= 0 /\ wm' = d' - W_HOT' /\ warm_meta' = Len(warm')
  BY <1>2, <1>3, <1>4, <1>5 DEF max_day
<1>9. Lifecycle'
  BY <1>3, <1>7, <1>8 DEF Lifecycle
<1>10. Probed'
  BY <1>3, NotProbed
<1> QED
  BY <1>6, <1>9, <1>10 DEF TieredInv

(* The delete of the day from hot keeps the invariant.                       *)
LEMMA DeleteKept ==
  ASSUME TieredInv, DeleteHot
  PROVE  TieredInv'
<1>1. max_day \in Nat /\ Days = 0..(max_day + 1)
  BY CorpusType
<1>2. /\ W_HOT \in Nat /\ d \in 0..(max_day + 1) /\ wm \in -1..max_day
      /\ warm \in Seq([Days -> Nat]) /\ warm_meta \in Nat
  BY DEF TieredInv, TieredType
<1>3. /\ tierPc = "delete" /\ tierPc' = "view" /\ hot' = [hot EXCEPT ![wm] = 0]
      /\ UNCHANGED <<W_HOT, d, warm, warm_meta, wm, conn_all, overlap>>
  BY DEF DeleteHot
<1>4. /\ Placed(Len(warm) - 1, wm - 1, wm - 1, d) /\ Views(wm - 1, Len(warm) - 1)
      /\ warm[Len(warm)] = Between(-1, wm) /\ warm_meta = Len(warm)
      /\ d <= max_day /\ wm >= 0 /\ wm = d - W_HOT
  BY <1>3 DEF TieredInv, Lifecycle
<1>5. wm \in Days /\ d \in Int /\ hot = Between(wm - 1, d)
  BY <1>1, <1>2, <1>4 DEF Placed
<1>6. hot' = Between(wm, d)
  BY <1>3, <1>5, BetweenGrows
<1>7. TieredType'
  BY <1>2, <1>3 DEF TieredType, Days, max_day
<1>8. Placed(Len(warm) - 1, wm - 1, wm, d)' /\ Views(wm - 1, Len(warm) - 1)'
      /\ warm'[Len(warm')] = Between(-1, wm)'
  BY <1>3, <1>4, <1>6 DEF Placed, Views, Between, Days, Of, max_day
<1>9. d' <= max_day' /\ wm' >= 0 /\ wm' = d' - W_HOT' /\ warm_meta' = Len(warm')
  BY <1>3, <1>4 DEF max_day
<1>10. Lifecycle'
  BY <1>3, <1>8, <1>9 DEF Lifecycle
<1>11. Probed'
  BY <1>3, NotProbed
<1> QED
  BY <1>7, <1>10, <1>11 DEF TieredInv

(* The new view of both tables keeps the invariant.                          *)
LEMMA ViewKept ==
  ASSUME TieredInv, RecreateView
  PROVE  TieredInv'
<1>1. max_day \in Nat /\ Days = 0..(max_day + 1)
  BY CorpusType
<1>2. /\ W_HOT \in Nat /\ d \in 0..(max_day + 1) /\ wm \in -1..max_day
      /\ warm \in Seq([Days -> Nat]) /\ Len(warm) \in Nat
  BY DEF TieredInv, TieredType
<1>3. /\ tierPc = "view" /\ tierPc' = "insert" /\ conn_all' = [wm |-> wm, meta |-> warm_meta]
      /\ d' = d + 1 /\ UNCHANGED <<W_HOT, hot, warm, warm_meta, wm, overlap>>
  BY DEF RecreateView
<1>4. /\ Placed(Len(warm) - 1, wm - 1, wm, d)
      /\ warm[Len(warm)] = Between(-1, wm) /\ warm_meta = Len(warm)
      /\ d <= max_day /\ wm >= 0 /\ wm = d - W_HOT
  BY <1>3 DEF TieredInv, Lifecycle
<1>5. d' - 1 = d /\ d' \in 0..(max_day + 1)
  BY <1>1, <1>2, <1>3, <1>4
<1>6. TieredType'
  BY <1>2, <1>3, <1>4, <1>5 DEF TieredType, Days, max_day
<1>7. Len(warm) \in 1..Len(warm)
  BY <1>2, <1>4 DEF Placed
<1>8. Placed(Len(warm), wm, wm, d - 1)' /\ Views(wm, Len(warm))'
  BY <1>3, <1>4, <1>5, <1>7 DEF Placed, Views, Between, Days, Of, max_day
<1>9. wm' = IF d' - 1 - W_HOT' >= 0 THEN d' - 1 - W_HOT' ELSE -1
  BY <1>2, <1>3, <1>4, <1>5
<1>10. Lifecycle'
  BY <1>3, <1>4, <1>8, <1>9 DEF Lifecycle
<1>11. Probed'
  BY <1>3, NotProbed
<1> QED
  BY <1>6, <1>10, <1>11 DEF TieredInv

(* The end of the lifecycle keeps the invariant.                             *)
LEMMA DoneKept ==
  ASSUME TieredInv, LifecycleDone
  PROVE  TieredInv'
<1>1. max_day \in Nat /\ Days = 0..(max_day + 1)
  BY CorpusType
<1>2. /\ W_HOT \in Nat /\ d \in 0..(max_day + 1) /\ wm \in -1..max_day
      /\ warm \in Seq([Days -> Nat])
  BY DEF TieredInv, TieredType
<1>3. /\ tierPc = "insert" /\ tierPc' = "probe" /\ conn_all' = [wm |-> wm, meta |-> warm_meta]
      /\ d > max_day /\ UNCHANGED <<W_HOT, d, hot, warm, warm_meta, wm, overlap>>
  BY DEF LifecycleDone
<1>4. Placed(Len(warm), wm, wm, d - 1) /\ warm_meta = Len(warm)
  BY <1>3 DEF TieredInv, Lifecycle
<1>5. d = max_day + 1 /\ d - 1 = max_day
  BY <1>1, <1>2, <1>3
<1>6. TieredType'
  BY <1>2, <1>3, <1>4 DEF TieredType, Days, max_day, TieredInv
<1>7. Placed(Len(warm), wm, wm, max_day)'
  BY <1>3, <1>4, <1>5 DEF Placed, Between, Days, Of, max_day
<1>8. conn_all' = [wm |-> wm', meta |-> Len(warm')] /\ warm_meta' = Len(warm')
  BY <1>3, <1>4
<1>9. Lifecycle'
  BY <1>3, <1>5, <1>7, <1>8 DEF Lifecycle, max_day
<1>10. Probed'
  BY <1>3, NotProbed
<1> QED
  BY <1>6, <1>9, <1>10 DEF TieredInv

(* A table with somewhere more and nowhere fewer rows than another counts    *)
(* more.                                                                     *)
LEMMA CountsOrdered ==
  ASSUME NEW f \in [Days -> Nat], NEW g \in [Days -> Nat], \A x \in Days : f[x] <= g[x],
         NEW y \in Days, f[y] < g[y]
  PROVE  Count(f) < Count(g)
BY CorpusType, SumStrict DEF Count

\* What the overlap counts, whatever it moves.
(* What the three contracts of the probe count: all rows with the pinned     *)
(* one, more with the naive one and fewer with the stale pin.                *)
LEMMA ProbeCounts ==
  ASSUME NEW w \in -1..max_day, NEW x, x = w + 1, Of(x) # 0
  PROVE  /\ x \in 0..max_day
         /\ Plus(Between(-1, w), x, Of(x)) = Between(-1, x)
         /\ [Between(w, max_day) EXCEPT ![x] = 0] = Between(x, max_day)
         /\ count_with(Between(w, max_day), x, x, Between(-1, x)) = Count([y \in Days |-> Of(y)])
         /\ count_with(Between(w, max_day), x - 1, x, Between(-1, x)) > Count([y \in Days |-> Of(y)])
         /\ count_with(Between(x, max_day), x - 1, x - 1, Between(-1, x))
              < Count([y \in Days |-> Of(y)])
<1>1. max_day \in Nat /\ Days = 0..(max_day + 1) /\ \A y \in Int : Of(y) \in Nat
  BY CorpusType
<1>2. w \in Int /\ -1 <= w /\ w <= max_day
  BY <1>1
<1>3. x \in Int /\ 0 <= x /\ x - 1 = w
  BY <1>2
<1>4. x \in 0..max_day
  BY <1>1, <1>3 DEF Of
<1>5. x \in Days /\ -1 < x /\ max_day \in Int
  BY <1>1, <1>4
<1>6. /\ Plus(Between(-1, w), x, Of(x)) = Between(-1, x)
      /\ [Between(w, max_day) EXCEPT ![x] = 0] = Between(x, max_day)
  <2>1. -1 \in Int /\ w = x - 1
    BY <1>3
  <2>2. Plus(Between(-1, x - 1), x, Of(x)) = Between(-1, x)
    BY <1>5, <2>1, BetweenGrows
  <2>3. [Between(x - 1, max_day) EXCEPT ![x] = 0] = Between(x, max_day)
    BY <1>5, BetweenGrows
  <2> QED
    BY <2>1, <2>2, <2>3
<1>7. \A y \in Days : /\ y \in Int /\ Of(y) \in Nat /\ 0 <= y /\ y <= max_day + 1
                      /\ y = max_day + 1 => Of(y) = 0
  <2> TAKE y \in Days
  <2>1. y \in Int /\ 0 <= y /\ y <= max_day + 1
    BY <1>1
  <2>2. y = max_day + 1 => Of(y) = 0
    BY CorpusType
  <2> QED
    BY <1>1, <2>1, <2>2
<1> DEFINE table == Between(w, max_day)
           meta  == Between(-1, x)
           left  == Between(x, max_day)
<1>8. \A y \in Days : /\ table[y] = IF w < y THEN Of(y) ELSE 0
                      /\ left[y] = IF x < y THEN Of(y) ELSE 0
                      /\ meta[y] = IF y <= x THEN Of(y) ELSE 0
  <2> TAKE y \in Days
  <2>1. y <= max_day \/ Of(y) = 0
    BY <1>1, <1>7
  <2>2. -1 < y
    BY <1>7
  <2> QED
    BY <2>1, <2>2 DEF Between
<1> HIDE DEF table, meta, left
<1> DEFINE all == [y \in Days |-> Of(y)]
           pinned == [y \in Days |-> (IF y > x THEN table[y] ELSE 0) + (IF y <= x THEN meta[y] ELSE 0)]
           naive == [y \in Days |-> (IF y > x - 1 THEN table[y] ELSE 0)
                                      + (IF y <= x THEN meta[y] ELSE 0)]
           stale == [y \in Days |-> (IF y > x - 1 THEN left[y] ELSE 0)
                                      + (IF y <= x - 1 THEN meta[y] ELSE 0)]
<1>9. \A y \in Days : /\ pinned[y] = Of(y)
                      /\ naive[y] = IF y = x THEN Of(y) + Of(y) ELSE Of(y)
                      /\ stale[y] = IF y = x THEN 0 ELSE Of(y)
  <2> TAKE y \in Days
  <2>1. y \in Int /\ Of(y) \in Nat
    BY <1>7
  <2>2. /\ table[y] = IF w < y THEN Of(y) ELSE 0
        /\ left[y] = IF x < y THEN Of(y) ELSE 0
        /\ meta[y] = IF y <= x THEN Of(y) ELSE 0
    BY <1>8
  <2>3. pinned[y] = Of(y)
    BY <1>2, <1>3, <2>1, <2>2
  <2>4. naive[y] = IF y = x THEN Of(y) + Of(y) ELSE Of(y)
    BY <1>2, <1>3, <2>1, <2>2
  <2>5. stale[y] = IF y = x THEN 0 ELSE Of(y)
    BY <1>2, <1>3, <2>1, <2>2
  <2> QED
    BY <2>3, <2>4, <2>5
<1>10. /\ count_with(table, x, x, meta) = Count(pinned)
       /\ count_with(table, x - 1, x, meta) = Count(naive)
       /\ count_with(left, x - 1, x - 1, meta) = Count(stale)
  BY DEF count_with
<1>11. \A y \in Days : all[y] = Of(y)
  OBVIOUS
<1>12. pinned = all
  BY <1>9
<1>13. DOMAIN naive = Days /\ DOMAIN stale = Days /\ naive = [y \in Days |-> naive[y]]
       /\ stale = [y \in Days |-> stale[y]] /\ all = [y \in Days |-> all[y]]
  OBVIOUS
<1> HIDE DEF all, pinned, naive, stale
<1>14. all \in [Days -> Nat] /\ naive \in [Days -> Nat] /\ stale \in [Days -> Nat]
  <2>1. \A y \in Days : all[y] \in Nat /\ naive[y] \in Nat /\ stale[y] \in Nat
    BY <1>7, <1>9, <1>11
  <2> QED
    BY <1>13, <2>1
<1>15. Of(x) \in Nat \ {0}
  BY <1>3, <1>1
<1>16. Count(all) < Count(naive)
  <2>1. \A y \in Days : all[y] <= naive[y]
    BY <1>7, <1>9, <1>11
  <2>2. all[x] < naive[x]
    BY <1>5, <1>9, <1>11, <1>15
  <2> QED
    BY <1>5, <1>14, <2>1, <2>2, CountsOrdered
<1>17. Count(stale) < Count(all)
  <2>1. \A y \in Days : stale[y] <= all[y]
    BY <1>7, <1>9, <1>11
  <2>2. stale[x] < all[x]
    BY <1>5, <1>9, <1>11, <1>15
  <2> QED
    BY <1>5, <1>14, <2>1, <2>2, CountsOrdered
<1>18. Count(all) \in Nat /\ Count(naive) \in Nat
  BY <1>14, CorpusType, SumType DEF Count
<1> QED
  BY <1>4, <1>6, <1>10, <1>12, <1>16, <1>17, <1>18 DEF all, table, meta, left

(* After the last day the whole corpus has been ingested.                    *)
LEMMA IngestedAll ==
  ASSUME d = max_day + 1, tierPc # "insert"
  PROVE  Ingested = [x \in Days |-> Of(x)]
<1>1. \A x \in Days : x < d \/ x = d
  <2>1. max_day \in Nat /\ Days = 0..(max_day + 1)
    BY CorpusType
  <2> QED
    BY <2>1
<1> QED
  BY <1>1 DEF Ingested

(* The overlap probe keeps the invariant, and says what the contracts        *)
(* predict.                                                                  *)
LEMMA OverlapKept ==
  ASSUME TieredInv, OverlapProbe
  PROVE  TieredInv'
<1>1. max_day \in Nat /\ Days = 0..(max_day + 1)
  BY CorpusType
<1>2. /\ W_HOT \in Nat /\ d \in 0..(max_day + 1) /\ wm \in -1..max_day
      /\ warm \in Seq([Days -> Nat]) /\ warm_meta \in Nat
  BY DEF TieredInv, TieredType
<1>3. tierPc = "probe" /\ tierPc' = "fresh_hot" /\ UNCHANGED <<W_HOT, d>>
  BY DEF OverlapProbe
<1>4. /\ Placed(Len(warm), wm, wm, max_day) /\ conn_all = [wm |-> wm, meta |-> Len(warm)]
      /\ warm_meta = Len(warm) /\ d = max_day + 1
  BY <1>3 DEF TieredInv, Lifecycle
<1>5. (max_day' = max_day) /\ (Days' = Days)
  BY DEF max_day, Days
<1> DEFINE x == wm + 1
<1>6. CASE Of(x) = 0
  <2>1. overlap' = <<>> /\ UNCHANGED <<hot, warm, warm_meta, wm, conn_all>>
    BY <1>6 DEF OverlapProbe
  <2>2. TieredType'
    BY <1>2, <1>3, <2>1 DEF TieredType, Days, max_day
  <2>3. Placed(Len(warm), wm, wm, max_day)'
    BY <1>4, <2>1 DEF Placed, Between, Days, Of, max_day
  <2>4. conn_all' = [wm |-> wm', meta |-> Len(warm')] /\ warm_meta' = Len(warm')
        /\ d' = max_day' + 1
    BY <1>3, <1>4, <1>5, <2>1
  <2>5. Lifecycle'
    BY <1>3, <2>3, <2>4 DEF Lifecycle
  <2>6. Probed'
    BY <1>3, <2>1 DEF Probed, ProbeTellsContracts
  <2> QED
    BY <2>2, <2>5, <2>6 DEF TieredInv
<1>7. CASE Of(x) # 0
  <2> DEFINE meta == Plus(warm[Len(warm)], x, Of(x))
             left == [hot EXCEPT ![x] = 0]
             all  == [y \in Days |-> Of(y)]
  <2>1. /\ warm' = Append(warm, meta)
        /\ overlap' = [pinned |-> count_with(hot, x, x, meta),
                     naive  |-> count_with(hot, x - 1, x, meta),
                     stale  |-> count_with(left, x - 1, x - 1, meta)]
        /\ hot' = left /\ conn_all' = [wm |-> x, meta |-> Len(warm')]
        /\ wm' = x /\ warm_meta' = Len(warm')
    BY <1>7 DEF OverlapProbe
  <2>2. warm[Len(warm)] = Between(-1, wm) /\ hot = Between(wm, max_day) /\ Len(warm) \in 1..Len(warm)
    BY <1>4 DEF Placed
  <2>3. /\ x \in 0..max_day /\ meta = Between(-1, x) /\ left = Between(x, max_day)
        /\ count_with(hot, x, x, meta) = Count(all)
        /\ count_with(hot, x - 1, x, meta) > Count(all)
        /\ count_with(left, x - 1, x - 1, meta) < Count(all)
    <3>1. x = wm + 1 /\ Of(x) # 0
      BY <1>7
    <3>2. meta = Plus(Between(-1, wm), x, Of(x)) /\ left = [Between(wm, max_day) EXCEPT ![x] = 0]
      BY <2>2
    <3> HIDE DEF x, meta, left
    <3>3. /\ x \in 0..max_day
          /\ Plus(Between(-1, wm), x, Of(x)) = Between(-1, x)
          /\ [Between(wm, max_day) EXCEPT ![x] = 0] = Between(x, max_day)
          /\ count_with(Between(wm, max_day), x, x, Between(-1, x)) = Count(all)
          /\ count_with(Between(wm, max_day), x - 1, x, Between(-1, x)) > Count(all)
          /\ count_with(Between(x, max_day), x - 1, x - 1, Between(-1, x)) < Count(all)
      BY <1>2, <3>1, ProbeCounts
    <3> HIDE DEF all
    <3> QED
      BY <2>2, <3>2, <3>3
  <2> HIDE DEF meta
  <2>4. meta \in [Days -> Nat]
    <3> HIDE DEF left, all, x
    <3> QED
      BY <2>3, CorpusType
  <2> HIDE DEF left, all, x
  <2>5. /\ warm' \in Seq([Days -> Nat]) /\ Len(warm') = Len(warm) + 1 /\ Len(warm) \in Nat
        /\ warm'[Len(warm')] = meta
    BY <1>2, <2>1, <2>4, WarmAppends
  <2>6. x \in -1..max_day /\ Len(warm') \in 1..Len(warm') /\ Len(warm') \in Nat
    BY <1>1, <2>3, <2>5
  <2>7. TieredType'
    BY <1>2, <1>3, <1>5, <2>1, <2>5, <2>6 DEF TieredType
  <2>8. Placed(Len(warm), wm, wm, max_day)'
    <3>1. Between(-1, wm)' = Between(-1, x) /\ Between(wm, max_day)' = Between(x, max_day)
      BY <2>1 DEF Between, Days, Of, max_day
    <3> QED
      BY <2>1, <2>3, <2>5, <2>6, <3>1 DEF Placed
  <2>9. conn_all' = [wm |-> wm', meta |-> Len(warm')] /\ d' = max_day' + 1
    BY <1>3, <1>4, <1>5, <2>1
  <2>10. Lifecycle'
    BY <1>3, <2>1, <2>8, <2>9 DEF Lifecycle
  <2>11. Count(Ingested)' = Count(all)
    <3>1. Ingested' = [y \in Days' |-> Of(y)']
      BY <1>3, <1>4, <1>5, CorpusType DEF Ingested
    <3>2. [y \in Days' |-> Of(y)'] = all
      BY <1>5 DEF all, Of, max_day
    <3> QED
      BY <3>1, <3>2 DEF Count
  <2>12. Probed'
    <3>1. overlap'.pinned = Count(all) /\ overlap'.naive > Count(all) /\ overlap'.stale < Count(all)
      BY <2>1, <2>3
    <3> QED
      BY <1>3, <2>11, <3>1 DEF Probed, ProbeTellsContracts
  <2> QED
    BY <2>7, <2>10, <2>12 DEF TieredInv
<1> QED
  BY <1>6, <1>7

\* What the overlap found stays true of what was ingested.
(* What the probe says does not change in the measurements after it.         *)
LEMMA ProbedStays ==
  ASSUME Probed, d = max_day + 1, tierPc \in {"fresh_hot", "fresh_warm"},
         tierPc' \in {"fresh_warm", "done"}, UNCHANGED <<d, overlap>>
  PROVE  Probed'
<1>1. Ingested' = Ingested
  <2>1. Ingested = [x \in Days |-> IF x < d \/ x = d THEN Of(x) ELSE 0]
    BY DEF Ingested
  <2>2. Ingested' = [x \in Days |-> IF x < d \/ x = d THEN Of(x) ELSE 0]
    BY DEF Ingested, Days, Of, max_day
  <2> QED
    BY <2>1, <2>2
<1>2. ProbeTellsContracts'
  BY <1>1 DEF Probed, ProbeTellsContracts, Count
<1> QED
  BY <1>2 DEF Probed

(* The measurement of hot freshness keeps the invariant.                     *)
LEMMA HotKept ==
  ASSUME TieredInv, HotFreshness
  PROVE  TieredInv'
<1>1. /\ tierPc = "fresh_hot" /\ tierPc' = "fresh_warm"
      /\ conn_all' = [wm |-> wm, meta |-> warm_meta]
      /\ UNCHANGED <<W_HOT, d, hot, warm, warm_meta, wm, overlap>>
  BY DEF HotFreshness
<1>2. /\ Placed(Len(warm), wm, wm, max_day) /\ warm_meta = Len(warm) /\ d = max_day + 1
  BY <1>1 DEF TieredInv, Lifecycle
<1>3. TieredType'
  BY <1>1 DEF TieredInv, TieredType, Days, max_day
<1>4. Placed(Len(warm), wm, wm, max_day)'
  BY <1>1, <1>2 DEF Placed, Between, Days, Of, max_day
<1>5. conn_all' = [wm |-> wm', meta |-> Len(warm')] /\ warm_meta' = Len(warm')
      /\ d' = max_day' + 1
  BY <1>1, <1>2 DEF max_day
<1>6. Lifecycle'
  BY <1>1, <1>4, <1>5 DEF Lifecycle
<1>7. Probed'
  BY <1>1, <1>2, ProbedStays DEF TieredInv
<1> QED
  BY <1>3, <1>6, <1>7 DEF TieredInv

(* The measurement after the hand-off keeps the invariant.                   *)
LEMMA PostHandoffKept ==
  ASSUME TieredInv, PostHandoffFreshness
  PROVE  TieredInv'
<1>1. max_day \in Nat /\ Days = 0..(max_day + 1)
  BY CorpusType
<1> DEFINE t == Plus(warm[Len(warm)], max_day + 1, FreshRows)
<1>2. /\ tierPc = "fresh_warm" /\ tierPc' = "done" /\ warm' = Append(warm, t)
      /\ UNCHANGED <<W_HOT, d, hot, warm_meta, wm, conn_all, overlap>>
  BY DEF PostHandoffFreshness
<1>3. /\ Placed(Len(warm), wm, wm, max_day) /\ conn_all = [wm |-> wm, meta |-> Len(warm)]
      /\ d = max_day + 1
  BY <1>2 DEF TieredInv, Lifecycle
<1>4. /\ W_HOT \in Nat /\ d \in 0..(max_day + 1) /\ wm \in -1..max_day
      /\ warm \in Seq([Days -> Nat]) /\ warm_meta \in Nat
  BY DEF TieredInv, TieredType
<1>5. Len(warm) \in 1..Len(warm) /\ warm[Len(warm)] = Between(-1, wm) /\ hot = Between(wm, max_day)
  BY <1>3 DEF Placed
<1>6. t \in [Days -> Nat]
  <2>1. warm[Len(warm)] \in [Days -> Nat]
    BY <1>5, CorpusType
  <2>2. max_day + 1 \in Days /\ FreshRows \in Nat
    BY <1>1, TieredAssumption
  <2> QED
    BY <2>1, <2>2, PlusType
<1> HIDE DEF t
<1>7. /\ warm' \in Seq([Days -> Nat]) /\ Len(warm') = Len(warm) + 1 /\ Len(warm) \in Nat
      /\ \A n \in 1..Len(warm) : warm'[n] = warm[n]
  BY <1>2, <1>4, <1>6, WarmAppends
<1>8. TieredType'
  BY <1>2, <1>4, <1>7 DEF TieredType, Days, max_day
<1>9. Len(warm') - 1 = Len(warm) /\ Len(warm) \in 1..Len(warm')
      /\ warm'[Len(warm)] = Between(-1, wm)
  BY <1>5, <1>7
<1>10. Placed(Len(warm) - 1, wm, wm, max_day)'
  BY <1>2, <1>5, <1>9 DEF Placed, Between, Days, Of, max_day
<1>11. conn_all' = [wm |-> wm', meta |-> Len(warm') - 1] /\ d' = max_day' + 1
  BY <1>2, <1>3, <1>9 DEF max_day
<1>12. Lifecycle'
  BY <1>2, <1>10, <1>11 DEF Lifecycle
<1>13. Probed'
  BY <1>2, <1>3, ProbedStays DEF TieredInv
<1> QED
  BY <1>8, <1>12, <1>13 DEF TieredInv

\* A view with the watermark the tables have shows all days up to the last.
(* A view with the watermark of both tables shows each of their days once.   *)
LEMMA ViewShows ==
  ASSUME NEW w \in Int, NEW n, NEW last \in Int,
         Placed(n, w, w, last), conn_all = [wm |-> w, meta |-> n]
  PROVE  conn_all_view(conn_all) = [x \in Days |-> IF x <= last \/ x <= w THEN Of(x) ELSE 0]
<1>1. hot = Between(w, last) /\ warm[n] = Between(-1, w)
  BY DEF Placed
<1>2. conn_all_view(conn_all) = [x \in Days |-> IF x > w THEN hot[x] ELSE warm[n][x]]
  BY DEF conn_all_view
<1>3. ASSUME NEW x \in Days
      PROVE  (IF x > w THEN hot[x] ELSE warm[n][x]) = IF x <= last \/ x <= w THEN Of(x) ELSE 0
  <2>1. x \in Int /\ -1 < x
    BY CorpusType
  <2>2. hot[x] = (IF w < x /\ x <= last THEN Of(x) ELSE 0)
    BY <1>1 DEF Between
  <2>3. warm[n][x] = (IF -1 < x /\ x <= w THEN Of(x) ELSE 0)
    BY <1>1 DEF Between
  <2> QED
    BY <2>1, <2>2, <2>3
<1> QED
  BY <1>2, <1>3

(* From the places of the rows: what the view shows at each step of the      *)
(* lifecycle.                                                                *)
LEMMA ConservationFollows ==
  ASSUME TieredInv
  PROVE  Conservation
<1> SUFFICES ASSUME conn_all.meta > 0
             PROVE  conn_all_view(conn_all) =
                      [x \in Days |-> IF tierPc = "view" /\ x = wm THEN 0 ELSE Ingested[x]]
  BY DEF Conservation
<1>1. /\ max_day \in Nat /\ Of(max_day + 1) = 0
      /\ \A x \in Days : x \in Int /\ 0 <= x /\ x <= max_day + 1
  BY CorpusType
<1>2. /\ W_HOT \in Nat /\ d \in Int /\ 0 <= d /\ d <= max_day + 1
      /\ wm \in Int /\ -1 <= wm /\ wm <= max_day
  BY <1>1 DEF TieredInv, TieredType
<1>3. conn_all.meta # 0
  OBVIOUS
<1>4. \A x \in Days : Ingested[x] = IF x < d \/ (x = d /\ tierPc # "insert") THEN Of(x) ELSE 0
  BY DEF Ingested
<1>5. ASSUME NEW w \in Int, NEW n, NEW last \in Int,
             Placed(n, w, w, last), conn_all = [wm |-> w, meta |-> n], tierPc # "view",
             \A x \in Days : Ingested[x] = IF x <= last \/ x <= w THEN Of(x) ELSE 0
      PROVE  conn_all_view(conn_all) =
               [x \in Days |-> IF tierPc = "view" /\ x = wm THEN 0 ELSE Ingested[x]]
  <2>1. conn_all_view(conn_all) = [x \in Days |-> IF x <= last \/ x <= w THEN Of(x) ELSE 0]
    BY <1>5, ViewShows
  <2> QED
    BY <1>5, <2>1
<1>6. CASE tierPc = "build"
  BY <1>3, <1>6 DEF TieredInv, Lifecycle
<1>7. CASE tierPc = "insert"
  <2>1. /\ Placed(Len(warm), wm, wm, d - 1) /\ conn_all = [wm |-> wm, meta |-> Len(warm)]
        /\ wm = IF d - 1 - W_HOT >= 0 THEN d - 1 - W_HOT ELSE -1
    BY <1>3, <1>7 DEF TieredInv, Lifecycle, Views
  <2>2. wm <= d - 1
    BY <1>2, <2>1
  <2>3. \A x \in Days : Ingested[x] = IF x <= d - 1 \/ x <= wm THEN Of(x) ELSE 0
    <3> TAKE x \in Days
    <3>1. (x <= d - 1 \/ x <= wm) <=> x < d
      BY <1>1, <1>2, <2>2
    <3> QED
      BY <1>4, <1>7, <3>1
  <2>4. d - 1 \in Int
    BY <1>2
  <2> QED
    BY <1>2, <1>5, <1>7, <2>1, <2>3, <2>4
<1>8. CASE tierPc \in {"append", "advance", "delete"}
  <2>1. PICK w, n : /\ Placed(n, w, w, d) /\ conn_all = [wm |-> w, meta |-> n]
                    /\ w \in Int /\ w < d
    <3>1. CASE tierPc = "append"
      <4>1. /\ Placed(Len(warm), wm, wm, d) /\ conn_all = [wm |-> wm, meta |-> Len(warm)]
            /\ wm + 1 = d - W_HOT
        BY <1>3, <3>1 DEF TieredInv, Lifecycle, Views
      <4>2. wm < d
        BY <1>2, <4>1
      <4> QED
        BY <1>2, <4>1, <4>2
    <3>2. CASE tierPc = "advance"
      <4>1. /\ Placed(Len(warm) - 1, wm, wm, d)
            /\ conn_all = [wm |-> wm, meta |-> Len(warm) - 1]
            /\ wm + 1 = d - W_HOT
        BY <1>3, <3>2 DEF TieredInv, Lifecycle, Views
      <4>2. wm < d
        BY <1>2, <4>1
      <4> QED
        BY <1>2, <4>1, <4>2
    <3>3. CASE tierPc = "delete"
      <4>1. /\ Placed(Len(warm) - 1, wm - 1, wm - 1, d)
            /\ conn_all = [wm |-> wm - 1, meta |-> Len(warm) - 1]
            /\ wm = d - W_HOT
        BY <1>3, <3>3 DEF TieredInv, Lifecycle, Views
      <4>2. wm - 1 < d /\ wm - 1 \in Int
        BY <1>2, <4>1
      <4> QED
        BY <4>1, <4>2
    <3> QED
      BY <1>8, <3>1, <3>2, <3>3
  <2>2. \A x \in Days : Ingested[x] = IF x <= d \/ x <= w THEN Of(x) ELSE 0
    <3> TAKE x \in Days
    <3>1. (x <= d \/ x <= w) <=> (x < d \/ x = d)
      BY <1>1, <1>2, <2>1
    <3> QED
      BY <1>4, <1>8, <3>1
  <2> QED
    BY <1>2, <1>5, <1>8, <2>1, <2>2
<1>9. CASE tierPc = "view"
  <2>1. /\ Placed(Len(warm) - 1, wm - 1, wm, d)
        /\ conn_all = [wm |-> wm - 1, meta |-> Len(warm) - 1] /\ wm = d - W_HOT
    BY <1>3, <1>9 DEF TieredInv, Lifecycle, Views
  <2>2. warm[Len(warm) - 1] = Between(-1, wm - 1) /\ hot = Between(wm, d)
    BY <2>1 DEF Placed
  <2>3. conn_all_view(conn_all) =
          [x \in Days |-> IF x > wm - 1 THEN hot[x] ELSE warm[Len(warm) - 1][x]]
    BY <2>1 DEF conn_all_view
  <2>4. ASSUME NEW x \in Days
        PROVE  (IF x > wm - 1 THEN hot[x] ELSE warm[Len(warm) - 1][x])
                 = IF x = wm THEN 0 ELSE Ingested[x]
    <3>1. x \in Int /\ -1 < x /\ wm <= d
      BY <1>1, <1>2, <2>1
    <3>2. hot[x] = (IF wm < x /\ x <= d THEN Of(x) ELSE 0)
      BY <2>2 DEF Between
    <3>3. warm[Len(warm) - 1][x] = (IF -1 < x /\ x <= wm - 1 THEN Of(x) ELSE 0)
      BY <2>2 DEF Between
    <3>4. Ingested[x] = IF x < d \/ x = d THEN Of(x) ELSE 0
      BY <1>4, <1>9
    <3>5. CASE x < wm
      BY <1>2, <3>1, <3>3, <3>4, <3>5
    <3>6. CASE x = wm
      BY <1>2, <3>2, <3>6
    <3>7. CASE x > wm
      BY <1>2, <3>1, <3>2, <3>4, <3>7
    <3> QED
      BY <1>2, <3>1, <3>5, <3>6, <3>7
  <2> QED
    BY <1>9, <2>3, <2>4
<1>10. CASE tierPc \in {"probe", "fresh_hot", "fresh_warm", "done"}
  <2>1. PICK n : Placed(n, wm, wm, max_day) /\ conn_all = [wm |-> wm, meta |-> n]
    BY <1>10 DEF TieredInv, Lifecycle
  <2>2. d = max_day + 1
    BY <1>10 DEF TieredInv, Lifecycle
  <2>3. \A x \in Days : Ingested[x] = IF x <= max_day \/ x <= wm THEN Of(x) ELSE 0
    <3> TAKE x \in Days
    <3>1. x < d \/ x = d
      BY <1>1, <2>2
    <3>2. x <= max_day \/ x = max_day + 1
      BY <1>1
    <3>3. Ingested[x] = Of(x)
      BY <1>4, <1>10, <3>1
    <3> QED
      BY <1>1, <1>2, <3>2, <3>3
  <2> QED
    BY <1>1, <1>2, <1>5, <1>10, <2>1, <2>3
<1> QED
  BY <1>6, <1>7, <1>8, <1>9, <1>10 DEF TieredInv, TieredType

(* For every corpus and every hot window, through the whole lifecycle the    *)
(* view of both tables shows each ingested row once, but for the day that    *)
(* is deleted from hot before the view is made again, and the overlap probe  *)
(* tells the pinned contract from the naive and the stale one.               *)
THEOREM OneWatermarkHolds ==
  TieredInit /\ [][TieredNext]_tieredVars => []OneWatermark
<1>1. TieredInit => TieredInv
  BY TieredStarts
<1>2. TieredInv /\ [TieredNext]_tieredVars => TieredInv'
  <2> SUFFICES ASSUME TieredInv, [TieredNext]_tieredVars PROVE TieredInv'
    OBVIOUS
  <2>1. CASE UNCHANGED tieredVars
    BY <2>1 DEF tieredVars, TieredInv, TieredType, Lifecycle, Probed, Placed, Views, Between,
                ProbeTellsContracts, Ingested, Count, Days, Of, max_day
  <2> QED
    BY <2>1, BuildKept, InsertKept, AppendKept, AdvanceKept, DeleteKept, ViewKept, DoneKept,
       OverlapKept, HotKept, PostHandoffKept DEF TieredNext
<1>3. TieredInv => OneWatermark
  BY ConservationFollows DEF OneWatermark, TieredInv, Probed
<1> QED
  BY <1>1, <1>2, <1>3, PTL
-----------------------------------------------------------------------------
(* s has the element x; s has no element twice.                              *)
Has(s, x) == \E i \in 1..Len(s) : s[i] = x

Once(s) == \A i, j \in 1..Len(s) : s[i] = s[j] => i = j

(* What two sequences one after the other have.                              *)
LEMMA HasBoth ==
  ASSUME NEW S, NEW s \in Seq(S), NEW t \in Seq(S)
  PROVE  /\ s \o t \in Seq(S)
         /\ \A x : Has(s \o t, x) <=> Has(s, x) \/ Has(t, x)
         /\ Once(s) /\ Once(t) /\ (\A x : ~(Has(s, x) /\ Has(t, x))) => Once(s \o t)
<1>1. s \o t \in Seq(S) /\ Len(s) \in Nat /\ Len(t) \in Nat /\ Len(s \o t) = Len(s) + Len(t)
  OBVIOUS
<1>2. \A i \in 1..Len(s) : (s \o t)[i] = s[i]
  OBVIOUS
<1>3. \A i \in 1..Len(t) : (s \o t)[Len(s) + i] = t[i]
  OBVIOUS
<1>4. \A i \in 1..Len(s \o t) : i \in 1..Len(s) \/ (i - Len(s) \in 1..Len(t) /\ (s \o t)[i] = t[i - Len(s)])
  <2> SUFFICES ASSUME NEW i \in 1..Len(s \o t), i \notin 1..Len(s)
               PROVE  i - Len(s) \in 1..Len(t) /\ (s \o t)[i] = t[i - Len(s)]
    OBVIOUS
  <2>1. i - Len(s) \in 1..Len(t) /\ i = Len(s) + (i - Len(s))
    BY <1>1
  <2> QED
    BY <1>3, <2>1
<1>5. ASSUME NEW x
      PROVE  Has(s \o t, x) <=> Has(s, x) \/ Has(t, x)
  <2>1. Has(s \o t, x) => Has(s, x) \/ Has(t, x)
    BY <1>2, <1>4 DEF Has
  <2>2. Has(s, x) => Has(s \o t, x)
    BY <1>1, <1>2 DEF Has
  <2>3. Has(t, x) => Has(s \o t, x)
    <3> SUFFICES ASSUME NEW i \in 1..Len(t), t[i] = x PROVE Has(s \o t, x)
      BY DEF Has
    <3>1. Len(s) + i \in 1..Len(s \o t)
      BY <1>1
    <3> QED
      BY <1>3, <3>1 DEF Has
  <2> QED
    BY <2>1, <2>2, <2>3
<1>6. ASSUME Once(s), Once(t), \A x : ~(Has(s, x) /\ Has(t, x))
      PROVE  Once(s \o t)
  <2> SUFFICES ASSUME NEW i \in 1..Len(s \o t), NEW j \in 1..Len(s \o t), (s \o t)[i] = (s \o t)[j]
               PROVE  i = j
    BY DEF Once
  <2>1. CASE i \in 1..Len(s) /\ j \in 1..Len(s)
    BY <1>2, <1>6, <2>1 DEF Once
  <2>2. CASE i \in 1..Len(s) /\ j \notin 1..Len(s)
    BY <1>2, <1>4, <1>6, <2>2 DEF Has
  <2>3. CASE i \notin 1..Len(s) /\ j \in 1..Len(s)
    BY <1>2, <1>4, <1>6, <2>3 DEF Has
  <2>4. CASE i \notin 1..Len(s) /\ j \notin 1..Len(s)
    <3>1. t[i - Len(s)] = t[j - Len(s)] /\ i - Len(s) \in 1..Len(t) /\ j - Len(s) \in 1..Len(t)
      BY <1>4, <2>4
    <3>2. i - Len(s) = j - Len(s)
      BY <1>6, <3>1 DEF Once
    <3> QED
      BY <1>1, <3>2
  <2> QED
    BY <2>1, <2>2, <2>3, <2>4
<1> QED
  BY <1>1, <1>5, <1>6

(* A sequence of sequences laid end to end has what they have, and nothing   *)
(* twice if none of them does and no two have the same.                      *)
LEMMA Flattened ==
  ASSUME NEW S, NEW seqs \in Seq(Seq(S))
  PROVE  /\ FlattenSeq(seqs) \in Seq(S)
         /\ \A x : Has(FlattenSeq(seqs), x) <=> \E i \in 1..Len(seqs) : Has(seqs[i], x)
         /\ (/\ \A i \in 1..Len(seqs) : Once(seqs[i])
             /\ \A i, j \in 1..Len(seqs) : \A x : Has(seqs[i], x) /\ Has(seqs[j], x) => i = j) =>
              Once(FlattenSeq(seqs))
<1> DEFINE N == Len(seqs)
<1>1. N \in Nat /\ \A i \in 1..N : seqs[i] \in Seq(S)
  OBVIOUS
<1>2. CASE N = 0
  <2>1. FlattenSeq(seqs) = seqs /\ seqs = <<>>
    BY <1>2 DEF FlattenSeq
  <2> QED
    BY <2>1 DEF Has, Once
<1>3. CASE N # 0
  <2> DEFINE up == CHOOSE g : g = [i \in 1..N |-> IF i = 1 THEN seqs[i] ELSE g[i - 1] \o seqs[i]]
             Built(m) == \E g \in [1..m -> Seq(S)] :
                           \A i \in 1..m : g[i] = IF i = 1 THEN seqs[i] ELSE g[i - 1] \o seqs[i]
             T == {m \in Nat : m <= N => Built(m)}
  <2>1. FlattenSeq(seqs) = up[N]
    BY <1>3 DEF FlattenSeq
  <2>2. 0 \in T
    <3>1. [i \in 1..0 |-> <<>>] \in [1..0 -> Seq(S)] /\ 1..0 = {}
      OBVIOUS
    <3> QED
      BY <3>1
  <2>3. ASSUME NEW m \in Nat, m \in T
        PROVE  m + 1 \in T
    <3> HIDE DEF Built
    <3> SUFFICES ASSUME m + 1 <= N PROVE Built(m + 1)
      OBVIOUS
    <3>0. Built(m)
      BY <1>1, <2>3
    <3> USE DEF Built
    <3>1. PICK g \in [1..m -> Seq(S)] :
            \A i \in 1..m : g[i] = IF i = 1 THEN seqs[i] ELSE g[i - 1] \o seqs[i]
      BY <3>0
    <3> DEFINE last == IF m = 0 THEN seqs[1] ELSE g[m] \o seqs[m + 1]
               h == [i \in 1..m + 1 |-> IF i = m + 1 THEN last ELSE g[i]]
    <3>2. last \in Seq(S)
      <4>1. m + 1 \in 1..N /\ seqs[m + 1] \in Seq(S)
        BY <1>1
      <4>2. m # 0 => m \in 1..m /\ g[m] \in Seq(S)
        OBVIOUS
      <4>3. m # 0 => g[m] \o seqs[m + 1] \in Seq(S)
        BY <4>1, <4>2
      <4>4. m = 0 => seqs[1] \in Seq(S)
        BY <4>1
      <4> QED
        BY <4>3, <4>4
    <3>3. h \in [1..m + 1 -> Seq(S)]
      <4> HIDE DEF last
      <4> QED
        BY <3>2
    <3>4. ASSUME NEW i \in 1..m + 1
          PROVE  h[i] = IF i = 1 THEN seqs[i] ELSE h[i - 1] \o seqs[i]
      <4>1. CASE i = m + 1
        <5>1. h[i] = last
          BY <4>1
        <5>2. i # 1 => i - 1 = m /\ m \in 1..m + 1 /\ m # m + 1 /\ m # 0
          BY <4>1
        <5>3. i # 1 => h[i - 1] = g[m]
          BY <5>2
        <5>4. i = 1 <=> m = 0
          BY <4>1
        <5> HIDE DEF h
        <5> QED
          BY <4>1, <5>1, <5>2, <5>3, <5>4
      <4>2. CASE i # m + 1
        <5>1. i \in 1..m /\ (i # 1 => i - 1 \in 1..m + 1 /\ i - 1 # m + 1)
          BY <4>2
        <5>2. h[i] = g[i] /\ (i # 1 => h[i - 1] = g[i - 1])
          BY <4>2, <5>1
        <5> HIDE DEF h
        <5> QED
          BY <3>1, <5>1, <5>2
      <4> QED
        BY <4>1, <4>2
    <3> HIDE DEF h, last
    <3> QED
      BY <3>3, <3>4
  <2>4. Built(N)
    <3> HIDE DEF Built
    <3>1. Nat \subseteq T
      <4> HIDE DEF T
      <4> QED
        BY <2>2, <2>3, Induction
    <3> QED
      BY <1>1, <3>1
  <2>5. PICK g \in [1..N -> Seq(S)] :
          \A i \in 1..N : g[i] = IF i = 1 THEN seqs[i] ELSE g[i - 1] \o seqs[i]
    BY <2>4
  <2>6. g = [i \in 1..N |-> IF i = 1 THEN seqs[i] ELSE g[i - 1] \o seqs[i]]
    BY <2>5
  <2>7. up = [i \in 1..N |-> IF i = 1 THEN seqs[i] ELSE up[i - 1] \o seqs[i]]
    BY <2>6
  <2> HIDE DEF T, Built
  <2>8. /\ N \in 1..N /\ 1 \in 1..N
        /\ \A i \in 1..N : up[i] = IF i = 1 THEN seqs[i] ELSE up[i - 1] \o seqs[i]
    <3>1. \A i \in 1..N : up[i] = IF i = 1 THEN seqs[i] ELSE up[i - 1] \o seqs[i]
      <4> HIDE DEF up
      <4> QED
        BY <2>7
    <3>2. N \in 1..N /\ 1 \in 1..N
      BY <1>1, <1>3
    <3> QED
      BY <3>1, <3>2
  <2> HIDE DEF up
  <2> DEFINE Good(m) ==
        /\ up[m] \in Seq(S)
        /\ \A x : Has(up[m], x) <=> \E i \in 1..m : Has(seqs[i], x)
        /\ (/\ \A i \in 1..N : Once(seqs[i])
            /\ \A i, j \in 1..N : \A x : Has(seqs[i], x) /\ Has(seqs[j], x) => i = j) => Once(up[m])
             B == {m \in Nat : m \in 1..N => Good(m)}
  <2>9. 0 \in B
    OBVIOUS
  <2>10. ASSUME NEW m \in Nat, m \in B
         PROVE  m + 1 \in B
    <3> HIDE DEF Good
    <3> SUFFICES ASSUME m + 1 \in 1..N PROVE Good(m + 1)
      OBVIOUS
    <3>1. CASE m = 0
      <4>0. \A i \in 1..N : up[i] = IF i = 1 THEN seqs[i] ELSE up[i - 1] \o seqs[i]
        BY <2>8
      <4>1. up[m + 1] = seqs[m + 1] /\ m + 1 = 1 /\ \A i \in 1..(m + 1) : i = m + 1
        <5>1. m + 1 = 1 /\ \A i \in 1..(m + 1) : i = m + 1
          BY <3>1
        <5>2. 1 \in 1..N
          BY <2>8
        <5>3. up[1] = seqs[1]
          BY <4>0, <5>2
        <5> QED
          BY <5>1, <5>3
      <4>2. seqs[m + 1] \in Seq(S) /\ m + 1 \in 1..(m + 1)
        BY <1>1, <4>1
      <4> QED
        BY <4>1, <4>2 DEF Good
    <3>2. CASE m # 0
      <4>1. m \in 1..N /\ m + 1 # 1 /\ (m + 1) - 1 = m
        BY <3>2
      <4>2. Good(m)
        BY <2>10, <4>1
      <4>3. up[m + 1] = up[m] \o seqs[m + 1]
        BY <2>8, <4>1
      <4>4. up[m] \in Seq(S) /\ seqs[m + 1] \in Seq(S)
        BY <1>1, <4>2 DEF Good
      <4>5. /\ up[m + 1] \in Seq(S)
            /\ \A x : Has(up[m + 1], x) <=> Has(up[m], x) \/ Has(seqs[m + 1], x)
            /\ Once(up[m]) /\ Once(seqs[m + 1]) /\ (\A x : ~(Has(up[m], x) /\ Has(seqs[m + 1], x)))
                 => Once(up[m + 1])
        <5> DEFINE s == up[m]
                   t == seqs[m + 1]
        <5>1. s \in Seq(S) /\ t \in Seq(S)
          BY <4>4
        <5> HIDE DEF s, t
        <5>2. /\ s \o t \in Seq(S)
              /\ \A x : Has(s \o t, x) <=> Has(s, x) \/ Has(t, x)
              /\ Once(s) /\ Once(t) /\ (\A x : ~(Has(s, x) /\ Has(t, x))) => Once(s \o t)
          BY <5>1, HasBoth
        <5> QED
          BY <4>3, <5>2 DEF s, t
      <4>6. \A x : Has(up[m], x) <=> \E i \in 1..m : Has(seqs[i], x)
        BY <4>2 DEF Good
      <4>7. ASSUME NEW x
            PROVE  Has(up[m + 1], x) <=> \E i \in 1..(m + 1) : Has(seqs[i], x)
        <5>1. \A i \in 1..(m + 1) : i \in 1..m \/ i = m + 1
          OBVIOUS
        <5>2. 1..m \subseteq 1..(m + 1) /\ m + 1 \in 1..(m + 1)
          OBVIOUS
        <5> QED
          BY <4>5, <4>6, <5>1, <5>2
      <4>8. ASSUME \A i \in 1..N : Once(seqs[i]),
                   \A i, j \in 1..N : \A x : Has(seqs[i], x) /\ Has(seqs[j], x) => i = j
            PROVE  Once(up[m + 1])
        <5>1. Once(up[m]) /\ Once(seqs[m + 1])
          BY <4>2, <4>8 DEF Good
        <5>2. ASSUME NEW x, Has(up[m], x), Has(seqs[m + 1], x) PROVE FALSE
          <6>1. PICK i \in 1..m : Has(seqs[i], x)
            BY <4>6, <5>2
          <6>2. i \in 1..N /\ i # m + 1
            OBVIOUS
          <6> QED
            BY <4>8, <5>2, <6>1, <6>2
        <5> QED
          BY <4>5, <5>1, <5>2
      <4> QED
        BY <4>5, <4>7, <4>8 DEF Good
    <3> QED
      BY <3>1, <3>2
  <2>11. Good(N)
    <3> HIDE DEF Good
    <3>1. Nat \subseteq B
      <4> HIDE DEF B
      <4> QED
        BY <2>9, <2>10, Induction
    <3> QED
      BY <1>1, <2>8, <3>1
  <2> QED
    BY <2>1, <2>11
<1> QED
  BY <1>2, <1>3

Hops == [from : STRING, to : STRING, rel : STRING, dir : {"out", "in"}, quality : STRING,
         trust : Nat]

(* Trust is a number, of whatever quality.                                   *)
LEMMA TrustIs == \A q : trust(q) \in Nat
<1> SUFFICES ASSUME NEW q PROVE trust(q) \in Nat
  OBVIOUS
<1>1. DOMAIN TRUST = {"measured", "skos_typed", "ontology_axiom", "doc_link", "ontology_curated",
                      "curated", "ctid_reroute", "scf_strm", "derived", "artifact_cooccurrence",
                      "unmapped"}
  BY DEF TRUST
<1>2. \A x \in DOMAIN TRUST : TRUST[x] \in Nat
  BY DEF TRUST
<1> QED
  BY <1>2 DEF trust

(* What edge i adds to adj(n).                                               *)
Entries(n, i) ==
  LET e == GraphEdges[i]
  IN IF Repeated(i) THEN <<>>
     ELSE (IF e.src = n THEN <<Hop(n, e.dst, "out", e)>> ELSE <<>>) \o
          (IF e.dst = n THEN <<Hop(n, e.src, "in", e)>> ELSE <<>>)

(* An edge is a record of strings.                                           *)
LEMMA EdgeType ==
  ASSUME NEW i \in DOMAIN GraphEdges
  PROVE  /\ GraphEdges[i] \in [src : STRING, dst : STRING, rel : STRING, quality : STRING]
         /\ DOMAIN GraphEdges = 1..Len(GraphEdges) /\ Len(GraphEdges) \in Nat
<1> DEFINE E == [src : STRING, dst : STRING, rel : STRING, quality : STRING]
<1>1. GraphEdges \in Seq(E)
  BY PathsAssumption
<1> HIDE DEF E
<1>2. DOMAIN GraphEdges = 1..Len(GraphEdges) /\ Len(GraphEdges) \in Nat /\ GraphEdges[i] \in E
  BY <1>1
<1> QED
  BY <1>2 DEF E

(* An edge gives its source an entry out of it and its destination one into  *)
(* it, and a repeated edge gives none.                                       *)
LEMMA EntriesAre ==
  ASSUME NEW n \in STRING, NEW i \in DOMAIN GraphEdges
  PROVE  /\ Entries(n, i) \in Seq(Hops)
         /\ Once(Entries(n, i))
         /\ \A h : Has(Entries(n, i), h) <=>
              /\ ~Repeated(i)
              /\ \/ GraphEdges[i].src = n /\ h = Hop(n, GraphEdges[i].dst, "out", GraphEdges[i])
                 \/ GraphEdges[i].dst = n /\ h = Hop(n, GraphEdges[i].src, "in", GraphEdges[i])
<1> DEFINE e == GraphEdges[i]
           out == Hop(n, e.dst, "out", e)
           in == Hop(n, e.src, "in", e)
           s == IF e.src = n THEN <<out>> ELSE <<>>
           t == IF e.dst = n THEN <<in>> ELSE <<>>
<1>1. out \in Hops /\ in \in Hops /\ out.dir = "out" /\ in.dir = "in"
  <2>1. e \in [src : STRING, dst : STRING, rel : STRING, quality : STRING]
    BY EdgeType
  <2> HIDE DEF e
  <2> QED
    BY <2>1, TrustIs DEF Hop, Hops
<1>2. out # in
  BY <1>1
<1> HIDE DEF out, in
<1>3. s \in Seq(Hops) /\ t \in Seq(Hops)
  BY <1>1
<1>4. /\ \A h : Has(s, h) <=> e.src = n /\ h = out
      /\ \A h : Has(t, h) <=> e.dst = n /\ h = in
      /\ Once(s) /\ Once(t)
  BY DEF Has, Once
<1>5. Entries(n, i) = IF Repeated(i) THEN <<>> ELSE s \o t
  BY DEF Entries, out, in
<1> HIDE DEF s, t
<1>6. /\ s \o t \in Seq(Hops)
      /\ \A h : Has(s \o t, h) <=> Has(s, h) \/ Has(t, h)
      /\ Once(s \o t)
  BY <1>2, <1>3, <1>4, HasBoth
<1>7. <<>> \in Seq(Hops) /\ Once(<<>>) /\ \A h : ~Has(<<>>, h)
  BY DEF Once, Has
<1>8. CASE Repeated(i)
  BY <1>5, <1>7, <1>8
<1>9. CASE ~Repeated(i)
  BY <1>4, <1>5, <1>6, <1>9 DEF out, in
<1> QED
  BY <1>8, <1>9

(* The entries of a node are hops from it, none of them twice, and those of  *)
(* the edges that do not repeat an earlier one.                              *)
LEMMA AdjIs ==
  ASSUME NEW n \in STRING
  PROVE  /\ adj(n) \in Seq(Hops)
         /\ Once(adj(n))
         /\ \A h : Has(adj(n), h) <=> \E i \in DOMAIN GraphEdges : Has(Entries(n, i), h)
<1> DEFINE seqs == [i \in DOMAIN GraphEdges |-> Entries(n, i)]
<1>1. adj(n) = FlattenSeq(seqs)
  BY DEF adj, Entries
<1>2. DOMAIN GraphEdges = 1..Len(GraphEdges) /\ Len(GraphEdges) \in Nat
  BY PathsAssumption
<1>3. \A i \in DOMAIN GraphEdges : seqs[i] = Entries(n, i) /\ seqs[i] \in Seq(Hops) /\ Once(seqs[i])
  BY EntriesAre
<1>4. seqs \in Seq(Seq(Hops)) /\ Len(seqs) = Len(GraphEdges)
  <2>1. seqs \in [1..Len(GraphEdges) -> Seq(Hops)]
    BY <1>2, <1>3
  <2> HIDE DEF seqs
  <2> QED
    BY <1>2, <2>1
<1> HIDE DEF seqs
<1>5. ASSUME NEW i \in DOMAIN GraphEdges, NEW j \in DOMAIN GraphEdges, NEW h,
             Has(seqs[i], h), Has(seqs[j], h)
      PROVE  i = j
  <2>1. Has(Entries(n, i), h) /\ Has(Entries(n, j), h)
    BY <1>3, <1>5
  <2>2. ~Repeated(i) /\ ~Repeated(j)
    BY <2>1, EntriesAre
  <2>3. /\ \/ GraphEdges[i].src = n /\ h = Hop(n, GraphEdges[i].dst, "out", GraphEdges[i])
           \/ GraphEdges[i].dst = n /\ h = Hop(n, GraphEdges[i].src, "in", GraphEdges[i])
        /\ \/ GraphEdges[j].src = n /\ h = Hop(n, GraphEdges[j].dst, "out", GraphEdges[j])
           \/ GraphEdges[j].dst = n /\ h = Hop(n, GraphEdges[j].src, "in", GraphEdges[j])
    BY <2>1, EntriesAre
  <2>4. /\ GraphEdges[i].src = GraphEdges[j].src /\ GraphEdges[i].dst = GraphEdges[j].dst
        /\ GraphEdges[i].rel = GraphEdges[j].rel
        /\ GraphEdges[i].quality = GraphEdges[j].quality
    BY <2>3 DEF Hop
  <2>5. GraphEdges[i] = GraphEdges[j]
    BY <2>4, EdgeType
  <2>6. i \in Nat /\ j \in Nat /\ i >= 1 /\ j >= 1
    BY <1>2
  <2>7. ~(i < j) /\ ~(j < i)
    BY <2>2, <2>5, <2>6 DEF Repeated
  <2> QED
    BY <2>6, <2>7
<1>6. /\ FlattenSeq(seqs) \in Seq(Hops)
      /\ \A x : Has(FlattenSeq(seqs), x) <=> \E i \in 1..Len(seqs) : Has(seqs[i], x)
      /\ Once(FlattenSeq(seqs))
  <2>1. \A i \in 1..Len(seqs) : Once(seqs[i])
    BY <1>2, <1>3, <1>4
  <2>2. \A i, j \in 1..Len(seqs) : \A x : Has(seqs[i], x) /\ Has(seqs[j], x) => i = j
    BY <1>2, <1>4, <1>5
  <2> QED
    BY <1>4, <2>1, <2>2, Flattened
<1> QED
  BY <1>1, <1>2, <1>3, <1>4, <1>6

(* Each entry of a node joins two nodes that an edge joins, with the trust   *)
(* of that edge, and each edge is an entry of both.                          *)
LEMMA AdjJoins ==
  /\ \A n \in STRING : \A h : Has(adj(n), h) =>
       /\ h \in Hops /\ h.from = n
       /\ \E i \in DOMAIN GraphEdges :
            /\ {GraphEdges[i].src, GraphEdges[i].dst} = {n, h.to}
            /\ trust(GraphEdges[i].quality) = h.trust
  /\ \A i \in DOMAIN GraphEdges : \A m, n :
       (\/ GraphEdges[i].src = m /\ GraphEdges[i].dst = n
        \/ GraphEdges[i].src = n /\ GraphEdges[i].dst = m) =>
         \E h : Has(adj(m), h) /\ h.to = n /\ h.trust = trust(GraphEdges[i].quality)
<1>1. ASSUME NEW n \in STRING, NEW h, Has(adj(n), h)
      PROVE  /\ h \in Hops /\ h.from = n
             /\ \E i \in DOMAIN GraphEdges :
                  /\ {GraphEdges[i].src, GraphEdges[i].dst} = {n, h.to}
                  /\ trust(GraphEdges[i].quality) = h.trust
  <2>1. PICK i \in DOMAIN GraphEdges : Has(Entries(n, i), h)
    BY <1>1, AdjIs
  <2>2. \/ GraphEdges[i].src = n /\ h = Hop(n, GraphEdges[i].dst, "out", GraphEdges[i])
        \/ GraphEdges[i].dst = n /\ h = Hop(n, GraphEdges[i].src, "in", GraphEdges[i])
    BY <2>1, EntriesAre
  <2>3. h \in Hops
    <3>1. PICK j \in 1..Len(adj(n)) : adj(n)[j] = h
      BY <1>1 DEF Has
    <3>2. \A s \in Seq(Hops) : \A k \in 1..Len(s) : s[k] \in Hops
      OBVIOUS
    <3>3. adj(n)[j] \in Hops
      BY <3>2, AdjIs
    <3> QED
      BY <3>1, <3>3
  <2>4. h.from = n /\ h.trust = trust(GraphEdges[i].quality)
        /\ {GraphEdges[i].src, GraphEdges[i].dst} = {n, h.to}
    BY <2>2 DEF Hop
  <2> QED
    BY <2>3, <2>4
<1>2. ASSUME NEW i \in DOMAIN GraphEdges, NEW m, NEW n,
             \/ GraphEdges[i].src = m /\ GraphEdges[i].dst = n
             \/ GraphEdges[i].src = n /\ GraphEdges[i].dst = m
      PROVE  \E h : Has(adj(m), h) /\ h.to = n /\ h.trust = trust(GraphEdges[i].quality)
  <2> DEFINE Same == {j \in DOMAIN GraphEdges : GraphEdges[j] = GraphEdges[i]}
             k == Min(Same)
  <2>1. DOMAIN GraphEdges = 1..Len(GraphEdges) /\ Len(GraphEdges) \in Nat
    BY PathsAssumption
  <2>2. Same \subseteq Nat /\ Same # {}
    BY <2>1
  <2>3. k \in Same /\ \A j \in Same : k <= j
    <3> HIDE DEF Same
    <3> QED
      BY <2>2, MinIn
  <2> HIDE DEF k
  <2>4. k \in DOMAIN GraphEdges /\ GraphEdges[k] = GraphEdges[i] /\ ~Repeated(k)
    <3>1. \A j \in 1..(k - 1) : j \in DOMAIN GraphEdges /\ j < k
      BY <2>1, <2>3
    <3> QED
      BY <2>1, <2>3, <3>1 DEF Repeated
  <2>5. m \in STRING
    BY <1>2, EdgeType
  <2>6. CASE GraphEdges[i].src = m /\ GraphEdges[i].dst = n
    <3> DEFINE h == Hop(m, n, "out", GraphEdges[i])
    <3>1. Has(Entries(m, k), h)
      BY <2>4, <2>5, <2>6, EntriesAre
    <3>2. Has(adj(m), h)
      BY <2>4, <2>5, <3>1, AdjIs
    <3> QED
      BY <3>2 DEF Hop
  <2>7. CASE GraphEdges[i].src = n /\ GraphEdges[i].dst = m
    <3> DEFINE h == Hop(m, n, "in", GraphEdges[i])
    <3>1. Has(Entries(m, k), h)
      BY <2>4, <2>5, <2>7, EntriesAre
    <3>2. Has(adj(m), h)
      BY <2>4, <2>5, <3>1, AdjIs
    <3> QED
      BY <3>2 DEF Hop
  <2> QED
    BY <1>2, <2>6, <2>7
<1> QED
  BY <1>1, <1>2

(* The states of a search.                                                  *)
Asked == [src : STRING, dst : STRING, max_hops : 1..6, min_trust : Int, limit : Int, budget : Int]

Frames == [node : STRING, todo : Seq(Hops), entered : BOOLEAN]

Results == [hops : Seq(Hops), path_trust : Int, crosses_inference : BOOLEAN]

PathsType ==
  /\ search = NoSearch => path = <<>> /\ hops = <<>> /\ found = <<>>
  /\ search # NoSearch => search \in Asked
  /\ path \in Seq(Frames) /\ hops \in Seq(Hops) /\ found \in Seq(Results) /\ expansions \in Int

(* Hops one after the other from the source, that meet no node twice; and    *)
(* those that paths() is to find.                                            *)
Walk(h) ==
  /\ \A j \in 1..Len(h) :
       /\ Has(adj(h[j].from), h[j]) /\ h[j].trust >= search.min_trust
       /\ h[j].from = IF j = 1 THEN search.src ELSE h[j - 1].to
       /\ h[j].to # search.src
  /\ \A i, j \in 1..Len(h) : h[i].to = h[j].to => i = j

Trail(h) ==
  /\ h \in Seq(Hops) /\ Walk(h)
  /\ Len(h) \in 1..search.max_hops /\ h[Len(h)].to = search.dst

(* The stack is a walk, and what is left of a frame are entries of its node  *)
(* other than the one it went on with.                                       *)
FrameInv(i) ==
  /\ path[i].node = IF i = 1 THEN search.src ELSE hops[i - 1].to
  /\ i < Len(path) => path[i].entered
  /\ path[i].entered => i <= search.max_hops
  /\ ~path[i].entered => path[i].todo = adj(path[i].node)
  /\ Once(path[i].todo)
  /\ \A h : Has(path[i].todo, h) => Has(adj(path[i].node), h)
  /\ i <= Len(hops) => ~Has(path[i].todo, hops[i])

StackInv ==
  /\ path = <<>> => hops = <<>>
  /\ path # <<>> => Len(path) = Len(hops) + 1
  /\ search # NoSearch => Len(hops) <= search.max_hops
  /\ Walk(hops)
  /\ \A i \in 1..Len(path) : FrameInv(i)

(* The stack p with the hops w between its frames has still to come to h: at  *)
(* some frame h has gone the way of the stack, and its next hop is left, or   *)
(* the frame has not been entered.                                           *)
Awaits(h, p, w) ==
  \E i \in 1..Len(p) :
    /\ i - 1 <= Len(h)
    /\ \A j \in 1..(i - 1) : h[j] = w[j]
    /\ \/ i = Len(p) /\ ~p[i].entered
       \/ i <= Len(h) /\ p[i].entered /\ Has(p[i].todo, h[i])

FoundInv ==
  search # NoSearch =>
    /\ \A i \in 1..Len(found) : Trail(found[i].hops) /\ ~Awaits(found[i].hops, path, hops)
    /\ \A i, j \in 1..Len(found) : found[i].hops = found[j].hops => i = j
    /\ ~Full => \A h : Trail(h) =>
         Awaits(h, path, hops) \/ \E i \in 1..Len(found) : found[i].hops = h

PathInv == PathsType /\ StackInv /\ FoundInv

(* The server starts with no search under way.                               *)
LEMMA PathStarts == PathInit => PathInv
<1> SUFFICES ASSUME PathInit PROVE PathInv
  OBVIOUS
<1>1. search = NoSearch /\ path = <<>> /\ hops = <<>> /\ found = <<>> /\ expansions = 0
  BY DEF PathInit
<1>2. PathsType
  BY <1>1 DEF PathsType
<1>3. StackInv
  BY <1>1 DEF StackInv, Walk
<1>4. FoundInv
  BY <1>1 DEF FoundInv
<1> QED
  BY <1>2, <1>3, <1>4 DEF PathInv

(* The arguments are clamped, and are then arguments.                        *)
LEMMA ClampedIs ==
  ASSUME NEW s \in Searches
  PROVE  Clamped(s) \in Asked /\ Clamped(s) # NoSearch
<1>1. s \in [src : STRING, dst : STRING, max_hops : Int, min_trust : Int, limit : Int, budget : Int]
  BY PathsAssumption
<1> DEFINE m == Min({s.max_hops, 6})
<1>2. m \in Int /\ m <= 6
  <2>1. \E x \in {s.max_hops, 6} : \A y \in {s.max_hops, 6} : x <= y
    <3>1. s.max_hops \in Int
      BY <1>1
    <3>2. s.max_hops <= 6 \/ 6 <= s.max_hops
      BY <3>1
    <3> QED
      BY <3>1, <3>2
  <2>2. m \in {s.max_hops, 6} /\ \A y \in {s.max_hops, 6} : m <= y
    BY <2>1 DEF Min
  <2> QED
    BY <1>1, <2>2
<1> HIDE DEF m
<1>3. Max({1, m}) \in 1..6
  <2>1. \E x \in {1, m} : \A y \in {1, m} : y <= x
    BY <1>2
  <2>2. Max({1, m}) \in {1, m} /\ \A y \in {1, m} : y <= Max({1, m})
    BY <2>1 DEF Max
  <2> QED
    BY <1>2, <2>2
<1>4. Clamped(s) = [s EXCEPT !.max_hops = Max({1, m})]
  BY DEF Clamped, m
<1>5. Clamped(s) \in Asked
  BY <1>1, <1>3, <1>4 DEF Asked
<1>6. Clamped(s) # NoSearch
  <2>1. "src" \in DOMAIN Clamped(s)
    BY <1>5 DEF Asked
  <2>2. DOMAIN NoSearch = {}
    BY DEF NoSearch
  <2> QED
    BY <2>1, <2>2
<1> QED
  BY <1>5, <1>6

(* A call of paths() starts with the source alone on the stack, from which   *)
(* every trail is still to come.                                             *)
LEMMA SearchKept ==
  ASSUME PathInv, NEW s \in Searches, Search(s)
  PROVE  PathInv'
<1>1. /\ search = NoSearch /\ search' = Clamped(s) /\ search' \in Asked /\ search' # NoSearch
      /\ path' = <<Frame(s.src)>> /\ hops' = <<>> /\ found' = <<>> /\ expansions' = s.budget
  BY ClampedIs DEF PathInv, PathsType, Search
<1>2. s.src \in STRING /\ s.budget \in Int /\ search'.src = s.src
  <2>1. s \in [src : STRING, dst : STRING, max_hops : Int, min_trust : Int, limit : Int, budget : Int]
    BY PathsAssumption
  <2> QED
    BY <1>1, <2>1 DEF Clamped
<1>3. /\ adj(s.src) \in Seq(Hops) /\ Once(adj(s.src))
      /\ Frame(s.src) \in Frames
      /\ Frame(s.src).node = s.src /\ ~Frame(s.src).entered /\ Frame(s.src).todo = adj(s.src)
  BY <1>2, AdjIs DEF Frame, Frames
<1>4. path' \in Seq(Frames) /\ Len(path') = 1 /\ path'[1] = Frame(s.src) /\ hops' \in Seq(Hops)
      /\ Len(hops') = 0 /\ Len(found') = 0 /\ found' \in Seq(Results)
  BY <1>1, <1>3
<1>5. PathsType'
  BY <1>1, <1>2, <1>4 DEF PathsType
<1>6. StackInv'
  <2>1. FrameInv(1)'
    BY <1>2, <1>3, <1>4 DEF FrameInv
  <2>2. \A i \in 1..Len(path') : i = 1
    BY <1>4
  <2>3. \A i \in 1..Len(path') : FrameInv(i)'
    BY <2>1, <2>2
  <2>4. Walk(hops)'
    BY <1>4 DEF Walk
  <2>5. Len(hops') <= search'.max_hops
    BY <1>1, <1>4 DEF Asked
  <2> QED
    BY <1>1, <1>4, <2>3, <2>4, <2>5 DEF StackInv
<1>7. FoundInv'
  <2>1. ASSUME NEW h, Trail(h)'
        PROVE  Awaits(h, path', hops')
    <3>1. 0 <= Len(h)
      BY <2>1 DEF Trail
    <3> QED
      BY <1>3, <1>4, <3>1 DEF Awaits
  <2> QED
    BY <1>4, <2>1 DEF FoundInv
<1> QED
  BY <1>5, <1>6, <1>7 DEF PathInv

(* What holds while a search is under way.                                   *)
LEMMA UnderWay ==
  ASSUME PathInv, path # <<>>
  PROVE  /\ search # NoSearch /\ search \in Asked
         /\ path \in Seq(Frames) /\ hops \in Seq(Hops) /\ found \in Seq(Results)
         /\ Len(path) \in Nat \ {0} /\ Len(hops) \in Nat /\ Len(path) = Len(hops) + 1
         /\ Len(hops) <= search.max_hops
         /\ Top \in Frames /\ \A i \in 1..Len(path) : path[i] \in Frames /\ FrameInv(i)
         /\ \A i \in 1..Len(hops) : hops[i] \in Hops
BY DEF PathInv, PathsType, StackInv, Top

(* The hops of the stack followed by others; those of whom the top frame is   *)
(* the next.                                                                 *)
Follows(h) == Len(hops) <= Len(h) /\ \A j \in 1..Len(hops) : h[j] = hops[j]

(* Those that a frame below the top has still to come to.                     *)
Below(h) ==
  \E i \in 1..Len(hops) :
    /\ i <= Len(h) /\ Has(path[i].todo, h[i])
    /\ \A j \in 1..(i - 1) : h[j] = hops[j]

(* What the stack has still to come to is what a frame below the top has,    *)
(* and what follows the stack: any of it before the top is entered, and then *)
(* by the entries that are left.                                             *)
LEMMA AwaitsTop ==
  ASSUME PathInv, path # <<>>, NEW h \in Seq(Hops)
  PROVE  Awaits(h, path, hops) <=>
           \/ Below(h)
           \/ Follows(h) /\ (Top.entered => Len(hops) < Len(h) /\ Has(Top.todo, h[Len(path)]))
<1>1. /\ Len(path) \in Nat \ {0} /\ Len(hops) \in Nat /\ Len(path) = Len(hops) + 1
      /\ \A i \in 1..Len(path) : path[i] \in Frames /\ FrameInv(i)
  BY UnderWay
<1>2. Len(h) \in Nat
  OBVIOUS
<1>3. \A i \in 1..Len(hops) : i \in 1..Len(path) /\ i # Len(path) /\ path[i].entered
  BY <1>1 DEF FrameInv
<1>4. Len(path) \in 1..Len(path) /\ Len(path) - 1 = Len(hops)
      /\ \A i \in 1..Len(path) : i \in 1..Len(hops) \/ i = Len(path)
  BY <1>1
<1>5. ASSUME Awaits(h, path, hops)
      PROVE  \/ Below(h)
             \/ Follows(h) /\ (Top.entered => Len(hops) < Len(h) /\ Has(Top.todo, h[Len(path)]))
  <2>1. PICK i \in 1..Len(path) :
          /\ i - 1 <= Len(h)
          /\ \A j \in 1..(i - 1) : h[j] = hops[j]
          /\ \/ i = Len(path) /\ ~path[i].entered
             \/ i <= Len(h) /\ path[i].entered /\ Has(path[i].todo, h[i])
    BY <1>5 DEF Awaits
  <2>2. CASE i \in 1..Len(hops)
    BY <1>3, <2>1, <2>2 DEF Below
  <2>3. CASE i = Len(path)
    BY <1>1, <1>2, <1>4, <2>1, <2>3 DEF Follows, Top
  <2> QED
    BY <1>4, <2>2, <2>3
<1>6. ASSUME NEW i \in 1..Len(hops), i <= Len(h), \A j \in 1..(i - 1) : h[j] = hops[j],
             Has(path[i].todo, h[i])
      PROVE  Awaits(h, path, hops)
  <2>1. i \in 1..Len(path) /\ path[i].entered /\ i - 1 <= Len(h)
    BY <1>2, <1>3, <1>6
  <2> QED
    BY <1>6, <2>1 DEF Awaits
<1>7. ASSUME Follows(h), Top.entered => Len(hops) < Len(h) /\ Has(Top.todo, h[Len(path)])
      PROVE  Awaits(h, path, hops)
  <2>1. Len(path) - 1 <= Len(h) /\ \A j \in 1..(Len(path) - 1) : h[j] = hops[j]
    BY <1>1, <1>2, <1>4, <1>7 DEF Follows
  <2>2. Top.entered => Len(path) <= Len(h)
    BY <1>1, <1>2, <1>7
  <2> QED
    BY <1>4, <1>7, <2>1, <2>2 DEF Awaits, Top
<1> QED
  BY <1>5, <1>6, <1>7 DEF Below

(* A return takes the top frame away, and with it what only that awaited.     *)
LEMMA Popped ==
  ASSUME PathInv, path # <<>>, Return, search' = search
  PROVE  /\ path' \in Seq(Frames) /\ hops' \in Seq(Hops) /\ StackInv'
         /\ \A h \in Seq(Hops) : Awaits(h, path', hops') <=> Below(h)
<1>1. /\ Len(path) \in Nat \ {0} /\ Len(hops) \in Nat /\ Len(path) = Len(hops) + 1
      /\ search # NoSearch /\ search \in Asked /\ Len(hops) <= search.max_hops
      /\ path \in Seq(Frames) /\ hops \in Seq(Hops)
      /\ \A i \in 1..Len(path) : path[i] \in Frames /\ FrameInv(i)
  BY UnderWay
<1>2. path' = SubSeq(path, 1, Len(path) - 1) /\ hops' = IF hops = <<>> THEN hops ELSE SubSeq(hops, 1, Len(hops) - 1)
  BY DEF Return, Front
<1>3. path' \in Seq(Frames) /\ Len(path') = Len(hops) /\ \A i \in 1..Len(hops) : path'[i] = path[i]
  BY <1>1, <1>2
<1>4. hops' \in Seq(Hops) /\ Len(hops') = (IF hops = <<>> THEN 0 ELSE Len(hops) - 1)
      /\ \A i \in 1..Len(hops') : hops'[i] = hops[i]
  BY <1>1, <1>2
<1>5. /\ hops = <<>> <=> Len(hops) = 0
      /\ Len(hops') \in Nat /\ Len(hops') <= Len(hops)
      /\ path' = <<>> <=> Len(hops) = 0
      /\ Len(hops) # 0 => Len(path') = Len(hops') + 1
  BY <1>1, <1>3, <1>4
<1>6. Walk(hops)'
  <2>1. Walk(hops)
    BY DEF PathInv, StackInv
  <2>2. \A j \in 1..Len(hops') : j \in 1..Len(hops) /\ (j # 1 => j - 1 \in 1..Len(hops'))
    BY <1>1, <1>5
  <2> QED
    BY <1>4, <2>1, <2>2 DEF Walk
<1>7. ASSUME NEW i \in 1..Len(path')
      PROVE  FrameInv(i)'
  <2>1. i \in 1..Len(path) /\ i \in 1..Len(hops) /\ i < Len(path)
    BY <1>1, <1>3
  <2>2. FrameInv(i) /\ path'[i] = path[i] /\ path[i].entered
    BY <1>1, <1>3, <2>1 DEF FrameInv
  <2>3. i # 1 => i - 1 \in 1..Len(hops')
    BY <1>3, <1>5, <2>1
  <2>4. i # 1 => hops'[i - 1] = hops[i - 1]
    BY <1>4, <2>3
  <2>5. i <= Len(hops') => i <= Len(hops) /\ hops'[i] = hops[i]
    BY <1>4, <2>1, <1>5
  <2> QED
    BY <2>2, <2>4, <2>5 DEF FrameInv
<1>8. StackInv'
  <2>1. path' = <<>> => hops' = <<>>
    BY <1>2, <1>5
  <2>2. path' # <<>> => Len(path') = Len(hops') + 1
    BY <1>5
  <2>3. Len(hops') <= search.max_hops
    BY <1>1, <1>5 DEF Asked
  <2> QED
    BY <1>6, <1>7, <2>1, <2>2, <2>3 DEF StackInv
<1>9. ASSUME NEW h \in Seq(Hops)
      PROVE  Awaits(h, path', hops') <=> Below(h)
  <2>1. ASSUME NEW i \in 1..Len(hops)
        PROVE  /\ path'[i] = path[i] /\ path[i].entered
               /\ \A j \in 1..(i - 1) : j \in 1..Len(hops') /\ hops'[j] = hops[j]
               /\ i <= Len(h) => i - 1 <= Len(h)
    <3>1. i \in 1..Len(path) /\ i < Len(path)
      BY <1>1
    <3>2. \A j \in 1..(i - 1) : j \in 1..Len(hops')
      BY <1>1, <1>4, <1>5
    <3>3. Len(h) \in Nat
      OBVIOUS
    <3>4. path[i].entered
      BY <1>1, <3>1 DEF FrameInv
    <3>5. i <= Len(h) => i - 1 <= Len(h)
      BY <3>3
    <3> QED
      BY <1>3, <1>4, <3>2, <3>4, <3>5
  <2>3. Awaits(h, path', hops') => Below(h)
    <3> SUFFICES ASSUME Awaits(h, path', hops') PROVE Below(h)
      OBVIOUS
    <3>1. PICK i \in 1..Len(path') :
            /\ i - 1 <= Len(h)
            /\ \A j \in 1..(i - 1) : h[j] = hops'[j]
            /\ \/ i = Len(path') /\ ~path'[i].entered
               \/ i <= Len(h) /\ path'[i].entered /\ Has(path'[i].todo, h[i])
      BY DEF Awaits
    <3>2. i \in 1..Len(hops)
      BY <1>3
    <3> QED
      BY <2>1, <3>1, <3>2 DEF Below
  <2>4. Below(h) => Awaits(h, path', hops')
    <3> SUFFICES ASSUME Below(h) PROVE Awaits(h, path', hops')
      OBVIOUS
    <3>1. PICK i \in 1..Len(hops) : /\ i <= Len(h) /\ Has(path[i].todo, h[i])
                                    /\ \A j \in 1..(i - 1) : h[j] = hops[j]
      BY DEF Below
    <3>2. i \in 1..Len(path')
      BY <1>3
    <3> QED
      BY <2>1, <3>1, <3>2 DEF Awaits
  <2> QED
    BY <2>3, <2>4
<1> QED
  BY <1>3, <1>4, <1>8, <1>9

(* Nothing that was found is awaited again, and what was awaited is found or  *)
(* still awaited: enough to keep FoundInv when found stays.                   *)
LEMMA FoundStays ==
  ASSUME PathInv, path # <<>>, search' = search, found' = found,
         expansions' <= expansions, expansions' \in Int,
         \A h \in Seq(Hops) : Awaits(h, path', hops') => Awaits(h, path, hops),
         expansions' > 0 => \A h : Trail(h) /\ Awaits(h, path, hops) /\ ~Full => Awaits(h, path', hops')
  PROVE  FoundInv'
<1>1. search # NoSearch /\ search \in Asked /\ found \in Seq(Results)
  BY UnderWay
<1>2. FoundInv
  BY DEF PathInv
<1>3. \A h : Trail(h)' <=> Trail(h)
  BY DEF Trail, Walk
<1>4. \A h : Trail(h) => h \in Seq(Hops)
  BY DEF Trail
<1>5. ASSUME ~Full'
      PROVE  ~Full /\ expansions' > 0
  <2>1. expansions \in Int /\ Len(found) \in Nat /\ search.limit \in Int
    BY <1>1 DEF PathInv, PathsType, Asked
  <2> QED
    BY <1>5, <2>1 DEF Full
<1> QED
  BY <1>1, <1>2, <1>3, <1>4, <1>5 DEF FoundInv

(* Turning back at the head of dfs keeps the invariant: within the limit and *)
(* the budget, a stack at max_hops off the goal has no trail beyond it.      *)
LEMMA RefuseKept ==
  ASSUME PathInv, Refuse
  PROVE  PathInv'
<1>1. /\ path # <<>> /\ ~Top.entered
      /\ Full \/ (~AtGoal /\ Len(hops) >= search.max_hops)
      /\ Return /\ search' = search /\ found' = found /\ expansions' = expansions
  BY DEF Refuse
<1>2. /\ path' \in Seq(Frames) /\ hops' \in Seq(Hops) /\ StackInv'
      /\ \A h \in Seq(Hops) : Awaits(h, path', hops') <=> Below(h)
  BY <1>1, Popped
<1>3. /\ search # NoSearch /\ search \in Asked /\ found \in Seq(Results) /\ expansions \in Int
      /\ Len(hops) \in Nat /\ Len(path) \in Nat \ {0} /\ Len(path) = Len(hops) + 1
      /\ FrameInv(Len(path))
  <2>1. Len(path) \in 1..Len(path)
    BY <1>1, UnderWay
  <2> QED
    BY <1>1, <2>1, UnderWay DEF PathInv, PathsType
<1>4. PathsType'
  BY <1>1, <1>2, <1>3 DEF PathsType
<1>5. ASSUME NEW h, Trail(h), Awaits(h, path, hops), ~Full
      PROVE  Below(h)
  <2>1. h \in Seq(Hops) /\ Len(h) \in 1..search.max_hops /\ h[Len(h)].to = search.dst
    BY <1>5 DEF Trail
  <2>2. SUFFICES ASSUME Follows(h) PROVE FALSE
    BY <1>1, <1>5, <2>1, AwaitsTop
  <2>3. Len(hops) >= search.max_hops /\ search.max_hops \in 1..6 /\ ~AtGoal
    BY <1>1, <1>3, <1>5 DEF Asked
  <2>4. Len(h) = Len(hops) /\ Len(hops) \in 1..Len(hops)
    BY <1>3, <2>1, <2>2, <2>3 DEF Follows
  <2>5. hops[Len(hops)].to = search.dst /\ hops # <<>>
    BY <2>1, <2>2, <2>4 DEF Follows
  <2>6. Top.node = hops[Len(hops)].to
    BY <1>3, <2>4 DEF FrameInv, Top
  <2> QED
    BY <2>3, <2>5, <2>6 DEF AtGoal
<1>6. FoundInv'
  <2>1. \A h \in Seq(Hops) : Below(h) => Awaits(h, path, hops)
    BY <1>1, AwaitsTop
  <2>2. \A h : Trail(h) => h \in Seq(Hops)
    BY DEF Trail
  <2> QED
    BY <1>1, <1>2, <1>3, <1>5, <2>1, <2>2, FoundStays
<1> QED
  BY <1>2, <1>4, <1>6 DEF PathInv

(* The top of the stack, and the next hop of whatever follows the stack.     *)
LEMMA TopIs ==
  ASSUME PathInv, path # <<>>
  PROVE  /\ Top = path[Len(path)] /\ Top \in Frames /\ Once(Top.todo) /\ Top.node \in STRING
         /\ ~Top.entered => Top.todo = adj(Top.node)
         /\ \A h : Has(Top.todo, h) => Has(adj(Top.node), h)
         /\ Top.node = IF Len(path) = 1 THEN search.src ELSE hops[Len(hops)].to
         /\ \A h : /\ Trail(h) /\ Follows(h) /\ Len(hops) < Len(h)
                   => /\ Has(adj(Top.node), h[Len(path)]) /\ h[Len(path)].trust >= search.min_trust
<1>1. /\ Len(path) \in Nat \ {0} /\ Len(hops) \in Nat /\ Len(path) = Len(hops) + 1
      /\ Top \in Frames /\ Len(path) \in 1..Len(path) /\ FrameInv(Len(path))
  <2>1. Len(path) \in 1..Len(path)
    BY UnderWay
  <2> QED
    BY <2>1, UnderWay
<1>2. /\ Once(Top.todo)
      /\ ~Top.entered => Top.todo = adj(Top.node)
  BY <1>1 DEF FrameInv, Top
<1>3. \A h : Has(Top.todo, h) => Has(adj(Top.node), h)
  BY <1>1 DEF FrameInv, Top
<1>4. Top.node = IF Len(path) = 1 THEN search.src ELSE hops[Len(hops)].to
  BY <1>1 DEF FrameInv, Top
<1>5. ASSUME NEW h, Trail(h), Follows(h), Len(hops) < Len(h)
      PROVE  Has(adj(Top.node), h[Len(path)]) /\ h[Len(path)].trust >= search.min_trust
  <2>1. h \in Seq(Hops) /\ Walk(h)
    BY <1>5 DEF Trail
  <2>2. Len(path) \in 1..Len(h) /\ (Len(path) # 1 => Len(path) - 1 \in 1..Len(hops))
    BY <1>1, <1>5, <2>1
  <2>3. h[Len(path)].from = IF Len(path) = 1 THEN search.src ELSE h[Len(path) - 1].to
    BY <2>1, <2>2 DEF Walk
  <2>4. Len(path) # 1 => h[Len(path) - 1] = hops[Len(hops)]
    BY <1>1, <1>5, <2>2 DEF Follows
  <2>5. h[Len(path)].from = Top.node
    BY <1>4, <2>3, <2>4
  <2> QED
    BY <2>1, <2>2, <2>5 DEF Walk
<1> QED
  BY <1>1, <1>2, <1>3, <1>4, <1>5 DEF Top, Frames

(* Recording a chain keeps the invariant: it is the one trail that follows a *)
(* stack at the goal, and it was still awaited, so it was not found before.  *)
LEMMA FoundKept ==
  ASSUME PathInv, Found
  PROVE  PathInv'
<1> DEFINE trusts == {hops[i].trust : i \in DOMAIN hops}
           r == [hops |-> hops, path_trust |-> Min(trusts),
                 crosses_inference |-> \E i \in DOMAIN hops : hops[i].trust <= 25]
<1>1. /\ path # <<>> /\ ~Top.entered /\ ~Full /\ AtGoal /\ found' = Append(found, r)
      /\ Return /\ search' = search /\ expansions' = expansions
  BY DEF Found
<1>2. /\ path' \in Seq(Frames) /\ hops' \in Seq(Hops) /\ StackInv'
      /\ \A h \in Seq(Hops) : Awaits(h, path', hops') <=> Below(h)
  BY <1>1, Popped
<1>3. /\ search # NoSearch /\ search \in Asked /\ found \in Seq(Results) /\ expansions \in Int
      /\ Len(hops) \in Nat /\ Len(path) \in Nat \ {0} /\ Len(path) = Len(hops) + 1
      /\ hops \in Seq(Hops) /\ Len(hops) <= search.max_hops /\ search.max_hops \in 1..6
      /\ search.limit \in Int
  BY <1>1, UnderWay DEF PathInv, PathsType, Asked
<1>4. hops # <<>> /\ Len(hops) \in 1..Len(hops) /\ Len(hops) # 0 /\ hops[Len(hops)].to = search.dst
  <2>1. hops # <<>> /\ Top.node = search.dst
    BY <1>1 DEF AtGoal
  <2>2. Len(hops) # 0
    BY <1>3, <2>1
  <2> QED
    BY <1>1, <1>3, <2>1, <2>2, TopIs
<1>5. r \in Results /\ r.hops = hops
  <2>1. DOMAIN hops = 1..Len(hops) /\ \A i \in 1..Len(hops) : hops[i] \in Hops
    BY <1>3
  <2>2. trusts \subseteq Nat /\ trusts # {}
    BY <1>4, <2>1 DEF Hops
  <2>3. Min(trusts) \in Int
    <3> HIDE DEF trusts
    <3>1. Min(trusts) \in trusts
      BY <2>2, MinIn
    <3>2. \A x \in Nat : x \in Int
      OBVIOUS
    <3>3. Min(trusts) \in Nat
      BY <2>2, <3>1, Zenon
    <3> QED
      BY <3>2, <3>3, Zenon
  <2>4. (\E i \in DOMAIN hops : hops[i].trust <= 25) \in BOOLEAN
    OBVIOUS
  <2> HIDE DEF trusts
  <2> QED
    BY <1>3, <2>3, <2>4 DEF Results
<1> HIDE DEF r
<1>6. /\ found' \in Seq(Results) /\ Len(found') = Len(found) + 1 /\ Len(found) \in Nat
      /\ found'[Len(found')] = r /\ \A i \in 1..Len(found) : found'[i] = found[i]
  BY <1>1, <1>3, <1>5
<1>7. PathsType'
  BY <1>1, <1>2, <1>3, <1>6 DEF PathsType
<1>8. FoundInv /\ Walk(hops)
  BY DEF PathInv, StackInv
<1>9. Trail(hops) /\ Awaits(hops, path, hops)
  <2>1. Trail(hops)
    BY <1>3, <1>4, <1>8 DEF Trail
  <2>2. Follows(hops)
    BY <1>3 DEF Follows
  <2> QED
    BY <1>1, <1>3, <2>1, <2>2, AwaitsTop
<1>10. ~Below(hops)
  <2>1. \A i \in 1..Len(hops) : i \in 1..Len(path) /\ FrameInv(i)
    BY <1>1, <1>3, UnderWay
  <2> QED
    BY <1>3, <2>1 DEF Below, FrameInv
<1>11. \A h : Trail(h)' <=> Trail(h)
  BY <1>1 DEF Trail, Walk
<1>12. \A h \in Seq(Hops) : Below(h) => Awaits(h, path, hops)
  BY <1>1, AwaitsTop
<1>13. \A h : Trail(h) => h \in Seq(Hops)
  BY DEF Trail
<1>14. \A i \in 1..Len(found) : Trail(found[i].hops) /\ ~Awaits(found[i].hops, path, hops)
  BY <1>3, <1>8 DEF FoundInv
<1>15. ASSUME NEW i \in 1..Len(found')
       PROVE  Trail(found'[i].hops) /\ ~Awaits(found'[i].hops, path', hops')
  <2>1. CASE i = Len(found')
    BY <1>2, <1>3, <1>5, <1>6, <1>9, <1>10, <2>1
  <2>2. CASE i # Len(found')
    <3>1. i \in 1..Len(found) /\ found'[i] = found[i]
      BY <1>6, <2>2
    <3> QED
      BY <1>2, <1>12, <1>13, <1>14, <3>1
  <2> QED
    BY <2>1, <2>2
<1>16. ASSUME NEW i \in 1..Len(found'), NEW j \in 1..Len(found'), found'[i].hops = found'[j].hops
       PROVE  i = j
  <2>1. \A m \in 1..Len(found') : m \in 1..Len(found) \/ m = Len(found')
    BY <1>6
  <2>2. \A m \in 1..Len(found) : found[m].hops # hops
    BY <1>9, <1>14
  <2>3. \A m, n \in 1..Len(found) : found[m].hops = found[n].hops => m = n
    BY <1>3, <1>8 DEF FoundInv
  <2> QED
    BY <1>5, <1>6, <1>16, <2>1, <2>2, <2>3
<1>17. ASSUME ~Full', NEW h, Trail(h)
       PROVE  Awaits(h, path', hops') \/ \E i \in 1..Len(found') : found'[i].hops = h
  <2>1. \/ Awaits(h, path, hops)
        \/ \E i \in 1..Len(found) : found[i].hops = h
    BY <1>1, <1>3, <1>8, <1>17 DEF FoundInv
  <2>2. CASE \E i \in 1..Len(found) : found[i].hops = h
    <3>1. PICK i \in 1..Len(found) : found[i].hops = h
      BY <2>2
    <3>2. i \in 1..Len(found') /\ found'[i] = found[i]
      BY <1>6
    <3> QED
      BY <3>1, <3>2
  <2>3. CASE Below(h)
    BY <1>2, <1>13, <1>17, <2>3
  <2>4. CASE Follows(h)
    <3>1. h \in Seq(Hops) /\ Len(h) \in Nat /\ Len(h) \in 1..Len(h) /\ h[Len(h)].to = search.dst /\ Walk(h)
      BY <1>3, <1>17 DEF Trail
    <3>2. h[Len(hops)] = hops[Len(hops)] /\ Len(hops) \in 1..Len(h)
      BY <1>3, <1>4, <2>4, <3>1 DEF Follows
    <3>3. Len(h) = Len(hops)
      BY <1>4, <3>1, <3>2 DEF Walk
    <3>4. h = hops
      BY <1>3, <2>4, <3>1, <3>3, SeqEqual DEF Follows
    <3>5. Len(found') \in 1..Len(found')
      BY <1>6
    <3> QED
      BY <1>5, <1>6, <3>4, <3>5
  <2> QED
    BY <1>1, <1>13, <1>17, <2>1, <2>2, <2>3, <2>4, AwaitsTop
<1>18. FoundInv'
  BY <1>11, <1>15, <1>16, <1>17 DEF FoundInv
<1> QED
  BY <1>2, <1>7, <1>18 DEF PathInv

(* A frame that has no entry left awaits nothing.                            *)
LEMMA NoEdgeKept ==
  ASSUME PathInv, NoEdgeLeft
  PROVE  PathInv'
<1>1. /\ path # <<>> /\ Top.entered /\ Top.todo = <<>>
      /\ Return /\ search' = search /\ found' = found /\ expansions' = expansions
  BY DEF NoEdgeLeft
<1>2. /\ path' \in Seq(Frames) /\ hops' \in Seq(Hops) /\ StackInv'
      /\ \A h \in Seq(Hops) : Awaits(h, path', hops') <=> Below(h)
  BY <1>1, Popped
<1>3. /\ search # NoSearch /\ search \in Asked /\ found \in Seq(Results) /\ expansions \in Int
  BY <1>1, UnderWay DEF PathInv, PathsType
<1>4. PathsType'
  BY <1>1, <1>2, <1>3 DEF PathsType
<1>5. \A h \in Seq(Hops) : Awaits(h, path, hops) <=> Below(h)
  <2>1. \A x : ~Has(Top.todo, x)
    BY <1>1 DEF Has
  <2> QED
    BY <1>1, <2>1, AwaitsTop
<1>6. FoundInv'
  <2>2. \A h : Trail(h) => h \in Seq(Hops)
    BY DEF Trail
  <2> QED
    BY <1>1, <1>2, <1>3, <1>5, <2>2, FoundStays
<1> QED
  BY <1>2, <1>4, <1>6 DEF PathInv

(* Entering the loop keeps the invariant: what follows a stack that is not   *)
(* at the goal takes one of the entries of its top.                          *)
LEMMA EnterKept ==
  ASSUME PathInv, Enter
  PROVE  PathInv'
<1>1. /\ path # <<>> /\ ~Top.entered /\ ~Full /\ ~AtGoal /\ Len(hops) < search.max_hops
      /\ path' = [path EXCEPT ![Len(path)].entered = TRUE]
      /\ search' = search /\ hops' = hops /\ found' = found /\ expansions' = expansions
  BY DEF Enter
<1>2. /\ search # NoSearch /\ search \in Asked /\ found \in Seq(Results) /\ expansions \in Int
      /\ Len(hops) \in Nat /\ Len(path) \in Nat \ {0} /\ Len(path) = Len(hops) + 1
      /\ hops \in Seq(Hops) /\ path \in Seq(Frames) /\ search.max_hops \in 1..6
      /\ \A i \in 1..Len(path) : path[i] \in Frames /\ FrameInv(i)
  BY <1>1, UnderWay DEF PathInv, PathsType, Asked
<1>3. /\ Top = path[Len(path)] /\ Top \in Frames /\ Top.todo = adj(Top.node)
      /\ Top.node = IF Len(path) = 1 THEN search.src ELSE hops[Len(hops)].to
  BY <1>1, TopIs
<1>4. /\ path' \in Seq(Frames) /\ Len(path') = Len(path)
      /\ path'[Len(path)] = [Top EXCEPT !.entered = TRUE]
      /\ \A i \in 1..Len(path) : i # Len(path) => path'[i] = path[i]
  <2>1. [Top EXCEPT !.entered = TRUE] \in Frames
    BY <1>3 DEF Frames
  <2>2. path' = [path EXCEPT ![Len(path)] = [Top EXCEPT !.entered = TRUE]]
    BY <1>1, <1>3
  <2> QED
    BY <1>2, <2>1, <2>2
<1>5. /\ path'[Len(path)].entered /\ path'[Len(path)].todo = Top.todo
      /\ path'[Len(path)].node = Top.node
  BY <1>3, <1>4 DEF Frames
<1>6. PathsType'
  BY <1>1, <1>2, <1>4 DEF PathsType, PathInv
<1>7. StackInv'
  <2>1. ASSUME NEW i \in 1..Len(path') PROVE FrameInv(i)'
    <3>1. CASE i = Len(path)
      <4>1. FrameInv(Len(path))
        BY <1>2
      <4>2. Len(path) <= search.max_hops
        BY <1>1, <1>2
      <4> QED
        BY <1>1, <1>3, <1>4, <1>5, <3>1, <4>1, <4>2 DEF FrameInv
    <3>2. CASE i # Len(path)
      <4>1. FrameInv(i) /\ path'[i] = path[i]
        BY <1>2, <1>4, <3>2
      <4> QED
        BY <1>1, <1>4, <4>1 DEF FrameInv
    <3> QED
      BY <3>1, <3>2
  <2>2. Walk(hops)'
    BY <1>1 DEF PathInv, StackInv, Walk
  <2>3. Len(hops') <= search'.max_hops
    BY <1>1, <1>2
  <2> QED
    BY <1>1, <1>2, <1>4, <2>1, <2>2, <2>3 DEF StackInv
<1>8. ASSUME NEW h \in Seq(Hops), Awaits(h, path', hops')
      PROVE  Awaits(h, path, hops)
  <2>1. PICK i \in 1..Len(path) :
          /\ i - 1 <= Len(h)
          /\ \A j \in 1..(i - 1) : h[j] = hops[j]
          /\ \/ i = Len(path) /\ ~path'[i].entered
             \/ i <= Len(h) /\ path'[i].entered /\ Has(path'[i].todo, h[i])
    BY <1>1, <1>4, <1>8 DEF Awaits
  <2>2. CASE i = Len(path)
    <3>1. Follows(h)
      BY <1>2, <2>1, <2>2 DEF Follows
    <3> QED
      BY <1>1, <3>1, AwaitsTop
  <2>3. CASE i # Len(path)
    <3>1. i \in 1..Len(hops) /\ path'[i] = path[i]
      BY <1>2, <1>4, <2>3
    <3>2. Below(h)
      BY <2>1, <2>3, <3>1 DEF Below
    <3> QED
      BY <1>1, <3>2, AwaitsTop
  <2> QED
    BY <2>2, <2>3
<1>9. ASSUME NEW h, Trail(h), Awaits(h, path, hops)
      PROVE  Awaits(h, path', hops')
  <2>1. h \in Seq(Hops) /\ Len(h) \in Nat \ {0} /\ h[Len(h)].to = search.dst
    BY <1>2, <1>9 DEF Trail
  <2>2. CASE Below(h)
    <3>1. PICK i \in 1..Len(hops) : /\ i <= Len(h) /\ Has(path[i].todo, h[i])
                                    /\ \A j \in 1..(i - 1) : h[j] = hops[j]
      BY <2>2 DEF Below
    <3>2. i \in 1..Len(path) /\ i # Len(path) /\ i - 1 <= Len(h)
      BY <1>2, <2>1, <3>1
    <3>3. path'[i] = path[i] /\ path[i].entered
      BY <1>2, <1>4, <3>2 DEF FrameInv
    <3> QED
      BY <1>1, <1>4, <3>1, <3>2, <3>3 DEF Awaits
  <2>3. CASE Follows(h)
    <3>1. Len(hops) <= Len(h) /\ \A j \in 1..Len(hops) : h[j] = hops[j]
      BY <2>3 DEF Follows
    <3>2. Len(h) # Len(hops)
      <4> SUFFICES ASSUME Len(h) = Len(hops) PROVE FALSE
        OBVIOUS
      <4>1. Len(hops) \in 1..Len(hops) /\ hops[Len(hops)].to = search.dst /\ hops # <<>>
        BY <1>2, <2>1, <3>1
      <4> QED
        BY <1>1, <1>2, <1>3, <4>1 DEF AtGoal
    <3>3. Len(hops) < Len(h)
      BY <1>2, <2>1, <3>1, <3>2
    <3>4. Has(adj(Top.node), h[Len(path)])
      BY <1>1, <1>9, <2>3, <3>3, TopIs
    <3>5. Len(path) \in 1..Len(path) /\ Len(path) <= Len(h) /\ Len(path) - 1 <= Len(h)
          /\ Len(path) - 1 = Len(hops)
      BY <1>2, <2>1, <3>3
    <3>6. \A j \in 1..(Len(path) - 1) : h[j] = hops[j]
      BY <3>1, <3>5
    <3> QED
      BY <1>1, <1>3, <1>4, <1>5, <3>4, <3>5, <3>6 DEF Awaits
  <2> QED
    BY <1>1, <1>9, <2>1, <2>2, <2>3, AwaitsTop
<1>10. FoundInv'
  <2>1. expansions' <= expansions /\ expansions' \in Int
    BY <1>1, <1>2
  <2> QED
    BY <1>1, <1>8, <1>9, <2>1, FoundStays
<1> QED
  BY <1>6, <1>7, <1>10 DEF PathInv

(* What is left of a sequence without repetition when its head is taken.     *)
LEMMA HasTail ==
  ASSUME NEW S, NEW s \in Seq(S), s # <<>>, Once(s)
  PROVE  /\ Tail(s) \in Seq(S) /\ Head(s) \in S /\ Has(s, Head(s)) /\ Once(Tail(s))
         /\ \A x : Has(Tail(s), x) <=> Has(s, x) /\ x # Head(s)
<1>1. /\ Len(s) \in Nat \ {0} /\ Head(s) = s[1] /\ Head(s) \in S /\ 1 \in 1..Len(s)
      /\ Tail(s) \in Seq(S) /\ Len(Tail(s)) = Len(s) - 1
      /\ \A i \in 1..Len(Tail(s)) : Tail(s)[i] = s[i + 1]
  OBVIOUS
<1>2. \A i \in 1..Len(Tail(s)) : i + 1 \in 1..Len(s) /\ i + 1 # 1
  BY <1>1
<1>3. \A i \in 1..Len(s) : i # 1 => i - 1 \in 1..Len(Tail(s)) /\ Tail(s)[i - 1] = s[i]
  BY <1>1
<1>4. Once(Tail(s))
  BY <1>1, <1>2 DEF Once
<1>5. ASSUME NEW x
      PROVE  Has(Tail(s), x) <=> Has(s, x) /\ x # Head(s)
  <2>1. Has(Tail(s), x) => Has(s, x) /\ x # Head(s)
    <3> SUFFICES ASSUME NEW i \in 1..Len(Tail(s)), Tail(s)[i] = x
                 PROVE  Has(s, x) /\ x # Head(s)
      BY DEF Has
    <3>1. s[i + 1] = x /\ i + 1 \in 1..Len(s) /\ i + 1 # 1
      BY <1>1, <1>2
    <3> QED
      BY <1>1, <3>1 DEF Has, Once
  <2>2. Has(s, x) /\ x # Head(s) => Has(Tail(s), x)
    BY <1>1, <1>3 DEF Has
  <2> QED
    BY <2>1, <2>2
<1>6. Has(s, Head(s))
  BY <1>1 DEF Has
<1> QED
  BY <1>1, <1>4, <1>5, <1>6

(* What one turn of the loop does to the top frame.                          *)
LEMMA TurnIs ==
  ASSUME PathInv, TryEdge
  PROVE  LET hop  == Head(Top.todo)
             rest == [path EXCEPT ![Len(path)].todo = Tail(@)]
         IN /\ path # <<>> /\ Top.entered
            /\ search' = search /\ found' = found
            /\ expansions' = expansions - 1 /\ expansions \in Int
            /\ hop \in Hops /\ Has(Top.todo, hop) /\ hop.from = Top.node /\ Has(adj(hop.from), hop)
            /\ rest \in Seq(Frames) /\ Len(rest) = Len(path)
            /\ \A i \in 1..Len(path) : i # Len(path) => rest[i] = path[i]
            /\ rest[Len(path)].node = Top.node /\ rest[Len(path)].entered
            /\ Once(rest[Len(path)].todo)
            /\ \A h : Has(rest[Len(path)].todo, h) <=> Has(Top.todo, h) /\ h # hop
            /\ Len(path) <= search.max_hops
            /\ IF expansions' <= 0 THEN Return
               ELSE IF Admitted(hop)
                 THEN path' = Append(rest, Frame(hop.to)) /\ hops' = Append(hops, hop)
                 ELSE path' = rest /\ hops' = hops
<1> DEFINE hop == Head(Top.todo)
           rest == [path EXCEPT ![Len(path)].todo = Tail(@)]
           top == [Top EXCEPT !.todo = Tail(@)]
<1>1. /\ path # <<>> /\ Top.entered /\ Top.todo # <<>>
      /\ search' = search /\ found' = found /\ expansions' = expansions - 1
      /\ IF expansions' <= 0 THEN Return
         ELSE IF Admitted(hop)
           THEN path' = Append(rest, Frame(hop.to)) /\ hops' = Append(hops, hop)
           ELSE path' = rest /\ hops' = hops
  BY DEF TryEdge
<1>2. expansions \in Int
  BY DEF PathInv, PathsType
<1>3. /\ path \in Seq(Frames) /\ Len(path) \in 1..Len(path) /\ Top = path[Len(path)]
      /\ Top \in Frames /\ Once(Top.todo) /\ Top.node \in STRING
      /\ \A h : Has(Top.todo, h) => Has(adj(Top.node), h)
      /\ FrameInv(Len(path))
  <2>1. Len(path) \in 1..Len(path) /\ path \in Seq(Frames)
    BY <1>1, UnderWay
  <2>2. FrameInv(Len(path))
    BY <1>1, <2>1, UnderWay
  <2> QED
    BY <1>1, <2>1, <2>2, TopIs
<1>4. Top.todo \in Seq(Hops)
  BY <1>3 DEF Frames
<1>5. /\ Tail(Top.todo) \in Seq(Hops) /\ hop \in Hops /\ Has(Top.todo, hop) /\ Once(Tail(Top.todo))
      /\ \A x : Has(Tail(Top.todo), x) <=> Has(Top.todo, x) /\ x # hop
  BY <1>1, <1>3, <1>4, HasTail
<1>6. Has(adj(Top.node), hop) /\ hop.from = Top.node
  BY <1>3, <1>5, AdjJoins
<1>7. top \in Frames /\ top.todo = Tail(Top.todo) /\ top.node = Top.node /\ top.entered
  BY <1>1, <1>3, <1>5 DEF Frames
<1>8. rest = [path EXCEPT ![Len(path)] = top]
  BY <1>3
<1>9. /\ rest \in Seq(Frames) /\ Len(rest) = Len(path) /\ rest[Len(path)] = top
      /\ \A i \in 1..Len(path) : i # Len(path) => rest[i] = path[i]
  <2> HIDE DEF top, rest
  <2> QED
    BY <1>3, <1>7, <1>8
<1>10. Len(path) <= search.max_hops
  BY <1>1, <1>3 DEF FrameInv
<1> HIDE DEF rest, hop, top
<1>11. /\ rest[Len(path)].node = Top.node /\ rest[Len(path)].entered
       /\ Once(rest[Len(path)].todo)
       /\ \A h : Has(rest[Len(path)].todo, h) <=> Has(Top.todo, h) /\ h # hop
  BY <1>5, <1>7, <1>9
<1>12. Has(adj(hop.from), hop)
  BY <1>6
<1> QED
  BY <1>1, <1>2, <1>5, <1>6, <1>9, <1>10, <1>11, <1>12 DEF rest, hop

(* Where a hop out of the top frame leads back to the stack, no trail that     *)
(* follows the stack takes it.                                               *)
LEMMA NoWayBack ==
  ASSUME PathInv, path # <<>>, NEW h, Trail(h), Follows(h), Len(hops) < Len(h)
  PROVE  ~OnPath(h[Len(path)].to)
<1>1. /\ path \in Seq(Frames) /\ Len(path) \in Nat \ {0} /\ Len(hops) \in Nat
      /\ Len(path) = Len(hops) + 1
      /\ \A i \in 1..Len(path) : FrameInv(i)
  BY UnderWay
<1>2. Len(h) \in Nat /\ Len(path) \in 1..Len(h) /\ Walk(h)
  BY <1>1 DEF Trail
<1> SUFFICES ASSUME NEW i \in DOMAIN path, path[i].node = h[Len(path)].to
             PROVE  FALSE
  BY DEF OnPath
<1>3. i \in 1..Len(path)
  BY <1>1
<1>4. path[i].node = IF i = 1 THEN search.src ELSE hops[i - 1].to
  BY <1>1, <1>3 DEF FrameInv
<1>5. i # 1
  BY <1>2, <1>4 DEF Walk
<1>6. i - 1 \in 1..Len(hops) /\ i - 1 \in 1..Len(h) /\ i - 1 # Len(path)
  BY <1>1, <1>2, <1>3, <1>5
<1>7. h[i - 1].to = h[Len(path)].to
  BY <1>4, <1>5, <1>6 DEF Follows
<1> QED
  BY <1>2, <1>6, <1>7 DEF Walk

(* A turn that passes its entry over.                                        *)
LEMMA PassedOver ==
  ASSUME PathInv, TryEdge, expansions' > 0, ~Admitted(Head(Top.todo))
  PROVE  PathInv'
<1> DEFINE hop == Head(Top.todo)
           L == Len(path)
<1>1. /\ path # <<>> /\ Top.entered
      /\ search' = search /\ found' = found
      /\ expansions' = expansions - 1 /\ expansions \in Int
      /\ path' \in Seq(Frames) /\ Len(path') = L /\ hops' = hops
      /\ \A i \in 1..L : i # L => path'[i] = path[i]
      /\ path'[L].node = Top.node /\ path'[L].entered
      /\ Once(path'[L].todo)
      /\ \A h : Has(path'[L].todo, h) <=> Has(Top.todo, h) /\ h # hop
      /\ L <= search.max_hops
  <2>1. expansions' \in Int
    BY TurnIs
  <2>2. ~(expansions' <= 0)
    BY <2>1
  <2> QED
    BY <2>2, TurnIs
<1> HIDE DEF hop, L
<1>2. /\ search # NoSearch /\ search \in Asked /\ found \in Seq(Results)
      /\ Len(hops) \in Nat /\ L \in Nat \ {0} /\ L = Len(hops) + 1 /\ L \in 1..L
      /\ hops \in Seq(Hops) /\ Len(hops) <= search.max_hops
      /\ \A i \in 1..L : FrameInv(i)
  BY <1>1, UnderWay DEF L
<1>3. Top = path[L] /\ \A h : Has(Top.todo, h) => Has(adj(Top.node), h)
  BY <1>1, TopIs DEF L
<1>4. PathsType'
  BY <1>1, <1>2 DEF PathsType
<1>5. StackInv'
  <2>1. ASSUME NEW i \in 1..L PROVE FrameInv(i)'
    <3>1. CASE i = L
      <4>1. FrameInv(L)
        BY <1>2
      <4>2. path'[L].node = IF L = 1 THEN search.src ELSE hops[L - 1].to
        BY <1>1, <1>3, <4>1 DEF FrameInv
      <4>3. ~(L < L) /\ ~(L <= Len(hops))
        BY <1>2
      <4>4. \A h : Has(path'[L].todo, h) => Has(adj(path'[L].node), h)
        BY <1>1, <1>3
      <4> QED
        BY <1>1, <3>1, <4>2, <4>3, <4>4 DEF FrameInv
    <3>2. CASE i # L
      <4>1. FrameInv(i) /\ path'[i] = path[i]
        BY <1>1, <1>2, <3>2
      <4> QED
        BY <1>1, <4>1 DEF FrameInv, L
    <3> QED
      BY <3>1, <3>2
  <2>2. Walk(hops)'
    BY <1>1 DEF PathInv, StackInv, Walk
  <2>3. path' # <<>>
    BY <1>1, <1>2
  <2> QED
    BY <1>1, <1>2, <2>1, <2>2, <2>3 DEF StackInv
<1>6. ASSUME NEW h \in Seq(Hops), Awaits(h, path', hops')
      PROVE  Awaits(h, path, hops)
  <2>1. PICK i \in 1..L :
          /\ i - 1 <= Len(h)
          /\ \A j \in 1..(i - 1) : h[j] = hops[j]
          /\ \/ i = L /\ ~path'[i].entered
             \/ i <= Len(h) /\ path'[i].entered /\ Has(path'[i].todo, h[i])
    BY <1>1, <1>6 DEF Awaits
  <2>2. CASE i = L
    <3>1. L <= Len(h) /\ Has(Top.todo, h[L])
      BY <1>1, <2>1, <2>2
    <3>2. Len(h) \in Nat
      OBVIOUS
    <3>3. Follows(h) /\ Len(hops) < Len(h)
      BY <1>2, <2>1, <2>2, <3>1, <3>2 DEF Follows
    <3> QED
      BY <1>1, <3>1, <3>3, AwaitsTop DEF L
  <2>3. CASE i # L
    <3>1. i \in 1..Len(hops) /\ path'[i] = path[i]
      BY <1>1, <1>2, <2>3
    <3>2. Below(h)
      BY <2>1, <2>3, <3>1 DEF Below
    <3> QED
      BY <1>1, <3>2, AwaitsTop
  <2> QED
    BY <2>2, <2>3
<1>7. ASSUME NEW h, Trail(h), Awaits(h, path, hops)
      PROVE  Awaits(h, path', hops')
  <2>1. h \in Seq(Hops) /\ Len(h) \in Nat
    BY <1>7 DEF Trail
  <2>2. CASE Below(h)
    <3>1. PICK i \in 1..Len(hops) : /\ i <= Len(h) /\ Has(path[i].todo, h[i])
                                    /\ \A j \in 1..(i - 1) : h[j] = hops[j]
      BY <2>2 DEF Below
    <3>2. i \in 1..L /\ i # L /\ i - 1 <= Len(h)
      BY <1>2, <2>1, <3>1
    <3>3. path'[i] = path[i] /\ path[i].entered
      BY <1>1, <1>2, <3>2 DEF FrameInv, L
    <3> QED
      BY <1>1, <3>1, <3>2, <3>3 DEF Awaits
  <2>3. CASE Follows(h) /\ Len(hops) < Len(h) /\ Has(Top.todo, h[L])
    <3>1. ~OnPath(h[L].to) /\ h[L].trust >= search.min_trust
      BY <1>1, <1>7, <2>3, NoWayBack, TopIs DEF L
    <3>2. h[L] # hop
      BY <3>1 DEF Admitted, hop
    <3>3. Has(path'[L].todo, h[L]) /\ path'[L].entered
      BY <1>1, <2>3, <3>2
    <3>4. L <= Len(h) /\ L - 1 <= Len(h) /\ \A j \in 1..(L - 1) : h[j] = hops[j]
      BY <1>2, <2>1, <2>3 DEF Follows
    <3> QED
      BY <1>1, <1>2, <3>3, <3>4 DEF Awaits
  <2> QED
    BY <1>1, <1>7, <2>1, <2>2, <2>3, AwaitsTop DEF L
<1>8. FoundInv'
  <2>1. expansions' <= expansions /\ expansions' \in Int
    BY <1>1
  <2> QED
    BY <1>1, <1>6, <1>7, <2>1, FoundStays
<1> QED
  BY <1>4, <1>5, <1>8 DEF PathInv

(* A turn that goes on along its entry.                                       *)
LEMMA WentOn ==
  ASSUME PathInv, TryEdge, expansions' > 0, Admitted(Head(Top.todo))
  PROVE  PathInv'
<1> DEFINE hop == Head(Top.todo)
           rest == [path EXCEPT ![Len(path)].todo = Tail(@)]
           next == Frame(hop.to)
           L == Len(path)
<1>1. /\ path # <<>> /\ Top.entered
      /\ search' = search /\ found' = found
      /\ expansions' = expansions - 1 /\ expansions \in Int
      /\ hop \in Hops /\ Has(Top.todo, hop) /\ hop.from = Top.node /\ Has(adj(hop.from), hop)
      /\ rest \in Seq(Frames) /\ Len(rest) = L
      /\ \A i \in 1..L : i # L => rest[i] = path[i]
      /\ rest[L].node = Top.node /\ rest[L].entered
      /\ Once(rest[L].todo)
      /\ \A h : Has(rest[L].todo, h) <=> Has(Top.todo, h) /\ h # hop
      /\ L <= search.max_hops
      /\ path' = Append(rest, next) /\ hops' = Append(hops, hop)
  <2>1. expansions' \in Int
    BY TurnIs
  <2>2. ~(expansions' <= 0)
    BY <2>1
  <2> QED
    BY <2>2, TurnIs
<1>2. /\ ~OnPath(hop.to) /\ hop.trust >= search.min_trust
  BY DEF Admitted
<1>3. /\ search # NoSearch /\ search \in Asked /\ found \in Seq(Results)
      /\ Len(hops) \in Nat /\ L \in Nat \ {0} /\ L = Len(hops) + 1 /\ L \in 1..L
      /\ hops \in Seq(Hops) /\ path \in Seq(Frames) /\ search.max_hops \in 1..6
      /\ \A i \in 1..L : FrameInv(i)
      /\ Walk(hops)
  BY <1>1, UnderWay DEF Asked, PathInv, StackInv
<1>4. Top = path[L] /\ (\A h : Has(Top.todo, h) => Has(adj(Top.node), h))
      /\ Top.node = IF L = 1 THEN search.src ELSE hops[Len(hops)].to
  BY <1>1, TopIs DEF L
<1>5. /\ next \in Frames /\ next.node = hop.to /\ ~next.entered /\ next.todo = adj(hop.to)
      /\ Once(next.todo)
  <2>1. hop.to \in STRING
    BY <1>1 DEF Hops
  <2>2. adj(hop.to) \in Seq(Hops) /\ Once(adj(hop.to))
    BY <2>1, AdjIs
  <2> QED
    BY <2>1, <2>2 DEF Frame, Frames
<1> HIDE DEF hop, rest, next, L
<1>6. /\ path' \in Seq(Frames) /\ Len(path') = L + 1 /\ path'[L + 1] = next
      /\ \A i \in 1..L : path'[i] = rest[i]
      /\ hops' \in Seq(Hops) /\ Len(hops') = L /\ hops'[L] = hop
      /\ \A i \in 1..Len(hops) : hops'[i] = hops[i]
  BY <1>1, <1>3, <1>5
<1>7. PathsType'
  BY <1>1, <1>3, <1>6 DEF PathsType
<1>0. /\ Len(hops) \in Nat /\ L = Len(hops) + 1 /\ L \in 1..L
      /\ \A i \in 1..L : i \in 1..Len(hops) \/ i = L
      /\ \A i \in 1..Len(hops) : i \in 1..L /\ i # L
      /\ \A i \in 1..L : i # 1 => i - 1 \in 1..Len(hops) /\ (i = L => i - 1 = Len(hops))
  BY <1>3
<1>8. \A i \in 1..L : path[i].node # hop.to
  BY <1>2, <1>3 DEF OnPath, L
<1>9. \A i \in 1..L : path[i].node = IF i = 1 THEN search.src ELSE hops[i - 1].to
  BY <1>3 DEF FrameInv
<1>10. Walk(hops)'
  <2>1. hop.to # search.src
    <3>1. 1 \in 1..L
      BY <1>3
    <3> QED
      BY <1>8, <1>9, <3>1
  <2>2. ASSUME NEW j \in 1..Len(hops)
        PROVE  hops[j].to # hop.to
    <3>1. j + 1 \in 1..L /\ j + 1 # 1 /\ (j + 1) - 1 = j
      BY <1>3
    <3> QED
      BY <1>8, <1>9, <3>1
  <2>3. ASSUME NEW j \in 1..L
        PROVE  /\ Has(adj(hops'[j].from), hops'[j]) /\ hops'[j].trust >= search.min_trust
               /\ hops'[j].from = IF j = 1 THEN search.src ELSE hops'[j - 1].to
               /\ hops'[j].to # search.src
    <3>1. CASE j = L
      <4>1. j # 1 => j - 1 = Len(hops) /\ hops'[j - 1] = hops[Len(hops)]
        BY <1>0, <1>6, <3>1
      <4> QED
        BY <1>1, <1>2, <1>4, <1>6, <2>1, <3>1, <4>1
    <3>2. CASE j # L
      <4>1. j \in 1..Len(hops) /\ hops'[j] = hops[j]
        BY <1>3, <1>6, <3>2
      <4>2. j # 1 => j - 1 \in 1..Len(hops) /\ hops'[j - 1] = hops[j - 1]
        BY <1>0, <1>6
      <4> QED
        BY <1>3, <4>1, <4>2 DEF Walk
    <3> QED
      BY <3>1, <3>2
  <2>4. ASSUME NEW i \in 1..L, NEW j \in 1..L, hops'[i].to = hops'[j].to
        PROVE  i = j
    <3>1. \A m \in 1..L : m = L \/ (m \in 1..Len(hops) /\ hops'[m] = hops[m])
      BY <1>0, <1>6
    <3>2. \A m, n \in 1..Len(hops) : hops[m].to = hops[n].to => m = n
      BY <1>3 DEF Walk
    <3>3. hops'[L] = hop
      BY <1>6
    <3>4. CASE i = L /\ j = L
      BY <3>4
    <3>5. CASE i = L /\ j # L
      BY <2>2, <2>4, <3>1, <3>3, <3>5
    <3>6. CASE i # L /\ j = L
      BY <2>2, <2>4, <3>1, <3>3, <3>6
    <3>7. CASE i # L /\ j # L
      BY <2>4, <3>1, <3>2, <3>7
    <3> QED
      BY <3>4, <3>5, <3>6, <3>7
  <2> QED
    BY <1>1, <1>6, <2>3, <2>4 DEF Walk
<1>11. ASSUME NEW i \in 1..(L + 1)
       PROVE  FrameInv(i)'
  <2>1. CASE i = L + 1
    <3>1. i # 1 /\ i - 1 = L /\ ~(i < L + 1) /\ ~(i <= L)
      BY <1>3, <2>1
    <3>2. path'[i] = next /\ path'[i].node = hops'[i - 1].to
      BY <1>5, <1>6, <2>1, <3>1
    <3> QED
      BY <1>5, <1>6, <3>1, <3>2 DEF FrameInv
  <2>2. CASE i = L
    <3>1. path'[i] = rest[L] /\ i < L + 1 /\ hops'[i] = hop
      <4>1. path'[L] = rest[L] /\ hops'[L] = hop
        BY <1>0, <1>6
      <4>2. L < L + 1
        BY <1>3
      <4> QED
        BY <2>2, <4>1, <4>2
    <3>2. i # 1 => i - 1 \in 1..Len(hops) /\ i - 1 = Len(hops)
      BY <1>3, <2>2
    <3>3. path'[i].node = IF i = 1 THEN search.src ELSE hops'[i - 1].to
      BY <1>1, <1>4, <1>6, <2>2, <3>1, <3>2
    <3>4. \A h : Has(path'[i].todo, h) => Has(adj(path'[i].node), h)
      BY <1>1, <1>4, <3>1
    <3>5. ~Has(path'[i].todo, hops'[i])
      BY <1>1, <3>1
    <3> QED
      BY <1>1, <2>2, <3>1, <3>3, <3>4, <3>5 DEF FrameInv
  <2>3. CASE i # L + 1 /\ i # L
    <3>1. i \in 1..Len(hops) /\ i \in 1..L /\ i < L
      BY <1>3, <2>3
    <3>2. path'[i] = path[i] /\ hops'[i] = hops[i] /\ FrameInv(i)
      BY <1>1, <1>3, <1>6, <3>1
    <3>3. i # 1 => i - 1 \in 1..Len(hops) /\ hops'[i - 1] = hops[i - 1]
      BY <1>6, <3>1
    <3>4. path[i].entered
      BY <3>1, <3>2 DEF FrameInv, L
    <3>5. path'[i].node = IF i = 1 THEN search.src ELSE hops'[i - 1].to
      BY <3>2, <3>3 DEF FrameInv
    <3>6. /\ i <= search.max_hops /\ Once(path'[i].todo)
          /\ \A h : Has(path'[i].todo, h) => Has(adj(path'[i].node), h)
      BY <3>2, <3>4 DEF FrameInv
    <3>7. ~Has(path'[i].todo, hops'[i])
      BY <3>1, <3>2 DEF FrameInv
    <3> QED
      BY <1>1, <3>2, <3>4, <3>5, <3>6, <3>7 DEF FrameInv
  <2> QED
    BY <2>1, <2>2, <2>3
<1>12. StackInv'
  <2>1. path' # <<>>
    BY <1>3, <1>6
  <2> QED
    BY <1>1, <1>6, <1>10, <1>11, <2>1 DEF StackInv
<1>13. ASSUME NEW h \in Seq(Hops), Awaits(h, path', hops')
       PROVE  Awaits(h, path, hops)
  <2>0. Len(h) \in Nat
    OBVIOUS
  <2>1. PICK i \in 1..(L + 1) :
          /\ i - 1 <= Len(h)
          /\ \A j \in 1..(i - 1) : h[j] = hops'[j]
          /\ \/ i = L + 1 /\ ~path'[i].entered
             \/ i <= Len(h) /\ path'[i].entered /\ Has(path'[i].todo, h[i])
    BY <1>6, <1>13 DEF Awaits
  <2>2. CASE i = L + 1
    <3>1. L <= Len(h) /\ \A j \in 1..L : h[j] = hops'[j]
      BY <1>3, <1>5, <1>6, <2>0, <2>1, <2>2
    <3>2. Len(hops) < Len(h) /\ \A j \in 1..Len(hops) : j \in 1..L
      BY <1>3, <2>0, <3>1
    <3>3. Follows(h)
      BY <1>3, <1>6, <2>0, <3>1, <3>2 DEF Follows
    <3>4. Has(Top.todo, h[L])
      BY <1>1, <1>3, <1>6, <3>1
    <3> QED
      BY <1>1, <3>2, <3>3, <3>4, AwaitsTop DEF L
  <2>3. CASE i = L
    <3>1. L <= Len(h) /\ Has(Top.todo, h[L])
      BY <1>1, <1>3, <1>6, <2>1, <2>3
    <3>2. \A j \in 1..Len(hops) : j \in 1..(i - 1)
      BY <1>3, <2>3
    <3>3. Follows(h) /\ Len(hops) < Len(h)
      BY <1>3, <1>6, <2>0, <2>1, <3>1, <3>2 DEF Follows
    <3> QED
      BY <1>1, <3>1, <3>3, AwaitsTop DEF L
  <2>4. CASE i # L + 1 /\ i # L
    <3>1. i \in 1..Len(hops) /\ i \in 1..L /\ \A j \in 1..(i - 1) : j \in 1..Len(hops)
      BY <1>3, <2>4
    <3>2. path'[i] = path[i]
      BY <1>1, <1>6, <2>4, <3>1
    <3>3. Below(h)
      BY <1>6, <2>1, <2>4, <3>1, <3>2 DEF Below
    <3> QED
      BY <1>1, <3>3, AwaitsTop
  <2> QED
    BY <2>2, <2>3, <2>4
<1>14. ASSUME NEW h, Trail(h), Awaits(h, path, hops)
       PROVE  Awaits(h, path', hops')
  <2>1. h \in Seq(Hops) /\ Len(h) \in Nat
    BY <1>14 DEF Trail
  <2>2. CASE Below(h)
    <3>1. PICK i \in 1..Len(hops) : /\ i <= Len(h) /\ Has(path[i].todo, h[i])
                                    /\ \A j \in 1..(i - 1) : h[j] = hops[j]
      BY <2>2 DEF Below
    <3>2. i \in 1..L /\ i \in 1..(L + 1) /\ i # L /\ i - 1 <= Len(h)
          /\ \A j \in 1..(i - 1) : j \in 1..Len(hops)
      BY <1>3, <2>1, <3>1
    <3>3. path'[i] = path[i] /\ path[i].entered
      BY <1>1, <1>3, <1>6, <3>2 DEF FrameInv, L
    <3> QED
      BY <1>6, <3>1, <3>2, <3>3 DEF Awaits
  <2>3. CASE Follows(h) /\ Len(hops) < Len(h) /\ Has(Top.todo, h[L])
    <3>1. L <= Len(h) /\ L - 1 <= Len(h) /\ L \in 1..(L + 1) /\ L + 1 \in 1..(L + 1)
          /\ (L + 1) - 1 = L
      BY <1>3, <2>1, <2>3
    <3>2. \A j \in 1..(L - 1) : h[j] = hops'[j]
      BY <1>3, <1>6, <2>3 DEF Follows
    <3>3. CASE h[L] = hop
      <4>1. \A j \in 1..L : h[j] = hops'[j]
        BY <1>3, <1>6, <3>2, <3>3
      <4> QED
        BY <1>5, <1>6, <3>1, <4>1 DEF Awaits
    <3>4. CASE h[L] # hop
      <4>1. Has(path'[L].todo, h[L]) /\ path'[L].entered
        BY <1>1, <1>3, <1>6, <2>3, <3>4
      <4> QED
        BY <1>6, <3>1, <3>2, <4>1 DEF Awaits
    <3> QED
      BY <3>3, <3>4
  <2> QED
    BY <1>1, <1>14, <2>1, <2>2, <2>3, AwaitsTop DEF L
<1>15. FoundInv'
  <2>1. expansions' <= expansions /\ expansions' \in Int
    BY <1>1
  <2> QED
    BY <1>1, <1>13, <1>14, <2>1, FoundStays
<1> QED
  BY <1>7, <1>12, <1>15 DEF PathInv

(* One turn of the loop over adj keeps the invariant, whether the budget     *)
(* ends there, the entry is passed over or the search goes on along it.      *)
LEMMA TryEdgeKept ==
  ASSUME PathInv, TryEdge
  PROVE  PathInv'
<1>1. /\ path # <<>> /\ search' = search /\ found' = found
      /\ expansions' = expansions - 1 /\ expansions \in Int
  BY TurnIs
<1>2. CASE expansions' <= 0
  <2>1. Return
    BY <1>2, TurnIs
  <2>2. /\ path' \in Seq(Frames) /\ hops' \in Seq(Hops) /\ StackInv'
        /\ \A h \in Seq(Hops) : Awaits(h, path', hops') <=> Below(h)
    BY <1>1, <2>1, Popped
  <2>3. search # NoSearch /\ search \in Asked /\ found \in Seq(Results)
    BY <1>1, UnderWay
  <2>4. PathsType'
    BY <1>1, <2>2, <2>3 DEF PathsType
  <2>5. FoundInv'
    <3>1. \A h \in Seq(Hops) : Below(h) => Awaits(h, path, hops)
      BY <1>1, AwaitsTop
    <3>2. ~(expansions' > 0) /\ expansions' <= expansions /\ expansions' \in Int
      BY <1>1, <1>2
    <3> QED
      BY <1>1, <2>2, <3>1, <3>2, FoundStays
  <2> QED
    BY <2>2, <2>4, <2>5 DEF PathInv
<1>3. CASE ~(expansions' <= 0)
  <2>1. expansions' > 0
    BY <1>1, <1>3
  <2> QED
    BY <2>1, PassedOver, WentOn
<1> QED
  BY <1>2, <1>3

(* The invariant of the search.                                              *)
LEMMA PathStep ==
  ASSUME PathInv, [PathNext]_pathVars
  PROVE  PathInv'
<1>1. CASE \E s \in Searches : Search(s)
  BY <1>1, SearchKept
<1>2. CASE Refuse
  BY <1>2, RefuseKept
<1>3. CASE Found
  BY <1>3, FoundKept
<1>4. CASE Enter
  BY <1>4, EnterKept
<1>5. CASE TryEdge
  BY <1>5, TryEdgeKept
<1>6. CASE NoEdgeLeft
  BY <1>6, NoEdgeKept
<1>7. CASE UNCHANGED pathVars
  <2>1. search' = search /\ path' = path /\ hops' = hops /\ found' = found /\ expansions' = expansions
    BY <1>7 DEF pathVars
  <2>2. PathsType'
    BY <2>1 DEF PathInv, PathsType
  <2>3. \A h : Walk(h)' = Walk(h) /\ Trail(h)' = Trail(h)
    BY <2>1 DEF Walk, Trail
  <2>4. \A i : FrameInv(i)' = FrameInv(i)
    BY <2>1 DEF FrameInv
  <2>5. StackInv'
    BY <2>1, <2>3, <2>4 DEF PathInv, StackInv
  <2>6. FoundInv'
    <3>1. Full' = Full
      BY <2>1 DEF Full
    <3> QED
      BY <2>1, <2>3, <3>1 DEF PathInv, FoundInv
  <2> QED
    BY <2>2, <2>5, <2>6 DEF PathInv
<1> QED
  BY <1>1, <1>2, <1>3, <1>4, <1>5, <1>6, <1>7 DEF PathNext

(* The lesser of two integers.                                               *)
LEMMA MinOfTwo ==
  ASSUME NEW a \in Int, NEW b \in Int
  PROVE  Min({a, b}) \in {a, b} /\ Min({a, b}) <= a /\ Min({a, b}) <= b
<1>1. \E x \in {a, b} : \A y \in {a, b} : x <= y
  <2>1. a <= b \/ b <= a
    OBVIOUS
  <2> QED
    BY <2>1
<1> QED
  BY <1>1 DEF Min

(* There are finitely many nodes, and each is a string.                      *)
LEMMA NodesAre == IsFiniteSet(Nodes) /\ Cardinality(Nodes) \in Nat /\ Nodes \subseteq STRING
<1> DEFINE D == DOMAIN GraphEdges
           A == {GraphEdges[i].src : i \in D}
           B == {GraphEdges[i].dst : i \in D}
           f == [i \in D |-> GraphEdges[i].src]
           g == [i \in D |-> GraphEdges[i].dst]
<1>1. D = 1..Len(GraphEdges) /\ Len(GraphEdges) \in Nat
  BY PathsAssumption
<1>2. IsFiniteSet(D)
  BY <1>1, FS_Interval
<1>3. f \in Surjection(D, A) /\ g \in Surjection(D, B)
  BY DEF Surjection
<1>4. IsFiniteSet(A) /\ IsFiniteSet(B)
  <2> HIDE DEF f, g, A, B, D
  <2> QED
    BY <1>2, <1>3, FS_Surjection
<1>5. Nodes = A \cup B
  BY DEF Nodes
<1>6. A \subseteq STRING /\ B \subseteq STRING
  <2>1. \A i \in D : GraphEdges[i].src \in STRING /\ GraphEdges[i].dst \in STRING
    BY EdgeType
  <2> QED
    BY <2>1
<1> HIDE DEF A, B
<1> QED
  BY <1>4, <1>5, <1>6, FS_Union, FS_CardinalityType

(* An element before a sequence.                                             *)
LEMMA Prefixed ==
  ASSUME NEW S, NEW x \in S, NEW t \in Seq(S)
  PROVE  /\ <<x>> \o t \in Seq(S) /\ Len(<<x>> \o t) = Len(t) + 1
         /\ (<<x>> \o t)[1] = x
         /\ \A i \in 1..Len(t) : (<<x>> \o t)[i + 1] = t[i]
<1> DEFINE s == <<x>>
<1>1. s \in Seq(S) /\ Len(s) = 1 /\ s[1] = x
  OBVIOUS
<1> HIDE DEF s
<1>2. /\ s \o t \in Seq(S) /\ Len(s \o t) = Len(s) + Len(t)
      /\ \A i \in 1..Len(s) + Len(t) : (s \o t)[i] = IF i <= Len(s) THEN s[i] ELSE t[i - Len(s)]
  BY <1>1, ConcatProperties
<1>3. /\ Len(t) \in Nat /\ 1 \in 1..Len(s) + Len(t) /\ Len(s) + Len(t) = Len(t) + 1
      /\ \A i \in 1..Len(t) : /\ i + 1 \in 1..Len(s) + Len(t) /\ ~(i + 1 <= Len(s))
                             /\ (i + 1) - Len(s) = i
  BY <1>1
<1>4. (s \o t)[1] = x
  BY <1>1, <1>2, <1>3
<1>5. \A i \in 1..Len(t) : (s \o t)[i + 1] = t[i]
  BY <1>2, <1>3
<1> QED
  BY <1>2, <1>3, <1>4, <1>5 DEF s

(* The chain of a trail: its nodes are the source and where its hops lead.    *)
LEMMA ChainIs ==
  ASSUME NEW h \in Seq(Hops), Len(h) # 0
  PROVE  /\ Chain(h) \in Seq(STRING) /\ Len(Chain(h)) = Len(h) + 1
         /\ Chain(h)[1] = h[1].from
         /\ \A i \in 1..Len(h) : Chain(h)[i + 1] = h[i].to
<1> DEFINE t == [i \in DOMAIN h |-> h[i].to]
<1>1. DOMAIN h = 1..Len(h) /\ Len(h) \in Nat \ {0} /\ \A i \in 1..Len(h) : h[i] \in Hops
  <2>1. \A s \in Seq(Hops) : \A k \in 1..Len(s) : s[k] \in Hops
    OBVIOUS
  <2>2. DOMAIN h = 1..Len(h) /\ Len(h) \in Nat \ {0}
    OBVIOUS
  <2> QED
    BY <2>1, <2>2
<1>2. \A i \in 1..Len(h) : h[i].to \in STRING /\ h[i].from \in STRING
  BY <1>1 DEF Hops
<1>3. t \in Seq(STRING) /\ Len(t) = Len(h)
  BY <1>1, <1>2
<1>4. \A i \in 1..Len(h) : t[i] = h[i].to
  BY <1>1
<1>5. h[1].from \in STRING
  BY <1>1, <1>2
<1>6. Chain(h) = <<h[1].from>> \o t
  BY DEF Chain
<1> HIDE DEF t
<1>7. /\ <<h[1].from>> \o t \in Seq(STRING) /\ Len(<<h[1].from>> \o t) = Len(t) + 1
      /\ (<<h[1].from>> \o t)[1] = h[1].from
      /\ \A i \in 1..Len(t) : (<<h[1].from>> \o t)[i + 1] = t[i]
  BY <1>3, <1>5, Prefixed
<1> QED
  BY <1>3, <1>4, <1>6, <1>7

(* The chain of a trail is simple.                                           *)
LEMMA TrailChain ==
  ASSUME search \in Asked, NEW h, Trail(h)
  PROVE  Chain(h) \in Simple
<1> DEFINE k == Len(h)
           c == Chain(h)
<1>1. /\ h \in Seq(Hops) /\ Walk(h) /\ k \in 1..search.max_hops /\ h[k].to = search.dst
      /\ search.max_hops \in 1..6 /\ k \in Nat \ {0}
  BY DEF Trail, Asked
<1>2. /\ c \in Seq(STRING) /\ Len(c) = k + 1 /\ c[1] = h[1].from
      /\ \A i \in 1..k : c[i + 1] = h[i].to
  BY <1>1, ChainIs
<1>3. \A i \in 1..k : h[i] \in Hops
  <2>1. \A s \in Seq(Hops) : \A m \in 1..Len(s) : s[m] \in Hops
    OBVIOUS
  <2> QED
    BY <1>1, <2>1
<1> HIDE DEF c
<1>4. 1 \in 1..k /\ k \in 1..k /\ \A i \in 1..k : i # 1 => i - 1 \in 1..k /\ (i - 1) + 1 = i
  BY <1>1
<1>5. \A i \in 1..k : c[i] = h[i].from
  <2> SUFFICES ASSUME NEW i \in 1..k PROVE c[i] = h[i].from
    OBVIOUS
  <2>1. CASE i = 1
    BY <1>2, <2>1
  <2>2. CASE i # 1
    <3>1. c[i] = h[i - 1].to
      BY <1>2, <1>4, <2>2
    <3>2. h[i].from = h[i - 1].to
      BY <1>1, <2>2 DEF Walk
    <3> QED
      BY <3>1, <3>2
  <2> QED
    BY <2>1, <2>2
<1>6. c[1] = search.src /\ c[k + 1] = search.dst
  <2>1. h[1].from = search.src
    BY <1>1, <1>4 DEF Walk
  <2> QED
    BY <1>1, <1>2, <1>4, <2>1
<1>7. ASSUME NEW i \in 1..k
      PROVE  Linked(c[i], c[i + 1]) /\ c[i] \in Nodes /\ c[i + 1] \in Nodes
  <2>1. Has(adj(c[i]), h[i]) /\ h[i].trust >= search.min_trust /\ c[i] \in STRING
        /\ c[i + 1] = h[i].to
    BY <1>1, <1>2, <1>3, <1>5 DEF Walk, Hops
  <2>2. PICK e \in DOMAIN GraphEdges :
          /\ {GraphEdges[e].src, GraphEdges[e].dst} = {c[i], h[i].to}
          /\ trust(GraphEdges[e].quality) = h[i].trust
    BY <2>1, AdjJoins
  <2>3. Linked(c[i], c[i + 1])
    BY <2>1, <2>2 DEF Linked
  <2>4. c[i] \in Nodes /\ c[i + 1] \in Nodes
    BY <2>1, <2>2 DEF Nodes
  <2> QED
    BY <2>3, <2>4
<1>8. \A i \in 1..(k + 1) : i = 1 \/ (i - 1 \in 1..k /\ (i - 1) + 1 = i)
  BY <1>1
<1>9. \A i \in 1..(k + 1) : c[i] \in Nodes
  BY <1>4, <1>7, <1>8
<1>10. ASSUME NEW i \in 1..(k + 1), NEW j \in 1..(k + 1), c[i] = c[j]
       PROVE  i = j
  <2>1. \A m \in 1..k : h[m].to # search.src
    BY <1>1 DEF Walk
  <2>2. \A m, n \in 1..k : h[m].to = h[n].to => m = n
    BY <1>1 DEF Walk
  <2>3. \A m \in 1..(k + 1) : m # 1 => m - 1 \in 1..k /\ c[m] = h[m - 1].to
    BY <1>2, <1>8
  <2>4. CASE i = 1 /\ j = 1
    BY <2>4
  <2>5. CASE i = 1 /\ j # 1
    BY <1>6, <1>10, <2>1, <2>3, <2>5
  <2>6. CASE i # 1 /\ j = 1
    BY <1>6, <1>10, <2>1, <2>3, <2>6
  <2>7. CASE i # 1 /\ j # 1
    <3>1. i - 1 = j - 1
      BY <1>10, <2>2, <2>3, <2>7
    <3> QED
      BY <3>1
  <2> QED
    BY <2>4, <2>5, <2>6, <2>7
<1>11. c \in [1..(k + 1) -> Nodes]
  <2>1. c \in [1..(k + 1) -> STRING]
    BY <1>2
  <2> QED
    BY <1>9, <2>1
<1>12. k + 1 <= Cardinality(Nodes)
  <2>1. c \in Injection(1..(k + 1), Nodes)
    BY <1>10, <1>11 DEF Injection, IsInjective
  <2>2. Cardinality(1..(k + 1)) = k + 1
    BY <1>1, FS_Interval
  <2> QED
    BY <2>1, <2>2, NodesAre, FS_Injection
<1>13. k \in 1..Min({search.max_hops, Cardinality(Nodes) - 1})
  <2> DEFINE n == Cardinality(Nodes) - 1
  <2>1. n \in Int /\ k <= n
    BY <1>1, <1>12, NodesAre
  <2> HIDE DEF n
  <2>2. Min({search.max_hops, n}) \in {search.max_hops, n}
    <3>1. search.max_hops \in Int
      BY <1>1
    <3> QED
      BY <2>1, <3>1, MinOfTwo, Zenon
  <2>3. k \in 1..Min({search.max_hops, n})
    BY <1>1, <2>1, <2>2
  <2> QED
    BY <2>3 DEF n
<1> HIDE DEF k
<1> QED
  BY <1>6, <1>7, <1>10, <1>11, <1>13 DEF Simple, c

(* Every simple chain is that of a trail.                                    *)
LEMMA ChainTrail ==
  ASSUME search \in Asked, NEW c \in Simple
  PROVE  \E h : Trail(h) /\ Chain(h) = c
<1> DEFINE M == Min({search.max_hops, Cardinality(Nodes) - 1})
<1>1. PICK k \in 1..M :
        /\ c \in [1..(k + 1) -> Nodes]
        /\ c[1] = search.src /\ c[k + 1] = search.dst
        /\ \A i \in 1..k : Linked(c[i], c[i + 1])
        /\ \A i, j \in 1..(k + 1) : i # j => c[i] # c[j]
  BY DEF Simple
<1>2. M \in Int /\ M <= search.max_hops /\ search.max_hops \in 1..6
  <2> DEFINE n == Cardinality(Nodes) - 1
  <2>1. n \in Int
    BY NodesAre
  <2>2. search.max_hops \in 1..6 /\ search.max_hops \in Int
    BY DEF Asked
  <2> HIDE DEF n
  <2>3. /\ Min({search.max_hops, n}) \in {search.max_hops, n}
        /\ Min({search.max_hops, n}) <= search.max_hops
    BY <2>1, <2>2, MinOfTwo, Zenon
  <2>4. M = Min({search.max_hops, n})
    BY DEF n
  <2> HIDE DEF M
  <2> QED
    BY <2>1, <2>2, <2>3, <2>4
<1> HIDE DEF M
<1>3. k \in 1..search.max_hops /\ k \in Nat \ {0}
  BY <1>2
<1>4. \A i \in 1..k : i \in 1..(k + 1) /\ i + 1 \in 1..(k + 1) /\ i # i + 1
                    /\ (i # 1 => i - 1 \in 1..k /\ (i - 1) + 1 = i)
  BY <1>3
<1> DEFINE Way(i, x) == Has(adj(c[i]), x) /\ x.to = c[i + 1] /\ x.trust >= search.min_trust
           h == [i \in 1..k |-> CHOOSE x : Way(i, x)]
<1>5. ASSUME NEW i \in 1..k
      PROVE  Way(i, h[i]) /\ h[i] \in Hops /\ h[i].from = c[i]
  <2>1. PICK e \in DOMAIN GraphEdges :
          /\ {GraphEdges[e].src, GraphEdges[e].dst} = {c[i], c[i + 1]}
          /\ trust(GraphEdges[e].quality) >= search.min_trust
    BY <1>1 DEF Linked
  <2>2. \E x : Has(adj(c[i]), x) /\ x.to = c[i + 1] /\ x.trust = trust(GraphEdges[e].quality)
    <3> DEFINE m == c[i]
               n == c[i + 1]
    <3>1. {GraphEdges[e].src, GraphEdges[e].dst} = {m, n}
      BY <2>1
    <3> HIDE DEF m, n
    <3>0. \/ GraphEdges[e].src = m /\ GraphEdges[e].dst = n
          \/ GraphEdges[e].src = n /\ GraphEdges[e].dst = m
      BY <3>1
    <3>2. \E x : Has(adj(m), x) /\ x.to = n /\ x.trust = trust(GraphEdges[e].quality)
      BY <3>0, AdjJoins
    <3> QED
      BY <3>2 DEF m, n
  <2>3. \E x : Way(i, x)
    BY <2>1, <2>2
  <2>4. Way(i, h[i])
    BY <2>3
  <2>5. c[i] \in STRING
    BY <1>1, <1>4, NodesAre
  <2> QED
    BY <2>4, <2>5, AdjJoins
<1> HIDE DEF h
<1>6. h \in Seq(Hops) /\ Len(h) = k
  <2>1. h \in [1..k -> Hops]
    <3>1. h = [i \in 1..k |-> h[i]]
      BY DEF h
    <3> QED
      BY <1>5, <3>1
  <2> QED
    BY <1>3, <2>1
<1>7. Walk(h)
  <2>1. ASSUME NEW j \in 1..k
        PROVE  /\ Has(adj(h[j].from), h[j]) /\ h[j].trust >= search.min_trust
               /\ h[j].from = IF j = 1 THEN search.src ELSE h[j - 1].to
               /\ h[j].to # search.src
    <3>1. h[j].from = IF j = 1 THEN search.src ELSE h[j - 1].to
      <4>1. j # 1 => h[j - 1].to = c[j]
        BY <1>4, <1>5
      <4> QED
        BY <1>1, <1>5, <4>1
    <3>2. h[j].to # search.src
      <4>1. 1 \in 1..(k + 1) /\ j + 1 \in 1..(k + 1) /\ j + 1 # 1
        BY <1>3
      <4> QED
        BY <1>1, <1>5, <4>1
    <3> QED
      BY <1>5, <3>1, <3>2
  <2>2. ASSUME NEW i \in 1..k, NEW j \in 1..k, h[i].to = h[j].to
        PROVE  i = j
    <3>1. c[i + 1] = c[j + 1] /\ i + 1 \in 1..(k + 1) /\ j + 1 \in 1..(k + 1)
      BY <1>4, <1>5, <2>2
    <3>2. i + 1 = j + 1
      BY <1>1, <3>1
    <3> QED
      BY <3>2
  <2> QED
    BY <1>6, <2>1, <2>2 DEF Walk
<1>8. Trail(h)
  <2>1. k \in 1..k
    BY <1>3
  <2> QED
    BY <1>1, <1>3, <1>5, <1>6, <1>7, <2>1 DEF Trail
<1>9. Chain(h) = c
  <2>1. /\ Chain(h) \in Seq(STRING) /\ Len(Chain(h)) = k + 1 /\ Chain(h)[1] = h[1].from
        /\ \A i \in 1..k : Chain(h)[i + 1] = h[i].to
    BY <1>3, <1>6, ChainIs
  <2>2. c \in Seq(STRING) /\ Len(c) = k + 1
    <3>1. c \in [1..(k + 1) -> STRING]
      BY <1>1, NodesAre
    <3> QED
      BY <1>3, <3>1
  <2>3. ASSUME NEW i \in 1..(k + 1) PROVE Chain(h)[i] = c[i]
    <3>1. CASE i = 1
      <4>1. 1 \in 1..k
        BY <1>3
      <4> QED
        BY <1>5, <2>1, <3>1, <4>1
    <3>2. CASE i # 1
      <4>1. i - 1 \in 1..k /\ (i - 1) + 1 = i
        BY <1>3, <3>2
      <4> QED
        BY <1>5, <2>1, <4>1
    <3> QED
      BY <3>1, <3>2
  <2> QED
    BY <2>1, <2>2, <2>3, SeqEqual
<1> QED
  BY <1>8, <1>9

(* A finished search has found simple chains only, no one twice, and all if    *)
(* it used up neither its limit nor its expansions.                           *)
LEMMA PathsFollow == PathInv => PathsExact
<1> SUFFICES ASSUME PathInv, path = <<>>, search # NoSearch
             PROVE  LET chains == {Chain(found[i].hops) : i \in DOMAIN found}
                    IN /\ chains \subseteq Simple
                       /\ \A i, j \in DOMAIN found : i # j => found[i].hops # found[j].hops
                       /\ ~Full => chains = Simple
  BY DEF PathsExact
<1> DEFINE chains == {Chain(found[i].hops) : i \in DOMAIN found}
<1>1. search \in Asked /\ DOMAIN found = 1..Len(found)
  BY DEF PathInv, PathsType
<1>2. \A h : ~Awaits(h, path, hops)
  BY DEF Awaits
<1>3. /\ \A i \in 1..Len(found) : Trail(found[i].hops)
      /\ \A i, j \in 1..Len(found) : found[i].hops = found[j].hops => i = j
      /\ ~Full => \A h : Trail(h) => \E i \in 1..Len(found) : found[i].hops = h
  BY <1>2 DEF PathInv, FoundInv
<1>4. chains \subseteq Simple
  BY <1>1, <1>3, TrailChain
<1>5. ~Full => Simple \subseteq chains
  BY <1>1, <1>3, ChainTrail
<1> QED
  BY <1>1, <1>3, <1>4, <1>5

(* Whatever the edges of the graph, repeated, parallel and from a node to    *)
(* itself included, and whatever the arguments of paths(), what it returns   *)
(* are simple chains within the hops and above the trust, no one twice; and  *)
(* all of them if it used up neither its limit nor its expansions.           *)
THEOREM PathsExactHolds == PathInit /\ [][PathNext]_pathVars => []PathsExact
<1> QED
  BY PathStarts, PathStep, PathsFollow, PTL

-------------------------------------------------------------------------------
(* One of the rules holds, and the first one does not come after the one for   *)
(* queries over five tables if that holds.                                   *)
LEMMA FirstRule ==
  ASSUME NEW q \in AnyQuery
  PROVE  LET rules == Rules(q)
             first == CHOOSE i \in DOMAIN rules : rules[i][1] /\ \A j \in 1..(i - 1) : ~rules[j][1]
         IN /\ first \in 1..10 /\ rules[first][1]
            /\ (q.joins >= 4 \/ Cardinality(q.tables) >= 5) => first \in 1..2
<1> DEFINE rules == Rules(q)
           first == CHOOSE i \in DOMAIN rules : rules[i][1] /\ \A j \in 1..(i - 1) : ~rules[j][1]
           holding == {i \in 1..10 : rules[i][1]}
<1>1. DOMAIN rules = 1..10 /\ rules[10][1]
  BY DEF Rules
<1>2. (q.joins >= 4 \/ Cardinality(q.tables) >= 5) => rules[2][1]
  BY DEF Rules
<1> HIDE DEF rules
<1>3. holding \subseteq Nat /\ holding # {}
  BY <1>1
<1>4. PICK m \in holding : \A x \in holding : m <= x
  <2> HIDE DEF holding
  <2>1. Min(holding) \in holding /\ \A x \in holding : Min(holding) <= x
    BY <1>3, MinIn
  <2> QED
    BY <2>1
<1>5. m \in DOMAIN rules /\ rules[m][1] /\ \A j \in 1..(m - 1) : ~rules[j][1]
  BY <1>1, <1>4
<1>6. first \in DOMAIN rules /\ rules[first][1] /\ \A j \in 1..(first - 1) : ~rules[j][1]
  BY <1>5
<1> HIDE DEF first
<1>7. first \in 1..10
  BY <1>1, <1>6
<1>8. rules[2][1] => first \in 1..2
  <2> SUFFICES ASSUME rules[2][1], first > 2 PROVE FALSE
    BY <1>7
  <2>1. 2 \in 1..(first - 1)
    BY <1>7
  <2> QED
    BY <1>6, <2>1
<1> QED
  BY <1>2, <1>6, <1>7, <1>8 DEF first, rules

Shapes == {"join_3table", "join_6table", "aggjoin", "correlated_exists", "dim_enrichment",
           "large_large", "two_stream_aggjoin", "ioc_semijoin", "scan_aggregation", "point_lookup"}

(* The shape of a query is one of the cells of the table, and one over five    *)
(* tables is a join of six or a correlated EXISTS.                            *)
LEMMA ShapeIs ==
  ASSUME NEW q \in AnyQuery, NEW use_catalog \in BOOLEAN
  PROVE  /\ shape(q, use_catalog) \in Shapes
         /\ ((use_catalog /\ q.tables \cap VIEWS # {})
               \/ q.joins >= 4 \/ Cardinality(q.tables) >= 5)
            => shape(q, use_catalog) \in {"join_6table", "correlated_exists"}
<1> DEFINE rules == Rules(q)
           first == CHOOSE i \in DOMAIN rules : rules[i][1] /\ \A j \in 1..(i - 1) : ~rules[j][1]
<1>1. /\ first \in 1..10
      /\ (q.joins >= 4 \/ Cardinality(q.tables) >= 5) => first \in 1..2
  BY FirstRule
<1>2. /\ rules[1][2] = "correlated_exists" /\ rules[2][2] = "join_6table" /\ rules[3][2] = "aggjoin"
      /\ rules[4][2] = "join_3table" /\ rules[5][2] = "two_stream_aggjoin"
      /\ rules[6][2] = "ioc_semijoin" /\ rules[7][2] = "dim_enrichment"
      /\ rules[8][2] = "large_large" /\ rules[9][2] = "point_lookup"
      /\ rules[10][2] = "scan_aggregation"
  BY DEF Rules
<1>3. shape(q, use_catalog) = IF use_catalog /\ q.tables \cap VIEWS # {} THEN ViewShape
                              ELSE rules[first][2]
  BY DEF shape
<1> HIDE DEF rules, first
<1>4. \A i \in 1..10 : rules[i][2] \in Shapes
  <2>1. \A i \in 1..10 : i = 1 \/ i = 2 \/ i = 3 \/ i = 4 \/ i = 5 \/ i = 6 \/ i = 7 \/ i = 8 \/ i = 9 \/ i = 10
    OBVIOUS
  <2> QED
    BY <1>2, <2>1 DEF Shapes
<1>5. \A i \in 1..2 : rules[i][2] \in {"join_6table", "correlated_exists"}
  BY <1>2
<1>6. ViewShape \in Shapes /\ ViewShape = "join_6table"
  BY DEF ViewShape, Shapes
<1> QED
  BY <1>1, <1>3, <1>4, <1>5, <1>6

(* No shape is sent to the engine that does not finish it.                    *)
LEMMA CellIs ==
  /\ \A s \in Shapes, recent \in BOOLEAN :
       Head(IF recent THEN WINNERS[s].hot ELSE WINNERS[s].cold) \notin WINNERS[s].cliff
  /\ \A s \in {"join_6table", "correlated_exists"}, recent \in BOOLEAN :
       Head(IF recent THEN WINNERS[s].hot ELSE WINNERS[s].cold) = "starrocks"
<1>1. /\ WINNERS["join_6table"] = Winners(<<"starrocks">>, <<"starrocks">>, {"clickhouse_native"})
      /\ WINNERS["correlated_exists"] = Winners(<<"starrocks">>, <<"starrocks">>, {})
  BY DEF WINNERS
<1>2. \A s \in Shapes : s # "join_6table" => WINNERS[s].cliff = {}
  BY DEF WINNERS, Winners, Shapes
<1>3. \A s \in {"join_6table", "correlated_exists"}, recent \in BOOLEAN :
        Head(IF recent THEN WINNERS[s].hot ELSE WINNERS[s].cold) = "starrocks"
  BY <1>1 DEF Winners
<1>4. WINNERS["join_6table"].cliff = {"clickhouse_native"}
  BY <1>1 DEF Winners
<1> QED
  BY <1>2, <1>3, <1>4

(* What the run asks of one query, of any.                                  *)
LEMMA RuleHolds ==
  ASSUME NEW q \in AnyQuery
  PROVE  CliffAvoided(q)
<1> DEFINE full == route(q, TRUE)
           ast_only == route(q, FALSE)
           recent == time_tier(q) = "hot"
<1>1. /\ full.pick = Head(IF recent THEN WINNERS[shape(q, TRUE)].hot
                         ELSE WINNERS[shape(q, TRUE)].cold)
      /\ full.hot = recent
      /\ ast_only.pick = Head(IF recent THEN WINNERS[shape(q, FALSE)].hot
                             ELSE WINNERS[shape(q, FALSE)].cold)
  BY DEF route
<1>2. recent \in BOOLEAN
  OBVIOUS
<1>3. full.hot => q.time # <<>> /\ Head(q.time) \in {"days", "recent"}
  BY <1>1 DEF time_tier
<1>4. Heavy(q) => shape(q, TRUE) \in {"join_6table", "correlated_exists"}
  BY ShapeIs DEF Heavy
<1>5. Heavy(q) /\ q.tables \cap VIEWS = {} => shape(q, FALSE) \in {"join_6table", "correlated_exists"}
  BY ShapeIs DEF Heavy
<1>6. shape(q, TRUE) \in Shapes
  BY ShapeIs
<1> HIDE DEF full, ast_only, recent
<1>7. Heavy(q) => full.pick # "clickhouse_native"
  BY <1>1, <1>2, <1>4, CellIs
<1>8. Heavy(q) /\ ast_only.pick = "clickhouse_native" => q.tables \cap VIEWS # {}
  BY <1>1, <1>2, <1>5, CellIs
<1>9. \A expected_hot \in BOOLEAN :
        classify_pick(full.pick, expected_hot, shape(q, TRUE)) # "catastrophic_misroute"
  BY <1>1, <1>2, <1>6, CellIs DEF classify_pick
<1> QED
  BY <1>3, <1>7, <1>8, <1>9 DEF CliffAvoided, full, ast_only

(* Of a corpus of any queries, with any tables, any joins, clauses and          *)
(* comparisons: no query over five tables, open or behind a view, goes to the   *)
(* engine that does not finish it, and without a static and recent boundary     *)
(* none goes to the hot tier.                                                *)
THEOREM CliffNeverReached == RoutingInit /\ [][RoutingNext]_routed => []Cliff
<1> DEFINE IInv == routed = <<>> \/ routed \in Queries
<1>1. RoutingInit => IInv
  BY DEF RoutingInit
<1>2. IInv /\ [RoutingNext]_routed => IInv'
  BY DEF RoutingNext
<1>3. IInv => Cliff
  BY RuleHolds, RoutingAssumption DEF Cliff
<1> QED
  BY <1>1, <1>2, <1>3, PTL

-------------------------------------------------------------------------------
(* A finite set of integers that is not empty has a least and a greatest.      *)
LEMMA EndsOf ==
  ASSUME NEW S, S \subseteq Int, S # {}, IsFiniteSet(S)
  PROVE  /\ Min(S) \in S /\ \A x \in S : Min(S) <= x
         /\ Max(S) \in S /\ \A x \in S : x <= Max(S)
<1> DEFINE Least(T) == T # {} => \E m \in T : \A x \in T : m <= x
           Most(T) == T # {} => \E m \in T : \A x \in T : x <= m
           Q == {T \in SUBSET S : Least(T) /\ Most(T)}
<1>1. {} \in Q
  OBVIOUS
<1>2. ASSUME NEW T \in SUBSET S, NEW y \in S, T \in Q
      PROVE  T \cup {y} \in Q
  <2>1. y \in Int /\ T \subseteq Int
    OBVIOUS
  <2>2. Least(T \cup {y})
    <3>1. CASE T = {}
      BY <2>1, <3>1
    <3>2. CASE T # {}
      <4>1. PICK m \in T : \A x \in T : m <= x
        BY <1>2, <3>2
      <4>2. CASE m <= y
        BY <4>1, <4>2
      <4>3. CASE ~(m <= y)
        <5>1. \A x \in T : y <= x
          BY <2>1, <4>1, <4>3
        <5> QED
          BY <2>1, <5>1
      <4> QED
        BY <4>2, <4>3
    <3> QED
      BY <3>1, <3>2
  <2>3. Most(T \cup {y})
    <3>1. CASE T = {}
      BY <2>1, <3>1
    <3>2. CASE T # {}
      <4>1. PICK m \in T : \A x \in T : x <= m
        BY <1>2, <3>2
      <4>2. CASE y <= m
        BY <4>1, <4>2
      <4>3. CASE ~(y <= m)
        <5>1. \A x \in T : x <= y
          BY <2>1, <4>1, <4>3
        <5> QED
          BY <2>1, <5>1
      <4> QED
        BY <4>2, <4>3
    <3> QED
      BY <3>1, <3>2
  <2> QED
    BY <2>2, <2>3
<1>3. S \in Q
  <2> HIDE DEF Q
  <2> QED
    BY <1>1, <1>2, FiniteInduction
<1>4. (\E m \in S : \A x \in S : m <= x) /\ (\E m \in S : \A x \in S : x <= m)
  BY <1>3
<1> QED
  BY <1>4 DEF Min, Max

(* The values of a column in a sequence of rows that is not empty.             *)
LEMMA ValuesAre ==
  ASSUME NEW rows \in Seq(Rows), NEW col \in Columns, NEW i \in DOMAIN rows
  PROVE  /\ rows[i][col] \in Int
         /\ Min(Values(rows, col)) \in Int /\ Min(Values(rows, col)) <= rows[i][col]
         /\ Max(Values(rows, col)) \in Int /\ rows[i][col] <= Max(Values(rows, col))
<1> DEFINE V == Values(rows, col)
           f == [j \in DOMAIN rows |-> rows[j][col]]
<1>1. DOMAIN rows = 1..Len(rows) /\ Len(rows) \in Nat /\ \A j \in DOMAIN rows : rows[j] \in Rows
  OBVIOUS
<1>2. \A j \in DOMAIN rows : rows[j][col] \in Int
  BY <1>1 DEF Rows
<1>3. V \subseteq Int /\ rows[i][col] \in V
  BY <1>2 DEF Values
<1>4. IsFiniteSet(V)
  <2>1. f \in Surjection(DOMAIN rows, V)
    BY DEF Surjection, Values
  <2>2. IsFiniteSet(DOMAIN rows)
    BY <1>1, FS_Interval
  <2> HIDE DEF V, f
  <2> QED
    BY <2>1, <2>2, FS_Surjection
<1> HIDE DEF V
<1>5. /\ Min(V) \in V /\ \A x \in V : Min(V) <= x
      /\ Max(V) \in V /\ \A x \in V : x <= Max(V)
  BY <1>3, <1>4, EndsOf
<1> QED
  BY <1>2, <1>3, <1>5 DEF V

(* A group of rows whose statistics prune it has no row that the query asks    *)
(* for.                                                                      *)
LEMMA PrunableIsEmpty ==
  ASSUME NEW rows \in Seq(Rows), NEW preds \in SUBSET Predicates,
         rg_prunable(row_group_stats(rows), preds)
  PROVE  Matching(rows, preds) = {}
<1> SUFFICES ASSUME NEW i \in DOMAIN rows, \A p \in preds : Holds(p, rows[i])
             PROVE  FALSE
  BY DEF Matching
<1>1. PICK p \in preds : \/ row_group_stats(rows)[p.col].max < Min(p.vals)
                         \/ row_group_stats(rows)[p.col].min > Max(p.vals)
  BY DEF rg_prunable
<1> DEFINE lo == Min(Values(rows, p.col))
           hi == Max(Values(rows, p.col))
           v == rows[i][p.col]
<1>2. p.col \in Columns /\ p.vals \subseteq Int /\ p.vals # {} /\ IsFiniteSet(p.vals)
  BY DEF Predicates
<1>3. /\ row_group_stats(rows)[p.col].max = hi
      /\ row_group_stats(rows)[p.col].min = lo
  BY <1>2 DEF row_group_stats
<1>4. v \in Int /\ lo \in Int /\ hi \in Int /\ lo <= v /\ v <= hi
  BY <1>2, ValuesAre
<1> HIDE DEF lo, hi
<1>5. /\ Min(p.vals) \in Int /\ \A x \in p.vals : Min(p.vals) <= x
      /\ Max(p.vals) \in Int /\ \A x \in p.vals : x <= Max(p.vals)
  BY <1>2, EndsOf
<1>6. v \in Min(p.vals)..Max(p.vals) \/ v \in p.vals
  BY DEF Holds
<1>7. Min(p.vals) <= v /\ v <= Max(p.vals)
  BY <1>4, <1>5, <1>6
<1> QED
  BY <1>1, <1>3, <1>4, <1>5, <1>7

(* The places one past the multiples of a number are those with the remainder   *)
(* of 1.                                                                     *)
LEMMA GroupStarts ==
  ASSUME NEW R \in Nat \ {0}, NEW i \in Nat \ {0}
  PROVE  i % R = 1 % R <=> \E n \in Nat : i = R * n + 1
<1>1. CASE R = 1
  <2>1. i % R = 0 /\ 1 % R = 0 /\ i - 1 \in Nat /\ i = R * (i - 1) + 1
    BY <1>1
  <2> QED
    BY <2>1
<1>2. CASE R # 1
  <2>1. 1 % R = 1
    BY <1>2
  <2>2. i \div R \in Nat /\ i % R \in 0..(R - 1) /\ i = R * (i \div R) + (i % R)
    BY SMTT(30)
  <2>3. i % R = 1 => \E n \in Nat : i = R * n + 1
    BY <2>2
  <2>4. ASSUME NEW n \in Nat, i = R * n + 1
        PROVE  i % R = 1
    <3> DEFINE m == i \div R
               r == i % R
    <3>1. m \in Nat /\ r \in 0..(R - 1) /\ R * n + 1 = R * m + r /\ R \in Nat /\ R >= 2
      BY <1>2, <2>2, <2>4
    <3> HIDE DEF m, r
    <3>2. n = m
      <4>1. CASE n + 1 <= m
        <5>1. R * (m - n - 1) >= 0 /\ R * m = R * n + R + R * (m - n - 1)
          BY <3>1, <4>1
        <5> QED
          BY <3>1, <5>1
      <4>2. CASE m + 1 <= n
        <5>1. R * (n - m - 1) >= 0 /\ R * n = R * m + R + R * (n - m - 1)
          BY <3>1, <4>2
        <5>2. R * m \in Nat /\ R * n \in Nat /\ R * (n - m - 1) \in Int
          BY <3>1, <4>2
        <5> QED
          BY <3>1, <5>1, <5>2
      <4> QED
        BY <3>1, <4>1, <4>2
    <3>3. r = 1
      BY <3>1, <3>2
    <3> QED
      BY <3>3 DEF r
  <2> QED
    BY <2>1, <2>3, <2>4
<1> QED
  BY <1>1, <1>2

(* The groups of a file.                                                     *)
LEMMA GroupIs ==
  ASSUME NEW file \in Seq(Rows), NEW i \in 1..Len(file)
  PROVE  LET g == SubSeq(file, i, Min({i + ROW_GROUP_SIZE - 1, Len(file)}))
         IN /\ g \in Seq(Rows)
            /\ DOMAIN g = 1..Len(g) /\ Len(g) \in 1..ROW_GROUP_SIZE
            /\ \A k \in i..Len(file) : k < i + ROW_GROUP_SIZE <=> k - i + 1 \in 1..Len(g)
            /\ \A k \in 1..Len(g) : i + k - 1 \in 1..Len(file) /\ g[k] = file[i + k - 1]
<1> DEFINE last == Min({i + ROW_GROUP_SIZE - 1, Len(file)})
           g == SubSeq(file, i, last)
<1>1. i \in Int /\ i >= 1 /\ i <= Len(file) /\ Len(file) \in Nat /\ ROW_GROUP_SIZE \in Nat \ {0}
  BY ZOrderAssumption
<1>2. /\ last \in Int /\ last <= Len(file) /\ last <= i + ROW_GROUP_SIZE - 1
      /\ last = Len(file) \/ last = i + ROW_GROUP_SIZE - 1
  <2> DEFINE n == i + ROW_GROUP_SIZE - 1
             m == Len(file)
  <2>1. n \in Int /\ m \in Int
    BY <1>1
  <2> HIDE DEF n, m
  <2>2. \E x \in {n, m} : \A y \in {n, m} : x <= y
    <3>1. n <= m \/ m <= n
      BY <2>1
    <3> QED
      BY <2>1, <3>1
  <2>3. Min({n, m}) \in {n, m} /\ Min({n, m}) <= m /\ Min({n, m}) <= n
    BY <2>2 DEF Min
  <2> QED
    BY <2>1, <2>3 DEF n, m
<1> HIDE DEF last
<1>3. i <= last
  BY <1>1, <1>2
<1>4. /\ g \in Seq(Rows) /\ Len(g) = last - i + 1 /\ DOMAIN g = 1..Len(g)
      /\ \A k \in 1..(last - i + 1) : g[k] = file[i + k - 1]
  <2>1. \A j \in i..last : j \in 1..Len(file) /\ file[j] \in Rows
    BY <1>1, <1>2
  <2> QED
    BY <1>1, <1>2, <1>3, <2>1
<1> HIDE DEF g
<1>5. Len(g) \in 1..ROW_GROUP_SIZE
  BY <1>1, <1>2, <1>3, <1>4
<1>6. \A k \in i..Len(file) : k < i + ROW_GROUP_SIZE <=> k - i + 1 \in 1..Len(g)
  BY <1>1, <1>2, <1>3, <1>4
<1>7. \A k \in 1..Len(g) : i + k - 1 \in 1..Len(file) /\ g[k] = file[i + k - 1]
  BY <1>1, <1>2, <1>3, <1>4
<1> QED
  BY <1>4, <1>5, <1>6, <1>7 DEF g, last

(* Two multiples of a number less than that number apart are the same.         *)
LEMMA SameMultiple ==
  ASSUME NEW R \in Nat \ {0}, NEW n \in Nat, NEW m \in Nat,
         R * n < R * m + R, R * m < R * n + R
  PROVE  n = m
<1>1. CASE n + 1 <= m
  <2>1. R * (m - n - 1) \in Nat /\ R * m = R * n + R + R * (m - n - 1)
    BY <1>1
  <2>2. R * m \in Nat /\ R * n \in Nat
    OBVIOUS
  <2> QED
    BY <2>1, <2>2
<1>2. CASE m + 1 <= n
  <2>1. R * (n - m - 1) \in Nat /\ R * n = R * m + R + R * (n - m - 1)
    BY <1>2
  <2>2. R * m \in Nat /\ R * n \in Nat
    OBVIOUS
  <2> QED
    BY <2>1, <2>2
<1> QED
  BY <1>1, <1>2

(* Each row of a file is in one row group.                                     *)
LEMMA OneGroup ==
  ASSUME NEW file \in Seq(Rows), NEW k \in 1..Len(file)
  PROVE  \E g \in Groups(file) :
           /\ g[2] \in Seq(Rows) /\ k - g[1] + 1 \in DOMAIN g[2] /\ g[2][k - g[1] + 1] = file[k]
           /\ \A h \in Groups(file) : k - h[1] + 1 \in DOMAIN h[2] => h = g
<1> DEFINE R == ROW_GROUP_SIZE
           Group(i) == <<i, SubSeq(file, i, Min({i + R - 1, Len(file)}))>>
           q == (k - 1) \div R
           first == R * q + 1
<1>1. R \in Nat \ {0} /\ k \in Nat \ {0} /\ Len(file) \in Nat /\ DOMAIN file = 1..Len(file)
  BY ZOrderAssumption
<1>2. q \in Nat /\ R * q <= k - 1 /\ k - 1 < R * q + R /\ R * q \in Nat
  <2> DEFINE t == k - 1
  <2>1. t \in Nat
    BY <1>1
  <2> HIDE DEF t, R
  <2>2. t \div R \in Nat /\ R * (t \div R) <= t /\ t < R * (t \div R) + R /\ R * (t \div R) \in Nat
    BY <1>1, <2>1
  <2> QED
    BY <2>2 DEF t
<1> HIDE DEF q
<1>3. first \in 1..Len(file) /\ first \in Nat \ {0} /\ first <= k /\ k < first + R
  BY <1>1, <1>2
<1>4. first % R = 1 % R
  BY <1>1, <1>2, <1>3, GroupStarts
<1>5. Groups(file) = {Group(i) : i \in {j \in DOMAIN file : j % R = 1 % R}}
  BY DEF Groups
<1>6. Group(first) \in Groups(file)
  BY <1>1, <1>3, <1>4, <1>5
<1>7. ASSUME NEW i \in 1..Len(file)
      PROVE  /\ Group(i)[1] = i /\ Group(i)[2] \in Seq(Rows)
             /\ DOMAIN Group(i)[2] = 1..Len(Group(i)[2])
             /\ Len(Group(i)[2]) \in 1..R
             /\ \A x \in i..Len(file) : x < i + R <=> x - i + 1 \in 1..Len(Group(i)[2])
             /\ \A x \in 1..Len(Group(i)[2]) : Group(i)[2][x] = file[i + x - 1]
  BY GroupIs
<1> HIDE DEF Group, first, R
<1>8. k \in first..Len(file)
  BY <1>1, <1>3
<1>9. k - first + 1 \in 1..Len(Group(first)[2])
  BY <1>3, <1>7, <1>8
<1>10. Group(first)[2][k - first + 1] = file[k]
  <2>1. first + (k - first + 1) - 1 = k
    BY <1>1, <1>3
  <2> QED
    BY <1>3, <1>7, <1>9, <2>1
<1>11. ASSUME NEW h \in Groups(file), k - h[1] + 1 \in DOMAIN h[2]
       PROVE  h = Group(first)
  <2>1. PICK i \in DOMAIN file : i % R = 1 % R /\ h = Group(i)
    BY <1>5
  <2>2. i \in 1..Len(file) /\ i \in Nat \ {0}
    BY <1>1
  <2>3. PICK m \in Nat : i = R * m + 1
    BY <1>1, <2>1, <2>2, GroupStarts
  <2>4. k - i + 1 \in 1..Len(Group(i)[2]) /\ Len(Group(i)[2]) \in 1..R
    BY <1>7, <1>11, <2>1, <2>2
  <2>5. i <= k /\ k < i + R
    BY <1>1, <2>2, <2>4
  <2>6. R * m \in Nat
    BY <1>1
  <2>7. R * m < R * q + R /\ R * q < R * m + R
    BY <1>1, <1>2, <2>3, <2>5, <2>6
  <2>8. m = q
    BY <1>1, <1>2, <2>7, SameMultiple
  <2> QED
    BY <2>1, <2>3, <2>8 DEF first
<1>12. Group(first)[1] = first /\ DOMAIN Group(first)[2] = 1..Len(Group(first)[2])
       /\ Group(first)[2] \in Seq(Rows)
  BY <1>3, <1>7
<1> QED
  BY <1>6, <1>9, <1>10, <1>11, <1>12

(* A recursion over the naturals up to N, given by a step in a set.             *)
Iterated(N, X, b, step) ==
  \E g \in [0..N -> X] : g[0] = b /\ \A n \in 1..N : g[n] = step[g[n - 1]]

LEMMA Recursion ==
  ASSUME NEW N \in Nat, NEW X, NEW b \in X, NEW step \in [X -> X]
  PROVE  Iterated(N, X, b, step)
<1> DEFINE S == {m \in Nat : Iterated(m, X, b, step)}
<1>1. 0 \in S
  <2> DEFINE g == [i \in 0..0 |-> b]
  <2>1. g \in [0..0 -> X] /\ g[0] = b /\ 1..0 = {}
    OBVIOUS
  <2> HIDE DEF g
  <2> QED
    BY <2>1 DEF Iterated
<1>2. ASSUME NEW m \in Nat, m \in S
      PROVE  m + 1 \in S
  <2>1. PICK g \in [0..m -> X] : g[0] = b /\ \A n \in 1..m : g[n] = step[g[n - 1]]
    BY <1>2 DEF Iterated
  <2> DEFINE h == [i \in 0..m + 1 |-> IF i = m + 1 THEN step[g[m]] ELSE g[i]]
  <2>2. h \in [0..m + 1 -> X]
    <3>1. g[m] \in X /\ \A i \in 0..m + 1 : i # m + 1 => i \in 0..m
      BY <2>1
    <3> QED
      BY <2>1, <3>1
  <2>3. h[0] = b
    BY <2>1
  <2>4. ASSUME NEW n \in 1..m + 1 PROVE h[n] = step[h[n - 1]]
    <3>1. CASE n = m + 1
      BY <3>1
    <3>2. CASE n # m + 1
      <4>1. n \in 1..m /\ n - 1 \in 0..m + 1 /\ n - 1 # m + 1
        BY <3>2
      <4> QED
        BY <2>1, <3>2, <4>1
    <3> QED
      BY <3>1, <3>2
  <2> HIDE DEF h
  <2> QED
    BY <2>2, <2>3, <2>4 DEF Iterated
<1>3. Nat \subseteq S
  <2> HIDE DEF S
  <2> QED
    BY <1>1, <1>2, Induction
<1> QED
  BY <1>3

(* 1 << n is what it says.                                                   *)
LEMMA ShiftedIs ==
  /\ shifted[0] = 1
  /\ \A n \in 0..Z_BITS : shifted[n] \in Nat \ {0}
  /\ \A n \in 1..Z_BITS : shifted[n] = 2 * shifted[n - 1]
<1> DEFINE X == Nat \ {0}
           step == [x \in X |-> 2 * x]
<1>1. Z_BITS \in Nat
  BY ZOrderAssumption
<1>2. step \in [X -> X] /\ 1 \in X /\ \A x \in X : step[x] = 2 * x
  OBVIOUS
<1> HIDE DEF X, step
<1>3. PICK g \in [0..Z_BITS -> X] : g[0] = 1 /\ \A n \in 1..Z_BITS : g[n] = step[g[n - 1]]
  <2>1. Iterated(Z_BITS, X, 1, step)
    BY <1>1, <1>2, Recursion
  <2> QED
    BY <2>1 DEF Iterated
<1>4. \A n \in 0..Z_BITS : g[n] = IF n = 0 THEN 1 ELSE 2 * g[n - 1]
  <2> TAKE n \in 0..Z_BITS
  <2>1. CASE n = 0
    BY <1>3, <2>1
  <2>2. CASE n # 0
    <3>1. n \in 1..Z_BITS /\ n - 1 \in 0..Z_BITS
      BY <1>1, <2>2
    <3> QED
      BY <1>2, <1>3, <2>2, <3>1
  <2> QED
    BY <2>1, <2>2
<1>5. g = [n \in 0..Z_BITS |-> IF n = 0 THEN 1 ELSE 2 * g[n - 1]]
  BY <1>3, <1>4
<1>6. shifted = [n \in 0..Z_BITS |-> IF n = 0 THEN 1 ELSE 2 * shifted[n - 1]]
  BY <1>5 DEF shifted
<1>7. \A n \in 0..Z_BITS : shifted[n] = IF n = 0 THEN 1 ELSE 2 * shifted[n - 1]
  BY <1>6
<1>8. shifted[0] = 1 /\ \A n \in 1..Z_BITS : shifted[n] = 2 * shifted[n - 1]
  BY <1>1, <1>7
<1> DEFINE S == {m \in Nat : m <= Z_BITS => shifted[m] \in Nat \ {0}}
<1>9. 0 \in S
  BY <1>8
<1>10. ASSUME NEW m \in Nat, m \in S
       PROVE  m + 1 \in S
  <2> SUFFICES ASSUME m + 1 <= Z_BITS PROVE shifted[m + 1] \in Nat \ {0}
    OBVIOUS
  <2>1. m + 1 \in 1..Z_BITS /\ (m + 1) - 1 = m /\ shifted[m] \in Nat \ {0}
    BY <1>1, <1>10
  <2>2. shifted[m + 1] = 2 * shifted[m]
    BY <1>8, <2>1
  <2> QED
    BY <2>1, <2>2
<1>11. Nat \subseteq S
  <2> HIDE DEF S
  <2> QED
    BY <1>9, <1>10, Induction
<1> QED
  BY <1>1, <1>8, <1>11

(* The spread of the n lowest bits is that of the lowest and that of the rest. *)
LEMMA SpreadIs ==
  /\ \A n \in 0..Z_BITS : spread[n] \in [Nat -> Nat]
  /\ \A n \in 1..Z_BITS : \A x \in Nat :
       x \div 2 \in Nat /\ spread[n][x] = (x % 2) + 8 * spread[n - 1][x \div 2]
  /\ \A x \in Nat : spread[0][x] = 0
<1> DEFINE X == [Nat -> Nat]
           b == [x \in Nat |-> 0]
           next(f) == [x \in Nat |-> (x % 2) + 8 * f[x \div 2]]
           step == [f \in X |-> next(f)]
<1>1. Z_BITS \in Nat
  BY ZOrderAssumption
<1>2. \A x \in Nat : x \div 2 \in Nat /\ x % 2 \in Nat
  OBVIOUS
<1>3. b \in X
  OBVIOUS
<1>4. ASSUME NEW f \in X PROVE next(f) \in X
  <2>1. \A x \in Nat : (x % 2) + 8 * f[x \div 2] \in Nat
    BY <1>2
  <2> QED
    BY <2>1
<1>5. step \in [X -> X] /\ \A f \in X : step[f] = next(f)
  <2> HIDE DEF X, next
  <2> QED
    BY <1>4
<1> HIDE DEF X, step, b
<1>6. PICK g \in [0..Z_BITS -> X] : g[0] = b /\ \A n \in 1..Z_BITS : g[n] = step[g[n - 1]]
  <2>1. Iterated(Z_BITS, X, b, step)
    BY <1>1, <1>3, <1>5, Recursion
  <2> QED
    BY <2>1 DEF Iterated
<1> DEFINE rest(h, n) == [x \in Nat |-> IF n = 0 THEN 0 ELSE (x % 2) + 8 * h[n - 1][x \div 2]]
<1>7. ASSUME NEW n \in 0..Z_BITS PROVE g[n] = rest(g, n)
  <2>1. CASE n = 0
    BY <1>6, <2>1 DEF b
  <2>2. CASE n # 0
    <3>1. n \in 1..Z_BITS /\ n - 1 \in 0..Z_BITS
      BY <1>1, <2>2
    <3>2. g[n] = next(g[n - 1])
      BY <1>5, <1>6, <3>1
    <3> QED
      BY <2>2, <3>2
  <2> QED
    BY <2>1, <2>2
<1>8. g = [n \in 0..Z_BITS |-> rest(g, n)]
  <2> HIDE DEF rest
  <2> QED
    BY <1>6, <1>7
<1>9. spread = [n \in 0..Z_BITS |-> rest(spread, n)]
  <2>1. spread = CHOOSE h : h = [n \in 0..Z_BITS |-> rest(h, n)]
    BY DEF spread
  <2> HIDE DEF rest
  <2> QED
    BY <1>8, <2>1
<1>10. \A n \in 0..Z_BITS : spread[n] = rest(spread, n)
  <2> HIDE DEF rest
  <2> QED
    BY <1>9
<1>11. \A x \in Nat : spread[0][x] = 0
  <2>1. spread[0] = rest(spread, 0)
    BY <1>1, <1>10
  <2> QED
    BY <2>1
<1>12. \A n \in 1..Z_BITS : \A x \in Nat :
         spread[n][x] = (x % 2) + 8 * spread[n - 1][x \div 2]
  <2> TAKE n \in 1..Z_BITS
  <2>1. n \in 0..Z_BITS /\ n # 0
    BY <1>1
  <2>2. spread[n] = rest(spread, n)
    <3> HIDE DEF rest
    <3> QED
      BY <1>10, <2>1
  <2> QED
    BY <2>1, <2>2
<1> DEFINE S == {m \in Nat : m <= Z_BITS => spread[m] \in X}
<1>13. 0 \in S
  <2>1. spread[0] = rest(spread, 0)
    BY <1>1, <1>10
  <2>2. spread[0] = b
    BY <2>1 DEF b
  <2> QED
    BY <1>3, <2>2
<1>14. ASSUME NEW m \in Nat, m \in S
       PROVE  m + 1 \in S
  <2> SUFFICES ASSUME m + 1 <= Z_BITS PROVE spread[m + 1] \in X
    OBVIOUS
  <2>1. m + 1 \in 0..Z_BITS /\ m + 1 # 0 /\ (m + 1) - 1 = m /\ spread[m] \in X
    BY <1>1, <1>14
  <2>2. spread[m + 1] = rest(spread, m + 1)
    BY <1>10, <2>1
  <2>3. spread[m + 1] = next(spread[m])
    BY <2>1, <2>2
  <2> HIDE DEF next
  <2> QED
    BY <1>4, <2>1, <2>3
<1>15. Nat \subseteq S
  <2> HIDE DEF S
  <2> QED
    BY <1>13, <1>14, Induction
<1>16. \A n \in 0..Z_BITS : spread[n] \in X
  BY <1>1, <1>15
<1> QED
  BY <1>2, <1>11, <1>12, <1>16 DEF X

(* Halves of a number below 1 << n.                                          *)
LEMMA HalfIs ==
  ASSUME NEW n \in 1..Z_BITS, NEW x \in 0..(shifted[n] - 1)
  PROVE  /\ x \div 2 \in 0..(shifted[n - 1] - 1) /\ x % 2 \in 0..1
         /\ x = 2 * (x \div 2) + (x % 2) /\ n - 1 \in 0..Z_BITS
<1>1. Z_BITS \in Nat /\ n - 1 \in 0..Z_BITS
  BY ZOrderAssumption
<1>2. shifted[n] = 2 * shifted[n - 1] /\ shifted[n - 1] \in Nat \ {0}
  BY <1>1, ShiftedIs
<1> DEFINE m == shifted[n - 1]
<1> HIDE DEF m
<1>3. x \in Nat /\ x < 2 * m /\ m \in Nat
  BY <1>2 DEF m
<1>4. x \div 2 \in 0..(m - 1) /\ x % 2 \in 0..1 /\ x = 2 * (x \div 2) + (x % 2)
  BY <1>3
<1> QED
  BY <1>1, <1>4 DEF m

(* The spread is strictly monotone.                                          *)
LEMMA SpreadGrows ==
  ASSUME NEW n \in 0..Z_BITS,
         NEW x \in 0..(shifted[n] - 1), NEW y \in 0..(shifted[n] - 1), x < y
  PROVE  spread[n][x] < spread[n][y]
<1> DEFINE Grows(m) == \A u, v \in 0..(shifted[m] - 1) : u < v => spread[m][u] < spread[m][v]
           S == {m \in Nat : m <= Z_BITS => Grows(m)}
<1>1. 0 \in S
  <2>1. \A u, v \in 0..(shifted[0] - 1) : ~(u < v)
    BY ShiftedIs
  <2> QED
    BY <2>1
<1>2. ASSUME NEW m \in Nat, m \in S
      PROVE  m + 1 \in S
  <2> SUFFICES ASSUME m + 1 <= Z_BITS,
                      NEW u \in 0..(shifted[m + 1] - 1), NEW v \in 0..(shifted[m + 1] - 1), u < v
               PROVE  spread[m + 1][u] < spread[m + 1][v]
    OBVIOUS
  <2> DEFINE p == u \div 2
             q == v \div 2
             i == u % 2
             j == v % 2
  <2>1. m + 1 \in 1..Z_BITS /\ (m + 1) - 1 = m /\ m \in 0..Z_BITS
    BY ZOrderAssumption
  <2>2. /\ p \in 0..(shifted[m] - 1) /\ i \in 0..1 /\ u = 2 * p + i
        /\ q \in 0..(shifted[m] - 1) /\ j \in 0..1 /\ v = 2 * q + j
    BY <2>1, HalfIs
  <2>3. u \in Nat /\ v \in Nat /\ p \in Nat /\ q \in Nat /\ shifted[m] \in Nat
    BY <2>1, <2>2, ShiftedIs
  <2>4. spread[m + 1][u] = i + 8 * spread[m][p] /\ spread[m + 1][v] = j + 8 * spread[m][q]
    BY <2>1, <2>3, SpreadIs
  <2>5. spread[m][p] \in Nat /\ spread[m][q] \in Nat
    BY <2>1, <2>3, SpreadIs
  <2> HIDE DEF p, q, i, j
  <2>6. CASE p = q
    <3>1. i < j
      BY <2>2, <2>3, <2>6
    <3> QED
      BY <2>2, <2>4, <2>5, <2>6, <3>1
  <2>7. CASE p < q
    <3>1. spread[m][p] < spread[m][q]
      BY <1>2, <2>1, <2>2, <2>7
    <3> QED
      BY <2>2, <2>4, <2>5, <3>1
  <2>8. p = q \/ p < q
    BY <2>2, <2>3
  <2> QED
    BY <2>6, <2>7, <2>8
<1>3. Nat \subseteq S
  <2> HIDE DEF S
  <2> QED
    BY <1>1, <1>2, Induction
<1>4. n \in Nat /\ n <= Z_BITS
  BY ZOrderAssumption
<1>5. Grows(n)
  BY <1>3, <1>4
<1> QED
  BY <1>5

(* The greater of two integers.                                              *)
LEMMA MaxOfTwo ==
  ASSUME NEW a \in Int, NEW b \in Int
  PROVE  Max({a, b}) \in {a, b} /\ a <= Max({a, b}) /\ b <= Max({a, b})
<1>1. \E x \in {a, b} : \A y \in {a, b} : y <= x
  <2>1. a <= b \/ b <= a
    OBVIOUS
  <2> QED
    BY <2>1
<1> QED
  BY <1>1 DEF Max

(* The code of three coordinates tells them: by the lowest bits, then by the   *)
(* halves.                                                                   *)
Code(n, c) == spread[n][c["ip"]] + 2 * spread[n][c["port"]] + 4 * spread[n][c["time"]]

CellsOf(n) == [Columns -> 0..(shifted[n] - 1)]

LEMMA CodeTells ==
  ASSUME NEW n \in 0..Z_BITS, NEW c \in CellsOf(n), NEW other \in CellsOf(n),
         Code(n, c) = Code(n, other)
  PROVE  c = other
<1> DEFINE Tells(m) == \A u, v \in CellsOf(m) : Code(m, u) = Code(m, v) => u = v
           S == {m \in Nat : m <= Z_BITS => Tells(m)}
<1>1. 0 \in S
  <2>1. CellsOf(0) = [Columns -> {0}]
    BY ShiftedIs DEF CellsOf
  <2>2. \A u, v \in CellsOf(0) : u = v
    BY <2>1
  <2> QED
    BY <2>2
<1>2. ASSUME NEW m \in Nat, m \in S
      PROVE  m + 1 \in S
  <2> SUFFICES ASSUME m + 1 <= Z_BITS, NEW u \in CellsOf(m + 1), NEW v \in CellsOf(m + 1),
                      Code(m + 1, u) = Code(m + 1, v)
               PROVE  u = v
    OBVIOUS
  <2> DEFINE Half(w) == [col \in Columns |-> w[col] \div 2]
             Bit(w) == [col \in Columns |-> w[col] % 2]
             Bits(w) == Bit(w)["ip"] + 2 * Bit(w)["port"] + 4 * Bit(w)["time"]
  <2>1. m + 1 \in 1..Z_BITS /\ (m + 1) - 1 = m /\ m \in 0..Z_BITS
    BY ZOrderAssumption
  <2>2. ASSUME NEW w \in CellsOf(m + 1)
        PROVE  /\ Half(w) \in CellsOf(m) /\ Bit(w) \in [Columns -> 0..1]
               /\ \A col \in Columns : w[col] = 2 * Half(w)[col] + Bit(w)[col]
               /\ Code(m + 1, w) = Bits(w) + 8 * Code(m, Half(w))
               /\ Code(m, Half(w)) \in Nat
    <3>1. ASSUME NEW col \in Columns
          PROVE  /\ w[col] \in 0..(shifted[m + 1] - 1) /\ w[col] \in Nat
                 /\ w[col] \div 2 \in 0..(shifted[m] - 1) /\ w[col] % 2 \in 0..1
                 /\ w[col] = 2 * (w[col] \div 2) + (w[col] % 2)
      <4>1. w[col] \in 0..(shifted[m + 1] - 1)
        BY DEF CellsOf
      <4> QED
        BY <2>1, <4>1, HalfIs
    <3>2. Half(w) \in CellsOf(m) /\ Bit(w) \in [Columns -> 0..1]
      BY <3>1 DEF CellsOf
    <3>3. \A col \in Columns : w[col] = 2 * Half(w)[col] + Bit(w)[col]
      BY <3>1
    <3>4. ASSUME NEW col \in Columns
          PROVE  /\ spread[m + 1][w[col]] = Bit(w)[col] + 8 * spread[m][Half(w)[col]]
                 /\ spread[m][Half(w)[col]] \in Nat /\ Bit(w)[col] \in 0..1
      <4>1. Half(w)[col] = w[col] \div 2 /\ Bit(w)[col] = w[col] % 2
        OBVIOUS
      <4>2. spread[m + 1][w[col]] = (w[col] % 2) + 8 * spread[m][w[col] \div 2]
        BY <2>1, <3>1, SpreadIs
      <4>3. w[col] \div 2 \in Nat
        BY <3>1
      <4>4. spread[m][w[col] \div 2] \in Nat
        BY <2>1, <4>3, SpreadIs
      <4> QED
        BY <3>1, <4>1, <4>2, <4>4
    <3>5. "ip" \in Columns /\ "port" \in Columns /\ "time" \in Columns
      BY DEF Columns
    <3> HIDE DEF Half, Bit
    <3>6. Code(m + 1, w) = Bits(w) + 8 * Code(m, Half(w)) /\ Code(m, Half(w)) \in Nat
      <4> DEFINE a(col) == spread[m][Half(w)[col]]
                 b(col) == Bit(w)[col]
      <4>1. \A col \in Columns : spread[m + 1][w[col]] = b(col) + 8 * a(col)
        BY <3>4
      <4>2. \A col \in Columns : a(col) \in Nat /\ b(col) \in 0..1
        BY <3>4
      <4>3. Code(m, Half(w)) = a("ip") + 2 * a("port") + 4 * a("time")
        BY DEF Code
      <4>4. Bits(w) = b("ip") + 2 * b("port") + 4 * b("time")
        OBVIOUS
      <4> HIDE DEF a, b, Bits
      <4>5. Code(m + 1, w) = (b("ip") + 8 * a("ip")) + 2 * (b("port") + 8 * a("port"))
                               + 4 * (b("time") + 8 * a("time"))
        BY <3>5, <4>1 DEF Code
      <4>6. /\ a("ip") \in Nat /\ a("port") \in Nat /\ a("time") \in Nat
            /\ b("ip") \in Nat /\ b("port") \in Nat /\ b("time") \in Nat
        BY <3>5, <4>2
      <4> QED
        BY <4>3, <4>4, <4>5, <4>6
    <3> QED
      BY <3>2, <3>3, <3>6
  <2>3. "ip" \in Columns /\ "port" \in Columns /\ "time" \in Columns
    BY DEF Columns
  <2> HIDE DEF Half, Bit
  <2>4. \A w \in CellsOf(m + 1) : \A col \in Columns : Bit(w)[col] \in 0..1
    BY <2>2
  <2>5. Bits(u) \in 0..7 /\ Bits(v) \in 0..7
    BY <2>3, <2>4
  <2>6. Bits(u) = Bits(v) /\ Code(m, Half(u)) = Code(m, Half(v))
    <3> HIDE DEF Bits
    <3> QED
      BY <2>2, <2>5
  <2>7. Half(u) = Half(v)
    BY <1>2, <2>1, <2>2, <2>6
  <2>8. /\ Bit(u)["ip"] = Bit(v)["ip"] /\ Bit(u)["port"] = Bit(v)["port"]
        /\ Bit(u)["time"] = Bit(v)["time"]
    BY <2>3, <2>4, <2>6
  <2>9. \A col \in Columns : Bit(u)[col] = Bit(v)[col]
    BY <2>8 DEF Columns
  <2>10. \A col \in Columns : u[col] = v[col]
    BY <2>2, <2>7, <2>9
  <2> QED
    BY <2>10 DEF CellsOf
<1>3. Nat \subseteq S
  <2> HIDE DEF S
  <2> QED
    BY <1>1, <1>2, Induction
<1>4. n \in Nat /\ n <= Z_BITS
  BY ZOrderAssumption
<1>5. Tells(n)
  BY <1>3, <1>4
<1> QED
  BY <1>5

(* And it grows with each of them.                                           *)
LEMMA CodeGrows ==
  ASSUME NEW c \in CellsOf(Z_BITS), NEW other \in CellsOf(Z_BITS),
         \A col \in Columns : c[col] <= other[col]
  PROVE  /\ Code(Z_BITS, c) <= Code(Z_BITS, other)
         /\ Code(Z_BITS, c) \in Nat /\ Code(Z_BITS, other) \in Nat
<1>1. Z_BITS \in 0..Z_BITS
  BY ZOrderAssumption
<1>2. ASSUME NEW col \in Columns
      PROVE  /\ spread[Z_BITS][c[col]] \in Nat /\ spread[Z_BITS][other[col]] \in Nat
             /\ spread[Z_BITS][c[col]] <= spread[Z_BITS][other[col]]
  <2>1. c[col] \in 0..(shifted[Z_BITS] - 1) /\ other[col] \in 0..(shifted[Z_BITS] - 1)
    BY DEF CellsOf
  <2>2. c[col] \in Nat /\ other[col] \in Nat /\ c[col] <= other[col]
    BY <2>1
  <2>3. spread[Z_BITS][c[col]] \in Nat /\ spread[Z_BITS][other[col]] \in Nat
    BY <1>1, <2>2, SpreadIs
  <2>4. CASE c[col] = other[col]
    BY <2>3, <2>4
  <2>5. CASE c[col] < other[col]
    BY <1>1, <2>1, <2>3, <2>5, SpreadGrows
  <2> QED
    BY <2>2, <2>3, <2>4, <2>5
<1>3. "ip" \in Columns /\ "port" \in Columns /\ "time" \in Columns
  BY DEF Columns
<1> QED
  BY <1>2, <1>3 DEF Code

(* Quotients by a number grow with the dividend.                             *)
LEMMA QuotientGrows ==
  ASSUME NEW a \in Int, NEW b \in Int, a <= b, NEW c \in Nat \ {0}
  PROVE  a \div c \in Int /\ b \div c \in Int /\ a \div c <= b \div c
<1> DEFINE p == a \div c
           q == b \div c
<1>1. p \in Int /\ c * p <= a /\ a < c * p + c
  BY SMTT(30)
<1>2. q \in Int /\ c * q <= b /\ b < c * q + c
  BY SMTT(30)
<1> HIDE DEF p, q
<1>3. ASSUME q + 1 <= p PROVE FALSE
  <2>1. c * (p - q - 1) >= 0 /\ c * p = c * q + c + c * (p - q - 1)
    BY <1>1, <1>2, <1>3
  <2>2. c * p \in Int /\ c * q \in Int
    BY <1>1, <1>2
  <2> QED
    BY <1>1, <1>2, <2>1, <2>2
<1>4. p <= q
  BY <1>1, <1>2, <1>3
<1> QED
  BY <1>1, <1>2, <1>4 DEF p, q

(* Scaling keeps the order and stays within Z_MAX.                           *)
LEMMA ScaleGrows ==
  ASSUME NEW lo \in Int, NEW hi \in Int, NEW v \in Int, NEW w \in Int,
         lo <= v, v <= w, w <= hi
  PROVE  /\ scale(v, lo, hi) \in 0..(Z_MAX - 1) /\ scale(w, lo, hi) \in 0..(Z_MAX - 1)
         /\ scale(v, lo, hi) <= scale(w, lo, hi)
<1> DEFINE M == Z_MAX - 1
           rng == Max({hi - lo, 1})
           Q(x) == ((x - lo) * M) \div rng
           P(x) == Max({Q(x), 0})
<1>1. M \in Nat
  BY ShiftedIs, ZOrderAssumption DEF Z_MAX
<1>2. rng \in Nat \ {0}
  <2>1. hi - lo \in Int
    OBVIOUS
  <2>2. 1 <= rng /\ rng \in {hi - lo, 1}
    BY <2>1, MaxOfTwo
  <2> QED
    BY <2>1, <2>2
<1>3. \A x : scale(x, lo, hi) = Min({P(x), M})
  BY DEF scale
<1> HIDE DEF M, rng
<1>4. Q(v) \in Int /\ Q(w) \in Int /\ Q(v) <= Q(w)
  <2>1. (v - lo) * M \in Int /\ (w - lo) * M \in Int /\ (v - lo) * M <= (w - lo) * M
    <3> DEFINE x == v - lo
               y == w - v
    <3>1. x \in Nat /\ y \in Nat /\ w - lo = x + y
      OBVIOUS
    <3> HIDE DEF x, y
    <3>2. x * M \in Nat /\ y * M \in Nat /\ (x + y) * M = x * M + y * M
      BY <1>1, <3>1
    <3>3. (x + y) * M \in Int /\ x * M <= (x + y) * M
      BY <3>2
    <3> QED
      BY <3>1, <3>2, <3>3 DEF x
  <2> QED
    BY <1>2, <2>1, QuotientGrows
<1> HIDE DEF Q
<1>5. P(v) \in Nat /\ P(w) \in Nat /\ P(v) <= P(w)
  <2>1. P(v) \in {Q(v), 0} /\ Q(v) <= P(v) /\ 0 <= P(v)
    BY <1>4, MaxOfTwo
  <2>2. P(w) \in {Q(w), 0} /\ Q(w) <= P(w) /\ 0 <= P(w)
    BY <1>4, MaxOfTwo
  <2> HIDE DEF P
  <2> QED
    BY <1>4, <2>1, <2>2
<1> DEFINE p == P(v)
           q == P(w)
           s == Min({p, M})
           t == Min({q, M})
<1>6. p \in Int /\ q \in Int /\ M \in Int /\ 0 <= p /\ p <= q /\ 0 <= M
  BY <1>1, <1>5
<1>7. scale(v, lo, hi) = s /\ scale(w, lo, hi) = t
  BY <1>3
<1> HIDE DEF P, p, q
<1>8. scale(v, lo, hi) \in 0..M /\ scale(w, lo, hi) \in 0..M /\ scale(v, lo, hi) <= scale(w, lo, hi)
  <2>1. s \in {p, M} /\ s <= p /\ s <= M
    BY <1>6, MinOfTwo
  <2>2. t \in {q, M} /\ t <= q /\ t <= M
    BY <1>6, MinOfTwo
  <2> HIDE DEF s, t
  <2>3. s \in 0..M /\ t \in 0..M /\ s <= t
    BY <1>6, <2>1, <2>2
  <2> QED
    BY <1>7, <2>3
<1> QED
  BY <1>8 DEF M

(* The dimensions of a file are rows.                                        *)
LEMMA DimensionsAre ==
  ASSUME NEW rows \in Seq(Rows)
  PROVE  /\ Dimensions(rows) \in Seq(Rows) /\ DOMAIN Dimensions(rows) = DOMAIN rows
         /\ \A i \in DOMAIN rows, col \in Columns :
              Dimensions(rows)[i][col] =
                IF col = "time" THEN rows[i][col] \div BUCKET ELSE rows[i][col]
<1>1. DOMAIN rows = 1..Len(rows) /\ Len(rows) \in Nat /\ \A i \in DOMAIN rows : rows[i] \in Rows
  OBVIOUS
<1>2. BUCKET \in Nat \ {0}
  BY ZOrderAssumption
<1>3. ASSUME NEW i \in DOMAIN rows
      PROVE  /\ [rows[i] EXCEPT !["time"] = rows[i]["time"] \div BUCKET] \in Rows
             /\ \A col \in Columns :
                  [rows[i] EXCEPT !["time"] = rows[i]["time"] \div BUCKET][col] =
                    IF col = "time" THEN rows[i][col] \div BUCKET ELSE rows[i][col]
  <2>1. rows[i] \in [Columns -> Int] /\ "time" \in Columns
    BY <1>1 DEF Rows, Columns
  <2>2. rows[i]["time"] \in Int
    BY <2>1
  <2>3. rows[i]["time"] \div BUCKET \in Int
    BY <1>2, <2>2, QuotientGrows
  <2> QED
    BY <2>1, <2>3 DEF Rows
<1>4. Dimensions(rows) \in Seq(Rows) /\ DOMAIN Dimensions(rows) = DOMAIN rows
  BY <1>1, <1>3 DEF Dimensions
<1> QED
  BY <1>3, <1>4 DEF Dimensions

(* The Z-order codes of a file tell the cells of its rows and grow with them.  *)
LEMMA CodesTellCells ==
  ASSUME NEW rows \in Seq(Rows)
  PROVE  ZCodeTellsCell(rows) /\ \A i \in DOMAIN rows : z_value(rows, i) \in Int
<1> DEFINE dims == Dimensions(rows)
           lo(col) == Min(Values(dims, col))
           hi(col) == Max(Values(dims, col))
<1>1. /\ dims \in Seq(Rows) /\ DOMAIN dims = DOMAIN rows
      /\ \A i \in DOMAIN rows, col \in Columns :
           dims[i][col] = IF col = "time" THEN rows[i][col] \div BUCKET ELSE rows[i][col]
  BY DimensionsAre
<1>2. \A i : Scaled(rows, i) = [col \in Columns |-> scale(dims[i][col], lo(col), hi(col))]
  BY DEF Scaled
<1>3. \A i : z_value(rows, i) = Code(Z_BITS, Scaled(rows, i))
  BY DEF z_value, Code, bit_interleave_3, spread_bits
<1> HIDE DEF dims
<1>4. ASSUME NEW i \in DOMAIN rows, NEW col \in Columns
      PROVE  dims[i][col] \in Int /\ lo(col) \in Int /\ hi(col) \in Int
             /\ lo(col) <= dims[i][col] /\ dims[i][col] <= hi(col)
  BY <1>1, ValuesAre
<1> HIDE DEF lo, hi
<1>5. ASSUME NEW i \in DOMAIN rows
      PROVE  Scaled(rows, i) \in CellsOf(Z_BITS)
  <2>1. \A col \in Columns : scale(dims[i][col], lo(col), hi(col)) \in 0..(Z_MAX - 1)
    <3> TAKE col \in Columns
    <3>1. dims[i][col] <= dims[i][col]
      BY <1>4
    <3> QED
      BY <1>4, <3>1, ScaleGrows
  <2> QED
    BY <1>2, <2>1 DEF CellsOf, Z_MAX
<1>6. Z_BITS \in 0..Z_BITS
  BY ZOrderAssumption
<1>7. ASSUME NEW i \in DOMAIN rows, NEW j \in DOMAIN rows, z_value(rows, i) = z_value(rows, j)
      PROVE  Scaled(rows, i) = Scaled(rows, j)
  BY <1>3, <1>5, <1>6, <1>7, CodeTells
<1>8. ASSUME NEW i \in DOMAIN rows, NEW j \in DOMAIN rows,
             \A col \in Columns : rows[i][col] <= rows[j][col]
      PROVE  z_value(rows, i) <= z_value(rows, j)
  <2>1. ASSUME NEW col \in Columns
        PROVE  Scaled(rows, i)[col] <= Scaled(rows, j)[col]
    <3>1. dims[i][col] <= dims[j][col]
      <4>1. rows[i][col] \in Int /\ rows[j][col] \in Int /\ rows[i][col] <= rows[j][col]
        BY <1>8, ValuesAre
      <4>2. BUCKET \in Nat \ {0}
        BY ZOrderAssumption
      <4>3. rows[i][col] \div BUCKET <= rows[j][col] \div BUCKET
        BY <4>1, <4>2, QuotientGrows
      <4> QED
        BY <1>1, <4>1, <4>3
    <3>2. scale(dims[i][col], lo(col), hi(col)) <= scale(dims[j][col], lo(col), hi(col))
      BY <1>4, <3>1, ScaleGrows
    <3> QED
      BY <1>2, <3>2
  <2> QED
    BY <1>3, <1>5, <2>1, CodeGrows
<1>9. \A i \in DOMAIN rows : z_value(rows, i) \in Int
  <2> TAKE i \in DOMAIN rows
  <2>1. \A col \in Columns : Scaled(rows, i)[col] \in Int
    BY <1>5 DEF CellsOf
  <2>2. \A col \in Columns : Scaled(rows, i)[col] <= Scaled(rows, i)[col]
    BY <2>1
  <2> QED
    BY <1>3, <1>5, <2>2, CodeGrows
<1> QED
  BY <1>7, <1>8, <1>9 DEF ZCodeTellsCell

(* Two sets that a function pairs off have the same size.                      *)
LEMMA SameCount ==
  ASSUME NEW A, IsFiniteSet(A), NEW B, NEW f \in [A -> B],
         \A x, y \in A : f[x] = f[y] => x = y,
         \A y \in B : \E x \in A : f[x] = y
  PROVE  Cardinality(A) = Cardinality(B) /\ IsFiniteSet(B)
<1>1. f \in Injection(A, B)
  BY DEF Injection, IsInjective
<1>2. f \in Surjection(A, B)
  BY DEF Surjection
<1>3. ExistsBijection(A, B)
  BY <1>1, <1>2 DEF ExistsBijection, Bijection
<1> QED
  BY <1>3, FS_Bijection

\* Each element of W is in one of the sets B[x].
Partition(B, S, W) ==
  /\ B \in [S -> SUBSET W]
  /\ \A x, y \in S : \A w : w \in B[x] /\ w \in B[y] => x = y
  /\ \A w \in W : \E x \in S : w \in B[x]

(* The sizes of the parts of a set add up to its own.                          *)
LEMMA SumOfSizes ==
  ASSUME NEW S, IsFiniteSet(S), NEW W, IsFiniteSet(W), NEW B, Partition(B, S, W)
  PROVE  SumFunction([x \in S |-> Cardinality(B[x])]) = Cardinality(W)
<1>0. /\ B \in [S -> SUBSET W]
      /\ \A x, y \in S : \A w : w \in B[x] /\ w \in B[y] => x = y
      /\ \A w \in W : \E x \in S : w \in B[x]
  BY DEF Partition
<1> DEFINE f == [x \in S |-> Cardinality(B[x])]
           All(s) == {w \in W : \E x \in s : w \in B[x]}
<1>1. \A x \in S : B[x] \in SUBSET W /\ IsFiniteSet(B[x]) /\ Cardinality(B[x]) \in Nat
  BY <1>0, FS_Subset, FS_CardinalityType
<1>2. f \in [S -> Nat] /\ \A x \in S : f[x] = Cardinality(B[x])
  BY <1>1
<1> HIDE DEF f
<1>3. PICK F : PartialSums(F, f, S)
  BY <1>2, SumGrows
<1> DEFINE Q == {s \in SUBSET S : F[s] = Cardinality(All(s))}
<1>4. {} \in Q
  <2>1. All({}) = {}
    OBVIOUS
  <2> QED
    BY <1>3, <2>1, FS_EmptySet DEF PartialSums
<1>5. \A s \in SUBSET S, x \in S : s \in Q /\ x \notin s => s \cup {x} \in Q
  <2> SUFFICES ASSUME NEW s \in SUBSET S, NEW x \in S, s \in Q, x \notin s
               PROVE  F[s \cup {x}] = Cardinality(All(s \cup {x}))
    OBVIOUS
  <2>1. All(s \cup {x}) = All(s) \cup B[x] /\ All(s) \cap B[x] = {}
    BY <1>0, <1>1
  <2>2. IsFiniteSet(All(s)) /\ Cardinality(All(s)) \in Nat
    BY FS_Subset, FS_CardinalityType
  <2>3. F[s] = Cardinality(All(s))
    OBVIOUS
  <2>4. F[s \cup {x}] = F[s] + f[x]
    BY <1>3 DEF PartialSums
  <2> HIDE DEF All
  <2>5. Cardinality(All(s) \cup B[x]) = Cardinality(All(s)) + Cardinality(B[x])
    <3>1. Cardinality(All(s) \cup B[x])
            = Cardinality(All(s)) + Cardinality(B[x]) - Cardinality(All(s) \cap B[x])
      BY <1>1, <2>2, FS_Union
    <3>2. Cardinality(All(s) \cap B[x]) = 0
      BY <2>1, FS_EmptySet
    <3>3. Cardinality(B[x]) \in Nat
      BY <1>1
    <3> QED
      BY <2>2, <3>1, <3>2, <3>3
  <2> QED
    BY <1>2, <2>1, <2>3, <2>4, <2>5
<1>6. S \in Q
  <2> HIDE DEF Q
  <2> QED
    BY <1>4, <1>5, FiniteInduction
<1>7. All(S) = W
  BY <1>0
<1> QED
  BY <1>3, <1>6, <1>7 DEF f, PartialSums

(* A stable sort names each row once.                                        *)
LEMMA SortIsBijection ==
  ASSUME NEW n \in Nat, NEW key \in [1..n -> Int]
  PROVE  /\ sort_indices(key) \in [1..n -> 1..n]
         /\ \A m, k \in 1..n : sort_indices(key)[m] = sort_indices(key)[k] => m = k
         /\ \A i \in 1..n : \E m \in 1..n : sort_indices(key)[m] = i
<1> DEFINE D == 1..n
           U(i) == Upto(key, i)
           rank == [i \in D |-> Cardinality(U(i))]
           order == sort_indices(key)
<1>1. IsFiniteSet(D) /\ Cardinality(D) = n
  <2>1. 1 \in Int /\ n \in Int
    OBVIOUS
  <2>2. IsFiniteSet(D) /\ Cardinality(D) = IF 1 > n THEN 0 ELSE n - 1 + 1
    BY <2>1, FS_Interval
  <2> QED
    BY <2>2
<1>2. \A i \in D : key[i] \in Int
  OBVIOUS
<1>3. \A i, j : j \in U(i) <=> j \in D /\ (key[j] < key[i] \/ (key[j] = key[i] /\ j <= i))
  BY DEF Upto
<1>4. order = [m \in D |-> CHOOSE i \in D : Cardinality(U(i)) = m]
  BY DEF sort_indices
<1> HIDE DEF U, order
<1>5. ASSUME NEW i \in D
      PROVE  U(i) \in SUBSET D /\ IsFiniteSet(U(i)) /\ Cardinality(U(i)) \in D /\ i \in U(i)
  <2>1. U(i) \in SUBSET D /\ i \in U(i)
    BY <1>2, <1>3
  <2>2. IsFiniteSet(U(i)) /\ Cardinality(U(i)) <= n /\ Cardinality(U(i)) \in Nat
    BY <1>1, <2>1, FS_Subset, FS_CardinalityType
  <2>3. Cardinality(U(i)) # 0
    BY <2>1, <2>2, FS_EmptySet
  <2> QED
    BY <2>1, <2>2, <2>3
<1>6. ASSUME NEW i \in D, NEW j \in D, key[i] < key[j] \/ (key[i] = key[j] /\ i < j)
      PROVE  Cardinality(U(i)) # Cardinality(U(j))
  <2>1. U(i) \in SUBSET U(j) /\ j \notin U(i)
    BY <1>2, <1>3, <1>6
  <2> QED
    BY <1>5, <2>1, FS_Subset
<1>7. \A i, j \in D : rank[i] = rank[j] => i = j
  <2> TAKE i, j \in D
  <2>1. i \in Int /\ j \in Int /\ key[i] \in Int /\ key[j] \in Int
    BY <1>2
  <2>2. i # j => \/ key[i] < key[j] \/ (key[i] = key[j] /\ i < j)
                 \/ key[j] < key[i] \/ (key[j] = key[i] /\ j < i)
    BY <2>1
  <2> QED
    BY <1>6, <2>2
<1>8. rank \in [D -> D]
  BY <1>5
<1> HIDE DEF D
<1>9. \A m \in D : \E i \in D : Cardinality(U(i)) = m
  <2>1. rank \in Injection(D, D)
    BY <1>7, <1>8 DEF Injection, IsInjective
  <2> HIDE DEF rank
  <2>2. rank \in Surjection(D, D)
    BY <1>1, <2>1, FS_Injection
  <2>3. \A m \in D : \E i \in D : rank[i] = m
    BY <2>2 DEF Surjection
  <2> QED
    BY <2>3 DEF rank
<1>10. \A m \in D : order[m] \in D /\ Cardinality(U(order[m])) = m
  <2> TAKE m \in D
  <2>1. order[m] = CHOOSE i \in D : Cardinality(U(i)) = m
    BY <1>4
  <2>2. \E i \in D : Cardinality(U(i)) = m
    BY <1>9
  <2> QED
    BY <2>1, <2>2
<1>11. order \in [D -> D]
  BY <1>4, <1>10
<1>12. \A m, k \in D : order[m] = order[k] => m = k
  BY <1>10
<1>13. \A i \in D : \E m \in D : order[m] = i
  <2>1. order \in Injection(D, D)
    BY <1>11, <1>12 DEF Injection, IsInjective
  <2>2. order \in Surjection(D, D)
    BY <1>1, <2>1, FS_Injection
  <2> QED
    BY <2>2 DEF Surjection
<1> QED
  BY <1>11, <1>12, <1>13 DEF order, D

(* The rows in a sorted order are the rows, and as many of them match.          *)
LEMMA SortKeepsRows ==
  ASSUME NEW rows \in Seq(Rows), NEW key \in [DOMAIN rows -> Int], NEW preds
  PROVE  /\ take(rows, sort_indices(key)) \in Seq(Rows)
         /\ Cardinality(Matching(take(rows, sort_indices(key)), preds))
              = Cardinality(Matching(rows, preds))
         /\ IsFiniteSet(Matching(rows, preds))
<1> DEFINE n == Len(rows)
           D == 1..n
           order == sort_indices(key)
           file == take(rows, order)
           f == [k \in Matching(file, preds) |-> order[k]]
<1>1. n \in Nat /\ DOMAIN rows = D /\ key \in [D -> Int] /\ \A i \in D : rows[i] \in Rows
  OBVIOUS
<1>2. /\ order \in [D -> D]
      /\ \A m, k \in D : order[m] = order[k] => m = k
      /\ \A i \in D : \E m \in D : order[m] = i
  BY <1>1, SortIsBijection
<1> HIDE DEF order
<1>3. file = [i \in D |-> rows[order[i]]]
  BY <1>1 DEF take
<1>4. file \in Seq(Rows)
  BY <1>1, <1>2, <1>3
<1> HIDE DEF n
<1>5. \A i : i \in Matching(rows, preds) <=> i \in D /\ \A p \in preds : Holds(p, rows[i])
  BY <1>1 DEF Matching
<1>6. \A k : k \in Matching(file, preds)
               <=> k \in D /\ \A p \in preds : Holds(p, rows[order[k]])
  BY <1>3 DEF Matching
<1> HIDE DEF file, D
<1>7. IsFiniteSet(Matching(rows, preds)) /\ IsFiniteSet(Matching(file, preds))
  <2>1. IsFiniteSet(D)
    BY <1>1, FS_Interval DEF D
  <2>2. Matching(rows, preds) \in SUBSET D /\ Matching(file, preds) \in SUBSET D
    BY <1>5, <1>6
  <2> QED
    BY <2>1, <2>2, FS_Subset
<1>8. Matching(file, preds) \subseteq D /\ Matching(rows, preds) \subseteq D
  BY <1>5, <1>6
<1>9. \A k \in Matching(file, preds) : order[k] \in Matching(rows, preds)
  BY <1>2, <1>5, <1>6
<1>10. \A i \in Matching(rows, preds) : \E k \in Matching(file, preds) : order[k] = i
  BY <1>2, <1>5, <1>6
<1>11. Cardinality(Matching(file, preds)) = Cardinality(Matching(rows, preds))
  <2> DEFINE A == Matching(file, preds)
             B == Matching(rows, preds)
  <2> HIDE DEF A, B
  <2>1. f \in [A -> B]
    BY <1>9 DEF A, B
  <2>2. \A x, y \in A : f[x] = f[y] => x = y
    BY <1>2, <1>8 DEF A
  <2>3. \A y \in B : \E x \in A : f[x] = y
    BY <1>10 DEF A, B
  <2> HIDE DEF f
  <2>4. IsFiniteSet(A)
    BY <1>7 DEF A
  <2>5. Cardinality(A) = Cardinality(B)
    BY <2>1, <2>2, <2>3, <2>4, SameCount
  <2> QED
    BY <2>5 DEF A, B
<1> QED
  BY <1>4, <1>7, <1>11 DEF file, order

(* Each of the three layouts has the rows of the corpus.                       *)
LEMMA LayoutKeepsRows ==
  ASSUME NEW rows \in Seq(Rows), NEW name \in Layouts, NEW preds
  PROVE  /\ Layout(rows, name) \in Seq(Rows)
         /\ Cardinality(Matching(Layout(rows, name), preds)) = Cardinality(Matching(rows, preds))
<1>1. CASE name = "unordered"
  BY <1>1 DEF Layout
<1>2. CASE name = "single_sort"
  <2> DEFINE key == [i \in DOMAIN rows |-> rows[i]["ip"]]
  <2>1. "ip" \in Columns
    BY DEF Columns
  <2>2. key \in [DOMAIN rows -> Int]
    BY <2>1, ValuesAre
  <2>3. Layout(rows, name) = take(rows, sort_indices(key))
    BY <1>2 DEF Layout
  <2> HIDE DEF key
  <2> QED
    BY <2>2, <2>3, SortKeepsRows
<1>3. CASE name = "zorder"
  <2> DEFINE key == [i \in DOMAIN rows |-> z_value(rows, i)]
  <2>1. key \in [DOMAIN rows -> Int]
    BY CodesTellCells
  <2>2. Layout(rows, name) = take(rows, sort_indices(key))
    BY <1>3 DEF Layout
  <2> HIDE DEF key
  <2> QED
    BY <2>1, <2>2, SortKeepsRows
<1> QED
  BY <1>1, <1>2, <1>3 DEF Layouts

(* Of a file of any rows in any order, cut into groups of any size, and for     *)
(* any predicates: what rg_prunable lets an engine skip holds no row of the      *)
(* answer, and each row of the answer is in one of the groups it scans, and    *)
(* in no second one.                                                         *)
THEOREM PruningKeepsAnswer ==
  \A file \in Seq(Rows), preds \in SUBSET Predicates :
    LET counted == count_prunable_rgs(file, preds)
    IN /\ \A g \in counted.pruned : Matching(g[2], preds) = {}
       /\ \A k \in Matching(file, preds) : \E g \in counted.scanned :
            /\ k - g[1] + 1 \in Matching(g[2], preds)
            /\ \A h \in counted.scanned : k - h[1] + 1 \in Matching(h[2], preds) => h = g
<1> SUFFICES ASSUME NEW file \in Seq(Rows), NEW preds \in SUBSET Predicates
             PROVE  LET counted == count_prunable_rgs(file, preds)
                    IN /\ \A g \in counted.pruned : Matching(g[2], preds) = {}
                       /\ \A k \in Matching(file, preds) : \E g \in counted.scanned :
                            /\ k - g[1] + 1 \in Matching(g[2], preds)
                            /\ \A h \in counted.scanned :
                                 k - h[1] + 1 \in Matching(h[2], preds) => h = g
  OBVIOUS
<1> DEFINE counted == count_prunable_rgs(file, preds)
<1>1. /\ counted.pruned = {g \in Groups(file) : rg_prunable(row_group_stats(g[2]), preds)}
      /\ counted.scanned = Groups(file) \ counted.pruned
  BY DEF count_prunable_rgs
<1> HIDE DEF counted
<1>2. ASSUME NEW g \in counted.pruned
      PROVE  Matching(g[2], preds) = {}
  <2>1. g \in Groups(file) /\ rg_prunable(row_group_stats(g[2]), preds)
    BY <1>1
  <2>2. PICK i \in DOMAIN file : g = <<i, SubSeq(file, i, Min({i + ROW_GROUP_SIZE - 1, Len(file)}))>>
    BY <2>1 DEF Groups
  <2>3. i \in 1..Len(file)
    OBVIOUS
  <2>4. g[2] \in Seq(Rows)
    BY <2>2, <2>3, GroupIs
  <2> QED
    BY <2>1, <2>4, PrunableIsEmpty
<1>3. ASSUME NEW k \in Matching(file, preds)
      PROVE  \E g \in counted.scanned :
               /\ k - g[1] + 1 \in Matching(g[2], preds)
               /\ \A h \in counted.scanned : k - h[1] + 1 \in Matching(h[2], preds) => h = g
  <2>1. k \in DOMAIN file /\ \A p \in preds : Holds(p, file[k])
    BY DEF Matching
  <2>2. k \in 1..Len(file)
    BY <2>1
  <2>3. PICK g \in Groups(file) :
          /\ k - g[1] + 1 \in DOMAIN g[2] /\ g[2][k - g[1] + 1] = file[k]
          /\ \A h \in Groups(file) : k - h[1] + 1 \in DOMAIN h[2] => h = g
    BY <2>2, OneGroup
  <2>4. k - g[1] + 1 \in Matching(g[2], preds)
    BY <2>1, <2>3 DEF Matching
  <2>5. g \in counted.scanned
    BY <1>1, <1>2, <2>4
  <2>6. \A h : k - h[1] + 1 \in Matching(h[2], preds) => k - h[1] + 1 \in DOMAIN h[2]
    BY DEF Matching
  <2> QED
    BY <1>1, <2>3, <2>4, <2>5, <2>6
<1> QED
  BY <1>2, <1>3 DEF counted

(* The row groups of a file are finitely many, and a place in one is one of     *)
(* the file.                                                                 *)
LEMMA GroupsAre ==
  ASSUME NEW file \in Seq(Rows)
  PROVE  /\ IsFiniteSet(Groups(file))
         /\ \A g \in Groups(file) :
              /\ g[1] \in Nat /\ DOMAIN g[2] \subseteq Int
              /\ \A m \in DOMAIN g[2] : g[1] + m - 1 \in DOMAIN file /\ g[2][m] = file[g[1] + m - 1]
<1> DEFINE Group(i) == <<i, SubSeq(file, i, Min({i + ROW_GROUP_SIZE - 1, Len(file)}))>>
           I == {i \in DOMAIN file : i % ROW_GROUP_SIZE = 1 % ROW_GROUP_SIZE}
           f == [i \in I |-> Group(i)]
<1>1. Groups(file) = {Group(i) : i \in I} /\ DOMAIN file = 1..Len(file) /\ Len(file) \in Nat
  BY DEF Groups
<1>2. IsFiniteSet(I)
  <2>1. IsFiniteSet(DOMAIN file) /\ I \in SUBSET DOMAIN file
    BY <1>1, FS_Interval
  <2> QED
    BY <2>1, FS_Subset
<1>3. ASSUME NEW i \in I
      PROVE  /\ Group(i)[1] \in Nat /\ DOMAIN Group(i)[2] \subseteq Int
             /\ \A m \in DOMAIN Group(i)[2] :
                  /\ Group(i)[1] + m - 1 \in DOMAIN file
                  /\ Group(i)[2][m] = file[Group(i)[1] + m - 1]
  <2>1. i \in 1..Len(file) /\ i \in Nat
    BY <1>1
  <2>2. /\ DOMAIN Group(i)[2] = 1..Len(Group(i)[2])
        /\ \A m \in 1..Len(Group(i)[2]) :
             i + m - 1 \in 1..Len(file) /\ Group(i)[2][m] = file[i + m - 1]
    BY <2>1, GroupIs
  <2>3. Group(i)[1] = i
    OBVIOUS
  <2> HIDE DEF Group
  <2> QED
    BY <1>1, <2>1, <2>2, <2>3
<1> HIDE DEF I, Group
<1>4. IsFiniteSet(Groups(file))
  <2>1. f \in Surjection(I, Groups(file))
    BY <1>1 DEF Surjection
  <2> HIDE DEF f
  <2> QED
    BY <1>2, <2>1, FS_Surjection
<1> QED
  BY <1>1, <1>3, <1>4

(* The groups that are scanned hold as many rows of the answer as the file.     *)
LEMMA ScannedAll ==
  ASSUME NEW file \in Seq(Rows), NEW preds \in SUBSET Predicates, NEW scanned,
         scanned = count_prunable_rgs(file, preds).scanned
  PROVE  SumFunction([g \in scanned |-> Cardinality(Matching(g[2], preds))])
           = Cardinality(Matching(file, preds))
<1> DEFINE W == Matching(file, preds)
           PosIn(g) == {k \in W : k - g[1] + 1 \in Matching(g[2], preds)}
           B == [g \in scanned |-> PosIn(g)]
<1>1. scanned \subseteq Groups(file) /\ IsFiniteSet(scanned)
  <2>1. scanned \subseteq Groups(file)
    BY DEF count_prunable_rgs
  <2> QED
    BY <2>1, GroupsAre, FS_Subset
<1>2. DOMAIN file = 1..Len(file) /\ Len(file) \in Nat
  OBVIOUS
<1>3. IsFiniteSet(W) /\ W \subseteq Int
  <2>1. IsFiniteSet(DOMAIN file)
    BY <1>2, FS_Interval
  <2>2. W \in SUBSET DOMAIN file
    BY DEF Matching
  <2> QED
    BY <1>2, <2>1, <2>2, FS_Subset
<1>4. \A k \in W : \E g \in scanned :
        /\ k - g[1] + 1 \in Matching(g[2], preds)
        /\ \A h \in scanned : k - h[1] + 1 \in Matching(h[2], preds) => h = g
  BY PruningKeepsAnswer
<1>5. ASSUME NEW g \in scanned
      PROVE  Cardinality(PosIn(g)) = Cardinality(Matching(g[2], preds))
  <2> DEFINE M == Matching(g[2], preds)
             f == [k \in PosIn(g) |-> k - g[1] + 1]
  <2>1. /\ g[1] \in Nat /\ DOMAIN g[2] \subseteq Int
        /\ \A m \in DOMAIN g[2] : g[1] + m - 1 \in DOMAIN file /\ g[2][m] = file[g[1] + m - 1]
    BY <1>1, GroupsAre
  <2>2. M \subseteq Int /\ \A m \in M : g[1] + m - 1 \in W
    BY <2>1 DEF Matching
  <2>3. \A k : k \in PosIn(g) <=> k \in W /\ k - g[1] + 1 \in M
    OBVIOUS
  <2>4. IsFiniteSet(PosIn(g))
    <3>1. PosIn(g) \in SUBSET W
      OBVIOUS
    <3> QED
      BY <1>3, <3>1, FS_Subset
  <2> HIDE DEF PosIn, M, W
  <2>5. f \in [PosIn(g) -> M]
    BY <2>3
  <2>6. \A x, y \in PosIn(g) : f[x] = f[y] => x = y
    <3>1. \A k \in PosIn(g) : k \in Int
      BY <1>3, <2>3
    <3>2. g[1] \in Int
      BY <2>1
    <3> QED
      BY <3>1, <3>2
  <2>7. \A m \in M : \E k \in PosIn(g) : f[k] = m
    <3> TAKE m \in M
    <3>1. m \in Int /\ g[1] + m - 1 \in Int /\ (g[1] + m - 1) - g[1] + 1 = m
      BY <2>1, <2>2
    <3>2. g[1] + m - 1 \in PosIn(g)
      BY <2>2, <2>3, <3>1
    <3> QED
      BY <3>1, <3>2
  <2> HIDE DEF f
  <2> QED
    BY <2>4, <2>5, <2>6, <2>7, SameCount DEF M
<1> HIDE DEF W
<1>6. B \in [scanned -> SUBSET W] /\ \A g \in scanned : B[g] = PosIn(g)
  OBVIOUS
<1>7. \A x, y \in scanned : \A w : w \in B[x] /\ w \in B[y] => x = y
  BY <1>4, <1>6
<1>8. \A w \in W : \E x \in scanned : w \in B[x]
  BY <1>4, <1>6
<1>9. [g \in scanned |-> Cardinality(B[g])] = [g \in scanned |-> Cardinality(Matching(g[2], preds))]
  BY <1>5, <1>6
<1> HIDE DEF B, PosIn
<1>10. SumFunction([g \in scanned |-> Cardinality(B[g])]) = Cardinality(W)
  <2>1. Partition(B, scanned, W)
    BY <1>6, <1>7, <1>8 DEF Partition
  <2> QED
    BY <1>1, <1>3, <2>1, SumOfSizes
<1> QED
  BY <1>9, <1>10 DEF W

(* So the counts are sound for each layout of a corpus.                        *)
LEMMA PruningIsSound ==
  ASSUME NEW rows \in Seq(Rows), NEW preds \in SUBSET Predicates
  PROVE  PruningSound(rows, preds)
<1> SUFFICES ASSUME NEW name \in Layouts
             PROVE  LET counted == count_prunable_rgs(Layout(rows, name), preds)
                        hits   == SumFunction([g \in counted.scanned |->
                                                  Cardinality(Matching(g[2], preds))])
                    IN /\ \A g \in counted.pruned : Matching(g[2], preds) = {}
                       /\ hits = Cardinality(Matching(rows, preds))
  BY DEF PruningSound
<1>1. /\ Layout(rows, name) \in Seq(Rows)
      /\ Cardinality(Matching(Layout(rows, name), preds)) = Cardinality(Matching(rows, preds))
  BY LayoutKeepsRows
<1>2. \A g \in count_prunable_rgs(Layout(rows, name), preds).pruned : Matching(g[2], preds) = {}
  BY <1>1, PruningKeepsAnswer
<1>3. SumFunction([g \in count_prunable_rgs(Layout(rows, name), preds).scanned |->
                     Cardinality(Matching(g[2], preds))])
        = Cardinality(Matching(Layout(rows, name), preds))
  BY <1>1, ScannedAll
<1> QED
  BY <1>1, <1>2, <1>3

(* Pruning of every corpus and query that is drawn.                            *)
THEOREM PruningHolds == ZOrderInit /\ [][ZOrderNext]_written => []Pruning
<1> DEFINE Inv == written # <<>> =>
                    written.rows \in Seq(Rows) /\ written.preds \in SUBSET Predicates
<1>1. ZOrderInit => Inv
  BY DEF ZOrderInit
<1>2. Inv /\ [ZOrderNext]_written => Inv'
  <2> SUFFICES ASSUME Inv, [ZOrderNext]_written PROVE Inv'
    OBVIOUS
  <2>1. CASE ZOrderNext
    <3>1. PICK file \in Files, preds \in PredicateLists : written' = [rows |-> file, preds |-> preds]
      BY <2>1 DEF ZOrderNext
    <3>2. file \in Seq(Rows) /\ preds \in SUBSET Predicates
      BY ZOrderAssumption
    <3> QED
      BY <3>1, <3>2
  <2>2. CASE UNCHANGED written
    BY <2>2
  <2> QED
    BY <2>1, <2>2
<1>3. Inv => Pruning
  <2> SUFFICES ASSUME Inv, written # <<>> PROVE Pruning
    BY DEF Pruning
  <2>1. PruningSound(written.rows, written.preds)
    BY PruningIsSound
  <2>2. ZCodeTellsCell(written.rows)
    BY CodesTellCells
  <2> QED
    BY <2>1, <2>2 DEF Pruning
<1> QED
  BY <1>1, <1>2, <1>3, PTL

-------------------------------------------------------------------------------
(* A record of a person and the ways to it: r and q are linked if no set of    *)
(* the person's records separates them, a component is what is linked.         *)
Own(R, r) == {x \in R : x[2] = r[2]}

Connected(R, E, r, q) ==
  /\ r[2] = q[2]
  /\ \A S \in SUBSET Own(R, r) :
       r \in S /\ q \notin S => \E x \in S, y \in R \ S : <<x, y>> \in E

Component(R, E, r) == {q \in R : Connected(R, E, r, q)}

(* The label that a component must end with, and the records that have it.     *)
Least(R, E, r) == Min({node_id(x) : x \in Component(R, E, r)})

Settled(R, E, l, r) == {x \in Component(R, E, r) : l[x] = Least(R, E, r)}

(* Every label is that of a record of the same component, and with each round  *)
(* one more record of it has the least.                                       *)
LinkerInv ==
  /\ linker \in {"idle", "generated", "propagate", "resolved"}
  /\ linker # "idle" => estate \in [People -> Drawn]
  /\ linker \in {"idle", "generated"} => round = 0
  /\ linker \in {"propagate", "resolved"} =>
       /\ round \in 0..Rounds
       /\ DOMAIN label = Records(estate) /\ edge = Edges(estate)
       /\ \A r \in DOMAIN label :
            label[r] \in {node_id(x) : x \in Component(DOMAIN label, edge, r)}
  /\ linker = "propagate" => round < Rounds
  /\ linker = "propagate" =>
       \A r \in DOMAIN label :
         \/ Settled(DOMAIN label, edge, label, r) = Component(DOMAIN label, edge, r)
         \/ Cardinality(Settled(DOMAIN label, edge, label, r)) > round
  /\ linker = "resolved" =>
       \A r \in DOMAIN label :
         Settled(DOMAIN label, edge, label, r) = Component(DOMAIN label, edge, r)
-----------------------------------------------------------------------------
(* A person of an estate is drawn from Draws, and a record is a tool's.        *)
LEMMA RecordType ==
  ASSUME NEW draws \in [People -> Drawn], NEW r \in Records(draws)
  PROVE  /\ r \in {"hr", "idp", "edr", "dir"} \X People
         /\ r = <<r[1], r[2]>> /\ r[1] \in {"hr", "idp", "edr", "dir"} /\ r[2] \in People
         /\ draws[r[2]] \in Draws /\ r[1] \in Tools(draws[r[2]])
<1>1. /\ r \in {"hr", "idp", "edr", "dir"} \X People /\ r[1] \in Tools(draws[r[2]])
  BY DEF Records
<1>2. /\ r = <<r[1], r[2]>> /\ r[1] \in {"hr", "idp", "edr", "dir"} /\ r[2] \in People
  BY <1>1
<1>3. draws[r[2]] \in Draws
  BY <1>2, IdentityAssumption
<1> QED
  BY <1>1, <1>2, <1>3

(* Different records have different ids.                                      *)
LEMMA IdsDiffer ==
  ASSUME NEW r \in {"hr", "idp", "edr", "dir"} \X People,
         NEW q \in {"hr", "idp", "edr", "dir"} \X People
  PROVE  /\ node_id(r) \in Nat
         /\ node_id(r) = node_id(q) => r = q
<1> DEFINE rank(x) == CASE x[1] = "dir" -> 0 [] x[1] = "edr" -> 1 [] x[1] = "hr" -> 2
                        [] x[1] = "idp" -> 3
<1>1. /\ r = <<r[1], r[2]>> /\ r[1] \in {"hr", "idp", "edr", "dir"} /\ r[2] \in Nat
      /\ q = <<q[1], q[2]>> /\ q[1] \in {"hr", "idp", "edr", "dir"} /\ q[2] \in Nat
  <2>1. People \subseteq Nat
    BY IdentityAssumption
  <2>2. r = <<r[1], r[2]>> /\ r[1] \in {"hr", "idp", "edr", "dir"} /\ r[2] \in People
    OBVIOUS
  <2>3. q = <<q[1], q[2]>> /\ q[1] \in {"hr", "idp", "edr", "dir"} /\ q[2] \in People
    OBVIOUS
  <2> QED
    BY <2>1, <2>2, <2>3
<1>2. rank(r) \in 0..3 /\ rank(q) \in 0..3
  BY <1>1
<1>3. rank(r) = rank(q) => r[1] = q[1]
  BY <1>1
<1>4. node_id(r) = 4 * r[2] + rank(r) /\ node_id(q) = 4 * q[2] + rank(q)
  BY DEF node_id
<1> HIDE DEF rank
<1>5. node_id(r) = node_id(q) => r[2] = q[2] /\ rank(r) = rank(q)
  <2>1. \A a, b \in Nat : \A m, n \in 0..3 : 4 * a + m = 4 * b + n => a = b /\ m = n
    OBVIOUS
  <2> QED
    BY <1>1, <1>2, <1>4, <2>1
<1> QED
  BY <1>1, <1>2, <1>3, <1>4, <1>5

(* A key names its person.                                                    *)
LEMMA KeysNamePerson ==
  ASSUME NEW draws \in [People -> Drawn], NEW r \in Records(draws), NEW k \in KeysOf(draws, r)
  PROVE  k[2] = r[2]
<1>1. r[1] \in {"hr", "idp", "edr", "dir"}
  BY RecordType
<1>2. k \in KeyValues(r[2], draws[r[2]], r[1])
  BY DEF KeysOf
<1>3. CASE r[1] = "hr"
  BY <1>2, <1>3 DEF KeyValues
<1>4. CASE r[1] = "idp"
  BY <1>2, <1>4 DEF KeyValues
<1>5. CASE r[1] = "edr"
  BY <1>2, <1>5 DEF KeyValues
<1>6. CASE r[1] = "dir"
  BY <1>2, <1>6 DEF KeyValues
<1> QED
  BY <1>1, <1>3, <1>4, <1>5, <1>6

(* Edges go both ways, and between records of one person.                     *)
LEMMA EdgesWithin ==
  ASSUME NEW draws \in [People -> Drawn], NEW x, NEW y, <<x, y>> \in Edges(draws)
  PROVE  x \in Records(draws) /\ y \in Records(draws) /\ x[2] = y[2] /\ <<y, x>> \in Edges(draws)
<1>1. x \in Records(draws) /\ y \in Records(draws) /\ KeysOf(draws, x) \cap KeysOf(draws, y) # {}
  BY DEF Edges
<1>2. <<y, x>> \in Edges(draws)
  BY <1>1 DEF Edges
<1>3. PICK k \in KeysOf(draws, x) : k \in KeysOf(draws, y)
  BY <1>1
<1>4. k[2] = x[2] /\ k[2] = y[2]
  BY <1>1, <1>3, KeysNamePerson
<1> QED
  BY <1>1, <1>2, <1>4

(* A person has at most four records.                                         *)
LEMMA FourRecords ==
  ASSUME NEW draws \in [People -> Drawn], NEW p \in People, NEW S \in SUBSET {x \in Records(draws) : x[2] = p}
  PROVE  IsFiniteSet(S) /\ Cardinality(S) \in 0..4
<1> DEFINE four == {<<"hr", p>>, <<"idp", p>>, <<"edr", p>>, <<"dir", p>>}
<1>1. S \subseteq four
  <2> SUFFICES ASSUME NEW x \in S PROVE x \in four
    OBVIOUS
  <2>1. x \in Records(draws) /\ x[2] = p
    OBVIOUS
  <2>2. x = <<x[1], x[2]>> /\ x[1] \in {"hr", "idp", "edr", "dir"}
    BY <2>1, RecordType
  <2> QED
    BY <2>1, <2>2
<1>2. IsFiniteSet(four) /\ Cardinality(four) = 4
  <2> DEFINE a == <<"hr", p>>
             b == <<"idp", p>>
             c == <<"edr", p>>
             e == <<"dir", p>>
  <2>1. b # a /\ c \notin {a, b} /\ e \notin {a, b, c}
    OBVIOUS
  <2>2. four = {a, b, c, e}
    OBVIOUS
  <2> HIDE DEF a, b, c, e, four
  <2>3. IsFiniteSet({a}) /\ Cardinality({a}) = 1
    BY FS_Singleton
  <2>4. IsFiniteSet({a, b}) /\ Cardinality({a, b}) = 2
    <3> DEFINE aa == {a}
    <3>1. {a, b} = aa \cup {b} /\ b \notin aa
      BY <2>1
    <3>2. IsFiniteSet(aa) /\ Cardinality(aa) = 1
      BY <2>3
    <3> HIDE DEF aa
    <3> QED
      BY <3>1, <3>2, FS_AddElement
  <2>5. IsFiniteSet({a, b, c}) /\ Cardinality({a, b, c}) = 3
    <3> DEFINE ab == {a, b}
    <3>1. {a, b, c} = ab \cup {c} /\ c \notin ab
      BY <2>1
    <3>2. IsFiniteSet(ab) /\ Cardinality(ab) = 2
      BY <2>4
    <3> HIDE DEF ab
    <3> QED
      BY <3>1, <3>2, FS_AddElement
  <2>6. IsFiniteSet({a, b, c, e}) /\ Cardinality({a, b, c, e}) = 4
    <3> DEFINE abc == {a, b, c}
    <3>1. {a, b, c, e} = abc \cup {e} /\ e \notin abc
      BY <2>1
    <3>2. IsFiniteSet(abc) /\ Cardinality(abc) = 3
      BY <2>5
    <3> HIDE DEF abc
    <3> QED
      BY <3>1, <3>2, FS_AddElement
  <2> QED
    BY <2>2, <2>6
<1> HIDE DEF four
<1>6. IsFiniteSet(S) /\ Cardinality(S) <= 4
  BY <1>1, <1>2, FS_Subset
<1> QED
  BY <1>6, FS_CardinalityType
-----------------------------------------------------------------------------
(* To be linked is an equivalence between records.                            *)
LEMMA ConnectedIsEquivalence ==
  ASSUME NEW draws \in [People -> Drawn], NEW r \in Records(draws)
  PROVE  LET R == Records(draws)
             E == Edges(draws)
         IN /\ Connected(R, E, r, r)
            /\ \A q \in R : Connected(R, E, r, q) => Connected(R, E, q, r)
            /\ \A q, s \in R : Connected(R, E, r, q) /\ Connected(R, E, q, s) => Connected(R, E, r, s)
            /\ \A q \in R : <<r, q>> \in E => Connected(R, E, r, q)
<1> DEFINE R == Records(draws)
           E == Edges(draws)
<1>1. \A x, y : <<x, y>> \in E => x \in R /\ y \in R /\ x[2] = y[2] /\ <<y, x>> \in E
  BY EdgesWithin
<1> HIDE DEF R, E
<1>2. Connected(R, E, r, r)
  BY DEF Connected
<1>3. ASSUME NEW q \in R, Connected(R, E, r, q)
      PROVE  Connected(R, E, q, r)
  <2>1. r[2] = q[2] /\ Own(R, r) = Own(R, q)
    BY <1>3 DEF Connected, Own
  <2>2. ASSUME NEW S \in SUBSET Own(R, q), q \in S, r \notin S
        PROVE  \E x \in S, y \in R \ S : <<x, y>> \in E
    <3> DEFINE T == Own(R, r) \ S
    <3>1. T \in SUBSET Own(R, r) /\ r \in T /\ q \notin T
      BY <2>2 DEF Own, R
    <3>2. PICK x \in T, y \in R \ T : <<x, y>> \in E
      BY <1>3, <3>1 DEF Connected
    <3>3. y \in Own(R, r)
      BY <1>1, <3>1, <3>2 DEF Own
    <3>4. y \in S /\ x \in R \ S /\ <<y, x>> \in E
      BY <1>1, <3>2, <3>3
    <3> QED
      BY <3>4
  <2> QED
    BY <2>1, <2>2 DEF Connected
<1>4. ASSUME NEW q \in R, NEW s \in R, Connected(R, E, r, q), Connected(R, E, q, s)
      PROVE  Connected(R, E, r, s)
  <2>1. r[2] = q[2] /\ q[2] = s[2] /\ Own(R, r) = Own(R, q)
    BY <1>4 DEF Connected, Own
  <2>2. ASSUME NEW S \in SUBSET Own(R, r), r \in S, s \notin S
        PROVE  \E x \in S, y \in R \ S : <<x, y>> \in E
    <3>1. CASE q \in S
      BY <1>4, <2>1, <2>2, <3>1 DEF Connected
    <3>2. CASE q \notin S
      BY <1>4, <2>2, <3>2 DEF Connected
    <3> QED
      BY <3>1, <3>2
  <2> QED
    BY <2>1, <2>2 DEF Connected
<1>5. ASSUME NEW q \in R, <<r, q>> \in E
      PROVE  Connected(R, E, r, q)
  BY <1>1, <1>5 DEF Connected
<1> QED
  BY <1>2, <1>3, <1>4, <1>5 DEF R, E

(* A part of a component that is not all of it has an edge to the rest.        *)
LEMMA CutHasEdge ==
  ASSUME NEW draws \in [People -> Drawn], NEW r \in Records(draws),
         NEW T \in SUBSET Component(Records(draws), Edges(draws), r), T # {},
         T # Component(Records(draws), Edges(draws), r)
  PROVE  \E x \in T, y \in Component(Records(draws), Edges(draws), r) \ T : <<x, y>> \in Edges(draws)
<1> DEFINE R == Records(draws)
           E == Edges(draws)
           C == Component(R, E, r)
<1>1. PICK t \in T, q \in C \ T : TRUE
  OBVIOUS
<1>2. /\ t \in R /\ q \in R /\ Connected(R, E, r, t) /\ Connected(R, E, r, q)
  BY <1>1 DEF Component
<1>3. Connected(R, E, t, q)
  <2> HIDE DEF R, E
  <2>1. r \in R
    BY DEF R
  <2>2. Connected(R, E, t, r)
    BY <1>2, <2>1, ConnectedIsEquivalence DEF R, E
  <2> QED
    BY <1>2, <2>1, <2>2, ConnectedIsEquivalence DEF R, E
<1>4. T \in SUBSET Own(R, t)
  BY <1>2 DEF Component, Own, Connected
<1> HIDE DEF R, E
<1>5. PICK x \in T, y \in R \ T : <<x, y>> \in E
  BY <1>1, <1>3, <1>4 DEF Connected
<1>6. x \in R /\ Connected(R, E, r, x)
  BY DEF Component, R, E
<1>7. Connected(R, E, r, y)
  <2>1. Connected(R, E, x, y)
    BY <1>5, <1>6, ConnectedIsEquivalence DEF R, E
  <2> QED
    BY <1>5, <1>6, <2>1, ConnectedIsEquivalence DEF R, E
<1>8. y \in C \ T
  BY <1>5, <1>7 DEF Component
<1> QED
  BY <1>5, <1>8 DEF R, E

(* Linked records have the same component; its least is an id of it.           *)
LEMMA ComponentIs ==
  ASSUME NEW draws \in [People -> Drawn], NEW r \in Records(draws)
  PROVE  LET R == Records(draws)
             E == Edges(draws)
         IN /\ r \in Component(R, E, r)
            /\ \A q \in Component(R, E, r) :
                 q \in R /\ q[2] = r[2] /\ Component(R, E, q) = Component(R, E, r)
            /\ Least(R, E, r) \in {node_id(x) : x \in Component(R, E, r)}
            /\ \A x \in Component(R, E, r) : node_id(x) \in Nat /\ Least(R, E, r) <= node_id(x)
            /\ IsFiniteSet(Component(R, E, r)) /\ Cardinality(Component(R, E, r)) <= 4
<1> DEFINE R == Records(draws)
           E == Edges(draws)
           C == Component(R, E, r)
<1>1. r \in C
  BY ConnectedIsEquivalence DEF Component
<1>2. ASSUME NEW q \in C
      PROVE  q \in R /\ q[2] = r[2] /\ Component(R, E, q) = C
  <2>1. q \in R /\ q[2] = r[2] /\ Connected(R, E, r, q)
    BY <1>2 DEF Component, Connected
  <2>2. r \in R
    OBVIOUS
  <2>3. Connected(R, E, q, r)
    BY <2>1, ConnectedIsEquivalence
  <2> HIDE DEF R, E
  <2>4. \A s \in R : Connected(R, E, r, s) <=> Connected(R, E, q, s)
    BY <2>1, <2>2, <2>3, ConnectedIsEquivalence DEF R, E
  <2> QED
    BY <2>1, <2>4 DEF Component
<1>3. \A x \in C : node_id(x) \in Nat
  BY <1>2, RecordType, IdsDiffer
<1> DEFINE ids == {node_id(x) : x \in C}
<1>4. Min(ids) \in ids /\ \A n \in ids : Min(ids) <= n
  <2>1. ids \subseteq Nat /\ ids # {}
    BY <1>1, <1>3
  <2> HIDE DEF ids
  <2> QED
    BY <2>1, MinIn
<1>5. IsFiniteSet(C) /\ Cardinality(C) <= 4
  <2>1. C \in SUBSET {x \in Records(draws) : x[2] = r[2]}
    BY <1>2
  <2>2. r[2] \in People
    BY RecordType
  <2> HIDE DEF C
  <2>3. IsFiniteSet(C) /\ Cardinality(C) \in 0..4
    BY <2>1, <2>2, FourRecords
  <2> QED
    BY <2>3
<1>6. Least(R, E, r) = Min(ids)
  BY DEF Least
<1> HIDE DEF C
<1> QED
  BY <1>1, <1>2, <1>3, <1>4, <1>5, <1>6 DEF C

-----------------------------------------------------------------------------
(* Each record has the label of a record of its component.                     *)
Labelled(R, E, l) ==
  DOMAIN l = R /\ \A r \in R : l[r] \in {node_id(x) : x \in Component(R, E, r)}

(* One round of the loop.                                                     *)
NextLabel(R, E, l) == [r \in R |-> Min({l[q] : q \in {q \in R : q = r \/ <<r, q>> \in E}})]

(* Labels are numbers, and none is below the least of its component.           *)
LEMMA LabelIs ==
  ASSUME NEW draws \in [People -> Drawn], NEW l, Labelled(Records(draws), Edges(draws), l),
         NEW r \in Records(draws)
  PROVE  l[r] \in Nat /\ Least(Records(draws), Edges(draws), r) \in Nat
         /\ Least(Records(draws), Edges(draws), r) <= l[r]
<1> DEFINE C == Component(Records(draws), Edges(draws), r)
<1>1. PICK x \in C : l[r] = node_id(x)
  BY DEF Labelled
<1>2. PICK y \in C : Least(Records(draws), Edges(draws), r) = node_id(y)
  BY ComponentIs
<1>3. \A z \in C : node_id(z) \in Nat /\ Least(Records(draws), Edges(draws), r) <= node_id(z)
  BY ComponentIs
<1> QED
  BY <1>1, <1>2, <1>3

(* A round keeps labels within their components and what is settled settled,    *)
(* and settles one more record of each component that is not.                 *)
LEMMA RoundSettles ==
  ASSUME NEW draws \in [People -> Drawn], NEW l, Labelled(Records(draws), Edges(draws), l)
  PROVE  LET R == Records(draws)
             E == Edges(draws)
             n == NextLabel(R, E, l)
         IN /\ Labelled(R, E, n)
            /\ \A r \in R : Settled(R, E, l, r) \subseteq Settled(R, E, n, r)
            /\ \A r \in R : Settled(R, E, l, r) # {} /\ Settled(R, E, l, r) # Component(R, E, r)
                 => \E y \in Settled(R, E, n, r) : y \notin Settled(R, E, l, r)
<1> DEFINE R == Records(draws)
           E == Edges(draws)
           n == NextLabel(R, E, l)
           near(r) == {q \in R : q = r \/ <<r, q>> \in E}
<1>1. ASSUME NEW r \in R
      PROVE  /\ n[r] \in {l[q] : q \in near(r)}
             /\ \A q \in near(r) : n[r] <= l[q]
  <2> DEFINE labels == {l[q] : q \in near(r)}
  <2>1. labels \subseteq Nat /\ labels # {}
    BY LabelIs
  <2>2. n[r] = Min(labels)
    BY DEF NextLabel
  <2> HIDE DEF labels, n
  <2>3. n[r] \in labels /\ \A m \in labels : n[r] <= m
    BY <2>1, <2>2, MinIn
  <2> QED
    BY <2>3 DEF labels
<1>2. ASSUME NEW r \in R, NEW q \in near(r)
      PROVE  q \in Component(R, E, r)
  BY <1>2, ConnectedIsEquivalence DEF Component
<1>3. Labelled(R, E, n)
  <2>1. DOMAIN n = R
    BY DEF NextLabel
  <2>2. ASSUME NEW r \in R
        PROVE  n[r] \in {node_id(x) : x \in Component(R, E, r)}
    <3>1. PICK q \in near(r) : n[r] = l[q]
      BY <1>1
    <3>2. q \in R /\ q \in Component(R, E, r)
      BY <1>2
    <3>3. Component(R, E, q) = Component(R, E, r)
      BY <3>2, ComponentIs
    <3>4. l[q] \in {node_id(x) : x \in Component(R, E, q)}
      BY <3>2 DEF Labelled
    <3> QED
      BY <3>1, <3>3, <3>4
  <2> HIDE DEF n
  <2> QED
    BY <2>1, <2>2 DEF Labelled
<1>4. \A r \in R, q \in R : q \in Component(R, E, r) => Least(R, E, q) = Least(R, E, r)
  BY ComponentIs DEF Least
<1>5. ASSUME NEW r \in R, NEW x \in Settled(R, E, l, r), NEW y \in Component(R, E, r),
             y = x \/ <<x, y>> \in E
      PROVE  y \in Settled(R, E, n, r)
  <2>1. x \in R /\ y \in R /\ x \in Component(R, E, r) /\ l[x] = Least(R, E, r)
    BY <1>5 DEF Settled, Component
  <2>2. x \in near(y)
    <3>1. <<x, y>> \in E => <<y, x>> \in E
      BY EdgesWithin
    <3> QED
      BY <1>5, <2>1, <3>1
  <2>3. n[y] <= Least(R, E, r)
    BY <1>1, <2>1, <2>2
  <2>4. n[y] \in Nat /\ Least(R, E, y) \in Nat /\ Least(R, E, y) <= n[y]
    <3> HIDE DEF n
    <3> QED
      BY <1>3, <2>1, LabelIs
  <2>5. Least(R, E, y) = Least(R, E, r)
    BY <1>4, <1>5, <2>1
  <2>6. n[y] = Least(R, E, r)
    BY <2>3, <2>4, <2>5
  <2> QED
    BY <1>5, <2>6 DEF Settled
<1>6. ASSUME NEW r \in R
      PROVE  Settled(R, E, l, r) \subseteq Settled(R, E, n, r)
  <2> SUFFICES ASSUME NEW x \in Settled(R, E, l, r) PROVE x \in Settled(R, E, n, r)
    OBVIOUS
  <2>1. x \in Component(R, E, r)
    BY DEF Settled
  <2> QED
    BY <1>5, <2>1
<1>7. ASSUME NEW r \in R, Settled(R, E, l, r) # {}, Settled(R, E, l, r) # Component(R, E, r)
      PROVE  \E y \in Settled(R, E, n, r) : y \notin Settled(R, E, l, r)
  <2>1. Settled(R, E, l, r) \in SUBSET Component(R, E, r)
    BY DEF Settled
  <2>2. PICK x \in Settled(R, E, l, r), y \in Component(R, E, r) \ Settled(R, E, l, r) : <<x, y>> \in E
    BY <1>7, <2>1, CutHasEdge
  <2>3. y \in Settled(R, E, n, r)
    BY <1>5, <2>2
  <2> QED
    BY <2>2, <2>3
<1> QED
  BY <1>3, <1>6, <1>7

(* The inductive step and the start.                                          *)
LEMMA LinkerStarts == LinkerInit => LinkerInv
BY DEF LinkerInit, LinkerInv

LEMMA LinkerStep == LinkerInv /\ [LinkerNext]_linkerVars => LinkerInv'
<1> SUFFICES ASSUME LinkerInv, [LinkerNext]_linkerVars PROVE LinkerInv'
  OBVIOUS
<1> USE IdentityAssumption
<1>1. CASE GenerateEstate
  BY <1>1 DEF GenerateEstate, LinkerInv
<1>2. CASE BuildGraph
  <2> DEFINE draws == estate
             R == Records(draws)
             E == Edges(draws)
  <2>1. /\ draws \in [People -> Drawn] /\ round = 0 /\ linker' = "propagate"
        /\ label' = [r \in R |-> node_id(r)] /\ edge' = E /\ estate' = estate /\ round' = round
    BY <1>2 DEF BuildGraph, LinkerInv
  <2>2. DOMAIN label' = R
    BY <2>1
  <2>3. ASSUME NEW r \in R
        PROVE  /\ label'[r] \in {node_id(x) : x \in Component(R, E, r)}
               /\ Cardinality(Settled(R, E, label', r)) > 0
    <3>1. r \in Component(R, E, r) /\ label'[r] = node_id(r)
      BY <2>1, ComponentIs
    <3>2. PICK x \in Component(R, E, r) : Least(R, E, r) = node_id(x)
      BY <2>1, ComponentIs
    <3>3. x \in R
      BY DEF Component
    <3>4. x \in Settled(R, E, label', r)
      BY <2>1, <3>2, <3>3 DEF Settled
    <3>5. IsFiniteSet(Component(R, E, r)) /\ Settled(R, E, label', r) \subseteq Component(R, E, r)
      BY <2>1, ComponentIs DEF Settled
    <3> DEFINE S == Settled(R, E, label', r)
    <3> HIDE DEF S
    <3>6. IsFiniteSet(S) /\ Cardinality(S) \in Nat /\ Cardinality(S) # 0
      BY <3>4, <3>5, FS_Subset, FS_CardinalityType, FS_EmptySet DEF S
    <3>7. Cardinality(S) > 0
      BY <3>6
    <3> QED
      BY <3>1, <3>7 DEF S
  <2> HIDE DEF R, E
  <2> QED
    BY <2>1, <2>2, <2>3 DEF LinkerInv, R, E, draws
<1>3. CASE Propagate
  <2> DEFINE R == Records(estate)
             E == Edges(estate)
  <2>1. /\ estate \in [People -> Drawn] /\ estate' = estate /\ edge = E /\ edge' = E
        /\ linker = "propagate" /\ round \in 0..Rounds /\ round < Rounds /\ round' = round + 1
        /\ linker' = IF label' = label \/ round' = Rounds THEN "resolved" ELSE "propagate"
    BY <1>3 DEF Propagate, LinkerInv
  <2>2. Labelled(R, E, label)
    BY <2>1 DEF LinkerInv, Labelled
  <2>3. label' = NextLabel(R, E, label)
    BY <1>3, <2>1, <2>2 DEF Propagate, NextLabel, Labelled
  <2>4. /\ Labelled(R, E, label')
        /\ \A r \in R : Settled(R, E, label, r) \subseteq Settled(R, E, label', r)
        /\ \A r \in R : Settled(R, E, label, r) # {} /\ Settled(R, E, label, r) # Component(R, E, r)
             => \E y \in Settled(R, E, label', r) : y \notin Settled(R, E, label, r)
    BY <2>1, <2>2, <2>3, RoundSettles
  <2>5. ASSUME NEW r \in R
        PROVE  \/ Settled(R, E, label, r) = Component(R, E, r)
               \/ Cardinality(Settled(R, E, label, r)) > round
    BY <2>1, <2>2 DEF LinkerInv, Labelled
  <2>6. ASSUME NEW r \in R
        PROVE  /\ \/ Settled(R, E, label', r) = Component(R, E, r)
                  \/ Cardinality(Settled(R, E, label', r)) > round'
               /\ linker' = "resolved" => Settled(R, E, label', r) = Component(R, E, r)
    <3> DEFINE S == Settled(R, E, label, r)
               T == Settled(R, E, label', r)
               C == Component(R, E, r)
    <3>1. IsFiniteSet(C) /\ Cardinality(C) <= 4
      BY <2>1, ComponentIs
    <3>2. S \subseteq C /\ T \subseteq C /\ S \subseteq T
      BY <2>4 DEF Settled
    <3>3. S # {} /\ S # C => \E y \in T : y \notin S
      BY <2>4
    <3>4. S = C \/ Cardinality(S) > round
      BY <2>5
    <3>5. label' = label => S = T
      OBVIOUS
    <3> HIDE DEF S, T, C
    <3>6. CASE S = C
      BY <3>2, <3>6 DEF S, T, C
    <3>7. CASE S # C
      <4>1. /\ IsFiniteSet(S) /\ Cardinality(S) \in Nat /\ IsFiniteSet(T) /\ Cardinality(T) \in Nat
            /\ Cardinality(C) \in Nat
        BY <3>1, <3>2, FS_Subset, FS_CardinalityType
      <4>2. S # {}
        BY <2>1, <3>4, <3>7, <4>1, FS_EmptySet
      <4>3. PICK y \in T : y \notin S
        BY <3>3, <3>7, <4>2
      <4>4. Cardinality(S \cup {y}) = Cardinality(S) + 1 /\ IsFiniteSet(S \cup {y})
        BY <4>1, <4>3, FS_AddElement
      <4>5. Cardinality(S \cup {y}) <= Cardinality(T)
        <5>1. S \cup {y} \subseteq T
          BY <3>2, <4>3
        <5> QED
          BY <4>1, <5>1, FS_Subset
      <4>6. Cardinality(T) > round'
        BY <2>1, <3>4, <3>7, <4>1, <4>4, <4>5
      <4>7. label' # label
        BY <3>5, <4>3
      <4>8. linker' = "resolved" => T = C
        <5>1. SUFFICES ASSUME linker' = "resolved" PROVE T = C
          OBVIOUS
        <5>2. round' = Rounds
          BY <2>1, <4>7, <5>1
        <5>3. Cardinality(T) >= 4 /\ Cardinality(T) <= Cardinality(C)
          BY <2>1, <3>1, <3>2, <4>1, <4>6, <5>2, FS_Subset
        <5>4. Cardinality(T) = Cardinality(C)
          BY <3>1, <4>1, <5>3
        <5> QED
          BY <3>1, <3>2, <5>4, FS_Subset
      <4> QED
        BY <4>6, <4>8 DEF T, C
    <3> QED
      BY <3>6, <3>7
  <2>7. /\ round' \in 0..Rounds /\ linker' \in {"propagate", "resolved"}
        /\ linker' = "propagate" => round' < Rounds
    BY <2>1
  <2> HIDE DEF R, E
  <2>8. DOMAIN label' = R /\ \A r \in R : label'[r] \in {node_id(x) : x \in Component(R, E, r)}
    BY <2>4 DEF Labelled
  <2> QED
    BY <2>1, <2>6, <2>7, <2>8 DEF LinkerInv, R, E
<1>4. CASE UNCHANGED linkerVars
  BY <1>4 DEF linkerVars, LinkerInv
<1> QED
  BY <1>1, <1>2, <1>3, <1>4 DEF LinkerNext

-----------------------------------------------------------------------------
(* At the end the labels are those of the components.                         *)
LEMMA ResolvedLabels ==
  ASSUME LinkerInv, linker = "resolved"
  PROVE  \A r, q \in DOMAIN label :
           label[r] = label[q] <=> Connected(DOMAIN label, edge, r, q)
<1> DEFINE R == Records(estate)
           E == Edges(estate)
<1>1. /\ estate \in [People -> Drawn] /\ DOMAIN label = R /\ edge = E
      /\ Labelled(R, E, label)
      /\ \A r \in R : Settled(R, E, label, r) = Component(R, E, r)
  BY DEF LinkerInv, Labelled
<1>2. SUFFICES ASSUME NEW r \in R, NEW q \in R
               PROVE  label[r] = label[q] <=> Connected(R, E, r, q)
  BY <1>1
<1>3. ASSUME Connected(R, E, r, q)
      PROVE  label[r] = label[q]
  <2>1. q \in Settled(R, E, label, r) /\ r \in Settled(R, E, label, r)
    BY <1>1, <1>3, ComponentIs DEF Component
  <2> QED
    BY <2>1 DEF Settled
<1>4. ASSUME label[r] = label[q]
      PROVE  Connected(R, E, r, q)
  <2>1. PICK x \in Component(R, E, r) : label[r] = node_id(x)
    BY <1>1 DEF Labelled
  <2>2. PICK y \in Component(R, E, q) : label[q] = node_id(y)
    BY <1>1 DEF Labelled
  <2>3. x \in R /\ y \in R /\ Connected(R, E, r, x) /\ Connected(R, E, q, y)
    BY DEF Component
  <2>4. x = y
    <3>1. x \in {"hr", "idp", "edr", "dir"} \X People /\ y \in {"hr", "idp", "edr", "dir"} \X People
      BY <1>1, <2>3, RecordType
    <3> QED
      BY <1>4, <2>1, <2>2, <3>1, IdsDiffer
  <2>5. Connected(R, E, x, q)
    BY <1>1, <2>3, <2>4, ConnectedIsEquivalence
  <2> QED
    BY <1>1, <2>3, <2>5, ConnectedIsEquivalence
<1> QED
  BY <1>3, <1>4

LEMMA ResolvedExact == LinkerInv => LinkerExact
<1> SUFFICES ASSUME LinkerInv, linker = "resolved", NEW r \in DOMAIN label, NEW q \in DOMAIN label
             PROVE  label[r] = label[q] <=>
                      /\ r[2] = q[2]
                      /\ \A S \in SUBSET {x \in DOMAIN label : x[2] = r[2]} :
                           r \in S /\ q \notin S =>
                             \E x \in S, y \in DOMAIN label \ S : <<x, y>> \in edge
  BY DEF LinkerExact
<1> QED
  BY ResolvedLabels DEF Connected, Own
-----------------------------------------------------------------------------
(* The records of a person, and those that a cluster holds.                    *)
Mine(R, cluster, p, key) == {r \in R : r[2] = p /\ cluster[r] = key}

(* HR reports three readings, any other tool two.                             *)
LEMMA ReadingsCounted ==
  ASSUME NEW draw \in Draws, NEW source \in {"hr", "idp", "edr", "dir"}
  PROVE  Cardinality(Readings(draw, source)) = IF source = "hr" THEN 3 ELSE 2
<1>1. ASSUME NEW a, NEW b, a # b
      PROVE  IsFiniteSet({a, b}) /\ Cardinality({a, b}) = 2
  <2> DEFINE aa == {a}
  <2>1. IsFiniteSet(aa) /\ Cardinality(aa) = 1
    BY FS_Singleton
  <2>2. {a, b} = aa \cup {b} /\ b \notin aa
    BY <1>1
  <2> HIDE DEF aa
  <2> QED
    BY <2>1, <2>2, FS_AddElement
<1>2. ASSUME NEW a, NEW b, NEW c, a # b, a # c, b # c
      PROVE  Cardinality({a, b, c}) = 3
  <2> DEFINE ab == {a, b}
  <2>1. {a, b, c} = ab \cup {c} /\ c \notin ab
    BY <1>2
  <2>2. IsFiniteSet(ab) /\ Cardinality(ab) = 2
    BY <1>1, <1>2
  <2> HIDE DEF ab
  <2> QED
    BY <2>1, <2>2, FS_AddElement
<1>3. CASE source = "hr"
  <2> DEFINE a == Reading("department", TRUE, 1000)
             b == Reading("title", TRUE, 970)
             c == Reading("manager", TRUE, 1000)
  <2>1. Readings(draw, source) = {a, b, c}
    BY <1>3 DEF Readings
  <2>2. a # b /\ a # c /\ b # c
    BY DEF Reading
  <2> HIDE DEF a, b, c
  <2>3. Cardinality({a, b, c}) = 3
    BY <1>2, <2>2
  <2> QED
    BY <1>3, <2>1, <2>3
<1>4. CASE source = "idp"
  <2> DEFINE a == Reading("department", TRUE, 880)
             b == Reading("title", TRUE, 850)
  <2>1. Readings(draw, source) = {a, b}
    BY <1>4 DEF Readings
  <2>2. a # b
    BY DEF Reading
  <2> HIDE DEF a, b
  <2>3. Cardinality({a, b}) = 2
    BY <1>1, <2>2
  <2> QED
    BY <1>4, <2>1, <2>3
<1>5. CASE source = "edr"
  <2> DEFINE a == Reading("last_logon", TRUE, 950)
             b == Reading("account_enabled", TRUE, 800)
  <2>1. Readings(draw, source) = {a, b}
    BY <1>5 DEF Readings
  <2>2. a # b
    BY DEF Reading
  <2> HIDE DEF a, b
  <2>3. Cardinality({a, b}) = 2
    BY <1>1, <2>2
  <2> QED
    BY <1>5, <2>1, <2>3
<1>6. CASE source = "dir"
  <2> DEFINE a == Reading("account_enabled", TRUE, 980)
             b == Reading("last_logon", ~draw.late_logon, 400)
  <2>1. Readings(draw, source) = {a, b}
    BY <1>6 DEF Readings
  <2>2. a # b
    BY DEF Reading
  <2> HIDE DEF a, b
  <2>3. Cardinality({a, b}) = 2
    BY <1>1, <2>2
  <2> QED
    BY <1>6, <2>1, <2>3
<1> QED
  BY <1>3, <1>4, <1>5, <1>6

(* Twice the records, and one more for HR's third reading.                    *)
LEMMA RowsAre ==
  ASSUME NEW p \in People, estate \in [People -> Drawn], NEW cluster, NEW key
  PROVE  LET mine == Mine(Records(estate), cluster, p, key)
         IN /\ IsFiniteSet(mine) /\ Cardinality(mine) \in 0..4
            /\ RowsOf(cluster, p, key) \in
                 {2 * Cardinality(mine), 2 * Cardinality(mine) + 1}
<1> DEFINE mine == Mine(Records(estate), cluster, p, key)
           f == [r \in mine |-> Cardinality(Readings(estate[p], r[1]))]
           two == [r \in mine |-> 2]
<1>1. IsFiniteSet(mine) /\ Cardinality(mine) \in 0..4
  <2>1. mine \in SUBSET {x \in Records(estate) : x[2] = p}
    BY DEF Mine
  <2> HIDE DEF mine
  <2> QED
    BY <2>1, FourRecords
<1>2. RowsOf(cluster, p, key) = SumFunction(f)
  BY DEF RowsOf, Mine
<1>3. \A r \in mine : f[r] = IF r[1] = "hr" THEN 3 ELSE 2
  <2> SUFFICES ASSUME NEW r \in mine PROVE f[r] = IF r[1] = "hr" THEN 3 ELSE 2
    OBVIOUS
  <2>1. r \in Records(estate) /\ r[2] = p
    BY DEF Mine
  <2>2. r[1] \in {"hr", "idp", "edr", "dir"} /\ estate[p] \in Draws
    BY <2>1, RecordType
  <2>3. Cardinality(Readings(estate[p], r[1])) = IF r[1] = "hr" THEN 3 ELSE 2
    BY <2>2, ReadingsCounted
  <2> QED
    BY <2>3
<1>4. f \in [mine -> Nat] /\ two \in [mine -> Nat] /\ \A r \in mine : two[r] = 2
  <2>1. \A r \in mine : f[r] \in Nat
    BY <1>3
  <2>2. f = [r \in mine |-> f[r]]
    OBVIOUS
  <2> QED
    BY <2>1, <2>2
<1>5. SumFunction(two) = Cardinality(mine) * 2
  <2> HIDE DEF mine
  <2> QED
    BY <1>1, SumConstant
<1>6. <<"hr", p>> \notin mine => \A r \in mine : f[r] = two[r]
  <2> SUFFICES ASSUME <<"hr", p>> \notin mine, NEW r \in mine PROVE f[r] = two[r]
    OBVIOUS
  <2>1. r \in Records(estate) /\ r[2] = p
    BY DEF Mine
  <2>2. r = <<r[1], p>>
    BY <2>1, RecordType
  <2>3. r[1] # "hr"
    BY <2>2
  <2> QED
    BY <1>3, <1>4, <2>3
<1>7. \A r \in mine \ {<<"hr", p>>} : f[r] = two[r]
  <2> SUFFICES ASSUME NEW r \in mine, r # <<"hr", p>> PROVE f[r] = two[r]
    OBVIOUS
  <2>1. r \in Records(estate) /\ r[2] = p
    BY DEF Mine
  <2>2. r = <<r[1], p>>
    BY <2>1, RecordType
  <2>3. r[1] # "hr"
    BY <2>2
  <2> QED
    BY <1>3, <1>4, <2>3
<1>8. <<"hr", p>> \in mine => f[<<"hr", p>>] = 3 /\ two[<<"hr", p>>] = 2
  BY <1>3, <1>4
<1> HIDE DEF mine, f, two
<1>9. CASE <<"hr", p>> \in mine
  <2>1. /\ SumFunction(f) \in Nat /\ SumFunction(two) \in Nat
        /\ SumFunction(f) + two[<<"hr", p>>] = SumFunction(two) + f[<<"hr", p>>]
    BY <1>1, <1>4, <1>7, <1>9, SumUpdate
  <2> QED
    BY <1>1, <1>2, <1>5, <1>8, <1>9, <2>1 DEF mine
<1>10. CASE <<"hr", p>> \notin mine
  <2>1. f = two
    BY <1>4, <1>6, <1>10
  <2> QED
    BY <1>1, <1>2, <1>5, <2>1 DEF mine
<1> QED
  BY <1>9, <1>10

(* Everyone has a record, and the cluster a person is scored in holds one of    *)
(* them and no fewer of them than any other cluster.                          *)
LEMMA PluralityOf ==
  ASSUME NEW p \in People, estate \in [People -> Drawn], NEW cluster, NEW R,
         R = Records(estate), \A r \in R : cluster[r] \in Nat
  PROVE  LET pc == person_cluster(cluster, p)
         IN /\ \E r \in R : r[2] = p /\ cluster[r] = pc
            /\ \A key : Cardinality(Mine(R, cluster, p, key)) <= Cardinality(Mine(R, cluster, p, pc))
<1> DEFINE keys == {cluster[r] : r \in {r \in Records(estate) : r[2] = p}}
           rows == {RowsOf(cluster, p, key) : key \in keys}
           most == Max(rows)
           best == {key \in keys : RowsOf(cluster, p, key) = most}
           pc == person_cluster(cluster, p)
<1>1. pc = Min(best)
  BY DEF person_cluster
<1>2. keys \subseteq Nat
  OBVIOUS
<1>3. keys # {}
  <2>1. <<"hr", p>> \in Records(estate)
    BY DEF Records, Tools
  <2> QED
    BY <2>1
<1>4. rows \subseteq Nat /\ IsFiniteSet(rows) /\ rows # {}
  <2>1. \A key : RowsOf(cluster, p, key) \in 0..9
    <3> TAKE key
    <3> DEFINE n == Cardinality(Mine(Records(estate), cluster, p, key))
    <3>1. n \in 0..4 /\ RowsOf(cluster, p, key) \in {2 * n, 2 * n + 1}
      BY RowsAre
    <3> HIDE DEF n
    <3> QED
      BY <3>1
  <2>2. rows \subseteq 0..9
    BY <2>1
  <2>3. IsFiniteSet(0..9)
    <3>1. 0 \in Int /\ 9 \in Int
      OBVIOUS
    <3> QED
      BY <3>1, FS_Interval
  <2>4. rows # {}
    BY <1>3
  <2> HIDE DEF rows
  <2>5. IsFiniteSet(rows)
    BY <2>2, <2>3, FS_Subset
  <2> QED
    BY <2>2, <2>4, <2>5
<1>5. most \in rows /\ \A n \in rows : n <= most
  <2> HIDE DEF rows
  <2>1. rows \subseteq Int
    BY <1>4
  <2> QED
    BY <1>4, <2>1, EndsOf
<1>6. pc \in best
  <2>1. best \subseteq Nat /\ best # {}
    BY <1>2, <1>5
  <2> HIDE DEF best, pc
  <2> QED
    BY <1>1, <2>1, MinIn
<1>7. pc \in keys /\ RowsOf(cluster, p, pc) = most
  <2> HIDE DEF pc
  <2> QED
    BY <1>6
<1>8. \E r \in R : r[2] = p /\ cluster[r] = pc
  <2> HIDE DEF pc
  <2> QED
    BY <1>7
<1>9. ASSUME NEW key
      PROVE  Cardinality(Mine(R, cluster, p, key)) <= Cardinality(Mine(R, cluster, p, pc))
  <2> DEFINE n == Cardinality(Mine(Records(estate), cluster, p, key))
             m == Cardinality(Mine(Records(estate), cluster, p, pc))
  <2>1. n \in 0..4 /\ RowsOf(cluster, p, key) \in {2 * n, 2 * n + 1}
    BY RowsAre
  <2>2. m \in 0..4 /\ RowsOf(cluster, p, pc) \in {2 * m, 2 * m + 1}
    BY RowsAre
  <2>3. CASE key \in keys
    <3>1. RowsOf(cluster, p, key) <= RowsOf(cluster, p, pc)
      <4>1. RowsOf(cluster, p, key) \in rows
        BY <2>3
      <4> HIDE DEF pc, rows, most, keys
      <4> QED
        BY <1>5, <1>7, <4>1
    <3> HIDE DEF pc, n, m
    <3>2. n <= m
      BY <2>1, <2>2, <3>1
    <3> QED
      BY <3>2 DEF n, m
  <2>4. CASE key \notin keys
    <3>1. Mine(Records(estate), cluster, p, key) = {}
      BY <2>4 DEF Mine
    <3>2. n = 0
      BY <3>1, FS_EmptySet
    <3> HIDE DEF n, m, pc
    <3>3. n <= m
      BY <2>2, <3>2
    <3> QED
      BY <3>3 DEF n, m
  <2> QED
    BY <2>3, <2>4
<1> QED
  BY <1>8, <1>9

(* A reading of some record of the cluster is chosen, with a score no less.     *)
Picks(cluster, key, a, score) ==
  \E q \in Records(estate) :
    \E y \in Readings(estate[q[2]], q[1]) :
      /\ cluster[q] = key /\ y.attribute = a /\ score <= y.score
      /\ picked(cluster, key)[a] = <<q, y>>

(* What is chosen for an attribute in a cluster is one of its readings with    *)
(* the highest score, if there is one that has it.                            *)
LEMMA PickedIs ==
  ASSUME NEW cluster, NEW key, NEW a, NEW r \in Records(estate), cluster[r] = key,
         NEW x \in Readings(estate[r[2]], r[1]), x.attribute = a,
         \A q \in Records(estate) : cluster[q] = key =>
           \A y \in Readings(estate[q[2]], q[1]) : y.attribute = a => y.score <= x.score
  PROVE  a \in DOMAIN picked(cluster, key) /\ Picks(cluster, key, a, x.score)
<1> DEFINE rows == UNION {{<<q, y>> : y \in Readings(estate[q[2]], q[1])} :
                          q \in {q \in Records(estate) : cluster[q] = key}}
           Chosen(row) == /\ row[2].attribute = a
                          /\ \A other \in rows :
                               other[2].attribute = a => other[2].score <= row[2].score
           row == CHOOSE row \in rows : Chosen(row)
<1>1. \A other \in rows : \E q \in Records(estate) : \E y \in Readings(estate[q[2]], q[1]) :
        other = <<q, y>> /\ cluster[q] = key
  OBVIOUS
<1>2. <<r, x>> \in rows
  OBVIOUS
<1>3. picked(cluster, key) = [b \in {other[2].attribute : other \in rows} |->
                                CHOOSE other \in rows :
                                  /\ other[2].attribute = b
                                  /\ \A q \in rows :
                                       q[2].attribute = b => q[2].score <= other[2].score]
  BY DEF picked
<1> HIDE DEF rows
<1>4. Chosen(<<r, x>>)
  <2> SUFFICES ASSUME NEW other \in rows, other[2].attribute = a
               PROVE  other[2].score <= x.score
    OBVIOUS
  <2>1. PICK q \in Records(estate) :
          \E y \in Readings(estate[q[2]], q[1]) : other = <<q, y>> /\ cluster[q] = key
    BY <1>1
  <2> QED
    BY <2>1
<1>5. a \in {other[2].attribute : other \in rows}
  BY <1>2
<1>6. picked(cluster, key)[a] = row
  BY <1>3, <1>5
<1>7. row \in rows /\ Chosen(row)
  <2> HIDE DEF Chosen
  <2> QED
    BY <1>2, <1>4
<1>8. PICK q \in Records(estate) :
        \E y \in Readings(estate[q[2]], q[1]) : row = <<q, y>> /\ cluster[q] = key
  BY <1>1, <1>7
<1>9. PICK y \in Readings(estate[q[2]], q[1]) : row = <<q, y>> /\ cluster[q] = key
  BY <1>8
<1>10. y.attribute = a /\ x.score <= y.score
  <2> HIDE DEF row
  <2> QED
    BY <1>2, <1>4, <1>7, <1>9
<1>11. a \in DOMAIN picked(cluster, key)
  BY <1>3, <1>5
<1> HIDE DEF row, Chosen
<1> QED
  BY <1>6, <1>9, <1>10, <1>11 DEF Picks

(* Only the directory's last logon may be wrong, and the EDR's is newer.        *)
LEMMA ReadingsAre ==
  ASSUME NEW draw \in Draws, NEW source \in {"hr", "idp", "edr", "dir"},
         NEW x \in Readings(draw, source)
  PROVE  /\ x.score \in 0..1000
         /\ ~x.right => x.attribute = "last_logon" /\ x.score = 400 /\ draw.late_logon
         /\ x.attribute = "last_logon" => \/ x.score = 950
                                          \/ x.right = ~draw.late_logon
<1>1. draw.late_logon \in BOOLEAN
  BY DEF Draws
<1>2. CASE source = "hr"
  <2>1. Readings(draw, source) =
          {Reading("department", TRUE, 1000), Reading("title", TRUE, 970),
           Reading("manager", TRUE, 1000)}
    BY <1>2 DEF Readings
  <2>2. x \in Readings(draw, source)
    OBVIOUS
  <2> QED
    BY <2>1, <2>2 DEF Reading
<1>3. CASE source = "idp"
  <2>1. Readings(draw, source) =
          {Reading("department", TRUE, 880), Reading("title", TRUE, 850)}
    BY <1>3 DEF Readings
  <2>2. x \in Readings(draw, source)
    OBVIOUS
  <2> QED
    BY <2>1, <2>2 DEF Reading
<1>4. CASE source = "edr"
  <2>1. Readings(draw, source) =
          {Reading("last_logon", TRUE, 950), Reading("account_enabled", TRUE, 800)}
    BY <1>4 DEF Readings
  <2>2. x \in Readings(draw, source)
    OBVIOUS
  <2> QED
    BY <2>1, <2>2 DEF Reading
<1>5. CASE source = "dir"
  <2> DEFINE logon == Reading("last_logon", ~draw.late_logon, 400)
  <2>4. Readings(draw, source) = {Reading("account_enabled", TRUE, 980), logon}
    BY <1>5 DEF Readings
  <2>1. x = Reading("account_enabled", TRUE, 980) \/ x = logon
    <3> HIDE DEF logon
    <3> QED
      BY <2>4
  <2>2. CASE x = Reading("account_enabled", TRUE, 980)
    BY <2>2 DEF Reading
  <2>3. CASE x = logon
    <3>1. x.attribute = "last_logon" /\ x.score = 400
      BY <2>3 DEF Reading
    <3>2. x.right = ~draw.late_logon
      BY <2>3 DEF Reading
    <3>3. ~x.right => draw.late_logon
      BY <1>1, <3>2
    <3>4. x.score \in 0..1000
      BY <3>1
    <3> QED
      BY <3>1, <3>2, <3>3, <3>4
  <2> QED
    BY <2>1, <2>2, <2>3
<1> QED
  BY <1>2, <1>3, <1>4, <1>5

(* If a cluster has a reading of an attribute, what is picked of it is one that  *)
(* no other in the cluster beats.                                             *)
LEMMA PickedTop ==
  ASSUME estate \in [People -> Drawn], NEW cluster, NEW key, NEW a,
         \E q \in Records(estate) :
           \E y \in Readings(estate[q[2]], q[1]) : cluster[q] = key /\ y.attribute = a
  PROVE  /\ a \in DOMAIN picked(cluster, key)
         /\ \E q \in Records(estate) :
              \E y \in Readings(estate[q[2]], q[1]) :
                /\ cluster[q] = key /\ y.attribute = a
                /\ picked(cluster, key)[a] = <<q, y>>
                /\ \A t \in Records(estate) : cluster[t] = key =>
                     \A z \in Readings(estate[t[2]], t[1]) : z.attribute = a => z.score <= y.score
<1> DEFINE hi == 1000
           HasScore(n) == \E q \in Records(estate) :
                       \E y \in Readings(estate[q[2]], q[1]) :
                         cluster[q] = key /\ y.attribute = a /\ y.score = n
           scores == {n \in 0..hi : HasScore(n)}
<1>0. hi \in Nat
  OBVIOUS
<1>1. \A q \in Records(estate) : \A y \in Readings(estate[q[2]], q[1]) : y.score \in 0..hi
  BY RecordType, ReadingsAre
<1> HIDE DEF hi
<1>2. scores # {} /\ scores \subseteq 0..hi
  <2>1. PICK q \in Records(estate) :
          \E y \in Readings(estate[q[2]], q[1]) : cluster[q] = key /\ y.attribute = a
    OBVIOUS
  <2>2. PICK y \in Readings(estate[q[2]], q[1]) : cluster[q] = key /\ y.attribute = a
    BY <2>1
  <2>3. y.score \in 0..hi
    BY <1>1
  <2>4. HasScore(y.score)
    BY <2>2
  <2> HIDE DEF HasScore
  <2> QED
    BY <2>3, <2>4
<1>3. IsFiniteSet(scores) /\ scores \subseteq Int
  <2>1. \A n \in Nat : IsFiniteSet(0..n)
    BY FS_Interval
  <2> DEFINE all == 0..hi
  <2>2. all \subseteq Int /\ scores \subseteq all
    BY <1>2
  <2>3. IsFiniteSet(all)
    <3> HIDE DEF scores
    <3> QED
      BY <1>0, <2>1
  <2> HIDE DEF scores, all
  <2> QED
    BY <2>2, <2>3, FS_Subset
<1>4. Max(scores) \in scores /\ \A n \in scores : n <= Max(scores)
  <2> HIDE DEF scores
  <2> QED
    BY <1>2, <1>3, EndsOf
<1> DEFINE top == Max(scores)
<1> HIDE DEF top
<1>5. HasScore(top) /\ top \in 0..hi
  <2>1. top \in scores
    <3> HIDE DEF HasScore, scores
    <3> QED
      BY <1>4 DEF top
  <2> QED
    BY <2>1
<1>6. PICK r \in Records(estate) :
        \E y \in Readings(estate[r[2]], r[1]) : cluster[r] = key /\ y.attribute = a /\ y.score = top
  BY <1>5
<1>7. PICK x \in Readings(estate[r[2]], r[1]) : cluster[r] = key /\ x.attribute = a /\ x.score = top
  BY <1>6
<1>8. \A t \in Records(estate) : cluster[t] = key =>
        \A z \in Readings(estate[t[2]], t[1]) : z.attribute = a => z.score <= top
  <2> SUFFICES ASSUME NEW t \in Records(estate), cluster[t] = key,
                      NEW z \in Readings(estate[t[2]], t[1]), z.attribute = a
               PROVE  z.score <= top
    OBVIOUS
  <2>1. z.score \in scores
    BY <1>1
  <2> HIDE DEF scores
  <2> QED
    BY <1>4, <2>1 DEF top
<1>9. /\ a \in DOMAIN picked(cluster, key)
      /\ \E q \in Records(estate) :
           \E y \in Readings(estate[q[2]], q[1]) :
             /\ cluster[q] = key /\ y.attribute = a /\ x.score <= y.score
             /\ picked(cluster, key)[a] = <<q, y>>
  <2>1. \A t \in Records(estate) : cluster[t] = key =>
          \A z \in Readings(estate[t[2]], t[1]) : z.attribute = a => z.score <= x.score
    BY <1>7, <1>8
  <2>2. /\ r \in Records(estate) /\ cluster[r] = key
        /\ x \in Readings(estate[r[2]], r[1]) /\ x.attribute = a
    BY <1>7
  <2> HIDE DEF HasScore, scores
  <2>3. a \in DOMAIN picked(cluster, key)
    BY <2>1, <2>2, PickedIs
  <2>4. Picks(cluster, key, a, x.score)
    BY <2>1, <2>2, PickedIs
  <2> QED
    BY <2>3, <2>4 DEF Picks
<1>10. PICK q \in Records(estate) :
         \E y \in Readings(estate[q[2]], q[1]) :
           /\ cluster[q] = key /\ y.attribute = a /\ x.score <= y.score
           /\ picked(cluster, key)[a] = <<q, y>>
  BY <1>9
<1>11. PICK y \in Readings(estate[q[2]], q[1]) :
         /\ cluster[q] = key /\ y.attribute = a /\ x.score <= y.score
         /\ picked(cluster, key)[a] = <<q, y>>
  BY <1>10
<1>12. y.score \in 0..hi /\ top <= y.score
  BY <1>1, <1>7, <1>11
<1>13. \A t \in Records(estate) : cluster[t] = key =>
         \A z \in Readings(estate[t[2]], t[1]) : z.attribute = a => z.score <= y.score
  <2> SUFFICES ASSUME NEW t \in Records(estate), cluster[t] = key,
                      NEW z \in Readings(estate[t[2]], t[1]), z.attribute = a
               PROVE  z.score <= y.score
    OBVIOUS
  <2>1. z.score <= top /\ z.score \in 0..hi
    BY <1>1, <1>8
  <2>2. top \in 0..hi /\ y.score \in 0..hi /\ top <= y.score
    BY <1>5, <1>12
  <2> HIDE DEF HasScore, scores
  <2> QED
    BY <1>0, <2>1, <2>2
<1> QED
  BY <1>9, <1>11, <1>13

(* What a person's cluster of any labels recovers, the person's own cluster     *)
(* does, if the labels tell people apart.                                     *)
LEMMA NoGain ==
  ASSUME NEW p \in People, estate \in [People -> Drawn], NEW cluster,
         \A r \in Records(estate) : cluster[r] \in Nat,
         \A r, q \in Records(estate) : cluster[r] = cluster[q] => r[2] = q[2]
  PROVE  merge_recovery(cluster, p) \subseteq merge_recovery(clean_clusters, p)
<1> DEFINE R == Records(estate)
           pc == person_cluster(cluster, p)
<1>1. \A r \in R : r[2] \in People /\ r[2] \in Nat /\ r[1] \in {"hr", "idp", "edr", "dir"}
                   /\ estate[r[2]] \in Draws /\ clean_clusters[r] = r[2]
  BY RecordType, IdentityAssumption DEF clean_clusters
<1>2. person_cluster(clean_clusters, p) = p
  <2>1. \A r \in R : clean_clusters[r] \in Nat
    BY <1>1
  <2>2. \E r \in R : r[2] = p /\ clean_clusters[r] = person_cluster(clean_clusters, p)
    BY <2>1, PluralityOf
  <2> QED
    BY <1>1, <2>2
<1>3. \A r \in R : cluster[r] = pc => r[2] = p
  <2>1. PICK r \in R : r[2] = p /\ cluster[r] = pc
    BY PluralityOf
  <2> QED
    BY <2>1
<1>4. SUFFICES ASSUME NEW a \in merge_recovery(cluster, p)
               PROVE  a \in merge_recovery(clean_clusters, p)
  OBVIOUS
<1>5. a \in DOMAIN picked(cluster, pc) /\ picked(cluster, pc)[a][2].right
  BY DEF merge_recovery
<1>6. \E q \in R : \E y \in Readings(estate[q[2]], q[1]) : cluster[q] = pc /\ y.attribute = a
  BY <1>5 DEF picked
<1>7. PICK q \in R :
        \E y \in Readings(estate[q[2]], q[1]) :
          /\ cluster[q] = pc /\ y.attribute = a /\ picked(cluster, pc)[a] = <<q, y>>
  <2> HIDE DEF pc
  <2> QED
    BY <1>6, PickedTop
<1>8. PICK y \in Readings(estate[q[2]], q[1]) :
        /\ cluster[q] = pc /\ y.attribute = a /\ picked(cluster, pc)[a] = <<q, y>>
  BY <1>7
<1>9. q[2] = p /\ y.right
  BY <1>3, <1>5, <1>8
<1>10. clean_clusters[q] = p
  BY <1>1, <1>9
<1>11. /\ a \in DOMAIN picked(clean_clusters, p)
       /\ \E t \in R :
            \E z \in Readings(estate[t[2]], t[1]) :
              /\ clean_clusters[t] = p /\ z.attribute = a
              /\ picked(clean_clusters, p)[a] = <<t, z>>
              /\ \A o \in R : clean_clusters[o] = p =>
                   \A w \in Readings(estate[o[2]], o[1]) : w.attribute = a => w.score <= z.score
  BY <1>8, <1>10, PickedTop
<1>12. PICK t \in R :
         \E z \in Readings(estate[t[2]], t[1]) :
           /\ clean_clusters[t] = p /\ z.attribute = a
           /\ picked(clean_clusters, p)[a] = <<t, z>>
           /\ \A o \in R : clean_clusters[o] = p =>
                \A w \in Readings(estate[o[2]], o[1]) : w.attribute = a => w.score <= z.score
  BY <1>11
<1>13. PICK z \in Readings(estate[t[2]], t[1]) :
         /\ clean_clusters[t] = p /\ z.attribute = a
         /\ picked(clean_clusters, p)[a] = <<t, z>>
         /\ \A o \in R : clean_clusters[o] = p =>
              \A w \in Readings(estate[o[2]], o[1]) : w.attribute = a => w.score <= z.score
  BY <1>12
<1>14. t[2] = p /\ y.score <= z.score
  BY <1>1, <1>8, <1>10, <1>13
<1>15. z.right
  <2> SUFFICES ASSUME ~z.right PROVE FALSE
    OBVIOUS
  <2>1. z.attribute = "last_logon" /\ z.score = 400 /\ estate[p].late_logon
    BY <1>1, <1>14, ReadingsAre
  <2>2. y.attribute = "last_logon"
    BY <1>8, <1>13, <2>1
  <2>3. \/ y.score = 950
        \/ y.right = ~estate[p].late_logon
    <3>1. /\ q[1] \in {"hr", "idp", "edr", "dir"} /\ estate[p] \in Draws
          /\ y \in Readings(estate[p], q[1])
      BY <1>1, <1>9
    <3> QED
      BY <2>2, <3>1, ReadingsAre
  <2>4. y.score # 950
    BY <1>14, <2>1
  <2> QED
    BY <1>9, <2>1, <2>3, <2>4
<1> QED
  BY <1>2, <1>11, <1>13, <1>14, <1>15 DEF merge_recovery

LEMMA ResolvedTax == LinkerInv => ResolutionIsATax
<1> SUFFICES ASSUME LinkerInv, linker = "resolved", NEW p \in People
             PROVE  LET mine(key) == {r \in DOMAIN label : r[2] = p /\ label[r] = key}
                    IN /\ merge_recovery(label, p) \subseteq merge_recovery(clean_clusters, p)
                       /\ \A r \in DOMAIN label :
                            Cardinality(mine(label[r])) <= Cardinality(mine(person_cluster(label, p)))
  BY DEF ResolutionIsATax
<1>1. /\ estate \in [People -> Drawn] /\ DOMAIN label = Records(estate)
      /\ Labelled(Records(estate), Edges(estate), label)
  BY DEF LinkerInv, Labelled
<1>2. \A r \in Records(estate) : label[r] \in Nat
  BY <1>1, LabelIs
<1>3. \A r, q \in Records(estate) : label[r] = label[q] => r[2] = q[2]
  BY <1>1, ResolvedLabels DEF Connected
<1>4. merge_recovery(label, p) \subseteq merge_recovery(clean_clusters, p)
  BY <1>1, <1>2, <1>3, NoGain
<1>5. \A key : Cardinality(Mine(DOMAIN label, label, p, key))
                 <= Cardinality(Mine(DOMAIN label, label, p, person_cluster(label, p)))
  BY <1>1, <1>2, PluralityOf
<1> QED
  BY <1>4, <1>5 DEF Mine

(* For any number of people and whatever the generator draws for each, and any  *)
(* number of rounds that is at least three: the clusters of a finished linker   *)
(* are the connected components of the shared keys, nobody's records are mixed  *)
(* with another's, and the contested keys never recover more than clean ones.  *)
THEOREM IdentityHolds == LinkerInit /\ [][LinkerNext]_linkerVars => []Identity
<1>1. LinkerInv => Identity
  BY ResolvedExact, ResolvedTax DEF Identity
<1> QED
  BY LinkerStarts, LinkerStep, <1>1, PTL

(* The report of the vulnerability scanner.                                   *)
ScanReport(asset) ==
  Report("vuln", "open_vuln_count", asset.days_since_scan <= 7 \/ ~asset.drifted,
         asset.days_since_scan, IF asset.days_since_scan <= 7 THEN 88 ELSE 55)

-------------------------------------------------------------------------------
(* The reports that a tool can make of an asset, each of one attribute.         *)
LEMMA ReportIs ==
  ASSUME NEW asset \in Assets, NEW r \in gen_observations(asset)
  PROVE  \/ r = Report("cmdb", "owner", TRUE, asset.owner, 95)
         \/ r = Report("cmdb", "business_criticality", TRUE, asset.business_criticality, 95)
         \/ r = Report("cmdb", "is_managed", TRUE, asset.is_managed, 90)
         \/ r = Report("cmdb", "os_version", asset.os_right, asset.os_version, 65)
         \/ r = Report("cmdb", "ip_address", asset.ip_right, asset.ip_address, 65)
         \/ r = Report("cmdb", "last_seen", FALSE, asset.last_seen, 65)
         \/ r = Report("edr", "os_version", TRUE, asset.edr_os, 92)
         \/ r = Report("edr", "ip_address", TRUE, 0, 90)
         \/ r = Report("edr", "last_seen", TRUE, 0, 90)
         \/ r = Report("edr", "is_managed", TRUE, 0, 95)
         \/ r = ScanReport(asset)
         \/ r = Report("idp", "owner", TRUE, 0, 80)
<1> DEFINE managed == asset.kind \in {"workstation", "server"}
           cmdb == {Report("cmdb", "owner", TRUE, asset.owner, 95),
                    Report("cmdb", "business_criticality", TRUE, asset.business_criticality, 95),
                    Report("cmdb", "is_managed", TRUE, asset.is_managed, 90),
                    Report("cmdb", "os_version", asset.os_right, asset.os_version, 65),
                    Report("cmdb", "ip_address", asset.ip_right, asset.ip_address, 65),
                    Report("cmdb", "last_seen", FALSE, asset.last_seen, 65)}
           edr == {Report("edr", "os_version", TRUE, asset.edr_os, 92),
                   Report("edr", "ip_address", TRUE, 0, 90),
                   Report("edr", "last_seen", TRUE, 0, 90),
                   Report("edr", "is_managed", TRUE, 0, 95)}
           vuln == {ScanReport(asset)}
           idp == {Report("idp", "owner", TRUE, 0, 80)}
<1>1. gen_observations(asset) =
        UNION {IF asset.kind # "shadow-cloud" THEN cmdb ELSE {},
               IF managed /\ asset.edr THEN edr ELSE {},
               IF asset.vuln THEN vuln ELSE {},
               IF asset.kind = "workstation" /\ asset.idp THEN idp ELSE {}}
  BY DEF gen_observations, ScanReport
<1>2. r \in cmdb \/ r \in edr \/ r \in vuln \/ r \in idp
  <2> HIDE DEF cmdb, edr, vuln, idp, managed
  <2> QED
    BY <1>1
<1>3. r \in cmdb => \/ r = Report("cmdb", "owner", TRUE, asset.owner, 95)
                    \/ r = Report("cmdb", "business_criticality", TRUE, asset.business_criticality, 95)
                    \/ r = Report("cmdb", "is_managed", TRUE, asset.is_managed, 90)
                    \/ r = Report("cmdb", "os_version", asset.os_right, asset.os_version, 65)
                    \/ r = Report("cmdb", "ip_address", asset.ip_right, asset.ip_address, 65)
                    \/ r = Report("cmdb", "last_seen", FALSE, asset.last_seen, 65)
  OBVIOUS
<1>4. r \in edr => \/ r = Report("edr", "os_version", TRUE, asset.edr_os, 92)
                   \/ r = Report("edr", "ip_address", TRUE, 0, 90)
                   \/ r = Report("edr", "last_seen", TRUE, 0, 90)
                   \/ r = Report("edr", "is_managed", TRUE, 0, 95)
  OBVIOUS
<1>5. /\ r \in vuln => r = ScanReport(asset)
      /\ r \in idp => r = Report("idp", "owner", TRUE, 0, 80)
  OBVIOUS
<1> HIDE DEF cmdb, edr, vuln, idp, managed
<1> QED
  BY <1>2, <1>3, <1>4, <1>5

(* What follows for one report: who makes it decides what it says.            *)
ReportFacts(asset, r) ==
  /\ r.attribute \in ATTRIBUTES /\ r.source \in Sources
  /\ r.age \in Ages /\ r.conf \in Nat
  /\ r.attribute = "open_vuln_count" <=> r.source = "vuln"
  /\ r.source = "idp" => r.attribute = "owner" /\ r.right
  /\ r.source = "edr" => r.attribute # "owner" /\ r.right /\ r.conf >= 90
                        /\ r.age \in {0, 1} /\ (r.age = 1 => r.conf = 92)
  /\ r.source = "cmdb" /\ r.conf = 65 => r.age >= 1
  /\ ~r.right => \/ r.source = "vuln"
                 \/ r.source = "cmdb" /\ r.conf = 65
                    /\ r.attribute \in {"os_version", "ip_address", "last_seen"}

LEMMA FactsOf ==
  ASSUME NEW asset \in Assets, NEW r \in gen_observations(asset)
  PROVE  ReportFacts(asset, r)
<1>a. /\ asset.owner \in 0..2 /\ asset.business_criticality \in 0..2
      /\ asset.is_managed \in 0..5 /\ asset.os_version \in 21..75
      /\ asset.ip_address \in 14..60 /\ asset.last_seen \in 14..60
      /\ asset.os_right \in BOOLEAN /\ asset.ip_right \in BOOLEAN /\ asset.edr_os \in 0..1
      /\ asset.days_since_scan \in 0..35 /\ asset.drifted \in BOOLEAN
  BY DEF Assets
<1>1. /\ asset.owner \in Ages /\ asset.business_criticality \in Ages
      /\ asset.is_managed \in Ages /\ asset.os_version \in Ages
      /\ asset.ip_address \in Ages /\ asset.last_seen \in Ages
      /\ asset.os_version >= 1 /\ asset.ip_address >= 1 /\ asset.last_seen >= 1
      /\ asset.os_right \in BOOLEAN /\ asset.ip_right \in BOOLEAN /\ asset.edr_os \in {0, 1}
      /\ asset.days_since_scan \in Ages /\ asset.drifted \in BOOLEAN
      /\ 0 \in Ages /\ 1 \in Ages
  BY <1>a DEF Ages
<1>2. CASE r = Report("cmdb", "owner", TRUE, asset.owner, 95)
  BY <1>1, <1>2 DEF Report, ReportFacts, ATTRIBUTES, Sources
<1>3. CASE r = Report("cmdb", "business_criticality", TRUE, asset.business_criticality, 95)
  BY <1>1, <1>3 DEF Report, ReportFacts, ATTRIBUTES, Sources
<1>4. CASE r = Report("cmdb", "is_managed", TRUE, asset.is_managed, 90)
  BY <1>1, <1>4 DEF Report, ReportFacts, ATTRIBUTES, Sources
<1>5. CASE r = Report("cmdb", "os_version", asset.os_right, asset.os_version, 65)
  BY <1>1, <1>5 DEF Report, ReportFacts, ATTRIBUTES, Sources
<1>6. CASE r = Report("cmdb", "ip_address", asset.ip_right, asset.ip_address, 65)
  BY <1>1, <1>6 DEF Report, ReportFacts, ATTRIBUTES, Sources
<1>7. CASE r = Report("cmdb", "last_seen", FALSE, asset.last_seen, 65)
  BY <1>1, <1>7 DEF Report, ReportFacts, ATTRIBUTES, Sources
<1>8. CASE r = Report("edr", "os_version", TRUE, asset.edr_os, 92)
  BY <1>1, <1>8 DEF Report, ReportFacts, ATTRIBUTES, Sources
<1>9. CASE r = Report("edr", "ip_address", TRUE, 0, 90)
  BY <1>1, <1>9 DEF Report, ReportFacts, ATTRIBUTES, Sources
<1>10. CASE r = Report("edr", "last_seen", TRUE, 0, 90)
  BY <1>1, <1>10 DEF Report, ReportFacts, ATTRIBUTES, Sources
<1>11. CASE r = Report("edr", "is_managed", TRUE, 0, 95)
  BY <1>1, <1>11 DEF Report, ReportFacts, ATTRIBUTES, Sources
<1>12. CASE r = ScanReport(asset)
  <2> DEFINE age == asset.days_since_scan
             conf == IF age <= 7 THEN 88 ELSE 55
             right == (age <= 7 \/ ~asset.drifted)
  <2>1. age \in Ages /\ conf \in {55, 88} /\ right \in BOOLEAN
    BY <1>1
  <2>2. /\ r.source = "vuln" /\ r.attribute = "open_vuln_count" /\ r.age = age /\ r.conf = conf
        /\ r = [source |-> "vuln", attribute |-> "open_vuln_count", right |-> right,
                age |-> age, conf |-> conf]
    BY <1>12 DEF Report, ScanReport
  <2> HIDE DEF age, conf, right
  <2>3. r.right = right
    BY <2>2
  <2> QED
    BY <2>1, <2>2, <2>3 DEF ReportFacts, ATTRIBUTES, Sources
<1>13. CASE r = Report("idp", "owner", TRUE, 0, 80)
  BY <1>1, <1>13 DEF Report, ReportFacts, ATTRIBUTES, Sources
<1> QED
  BY <1>2, <1>3, <1>4, <1>5, <1>6, <1>7, <1>8, <1>9, <1>10, <1>11, <1>12, <1>13, ReportIs


(* A tool reports an attribute once.                                          *)
LEMMA OneReport ==
  ASSUME NEW asset \in Assets, NEW r \in gen_observations(asset),
         NEW q \in gen_observations(asset), r.source = q.source, r.attribute = q.attribute
  PROVE  r = q
<1> DEFINE V == ScanReport(asset)
<1>0. V.source = "vuln" /\ V.attribute = "open_vuln_count"
  BY DEF Report, ScanReport
<1> HIDE DEF V
<1>1. \/ q = V
      \/ q = Report("cmdb", "owner", TRUE, asset.owner, 95)
      \/ q = Report("cmdb", "business_criticality", TRUE, asset.business_criticality, 95)
      \/ q = Report("cmdb", "is_managed", TRUE, asset.is_managed, 90)
      \/ q = Report("cmdb", "os_version", asset.os_right, asset.os_version, 65)
      \/ q = Report("cmdb", "ip_address", asset.ip_right, asset.ip_address, 65)
      \/ q = Report("cmdb", "last_seen", FALSE, asset.last_seen, 65)
      \/ q = Report("edr", "os_version", TRUE, asset.edr_os, 92)
      \/ q = Report("edr", "ip_address", TRUE, 0, 90)
      \/ q = Report("edr", "last_seen", TRUE, 0, 90)
      \/ q = Report("edr", "is_managed", TRUE, 0, 95)
      \/ q = Report("idp", "owner", TRUE, 0, 80)
  BY ReportIs DEF V
<1>2. CASE r = Report("cmdb", "owner", TRUE, asset.owner, 95)
  BY <1>0, <1>1, <1>2 DEF Report
<1>3. CASE r = Report("cmdb", "business_criticality", TRUE, asset.business_criticality, 95)
  BY <1>0, <1>1, <1>3 DEF Report
<1>4. CASE r = Report("cmdb", "is_managed", TRUE, asset.is_managed, 90)
  BY <1>0, <1>1, <1>4 DEF Report
<1>5. CASE r = Report("cmdb", "os_version", asset.os_right, asset.os_version, 65)
  BY <1>0, <1>1, <1>5 DEF Report
<1>6. CASE r = Report("cmdb", "ip_address", asset.ip_right, asset.ip_address, 65)
  BY <1>0, <1>1, <1>6 DEF Report
<1>7. CASE r = Report("cmdb", "last_seen", FALSE, asset.last_seen, 65)
  BY <1>0, <1>1, <1>7 DEF Report
<1>8. CASE r = Report("edr", "os_version", TRUE, asset.edr_os, 92)
  BY <1>0, <1>1, <1>8 DEF Report
<1>9. CASE r = Report("edr", "ip_address", TRUE, 0, 90)
  BY <1>0, <1>1, <1>9 DEF Report
<1>10. CASE r = Report("edr", "last_seen", TRUE, 0, 90)
  BY <1>0, <1>1, <1>10 DEF Report
<1>11. CASE r = Report("edr", "is_managed", TRUE, 0, 95)
  BY <1>0, <1>1, <1>11 DEF Report
<1>12. CASE r = V
  BY <1>0, <1>1, <1>12 DEF Report
<1>13. CASE r = Report("idp", "owner", TRUE, 0, 80)
  BY <1>0, <1>1, <1>13 DEF Report
<1> QED
  BY <1>2, <1>3, <1>4, <1>5, <1>6, <1>7, <1>8, <1>9, <1>10, <1>11, <1>12, <1>13, ReportIs DEF V

-----------------------------------------------------------------------------
(* Two different reports of an attribute are ordered one way and not the other.  *)
Beats(r, q, half_life) ==
  \/ effective_score(r, half_life) > effective_score(q, half_life)
  \/ effective_score(r, half_life) = effective_score(q, half_life) /\ Before(r.source, q.source)

LEMMA BeforeIsTotal ==
  \A s, t \in Sources : s # t => (Before(s, t) <=> ~Before(t, s))
BY DEF Before, Sources

(* What the table of the decay says, for one half-life.                     *)
LEMMA DecayIs ==
  ASSUME NEW h \in HalfLives, NEW age \in Ages
  PROVE  /\ Decay[h][age] \in 0..1000
         /\ age = 0 => Decay[h][age] = 1000
         /\ age >= 1 => Decay[h][age] <= Decay[h][1]
         /\ Decay[h][1] \in 0..1000 /\ 2 * Decay[h][1] >= 1000
<1> DEFINE f == Decay[h]
<1>1. Decays(f)
  BY DecayAssumption
<1> HIDE DEF f
<1>2. 1 \in Ages /\ age \in Int
  BY DEF Ages
<1>3. /\ f[age] \in 0..1000 /\ (age = 0 => f[age] = 1000)
      /\ f[1] \in 0..1000 /\ 2 * f[1] >= 1000
      /\ age >= 1 => f[age] <= f[1]
  BY <1>1, <1>2 DEF Decays
<1> QED
  BY <1>3 DEF f

(* A score is confidence times decay, and what the authority gets on top.     *)
LEMMA ScoreIs ==
  ASSUME NEW asset \in Assets, NEW r \in gen_observations(asset), NEW h \in HalfLives
  PROVE  /\ effective_score(r, h) \in Nat
         /\ effective_score(r, h) >= r.conf * Decay[h][r.age]
         /\ effective_score(r, h) <= r.conf * Decay[h][r.age] + 5000
<1> DEFINE bonus == IF r.source = AUTHORITY[r.attribute] THEN authority_bonus ELSE 0
           age == r.age
           conf == r.conf
           decay == Decay[h][age]
<1>1. age \in Ages /\ conf \in Nat
  BY FactsOf DEF ReportFacts
<1>2. bonus \in {0, 5000}
  BY DEF authority_bonus
<1>3. effective_score(r, h) = conf * decay + bonus
  BY DEF effective_score
<1> HIDE DEF age, conf
<1>4. decay \in Nat
  <2>1. decay \in 0..1000
    BY <1>1, DecayIs
  <2> HIDE DEF decay
  <2> QED
    BY <2>1
<1>5. \A c, x \in Nat : c * x \in Nat
  OBVIOUS
<1> HIDE DEF bonus, decay
<1>6. conf * decay \in Nat
  BY <1>1, <1>4, <1>5
<1>7. /\ effective_score(r, h) \in Nat /\ effective_score(r, h) >= conf * decay
      /\ effective_score(r, h) <= conf * decay + 5000
  BY <1>2, <1>3, <1>6
<1> QED
  BY <1>7 DEF decay, age, conf

(* The agent's reading of today or yesterday scores above the CMDB's stale one.  *)
LEMMA AgentWins ==
  ASSUME NEW asset \in Assets, NEW h \in HalfLives,
         NEW r \in gen_observations(asset), r.source = "edr",
         NEW q \in gen_observations(asset), q.source = "cmdb", q.conf = 65
  PROVE  effective_score(r, h) > effective_score(q, h)
<1> DEFINE rage == r.age
           qage == q.age
           mine == Decay[h][rage]
           other == Decay[h][qage]
           D == Decay[h][1]
<1>1. /\ rage \in {0, 1} /\ rage \in Ages /\ r.conf \in Nat /\ r.conf >= 90
      /\ rage = 1 => r.conf = 92
      /\ qage \in Ages /\ qage >= 1
  BY FactsOf DEF ReportFacts
<1>2. /\ effective_score(r, h) \in Nat /\ effective_score(r, h) >= r.conf * mine
      /\ effective_score(q, h) \in Nat /\ effective_score(q, h) <= 65 * other + 5000
  BY ScoreIs
<1>3. rage = 1 => mine = D
  OBVIOUS
<1> HIDE DEF rage, qage
<1>4. /\ rage = 0 => mine = 1000
      /\ other \in 0..1000 /\ other <= D /\ D \in 0..1000 /\ 2 * D >= 1000
  BY <1>1, DecayIs
<1> HIDE DEF D, mine, other
<1>5. effective_score(q, h) <= 65 * D + 5000
  BY <1>2, <1>4
<1>6. CASE rage = 0
  <2>1. effective_score(r, h) >= r.conf * 1000
    BY <1>2, <1>4, <1>6
  <2>2. effective_score(r, h) >= 90000
    BY <1>1, <1>2, <2>1
  <2> QED
    BY <1>2, <1>4, <1>5, <2>2
<1>7. CASE rage = 1
  <2>1. effective_score(r, h) >= 92 * D
    BY <1>1, <1>2, <1>3, <1>7
  <2> QED
    BY <1>2, <1>4, <1>5, <2>1
<1> QED
  BY <1>1, <1>6, <1>7

(* No attribute has reports of three tools.                                   *)
LEMMA TwoReports ==
  ASSUME NEW asset \in Assets, NEW a, NEW r \in ReportsOf(gen_observations(asset), a),
         NEW q \in ReportsOf(gen_observations(asset), a),
         NEW s \in ReportsOf(gen_observations(asset), a)
  PROVE  r = q \/ r = s \/ q = s
<1>1. /\ r \in gen_observations(asset) /\ q \in gen_observations(asset)
      /\ s \in gen_observations(asset) /\ r.attribute = a /\ q.attribute = a /\ s.attribute = a
  BY DEF ReportsOf
<1>2. ReportFacts(asset, r) /\ ReportFacts(asset, q) /\ ReportFacts(asset, s)
  BY <1>1, FactsOf
<1>3. r.source = q.source \/ r.source = s.source \/ q.source = s.source
  BY <1>1, <1>2 DEF ReportFacts, Sources
<1> QED
  BY <1>1, <1>3, OneReport

(* A choice from the reports: of each attribute that has any just one, and a     *)
(* right one where all are right.                                             *)
Choice(obs, merge) ==
  /\ merge \subseteq obs
  /\ \A r, q \in merge : r.attribute = q.attribute => r = q
  /\ \A r \in obs : \E q \in merge : q.attribute = r.attribute

(* Of one or two ordered things one is the first.                             *)
LEMMA FirstOfTwo ==
  ASSUME NEW rows, rows # {}, \A r, q, s \in rows : r = q \/ r = s \/ q = s,
         NEW R, \A r, q \in rows : r # q => (<<r, q>> \in R <=> <<q, r>> \notin R)
  PROVE  \E r \in rows : {x \in rows : \A q \in rows \ {x} : <<x, q>> \in R} = {r}
<1> DEFINE first == {x \in rows : \A q \in rows \ {x} : <<x, q>> \in R}
<1>1. PICK r \in rows : TRUE
  OBVIOUS
<1>2. CASE rows = {r}
  <2>1. first = {r}
    BY <1>2
  <2> QED
    BY <2>1
<1>3. CASE rows # {r}
  <2>1. PICK q \in rows : q # r
    BY <1>3
  <2>2. rows = {r, q}
    BY <2>1
  <2>3. CASE <<r, q>> \in R
    <3>1. first = {r}
      BY <2>1, <2>2, <2>3
    <3> QED
      BY <3>1
  <2>4. CASE <<r, q>> \notin R
    <3>1. <<q, r>> \in R
      BY <2>1, <2>4
    <3>2. first = {q}
      BY <2>1, <2>2, <2>4, <3>1
    <3> QED
      BY <3>2
  <2> QED
    BY <2>3, <2>4
<1> QED
  BY <1>2, <1>3

-----------------------------------------------------------------------------
(* The merge by score keeps of each attribute the report that beats the others. *)
LEMMA BestIs ==
  ASSUME NEW asset \in Assets, NEW h \in HalfLives, NEW obs, obs = gen_observations(asset)
  PROVE  best_context(obs, h) =
           UNION {{r \in ReportsOf(obs, a) : \A q \in ReportsOf(obs, a) \ {r} : Beats(r, q, h)} :
                  a \in ATTRIBUTES}
BY DEF best_context, First, Beats

(* The merge by score chooses one report of each attribute that has any.    *)
LEMMA BestIsChoice ==
  ASSUME NEW asset \in Assets, NEW h \in HalfLives, NEW obs, obs = gen_observations(asset)
  PROVE  Choice(obs, best_context(obs, h))
<1> DEFINE first(a) == {r \in ReportsOf(obs, a) :
                          \A q \in ReportsOf(obs, a) \ {r} : Beats(r, q, h)}
<1>1. ASSUME NEW a \in ATTRIBUTES, ReportsOf(obs, a) # {}
      PROVE  \E r \in ReportsOf(obs, a) : first(a) = {r}
  <2> DEFINE rows == ReportsOf(obs, a)
             R == {p \in rows \X rows : Beats(p[1], p[2], h)}
  <2>1. \A r, q, s \in rows : r = q \/ r = s \/ q = s
    BY TwoReports
  <2>2. ASSUME NEW r \in rows, NEW q \in rows, r # q
        PROVE  Beats(r, q, h) <=> ~Beats(q, r, h)
    <3>1. r \in obs /\ q \in obs /\ r.attribute = a /\ q.attribute = a
      BY DEF ReportsOf
    <3>2. r.source \in Sources /\ q.source \in Sources
      BY <3>1, FactsOf DEF ReportFacts
    <3>3. r.source # q.source
      BY <2>2, <3>1, OneReport
    <3>4. effective_score(r, h) \in Nat /\ effective_score(q, h) \in Nat
      BY <3>1, ScoreIs
    <3>5. Before(r.source, q.source) <=> ~Before(q.source, r.source)
      BY <3>2, <3>3, BeforeIsTotal
    <3> QED
      BY <3>4, <3>5 DEF Beats
  <2> HIDE DEF rows
  <2>3. \A r, q \in rows : <<r, q>> \in R <=> Beats(r, q, h)
    OBVIOUS
  <2>4. \A r, q \in rows : r # q => (<<r, q>> \in R <=> <<q, r>> \notin R)
    BY <2>2, <2>3
  <2>5. rows # {}
    BY <1>1 DEF rows
  <2>6. {x \in rows : \A q \in rows \ {x} : <<x, q>> \in R} = first(a)
    BY <2>3 DEF rows
  <2> HIDE DEF R, first
  <2>7. \E r \in rows : {x \in rows : \A q \in rows \ {x} : <<x, q>> \in R} = {r}
    BY <2>1, <2>4, <2>5, FirstOfTwo
  <2> QED
    BY <2>6, <2>7 DEF rows
<1>2. best_context(obs, h) = UNION {first(a) : a \in ATTRIBUTES}
  BY BestIs
<1>3. \A a : \A r \in first(a) : r \in obs /\ r.attribute = a
  BY DEF ReportsOf
<1>4. \A r \in obs : r.attribute \in ATTRIBUTES /\ r \in ReportsOf(obs, r.attribute)
  BY FactsOf DEF ReportFacts, ReportsOf
<1> HIDE DEF first
<1>5. best_context(obs, h) \subseteq obs
  BY <1>2, <1>3
<1>6. ASSUME NEW r \in best_context(obs, h), NEW q \in best_context(obs, h),
             r.attribute = q.attribute
      PROVE  r = q
  <2>1. r \in first(r.attribute) /\ q \in first(r.attribute) /\ r.attribute \in ATTRIBUTES
    BY <1>2, <1>3, <1>6
  <2> QED
    BY <1>1, <1>4, <1>5, <2>1
<1>7. ASSUME NEW r \in obs
      PROVE  \E q \in best_context(obs, h) : q.attribute = r.attribute
  <2>1. PICK q \in ReportsOf(obs, r.attribute) : first(r.attribute) = {q}
    BY <1>1, <1>4
  <2>2. q \in first(r.attribute)
    BY <2>1
  <2>3. q \in best_context(obs, h)
    BY <1>2, <1>4, <2>2
  <2> QED
    BY <1>3, <2>2, <2>3
<1> QED
  BY <1>5, <1>6, <1>7 DEF Choice

(* A wrong report loses to a right one: what is wrong and not alone is the      *)
(* CMDB's stale reading, and what is right beside it the agent's fresh one.      *)
LEMMA BestIsRight ==
  ASSUME NEW asset \in Assets, NEW h \in HalfLives, NEW obs, obs = gen_observations(asset),
         NEW r \in obs, r.right, NEW b \in best_context(obs, h), b.attribute = r.attribute
  PROVE  b.right
<1> SUFFICES ASSUME ~b.right
             PROVE  FALSE
  OBVIOUS
<1>1. b \in obs
  BY BestIsChoice DEF Choice
<1>2. ReportFacts(asset, b) /\ ReportFacts(asset, r)
  BY <1>1, FactsOf
<1>3. b # r
  OBVIOUS
<1>4. b.source # r.source
  BY <1>1, <1>3, OneReport
<1>5. /\ b.source = "cmdb" /\ b.conf = 65
      /\ b.attribute \in {"os_version", "ip_address", "last_seen"}
  BY <1>2, <1>4 DEF ReportFacts
<1>6. r.source = "edr"
  BY <1>2, <1>4, <1>5 DEF ReportFacts, Sources
<1>7. effective_score(r, h) > effective_score(b, h)
  BY <1>1, <1>5, <1>6, AgentWins
<1>8. effective_score(r, h) \in Nat /\ effective_score(b, h) \in Nat
  BY <1>1, ScoreIs
<1>9. Beats(b, r, h)
  <2>1. PICK a \in ATTRIBUTES : /\ b \in ReportsOf(obs, a)
                                /\ \A q \in ReportsOf(obs, a) \ {b} : Beats(b, q, h)
    BY BestIs
  <2>2. r \in ReportsOf(obs, a) \ {b}
    BY <1>3, <2>1 DEF ReportsOf
  <2> QED
    BY <2>1, <2>2
<1> QED
  BY <1>7, <1>8, <1>9 DEF Beats

(* The naive merge also chooses one report per attribute.                       *)
LEMMA NaiveIs ==
  ASSUME NEW obs
  PROVE  naive_merge(obs) =
           UNION {IF {r \in ReportsOf(obs, a) : r.source = AUTHORITY[a]} # {}
                  THEN {r \in ReportsOf(obs, a) : r.source = AUTHORITY[a]}
                  ELSE {r \in ReportsOf(obs, a) :
                          \A q \in ReportsOf(obs, a) \ {r} : Before(r.source, q.source)} :
                  a \in ATTRIBUTES}
BY DEF naive_merge, First

LEMMA NaiveIsChoice ==
  ASSUME NEW asset \in Assets, NEW obs, obs = gen_observations(asset)
  PROVE  Choice(obs, naive_merge(obs))
<1> DEFINE auth(a) == {r \in ReportsOf(obs, a) : r.source = AUTHORITY[a]}
           first(a) == {r \in ReportsOf(obs, a) :
                          \A q \in ReportsOf(obs, a) \ {r} : Before(r.source, q.source)}
           pick(a) == IF auth(a) # {} THEN auth(a) ELSE first(a)
<1>1. ASSUME NEW a \in ATTRIBUTES, ReportsOf(obs, a) # {}
      PROVE  \E r \in ReportsOf(obs, a) : first(a) = {r}
  <2> DEFINE rows == ReportsOf(obs, a)
             R == {p \in rows \X rows : Before(p[1].source, p[2].source)}
  <2>1. \A r, q, s \in rows : r = q \/ r = s \/ q = s
    BY TwoReports
  <2>2. ASSUME NEW r \in rows, NEW q \in rows, r # q
        PROVE  Before(r.source, q.source) <=> ~Before(q.source, r.source)
    <3>1. r \in obs /\ q \in obs /\ r.attribute = a /\ q.attribute = a
      BY DEF ReportsOf
    <3>2. r.source \in Sources /\ q.source \in Sources
      BY <3>1, FactsOf DEF ReportFacts
    <3>3. r.source # q.source
      BY <2>2, <3>1, OneReport
    <3> QED
      BY <3>2, <3>3, BeforeIsTotal
  <2> HIDE DEF rows
  <2>3. \A r, q \in rows : <<r, q>> \in R <=> Before(r.source, q.source)
    OBVIOUS
  <2>4. \A r, q \in rows : r # q => (<<r, q>> \in R <=> <<q, r>> \notin R)
    BY <2>2, <2>3
  <2>5. rows # {}
    BY <1>1 DEF rows
  <2>6. {x \in rows : \A q \in rows \ {x} : <<x, q>> \in R} = first(a)
    BY <2>3 DEF rows
  <2> HIDE DEF R, first
  <2>7. \E r \in rows : {x \in rows : \A q \in rows \ {x} : <<x, q>> \in R} = {r}
    BY <2>1, <2>4, <2>5, FirstOfTwo
  <2> QED
    BY <2>6, <2>7 DEF rows
<1>2. ASSUME NEW a \in ATTRIBUTES, ReportsOf(obs, a) # {}
      PROVE  \E r \in ReportsOf(obs, a) : pick(a) = {r}
  <2>1. CASE auth(a) = {}
    <3> HIDE DEF auth, first
    <3> QED
      BY <1>1, <1>2, <2>1
  <2>2. CASE auth(a) # {}
    <3>1. PICK r \in ReportsOf(obs, a) : r.source = AUTHORITY[a]
      BY <2>2
    <3>2. ASSUME NEW q \in auth(a)
          PROVE  q = r
      BY <3>1, OneReport DEF ReportsOf
    <3>3. r \in auth(a)
      BY <3>1
    <3> HIDE DEF auth, first
    <3>4. auth(a) = {r}
      BY <3>2, <3>3
    <3> QED
      BY <2>2, <3>4
  <2> QED
    BY <2>1, <2>2
<1>3. naive_merge(obs) = UNION {pick(a) : a \in ATTRIBUTES}
  BY NaiveIs
<1>4. \A a : \A r \in pick(a) : r \in obs /\ r.attribute = a
  BY DEF ReportsOf
<1>5. \A r \in obs : r.attribute \in ATTRIBUTES /\ r \in ReportsOf(obs, r.attribute)
  BY FactsOf DEF ReportFacts, ReportsOf
<1> HIDE DEF pick, auth, first
<1>6. naive_merge(obs) \subseteq obs
  BY <1>3, <1>4
<1>7. ASSUME NEW r \in naive_merge(obs), NEW q \in naive_merge(obs),
             r.attribute = q.attribute
      PROVE  r = q
  <2>1. r \in pick(r.attribute) /\ q \in pick(r.attribute) /\ r.attribute \in ATTRIBUTES
    BY <1>3, <1>4, <1>7
  <2> QED
    BY <1>2, <1>5, <1>6, <2>1
<1>8. ASSUME NEW r \in obs
      PROVE  \E q \in naive_merge(obs) : q.attribute = r.attribute
  <2>1. PICK q \in ReportsOf(obs, r.attribute) : pick(r.attribute) = {q}
    BY <1>2, <1>5
  <2>2. q \in pick(r.attribute)
    BY <2>1
  <2>3. q \in naive_merge(obs)
    BY <1>3, <1>5, <2>2
  <2> QED
    BY <1>4, <2>2, <2>3
<1> QED
  BY <1>6, <1>7, <1>8 DEF Choice

-----------------------------------------------------------------------------
(* There are finitely many attributes.                                         *)
LEMMA AttributesAreSeven == IsFiniteSet(ATTRIBUTES)
<1>1. \A S : IsFiniteSet(S) => \A x : IsFiniteSet(S \cup {x})
  BY FS_AddElement
<1> DEFINE A0 == {}
           A1 == A0 \cup {"owner"}
           A2 == A1 \cup {"business_criticality"}
           A3 == A2 \cup {"os_version"}
           A4 == A3 \cup {"ip_address"}
           A5 == A4 \cup {"last_seen"}
           A6 == A5 \cup {"open_vuln_count"}
           A7 == A6 \cup {"is_managed"}
<1>2. ATTRIBUTES = A7
  BY DEF ATTRIBUTES
<1>3. IsFiniteSet(A0)
  BY FS_EmptySet
<1> HIDE DEF A0, A1, A2, A3, A4, A5, A6, A7
<1>4. IsFiniteSet(A1)
  BY <1>1, <1>3 DEF A1
<1>5. IsFiniteSet(A2)
  BY <1>1, <1>4 DEF A2
<1>6. IsFiniteSet(A3)
  BY <1>1, <1>5 DEF A3
<1>7. IsFiniteSet(A4)
  BY <1>1, <1>6 DEF A4
<1>8. IsFiniteSet(A5)
  BY <1>1, <1>7 DEF A5
<1>9. IsFiniteSet(A6)
  BY <1>1, <1>8 DEF A6
<1>10. IsFiniteSet(A7)
  BY <1>1, <1>9 DEF A7
<1> QED
  BY <1>2, <1>10

(* Reports of one attribute each are as many as the attributes they report.      *)
LEMMA AttributesOf ==
  ASSUME NEW rows, \A r \in rows : r.attribute \in ATTRIBUTES,
         \A r, q \in rows : r.attribute = q.attribute => r = q
  PROVE  /\ IsFiniteSet(rows)
         /\ Cardinality(rows) = Cardinality({r.attribute : r \in rows})
         /\ Cardinality(rows) \in Nat
<1> DEFINE T == {r.attribute : r \in rows}
           f == [r \in rows |-> r.attribute]
<1>1. IsFiniteSet(T)
  <2>1. T \in SUBSET ATTRIBUTES
    OBVIOUS
  <2> QED
    BY <2>1, AttributesAreSeven, FS_Subset
<1>2. f \in [rows -> T] /\ \A r \in rows : f[r] = r.attribute
  OBVIOUS
<1>0. \A t \in T : \E r \in rows : r.attribute = t
  OBVIOUS
<1>3. f \in Injection(rows, T) /\ f \in Surjection(rows, T)
  <2> HIDE DEF f, T
  <2>1. f \in Injection(rows, T)
    BY <1>2 DEF Injection, IsInjective
  <2>2. f \in Surjection(rows, T)
    BY <1>2, <1>0 DEF Surjection
  <2> QED
    BY <2>1, <2>2
<1> HIDE DEF T, f
<1>4. IsFiniteSet(rows) /\ Cardinality(rows) = Cardinality(T)
  BY <1>1, <1>3, FS_Injection
<1> QED
  BY <1>4, FS_CardinalityType DEF T

RightCells(obs) == {a \in ATTRIBUTES : \E r \in ReportsOf(obs, a) : r.right}

(* Right reports, at most one of each attribute, are at most the right cells.     *)
LEMMA RightOf ==
  ASSUME NEW obs, \A r \in obs : r.attribute \in ATTRIBUTES,
         NEW rows, rows \subseteq obs,
         \A r, q \in rows : r.attribute = q.attribute => r = q
  PROVE  /\ Right(rows) \in Nat
         /\ Right(rows) <= any_correct(obs)
         /\ Right(rows) = Cardinality({r.attribute : r \in {q \in rows : q.right}})
<1> DEFINE good == {r \in rows : r.right}
           cells == {r.attribute : r \in good}
<1>1. good \subseteq rows
  OBVIOUS
<1>2. cells \subseteq RightCells(obs)
  BY DEF RightCells, ReportsOf
<1>3. IsFiniteSet(RightCells(obs))
  <2>1. RightCells(obs) \in SUBSET ATTRIBUTES
    BY DEF RightCells
  <2> QED
    BY <2>1, AttributesAreSeven, FS_Subset
<1>4. Right(rows) = Cardinality(good) /\ any_correct(obs) = Cardinality(RightCells(obs))
  BY DEF Right, any_correct, RightCells
<1> HIDE DEF good
<1>5. Cardinality(good) \in Nat /\ Cardinality(good) = Cardinality(cells)
  BY <1>1, AttributesOf
<1> HIDE DEF cells
<1>6. Cardinality(cells) <= Cardinality(RightCells(obs))
  BY <1>2, <1>3, FS_Subset
<1> QED
  BY <1>4, <1>5, <1>6 DEF cells, good

Sure(obs) ==
  {a \in ATTRIBUTES : ReportsOf(obs, a) # {} /\ \A r \in ReportsOf(obs, a) : r.right}

(* A choice recovers what every tool has right, and no more than some tool has.   *)
LEMMA ChoiceIsWithin ==
  ASSUME NEW obs, \A r \in obs : r.attribute \in ATTRIBUTES,
         NEW merge, Choice(obs, merge)
  PROVE  /\ Cardinality(merge) <= Cardinality(ATTRIBUTES)
         /\ Cardinality(Sure(obs)) <= Right(merge)
         /\ Right(merge) <= any_correct(obs)
<1>1. /\ merge \subseteq obs
      /\ \A r, q \in merge : r.attribute = q.attribute => r = q
      /\ \A r \in obs : \E q \in merge : q.attribute = r.attribute
  BY DEF Choice
<1>2. Cardinality(merge) <= Cardinality(ATTRIBUTES)
  <2> DEFINE T == {r.attribute : r \in merge}
  <2>1. Cardinality(merge) = Cardinality(T)
    BY <1>1, AttributesOf
  <2>2. T \in SUBSET ATTRIBUTES
    BY <1>1
  <2> HIDE DEF T
  <2> QED
    BY <2>1, <2>2, AttributesAreSeven, FS_Subset
<1> DEFINE cells == {r.attribute : r \in {q \in merge : q.right}}
<1>3. Right(merge) <= any_correct(obs) /\ Right(merge) = Cardinality(cells)
  BY <1>1, RightOf
<1>4. Sure(obs) \subseteq cells
  <2> SUFFICES ASSUME NEW a \in Sure(obs)
               PROVE  a \in cells
    OBVIOUS
  <2>1. PICK r \in ReportsOf(obs, a) : TRUE
    BY DEF Sure
  <2>2. r \in obs /\ r.attribute = a
    BY <2>1 DEF ReportsOf
  <2>3. PICK q \in merge : q.attribute = a
    BY <1>1, <2>2
  <2>4. q \in ReportsOf(obs, a)
    BY <1>1, <2>3 DEF ReportsOf
  <2>5. q.right
    BY <2>4 DEF Sure
  <2> QED
    BY <2>3, <2>5
<1>5. IsFiniteSet(cells)
  <2>1. cells \in SUBSET ATTRIBUTES
    BY <1>1
  <2> HIDE DEF cells
  <2> QED
    BY <2>1, AttributesAreSeven, FS_Subset
<1> HIDE DEF cells
<1> QED
  BY <1>2, <1>3, <1>4, <1>5, FS_Subset

(* The recovered cells are those that some tool has right, at every half-life.    *)
LEMMA BestRecovers ==
  ASSUME NEW asset \in Assets, NEW h \in HalfLives, NEW obs, obs = gen_observations(asset)
  PROVE  {r.attribute : r \in {q \in best_context(obs, h) : q.right}} = RightCells(obs)
<1> DEFINE cells == {r.attribute : r \in {q \in best_context(obs, h) : q.right}}
<1>1. Choice(obs, best_context(obs, h))
  BY BestIsChoice
<1>2. \A r \in obs : r.attribute \in ATTRIBUTES
  BY FactsOf DEF ReportFacts
<1>3. cells \subseteq RightCells(obs)
  BY <1>1, <1>2 DEF Choice, RightCells, ReportsOf
<1>4. ASSUME NEW a \in RightCells(obs)
      PROVE  a \in cells
  <2>1. PICK r \in obs : r.attribute = a /\ r.right
    BY DEF RightCells, ReportsOf
  <2>2. PICK b \in best_context(obs, h) : b.attribute = a
    BY <1>1, <2>1 DEF Choice
  <2>3. b.right
    BY <2>1, <2>2, BestIsRight
  <2> QED
    BY <2>2, <2>3
<1> QED
  BY <1>3, <1>4

(* What the run asks of one asset, of any.                                  *)
LEMMA AssetHolds ==
  ASSUME NEW asset \in Assets
  PROVE  LeverOnEveryAsset(asset) /\ MergesWithin(asset)
<1> DEFINE obs == gen_observations(asset)
           cross(h) == {r.attribute : r \in {q \in best_context(obs, h) : q.right}}
           row(s) == {r \in obs : r.source = s}
<1>1. \A r \in obs : r.attribute \in ATTRIBUTES
  BY FactsOf DEF ReportFacts
<1>2. \A r, q \in obs : r.source = q.source /\ r.attribute = q.attribute => r = q
  BY OneReport
<1>3. Choice(obs, naive_merge(obs))
  BY NaiveIsChoice
<1>4. \A h \in HalfLives : Choice(obs, best_context(obs, h))
  BY BestIsChoice
<1>5. \A h \in HalfLives : cross(h) = RightCells(obs)
  BY BestRecovers
<1>6. any_correct(obs) = Cardinality(RightCells(obs))
  BY DEF any_correct, RightCells
<1>7. \A s \in Sources : per_tool(obs, s) <= any_correct(obs)
  <2> SUFFICES ASSUME NEW s \in Sources
               PROVE  per_tool(obs, s) <= any_correct(obs)
    OBVIOUS
  <2>1. /\ row(s) \subseteq obs
        /\ \A r, q \in row(s) : r.attribute = q.attribute => r = q
    BY <1>2
  <2>2. per_tool(obs, s) = Right(row(s))
    BY DEF per_tool
  <2> HIDE DEF row, obs
  <2> QED
    BY <1>1, <2>1, <2>2, RightOf
<1>8. LeverOnEveryAsset(asset)
  <2> HIDE DEF obs
  <2>1. Right(naive_merge(obs)) <= any_correct(obs)
    BY <1>1, <1>3, ChoiceIsWithin
  <2>2. Right(naive_merge(obs)) \in Nat
    BY <1>1, <1>3, RightOf DEF Choice
  <2>3. any_correct(obs) \in Nat
    <3>1. RightCells(obs) \in SUBSET ATTRIBUTES
      BY DEF RightCells
    <3> QED
      BY <1>6, <3>1, AttributesAreSeven, FS_Subset, FS_CardinalityType
  <2>4. \A s \in Sources : per_tool(obs, s) \in Nat
    <3> SUFFICES ASSUME NEW s \in Sources
                 PROVE  per_tool(obs, s) \in Nat
      OBVIOUS
    <3>1. /\ row(s) \subseteq obs
          /\ \A r, q \in row(s) : r.attribute = q.attribute => r = q
      BY <1>2
    <3>2. per_tool(obs, s) = Right(row(s))
      BY DEF per_tool
    <3> HIDE DEF row
    <3> QED
      BY <1>1, <3>1, <3>2, RightOf
  <2>5. \A h \in HalfLives : Cardinality(cross(h)) = any_correct(obs)
    BY <1>5, <1>6
  <2>6. /\ \A h, g \in HalfLives : cross(h) = cross(g)
        /\ \A h \in HalfLives : /\ Cardinality(cross(h)) >= Right(naive_merge(obs))
                               /\ \A s \in Sources : Cardinality(cross(h)) >= per_tool(obs, s)
    <3>1. \A h, g \in HalfLives : cross(h) = cross(g)
      BY <1>5
    <3> HIDE DEF cross
    <3> QED
      BY <1>7, <2>1, <2>2, <2>3, <2>4, <2>5, <3>1
  <2> QED
    BY <2>6 DEF LeverOnEveryAsset, obs
<1>9. MergesWithin(asset)
  <2> DEFINE within(merge) == /\ Cardinality(merge) <= Cardinality(ATTRIBUTES)
                              /\ Cardinality(Sure(obs)) <= Right(merge)
                              /\ Right(merge) <= any_correct(obs)
  <2> HIDE DEF obs
  <2>1. within(naive_merge(obs))
    BY <1>1, <1>3, ChoiceIsWithin
  <2>2. \A h \in HalfLives : within(best_context(obs, h))
    BY <1>1, <1>4, ChoiceIsWithin
  <2> QED
    BY <1>7, <2>1, <2>2 DEF MergesWithin, Sure, obs
<1> QED
  BY <1>8, <1>9

(* With any half-lives of a day or more, and of the decay no more known than  *)
(* that it does not grow with age and leaves a reading of today whole: on      *)
(* every asset that the generator can draw, of whatever ages its readings are  *)
(* and under any flaws, the merge by decayed confidence recovers the same      *)
(* cells whatever the half-life, all that some tool has right and so never     *)
(* fewer than a tool or the naive merge; and neither merge chooses two values  *)
(* for a cell.                                                             *)
THEOREM GapHolds == GapInit /\ [][GapNext]_surveyed => []Gap
<1> DEFINE IInv == surveyed = <<>> \/ surveyed \in Assets
<1>1. GapInit => IInv
  BY DEF GapInit
<1>2. IInv /\ [GapNext]_surveyed => IInv'
  BY EstateAssumption DEF GapNext
<1>3. IInv => Gap
  BY AssetHolds DEF Gap
<1> QED
  BY <1>1, <1>2, <1>3, PTL

-------------------------------------------------------------------------------
(* SCG.node and SCG.edge: what is in the graph stays, with its type.           *)
Keeps(before, after) ==
  /\ before.edges \subseteq after.edges
  /\ DOMAIN before.nodes \subseteq DOMAIN after.nodes
  /\ \A n \in DOMAIN before.nodes : after.nodes[n] = before.nodes[n]

LEMMA AddIs ==
  ASSUME NEW graph, NEW nodes, NEW edges
  PROVE  /\ Keeps(graph, add(graph, nodes, edges))
         /\ add(graph, nodes, edges).edges = graph.edges \cup edges
         /\ DOMAIN add(graph, nodes, edges).nodes = (DOMAIN graph.nodes) \cup (DOMAIN nodes)
         /\ \A n \in (DOMAIN nodes) \ (DOMAIN graph.nodes) :
              add(graph, nodes, edges).nodes[n] = nodes[n]
BY DEF add, Keeps

(* Loaders one after another keep what the first found.                     *)
LEMMA KeepsIsTransitive ==
  ASSUME NEW a, NEW b, NEW c, Keeps(a, b), Keeps(b, c)
  PROVE  Keeps(a, c)
BY DEF Keeps

(* The loaders add.                                                          *)
LEMMA HopsKeep ==
  ASSUME NEW graph, NEW source
  PROVE  /\ Keeps(graph, hop2_ocsf_d3fend(graph, source))
         /\ Keeps(graph, hop2b_event_artifact(graph, source))
         /\ Keeps(graph, hop34_artifacts(graph, source))
         /\ Keeps(graph, hop4_inferred_matrix(graph, source))
         /\ Keeps(graph, hop4prime_curated(graph, source))
         /\ Keeps(graph, hop5_skos(graph, source))
         /\ Keeps(graph, hop5prime_scf(graph, source))
<1>1. Keeps(graph, hop2_ocsf_d3fend(graph, source))
  BY AddIs DEF hop2_ocsf_d3fend
<1>2. Keeps(graph, hop2b_event_artifact(graph, source))
  BY AddIs DEF hop2b_event_artifact
<1>3. Keeps(graph, hop34_artifacts(graph, source))
  BY AddIs DEF hop34_artifacts
<1>4. Keeps(graph, hop4_inferred_matrix(graph, source))
  BY AddIs DEF hop4_inferred_matrix
<1>5. Keeps(graph, hop4prime_curated(graph, source))
  BY AddIs DEF hop4prime_curated
<1>6. Keeps(graph, hop5_skos(graph, source))
  BY AddIs DEF hop5_skos
<1>7. Keeps(graph, hop5prime_scf(graph, source))
  BY AddIs DEF hop5prime_scf
<1> QED
  BY <1>1, <1>2, <1>3, <1>4, <1>5, <1>6, <1>7

(* The edges of the two kinds that join defenses, attacks and controls.         *)
OfRel(graph, rel) == {e \in graph.edges : e.rel = rel}

(* The edges of one kind after a loader.                                    *)
LEMMA AddOfRel ==
  ASSUME NEW graph, NEW nodes, NEW edges, NEW rel
  PROVE  OfRel(add(graph, nodes, edges), rel) =
           OfRel(graph, rel) \cup {e \in edges : e.rel = rel}
BY AddIs DEF OfRel

(* The loaders but two add no edge of those two kinds.                      *)
LEMMA HopsOfRel ==
  ASSUME NEW graph, NEW source, NEW rel \in {"may_counter", "mitigated_by"}
  PROVE  /\ OfRel(hop1_fields(graph, source), rel) = OfRel(graph, rel)
         /\ OfRel(hop2_ocsf_d3fend(graph, source), rel) = OfRel(graph, rel)
         /\ OfRel(hop2b_event_artifact(graph, source), rel) = OfRel(graph, rel)
         /\ OfRel(hop34_artifacts(graph, source), rel) = OfRel(graph, rel)
         /\ OfRel(hop4prime_curated(graph, source), rel) = OfRel(graph, rel)
         /\ OfRel(hop5_skos(graph, source), rel) = OfRel(graph, rel)
<1>1. ASSUME NEW edges, \A e \in edges : e.rel \notin {"may_counter", "mitigated_by"}, NEW nodes
      PROVE  OfRel(add(graph, nodes, edges), rel) = OfRel(graph, rel)
  BY <1>1, AddOfRel
<1>0. \A s, df, r, q : Link(s, df, r, q).rel = r
  BY DEF Link
<1>2. OfRel(hop1_fields(graph, source), rel) = OfRel(graph, rel)
  <2> DEFINE fields == DOMAIN source
             mapped == {f \in fields : source[f] # "null"}
             edges == {Link(f, source[f], "normalizes", "measured") : f \in mapped} \cup
                      {Link(source[f], "class", "field_of", "measured") : f \in mapped} \cup
                      {Link(f, "class", "unmapped", "measured") : f \in fields \ mapped}
  <2>1. \A e \in edges : e.rel \in {"normalizes", "field_of", "unmapped"}
    BY <1>0
  <2>2. \A e \in edges : e.rel \notin {"may_counter", "mitigated_by"}
    BY <2>1
  <2>3. \E nodes : hop1_fields(graph, source) = add(graph, nodes, edges)
    BY DEF hop1_fields
  <2> HIDE DEF edges
  <2> QED
    BY <1>1, <2>2, <2>3
<1>3. OfRel(hop2_ocsf_d3fend(graph, source), rel) = OfRel(graph, rel)
  <2> DEFINE links == {l \in (DOMAIN source) \X UNION {source[n].ocsf : n \in DOMAIN source} :
                         l[2] \in source[l[1]].ocsf}
             edges == {Link(l[2], l[1], "references", "doc_link") : l \in links} \cup
                      {Link(l[1], l[2], "seeAlso", "doc_link") : l \in links}
  <2>3. \E nodes : hop2_ocsf_d3fend(graph, source) = add(graph, nodes, edges)
    BY DEF hop2_ocsf_d3fend
  <2> HIDE DEF links
  <2>1. \A e \in edges : e.rel \in {"references", "seeAlso"}
    BY <1>0
  <2>2. \A e \in edges : e.rel \notin {"may_counter", "mitigated_by"}
    BY <2>1
  <2> HIDE DEF edges
  <2> QED
    BY <1>1, <2>2, <2>3
<1>4. OfRel(hop2b_event_artifact(graph, source), rel) = OfRel(graph, rel)
  <2> DEFINE artifacts == subclass_descendants(source, "DigitalArtifact")
             events == {n \in DOMAIN graph.nodes : graph.nodes[n] = "d3fend_event"}
             links == {l \in events \X artifacts : l[2] \in source[l[1]].restricts}
             edges == {Link(l[1], l[2], "event", "ontology_axiom") : l \in links}
  <2>3. \E nodes : hop2b_event_artifact(graph, source) = add(graph, nodes, edges)
    BY DEF hop2b_event_artifact
  <2> HIDE DEF links
  <2>1. \A e \in edges : e.rel = "event"
    BY <1>0
  <2>2. \A e \in edges : e.rel \notin {"may_counter", "mitigated_by"}
    BY <2>1
  <2> HIDE DEF edges
  <2> QED
    BY <1>1, <2>2, <2>3
<1>5. OfRel(hop34_artifacts(graph, source), rel) = OfRel(graph, rel)
  <2> DEFINE edges ==
               {Link(r.defense, r.def_artifact, "observes", "ontology_curated") : r \in source} \cup
               {Link(r.attack, r.off_artifact, "produces", "artifact_cooccurrence") : r \in source}
  <2>1. \A e \in edges : e.rel \in {"observes", "produces"}
    BY <1>0
  <2>2. \A e \in edges : e.rel \notin {"may_counter", "mitigated_by"}
    BY <2>1
  <2>3. \E nodes : hop34_artifacts(graph, source) = add(graph, nodes, edges)
    BY DEF hop34_artifacts
  <2> HIDE DEF edges
  <2> QED
    BY <1>1, <2>2, <2>3
<1>6. OfRel(hop4prime_curated(graph, source), rel) = OfRel(graph, rel)
  <2> DEFINE links == {l \in (DOMAIN source) \X (DOMAIN source) :
                         /\ source[l[1]].type = "mitigation"
                         /\ source[l[2]].type = "defensive_technique"
                         /\ l[2] \in source[l[1]].refs}
             edges == {Link(l[2], l[1], "curated_mitigation", "curated") : l \in links}
  <2>3. \E nodes : hop4prime_curated(graph, source) = add(graph, nodes, edges)
    BY DEF hop4prime_curated
  <2> HIDE DEF links
  <2>1. \A e \in edges : e.rel = "curated_mitigation"
    BY <1>0
  <2>2. \A e \in edges : e.rel \notin {"may_counter", "mitigated_by"}
    BY <2>1
  <2> HIDE DEF edges
  <2> QED
    BY <1>1, <2>2, <2>3
<1>7. OfRel(hop5_skos(graph, source), rel) = OfRel(graph, rel)
  <2> DEFINE edges == {Link(s[1], s[2], "skos", "skos_typed") : s \in skos(source)}
  <2>1. \A e \in edges : e.rel = "skos"
    BY <1>0
  <2>2. \A e \in edges : e.rel \notin {"may_counter", "mitigated_by"}
    BY <2>1
  <2>3. \E nodes : hop5_skos(graph, source) = add(graph, nodes, edges)
    BY DEF hop5_skos
  <2> HIDE DEF edges
  <2> QED
    BY <1>1, <2>2, <2>3
<1> QED
  BY <1>2, <1>3, <1>4, <1>5, <1>6, <1>7

(* Only the wall says what may counter what, only the SCF file what mitigates it. *)
LEMMA MainOfRel ==
  ASSUME NEW source
  PROVE  /\ OfRel(main(source), "may_counter") =
              {Link(w[1], w[2], "may_counter", "artifact_cooccurrence") : w \in source.wall}
         /\ OfRel(main(source), "mitigated_by") =
              {Link(s[2], s[1], "mitigated_by", "ctid_reroute") : s \in source.scf}
<1> DEFINE g0 == [nodes |-> <<>>, edges |-> {}]
           gf == hop1_fields(g0, source.bridge)
           g1 == hop2_ocsf_d3fend(gf, source.ontology)
           g2 == hop2b_event_artifact(g1, source.ontology)
           g3 == hop34_artifacts(g2, source.rows)
           g4 == hop4_inferred_matrix(g3, source.wall)
           gm == hop4prime_curated(g4, source.ontology)
           g5 == hop5_skos(gm, source.ontology)
           g6 == hop5prime_scf(g5, source.scf)
           Counters == {Link(w[1], w[2], "may_counter", "artifact_cooccurrence") :
                          w \in source.wall}
           Mitigates == {Link(s[2], s[1], "mitigated_by", "ctid_reroute") : s \in source.scf}
<1>1. main(source) = g6
  BY DEF main
<1>2. \A rel \in {"may_counter", "mitigated_by"} : OfRel(g0, rel) = {}
  BY DEF OfRel
<1>3. \A rel \in {"may_counter", "mitigated_by"} : OfRel(gf, rel) = OfRel(g0, rel)
  <2> HIDE DEF g0
  <2> QED
    BY HopsOfRel
<1> HIDE DEF g0, gf
<1>4. \A rel \in {"may_counter", "mitigated_by"} : OfRel(g1, rel) = OfRel(gf, rel)
  BY HopsOfRel
<1> HIDE DEF g1
<1>5. \A rel \in {"may_counter", "mitigated_by"} : OfRel(g2, rel) = OfRel(g1, rel)
  BY HopsOfRel
<1> HIDE DEF g2
<1>6. \A rel \in {"may_counter", "mitigated_by"} : OfRel(g3, rel) = OfRel(g2, rel)
  BY HopsOfRel
<1> HIDE DEF g3
<1>0. \A s, df, r, q : Link(s, df, r, q).rel = r
  BY DEF Link
<1>7. \A rel : OfRel(g4, rel) = OfRel(g3, rel) \cup {e \in Counters : e.rel = rel}
  BY AddOfRel DEF hop4_inferred_matrix
<1>8. /\ {e \in Counters : e.rel = "may_counter"} = Counters
      /\ {e \in Counters : e.rel = "mitigated_by"} = {}
  BY <1>0
<1> HIDE DEF g4
<1>9. \A rel \in {"may_counter", "mitigated_by"} : OfRel(gm, rel) = OfRel(g4, rel)
  BY HopsOfRel
<1> HIDE DEF gm
<1>10. \A rel \in {"may_counter", "mitigated_by"} : OfRel(g5, rel) = OfRel(gm, rel)
  BY HopsOfRel
<1> HIDE DEF g5
<1>11. \A rel : OfRel(g6, rel) = OfRel(g5, rel) \cup {e \in Mitigates : e.rel = rel}
  BY AddOfRel DEF hop5prime_scf
<1>12. /\ {e \in Mitigates : e.rel = "mitigated_by"} = Mitigates
       /\ {e \in Mitigates : e.rel = "may_counter"} = {}
  BY <1>0
<1> HIDE DEF g6, Counters, Mitigates
<1>15. \A rel \in {"may_counter", "mitigated_by"} : OfRel(g3, rel) = {}
  BY <1>2, <1>3, <1>4, <1>5, <1>6
<1>16. \A rel \in {"may_counter", "mitigated_by"} : OfRel(g5, rel) = OfRel(g4, rel)
  BY <1>9, <1>10
<1>13. OfRel(g6, "may_counter") = Counters
  <2>1. OfRel(g4, "may_counter") = Counters
    BY <1>7, <1>8, <1>15
  <2>2. OfRel(g5, "may_counter") = Counters
    BY <1>16, <2>1
  <2>3. OfRel(g6, "may_counter") = OfRel(g5, "may_counter") \cup {}
    BY <1>11, <1>12
  <2> QED
    BY <2>2, <2>3
<1>14. OfRel(g6, "mitigated_by") = Mitigates
  <2>1. OfRel(g4, "mitigated_by") = {}
    BY <1>7, <1>8, <1>15
  <2>2. OfRel(g5, "mitigated_by") = {}
    BY <1>16, <2>1
  <2>3. OfRel(g6, "mitigated_by") = OfRel(g5, "mitigated_by") \cup Mitigates
    BY <1>11, <1>12
  <2> QED
    BY <2>2, <2>3
<1> QED
  BY <1>1, <1>13, <1>14 DEF Counters, Mitigates

(* A chain of edges is a row of each of the two files on one technique.        *)
LEMMA EdgeChainIs ==
  ASSUME NEW source, NEW p \in Chains(main(source))
  PROVE  \E w \in source.wall : \E s \in source.scf :
           p[1].src = w[1] /\ p[2].dst = s[1] /\ w[2] = s[2]
<1>0. \A a, b, r, q : /\ Link(a, b, r, q).rel = r /\ Link(a, b, r, q).src = a
                      /\ Link(a, b, r, q).dst = b
  BY DEF Link
<1>1. /\ p[1] \in OfRel(main(source), "may_counter")
      /\ p[2] \in OfRel(main(source), "mitigated_by")
      /\ p[1].dst = p[2].src
  BY DEF Chains, OfRel
<1>2. PICK w \in source.wall : p[1] = Link(w[1], w[2], "may_counter", "artifact_cooccurrence")
  BY <1>1, MainOfRel
<1>3. PICK s \in source.scf : p[2] = Link(s[2], s[1], "mitigated_by", "ctid_reroute")
  BY <1>1, MainOfRel
<1>4. /\ p[1].src = w[1] /\ p[1].dst = w[2]
      /\ p[2].src = s[2] /\ p[2].dst = s[1]
  BY <1>0, <1>2, <1>3
<1>5. w[2] = s[2]
  BY <1>1, <1>4
<1> QED
  BY <1>4, <1>5

(* What covers an attack is of the same technique.                          *)
LEMMA CoversIs ==
  ASSUME NEW pairs, NEW a
  PROVE  covers(Rights(pairs), a) <=> \E p \in pairs : base(p[2]) = base(a)
BY DEF covers, Rights

(* The figures of the SCF layer are safe against the graph and agree.        *)
LEMMA ReachHolds ==
  ASSUME NEW source
  PROVE  ReachMatchesGraph(source)
<1> DEFINE wall == source.wall
           scf == source.scf
<1>1. reached_def(source) =
        {df \in Lefts(wall) : \E w \in wall : w[1] = df /\ \E s \in scf : base(s[2]) = base(w[2])}
  <2>1. \A a : covers(Rights(scf), a) <=> \E s \in scf : base(s[2]) = base(a)
    BY CoversIs
  <2>2. \A df : (\E a \in AttacksOf(wall, df) : covers(Rights(scf), a)) <=>
                 \E w \in wall : w[1] = df /\ covers(Rights(scf), w[2])
    BY DEF AttacksOf
  <2>3. reached_def(source) =
          {df \in Lefts(wall) : \E a \in AttacksOf(wall, df) : covers(Rights(scf), a)}
    BY DEF reached_def
  <2> HIDE DEF wall, scf
  <2> QED
    BY <2>1, <2>2, <2>3
<1>2. controls_reached(source) =
        {c \in Lefts(scf) : \E s \in scf : s[1] = c /\ \E w \in wall : base(w[2]) = base(s[2])}
  <2>1. \A a : covers(Rights(wall), a) <=> \E w \in wall : base(w[2]) = base(a)
    BY CoversIs
  <2>2. \A c : (\E a \in AttacksOf(scf, c) : covers(Rights(wall), a)) <=>
                 \E s \in scf : s[1] = c /\ covers(Rights(wall), s[2])
    BY DEF AttacksOf
  <2>3. controls_reached(source) =
          {c \in Lefts(scf) : \E a \in AttacksOf(scf, c) : covers(Rights(wall), a)}
    BY DEF controls_reached
  <2> HIDE DEF wall, scf
  <2> QED
    BY <2>1, <2>2, <2>3
<1>3. gaps(source) = {a \in Rights(wall) : ~\E s \in scf : base(s[2]) = base(a)}
  BY CoversIs DEF gaps
<1>4. (\A w \in wall : w[1] \in Lefts(wall)) /\ (\A s \in scf : s[1] \in Lefts(scf))
  BY DEF Lefts
<1>5. \A df \in Lefts(wall) :
        AttacksOf(wall, df) \subseteq gaps(source) <=>
          ~\E w \in wall : w[1] = df /\ \E s \in scf : base(s[2]) = base(w[2])
  BY <1>3 DEF AttacksOf, Rights
<1>6. ASSUME NEW p \in Chains(main(source))
      PROVE  p[1].src \in reached_def(source) /\ p[2].dst \in controls_reached(source)
  <2>1. \E w \in wall : \E s \in scf : p[1].src = w[1] /\ p[2].dst = s[1] /\ w[2] = s[2]
    BY EdgeChainIs
  <2> HIDE DEF wall, scf
  <2> QED
    BY <1>1, <1>2, <1>4, <2>1
<1>7. ASSUME NEW e \in main(source).edges, e.rel = "mitigated_by"
      PROVE  e.src \notin gaps(source)
  <2>1. e \in OfRel(main(source), "mitigated_by")
    BY <1>7 DEF OfRel
  <2>2. PICK s \in scf : e = Link(s[2], s[1], "mitigated_by", "ctid_reroute")
    BY <2>1, MainOfRel
  <2>3. e.src = s[2]
    BY <2>2 DEF Link
  <2> HIDE DEF wall, scf
  <2> QED
    BY <1>3, <2>3
<1> HIDE DEF wall, scf
<1>8. \A df \in Lefts(wall) :
        df \notin reached_def(source) <=> AttacksOf(wall, df) \subseteq gaps(source)
  BY <1>1, <1>5
<1>9. reached_def(source) = {} <=> controls_reached(source) = {}
  <2>1. reached_def(source) # {} <=> \E w \in wall : \E s \in scf : base(s[2]) = base(w[2])
    BY <1>1, <1>4
  <2>2. controls_reached(source) # {} <=>
          \E s \in scf : \E w \in wall : base(w[2]) = base(s[2])
    BY <1>2, <1>4
  <2> QED
    BY <2>1, <2>2
<1> QED
  BY <1>6, <1>7, <1>8, <1>9 DEF ReachMatchesGraph, wall
-----------------------------------------------------------------------------
(* Of pairs that agree on an id, the node gets the type they give.              *)
LEMMA TypedIs ==
  ASSUME NEW pairs
  PROVE  /\ DOMAIN Typed(pairs) = {p[1] : p \in pairs}
         /\ \A p \in pairs : (\A q \in pairs : q[1] = p[1] => q[2] = p[2]) =>
              Typed(pairs)[p[1]] = p[2]
<1>1. DOMAIN Typed(pairs) = {p[1] : p \in pairs}
  BY DEF Typed
<1>2. ASSUME NEW p \in pairs, \A q \in pairs : q[1] = p[1] => q[2] = p[2]
      PROVE  Typed(pairs)[p[1]] = p[2]
  <2> DEFINE q == CHOOSE q \in pairs : q[1] = p[1]
  <2>1. q \in pairs /\ q[1] = p[1]
    OBVIOUS
  <2>2. Typed(pairs)[p[1]] = q[2]
    BY DEF Typed
  <2> HIDE DEF q
  <2> QED
    BY <1>2, <2>1, <2>2
<1> QED
  BY <1>1, <1>2

(* Fields, pages and the class are not named like ontology entries: so an entry   *)
(* with an OCSF page is first named by the loader of the pages, as an event.      *)
LEMMA EventIsFirst ==
  ASSUME NEW source \in Crosswalks, NEW n \in DOMAIN source.ontology,
         source.ontology[n].ocsf # {},
         NEW g1, g1 = hop2_ocsf_d3fend(hop1_fields([nodes |-> <<>>, edges |-> {}], source.bridge),
                                       source.ontology)
  PROVE  n \in DOMAIN g1.nodes /\ g1.nodes[n] = "d3fend_event"
<1> DEFINE ont == source.ontology
           bridge == source.bridge
           g0 == [nodes |-> <<>>, edges |-> {}]
           gf == hop1_fields(g0, bridge)
           fields == DOMAIN bridge
           mapped == {f \in fields : bridge[f] # "null"}
           first == {<<f, "source_field">> : f \in fields} \cup {<<"class", "ocsf">>} \cup
                    {<<bridge[f], "ocsf_field">> : f \in mapped}
           pages == UNION {ont[m].ocsf : m \in DOMAIN ont}
           links == {l \in (DOMAIN ont) \X pages : l[2] \in ont[l[1]].ocsf}
           pairs == {<<l[1], "d3fend_event">> : l \in links} \cup {<<l[2], "ocsf">> : l \in links}
<1>1. n \notin fields /\ n # "class" /\ n \notin pages /\ \A f \in fields : n # bridge[f]
  BY CrosswalksAssumption
<1>2. n \notin DOMAIN gf.nodes
  <2>1. n \notin {p[1] : p \in first}
    BY <1>1
  <2>2. \E edges : gf = add(g0, Typed(first), edges)
    BY DEF hop1_fields
  <2>3. DOMAIN g0.nodes = {}
    OBVIOUS
  <2> HIDE DEF g0, gf, first
  <2>5. PICK edges : gf = add(g0, Typed(first), edges)
    BY <2>2
  <2>6. DOMAIN gf.nodes = (DOMAIN g0.nodes) \cup (DOMAIN Typed(first))
    BY <2>5, AddIs
  <2>7. DOMAIN Typed(first) = {p[1] : p \in first}
    BY TypedIs
  <2>4. DOMAIN gf.nodes = {p[1] : p \in first}
    BY <2>3, <2>6, <2>7
  <2> QED
    BY <2>1, <2>4
<1>3. \E edges : g1 = add(gf, Typed(pairs), edges)
  BY DEF hop2_ocsf_d3fend
<1>4. PICK page : page \in ont[n].ocsf
  OBVIOUS
<1>5. <<n, page>> \in links
  BY <1>4
<1>6. \A l \in links : l[2] # n
  BY <1>1
<1> HIDE DEF links, gf
<1>7. <<n, "d3fend_event">> \in pairs
  BY <1>5
<1>8. \A q \in pairs : q[1] = n => q[2] = "d3fend_event"
  BY <1>6
<1> HIDE DEF pairs
<1>9. n \in DOMAIN Typed(pairs) /\ Typed(pairs)[n] = "d3fend_event"
  <2> DEFINE p == <<n, "d3fend_event">>
  <2>1. p \in pairs /\ p[1] = n /\ p[2] = "d3fend_event"
    BY <1>7
  <2> HIDE DEF p
  <2> QED
    BY <1>8, <2>1, TypedIs
<1> QED
  BY <1>2, <1>3, <1>9, AddIs

(* The chain from a page to the artifacts of its events.                    *)
LEMMA PathHolds ==
  ASSUME NEW source \in Crosswalks
  PROVE  SchemaPathHolds(source)
<1> DEFINE ont == source.ontology
           g1 == hop2_ocsf_d3fend(hop1_fields([nodes |-> <<>>, edges |-> {}], source.bridge), ont)
           g2 == hop2b_event_artifact(g1, ont)
           g3 == hop34_artifacts(g2, source.rows)
           g4 == hop4_inferred_matrix(g3, source.wall)
           gm == hop4prime_curated(g4, ont)
           g5 == hop5_skos(gm, ont)
           g6 == hop5prime_scf(g5, source.scf)
           artifacts == subclass_descendants(ont, "DigitalArtifact")
<1>1. main(source) = g6
  BY DEF main
<1> HIDE DEF g1
<1>2. Keeps(g1, g2)
  BY HopsKeep
<1>9. \E nodes : \E edges :
        /\ g2 = add(g1, nodes, edges)
        /\ \A n \in DOMAIN g1.nodes : \A a \in artifacts :
             g1.nodes[n] = "d3fend_event" /\ a \in ont[n].restricts =>
               Link(n, a, "event", "ontology_axiom") \in edges
  <2> DEFINE events == {n \in DOMAIN g1.nodes : g1.nodes[n] = "d3fend_event"}
             links == {l \in events \X artifacts : l[2] \in ont[l[1]].restricts}
             edges == {Link(l[1], l[2], "event", "ontology_axiom") : l \in links}
  <2>1. \E nodes : g2 = add(g1, nodes, edges)
    BY DEF hop2b_event_artifact
  <2> HIDE DEF artifacts
  <2>2. ASSUME NEW n \in DOMAIN g1.nodes, NEW a \in artifacts,
               g1.nodes[n] = "d3fend_event", a \in ont[n].restricts
        PROVE  Link(n, a, "event", "ontology_axiom") \in edges
    <3> DEFINE l == <<n, a>>
    <3>1. l \in links /\ l[1] = n /\ l[2] = a
      BY <2>2
    <3> HIDE DEF l, links
    <3> QED
      BY <3>1
  <2> HIDE DEF edges, g2
  <2> QED
    BY <2>1, <2>2
<1> HIDE DEF g2
<1>3. Keeps(g2, g3)
  BY HopsKeep
<1> HIDE DEF g3
<1>4. Keeps(g3, g4)
  BY HopsKeep
<1> HIDE DEF g4
<1>5. Keeps(g4, gm)
  BY HopsKeep
<1> HIDE DEF gm
<1>6. Keeps(gm, g5)
  BY HopsKeep
<1> HIDE DEF g5
<1>7. Keeps(g5, g6)
  BY HopsKeep
<1> HIDE DEF g6
<1>8. Keeps(g2, g6) /\ Keeps(g1, g6)
  BY <1>2, <1>3, <1>4, <1>5, <1>6, <1>7, KeepsIsTransitive
<1>10. ASSUME NEW n \in DOMAIN ont, ont[n].ocsf # {}
       PROVE  /\ g6.nodes[n] = "d3fend_event"
              /\ \A a \in ont[n].restricts \cap artifacts :
                   Link(n, a, "event", "ontology_axiom") \in g6.edges
  <2>1. n \in DOMAIN g1.nodes /\ g1.nodes[n] = "d3fend_event"
    BY <1>10, EventIsFirst DEF g1
  <2>2. g6.nodes[n] = "d3fend_event"
    BY <1>8, <2>1 DEF Keeps
  <2>3. ASSUME NEW a \in ont[n].restricts \cap artifacts
        PROVE  Link(n, a, "event", "ontology_axiom") \in g6.edges
    <3> HIDE DEF artifacts, ont
    <3>1. Link(n, a, "event", "ontology_axiom") \in g2.edges
      BY <1>9, <2>1, AddIs
    <3> QED
      BY <1>8, <3>1 DEF Keeps
  <2> QED
    BY <2>2, <2>3
<1> HIDE DEF artifacts
<1> QED
  BY <1>1, <1>10 DEF SchemaPathHolds, artifacts

(* Of any ontology, wall and SCF file that the prefixes of the ids allow: what *)
(* a chain of edges joins is counted as reached on both ends, from a gap no    *)
(* edge leads to a control, a defense is out of reach exactly if it has only   *)
(* gaps, and defenses are reached if and only if controls are; and the way     *)
(* from an OCSF page through its events to their artifacts is there.          *)
THEOREM GraphHolds == GraphInit /\ [][GraphNext]_crosswalk => []Graph
<1> DEFINE IInv == crosswalk = <<>> \/ crosswalk \in Crosswalks
<1>1. GraphInit => IInv
  BY DEF GraphInit
<1>2. IInv /\ [GraphNext]_crosswalk => IInv'
  BY DEF GraphNext
<1>3. IInv => Graph
  BY ReachHolds, PathHolds DEF Graph
<1> QED
  BY <1>1, <1>2, <1>3, PTL

(* Of two paths one below the other both begin with the same segment, and no     *)
(* path is below itself.                                                      *)
LEMMA BelowBegins ==
  ASSUME NEW S, NEW p \in Seq(S), p # <<>>, NEW q \in Seq(S), Beneath(p, q)
  PROVE  p[1] = q[1] /\ p # q
<1>1. Len(p) <= Len(q) /\ SubSeq(p, 1, Len(p)) = SubSeq(q, 1, Len(p)) /\ p # q
  BY DEF Beneath, IsStrictPrefix, IsPrefix
<1>2. Len(p) \in Nat \ {0} /\ Len(q) \in Nat
  BY EmptySeq
<1>3. SubSeq(p, 1, Len(p))[1] = p[1] /\ SubSeq(q, 1, Len(p))[1] = q[1]
  <2>1. 1 \in 1..(Len(p) - 1 + 1)
    BY <1>2
  <2> QED
    BY <1>1, <1>2, <2>1
<1> QED
  BY <1>1, <1>3

(* The event after the first m fields of a key.                                *)
Steps(gold, g, m) ==
  g = [n \in 0..m |->
         IF n = 0 THEN Ids(gold)
         ELSE IF Mapped(gold.fields[n])
         THEN _set_path(g[n - 1], gold.fields[n].ocsf, gold.fields[n].value)
         ELSE g[n - 1]]

(* The recursion of the reference event has its solution.                       *)
LEMMA StepsExist ==
  ASSUME NEW gold, NEW m \in Nat
  PROVE  \E g : Steps(gold, g, m)
<1> DEFINE S == {n \in Nat : \E g : Steps(gold, g, n)}
<1>1. 0 \in S
  <2> DEFINE g == [i \in 0..0 |-> Ids(gold)]
  <2>1. Steps(gold, g, 0)
    BY DEF Steps
  <2> QED
    BY <2>1
<1>2. ASSUME NEW n \in Nat, n \in S
      PROVE  n + 1 \in S
  <2>1. PICK g : Steps(gold, g, n)
    BY <1>2
  <2> DEFINE last == IF Mapped(gold.fields[n + 1])
                     THEN _set_path(g[n], gold.fields[n + 1].ocsf, gold.fields[n + 1].value)
                     ELSE g[n]
             h == [i \in 0..n + 1 |-> IF i = n + 1 THEN last ELSE g[i]]
             body(k, i) == IF i = 0 THEN Ids(gold)
                           ELSE IF Mapped(gold.fields[i])
                           THEN _set_path(k[i - 1], gold.fields[i].ocsf, gold.fields[i].value)
                           ELSE k[i - 1]
  <2>2. g = [i \in 0..n |-> body(g, i)]
    BY <2>1 DEF Steps
  <2>3. ASSUME NEW i \in 0..n + 1 PROVE h[i] = body(h, i)
    <3>1. CASE i = n + 1
      <4>1. h[i] = last /\ i - 1 = n /\ h[i - 1] = g[n] /\ i # 0
        BY <3>1
      <4> QED
        BY <3>1, <4>1
    <3>2. CASE i # n + 1 /\ i = 0
      BY <2>2, <3>2
    <3>3. CASE i # n + 1 /\ i # 0
      <4>1. i \in 0..n /\ i - 1 \in 0..n + 1 /\ i - 1 # n + 1
        BY <3>3
      <4>2. h[i] = g[i] /\ h[i - 1] = g[i - 1]
        BY <3>3, <4>1
      <4>3. g[i] = body(g, i)
        <5> HIDE DEF body
        <5> QED
          BY <2>2, <4>1
      <4> QED
        BY <4>2, <4>3
    <3> QED
      BY <3>1, <3>2, <3>3
  <2>4. h = [i \in 0..n + 1 |-> body(h, i)]
    <3> HIDE DEF body
    <3> QED
      BY <2>3
  <2>5. Steps(gold, h, n + 1)
    <3> HIDE DEF h
    <3> QED
      BY <2>4 DEF Steps
  <2> QED
    BY <2>5
<1>3. Nat \subseteq S
  <2> HIDE DEF S
  <2> QED
    BY <1>1, <1>2, Induction
<1> QED
  BY <1>3

\* The event e holds the leaves of the first n fields, with their values.
HoldsUpTo(gold, e, n) ==
  /\ e = [p \in DOMAIN e |-> e[p]] /\ DOMAIN e \subseteq Leaves(gold) \ {severity_id}
  /\ \A p \in DOMAIN Ids(gold) : p \in DOMAIN e /\ e[p] = Ids(gold)[p]
  /\ \A f \in placed(gold) : f.ocsf \in DOMAIN e => e[f.ocsf] = f.value
  /\ \A i \in 1..n : Mapped(gold.fields[i]) => gold.fields[i].ocsf \in DOMAIN e
  /\ \A p \in DOMAIN e : p \in DOMAIN Ids(gold) \/ \E f \in placed(gold) : p = f.ocsf

\* The event set is e with the leaf p, which has the value v.
LeafIs(set, e, p, v) ==
  /\ set = [q \in DOMAIN set |-> set[q]] /\ DOMAIN set = DOMAIN e \cup {p}
  /\ \A q \in DOMAIN set : set[q] = IF q = p THEN v ELSE e[q]

(* What one leaf set does to an event that holds others.                         *)
LEMMA LeafSet ==
  ASSUME NEW gold, HomesHold(gold), NEW e, DOMAIN e \subseteq Leaves(gold), NEW p \in Leaves(gold),
         NEW v
  PROVE  LeafIs(_set_path(e, p, v), e, p, v)
<1>1. \A q \in DOMAIN e : ~Beneath(q, p) /\ ~Beneath(p, q)
  BY DEF HomesHold
<1>2. {q \in DOMAIN e : ~Beneath(p, q)} = DOMAIN e
  BY <1>1
<1>3. _set_path(e, p, v) = [q \in DOMAIN e \cup {p} |-> IF q = p THEN v ELSE e[q]]
  BY <1>1, <1>2 DEF _set_path
<1> QED
  BY <1>3 DEF LeafIs

(* The leaves of the class, the activity and the type, which are not the severity. *)
LEMMA IdsAre ==
  ASSUME NEW gold
  PROVE  /\ Ids(gold) = [p \in DOMAIN Ids(gold) |-> Ids(gold)[p]]
         /\ DOMAIN Ids(gold) = {<<"class_uid">>, <<"activity_id">>, <<"type_uid">>}
         /\ Ids(gold)[<<"class_uid">>] = Number(gold.class_uid)
         /\ Ids(gold)[<<"activity_id">>] = Number(gold.activity_id)
         /\ Ids(gold)[<<"type_uid">>] = Number(gold.type_uid)
         /\ severity_id \notin DOMAIN Ids(gold)
<1>1. /\ <<"class_uid">> # <<"activity_id">> /\ <<"class_uid">> # <<"type_uid">>
      /\ <<"activity_id">> # <<"type_uid">>
      /\ severity_id \notin {<<"class_uid">>, <<"activity_id">>, <<"type_uid">>}
  <2>1. <<"class_uid">>[1] # <<"activity_id">>[1] /\ <<"class_uid">>[1] # <<"type_uid">>[1]
        /\ <<"activity_id">>[1] # <<"type_uid">>[1]
    OBVIOUS
  <2>2. severity_id[1] # <<"class_uid">>[1] /\ severity_id[1] # <<"activity_id">>[1]
        /\ severity_id[1] # <<"type_uid">>[1]
    BY DEF severity_id
  <2> QED
    BY <2>1, <2>2
<1> QED
  BY <1>1 DEF Ids

(* The event holds the leaves of the fields it has been given.                    *)
LEMMA StepsHold ==
  ASSUME NEW gold, HomesHold(gold), NEW g, Steps(gold, g, Len(gold.fields))
  PROVE  HoldsUpTo(gold, g[Len(gold.fields)], Len(gold.fields))
<1> DEFINE N == Len(gold.fields)
           S == {n \in Nat : n <= N => HoldsUpTo(gold, g[n], n)}
<1>1. N \in Nat /\ DOMAIN gold.fields = 1..N
  BY DEF HomesHold
<1>2. /\ g[0] = Ids(gold)
      /\ \A n \in 1..N : g[n] = IF Mapped(gold.fields[n])
                                THEN _set_path(g[n - 1], gold.fields[n].ocsf, gold.fields[n].value)
                                ELSE g[n - 1]
  <2>1. \A n \in 0..N : g[n] = IF n = 0 THEN Ids(gold)
                              ELSE IF Mapped(gold.fields[n])
                              THEN _set_path(g[n - 1], gold.fields[n].ocsf, gold.fields[n].value)
                              ELSE g[n - 1]
    BY Zenon DEF Steps
  <2>2. 0 \in 0..N /\ \A n \in 1..N : n \in 0..N /\ n # 0
    BY <1>1
  <2> HIDE DEF N
  <2>3. g[0] = Ids(gold)
    BY <2>1, <2>2, Zenon
  <2> QED
    BY <2>1, <2>2, <2>3, Zenon
<1> HIDE DEF N
<1>3. 0 \in S
  <2>1. 1..0 = {}
    OBVIOUS
  <2>2. DOMAIN Ids(gold) \subseteq Leaves(gold) \ {severity_id}
    BY IdsAre DEF Leaves
  <2>3. \A f \in placed(gold) : f.ocsf \in DOMAIN Ids(gold) => Ids(gold)[f.ocsf] = f.value
    BY DEF HomesHold
  <2>4. HoldsUpTo(gold, Ids(gold), 0)
    BY <2>1, <2>2, <2>3, IdsAre DEF HoldsUpTo
  <2> QED
    BY <1>2, <2>4
<1>4. ASSUME NEW n \in Nat, n \in S
      PROVE  n + 1 \in S
  <2> SUFFICES ASSUME n + 1 <= N PROVE HoldsUpTo(gold, g[n + 1], n + 1)
    OBVIOUS
  <2>1. n + 1 \in 1..N /\ (n + 1) - 1 = n /\ HoldsUpTo(gold, g[n], n)
    BY <1>1, <1>4
  <2>2. \A i \in 1..n + 1 : i = n + 1 \/ i \in 1..n
    OBVIOUS
  <2>3. CASE ~Mapped(gold.fields[n + 1])
    <3>1. g[n + 1] = g[n]
      BY <1>2, <2>1, <2>3
    <3> QED
      BY <2>1, <2>2, <2>3, <3>1 DEF HoldsUpTo
  <2>4. CASE Mapped(gold.fields[n + 1])
    <3> DEFINE f == gold.fields[n + 1]
               old == g[n]
               new == g[n + 1]
    <3>1. f \in placed(gold)
      BY <1>1, <2>1, <2>4 DEF placed, ToSet
    <3>2. f.ocsf \in Leaves(gold) \ {severity_id}
      BY <3>1 DEF Leaves, HomesHold
    <3>3. DOMAIN old \subseteq Leaves(gold)
      BY <2>1 DEF HoldsUpTo
    <3>4. new = _set_path(old, f.ocsf, f.value)
      BY <1>2, <2>1, <2>4
    <3>5. /\ old = [p \in DOMAIN old |-> old[p]] /\ DOMAIN old \subseteq Leaves(gold) \ {severity_id}
          /\ \A p \in DOMAIN Ids(gold) : p \in DOMAIN old /\ old[p] = Ids(gold)[p]
          /\ \A h \in placed(gold) : h.ocsf \in DOMAIN old => old[h.ocsf] = h.value
          /\ \A i \in 1..n : Mapped(gold.fields[i]) => gold.fields[i].ocsf \in DOMAIN old
          /\ \A p \in DOMAIN old : p \in DOMAIN Ids(gold) \/ \E h \in placed(gold) : p = h.ocsf
      BY <2>1 DEF HoldsUpTo
    <3>6. /\ \A h \in placed(gold) : f.ocsf = h.ocsf => f.value = h.value
          /\ f.ocsf \in DOMAIN Ids(gold) => f.value = Ids(gold)[f.ocsf]
      BY <3>1 DEF HomesHold
    <3> HIDE DEF old, new, f
    <3>7. DOMAIN new = DOMAIN old \cup {f.ocsf} /\ new = [p \in DOMAIN new |-> new[p]]
          /\ \A q \in DOMAIN new : new[q] = IF q = f.ocsf THEN f.value ELSE old[q]
      <4> DEFINE leaf == f.ocsf
                 val == f.value
      <4>1. leaf \in Leaves(gold) /\ new = _set_path(old, leaf, val)
        BY <3>2, <3>4
      <4> HIDE DEF leaf, val
      <4>2. /\ new = [q \in DOMAIN new |-> new[q]] /\ DOMAIN new = DOMAIN old \cup {leaf}
            /\ \A q \in DOMAIN new : new[q] = IF q = leaf THEN val ELSE old[q]
        <5>1. LeafIs(_set_path(old, leaf, val), old, leaf, val)
          BY <3>3, <4>1, LeafSet
        <5> QED
          BY <4>1, <5>1 DEF LeafIs
      <4> QED
        BY <4>2 DEF leaf, val
    <3>8. \A i \in 1..n + 1 : Mapped(gold.fields[i]) => gold.fields[i].ocsf \in DOMAIN new
      BY <2>2, <3>5, <3>7 DEF f
    <3>9. \A p \in DOMAIN Ids(gold) : p \in DOMAIN new /\ new[p] = Ids(gold)[p]
      BY <3>5, <3>6, <3>7
    <3>10. \A h \in placed(gold) : h.ocsf \in DOMAIN new => new[h.ocsf] = h.value
      BY <3>5, <3>6, <3>7
    <3>11. \A p \in DOMAIN new : p \in DOMAIN Ids(gold) \/ \E h \in placed(gold) : p = h.ocsf
      BY <3>1, <3>5, <3>7
    <3>12. DOMAIN new \subseteq Leaves(gold) \ {severity_id}
      BY <3>2, <3>5, <3>7
    <3>13. HoldsUpTo(gold, new, n + 1)
      BY <3>7, <3>8, <3>9, <3>10, <3>11, <3>12 DEF HoldsUpTo
    <3> QED
      BY <3>13 DEF new
  <2> QED
    BY <2>3, <2>4
<1>5. Nat \subseteq S
  <2> HIDE DEF S
  <2> QED
    BY <1>3, <1>4, Induction
<1> QED
  BY <1>1, <1>5 DEF N

\* The event e has the leaves of the key, with their values, and no other.
Faithful(gold, e) ==
  /\ e = [p \in DOMAIN e |-> e[p]] /\ DOMAIN e = Leaves(gold)
  /\ \A p \in DOMAIN Ids(gold) : e[p] = Ids(gold)[p]
  /\ \A f \in placed(gold) : e[f.ocsf] = f.value
  /\ "severity_remap" \in DOMAIN gold.semantic =>
       e[severity_id] = gold.semantic["severity_remap"].expected_severity_id

(* The reference event of a key that holds together is faithful to it.             *)
LEMMA ReferenceFaithful ==
  ASSUME NEW gold, HomesHold(gold)
  PROVE  Faithful(gold, _build_reference_emitted(gold))
<1> DEFINE N == Len(gold.fields)
           body(k, i) == IF i = 0 THEN Ids(gold)
                         ELSE IF Mapped(gold.fields[i])
                         THEN _set_path(k[i - 1], gold.fields[i].ocsf, gold.fields[i].value)
                         ELSE k[i - 1]
           g == CHOOSE k : k = [i \in 0..N |-> body(k, i)]
           e == g[N]
<1>1. N \in Nat /\ DOMAIN gold.fields = 1..N
  BY DEF HomesHold
<1>2. g = [i \in 0..N |-> body(g, i)]
  <2>1. \E k : k = [i \in 0..N |-> body(k, i)]
    BY <1>1, StepsExist DEF Steps
  <2> HIDE DEF body
  <2> QED
    BY <2>1
<1>3. _build_reference_emitted(gold) = WithSeverity(e, gold)
  BY DEF _build_reference_emitted
<1> HIDE DEF g
<1>4. HoldsUpTo(gold, e, N)
  <2>1. Steps(gold, g, N)
    BY <1>2 DEF Steps
  <2> QED
    BY <2>1, StepsHold
<1>5. \A f \in placed(gold) : f.ocsf \in DOMAIN e
  <2> TAKE f \in placed(gold)
  <2>1. PICK i \in 1..N : f = gold.fields[i] /\ Mapped(f)
    BY <1>1 DEF placed, ToSet
  <2> QED
    BY <1>4, <2>1 DEF HoldsUpTo
<1> HIDE DEF e, N
<1>6. DOMAIN e = Leaves(gold) \ {severity_id}
  <2>1. Leaves(gold) \ {severity_id} \subseteq DOMAIN e
    BY <1>4, <1>5 DEF HoldsUpTo, Leaves
  <2> QED
    BY <1>4, <2>1 DEF HoldsUpTo
<1>7. /\ e = [p \in DOMAIN e |-> e[p]]
      /\ \A p \in DOMAIN Ids(gold) : e[p] = Ids(gold)[p]
      /\ \A f \in placed(gold) : e[f.ocsf] = f.value
  BY <1>4, <1>5 DEF HoldsUpTo
<1>8. CASE "severity_remap" \notin DOMAIN gold.semantic
  <2>1. severity_id \notin Leaves(gold)
    BY <1>8, IdsAre DEF Leaves, HomesHold
  <2>2. Faithful(gold, e)
    BY <1>6, <1>7, <1>8, <2>1 DEF Faithful
  <2> QED
    BY <1>3, <1>8, <2>2 DEF WithSeverity
<1>9. CASE "severity_remap" \in DOMAIN gold.semantic
  <2> DEFINE v == gold.semantic["severity_remap"].expected_severity_id
             full == _set_path(e, severity_id, v)
  <2>1. severity_id \in Leaves(gold)
    BY <1>9 DEF Leaves
  <2>2. _build_reference_emitted(gold) = full
    BY <1>3, <1>9 DEF WithSeverity
  <2>3. /\ full = [q \in DOMAIN full |-> full[q]] /\ DOMAIN full = DOMAIN e \cup {severity_id}
        /\ \A q \in DOMAIN full : full[q] = IF q = severity_id THEN v ELSE e[q]
    <3> HIDE DEF v
    <3> QED
      BY <1>6, <2>1, LeafSet DEF LeafIs
  <2> HIDE DEF full
  <2>4. DOMAIN full = Leaves(gold) /\ full = [q \in DOMAIN full |-> full[q]] /\ full[severity_id] = v
        /\ \A q \in DOMAIN e : full[q] = IF q = severity_id THEN v ELSE e[q]
    BY <1>6, <2>1, <2>3
  <2>5. \A p \in DOMAIN Ids(gold) : full[p] = Ids(gold)[p]
    BY <1>4, <1>7, <2>4, IdsAre DEF HoldsUpTo
  <2>6. \A f \in placed(gold) : full[f.ocsf] = f.value
    BY <1>5, <1>7, <2>4 DEF HomesHold
  <2>7. Faithful(gold, full)
    BY <1>9, <2>4, <2>5, <2>6 DEF Faithful
  <2> QED
    BY <2>2, <2>7
<1> QED
  BY <1>8, <1>9

(* Values of different kinds differ.                                             *)
LEMMA KindsDiffer ==
  /\ \A n : Number(n) # Null /\ Number(n) # Raw("another")
  /\ \A x : Raw(x) # Null
  /\ <<"object">> # Null
<1>1. ASSUME NEW n PROVE Number(n) # Null /\ Number(n) # Raw("another")
  <2>1. Number(n)[1] = "number" /\ Null[1] = "null" /\ Raw("another")[1] = "raw"
    BY DEF Number, Null, Raw
  <2> QED
    BY <2>1
<1>2. ASSUME NEW x PROVE Raw(x) # Null
  <2>1. Raw(x)[1] = "raw" /\ Null[1] = "null"
    BY DEF Null, Raw
  <2> QED
    BY <2>1
<1>3. <<"object">> # Null
  <2>1. <<"object">>[1] = "object" /\ Null[1] = "null"
    BY DEF Null
  <2> QED
    BY <2>1
<1> QED
  BY <1>1, <1>2, <1>3

(* The fields to land are those with a home.                                     *)
LEMMA HomedMapped ==
  ASSUME NEW gold, HomesHold(gold)
  PROVE  /\ homed(gold) = placed(gold) /\ homed(gold) # {}
         /\ IsFiniteSet(homed(gold)) /\ Cardinality(homed(gold)) \in Nat \ {0}
<1>1. homed(gold) = placed(gold)
  BY DEF homed, placed, Mapped, HomesHold
<1>2. homed(gold) # {}
  BY <1>1 DEF HomesHold
<1>3. IsFiniteSet(homed(gold))
  <2> DEFINE S == 1..Len(gold.fields)
             g == [i \in S |-> gold.fields[i]]
             T == {g[i] : i \in S}
  <2>1. IsFiniteSet(S)
    BY FS_Interval DEF HomesHold
  <2>2. IsFiniteSet(T)
    <3>1. g \in Surjection(S, T)
      BY DEF Surjection
    <3> QED
      BY <2>1, <3>1, FS_Surjection
  <2>3. homed(gold) \subseteq T
    BY DEF homed, ToSet, HomesHold
  <2> QED
    BY <2>2, <2>3, FS_Subset
<1>4. Cardinality(homed(gold)) \in Nat /\ Cardinality(homed(gold)) # 0
  BY <1>2, <1>3, FS_CardinalityType, FS_EmptySet
<1> QED
  BY <1>1, <1>2, <1>3, <1>4

(* No leaf of a key is under a catch-all, none is missing, and none is what an     *)
(* alteration puts in its place.                                               *)
LEMMA LeavesAre ==
  ASSUME NEW gold, HomesHold(gold), ProbesHold(gold), NEW e, Faithful(gold, e),
         NEW p \in DOMAIN e
  PROVE  ~_is_catch_all(p) /\ e[p] # Null /\ e[p] # Raw("another") /\ get_path(e, p) = e[p]
<1>1. CASE p \in DOMAIN Ids(gold)
  <2>1. p[1] \in {"class_uid", "activity_id", "type_uid"}
    BY <1>1, IdsAre
  <2>2. e[p] = Ids(gold)[p]
    BY <1>1 DEF Faithful
  <2>3. \/ e[p] = Number(gold.class_uid) \/ e[p] = Number(gold.activity_id)
        \/ e[p] = Number(gold.type_uid)
    BY <1>1, <2>2, IdsAre
  <2> QED
    BY <2>1, <2>3, KindsDiffer DEF _is_catch_all, get_path
<1>2. CASE \E f \in placed(gold) : p = f.ocsf
  BY <1>2 DEF Faithful, HomesHold, placed, Mapped, get_path
<1>3. CASE "severity_remap" \in DOMAIN gold.semantic /\ p = severity_id
  <2>1. ~_is_catch_all(p)
    BY <1>3 DEF _is_catch_all, severity_id
  <2> QED
    BY <1>3, <2>1 DEF Faithful, ProbesHold, get_path
<1>4. p \in Leaves(gold)
  BY DEF Faithful
<1> QED
  BY <1>1, <1>2, <1>3, <1>4 DEF Leaves

(* A faithful event lands every field with its value.                             *)
LEMMA FaithfulLands ==
  ASSUME NEW gold, HomesHold(gold), ProbesHold(gold), NEW e, Faithful(gold, e)
  PROVE  landed(gold, e) = homed(gold) /\ value_ok(gold, e) = homed(gold)
<1>1. ASSUME NEW f \in homed(gold)
      PROVE  get_path(e, f.ocsf) = f.value /\ f.value # Null /\ ~_is_catch_all(f.ocsf)
  <2>1. f \in placed(gold) /\ f.ocsf \in DOMAIN e /\ e[f.ocsf] = f.value
    BY HomedMapped DEF Faithful, Leaves
  <2> QED
    BY <2>1, LeavesAre
<1> QED
  BY <1>1 DEF landed, value_ok

(* A faithful event has the class, the activity and the type of its key.           *)
LEMMA FaithfulIds ==
  ASSUME NEW gold, HomesHold(gold), ProbesHold(gold), NEW e, Faithful(gold, e)
  PROVE  class_uid_ok(gold, e) /\ activity_id_ok(gold, e) /\ type_uid_ok(gold, e) /\ e # NoEvent
<1>1. \A p \in DOMAIN Ids(gold) : p \in DOMAIN e /\ e[p] = Ids(gold)[p]
  BY DEF Faithful, Leaves
<1>2. DOMAIN NoEvent = {}
  BY DEF NoEvent
<1> QED
  BY <1>1, <1>2, IdsAre DEF class_uid_ok, activity_id_ok, type_uid_ok, get_path

(* A faithful event reproduces no failure class.                                  *)
LEMMA FaithfulSound ==
  ASSUME NEW gold, HomesHold(gold), ProbesHold(gold), NEW e, Faithful(gold, e)
  PROVE  reproduced(gold, e) = {}
<1> SUFFICES ASSUME NEW name \in DOMAIN gold.semantic PROVE name \notin reproduced(gold, e)
  BY DEF reproduced
<1> DEFINE query == gold.semantic[name]
<1>1. ASSUME NEW p \in query.expect_paths PROVE get_path(e, p) # Null /\ ~_is_catch_all(p)
  <2>1. ~_is_catch_all(p) /\ \E q \in DOMAIN e : q = p \/ Beneath(p, q)
    BY DEF ProbesHold, Faithful
  <2> QED
    BY <2>1, LeavesAre, KindsDiffer DEF get_path
<1>2. ASSUME query.expected_severity_id # Null
      PROVE  get_path(e, severity_id) = query.expected_severity_id
  <2>1. name = "severity_remap"
    BY <1>2 DEF ProbesHold
  <2>2. severity_id \in DOMAIN e
    BY <2>1 DEF Faithful, Leaves
  <2> QED
    BY <2>1, <2>2 DEF Faithful, get_path
<1>3. ASSUME NEW x \in query.expect PROVE get_path(e, x[1]) = x[2]
  <2>1. PICK f \in placed(gold) : f.ocsf = x[1] /\ f.value = x[2]
    BY DEF ProbesHold
  <2>2. f.ocsf \in DOMAIN e /\ e[f.ocsf] = f.value
    BY DEF Faithful, Leaves
  <2> QED
    BY <2>1, <2>2 DEF get_path
<1> QED
  BY <1>1, <1>2, <1>3, FaithfulIds DEF reproduced

(* The quotient, between two bounds.                                             *)
LEMMA QuotientBounds ==
  ASSUME NEW a \in Nat, NEW b \in Nat \ {0}
  PROVE  /\ a \div b \in Nat
         /\ a < b => a \div b = 0
         /\ a >= b => a \div b >= 1
         /\ a < 10000 * b => a \div b < 10000
         /\ (a >= 10000 * b /\ a < 10001 * b) => a \div b = 10000
<1>1. a \div b \in Nat /\ a = b * (a \div b) + (a % b) /\ a % b \in 0..(b - 1)
  OBVIOUS
<1> DEFINE q == a \div b
           r == a % b
<1> HIDE DEF q, r
<1>2. q \in Nat /\ r \in Nat /\ r < b /\ a = b * q + r
  BY <1>1 DEF q, r
<1>3. a < b => q = 0
  <2> SUFFICES ASSUME q >= 1 PROVE a >= b
    BY <1>2
  <2>1. b * q >= b
    BY <1>2
  <2> QED
    BY <1>2, <2>1
<1>4. a >= b => q >= 1
  <2> SUFFICES ASSUME q = 0 PROVE a < b
    BY <1>2
  <2> QED
    BY <1>2
<1>5. a < 10000 * b => q < 10000
  <2> SUFFICES ASSUME q >= 10000 PROVE a >= 10000 * b
    BY <1>2
  <2>1. b * q >= b * 10000
    BY <1>2
  <2> QED
    BY <1>2, <2>1
<1>6. (a >= 10000 * b /\ a < 10001 * b) => q = 10000
  <2> SUFFICES ASSUME a >= 10000 * b, a < 10001 * b PROVE q = 10000
    OBVIOUS
  <2>1. ~(q >= 10001)
    <3> SUFFICES ASSUME q >= 10001 PROVE FALSE
      OBVIOUS
    <3>1. b * q >= b * 10001
      BY <1>2
    <3> QED
      BY <1>2, <3>1
  <2>2. ~(q <= 9999)
    <3> SUFFICES ASSUME q <= 9999 PROVE FALSE
      OBVIOUS
    <3>1. b * q <= b * 9999
      BY <1>2
    <3> QED
      BY <1>2, <3>1
  <2> QED
    BY <1>2, <2>1, <2>2
<1> QED
  BY <1>2, <1>3, <1>4, <1>5, <1>6 DEF q

(* To four digits, the whole is 1 and nothing is 0; of fewer than 20000 what     *)
(* falls short of the whole is below 1, and what is not nothing is not 0.         *)
LEMMA RoundedIs ==
  ASSUME NEW part \in Nat, NEW whole \in Nat, part <= whole
  PROVE  /\ whole > 0 => Rounded(whole, whole) = 10000
         /\ Rounded(0, whole) = 0
         /\ part < whole /\ whole < 20000 => Rounded(part, whole) < 10000
         /\ part > 0 /\ whole < 20000 => Rounded(part, whole) # 0
         /\ Rounded(part, whole) \in Int
<1>1. CASE whole = 0
  BY <1>1 DEF Rounded
<1>2. CASE whole # 0
  <2> DEFINE b == 2 * whole
             a == 20000 * (whole - part) + whole
  <2>1. b \in Nat \ {0} /\ a \in Nat /\ whole \in Nat \ {0}
    BY <1>2
  <2>2. Rounded(part, whole) = 10000 - (a \div b)
    BY <1>2 DEF Rounded
  <2>3. Rounded(whole, whole) = 10000
    <3>1. Rounded(whole, whole) = 10000 - (whole \div b)
      <4>1. 20000 * (whole - whole) + whole = whole
        OBVIOUS
      <4> QED
        BY <1>2, <4>1 DEF Rounded
    <3>2. whole < b
      BY <2>1
    <3> HIDE DEF b
    <3> QED
      BY <2>1, <3>1, <3>2, QuotientBounds
  <2>4. Rounded(0, whole) = 0
    <3> DEFINE c == 20000 * (whole - 0) + whole
    <3>1. Rounded(0, whole) = 10000 - (c \div b)
      BY <1>2 DEF Rounded
    <3>2. c \in Nat /\ c >= 10000 * b /\ c < 10001 * b
      BY <2>1
    <3> HIDE DEF b, c
    <3>3. c \div b = 10000
      BY <2>1, <3>2, QuotientBounds
    <3> QED
      BY <3>1, <3>3
  <2>5. part < whole /\ whole < 20000 => a >= b
    BY <2>1
  <2>6. part > 0 /\ whole < 20000 => a < 10000 * b
    BY <2>1
  <2> HIDE DEF a, b
  <2>7. a \div b \in Nat /\ (a >= b => a \div b >= 1) /\ (a < 10000 * b => a \div b < 10000)
    BY <2>1, QuotientBounds
  <2> QED
    BY <2>2, <2>3, <2>4, <2>5, <2>6, <2>7
<1> QED
  BY <1>1, <1>2

\* A gold file that can be scored.
Scorable(golds) ==
  /\ DOMAIN golds = 1..Len(golds) /\ Len(golds) \in Nat \ {0}
  /\ \A i \in DOMAIN golds :
       /\ golds[i].records \in Nat \ {0}
       /\ HomesHold(golds[i].gold) /\ ProbesHold(golds[i].gold)

(* Multiplying keeps the order.                                                 *)
LEMMA TimesMono ==
  ASSUME NEW a \in Nat, NEW b \in Nat, NEW c \in Nat
  PROVE  /\ a * b \in Nat
         /\ b <= c => a * b <= a * c
         /\ a > 0 /\ b < c => a * b < a * c
OBVIOUS

(* Totals grow with what a record counts.                                        *)
LEMMA TotalMono ==
  ASSUME NEW golds, Scorable(golds), NEW each \in [DOMAIN golds -> Nat],
         NEW more \in [DOMAIN golds -> Nat], \A i \in DOMAIN golds : each[i] <= more[i]
  PROVE  /\ Total(golds, each) \in Nat /\ Total(golds, more) \in Nat
         /\ Total(golds, each) <= Total(golds, more)
         /\ (\E i \in DOMAIN golds : each[i] < more[i]) => Total(golds, each) < Total(golds, more)
<1> DEFINE S == DOMAIN golds
           f == [i \in S |-> golds[i].records * each[i]]
           g == [i \in S |-> golds[i].records * more[i]]
<1>1. IsFiniteSet(S)
  BY FS_Interval DEF Scorable
<1>2. \A i \in S : golds[i].records \in Nat \ {0} /\ golds[i].records > 0
  BY DEF Scorable
<1>3. \A i \in S : /\ golds[i].records * each[i] \in Nat /\ golds[i].records * more[i] \in Nat
                   /\ golds[i].records * each[i] <= golds[i].records * more[i]
                   /\ each[i] < more[i] =>
                        golds[i].records * each[i] < golds[i].records * more[i]
  BY <1>2, TimesMono
<1>4. f \in [S -> Nat] /\ g \in [S -> Nat] /\ \A i \in S : f[i] <= g[i]
  BY <1>3
<1>5. \A i \in S : each[i] < more[i] => f[i] < g[i]
  BY <1>3
<1>6. Total(golds, each) = SumFunction(f) /\ Total(golds, more) = SumFunction(g)
  BY DEF Total
<1> HIDE DEF f, g, S
<1>7. SumFunction(f) \in Nat /\ SumFunction(g) \in Nat /\ SumFunction(f) <= SumFunction(g)
  BY <1>1, <1>4, SumType, SumMono
<1>8. ASSUME NEW i \in S, each[i] < more[i] PROVE SumFunction(f) < SumFunction(g)
  BY <1>1, <1>4, <1>5, <1>8, SumStrict
<1> QED
  BY <1>6, <1>7, <1>8 DEF S

(* There are more records in more entries, none in no entry, and no more of them   *)
(* than fields to land.                                                       *)
LEMMA RecordsMono ==
  ASSUME NEW golds, Scorable(golds), NEW E \in SUBSET DOMAIN golds, NEW F \in SUBSET DOMAIN golds,
         E \subseteq F
  PROVE  /\ RecordsOf(golds, E) \in Nat /\ RecordsOf(golds, F) \in Nat
         /\ RecordsOf(golds, E) <= RecordsOf(golds, F)
         /\ E # F => RecordsOf(golds, E) < RecordsOf(golds, F)
<1> DEFINE f == [i \in DOMAIN golds |-> IF i \in E THEN 1 ELSE 0]
           g == [i \in DOMAIN golds |-> IF i \in F THEN 1 ELSE 0]
<1>1. /\ f \in [DOMAIN golds -> Nat] /\ g \in [DOMAIN golds -> Nat]
      /\ \A i \in DOMAIN golds : f[i] <= g[i]
      /\ \A i \in DOMAIN golds : i \in F \ E => f[i] < g[i]
  OBVIOUS
<1>2. E # F => \E i \in DOMAIN golds : i \in F \ E
  OBVIOUS
<1>3. RecordsOf(golds, E) = Total(golds, f) /\ RecordsOf(golds, F) = Total(golds, g)
  BY DEF RecordsOf
<1> HIDE DEF f, g
<1>4. E # F => \E i \in DOMAIN golds : f[i] < g[i]
  BY <1>1, <1>2
<1>5. /\ Total(golds, f) \in Nat /\ Total(golds, g) \in Nat /\ Total(golds, f) <= Total(golds, g)
      /\ (\E i \in DOMAIN golds : f[i] < g[i]) => Total(golds, f) < Total(golds, g)
  BY <1>1, TotalMono
<1> QED
  BY <1>3, <1>4, <1>5

LEMMA NoRecords ==
  ASSUME NEW golds, Scorable(golds)
  PROVE  RecordsOf(golds, {}) = 0
<1> DEFINE S == DOMAIN golds
           f == [i \in S |-> IF i \in {} THEN 1 ELSE 0]
           g == [i \in S |-> golds[i].records * f[i]]
<1>1. IsFiniteSet(S) /\ Cardinality(S) \in Nat
  BY FS_Interval, FS_CardinalityType DEF Scorable
<1>2. \A i \in S : golds[i].records * f[i] = 0
  <2> TAKE i \in S
  <2>1. golds[i].records \in Nat
    BY DEF Scorable
  <2> QED
    BY <2>1
<1>3. g = [i \in S |-> 0]
  <2> HIDE DEF f
  <2> QED
    BY <1>2
<1>4. RecordsOf(golds, {}) = SumFunction(g)
  BY DEF RecordsOf, Total
<1> HIDE DEF S, g
<1>5. SumFunction([i \in S |-> 0]) = Cardinality(S) * 0
  BY <1>1, SumConstant
<1> QED
  BY <1>1, <1>3, <1>4, <1>5

(* The fields to land, of which each record has one.                              *)
LEMMA HomedTotal ==
  ASSUME NEW golds, Scorable(golds)
  PROVE  /\ Homed(golds) \in Nat \ {0}
         /\ RecordsOf(golds, DOMAIN golds) <= Homed(golds)
<1> DEFINE S == DOMAIN golds
           f == [i \in S |-> IF i \in S THEN 1 ELSE 0]
           g == [i \in S |-> Cardinality(homed(golds[i].gold))]
<1>1. \A i \in S : Cardinality(homed(golds[i].gold)) \in Nat \ {0}
  BY HomedMapped DEF Scorable
<1>2. f \in [S -> Nat] /\ g \in [S -> Nat] /\ \A i \in S : f[i] <= g[i]
  BY <1>1
<1>3. RecordsOf(golds, S) = Total(golds, f) /\ Homed(golds) = Total(golds, g)
  BY DEF RecordsOf, Homed
<1> HIDE DEF f, g
<1>4. Total(golds, f) \in Nat /\ Total(golds, g) \in Nat /\ Total(golds, f) <= Total(golds, g)
  BY <1>2, TotalMono
<1>5. RecordsOf(golds, {}) < RecordsOf(golds, S)
  <2>1. S # {} /\ {} \in SUBSET S /\ S \in SUBSET S
    BY DEF Scorable
  <2> QED
    BY <2>1, RecordsMono
<1> QED
  BY <1>3, <1>4, <1>5, NoRecords

(* A share among fewer than 20000 fields: of all, of none, and of some.            *)
LEMMA ShareIs ==
  ASSUME NEW golds, Scorable(golds), NEW F \in SUBSET DOMAIN golds, NEW E \in SUBSET F
  PROVE  /\ F # {} => Share(golds, F, F) = 10000
         /\ Share(golds, {}, F) = 0
         /\ E # F /\ Homed(golds) < 20000 => Share(golds, E, F) < 10000
         /\ E # {} /\ Homed(golds) < 20000 => Share(golds, E, F) # 0
         /\ Share(golds, E, F) \in Int
<1> DEFINE e == RecordsOf(golds, E)
           w == RecordsOf(golds, F)
<1>1. e \in Nat /\ w \in Nat /\ e <= w /\ (E # F => e < w)
  BY RecordsMono
<1>2. E # {} => 0 < e
  <2>1. {} \in SUBSET DOMAIN golds /\ {} \subseteq E /\ E \in SUBSET DOMAIN golds
    OBVIOUS
  <2>2. E # {} => RecordsOf(golds, {}) < RecordsOf(golds, E)
    BY <2>1, RecordsMono
  <2> QED
    BY <2>2, NoRecords
<1>3. F # {} => 0 < w
  <2>1. {} \in SUBSET DOMAIN golds /\ {} \subseteq F
    OBVIOUS
  <2>2. F # {} => RecordsOf(golds, {}) < RecordsOf(golds, F)
    BY <2>1, RecordsMono
  <2> QED
    BY <2>2, NoRecords
<1>4. w <= Homed(golds) /\ Homed(golds) \in Nat
  <2>1. w <= RecordsOf(golds, DOMAIN golds) /\ RecordsOf(golds, DOMAIN golds) \in Nat
    <3>1. DOMAIN golds \in SUBSET DOMAIN golds /\ F \subseteq DOMAIN golds
      OBVIOUS
    <3> QED
      BY <3>1, RecordsMono
  <2> QED
    BY <1>1, <2>1, HomedTotal
<1>5. /\ Share(golds, F, F) = Rounded(w, w) /\ Share(golds, {}, F) = Rounded(0, w)
      /\ Share(golds, E, F) = Rounded(e, w)
  BY NoRecords DEF Share
<1> HIDE DEF e, w
<1>6. Homed(golds) < 20000 => w < 20000
  BY <1>1, <1>4
<1> QED
  BY <1>1, <1>2, <1>3, <1>5, <1>6, RoundedIs

\* Of the fields to land those landed, and of these the ones with their value.
Kept(golds, evs) ==
  Total(golds, [i \in DOMAIN golds |-> Cardinality(landed(golds[i].gold, evs[i]))])

InValue(golds, evs) ==
  Total(golds, [i \in DOMAIN golds |-> Cardinality(value_ok(golds[i].gold, evs[i]))])

(* What lands is among what is to land, and what is right among what lands.         *)
LEMMA Landings ==
  ASSUME NEW golds, Scorable(golds), NEW evs
  PROVE  /\ Kept(golds, evs) \in Nat /\ InValue(golds, evs) \in Nat
         /\ InValue(golds, evs) <= Kept(golds, evs) /\ Kept(golds, evs) <= Homed(golds)
         /\ (\E i \in DOMAIN golds : landed(golds[i].gold, evs[i]) # homed(golds[i].gold)) =>
              Kept(golds, evs) < Homed(golds)
         /\ (\E i \in DOMAIN golds :
               value_ok(golds[i].gold, evs[i]) # landed(golds[i].gold, evs[i])) =>
              InValue(golds, evs) < Kept(golds, evs)
<1> DEFINE S == DOMAIN golds
           h == [i \in S |-> Cardinality(homed(golds[i].gold))]
           l == [i \in S |-> Cardinality(landed(golds[i].gold, evs[i]))]
           v == [i \in S |-> Cardinality(value_ok(golds[i].gold, evs[i]))]
<1>1. ASSUME NEW i \in S
      PROVE  /\ h[i] \in Nat /\ l[i] \in Nat /\ v[i] \in Nat /\ v[i] <= l[i] /\ l[i] <= h[i]
             /\ landed(golds[i].gold, evs[i]) # homed(golds[i].gold) => l[i] < h[i]
             /\ value_ok(golds[i].gold, evs[i]) # landed(golds[i].gold, evs[i]) => v[i] < l[i]
  <2> DEFINE H == homed(golds[i].gold)
             L == landed(golds[i].gold, evs[i])
             V == value_ok(golds[i].gold, evs[i])
  <2>1. IsFiniteSet(H) /\ L \subseteq H /\ V \subseteq L
    BY HomedMapped DEF Scorable, landed, value_ok
  <2> HIDE DEF H, L, V
  <2>2. IsFiniteSet(L) /\ Cardinality(L) <= Cardinality(H) /\ Cardinality(H) \in Nat
        /\ Cardinality(L) \in Nat /\ (Cardinality(H) = Cardinality(L) => H = L)
    BY <2>1, FS_Subset, FS_CardinalityType
  <2>3. Cardinality(V) <= Cardinality(L) /\ Cardinality(V) \in Nat
        /\ (Cardinality(L) = Cardinality(V) => L = V)
    BY <2>1, <2>2, FS_Subset, FS_CardinalityType
  <2>4. /\ Cardinality(V) <= Cardinality(L) /\ Cardinality(L) <= Cardinality(H)
        /\ (L # H => Cardinality(L) < Cardinality(H))
        /\ (V # L => Cardinality(V) < Cardinality(L))
    BY <2>2, <2>3
  <2> QED
    BY <2>2, <2>3, <2>4 DEF H, L, V
<1>2. Homed(golds) = Total(golds, h) /\ Kept(golds, evs) = Total(golds, l)
      /\ InValue(golds, evs) = Total(golds, v)
  BY DEF Homed, Kept, InValue
<1>3. h \in [S -> Nat] /\ l \in [S -> Nat] /\ v \in [S -> Nat]
  BY <1>1
<1> HIDE DEF h, l, v
<1>4. \A i \in S : v[i] <= l[i] /\ l[i] <= h[i]
  BY <1>1
<1>5. /\ Total(golds, l) \in Nat /\ Total(golds, h) \in Nat /\ Total(golds, l) <= Total(golds, h)
      /\ (\E i \in S : l[i] < h[i]) => Total(golds, l) < Total(golds, h)
  BY <1>3, <1>4, TotalMono
<1>6. /\ Total(golds, v) \in Nat /\ Total(golds, v) <= Total(golds, l)
      /\ (\E i \in S : v[i] < l[i]) => Total(golds, v) < Total(golds, l)
  BY <1>3, <1>4, TotalMono
<1> QED
  BY <1>1, <1>2, <1>5, <1>6

\* The entries that have an event, the class, the activity and the type of the key.
Covered(golds, evs) == {i \in DOMAIN golds : evs[i] # NoEvent}
ClassedIn(golds, evs) == {i \in DOMAIN golds : class_uid_ok(golds[i].gold, evs[i])}
ActedIn(golds, evs)   == {i \in DOMAIN golds : activity_id_ok(golds[i].gold, evs[i])}
TypedIn(golds, evs)   == {i \in DOMAIN golds : type_uid_ok(golds[i].gold, evs[i])}

\* The failure classes that are probed, and the entries that probe and reproduce one.
Classes(golds) == UNION {DOMAIN golds[i].gold.semantic : i \in DOMAIN golds}
ProbedIn(golds, name) == {i \in DOMAIN golds : name \in DOMAIN golds[i].gold.semantic}
Reproducing(golds, evs, name) ==
  {i \in DOMAIN golds : name \in reproduced(golds[i].gold, evs[i])}

(* The figures of a score.                                                       *)
ScoreOf(score, golds, evs) ==
  /\ score.coverage = Share(golds, Covered(golds, evs), DOMAIN golds)
  /\ score.field_fidelity = Rounded(Kept(golds, evs), Homed(golds))
  /\ score.value_fidelity = Rounded(InValue(golds, evs), Kept(golds, evs))
  /\ score.class_assignment = Share(golds, ClassedIn(golds, evs), DOMAIN golds)
  /\ score.activity_id = Share(golds, ActedIn(golds, evs), DOMAIN golds)
  /\ score.type_uid = Share(golds, TypedIn(golds, evs), DOMAIN golds)
  /\ DOMAIN score.failure_classes = Classes(golds)
  /\ \A name \in Classes(golds) :
       score.failure_classes[name] = Share(golds, Reproducing(golds, evs, name), ProbedIn(golds, name))
  /\ \A i \in DOMAIN golds :
       /\ \A f \in homed(golds[i].gold) \ landed(golds[i].gold, evs[i]) : f.field \in score.dropped
       /\ \A f \in landed(golds[i].gold, evs[i]) \ value_ok(golds[i].gold, evs[i]) :
            f.field \in score.mangled

LEMMA FiguresAre ==
  ASSUME NEW golds, NEW evs
  PROVE  ScoreOf(score_source(golds, evs), golds, evs)
<1> DEFINE s == score_source(golds, evs)
           C == Classes(golds)
<1>1. /\ s.coverage = Share(golds, Covered(golds, evs), DOMAIN golds)
      /\ s.class_assignment = Share(golds, ClassedIn(golds, evs), DOMAIN golds)
      /\ s.activity_id = Share(golds, ActedIn(golds, evs), DOMAIN golds)
      /\ s.type_uid = Share(golds, TypedIn(golds, evs), DOMAIN golds)
  BY DEF score_source, Covered, ClassedIn, ActedIn, TypedIn
<1>2. /\ s.field_fidelity = Rounded(Kept(golds, evs), Homed(golds))
      /\ s.value_fidelity = Rounded(InValue(golds, evs), Kept(golds, evs))
  BY DEF score_source, Kept, InValue
<1>3. s.failure_classes =
        [name \in C |-> Share(golds, Reproducing(golds, evs, name), ProbedIn(golds, name))]
  BY DEF score_source, Classes, Reproducing, ProbedIn
<1>4. ASSUME NEW i \in DOMAIN golds,
             NEW f \in homed(golds[i].gold) \ landed(golds[i].gold, evs[i])
      PROVE  f.field \in s.dropped
  BY DEF score_source
<1>5. ASSUME NEW i \in DOMAIN golds,
             NEW f \in landed(golds[i].gold, evs[i]) \ value_ok(golds[i].gold, evs[i])
      PROVE  f.field \in s.mangled
  BY DEF score_source
<1> HIDE DEF s
<1>6. DOMAIN s.failure_classes = C
      /\ \A name \in C :
           s.failure_classes[name] = Share(golds, Reproducing(golds, evs, name), ProbedIn(golds, name))
  BY <1>3
<1> QED
  BY <1>1, <1>2, <1>4, <1>5, <1>6 DEF ScoreOf, s

\* Every event is faithful to its key.
Reference(golds, evs) ==
  /\ evs = [i \in DOMAIN golds |-> evs[i]]
  /\ \A i \in DOMAIN golds : Faithful(golds[i].gold, evs[i])

LEMMA ReferenceIs ==
  ASSUME NEW golds, Scorable(golds)
  PROVE  Reference(golds, reference_events(golds))
<1>1. \A i \in DOMAIN golds : Faithful(golds[i].gold, _build_reference_emitted(golds[i].gold))
  BY ReferenceFaithful DEF Scorable
<1> QED
  BY <1>1 DEF Reference, reference_events

(* Every record of the gold key has full marks.                                   *)
LEMMA ReferencePerfect ==
  ASSUME NEW golds, Scorable(golds)
  PROVE  SelfCheck(golds)
<1> DEFINE evs == reference_events(golds)
           score == score_source(golds, evs)
           S == DOMAIN golds
<1>1. \A i \in S : HomesHold(golds[i].gold) /\ ProbesHold(golds[i].gold)
                   /\ Faithful(golds[i].gold, evs[i])
  BY ReferenceIs DEF Reference, Scorable
<1>2. ScoreOf(score, golds, evs)
  BY FiguresAre
<1> HIDE DEF evs, score
<1>3. ClassedIn(golds, evs) = S /\ ActedIn(golds, evs) = S /\ TypedIn(golds, evs) = S
  BY <1>1, FaithfulIds DEF ClassedIn, ActedIn, TypedIn
<1>4. \A name : Reproducing(golds, evs, name) = {}
  BY <1>1, FaithfulSound DEF Reproducing
<1>5. \A i \in S : landed(golds[i].gold, evs[i]) = homed(golds[i].gold)
                   /\ value_ok(golds[i].gold, evs[i]) = homed(golds[i].gold)
  BY <1>1, FaithfulLands
<1>6. Kept(golds, evs) = Homed(golds) /\ InValue(golds, evs) = Homed(golds)
  <2>1. /\ [i \in S |-> Cardinality(landed(golds[i].gold, evs[i]))]
             = [i \in S |-> Cardinality(homed(golds[i].gold))]
        /\ [i \in S |-> Cardinality(value_ok(golds[i].gold, evs[i]))]
             = [i \in S |-> Cardinality(homed(golds[i].gold))]
    BY <1>5
  <2> QED
    BY <2>1 DEF Kept, InValue, Homed
<1>7. Rounded(Homed(golds), Homed(golds)) = 10000
  <2>1. Homed(golds) \in Nat /\ Homed(golds) > 0 /\ Homed(golds) <= Homed(golds)
    BY HomedTotal
  <2> QED
    BY <2>1, RoundedIs
<1>8. Share(golds, S, S) = 10000
  <2>1. S # {} /\ S \in SUBSET S
    BY DEF Scorable
  <2> QED
    BY <2>1, ShareIs
<1>9. \A name \in DOMAIN score.failure_classes : score.failure_classes[name] = 0
  <2> TAKE name \in DOMAIN score.failure_classes
  <2>1. ProbedIn(golds, name) \in SUBSET S /\ {} \in SUBSET ProbedIn(golds, name)
    BY DEF ProbedIn
  <2>2. Share(golds, {}, ProbedIn(golds, name)) = 0
    BY <2>1, ShareIs
  <2> QED
    BY <1>2, <1>4, <2>2 DEF ScoreOf
<1>10. perfect(score)
  BY <1>2, <1>3, <1>6, <1>7, <1>8, <1>9 DEF ScoreOf, perfect
<1> QED
  BY <1>10 DEF SelfCheck, score, evs

(* A sequence that begins with one element more.                                    *)
LEMMA BeginsWith ==
  ASSUME NEW S, NEW w \in S, NEW s \in Seq(S)
  PROVE  <<w>> \o s \in Seq(S) /\ (<<w>> \o s)[1] = w
<1>1. <<w>> \in Seq(S) /\ Len(<<w>>) = 1 /\ <<w>>[1] = w
  OBVIOUS
<1>2. 1 \in 1..(Len(<<w>>) + Len(s))
  BY <1>1
<1> QED
  BY <1>1, <1>2, ConcatProperties

(* What the scorer finds at a leaf that has been dropped, parked under a           *)
(* catch-all or altered.                                                       *)
LEMMA LeafLost ==
  ASSUME NEW gold, HomesHold(gold), ProbesHold(gold), NEW e, Faithful(gold, e),
         NEW p \in DOMAIN e
  PROVE  /\ get_path(Dropped(e, p), p) = Null
         /\ get_path(Parked(e, p), p) = Null
         /\ get_path(Altered(e, p), p) = Raw("another")
<1>1. /\ \A q \in DOMAIN e : ~Beneath(p, q) /\ q \in Seq(STRING) /\ q # <<>>
      /\ p \in Seq(STRING) /\ p # <<>>
  BY DEF Faithful, HomesHold
<1>2. get_path(Dropped(e, p), p) = Null
  <2>1. DOMAIN Dropped(e, p) = DOMAIN e \ {p}
    BY DEF Dropped
  <2> QED
    BY <1>1, <2>1 DEF get_path
<1>3. get_path(Parked(e, p), p) = Null
  <2> DEFINE w == "unmapped"
             T == STRING \cup {w}
             away == <<w>> \o p
  <2>1. DOMAIN Parked(e, p) = (DOMAIN e \ {p}) \cup {away}
    BY DEF Parked
  <2>2. p[1] # w
    BY LeavesAre DEF _is_catch_all
  <2>3. p \in Seq(STRING) /\ STRING \subseteq T /\ w \in T
    BY <1>1
  <2> HIDE DEF w, T
  <2>4. p \in Seq(T)
    BY <2>3, SeqMonotonic
  <2>5. away \in Seq(T) /\ away[1] = w
    BY <2>3, <2>4, BeginsWith
  <2> HIDE DEF away
  <2>6. ~Beneath(p, away)
    BY <1>1, <2>2, <2>4, <2>5, BelowBegins
  <2> QED
    BY <1>1, <2>1, <2>2, <2>5, <2>6 DEF get_path
<1>4. get_path(Altered(e, p), p) = Raw("another")
  BY DEF Altered, get_path, Faithful
<1> QED
  BY <1>2, <1>3, <1>4

\* The event has not all that its key tells.
Falls(gold, ev) ==
  \/ landed(gold, ev) # homed(gold) \/ value_ok(gold, ev) # landed(gold, ev)
  \/ ~class_uid_ok(gold, ev) \/ ~activity_id_ok(gold, ev) \/ ~type_uid_ok(gold, ev)
  \/ reproduced(gold, ev) # {}

(* An event without the value of a leaf does not have all that its key tells.       *)
LEMMA LossFalls ==
  ASSUME NEW gold, HomesHold(gold), ProbesHold(gold), NEW e, Faithful(gold, e),
         NEW p \in DOMAIN e, NEW ev, get_path(ev, p) # e[p]
  PROVE  Falls(gold, ev)
<1>1. CASE p \in DOMAIN Ids(gold)
  <2>1. e[p] = Ids(gold)[p]
    BY <1>1 DEF Faithful
  <2>2. CASE p = <<"class_uid">>
    <3>1. ~class_uid_ok(gold, ev)
      BY <2>1, <2>2, IdsAre DEF class_uid_ok
    <3> QED
      BY <3>1 DEF Falls
  <2>3. CASE p = <<"activity_id">>
    <3>1. ~activity_id_ok(gold, ev)
      BY <2>1, <2>3, IdsAre DEF activity_id_ok
    <3> QED
      BY <3>1 DEF Falls
  <2>4. CASE p = <<"type_uid">>
    <3>1. ~type_uid_ok(gold, ev)
      BY <2>1, <2>4, IdsAre DEF type_uid_ok
    <3> QED
      BY <3>1 DEF Falls
  <2> QED
    BY <1>1, <2>2, <2>3, <2>4, IdsAre
<1>2. CASE \E f \in placed(gold) : p = f.ocsf
  <2>1. PICK f \in placed(gold) : p = f.ocsf
    BY <1>2
  <2>2. f \in homed(gold) /\ e[p] = f.value
    BY <2>1, HomedMapped DEF Faithful
  <2>3. f \notin value_ok(gold, ev)
    BY <2>1, <2>2 DEF value_ok
  <2> QED
    BY <2>2, <2>3 DEF Falls
<1>3. CASE "severity_remap" \in DOMAIN gold.semantic /\ p = severity_id
  <2>1. /\ gold.semantic["severity_remap"].expected_severity_id # Null
        /\ e[p] = gold.semantic["severity_remap"].expected_severity_id
    BY <1>3 DEF ProbesHold, Faithful
  <2>2. "severity_remap" \in reproduced(gold, ev)
    BY <1>3, <2>1 DEF reproduced
  <2> QED
    BY <2>2 DEF Falls
<1>4. p \in Leaves(gold)
  BY DEF Faithful
<1> QED
  BY <1>1, <1>2, <1>3, <1>4 DEF Leaves

(* A loss in one entry among fewer than 20000 fields costs a figure.                *)
LEMMA FallCosts ==
  ASSUME NEW golds, Scorable(golds), Homed(golds) < 20000, NEW evs, NEW i \in DOMAIN golds,
         Falls(golds[i].gold, evs[i])
  PROVE  ~perfect(score_source(golds, evs))
<1> DEFINE score == score_source(golds, evs)
           S == DOMAIN golds
           gold == golds[i].gold
           ev == evs[i]
<1>1. ScoreOf(score, golds, evs)
  BY FiguresAre
<1>2. /\ Homed(golds) \in Nat /\ Kept(golds, evs) \in Nat /\ InValue(golds, evs) \in Nat
      /\ InValue(golds, evs) <= Kept(golds, evs) /\ Kept(golds, evs) <= Homed(golds)
      /\ landed(gold, ev) # homed(gold) => Kept(golds, evs) < Homed(golds)
      /\ value_ok(gold, ev) # landed(gold, ev) => InValue(golds, evs) < Kept(golds, evs)
  BY Landings, HomedTotal
<1> HIDE DEF score
<1>3. CASE landed(gold, ev) # homed(gold)
  <2>1. Rounded(Kept(golds, evs), Homed(golds)) < 10000
    BY <1>2, <1>3, RoundedIs
  <2>2. Rounded(Kept(golds, evs), Homed(golds)) \in Int
    BY <1>2, RoundedIs
  <2> QED
    BY <1>1, <2>1, <2>2 DEF ScoreOf, perfect, score
<1>4. CASE value_ok(gold, ev) # landed(gold, ev)
  <2>1. Kept(golds, evs) < 20000
    BY <1>2
  <2>2. Rounded(InValue(golds, evs), Kept(golds, evs)) < 10000
    BY <1>2, <1>4, <2>1, RoundedIs
  <2>3. Rounded(InValue(golds, evs), Kept(golds, evs)) \in Int
    BY <1>2, RoundedIs
  <2> QED
    BY <1>1, <2>2, <2>3 DEF ScoreOf, perfect, score
<1>5. ASSUME NEW E \in SUBSET S, i \notin E
      PROVE  Share(golds, E, S) # 10000
  <2>1. E # S /\ S \in SUBSET DOMAIN golds /\ E \in SUBSET S
    BY <1>5
  <2> HIDE DEF S
  <2>2. /\ E # S /\ Homed(golds) < 20000 => Share(golds, E, S) < 10000
        /\ Share(golds, E, S) \in Int
    BY <2>1, ShareIs, SMTT(60)
  <2> QED
    BY <2>1, <2>2
<1>6. CASE ~class_uid_ok(gold, ev)
  <2>1. ClassedIn(golds, evs) \in SUBSET S /\ i \notin ClassedIn(golds, evs)
    BY <1>6 DEF ClassedIn
  <2>2. Share(golds, ClassedIn(golds, evs), S) # 10000
    BY <1>5, <2>1
  <2> QED
    BY <1>1, <2>2 DEF ScoreOf, perfect, score
<1>7. CASE ~activity_id_ok(gold, ev)
  <2>1. ActedIn(golds, evs) \in SUBSET S /\ i \notin ActedIn(golds, evs)
    BY <1>7 DEF ActedIn
  <2>2. Share(golds, ActedIn(golds, evs), S) # 10000
    BY <1>5, <2>1
  <2> QED
    BY <1>1, <2>2 DEF ScoreOf, perfect, score
<1>8. CASE ~type_uid_ok(gold, ev)
  <2>1. TypedIn(golds, evs) \in SUBSET S /\ i \notin TypedIn(golds, evs)
    BY <1>8 DEF TypedIn
  <2>2. Share(golds, TypedIn(golds, evs), S) # 10000
    BY <1>5, <2>1
  <2> QED
    BY <1>1, <2>2 DEF ScoreOf, perfect, score
<1>9. CASE reproduced(gold, ev) # {}
  <2>1. PICK name \in reproduced(gold, ev) : name \in DOMAIN gold.semantic
    BY <1>9 DEF reproduced
  <2>2. name \in Classes(golds)
    BY <2>1 DEF Classes
  <2>3. /\ ProbedIn(golds, name) \in SUBSET S
        /\ Reproducing(golds, evs, name) \in SUBSET ProbedIn(golds, name)
        /\ i \in Reproducing(golds, evs, name)
    BY <2>1 DEF ProbedIn, Reproducing, reproduced
  <2>4. Share(golds, Reproducing(golds, evs, name), ProbedIn(golds, name)) # 0
    <3> DEFINE E == Reproducing(golds, evs, name)
               F == ProbedIn(golds, name)
    <3>1. F \in SUBSET DOMAIN golds /\ E \in SUBSET F /\ E # {}
      BY <2>3
    <3> HIDE DEF E, F
    <3>2. Share(golds, E, F) # 0
      BY <3>1, ShareIs
    <3> QED
      BY <3>2 DEF E, F
  <2> QED
    BY <1>1, <2>2, <2>4 DEF ScoreOf, perfect, score
<1> QED
  BY <1>3, <1>4, <1>6, <1>7, <1>8, <1>9 DEF Falls

(* A missing event costs coverage and a figure.                                     *)
LEMMA NoEventFalls ==
  ASSUME NEW golds, Scorable(golds), Homed(golds) < 20000, NEW evs, NEW i \in DOMAIN golds,
         evs[i] = NoEvent
  PROVE  /\ ~perfect(score_source(golds, evs))
         /\ score_source(golds, evs).coverage < 10000
<1>1. HomesHold(golds[i].gold)
  BY DEF Scorable
<1>2. Falls(golds[i].gold, evs[i])
  <2>1. \A way : get_path(NoEvent, way) = Null
    BY DEF get_path, NoEvent
  <2>2. landed(golds[i].gold, NoEvent) = {}
    BY <2>1 DEF landed
  <2> QED
    BY <1>1, <2>2, HomedMapped DEF Falls
<1>3. Covered(golds, evs) \in SUBSET DOMAIN golds /\ i \notin Covered(golds, evs)
  BY DEF Covered
<1>4. Share(golds, Covered(golds, evs), DOMAIN golds) < 10000
  <2>1. Covered(golds, evs) # DOMAIN golds /\ DOMAIN golds \in SUBSET DOMAIN golds
    BY <1>3
  <2> QED
    BY <1>3, <2>1, ShareIs
<1>5. score_source(golds, evs).coverage = Share(golds, Covered(golds, evs), DOMAIN golds)
  BY FiguresAre DEF ScoreOf
<1> QED
  BY <1>2, <1>4, <1>5, FallCosts

(* Of one entry among fewer than 20000 fields every leaf that is lost is seen.        *)
LEMMA EveryLossSeen ==
  ASSUME NEW golds, Scorable(golds), Homed(golds) < 20000
  PROVE  LossSeen(golds)
<1> SUFFICES ASSUME NEW i \in DOMAIN golds PROVE SeenAt(golds, i)
  BY DEF LossSeen
<1> DEFINE evs == reference_events(golds)
           gold == golds[i].gold
           e == evs[i]
<1>1. HomesHold(gold) /\ ProbesHold(gold)
  BY DEF Scorable
<1>2. Faithful(gold, e) /\ evs = [j \in DOMAIN golds |-> evs[j]]
  BY ReferenceIs DEF Reference
<1> HIDE DEF evs
<1>3. \A ev : [evs EXCEPT ![i] = ev][i] = ev
  BY <1>2
<1>4. ~perfect(ScoreWith(golds, i, NoEvent)) /\ ScoreWith(golds, i, NoEvent).coverage < 10000
  <2> DEFINE lost == [evs EXCEPT ![i] = NoEvent]
  <2>1. lost[i] = NoEvent
    BY <1>3
  <2> HIDE DEF lost
  <2>2. ~perfect(score_source(golds, lost)) /\ score_source(golds, lost).coverage < 10000
    BY <2>1, NoEventFalls
  <2> QED
    BY <2>2 DEF lost, evs, ScoreWith
<1>5. ASSUME NEW p \in DOMAIN e, NEW ev, get_path(ev, p) # e[p]
      PROVE  /\ ~perfect(ScoreWith(golds, i, ev))
             /\ get_path(ev, p) = Null => From(gold, p) \subseteq ScoreWith(golds, i, ev).dropped
             /\ get_path(ev, p) # Null => From(gold, p) \subseteq ScoreWith(golds, i, ev).mangled
  <2> DEFINE lost == [evs EXCEPT ![i] = ev]
             score == score_source(golds, lost)
  <2>1. lost[i] = ev
    BY <1>3
  <2>2. Falls(gold, ev)
    BY <1>1, <1>2, <1>5, LossFalls
  <2> HIDE DEF lost
  <2>3. ~perfect(score)
    BY <2>1, <2>2, FallCosts
  <2>4. ScoreOf(score, golds, lost)
    BY FiguresAre
  <2>5. /\ \A f \in homed(gold) \ landed(gold, ev) : f.field \in score.dropped
        /\ \A f \in landed(gold, ev) \ value_ok(gold, ev) : f.field \in score.mangled
    BY <2>1, <2>4 DEF ScoreOf
  <2> HIDE DEF score
  <2>6. ASSUME NEW f \in homed(gold), f.ocsf = p
        PROVE  /\ get_path(ev, p) = Null => f \in homed(gold) \ landed(gold, ev)
               /\ get_path(ev, p) # Null => f \in landed(gold, ev) \ value_ok(gold, ev)
    <3>1. f \in placed(gold) /\ e[p] = f.value /\ ~_is_catch_all(p)
      BY <1>1, <1>2, <2>6, HomedMapped, LeavesAre DEF Faithful
    <3> QED
      BY <1>5, <2>6, <3>1 DEF landed, value_ok
  <2>7. /\ get_path(ev, p) = Null => From(gold, p) \subseteq score.dropped
        /\ get_path(ev, p) # Null => From(gold, p) \subseteq score.mangled
    BY <2>5, <2>6 DEF From
  <2>8. ScoreWith(golds, i, ev) = score
    BY DEF score, lost, evs, ScoreWith
  <2> QED
    BY <2>3, <2>7, <2>8
<1>6. ASSUME NEW p \in DOMAIN e
      PROVE  /\ get_path(Dropped(e, p), p) = Null /\ get_path(Parked(e, p), p) = Null
             /\ get_path(Altered(e, p), p) = Raw("another") /\ Raw("another") # Null
             /\ e[p] # Null /\ e[p] # Raw("another")
  BY <1>1, <1>2, LeafLost, LeavesAre, KindsDiffer
<1> HIDE DEF gold, e
<1>7. ASSUME NEW p \in DOMAIN e
      PROVE  /\ \A away \in {Dropped(e, p), Parked(e, p)} :
                  /\ ~perfect(ScoreWith(golds, i, away))
                  /\ From(gold, p) \subseteq ScoreWith(golds, i, away).dropped
             /\ ~perfect(ScoreWith(golds, i, Altered(e, p)))
             /\ From(gold, p) \subseteq ScoreWith(golds, i, Altered(e, p)).mangled
  BY <1>5, <1>6
<1> QED
  BY <1>4, <1>7 DEF SeenAt, e, evs, gold

(* Whatever gold file is scored, whose homes and probes hold together, the gold     *)
(* key taken for a tool's output has full marks, and of one record among fewer      *)
(* than 20000 fields every leaf that is lost costs a figure and is named.          *)
THEOREM ScorerHolds == ScoreInit /\ [][ScoreNext]_scored => []Scorer
<1> DEFINE Inv == scored # <<>> => scored \in Golds
<1>1. ScoreInit => Inv
  BY DEF ScoreInit
<1>2. Inv /\ [ScoreNext]_scored => Inv'
  BY DEF ScoreNext
<1>3. Inv => Scorer
  <2> SUFFICES ASSUME scored \in Golds PROVE Scorer
    BY DEF Scorer
  <2>1. Scorable(scored)
    BY NormAssumption DEF Scorable
  <2> QED
    BY <2>1, ReferencePerfect, EveryLossSeen DEF Scorer
<1> QED
  BY <1>1, <1>2, <1>3, PTL
-----------------------------------------------------------------------------
(* The populations planted for the detection rules                           *)

(* What lies between two multiples of the divisor, next to each other, has the    *)
(* quotient of the lower.                                                    *)
LEMMA QuotientIs ==
  ASSUME NEW a \in Int, NEW c \in Nat \ {0}, NEW q \in Int, c * q <= a, a < c * q + c
  PROVE  a \div c = q
<1> DEFINE p == a \div c
<1>1. p \in Int /\ c * p <= a /\ a < c * p + c
  BY SMTT(30)
<1> HIDE DEF p
<1>2. c * p \in Int /\ c * q \in Int
  BY <1>1
<1>3. ASSUME q + 1 <= p PROVE FALSE
  <2>1. c * (p - q - 1) >= 0 /\ c * p = c * q + c + c * (p - q - 1)
    BY <1>1, <1>3
  <2> QED
    BY <1>1, <1>2, <2>1
<1>4. ASSUME p + 1 <= q PROVE FALSE
  <2>1. c * (q - p - 1) >= 0 /\ c * q = c * p + c + c * (q - p - 1)
    BY <1>1, <1>4
  <2> QED
    BY <1>1, <1>2, <2>1
<1>5. p = q
  BY <1>1, <1>3, <1>4
<1> QED
  BY <1>5 DEF p

(* The quotient is an integer, and its multiple is at most the dividend and less    *)
(* than the divisor away.                                                    *)
LEMMA QuotientHolds ==
  ASSUME NEW a \in Int, NEW c \in Nat \ {0}
  PROVE  /\ a \div c \in Int
         /\ c * (a \div c) \in Int
         /\ c * (a \div c) <= a
         /\ a < c * (a \div c) + c
BY SMTT(30)

(* Dividends of one quotient are less than the divisor apart.                 *)
LEMMA QuotientApart ==
  ASSUME NEW a \in Int, NEW b \in Int, NEW c \in Nat \ {0}, a \div c = b \div c
  PROVE  a - b < c
<1> DEFINE p == a \div c
           s == c * p
<1>1. s \in Int /\ s <= a /\ a < s + c
  BY QuotientHolds
<1>2. s <= b
  BY QuotientHolds
<1> HIDE DEF s
<1> QED
  BY <1>1, <1>2

(* A hundred more divisors are a hundred more.                               *)
LEMMA QuotientShifts ==
  ASSUME NEW a \in Int, NEW c \in Nat \ {0}
  PROVE  (a + 100 * c) \div c = (a \div c) + 100
<1> DEFINE q == a \div c
           s == c * q
           r == c * (q + 100)
<1>1. q \in Int /\ s \in Int /\ s <= a /\ a < s + c
  BY QuotientHolds
<1> HIDE DEF q
<1>2. r = s + 100 * c /\ q + 100 \in Int
  BY <1>1
<1> HIDE DEF s
<1>3. a + 100 * c \in Int /\ r <= a + 100 * c /\ a + 100 * c < r + c
  BY <1>1, <1>2
<1>4. (a + 100 * c) \div c = q + 100
  <2> DEFINE later == a + 100 * c
             w == q + 100
  <2>1. later \in Int /\ w \in Int /\ c * w <= later /\ later < c * w + c
    BY <1>2, <1>3
  <2> HIDE DEF later, w
  <2>2. later \div c = w
    BY <2>1, QuotientIs
  <2> QED
    BY <2>2 DEF later, w
<1> QED
  BY <1>4 DEF q

(* A grid refines that of a multiple of its width: one quotient by the width is      *)
(* one by the multiple.                                                      *)
Refines(m, l) == \E k \in Nat \ {0} : l = m * k

SameQuotient(a, b, c) == a \div c = b \div c

LEMMA QuotientRefines ==
  ASSUME NEW a \in Int, NEW b \in Int, NEW m \in Nat \ {0}, NEW l \in Nat \ {0},
         Refines(m, l), SameQuotient(a, b, m)
  PROVE  SameQuotient(a, b, l)
<1>1. PICK k \in Nat \ {0} : l = m * k
  BY DEF Refines
<1> DEFINE q == a \div l
           p == a \div m
           lq == l * q
           mp == m * p
<1>2. q \in Int /\ lq \in Int /\ lq <= a /\ a < lq + l
  BY QuotientHolds
<1>3. p \in Int /\ mp \in Int /\ mp <= a /\ a < mp + m
  BY QuotientHolds
<1>4. mp <= b /\ b < mp + m
  BY QuotientHolds DEF SameQuotient
<1> HIDE DEF p, q
<1> DEFINE kq == k * q
<1>5. kq \in Int /\ lq = m * kq
  BY <1>2, <1>1
<1>6. lq + l = m * (kq + k)
  BY <1>2, <1>5, <1>1
<1> HIDE DEF kq
<1>7. kq <= p
  <2> SUFFICES ASSUME p + 1 <= kq PROVE FALSE
    BY <1>3, <1>5
  <2>1. m * (kq - p - 1) >= 0 /\ m * kq = mp + m + m * (kq - p - 1)
    BY <1>3, <1>5
  <2>2. m * (kq - p - 1) \in Int
    BY <1>3, <1>5
  <2> HIDE DEF mp, lq
  <2> QED
    BY <1>2, <1>3, <1>5, <2>1, <2>2
<1>8. p + 1 <= kq + k
  <2> SUFFICES ASSUME kq + k <= p PROVE FALSE
    BY <1>3, <1>5
  <2>1. m * (p - kq - k) >= 0 /\ mp = m * (kq + k) + m * (p - kq - k)
    BY <1>3, <1>5
  <2>2. m * (p - kq - k) \in Int
    BY <1>3, <1>5
  <2> HIDE DEF mp, lq
  <2> QED
    BY <1>2, <1>3, <1>6, <2>1, <2>2
<1>9. lq <= mp
  <2>1. m * (p - kq) >= 0 /\ mp = m * kq + m * (p - kq) /\ m * (p - kq) \in Int
    BY <1>3, <1>5, <1>7
  <2> HIDE DEF mp, lq
  <2> QED
    BY <1>2, <1>3, <1>5, <2>1
<1>10. mp + m <= lq + l
  <2>1. m * (kq + k - p - 1) >= 0 /\ m * (kq + k - p - 1) \in Int
    BY <1>3, <1>5, <1>8
  <2>2. m * (kq + k) = mp + m + m * (kq + k - p - 1)
    BY <1>3, <1>5
  <2> HIDE DEF mp, lq
  <2> QED
    BY <1>2, <1>3, <1>6, <2>1, <2>2
<1>11. lq <= b /\ b < lq + l
  <2> HIDE DEF mp, lq
  <2> QED
    BY <1>2, <1>3, <1>4, <1>9, <1>10
<1>12. b \div l = q
  BY <1>2, <1>11, QuotientIs
<1> QED
  BY <1>12 DEF q, SameQuotient

(* What falls into a bucket is some of the failures.                         *)
LEMMA InBucketWithin ==
  ASSUME NEW n \in Nat, NEW times, DOMAIN times = 1..n, NEW B, NEW b
  PROVE  InBucket(times, B, b) \in 0..n
<1> DEFINE S == {i \in DOMAIN times : B[times[i]] = b}
<1>1. IsFiniteSet(1..n) /\ Cardinality(1..n) = n
  <2>1. 1 \in Int /\ n \in Int
    OBVIOUS
  <2>2. Cardinality(1..n) = n
    BY FS_Interval
  <2> QED
    BY FS_Interval, <2>2
<1>2. S \subseteq 1..n
  OBVIOUS
<1> HIDE DEF S
<1>3. IsFiniteSet(S) /\ Cardinality(S) <= n
  <2> DEFINE T == 1..n
  <2> HIDE DEF T
  <2>1. IsFiniteSet(T) /\ Cardinality(T) = n /\ S \in SUBSET T
    BY <1>1, <1>2 DEF T
  <2>2. IsFiniteSet(S) /\ Cardinality(S) <= Cardinality(T)
    BY <2>1, FS_Subset, Zenon
  <2> QED
    BY <2>1, <2>2
<1>4. Cardinality(S) \in Nat
  BY <1>3, FS_CardinalityType
<1>5. InBucket(times, B, b) = Cardinality(S)
  BY DEF InBucket, S
<1> QED
  BY <1>3, <1>4, <1>5

(* Failures that share a bucket are counted in it, all of them.              *)
LEMMA AllInBucket ==
  ASSUME NEW n \in Nat, n >= threshold, NEW times, DOMAIN times = 1..n, NEW B,
         \A i, j \in 1..n : B[times[i]] = B[times[j]]
  PROVE  reaches(times, B)
<1>1. 1 \in 1..n
  BY DEF threshold
<1> DEFINE S == {i \in DOMAIN times : B[times[i]] = B[times[1]]}
<1>2. S = 1..n
  BY <1>1
<1> HIDE DEF S
<1>3. Cardinality(S) = n
  <2>1. 1 \in Int /\ n \in Int
    OBVIOUS
  <2> QED
    BY <1>2, <2>1, FS_Interval
<1>4. InBucket(times, B, B[times[1]]) = n
  BY <1>3 DEF InBucket, S
<1> QED
  BY <1>1, <1>4 DEF reaches

(* A user with fewer failures than the threshold is not flagged.             *)
LEMMA FewAreNotFlagged ==
  ASSUME NEW n \in Nat, NEW times, DOMAIN times = 1..n, NEW B, reaches(times, B)
  PROVE  n >= threshold
<1>1. PICK i \in DOMAIN times : InBucket(times, B, B[times[i]]) >= threshold
  BY DEF reaches
<1>2. InBucket(times, B, B[times[i]]) \in 0..n
  BY InBucketWithin
<1> QED
  BY <1>1, <1>2 DEF threshold

(* Failures that share a bucket with none but the ones next to them are not flagged. *)
LEMMA SpreadIsNotFlagged ==
  ASSUME NEW n \in Nat, NEW times, DOMAIN times = 1..n, NEW B,
         \A i, j \in 1..n : B[times[i]] = B[times[j]] => i - j <= 1
  PROVE  ~reaches(times, B)
<1> SUFFICES ASSUME reaches(times, B) PROVE FALSE
  OBVIOUS
<1>1. PICK i \in DOMAIN times : InBucket(times, B, B[times[i]]) >= threshold
  BY DEF reaches
<1> DEFINE S == {j \in DOMAIN times : B[times[j]] = B[times[i]]}
<1>2. i \in 1..n /\ \A j \in S : j \in 1..n /\ B[times[j]] = B[times[i]]
  OBVIOUS
<1>3. InBucket(times, B, B[times[i]]) = Cardinality(S)
  BY DEF InBucket
<1> HIDE DEF S
<1>4. S \subseteq (i - 1)..(i + 1)
  BY <1>2
<1>5. IsFiniteSet((i - 1)..(i + 1)) /\ Cardinality((i - 1)..(i + 1)) = 3
  <2> DEFINE a == i - 1
             b == i + 1
  <2>1. a \in Int /\ b \in Int /\ a <= b /\ b - a + 1 = 3
    BY <1>2
  <2> HIDE DEF a, b
  <2>2. IsFiniteSet(a..b) /\ Cardinality(a..b) = IF a > b THEN 0 ELSE b - a + 1
    BY <2>1, FS_Interval, Zenon
  <2>3. Cardinality(a..b) = 3
    BY <2>1, <2>2
  <2> QED
    BY <2>2, <2>3 DEF a, b
<1>6. IsFiniteSet(S) /\ Cardinality(S) <= 3
  BY <1>4, <1>5, FS_Subset
<1>7. Cardinality(S) \in Nat
  BY <1>6, FS_CardinalityType
<1> QED
  BY <1>1, <1>3, <1>6, <1>7 DEF threshold

(* A grid that keeps together what another does flags what the other flags.   *)
LEMMA CoarserFlags ==
  ASSUME NEW n \in Nat, NEW times, DOMAIN times = 1..n, NEW B, NEW C,
         \A i, j \in 1..n : B[times[i]] = B[times[j]] => C[times[i]] = C[times[j]],
         reaches(times, B)
  PROVE  reaches(times, C)
<1>1. PICK i \in DOMAIN times : InBucket(times, B, B[times[i]]) >= threshold
  BY DEF reaches
<1> DEFINE S == {j \in DOMAIN times : B[times[j]] = B[times[i]]}
           T == {j \in DOMAIN times : C[times[j]] = C[times[i]]}
<1>2. S \subseteq T /\ T \subseteq 1..n
  OBVIOUS
<1>3. InBucket(times, B, B[times[i]]) = Cardinality(S)
  BY DEF InBucket
<1>4. InBucket(times, C, C[times[i]]) = Cardinality(T)
  BY DEF InBucket
<1> HIDE DEF S, T
<1>5. IsFiniteSet(T)
  <2>1. 1 \in Int /\ n \in Int
    OBVIOUS
  <2>2. IsFiniteSet(1..n)
    BY FS_Interval
  <2> QED
    BY <1>2, <2>2, FS_Subset
<1>6. Cardinality(S) <= Cardinality(T) /\ IsFiniteSet(S)
  BY <1>2, <1>5, FS_Subset
<1>7. Cardinality(S) \in Nat /\ Cardinality(T) \in Nat
  BY <1>5, <1>6, FS_CardinalityType
<1>8. InBucket(times, C, C[times[i]]) >= threshold
  <2> HIDE DEF InBucket
  <2> QED
    BY <1>1, <1>3, <1>4, <1>6, <1>7 DEF threshold
<1> QED
  BY <1>8 DEF reaches

(* A planted user is the times of twelve failures, a benign one of five at most. *)
LEMMA UserFailures ==
  ASSUME NEW user \in Users
  PROVE  \E n \in Nat :
           /\ user.times \in [1..n -> Nat]
           /\ (user.kind = "benign" /\ n <= 5) \/ (user.kind \in {"true", "decoy"} /\ n = 12)
<1>1. Drawable(user)
  BY SigmaAssumption
<1>2. CASE user.kind = "true" /\ (true_user(user.times, 10) \/ spray_ip(user.times))
  <2>1. PICK margin \in {5, 10} : true_user(user.times, margin)
    BY <1>2 DEF spray_ip
  <2>2. PICK bucket \in 0..(6 * 24 * 6) :
          user.times \in [1..12 -> (bucket * WINDOW_S + margin)..(bucket * WINDOW_S + WINDOW_S - margin)]
    BY <2>1 DEF true_user, BURST_N
  <2>3. (bucket * WINDOW_S + margin)..(bucket * WINDOW_S + WINDOW_S - margin) \subseteq Nat
    BY DEF WINDOW_S
  <2>4. user.times \in [1..12 -> Nat]
    BY <2>2, <2>3
  <2> QED
    BY <1>2, <2>4
<1>3. CASE user.kind = "benign" /\ benign_user(user.times)
  <2>1. PICK n \in 0..5 : user.times \in [1..n -> 0..(7 * Day)]
    BY <1>3 DEF benign_user
  <2>2. 0..(7 * Day) \subseteq Nat
    OBVIOUS
  <2>3. user.times \in [1..n -> Nat]
    BY <2>1, <2>2
  <2>4. n \in Nat /\ n <= 5
    OBVIOUS
  <2> WITNESS n \in Nat
  <2> QED
    BY <1>3, <2>3, <2>4
<1>4. CASE user.kind = "decoy" /\ (decoy_user(user.times, 7 * Day) \/ decoy_user(user.times, Day))
  <2>1. PICK span \in {7 * Day, Day} : decoy_user(user.times, span)
    BY <1>4
  <2>2. user.times \in [1..12 -> 0..span]
    BY <2>1 DEF decoy_user, DECOY_N
  <2>3. 0..span \subseteq Nat
    BY DEF Day
  <2>4. user.times \in [1..12 -> Nat]
    BY <2>2, <2>3
  <2> QED
    BY <1>4, <2>4
<1> QED
  BY <1>1, <1>2, <1>3, <1>4 DEF Drawable

(* The burst of a user is in one tumbling window.                            *)
LEMMA BurstInWindow ==
  ASSUME NEW user \in Users, user.kind = "true", NEW i \in 1..12, NEW j \in 1..12
  PROVE  user.times[i] \div WINDOW_S = user.times[j] \div WINDOW_S
<1>1. true_user(user.times, 10) \/ spray_ip(user.times)
  BY SigmaAssumption DEF Drawable
<1>2. PICK margin \in {5, 10} : true_user(user.times, margin)
  BY <1>1 DEF spray_ip
<1>3. PICK bucket \in 0..(6 * 24 * 6) :
        user.times \in [1..12 -> (bucket * WINDOW_S + margin)..(bucket * WINDOW_S + WINDOW_S - margin)]
  BY <1>2 DEF true_user, BURST_N
<1>4. ASSUME NEW k \in 1..12 PROVE user.times[k] \div WINDOW_S = bucket
  <2> DEFINE t == user.times[k]
             c == WINDOW_S
  <2>1. t \in (bucket * WINDOW_S + margin)..(bucket * WINDOW_S + WINDOW_S - margin)
    BY <1>3
  <2>2. t \in Int /\ c \in Nat \ {0} /\ c * bucket <= t /\ t < c * bucket + c /\ bucket \in Int
    BY <2>1 DEF WINDOW_S
  <2> HIDE DEF t, c
  <2>3. t \div c = bucket
    BY <2>2, QuotientIs
  <2> QED
    BY <2>3 DEF t, c
<1> QED
  BY <1>4

(* The failures of a decoy in one tumbling window are next to each other.      *)
LEMMA DecoyApart ==
  ASSUME NEW user \in Users, user.kind = "decoy", NEW i \in 1..12, NEW j \in 1..12,
         user.times[i] \div WINDOW_S = user.times[j] \div WINDOW_S
  PROVE  i - j <= 1
<1>1. decoy_user(user.times, 7 * Day) \/ decoy_user(user.times, Day)
  BY SigmaAssumption DEF Drawable
<1>2. PICK span \in {7 * Day, Day} : decoy_user(user.times, span)
  BY <1>1
<1> DEFINE step == span \div DECOY_N
<1>3. /\ step \in {50400, 7200}
      /\ \A k \in 1..12 : user.times[k] - (k - 1) * step \in 0..(step - 1)
  <2>1. step \in {50400, 7200}
    BY DEF Day, DECOY_N
  <2>2. \A k \in 1..12 : user.times[k] - (k - 1) * step \in 0..(step - 1)
    <3> DECOY_N = 12
      BY DEF DECOY_N
    <3> QED
      BY <1>2, Zenon DEF decoy_user
  <2> QED
    BY <2>1, <2>2
<1> HIDE DEF step
<1> DEFINE a == user.times[i]
           b == user.times[j]
<1>4. a \in Nat /\ b \in Nat
  <2>1. PICK n \in Nat : n = 12 /\ user.times \in [1..n -> Nat]
    BY UserFailures
  <2> QED
    BY <2>1
<1>5. a - (i - 1) * step \in 0..(step - 1) /\ b - (j - 1) * step \in 0..(step - 1)
  BY <1>3
<1>6. a - b < 600
  <2>1. 600 \in Nat \ {0} /\ a \div 600 = b \div 600 /\ a \in Int /\ b \in Int
    BY <1>4 DEF WINDOW_S
  <2> HIDE DEF a, b
  <2> QED
    BY <2>1, QuotientApart
<1> HIDE DEF a, b
<1>7. /\ a >= (i - 1) * step /\ b <= (j - 1) * step + step - 1
  <2>1. (i - 1) * step \in Int /\ (j - 1) * step \in Int /\ step \in Int
    BY <1>3
  <2> QED
    BY <1>4, <1>5, <2>1
<1>8. CASE step = 50400
  <2>1. a >= (i - 1) * 50400 /\ b <= (j - 1) * 50400 + 50399
    BY <1>7, <1>8
  <2> QED
    BY <1>4, <1>6, <2>1
<1>9. CASE step = 7200
  <2>1. a >= (i - 1) * 7200 /\ b <= (j - 1) * 7200 + 7199
    BY <1>7, <1>9
  <2> QED
    BY <1>4, <1>6, <2>1
<1> QED
  BY <1>3, <1>8, <1>9

(* The lookbacks, and the phases of each.                                    *)
LEMMA SchedulesAre ==
  ASSUME NEW L \in LOOKBACKS
  PROVE  /\ L \in Nat \ {0}
         /\ 0 \in Phases(L)
         /\ \A phase \in Phases(L) : phase \in 0..(L - 1)
<1>1. L \in {300, 600, 3600, 21600, 86400, 172800, 604800}
  BY DEF LOOKBACKS, Day
<1>2. L \in Nat \ {0}
  BY <1>1
<1>3. 0 \in Phases(L)
  BY <1>1 DEF Phases
<1>4. ASSUME NEW phase \in Phases(L) PROVE phase \in 0..(L - 1)
  <2>1. PICK quarter \in 0..3 : phase = (L * quarter) \div 4
    BY DEF Phases
  <2>2. quarter \in {0, 1, 2, 3}
    BY <2>1
  <2> QED
    BY <1>1, <2>1, <2>2
<1> QED
  BY <1>2, <1>3, <1>4

(* A bucket of a schedule is a quotient: the dividend is not negative.         *)
LEMMA BucketIs ==
  ASSUME NEW t \in Nat, NEW L \in LOOKBACKS, NEW phase \in Phases(L)
  PROVE  /\ t - phase + 100 * L \in Nat
         /\ sched_bucket(t, L, phase) = (t - phase + 100 * L) \div L
<1>1. L \in Nat \ {0} /\ phase \in 0..(L - 1)
  BY SchedulesAre
<1>2. t - phase + 100 * L \in Nat
  BY <1>1
<1> QED
  BY <1>2 DEF sched_bucket, Truncated

(* A time within a bucket of the sequence rule.                              *)
InSpan(x, q) == 7200 * q <= x /\ x < 7200 * q + 7200

(* The bucket of a time.                                                     *)
LEMMA SpanBucket ==
  ASSUME NEW x \in Nat, NEW q \in Nat, InSpan(x, q)
  PROVE  x \div SPAN_S = q
<1>1. SPAN_S \in Nat \ {0} /\ x \in Int /\ q \in Int
  BY DEF SPAN_S
<1>2. SPAN_S * q <= x /\ x < SPAN_S * q + SPAN_S
  BY DEF SPAN_S, InSpan
<1> QED
  BY <1>1, <1>2, QuotientIs

(* Two events inside a bucket share it.                                       *)
LEMMA PairInBucket ==
  ASSUME NEW a \in Nat, NEW z \in Nat, NEW q \in Nat,
         Inside(a, z, q * SPAN_S)
  PROVE  a \div SPAN_S = q /\ z \div SPAN_S = q /\ a < z /\ z <= a + SPAN_S
<1>1. a - 7200 * q >= 60 /\ a - 7200 * q <= 3000
  BY DEF Inside, SPAN_S
<1>2. z - a >= 30 /\ z - a <= 1500
  BY DEF Inside
<1>3. InSpan(a, q)
  BY <1>1 DEF InSpan
<1>4. InSpan(z, q)
  BY <1>1, <1>2 DEF InSpan
<1>5. a \div SPAN_S = q
  BY <1>3, SpanBucket
<1>6. z \div SPAN_S = q
  BY <1>4, SpanBucket
<1>7. a < z /\ z <= a + SPAN_S
  BY <1>2 DEF SPAN_S
<1> QED
  BY <1>5, <1>6, <1>7

(* Two events around the end of a bucket are in it and in the next.             *)
LEMMA PairStraddles ==
  ASSUME NEW a \in Nat, NEW z \in Nat, NEW q \in Nat, Straddling(a, z, q * SPAN_S)
  PROVE  a \div SPAN_S = q /\ z \div SPAN_S = q + 1 /\ a < z /\ z <= a + SPAN_S
<1>1. 7200 * q + 7200 - a >= 120 /\ 7200 * q + 7200 - a <= 600
  BY DEF Straddling, SPAN_S
<1>2. z - 7200 * q - 7200 >= 120 /\ z - 7200 * q - 7200 <= 600
  BY DEF Straddling, SPAN_S
<1>3. a \div SPAN_S = q
  <2>1. InSpan(a, q)
    BY <1>1 DEF InSpan
  <2> QED
    BY <2>1, SpanBucket
<1>4. z \div SPAN_S = q + 1
  <2> DEFINE n == q + 1
  <2>1. n \in Nat /\ 7200 * n = 7200 * q + 7200
    OBVIOUS
  <2> HIDE DEF n
  <2>2. InSpan(z, n)
    BY <1>2, <2>1 DEF InSpan
  <2>3. z \div SPAN_S = n
    BY <2>1, <2>2, SpanBucket
  <2> QED
    BY <2>3 DEF n
<1>5. a < z /\ z <= a + SPAN_S
  BY <1>1, <1>2 DEF SPAN_S
<1> QED
  BY <1>3, <1>4, <1>5

(* Two events too far apart are in different buckets.                         *)
LEMMA PairFarApart ==
  ASSUME NEW a \in Nat, NEW z \in Nat, NEW q \in Nat, FarApart(a, z, q * SPAN_S)
  PROVE  a \div SPAN_S = q /\ z \div SPAN_S # q /\ ~(z <= a + SPAN_S)
<1>1. a - 7200 * q >= 60 /\ a - 7200 * q <= 1200
  BY DEF FarApart, SPAN_S
<1>2. z >= a + 9000
  BY DEF FarApart, SPAN_S
<1>3. a \div SPAN_S = q
  <2>1. InSpan(a, q)
    BY <1>1 DEF InSpan
  <2> QED
    BY <2>1, SpanBucket
<1>4. ASSUME z \div SPAN_S = q PROVE FALSE
  <2>1. SPAN_S \in Nat \ {0} /\ z \in Int
    BY DEF SPAN_S
  <2>2. z < SPAN_S * (z \div SPAN_S) + SPAN_S
    BY <2>1, QuotientHolds
  <2>3. z < SPAN_S * q + SPAN_S
    BY <1>4, <2>2
  <2>4. z < 7200 * q + 7200
    BY <2>3 DEF SPAN_S
  <2> QED
    BY <1>1, <1>2, <2>4
<1>5. ~(z <= a + SPAN_S)
  BY <1>2 DEF SPAN_S
<1> QED
  BY <1>3, <1>4, <1>5

(* The sequence rules flag what was planted for them to flag.                 *)
LEMMA HostPlanted ==
  ASSUME NEW h \in Hosts
  PROVE  SequencePlanted(h)
<1>1. h.ps \in Nat /\ h.rdp \in Nat /\ Plantable(h)
  BY SigmaAssumption
<1>2. PICK bucket \in Nat : Plants(h, bucket * SPAN_S)
  <2>1. PICK bucket \in 0..(5 * 12) : Plants(h, bucket * SPAN_S)
    BY <1>1 DEF Plantable
  <2>2. bucket \in Nat
    BY <2>1
  <2> QED
    BY <2>1, <2>2
<1>3. CASE h.kind = "inbucket" /\ Inside(h.ps, h.rdp, bucket * SPAN_S)
  <2>1. h.ps \div SPAN_S = bucket /\ h.rdp \div SPAN_S = bucket
        /\ h.ps < h.rdp /\ h.rdp <= h.ps + SPAN_S
    BY <1>1, <1>3, PairInBucket
  <2>2. reference(h) /\ emitted_ppl(h)
    BY <2>1, Zenon DEF reference, emitted_ppl
  <2> QED
    BY <1>3, <2>2 DEF SequencePlanted
<1>4. CASE h.kind = "straddle" /\ Straddling(h.ps, h.rdp, bucket * SPAN_S)
  <2>1. h.ps \div SPAN_S = bucket /\ h.rdp \div SPAN_S = bucket + 1
        /\ h.ps < h.rdp /\ h.rdp <= h.ps + SPAN_S
    BY <1>1, <1>4, PairStraddles
  <2>2. bucket # bucket + 1
    OBVIOUS
  <2>3. reference(h) /\ ~emitted_ppl(h)
    BY <2>1, <2>2, Zenon DEF reference, emitted_ppl
  <2> QED
    BY <1>4, <2>3 DEF SequencePlanted
<1>5. CASE h.kind = "wrong_order" /\ Inside(h.rdp, h.ps, bucket * SPAN_S)
  <2>1. h.rdp \div SPAN_S = bucket /\ h.ps \div SPAN_S = bucket /\ h.rdp < h.ps
    BY <1>1, <1>5, PairInBucket
  <2>2. ~(h.ps < h.rdp)
    BY <1>1, <2>1
  <2>3. ~reference(h) /\ emitted_ppl(h)
    BY <2>1, <2>2, Zenon DEF reference, emitted_ppl
  <2> QED
    BY <1>5, <2>3 DEF SequencePlanted
<1>6. CASE h.kind = "benign_farapart" /\ FarApart(h.ps, h.rdp, bucket * SPAN_S)
  <2>1. h.ps \div SPAN_S = bucket /\ h.rdp \div SPAN_S # bucket /\ ~(h.rdp <= h.ps + SPAN_S)
    BY <1>1, <1>6, PairFarApart
  <2>2. ~reference(h) /\ ~emitted_ppl(h)
    BY <2>1, Zenon DEF reference, emitted_ppl
  <2> QED
    BY <1>6, <2>2 DEF SequencePlanted
<1> QED
  BY <1>2, <1>3, <1>4, <1>5, <1>6 DEF Plants

(* Without a window every failure counts.                                    *)
LEMMA Unwindowed ==
  ASSUME NEW n \in Nat, NEW times \in [1..n -> Nat]
  PROVE  unbounded(times) <=> n >= threshold
<1> DEFINE B == [t \in Times(times) |-> 0]
<1>1. \A i, j \in 1..n : B[times[i]] = B[times[j]]
  BY DEF Times
<1>2. unbounded(times) <=> reaches(times, B)
  BY DEF unbounded
<1>3. DOMAIN times = 1..n
  OBVIOUS
<1> HIDE DEF B
<1> QED
  BY <1>1, <1>2, <1>3, AllInBucket, FewAreNotFlagged

(* The control flags the users with a burst.                                 *)
LEMMA ControlFlagsBursts ==
  ASSUME NEW user \in Users
  PROVE  windowed(user.times) <=> user.kind = "true"
<1> DEFINE times == user.times
           B == [t \in Times(times) |-> t \div WINDOW_S]
<1>1. PICK n \in Nat :
        /\ times \in [1..n -> Nat]
        /\ (user.kind = "benign" /\ n <= 5) \/ (user.kind \in {"true", "decoy"} /\ n = 12)
  BY UserFailures
<1>2. DOMAIN times = 1..n
  BY <1>1
<1>3. \A i \in 1..n : B[times[i]] = times[i] \div WINDOW_S
  BY <1>2 DEF Times
<1>4. windowed(times) <=> reaches(times, B)
  BY DEF windowed
<1> HIDE DEF B
<1>5. CASE user.kind = "benign"
  <2>1. ~(n >= threshold)
    BY <1>1, <1>5 DEF threshold
  <2>2. ~reaches(times, B)
    BY <1>2, <2>1, FewAreNotFlagged
  <2> QED
    BY <1>4, <1>5, <2>2
<1>6. CASE user.kind = "true"
  <2>1. n = 12
    BY <1>1, <1>6
  <2>2. \A i, j \in 1..n : B[times[i]] = B[times[j]]
    BY <1>3, <1>6, <2>1, BurstInWindow
  <2>3. n >= threshold
    BY <2>1 DEF threshold
  <2>4. reaches(times, B)
    <3> HIDE DEF times
    <3> QED
      BY <1>2, <2>2, <2>3, AllInBucket
  <2> QED
    BY <1>4, <1>6, <2>4
<1>7. CASE user.kind = "decoy"
  <2>1. n = 12
    BY <1>1, <1>7
  <2>2. \A i, j \in 1..n : B[times[i]] = B[times[j]] => i - j <= 1
    <3> SUFFICES ASSUME NEW i \in 1..12, NEW j \in 1..12, B[times[i]] = B[times[j]]
                 PROVE  i - j <= 1
      BY <2>1
    <3>1. user.times[i] \div WINDOW_S = user.times[j] \div WINDOW_S
      BY <1>3, <2>1
    <3> HIDE DEF times
    <3> QED
      BY <1>7, <3>1, DecoyApart, Zenon
  <2>3. ~reaches(times, B)
    BY <1>2, <2>2, SpreadIsNotFlagged
  <2> QED
    BY <1>4, <1>7, <2>3
<1> QED
  BY <1>1, <1>5, <1>6, <1>7

(* A schedule flags some of what the emitted rule flags.                      *)
LEMMA ScheduledIsEmitted ==
  ASSUME NEW n \in Nat, NEW times \in [1..n -> Nat], NEW L, NEW phase, scheduled(times, L, phase)
  PROVE  unbounded(times)
<1> DEFINE B == [t \in Times(times) |-> sched_bucket(t, L, phase)]
<1>1. reaches(times, B)
  BY DEF scheduled
<1>2. DOMAIN times = 1..n
  OBVIOUS
<1> HIDE DEF B
<1> QED
  BY <1>1, <1>2, FewAreNotFlagged, Unwindowed

(* Each lookback that divides another is a number of times in it.              *)
LEMMA LookbacksDivide ==
  ASSUME NEW L \in LOOKBACKS, NEW M \in LOOKBACKS, L % M = 0
  PROVE  \E k \in Nat \ {0} : L = M * k
<1>1. L \in Nat \ {0} /\ M \in Nat \ {0}
  BY SchedulesAre
<1> DEFINE k == L \div M
<1>2. k \in Nat /\ L = M * k
  BY <1>1, SMTT(30)
<1> HIDE DEF k
<1>3. k # 0
  BY <1>1, <1>2
<1> QED
  BY <1>2, <1>3

(* A schedule flags what one of a lookback that divides its own flags.          *)
LEMMA LongerFlags ==
  ASSUME NEW n \in Nat, NEW times \in [1..n -> Nat], NEW L \in LOOKBACKS, NEW M \in LOOKBACKS,
         L % M = 0, scheduled(times, M, 0)
  PROVE  scheduled(times, L, 0)
<1> DEFINE B == [t \in Times(times) |-> sched_bucket(t, M, 0)]
           C == [t \in Times(times) |-> sched_bucket(t, L, 0)]
<1>1. DOMAIN times = 1..n /\ \A i \in 1..n : times[i] \in Nat
  OBVIOUS
<1>2. \A i \in 1..n : /\ B[times[i]] = sched_bucket(times[i], M, 0)
                      /\ C[times[i]] = sched_bucket(times[i], L, 0)
  BY <1>1 DEF Times
<1>3. /\ scheduled(times, M, 0) <=> reaches(times, B)
      /\ scheduled(times, L, 0) <=> reaches(times, C)
  BY DEF scheduled
<1> HIDE DEF B, C
<1>4. PICK k \in Nat \ {0} : L = M * k
  BY LookbacksDivide
<1>5. L \in Nat \ {0} /\ M \in Nat \ {0} /\ 0 \in Phases(L) /\ 0 \in Phases(M)
  BY SchedulesAre
<1>6. ASSUME NEW t \in Nat, NEW K \in {L, M}
      PROVE  sched_bucket(t, K, 0) = (t \div K) + 100
  <2>1. K \in Nat \ {0} /\ K \in LOOKBACKS /\ 0 \in Phases(K)
    BY <1>5
  <2>2. sched_bucket(t, K, 0) = (t - 0 + 100 * K) \div K
    BY <2>1, BucketIs
  <2>3. t - 0 + 100 * K = t + 100 * K
    BY <2>1
  <2>4. (t + 100 * K) \div K = (t \div K) + 100
    <3> t \in Int
      OBVIOUS
    <3> QED
      BY <2>1, QuotientShifts, Zenon
  <2> QED
    BY <2>2, <2>3, <2>4
<1>7. ASSUME NEW i \in 1..n, NEW j \in 1..n, B[times[i]] = B[times[j]]
      PROVE  C[times[i]] = C[times[j]]
  <2> DEFINE t == times[i]
             u == times[j]
  <2>1. t \in Nat /\ u \in Nat
    BY <1>1
  <2>2. sched_bucket(t, M, 0) = sched_bucket(u, M, 0)
    BY <1>2, <1>7
  <2>3. C[times[i]] = sched_bucket(t, L, 0) /\ C[times[j]] = sched_bucket(u, L, 0)
    BY <1>2
  <2> HIDE DEF t, u
  <2>4. t \div M \in Int /\ u \div M \in Int
    BY <1>5, <2>1, QuotientHolds
  <2>5. t \div M = u \div M
    BY <1>6, <2>1, <2>2, <2>4
  <2>6. t \div L = u \div L
    <3>1. t \in Int /\ u \in Int
      BY <2>1
    <3>2. Refines(M, L)
      BY <1>4, <1>5 DEF Refines
    <3>3. SameQuotient(t, u, M)
      BY <2>5 DEF SameQuotient
    <3>4. SameQuotient(t, u, L)
      BY <1>5, <3>1, <3>2, <3>3, QuotientRefines
    <3> QED
      BY <3>4 DEF SameQuotient
  <2> QED
    BY <1>6, <2>1, <2>3, <2>6
<1> QED
  BY <1>1, <1>3, <1>7, CoarserFlags

(* The two failures of one bucket of a schedule are less than a lookback apart.  *)
LEMMA BucketKeepsLookback ==
  ASSUME NEW t \in Nat, NEW u \in Nat, NEW L \in LOOKBACKS, NEW phase \in Phases(L),
         sched_bucket(t, L, phase) = sched_bucket(u, L, phase)
  PROVE  t - u < L
<1> DEFINE a == t - phase + 100 * L
           b == u - phase + 100 * L
<1>1. L \in Nat \ {0} /\ phase \in Int
  BY SchedulesAre
<1>2. a \in Int /\ b \in Int /\ a \div L = b \div L
  BY BucketIs
<1>3. a - b = t - u
  BY <1>1
<1> HIDE DEF a, b
<1>4. a - b < L
  BY <1>1, <1>2, QuotientApart
<1> QED
  BY <1>3, <1>4

(* The counting rules flag what was planted for them to flag.                 *)
LEMMA UserPlanted ==
  ASSUME NEW user \in Users
  PROVE  SchedulesOrdered(user) /\ PhaseKeepsLookback(user)
<1> DEFINE times == user.times
<1>1. PICK n \in Nat :
        /\ times \in [1..n -> Nat]
        /\ (user.kind = "benign" /\ n <= 5) \/ (user.kind \in {"true", "decoy"} /\ n = 12)
  BY UserFailures
<1>2. unbounded(times) <=> user.kind # "benign"
  <2>1. unbounded(times) <=> n >= threshold
    BY <1>1, Unwindowed
  <2> QED
    BY <1>1, <2>1 DEF threshold
<1>3. SchedulesOrdered(user)
  BY <1>1, <1>2, ControlFlagsBursts, ScheduledIsEmitted, LongerFlags DEF SchedulesOrdered
<1>4. PhaseKeepsLookback(user)
  <2> SUFFICES ASSUME NEW L \in LOOKBACKS, NEW phase \in Phases(L),
                      NEW i \in DOMAIN times, NEW j \in DOMAIN times,
                      sched_bucket(times[i], L, phase) = sched_bucket(times[j], L, phase)
               PROVE  times[i] - times[j] < L
    BY DEF PhaseKeepsLookback
  <2>1. times[i] \in Nat /\ times[j] \in Nat
    BY <1>1
  <2> QED
    BY <2>1, BucketKeepsLookback
<1> QED
  BY <1>3, <1>4

(* Whatever users and hosts are planted, what is planted is flagged as it was      *)
(* planted to be: the detection corpora of ocsf-sigma-detection.               *)
THEOREM PlantedHolds == PlantedInit /\ [][PlantedNext]_planted => []Planted
<1> DEFINE Looked == planted = <<>> \/ planted \in Users \cup Hosts
<1>1. PlantedInit => Looked
  BY DEF PlantedInit
<1>2. Looked /\ [PlantedNext]_planted => Looked'
  BY DEF PlantedNext
<1>3. Looked => Planted
  <2> SUFFICES ASSUME Looked, planted # <<>> PROVE
                 /\ planted.rule = "count" => SchedulesOrdered(planted) /\ PhaseKeepsLookback(planted)
                 /\ planted.rule = "sequence" => SequencePlanted(planted)
    BY DEF Planted
  <2>1. CASE planted \in Users
    <3>1. planted.rule = "count"
      BY <2>1, SigmaAssumption
    <3> QED
      BY <2>1, <3>1, UserPlanted
  <2>2. CASE planted \in Hosts
    <3>1. planted.rule = "sequence"
      BY <2>2, SigmaAssumption
    <3> QED
      BY <2>2, <3>1, HostPlanted
  <2> QED
    BY <2>1, <2>2
<1> QED
  BY <1>1, <1>2, <1>3, PTL
=============================================================================
