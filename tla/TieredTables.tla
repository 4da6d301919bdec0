----------------------------- MODULE TieredTables -----------------------------
(***************************************************************************)
(* bench-d-tiered-realization/bench_d_integrating_tiered.py: the corpus is     *)
(* replayed day by day into a hot table; a day that leaves the hot window is  *)
(* appended to the warm table and then deleted from the hot one.  Readers     *)
(* see one view, conn_all, that takes the days above a watermark from hot     *)
(* and the others from one pinned snapshot of warm.                          *)
(*                                                                         *)
(* The two table formats are external: hot is one set of rows, warm a         *)
(* sequence of snapshots.  A row is known by its day, a table is the number   *)
(* of rows of each day.                                                      *)
(***************************************************************************)
EXTENDS Integers, Sequences, Functions

CONSTANTS
  DayRows,       \* corpus: rows of day d at DayRows[d + 1]
  W_HOTs,        \* the hot windows tried, in days
  FreshRows      \* FRESH_BATCH_ROWS

ASSUME TieredAssumption ==
  /\ DayRows \in Seq(Nat) /\ DayRows # <<>>
  /\ W_HOTs \subseteq Nat /\ FreshRows \in Nat \ {0}

VARIABLES
  tierPc,        \* where head_to_head is
  W_HOT,
  d,             \* the day of the replay
  hot,           \* rows per day
  warm,          \* snapshots of the warm table
  warm_meta,     \* index of the pinned one
  wm,            \* watermark
  conn_all,      \* the view in the catalog: watermark and snapshot
  overlap,       \* what overlap_probe counted
  fresh          \* rows a freshness trial read back, -1 before

tieredVars == <<tierPc, W_HOT, d, hot, warm, warm_meta, wm, conn_all, overlap, fresh>>

max_day == Len(DayRows) - 1

\* One day more than the corpus has: that of the freshness trials.
Days == 0..(max_day + 1)

Nothing == [x \in Days |-> 0]

Of(x) == IF x \in 0..max_day THEN DayRows[x + 1] ELSE 0

\* Rows of day x in table t.
Plus(t, x, n) == [t EXCEPT ![x] = @ + n]

TieredInit ==
  /\ tierPc = "build" /\ W_HOT = 0 /\ d = 0
  /\ hot = Nothing /\ warm = <<Nothing>> /\ warm_meta = 1 /\ wm = -1
  /\ conn_all = [wm |-> -1, meta |-> 0]
  /\ overlap = <<>> /\ fresh = -1
-----------------------------------------------------------------------------
\* The rows per day a reader of view v sees now.
conn_all_view(v) ==
  [x \in Days |-> IF x > v.wm THEN hot[x] ELSE warm[v.meta][x]]

Count(t) == SumFunction(t)

\* count_with of the probe: each branch with a watermark of its own.
count_with(table, hot_wm, warm_wm, meta) ==
  Count([x \in Days |-> (IF x > hot_wm THEN table[x] ELSE 0) +
                        (IF x <= warm_wm THEN meta[x] ELSE 0)])
-----------------------------------------------------------------------------
\* build_tiered(W): empty tables.
BuildTiered ==
  /\ tierPc = "build" /\ tierPc' = "insert"
  /\ W_HOT' \in W_HOTs
  /\ UNCHANGED <<d, hot, warm, warm_meta, wm, conn_all, overlap, fresh>>

InsertDay ==
  /\ tierPc = "insert" /\ d <= max_day
  /\ hot' = Plus(hot, d, Of(d))
  /\ IF d - W_HOT >= 0
       THEN tierPc' = "append" /\ UNCHANGED d
       ELSE tierPc' = "insert" /\ d' = d + 1
  /\ UNCHANGED <<W_HOT, warm, warm_meta, wm, conn_all, overlap, fresh>>

\* warm.append: the day is in both tables from here on.
AppendWarm ==
  /\ tierPc = "append"
  /\ warm' = Append(warm, Plus(warm[Len(warm)], d - W_HOT, Of(d - W_HOT)))
  /\ tierPc' = "advance"
  /\ UNCHANGED <<W_HOT, d, hot, warm_meta, wm, conn_all, overlap, fresh>>

\* Mutant of AdvanceWatermark: the snapshot confirmed is the one before.
AdvanceWatermark_OldSnapshot ==
  /\ tierPc = "advance"
  /\ warm_meta' = Len(warm) - 1
  /\ wm' = d - W_HOT
  /\ tierPc' = "delete"
  /\ UNCHANGED <<W_HOT, d, hot, warm, conn_all, overlap, fresh>>

\* load_table; the watermark follows the confirmed snapshot.
AdvanceWatermark ==
  /\ tierPc = "advance"
  /\ warm_meta' = Len(warm)
  /\ wm' = d - W_HOT
  /\ tierPc' = "delete"
  /\ UNCHANGED <<W_HOT, d, hot, warm, conn_all, overlap, fresh>>

DeleteHot ==
  /\ tierPc = "delete"
  /\ hot' = [hot EXCEPT ![wm] = 0]
  /\ tierPc' = "view"
  /\ UNCHANGED <<W_HOT, d, warm, warm_meta, wm, conn_all, overlap, fresh>>

\* The view of the new watermark, and the count of the conservation log.
RecreateView ==
  /\ tierPc = "view"
  /\ conn_all' = [wm |-> wm, meta |-> warm_meta]
  /\ d' = d + 1 /\ tierPc' = "insert"
  /\ UNCHANGED <<W_HOT, hot, warm, warm_meta, wm, overlap, fresh>>

LifecycleDone ==
  /\ tierPc = "insert" /\ d > max_day
  /\ conn_all' = [wm |-> wm, meta |-> warm_meta]
  /\ tierPc' = "probe"
  /\ UNCHANGED <<W_HOT, d, hot, warm, warm_meta, wm, overlap, fresh>>

\* Day wm + 1 is moved by hand, and counted on the way: with one watermark,
\* with two, and with the old one after the delete.
OverlapProbe ==
  /\ tierPc = "probe"
  /\ tierPc' = "fresh_hot"
  /\ LET x    == wm + 1
         meta == Plus(warm[Len(warm)], x, Of(x))
         left == [hot EXCEPT ![x] = 0]
     IN IF Of(x) = 0
          THEN /\ overlap' = <<>>
               /\ UNCHANGED <<hot, warm, warm_meta, wm, conn_all>>
          ELSE /\ warm' = Append(warm, meta)
               /\ overlap' = [pinned |-> count_with(hot, x, x, meta),
                            naive  |-> count_with(hot, x - 1, x, meta),
                            stale  |-> count_with(left, x - 1, x - 1, meta)]
               /\ hot' = left
               /\ conn_all' = [wm |-> x, meta |-> Len(warm')]
               /\ wm' = x /\ warm_meta' = Len(warm')
  /\ UNCHANGED <<W_HOT, d, fresh>>

\* A new day is inserted, read through the view, and deleted again.
HotFreshness ==
  /\ tierPc = "fresh_hot"
  /\ conn_all' = [wm |-> wm, meta |-> warm_meta]
  /\ LET new == max_day + 1
     IN fresh' = IF new > wm THEN hot[new] + FreshRows ELSE warm[warm_meta][new]
  /\ tierPc' = "fresh_warm"
  /\ UNCHANGED <<W_HOT, d, hot, warm, warm_meta, wm, overlap>>

\* A new day is appended to warm and read from its snapshot; the view stays.
PostHandoffFreshness ==
  /\ tierPc = "fresh_warm"
  /\ warm' = Append(warm, Plus(warm[Len(warm)], max_day + 1, FreshRows))
  /\ fresh' = warm'[Len(warm')][max_day + 1]
  /\ tierPc' = "done"
  /\ UNCHANGED <<W_HOT, d, hot, warm_meta, wm, conn_all, overlap>>

TieredNext ==
  \/ BuildTiered \/ InsertDay \/ AppendWarm \/ AdvanceWatermark \/ DeleteHot \/ RecreateView
  \/ LifecycleDone \/ OverlapProbe \/ HotFreshness \/ PostHandoffFreshness
-----------------------------------------------------------------------------
Ingested == [x \in Days |-> IF x < d \/ (x = d /\ tierPc \notin {"insert"}) THEN Of(x) ELSE 0]

(* "one watermark for both branches counts each row once": whoever reads     *)
(* conn_all at any moment of the lifecycle finds every row that was ingested, *)
(* once; but for the rows of the one day that is deleted from hot before the  *)
(* view is created again.                                                    *)
Conservation ==
  conn_all.meta > 0 =>
    conn_all_view(conn_all) =
      [x \in Days |-> IF tierPc = "view" /\ x = wm THEN 0 ELSE Ingested[x]]

(* overlap_probe reports "pinned-correct; naive-duplicates; stale-pin-drops"  *)
(* whenever there is a day to stage, whatever the hot window and the sizes.   *)
ProbeTellsContracts ==
  overlap # <<>> =>
    /\ overlap.pinned = Count(Ingested)
    /\ overlap.naive > Count(Ingested) /\ overlap.stale < Count(Ingested)

(* A reader of conn_all sees each row once through the whole hand-off, and     *)
(* the probe that shows what other contracts would do to it says the same for *)
(* every hot window.                                                        *)
OneWatermark == Conservation /\ ProbeTellsContracts
=============================================================================
