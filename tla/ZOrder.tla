-------------------------------- MODULE ZOrder --------------------------------
(***************************************************************************)
(* ocsf-zorder-pruning/run.py: one corpus written in three orders, the row     *)
(* groups of each file with their min/max statistics, and the row groups a     *)
(* query need not read.                                                      *)
(*                                                                         *)
(* A row has the three columns that a layout sorts by or a query asks for.    *)
(***************************************************************************)
EXTENDS Integers, Sequences, FiniteSetsExt, Functions

CONSTANTS
  Z_BITS,
  ROW_GROUP_SIZE,
  BUCKET,         \* the length of a time bucket, an hour in the code
  Files,          \* the corpora that can be generated, sequences of rows
  PredicateLists  \* the queries, each the set of its predicates

VARIABLE
  written         \* the corpus and the query that are drawn, <<>> before

Columns == {"ip", "port", "time"}

Rows == [Columns -> Int]

\* A predicate: its kind, column, and the set of values, of which a range
\* uses the ends and an equality the only one.
Predicates ==
  {p \in [kind : {"range", "eq", "in"}, col : Columns, vals : SUBSET Int] :
     p.vals # {} /\ IsFiniteSet(p.vals)}

ASSUME ZOrderAssumption ==
  /\ Z_BITS \in Nat \ {0} /\ ROW_GROUP_SIZE \in Nat \ {0} /\ BUCKET \in Nat \ {0}
  /\ \A file \in Files : file \in Seq(Rows)
  /\ \A preds \in PredicateLists : \A p \in preds : p \in Predicates

\* 1 << n
shifted[n \in 0..Z_BITS] == IF n = 0 THEN 1 ELSE 2 * shifted[n - 1]

Z_MAX == shifted[Z_BITS]

\* The lowest n bits of a number, bit i of it at 3 * i.
spread[n \in 0..Z_BITS] ==
  [x \in Nat |-> IF n = 0 THEN 0 ELSE (x % 2) + 8 * spread[n - 1][x \div 2]]

spread_bits(x) == spread[Z_BITS][x]

\* The bits of the three are disjoint: "or" is a sum.
bit_interleave_3(a, b, c) == spread_bits(a) + 2 * spread_bits(b) + 4 * spread_bits(c)

\* Values of a column from [lo, hi] to [0, Z_MAX - 1].
scale(v, lo, hi) ==
  LET rng    == Max({hi - lo, 1})
      scaled == ((v - lo) * (Z_MAX - 1)) \div rng
  IN Min({Max({scaled, 0}), Z_MAX - 1})

Values(rows, col) == {rows[i][col] : i \in DOMAIN rows}

\* The dimensions of the order: of the time, its bucket.
Dimensions(rows) ==
  [i \in DOMAIN rows |-> [rows[i] EXCEPT !["time"] = rows[i]["time"] \div BUCKET]]

Scaled(rows, i) ==
  LET dims == Dimensions(rows)
  IN [col \in Columns |->
        scale(dims[i][col], Min(Values(dims, col)), Max(Values(dims, col)))]

z_value(rows, i) ==
  LET at == Scaled(rows, i) IN bit_interleave_3(at["ip"], at["port"], at["time"])

\* A stable sort by one key: the rank of each row, and the rows in order of rank.
Upto(key, i) ==
  {j \in DOMAIN key : key[j] < key[i] \/ (key[j] = key[i] /\ j <= i)}

sort_indices(key) ==
  [n \in DOMAIN key |-> CHOOSE i \in DOMAIN key : Cardinality(Upto(key, i)) = n]

take(rows, order) == [i \in DOMAIN rows |-> rows[order[i]]]

\* The three files.
Layout(rows, name) ==
  CASE name = "unordered"   -> rows
    [] name = "single_sort" ->
         take(rows, sort_indices([i \in DOMAIN rows |-> rows[i]["ip"]]))
    [] name = "zorder"      ->
         take(rows, sort_indices([i \in DOMAIN rows |-> z_value(rows, i)]))

Layouts == {"unordered", "single_sort", "zorder"}

\* The row groups of a file, each with its place, and the statistics of one.
Groups(file) ==
  {<<i, SubSeq(file, i, Min({i + ROW_GROUP_SIZE - 1, Len(file)}))>> :
     i \in {i \in DOMAIN file : i % ROW_GROUP_SIZE = 1 % ROW_GROUP_SIZE}}

row_group_stats(group) ==
  [col \in Columns |-> [min |-> Min(Values(group, col)), max |-> Max(Values(group, col))]]

Holds(pred, row) ==
  IF pred.kind = "range" THEN row[pred.col] \in Min(pred.vals)..Max(pred.vals)
  ELSE row[pred.col] \in pred.vals

\* Mutant of rg_prunable: for IN, any listed value outside is enough.
rg_prunable_AnyValue(stats, preds) ==
  \E p \in preds : \E v \in p.vals :
    stats[p.col].max < v \/ stats[p.col].min > v

\* One predicate that no value between min and max can satisfy is enough.
rg_prunable(stats, preds) ==
  \E p \in preds : stats[p.col].max < Min(p.vals) \/ stats[p.col].min > Max(p.vals)

count_prunable_rgs(file, preds) ==
  LET pruned == {g \in Groups(file) : rg_prunable(row_group_stats(g[2]), preds)}
  IN [pruned |-> pruned, scanned |-> Groups(file) \ pruned]

Matching(rows, preds) == {i \in DOMAIN rows : \A p \in preds : Holds(p, rows[i])}
-----------------------------------------------------------------------------
ZOrderInit == written = <<>>

ZOrderNext ==
  /\ written = <<>>
  /\ \E file \in Files, preds \in PredicateLists : written' = [rows |-> file, preds |-> preds]
-----------------------------------------------------------------------------
(* The pruning counts are counts an engine may act on: in none of the layouts  *)
(* is a group counted prunable that holds a row the query returns, and the     *)
(* groups it scans hold all that the unordered file would return.             *)
PruningSound(rows, preds) ==
  \A name \in Layouts :
    LET counted == count_prunable_rgs(Layout(rows, name), preds)
        found   == SumFunction([g \in counted.scanned |-> Cardinality(Matching(g[2], preds))])
    IN /\ \A g \in counted.pruned : Matching(g[2], preds) = {}
       /\ found = Cardinality(Matching(rows, preds))

(* A Z-order is one: the code of a row tells its scaled coordinates, and a    *)
(* row that is no less than another in every dimension has no lesser code.    *)
ZCodeTellsCell(rows) ==
  \A i, j \in DOMAIN rows :
    /\ z_value(rows, i) = z_value(rows, j) => Scaled(rows, i) = Scaled(rows, j)
    /\ (\A col \in Columns : rows[i][col] <= rows[j][col]) =>
         z_value(rows, i) <= z_value(rows, j)

(* No layout counts a row group prunable that holds a row of the answer, and   *)
(* the Z-order codes of a file tell its cells apart and are monotone.         *)
Pruning == written # <<>> => PruningSound(written.rows, written.preds) /\ ZCodeTellsCell(written.rows)
=============================================================================
