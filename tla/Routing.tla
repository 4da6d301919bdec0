------------------------------- MODULE Routing -------------------------------
(***************************************************************************)
(* deterministic-routing-sim/route_sim.py: ordered rules choose an engine     *)
(* from the parsed query, by time tier and by shape; with the catalogue the   *)
(* router sees through views.                                                *)
(*                                                                         *)
(* A query is what the rules look at: the table names, the number of joins,    *)
(* which clauses occur, and the kind of each time comparison in the order     *)
(* find_all meets them.                                                      *)
(***************************************************************************)
EXTENDS Integers, Sequences, FiniteSets

CONSTANT
  Queries       \* the corpus, TEMPLATED and ADVERSARIAL

VARIABLE
  routed        \* the query that is scored, <<>> before

\* Comparisons with a time column: the column inside a function, a dynamic
\* function, an interval, a date literal near NOW_REF or far from it.
Comparisons == {"wrapped", "dynamic", "days", "months", "recent", "old"}

AnyQuery ==
  [tables : SUBSET STRING, joins : Nat, exists : BOOLEAN, having : BOOLEAN, group : BOOLEAN,
   order : BOOLEAN, limit : BOOLEAN, agg : BOOLEAN, distinct : BOOLEAN, time : Seq(Comparisons)]

ASSUME RoutingAssumption == Queries \subseteq AnyQuery

Winners(hot, cold, cliff) == [hot |-> hot, cold |-> cold, cliff |-> cliff]

\* The first winner of a cell is the pick; more than one is a tie.
WINNERS ==
  LET SR == "starrocks"  CHI == "clickhouse_iceberg"  CHN == "clickhouse_native"
  IN [join_3table        |-> Winners(<<CHN>>, <<SR>>, {}),
      join_6table        |-> Winners(<<SR>>, <<SR>>, {CHN}),
      aggjoin            |-> Winners(<<CHN>>, <<CHI>>, {}),
      correlated_exists  |-> Winners(<<SR>>, <<SR>>, {}),
      dim_enrichment     |-> Winners(<<CHN>>, <<SR>>, {}),
      large_large        |-> Winners(<<SR, CHI, CHN>>, <<SR, CHI>>, {}),
      two_stream_aggjoin |-> Winners(<<CHN, CHI>>, <<CHI>>, {}),
      ioc_semijoin       |-> Winners(<<CHN>>, <<SR, CHI>>, {}),
      scan_aggregation   |-> Winners(<<CHN>>, <<CHI>>, {}),
      point_lookup       |-> Winners(<<CHN>>, <<CHI>>, {})]

\* The one view, and the shape it hides.
VIEWS == {"soc_summary_v"}
ViewShape == "join_6table"

\* R1: the first comparison decides; without one the tier is "default".
time_tier(q) ==
  IF q.time = <<>> \/ Head(q.time) \in {"wrapped", "dynamic"} THEN "default"
  ELSE IF Head(q.time) \in {"days", "recent"} THEN "hot" ELSE "cold"

\* The rules of R2, in their order: the shape is that of the first that holds.
Rules(q) ==
  LET n_tbl       == Cardinality(q.tables)
      is_topn_agg == q.having \/ (q.group /\ q.order /\ q.limit)
      has_agg     == q.agg \/ q.group
  IN <<<<q.exists,                                   "correlated_exists">>,
       <<q.joins >= 4 \/ n_tbl >= 5,                 "join_6table">>,
       <<(q.joins = 2 \/ n_tbl \in {3, 4}) /\ is_topn_agg, "aggjoin">>,
       <<q.joins = 2 \/ n_tbl \in {3, 4},            "join_3table">>,
       <<q.joins = 1 /\ has_agg /\ q.distinct,       "two_stream_aggjoin">>,
       <<q.joins = 1 /\ "iocs" \in q.tables,         "ioc_semijoin">>,
       <<q.joins = 1 /\ "dim_host" \in q.tables,     "dim_enrichment">>,
       <<q.joins = 1,                                "large_large">>,
       <<q.limit /\ ~has_agg /\ q.joins = 0,         "point_lookup">>,
       <<TRUE,                                       "scan_aggregation">>>>

\* Mutant of shape: a view counts only where it stands alone.
shape_LoneView(q, use_catalog) ==
  LET rules == Rules(q)
      first == CHOOSE i \in DOMAIN rules : rules[i][1] /\ \A j \in 1..(i - 1) : ~rules[j][1]
  IN IF use_catalog /\ q.tables \in {{v} : v \in VIEWS} THEN ViewShape ELSE rules[first][2]

shape(q, use_catalog) ==
  LET rules == Rules(q)
      first == CHOOSE i \in DOMAIN rules : rules[i][1] /\ \A j \in 1..(i - 1) : ~rules[j][1]
  IN IF use_catalog /\ q.tables \cap VIEWS # {} THEN ViewShape ELSE rules[first][2]

\* The scan rows of R3 are reported and decide nothing.
route(q, use_catalog) ==
  LET cell == WINNERS[shape(q, use_catalog)]
      hot  == time_tier(q) = "hot"
  IN [pick |-> Head(IF hot THEN cell.hot ELSE cell.cold), hot |-> hot]

classify_pick(pick, expected_hot, true_shape) ==
  LET cell    == WINNERS[true_shape]
      winners == IF expected_hot THEN cell.hot ELSE cell.cold
  IN IF pick \in cell.cliff THEN "catastrophic_misroute"
     ELSE IF \E i \in DOMAIN winners : winners[i] = pick THEN "correct"
     ELSE "minor_misroute"
-----------------------------------------------------------------------------
RoutingInit == routed = <<>>

\* The routers keep nothing between queries, so that one stands for the corpus.
RoutingNext == routed = <<>> /\ routed' \in Queries
-----------------------------------------------------------------------------
\* The query joins five tables or more, itself or behind a view.
Heavy(q) ==
  q.tables \cap VIEWS # {} \/ q.joins >= 4 \/ Cardinality(q.tables) >= 5

(* "The cliff is avoided STRUCTURALLY": with the catalogue no query over five  *)
(* tables, open or behind a view, is sent to the engine that does not finish   *)
(* it, in whichever tier it belongs; without it only a view can do that.  And  *)
(* it takes a boundary that is static and recent to send one to the hot tier,  *)
(* though not one from below: a comparison is not asked for its direction.   *)
CliffAvoided(q) ==
  LET full == route(q, TRUE)  ast_only == route(q, FALSE)
  IN /\ Heavy(q) => full.pick # "clickhouse_native"
     /\ \A expected_hot \in BOOLEAN :
          classify_pick(full.pick, expected_hot, shape(q, TRUE)) # "catastrophic_misroute"
     /\ Heavy(q) /\ ast_only.pick = "clickhouse_native" => q.tables \cap VIEWS # {}
     /\ full.hot => q.time # <<>> /\ Head(q.time) \in {"days", "recent"}

(* No query over five tables is sent to the engine that cannot join them, nor  *)
(* one to the hot tier whose first time boundary is not static and recent.    *)
Cliff == routed # <<>> => CliffAvoided(routed)
=============================================================================
