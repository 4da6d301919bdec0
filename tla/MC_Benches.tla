------------------------------ MODULE MC_Benches ------------------------------
(***************************************************************************)
(* The programs of the repository that share nothing with one another, side  *)
(* by side: in a behaviour one of them, the subject, runs, and the others     *)
(* stay where they start.  Those that only compute draw their input.         *)
(***************************************************************************)
EXTENDS MappingRun, CatalogContention, ClosedLoop, IngestHarness, TieredTables,
        AssuranceGap, IdentityMerge, Routing, ZOrder, ContextPaths, ContextGraph,
        MultiEngine, NormScore, SigmaWindows, ContextCollapse

VARIABLE
  subject

runVars   == <<mappingVars, contentionVars, closedLoopVars, ingestVars, tieredVars, linkerVars,
               pathVars, matrixVars>>
drawnVars == <<surveyed, routed, crosswalk, written, scored, planted, corpus>>

mcVars == <<subject, runVars, drawnVars>>
-----------------------------------------------------------------------------
MCItems      == <<"a", "b">>
MCConditions == <<"x", "y">>
MCLevels     == <<1, 2>>
MCSurvives   == <<TRUE, TRUE, FALSE>>
MCDayRows    == <<2, 1, 0, 1>>
MCDrawn      == {draw \in Draws : Possible(draw)}

\* 1000 * 2^(-age / half-life), rounded down, for the ages 0 to 75.
MCDecay ==
  LET Remains(table) == [age \in 0..75 |-> table[age + 1]]
  IN  [h \in {7, 14, 28, 90} |->
         CASE h = 7  -> Remains(<<
             1000, 905, 820, 742, 672, 609, 552, 500, 452, 410, 371, 336, 304, 276, 250,
             226, 205, 185, 168, 152, 138, 125, 113, 102, 92, 84, 76, 69, 62, 56, 51, 46,
             42, 38, 34, 31, 28, 25, 23, 21, 19, 17, 15, 14, 12, 11, 10, 9, 8, 7, 7, 6, 5,
             5, 4, 4, 3, 3, 3, 2, 2, 2, 2, 1, 1, 1, 1, 1, 1, 1, 0, 0, 0, 0, 0, 0>>)
           [] h = 14 -> Remains(<<
             1000, 951, 905, 861, 820, 780, 742, 707, 672, 640, 609, 580, 552, 525, 500,
             475, 452, 430, 410, 390, 371, 353, 336, 320, 304, 290, 276, 262, 250, 237,
             226, 215, 205, 195, 185, 176, 168, 160, 152, 145, 138, 131, 125, 118, 113,
             107, 102, 97, 92, 88, 84, 80, 76, 72, 69, 65, 62, 59, 56, 53, 51, 48, 46, 44,
             42, 40, 38, 36, 34, 32, 31, 29, 28, 26, 25, 24>>)
           [] h = 28 -> Remains(<<
             1000, 975, 951, 928, 905, 883, 861, 840, 820, 800, 780, 761, 742, 724, 707,
             689, 672, 656, 640, 624, 609, 594, 580, 565, 552, 538, 525, 512, 500, 487,
             475, 464, 452, 441, 430, 420, 410, 400, 390, 380, 371, 362, 353, 344, 336,
             328, 320, 312, 304, 297, 290, 282, 276, 269, 262, 256, 250, 243, 237, 232,
             226, 220, 215, 210, 205, 200, 195, 190, 185, 181, 176, 172, 168, 164, 160, 156>>)
           [] h = 90 -> Remains(<<
             1000, 992, 984, 977, 969, 962, 954, 947, 940, 933, 925, 918, 911, 904, 897,
             890, 884, 877, 870, 863, 857, 850, 844, 837, 831, 824, 818, 812, 806, 799,
             793, 787, 781, 775, 769, 763, 757, 752, 746, 740, 734, 729, 723, 718, 712,
             707, 701, 696, 690, 685, 680, 675, 669, 664, 659, 654, 649, 644, 639, 634,
             629, 625, 620, 615, 610, 606, 601, 596, 592, 587, 583, 578, 574, 569, 565, 561>>)]

\* Assets at the ends of their ranges: readings that are all as fresh or as old as
\* they may be, and the one against the other; scans on both sides of day 7.
MCEstate ==
  {a \in {[kind |-> kind, owner |-> ages[1], business_criticality |-> 2 - ages[1],
           is_managed |-> ages[2], os_version |-> ages[3], ip_address |-> ages[4],
           last_seen |-> ages[5], os_right |-> right[1], ip_right |-> right[2],
           edr |-> edr # 2, edr_os |-> edr % 2, vuln |-> scan[1] < 36,
           days_since_scan |-> scan[1] % 36, drifted |-> scan[2], idp |-> idp] :
             kind \in {"workstation", "server", "network-gear", "shadow-cloud"},
             ages \in {<<0, 0, 21, 14, 14>>, <<2, 5, 75, 60, 60>>, <<2, 0, 21, 60, 14>>},
             right \in BOOLEAN \X BOOLEAN, edr \in 0..2,
             scan \in {<<0, FALSE>>, <<7, FALSE>>, <<8, TRUE>>, <<35, FALSE>>, <<36, FALSE>>},
             idp \in BOOLEAN} :
     (a.edr => a.kind \in {"workstation", "server"}) /\ (a.idp => a.kind = "workstation")}

\* Queries over one to five tables, with and without the view.
MCQueries ==
  {q \in [tables : {{"conn"}, {"conn", "iocs"}, {"conn", "dim_host"}, {"soc_summary_v"},
                    {"soc_summary_v", "iocs"}, {"conn", "dns", "dim_host"},
                    {"conn", "dns", "http", "iocs"}, {"conn", "dns", "http", "iocs", "dim_host"}},
          joins : 0..5, exists : BOOLEAN, agg : BOOLEAN, distinct : BOOLEAN, having : BOOLEAN,
          limit : BOOLEAN, group : {FALSE}, order : {FALSE},
          time : {<<>>} \cup {<<c>> : c \in Comparisons}] :
     q.having => q.agg}

MCFiles == [1..4 -> [ip : 0..1, port : 0..1, time : {0, 3}]]
MCPreds == {{[kind |-> "range", col |-> "time", vals |-> {1, 3}]},
            {[kind |-> "in", col |-> "time", vals |-> {0, 2}],
             [kind |-> "eq", col |-> "ip", vals |-> {1}]}}

E(src, dst, rel, quality) == [src |-> src, dst |-> dst, rel |-> rel, quality |-> quality]

\* The edges scg.py writes of a crosswalk with one field that has no OCSF path,
\* then one of each other kind, the parallel ones included.
MCGraphEdges ==
  SetToSeq(hop1_fields([nodes |-> <<>>, edges |-> {}], [field |-> "null"]).edges) \o
  <<E("class", "event", "references", "doc_link"),
    E("event", "class", "seeAlso", "doc_link"),
    E("event", "class", "seeAlso", "doc_link"),
    E("event", "artifact", "involves", "ontology_axiom"),
    E("defense", "artifact", "observes", "ontology_curated"),
    E("attack", "artifact", "produces", "artifact_cooccurrence"),
    E("defense", "attack", "may_counter", "artifact_cooccurrence")>>

MCSearches ==
  [src : {"field", "artifact"}, dst : {"artifact", "attack", "class"}, max_hops : {0, 3, 4, 9},
   min_trust : {0, 25, 60}, limit : {2, 8}, budget : {12, 100}]

Entry(type, ocsf, refs, subclass_of, restricts) ==
  [type |-> type, ocsf |-> ocsf, refs |-> refs, subclass_of |-> subclass_of,
   restricts |-> restricts]

\* An artifact below another, an event on it, and an artifact that has an OCSF
\* page itself and is named by a row as well.
MCOntology ==
  [file    |-> Entry("artifact", {}, {}, {"DigitalArtifact"}, {}),
   log     |-> Entry("artifact", {"page"}, {}, {"file"}, {"file"}),
   event   |-> Entry("event", {"page"}, {}, {}, {"file", "log", "elsewhere"}),
   defense |-> Entry("defensive_technique", {}, {"control"}, {}, {}),
   control |-> Entry("control", {}, {}, {}, {}),
   guide   |-> Entry("mitigation", {}, {"defense"}, {}, {})]

MCTechniqueOf ==
  [t \in {"T1", "T1.1", "T2", "T2.1"} |-> IF t \in {"T1", "T1.1"} THEN "T1" ELSE "T2"]

MCCrosswalks ==
  [ontology : {MCOntology}, bridge : {[f1 |-> "src_ip", f2 |-> "null"]},
   rows : {{[defense |-> "defense", def_artifact |-> "log", attack |-> "T1",
             off_artifact |-> "file"]}},
   wall : SUBSET ({"d1", "d2"} \X {"T1", "T1.1", "T2.1"}),
   scf : SUBSET ({"c1", "c2"} \X {"T1", "T1.1", "T2"})]

MCReaders == <<"duckdb">>
MCServers == <<"clickhouse_server", "trino", "feldera">>

\* The keys of two records of a source, the first alone or as often as brings the
\* fields just below where rounding begins.
MCPairs ==
  {<<generate(source, failed[1], ops[1]), generate(source, failed[2], ops[2])>> :
     source \in SOURCES, failed \in BOOLEAN \X BOOLEAN,
     ops \in {<<"GetObject", "PutObject">>, <<"Decrypt", "Decrypt">>}}

Corpus(pair, records) ==
  <<[gold |-> pair[1], records |-> records], [gold |-> pair[2], records |-> 1]>>

MCGolds == {Corpus(pair, n) : pair \in MCPairs, n \in {1, 1332}}

\* Bursts in the first and the last bucket, the first n failures early; decoys whose
\* failures from m to n are late; and the draws of the hosts, each at its extremes.
MCBursts(margin) ==
  {[i \in 1..BURST_N |-> bucket * WINDOW_S + (IF i <= n THEN margin ELSE WINDOW_S - margin)] :
     bucket \in {0, 431, 6 * 24 * 6}, n \in 0..BURST_N}

MCDecoys(span) ==
  LET step == span \div DECOY_N
  IN  {[i \in 1..DECOY_N |-> (i - 1) * step + (IF i \in m..n THEN step - 1 ELSE 0)] :
         m \in 1..DECOY_N, n \in 0..DECOY_N}

MCUsers ==
  [rule : {"count"}, kind : {"true"}, times : MCBursts(10) \cup MCBursts(5)] \cup
  [rule : {"count"}, kind : {"benign"},
   times : UNION {[1..n -> {0, WINDOW_S - 1, 7 * Day}] : n \in 0..5}] \cup
  [rule : {"count"}, kind : {"decoy"}, times : MCDecoys(7 * Day) \cup MCDecoys(Day)]

MCHosts ==
  LET Pairs(kind, first, gap) ==
        {[rule |-> "sequence", kind |-> kind, ps |-> b + f, rdp |-> b + f + g] :
           b \in {0, 60 * SPAN_S}, f \in first, g \in gap}
  IN  Pairs("inbucket", {60, 3000}, {30, 1500}) \cup
      {h \in Pairs("straddle", {SPAN_S - 600, SPAN_S - 120}, {240, 720, 1200}) :
         Plantable(h)} \cup
      {[h EXCEPT !.ps = h.rdp, !.rdp = h.ps] : h \in Pairs("wrong_order", {60, 3000}, {30, 1500})} \cup
      Pairs("benign_farapart", {60, 1200}, {SPAN_S + 1800, SPAN_S + 7200})
-----------------------------------------------------------------------------
Machines == {"mapping", "contention", "loop", "ingest", "tiers", "linker", "paths",
             "matrix", "gap", "routing", "graph", "zorder", "score", "windows", "collapse"}

MCInit ==
  /\ subject \in Machines
  /\ MappingInit /\ ContentionInit /\ ClosedLoopInit /\ IngestInit
  /\ TieredInit /\ LinkerInit /\ PathInit /\ GapInit /\ RoutingInit /\ GraphInit /\ ZOrderInit
  /\ ScoreInit /\ PlantedInit /\ CollapseInit
  /\ MatrixInit /\ (subject # "matrix" => containers = {})

Runs(s, machine, others) ==
  /\ subject = s /\ machine
  /\ UNCHANGED <<subject, others>>

MCNext ==
  \/ Runs("mapping", MappingNext,
          <<contentionVars, closedLoopVars, ingestVars, tieredVars,
            linkerVars, pathVars, matrixVars, drawnVars>>)
  \/ Runs("contention", ContentionNext,
          <<mappingVars, closedLoopVars, ingestVars, tieredVars,
            linkerVars, pathVars, matrixVars, drawnVars>>)
  \/ Runs("loop", ClosedLoopNext,
          <<mappingVars, contentionVars, ingestVars, tieredVars,
            linkerVars, pathVars, matrixVars, drawnVars>>)
  \/ Runs("ingest", IngestNext,
          <<mappingVars, contentionVars, closedLoopVars, tieredVars,
            linkerVars, pathVars, matrixVars, drawnVars>>)
  \/ Runs("tiers", TieredNext,
          <<mappingVars, contentionVars, closedLoopVars, ingestVars,
            linkerVars, pathVars, matrixVars, drawnVars>>)
  \/ Runs("linker", LinkerNext,
          <<mappingVars, contentionVars, closedLoopVars, ingestVars,
            tieredVars, pathVars, matrixVars, drawnVars>>)
  \/ Runs("paths", PathNext,
          <<mappingVars, contentionVars, closedLoopVars, ingestVars,
            tieredVars, linkerVars, matrixVars, drawnVars>>)
  \/ Runs("matrix", MatrixNext,
          <<mappingVars, contentionVars, closedLoopVars, ingestVars,
            tieredVars, linkerVars, pathVars, drawnVars>>)
  \/ Runs("gap", GapNext,
          <<runVars, routed, crosswalk, written, scored, planted, corpus>>)
  \/ Runs("routing", RoutingNext,
          <<runVars, surveyed, crosswalk, written, scored, planted, corpus>>)
  \/ Runs("graph", GraphNext,
          <<runVars, surveyed, routed, written, scored, planted, corpus>>)
  \/ Runs("zorder", ZOrderNext,
          <<runVars, surveyed, routed, crosswalk, scored, planted, corpus>>)
  \/ Runs("score", ScoreNext,
          <<runVars, surveyed, routed, crosswalk, written, planted, corpus>>)
  \/ Runs("windows", PlantedNext,
          <<runVars, surveyed, routed, crosswalk, written, scored, corpus>>)
  \/ Runs("collapse", CollapseNext,
          <<runVars, surveyed, routed, crosswalk, written, scored, planted>>)

\* The fairness of the subject alone.
MCSpec ==
  /\ MCInit /\ [][MCNext]_mcVars
  /\ (subject = "loop" => ClosedLoopFairness)
  /\ (subject = "ingest" => IngestFairness)
-----------------------------------------------------------------------------
(* The programs that wait for others end: the sweep of the closed loop once    *)
(* its warm-up has returned, with queries that never do, connects that fail    *)
(* and memory that runs short, unless a client never gets out of its connect;  *)
(* and a row of the ingest harness, whenever its engine crashes or hangs.      *)
ProgramsEnd == (subject = "loop" => SweepEnds) /\ (subject = "ingest" => RowEnds)
=============================================================================
