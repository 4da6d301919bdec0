----------------------------- MODULE ContextGraph -----------------------------
(***************************************************************************)
(* security-context-graph/scg.py: loaders, one per hop, add the nodes and      *)
(* edges of several crosswalks to one graph, and rollups are computed on the  *)
(* way.  A node keeps the type of the loader that named it first.             *)
(*                                                                         *)
(* A source is what the loaders read of it: ontology entries with their        *)
(* links, and the rows of the wall and of the SCF file.                       *)
(***************************************************************************)
EXTENDS Integers, FiniteSetsExt, Functions

CONSTANTS
  TechniqueOf,   \* ATT&CK id -> the technique it is or belongs to
  Crosswalks     \* the sources main() may be given

VARIABLE
  crosswalk      \* the one that the graph is built from, <<>> before

\* The ids of pages, fields and the class have prefixes that no ontology id has.
ASSUME CrosswalksAssumption ==
  \A source \in Crosswalks :
    LET pages  == UNION {source.ontology[n].ocsf : n \in DOMAIN source.ontology}
        fields == (DOMAIN source.bridge) \cup {source.bridge[f] : f \in DOMAIN source.bridge}
    IN (pages \cup fields \cup {"class"}) \cap DOMAIN source.ontology = {}

\* Ontology: entry id -> [type, ocsf, control_refs, subclass_of, restricts].
\* refs are SKOS relations to other ids; ocsf the OCSF pages it links to;
\* restricts the targets of its subclass restrictions.

Link(src, dst, rel, quality) == [src |-> src, dst |-> dst, rel |-> rel, quality |-> quality]

\* Mutant of add: the last writer names the type.
add_LastWins(graph, nodes, edges) ==
  [nodes |-> [n \in (DOMAIN graph.nodes) \cup (DOMAIN nodes) |->
                IF n \in DOMAIN nodes THEN nodes[n] ELSE graph.nodes[n]],
   edges |-> graph.edges \cup edges]

\* SCG.node and SCG.edge: nodes (id -> type) that are there stay as they are.
add(graph, nodes, edges) ==
  [nodes |-> [n \in (DOMAIN graph.nodes) \cup (DOMAIN nodes) |->
                IF n \in DOMAIN graph.nodes THEN graph.nodes[n] ELSE nodes[n]],
   edges |-> graph.edges \cup edges]

\* Nodes given as pairs <<id, type>>; of two for an id either may be first.
Typed(pairs) == [n \in {p[1] : p \in pairs} |-> (CHOOSE p \in pairs : p[1] = n)[2]]

\* Hop 1: the fields of the crosswalk; one without an OCSF path is an unmapped
\* edge to the class itself.  bridge: field -> the OCSF field, or "null".
hop1_fields(graph, bridge) ==
  LET fields == DOMAIN bridge
      mapped == {f \in fields : bridge[f] # "null"}
  IN add(graph, Typed({<<f, "source_field">> : f \in fields} \cup {<<"class", "ocsf">>} \cup
                      {<<bridge[f], "ocsf_field">> : f \in mapped}),
         {Link(f, bridge[f], "normalizes", "measured") : f \in mapped} \cup
         {Link(bridge[f], "class", "field_of", "measured") : f \in mapped} \cup
         {Link(f, "class", "unmapped", "measured") : f \in fields \ mapped})

\* Hop 2: entries with a link to an OCSF page, in both directions.
hop2_ocsf_d3fend(graph, ont) ==
  LET links == {l \in (DOMAIN ont) \X UNION {ont[n].ocsf : n \in DOMAIN ont} :
                  l[2] \in ont[l[1]].ocsf}
  IN add(graph, Typed({<<l[1], "d3fend_event">> : l \in links} \cup
                      {<<l[2], "ocsf">> : l \in links}),
         {Link(l[2], l[1], "references", "doc_link") : l \in links} \cup
         {Link(l[1], l[2], "seeAlso", "doc_link") : l \in links})

\* subclass_descendants: everything below root.
subclass_descendants(ont, root) ==
  LET below[n \in 0..Cardinality(DOMAIN ont)] ==
        IF n = 0 THEN {root}
        ELSE LET b == below[n - 1]
             IN b \cup {c \in DOMAIN ont : ont[c].subclass_of \cap b # {}}
  IN below[Cardinality(DOMAIN ont)] \ {root}

\* Hop 2b: from the entries typed as events to the artifacts their class
\* restrictions name.
hop2b_event_artifact(graph, ont) ==
  LET artifacts == subclass_descendants(ont, "DigitalArtifact")
      events    == {n \in DOMAIN graph.nodes : graph.nodes[n] = "d3fend_event"}
      links     == {l \in events \X artifacts : l[2] \in ont[l[1]].restricts}
  IN add(graph, Typed({<<l[2], "artifact">> : l \in links}),
         {Link(l[1], l[2], "event", "ontology_axiom") : l \in links})

\* Hop 3 and 4: rows [defense, def_artifact, attack, off_artifact].
hop34_artifacts(graph, rows) ==
  add(graph, Typed({<<r.defense, "defense">> : r \in rows} \cup
                   {<<r.attack, "attack">> : r \in rows} \cup
                   {<<r.def_artifact, "artifact">> : r \in rows} \cup
                   {<<r.off_artifact, "artifact">> : r \in rows}),
      {Link(r.defense, r.def_artifact, "observes", "ontology_curated") : r \in rows} \cup
      {Link(r.attack, r.off_artifact, "produces", "artifact_cooccurrence") : r \in rows})

\* Hop 4': the wall, pairs <<defense, attack>>.
hop4_inferred_matrix(graph, wall) ==
  add(graph, Typed({<<w[1], "defense">> : w \in wall} \cup {<<w[2], "attack">> : w \in wall}),
      {Link(w[1], w[2], "may_counter", "artifact_cooccurrence") : w \in wall})

\* Hop 4' curated: mitigations related to defensive techniques.
hop4prime_curated(graph, ont) ==
  LET links == {l \in (DOMAIN ont) \X (DOMAIN ont) :
                  /\ ont[l[1]].type = "mitigation" /\ ont[l[2]].type = "defensive_technique"
                  /\ l[2] \in ont[l[1]].refs}
      mitigations == {m \in DOMAIN ont : ont[m].type = "mitigation"}
  IN add(graph, Typed({<<m, "attack_mitigation">> : m \in mitigations} \cup
                      {<<l[2], "defense">> : l \in links}),
         {Link(l[2], l[1], "curated_mitigation", "curated") : l \in links})

\* Hop 5: the SKOS relations with one control end and one technique end.
skos(ont) ==
  {s \in (DOMAIN ont) \X (DOMAIN ont) :
     /\ ont[s[2]].type = "control" /\ ont[s[1]].type = "defensive_technique"
     /\ (s[2] \in ont[s[1]].refs \/ s[1] \in ont[s[2]].refs)}

hop5_skos(graph, ont) ==
  add(graph, Typed({<<s[1], "defense">> : s \in skos(ont)} \cup
                   {<<s[2], "control">> : s \in skos(ont)}),
      {Link(s[1], s[2], "skos", "skos_typed") : s \in skos(ont)})

\* Hop 5', the SCF layer: pairs <<control, attack>>.
hop5prime_scf(graph, scf) ==
  add(graph, Typed({<<s[1], "scf_control">> : s \in scf} \cup {<<s[2], "attack">> : s \in scf}),
      {Link(s[2], s[1], "mitigated_by", "ctid_reroute") : s \in scf})

main(source) ==
  LET g0 == [nodes |-> <<>>, edges |-> {}]
      gf == hop1_fields(g0, source.bridge)
      g1 == hop2_ocsf_d3fend(gf, source.ontology)
      g2 == hop2b_event_artifact(g1, source.ontology)
      g3 == hop34_artifacts(g2, source.rows)
      g4 == hop4_inferred_matrix(g3, source.wall)
      gm == hop4prime_curated(g4, source.ontology)
      g5 == hop5_skos(gm, source.ontology)
  IN hop5prime_scf(g5, source.scf)
-----------------------------------------------------------------------------
\* tid.split(".")[0]
base(t) == TechniqueOf[t]

\* (a in exact) or (base(a) in bases)
covers(attacks, a) == a \in attacks \/ base(a) \in {base(b) : b \in attacks}

AttacksOf(pairs, x) == {p[2] : p \in {p \in pairs : p[1] = x}}
Rights(pairs) == {p[2] : p \in pairs}
Lefts(pairs)  == {p[1] : p \in pairs}

\* wall_defenses_reaching_scf, scf_controls_reached, wall_attack_gaps.
reached_def(source) ==
  {d \in Lefts(source.wall) :
     \E a \in AttacksOf(source.wall, d) : covers(Rights(source.scf), a)}

controls_reached(source) ==
  {c \in Lefts(source.scf) :
     \E a \in AttacksOf(source.scf, c) : covers(Rights(source.wall), a)}

gaps(source) == {a \in Rights(source.wall) : ~covers(Rights(source.scf), a)}
-----------------------------------------------------------------------------
GraphInit == crosswalk = <<>>

GraphNext == crosswalk = <<>> /\ crosswalk' \in Crosswalks
-----------------------------------------------------------------------------
\* The chains of two edges from a defense to a control: the one may counter a
\* technique, which the other mitigates.
Chains(graph) ==
  {p \in {e \in graph.edges : e.rel = "may_counter"} \X
         {e \in graph.edges : e.rel = "mitigated_by"} : p[1].dst = p[2].src}

(* The three published figures of the SCF layer, counted on the rows with a     *)
(* technique standing for those of its base, are safe against the graph and    *)
(* agree with one another: whatever a chain of edges joins is counted, on both *)
(* ends; from a technique counted as a gap no edge leads to a control; a       *)
(* defense is out of reach exactly if all its attacks are gaps, and either     *)
(* defenses and controls are reached or none of both.  (What is counted for    *)
(* a base that a technique only shares, no chain of edges need join.)         *)
ReachMatchesGraph(source) ==
  LET graph == main(source)
  IN /\ \A p \in Chains(graph) :
          p[1].src \in reached_def(source) /\ p[2].dst \in controls_reached(source)
     /\ \A e \in graph.edges : e.rel = "mitigated_by" => e.src \notin gaps(source)
     /\ \A d \in Lefts(source.wall) :
          d \notin reached_def(source) <=> AttacksOf(source.wall, d) \subseteq gaps(source)
     /\ reached_def(source) = {} <=> controls_reached(source) = {}

(* The path from an OCSF page to a defense holds end to end: an event that a   *)
(* page refers to is joined to every artifact its restrictions name, also if   *)
(* another loader names the artifact or the event for something else.         *)
SchemaPathHolds(source) ==
  LET ont   == source.ontology
      graph == main(source)
  IN \A n \in DOMAIN ont : ont[n].ocsf # {} =>
       /\ graph.nodes[n] = "d3fend_event"
       /\ \A a \in ont[n].restricts \cap subclass_descendants(ont, "DigitalArtifact") :
            Link(n, a, "event", "ontology_axiom") \in graph.edges

(* The reach figures of the SCF layer leave out nothing that the graph joins,   *)
(* and the chain from an OCSF page to the artifacts of its events holds,       *)
(* whichever loader names a node first.                                      *)
Graph == crosswalk # <<>> => ReachMatchesGraph(crosswalk) /\ SchemaPathHolds(crosswalk)
=============================================================================
