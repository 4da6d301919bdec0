----------------------------- MODULE ContextPaths -----------------------------
(***************************************************************************)
(* security-context-graph/scg_mcp.py: the graph as it is served, and the      *)
(* search for chains between two nodes.  The search is depth first, over      *)
(* edges in either direction, within a number of hops, of results and of      *)
(* expansions.                                                               *)
(***************************************************************************)
EXTENDS Integers, Sequences, SequencesExt, FiniteSetsExt

CONSTANTS
  GraphEdges,      \* edges.json: a sequence of [src, dst, rel, quality]
  Searches         \* [src, dst, max_hops, min_trust, limit, budget]

ASSUME PathsAssumption ==
  /\ GraphEdges \in Seq([src : STRING, dst : STRING, rel : STRING, quality : STRING])
  /\ Searches \subseteq [src : STRING, dst : STRING, max_hops : Int, min_trust : Int,
                         limit : Int, budget : Int]

VARIABLES
  search,          \* the arguments, after clamping
  path,            \* frames of dfs: node, entries of adj still to try, entered
  hops,            \* the hops between them
  found,           \* the chains, in the order found
  expansions       \* budget left

pathVars == <<search, path, hops, found, expansions>>

\* Trust per cent.
TRUST ==
  [measured |-> 100, skos_typed |-> 90, ontology_axiom |-> 85, doc_link |-> 80,
   ontology_curated |-> 70, curated |-> 65, ctid_reroute |-> 50, scf_strm |-> 45,
   derived |-> 40, artifact_cooccurrence |-> 25, unmapped |-> 0]

trust(quality) == IF quality \in DOMAIN TRUST THEN TRUST[quality] ELSE 30

\* _load: an edge that repeats an earlier one is dropped.
Repeated(i) == \E j \in 1..(i - 1) : GraphEdges[j] = GraphEdges[i]

Hop(from, to, dir, e) ==
  [from |-> from, to |-> to, rel |-> e.rel, dir |-> dir, quality |-> e.quality,
   trust |-> trust(e.quality)]

\* adj: each edge in both directions, in the order of the file; an edge from a
\* node to itself is there twice.
adj(n) ==
  FlattenSeq([i \in DOMAIN GraphEdges |->
    LET e == GraphEdges[i]
    IN IF Repeated(i) THEN <<>>
       ELSE (IF e.src = n THEN <<Hop(n, e.dst, "out", e)>> ELSE <<>>) \o
            (IF e.dst = n THEN <<Hop(n, e.src, "in", e)>> ELSE <<>>)])

Frame(n) == [node |-> n, todo |-> adj(n), entered |-> FALSE]

Clamped(s) == [s EXCEPT !.max_hops = Max({1, Min({@, 6})})]

NoSearch == <<>>

PathInit ==
  /\ search = NoSearch
  /\ path = <<>> /\ hops = <<>> /\ found = <<>> /\ expansions = 0
-----------------------------------------------------------------------------
\* paths is called.
Search(s) ==
  /\ search = NoSearch /\ search' = Clamped(s)
  /\ path' = <<Frame(s.src)>>
  /\ expansions' = s.budget
  /\ UNCHANGED <<hops, found>>

Top == path[Len(path)]

Full == Len(found) >= search.limit \/ expansions <= 0

Return ==
  /\ path' = Front(path)
  /\ hops' = IF hops = <<>> THEN hops ELSE Front(hops)

AtGoal == Top.node = search.dst /\ hops # <<>>

\* The head of dfs, when it returns there.
Refuse ==
  /\ path # <<>> /\ ~Top.entered
  /\ Full \/ (~AtGoal /\ Len(hops) >= search.max_hops)
  /\ Return
  /\ UNCHANGED <<search, found, expansions>>

\* path_trust is that of the weakest hop.
Found ==
  /\ path # <<>> /\ ~Top.entered
  /\ ~Full /\ AtGoal
  /\ found' = Append(found,
       [hops |-> hops, path_trust |-> Min({hops[i].trust : i \in DOMAIN hops}),
        crosses_inference |-> \E i \in DOMAIN hops : hops[i].trust <= 25])
  /\ Return
  /\ UNCHANGED <<search, expansions>>

Enter ==
  /\ path # <<>> /\ ~Top.entered
  /\ ~Full /\ ~AtGoal /\ Len(hops) < search.max_hops
  /\ path' = [path EXCEPT ![Len(path)].entered = TRUE]
  /\ UNCHANGED <<search, hops, found, expansions>>

OnPath(n) == \E i \in DOMAIN path : path[i].node = n

\* Mutant of Admitted: only the node before is passed over.
Admitted_NotBack(hop) ==
  /\ hop.trust >= search.min_trust
  /\ hops # <<>> => hop.to # hops[Len(hops)].from

Admitted(hop) == ~OnPath(hop.to) /\ hop.trust >= search.min_trust

\* One turn of the loop over adj.
TryEdge ==
  /\ path # <<>> /\ Top.entered /\ Top.todo # <<>>
  /\ expansions' = expansions - 1
  /\ LET hop  == Head(Top.todo)
         rest == [path EXCEPT ![Len(path)].todo = Tail(@)]
     IN IF expansions' <= 0 THEN Return
        ELSE IF Admitted(hop)
          THEN path' = Append(rest, Frame(hop.to)) /\ hops' = Append(hops, hop)
          ELSE path' = rest /\ UNCHANGED hops
  /\ UNCHANGED <<search, found>>

NoEdgeLeft ==
  /\ path # <<>> /\ Top.entered /\ Top.todo = <<>>
  /\ Return
  /\ UNCHANGED <<search, found, expansions>>

PathNext ==
  \/ \E s \in Searches : Search(s)
  \/ Refuse \/ Found \/ Enter \/ TryEdge \/ NoEdgeLeft
-----------------------------------------------------------------------------
\* The nodes of a chain of hops.
Chain(hs) == <<hs[1].from>> \o [i \in DOMAIN hs |-> hs[i].to]

Nodes == {GraphEdges[i].src : i \in DOMAIN GraphEdges} \cup
         {GraphEdges[i].dst : i \in DOMAIN GraphEdges}

Linked(m, n) ==
  \E i \in DOMAIN GraphEdges :
    /\ {GraphEdges[i].src, GraphEdges[i].dst} = {m, n}
    /\ trust(GraphEdges[i].quality) >= search.min_trust

\* Chains of distinct nodes from src to dst, within the hops.
Simple ==
  UNION {{c \in [1..(k + 1) -> Nodes] :
            /\ c[1] = search.src /\ c[k + 1] = search.dst
            /\ \A i \in 1..k : Linked(c[i], c[i + 1])
            /\ \A i, j \in 1..(k + 1) : i # j => c[i] # c[j]} :
         k \in 1..Min({search.max_hops, Cardinality(Nodes) - 1})}

(* paths() is sound, and complete where it says so: what it found are simple   *)
(* chains within the hops and above the trust, and a search that used up      *)
(* neither its expansions ("truncated") nor its limit found all of them, with  *)
(* parallel edges counted apart.                                            *)
PathsExact ==
  path = <<>> /\ search # NoSearch =>
    LET chains == {Chain(found[i].hops) : i \in DOMAIN found}
    IN /\ chains \subseteq Simple
       /\ \A i, j \in DOMAIN found : i # j => found[i].hops # found[j].hops
       /\ ~Full => chains = Simple

(* The comment at the trust table, line 53: an unmapped edge is an "explicit   *)
(* honest gap (a null mapping), not traversable".  No chain found above any    *)
(* threshold of trust has one among its hops.                                *)
GapsNotTraversed ==
  search # NoSearch /\ search.min_trust > 0 =>
    \A i \in DOMAIN found : \A j \in DOMAIN found[i].hops :
      found[i].hops[j].rel # "unmapped"
=============================================================================
