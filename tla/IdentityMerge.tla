----------------------------- MODULE IdentityMerge -----------------------------
(***************************************************************************)
(* ocsf-data-health/run.py, the identity half: four tools name the same       *)
(* people by different keys, a linker joins the records that share a key      *)
(* value, and the attributes are merged per cluster.                         *)
(*                                                                         *)
(* Key values are unique to a person (the generator derives them from one     *)
(* handle), but for a tool's old e-mail address, which nobody else has.       *)
(* Scores are those of ocsf-data-health at the default half-life, in per      *)
(* mille; a last_logon the directory reports late may be wrong.              *)
(***************************************************************************)
EXTENDS Integers, FiniteSetsExt, Functions

CONSTANTS
  People,        \* person ids: naturals
  Drawn,         \* subset of Draws: what the generator may draw for a person
  Rounds         \* of label propagation (40), at least the links of one person


VARIABLES
  linker,        \* "idle", "generated", "propagate", "resolved"
  estate,        \* per person what was drawn
  edge,          \* pairs of records that share a key
  label,         \* per record
  round

linkerVars == <<linker, estate, edge, label, round>>

\* What the draws decide of one person: old_email is HR's, idp, edr and dir
\* the tools that know the person, with or without their second key.
Draws == [old_email  : BOOLEAN,
          idp        : {"absent", "email", "email+upn"},
          edr        : {"absent", "upn", "upn+sam"},
          dir        : {"absent", "sam", "sam+upn"},
          late_logon : BOOLEAN]

ASSUME IdentityAssumption ==
  People \subseteq Nat /\ Drawn \subseteq Draws /\ Rounds \in Nat /\ Rounds >= 3

ID_ATTRIBUTES == {"department", "title", "manager", "account_enabled", "last_logon"}

\* key_rows: the keys that the record of person p in a tool exposes.
KeyValues(p, draw, source) ==
  CASE source = "hr"  -> {<<"employee_id", p>>} \cup
                         (IF draw.old_email THEN {<<"old_email", p>>} ELSE {<<"email", p>>})
    [] source = "idp" -> {<<"email", p>>} \cup
                         (IF draw.idp = "email+upn" THEN {<<"upn", p>>} ELSE {})
    [] source = "edr" -> {<<"upn", p>>} \cup
                         (IF draw.edr = "upn+sam" THEN {<<"sam", p>>} ELSE {})
    [] source = "dir" -> {<<"sam", p>>} \cup
                         (IF draw.dir = "sam+upn" THEN {<<"upn", p>>} ELSE {})

Tools(draw) == {"hr"} \cup {s \in {"idp", "edr", "dir"} : draw[s] # "absent"}

\* A sAMAccountName that the EDR knows is in the directory.
Possible(draw) == draw.edr = "upn+sam" => draw.dir # "absent"

Reading(attribute, right, score) == [attribute |-> attribute, right |-> right, score |-> score]

\* attr_rows with their effective_score.
Readings(draw, source) ==
  CASE source = "hr"  -> {Reading("department", TRUE, 1000), Reading("title", TRUE, 970),
                          Reading("manager", TRUE, 1000)}
    [] source = "idp" -> {Reading("department", TRUE, 880), Reading("title", TRUE, 850)}
    [] source = "edr" -> {Reading("last_logon", TRUE, 950),
                          Reading("account_enabled", TRUE, 800)}
    [] source = "dir" -> {Reading("account_enabled", TRUE, 980),
                          Reading("last_logon", ~draw.late_logon, 400)}

\* The tool records of an estate, and what each exposes.
Records(draws) == {r \in {"hr", "idp", "edr", "dir"} \X People : r[1] \in Tools(draws[r[2]])}

KeysOf(draws, r) == KeyValues(r[2], draws[r[2]], r[1])

\* node_id: one number per record, those of a person in the order of the
\* strings; records of different people are never compared.
node_id(r) ==
  4 * r[2] + (CASE r[1] = "dir" -> 0 [] r[1] = "edr" -> 1 [] r[1] = "hr" -> 2 [] r[1] = "idp" -> 3)

LinkerInit ==
  /\ linker = "idle" /\ estate = <<>>
  /\ edge = {} /\ label = <<>> /\ round = 0
-----------------------------------------------------------------------------
\* gen_identity_truth and gen_identity_observations.
GenerateEstate ==
  /\ linker = "idle" /\ linker' = "generated"
  /\ estate' \in [People -> Drawn]
  /\ UNCHANGED <<edge, label, round>>

\* Pairs of records that expose the same value of the same kind of key.
Edges(draws) ==
  {pair \in Records(draws) \X Records(draws) :
     KeysOf(draws, pair[1]) \cap KeysOf(draws, pair[2]) # {}}

BuildGraph ==
  /\ linker = "generated"
  /\ edge' = Edges(estate)
  /\ label' = [r \in Records(estate) |-> node_id(r)]
  /\ linker' = "propagate"
  /\ UNCHANGED <<estate, round>>

\* One round: the least label among a record and its neighbours.  The loop
\* ends with a round that changed nothing, or with the last one.
Propagate ==
  /\ linker = "propagate" /\ round < Rounds
  /\ label' = [r \in DOMAIN label |->
                 Min({label[q] : q \in {q \in DOMAIN label : q = r \/ <<r, q>> \in edge}})]
  /\ round' = round + 1
  /\ linker' = IF label' = label \/ round' = Rounds THEN "resolved" ELSE "propagate"
  /\ UNCHANGED <<estate, edge>>

LinkerNext == GenerateEstate \/ BuildGraph \/ Propagate
-----------------------------------------------------------------------------
\* _picked: per cluster and attribute the reading of the highest score.
picked(cluster, key) ==
  LET rows == UNION {{<<r, x>> : x \in Readings(estate[r[2]], r[1])} :
                     r \in {r \in Records(estate) : cluster[r] = key}}
  IN [a \in {row[2].attribute : row \in rows} |->
        CHOOSE row \in rows :
          /\ row[2].attribute = a
          /\ \A q \in rows : q[2].attribute = a => q[2].score <= row[2].score]

RowsOf(cluster, p, key) ==
  SumFunction([r \in {r \in Records(estate) : r[2] = p /\ cluster[r] = key} |->
                 Cardinality(Readings(estate[p], r[1]))])

\* Mutant of person_cluster: ORDER BY COUNT( * ) without DESC.
person_cluster_Fewest(cluster, p) ==
  LET mine == {cluster[r] : r \in {r \in Records(estate) : r[2] = p}}
      least == Min({RowsOf(cluster, p, key) : key \in mine})
  IN Min({key \in mine : RowsOf(cluster, p, key) = least})

\* _person_cluster: the cluster with most of a person's readings, the least
\* of several.
person_cluster(cluster, p) ==
  LET mine == {cluster[r] : r \in {r \in Records(estate) : r[2] = p}}
      most == Max({RowsOf(cluster, p, key) : key \in mine})
  IN Min({key \in mine : RowsOf(cluster, p, key) = most})

\* The cells of person p that the merge over clusters recovers.
merge_recovery(cluster, p) ==
  LET best == picked(cluster, person_cluster(cluster, p))
  IN {a \in DOMAIN best : best[a][1][2] = p /\ best[a][2].right}

clean_clusters == [r \in Records(estate) |-> r[2]]
-----------------------------------------------------------------------------
(* The linker ends with the connected components of the shared keys, within   *)
(* its bounded rounds, and no cluster holds records of two people: two        *)
(* records of a person are apart only if a set of records that shares no key  *)
(* with the others separates them.                                           *)
LinkerExact ==
  linker = "resolved" =>
    \A r, q \in DOMAIN label :
      label[r] = label[q] <=>
        /\ r[2] = q[2]
        /\ \A S \in SUBSET {x \in DOMAIN label : x[2] = r[2]} :
             r \in S /\ q \notin S =>
               \E x \in S, y \in DOMAIN label \ S : <<x, y>> \in edge

(* "resolution_tax" is one: for nobody do the contested keys recover more     *)
(* than the clean-key oracle, although a fragment may drop a fresher but      *)
(* wrong reading; and the cluster a person is scored in holds "the plurality  *)
(* of that person's tool-records", although the code counts readings.         *)
ResolutionIsATax ==
  linker = "resolved" =>
    \A p \in People :
      LET mine(key) == {r \in DOMAIN label : r[2] = p /\ label[r] = key}
      IN /\ merge_recovery(label, p) \subseteq merge_recovery(clean_clusters, p)
         /\ \A r \in DOMAIN label :
              Cardinality(mine(label[r])) <= Cardinality(mine(person_cluster(label, p)))

(* The linker finds the connected components within its bounded rounds, and    *)
(* contested keys never recover more of a person than clean ones.             *)
Identity == LinkerExact /\ ResolutionIsATax
=============================================================================
