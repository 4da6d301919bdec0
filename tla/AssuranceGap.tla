----------------------------- MODULE AssuranceGap -----------------------------
(***************************************************************************)
(* ocsf-data-health/run.py, the asset half: tools report the attributes of an *)
(* asset under the flaw model, and the reports are merged by confidence       *)
(* decayed with age, plus a bonus for the authority of record.               *)
(*                                                                         *)
(* A report is right or wrong, and has an age and a confidence.  The merge    *)
(* treats each cell (asset, attribute) by itself, so an input is one asset.   *)
(* Confidences are per cent, a decay factor per mille, a score their product. *)
(***************************************************************************)
EXTENDS Integers, FiniteSetsExt

CONSTANTS
  Decay,        \* half-life -> age in days -> 1000 * 2^(-age / half-life)
  HalfLives,    \* those of HALF_LIFE_PROBE; DOMAIN Decay
  Estate        \* the assets that may be drawn, of all those below

VARIABLE
  surveyed      \* the asset that the tools report, <<>> before

\* In days; none of the readings is older.
Ages == 0..75

\* What is known of the factors of one half-life: none grows with age, a reading of
\* today is whole, and a half-life is a day at least.
Decays(factor) ==
  /\ \A age \in Ages : factor[age] \in 0..1000
  /\ factor[0] = 1000 /\ 2 * factor[1] >= 1000
  /\ \A age, older \in Ages : age <= older => factor[older] <= factor[age]

ASSUME DecayAssumption == \A h \in HalfLives : Decays(Decay[h])

ATTRIBUTES == {"owner", "business_criticality", "os_version", "ip_address",
               "last_seen", "open_vuln_count", "is_managed"}

Sources == {"cmdb", "edr", "vuln", "idp"}

AUTHORITY == [a \in ATTRIBUTES |-> IF a = "open_vuln_count" THEN "vuln" ELSE "cmdb"]

authority_bonus == 5 * 1000

\* Sources compare as strings.
Before(s, t) == <<s, t>> \in {"cmdb"} \X {"edr", "idp", "vuln"} \cup
                             {"edr"} \X {"idp", "vuln"} \cup {"idp"} \X {"vuln"}

Report(source, attribute, right, age, conf) ==
  [source |-> source, attribute |-> attribute, right |-> right, age |-> age, conf |-> conf]

\* What the flaw model draws of an asset: its kind; the age of each reading of the
\* CMDB, and whether a stale one is still right; which other tools see it, the age
\* of the agent's os_version, and of the scan, whose count may have drifted.
Assets ==
  [kind : {"workstation", "server", "network-gear", "shadow-cloud"},
   owner : 0..2, business_criticality : 0..2, is_managed : 0..5,
   os_version : 21..75, ip_address : 14..60, last_seen : 14..60,
   os_right : BOOLEAN, ip_right : BOOLEAN,
   edr : BOOLEAN, edr_os : 0..1,
   vuln : BOOLEAN, days_since_scan : 0..35, drifted : BOOLEAN,
   idp : BOOLEAN]

ASSUME EstateAssumption == Estate \subseteq Assets

gen_observations(a) ==
  LET managed == a.kind \in {"workstation", "server"}
      recent  == a.days_since_scan <= 7
      cmdb == {Report("cmdb", "owner", TRUE, a.owner, 95),
               Report("cmdb", "business_criticality", TRUE, a.business_criticality, 95),
               Report("cmdb", "is_managed", TRUE, a.is_managed, 90),
               Report("cmdb", "os_version", a.os_right, a.os_version, 65),
               Report("cmdb", "ip_address", a.ip_right, a.ip_address, 65),
               Report("cmdb", "last_seen", FALSE, a.last_seen, 65)}
      edr  == {Report("edr", "os_version", TRUE, a.edr_os, 92),
               Report("edr", "ip_address", TRUE, 0, 90),
               Report("edr", "last_seen", TRUE, 0, 90),
               Report("edr", "is_managed", TRUE, 0, 95)}
      vuln == {Report("vuln", "open_vuln_count", recent \/ ~a.drifted, a.days_since_scan,
                      IF recent THEN 88 ELSE 55)}
      idp  == {Report("idp", "owner", TRUE, 0, 80)}
  IN UNION {IF a.kind # "shadow-cloud" THEN cmdb ELSE {},
            IF managed /\ a.edr THEN edr ELSE {},
            IF a.vuln THEN vuln ELSE {},
            IF a.kind = "workstation" /\ a.idp THEN idp ELSE {}}
-----------------------------------------------------------------------------
\* Mutant of effective_score: a bonus that counts for more than any decay.
effective_score_BonusFirst(r, half_life) ==
  r.conf * Decay[half_life][r.age] +
  (IF r.source = AUTHORITY[r.attribute] THEN 20 * authority_bonus ELSE 0)

effective_score(r, half_life) ==
  r.conf * Decay[half_life][r.age] +
  (IF r.source = AUTHORITY[r.attribute] THEN authority_bonus ELSE 0)

ReportsOf(obs, attribute) == {r \in obs : r.attribute = attribute}

\* The first of rows in an order, none or one.
First(rows, before(_, _)) == {r \in rows : \A q \in rows \ {r} : before(r, q)}

\* best_context: highest score, ties by the name of the source.
best_context(obs, half_life) ==
  LET score(r) == effective_score(r, half_life)
      before(r, q) == \/ score(r) > score(q)
                      \/ score(r) = score(q) /\ Before(r.source, q.source)
  IN UNION {First(ReportsOf(obs, a), before) : a \in ATTRIBUTES}

\* naive_merge: the authority's value, else that of the first source by name.
naive_merge(obs) ==
  LET before(r, q) == Before(r.source, q.source)
      authority_pick(a) == {r \in ReportsOf(obs, a) : r.source = AUTHORITY[a]}
  IN UNION {IF authority_pick(a) # {} THEN authority_pick(a)
            ELSE First(ReportsOf(obs, a), before) : a \in ATTRIBUTES}

Right(rows) == Cardinality({r \in rows : r.right})

per_tool(obs, s) == Right({r \in obs : r.source = s})

\* Cells that some source reports correctly; the others are the residual gap.
any_correct(obs) == Cardinality({a \in ATTRIBUTES : \E r \in ReportsOf(obs, a) : r.right})
-----------------------------------------------------------------------------
GapInit == surveyed = <<>>

GapNext == surveyed = <<>> /\ surveyed' \in Estate
-----------------------------------------------------------------------------
(* What score() publishes of one asset is consistent: each merge chooses at    *)
(* most one value per cell, no merge and no tool recovers more than           *)
(* cross_tool_ceiling, and a cell every tool has right is recovered.          *)
MergesWithin(asset) ==
  LET obs    == gen_observations(asset)
      sure   == {a \in ATTRIBUTES : ReportsOf(obs, a) # {} /\ \A r \in ReportsOf(obs, a) : r.right}
      within(merge) == /\ Cardinality(merge) <= Cardinality(ATTRIBUTES)
                       /\ Cardinality(sure) <= Right(merge)
                       /\ Right(merge) <= any_correct(obs)
  IN /\ within(naive_merge(obs))
     /\ \A h \in HalfLives : within(best_context(obs, h))
     /\ \A s \in Sources : per_tool(obs, s) <= any_correct(obs)

(* sweep(), on the half-life probe: "the fresh source is also the             *)
(* higher-confidence one, so decay never flips a per-cell winner": the merge   *)
(* recovers the same cells at every half-life, never fewer than any one tool   *)
(* and never fewer than the naive merge, on every asset the generator can     *)
(* draw.                                                                    *)
LeverOnEveryAsset(asset) ==
  LET obs == gen_observations(asset)
      cross(h) == {r.attribute : r \in {q \in best_context(obs, h) : q.right}}
  IN /\ \A h, g \in HalfLives : cross(h) = cross(g)
     /\ \A h \in HalfLives :
          /\ Cardinality(cross(h)) >= Right(naive_merge(obs))
          /\ \A s \in Sources : Cardinality(cross(h)) >= per_tool(obs, s)

(* The merges of an asset are consistent, and the half-life of the decay       *)
(* changes none of their results.                                            *)
Gap == surveyed # <<>> => LeverOnEveryAsset(surveyed) /\ MergesWithin(surveyed)
=============================================================================
