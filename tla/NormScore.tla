------------------------------ MODULE NormScore ------------------------------
(***************************************************************************)
(* pipeline-normalization-fidelity: the gold key of a record (gen_corpus.py)  *)
(* and the scorer that holds a tool's OCSF event against it (score.py).  An   *)
(* event maps the paths of its leaves, sequences of segments, to values.  A   *)
(* value is the source field it comes from, or a number; conversions are      *)
(* faithful by the definition of the key.  Of the records of a source those    *)
(* with the same key, and the same event, are one entry with their number.     *)
(***************************************************************************)
EXTENDS Integers, Sequences, FiniteSets, SequencesExt, Functions

CONSTANTS
  Golds         \* the gold files that can be scored, sequences of entries

VARIABLE
  scored        \* the gold file that is scored, <<>> before

Raw(field) == <<"raw", field>>
Number(n)  == <<"number", n>>
Null       == <<"null">>

Field(field, ocsf, status) ==
  [field |-> field, ocsf |-> ocsf, status |-> status, value |-> Raw(field)]

Home(field, ocsf)   == Field(field, ocsf, "typed")
Coerce(field, ocsf) == Field(field, ocsf, "coerced")

\* What a draw decides of the key: whether the event is an error, and the
\* operation, whose verb selects the activity.
_aws_activity(op) ==
  CASE op \in {"GetObject", "ConsoleLogin"} -> 2
    [] op \in {"PutObject", "CreateUser", "RunInstances"} -> 1
    [] op \in {"AssumeRole", "Decrypt"} -> 3

_AWS_OPS ==
  {"GetObject", "PutObject", "AssumeRole", "Decrypt", "RunInstances", "ConsoleLogin",
   "CreateUser"}

\* A probe: paths that must be there, values that must be right, and the severity.
Probe(expect_paths, expect, severity) ==
  [expect_paths |-> expect_paths, expect |-> expect, expected_severity_id |-> severity]

Severity(failed) == IF failed THEN Number(2) ELSE Number(1)

Key(class_uid, activity_id, fields, semantic) ==
  [class_uid |-> class_uid, activity_id |-> activity_id, fields |-> fields,
   type_uid |-> 100 * class_uid + activity_id, semantic |-> semantic]

NullIf(absent, field) == IF absent THEN [field EXCEPT !.value = Null] ELSE field
-----------------------------------------------------------------------------
(* The gold key, by source *)

src_ip  == <<"src_endpoint", "ip">>
dst_ip  == <<"dst_endpoint", "ip">>
time    == <<"time">>
parent  == <<"process", "parent_process">>
uid     == <<"metadata", "uid">>

_gen_zeek(failed, op) ==
  Key(4001, 6,
    <<Home("ts", time), Home("uid", uid),
      Home("id.orig_h", src_ip), Home("id.orig_p", <<"src_endpoint", "port">>),
      Home("id.resp_h", dst_ip), Home("id.resp_p", <<"dst_endpoint", "port">>),
      Home("proto", <<"connection_info", "protocol_name">>),
      Coerce("service", <<"app_name">>), Coerce("duration", <<"duration">>),
      Home("orig_bytes", <<"traffic", "bytes_out">>),
      Home("resp_bytes", <<"traffic", "bytes_in">>),
      Coerce("conn_state", <<"status_code">>),
      Coerce("history", <<"connection_info", "tcp_flags">>),
      Home("orig_pkts", <<"traffic", "packets_out">>),
      Home("resp_pkts", <<"traffic", "packets_in">>)>>,
    [entity_role |->
       Probe({}, {<<src_ip, Raw("id.orig_h")>>, <<dst_ip, Raw("id.resp_h")>>}, Null),
     observables_flattening |-> Probe({src_ip, dst_ip}, {}, Null)])

_gen_cloudtrail(failed, op) ==
  Key(6003, _aws_activity(op),
    <<Home("eventVersion", <<"metadata", "product", "version">>), Home("eventID", uid),
      Coerce("eventTime", time), Home("eventSource", <<"api", "service", "name">>),
      Home("eventName", <<"api", "operation">>), Home("awsRegion", <<"cloud", "region">>),
      Coerce("sourceIPAddress", src_ip),
      Home("userIdentity.type", <<"actor", "user", "type">>),
      Home("userIdentity.arn", <<"actor", "user", "uid">>),
      Home("userIdentity.accountId", <<"cloud", "account", "uid">>),
      Home("userAgent", <<"http_request", "user_agent">>),
      NullIf(~failed, Coerce("errorCode", <<"status_detail">>)),
      Field("readOnly", <<"unmapped">>, "unmapped"),
      Home("requestID", <<"api", "request", "uid">>)>>,
    [severity_remap |-> Probe({}, {}, Severity(failed)),
     context_collapse |->
       Probe({<<"api", "service", "name">>, <<"api", "operation">>}, {}, Null)])

_gen_sysmon(failed, op) ==
  Key(1007, 1,
    <<[Coerce("EventID", <<"activity_id">>) EXCEPT !.value = Number(1)],
      Coerce("UtcTime", time), Home("ProcessGuid", <<"process", "uid">>),
      Home("ProcessId", <<"process", "pid">>), Home("Image", <<"process", "file", "path">>),
      Home("CommandLine", <<"process", "cmd_line">>),
      Home("User", <<"actor", "user", "name">>),
      Coerce("Hashes", <<"process", "file", "hashes">>),
      Home("ParentProcessId", parent \o <<"pid">>),
      Home("ParentImage", parent \o <<"file", "path">>),
      Home("ParentCommandLine", parent \o <<"cmd_line">>),
      Coerce("IntegrityLevel", <<"process", "integrity">>),
      Home("LogonId", <<"session", "uid">>)>>,
    [multi_event_collapse |->
       Probe({parent \o <<"pid">>, parent \o <<"file", "path">>}, {}, Null),
     observables_flattening |-> Probe({<<"process", "file", "hashes">>}, {}, Null)])

_gen_auth(failed, op) ==
  Key(3002, 1,
    <<Home("event_id", uid), Coerce("timestamp", time),
      Home("user_name", <<"user", "name">>), Home("user_id", <<"user", "uid">>),
      Home("src_ip", src_ip), Home("dst_host", <<"dst_endpoint", "hostname">>),
      Coerce("auth_protocol", <<"auth_protocol">>), Coerce("logon_type", <<"logon_type">>),
      Coerce("result", <<"status_id">>), Home("mfa", <<"is_mfa">>),
      NullIf(~failed, Coerce("failure_reason", <<"status_detail">>)),
      Home("tz_offset_min", <<"timezone_offset">>)>>,
    [severity_remap |-> Probe({}, {}, Severity(failed)),
     context_collapse |-> Probe({src_ip, <<"dst_endpoint", "hostname">>}, {}, Null)])

SOURCES == {"zeek_conn", "cloudtrail", "sysmon", "auth"}

generate(source, failed, op) ==
  CASE source = "zeek_conn"  -> _gen_zeek(failed, op)
    [] source = "cloudtrail" -> _gen_cloudtrail(failed, op)
    [] source = "sysmon"     -> _gen_sysmon(failed, op)
    [] source = "auth"       -> _gen_auth(failed, op)
-----------------------------------------------------------------------------
(* Events *)

NoEvent == [p \in {} |-> Null]

Beneath(p, q) == IsStrictPrefix(p, q)

\* An object sits at a path that leaves lie below.  The scorer treats a path that
\* is absent and one that is null alike, so both are Null here.
get_path(ev, path) ==
  IF path \in DOMAIN ev THEN ev[path]
  ELSE IF \E p \in DOMAIN ev : Beneath(path, p) THEN <<"object">> ELSE Null

\* A scalar on the way is left alone; what sits at the path itself is replaced.
_set_path(ev, path, value) ==
  IF \E p \in DOMAIN ev : Beneath(p, path) THEN ev
  ELSE [p \in {q \in DOMAIN ev : ~Beneath(path, q)} \cup {path} |->
          IF p = path THEN value ELSE ev[p]]

_is_catch_all(path) == path[1] \in {"unmapped", "raw_data", "enrichments"}

Ids(gold) ==
  [p \in {<<"class_uid">>, <<"activity_id">>, <<"type_uid">>} |->
     CASE p = <<"class_uid">>   -> Number(gold.class_uid)
       [] p = <<"activity_id">> -> Number(gold.activity_id)
       [] p = <<"type_uid">>    -> Number(gold.type_uid)]

severity_id == <<"severity_id">>

WithSeverity(ev, gold) ==
  IF "severity_remap" \notin DOMAIN gold.semantic THEN ev
  ELSE _set_path(ev, severity_id, gold.semantic["severity_remap"].expected_severity_id)

Mapped(f) == f.status # "unmapped" /\ ~_is_catch_all(f.ocsf) /\ f.value # Null

\* The event a faithful mapping emits: the populated fields with a home, in the
\* order of the key, over the class, the activity and the type.
_build_reference_emitted(gold) ==
  LET ev[n \in 0..Len(gold.fields)] ==
        IF n = 0 THEN Ids(gold)
        ELSE IF Mapped(gold.fields[n])
        THEN _set_path(ev[n - 1], gold.fields[n].ocsf, gold.fields[n].value)
        ELSE ev[n - 1]
  IN  WithSeverity(ev[Len(gold.fields)], gold)
-----------------------------------------------------------------------------
(* A key that holds together: homes are no catch-all, none is on the way to      *)
(* another leaf, those that two fields share, or a field and the class, have     *)
(* one value, and the probes ask for what is mapped.                           *)
placed(gold) == {f \in ToSet(gold.fields) : Mapped(f)}

Leaves(gold) ==
  {f.ocsf : f \in placed(gold)} \cup DOMAIN Ids(gold) \cup
  (IF "severity_remap" \in DOMAIN gold.semantic THEN {severity_id} ELSE {})

HomesHold(gold) ==
  /\ DOMAIN gold.fields = 1..Len(gold.fields) /\ Len(gold.fields) \in Nat
  /\ placed(gold) # {}
  /\ \A f \in ToSet(gold.fields) : f.status # "unmapped" => ~_is_catch_all(f.ocsf)
  /\ \A p \in Leaves(gold) : p \in Seq(STRING) /\ p # <<>>
  /\ \A p, q \in Leaves(gold) : ~Beneath(p, q)
  /\ \A f \in placed(gold) :
       /\ f.value # Raw("another") /\ f.ocsf # severity_id
       /\ f.ocsf \in DOMAIN Ids(gold) => f.value = Ids(gold)[f.ocsf]
       /\ \A g \in placed(gold) : f.ocsf = g.ocsf => f.value = g.value

ProbesHold(gold) ==
  \A name \in DOMAIN gold.semantic :
    LET probe == gold.semantic[name]
    IN /\ \A p \in probe.expect_paths :
            ~_is_catch_all(p) /\ \E q \in Leaves(gold) : q = p \/ Beneath(p, q)
       /\ \A e \in probe.expect : \E f \in placed(gold) : f.ocsf = e[1] /\ f.value = e[2]
       /\ probe.expected_severity_id # Raw("another")
       /\ probe.expected_severity_id # Null <=> name = "severity_remap"

ASSUME NormAssumption ==
  \A golds \in Golds :
    /\ DOMAIN golds = 1..Len(golds) /\ Len(golds) \in Nat \ {0}
    /\ \A i \in DOMAIN golds :
         /\ golds[i].records \in Nat \ {0}
         /\ HomesHold(golds[i].gold) /\ ProbesHold(golds[i].gold)
-----------------------------------------------------------------------------
(* The scores of a record and of a source *)

\* Mutant: an absent value is a field to land.
homed_Absent(gold) == {f \in ToSet(gold.fields) : f.status # "unmapped"}

homed(gold) ==
  {f \in ToSet(gold.fields) : f.status # "unmapped" /\ f.value # Null}

landed(gold, ev) ==
  {f \in homed(gold) : get_path(ev, f.ocsf) # Null /\ ~_is_catch_all(f.ocsf)}

value_ok(gold, ev) == {f \in landed(gold, ev) : get_path(ev, f.ocsf) = f.value}

\* The failure classes whose probe does not hold of the event.
reproduced(gold, ev) ==
  {name \in DOMAIN gold.semantic :
     LET probe == gold.semantic[name]
     IN  \/ ev = NoEvent
         \/ \E p \in probe.expect_paths : get_path(ev, p) = Null \/ _is_catch_all(p)
         \/ /\ probe.expected_severity_id # Null
            /\ get_path(ev, severity_id) # probe.expected_severity_id
         \/ \E e \in probe.expect : get_path(ev, e[1]) # e[2]}

class_uid_ok(gold, ev)   == get_path(ev, <<"class_uid">>) = Number(gold.class_uid)
activity_id_ok(gold, ev) == get_path(ev, <<"activity_id">>) = Number(gold.activity_id)
type_uid_ok(gold, ev)    == get_path(ev, <<"type_uid">>) = Number(gold.type_uid)

\* A fraction to four digits, in units of the last: 1 less what is missing.
Rounded(part, whole) ==
  IF whole = 0 THEN 0 ELSE 10000 - ((20000 * (whole - part) + whole) \div (2 * whole))

\* The sum over the records of what one record of an entry counts.
Total(golds, each) == SumFunction([i \in DOMAIN golds |-> golds[i].records * each[i]])

RecordsOf(golds, entries) ==
  Total(golds, [i \in DOMAIN golds |-> IF i \in entries THEN 1 ELSE 0])

Share(golds, entries, among) == Rounded(RecordsOf(golds, entries), RecordsOf(golds, among))

Homed(golds) == Total(golds, [i \in DOMAIN golds |-> Cardinality(homed(golds[i].gold))])

\* The tallies of fields name the eight most frequent, which one leaf is among.
score_source(golds, evs) ==
  LET Entries == DOMAIN golds
      key(i)  == golds[i].gold
      kept    == Total(golds, [i \in Entries |-> Cardinality(landed(key(i), evs[i]))])
      ok      == Total(golds, [i \in Entries |-> Cardinality(value_ok(key(i), evs[i]))])
      names   == UNION {DOMAIN key(i).semantic : i \in Entries}
  IN [coverage |-> Share(golds, {i \in Entries : evs[i] # NoEvent}, Entries),
      field_fidelity |-> Rounded(kept, Homed(golds)),
      value_fidelity |-> Rounded(ok, kept),
      class_assignment |-> Share(golds, {i \in Entries : class_uid_ok(key(i), evs[i])}, Entries),
      activity_id |-> Share(golds, {i \in Entries : activity_id_ok(key(i), evs[i])}, Entries),
      type_uid |-> Share(golds, {i \in Entries : type_uid_ok(key(i), evs[i])}, Entries),
      failure_classes |->
        [name \in names |->
           Share(golds, {i \in Entries : name \in reproduced(key(i), evs[i])},
                 {i \in Entries : name \in DOMAIN key(i).semantic})],
      dropped |-> UNION {{f.field : f \in homed(key(i)) \ landed(key(i), evs[i])} : i \in Entries},
      mangled |-> UNION {{f.field : f \in landed(key(i), evs[i]) \ value_ok(key(i), evs[i])} :
                           i \in Entries}]

perfect(score) ==
  /\ score.field_fidelity = 10000 /\ score.value_fidelity = 10000
  /\ score.class_assignment = 10000 /\ score.activity_id = 10000 /\ score.type_uid = 10000
  /\ \A name \in DOMAIN score.failure_classes : score.failure_classes[name] = 0

ScoreInit == scored = <<>>

ScoreNext == scored = <<>> /\ scored' \in Golds
-----------------------------------------------------------------------------
reference_events(golds) == [i \in DOMAIN golds |-> _build_reference_emitted(golds[i].gold)]

(* The gate of the harness: the gold key, taken for a tool's output, scores     *)
(* full marks and reproduces no failure class, whatever the draws.             *)
SelfCheck(golds) == perfect(score_source(golds, reference_events(golds)))

Dropped(ev, p) == [q \in DOMAIN ev \ {p} |-> ev[q]]
Altered(ev, p) == [ev EXCEPT ![p] = Raw("another")]

Parked(ev, p) ==
  LET away == <<"unmapped">> \o p
  IN  [q \in (DOMAIN ev \ {p}) \cup {away} |-> IF q = away THEN ev[p] ELSE ev[q]]

\* The score where entry i has another event, and the fields whose home is p.
ScoreWith(golds, i, ev) == score_source(golds, [reference_events(golds) EXCEPT ![i] = ev])
From(gold, p)           == {f.field : f \in {g \in homed(gold) : g.ocsf = p}}

(* And it is no gate that always opens: of one entry among the others, a       *)
(* leaf dropped, put under a catch-all or altered costs a figure, and a field   *)
(* whose home it was is named; so does an event that is missing.               *)
SeenAt(golds, i) ==
  LET ev   == reference_events(golds)[i]
      none == ScoreWith(golds, i, NoEvent)
  IN /\ ~perfect(none) /\ none.coverage < 10000
     /\ \A p \in DOMAIN ev :
          /\ \A away \in {Dropped(ev, p), Parked(ev, p)} :
               LET lost == ScoreWith(golds, i, away)
               IN  ~perfect(lost) /\ From(golds[i].gold, p) \subseteq lost.dropped
          /\ LET altered == ScoreWith(golds, i, Altered(ev, p))
             IN  ~perfect(altered) /\ From(golds[i].gold, p) \subseteq altered.mangled

\* Where one record is lost.
LossSeen(golds) == \A i \in DOMAIN golds : golds[i].records = 1 => SeenAt(golds, i)

(* The fidelity scorer gives its own gold key full marks, and sees every leaf   *)
(* that one record loses, up to where four digits round one field off.          *)
Scorer ==
  scored # <<>> => SelfCheck(scored) /\ (Homed(scored) < 20000 => LossSeen(scored))
=============================================================================
