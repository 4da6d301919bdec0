------------------------------ MODULE MappingRun ------------------------------
(***************************************************************************)
(* The resumable mapping run, ocsf-mapping-oracle/run_gemma4_full.py: every  *)
(* item is put to the model under every condition, each answer is appended   *)
(* to a JSONL checkpoint, and after each condition the aggregate is replaced *)
(* by rename.  A kill may leave any prefix of a line behind; the next run     *)
(* appends to it.                                                            *)
(*                                                                         *)
(* An answer is what classify tells apart: "gold", another valid path, a      *)
(* path that is not in the schema, or "none", which also stands for every     *)
(* request that failed.                                                      *)
(***************************************************************************)
EXTENDS Naturals, Sequences, FiniteSetsExt

CONSTANTS
  Items,            \* build_full(), in its order: a sequence
  CONDITIONS,       \* a sequence
  Answers,          \* subset of {"gold", "valid", "invalid", "none"}
  MaxMappingKills   \* bound

\* An item is a field of a source: no two of them are the same.
ASSUME MappingAssumption ==
  /\ Len(Items) \in Nat \ {0} /\ DOMAIN Items = 1..Len(Items)
  /\ \A i, j \in DOMAIN Items : Items[i] = Items[j] => i = j
  /\ Len(CONDITIONS) \in Nat \ {0} /\ DOMAIN CONDITIONS = 1..Len(CONDITIONS)
  /\ MaxMappingKills \in Nat

VARIABLES
  mappingPc,        \* "down", "running", "exited"
  ckpt,             \* the lines of the checkpoint file
  unterminated,     \* its last line has no newline
  done,             \* in memory: key -> answer
  current,          \* index of the condition in the loop
  published,        \* what results.json holds under KEY
  asked,            \* requests sent to the model so far
  mappingKills

mappingVars == <<mappingPc, ckpt, unterminated, done, current, published, asked,
                 mappingKills>>

Keys == {Items[i] : i \in DOMAIN Items} \X {CONDITIONS[c] : c \in DOMAIN CONDITIONS}

\* A line that parses is the record of one key; one that does not is no key's.
Line(parses, key, pred) == [parses |-> parses, key |-> key, pred |-> pred]

MappingInit ==
  /\ mappingPc = "down"
  /\ ckpt = <<>> /\ unterminated = FALSE
  /\ done = <<>> /\ current = 1
  /\ published = [cells |-> <<>>, conditions_complete |-> {}]
  /\ asked = 0
  /\ mappingKills = 0
-----------------------------------------------------------------------------
classify(pred) ==
  [silent |-> pred \in {"none", "invalid"}, correct |-> pred = "gold"]

\* Lines that do not parse are passed over; of two records of a key the
\* later one counts.
load_done(lines) ==
  LET at(k) == {i \in DOMAIN lines : lines[i].parses /\ lines[i].key = k}
  IN [k \in {k \in Keys : at(k) # {}} |-> lines[Max(at(k))].pred]

\* A write to the file: after an unterminated line it continues that line,
\* and neither of the two records can be read.
Written(lines, line) ==
  IF unterminated
    THEN [lines EXCEPT ![Len(lines)].parses = FALSE]
    ELSE Append(lines, line)

\* aggregate: one cell per condition that has any answer.
aggregate(answers) ==
  LET rows(c) == {k \in DOMAIN answers : k[2] = c}
      cell(c) == [n       |-> Cardinality(rows(c)),
                  silent  |-> Cardinality({k \in rows(c) : classify(answers[k]).silent}),
                  correct |-> Cardinality({k \in rows(c) : classify(answers[k]).correct})]
  IN [c \in {k[2] : k \in DOMAIN answers} |-> cell(c)]

\* Items of the current condition that are not in done, by position.
Remaining == {i \in DOMAIN Items : <<Items[i], CONDITIONS[current]>> \notin DOMAIN done}
-----------------------------------------------------------------------------
StartRun ==
  /\ mappingPc = "down"
  /\ mappingPc' = "running"
  /\ done' = load_done(ckpt)
  /\ current' = 1
  /\ UNCHANGED <<ckpt, unterminated, published, asked, mappingKills>>

InLoop == mappingPc = "running" /\ current <= Len(CONDITIONS)

\* One turn of the inner loop: ask, append the line, remember it.
AskItem(pred) ==
  /\ InLoop /\ Remaining # {}
  /\ LET key == <<Items[Min(Remaining)], CONDITIONS[current]>>
     IN /\ ckpt' = Written(ckpt, Line(TRUE, key, pred))
        /\ done' = [k \in DOMAIN done \cup {key} |-> IF k = key THEN pred ELSE done[k]]
  /\ unterminated' = FALSE
  /\ asked' = asked + 1
  /\ UNCHANGED <<mappingPc, current, published, mappingKills>>

\* Mutant of EndCondition: what has any answer counts as complete.
EndCondition_AnyRow ==
  /\ InLoop /\ Remaining = {}
  /\ published' = [cells |-> aggregate(done),
                   conditions_complete |-> DOMAIN aggregate(done)]
  /\ current' = current + 1
  /\ UNCHANGED <<mappingPc, ckpt, unterminated, done, asked, mappingKills>>

\* complete.append(cond), write_aggregate: results.json is replaced at once.
EndCondition ==
  /\ InLoop /\ Remaining = {}
  /\ published' = [cells |-> aggregate(done),
                   conditions_complete |-> {CONDITIONS[c] : c \in 1..current}]
  /\ current' = current + 1
  /\ UNCHANGED <<mappingPc, ckpt, unterminated, done, asked, mappingKills>>

\* The last write_aggregate repeats the one before it.
EndRun ==
  /\ mappingPc = "running" /\ current > Len(CONDITIONS)
  /\ mappingPc' = "exited"
  /\ UNCHANGED <<ckpt, unterminated, done, current, published, asked, mappingKills>>

Interrupted ==
  /\ mappingPc = "running"
  /\ mappingKills < MaxMappingKills
  /\ mappingKills' = mappingKills + 1
  /\ mappingPc' = "down"
  /\ done' = <<>>

\* Killed between two writes; an answer on its way is lost with the process.
KillRun ==
  /\ Interrupted
  /\ asked' \in IF InLoop /\ Remaining # {} THEN {asked, asked + 1} ELSE {asked}
  /\ UNCHANGED <<ckpt, unterminated, current, published>>

\* Killed in the write of a line: a prefix is in the file, at best all of it
\* but the newline.
KillInWrite(pred, parses) ==
  /\ InLoop /\ Remaining # {}
  /\ Interrupted
  /\ LET key == <<Items[Min(Remaining)], CONDITIONS[current]>>
     IN ckpt' = Written(ckpt, Line(parses, key, pred))
  /\ unterminated' = TRUE
  /\ asked' = asked + 1
  /\ UNCHANGED <<current, published>>

MappingNext ==
  \/ StartRun
  \/ \E pred \in Answers : AskItem(pred)
  \/ EndCondition
  \/ EndRun
  \/ KillRun
  \/ \E pred \in Answers, parses \in BOOLEAN : KillInWrite(pred, parses)

MappingFairness ==
  /\ WF_mappingVars(StartRun)
  /\ WF_mappingVars(\E pred \in Answers : AskItem(pred))
  /\ WF_mappingVars(EndCondition)
  /\ WF_mappingVars(EndRun)
-----------------------------------------------------------------------------
(* results.json names a condition complete only with one answer for every    *)
(* item in its cell, although records may be missing from the checkpoint the *)
(* run was resumed from.                                                     *)
CompleteMeansAll ==
  \A c \in published.conditions_complete :
    c \in DOMAIN published.cells /\ published.cells[c].n = Len(Items)

(* "an interruption resumes where it stopped instead of restarting" (line 5): *)
(* a kill costs at most two requests, its own and that of the record the     *)
(* next run appends to the torn line.                                        *)
ResumeIsCheap == asked <= Cardinality(Keys) + 2 * mappingKills

(* A condition of the mapping run is complete only with one answer for every   *)
(* item, and resuming costs at most two requests per kill, although a kill     *)
(* may tear a line of the checkpoint and the next run write on it.            *)
Resumption == CompleteMeansAll /\ ResumeIsCheap
=============================================================================
