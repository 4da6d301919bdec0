------------------------------- MODULE FreshArm -------------------------------
(***************************************************************************)
(* The batch arms of the freshness trial: freshness/land_fresh.py lands     *)
(* files of Span[l] windows each into a directory of its own and ends it    *)
(* with the marker .landed-done; replicas of freshness/batch_fresh.py poll  *)
(* the directory, run the windowed detection W and the address match I on   *)
(* each new file, and exit after the first tick that finds the marker.      *)
(* Ticks fall anywhere on the replay clock: poll interval and phase differ  *)
(* per replica, and a tick that overruns delays the next.                   *)
(*                                                                         *)
(* No replica is killed in this trial, and nothing reads an output file     *)
(* before run_fresh_trial.sh has waited for every replica.                  *)
(***************************************************************************)
EXTENDS Detection, AnswerGate

CONSTANTS
  Landers,      \* the two landers of a trial
  Span,         \* [Landers -> Nat]: --span-seconds in windows, 1 or 5
  Replicas,     \* the replicas of the batch arms
  Reads,        \* [Replicas -> Landers]: whose directory is --in-dir
  ioc_pairs     \* the pairs whose src_ip is in the address list

ASSUME FreshAssumption ==
  /\ Span \in [Landers -> Nat \ {0}]
  /\ Reads \in [Replicas -> Landers]
  /\ \A e \in Events : \A l \in Landers : e.time >= Span[l] * WINDOW_SECONDS

None == 0       \* Python's None for a window: real windows are epoch minutes

\* Mutant of first_window: files named by the index of the chunk.
first_window_Chunk(l, e) == e.time \div (Span[l] * WINDOW_SECONDS)

\* The file an event lands in, named by the first window it covers.
first_window(l, e) == (e.time \div (Span[l] * WINDOW_SECONDS)) * Span[l]

Files(l) == {first_window(l, e) : e \in Events}

RowsIn(l, files) == {e \in Events : first_window(l, e) \in files}

planted == {e \in Events : e.pair \in ioc_pairs}

VARIABLES
  landed,       \* [Landers -> sets of file numbers]: window-*.parquet
  marker,       \* [Landers -> BOOLEAN]: .landed-done
  pc,           \* [Replicas -> where the tick is]
  done_seen, last, seen_w, seen_i,
  cand,         \* the files of the tick's two queries
  rows_w, rows_i, \* rows not in the seen sets and not yet appended
  out_w, out_i  \* the two alerts files

landerVars == <<landed, marker>>
fileVars   == <<out_w, out_i>>
rowVars    == <<rows_w, rows_i>>
seenVars   == <<seen_w, seen_i>>
vars == <<landed, marker, pc, done_seen, last, seen_w, seen_i, cand, rows_w,
          rows_i, out_w, out_i>>

Init ==
  /\ landed = [l \in Landers |-> {}]
  /\ marker = [l \in Landers |-> FALSE]
  /\ pc = [r \in Replicas |-> "sleep"]
  /\ done_seen = [r \in Replicas |-> FALSE]
  /\ last = [r \in Replicas |-> None]
  /\ seen_w = [r \in Replicas |-> {}]
  /\ seen_i = [r \in Replicas |-> {}]
  /\ cand = [r \in Replicas |-> {}]
  /\ rows_w = [r \in Replicas |-> {}]
  /\ rows_i = [r \in Replicas |-> {}]
  /\ out_w = [r \in Replicas |-> <<>>]
  /\ out_i = [r \in Replicas |-> <<>>]

Goto(r, from, to) == pc[r] = from /\ pc' = [pc EXCEPT ![r] = to]
-----------------------------------------------------------------------------
\* land: the next file in time order appears whole.
Land(l, f) ==
  /\ f \in Files(l) \ landed[l]
  /\ \A g \in Files(l) \ landed[l] : f <= g
  /\ landed' = [landed EXCEPT ![l] = @ \cup {f}]
  /\ UNCHANGED <<marker, pc, done_seen, last, cand, seenVars, rowVars, fileVars>>

TouchDone(l) ==
  /\ landed[l] = Files(l)
  /\ ~marker[l]
  /\ marker' = [marker EXCEPT ![l] = TRUE]
  /\ UNCHANGED <<landed, pc, done_seen, last, cand, seenVars, rowVars, fileVars>>
-----------------------------------------------------------------------------
\* sleep_until returns; the marker is read before the directory is listed.
Wake(r) ==
  /\ Goto(r, "sleep", "list")
  /\ done_seen' = [done_seen EXCEPT ![r] = marker[Reads[r]]]
  /\ UNCHANGED <<last, cand, seenVars, rowVars, fileVars, landerVars>>

new(r) == {w \in landed[Reads[r]] : last[r] = None \/ w > last[r]}

\* The file named one window before the oldest new one, if it is there.
before(r) ==
  {w \in landed[Reads[r]] :
     last[r] # None /\ w + 1 \in new(r) /\ \A v \in new(r) : w < v}

ListNew(r) ==
  /\ Goto(r, "list", "query_w")
  /\ new(r) # {}
  /\ cand' = [cand EXCEPT ![r] = new(r) \cup before(r)]
  /\ UNCHANGED <<done_seen, last, seenVars, rowVars, fileVars, landerVars>>

\* Mutant of EndTick: the marker is looked up after the listing.
EndTick_MarkerNow(r, from) ==
  IF marker[Reads[r]] THEN Goto(r, from, "exited") ELSE Goto(r, from, "sleep")

\* The end of a tick: the statistics file, then the exit test.
EndTick(r, from) ==
  IF done_seen[r] THEN Goto(r, from, "exited") ELSE Goto(r, from, "sleep")

\* Mutant of ListNothing: an idle tick goes back to sleep at once.
ListNothing_Continues(r) ==
  /\ new(r) = {}
  /\ Goto(r, "list", "sleep")
  /\ UNCHANGED <<done_seen, last, cand, seenVars, rowVars, fileVars, landerVars>>

ListNothing(r) ==
  /\ new(r) = {}
  /\ EndTick(r, "list")
  /\ UNCHANGED <<done_seen, last, cand, seenVars, rowVars, fileVars, landerVars>>

\* Detection W over the candidate files, without the keys already seen.
QueryW(r) ==
  /\ Goto(r, "query_w", "append_w")
  /\ rows_w' = [rows_w EXCEPT ![r] =
       {k \in AlertKeys :
          Cardinality(Failures(k) \cap RowsIn(Reads[r], cand[r])) >= FAILURE_THRESHOLD}
       \ seen_w[r]]
  /\ UNCHANGED <<done_seen, last, cand, seenVars, rows_i, fileVars, landerVars>>

AppendW(r, k) ==
  /\ Goto(r, "append_w", "append_w")
  /\ k \in rows_w[r]
  /\ \A j \in rows_w[r] : k[2] <= j[2]
  /\ rows_w' = [rows_w EXCEPT ![r] = @ \ {k}]
  /\ seen_w' = [seen_w EXCEPT ![r] = @ \cup {k}]
  /\ out_w' = [out_w EXCEPT ![r] = Append(@, k)]
  /\ UNCHANGED <<done_seen, last, cand, seen_i, rows_i, out_i, landerVars>>

\* Detection I over the same files, without the events already seen.
QueryI(r) ==
  /\ rows_w[r] = {}
  /\ Goto(r, "append_w", "append_i")
  /\ rows_i' = [rows_i EXCEPT ![r] =
       {e \in RowsIn(Reads[r], cand[r]) : e.pair \in ioc_pairs} \ seen_i[r]]
  /\ UNCHANGED <<done_seen, last, cand, seenVars, rows_w, fileVars, landerVars>>

AppendI(r, e) ==
  /\ Goto(r, "append_i", "append_i")
  /\ e \in rows_i[r]
  /\ \A d \in rows_i[r] : e.time <= d.time
  /\ rows_i' = [rows_i EXCEPT ![r] = @ \ {e}]
  /\ seen_i' = [seen_i EXCEPT ![r] = @ \cup {e}]
  /\ out_i' = [out_i EXCEPT ![r] = Append(@, e)]
  /\ UNCHANGED <<done_seen, last, cand, seen_w, rows_w, out_w, landerVars>>

\* Mutant of Advance: the newest file there is now.
Advance_Newest(r) ==
  /\ rows_i[r] = {}
  /\ \E w \in landed[Reads[r]] :
       /\ \A v \in landed[Reads[r]] : v <= w
       /\ last' = [last EXCEPT ![r] = w]
  /\ cand' = [cand EXCEPT ![r] = {}]
  /\ EndTick(r, "append_i")
  /\ UNCHANGED <<done_seen, seenVars, rowVars, fileVars, landerVars>>

\* last = max(cand), then the end of the tick.
Advance(r) ==
  /\ rows_i[r] = {}
  /\ \E w \in cand[r] :
       /\ \A v \in cand[r] : v <= w
       /\ last' = [last EXCEPT ![r] = w]
  /\ cand' = [cand EXCEPT ![r] = {}]
  /\ EndTick(r, "append_i")
  /\ UNCHANGED <<done_seen, seenVars, rowVars, fileVars, landerVars>>

Tick(r) ==
  \/ Wake(r)
  \/ ListNew(r)
  \/ ListNothing(r)
  \/ QueryW(r)
  \/ \E k \in AlertKeys : AppendW(r, k)
  \/ QueryI(r)
  \/ \E e \in Events : AppendI(r, e)
  \/ Advance(r)

Landing(l) == TouchDone(l) \/ \E f \in Files(l) : Land(l, f)

\* run_fresh_trial.sh has waited for the landers and for every replica.
TrialOver ==
  /\ \A l \in Landers : marker[l]
  /\ \A r \in Replicas : pc[r] = "exited"
  /\ UNCHANGED vars

Next ==
  \/ \E l \in Landers : Landing(l)
  \/ \E r \in Replicas : Tick(r)
  \/ TrialOver

Spec == Init /\ [][Next]_vars

\* The replay clock advances for every process.
Fairness ==
  /\ \A l \in Landers : WF_vars(Landing(l))
  /\ \A r \in Replicas : WF_vars(Tick(r))

FairSpec == Spec /\ Fairness
-----------------------------------------------------------------------------
(* Types of all the variables of the landers and the replicas.              *)
TypeOK ==
  /\ DOMAIN landed = Landers /\ \A l \in Landers : landed[l] \subseteq Files(l)
  /\ marker \in [Landers -> BOOLEAN]
  /\ pc \in [Replicas -> {"sleep", "list", "query_w", "append_w", "append_i",
                          "exited"}]
  /\ done_seen \in [Replicas -> BOOLEAN]
  /\ DOMAIN last = Replicas
  /\ \A r \in Replicas : last[r] \in Files(Reads[r]) \cup {None}
  /\ DOMAIN cand = Replicas
  /\ \A r \in Replicas : cand[r] \subseteq Files(Reads[r])
  /\ seen_w \in [Replicas -> SUBSET AlertKeys]
  /\ seen_i \in [Replicas -> SUBSET Events]
  /\ rows_w \in [Replicas -> SUBSET AlertKeys]
  /\ rows_i \in [Replicas -> SUBSET Events]
  /\ out_w \in [Replicas -> Seq(AlertKeys)]
  /\ out_i \in [Replicas -> Seq(Events)]

(* compare_fresh.py, for every replica that has exited, whichever steps of  *)
(* the lander its ticks fell between: both files hold exactly the expected  *)
(* rows, each once.  batch_fresh.py's docstring: the job exits after a tick *)
(* that found the marker, "so the final file is always processed".          *)
GatePasses ==
  \A r \in Replicas :
    pc[r] = "exited" =>
      identical(out_w[r], GroundTruth) /\ identical(out_i[r], planted)

(* Freshness: between ticks nothing landed up to the last file processed is *)
(* unreported, so an alert waits for at most one tick after its file lands. *)
NothingLeftBehind ==
  \A r \in Replicas : pc[r] = "sleep" =>
    LET read == RowsIn(Reads[r], {f \in landed[Reads[r]] : f <= last[r]}) IN
      /\ {k \in GroundTruth : Failures(k) \subseteq read} \subseteq Range(out_w[r])
      /\ planted \cap read \subseteq Range(out_i[r])

(* No row is written twice, although the look-back reads files again.       *)
WrittenOnce ==
  \A r \in Replicas : duplicates(out_w[r]) = {} /\ duplicates(out_i[r]) = {}

(* Look-back happens between files of one window only: batch_fresh.py says  *)
(* of the preceding file that "it never does [exist] for 300 s files, whose *)
(* names are multiples of 5".                                               *)
LookbackNeedsSingles ==
  \A r \in Replicas : Span[Reads[r]] > 1 =>
    \A v, w \in cand[r] : w # v + 1

(* Every replica exits by itself: run_fresh_trial.sh waits for each of them *)
(* without a timeout.                                                       *)
AllExit == <>(\A r \in Replicas : pc[r] = "exited")
=============================================================================
