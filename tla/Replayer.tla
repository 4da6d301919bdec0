------------------------------- MODULE Replayer -------------------------------
(***************************************************************************)
(* feldera/replay_http.py: posts the corpus bucket by bucket, a bucket      *)
(* being the events of one second.  A failed POST pauses it until the       *)
(* operator's control file names the second to send again from.             *)
(***************************************************************************)
EXTENDS FelderaPipeline

VARIABLES
  rep,          \* "replay", "posting", "paused", "done"
  todo,         \* times of the buckets from index i on
  accepted,     \* the POST in flight has been ingested
  last_acked,
  stateFile,    \* last_acked as the replayer's state file has it
  control,      \* rewind_to of the control file, None if there is no file
  rewinds       \* rewinds applied: [rewind_to, failed_at]

replayerVars == <<rep, todo, accepted, last_acked, stateFile, control, rewinds>>

None == 0 - 1   \* Python's None, and a file that is not there

BucketTimes == {e.time : e \in Events}

ReplayerType ==
  /\ rep \in {"replay", "posting", "paused", "done"}
  /\ todo \subseteq BucketTimes
  /\ accepted \in BOOLEAN
  /\ last_acked \in BucketTimes \cup {None}
  /\ stateFile \in BucketTimes \cup {None}
  /\ control \in Nat \cup {None}
  /\ rewinds \subseteq [rewind_to : Nat, failed_at : BucketTimes]

ReplayerInit ==
  /\ rep = "replay"
  /\ todo = BucketTimes
  /\ accepted = FALSE
  /\ last_acked = None
  /\ stateFile = None
  /\ control = None
  /\ rewinds = {}

NextBucket(t) == t \in todo /\ \A u \in todo : t <= u
-----------------------------------------------------------------------------
Post ==
  /\ rep = "replay"
  /\ todo # {}
  /\ rep' = "posting"
  /\ UNCHANGED <<todo, accepted, last_acked, stateFile, control, rewinds, pipeVars>>

Accept(t) ==
  /\ rep = "posting"
  /\ NextBucket(t)
  /\ ~accepted
  /\ Ingest(t)
  /\ accepted' = TRUE
  /\ UNCHANGED <<rep, todo, last_acked, stateFile, control, rewinds>>

\* 2xx.  Every twentieth acknowledgement is written to the state file.
Ack(t) ==
  /\ rep = "posting"
  /\ NextBucket(t)
  /\ accepted
  /\ pipe = "running"
  /\ last_acked' = t
  /\ stateFile' \in {stateFile, t}
  /\ todo' = todo \ {t}
  /\ accepted' = FALSE
  /\ rep' = "replay"
  /\ UNCHANGED <<control, rewinds, pipeVars>>

\* Mutant of PostFails: tries the same bucket again instead of pausing.
PostFails_Retries ==
  /\ rep = "posting"
  /\ pipe = "dead"
  /\ rep' = "replay"
  /\ stateFile' = last_acked
  /\ control' = None
  /\ accepted' = FALSE
  /\ UNCHANGED <<todo, last_acked, rewinds, pipeVars>>

\* The first failed POST, whether or not its records had been ingested: save
\* the state, remove a stale control file, wait.
PostFails ==
  /\ rep = "posting"
  /\ pipe = "dead"
  /\ rep' = "paused"
  /\ stateFile' = last_acked
  /\ control' = None
  /\ accepted' = FALSE
  /\ UNCHANGED <<todo, last_acked, rewinds, pipeVars>>

\* Mutant of Resume: goes on from the bucket that failed.
Resume_NoRewind ==
  /\ rep = "paused"
  /\ control # None
  /\ control' = None
  /\ \E t \in todo :
       /\ NextBucket(t)
       /\ rewinds' = rewinds \cup {[rewind_to |-> control, failed_at |-> t]}
  /\ stateFile' = last_acked
  /\ rep' = "replay"
  /\ UNCHANGED <<todo, accepted, last_acked, pipeVars>>

\* The control file is there: send again every bucket from rewind_to on.
Resume ==
  /\ rep = "paused"
  /\ control # None
  /\ todo' = {t \in BucketTimes : t >= control}
  /\ control' = None
  /\ \E t \in todo :
       /\ NextBucket(t)
       /\ rewinds' = rewinds \cup {[rewind_to |-> control, failed_at |-> t]}
  /\ stateFile' = last_acked
  /\ rep' = "replay"
  /\ UNCHANGED <<accepted, last_acked, pipeVars>>

Done ==
  /\ rep = "replay"
  /\ todo = {}
  /\ rep' = "done"
  /\ stateFile' = last_acked
  /\ UNCHANGED <<todo, accepted, last_acked, control, rewinds, pipeVars>>
=============================================================================
