------------------------------- MODULE AlertArm -------------------------------
(***************************************************************************)
(* What an arm of the benchmark promises, whatever engine is inside: its    *)
(* alerts file grows by one row at a time, every row is an expected alert,  *)
(* no alert is written twice, and when the arm closes (its sink exits by    *)
(* itself) every alert it owes is in the file.                              *)
(*                                                                         *)
(* BatchArm, StreamArm and FelderaArm are each checked against this         *)
(* specification by a refinement mapping.                                   *)
(***************************************************************************)
EXTENDS AnswerGate, TLAPS

CONSTANTS
  Expected,   \* the ground truth: keys the arm may alert
  Owed        \* the part of it the arm must have alerted when it closes

VARIABLES
  output,     \* the alerts file: a sequence of keys
  closed      \* the arm has exited of its own accord

armVars == <<output, closed>>

ArmInit == output = <<>> /\ closed = FALSE

Alert(k) ==
  /\ ~closed
  /\ k \notin Range(output)
  /\ output' = Append(output, k)
  /\ UNCHANGED closed

Close ==
  /\ ~closed
  /\ Owed \subseteq Range(output)
  /\ closed' = TRUE
  /\ UNCHANGED output

ArmNext == (\E k \in Expected : Alert(k)) \/ Close

ArmSpec == ArmInit /\ [][ArmNext]_armVars
-----------------------------------------------------------------------------
(* The answer-equality gate passes on the file of a closed arm that owes    *)
(* the whole ground truth (compare_answers.compare_arm, identical = True).  *)
GateAtClose == closed /\ Owed = Expected => identical(output, Expected)

(* While the arm runs the gate can only find alerts missing: neither an     *)
(* extra alert nor a duplicate ever appears, not even for a moment.         *)
OnlyMissing == extra(output, Expected) = {} /\ duplicates(output) = {}
-----------------------------------------------------------------------------
\* Proof that this is what the gate tests.
ArmInv ==
  /\ output \in Seq(Expected)
  /\ closed \in BOOLEAN
  /\ \A i, j \in DOMAIN output : output[i] = output[j] => i = j
  /\ closed => Owed \subseteq Range(output)

LEMMA ArmInvInit == ArmInit => ArmInv
<1> SUFFICES ASSUME ArmInit PROVE ArmInv
  OBVIOUS
<1>1. /\ output \in Seq(Expected)
      /\ \A i, j \in DOMAIN output : output[i] = output[j] => i = j
  BY DEF ArmInit
<1>2. closed \in BOOLEAN /\ ~closed
  BY Zenon DEF ArmInit
<1> QED
  BY <1>1, <1>2 DEF ArmInv

LEMMA ArmInvStep == ArmInv /\ [ArmNext]_armVars => ArmInv'
<1> SUFFICES ASSUME ArmInv, [ArmNext]_armVars PROVE ArmInv'
  OBVIOUS
<1>1. ASSUME NEW k \in Expected, Alert(k) PROVE ArmInv'
  <2> USE <1>1 DEF Alert, ArmInv
  <2>1. output' \in Seq(Expected) /\ closed' \in BOOLEAN
    OBVIOUS
  <2>2. /\ DOMAIN output' = 1..(Len(output) + 1)
        /\ \A i \in DOMAIN output : i \in DOMAIN output' /\ output'[i] = output[i]
        /\ output'[Len(output) + 1] = k
        /\ DOMAIN output = 1..Len(output)
    OBVIOUS
  <2>3. \A i \in DOMAIN output : output[i] # k
    BY DEF Range
  <2>4. \A i, j \in DOMAIN output' : output'[i] = output'[j] => i = j
    BY <2>2, <2>3
  <2> QED
    BY <2>1, <2>4
<1>2. CASE Close
  BY <1>2 DEF Close, ArmInv
<1>3. CASE UNCHANGED armVars
  BY <1>3 DEF armVars, ArmInv, Range
<1> QED
  BY <1>1, <1>2, <1>3 DEF ArmNext

LEMMA GateFromInv == ArmInv => GateAtClose /\ OnlyMissing
<1> SUFFICES ASSUME ArmInv PROVE GateAtClose /\ OnlyMissing
  OBVIOUS
<1>1. Range(output) \subseteq Expected
  BY DEF ArmInv, Range
<1>2. extra(output, Expected) = {}
  BY <1>1 DEF extra
<1>3. duplicates(output) = {}
  <2>1. \A j \in DOMAIN output : \A i \in 1..(j-1) : output[i] # output[j]
    BY DEF ArmInv
  <2> QED
    BY <2>1 DEF duplicates
<1>4. ASSUME closed, Owed = Expected PROVE missing(output, Expected) = {}
  BY <1>4 DEF ArmInv, missing
<1> QED
  BY <1>2, <1>3, <1>4 DEF GateAtClose, OnlyMissing, identical

(* An arm that keeps the promise passes compare_answers.compare_arm when it *)
(* closes, if it owes the whole ground truth, and shows no extra alert and  *)
(* no duplicate at any time before.                                         *)
THEOREM PromisePassesGate == ArmSpec => [](GateAtClose /\ OnlyMissing)
<1>1. ArmSpec => []ArmInv
  BY ArmInvInit, ArmInvStep, PTL DEF ArmSpec
<1> QED
  BY <1>1, GateFromInv, PTL
=============================================================================
