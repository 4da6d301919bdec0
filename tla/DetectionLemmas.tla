---------------------------- MODULE DetectionLemmas ----------------------------
(***************************************************************************)
(* Facts about the detection and about alerts files that the proofs of      *)
(* several arms rest on.                                                    *)
(***************************************************************************)
EXTENDS Detection, AnswerGate, FiniteSetTheorems, TLAPS

\* The failures of a key can be counted.
LEMMA FailuresFinite ==
  ASSUME NEW k
  PROVE  IsFiniteSet(Failures(k)) /\ Cardinality(Failures(k)) \in Nat
BY DetectionAssumption, FS_Subset, FS_CardinalityType, Failures(k) \subseteq Events
   DEF Failures

\* Rows read twice are rows of one set: no selection of the corpus makes a
\* key reach the threshold that does not reach it over the whole corpus.
LEMMA CountedOnce ==
  ASSUME NEW rows, NEW k \in AlertKeys,
         Cardinality(Failures(k) \cap rows) >= FAILURE_THRESHOLD
  PROVE  k \in GroundTruth
<1>1. /\ Cardinality(Failures(k) \cap rows) \in Nat
      /\ Cardinality(Failures(k) \cap rows) <= Cardinality(Failures(k))
  BY FailuresFinite, FS_Subset, FS_CardinalityType, Failures(k) \cap rows \subseteq Failures(k)
<1>2. Cardinality(Failures(k)) >= FAILURE_THRESHOLD
  BY <1>1, FailuresFinite, DetectionAssumption
<1> QED BY <1>2 DEF GroundTruth, buckets

\* An alert has a failure, because the threshold is at least one.
LEMMA AlertHasFailure ==
  ASSUME NEW k \in GroundTruth
  PROVE  Failures(k) # {}
<1>1. Cardinality(Failures(k)) >= FAILURE_THRESHOLD
  BY DEF GroundTruth, buckets
<1> QED BY <1>1, FS_EmptySet, DetectionAssumption

\* Appending a key that is not in the file adds that key and no duplicate.
LEMMA AppendNew ==
  ASSUME NEW S, NEW file \in Seq(S), NEW k \in S
  PROVE  /\ Append(file, k) \in Seq(S)
         /\ Range(Append(file, k)) = Range(file) \cup {k}
         /\ duplicates(file) = {} /\ k \notin Range(file)
              => duplicates(Append(file, k)) = {}
<1> DEFINE longer == Append(file, k)
<1>1. /\ longer \in Seq(S)
      /\ DOMAIN longer = 1..(Len(file) + 1)
      /\ DOMAIN file = 1..Len(file)
      /\ Len(file) \in Nat
      /\ \A i \in 1..Len(file) : longer[i] = file[i]
      /\ longer[Len(file) + 1] = k
  OBVIOUS
<1> HIDE DEF longer
<1>2. Range(longer) = Range(file) \cup {k}
  BY <1>1 DEF Range
<1>3. ASSUME duplicates(file) = {}, k \notin Range(file), NEW x \in duplicates(longer)
      PROVE FALSE
  <2>1. PICK j \in DOMAIN longer : \E i \in 1..(j - 1) : longer[i] = longer[j]
    BY <1>3 DEF duplicates
  <2>2. PICK i \in 1..(j - 1) : longer[i] = longer[j]
    BY <2>1
  <2>3. CASE j = Len(file) + 1
    BY <2>2, <2>3, <1>1, <1>3 DEF Range
  <2>4. CASE j \in 1..Len(file)
    <3>1. i \in 1..(j - 1) /\ i \in 1..Len(file)
      BY <2>4, <1>1
    <3>2. file[i] = file[j]
      BY <3>1, <2>2, <2>4, <1>1
    <3>3. file[j] \in duplicates(file)
      BY <3>1, <3>2, <2>4, <1>1 DEF duplicates
    <3> QED BY <3>3, <1>3
  <2> QED BY <2>3, <2>4, <1>1
<1> QED BY <1>1, <1>2, <1>3 DEF longer
=============================================================================
