------------------------------ MODULE AnswerGate ------------------------------
(***************************************************************************)
(* compare_answers.py: the answer-equality gate that every arm's output     *)
(* file passes through.  A file is the sequence of the dedup keys of its    *)
(* rows; wording, counts and paths of the report are left out.              *)
(***************************************************************************)
EXTENDS Integers, Sequences, Functions

\* Mutant of duplicates: a row is compared with itself too.
duplicates_Self(file) ==
  {file[j] : j \in {j \in DOMAIN file : \E i \in 1..j : file[i] = file[j]}}

\* load_alert_keys: a row whose key has been read before is a duplicate.
duplicates(file) ==
  {file[j] : j \in {j \in DOMAIN file : \E i \in 1..(j-1) : file[i] = file[j]}}

missing(file, gt_keys) == gt_keys \ Range(file)

\* Mutant of extra: the difference taken the wrong way round.
extra_Swapped(file, gt_keys) == gt_keys \ Range(file)

extra(file, gt_keys) == Range(file) \ gt_keys

identical(file, gt_keys) ==
  /\ missing(file, gt_keys) = {}
  /\ extra(file, gt_keys) = {}
  /\ duplicates(file) = {}
=============================================================================
