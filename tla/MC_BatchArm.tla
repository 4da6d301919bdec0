------------------------------ MODULE MC_BatchArm ------------------------------
(***************************************************************************)
(* A corpus of eleven events for the batch arm: windows 1, 2, 3, 4 and 6    *)
(* (5 is empty, so one file number is missing), two pairs, three alerts,    *)
(* and in window 3 a near miss of pair a, one failure short, next to an     *)
(* alert of the same pair in windows 2 and 4.                               *)
(***************************************************************************)
EXTENDS BatchArm

MCEvents ==
  {[id |-> i, pair |-> p, time |-> t, status |-> s] :
     <<i, p, t, s>> \in {
       <<1, "b", 2, "success">>,
       <<2, "a", 4, "failure">>, <<3, "a", 5, "failure">>,
       <<4, "a", 6, "failure">>,
       <<5, "b", 6, "failure">>, <<6, "b", 7, "failure">>,
       <<7, "a", 8, "failure">>, <<8, "a", 9, "failure">>,
       <<9, "a", 9, "success">>,
       <<10, "b", 12, "success">>, <<11, "a", 13, "failure">>}}

NoSpill == [e \in MCEvents |-> 0]

\* The second failure of each alert is filed one window late.
SecondSpills == [e \in MCEvents |-> IF e.id \in {3, 6} THEN 1 ELSE 0]
=============================================================================
