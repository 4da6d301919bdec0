----------------------------- MODULE MC_FelderaArm -----------------------------
(***************************************************************************)
(* A corpus for the Feldera arm, with windows of 3 seconds, a lateness of 1 *)
(* and a threshold of 2: alerts of pair a in window 1 and of pair b in      *)
(* window 2, each with its failures in two buckets, and a near miss of b in *)
(* window 1.                                                                *)
(***************************************************************************)
EXTENDS FelderaArm

MCEvents ==
  {[id |-> i, pair |-> p, time |-> t, status |-> s] :
     <<i, p, t, s>> \in {
       <<1, "a", 3, "failure">>, <<2, "a", 4, "failure">>,
       <<3, "b", 4, "failure">>,
       <<4, "b", 6, "failure">>, <<5, "b", 8, "failure">>,
       <<6, "a", 10, "success">>, <<7, "a", 11, "success">>}}
=============================================================================
