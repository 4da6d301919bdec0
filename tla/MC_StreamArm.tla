----------------------------- MODULE MC_StreamArm -----------------------------
(***************************************************************************)
(* A corpus for the streaming arm, with windows of 3 seconds, a lateness of *)
(* 1 and a threshold of 2.  Pair b is one failure short in window 1 and     *)
(* raises an alert in window 2; pair a raises one in window 1.              *)
(***************************************************************************)
EXTENDS StreamArm

MCEvents ==
  {[id |-> i, pair |-> p, time |-> t, status |-> s] :
     <<i, p, t, s>> \in {
       <<1, "a", 3, "failure">>, <<2, "a", 4, "failure">>,
       <<3, "b", 4, "failure">>,
       <<4, "b", 6, "failure">>, <<5, "b", 7, "failure">>,
       <<6, "a", 10, "success">>}}

=============================================================================
