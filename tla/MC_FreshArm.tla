------------------------------ MODULE MC_FreshArm ------------------------------
(***************************************************************************)
(* A corpus over windows 2, 3, 4 and 6 (5 is empty, so one file number of   *)
(* the fine lander is missing) with an alert of pair a in window 3, a near  *)
(* miss of it in window 4, an alert of pair b in the last window, and two   *)
(* planted events.  The coarse lander's files are 2 and 4 and 6.            *)
(***************************************************************************)
EXTENDS FreshArm

MCEvents ==
  {[id |-> i, pair |-> p, time |-> t, status |-> s] :
     <<i, p, t, s>> \in {
       <<1, "b", 4, "success">>, <<2, "ioc", 5, "success">>,
       <<3, "a", 6, "failure">>, <<4, "a", 7, "failure">>,
       <<5, "a", 8, "failure">>,
       <<6, "b", 12, "failure">>, <<7, "ioc", 12, "success">>,
       <<8, "b", 13, "failure">>}}

MCSpan == [l \in Landers |-> IF l = "fine" THEN 1 ELSE 2]

MCReads == [r \in Replicas |-> IF r = "B5L300" THEN "coarse" ELSE "fine"]
=============================================================================
