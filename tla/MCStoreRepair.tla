---------------------------- MODULE MCStoreRepair ----------------------------
(* Values of the constants of StoreRepair for model checking.               *)
EXTENDS StoreRepair

\* The third fact is as similar to the first as to the second, which have
\* nothing in common.  Day 8 is within the tolerance of day 1, day 9 is not.
ThreeFacts == 1..3
Words == <<{"city", "paris"}, {"food", "ramen"}, {"city", "food"}>>
DayValues == {1, 8, 9}

\* One agent writes between two runs, the other beside a run until its snapshot
\* is listed.
TwoAgents ==
  {[phases |-> {"idle"}, runs |-> 2],
   [phases |-> {"idle", "checksum", "list"}, runs |-> 1]}
==============================================================================
