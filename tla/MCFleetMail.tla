---------------------------- MODULE MCFleetMail -----------------------------
(* Instances of FleetMail for TLC: two machines, a letter to each.         *)
EXTENDS FleetMail

CONSTANTS l1, l2, near, far

ToEach == [l \in Letters |-> IF l = l1 THEN near ELSE far]
\* The adapter alone, ssh alone, both; the near machine in neither map.
Both == [m \in Machines |-> Way]
Split == [m \in Machines |-> IF m = near THEN {"adapter"} ELSE {"ssh"}]
NearGone == [m \in Machines |-> IF m = near THEN {} ELSE {"ssh"}]
AllRoutes == {Both, Split, NearGone}
=============================================================================
