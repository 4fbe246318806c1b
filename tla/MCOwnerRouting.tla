--------------------------- MODULE MCOwnerRouting ---------------------------
(***************************************************************************)
(* Instances of OwnerRouting for TLC: n1 owns every topic, and the others  *)
(* have the same score, so that the place in the list decides.             *)
(***************************************************************************)
EXTENDS OwnerRouting

CONSTANTS n1, n2, n3

TwoMembers == <<n1, n2>>
ThreeMembers == <<n1, n2, n3>>
Scores == [t \in Topics |-> [n \in Nodes |-> IF n = n1 THEN 7 ELSE 5]]
=============================================================================
