---------------------------- MODULE MCSolutionTree ----------------------------
(***************************************************************************)
(* Instance of SolutionTree for TLC.  Two actions delete one solution of   *)
(* two nodes, or each of them one of two solutions of one node, or one of  *)
(* them a solution of three nodes and the other one without any.           *)
(***************************************************************************)
EXTENDS SolutionTree, TLC

CONSTANTS g1, g2, d1, d2

SomeScenarios ==
  {[solution |-> d1 :> g1 @@ d2 :> g1, size |-> g1 :> 2 @@ g2 :> 0],
   [solution |-> d1 :> g1 @@ d2 :> g2, size |-> g1 :> 1 @@ g2 :> 1],
   [solution |-> d1 :> g1 @@ d2 :> g2, size |-> g1 :> 3 @@ g2 :> 0]}
=============================================================================
