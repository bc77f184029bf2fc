----------------------------- MODULE MCTreeBuild -----------------------------
(***************************************************************************)
(* All trees of four nodes, one of them a leaf, with every choice of       *)
(* parents; ranks play no part.                                            *)
(***************************************************************************)
EXTENDS TreeBuild, TLC

MCNode == 1..4
MCContainer == {1, 2, 3}
MCGrain == 0 :> 100 @@ 1 :> 10

MCAnyTree ==
  {[n \in MCNode |-> [parent |-> up[n], rank |-> NoRank]] :
     up \in [MCNode -> MCNode \cup {Top}]}
=============================================================================
