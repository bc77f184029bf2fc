---------------------------- MODULE MCTreeMoves ----------------------------
(***************************************************************************)
(* Small trees for TreeMoves: four ids, the first two containers, ranks of *)
(* one decimal at most counted in hundredths.                              *)
(***************************************************************************)
EXTENDS TreeMoves, TLC

CONSTANTS w1, w2, x, y

MCNode == 1..4
MCContainer == {1, 2}
MCGrain == 0 :> 100 @@ 1 :> 10

In(parent, rank) == [parent |-> parent, rank |-> rank]

\* 1.0, 1.1 and 2.0: no room between the first two
Worn == <<In(Top, 100), In(Top, 110), In(Top, 200), Absent>>
\* Two siblings share a rank, and one has none and a parent from nowhere
Tied == <<In(Top, 100), In(Top, 100), In(Stranger, NoRank), In(2, 105)>>
\* Two nodes that were created and never placed
Unplaced == <<In(Top, 100), In(Top, NoRank), In(Top, NoRank), In(2, 100)>>
\* The files of two nodes name each other as parents
Looped == <<In(2, 200), In(1, 100), In(Top, 200), Absent>>

TidyTrees == {Worn, Tied}
UnplacedOnly == {Unplaced}
LoopedOnly == {Looped}
WornOnly == {Worn}
=============================================================================
