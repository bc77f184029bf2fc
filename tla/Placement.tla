------------------------------ MODULE Placement ------------------------------
(***************************************************************************)
(* Where a node sits in the manuscript or research tree (placement.py and  *)
(* tree_build.py of src/backend/app/services/project): its file names a    *)
(* parent and a rank, the tree is built from those, and a move is planned  *)
(* as a list of rank writes.  Pure operators; TreeMoves runs the writes.   *)
(***************************************************************************)
EXTENDS Integers, FiniteSets, Sequences

CONSTANTS
  Node,         \* node ids, numbered in their text order
  Container,    \* the nodes whose type may hold nodes
  Top,          \* the parent of a top-level node
  Stranger,     \* a parent that is no node of this tree
  Absent,       \* no such node
  NoRank,       \* no usable number
  MaxDecimals,  \* MAX_RANK_DECIMALS
  Grain         \* Grain[d] is 10^-d, counted in the finest rank there is

ASSUME PlacementAssumption ==
  /\ Node \subseteq Nat /\ IsFiniteSet(Node)
  /\ Container \subseteq Node
  /\ Top \notin Node /\ Stranger \notin Node /\ Top # Stranger
  /\ NoRank \notin Int
  /\ MaxDecimals \in Nat \ {0}
  /\ Grain \in [0..MaxDecimals -> Nat \ {0}]
  /\ \A d \in 0..MaxDecimals - 1 : Grain[d] = 10 * Grain[d + 1]

Rank == Int \cup {NoRank}
Place == [parent : Node \cup {Top, Stranger}, rank : Rank]
ASSUME AbsentAssumption == Absent \notin Place

\* A tree is given by its placements
Tree == [Node -> Place \cup {Absent}]
NodesOf(tree) == {n \in Node : tree[n] # Absent}

-----------------------------------------------------------------------------
(* Reading the order, placement.py *)

\* rank_sort_key: by rank, a missing one last, ties by id
Before(rank, m, n) ==
  \/ rank[m] # NoRank /\ rank[n] = NoRank
  \/ rank[m] # NoRank /\ rank[n] # NoRank /\ rank[m] < rank[n]
  \/ rank[m] = rank[n] /\ m < n

\* How many of `group` come before n, and who has k of them before it
IndexIn(rank, group, n) == Cardinality({m \in group : Before(rank, m, n)})
At(rank, group, k) == CHOOSE n \in group : IndexIn(rank, group, n) = k

-----------------------------------------------------------------------------
(* Building the tree, tree_build.py *)

\* The parent a file names, if it is a container of this tree
Claimed(tree, n) ==
  IF tree[n].parent \in Container \cap NodesOf(tree) THEN tree[n].parent ELSE Top

\* Everything above n when each node goes under up[node]
Above(up, n) ==
  LET chain[k \in 0..Cardinality(Node)] ==
        IF k = 0 THEN n ELSE IF chain[k - 1] = Top THEN Top ELSE up[chain[k - 1]]
  IN {chain[k] : k \in 1..Cardinality(Node)}

\* _nodes_on_cycles
OnCycle(tree, n) == n \in Above([m \in NodesOf(tree) |-> Claimed(tree, m)], n)

HonouredParent(tree, n) == IF OnCycle(tree, n) THEN Top ELSE Claimed(tree, n)

Siblings(tree, parent) == {n \in NodesOf(tree) : HonouredParent(tree, n) = parent}

\* contains_node: n is m or somewhere above it
Contains(tree, n, m) ==
  \/ n = m
  \/ m # Top /\ n \in Above([k \in NodesOf(tree) |-> HonouredParent(tree, k)], m)

-----------------------------------------------------------------------------
(* Planning a placement, placement.py *)

Unit == Grain[0]

\* The multiple of g nearest the midpoint, half away from zero (ROUND_HALF_UP)
Nearest(low, high, g) ==
  LET sum == low + high
  IN IF sum >= 0 THEN g * ((sum + g) \div (2 * g)) ELSE -(g * ((g - sum) \div (2 * g)))

\* How many decimals suffice for a rank between two others
Enough(low, high) ==
  {d \in 0..MaxDecimals :
     low < Nearest(low, high, Grain[d]) /\ Nearest(low, high, Grain[d]) < high}

\* Faulty variant: does not check that the rounded midpoint is still between
RankBetweenRounded(low, high) == Nearest(low, high, Grain[MaxDecimals])

\* rank_between
RankBetween(low, high) ==
  IF Enough(low, high) = {} THEN NoRank
  ELSE Nearest(low, high,
               Grain[CHOOSE d \in Enough(low, high) : \A e \in Enough(low, high) : d <= e])

\* _new_rank: for a node put before the k-th of `others`, or NoRank when the
\* neighbours leave no room
NewRank(rank, others, k) ==
  LET size == Cardinality(others)
      lower == rank[At(rank, others, k - 1)]
      upper == rank[At(rank, others, k)]
  IN CASE size = 0 -> Unit
       [] size > 0 /\ k = 0 -> IF upper = NoRank THEN NoRank ELSE upper - Unit
       [] size > 0 /\ k = size -> IF lower = NoRank THEN NoRank ELSE lower + Unit
       [] OTHER -> IF NoRank \in {lower, upper} THEN NoRank ELSE RankBetween(lower, upper)

\* The whole part of the highest rank of `group`
Base(rank, group) ==
  LET ranked == {n \in group : rank[n] # NoRank}
      highest == CHOOSE n \in ranked : \A m \in ranked : rank[m] <= rank[n]
  IN IF ranked = {} THEN 0 ELSE Unit * (rank[highest] \div Unit)

\* Fresh ranks for a group, one apart and above its highest
Renumbered(rank, group) ==
  [n \in group |-> Base(rank, group) + Unit * (IndexIn(rank, group, n) + 1)]

\* Faulty variant: writes the first sibling first
RenumberWritesUpward(rank, group) ==
  [i \in 1..Cardinality(group) |->
     LET n == At(rank, group, i - 1)
     IN [node |-> n, rank |-> Renumbered(rank, group)[n]]]

\* ... written last sibling first
RenumberWrites(rank, group) ==
  [i \in 1..Cardinality(group) |->
     LET n == At(rank, group, Cardinality(group) - i)
     IN [node |-> n, rank |-> Renumbered(rank, group)[n]]]

\* plan_placement: the writes that put n at `position` of `group`, counted
\* without n
PlanPlacement(rank, group, n, position) ==
  LET others == group \ {n}
      at == IF position < Cardinality(others) THEN position ELSE Cardinality(others)
      alone == NewRank(rank, others, at)
      fresh == Renumbered(rank, group)
      last == NewRank(fresh, others, at)
  IN IF n \in group /\ rank[n] # NoRank /\ IndexIn(rank, group, n) = at
     THEN <<>>
     ELSE IF alone # NoRank
     THEN <<[node |-> n, rank |-> alone]>>
     ELSE RenumberWrites(rank, group)
            \o IF n \in group /\ fresh[n] = last THEN <<>> ELSE <<[node |-> n, rank |-> last]>>
=============================================================================
