------------------------------ MODULE TreeBuild ------------------------------
(***************************************************************************)
(* How tree_build.py finds the nodes whose parents form a cycle: one pass  *)
(* over all nodes, each visited once, in whatever order the index holds    *)
(* them.  Placement says what it should find (OnCycle, HonouredParent).    *)
(***************************************************************************)
EXTENDS Placement

CONSTANT AnyTree  \* the trees to be built

ASSUME TreeBuildAssumption == AnyTree \subseteq Tree /\ Absent \notin Node \cup {Top}

VARIABLES
  entries,   \* the placements handed in
  honoured,  \* the parent each node is placed under (Absent: not yet)
  toVisit,   \* the nodes the walk has yet to start from
  state,     \* 1: on the current path, 2: settled, 0: neither
  path,      \* the nodes walked since the last start
  here,      \* the node reached (Top: past the last one; Absent: no walk)
  onCycle,   \* the nodes found on a cycle
  cut        \* were they put at the top?

buildVars == <<entries, honoured, toVisit, state, path, here, onCycle, cut>>

BuildInit ==
  /\ entries \in AnyTree
  /\ honoured = [n \in NodesOf(entries) |-> Absent]
  /\ toVisit = NodesOf(entries)
  /\ state = [n \in NodesOf(entries) |-> 0]
  /\ path = <<>> /\ here = Absent
  /\ onCycle = {} /\ cut = FALSE

\* The first loop of build_tree: the parents the files name, where they may be
Honour ==
  /\ honoured = [n \in NodesOf(entries) |-> Absent]
  /\ honoured' = [n \in NodesOf(entries) |-> Claimed(entries, n)]
  /\ UNCHANGED <<entries, toVisit, state, path, here, onCycle, cut>>

Honoured == \A n \in NodesOf(entries) : honoured[n] # Absent

\* _nodes_on_cycles: the next node to start from, passed over when it was seen
Start(n) ==
  /\ Honoured
  /\ here = Absent
  /\ n \in toVisit
  /\ toVisit' = toVisit \ {n}
  /\ here' = IF state[n] = 0 THEN n ELSE Absent
  /\ UNCHANGED <<entries, honoured, state, path, onCycle, cut>>

\* One step up, from a node not seen before
Follow ==
  /\ here \in NodesOf(entries) /\ state[here] = 0
  /\ state' = [state EXCEPT ![here] = 1]
  /\ path' = Append(path, here)
  /\ here' = honoured[here]
  /\ UNCHANGED <<entries, honoured, toVisit, onCycle, cut>>

\* Faulty variant: takes all of the path for the cycle it leads into
LoopWhole == {path[i] : i \in DOMAIN path}

\* Faulty variant: ... from the node after it
LoopAfter == {path[i] : i \in {j \in DOMAIN path : \E k \in 1..j - 1 : path[k] = here}}

\* The part of the path from the node it came back to
Loop == {path[i] : i \in {j \in DOMAIN path : \E k \in 1..j : path[k] = here}}

\* The path ends at the top, at a settled node, or where it crosses itself
Settle ==
  /\ here = Top \/ (here \in NodesOf(entries) /\ state[here] # 0)
  /\ onCycle' = IF here # Top /\ state[here] = 1 THEN onCycle \cup Loop ELSE onCycle
  /\ state' = [n \in NodesOf(entries) |-> IF state[n] = 1 THEN 2 ELSE state[n]]
  /\ path' = <<>>
  /\ here' = Absent
  /\ UNCHANGED <<entries, honoured, toVisit, cut>>

\* The nodes on a cycle go to the top
Cut ==
  /\ toVisit = {} /\ here = Absent /\ ~cut
  /\ Honoured
  /\ honoured' = [n \in NodesOf(entries) |-> IF n \in onCycle THEN Top ELSE honoured[n]]
  /\ cut' = TRUE
  /\ UNCHANGED <<entries, toVisit, state, path, here, onCycle>>

BuildNext ==
  \/ Honour
  \/ \E n \in NodesOf(entries) : Start(n)
  \/ Follow \/ Settle \/ Cut

BuildSpec == BuildInit /\ [][BuildNext]_buildVars

-----------------------------------------------------------------------------
\* tree_build.py:116-119: the walk finds just the nodes that are their own
\* ancestors, and none whose chain merely leads into a cycle, in whatever order
\* it starts; so the tree is the one Placement describes.
FindsCycles == cut => honoured = [n \in NodesOf(entries) |-> HonouredParent(entries, n)]

\* tree_build.py:14-15: "Nothing is dropped: every entry handed in appears
\* exactly once", under the root, whatever the files say of parents.
NothingDropped == cut => \A n \in NodesOf(entries) : Top \in Above(honoured, n)
=============================================================================
