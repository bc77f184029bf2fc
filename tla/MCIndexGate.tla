---------------------------- MODULE MCIndexGate ----------------------------
(***************************************************************************)
(* Small instances of IndexGate: two layers, file 1 an ancestor's and      *)
(* files 2 and 3 the open project's, and the projects they start from.     *)
(***************************************************************************)
EXTENDS IndexGate, TLC

CONSTANTS w1, w2, a, b, x, y, s1, s2

MCPath == 1..3
MCLayerOf == <<1, 2, 2>>

File(i, s) == [id |-> i, sig |-> s]

\* An ancestor's node, and the project's own
Flat == <<File(a, x), File(b, x), Absent>>
\* The project shadows the ancestor's node
Shadowing == <<File(a, x), File(a, x), File(b, x)>>

MCInitialDisk == {Flat, Shadowing}
FlatOnly == {Flat}
ShadowingOnly == {Shadowing}

\* The threads do the same things
Threads == Permutations(Worker)

\* What a job may fail to read: nothing, or the schema and the project's own
\* first node with it
NoneFails == {{}}
BothFail == {{}, {2, SchemaFile}}
=============================================================================
