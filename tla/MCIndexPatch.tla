---------------------------- MODULE MCIndexPatch ----------------------------
(***************************************************************************)
(* A small instance of IndexPatch: two files in an ancestor, three in the  *)
(* open project.  An index knows four ids, so that two changed files are   *)
(* still few enough to be patched.                                         *)
(***************************************************************************)
EXTENDS IndexPatch

CONSTANTS n1, n2, n3, n4, x, y, s1

MCPath == 1..5
MCLayerOf == <<1, 1, 2, 2, 2>>

MCOldDisk ==
  LET Files(ids) == [p \in MCPath |-> IF ids[p] = Absent THEN Absent
                                      ELSE [id |-> ids[p], sig |-> x]]
  IN {Files(<<n1, n2, n1, n3, n4>>),     \* the project shadows n1
      Files(<<n1, n2, n3, n2, n4>>),     \* ... or n2, from its middle file
      Files(<<n1, n2, n3, n4, Absent>>), \* nothing shadowed, a free name
      Files(<<n1, Absent, n2, n3, n4>>)} \* ... in the ancestor
=============================================================================
