---------------------------- MODULE MCEditorSave ----------------------------
(***************************************************************************)
(* Small instances of EditorSave.  Conflicts: the author edits one place   *)
(* of the prose (2) and a field (11); others edit before it (1), after it  *)
(* (3), and set the field to another value (12).  Two edits by others that *)
(* enclose the author's make a clash in the prose.                         *)
(***************************************************************************)
EXTENDS EditorSave

CONSTANTS p1, p2

OnePane == {p1}
TwoPanes == {p1, p2}
Own == {2, 11}
Around == {1, 3, 12}
Before == {1, 12}
OwnField == {11}
OutField == {12}
FieldMarks == {11, 12}
OneRivalry == {{11, 12}}
NoGaps == {}
ReloadGap == {"reload"}
=============================================================================
