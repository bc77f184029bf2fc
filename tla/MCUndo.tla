------------------------------- MODULE MCUndo -------------------------------
(***************************************************************************)
(* An instance of UndoCaretaker: four commands of which two are kept, so   *)
(* that a step of three overshoots the cap and becomes history of its own, *)
(* and two operations, so that they overtake each other.                   *)
(***************************************************************************)
EXTENDS UndoCaretaker

Transactions == {"t", "u"}
=============================================================================
