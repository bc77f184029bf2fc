---------------------------- MODULE MCStoryTime ----------------------------
(***************************************************************************)
(* An instance of StoryTime: one hero, two scenes, and sets whose rows use *)
(* every kind of field.                                                    *)
(***************************************************************************)
EXTENDS StoryTime

R(id, field, key, op, value) == [id |-> id, field |-> field, key |-> key, op |-> op, value |-> value]

\* The rows sets are made of: an item starts, changes and ends, a text grows
\* and is set anew, a collection takes a tag and bars it.
Starts == <<R(1, "rels", "k", "add", "new"), R(2, "tags", "", "add", "t")>>
Changes == <<R(1, "rels.note", "k", "replace", "changed"), R(2, "body", "", "add", "line"),
             R(3, "tags", "", "remove", "t")>>
Anew == <<R(1, "rels", "k", "remove", ""), R(2, "body", "", "replace", "anew"),
          R(3, "tags", "", "replace", "t")>>
LaterRows == {Anew}

Hero == {"hero"}
OneKey == {"k"}
Item == [k \in OneKey |-> "old"]

Set(pin, rows) == [pin |-> pin, rows |-> rows]
TwoSets == {<<Set("hero", Starts), Set("hero", Changes)>>}

\* A pill with its end, and two pills side by side.
Bodies == {<<Anchor(1, 1), Close(1, WholeSet)>>, <<Anchor(1, 1), Anchor(2, 2)>>}
Symmetry == Permutations(Scene)
=============================================================================
