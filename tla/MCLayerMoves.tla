---------------------------- MODULE MCLayerMoves ----------------------------
(***************************************************************************)
(* An instance of LayerMoves: an entry that may refer to a tag, a set      *)
(* pinned to the entry, and a prompt that includes a snippet and groups    *)
(* items under the tag.                                                    *)
(***************************************************************************)
EXTENDS LayerMoves, TLC

CONSTANTS hero, tag, set, prompt, snippet

Need == [n \in Node |-> CASE n = set -> {hero} [] n = prompt -> {snippet} [] OTHER -> {}]
Groups == [n \in Node |-> IF n = prompt THEN {tag} ELSE {}]
Tags == {tag}

Plain == [val |-> 0, refs |-> {}, fork |-> FALSE]

\* The files of each node, by the layer that owns it.
Owned(owner) == [l \in Layer |-> [n \in Node |-> IF owner[n] = l THEN Plain ELSE None]]

\* The book's set is pinned to an entry of the book or of an ancestor, and the
\* tag lives anywhere.
Entries ==
    {Owned(o) : o \in {p \in [Node -> 0 .. Depth] :
        p[prompt] = 0 /\ p[snippet] = 0 /\ p[set] \in {0, Depth} /\ p[hero] > 0 /\ p[tag] > 0}}

\* A prompt of the book, with a snippet of its own or inherited.
Prompts ==
    {Owned(o) : o \in {p \in [Node -> 0 .. Depth] :
        p[hero] = 0 /\ p[set] = 0 /\ p[prompt] = Depth /\ p[snippet] > 0 /\ p[tag] > 0}}

Starts == Entries \cup Prompts
=============================================================================
