---------------------------- MODULE LayerLadder ----------------------------
(***************************************************************************)
(* The ladder of migrations as it works on the files of one project layer: *)
(* which steps are pending for a version, and for each step the files it   *)
(* writes, one after the other.  A step is a sequence of contents of the   *)
(* layer, each one file further than the one before.                       *)
(*                                                                         *)
(* Three steps stand for the ladder: v10 turns tag names into tag nodes,   *)
(* v15 settles the plot cards, and the document pass (v16, v17) rewrites   *)
(* one document at a time.                                                 *)
(***************************************************************************)
EXTENDS Naturals, SequencesExt

CONSTANTS
    Name,  \* the names tags go by
    Lower  \* the lower-cased name of each name

ASSUME LowerAssumption == Lower \in [Name -> Name]

CURRENT_VERSION == 3

\* No scene, no summary, no rank.
None == 0

\* A string that looks like a tag id is a name like any other.
Key(name) == IF name \in Name THEN Lower[name] ELSE name

Steps == <<[version |-> 1, what |-> "tags"],
           [version |-> 2, what |-> "cards"],
           [version |-> 3, what |-> "documents"]>>

\* The steps a layer at version `current` still needs.
Pending(current) == SelectSeq(Steps, LAMBDA s : s.version > current)

-----------------------------------------------------------------------------
(***************************************************************************)
(* v10.  A work record is the layer's content so far, the vocabulary of    *)
(* the run, the tag ids handed out, and the contents written.              *)
(***************************************************************************)
Work(c, names, ids) == [c |-> c, names |-> names, ids |-> ids, out |-> <<>>]

Wrote(w, c) == [w EXCEPT !.c = c, !.out = Append(@, c)]

Learn(names, name, id) ==
    IF Key(name) \in DOMAIN names THEN names ELSE names @@ (Key(name) :> id)

\* The tag nodes a layer has already, whatever attempt made them.
SeedLayer(names, c) == FoldLeft(LAMBDA n, t : Learn(n, t.title, t.id), names, c.tags)

\* Faulty variant: a name is looked up only as it is written.
EnsureTag_CaseSensitive(w, name) ==
    IF name \in DOMAIN w.names THEN w
    ELSE [Wrote(w, [w.c EXCEPT !.tags = Append(@, [id |-> w.ids + 1, title |-> name])])
            EXCEPT !.ids = @ + 1, !.names = (Key(name) :> w.ids + 1) @@ @]

\* A name that nothing in the vocabulary answers to becomes a tag node here.
EnsureTag(w, name) ==
    IF Key(name) \in DOMAIN w.names THEN w
    ELSE [Wrote(w, [w.c EXCEPT !.tags = Append(@, [id |-> w.ids + 1, title |-> name])])
            EXCEPT !.ids = @ + 1, !.names = Learn(@, name, w.ids + 1)]

KnownId(names, value) == \E k \in DOMAIN names : names[k] = value

ConvertDoc(w, i) ==
    LET value == w.c.docs[i]
        known == EnsureTag(w, value)
    IN  IF KnownId(w.names, value) THEN w
        ELSE Wrote(known, [known.c EXCEPT !.docs[i] = known.names[Key(value)]])

\* Faulty variant: the registry is retired before its names are nodes.
MigrateTags_RetireFirst(c, names, ids) ==
    LET start == Work(c, SeedLayer(names, c), ids)
        retired == IF c.yaml = <<>> THEN start ELSE Wrote(start, [c EXCEPT !.yaml = <<>>])
    IN  FoldLeftDomain(ConvertDoc, FoldLeft(EnsureTag, retired, c.yaml), c.docs)

\* Faulty variant: the layer's own tag nodes are not looked at first.
MigrateTags_NoReseed(c, names, ids) ==
    LET minted == FoldLeft(EnsureTag, Work(c, names, ids), c.yaml)
        converted == FoldLeftDomain(ConvertDoc, minted, c.docs)
    IN  IF c.yaml = <<>> THEN converted
        ELSE Wrote(converted, [converted.c EXCEPT !.yaml = <<>>])

\* The registry's names and the documents' names become nodes and ids; the
\* registry is retired last.
MigrateTags(c, names, ids) ==
    LET minted == FoldLeft(EnsureTag, Work(c, SeedLayer(names, c), ids), c.yaml)
        converted == FoldLeftDomain(ConvertDoc, minted, c.docs)
    IN  IF c.yaml = <<>> THEN converted
        ELSE Wrote(converted, [converted.c EXCEPT !.yaml = <<>>])

-----------------------------------------------------------------------------
(***************************************************************************)
(* v15.  Cards are numbered by their ids and scenes by reading order.      *)
(***************************************************************************)
Written(cards) == {i \in DOMAIN cards : cards[i].scene # None}
Keeps(cards, i) == \A j \in Written(cards) : cards[j].scene = cards[i].scene => i <= j

\* Of several cards of one scene the first keeps it.
OneCardPerScene(cards) ==
    [i \in DOMAIN cards |-> IF Keeps(cards, i) THEN cards[i] ELSE [cards[i] EXCEPT !.scene = None]]

\* The summary a scene is left with: its own, or the body of its card.
SummaryOf(c, s) ==
    LET bodies == {i \in Written(c.cards) : c.cards[i].scene = s /\ c.cards[i].body}
    IN  IF c.scenes[s].summary # None \/ bodies = {} THEN c.scenes[s].summary
        ELSE CHOOSE i \in bodies : TRUE

\* Written cards in reading order, then the rest.
BoardOrder(cards) ==
    LET place == [i \in DOMAIN cards |-> IF cards[i].scene = None THEN <<1, i>> ELSE <<0, cards[i].scene>>]
    IN  SetToSortSeq(DOMAIN cards, LAMBDA i, j :
            \/ place[i][1] < place[j][1]
            \/ place[i][1] = place[j][1] /\ place[i][2] < place[j][2])

\* The cards that lost their scene, the scenes that got a summary, and last,
\* if no card has a rank yet, the ranks, each a file of its own.
MigrateCards(c, names, ids) ==
    LET cards == OneCardPerScene(c.cards)
        SettleCard(w, i) ==
            IF w.c.cards[i] = cards[i] THEN w ELSE Wrote(w, [w.c EXCEPT !.cards[i] = cards[i]])
        settled == FoldLeftDomain(SettleCard, Work(c, names, ids), cards)
        SeedSummary(w, s) ==
            LET summary == SummaryOf(settled.c, s)
            IN  IF w.c.scenes[s].summary = summary THEN w
                ELSE Wrote(w, [w.c EXCEPT !.scenes[s].summary = summary])
        seeded == FoldLeftDomain(SeedSummary, settled, c.scenes)
        order == BoardOrder(cards)
        Rank(w, n) == Wrote(w, [w.c EXCEPT !.cards[order[n]].rank = n])
    IN  IF \E i \in DOMAIN cards : cards[i].rank # None THEN seeded
        ELSE FoldLeftDomain(Rank, seeded, order)

-----------------------------------------------------------------------------
\* The document pass: a document is written back only when a step changed it.
MigrateDocuments(c, names, ids) ==
    LET Bracket(w, s) ==
            IF w.c.scenes[s].bracketed THEN w
            ELSE Wrote(w, [w.c EXCEPT !.scenes[s].bracketed = TRUE])
    IN  FoldLeftDomain(Bracket, Work(c, names, ids), c.scenes)

Perform(what, c, names, ids) ==
    CASE what = "tags" -> MigrateTags(c, names, ids)
      [] what = "cards" -> MigrateCards(c, names, ids)
      [] what = "documents" -> MigrateDocuments(c, names, ids)
=============================================================================
