--------------------------- MODULE LoreMutations ---------------------------
(***************************************************************************)
(* What a lore entry is at a point of the manuscript.                      *)
(*                                                                         *)
(* A manuscript `ms` is the sequence of its scenes' bodies in tree order;  *)
(* a body is the sequence of its mutation marks, anchors and closes, the   *)
(* prose between them left out.  An anchor names a mutation set, and a set *)
(* pinned to an entry gives the anchor one record per row.  A point is a   *)
(* pair: the number of a scene and the number of marks passed in it.       *)
(***************************************************************************)
EXTENDS Naturals, Sequences, FiniteSets, SequencesExt

CONSTANTS
    Entity,     \* lore entries that exist
    Keys,       \* keys an item of the item list can have
    BaseItems   \* the item list at the start of the book: key -> note

ASSUME LoreMutationsAssumption == DOMAIN BaseItems \subseteq Keys

StartOfScene == 0
EndOfScene == 1000    \* past every mark of a scene
NoSet == 0            \* set id of an anchor whose copied set has not come
WholeSet == 0          \* the row of a close that ends every row

Gone == [pin |-> "gone", rows |-> <<>>]

Before(a, b) == a[1] < b[1] \/ (a[1] = b[1] /\ a[2] < b[2])

MarkAt(ms, at) == ms[at[1]][at[2]]

\* The marks of the manuscript in reading order, as points.
Points(ms) ==
    FlattenSeq([i \in 1..Len(ms) |-> [k \in 1..Len(ms[i]) |-> <<i, k>>]])

AnchorHits(ms) == SelectSeq(Points(ms), LAMBDA at : MarkAt(ms, at).kind = "anchor")
CloseHits(ms) == {at \in ToSet(Points(ms)) : MarkAt(ms, at).kind = "close"}

Usable(sets, id) == id \in DOMAIN sets /\ sets[id].pin \in Entity

\* An anchor id that repeats an earlier one contributes nothing, whether or
\* not the set of the first can be read.
FirstOfItsId(ms, at) ==
    ~\E other \in ToSet(AnchorHits(ms)) :
        Before(other, at) /\ MarkAt(ms, other).id = MarkAt(ms, at).id

Contributing(ms, sets) ==
    SelectSeq(AnchorHits(ms), LAMBDA at : FirstOfItsId(ms, at) /\ Usable(sets, MarkAt(ms, at).set))

RecordsForAnchor(ms, sets, at) ==
    LET mark == MarkAt(ms, at)
        view == sets[mark.set]
    IN  [r \in 1..Len(view.rows) |->
            [anchor |-> mark.id, entity |-> view.pin, row |-> view.rows[r], start |-> at]]

\* The records of an entry, in reading order.
Records(ms, sets, e) ==
    LET hits == Contributing(ms, sets)
        all == FlattenSeq([i \in 1..Len(hits) |-> RecordsForAnchor(ms, sets, hits[i])])
    IN  SelectSeq(all, LAMBDA rec : rec.entity = e)

Ends(mark, rec) == mark.ref = rec.anchor /\ mark.row \in {WholeSet, rec.row.id}

NoClose == <<0, 0>>
Earliest(points) ==
    IF points = {} THEN NoClose
    ELSE CHOOSE at \in points : \A other \in points : ~Before(other, at)

\* Faulty variant: a close that stands before the record's start counts.
ResolveClose_AnyClose(ms, rec) == Earliest({at \in CloseHits(ms) : Ends(MarkAt(ms, at), rec)})

\* The close that governs a record: the earliest at or after its start.
ResolveClose(ms, rec) ==
    Earliest({at \in CloseHits(ms) : Ends(MarkAt(ms, at), rec) /\ ~Before(at, rec.start)})

\* The records of an entry with their closes, built once for all points.
MutationsIndex(ms, sets, e) ==
    LET recs == Records(ms, sets, e)
    IN  [i \in 1..Len(recs) |-> [rec |-> recs[i], close |-> ResolveClose(ms, recs[i])]]

\* A record holds from its start up to, and not at, its close.
MarkerIsLive(marker, at) ==
    /\ ~Before(at, marker.rec.start)
    /\ marker.close = NoClose \/ Before(at, marker.close)

LiveRecords(index, at) ==
    LET live == SelectSeq(index, LAMBDA marker : MarkerIsLive(marker, at))
    IN  [i \in 1..Len(live) |-> live[i].rec]

-----------------------------------------------------------------------------
\* The value of a field.  A row has a field, a key (of an item, for the item
\* list), an op and a value; "rels.note" stands for the path of the member
\* `note` of one item.

Token(rec) == <<rec.row.field, IF rec.row.field = "rels.note" THEN rec.row.key ELSE "">>
FirstSeen(live, token) ==
    CHOOSE i \in 1..Len(live) :
        Token(live[i]) = token /\ \A j \in 1..(i - 1) : Token(live[j]) # token

\* The records of the item list and of its items' members, gathered field by
\* field and then sorted by start: rows of one anchor come in the order in
\* which their fields were first met.
ItemRecords(live) ==
    LET items == SelectSeq(live, LAMBDA rec : rec.row.field \in {"rels", "rels.note"})
    IN  SortSeq(items, LAMBDA a, b :
            \/ Before(a.start, b.start)
            \/ /\ a.start = b.start
               /\ FirstSeen(live, Token(a)) < FirstSeen(live, Token(b)))

Without(slots, key) == [k \in DOMAIN slots \ {key} |-> slots[k]]
With(slots, key, note) ==
    [k \in DOMAIN slots \cup {key} |-> IF k = key THEN note ELSE slots[k]]

\* Faulty variant: an item that is there keeps its members when added again.
ApplyItemRecord_KeepsMembers(slots, rec) ==
    LET row == rec.row IN
    CASE row.field = "rels" /\ row.op = "add" ->
            IF row.key \in DOMAIN slots THEN slots ELSE With(slots, row.key, row.value)
      [] row.field = "rels" /\ row.op = "remove" -> Without(slots, row.key)
      [] row.field = "rels.note" /\ row.op = "replace" /\ row.key \in DOMAIN slots ->
            With(slots, row.key, row.value)
      [] OTHER -> slots

\* An add places the item anew, a remove drops it, and a member's replace
\* changes the item that is there; anything else has no effect.
ApplyItemRecord(slots, rec) ==
    LET row == rec.row IN
    CASE row.field = "rels" /\ row.op = "add" -> With(slots, row.key, row.value)
      [] row.field = "rels" /\ row.op = "remove" -> Without(slots, row.key)
      [] row.field = "rels.note" /\ row.op = "replace" /\ row.key \in DOMAIN slots ->
            With(slots, row.key, row.value)
      [] OTHER -> slots

FoldKeyedItems(live) == FoldLeft(ApplyItemRecord, BaseItems, ItemRecords(live))

OfField(live, field) == SelectSeq(live, LAMBDA rec : rec.row.field = field)

\* The index of the last whole replace, 0 for none.
LastReplaceIndex(recs) ==
    LET replaces == {i \in 1..Len(recs) : recs[i].row.op = "replace"}
    IN  IF replaces = {} THEN 0 ELSE CHOOSE i \in replaces : \A j \in replaces : j <= i

ValuesOf(recs, op) == {recs[i].row.value : i \in {j \in 1..Len(recs) : recs[j].row.op = op}}

\* A collection: what the last replace set, with the later adds and without
\* the later removes, in whatever order those two come.
ResolveCollection(recs) ==
    LET cut == LastReplaceIndex(recs)
        tail == SubSeq(recs, cut + 1, Len(recs))
        base == IF cut = 0 THEN {} ELSE {recs[cut].row.value}
    IN  (base \cup ValuesOf(tail, "add")) \ ValuesOf(tail, "remove")

\* A text: what the last replace set and the fragments added after it.
ResolveTextAppend(recs) ==
    LET cut == LastReplaceIndex(recs)
        tail == SelectSeq(SubSeq(recs, cut + 1, Len(recs)), LAMBDA rec : rec.row.op = "add")
    IN  (IF cut = 0 THEN <<>> ELSE <<recs[cut].row.value>>)
            \o [i \in 1..Len(tail) |-> tail[i].row.value]

EffectiveState(live) ==
    [rels |-> FoldKeyedItems(live),
     tags |-> ResolveCollection(OfField(live, "tags")),
     body |-> ResolveTextAppend(OfField(live, "body"))]

-----------------------------------------------------------------------------
\* The same from the side of a reader who goes through the manuscript mark by
\* mark: the records open so far, and the anchor ids met.

NothingRead == [open |-> <<>>, met |-> {}]

ReadMark(ms, sets, state, at) ==
    LET mark == MarkAt(ms, at) IN
    IF mark.kind = "close"
    THEN [state EXCEPT !.open = SelectSeq(@, LAMBDA rec : ~Ends(mark, rec))]
    ELSE [open |-> IF mark.id \in state.met \/ ~Usable(sets, mark.set) THEN state.open
                   ELSE state.open \o RecordsForAnchor(ms, sets, at),
          met |-> state.met \cup {mark.id}]

ReadUpTo(ms, sets, e, at) ==
    LET read == SelectSeq(Points(ms), LAMBDA pt : ~Before(at, pt))
        end == FoldLeft(LAMBDA state, pt : ReadMark(ms, sets, state, pt), NothingRead, read)
    IN  SelectSeq(end.open, LAMBDA rec : rec.entity = e)

\* What the item list says of itself: the last add or remove of a key decides
\* whether the item is there, and its note is that of the last replace after
\* the add, or the add's own.
LatestOf(recs, indices) == {i \in indices : \A j \in indices : j <= i}
ItemsByLatest(live) ==
    LET placed(k) == {i \in 1..Len(live) : live[i].row.field = "rels" /\ live[i].row.key = k
                                               /\ live[i].row.op \in {"add", "remove"}}
        last(k) == LatestOf(live, placed(k))
        there(k) == IF last(k) = {} THEN k \in DOMAIN BaseItems
                    ELSE \A i \in last(k) : live[i].row.op = "add"
        noted(k) == {i \in 1..Len(live) : live[i].row.field = "rels.note" /\ live[i].row.key = k
                                              /\ live[i].row.op = "replace"
                                              /\ \A j \in last(k) : j < i}
        source(k) == LatestOf(live, noted(k) \cup last(k))
    IN  [k \in {x \in Keys : there(x)} |->
            IF source(k) = {} THEN BaseItems[k]
            ELSE live[CHOOSE i \in source(k) : TRUE].row.value]

\* A text read fragment by fragment, and a collection with what is barred.
TextByReading(recs) ==
    FoldLeft(LAMBDA text, rec : CASE rec.row.op = "replace" -> <<rec.row.value>>
                                  [] rec.row.op = "add" -> Append(text, rec.row.value)
                                  [] OTHER -> text,
             <<>>, recs)
CollectionByReading(recs) ==
    LET step(c, rec) ==
            CASE rec.row.op = "replace" -> [in |-> {rec.row.value}, barred |-> {}]
              [] rec.row.op = "add" -> [c EXCEPT !.in = @ \cup {rec.row.value}]
              [] rec.row.op = "remove" -> [c EXCEPT !.barred = @ \cup {rec.row.value}]
        end == FoldLeft(step, [in |-> {}, barred |-> {}], recs)
    IN  end.in \ end.barred
=============================================================================
