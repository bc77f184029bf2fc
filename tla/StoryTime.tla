----------------------------- MODULE StoryTime -----------------------------
(***************************************************************************)
(* The mutation marks of a book while it is being written: pills placed,   *)
(* closed, cut, copied and pasted between scenes, scenes moved, sets       *)
(* edited and deleted, snapshots of a scene taken and put back.            *)
(*                                                                         *)
(* An editing action stands for the edit and the save of the scene.        *)
(***************************************************************************)
EXTENDS LoreMutations, FiniteSetsExt

CONSTANTS
    Scene,          \* manuscript scenes
    Rows,           \* row lists a set may be saved with
    StartSets,      \* the lists of sets the book may start with
    StartBodies,    \* the bodies one scene may start with, the others empty
    AutomaticKeep,  \* automatic snapshots kept for a scene
    MaxMarks,       \* bound: marks in a body before an edit adds to it
    MaxAnchors,     \* bound: anchor ids minted
    MaxSets,        \* bound: sets made
    MaxKept,        \* bound: snapshots taken by hand of one scene
    MaxSteps,       \* bound: steps of a behaviour
    CopyInPlace,    \* whether a pill may be copied next to a close of its own
    PasteRestored,  \* whether a cut pill is pasted after a restore brought it back
    PasteUnset,     \* whether a pill copied before its set came is pasted next to itself
    SnapUnset       \* whether a scene is captured with a pill that has no set yet

ASSUME StoryTimeAssumption ==
    /\ {AutomaticKeep, MaxMarks, MaxAnchors, MaxSets, MaxKept, MaxSteps} \subseteq Nat
    /\ {CopyInPlace, PasteRestored, PasteUnset, SnapUnset} \subseteq BOOLEAN

VARIABLES
    body,    \* for each scene its marks
    order,   \* the scenes of the tree in reading order
    sets,    \* the mutation sets, by number; Gone once deleted
    snaps,   \* for each scene its snapshots, oldest first
    clip,    \* the marks on the clipboard and the ledger of its anchors
    copying, \* pills that wait for the copy of a set: anchor id -> set
    minted,  \* anchor ids minted so far
    steps    \* steps so far, for the bound

vars == <<body, order, sets, snaps, clip, copying, minted, steps>>

Anchor(id, set) == [kind |-> "anchor", id |-> id, set |-> set]
Close(ref, row) == [kind |-> "close", ref |-> ref, row |-> row]

AnchorsOf(b) == {b[i] : i \in {k \in 1..Len(b) : b[k].kind = "anchor"}}
AnchorIds(b) == {m.id : m \in AnchorsOf(b)}
CloseRefs(b) == {b[i].ref : i \in {k \in 1..Len(b) : b[k].kind = "close"}}

Marks == [kind : {"anchor"}, id : Nat, set : Nat] \cup [kind : {"close"}, ref : Nat, row : Nat]

\* No anchor is in a body twice.
Once(b) ==
    \A i, j \in 1..Len(b) :
        b[i].kind = "anchor" /\ b[j].kind = "anchor" /\ b[i].id = b[j].id => i = j

\* A book starts with lists of sets, and with anchors that are numbered.
ASSUME StoryStartAssumption ==
    /\ \A list \in StartSets : list \in Seq(Range(list))
    /\ \A b \in StartBodies :
          b \in Seq(Marks) /\ Once(b) /\ AnchorIds(b) = 1..Cardinality(AnchorIds(b))

NoClip == [kind |-> "none", marks |-> <<>>, consumed |-> FALSE]

\* The book as its readers meet it.
Manuscript == [i \in 1..Len(order) |-> body[order[i]]]

Put(b, p, marks) == SubSeq(b, 1, p) \o marks \o SubSeq(b, p + 1, Len(b))

Tick == steps < MaxSteps /\ steps' = steps + 1

Init ==
    /\ \E s \in Scene, b \in StartBodies :
          /\ body = [t \in Scene |-> IF t = s THEN b ELSE <<>>]
          /\ minted = Cardinality(AnchorIds(b))
    /\ order \in SetToSeqs(Scene)
    /\ sets \in StartSets
    /\ snaps = [s \in Scene |-> <<>>]
    /\ clip = NoClip
    /\ copying = <<>>
    /\ steps = 0

-----------------------------------------------------------------------------
\* Writing.

\* A pill is put in for a set, or an end for a pill of the book.
InsertAnchor(s, p, x) ==
    /\ Tick
    /\ minted < MaxAnchors /\ Len(body[s]) < MaxMarks
    /\ sets[x] # Gone
    /\ body' = [body EXCEPT ![s] = Put(@, p, <<Anchor(minted + 1, x)>>)]
    /\ minted' = minted + 1
    /\ UNCHANGED <<order, sets, snaps, clip, copying>>

InsertClose(s, p, id, row) ==
    /\ Tick
    /\ Len(body[s]) < MaxMarks
    /\ \E t \in Scene : id \in AnchorIds(body[t])
    /\ body' = [body EXCEPT ![s] = Put(@, p, <<Close(id, row)>>)]
    /\ UNCHANGED <<order, sets, snaps, clip, copying, minted>>

\* The ledger notes the anchors that went to the clipboard.
RecordClipboard(kind, marks) ==
    clip' = IF AnchorIds(marks) = {} THEN NoClip
            ELSE [kind |-> kind, marks |-> marks, consumed |-> FALSE]

Cut(s, i, j) ==
    /\ Tick
    /\ RecordClipboard("cut", SubSeq(body[s], i, j))
    /\ body' = [body EXCEPT ![s] = SubSeq(@, 1, i - 1) \o SubSeq(@, j + 1, Len(@))]
    /\ UNCHANGED <<order, sets, snaps, copying, minted>>

Copy(s, i, j) ==
    /\ Tick
    /\ RecordClipboard("copy", SubSeq(body[s], i, j))
    /\ clip' # clip
    /\ UNCHANGED <<body, order, sets, snaps, copying, minted>>

\* What the pane makes of a body into which marks were just pasted; `known`
\* are the anchors it held before.  An anchor that arrives is kept by the
\* first paste of a cut, and otherwise is a copy: it gets an id of its own,
\* loses its set until that is copied, and every close in the body that
\* names the old id is turned to the new one.
Repeated(b, i) == \E j \in 1..(i - 1) : b[j].kind = "anchor" /\ b[j].id = b[i].id
Arrived(b, i, known) == b[i].kind = "anchor" /\ (b[i].id \notin known \/ Repeated(b, i))
KeptByCut(b, i) ==
    /\ clip.kind = "cut" /\ ~clip.consumed
    /\ ~Repeated(b, i) /\ b[i].id \in AnchorIds(clip.marks)
\* Faulty variant: a second paste of a cut keeps the ids too.
Reminted_EveryCut(b, known) ==
    {i \in 1..Len(b) : Arrived(b, i, known) /\ (Repeated(b, i) \/ clip.kind # "cut")}

\* The anchors that are copies.
Reminted(b, known) == {i \in 1..Len(b) : Arrived(b, i, known) /\ ~KeptByCut(b, i)}

FreshId(fresh, i) == minted + Cardinality({j \in fresh : j <= i})

Reconciled(b, fresh) ==
    LET newId(id) == LET at == {i \in fresh : b[i].id = id}
                     IN  FreshId(fresh, CHOOSE i \in at : \A j \in at : j <= i)
    IN  [i \in 1..Len(b) |->
            IF i \in fresh THEN Anchor(FreshId(fresh, i), NoSet)
            ELSE IF b[i].kind = "close" /\ \E j \in fresh : b[j].id = b[i].ref
                 THEN [b[i] EXCEPT !.ref = newId(b[i].ref)]
            ELSE b[i]]

\* The copies of the sets are asked for, one after another.
Paste(s, p) ==
    LET b == Put(body[s], p, clip.marks)
        known == AnchorIds(body[s])
        fresh == Reminted(b, known)
        jobs == SetToSeq({i \in fresh : b[i].set # NoSet})
    IN  /\ Tick /\ clip # NoClip
        /\ Len(b) <= MaxMarks + 1
        /\ minted + Cardinality(fresh) <= MaxAnchors
        /\ CopyInPlace \/ AnchorIds(clip.marks) \cap known \cap CloseRefs(b) = {}
        /\ PasteRestored \/ clip.kind = "copy" \/ clip.consumed
              \/ \A t \in Scene : AnchorIds(clip.marks) \cap AnchorIds(body[t]) = {}
        /\ PasteUnset \/ \A m \in AnchorsOf(clip.marks) : m.set = NoSet => m.id \notin known
        /\ body' = [body EXCEPT ![s] = Reconciled(b, fresh)]
        /\ minted' = minted + Cardinality(fresh)
        /\ clip' = [clip EXCEPT !.consumed =
                       @ \/ \E i \in 1..Len(b) : Arrived(b, i, known) /\ KeptByCut(b, i)]
        /\ copying' = copying \o
               [n \in 1..Len(jobs) |->
                   [scene |-> s, id |-> FreshId(fresh, jobs[n]), set |-> b[jobs[n]].set]]
        /\ UNCHANGED <<order, sets, snaps>>

\* The copy of a set comes, to the pill if it is still in its scene; or it
\* fails, and the pill stays without a set.
CopyEnds(ok) ==
    LET job == Head(copying)
        at == {i \in 1..Len(body[job.scene]) :
                  body[job.scene][i].kind = "anchor" /\ body[job.scene][i].id = job.id}
    IN  /\ Tick /\ copying # <<>>
        /\ copying' = Tail(copying)
        /\ IF ok
           THEN /\ sets[job.set] # Gone /\ Len(sets) < MaxSets
                /\ sets' = Append(sets, sets[job.set])
                /\ body' = [body EXCEPT ![job.scene] = [i \in DOMAIN @ |->
                              IF i \in at THEN [@[i] EXCEPT !.set = Len(sets) + 1] ELSE @[i]]]
           ELSE UNCHANGED <<sets, body>>
        /\ UNCHANGED <<order, snaps, clip, minted>>

MoveScene(o) == /\ Tick /\ o # order
                /\ order' = o
                /\ UNCHANGED <<body, sets, snaps, clip, copying, minted>>

-----------------------------------------------------------------------------
\* Mutation sets.

SaveSet(x, rows) ==
    /\ Tick
    /\ sets[x] # Gone /\ sets[x].rows # rows
    /\ sets' = [sets EXCEPT ![x].rows = rows]
    /\ UNCHANGED <<body, order, snaps, clip, copying, minted>>

DeleteSet(x) ==
    /\ Tick
    /\ sets[x] # Gone
    /\ sets' = [sets EXCEPT ![x] = Gone]
    /\ UNCHANGED <<body, order, snaps, clip, copying, minted>>

-----------------------------------------------------------------------------
\* Snapshots.

\* Faulty variant: nothing is thinned.
Thinned_Never(list) == list

\* Of the automatic snapshots the last few are kept, the others all.
Thinned(list) ==
    LET auto(i) == Cardinality({j \in i..Len(list) : list[j].retention = "thinned"})
        kept == {i \in 1..Len(list) : list[i].retention = "kept" \/ auto(i) <= AutomaticKeep}
    IN  [n \in 1..Cardinality(kept) |->
            list[CHOOSE i \in kept : Cardinality({j \in kept : j <= i}) = n]]

Captured(s, retention) ==
    LET list == Append(snaps[s], [frozen |-> body[s], retention |-> retention])
    IN  IF retention = "thinned" THEN Thinned(list) ELSE list

Unset(b) == \E m \in AnchorsOf(b) : m.set = NoSet

CaptureSnapshot(s) ==
    /\ Tick
    /\ SnapUnset \/ ~Unset(body[s])
    /\ Cardinality({i \in 1..Len(snaps[s]) : snaps[s][i].retention = "kept"}) < MaxKept
    /\ snaps' = [snaps EXCEPT ![s] = Captured(s, "kept")]
    /\ UNCHANGED <<body, order, sets, clip, copying, minted>>

\* Anchors, with a set, that live in another scene now.
Elsewhere(s) ==
    UNION {{m.id : m \in {a \in AnchorsOf(body[t]) : a.set # NoSet}} : t \in Scene \ {s}}

\* The anchors of a frozen body that would be there twice.
Collides(s, frozen) ==
    {i \in 1..Len(frozen) : /\ frozen[i].kind = "anchor"
                            /\ frozen[i].id \in Elsewhere(s) /\ frozen[i].set # NoSet}

\* Faulty variant: the closes go on naming the old anchors.
DedupeRestoredAnchors_ClosesKept(frozen, fresh, firstSet) ==
    [i \in 1..Len(frozen) |->
        IF i \in fresh
        THEN Anchor(FreshId(fresh, i), firstSet + Cardinality({j \in fresh : j <= i}) - 1)
        ELSE frozen[i]]

\* They get a fresh id and a copy of their set, and the closes in this body
\* that name them follow.
DedupeRestoredAnchors(frozen, fresh, firstSet) ==
    [i \in 1..Len(frozen) |->
        IF i \in fresh
        THEN Anchor(FreshId(fresh, i), firstSet + Cardinality({j \in fresh : j <= i}) - 1)
        ELSE IF frozen[i].kind = "close" /\ \E j \in fresh : frozen[j].id = frozen[i].ref
             THEN [frozen[i] EXCEPT !.ref =
                      FreshId(fresh, CHOOSE j \in fresh : frozen[j].id = frozen[i].ref)]
        ELSE frozen[i]]

\* The copies keep every row.
CopiedSets(frozen, fresh) ==
    LET at(n) == CHOOSE i \in fresh : Cardinality({j \in fresh : j <= i}) = n
    IN  [n \in 1..Cardinality(fresh) |-> sets[frozen[at(n)].set]]

\* The scene is captured and the snapshot put back.  A set to be copied that
\* is gone refuses the whole restore.
RestoreSnapshot(s, k) ==
    LET frozen == snaps[s][k].frozen
        fresh == Collides(s, frozen)
    IN  /\ Tick
        /\ SnapUnset \/ ~Unset(body[s])
        /\ minted + Cardinality(fresh) <= MaxAnchors
        /\ Len(sets) + Cardinality(fresh) <= MaxSets
        /\ \A i \in fresh : sets[frozen[i].set] # Gone
        /\ sets' = sets \o CopiedSets(frozen, fresh)
        /\ minted' = minted + Cardinality(fresh)
        /\ snaps' = [snaps EXCEPT ![s] = Captured(s, "thinned")]
        /\ body' = [body EXCEPT ![s] = DedupeRestoredAnchors(frozen, fresh, Len(sets) + 1)]
        /\ UNCHANGED <<order, clip, copying>>

Restoring == \E s \in Scene : \E k \in 1..Len(snaps[s]) : RestoreSnapshot(s, k)

Write ==
    \E s \in Scene :
        \/ \E p \in 0..Len(body[s]) :
              \/ \E x \in 1..Len(sets) : InsertAnchor(s, p, x)
              \/ \E id \in 1..minted, row \in {WholeSet, 1} : InsertClose(s, p, id, row)
              \/ Paste(s, p)
        \/ \E i, j \in 1..Len(body[s]) : i <= j /\ (Cut(s, i, j) \/ Copy(s, i, j))

Next ==
    \/ Write
    \/ \E ok \in BOOLEAN : CopyEnds(ok)
    \/ \E o \in SetToSeqs(Scene) : MoveScene(o)
    \/ \E x \in 1..Len(sets) : DeleteSet(x) \/ \E rows \in Rows : SaveSet(x, rows)
    \/ \E s \in Scene : CaptureSnapshot(s)
    \/ Restoring

Spec == Init /\ [][Next]_vars

-----------------------------------------------------------------------------
\* Properties.

Mark(m) == \/ m.kind = "anchor" /\ m.id \in 1..minted /\ m.set \in {NoSet} \cup DOMAIN sets
           \/ m.kind = "close" /\ m.ref \in 1..minted

\* Bodies, snapshots and the clipboard hold marks that name minted anchors
\* and sets that were made, and the automatic snapshots are within their number.
TypeOK ==
    /\ minted \in 0..MaxAnchors
    /\ order \in SetToSeqs(Scene)
    /\ Len(sets) <= MaxSets
    /\ \A s \in Scene :
          /\ \A i \in 1..Len(body[s]) : Mark(body[s][i])
          /\ \A k \in 1..Len(snaps[s]) : \A i \in 1..Len(snaps[s][k].frozen) : Mark(snaps[s][k].frozen[i])
          /\ Cardinality({k \in 1..Len(snaps[s]) : snaps[s][k].retention = "thinned"}) <= AutomaticKeep
    /\ \A i \in 1..Len(clip.marks) : Mark(clip.marks[i])
    /\ \A n \in 1..Len(copying) : copying[n].id \in 1..minted /\ copying[n].set \in DOMAIN sets

Stops == UNION {{i} \X (0..Len(Manuscript[i]) \cup {EndOfScene}) : i \in 1..Len(order)}

\* What the index and the intervals it computes say holds at a point is what a
\* reader finds who goes through the book from the start and opens and ends
\* records mark by mark, whatever was pasted, moved, restored or deleted.
ReaderAgrees ==
    \A e \in Entity :
        LET index == MutationsIndex(Manuscript, sets, e)
        IN  \A at \in Stops : LiveRecords(index, at) = ReadUpTo(Manuscript, sets, e, at)

\* The values a point resolves to: each item is as its latest record left it,
\* a text is its fragments in turn, and what a collection bars stays out.
FieldsByLatest ==
    \A e \in Entity :
        LET index == MutationsIndex(Manuscript, sets, e)
        IN  \A at \in Stops :
                LET live == LiveRecords(index, at)
                    state == EffectiveState(live)
                IN  /\ state.rels = ItemsByLatest(live)
                    /\ state.body = TextByReading(OfField(live, "body"))
                    /\ state.tags = CollectionByReading(OfField(live, "tags"))

\* No anchor is in two places, in one scene or in two: the second would have
\* no effect, and edits of the set would reach a scene that never asked.
OneAnchorOnePlace ==
    /\ \A s \in Scene : Once(body[s])
    /\ \A s, t \in Scene : s # t => AnchorIds(body[s]) \cap AnchorIds(body[t]) = {}

\* What a body says of an entry when it is read alone, at each of its points.
Meaning(b, st, e) ==
    LET index == MutationsIndex(<<b>>, st, e)
    IN  [p \in 0..Len(b) |->
            LET live == LiveRecords(index, <<1, p>>) IN [n \in 1..Len(live) |-> live[n].row]]

\* A restored scene says what its snapshot said, by the sets as they are now,
\* though some of its anchors had to be minted anew.
RestoreKeepsMeaning ==
    [][\A s \in Scene : \A k \in 1..Len(snaps[s]) :
          RestoreSnapshot(s, k) =>
              \A e \in Entity :
                  Meaning(body'[s], sets', e) = Meaning(snaps[s][k].frozen, sets, e)]_vars

\* A paste turns only the closes that came with a pill: pills and ends that
\* were in the scene before stay paired as they were.
PastePairs ==
    [][\A s \in Scene, p \in 0..MaxMarks :
          p <= Len(body[s]) /\ Paste(s, p) =>
              LET moved(i) == IF i <= p THEN i ELSE i + Len(clip.marks)
                  old(i) == body[s][i]
                  now(i) == body'[s][moved(i)]
              IN  \A i, j \in 1..Len(body[s]) :
                      old(i).kind = "anchor" /\ old(j).kind = "close" =>
                          (old(j).ref = old(i).id <=> now(j).ref = now(i).id)]_vars
=============================================================================
