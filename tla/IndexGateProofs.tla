--------------------------- MODULE IndexGateProofs ---------------------------
(***************************************************************************)
(* Theorems about IndexGate, for any layers, files, workers and bounds.    *)
(***************************************************************************)
EXTENDS IndexGate, WellFoundedInduction, TLAPS

AnySchema == Schema \cup {NoSchema}

\* Whether every edge of an index was drawn by a schema that could be read
Drawn(ix) == \A p \in Path : ix.entry[p] # Absent => ix.entry[p].edgesBy \in Schema

-----------------------------------------------------------------------------
(* Types *)

\* What is neither absent nor malformed declares a node
LEMMA NodeContent ==
  ASSUME NEW d \in Disk, NEW p \in Path, IsNode(d[p])
  PROVE  d[p] \in Node
BY DEF Disk, Content, IsNode

\* The entry collected for a node's front matter is an index entry
LEMMA EntryOfType ==
  ASSUME NEW c \in Node, NEW s \in AnySchema
  PROVE  EntryOf(c, s) \in Entry /\ EntryOf(c, s) # Absent
BY NodeIndexAssumption DEF EntryOf, Node, Entry, AnySchema

\* Files that could not be read still read as some project (index_collect.py,
\* the OSError branch)
LEMMA AsReadType ==
  ASSUME NEW d \in Disk, NEW unread
  PROVE  AsRead(d, unread) \in Disk
BY DEF Disk, Content, AsRead

\* A walk starts from an index
LEMMA NewIndexType ==
  ASSUME NEW unread
  PROVE  NewIndex(SchemaFile \in unread) \in Index
BY DEF NewIndex, Index

\* Collecting any of the files into an index gives an index
LEMMA CollectType ==
  ASSUME NEW ix \in Index, NEW d \in Disk, NEW files \in SUBSET Path,
         NEW s \in AnySchema, NEW unread
  PROVE  Collect(ix, d, files, s, unread) \in Index
<1> DEFINE seen == AsRead(d, unread)
           dup == Duplicates(ix, seen, files)
           c == Collect(ix, d, files, s, unread)
<1>1. seen \in Disk
  BY AsReadType
<1>2. \A p \in files : IsNode(seen[p]) => EntryOf(seen[p], s) \in Entry
  <2> HIDE DEF seen
  <2> QED  BY <1>1, NodeContent, EntryOfType
<1>3. dup \subseteq Path
  BY DEF Duplicates
<1>4. [p \in Path |-> IF p \in files
                      THEN IF IsNode(seen[p]) /\ p \notin dup
                           THEN EntryOf(seen[p], s) ELSE Absent
                      ELSE ix.entry[p]] \in [Path -> Entry \cup {Absent}]
  <2> HIDE DEF seen, dup
  <2> QED  BY <1>2 DEF Index
<1>5. {p \in files : seen[p] = Malformed} \subseteq Path
  OBVIOUS
<1>6. (ix.degraded \/ \E p \in files \cap unread : d[p] # Absent) \in BOOLEAN
  OBVIOUS
<1>7. ix.rejected \subseteq Path /\ ix.unparsed \subseteq Path /\ ix.overrides \subseteq Id
  BY DEF Index
<1> QED
  BY <1>3, <1>4, <1>5, <1>6, <1>7 DEF Collect, Index

\* Folding overrides changes what winners show, not what kind of thing they are
LEMMA FoldOverridesType ==
  ASSUME NEW ix \in Index, NEW targets \in SUBSET Id
  PROVE  FoldOverrides(ix, targets) \in Index
<1>1. \A p \in Path : Wins(ix, p) => [ix.entry[p] EXCEPT !.sig = FoldedSig] \in Entry
  BY DEF Wins, Index, Entry
<1> QED  BY <1>1 DEF FoldOverrides, Index

\* A cold build gives an index, whatever it could not read
LEMMA ColdType ==
  ASSUME NEW d \in Disk, NEW s \in AnySchema, NEW targets \in SUBSET Id, NEW unread
  PROVE  Cold(d, s, targets, unread) \in Index
<1> DEFINE empty == NewIndex(SchemaFile \in unread)
<1>1. empty \in Index
  BY NewIndexType
<1>2. Collect(empty, d, Path, s, unread) \in Index
  BY <1>1, CollectType
<1> QED  BY <1>2, FoldOverridesType DEF Cold

\* The first phase of a patch leaves an index
LEMMA DropUnitsType ==
  ASSUME NEW ix \in Index, NEW changed
  PROVE  DropUnits(ix, changed) \in Index
BY DEF DropUnits, Index

\* A patch of an index is an index
LEMMA PatchType ==
  ASSUME NEW ix \in Index, NEW d \in Disk, NEW changed \in SUBSET Path,
         NEW s \in AnySchema, NEW unread
  PROVE  Patch(ix, d, changed, s, unread) \in Index
BY DropUnitsType, CollectType DEF Patch

-----------------------------------------------------------------------------
(* Edges *)

\* What is collected with a schema that could be read has that schema's edges
LEMMA CollectDrawn ==
  ASSUME NEW ix, Drawn(ix), NEW d, NEW files, NEW s \in Schema, NEW unread
  PROVE  Drawn(Collect(ix, d, files, s, unread))
BY DEF Drawn, Collect, EntryOf

\* Overrides replace titles and edge targets, never the schema that drew them
LEMMA FoldOverridesDrawn ==
  ASSUME NEW ix \in Index, Drawn(ix), NEW targets
  PROVE  Drawn(FoldOverrides(ix, targets))
<1> DEFINE fix == FoldOverrides(ix, targets)
<1> SUFFICES ASSUME NEW p \in Path, fix.entry[p] # Absent
             PROVE  fix.entry[p].edgesBy \in Schema
  BY DEF Drawn
<1>1. fix.entry[p] = ix.entry[p]
      \/ (Wins(ix, p) /\ fix.entry[p] = [ix.entry[p] EXCEPT !.sig = FoldedSig])
  BY DEF FoldOverrides
<1>2. CASE fix.entry[p] = ix.entry[p]
  BY <1>2 DEF Drawn
<1>3. CASE Wins(ix, p) /\ fix.entry[p] = [ix.entry[p] EXCEPT !.sig = FoldedSig]
  <2>1. ix.entry[p] \in Entry /\ ix.entry[p].edgesBy \in Schema
    BY <1>3 DEF Wins, Drawn, Index
  <2> QED  BY <1>3, <2>1 DEF Entry
<1> QED  BY <1>1, <1>2, <1>3

\* A walk that could read the schema draws every edge with it
LEMMA ColdDrawn ==
  ASSUME NEW d \in Disk, NEW s \in Schema, NEW targets \in SUBSET Id, NEW unread
  PROVE  Drawn(Cold(d, s, targets, unread))
<1> DEFINE empty == NewIndex(SchemaFile \in unread)
           walked == Collect(empty, d, Path, s, unread)
<1>1. empty \in Index /\ Drawn(empty)
  <2>1. Drawn(empty)
    BY DEF NewIndex, Drawn
  <2> QED  BY <2>1, NewIndexType
<1>2. walked \in Index /\ Drawn(walked)
  <2> HIDE DEF empty
  <2> QED  BY <1>1, CollectType, CollectDrawn DEF AnySchema
<1> QED  BY <1>2, FoldOverridesDrawn DEF Cold

\* A walk that could not read the schema, or a file, says so
LEMMA ColdDegraded ==
  ASSUME NEW d \in Disk, NEW s \in AnySchema, NEW targets \in SUBSET Id, NEW unread,
         SchemaFile \in unread
  PROVE  Cold(d, s, targets, unread).degraded
BY DEF Cold, FoldOverrides, Collect, NewIndex

\* A patch with a readable schema keeps every edge drawn
LEMMA PatchDrawn ==
  ASSUME NEW ix \in Index, Drawn(ix), NEW d, NEW changed, NEW s \in Schema, NEW unread
  PROVE  Drawn(Patch(ix, d, changed, s, unread))
<1>1. Drawn(DropUnits(ix, changed))
  BY DEF Drawn, DropUnits, Index
<1> QED  BY <1>1, CollectDrawn DEF Patch

\* A patch never clears the mark of a degraded index
LEMMA PatchDegraded ==
  ASSUME NEW ix \in Index, ix.degraded, NEW d, NEW changed, NEW s, NEW unread
  PROVE  Patch(ix, d, changed, s, unread).degraded
BY DEF Patch, Collect, DropUnits, Index

-----------------------------------------------------------------------------
(* The contract of a patch *)

Unique(d) == Duplicates(EmptyIndex, d, Path) = {}

\* What a walk that could read everything makes of a disk without duplicates
LEMMA ColdOfUnique ==
  ASSUME NEW d \in Disk, Unique(d), NEW s \in Schema
  PROVE  Cold(d, s, {}, {})
           = [entry     |-> [p \in Path |-> IF IsNode(d[p]) THEN EntryOf(d[p], s) ELSE Absent],
              rejected  |-> {},
              unparsed  |-> {p \in Path : d[p] = Malformed},
              overrides |-> {},
              degraded  |-> FALSE]
<1> DEFINE empty == NewIndex(SchemaFile \in {})
           walked == Collect(empty, d, Path, s, {})
           e == [p \in Path |-> IF IsNode(d[p]) THEN EntryOf(d[p], s) ELSE Absent]
           u == {p \in Path : d[p] = Malformed}
<1>1. AsRead(d, {}) = d
  BY DEF AsRead, Disk
<1>2. Duplicates(empty, d, Path) = {}
  BY DEF Unique, Duplicates, AlreadyClaimed, EmptyIndex, NewIndex
<1>3. /\ walked.entry = e /\ walked.rejected = {} /\ walked.unparsed = u
      /\ walked.overrides = {} /\ walked.degraded = FALSE
  BY <1>1, <1>2 DEF Collect, NewIndex
<1>4. FoldOverrides(walked, {})
        = [entry |-> [p \in Path |-> e[p]], rejected |-> {}, unparsed |-> u,
           overrides |-> {}, degraded |-> FALSE]
  <2> HIDE DEF walked, e, u
  <2> QED  BY <1>3 DEF FoldOverrides
<1> QED  BY <1>4 DEF Cold

-----------------------------------------------------------------------------
(* What an index says of one file of disk d *)

\* The index knows the id p declares: by p, or where p was rejected by a claim
\* of the same layer; and it knows of no id p does not declare
Listed(d, ix, p) ==
  /\ ~IsNode(d[p]) => ix.entry[p] = Absent
  /\ d[p] = Malformed => p \in ix.unparsed
  /\ IsNode(d[p]) /\ p \notin ix.unparsed =>
       \E q \in Path : /\ q = p \/ (p \in ix.rejected /\ LayerOf[q] = LayerOf[p])
                       /\ ix.entry[q] # Absent /\ ix.entry[q].id = d[p].id

\* What it shows of p is what p says
Shown(d, s, ix, p) ==
  /\ p \in ix.unparsed => ~IsNode(d[p])
  /\ ix.entry[p] # Absent => ix.entry[p] = EntryOf(d[p], s)

\* ... and its diagnostics of p are those of p as it is
Exact(d, s, ix, p) ==
  /\ p \in ix.unparsed => d[p] = Malformed
  /\ p \in ix.rejected => IsNode(d[p])
  /\ ix.entry[p] # Absent => ix.entry[p] = EntryOf(d[p], s)

NothingOf(ix, p) == ix.entry[p] = Absent /\ p \notin ix.unparsed \cup ix.rejected

\* A file with a diagnostic has no entry
Separate(ix, p) == p \in ix.rejected \cup ix.unparsed => ix.entry[p] = Absent

\* A non-empty set of files has a first one
LEMMA FirstFile ==
  ASSUME NEW T, T \subseteq Path, T # {}
  PROVE  \E x \in T : \A y \in T : ~(y < x)
<1> DEFINE R == OpToRel(<, Nat)
<1>1. IsWellFoundedOn(R, Nat)
  BY NatLessThanWellFounded
<1>2. \A a, b \in Nat : <<a, b>> \in R <=> a < b
  BY DEF OpToRel
<1>3. T \subseteq Nat
  BY NodeIndexAssumption
<1> HIDE DEF R
<1>4. PICK x \in T : \A y \in T : <<y, x>> \notin R
  BY <1>1, <1>3, WFMin
<1> QED  BY <1>2, <1>3, <1>4

\* Of the files that claim an id at a layer, one is collected or was there
LEMMA SomeClaimStands ==
  ASSUME NEW ix \in Index, NEW d \in Disk, NEW files \in SUBSET Path, NEW s \in AnySchema,
         NEW unread, \A f \in files : ix.entry[f] = Absent,
         NEW p \in files, IsNode(AsRead(d, unread)[p])
  PROVE  LET c == Collect(ix, d, files, s, unread) IN
         \E q \in Path : /\ LayerOf[q] = LayerOf[p]
                         /\ c.entry[q] # Absent /\ c.entry[q].id = d[p].id
<1> DEFINE seen == AsRead(d, unread)
           c == Collect(ix, d, files, s, unread)
           T == {q \in files : LayerOf[q] = LayerOf[p] /\ IsNode(seen[q]) /\ seen[q].id = seen[p].id}
           dup == Duplicates(ix, seen, files)
<1>1. seen \in Disk /\ seen[p] = d[p]
  BY AsReadType DEF AsRead, IsNode
<1>2. T # {} /\ T \subseteq Path
  OBVIOUS
<1>3. PICK q \in T : \A r \in T : ~(r < q)
  BY <1>2, FirstFile
<1>4. ~ClaimedEarlier(seen, files, q)
  BY <1>3 DEF ClaimedEarlier
<1>5. CASE AlreadyClaimed(ix, seen, q)
  <2>1. PICK r \in Path : ix.entry[r] # Absent /\ LayerOf[r] = LayerOf[q] /\ ix.entry[r].id = seen[q].id
    BY <1>5 DEF AlreadyClaimed
  <2>2. r \notin files /\ c.entry[r] = ix.entry[r]
    BY <2>1 DEF Collect
  <2> QED  BY <1>1, <2>1, <2>2
<1>6. CASE ~AlreadyClaimed(ix, seen, q)
  <2>1. q \notin dup
    BY <1>4, <1>6 DEF Duplicates
  <2>2. c.entry[q] = EntryOf(seen[q], s)
    BY <2>1 DEF Collect
  <2>3. c.entry[q] # Absent /\ c.entry[q].id = seen[q].id
    <3>1. seen[q] \in Node
      BY <1>1, NodeContent
    <3> HIDE DEF seen, c
    <3> QED  BY <2>2, <3>1, EntryOfType DEF EntryOf
  <2> QED  BY <1>1, <2>3
<1> QED  BY <1>5, <1>6

\* What collecting files says of each of them (index_collect.py, _collect_entry_file)
LEMMA CollectSays ==
  ASSUME NEW ix \in Index, NEW d \in Disk, NEW files \in SUBSET Path, NEW s \in AnySchema,
         NEW unread, \A f \in files : NothingOf(ix, f), NEW p \in files
  PROVE  LET c == Collect(ix, d, files, s, unread) IN
         /\ Listed(d, c, p) /\ Separate(c, p)
         /\ ~c.degraded => Exact(d, s, c, p)
         /\ d[p] = Absent => NothingOf(c, p)
<1> DEFINE seen == AsRead(d, unread)
           c == Collect(ix, d, files, s, unread)
           dup == Duplicates(ix, seen, files)
<1>1. seen \in Disk /\ (IsNode(seen[p]) => seen[p] = d[p])
  BY AsReadType DEF AsRead, IsNode
<1>2. /\ c.entry[p] = IF IsNode(seen[p]) /\ p \notin dup THEN EntryOf(seen[p], s) ELSE Absent
      /\ c.unparsed = ix.unparsed \cup {f \in files : seen[f] = Malformed}
      /\ c.rejected = ix.rejected \cup dup
      /\ c.degraded = (ix.degraded \/ \E f \in files \cap unread : d[f] # Absent)
  BY DEF Collect
<1>3. p \in c.unparsed <=> seen[p] = Malformed
  BY <1>2 DEF NothingOf
<1>4. p \in c.rejected <=> p \in dup
  BY <1>2 DEF NothingOf
<1>5. p \in dup => IsNode(seen[p])
  BY DEF Duplicates
<1>6. seen[p] = IF p \in unread /\ d[p] # Absent THEN Malformed ELSE d[p]
  BY DEF AsRead
<1>7. IsNode(seen[p]) => seen[p] # Absent /\ seen[p] # Malformed
  BY DEF IsNode
<1>8. c.entry[p] # Absent => IsNode(seen[p]) /\ p \notin dup /\ c.entry[p] = EntryOf(d[p], s)
  BY <1>1, <1>2
<1>9. IsNode(seen[p]) => \E q \in Path : /\ LayerOf[q] = LayerOf[p]
                                         /\ c.entry[q] # Absent /\ c.entry[q].id = d[p].id
  <2>1. \A f \in files : ix.entry[f] = Absent
    BY DEF NothingOf
  <2> QED  BY <2>1, SomeClaimStands
<1>10. IsNode(seen[p]) /\ p \notin dup => c.entry[p] # Absent /\ c.entry[p].id = d[p].id
  <2> SUFFICES ASSUME IsNode(seen[p]), p \notin dup
               PROVE  c.entry[p] # Absent /\ c.entry[p].id = d[p].id
    OBVIOUS
  <2>1. d[p] \in Node /\ c.entry[p] = EntryOf(d[p], s)
    BY <1>1, <1>2, NodeContent
  <2> HIDE DEF c
  <2> QED  BY <2>1, EntryOfType DEF EntryOf
<1> HIDE DEF c, dup, seen
<1>11. ~IsNode(d[p]) => ~IsNode(seen[p])
  BY <1>1
<1>12. Listed(d, c, p)
  <2>1. ~IsNode(d[p]) => c.entry[p] = Absent
    BY <1>8, <1>11
  <2>2. d[p] = Malformed => p \in c.unparsed
    BY <1>3, <1>6, NodeIndexAssumption
  <2>3. ASSUME IsNode(d[p]), p \notin c.unparsed
        PROVE  \E q \in Path : /\ q = p \/ (p \in c.rejected /\ LayerOf[q] = LayerOf[p])
                               /\ c.entry[q] # Absent /\ c.entry[q].id = d[p].id
    <3>1. IsNode(seen[p])
      BY <1>3, <1>6, <2>3
    <3> QED  BY <1>4, <1>9, <1>10, <3>1
  <2> QED  BY <2>1, <2>2, <2>3 DEF Listed
<1>13. Separate(c, p)
  BY <1>3, <1>4, <1>7, <1>8 DEF Separate
<1>14. ASSUME ~c.degraded PROVE Exact(d, s, c, p)
  <2>1. seen[p] = d[p]
    BY <1>2, <1>6, <1>14
  <2> QED  BY <1>3, <1>4, <1>5, <1>8, <2>1 DEF Exact
<1>15. ASSUME d[p] = Absent PROVE NothingOf(c, p)
  <2>1. seen[p] = Absent
    BY <1>6, <1>15
  <2> QED  BY <1>3, <1>4, <1>5, <1>7, <1>8, <2>1, NodeIndexAssumption DEF NothingOf
<1> QED  BY <1>12, <1>13, <1>14, <1>15 DEF c

\* A patch says of the changed files what collecting says, and of the others
\* what the index said
LEMMA PatchSays ==
  ASSUME NEW ix \in Index, NEW d \in Disk, NEW changed \in SUBSET Path, NEW s \in AnySchema,
         NEW unread, Patchable(ix, changed)
  PROVE  LET c == Patch(ix, d, changed, s, unread) IN
         /\ \A p \in changed : /\ Listed(d, c, p) /\ Separate(c, p)
                               /\ ~c.degraded => Exact(d, s, c, p)
                               /\ d[p] = Absent => NothingOf(c, p)
         /\ \A p \in Path \ changed :
              /\ c.entry[p] = ix.entry[p]
              /\ p \notin ix.unparsed \cup ix.rejected \cup c.unparsed \cup c.rejected
         /\ c.overrides = ix.overrides
         /\ ix.degraded => c.degraded
<1> DEFINE dropped == DropUnits(ix, changed)
           c == Patch(ix, d, changed, s, unread)
<1>1. dropped \in Index /\ c = Collect(dropped, d, changed, s, unread)
  BY DropUnitsType DEF Patch
<1>2. ix.unparsed = {} /\ ix.rejected = {}
  BY DEF Patchable
<1>3. /\ dropped.entry = [p \in Path |-> IF p \in changed THEN Absent ELSE ix.entry[p]]
      /\ dropped.rejected = {} /\ dropped.unparsed = {}
      /\ dropped.overrides = ix.overrides /\ dropped.degraded = ix.degraded
  BY <1>2 DEF DropUnits
<1>4. \A p \in changed : NothingOf(dropped, p)
  BY <1>3 DEF NothingOf
<1> HIDE DEF dropped, c
<1>5. \A p \in changed : /\ Listed(d, c, p) /\ Separate(c, p)
                         /\ ~c.degraded => Exact(d, s, c, p)
                         /\ d[p] = Absent => NothingOf(c, p)
  BY <1>1, <1>4, CollectSays
<1>6. ASSUME NEW p \in Path \ changed
      PROVE  c.entry[p] = ix.entry[p] /\ p \notin c.unparsed \cup c.rejected
  <2>1. c.entry[p] = dropped.entry[p]
    BY <1>1 DEF Collect
  <2>2. p \notin c.unparsed \cup c.rejected
    BY <1>1, <1>3 DEF Collect, Duplicates
  <2> QED  BY <1>3, <2>1, <2>2
<1>7. c.overrides = ix.overrides /\ (ix.degraded => c.degraded)
  BY <1>1, <1>3 DEF Collect
<1> QED  BY <1>2, <1>5, <1>6, <1>7 DEF c

\* What it said of the unchanged files, as they are on any disk, it still says
LEMMA PatchKeeps ==
  ASSUME NEW ix \in Index, NEW d \in Disk, NEW changed \in SUBSET Path, NEW s \in AnySchema,
         NEW unread, Patchable(ix, changed), NEW p \in Path \ changed, NEW e, NEW s2
  PROVE  LET c == Patch(ix, d, changed, s, unread) IN
         /\ Separate(c, p)
         /\ NothingOf(ix, p) => NothingOf(c, p)
         /\ Listed(e, ix, p) => Listed(e, c, p)
         /\ Shown(e, s2, ix, p) => Shown(e, s2, c, p)
         /\ Exact(e, s2, ix, p) => Exact(e, s2, c, p)
<1> DEFINE c == Patch(ix, d, changed, s, unread)
<1>1. c.entry[p] = ix.entry[p] /\ p \notin ix.unparsed \cup ix.rejected \cup c.unparsed \cup c.rejected
  BY PatchSays
<1> HIDE DEF c
<1>2. Listed(e, ix, p) => Listed(e, c, p)
  BY <1>1 DEF Listed
<1> QED  BY <1>1, <1>2 DEF Separate, NothingOf, Shown, Exact, c

\* A walk of the whole disk says of every file what collecting says, but for the
\* folded sigs
LEMMA ColdSays ==
  ASSUME NEW d \in Disk, NEW s \in AnySchema, NEW targets \in SUBSET Id, NEW unread,
         NEW p \in Path
  PROVE  LET c == Cold(d, s, targets, unread) IN
         /\ Listed(d, c, p) /\ Separate(c, p)
         /\ ~c.degraded /\ targets = {} => Exact(d, s, c, p)
         /\ d[p] = Absent => NothingOf(c, p)
         /\ c.overrides = targets
<1> DEFINE empty == NewIndex(SchemaFile \in unread)
           walked == Collect(empty, d, Path, s, unread)
           c == Cold(d, s, targets, unread)
<1>1. empty \in Index /\ \A f \in Path : NothingOf(empty, f)
  BY NewIndexType DEF NewIndex, NothingOf
<1>2. walked \in Index
  BY <1>1, CollectType
<1> HIDE DEF empty
<1>3. /\ Listed(d, walked, p) /\ Separate(walked, p)
      /\ ~walked.degraded => Exact(d, s, walked, p)
      /\ d[p] = Absent => NothingOf(walked, p)
  BY <1>1, CollectSays
<1>4. c = FoldOverrides(walked, targets)
  BY DEF Cold, empty
<1> HIDE DEF walked, c
<1>5. /\ c.rejected = walked.rejected /\ c.unparsed = walked.unparsed
      /\ c.overrides = targets /\ c.degraded = walked.degraded
      /\ \A q \in Path : \/ c.entry[q] = walked.entry[q]
                         \/ /\ Wins(walked, q) /\ walked.entry[q].id \in targets
                            /\ c.entry[q] = [walked.entry[q] EXCEPT !.sig = FoldedSig]
  BY <1>4 DEF FoldOverrides
<1>6. \A q \in Path : /\ c.entry[q] = Absent <=> walked.entry[q] = Absent
                      /\ c.entry[q] # Absent => c.entry[q].id = walked.entry[q].id
  <2> SUFFICES ASSUME NEW q \in Path, Wins(walked, q),
                      c.entry[q] = [walked.entry[q] EXCEPT !.sig = FoldedSig]
               PROVE  /\ walked.entry[q] # Absent /\ c.entry[q] # Absent
                      /\ c.entry[q].id = walked.entry[q].id
    BY <1>5
  <2>1. walked.entry[q] \in Entry
    BY <1>2 DEF Wins, Index
  <2>2. c.entry[q] \in Entry /\ c.entry[q].id = walked.entry[q].id
    BY <2>1 DEF Entry
  <2> QED  BY <2>1, <2>2, NodeIndexAssumption
<1>7. Listed(d, c, p)
  BY <1>3, <1>5, <1>6 DEF Listed
<1>8. Separate(c, p)
  BY <1>3, <1>5, <1>6 DEF Separate
<1>9. ASSUME ~c.degraded, targets = {} PROVE Exact(d, s, c, p)
  <2>1. c.entry[p] = walked.entry[p]
    BY <1>5, <1>9
  <2> QED  BY <1>3, <1>5, <1>9, <2>1 DEF Exact
<1>10. d[p] = Absent => NothingOf(c, p)
  BY <1>3, <1>5, <1>6 DEF NothingOf
<1> QED  BY <1>5, <1>7, <1>8, <1>9, <1>10 DEF c

\* A walk that could read all there was is the walk that can read everything
LEMMA ColdWhole ==
  ASSUME NEW d \in Disk, NEW s, NEW targets, NEW unread,
         ~Cold(d, s, targets, unread).degraded
  PROVE  Cold(d, s, targets, unread) = Cold(d, s, targets, {})
<1> DEFINE empty == NewIndex(SchemaFile \in unread)
           walked == Collect(empty, d, Path, s, unread)
<1>1. ~walked.degraded
  BY DEF Cold, FoldOverrides
<1>2. SchemaFile \notin unread /\ \A p \in Path \cap unread : d[p] = Absent
  BY <1>1 DEF Collect, NewIndex
<1>3. AsRead(d, unread) = AsRead(d, {})
  BY <1>2 DEF AsRead
<1>4. empty = NewIndex(SchemaFile \in {})
  BY <1>2
<1>5. walked = Collect(empty, d, Path, s, {})
  <2> HIDE DEF empty
  <2>1. (\E p \in Path \cap unread : d[p] # Absent) = (\E p \in Path \cap {} : d[p] # Absent)
    BY <1>2
  <2> QED  BY <1>3, <2>1 DEF Collect
<1> QED  BY <1>4, <1>5 DEF Cold

\* Where no layer has two claims, what an index shows file by file is all of it
LEMMA ShownIsWhole ==
  ASSUME NEW d \in Disk, NEW s \in Schema, Unique(d), NEW ix \in Index,
         \A p \in Path : Listed(d, ix, p) /\ Shown(d, s, ix, p) /\ Separate(ix, p)
  PROVE  /\ ix.entry = Cold(d, s, {}, {}).entry
         /\ \A p \in ix.rejected : ~IsNode(d[p])
<1>1. ASSUME NEW p \in Path, NEW q \in Path, IsNode(d[p]), IsNode(d[q]), p # q,
             LayerOf[q] = LayerOf[p]
      PROVE  d[q].id # d[p].id
  <2>1. p < q \/ q < p
    BY <1>1, NodeIndexAssumption
  <2> QED  BY <1>1, <2>1 DEF Unique, Duplicates, ClaimedEarlier
<1>2. ASSUME NEW q \in Path, ix.entry[q] # Absent
      PROVE  IsNode(d[q]) /\ ix.entry[q] = EntryOf(d[q], s)
  BY <1>2 DEF Listed, Shown
<1>3. ASSUME NEW p \in Path, IsNode(d[p])
      PROVE  p \notin ix.rejected /\ ix.entry[p] = EntryOf(d[p], s)
  <2>1. p \notin ix.unparsed
    BY <1>3 DEF Shown
  <2>2. PICK q \in Path : /\ q = p \/ (p \in ix.rejected /\ LayerOf[q] = LayerOf[p])
                          /\ ix.entry[q] # Absent /\ ix.entry[q].id = d[p].id
    BY <1>3, <2>1 DEF Listed
  <2>3. IsNode(d[q]) /\ d[q].id = d[p].id /\ ix.entry[q] = EntryOf(d[q], s)
    BY <1>2, <2>2 DEF EntryOf
  <2>4. q = p
    BY <1>1, <1>3, <2>2, <2>3
  <2> QED  BY <2>2, <2>3, <2>4 DEF Separate
<1>4. ASSUME NEW p \in Path, ~IsNode(d[p])
      PROVE  ix.entry[p] = Absent
  BY <1>4 DEF Listed
<1>5. ix.entry = [p \in Path |-> IF IsNode(d[p]) THEN EntryOf(d[p], s) ELSE Absent]
  BY <1>3, <1>4 DEF Index
<1>6. ix.rejected \subseteq Path
  BY DEF Index
<1> QED  BY <1>3, <1>5, <1>6, ColdOfUnique

\* ... and with its diagnostics it is the cold build
LEMMA ExactIsCold ==
  ASSUME NEW d \in Disk, NEW s \in Schema, Unique(d), NEW ix \in Index,
         ix.overrides = {}, ~ix.degraded,
         \A p \in Path : Listed(d, ix, p) /\ Exact(d, s, ix, p) /\ Separate(ix, p)
  PROVE  ix = Cold(d, s, {}, {})
<1>1. \A p \in Path : Shown(d, s, ix, p)
  BY DEF Shown, Exact, IsNode
<1>2. ix.entry = Cold(d, s, {}, {}).entry /\ \A p \in ix.rejected : ~IsNode(d[p])
  BY <1>1, ShownIsWhole
<1>3. ix.rejected = {}
  BY <1>2 DEF Exact, Index
<1>4. ix.unparsed = {p \in Path : d[p] = Malformed}
  BY DEF Exact, Listed, Index
<1>5. ix.degraded = FALSE
  BY DEF Index
<1>6. ix = [entry |-> ix.entry, rejected |-> ix.rejected, unparsed |-> ix.unparsed,
            overrides |-> ix.overrides, degraded |-> ix.degraded]
  BY DEF Index
<1> DEFINE cold == Cold(d, s, {}, {})
<1>7. /\ cold = [entry |-> cold.entry, rejected |-> {}, unparsed |-> {p \in Path : d[p] = Malformed},
                overrides |-> {}, degraded |-> FALSE]
  BY ColdOfUnique
<1> HIDE DEF cold
<1> QED  BY <1>2, <1>3, <1>4, <1>5, <1>6, <1>7 DEF cold

-----------------------------------------------------------------------------
(* The gate *)

USE IndexGateAssumption

\* The parts of TypeOK, as the actions leave them alone
DiskOK ==
  /\ disk \in Disk
  /\ stamp \in [Path -> Nat]
  /\ schema \in Schema
  /\ schemaAt \in Nat
  /\ over \subseteq Id
  /\ edits \in Nat

ForeignOK == foreign \subseteq Path /\ foreigns \in Nat

GateOK ==
  /\ memo \in Resolved \cup {NoMemo}
  /\ pending \in Built \cup {NoFlush}
  /\ snap \in Built \cup {NoSnap}
  /\ job \in BuildJob \cup PatchJob \cup {NoJob}
  /\ Patching => memo # NoMemo

OwedOK == owed \in [Worker -> SUBSET Notice]

ErrandOK == job # NoJob /\ job.for # NoJob => job.for.notice \in owed[job.for.worker]

\* TypeOK is the conjunction of its parts
LEMMA TypeParts == TypeOK <=> DiskOK /\ ForeignOK /\ GateOK /\ OwedOK /\ ErrandOK
BY DEF TypeOK, DiskOK, ForeignOK, GateOK, OwedOK, ErrandOK

\* The same of the state after a step
LEMMA TypePartsNext == TypeOK' <=> DiskOK' /\ ForeignOK' /\ GateOK' /\ OwedOK' /\ ErrandOK'
BY DEF TypeOK, DiskOK, ForeignOK, GateOK, OwedOK, ErrandOK

-----------------------------------------------------------------------------
\* A process starts with an empty gate and no notice owed
LEMMA InitType == Init => TypeOK
<1> SUFFICES ASSUME Init PROVE TypeOK
  OBVIOUS
<1>1. DiskOK
  BY DEF Init, DiskOK, Gone, Disk
<1>2. ForeignOK /\ GateOK /\ OwedOK /\ ErrandOK
  BY DEF Init, ForeignOK, GateOK, OwedOK, ErrandOK, Patching
<1> QED  BY <1>1, <1>2, TypeParts

\* A change of files gives a project, each file with its fingerprint
LEMMA SetDiskType ==
  ASSUME DiskOK, NEW d \in Disk, SetDisk(d)
  PROVE  disk' \in Disk /\ stamp' \in [Path -> Nat] /\ edits' \in Nat
BY DEF DiskOK, SetDisk, Gone

\* Replacing what one file says gives a project
LEMMA NodeOnDisk ==
  ASSUME NEW d \in Disk, NEW p \in Path, NEW c \in Content
  PROVE  [d EXCEPT ![p] = c] \in Disk
BY DEF Disk

\* Writers and outside programs leave the gate alone
LEMMA DiskStepType ==
  ASSUME TypeOK, DiskStep
  PROVE  DiskOK' /\ ForeignOK' /\ UNCHANGED gateVars
<1> USE TypeParts
<1>1. ASSUME NEW w \in Worker, NEW p \in Path, SaveNode(w, p)
      PROVE  DiskOK' /\ ForeignOK' /\ UNCHANGED gateVars
  <2>1. CASE IsNode(disk[p]) /\ TouchFile(p)
    BY <1>1, <2>1 DEF SaveNode, TouchFile, DiskOK, ForeignOK, foreignVars
  <2>2. ASSUME NEW c \in Node, SetDisk([disk EXCEPT ![p] = c])
        PROVE  DiskOK'
    <3>1. [disk EXCEPT ![p] = c] \in Disk
      BY NodeOnDisk DEF DiskOK, Content
    <3> QED  BY <1>1, <2>2, <3>1, SetDiskType DEF SaveNode, DiskOK
  <2> QED  BY <1>1, <2>1, <2>2 DEF SaveNode, ForeignOK, foreignVars
<1>2. ASSUME NEW w \in Worker, NEW paths \in SUBSET Path, DeleteNodes(w, paths)
      PROVE  DiskOK' /\ ForeignOK' /\ UNCHANGED gateVars
  <2>1. [p \in Path |-> IF p \in paths THEN Absent ELSE disk[p]] \in Disk
    BY DEF DiskOK, Disk, Content
  <2> QED  BY <1>2, <2>1, SetDiskType DEF DeleteNodes, DiskOK, ForeignOK, foreignVars
<1>3. ASSUME NEW w \in Worker, NEW p \in Path, NEW q \in Path, RenameNode(w, p, q)
      PROVE  DiskOK' /\ ForeignOK' /\ UNCHANGED gateVars
  <2>1. [disk EXCEPT ![p] = Absent, ![q] = disk[p]] \in Disk
    BY DEF DiskOK, Disk, Content
  <2> QED  BY <1>3, <2>1, SetDiskType DEF RenameNode, DiskOK, ForeignOK, foreignVars
<1>4. ASSUME NEW w \in Worker, SaveSchema(w)
      PROVE  DiskOK' /\ ForeignOK' /\ UNCHANGED gateVars
  BY <1>4 DEF SaveSchema, DiskOK, ForeignOK, foreignVars
<1>5. ASSUME NEW w \in Worker, NEW i \in OverTarget, WriteOverride(w, i) \/ DropOverride(w, i)
      PROVE  DiskOK' /\ ForeignOK' /\ UNCHANGED gateVars
  BY <1>5 DEF WriteOverride, DropOverride, DiskOK, ForeignOK, foreignVars
<1>6. ASSUME NEW p \in Path, ForeignEdit(p)
      PROVE  DiskOK' /\ ForeignOK' /\ UNCHANGED gateVars
  <2>1. PICK c \in Content : SetDisk([disk EXCEPT ![p] = c])
    BY <1>6 DEF ForeignEdit
  <2>2. [disk EXCEPT ![p] = c] \in Disk
    BY NodeOnDisk DEF DiskOK
  <2> QED  BY <1>6, <2>1, <2>2, SetDiskType DEF ForeignEdit, DiskOK, ForeignOK
<1> QED  BY <1>1, <1>2, <1>3, <1>4, <1>5, <1>6 DEF DiskStep

\* A worker that changes the disk owed nothing before, so no job ran for it
LEMMA DiskStepOwed ==
  ASSUME TypeOK, DiskStep
  PROVE  OwedOK' /\ ErrandOK'
<1> USE TypeParts
<1>1. ASSUME NEW w \in Worker, Idle(w), NEW ns \in SUBSET Notice, Owes(w, ns), job' = job
      PROVE  OwedOK' /\ ErrandOK'
  <2>1. OwedOK'
    BY <1>1 DEF OwedOK, Owes
  <2>2. ASSUME job # NoJob, job.for # NoJob
        PROVE  job.for.worker # w /\ job.for.worker \in Worker
    BY <1>1, <2>2 DEF ErrandOK, Idle, GateOK, BuildJob, PatchJob, Errand
  <2> QED  BY <1>1, <2>1, <2>2 DEF ErrandOK, OwedOK, Owes
<1>2. \A paths \in SUBSET Path, structural \in BOOLEAN : {Apply(paths, structural)} \subseteq Notice
  BY DEF Apply, Notice
<1>3. {Invalidate} \subseteq Notice
  BY DEF Invalidate, Notice
<1>4. ASSUME NEW p \in Path, ForeignEdit(p)
      PROVE  OwedOK' /\ ErrandOK'
  BY <1>4 DEF ForeignEdit, OwedOK, ErrandOK, gateVars
<1>5. ASSUME NEW w \in Worker, NEW p \in Path, SaveNode(w, p)
      PROVE  OwedOK' /\ ErrandOK'
  BY <1>1, <1>2, <1>5 DEF SaveNode, gateVars
<1>6. ASSUME NEW w \in Worker, NEW paths \in SUBSET Path, DeleteNodes(w, paths)
      PROVE  OwedOK' /\ ErrandOK'
  BY <1>1, <1>2, <1>6 DEF DeleteNodes, gateVars
<1>7. ASSUME NEW w \in Worker, NEW p \in Path, NEW q \in Path, RenameNode(w, p, q)
      PROVE  OwedOK' /\ ErrandOK'
  BY <1>1, <1>2, <1>7 DEF RenameNode, gateVars
<1>8. ASSUME NEW w \in Worker, NEW i \in OverTarget,
             SaveSchema(w) \/ WriteOverride(w, i) \/ DropOverride(w, i)
      PROVE  OwedOK' /\ ErrandOK'
  BY <1>1, <1>2, <1>3, <1>8 DEF SaveSchema, WriteOverride, DropOverride, gateVars
<1>9. ASSUME NEW w \in Worker, SaveSchema(w)
      PROVE  OwedOK' /\ ErrandOK'
  BY <1>1, <1>3, <1>9 DEF SaveSchema, gateVars
<1> QED  BY <1>4, <1>5, <1>6, <1>7, <1>8, <1>9 DEF DiskStep
-----------------------------------------------------------------------------
\* A fingerprint of the files is a manifest
LEMMA StatType ==
  ASSUME DiskOK
  PROVE  Stat \in Manifest
BY DEF DiskOK, Stat, Manifest

\* A job has some schema, or knows it has none
LEMMA SchemaReadType ==
  ASSUME DiskOK, NEW unread
  PROVE  SchemaRead(unread) \in AnySchema
BY DEF DiskOK, SchemaRead, AnySchema

\* What runs under the lock, by its step
LEMMA JobType ==
  ASSUME GateOK
  PROVE  /\ Building => job \in BuildJob
         /\ Patching => job \in PatchJob /\ memo \in Resolved
BY DEF GateOK, Building, Patching, BuildJob, PatchJob

\* Flushing leaves a snapshot of the right type and nothing pending
LEMMA FlushPendingType ==
  ASSUME GateOK, FlushPending
  PROVE  snap' \in Built \cup {NoSnap} /\ pending' = NoFlush
<1>1. CASE pending = NoFlush
  BY <1>1 DEF GateOK, FlushPending
<1>2. CASE pending # NoFlush
  <2>1. pending \in Built
    BY <1>2 DEF GateOK
  <2> QED  BY <1>2, <2>1 DEF GateOK, FlushPending, Persisted
<1> QED  BY <1>1, <1>2

\* A build starts with a manifest and the errand it was given
LEMMA StartBuildType ==
  ASSUME DiskOK, NEW for \in Errand \cup {NoJob}, StartBuild(for)
  PROVE  job' \in BuildJob /\ job'.step = "build" /\ job'.for = for
<1>1. Stat \in Manifest
  BY StatType
<1> QED  BY <1>1 DEF StartBuild, BuildJob

\* A build gives an index, be it served, patched or walked
LEMMA BuiltIndexType ==
  ASSUME DiskOK, GateOK, Building, NEW unread
  PROVE  BuiltIndex(unread) \in Index
<1>1. job \in BuildJob
  BY JobType
<1>2. snap # NoSnap => snap.index \in Index
  BY DEF GateOK, Built
<1>3. Drifted(snap.manifest, job.manifest) \in SUBSET Path
  BY DEF Drifted
<1>4. CASE FreshSnapshot
  BY <1>2, <1>4 DEF BuiltIndex, FreshSnapshot
<1>5. CASE ~FreshSnapshot /\ PatchedSnapshot(unread)
  <2>1. snap.index \in Index
    BY <1>2, <1>5 DEF PatchedSnapshot
  <2>2. Patch(snap.index, disk, Drifted(snap.manifest, job.manifest), schema, unread) \in Index
    BY <1>3, <2>1, PatchType DEF DiskOK, AnySchema
  <2> QED  BY <1>5, <2>2 DEF BuiltIndex
<1>6. CASE ~FreshSnapshot /\ ~PatchedSnapshot(unread)
  <2> DEFINE targets == IF job.folds THEN over ELSE {}
  <2>1. targets \in SUBSET Id
    BY DEF DiskOK
  <2>2. Cold(disk, SchemaRead(unread), targets, unread) \in Index
    <3> HIDE DEF targets
    <3> QED  BY <2>1, SchemaReadType, ColdType DEF DiskOK
  <2> QED  BY <1>6, <2>2 DEF BuiltIndex
<1> QED  BY <1>4, <1>5, <1>6

\* What a build that could not read `unread` publishes
BuiltBy(unread) ==
  [index |-> BuiltIndex(unread), manifest |-> job.manifest, raced |-> BuiltRaced(unread)]

Publishes(unread) ==
  /\ memo' = [index |-> BuiltIndex(unread), manifest |-> job.manifest,
              raced |-> BuiltRaced(unread), schema |-> SchemaRead(unread)]
  /\ snap' \in IF FreshSnapshot \/ job.folds THEN {snap} ELSE Persisted(snap, BuiltBy(unread))
  /\ IF job.for = NoJob
     THEN UNCHANGED <<pending, owed>>
     ELSE Defer(BuiltBy(unread)) /\ Done(job.for.worker, job.for.notice)

\* It is a record of the snapshot's kind
LEMMA BuiltByType ==
  ASSUME DiskOK, GateOK, Building, NEW unread
  PROVE  BuiltBy(unread) \in Built /\ BuiltRaced(unread) \subseteq Path
<1>1. job.manifest \in Manifest
  BY JobType DEF BuildJob
<1>2. BuiltRaced(unread) \subseteq Path
  BY DEF BuiltRaced, FreshSnapshot, PatchedSnapshot, Created, GateOK, Built
<1> QED  BY <1>1, <1>2, BuiltIndexType DEF BuiltBy, Built

\* ... and a held one is that with its schema
LEMMA PublishedType ==
  ASSUME DiskOK, GateOK, Building, NEW unread, Publishes(unread)
  PROVE  memo' \in Resolved /\ memo' # NoMemo
<1>1. SchemaRead(unread) \in Schema \cup {NoSchema}
  BY SchemaReadType DEF AnySchema
<1>2. BuiltIndex(unread) \in Index /\ job.manifest \in Manifest
  BY BuiltIndexType, JobType DEF BuildJob
<1>3. BuiltRaced(unread) \subseteq Path
  BY BuiltByType
<1>4. memo' = [index |-> BuiltIndex(unread), manifest |-> job.manifest,
               raced |-> BuiltRaced(unread), schema |-> SchemaRead(unread)]
  BY DEF Publishes
<1>5. memo' \in Resolved
  BY <1>1, <1>2, <1>3, <1>4 DEF Resolved
<1> QED  BY <1>5

\* Publishing a build keeps the gate's type; its errand is done
LEMMA FinishBuildType ==
  ASSUME TypeOK, FinishBuild
  PROVE  GateOK' /\ OwedOK' /\ ErrandOK'
<1> USE TypeParts
<1>1. job \in BuildJob /\ Building
  BY JobType DEF FinishBuild
<1>2. PICK unread \in Unreadable : Publishes(unread)
  BY DEF FinishBuild, Publishes, BuiltBy
<1>4. job.for \in Errand \cup {NoJob}
  BY <1>1 DEF BuildJob
<1>5. BuiltBy(unread) \in Built
  BY <1>1, BuiltByType
<1>6. memo' \in Resolved
  BY <1>1, <1>2, PublishedType
<1>7. snap' \in Built \cup {NoSnap}
  BY <1>2, <1>5 DEF Publishes, GateOK, Persisted
<1>8. pending' \in Built \cup {NoFlush}
  BY <1>2, <1>5 DEF Publishes, GateOK, Defer
<1>9. job' = NoJob
  BY DEF FinishBuild
<1>10. OwedOK'
  BY <1>2, <1>4 DEF Publishes, OwedOK, Done, Errand
<1> QED  BY <1>6, <1>7, <1>8, <1>9, <1>10 DEF GateOK, ErrandOK, Patching

\* A patch gives the files it read new fingerprints
LEMMA RestampedFiles ==
  ASSUME DiskOK, NEW m \in Manifest, NEW paths
  PROVE  /\ Restamped(m, paths) \in Manifest
         /\ Restamped(m, paths).schema = m.schema
         /\ \A p \in Path : Restamped(m, paths).files[p] = IF p \in paths THEN stamp[p] ELSE m.files[p]
<1> DEFINE files == [p \in Path |-> IF p \in paths THEN stamp[p] ELSE m.files[p]]
<1>1. Restamped(m, paths) = [m EXCEPT !.files = files]
  BY DEF Restamped
<1>2. files \in [Path -> Nat]
  BY DEF DiskOK, Manifest
<1>3. \A p \in Path : files[p] = IF p \in paths THEN stamp[p] ELSE m.files[p]
  OBVIOUS
<1> HIDE DEF files
<1>4. Restamped(m, paths).files = files /\ Restamped(m, paths).schema = m.schema
  BY <1>1 DEF Manifest
<1>5. Restamped(m, paths) \in Manifest
  BY <1>1, <1>2 DEF Manifest
<1> QED  BY <1>3, <1>4, <1>5

\* What a patch publishes: the manifest, and the files it is blind to
PatchedManifest == Restamped(memo.manifest, job.for.notice.paths)

PatchedRaced ==
  (memo.raced \ job.for.notice.paths)
    \cup {p \in job.for.notice.paths : job.read[p] # stamp[p]}

\* Publishing a patch, field by field
LEMMA FinishPatchPublishes ==
  ASSUME TypeOK, FinishPatch
  PROVE  /\ memo' \in Resolved /\ memo' # NoMemo
         /\ memo'.index = job.index /\ memo'.manifest = PatchedManifest
         /\ memo'.raced = PatchedRaced /\ memo'.schema = memo.schema
         /\ pending' = [index |-> job.index, manifest |-> PatchedManifest, raced |-> PatchedRaced]
         /\ pending' \in Built
         /\ Done(job.for.worker, job.for.notice)
         /\ job' = NoJob /\ UNCHANGED <<diskVars, foreignVars, snap>>
<1> USE TypeParts
<1>1. job \in PatchJob /\ memo \in Resolved
  BY JobType DEF FinishPatch
<1>2. PatchedManifest \in Manifest /\ memo.manifest \in Manifest
  BY <1>1, RestampedFiles DEF PatchedManifest, Resolved
<1>3. /\ memo' = [memo EXCEPT !.index = job.index, !.manifest = PatchedManifest,
                              !.raced = PatchedRaced]
      /\ pending' = [index |-> job.index, manifest |-> PatchedManifest, raced |-> PatchedRaced]
      /\ Done(job.for.worker, job.for.notice)
      /\ job' = NoJob /\ UNCHANGED <<diskVars, foreignVars, snap>>
  BY DEF FinishPatch, Defer, PatchedManifest, PatchedRaced
<1>4. job.index \in Index /\ job.for \in Errand /\ job.for.notice.kind = "apply"
  BY <1>1 DEF PatchJob
<1>5. PatchedRaced \subseteq Path
  <2>1. memo.raced \subseteq Path
    BY <1>1 DEF Resolved
  <2>2. job.for.notice.paths \subseteq Path
    BY <1>4 DEF Errand, Notice
  <2> QED  BY <2>1, <2>2 DEF PatchedRaced
<1> HIDE DEF PatchedManifest, PatchedRaced
<1>6. memo' \in Resolved
  BY <1>1, <1>2, <1>3, <1>4, <1>5 DEF Resolved
<1>7. pending' \in Built
  BY <1>2, <1>3, <1>4, <1>5 DEF Built
<1>8. /\ memo'.index = job.index /\ memo'.manifest = PatchedManifest
      /\ memo'.raced = PatchedRaced /\ memo'.schema = memo.schema
  BY <1>1, <1>3 DEF Resolved
<1> QED  BY <1>3, <1>6, <1>7, <1>8

\* Publishing a patch keeps the gate's type; its errand is done
LEMMA FinishPatchType ==
  ASSUME TypeOK, FinishPatch
  PROVE  GateOK' /\ OwedOK' /\ ErrandOK'
<1> USE TypeParts
<1>1. job \in PatchJob /\ job.for \in Errand
  BY JobType DEF FinishPatch, PatchJob
<1>2. OwedOK'
  BY <1>1, FinishPatchPublishes DEF OwedOK, Done, Errand
<1> QED  BY <1>2, FinishPatchPublishes DEF GateOK, ErrandOK, Patching

\* Whatever apply() decides for a notice, the gate keeps its type
LEMMA ApplyType ==
  ASSUME TypeOK, NEW w \in Worker, NEW n \in owed[w], NEW unread,
         \/ ApplyNothing(w, n, unread)
         \/ ApplyRebuild(w, n, unread)
         \/ ApplyPatch(w, n, unread)
  PROVE  GateOK' /\ OwedOK' /\ ErrandOK'
<1> USE TypeParts
<1>1. n \in Notice
  BY DEF OwedOK
<1>2. [worker |-> w, notice |-> n] \in Errand
  BY <1>1 DEF Errand
<1>3. CASE ApplyNothing(w, n, unread)
  <2>1. OwedOK'
    BY <1>3 DEF ApplyNothing, OwedOK, Done
  <2> QED  BY <1>3, <2>1
           DEF ApplyNothing, MayApply, GateOK, ErrandOK, Patching, gateVars
<1>4. CASE ApplyRebuild(w, n, unread)
  <2>1. StartBuild([worker |-> w, notice |-> n])
    BY <1>4 DEF ApplyRebuild
  <2>2. job' \in BuildJob /\ job'.step = "build" /\ job'.for = [worker |-> w, notice |-> n]
    BY <1>2, <2>1, StartBuildType
  <2> QED  BY <1>4, <2>2 DEF ApplyRebuild, GateOK, OwedOK, ErrandOK, Patching
<1>5. CASE ApplyPatch(w, n, unread)
  <2>1. memo \in Resolved /\ memo # NoMemo
    BY <1>5 DEF ApplyPatch, GateOK
  <2>2. n.paths \in SUBSET Path
    BY <1>1, <1>5 DEF ApplyPatch, MayApply, Notice
  <2>3. memo.index \in Index /\ memo.schema \in AnySchema
    BY <2>1 DEF Resolved, AnySchema
  <2>4. Patch(memo.index, disk, n.paths, memo.schema, unread) \in Index
    BY <2>2, <2>3, PatchType DEF DiskOK
  <2>5. job' \in PatchJob /\ job'.for = [worker |-> w, notice |-> n]
    <3>1. [worker |-> w, notice |-> n] \in {e \in Errand : e.notice.kind = "apply"}
      BY <1>2, <1>5 DEF ApplyPatch, MayApply
    <3>2. stamp \in [Path -> Nat]
      BY DEF DiskOK
    <3> QED  BY <1>5, <2>4, <3>1, <3>2 DEF ApplyPatch, PatchJob
  <2> QED  BY <1>5, <2>1, <2>5 DEF ApplyPatch, GateOK, OwedOK, ErrandOK, Patching
<1> QED  BY <1>3, <1>4, <1>5

\* A sweep owes well-formed notices, to a worker nothing was run for
LEMMA RefreshType ==
  ASSUME TypeOK, NEW w \in Worker, Refresh(w)
  PROVE  GateOK' /\ OwedOK' /\ ErrandOK'
<1> USE TypeParts
<1> DEFINE drift == Drifted(memo.manifest, Stat)
           moved == {p \in drift : memo.manifest.files[p] = Gone \/ stamp[p] = Gone}
           notices == IF SchemaDrifted(memo.manifest, Stat)
                      THEN {Invalidate}
                      ELSE {Apply(moved, TRUE) : m \in moved}
                             \cup {Apply({p}, FALSE) : p \in drift \ moved}
<1>1. drift \subseteq Path /\ moved \subseteq Path
  BY DEF Drifted
<1>2. Owes(w, notices) /\ Idle(w) /\ UNCHANGED gateVars
  BY DEF Refresh
<1> HIDE DEF drift, moved
<1>3. notices \subseteq Notice
  <2>1. Invalidate \in Notice /\ Apply(moved, TRUE) \in Notice
    BY <1>1 DEF Notice, Apply, Invalidate
  <2>2. \A p \in drift \ moved : Apply({p}, FALSE) \in Notice
    BY <1>1 DEF Notice, Apply
  <2> QED  BY <2>1, <2>2
<1> HIDE DEF notices
<1>4. OwedOK'
  BY <1>2, <1>3 DEF OwedOK, Owes
<1>5. ASSUME job # NoJob, job.for # NoJob
      PROVE  job.for.worker # w /\ job.for.worker \in Worker
  BY <1>2, <1>5 DEF ErrandOK, Idle, GateOK, BuildJob, PatchJob, Errand
<1> QED  BY <1>2, <1>4, <1>5 DEF GateOK, Patching, ErrandOK, OwedOK, Owes, gateVars

\* TypeOK is preserved by what happens under the gate's lock and by sweeps
LEMMA GateStepType ==
  ASSUME TypeOK, GateStep
  PROVE  TypeOK'
<1> USE TypeParts, TypePartsNext
<1> DEFINE Good == GateOK' /\ OwedOK' /\ ErrandOK'
<1>1. UNCHANGED diskVars /\ ForeignOK'
  BY DEF GateStep, ReadMiss, ReadHit, FinishBuild, FinishPatch, ApplyNothing, ApplyRebuild,
         ApplyPatch, DropMemo, Refresh, OpenProject, StartBuild, ForeignOK, foreignVars
<1>2. CASE ReadMiss
  <2>1. job' \in BuildJob /\ job'.step = "build" /\ job'.for = NoJob
    BY <1>2, StartBuildType DEF ReadMiss
  <2> QED  BY <1>1, <1>2, <2>1, FlushPendingType
           DEF ReadMiss, GateOK, OwedOK, ErrandOK, Patching, DiskOK, diskVars
<1>3. ASSUME ReadHit \/ OpenProject PROVE Good
  BY <1>3, FlushPendingType
     DEF ReadHit, OpenProject, GateOK, OwedOK, ErrandOK, Patching
<1>4. ASSUME NEW w \in Worker, DropMemo(w) PROVE Good
  <2>1. OwedOK'
    BY <1>4 DEF DropMemo, OwedOK, Done
  <2> QED  BY <1>4, <2>1, FlushPendingType DEF DropMemo, GateOK, ErrandOK, Patching
<1>5. CASE FinishBuild
  BY <1>1, <1>5, FinishBuildType DEF DiskOK, diskVars
<1>6. CASE FinishPatch
  BY <1>1, <1>6, FinishPatchType DEF DiskOK, diskVars
<1>7. ASSUME NEW w \in Worker, NEW n \in owed[w], NEW unread \in Unreadable,
             \/ ApplyNothing(w, n, unread)
             \/ ApplyRebuild(w, n, unread)
             \/ ApplyPatch(w, n, unread)
      PROVE  Good
  BY <1>7, ApplyType
<1>8. ASSUME NEW w \in Worker, Refresh(w) PROVE Good
  BY <1>8, RefreshType
<1>9. DiskOK'
  BY <1>1 DEF DiskOK, diskVars
<1> QED  BY <1>1, <1>2, <1>3, <1>4, <1>5, <1>6, <1>7, <1>8, <1>9 DEF GateStep

\* TypeOK is preserved by shutdowns, crashes and the loss of the snapshot
LEMMA ProcessStepType ==
  ASSUME TypeOK, ProcessStep
  PROVE  TypeOK'
<1> USE TypeParts, TypePartsNext
<1>1. CASE Shutdown
  <2>1. snap' \in Built \cup {NoSnap}
    <3>1. CASE pending = NoFlush
      BY <1>1, <3>1 DEF Shutdown, GateOK
    <3>2. CASE pending # NoFlush
      BY <1>1, <3>2 DEF Shutdown, GateOK, Persisted
    <3> QED  BY <3>1, <3>2
  <2> QED  BY <1>1, <2>1 DEF Shutdown, Restarted, DiskOK, ForeignOK, GateOK, OwedOK, ErrandOK,
                             Patching, diskVars
<1>2. CASE Crash
  BY <1>2 DEF Crash, Restarted, DiskOK, ForeignOK, GateOK, OwedOK, ErrandOK, Patching, diskVars
<1>3. CASE LoseSnapshot
  BY <1>3 DEF LoseSnapshot, DiskOK, ForeignOK, GateOK, OwedOK, ErrandOK, Patching, diskVars,
              foreignVars
<1> QED  BY <1>1, <1>2, <1>3 DEF ProcessStep

\* TypeOK is preserved when nothing happens
LEMMA StutterType ==
  ASSUME TypeOK, UNCHANGED vars
  PROVE  TypeOK'
BY DEF TypeOK, vars, diskVars, foreignVars, gateVars, Patching

\* In every behaviour the memo, the deferred flush, the snapshot and the job
\* under the lock hold indexes and manifests of the project's own files, a patch
\* finds the held index it is going to replace, and what a job runs for is still
\* owed by its worker: apply and invalidate exclude each other.
THEOREM TypeCorrect == Spec => []TypeOK
<1>1. Init => TypeOK
  BY InitType
<1>2. TypeOK /\ [Next]_vars => TypeOK'
  <2> SUFFICES ASSUME TypeOK, [Next]_vars PROVE TypeOK'
    OBVIOUS
  <2>1. CASE DiskStep
    <3>1. DiskOK' /\ ForeignOK' /\ UNCHANGED gateVars /\ OwedOK' /\ ErrandOK'
      BY <2>1, DiskStepType, DiskStepOwed
    <3> QED  BY <3>1, TypeParts, TypePartsNext DEF GateOK, Patching, gateVars
  <2> QED  BY <2>1, GateStepType, ProcessStepType, StutterType DEF Next
<1> QED  BY <1>1, <1>2, PTL DEF Spec

-----------------------------------------------------------------------------
(* Edges: what an unreadable schema leaves out is never persisted *)

\* A held index has all its edges or is marked degraded, and so has what is
\* about to replace it; the snapshot has all its edges
KeepsEdges(ix) == ix.degraded \/ Drawn(ix)

EdgesInv ==
  /\ memo # NoMemo => KeepsEdges(memo.index)
  /\ pending # NoFlush => KeepsEdges(pending.index)
  /\ Patching => KeepsEdges(job.index)
  /\ snap # NoSnap => Drawn(snap.index)

\* What Persisted leaves behind keeps its edges
LEMMA PersistedEdges ==
  ASSUME NEW old, old # NoSnap => Drawn(old.index),
         NEW record, KeepsEdges(record.index), NEW new \in Persisted(old, record)
  PROVE  new # NoSnap => Drawn(new.index)
BY DEF Persisted, KeepsEdges

\* Flushing the deferred snapshot keeps them too
LEMMA FlushPendingEdges ==
  ASSUME EdgesInv, FlushPending
  PROVE  (snap' # NoSnap => Drawn(snap'.index)) /\ pending' = NoFlush
BY PersistedEdges DEF FlushPending, EdgesInv

\* A patch keeps the edges, or the mark, of the index it starts from
LEMMA PatchEdges ==
  ASSUME NEW ix \in Index, KeepsEdges(ix), NEW d, NEW changed, NEW s \in Schema, NEW unread
  PROVE  KeepsEdges(Patch(ix, d, changed, s, unread))
BY PatchDrawn, PatchDegraded DEF KeepsEdges

\* Whichever way a build comes by its index
LEMMA BuiltIndexEdges ==
  ASSUME DiskOK, GateOK, EdgesInv, Building, NEW unread
  PROVE  KeepsEdges(BuiltIndex(unread))
<1>1. snap # NoSnap => snap.index \in Index /\ Drawn(snap.index)
  BY DEF GateOK, Built, EdgesInv
<1>2. CASE FreshSnapshot
  BY <1>1, <1>2 DEF BuiltIndex, FreshSnapshot, KeepsEdges
<1>3. CASE ~FreshSnapshot /\ PatchedSnapshot(unread)
  <2>1. snap.index \in Index /\ KeepsEdges(snap.index)
    BY <1>1, <1>3 DEF PatchedSnapshot, KeepsEdges
  <2>2. KeepsEdges(Patch(snap.index, disk, Drifted(snap.manifest, job.manifest), schema, unread))
    BY <2>1, PatchEdges DEF DiskOK
  <2> QED  BY <1>3, <2>2 DEF BuiltIndex
<1>4. CASE ~FreshSnapshot /\ ~PatchedSnapshot(unread)
  <2> DEFINE targets == IF job.folds THEN over ELSE {}
             cold == Cold(disk, SchemaRead(unread), targets, unread)
  <2>1. targets \in SUBSET Id /\ disk \in Disk
    BY DEF DiskOK
  <2> HIDE DEF targets
  <2>2. CASE SchemaFile \in unread
    <3>1. SchemaRead(unread) \in AnySchema
      BY SchemaReadType
    <3>2. cold.degraded
      BY <2>1, <2>2, <3>1, ColdDegraded
    <3> QED  BY <1>4, <3>2 DEF BuiltIndex, KeepsEdges, targets
  <2>3. CASE SchemaFile \notin unread
    <3>1. SchemaRead(unread) \in Schema
      BY <2>3 DEF SchemaRead, DiskOK
    <3>2. Drawn(cold)
      BY <2>1, <3>1, ColdDrawn
    <3> QED  BY <1>4, <3>2 DEF BuiltIndex, KeepsEdges, targets
  <2> QED  BY <2>2, <2>3
<1> QED  BY <1>2, <1>3, <1>4

\* A build without a schema is degraded, so that it is held but not persisted
LEMMA FinishBuildEdges ==
  ASSUME TypeOK, EdgesInv, FinishBuild
  PROVE  EdgesInv'
<1> USE TypeParts
<1>1. PICK unread \in Unreadable : Publishes(unread)
  BY DEF FinishBuild, Publishes, BuiltBy
<1>2. KeepsEdges(BuiltIndex(unread)) /\ KeepsEdges(BuiltBy(unread).index)
  BY BuiltIndexEdges DEF FinishBuild, BuiltBy
<1>3. KeepsEdges(memo'.index)
  BY <1>1, <1>2 DEF Publishes
<1>4. snap' # NoSnap => Drawn(snap'.index)
  <2>1. snap' = snap \/ snap' \in Persisted(snap, BuiltBy(unread))
    BY <1>1 DEF Publishes
  <2> QED  BY <1>2, <2>1, PersistedEdges DEF EdgesInv
<1>5. pending' # NoFlush => KeepsEdges(pending'.index)
  BY <1>1, <1>2 DEF Publishes, Defer, EdgesInv
<1> QED  BY <1>3, <1>4, <1>5 DEF FinishBuild, EdgesInv, Patching

\* A patch is not tried without a schema, so its edges are drawn
LEMMA ApplyPatchEdges ==
  ASSUME TypeOK, EdgesInv, NEW w \in Worker, NEW n \in owed[w], NEW unread,
         ApplyPatch(w, n, unread)
  PROVE  EdgesInv'
<1> USE TypeParts
<1>1. memo \in Resolved /\ memo.index \in Index /\ KeepsEdges(memo.index)
  BY DEF ApplyPatch, GateOK, Resolved, EdgesInv
<1>2. memo.schema \in Schema
  BY <1>1 DEF ApplyPatch, NothingToDo, MustRebuild, Resolved
<1>3. KeepsEdges(Patch(memo.index, disk, n.paths, memo.schema, unread))
  BY <1>1, <1>2, PatchEdges
<1> QED  BY <1>3 DEF ApplyPatch, EdgesInv, Patching

\* EdgesInv is inductive, relative to TypeOK
LEMMA EdgesStep ==
  ASSUME TypeOK, EdgesInv, [Next]_vars
  PROVE  EdgesInv'
<1> USE TypeParts
<1>1. CASE UNCHANGED gateVars
  BY <1>1 DEF EdgesInv, Patching, gateVars
<1>2. CASE ReadMiss
  BY <1>2, FlushPendingEdges DEF ReadMiss, StartBuild, EdgesInv, Patching
<1>3. ASSUME \/ ReadHit \/ OpenProject
             \/ \E w \in Worker : DropMemo(w)
      PROVE  EdgesInv'
  BY <1>3, FlushPendingEdges DEF ReadHit, OpenProject, DropMemo, EdgesInv, Patching
<1>4. CASE FinishPatch
  <2>1. KeepsEdges(job.index)
    BY <1>4 DEF FinishPatch, EdgesInv
  <2>2. memo'.index = job.index /\ pending'.index = job.index /\ job' = NoJob /\ snap' = snap
    BY <1>4, FinishPatchPublishes
  <2> QED  BY <2>1, <2>2 DEF EdgesInv, Patching
<1>5. ASSUME NEW w \in Worker, NEW n \in owed[w], NEW unread \in Unreadable,
             ApplyNothing(w, n, unread) \/ ApplyRebuild(w, n, unread)
      PROVE  EdgesInv'
  BY <1>1, <1>5 DEF ApplyNothing, ApplyRebuild, StartBuild, EdgesInv, Patching
<1>6. CASE Shutdown
  <2>1. snap' # NoSnap => Drawn(snap'.index)
    BY <1>6, PersistedEdges DEF Shutdown, EdgesInv
  <2> QED  BY <1>6, <2>1 DEF Shutdown, Restarted, EdgesInv, Patching
<1>7. CASE Crash \/ LoseSnapshot
  BY <1>7 DEF Crash, LoseSnapshot, Restarted, EdgesInv, Patching
<1>8. ASSUME NEW w \in Worker, Refresh(w) PROVE EdgesInv'
  BY <1>1, <1>8 DEF Refresh
<1>9. CASE DiskStep
  BY <1>1, <1>9, DiskStepType
<1>10. CASE UNCHANGED vars
  BY <1>1, <1>10 DEF vars
<1> QED
  BY <1>2, <1>3, <1>4, <1>5, <1>6, <1>7, <1>8, <1>9, <1>10, FinishBuildEdges, ApplyPatchEdges
     DEF Next, GateStep, ProcessStep

\* A snapshot is served for as long as the files it was made of stay as they
\* are, so one without its edges would be wrong for ever: none is ever written,
\* whichever build, patch, deferred flush or shutdown writes it, and whatever
\* could not be read.
THEOREM SnapshotEdges == Spec => []SnapshotKeepsEdges
<1>1. Init => EdgesInv
  BY DEF Init, EdgesInv, Patching
<1>2. TypeOK /\ EdgesInv /\ [Next]_vars => EdgesInv'
  BY EdgesStep
<1>3. EdgesInv => SnapshotKeepsEdges
  BY DEF EdgesInv, Drawn, SnapshotKeepsEdges
<1> QED  BY <1>1, <1>2, <1>3, TypeCorrect, PTL DEF Spec

-----------------------------------------------------------------------------
(* Order: a snapshot is never replaced by one of an earlier state *)

\* What a manifest says of a file is what the file was once
Past(m) ==
  /\ \A p \in Path : m.files[p] <= edits
  /\ m.schema <= edits
  /\ NotOlder(m, Stat)

\* Every manifest held somewhere is past, and they are ordered: the snapshot's,
\* the deferred flush's, then the memo's or the running build's.  A deferred
\* flush has a memo it was captured from, and a reader builds only without one:
\* else its build would overtake the flush.
OrderInv ==
  /\ (\A p \in Path : stamp[p] <= edits) /\ schemaAt <= edits
  /\ memo # NoMemo => Past(memo.manifest)
  /\ pending # NoFlush =>
       /\ Past(pending.manifest)
       /\ memo # NoMemo /\ NotOlder(pending.manifest, memo.manifest)
  /\ Building => Past(job.manifest) /\ (job.for = NoJob => memo = NoMemo)
  /\ snap # NoSnap =>
       /\ Past(snap.manifest)
       /\ pending # NoFlush => NotOlder(snap.manifest, pending.manifest)
       /\ memo # NoMemo => NotOlder(snap.manifest, memo.manifest)
       /\ Building => NotOlder(snap.manifest, job.manifest)

SnapshotAdvances == snap # NoSnap /\ snap' # NoSnap => NotOlder(snap.manifest, snap'.manifest)

\* A manifest is no older than itself
LEMMA NotOlderItself ==
  ASSUME NEW m \in Manifest
  PROVE  NotOlder(m, m)
BY DEF NotOlder, Manifest

\* What is held, pending or persisted has a manifest
LEMMA HeldManifests ==
  ASSUME GateOK
  PROVE  /\ memo # NoMemo => memo.manifest \in Manifest
         /\ pending # NoFlush => pending.manifest \in Manifest
         /\ snap # NoSnap => snap.manifest \in Manifest
         /\ Building => job.manifest \in Manifest
<1>1. Building => job \in BuildJob
  BY JobType
<1> QED  BY <1>1 DEF GateOK, Resolved, Built, BuildJob

\* What the disk's fingerprints may do in a step: stay, go, or be newer than
\* every one so far
DiskRestamped ==
  /\ edits <= edits'
  /\ schemaAt' \in {schemaAt, edits'}
  /\ \A p \in Path : stamp'[p] \in {stamp[p], Gone, edits'}

\* A change of the disk gives what it changes a new fingerprint, or none
LEMMA DiskStepRestamps ==
  ASSUME TypeOK, DiskStep
  PROVE  DiskRestamped
<1> USE TypeParts
<1>1. ASSUME NEW d, SetDisk(d), UNCHANGED schemaAt
      PROVE  DiskRestamped
  BY <1>1 DEF SetDisk, DiskRestamped, DiskOK
<1>2. ASSUME NEW p \in Path, TouchFile(p), UNCHANGED schemaAt
      PROVE  DiskRestamped
  BY <1>2 DEF TouchFile, DiskRestamped, DiskOK
<1>3. ASSUME NEW w \in Worker, NEW p \in Path, SaveNode(w, p)
      PROVE  DiskRestamped
  BY <1>1, <1>2, <1>3 DEF SaveNode
<1>4. ASSUME NEW w \in Worker, NEW paths \in SUBSET Path, DeleteNodes(w, paths)
      PROVE  DiskRestamped
  BY <1>1, <1>4 DEF DeleteNodes
<1>5. ASSUME NEW w \in Worker, NEW p \in Path, NEW q \in Path, RenameNode(w, p, q)
      PROVE  DiskRestamped
  BY <1>1, <1>5 DEF RenameNode
<1>6. ASSUME NEW w \in Worker, NEW i \in OverTarget,
             SaveSchema(w) \/ WriteOverride(w, i) \/ DropOverride(w, i)
      PROVE  DiskRestamped
  BY <1>6 DEF SaveSchema, WriteOverride, DropOverride, DiskRestamped, DiskOK
<1>7. ASSUME NEW w \in Worker, SaveSchema(w)
      PROVE  DiskRestamped
  BY <1>7 DEF SaveSchema, DiskRestamped, DiskOK
<1>8. ASSUME NEW p \in Path, ForeignEdit(p)
      PROVE  DiskRestamped
  BY <1>1, <1>8 DEF ForeignEdit
<1> QED  BY <1>3, <1>4, <1>5, <1>6, <1>7, <1>8 DEF DiskStep

\* ... so that what was past stays past
LEMMA PastStays ==
  ASSUME DiskOK, DiskOK', DiskRestamped, NEW m \in Manifest, Past(m)
  PROVE  Past(m)'
<1>1. \A p \in Path : m.files[p] \in Nat /\ m.files[p] <= edits'
  BY DEF DiskOK, DiskRestamped, Past, Manifest
<1>2. m.schema \in Nat /\ m.schema <= edits'
  BY DEF DiskOK, DiskRestamped, Past, Manifest
<1>3. NotOlder(m, Stat')
  <2>1. \A p \in Path : m.files[p] = Gone \/ stamp'[p] = Gone \/ m.files[p] <= stamp'[p]
    BY <1>1 DEF Past, NotOlder, Stat, DiskRestamped
  <2>2. m.schema <= schemaAt'
    BY <1>2 DEF Past, NotOlder, Stat, DiskRestamped
  <2> QED  BY <2>1, <2>2 DEF NotOlder, Stat
<1> QED  BY <1>1, <1>2, <1>3 DEF Past

\* Nothing that was recorded becomes newer than the disk by changing the disk
LEMMA DiskStepOrder ==
  ASSUME TypeOK, OrderInv, DiskStep
  PROVE  OrderInv' /\ SnapshotAdvances
<1> USE TypeParts
<1>1. DiskRestamped
  BY DiskStepRestamps
<1>2. DiskOK' /\ UNCHANGED gateVars
  BY DiskStepType
<1>3. (\A p \in Path : stamp'[p] <= edits') /\ schemaAt' <= edits'
  BY <1>1, <1>2 DEF OrderInv, DiskRestamped, DiskOK, Gone
<1>4. \A m \in Manifest : Past(m) => Past(m)'
  BY <1>1, <1>2, PastStays
<1>5. memo' = memo /\ pending' = pending /\ snap' = snap /\ job' = job
  BY <1>2 DEF gateVars
<1>6. memo # NoMemo => Past(memo.manifest)'
  BY <1>4, <1>5, HeldManifests DEF OrderInv
<1>7. pending # NoFlush => Past(pending.manifest)'
  BY <1>4, <1>5, HeldManifests DEF OrderInv
<1>8. snap # NoSnap => Past(snap.manifest)'
  BY <1>4, <1>5, HeldManifests DEF OrderInv
<1>9. Building => Past(job.manifest)'
  BY <1>4, <1>5, HeldManifests DEF OrderInv
<1>10. OrderInv'
  BY <1>3, <1>5, <1>6, <1>7, <1>8, <1>9 DEF OrderInv, Building, NotOlder
<1>11. SnapshotAdvances
  BY <1>5, NotOlderItself, HeldManifests DEF SnapshotAdvances
<1> QED  BY <1>10, <1>11

\* The disk as it is now is past
LEMMA StatPast ==
  ASSUME DiskOK, OrderInv
  PROVE  Past(Stat)
BY DEF DiskOK, OrderInv, Past, NotOlder, Stat

\* A deferred flush is as old as the snapshot it replaces, or newer
LEMMA FlushPendingOrder ==
  ASSUME GateOK, OrderInv, FlushPending
  PROVE  /\ pending' = NoFlush
         /\ snap' = snap \/ (pending # NoFlush /\ snap' # NoSnap /\ snap'.manifest = pending.manifest)
         /\ SnapshotAdvances
<1>1. pending' = NoFlush
  BY DEF FlushPending
<1>2. snap' = snap \/ (pending # NoFlush /\ snap' = pending)
  BY DEF FlushPending, Persisted
<1>3. CASE snap' = snap
  BY <1>1, <1>3, NotOlderItself, HeldManifests DEF SnapshotAdvances
<1>4. CASE pending # NoFlush /\ snap' = pending
  <2>1. snap' \in Built
    BY <1>4 DEF GateOK
  <2>2. snap' # NoSnap /\ snap'.manifest = pending.manifest
    BY <1>4, <2>1
  <2> QED  BY <1>1, <1>4, <2>2 DEF OrderInv, SnapshotAdvances
<1> QED  BY <1>2, <1>3, <1>4

\* Flushing while nothing is built, whether or not the memo is dropped with it
LEMMA FlushOrder ==
  ASSUME TypeOK, OrderInv, FlushPending, UNCHANGED diskVars, ~Building, job' = job,
         memo' \in {memo, NoMemo}
  PROVE  OrderInv' /\ SnapshotAdvances
<1> USE TypeParts
<1>1. \A m : Past(m)' <=> Past(m)
  BY DEF diskVars, Past, Stat
<1>2. CASE snap' = snap
  BY <1>1, <1>2, FlushPendingOrder DEF OrderInv, Building, diskVars
<1>3. CASE snap' # snap
  <2>1. pending # NoFlush /\ snap' # NoSnap /\ snap'.manifest = pending.manifest
    BY <1>3, FlushPendingOrder
  <2> QED  BY <1>1, <2>1, FlushPendingOrder DEF OrderInv, Building, diskVars
<1> QED  BY <1>2, <1>3, FlushPendingOrder

\* Steps that leave the disk and every manifest alone
LEMMA SameOrder ==
  ASSUME TypeOK, OrderInv, UNCHANGED <<diskVars, memo, pending, snap>>, ~Building' \/ job' = job
  PROVE  OrderInv' /\ SnapshotAdvances
<1> USE TypeParts
<1>1. \A m : Past(m)' <=> Past(m)
  BY DEF diskVars, Past, Stat
<1>2. OrderInv'
  BY <1>1 DEF OrderInv, Building, diskVars
<1>3. SnapshotAdvances
  BY NotOlderItself, HeldManifests DEF SnapshotAdvances
<1> QED  BY <1>2, <1>3

\* A build starts from fingerprints as new as any held manifest
LEMMA StartBuildOrder ==
  ASSUME TypeOK, OrderInv, NEW for \in Errand \cup {NoJob}, StartBuild(for),
         UNCHANGED <<diskVars, memo>>, for = NoJob => memo = NoMemo,
         \/ UNCHANGED <<pending, snap>>
         \/ FlushPending
  PROVE  OrderInv' /\ SnapshotAdvances
<1> USE TypeParts
<1>1. \A m : Past(m)' <=> Past(m)
  BY DEF diskVars, Past, Stat
<1>2. job'.manifest = Stat /\ job'.for = for /\ Past(Stat)
  BY StatPast DEF StartBuild
<1>3. \/ UNCHANGED <<pending, snap>>
      \/ /\ pending' = NoFlush
         /\ snap' = snap \/ (pending # NoFlush /\ snap' # NoSnap /\ snap'.manifest = pending.manifest)
  BY FlushPendingOrder
<1>4. snap' # NoSnap => Past(snap'.manifest)
  BY <1>3 DEF OrderInv
<1>5. snap' # NoSnap => NotOlder(snap'.manifest, Stat)
  BY <1>4 DEF Past
<1>6. OrderInv'
  BY <1>1, <1>2, <1>3, <1>4, <1>5 DEF OrderInv, diskVars
<1>7. SnapshotAdvances
  BY FlushPendingOrder, NotOlderItself, HeldManifests DEF SnapshotAdvances
<1> QED  BY <1>6, <1>7

\* A build persists what it fingerprinted after the snapshot was written
LEMMA FinishBuildOrder ==
  ASSUME TypeOK, OrderInv, FinishBuild
  PROVE  OrderInv' /\ SnapshotAdvances
<1> USE TypeParts
<1>1. PICK unread \in Unreadable : Publishes(unread)
  BY DEF FinishBuild, Publishes, BuiltBy
<1>2. memo'.manifest = job.manifest /\ memo' # NoMemo
  BY <1>1, PublishedType DEF Publishes, FinishBuild
<1>3. snap' = snap \/ snap' = BuiltBy(unread)
  BY <1>1 DEF Publishes, Persisted
<1>4. snap' = snap \/ (snap' # NoSnap => snap'.manifest = job.manifest)
  BY <1>3 DEF BuiltBy
<1>5. IF job.for = NoJob THEN pending' = pending
      ELSE pending' # NoFlush => pending'.manifest = job.manifest
  BY <1>1 DEF Publishes, Defer, BuiltBy
<1>6. job.for = NoJob => pending = NoFlush
  BY DEF OrderInv, FinishBuild
<1>7. /\ Building /\ Past(job.manifest) /\ job.manifest \in Manifest
      /\ NotOlder(job.manifest, job.manifest)
      /\ snap # NoSnap => NotOlder(snap.manifest, job.manifest) /\ snap.manifest \in Manifest
  BY NotOlderItself, HeldManifests DEF OrderInv, FinishBuild
<1>8. UNCHANGED diskVars /\ ~Building'
  BY DEF FinishBuild, Building
<1>9. \A m : Past(m)' <=> Past(m)
  BY <1>8 DEF diskVars, Past, Stat
<1>10. snap # NoSnap => Past(snap.manifest)
  BY DEF OrderInv
<1>11. (\A p \in Path : stamp'[p] <= edits') /\ schemaAt' <= edits'
  BY <1>8 DEF OrderInv, diskVars
<1>12. pending' # NoFlush => pending'.manifest = job.manifest
  BY <1>5, <1>6
<1>13. snap' # NoSnap => Past(snap'.manifest) /\ NotOlder(snap'.manifest, job.manifest)
  BY <1>4, <1>7, <1>10
<1>14. OrderInv'
  BY <1>2, <1>7, <1>8, <1>9, <1>11, <1>12, <1>13 DEF OrderInv
<1>15. SnapshotAdvances
  BY <1>4, <1>7, NotOlderItself DEF SnapshotAdvances
<1> QED  BY <1>14, <1>15

\* A patched manifest is no older than the manifest it replaces
LEMMA FinishPatchOrder ==
  ASSUME TypeOK, OrderInv, FinishPatch
  PROVE  OrderInv' /\ SnapshotAdvances
<1> USE TypeParts
<1> DEFINE patched == job.for.notice.paths
           manifest == PatchedManifest
<1>1. memo \in Resolved /\ memo # NoMemo
  BY JobType DEF FinishPatch
<1>2. memo.manifest \in Manifest /\ manifest \in Manifest
  BY <1>1, RestampedFiles DEF Resolved, PatchedManifest
<1>3. /\ \A p \in Path : manifest.files[p] = IF p \in patched THEN stamp[p] ELSE memo.manifest.files[p]
      /\ manifest.schema = memo.manifest.schema
  BY <1>2, RestampedFiles DEF PatchedManifest
<1> HIDE DEF manifest
<1>4. snap' = snap /\ UNCHANGED diskVars /\ ~Building'
  BY FinishPatchPublishes DEF Building
<1>5. memo' # NoMemo /\ memo'.manifest = manifest
  BY FinishPatchPublishes DEF manifest
<1>6. pending'.manifest = manifest
  BY FinishPatchPublishes DEF manifest
<1>7. Past(memo.manifest) /\ (snap # NoSnap => NotOlder(snap.manifest, memo.manifest) /\ Past(snap.manifest))
  BY <1>1 DEF OrderInv
<1>8. Past(manifest)
  BY <1>3, <1>7 DEF Past, NotOlder, Stat, OrderInv, DiskOK
<1>9. snap # NoSnap => NotOlder(snap.manifest, manifest)
  BY <1>3, <1>7 DEF Past, NotOlder, Stat
<1>10. \A m : Past(m)' <=> Past(m)
  BY <1>4 DEF diskVars, Past, Stat
<1>11. (\A p \in Path : stamp'[p] <= edits') /\ schemaAt' <= edits'
  BY <1>4 DEF OrderInv, diskVars
<1>12. NotOlder(manifest, manifest)
  BY <1>2, NotOlderItself
<1>13. OrderInv'
  <2>1. snap' = snap /\ ~Building'
    BY <1>4
  <2> QED
    BY <2>1, <1>5, <1>6, <1>7, <1>8, <1>9, <1>10, <1>11, <1>12 DEF OrderInv
<1>14. SnapshotAdvances
  BY <1>4, NotOlderItself, HeldManifests DEF SnapshotAdvances
<1> QED  BY <1>13, <1>14

\* The process goes away: only a snapshot may be left behind
LEMMA ProcessStepOrder ==
  ASSUME TypeOK, OrderInv, ProcessStep
  PROVE  OrderInv' /\ SnapshotAdvances
<1> USE TypeParts
<1>1. \A m : Past(m)' <=> Past(m)
  BY DEF ProcessStep, Shutdown, Crash, LoseSnapshot, Restarted, diskVars, Past, Stat
<1>2. CASE Shutdown
  <2>1. snap' = snap \/ (pending # NoFlush /\ snap' = pending)
    BY <1>2 DEF Shutdown, Persisted
  <2>2. snap' = snap \/ (pending # NoFlush /\ snap'.manifest = pending.manifest)
    BY <2>1
  <2>3. OrderInv'
    BY <1>1, <1>2, <2>2 DEF Shutdown, Restarted, OrderInv, Building, diskVars
  <2>4. SnapshotAdvances
    BY <2>2, NotOlderItself, HeldManifests DEF SnapshotAdvances, OrderInv
  <2> QED  BY <2>3, <2>4
<1>3. CASE Crash
  BY <1>1, <1>3, NotOlderItself, HeldManifests
     DEF Crash, Restarted, OrderInv, Building, SnapshotAdvances, diskVars
<1>4. CASE LoseSnapshot
  BY <1>1, <1>4 DEF LoseSnapshot, OrderInv, Building, SnapshotAdvances, diskVars
<1> QED  BY <1>2, <1>3, <1>4 DEF ProcessStep

\* OrderInv is inductive relative to TypeOK, and makes every snapshot advance
LEMMA OrderStep ==
  ASSUME TypeOK, OrderInv, [Next]_vars
  PROVE  OrderInv' /\ SnapshotAdvances
<1> USE TypeParts
<1> DEFINE Good == OrderInv' /\ SnapshotAdvances
<1>1. CASE DiskStep
  BY <1>1, DiskStepOrder
<1>2. CASE ProcessStep
  BY <1>2, ProcessStepOrder
<1>3. CASE ReadMiss
  <2>1. StartBuild(NoJob) /\ FlushPending /\ memo = NoMemo /\ UNCHANGED <<diskVars, memo>>
    BY <1>3 DEF ReadMiss
  <2> QED  BY <2>1, StartBuildOrder
<1>4. ASSUME ReadHit \/ OpenProject \/ \E w \in Worker : DropMemo(w)
      PROVE  Good
  <2>1. FlushPending /\ UNCHANGED diskVars /\ ~Building /\ job' = job /\ memo' \in {memo, NoMemo}
    BY <1>4 DEF ReadHit, OpenProject, DropMemo, Building
  <2> QED  BY <2>1, FlushOrder
<1>5. ASSUME NEW w \in Worker, NEW n \in owed[w], NEW unread \in Unreadable,
             ApplyNothing(w, n, unread) \/ ApplyPatch(w, n, unread)
      PROVE  Good
  <2>1. UNCHANGED <<diskVars, memo, pending, snap>> /\ (~Building' \/ job' = job)
    BY <1>5 DEF ApplyNothing, ApplyPatch, Building, gateVars
  <2> QED  BY <2>1, SameOrder
<1>6. ASSUME NEW w \in Worker, NEW n \in owed[w], NEW unread \in Unreadable,
             ApplyRebuild(w, n, unread)
      PROVE  Good
  <2> DEFINE for == [worker |-> w, notice |-> n]
  <2>1. for \in Errand
    BY DEF OwedOK, Errand
  <2>2. for # NoJob
    BY <2>1
  <2>3. StartBuild(for) /\ UNCHANGED <<diskVars, memo, pending, snap>>
    BY <1>6 DEF ApplyRebuild
  <2> HIDE DEF for
  <2> QED  BY <2>1, <2>2, <2>3, StartBuildOrder
<1>7. ASSUME NEW w \in Worker, Refresh(w)
      PROVE  Good
  BY <1>7, SameOrder DEF Refresh, gateVars
<1>8. CASE FinishBuild \/ FinishPatch
  BY <1>8, FinishBuildOrder, FinishPatchOrder
<1>9. CASE UNCHANGED vars
  BY <1>9, SameOrder DEF vars, gateVars
<1> QED
  BY <1>1, <1>2, <1>3, <1>4, <1>5, <1>6, <1>7, <1>8, <1>9 DEF Next, GateStep

\* Three writers replace the snapshot file: a build, at once, and the gate's
\* deferred flush and a shutdown, later.  However they interleave, the file never
\* goes back to what one of the node files or the schema was before: a flush that
\* could be overtaken by a build is dropped or written before that build starts.
THEOREM SnapshotForward == Spec => SnapshotNeverGoesBack
<1>1. Init => OrderInv
  BY DEF Init, OrderInv, Building, Gone
<1>2. TypeOK /\ OrderInv /\ [Next]_vars => OrderInv' /\ SnapshotAdvances
  BY OrderStep
<1>3. SnapshotAdvances => (snap # NoSnap /\ snap' # NoSnap => NotOlder(snap.manifest, snap'.manifest))
  BY DEF SnapshotAdvances
<1> QED  BY <1>1, <1>2, <1>3, TypeCorrect, PTL DEF Spec, SnapshotNeverGoesBack

-----------------------------------------------------------------------------
(* Coherence: what is held, deferred and persisted is true of the files *)

\* A worker will drop the memo
Dropping == \E w \in Worker : Invalidate \in owed[w]

\* Nobody has anything to say of p, and no outside change of it is unseen
Settled(p) ==
  /\ ~Dropping
  /\ p \notin foreign
  /\ \A w \in Worker : \A n \in owed[w] : n.kind = "apply" => p \notin n.paths

\* ... but for the errand of the running job
SettledSoon(p) ==
  /\ ~Dropping
  /\ p \notin foreign
  /\ \A w \in Worker : \A n \in owed[w] :
       n.kind = "apply" /\ p \in n.paths => job.for = [worker |-> w, notice |-> n]

\* p is as it was when m was taken
Fresh(m, p) == m.files[p] = stamp[p]

\* An index of the current schema, whole and without overrides
Plain(ix, m) == ~ix.degraded /\ ix.overrides = {} /\ m.schema = schemaAt

\* What a manifest vouches for in its index, but for the files `b` that raced it
VouchesFor(m, b, ix, p) ==
  /\ Separate(ix, p)
  /\ p \notin b =>
       /\ m.files[p] = Gone => NothingOf(ix, p)
       /\ Fresh(m, p) => Listed(disk, ix, p) /\ (Plain(ix, m) => Exact(disk, schema, ix, p))

Vouches(m, b, ix) == \A p \in Path : VouchesFor(m, b, ix, p)

\* A file that is not there has no fingerprint
StampInv ==
  /\ edits > 0
  /\ \A p \in Path : stamp[p] = Gone <=> disk[p] = Absent

\* An index that an override was added to since, or that missed one when it was
\* built, will be dropped; one that an override was taken from will be rebuilt
OverInv ==
  /\ over \subseteq OverTarget
  /\ memo # NoMemo => memo.index.overrides \subseteq OverTarget
  /\ snap # NoSnap => snap.index.overrides \subseteq OverTarget
  /\ memo # NoMemo /\ ~Building /\ ~Dropping /\ over # {} =>
       /\ memo.index.overrides # {}
       /\ memo.index.overrides = over \/ \E w \in Worker : ~Idle(w)
  /\ Building /\ ~Dropping /\ over # {} => job.folds

\* ... and so will one of an earlier schema
SchemaInv ==
  /\ memo # NoMemo /\ ~Dropping => memo.manifest.schema = schemaAt
  /\ Building /\ ~Dropping => job.manifest.schema = schemaAt
  /\ memo # NoMemo /\ memo.manifest.schema = schemaAt => memo.schema \in {schema, NoSchema}

\* The deferred flush is that of the held index
PendingInv ==
  pending # NoFlush =>
    /\ memo # NoMemo
    /\ pending.index = memo.index /\ pending.manifest = memo.manifest /\ pending.raced = memo.raced

\* The snapshot is true of the files its manifest vouches for, and so will what
\* a build makes of it be
SnapInv ==
  snap # NoSnap =>
    /\ ~snap.index.degraded
    /\ Vouches(snap.manifest, snap.raced, snap.index)
    /\ memo # NoMemo => \A p \in Path :
         /\ Fresh(snap.manifest, p) /\ stamp[p] # Gone => Fresh(memo.manifest, p)
         /\ Building /\ snap.manifest.files[p] = job.manifest.files[p] /\ job.manifest.files[p] # Gone
              => memo.manifest.files[p] = job.manifest.files[p]
    /\ Building => \A p \in Path :
         SettledSoon(p) /\ snap.manifest.files[p] = job.manifest.files[p] => Fresh(job.manifest, p)

\* What the held index or the snapshot has of a file as it is, a running build
\* has too (it fingerprinted the file later, and it has not changed since); and
\* a build runs for a write, or without a memo
BuildInv ==
  Building =>
    /\ memo # NoMemo => \A p \in Path :
         Fresh(memo.manifest, p) /\ stamp[p] # Gone => Fresh(job.manifest, p)
    /\ snap # NoSnap => \A p \in Path :
         Fresh(snap.manifest, p) /\ stamp[p] # Gone => Fresh(job.manifest, p)
    /\ job.for # NoJob => job.for.notice.kind = "apply"

\* What a patch read of a file whose fingerprint is the same still is the file
StillRead(d, p) ==
  /\ job.read[p] = stamp[p] => d[p] = disk[p]
  /\ job.read[p] = Gone => d[p] = Absent
  /\ job.read[p] <= edits

\* A patch is of the held index and of the files as they were read
PatchInv ==
  Patching =>
    /\ job.for.notice.kind = "apply" /\ job.for.notice.paths \subseteq Path
    /\ memo.index.overrides = {} /\ memo.schema \in Schema
    /\ Patchable(memo.index, job.for.notice.paths)
    /\ \E d \in Disk, unread \in Unreadable :
         /\ \A p \in Path : StillRead(d, p)
         /\ job.index = Patch(memo.index, d, job.for.notice.paths, memo.schema, unread)

\* The held index is true of what its manifest vouches for, and of every file
\* nobody has anything to say of, unless it is blind to the file
TrueOf(ix, m, b, p) ==
  \/ p \in b /\ Fresh(m, p)
  \/ Listed(disk, ix, p) /\ (Plain(ix, m) => Shown(disk, schema, ix, p))

MemoInv ==
  memo # NoMemo =>
    /\ Vouches(memo.manifest, memo.raced, memo.index)
    /\ ~Building => \A p \in Path :
         Settled(p) => TrueOf(memo.index, memo.manifest, memo.raced, p)

\* With overrides it is the index of a walk of a disk that has such files
WalkedFrom(d) ==
  /\ memo.index = Cold(d, schema, memo.index.overrides, {})
  /\ \A p \in Path :
       /\ p \notin memo.raced /\ memo.manifest.files[p] = Gone => d[p] = Absent
       /\ Settled(p) \/ Fresh(memo.manifest, p) =>
            d[p] = disk[p] \/ (p \in memo.raced /\ Fresh(memo.manifest, p))

FoldInv ==
  memo # NoMemo /\ ~Building /\ ~Dropping /\ over # {} /\ ~memo.index.degraded =>
    \E d \in Disk : WalkedFrom(d)

CohInv ==
  /\ StampInv /\ OverInv /\ SchemaInv /\ PendingInv
  /\ SnapInv /\ BuildInv /\ PatchInv /\ MemoInv /\ FoldInv

\* What writers and outside programs may do in one step: what they change has a
\* fingerprint of its own, and is somebody's to say or an unseen outside change
DiskMoves ==
  /\ edits' = edits + 1
  /\ \A p \in Path :
       \/ disk'[p] = disk[p] /\ stamp'[p] = stamp[p]
       \/ /\ stamp'[p] = IF disk'[p] = Absent THEN Gone ELSE edits'
          /\ (memo = NoMemo /\ job = NoJob) \/ (~Settled(p)' /\ (Building => ~SettledSoon(p)'))
  /\ UNCHANGED <<schema, schemaAt>> \/ (Dropping' /\ schemaAt' = edits')
  /\ \A w \in Worker : owed[w] \subseteq owed'[w]
  /\ foreign \subseteq foreign' \/ (memo = NoMemo /\ job = NoJob)
  /\ \/ over' = over
     \/ over' \subseteq OverTarget /\ Dropping'
     \/ over' \subseteq over /\ \E w \in Worker : ~Idle(w)'
  /\ UNCHANGED gateVars

\* The files that get other content are unsettled by the notice owed for them
LEMMA OwesUnsettles ==
  ASSUME TypeOK, NEW w \in Worker, NEW ns \in SUBSET Notice, Owes(w, ns), Idle(w), job' = job
  PROVE  /\ \A v \in Worker : owed[v] \subseteq owed'[v]
         /\ owed'[w] = ns
         /\ \A p \in Path : (\E n \in ns : n.kind = "apply" /\ p \in n.paths) =>
              ~Settled(p)' /\ (Building => ~SettledSoon(p)')
         /\ Invalidate \in ns => Dropping'
<1>1. owed' = [owed EXCEPT ![w] = ns] /\ owed \in [Worker -> SUBSET Notice]
  BY TypeParts DEF Owes, OwedOK
<1>2. owed'[w] = ns /\ \A v \in Worker : owed[v] \subseteq owed'[v]
  BY <1>1 DEF Idle
<1>3. ASSUME Building, NEW n \in ns PROVE job.for # [worker |-> w, notice |-> n]
  <2>1. [worker |-> w, notice |-> n] # NoJob
    BY DEF Errand
  <2>2. ASSUME job.for # NoJob PROVE job.for.worker # w
    BY <1>3, <2>2, TypeParts DEF Building, ErrandOK, Idle
  <2> QED  BY <2>1, <2>2
<1> QED  BY <1>2, <1>3 DEF Settled, SettledSoon, Dropping

\* ... whatever the files and the kind of the write
LEMMA OwesApply ==
  ASSUME TypeOK, NEW w \in Worker, NEW paths \in SUBSET Path, NEW structural \in BOOLEAN,
         Owes(w, {Apply(paths, structural)}), Idle(w), job' = job
  PROVE  /\ \A v \in Worker : owed[v] \subseteq owed'[v]
         /\ owed'[w] = {Apply(paths, structural)}
         /\ \A p \in paths : ~Settled(p)' /\ (Building => ~SettledSoon(p)')
<1> DEFINE n == Apply(paths, structural)
<1>1. {n} \in SUBSET Notice /\ n.kind = "apply" /\ n.paths = paths
  BY DEF Apply, Notice
<1> HIDE DEF n
<1>2. Owes(w, {n})
  BY DEF n
<1>3. /\ \A v \in Worker : owed[v] \subseteq owed'[v]
      /\ owed'[w] = {n}
      /\ \A p \in Path : p \in n.paths => ~Settled(p)' /\ (Building => ~SettledSoon(p)')
  BY <1>1, <1>2, OwesUnsettles
<1> QED  BY <1>1, <1>3 DEF n

\* A change of files restamps what it changes
LEMMA SetDiskMoves ==
  ASSUME TypeOK, NEW d \in Disk, SetDisk(d)
  PROVE  /\ edits' = edits + 1
         /\ \A p \in Path :
              \/ disk'[p] = disk[p] /\ stamp'[p] = stamp[p]
              \/ /\ disk'[p] # disk[p]
                 /\ stamp'[p] = IF disk'[p] = Absent THEN Gone ELSE edits'
BY TypeParts DEF SetDisk, DiskOK

\* Every change of the disk is such a move
LEMMA DiskStepMoves ==
  ASSUME TypeOK, over \subseteq OverTarget, DiskStep
  PROVE  DiskMoves
<1> USE TypeParts
<1>2. {Invalidate} \in SUBSET Notice
  BY DEF Invalidate, Notice
<1>3. disk \in Disk
  BY DEF DiskOK
<1>4. ASSUME NEW w \in Worker, NEW p \in Path, SaveNode(w, p)
      PROVE  DiskMoves
  <2>1. job' = job /\ Idle(w) /\ Owes(w, {Apply({p}, FALSE)})
    BY <1>4 DEF SaveNode, gateVars
  <2>2. ~Settled(p)' /\ (Building => ~SettledSoon(p)') /\ \A v \in Worker : owed[v] \subseteq owed'[v]
    BY <2>1, OwesApply
  <2>3. UNCHANGED <<schema, schemaAt, over, foreign, gateVars>>
    BY <1>4 DEF SaveNode, foreignVars
  <2>4. CASE IsNode(disk[p]) /\ TouchFile(p)
    <3>1. /\ edits' = edits + 1 /\ disk' = disk
          /\ stamp' = [stamp EXCEPT ![p] = edits'] /\ disk[p] # Absent
      BY <2>4 DEF TouchFile, IsNode
    <3> QED  BY <2>2, <2>3, <3>1 DEF DiskMoves, DiskOK
  <2>5. ASSUME NEW c \in Node, SetDisk([disk EXCEPT ![p] = c])
        PROVE  DiskMoves
    <3>1. [disk EXCEPT ![p] = c] \in Disk
      BY <1>3, NodeOnDisk DEF Content
    <3>2. \A q \in Path : q # p => disk'[q] = disk[q]
      BY <2>5 DEF SetDisk, DiskOK, Disk
    <3> QED  BY <2>2, <2>3, <2>5, <3>1, <3>2, SetDiskMoves DEF DiskMoves
  <2> QED  BY <1>4, <2>4, <2>5 DEF SaveNode
<1>5. ASSUME NEW w \in Worker, NEW paths \in SUBSET Path, DeleteNodes(w, paths)
      PROVE  DiskMoves
  <2> DEFINE d == [p \in Path |-> IF p \in paths THEN Absent ELSE disk[p]]
  <2>1. job' = job /\ Idle(w) /\ Owes(w, {Apply(paths, TRUE)}) /\ SetDisk(d)
    BY <1>5 DEF DeleteNodes, gateVars
  <2>2. /\ \A p \in paths : ~Settled(p)' /\ (Building => ~SettledSoon(p)')
        /\ \A v \in Worker : owed[v] \subseteq owed'[v]
    BY <2>1, OwesApply
  <2>3. UNCHANGED <<schema, schemaAt, over, foreign, gateVars>>
    BY <1>5 DEF DeleteNodes, foreignVars
  <2>4. d \in Disk
    BY <1>3 DEF Disk, Content
  <2>5. \A q \in Path : q \notin paths => disk'[q] = disk[q]
    BY <2>1 DEF SetDisk
  <2> HIDE DEF d
  <2> QED  BY <2>1, <2>2, <2>3, <2>4, <2>5, SetDiskMoves DEF DiskMoves
<1>6. ASSUME NEW w \in Worker, NEW p \in Path, NEW q \in Path, RenameNode(w, p, q)
      PROVE  DiskMoves
  <2> DEFINE d == [disk EXCEPT ![p] = Absent, ![q] = disk[p]]
  <2>1. job' = job /\ Idle(w) /\ Owes(w, {Apply({p, q}, TRUE)}) /\ SetDisk(d)
    BY <1>6 DEF RenameNode, gateVars
  <2>2. /\ \A r \in {p, q} : ~Settled(r)' /\ (Building => ~SettledSoon(r)')
        /\ \A v \in Worker : owed[v] \subseteq owed'[v]
    BY <2>1, OwesApply
  <2>3. UNCHANGED <<schema, schemaAt, over, foreign, gateVars>>
    BY <1>6 DEF RenameNode, foreignVars
  <2>4. d \in Disk
    BY <1>3 DEF Disk, Content
  <2>5. \A r \in Path : r # p /\ r # q => disk'[r] = disk[r]
    BY <1>3, <2>1 DEF SetDisk, Disk
  <2> HIDE DEF d
  <2> QED  BY <2>1, <2>2, <2>3, <2>4, <2>5, SetDiskMoves DEF DiskMoves
<1>7. ASSUME NEW w \in Worker, SaveSchema(w)
      PROVE  DiskMoves
  <2>1. Dropping' /\ \A v \in Worker : owed[v] \subseteq owed'[v]
    BY <1>2, <1>7, OwesUnsettles DEF SaveSchema, gateVars
  <2> QED  BY <1>7, <2>1 DEF SaveSchema, DiskMoves, foreignVars
<1>8. ASSUME NEW w \in Worker, NEW i \in OverTarget, WriteOverride(w, i)
      PROVE  DiskMoves
  <2>1. Dropping' /\ \A v \in Worker : owed[v] \subseteq owed'[v]
    BY <1>2, <1>8, OwesUnsettles DEF WriteOverride, gateVars
  <2> QED  BY <1>8, <2>1 DEF WriteOverride, DiskMoves, foreignVars
<1>9. ASSUME NEW w \in Worker, NEW i \in OverTarget, DropOverride(w, i)
      PROVE  DiskMoves
  <2>1. owed'[w] = {Apply({}, TRUE)} /\ \A v \in Worker : owed[v] \subseteq owed'[v]
    BY <1>9, OwesApply DEF DropOverride, gateVars
  <2>2. ~Idle(w)'
    BY <2>1 DEF Idle
  <2> QED  BY <1>9, <2>1, <2>2 DEF DropOverride, DiskMoves, foreignVars
<1>10. ASSUME NEW p \in Path, ForeignEdit(p)
      PROVE  DiskMoves
  <2>1. PICK c \in Content : SetDisk([disk EXCEPT ![p] = c])
    BY <1>10 DEF ForeignEdit
  <2>2. [disk EXCEPT ![p] = c] \in Disk
    BY <1>3, NodeOnDisk
  <2>3. \A q \in Path : q # p => disk'[q] = disk[q]
    BY <1>3, <2>1 DEF SetDisk, Disk
  <2>4. \/ memo = NoMemo /\ job = NoJob
        \/ foreign \subseteq foreign' /\ ~Settled(p)' /\ ~SettledSoon(p)'
    BY <1>10 DEF ForeignEdit, Settled, SettledSoon
  <2>5. UNCHANGED <<schema, schemaAt, over, gateVars, owed>>
    BY <1>10 DEF ForeignEdit
  <2> QED  BY <2>1, <2>2, <2>3, <2>4, <2>5, SetDiskMoves DEF DiskMoves
<1> QED  BY <1>4, <1>5, <1>6, <1>7, <1>8, <1>9, <1>10 DEF DiskStep

\* What is settled after a change of the disk is as it was before
LEMMA MovesSettled ==
  ASSUME TypeOK, DiskMoves, memo # NoMemo \/ job # NoJob, NEW p \in Path, Settled(p)'
  PROVE  Settled(p) /\ disk'[p] = disk[p] /\ stamp'[p] = stamp[p] /\ UNCHANGED <<schema, schemaAt>>
<1>1. \A w \in Worker : owed[w] \subseteq owed'[w]
  BY DEF DiskMoves
<1> QED  BY <1>1 DEF DiskMoves, Settled, Dropping

LEMMA MovesSettledSoon ==
  ASSUME TypeOK, DiskMoves, Building, NEW p \in Path, SettledSoon(p)'
  PROVE  SettledSoon(p) /\ stamp'[p] = stamp[p]
<1>1. \A w \in Worker : owed[w] \subseteq owed'[w]
  BY DEF DiskMoves
<1>2. job # NoJob /\ job' = job
  BY DEF Building, DiskMoves, gateVars
<1> QED  BY <1>1, <1>2 DEF DiskMoves, SettledSoon, Dropping

\* Unless a drop is owed, the schema is the same
LEMMA MovesDropping ==
  ASSUME DiskMoves, ~Dropping'
  PROVE  ~Dropping /\ UNCHANGED <<schema, schemaAt>>
BY DEF DiskMoves, Dropping

\* What a manifest of the past vouches for is as it was
LEMMA MovesFresh ==
  ASSUME TypeOK, StampInv, DiskMoves, NEW m \in Manifest, Past(m), NEW p \in Path, Fresh(m, p)'
  PROVE  \/ Fresh(m, p) /\ disk'[p] = disk[p] /\ stamp'[p] = stamp[p]
         \/ m.files[p] = Gone /\ stamp'[p] = Gone /\ disk'[p] = Absent
<1>1. m.files[p] \in Nat /\ m.files[p] <= edits /\ edits \in Nat
  BY TypeParts DEF Past, Manifest, DiskOK
<1>2. m.files[p] # edits'
  BY <1>1 DEF DiskMoves
<1> QED  BY <1>2 DEF DiskMoves, Fresh

\* A manifest of the current schema stays one, of the same schema, or is outdated
LEMMA MovesSchema ==
  ASSUME TypeOK, DiskMoves, NEW m \in Manifest, Past(m), m.schema = schemaAt'
  PROVE  UNCHANGED <<schema, schemaAt>>
<1>1. m.schema \in Nat /\ m.schema <= edits /\ edits \in Nat
  BY TypeParts DEF Past, Manifest, DiskOK
<1> QED  BY <1>1 DEF DiskMoves

LEMMA MovesVouch ==
  ASSUME TypeOK, StampInv, DiskMoves, NEW m \in Manifest, Past(m), NEW b, NEW ix,
         Vouches(m, b, ix)
  PROVE  Vouches(m, b, ix)'
<1> SUFFICES ASSUME NEW p \in Path
             PROVE  VouchesFor(m, b, ix, p)'
  BY DEF Vouches
<1>1. VouchesFor(m, b, ix, p)
  BY DEF Vouches
<1>2. Plain(ix, m)' => Plain(ix, m) /\ UNCHANGED <<schema, schemaAt>>
  BY MovesSchema DEF Plain
<1>3. ASSUME p \notin b, Fresh(m, p)'
      PROVE  Listed(disk, ix, p)' /\ (Plain(ix, m)' => Exact(disk, schema, ix, p)')
  <2>1. CASE Fresh(m, p) /\ disk'[p] = disk[p]
    BY <1>1, <1>2, <1>3, <2>1 DEF VouchesFor, Listed, Exact
  <2>2. CASE m.files[p] = Gone /\ disk'[p] = Absent
    BY <1>1, <1>3, <2>2, NodeIndexAssumption DEF VouchesFor, NothingOf, Listed, Exact, IsNode
  <2> QED  BY <1>3, <2>1, <2>2, MovesFresh
<1> QED  BY <1>1, <1>3 DEF VouchesFor

\* Changing the disk leaves CohInv
LEMMA DiskStepCoh ==
  ASSUME TypeOK, OrderInv, CohInv, DiskStep
  PROVE  CohInv'
<1> USE TypeParts DEF CohInv
<1>1. DiskMoves
  BY DiskStepMoves DEF OverInv
<1>2. UNCHANGED gateVars /\ memo' = memo /\ pending' = pending /\ snap' = snap /\ job' = job
  BY <1>1 DEF DiskMoves, gateVars
<1>3. Building' <=> Building
  BY <1>2 DEF Building
<1>4. /\ memo # NoMemo => memo.manifest \in Manifest /\ Past(memo.manifest)
      /\ snap # NoSnap => snap.manifest \in Manifest /\ Past(snap.manifest)
      /\ Building => job.manifest \in Manifest /\ Past(job.manifest)
  BY HeldManifests DEF OrderInv
<1>5. StampInv'
  BY <1>1 DEF StampInv, DiskMoves, DiskOK, Gone
<1>6. OverInv'
  <2>1. over' \subseteq OverTarget
    BY <1>1 DEF OverInv, DiskMoves
  <2>2. ASSUME ~Dropping', over' # {}
        PROVE  /\ ~Dropping /\ over # {} 
               /\ over' = over \/ \E w \in Worker : ~Idle(w)'
               /\ \A w \in Worker : ~Idle(w) => ~Idle(w)'
    BY <1>1, <2>2, MovesDropping DEF DiskMoves, Idle
  <2> QED  BY <1>2, <1>3, <2>1, <2>2 DEF OverInv
<1>7. SchemaInv'
  <2>1. memo # NoMemo /\ ~Dropping' => memo.manifest.schema = schemaAt'
    BY <1>1, MovesDropping DEF SchemaInv
  <2>2. Building /\ ~Dropping' => job.manifest.schema = schemaAt'
    BY <1>1, MovesDropping DEF SchemaInv
  <2>3. memo # NoMemo /\ memo.manifest.schema = schemaAt' => memo.schema \in {schema', NoSchema}
    BY <1>1, <1>4, MovesSchema DEF SchemaInv
  <2> QED  BY <1>2, <1>3, <2>1, <2>2, <2>3 DEF SchemaInv
<1>8. PendingInv'
  BY <1>2 DEF PendingInv
<1> HIDE DEF CohInv
<1>20. ASSUME NEW m \in Manifest, Past(m), NEW p \in Path, Fresh(m, p)', stamp'[p] # Gone
       PROVE  Fresh(m, p) /\ stamp'[p] = stamp[p]
  BY <1>1, <1>20, MovesFresh DEF CohInv
<1>9. BuildInv'
  <2> SUFFICES ASSUME Building PROVE BuildInv'
    BY <1>3 DEF BuildInv
  <2>1. ASSUME memo # NoMemo, NEW p \in Path, Fresh(memo.manifest, p)', stamp'[p] # Gone
        PROVE  Fresh(job.manifest, p)'
    <3>1. memo.manifest.files[p] = stamp'[p]
      BY <1>2, <2>1 DEF Fresh
    <3>2. Fresh(memo.manifest, p) /\ stamp'[p] = stamp[p]
      <4>1. \A m \in Manifest : Past(m) /\ m.files[p] = stamp'[p] => Fresh(m, p) /\ stamp'[p] = stamp[p]
        BY <1>20, <2>1 DEF Fresh
      <4> QED  BY <1>4, <2>1, <3>1, <4>1
    <3> QED  BY <1>2, <2>1, <3>2 DEF CohInv, BuildInv, Fresh
  <2>2. ASSUME snap # NoSnap, NEW p \in Path, Fresh(snap.manifest, p)', stamp'[p] # Gone
        PROVE  Fresh(job.manifest, p)'
    <3>1. snap.manifest.files[p] = stamp'[p]
      BY <1>2, <2>2 DEF Fresh
    <3>2. Fresh(snap.manifest, p) /\ stamp'[p] = stamp[p]
      <4>1. \A m \in Manifest : Past(m) /\ m.files[p] = stamp'[p] => Fresh(m, p) /\ stamp'[p] = stamp[p]
        BY <1>20, <2>2 DEF Fresh
      <4> QED  BY <1>4, <2>2, <3>1, <4>1
    <3> QED  BY <1>2, <2>2, <3>2 DEF CohInv, BuildInv, Fresh
  <2> QED  BY <1>2, <2>1, <2>2 DEF CohInv, BuildInv
<1> USE DEF CohInv
<1>10. PatchInv'
  <2> SUFFICES ASSUME Patching PROVE PatchInv'
    BY <1>2 DEF PatchInv, Patching
  <2>1. PICK d \in Disk, unread \in Unreadable :
          /\ \A p \in Path : StillRead(d, p)
          /\ job.index = Patch(memo.index, d, job.for.notice.paths, memo.schema, unread)
    BY DEF PatchInv
  <2>2. job.read \in [Path -> Nat]
    BY JobType DEF PatchJob
  <2>3. ASSUME NEW p \in Path PROVE StillRead(d, p)'
    <3>1. StillRead(d, p) /\ job.read[p] \in Nat /\ edits \in Nat /\ edits' = edits + 1
      BY <1>1, <2>1, <2>2 DEF DiskOK, DiskMoves
    <3>2. job.read[p] <= edits' /\ job.read[p] # edits'
      BY <3>1 DEF StillRead
    <3>3. CASE disk'[p] = disk[p] /\ stamp'[p] = stamp[p]
      BY <1>2, <3>1, <3>2, <3>3 DEF StillRead
    <3>4. CASE stamp'[p] = IF disk'[p] = Absent THEN Gone ELSE edits'
      BY <1>2, <3>1, <3>2, <3>4 DEF StillRead
    <3> QED  BY <1>1, <3>3, <3>4 DEF DiskMoves
  <2> QED  BY <1>2, <2>1, <2>3 DEF PatchInv
<1>11. SnapInv'
  <2> SUFFICES ASSUME snap # NoSnap PROVE SnapInv'
    BY <1>2 DEF SnapInv
  <2>1. Vouches(snap.manifest, snap.raced, snap.index)'
    <3>1. Vouches(snap.manifest, snap.raced, snap.index)
      BY DEF SnapInv
    <3>2. \A b, ix : \A m \in Manifest : Past(m) /\ Vouches(m, b, ix) => Vouches(m, b, ix)'
      BY <1>1, MovesVouch
    <3> QED  BY <1>2, <1>4, <3>1, <3>2
  <2>2. ASSUME memo # NoMemo, NEW p \in Path,
               Fresh(snap.manifest, p)', stamp'[p] # Gone
        PROVE  Fresh(memo.manifest, p)'
    <3>1. snap.manifest.files[p] = stamp'[p]
      BY <1>2, <2>2 DEF Fresh
    <3>2. Fresh(snap.manifest, p) /\ stamp'[p] = stamp[p]
      <4>1. \A m \in Manifest : Past(m) /\ m.files[p] = stamp'[p] /\ stamp'[p] # Gone
                  => Fresh(m, p) /\ stamp'[p] = stamp[p]
        BY <1>1, MovesFresh DEF Fresh
      <4> QED  BY <1>4, <2>2, <3>1, <4>1
    <3> QED  BY <1>2, <2>2, <3>2 DEF SnapInv, Fresh
  <2>3. ASSUME Building, NEW p \in Path, SettledSoon(p)',
               snap.manifest.files[p] = job.manifest.files[p]
        PROVE  Fresh(job.manifest, p)'
    <3>2. SettledSoon(p) /\ stamp'[p] = stamp[p]
      BY <1>1, <2>3, MovesSettledSoon
    <3> QED  BY <1>2, <2>3, <3>2 DEF SnapInv, Fresh
  <2> QED  BY <1>2, <1>3, <2>1, <2>2, <2>3 DEF SnapInv
<1>12. MemoInv'
  <2> SUFFICES ASSUME memo # NoMemo PROVE MemoInv'
    BY <1>2 DEF MemoInv
  <2>1. Vouches(memo.manifest, memo.raced, memo.index)'
    <3>1. Vouches(memo.manifest, memo.raced, memo.index)
      BY DEF MemoInv
    <3>2. \A b, ix : \A m \in Manifest : Past(m) /\ Vouches(m, b, ix) => Vouches(m, b, ix)'
      BY <1>1, MovesVouch
    <3> QED  BY <1>2, <1>4, <3>1, <3>2
  <2>2. ASSUME ~Building, NEW p \in Path, Settled(p)'
        PROVE  TrueOf(memo.index, memo.manifest, memo.raced, p)'
    <3>1. /\ Settled(p) /\ disk'[p] = disk[p] /\ stamp'[p] = stamp[p]
          /\ UNCHANGED <<schema, schemaAt>>
      BY <1>1, <2>2, MovesSettled
    <3>2. TrueOf(memo.index, memo.manifest, memo.raced, p)
      BY <2>2, <3>1 DEF MemoInv
    <3> QED  BY <1>2, <3>1, <3>2 DEF TrueOf, Listed, Shown, Plain, Fresh
  <2> QED  BY <1>2, <1>3, <2>1, <2>2 DEF MemoInv
<1>13. FoldInv'
  <2> SUFFICES ASSUME memo # NoMemo, ~Building, ~Dropping', over' # {}, ~memo.index.degraded
               PROVE  \E d \in Disk : WalkedFrom(d)'
    BY <1>2, <1>3 DEF FoldInv
  <2>1. ~Dropping /\ over # {} /\ UNCHANGED <<schema, schemaAt>>
    BY <1>1, MovesDropping DEF DiskMoves
  <2>2. PICK d \in Disk : WalkedFrom(d)
    BY <2>1 DEF FoldInv
  <2>3. ASSUME NEW p \in Path, Settled(p)' \/ Fresh(memo.manifest, p)'
        PROVE  d[p] = disk'[p] \/ (p \in memo.raced /\ Fresh(memo.manifest, p)')
    <3>1. CASE Settled(p)'
      <4>1. Settled(p) /\ disk'[p] = disk[p] /\ stamp'[p] = stamp[p]
        BY <1>1, <3>1, MovesSettled
      <4> QED  BY <1>2, <2>2, <4>1 DEF WalkedFrom, Fresh
    <3>2. CASE Fresh(memo.manifest, p)'
      <4>1. memo.manifest.files[p] = stamp'[p]
        BY <1>2, <3>2 DEF Fresh
      <4>2. \A m \in Manifest : Past(m) /\ m.files[p] = stamp'[p]
               => (Fresh(m, p) /\ disk'[p] = disk[p]) \/ (m.files[p] = Gone /\ disk'[p] = Absent)
        BY <1>1, MovesFresh DEF Fresh
      <4>3. (Fresh(memo.manifest, p) /\ disk'[p] = disk[p])
              \/ (memo.manifest.files[p] = Gone /\ disk'[p] = Absent)
        BY <1>4, <4>1, <4>2
      <4> QED  BY <2>2, <3>2, <4>3 DEF WalkedFrom
    <3> QED  BY <2>3, <3>1, <3>2
  <2>4. WalkedFrom(d)'
    BY <1>2, <2>1, <2>2, <2>3 DEF WalkedFrom
  <2> QED  BY <2>4
<1> QED  BY <1>5, <1>6, <1>7, <1>8, <1>9, <1>10, <1>11, <1>12, <1>13

-----------------------------------------------------------------------------
(* The steps of the gate *)

\* While the disk stays, what is vouched for stays
LEMMA SameVouched ==
  ASSUME UNCHANGED diskVars
  PROVE  /\ \A m, b, ix : Vouches(m, b, ix) => Vouches(m, b, ix)'
         /\ \A m, p : Fresh(m, p)' <=> Fresh(m, p)
         /\ StampInv => StampInv'
BY DEF diskVars, Vouches, VouchesFor, Fresh, Plain, Listed, Exact, StampInv

\* What the snapshot file may become when nothing is built
Flushed ==
  \/ snap' = snap \/ snap' = NoSnap
  \/ /\ memo # NoMemo /\ ~memo.index.degraded
     /\ snap'.index = memo.index /\ snap'.manifest = memo.manifest /\ snap'.raced = memo.raced

\* A deferred flush persists the held index
LEMMA FlushIsHeld ==
  ASSUME PendingInv, snap' \in IF pending = NoFlush THEN {snap}
                               ELSE Persisted(snap, pending)
  PROVE  /\ Flushed
         /\ memo = NoMemo => snap' = snap
<1>1. CASE pending = NoFlush
  BY <1>1 DEF Flushed
<1>2. CASE pending # NoFlush
  BY <1>2 DEF PendingInv, Persisted, Flushed
<1> QED  BY <1>1, <1>2

\* ... which is as true of the files as the memo
LEMMA FlushedSnap ==
  ASSUME CohInv, Flushed, UNCHANGED diskVars, ~Building, ~Building', memo' \in {memo, NoMemo}
  PROVE  /\ SnapInv'
         /\ snap' # NoSnap => snap'.index.overrides \subseteq OverTarget
<1>1. /\ \A m, b, ix : Vouches(m, b, ix) => Vouches(m, b, ix)'
      /\ \A m, p : Fresh(m, p)' <=> Fresh(m, p)
      /\ stamp' = stamp
  BY SameVouched DEF diskVars
<1>2. CASE snap' = NoSnap
  BY <1>2 DEF SnapInv
<1>3. CASE snap' = snap /\ snap # NoSnap
  <2>1. ~snap.index.degraded /\ Vouches(snap.manifest, snap.raced, snap.index)
    BY <1>3 DEF CohInv, SnapInv
  <2>2. Vouches(snap.manifest, snap.raced, snap.index)'
    BY <1>1, <1>3, <2>1
  <2>3. ASSUME memo' # NoMemo, NEW p \in Path, Fresh(snap.manifest, p)', stamp'[p] # Gone
        PROVE  Fresh(memo.manifest, p)'
    BY <1>1, <1>3, <2>3 DEF CohInv, SnapInv, Fresh
  <2>4. SnapInv'
    BY <1>3, <2>1, <2>2, <2>3 DEF SnapInv
  <2> QED  BY <1>3, <2>4 DEF CohInv, OverInv
<1>4. CASE /\ memo # NoMemo /\ ~memo.index.degraded
           /\ snap'.index = memo.index /\ snap'.manifest = memo.manifest
           /\ snap'.raced = memo.raced
  <2>1. Vouches(snap.manifest, snap.raced, snap.index)'
    BY <1>1, <1>4 DEF CohInv, MemoInv
  <2>2. ASSUME memo' # NoMemo, NEW p \in Path, Fresh(snap.manifest, p)'
        PROVE  Fresh(memo.manifest, p)'
    BY <1>4, <2>2 DEF Fresh
  <2>3. SnapInv'
    BY <1>4, <2>1, <2>2 DEF SnapInv
  <2> QED  BY <1>4, <2>3 DEF CohInv, OverInv
<1> QED  BY <1>2, <1>3, <1>4 DEF Flushed

\* An empty gate has nothing to be wrong about
LEMMA EmptyGateCoh ==
  ASSUME CohInv, Flushed, UNCHANGED diskVars, ~Building, memo' = NoMemo, job' = NoJob,
         pending' = NoFlush
  PROVE  CohInv'
<1>1. ~Building' /\ ~Patching'
  BY DEF Building, Patching
<1>2. SnapInv' /\ (snap' # NoSnap => snap'.index.overrides \subseteq OverTarget)
  BY <1>1, FlushedSnap
<1>3. StampInv'
  BY SameVouched DEF CohInv
<1>4. OverInv'
  BY <1>1, <1>2 DEF CohInv, OverInv, diskVars
<1> QED
  BY <1>1, <1>2, <1>3, <1>4
     DEF CohInv, SchemaInv, PendingInv, BuildInv, PatchInv, MemoInv, FoldInv

\* A crash may leave any build behind unfinished; the snapshot stays
LEMMA CrashCoh ==
  ASSUME CohInv, UNCHANGED <<diskVars, snap>>, memo' = NoMemo, job' = NoJob,
         pending' = NoFlush
  PROVE  CohInv'
<1>1. ~Building' /\ ~Patching'
  BY DEF Building, Patching
<1>2. SnapInv'
  <2>1. snap # NoSnap => Vouches(snap.manifest, snap.raced, snap.index)'
    BY SameVouched DEF CohInv, SnapInv
  <2> QED  BY <1>1, <2>1 DEF CohInv, SnapInv
<1>3. StampInv'
  BY SameVouched DEF CohInv
<1>4. OverInv'
  BY <1>1 DEF CohInv, OverInv, diskVars
<1> QED
  BY <1>1, <1>2, <1>3, <1>4
     DEF CohInv, SchemaInv, PendingInv, BuildInv, PatchInv, MemoInv, FoldInv

\* Steps that leave the memo, the notices and the disk alone
LEMMA SnapshotOnlyCoh ==
  ASSUME CohInv, Flushed, UNCHANGED <<diskVars, foreign, memo, job, owed>>, job = NoJob,
         pending' \in {pending, NoFlush}
  PROVE  CohInv'
<1>1. ~Building /\ ~Building' /\ ~Patching' /\ (Dropping' <=> Dropping)
  BY DEF Building, Patching, Dropping
<1>2. SnapInv' /\ (snap' # NoSnap => snap'.index.overrides \subseteq OverTarget)
  BY <1>1, FlushedSnap
<1>3. StampInv'
  BY SameVouched DEF CohInv
<1>4. OverInv'
  BY <1>1, <1>2 DEF CohInv, OverInv, diskVars, Idle
<1>5. SchemaInv' /\ PendingInv' /\ BuildInv' /\ PatchInv'
  BY <1>1 DEF CohInv, SchemaInv, PendingInv, BuildInv, PatchInv, diskVars
<1>6. \A p \in Path : Settled(p)' <=> Settled(p)
  BY DEF Settled, Dropping
<1>7. MemoInv'
  BY <1>1, <1>6, SameVouched DEF CohInv, MemoInv, TrueOf, Listed, Shown, Plain, Fresh, diskVars
<1>8. FoldInv'
  BY <1>1, <1>6 DEF CohInv, FoldInv, WalkedFrom, Fresh, diskVars
<1> QED  BY <1>2, <1>3, <1>4, <1>5, <1>7, <1>8 DEF CohInv

\* A build starts from the fingerprints there are
LEMMA StartBuildCoh ==
  ASSUME TypeOK, OrderInv, CohInv, NEW for \in Errand \cup {NoJob}, StartBuild(for), job = NoJob,
         for # NoJob => for.notice.kind = "apply",
         UNCHANGED <<diskVars, memo, snap, owed>>, pending' \in {pending, NoFlush}
  PROVE  CohInv'
<1> USE TypeParts
<1>1. /\ job'.step = "build" /\ job'.manifest = Stat /\ job'.folds = (over # {})
      /\ job'.for = for /\ job' \in BuildJob
  BY StartBuildType DEF StartBuild
<1>2. Building' /\ ~Patching' /\ (Dropping' <=> Dropping) /\ Stat' = Stat
  BY <1>1 DEF Building, Patching, Dropping, Stat, diskVars
<1>3. StampInv'
  BY SameVouched DEF CohInv
<1>4. OverInv'
  BY <1>1, <1>2 DEF CohInv, OverInv, diskVars
<1>5. SchemaInv'
  BY <1>1, <1>2 DEF CohInv, SchemaInv, diskVars, Stat
<1>6. PendingInv' /\ PatchInv' /\ FoldInv'
  BY <1>2 DEF CohInv, PendingInv, PatchInv, FoldInv
<1>7. MemoInv'
  BY <1>2, SameVouched DEF CohInv, MemoInv
<1>8. BuildInv'
  <2>1. \A p \in Path : Fresh(job.manifest, p)'
    BY <1>1 DEF Fresh, Stat, diskVars
  <2>2. job'.for # NoJob => job'.for.notice.kind = "apply"
    BY <1>1
  <2> QED  BY <2>1, <2>2 DEF BuildInv
<1>9. SnapInv'
  <2> SUFFICES ASSUME snap # NoSnap PROVE SnapInv'
    BY DEF SnapInv
  <2>1. ~snap.index.degraded /\ Vouches(snap.manifest, snap.raced, snap.index)'
    BY SameVouched DEF CohInv, SnapInv
  <2>2. ASSUME memo # NoMemo, NEW p \in Path
        PROVE  /\ Fresh(snap.manifest, p)' /\ stamp'[p] # Gone => Fresh(memo.manifest, p)'
               /\ snap.manifest.files[p] = job'.manifest.files[p] /\ job'.manifest.files[p] # Gone
                    => memo.manifest.files[p] = job'.manifest.files[p]
    BY <1>1, <2>2 DEF CohInv, SnapInv, Fresh, Stat, diskVars
  <2>3. \A p \in Path : Fresh(job.manifest, p)'
    BY <1>1 DEF Fresh, Stat, diskVars
  <2> QED  BY <1>1, <2>1, <2>2, <2>3 DEF SnapInv
<1> QED  BY <1>3, <1>4, <1>5, <1>6, <1>7, <1>8, <1>9 DEF CohInv

\* When an apply is done, only its own files become settled
LEMMA DoneSettles ==
  ASSUME TypeOK, NEW w \in Worker, NEW n \in owed[w], n.kind = "apply", Done(w, n),
         foreign' = foreign
  PROVE  /\ Dropping' <=> Dropping
         /\ \A p \in Path : Settled(p)' /\ p \notin n.paths => Settled(p)
         /\ \A p \in Path : Settled(p)' /\ job.for = [worker |-> w, notice |-> n] => SettledSoon(p)
<1>1. owed' = [owed EXCEPT ![w] = owed[w] \ {n}] /\ owed \in [Worker -> SUBSET Notice]
  BY TypeParts DEF Done, OwedOK
<1>2. \A v \in Worker : \A m : m \in owed[v] => m \in owed'[v] \/ (v = w /\ m = n)
  BY <1>1
<1>3. \A v \in Worker : owed'[v] \subseteq owed[v]
  BY <1>1
<1>4. Invalidate # n
  BY DEF Invalidate
<1>5. Dropping' <=> Dropping
  BY <1>2, <1>3, <1>4 DEF Dropping
<1> QED  BY <1>2, <1>5 DEF Settled, SettledSoon

\* The paths of an apply are files
LEMMA NoticePaths ==
  ASSUME TypeOK, NEW w \in Worker, NEW n \in owed[w], n.kind = "apply"
  PROVE  n \in Notice /\ n.paths \subseteq Path /\ n.structural \in BOOLEAN
BY TypeParts DEF OwedOK, Notice

\* A file whose write is passed over reads as the memo shows it
LEMMA PassedOver ==
  ASSUME TypeOK, CohInv, memo # NoMemo, NEW n \in Notice, NEW unread, memo.schema # NoSchema,
         Unchanged(n, unread), NEW p \in n.paths, p \in Path
  PROVE  TrueOf(memo.index, memo.manifest, memo.raced, p)
<1> USE TypeParts
<1> DEFINE ix == memo.index
           seen == AsRead(disk, unread)
<1>1. LeavesIndexUnchanged(ix, seen, n.paths, n.structural, memo.schema)
  BY DEF Unchanged
<1>2. seen[p] = IF p \in unread /\ disk[p] # Absent THEN Malformed ELSE disk[p]
  BY DEF AsRead
<1>3. Separate(ix, p)
  BY DEF CohInv, MemoInv, Vouches, VouchesFor
<1>4. memo.manifest.schema = schemaAt => memo.schema = schema
  BY DEF CohInv, SchemaInv
<1> HIDE DEF seen
<1>5. CASE ix.entry[p] = Absent /\ seen[p] = Absent
  <2>1. disk[p] = Absent
    BY <1>2, <1>5, NodeIndexAssumption
  <2> QED  BY <1>5, <2>1, NodeIndexAssumption DEF TrueOf, Listed, Shown, IsNode
<1>6. CASE SameSignature(ix, seen, p, memo.schema)
  <2>1. IsNode(disk[p]) /\ ix.entry[p] = EntryOf(disk[p], memo.schema) /\ ix.entry[p] # Absent
    BY <1>2, <1>6 DEF SameSignature, IsNode
  <2>2. ix.entry[p].id = disk[p].id /\ p \notin ix.unparsed
    BY <1>3, <2>1 DEF EntryOf, Separate
  <2> QED  BY <1>4, <2>1, <2>2 DEF TrueOf, Listed, Shown, Plain, IsNode
<1> QED  BY <1>1, <1>5, <1>6 DEF LeavesIndexUnchanged

\* A notice that is passed over leaves an index that is true of its files
LEMMA ApplyNothingCoh ==
  ASSUME TypeOK, CohInv, NEW w \in Worker, NEW n \in owed[w], NEW unread,
         ApplyNothing(w, n, unread)
  PROVE  CohInv'
<1>1. n.kind = "apply" /\ job = NoJob /\ Done(w, n) /\ UNCHANGED <<diskVars, foreign, memo, pending, snap, job>>
  BY DEF ApplyNothing, MayApply, foreignVars, gateVars
<1>2. /\ Dropping' <=> Dropping
      /\ \A p \in Path : Settled(p)' /\ p \notin n.paths => Settled(p)
  BY <1>1, DoneSettles
<1>3. n \in Notice
  BY <1>1, NoticePaths
<1>4. ~Building /\ ~Building' /\ ~Patching'
  BY <1>1 DEF Building, Patching
<1>5. memo # NoMemo => /\ memo.index.overrides = {}
                       /\ n.paths = {} \/ (memo.schema # NoSchema /\ Unchanged(n, unread))
  BY DEF ApplyNothing, NothingToDo
<1>6. memo # NoMemo => Dropping \/ over = {}
  BY <1>4, <1>5 DEF CohInv, OverInv
<1>7. StampInv' /\ SchemaInv' /\ PendingInv' /\ BuildInv' /\ PatchInv'
  BY <1>1, <1>2, <1>4
     DEF CohInv, StampInv, SchemaInv, PendingInv, BuildInv, PatchInv, diskVars
<1>8. OverInv' /\ FoldInv'
  BY <1>1, <1>2, <1>4, <1>6 DEF CohInv, OverInv, FoldInv, diskVars
<1>9. SnapInv'
  BY <1>1, <1>4, FlushedSnap DEF Flushed
<1>10. MemoInv'
  <2> SUFFICES ASSUME memo # NoMemo PROVE MemoInv'
    BY <1>1 DEF MemoInv
  <2>1. Vouches(memo.manifest, memo.raced, memo.index)'
    BY <1>1, SameVouched DEF CohInv, MemoInv
  <2>2. ASSUME NEW p \in Path, Settled(p)' PROVE TrueOf(memo.index, memo.manifest, memo.raced, p)
    <3>1. CASE p \in n.paths
      BY <1>3, <1>5, <3>1, PassedOver
    <3>2. CASE p \notin n.paths
      BY <1>2, <1>4, <2>2, <3>2 DEF CohInv, MemoInv
    <3> QED  BY <3>1, <3>2
  <2>3. \A p \in Path : Settled(p)' => TrueOf(memo.index, memo.manifest, memo.raced, p)'
    BY <1>1, <2>2 DEF TrueOf, Listed, Shown, Plain, Fresh, diskVars
  <2> QED  BY <1>1, <2>1, <2>3 DEF MemoInv
<1> QED  BY <1>7, <1>8, <1>9, <1>10 DEF CohInv

\* A patch starts from the held index and the disk as it is
LEMMA ApplyPatchCoh ==
  ASSUME TypeOK, OrderInv, CohInv, NEW w \in Worker, NEW n \in owed[w], NEW unread \in Unreadable,
         ApplyPatch(w, n, unread)
  PROVE  CohInv'
<1> USE TypeParts
<1>1. /\ n.kind = "apply" /\ job = NoJob /\ memo # NoMemo
      /\ job' = [step |-> "patch", for |-> [worker |-> w, notice |-> n],
                 index |-> Patch(memo.index, disk, n.paths, memo.schema, unread),
                 read |-> stamp]
      /\ UNCHANGED <<diskVars, foreign, memo, pending, snap, owed>>
  BY DEF ApplyPatch, MayApply, foreignVars
<1>2. ~Building /\ ~Building' /\ (Dropping' <=> Dropping)
  BY <1>1 DEF Building, Dropping
<1>3. /\ memo.index.overrides = {}
      /\ memo.schema # NoSchema /\ Patchable(memo.index, n.paths)
  BY DEF ApplyPatch, NothingToDo, MustRebuild
<1>4. PatchInv'
  <2>1. n.paths \subseteq Path
    BY <1>1, NoticePaths
  <2>2. memo.schema \in Schema
    BY <1>1, <1>3 DEF GateOK, Resolved
  <2>3. job'.index = Patch(memo.index, disk, n.paths, memo.schema, unread)
    BY <1>1
  <2>4. job'.for.notice = n
    BY <1>1
  <2>5. PICK d \in Disk : d = disk
    BY DEF DiskOK
  <2>6. \A p \in Path : StillRead(d, p)'
    BY <1>1, <2>5 DEF StillRead, CohInv, StampInv, OrderInv, diskVars
  <2>7. job'.index = Patch(memo'.index, d, job'.for.notice.paths, memo'.schema, unread)
    BY <1>1, <2>3, <2>4, <2>5
  <2>8. /\ job'.for.notice.kind = "apply" /\ job'.for.notice.paths \subseteq Path
        /\ memo'.index.overrides = {} /\ memo'.schema \in Schema
        /\ Patchable(memo.index, job.for.notice.paths)'
    BY <1>1, <1>3, <2>1, <2>2, <2>4 DEF Patchable
  <2> QED  BY <2>6, <2>7, <2>8 DEF PatchInv
<1>5. \A p \in Path : Settled(p)' <=> Settled(p)
  BY <1>1 DEF Settled, Dropping
<1>6. StampInv' /\ SchemaInv' /\ PendingInv' /\ BuildInv'
  BY <1>1, <1>2 DEF CohInv, StampInv, SchemaInv, PendingInv, BuildInv, diskVars
<1>7. OverInv'
  BY <1>1, <1>2 DEF CohInv, OverInv, diskVars, Idle
<1>8. SnapInv'
  BY <1>1, <1>2, FlushedSnap DEF Flushed
<1>9. MemoInv'
  BY <1>1, <1>2, <1>5, SameVouched
     DEF CohInv, MemoInv, TrueOf, Listed, Shown, Plain, Fresh, diskVars
<1>10. FoldInv'
  BY <1>1, <1>2, <1>5 DEF CohInv, FoldInv, WalkedFrom, Fresh, diskVars
<1> QED  BY <1>4, <1>6, <1>7, <1>8, <1>9, <1>10 DEF CohInv

\* The patched index is true of its files, and says of the others what it said
LEMMA FinishPatchCoh ==
  ASSUME TypeOK, CohInv, FinishPatch
  PROVE  CohInv'
<1> USE TypeParts
<1> DEFINE n == job.for.notice
           ix == memo.index
           c == job.index
           manifest == PatchedManifest
           b == PatchedRaced
<1>1. /\ Patching /\ memo \in Resolved /\ memo # NoMemo /\ job \in PatchJob /\ ~Building
      /\ memo.manifest \in Manifest
  BY JobType DEF FinishPatch, Patching, Building, Resolved
<1>2. /\ manifest.schema = memo.manifest.schema
      /\ \A p \in Path : manifest.files[p] = IF p \in n.paths THEN stamp[p] ELSE memo.manifest.files[p]
  BY <1>1, RestampedFiles DEF PatchedManifest
<1>3. /\ pending' = [index |-> c, manifest |-> manifest, raced |-> b]
      /\ Done(job.for.worker, n) /\ job' = NoJob
      /\ UNCHANGED <<diskVars, foreign, snap>>
  BY FinishPatchPublishes DEF foreignVars
<1>4. /\ n.kind = "apply" /\ n.paths \subseteq Path
      /\ ix.overrides = {} /\ memo.schema \in Schema /\ Patchable(ix, n.paths)
  BY <1>1 DEF CohInv, PatchInv
<1>5. PICK d \in Disk, unread \in Unreadable :
        /\ \A p \in Path : StillRead(d, p)
        /\ c = Patch(ix, d, n.paths, memo.schema, unread)
  BY <1>1 DEF CohInv, PatchInv
<1>6. job.for \in Errand /\ n \in owed[job.for.worker] /\ job.for.worker \in Worker
  <2>1. job.for \in Errand
    BY <1>1 DEF PatchJob
  <2>2. job.for # NoJob
    BY <2>1
  <2> QED  BY <1>1, <2>1, <2>2 DEF ErrandOK, Errand, Patching
<1>7. /\ memo' # NoMemo /\ memo'.manifest = manifest /\ memo'.index = c
      /\ memo'.raced = b /\ memo'.schema = memo.schema
  BY FinishPatchPublishes
<1>8. /\ Dropping' <=> Dropping
      /\ \A p \in Path : Settled(p)' /\ p \notin n.paths => Settled(p)
  BY <1>3, <1>4, <1>6, DoneSettles
<1>9. ~Building' /\ ~Patching'
  BY <1>3 DEF Building, Patching
<1>10. ix \in Index /\ disk \in Disk /\ n.paths \in SUBSET Path /\ memo.schema \in AnySchema
  BY <1>1, <1>4 DEF Resolved, DiskOK, AnySchema
<1>20. \A p \in Path : p \in b <=> IF p \in n.paths THEN job.read[p] # stamp[p] ELSE p \in memo.raced
  BY DEF PatchedRaced
<1> HIDE DEF manifest, n, c, b
<1>11. /\ \A p \in n.paths : /\ Listed(d, c, p) /\ Separate(c, p)
                             /\ ~c.degraded => Exact(d, memo.schema, c, p)
                             /\ d[p] = Absent => NothingOf(c, p)
       /\ c.overrides = {} /\ (ix.degraded => c.degraded)
  BY <1>4, <1>5, <1>10, PatchSays
<1>12. \A p \in Path \ n.paths :
         /\ Separate(c, p)
         /\ NothingOf(ix, p) => NothingOf(c, p)
         /\ Listed(disk, ix, p) => Listed(disk, c, p)
         /\ Shown(disk, schema, ix, p) => Shown(disk, schema, c, p)
         /\ Exact(disk, schema, ix, p) => Exact(disk, schema, c, p)
  BY <1>4, <1>5, <1>10, PatchKeeps
<1>13. Plain(c, manifest) => Plain(ix, memo.manifest) /\ memo.schema = schema
  BY <1>1, <1>2, <1>4, <1>11, NodeIndexAssumption DEF Plain, CohInv, SchemaInv
<1>14. ASSUME NEW p \in Path
       PROVE  VouchesFor(manifest, b, c, p) /\ (Settled(p)' => TrueOf(c, manifest, b, p))
  <2>1. CASE p \in n.paths /\ p \in b
    <3>1. Fresh(manifest, p)
      BY <1>2, <2>1 DEF Fresh
    <3> QED  BY <1>11, <2>1, <3>1 DEF VouchesFor, TrueOf
  <2>3. CASE p \in n.paths /\ p \notin b
    <3>1. manifest.files[p] = stamp[p] /\ d[p] = disk[p]
      BY <1>2, <1>5, <1>20, <2>3 DEF StillRead
    <3>2. manifest.files[p] = Gone => d[p] = Absent
      BY <3>1 DEF CohInv, StampInv
    <3>5. Listed(disk, c, p)
      <4>1. Listed(d, c, p)
        BY <1>11, <2>3
      <4> QED  BY <3>1, <4>1 DEF Listed
    <3>3. Plain(c, manifest) => Exact(disk, schema, c, p)
      <4>1. ~c.degraded => Exact(d, memo.schema, c, p)
        BY <1>11, <2>3
      <4> QED  BY <1>13, <3>1, <4>1 DEF Plain, Exact
    <3>4. Plain(c, manifest) => Shown(disk, schema, c, p)
      BY <3>3 DEF Exact, Shown, IsNode
    <3> QED  BY <1>11, <2>3, <3>2, <3>3, <3>4, <3>5 DEF VouchesFor, TrueOf
  <2>2. CASE p \notin n.paths
    <3>1. manifest.files[p] = memo.manifest.files[p] /\ (p \in b <=> p \in memo.raced)
      BY <1>2, <1>20, <2>2
    <3>2. /\ VouchesFor(memo.manifest, memo.raced, ix, p)
          /\ Settled(p)' => TrueOf(ix, memo.manifest, memo.raced, p)
      BY <1>1, <1>8, <2>2 DEF CohInv, MemoInv, Vouches
    <3> QED  BY <1>12, <1>13, <2>2, <3>1, <3>2 DEF VouchesFor, TrueOf, Fresh
  <2> QED  BY <2>1, <2>2, <2>3
<1>15. MemoInv'
  <2>1. Vouches(manifest, b, c)
    BY <1>14 DEF Vouches
  <2>2. Vouches(memo.manifest, memo.raced, memo.index)'
    <3>1. \A m, r, i : Vouches(m, r, i) => Vouches(m, r, i)'
      BY <1>3, SameVouched
    <3> QED  BY <1>7, <2>1, <3>1
  <2>3. \A p \in Path : Settled(p)' => TrueOf(memo.index, memo.manifest, memo.raced, p)'
    BY <1>3, <1>7, <1>14 DEF TrueOf, Listed, Shown, Plain, Fresh, diskVars
  <2> QED  BY <2>2, <2>3 DEF MemoInv
<1>16. Dropping \/ over = {}
  BY <1>1, <1>4 DEF CohInv, OverInv
<1>17. OverInv' /\ FoldInv'
  BY <1>3, <1>7, <1>8, <1>9, <1>11, <1>16 DEF CohInv, OverInv, FoldInv, diskVars
<1>18. StampInv' /\ SchemaInv' /\ PendingInv' /\ BuildInv' /\ PatchInv'
  <2>1. StampInv'
    BY <1>3, SameVouched DEF CohInv
  <2>2. SchemaInv'
    BY <1>1, <1>2, <1>3, <1>7, <1>8, <1>9 DEF CohInv, SchemaInv, diskVars
  <2>3. PendingInv'
    BY <1>3, <1>7 DEF PendingInv
  <2> QED  BY <1>9, <2>1, <2>2, <2>3 DEF BuildInv, PatchInv
<1>19. SnapInv'
  <2> SUFFICES ASSUME snap # NoSnap PROVE SnapInv'
    BY <1>3 DEF SnapInv
  <2>1. ~snap.index.degraded /\ Vouches(snap.manifest, snap.raced, snap.index)'
    BY <1>3, SameVouched DEF CohInv, SnapInv
  <2>2. ASSUME NEW p \in Path, snap.manifest.files[p] = stamp[p], stamp[p] # Gone
        PROVE  manifest.files[p] = stamp[p]
    BY <1>1, <1>2, <2>2 DEF CohInv, SnapInv, Fresh
  <2>3. \A p \in Path : Fresh(snap.manifest, p)' /\ stamp'[p] # Gone => Fresh(memo.manifest, p)'
    BY <1>3, <1>7, <2>2 DEF Fresh, diskVars
  <2> QED  BY <1>3, <1>9, <2>1, <2>3 DEF SnapInv
<1> QED  BY <1>15, <1>17, <1>18, <1>19 DEF CohInv

\* A sweep finds every file the memo's manifest does not vouch for
LEMMA RefreshSettles ==
  ASSUME TypeOK, NEW w \in Worker, Refresh(w)
  PROVE  /\ \A v \in Worker : owed[v] \subseteq owed'[v]
         /\ \A p \in Path : (Settled(p)' \/ (Building /\ SettledSoon(p)')) => Fresh(memo.manifest, p)
<1> USE TypeParts
<1> DEFINE drift == Drifted(memo.manifest, Stat)
           moved == {p \in drift : memo.manifest.files[p] = Gone \/ stamp[p] = Gone}
           sweep == {Apply(moved, TRUE) : m \in moved} \cup {Apply({p}, FALSE) : p \in drift \ moved}
           ns == IF SchemaDrifted(memo.manifest, Stat) THEN {Invalidate} ELSE sweep
<1>1. Owes(w, ns) /\ Idle(w) /\ job' = job
  BY DEF Refresh, gateVars
<1>2. drift = {p \in Path : memo.manifest.files[p] # stamp[p]} /\ moved \subseteq drift
  BY DEF Drifted, Stat
<1>3. \A p \in drift : \E n \in sweep : n.kind = "apply" /\ p \in n.paths
  <2> SUFFICES ASSUME NEW p \in drift PROVE \E n \in sweep : n.kind = "apply" /\ p \in n.paths
    OBVIOUS
  <2>1. CASE p \in moved
    <3>1. Apply(moved, TRUE) \in sweep /\ Apply(moved, TRUE).kind = "apply" /\ Apply(moved, TRUE).paths = moved
      BY <2>1 DEF Apply
    <3> QED  BY <2>1, <3>1
  <2>2. CASE p \notin moved
    <3>1. Apply({p}, FALSE) \in sweep /\ Apply({p}, FALSE).kind = "apply" /\ p \in Apply({p}, FALSE).paths
      BY <2>2 DEF Apply
    <3> QED  BY <3>1
  <2> QED  BY <2>1, <2>2
<1>4. ns \in SUBSET Notice
  <2>1. {Invalidate} \subseteq Notice
    BY DEF Invalidate, Notice
  <2>2. Apply(moved, TRUE) \in Notice /\ \A p \in drift : Apply({p}, FALSE) \in Notice
    BY <1>2 DEF Apply, Notice
  <2> QED  BY <2>1, <2>2
<1>5. ns = {Invalidate} \/ ns = sweep
  OBVIOUS
<1> HIDE DEF drift, sweep, ns
<1>6. /\ \A v \in Worker : owed[v] \subseteq owed'[v]
      /\ \A p \in Path : (\E n \in ns : n.kind = "apply" /\ p \in n.paths) =>
            ~Settled(p)' /\ (Building => ~SettledSoon(p)')
      /\ Invalidate \in ns => Dropping'
  BY <1>1, <1>4, OwesUnsettles
<1>7. \A p \in drift : ~Settled(p)' /\ (Building => ~SettledSoon(p)')
  BY <1>2, <1>3, <1>5, <1>6 DEF Settled, SettledSoon
<1> QED  BY <1>2, <1>6, <1>7 DEF Fresh

\* What a sweep clears is vouched for
LEMMA RefreshCoh ==
  ASSUME TypeOK, OrderInv, CohInv, NEW w \in Worker, Refresh(w)
  PROVE  CohInv'
<1> USE TypeParts
<1>1. /\ memo # NoMemo /\ foreign' = {}
      /\ UNCHANGED <<diskVars, memo, pending, snap, job>>
  BY DEF Refresh, gateVars
<1>2. /\ \A v \in Worker : owed[v] \subseteq owed'[v]
      /\ \A p \in Path : (Settled(p)' \/ (Building /\ SettledSoon(p)')) => Fresh(memo.manifest, p)
  BY RefreshSettles
<1>3. (~Dropping' => ~Dropping) /\ (Building' <=> Building) /\ (Patching' <=> Patching)
  BY <1>1, <1>2 DEF Dropping, Building, Patching
<1>4. StampInv' /\ SchemaInv' /\ PendingInv' /\ BuildInv' /\ PatchInv'
  BY <1>1, <1>3
     DEF CohInv, StampInv, SchemaInv, PendingInv, BuildInv, PatchInv, StillRead, Fresh, diskVars
<1>5. OverInv'
  <2>1. \A v \in Worker : ~Idle(v) => ~Idle(v)'
    BY <1>2 DEF Idle
  <2> QED  BY <1>1, <1>3, <2>1 DEF CohInv, OverInv, diskVars
<1>6. /\ Vouches(memo.manifest, memo.raced, memo.index)
      /\ Vouches(memo.manifest, memo.raced, memo.index)'
  <2>1. \A m, b, i : Vouches(m, b, i) => Vouches(m, b, i)'
    BY <1>1, SameVouched
  <2> QED  BY <1>1, <2>1 DEF CohInv, MemoInv
<1>7. MemoInv'
  <2>1. ASSUME NEW p \in Path, Settled(p)'
        PROVE  TrueOf(memo.index, memo.manifest, memo.raced, p)
    <3>1. Fresh(memo.manifest, p) /\ VouchesFor(memo.manifest, memo.raced, memo.index, p)
      BY <1>2, <1>6, <2>1 DEF Vouches
    <3> QED  BY <3>1 DEF VouchesFor, TrueOf, Exact, Shown, IsNode
  <2>2. \A p \in Path : Settled(p)' => TrueOf(memo.index, memo.manifest, memo.raced, p)'
    BY <1>1, <2>1 DEF TrueOf, Listed, Shown, Plain, Fresh, diskVars
  <2> QED  BY <1>6, <2>2 DEF MemoInv
<1>8. FoldInv'
  <2> SUFFICES ASSUME ~Building, ~Dropping', over # {}, ~memo.index.degraded
               PROVE  \E d \in Disk : WalkedFrom(d)'
    BY <1>1, <1>3 DEF FoldInv, diskVars
  <2>1. PICK d \in Disk : WalkedFrom(d)
    BY <1>1, <1>3 DEF CohInv, FoldInv
  <2>2. WalkedFrom(d)'
    BY <1>1, <1>2, <2>1 DEF WalkedFrom, Fresh, diskVars
  <2> QED  BY <2>2
<1>9. SnapInv'
  <2> SUFFICES ASSUME snap # NoSnap PROVE SnapInv'
    BY <1>1 DEF SnapInv
  <2>1. ~snap.index.degraded /\ Vouches(snap.manifest, snap.raced, snap.index)'
    BY <1>1, SameVouched DEF CohInv, SnapInv
  <2>2. ASSUME NEW p \in Path
        PROVE  /\ Fresh(snap.manifest, p) /\ stamp[p] # Gone => Fresh(memo.manifest, p)
               /\ Building /\ snap.manifest.files[p] = job.manifest.files[p] /\ job.manifest.files[p] # Gone
                    => memo.manifest.files[p] = job.manifest.files[p]
    BY <1>1 DEF CohInv, SnapInv
  <2>3. ASSUME Building, NEW p \in Path, SettledSoon(p)',
               snap.manifest.files[p] = job.manifest.files[p]
        PROVE  Fresh(job.manifest, p)
    <3>1. memo.manifest.files[p] = stamp[p]
      BY <1>2, <2>3 DEF Fresh
    <3>3. CASE stamp[p] = Gone
      BY <2>2, <2>3, <3>1, <3>3 DEF Fresh
    <3>4. CASE stamp[p] # Gone
      BY <1>1, <2>3, <3>1, <3>4 DEF CohInv, BuildInv, Fresh
    <3> QED  BY <3>3, <3>4
  <2> QED  BY <1>1, <1>3, <2>1, <2>2, <2>3 DEF SnapInv, Fresh, diskVars
<1> QED  BY <1>4, <1>5, <1>7, <1>8, <1>9 DEF CohInv

\* What overrides a build carries: those of the snapshot it starts from, or,
\* where the chain had some when it was fingerprinted, those there are
LEMMA BuiltOverrides ==
  ASSUME TypeOK, CohInv, Building, NEW unread
  PROVE  LET ix == BuiltIndex(unread) IN
         /\ ix.overrides \subseteq OverTarget
         /\ job.folds => ix = Cold(disk, SchemaRead(unread), over, unread) /\ ix.overrides = over
<1> DEFINE ix == BuiltIndex(unread)
           drift == Drifted(snap.manifest, job.manifest)
<1>1. snap # NoSnap => snap.index.overrides \subseteq OverTarget
  BY DEF CohInv, OverInv
<1>2. over \subseteq OverTarget
  BY DEF CohInv, OverInv
<1>3. CASE FreshSnapshot
  BY <1>1, <1>3 DEF BuiltIndex, FreshSnapshot
<1>4. CASE ~FreshSnapshot /\ PatchedSnapshot(unread)
  <2>1. /\ ix = Patch(snap.index, disk, drift, schema, unread)
        /\ snap # NoSnap /\ ~job.folds
    BY <1>4 DEF BuiltIndex, PatchedSnapshot
  <2>2. ix.overrides = snap.index.overrides
    BY <2>1 DEF Patch, Collect, DropUnits
  <2> QED  BY <1>1, <2>1, <2>2
<1>5. CASE ~FreshSnapshot /\ ~PatchedSnapshot(unread)
  <2>1. ix = Cold(disk, SchemaRead(unread), IF job.folds THEN over ELSE {}, unread)
    BY <1>5 DEF BuiltIndex
  <2>2. ix.overrides = IF job.folds THEN over ELSE {}
    BY <2>1 DEF Cold, FoldOverrides
  <2> QED  BY <1>2, <2>1, <2>2
<1> QED  BY <1>3, <1>4, <1>5

\* What a build makes of the snapshot and the files is true of them
LEMMA BuiltSays ==
  ASSUME TypeOK, OrderInv, CohInv, Building, NEW unread, NEW p \in Path
  PROVE  LET ix == BuiltIndex(unread) IN
         /\ VouchesFor(job.manifest, BuiltRaced(unread), ix, p)
         /\ SettledSoon(p) => TrueOf(ix, job.manifest, BuiltRaced(unread), p)
<1> USE TypeParts
<1> DEFINE ix == BuiltIndex(unread)
           drift == Drifted(snap.manifest, job.manifest)
           b == BuiltRaced(unread)
<1>1. /\ p \notin Created => (job.manifest.files[p] = Gone => disk[p] = Absent)
      /\ disk \in Disk /\ schema \in AnySchema
  BY DEF CohInv, StampInv, Created, DiskOK, AnySchema
<1>2. snap # NoSnap => /\ snap.index \in Index
                       /\ VouchesFor(snap.manifest, snap.raced, snap.index, p)
                       /\ SettledSoon(p) /\ snap.manifest.files[p] = job.manifest.files[p] => Fresh(job.manifest, p)
  BY DEF CohInv, SnapInv, Vouches, GateOK, Built
<1>3. CASE FreshSnapshot
  <2>1. /\ ix = snap.index /\ snap # NoSnap /\ snap.manifest = job.manifest /\ ~job.folds
        /\ b = snap.raced
    BY <1>3 DEF BuiltIndex, BuiltRaced, FreshSnapshot
  <2>2. Fresh(job.manifest, p) => TrueOf(snap.index, job.manifest, snap.raced, p)
    BY <1>2, <2>1 DEF VouchesFor, TrueOf, Exact, Shown, IsNode
  <2> HIDE DEF ix, b
  <2> QED  BY <1>2, <2>1, <2>2 DEF ix, b
<1>4. CASE ~FreshSnapshot /\ PatchedSnapshot(unread)
  <2>1. /\ ix = Patch(snap.index, disk, drift, schema, unread)
        /\ snap # NoSnap /\ ~job.folds /\ Patchable(snap.index, drift)
        /\ snap.manifest.schema = job.manifest.schema
        /\ drift \in SUBSET Path /\ (p \notin drift => snap.manifest.files[p] = job.manifest.files[p])
        /\ b = (snap.raced \ drift) \cup (Created \cap drift)
    BY <1>4 DEF BuiltIndex, BuiltRaced, PatchedSnapshot, SchemaDrifted, Drifted
  <2> HIDE DEF ix, drift, b
  <2>2. ix.overrides = snap.index.overrides /\ (snap.index.degraded => ix.degraded)
    BY <1>1, <1>2, <2>1, PatchSays
  <2>3. CASE p \in drift
    <3>1. /\ Listed(disk, ix, p) /\ Separate(ix, p)
          /\ ~ix.degraded => Exact(disk, schema, ix, p)
          /\ disk[p] = Absent => NothingOf(ix, p)
      BY <1>1, <1>2, <2>1, <2>3, PatchSays
    <3>2. p \in b <=> p \in Created
      BY <2>1, <2>3
    <3>3. VouchesFor(job.manifest, b, ix, p) /\ TrueOf(ix, job.manifest, b, p)
      BY <1>1, <3>1, <3>2 DEF VouchesFor, TrueOf, Plain, Exact, Shown, IsNode
    <3> QED  BY <3>3 DEF ix, b
  <2>4. CASE p \notin drift
    <3>1. /\ Separate(ix, p)
          /\ NothingOf(snap.index, p) => NothingOf(ix, p)
          /\ Listed(disk, snap.index, p) => Listed(disk, ix, p)
          /\ Exact(disk, schema, snap.index, p) => Exact(disk, schema, ix, p)
      BY <1>1, <1>2, <2>1, <2>4, PatchKeeps
    <3>2. Plain(ix, job.manifest) => Plain(snap.index, snap.manifest)
      BY <2>1, <2>2 DEF Plain
    <3>5. p \in b <=> p \in snap.raced
      BY <2>1, <2>4
    <3>3. VouchesFor(job.manifest, b, ix, p)
      BY <1>2, <2>1, <2>4, <3>1, <3>2, <3>5 DEF VouchesFor, Fresh
    <3>4. Fresh(job.manifest, p) => TrueOf(ix, job.manifest, b, p)
      BY <3>3 DEF VouchesFor, TrueOf, Exact, Shown, IsNode
    <3> QED  BY <1>2, <2>1, <2>2, <2>4, <3>3, <3>4 DEF ix, b
  <2> QED  BY <2>3, <2>4
<1>5. CASE ~FreshSnapshot /\ ~PatchedSnapshot(unread)
  <2> DEFINE targets == IF job.folds THEN over ELSE {}
  <2>1. ix = Cold(disk, SchemaRead(unread), targets, unread)
    BY <1>5 DEF BuiltIndex
  <2>2. targets \subseteq OverTarget /\ targets \in SUBSET Id
    BY DEF CohInv, OverInv
  <2>3. SchemaRead(unread) \in AnySchema
    BY SchemaReadType
  <2>7. b = Created
    BY <1>5 DEF BuiltRaced
  <2> HIDE DEF ix, targets, b
  <2>4. /\ Listed(disk, ix, p) /\ Separate(ix, p)
        /\ ~ix.degraded /\ targets = {} => Exact(disk, SchemaRead(unread), ix, p)
        /\ disk[p] = Absent => NothingOf(ix, p)
        /\ ix.overrides = targets
    BY <1>1, <2>1, <2>2, <2>3, ColdSays
  <2>5. ~ix.degraded => SchemaRead(unread) = schema
    BY <1>1, <2>1, <2>2, <2>3, ColdDegraded DEF SchemaRead
  <2>6. VouchesFor(job.manifest, b, ix, p) /\ TrueOf(ix, job.manifest, b, p)
    BY <1>1, <2>4, <2>5, <2>7 DEF VouchesFor, TrueOf, Plain, Exact, Shown, IsNode
  <2> QED  BY <2>6 DEF ix, b
<1> QED  BY <1>3, <1>4, <1>5

\* A finished build is true of what it vouches for, and the snapshot with it
LEMMA FinishBuildCoh ==
  ASSUME TypeOK, OrderInv, CohInv, FinishBuild
  PROVE  CohInv'
<1> USE TypeParts
<1>1. PICK unread \in Unreadable : Publishes(unread)
  BY DEF FinishBuild, Publishes, BuiltBy
<1> DEFINE ix == BuiltIndex(unread)
           m == job.manifest
           b == BuiltRaced(unread)
<1>2. Building /\ job' = NoJob /\ ~Building' /\ ~Patching' /\ UNCHANGED <<diskVars, foreign>>
  BY DEF FinishBuild, Building, Patching, foreignVars
<1>3. ix \in Index /\ m \in Manifest /\ SchemaRead(unread) \in {schema, NoSchema}
  BY <1>2, BuiltIndexType, HeldManifests DEF SchemaRead
<1>4. \A p \in Path :
        /\ VouchesFor(m, b, ix, p)
        /\ SettledSoon(p) => TrueOf(ix, m, b, p)
  BY <1>2, BuiltSays
<1>5. /\ ix.overrides \subseteq OverTarget
      /\ job.folds => ix = Cold(disk, SchemaRead(unread), over, unread) /\ ix.overrides = over
  BY <1>2, BuiltOverrides
<1>6. memo' = [index |-> ix, manifest |-> m, raced |-> b, schema |-> SchemaRead(unread)]
  BY <1>1 DEF Publishes
<1>7. snap' = snap \/ (~ix.degraded /\ snap' = [index |-> ix, manifest |-> m, raced |-> b])
  BY <1>1 DEF Publishes, Persisted, BuiltBy
<1>8. pending' = NoFlush \/ pending' = [index |-> ix, manifest |-> m, raced |-> b]
  <2>1. job.for = NoJob => pending = NoFlush
    BY <1>2 DEF OrderInv, CohInv, PendingInv
  <2> QED  BY <1>1, <2>1 DEF Publishes, Defer, BuiltBy
<1>9. /\ Dropping' <=> Dropping
      /\ \A p \in Path : Settled(p)' => SettledSoon(p)
  <2>1. CASE job.for = NoJob
    <3>1. owed' = owed /\ foreign' = foreign
      BY <1>1, <1>2, <2>1 DEF Publishes
    <3> QED  BY <3>1 DEF Settled, SettledSoon, Dropping
  <2>2. CASE job.for # NoJob
    <3>1. job.for \in Errand /\ job.for.notice \in owed[job.for.worker] /\ job.for.notice.kind = "apply"
      BY <1>2, <2>2, JobType DEF BuildJob, ErrandOK, Building, CohInv, BuildInv
    <3>2. Done(job.for.worker, job.for.notice) /\ job.for.worker \in Worker
          /\ job.for = [worker |-> job.for.worker, notice |-> job.for.notice]
      BY <1>1, <2>2, <3>1 DEF Publishes, Errand
    <3> QED  BY <1>2, <3>1, <3>2, DoneSettles
  <2> QED  BY <2>1, <2>2
<1>19. memo' # NoMemo
  BY <1>1, <1>2, PublishedType
<1>20. job.folds => b = Created
  BY DEF BuiltRaced, FreshSnapshot, PatchedSnapshot
<1> HIDE DEF ix, m, b
<1>10. /\ memo' # NoMemo /\ memo'.index = ix /\ memo'.manifest = m /\ memo'.raced = b
       /\ memo'.schema \in {schema, NoSchema}
  BY <1>3, <1>6, <1>19
<1>11. Vouches(m, b, ix) /\ Vouches(memo.manifest, memo.raced, memo.index)'
  <2>1. Vouches(m, b, ix)
    BY <1>4 DEF Vouches
  <2>2. \A m2, r, i : Vouches(m2, r, i) => Vouches(m2, r, i)'
    BY <1>2, SameVouched
  <2> QED  BY <1>10, <2>1, <2>2
<1>12. MemoInv'
  <2>1. \A p \in Path : Settled(p)' => TrueOf(memo.index, memo.manifest, memo.raced, p)'
    BY <1>2, <1>4, <1>9, <1>10 DEF TrueOf, Listed, Shown, Plain, Fresh, diskVars
  <2> QED  BY <1>11, <2>1 DEF MemoInv
<1>13. ~Dropping' /\ over' # {} => job.folds
  BY <1>2, <1>9 DEF CohInv, OverInv, diskVars
<1>14. snap' # NoSnap => snap'.index.overrides \subseteq OverTarget
  BY <1>5, <1>7 DEF CohInv, OverInv
<1>15. OverInv'
  BY <1>2, <1>5, <1>10, <1>13, <1>14 DEF CohInv, OverInv, diskVars
<1>16. StampInv' /\ SchemaInv' /\ PendingInv' /\ BuildInv' /\ PatchInv'
  <2>1. StampInv'
    BY <1>2, SameVouched DEF CohInv
  <2>2. SchemaInv'
    BY <1>2, <1>9, <1>10 DEF CohInv, SchemaInv, diskVars, m
  <2>3. PendingInv'
    BY <1>8, <1>10 DEF PendingInv
  <2> QED  BY <1>2, <2>1, <2>2, <2>3 DEF BuildInv, PatchInv
<1>17. FoldInv'
  <2> SUFFICES ASSUME ~Dropping', over' # {}, ~ix.degraded
               PROVE  \E d \in Disk : WalkedFrom(d)'
    BY <1>10 DEF FoldInv
  <2>1. ix = Cold(disk, SchemaRead(unread), over, unread) /\ ix.overrides = over
    BY <1>5, <1>13
  <2>2. SchemaRead(unread) = schema
    BY <2>1, SchemaReadType, ColdDegraded DEF SchemaRead, DiskOK
  <2>3. ix = Cold(disk, schema, over, {})
    BY <2>1, <2>2, ColdWhole DEF DiskOK
  <2>4. \A p \in Path : p \notin b /\ m.files[p] = Gone => disk[p] = Absent
    BY <1>2, <1>13, <1>20 DEF CohInv, StampInv, Created, m
  <2>5. WalkedFrom(disk)'
    BY <1>2, <1>10, <2>1, <2>3, <2>4 DEF WalkedFrom, diskVars
  <2>6. disk' \in Disk
    BY <1>2 DEF DiskOK, diskVars
  <2> QED  BY <2>5, <2>6
<1>18. SnapInv'
  <2>1. CASE snap' = snap /\ snap # NoSnap
    <3>1. ~snap.index.degraded /\ Vouches(snap.manifest, snap.raced, snap.index)'
      BY <1>2, <2>1, SameVouched DEF CohInv, SnapInv
    <3>2. ASSUME NEW p \in Path, snap.manifest.files[p] = stamp[p], stamp[p] # Gone
          PROVE  m.files[p] = stamp[p]
      BY <1>2, <2>1, <3>2 DEF CohInv, BuildInv, Fresh, m
    <3>3. \A p \in Path : Fresh(snap.manifest, p)' /\ stamp'[p] # Gone => Fresh(memo.manifest, p)'
      BY <1>2, <1>10, <2>1, <3>2 DEF Fresh, diskVars
    <3> QED  BY <1>2, <2>1, <3>1, <3>3 DEF SnapInv
  <2>2. CASE ~ix.degraded /\ snap' = [index |-> ix, manifest |-> m, raced |-> b]
    <3>1. snap'.index = ix /\ snap'.manifest = m /\ snap'.raced = b
      BY <2>2
    <3>2. Vouches(snap.manifest, snap.raced, snap.index)'
      BY <1>10, <1>11, <3>1
    <3>3. \A p \in Path : Fresh(snap.manifest, p)' => Fresh(memo.manifest, p)'
      BY <1>10, <3>1 DEF Fresh
    <3> QED  BY <1>2, <2>2, <3>1, <3>2, <3>3 DEF SnapInv
  <2> QED  BY <1>7, <2>1, <2>2 DEF SnapInv
<1> QED  BY <1>12, <1>15, <1>16, <1>17, <1>18 DEF CohInv

\* CohInv holds when a process starts
LEMMA CohInit ==
  ASSUME Init
  PROVE  CohInv
<1>1. ~Building /\ ~Patching /\ memo = NoMemo /\ snap = NoSnap /\ pending = NoFlush /\ over = {} /\ edits = 1
  BY DEF Init, Building, Patching
<1>2. StampInv
  BY DEF Init, StampInv, Gone
<1> QED
  BY <1>1, <1>2
     DEF CohInv, OverInv, SchemaInv, PendingInv, SnapInv, BuildInv, PatchInv, MemoInv, FoldInv

\* Every step of the gate leaves it
LEMMA GateStepCoh ==
  ASSUME TypeOK, OrderInv, CohInv, GateStep
  PROVE  CohInv'
<1> USE TypeParts
<1>1. CASE ReadMiss
  <2>1. /\ StartBuild(NoJob) /\ job = NoJob /\ memo = NoMemo /\ pending' = NoFlush
        /\ UNCHANGED <<diskVars, memo, owed>>
        /\ snap' \in IF pending = NoFlush THEN {snap}
                     ELSE Persisted(snap, pending)
    BY <1>1 DEF ReadMiss, FlushPending
  <2>2. snap' = snap /\ pending = NoFlush
    BY <2>1, FlushIsHeld DEF CohInv, PendingInv
  <2> QED  BY <2>1, <2>2, StartBuildCoh
<1>2. CASE ReadHit
  <2>1. Flushed /\ pending' = NoFlush /\ job = NoJob /\ UNCHANGED <<diskVars, foreign, memo, job, owed>>
    BY <1>2, FlushIsHeld DEF ReadHit, FlushPending, CohInv, foreignVars
  <2> QED  BY <2>1, SnapshotOnlyCoh
<1>3. ASSUME OpenProject \/ \E w \in Worker : DropMemo(w)
      PROVE  CohInv'
  <2>1. /\ Flushed /\ pending' = NoFlush /\ job = NoJob /\ memo' = NoMemo
        /\ UNCHANGED <<diskVars, job>>
    BY <1>3, FlushIsHeld DEF OpenProject, DropMemo, FlushPending, CohInv
  <2> QED  BY <2>1, EmptyGateCoh DEF Building
<1>4. ASSUME NEW w \in Worker, NEW n \in owed[w], NEW unread \in Unreadable,
             ApplyRebuild(w, n, unread)
      PROVE  CohInv'
  <2> DEFINE for == [worker |-> w, notice |-> n]
  <2>1. for \in Errand /\ for.notice.kind = "apply"
    BY <1>4 DEF OwedOK, Errand, ApplyRebuild, MayApply
  <2>2. /\ StartBuild(for) /\ job = NoJob
        /\ UNCHANGED <<diskVars, memo, snap, owed>> /\ pending' = pending
    BY <1>4 DEF ApplyRebuild, MayApply
  <2> HIDE DEF for
  <2> QED  BY <2>1, <2>2, StartBuildCoh
<1>5. ASSUME NEW w \in Worker, NEW n \in owed[w], NEW unread \in Unreadable,
             ApplyNothing(w, n, unread) \/ ApplyPatch(w, n, unread)
      PROVE  CohInv'
  BY <1>5, ApplyNothingCoh, ApplyPatchCoh
<1>6. CASE FinishBuild \/ FinishPatch
  BY <1>6, FinishBuildCoh, FinishPatchCoh
<1>7. ASSUME NEW w \in Worker, Refresh(w)
      PROVE  CohInv'
  BY <1>7, RefreshCoh
<1> QED  BY <1>1, <1>2, <1>3, <1>4, <1>5, <1>6, <1>7 DEF GateStep

\* ... and so does the process going away
LEMMA ProcessStepCoh ==
  ASSUME TypeOK, CohInv, ProcessStep
  PROVE  CohInv'
<1>1. CASE Shutdown
  <2>1. /\ Flushed /\ pending' = NoFlush /\ job = NoJob /\ memo' = NoMemo /\ job' = NoJob
        /\ UNCHANGED diskVars
    BY <1>1, FlushIsHeld DEF Shutdown, Restarted, CohInv
  <2> QED  BY <2>1, EmptyGateCoh DEF Building
<1>2. CASE Crash
  BY <1>2, CrashCoh DEF Crash, Restarted
<1>3. CASE LoseSnapshot
  <2>1. /\ Flushed /\ pending' = pending /\ job = NoJob
        /\ UNCHANGED <<diskVars, foreign, memo, job, owed>>
    BY <1>3 DEF LoseSnapshot, Flushed, foreignVars
  <2> QED  BY <2>1, SnapshotOnlyCoh
<1> QED  BY <1>1, <1>2, <1>3 DEF ProcessStep

\* CohInv is inductive relative to TypeOK and OrderInv
LEMMA CohStep ==
  ASSUME TypeOK, OrderInv, CohInv, [Next]_vars
  PROVE  CohInv'
<1>1. CASE UNCHANGED vars
  <2>1. /\ UNCHANGED <<diskVars, foreign, memo, pending, snap, job, owed>>
    BY <1>1 DEF vars, gateVars, foreignVars
  <2>2. (Building' <=> Building) /\ (Patching' <=> Patching) /\ (Dropping' <=> Dropping)
    BY <2>1 DEF Building, Patching, Dropping
  <2>3. \A p \in Path : (Settled(p)' <=> Settled(p)) /\ (SettledSoon(p)' <=> SettledSoon(p))
    BY <2>1 DEF Settled, SettledSoon, Dropping
  <2>4. StampInv' /\ OverInv' /\ SchemaInv' /\ PendingInv' /\ BuildInv' /\ PatchInv'
    BY <2>1, <2>2
       DEF CohInv, StampInv, OverInv, SchemaInv, PendingInv, BuildInv, PatchInv, StillRead,
           Fresh, diskVars, Idle
  <2>5. \A m, b, ix : Vouches(m, b, ix) => Vouches(m, b, ix)'
    BY <2>1, SameVouched
  <2>6. SnapInv'
    BY <2>1, <2>2, <2>3, <2>5 DEF CohInv, SnapInv, Fresh, diskVars
  <2>7. MemoInv'
    BY <2>1, <2>2, <2>3, <2>5 DEF CohInv, MemoInv, TrueOf, Listed, Shown, Plain, Fresh, diskVars
  <2>8. FoldInv'
    BY <2>1, <2>2, <2>3 DEF CohInv, FoldInv, WalkedFrom, Fresh, diskVars
  <2> QED  BY <2>4, <2>6, <2>7, <2>8 DEF CohInv
<1> QED  BY <1>1, DiskStepCoh, GateStepCoh, ProcessStepCoh DEF Next

\* When all is quiet every file is settled
LEMMA QuietSettled ==
  ASSUME CohInv, Quiet
  PROVE  /\ memo # NoMemo /\ ~Building /\ ~Dropping
         /\ \A p \in Path : Settled(p)
         /\ \A p \in Path : /\ Separate(memo.index, p)
                            /\ TrueOf(memo.index, memo.manifest, memo.raced, p)
<1>1. memo # NoMemo /\ ~Building /\ ~Dropping /\ \A p \in Path : Settled(p)
  BY DEF Quiet, Idle, Dropping, Settled, Building
<1> QED  BY <1>1 DEF CohInv, MemoInv, Vouches, VouchesFor

\* CohInv implies what the runs check
LEMMA CohImplies ==
  ASSUME TypeOK, CohInv
  PROVE  CoherentWhenQuiet /\ SnapshotTrue /\ PurgeIsSafe
<1> USE TypeParts
<1>1. disk \in Disk /\ schema \in Schema /\ (NoDuplicates <=> Unique(disk))
  BY DEF DiskOK, NoDuplicates, Unique
<1>2. PurgeIsSafe
  <2> SUFFICES ASSUME Quiet, memo.index.unparsed = {}, NEW p \in Path \ Blind(memo)
               PROVE  /\ disk[p] # Malformed
                      /\ IsNode(disk[p]) => disk[p].id \in KnownIds(memo.index)
    BY DEF PurgeIsSafe
  <2>1. Listed(disk, memo.index, p)
    BY QuietSettled DEF TrueOf, Blind, Fresh
  <2>2. ASSUME IsNode(disk[p]) PROVE disk[p].id \in KnownIds(memo.index)
    <3>1. disk[p].id \in Id
      BY <1>1, <2>2, NodeContent DEF Node
    <3>2. PICK q \in Path : memo.index.entry[q] # Absent /\ memo.index.entry[q].id = disk[p].id
      BY <2>1, <2>2 DEF Listed
    <3>3. q \in Candidates(memo.index, disk[p].id)
      BY <3>2 DEF Candidates
    <3> QED  BY <3>1, <3>3 DEF KnownIds
  <2> QED  BY <2>1, <2>2 DEF Listed
<1>3. SnapshotTrue
  <2> SUFFICES ASSUME snap # NoSnap, snap.manifest = Stat, NoDuplicates, OverTarget = {},
                      Blind(snap) = {}
               PROVE  snap.index = OnDisk
    BY DEF SnapshotTrue
  <2>1. snap.index \in Index /\ snap.index.overrides = {} /\ ~snap.index.degraded /\ over = {}
    BY DEF GateOK, Built, CohInv, OverInv, SnapInv
  <2>2. Plain(snap.index, snap.manifest)
    BY <2>1 DEF Plain, Stat
  <2>3. \A p \in Path : /\ VouchesFor(snap.manifest, snap.raced, snap.index, p)
                        /\ Fresh(snap.manifest, p) /\ p \notin snap.raced
    BY DEF CohInv, SnapInv, Vouches, Fresh, Stat, Blind
  <2>4. \A p \in Path : /\ Listed(disk, snap.index, p) /\ Exact(disk, schema, snap.index, p)
                        /\ Separate(snap.index, p)
    BY <2>2, <2>3 DEF VouchesFor
  <2> QED  BY <1>1, <2>1, <2>4, ExactIsCold DEF OnDisk
<1>4. CoherentWhenQuiet
  <2> SUFFICES ASSUME Quiet, NoDuplicates, over # {} \/ OverTarget = {}, ~memo.index.degraded,
                      Blind(memo) = {}
               PROVE  memo.index.entry = OnDisk.entry
    BY DEF CoherentWhenQuiet, AsCold
  <2>1. /\ memo # NoMemo /\ ~Building /\ ~Dropping
        /\ \A p \in Path : Settled(p)
        /\ \A p \in Path : /\ Separate(memo.index, p)
                           /\ TrueOf(memo.index, memo.manifest, memo.raced, p)
    BY QuietSettled
  <2>4. \A p \in Path : ~(p \in memo.raced /\ Fresh(memo.manifest, p))
    BY DEF Blind, Fresh
  <2>2. CASE over = {}
    <3>1. memo.index.overrides = {} /\ memo.manifest.schema = schemaAt
      BY <2>1, <2>2 DEF CohInv, OverInv, SchemaInv
    <3>2. \A p \in Path : /\ Listed(disk, memo.index, p) /\ Shown(disk, schema, memo.index, p)
                          /\ Separate(memo.index, p)
      BY <2>1, <2>4, <3>1 DEF TrueOf, Plain
    <3>3. memo.index \in Index
      BY <2>1 DEF GateOK, Resolved
    <3> QED  BY <1>1, <2>2, <3>2, <3>3, ShownIsWhole DEF OnDisk
  <2>3. CASE over # {}
    <3>1. PICK d \in Disk : WalkedFrom(d)
      BY <2>1, <2>3 DEF CohInv, FoldInv
    <3>2. d = disk
      BY <1>1, <2>1, <2>4, <3>1 DEF WalkedFrom, Disk
    <3>3. memo.index.overrides = over
      BY <2>1, <2>3 DEF CohInv, OverInv, Quiet
    <3> QED  BY <3>1, <3>2, <3>3 DEF WalkedFrom, OnDisk
  <2> QED  BY <2>2, <2>3
<1> QED  BY <1>2, <1>3, <1>4

\* CohInv always holds
LEMMA CohHolds == Spec => []CohInv
<1>1. Init => OrderInv /\ CohInv
  <2>1. Init => OrderInv
    BY DEF Init, OrderInv, Building, Gone
  <2> QED  BY <2>1, CohInit
<1>2. TypeOK /\ OrderInv /\ CohInv /\ [Next]_vars => OrderInv' /\ CohInv'
  BY OrderStep, CohStep
<1> QED  BY <1>1, <1>2, TypeCorrect, PTL DEF Spec

\* An index held when all is quiet shows of every file what a cold build shows:
\* whatever the interleaving of writes, notices, sweeps, rebuilds, patches, reads
\* that fail, flushes, opens and restarts, no change is skipped or misapplied,
\* unless the index is blind to a file: one rewritten in the middle of a patch of
\* it, or created during the build and deleted since, which its manifest vouches
\* for unseen.
THEOREM HeldIndexCoherent == Spec => []CoherentWhenQuiet
<1>1. TypeOK /\ CohInv => CoherentWhenQuiet
  BY CohImplies
<1> QED  BY <1>1, CohHolds, TypeCorrect, PTL

\* A snapshot that matches the files is the index a walk over them would give:
\* serving it without reading one file is sound, however it came to be written,
\* unless it is blind to a file.  So the races of a patch or a build with a writer
\* are the only way to persist what is not there.
THEOREM SnapshotServesTruth == Spec => []SnapshotTrue
<1>1. TypeOK /\ CohInv => SnapshotTrue
  BY CohImplies
<1> QED  BY <1>1, CohHolds, TypeCorrect, PTL

\* The purge of dead references drops no link to an id some file declares: where
\* the index carries no unreadable identity, it knows the id of every file it is
\* not blind to.
THEOREM PurgeKeepsLiveLinks == Spec => []PurgeIsSafe
<1>1. TypeOK /\ CohInv => PurgeIsSafe
  BY CohImplies
<1> QED  BY <1>1, CohHolds, TypeCorrect, PTL
=============================================================================
