----------------------------- MODULE NodeIndex -----------------------------
(***************************************************************************)
(* The layered node index of src/backend/app/services/project: what a      *)
(* build over a chain of layers collects (index_collect.py), which claim   *)
(* wins (node_index.py), and how a list of changed files is patched into   *)
(* an index (node_index_patch.py).  Pure operators, no state: IndexGate    *)
(* maintains such an index against a changing disk.                        *)
(*                                                                         *)
(* A file is a member of Path, a set of numbers in WALK ORDER: the order   *)
(* in which a cold build visits them, outermost layer first and sorted     *)
(* within a layer.  What the index holds of a file besides its id (kind,   *)
(* title, placement, merged_into, reference edges) is one value, its sig:  *)
(* the "index signature" of references.py.                                 *)
(***************************************************************************)
EXTENDS Naturals, FiniteSets

CONSTANTS
  Path,        \* the node files that may exist, numbered in walk order
  LayerOf,     \* the rank of each file's layer, outermost lowest
  RootLayer,   \* the rank of the open project's own layer
  PromptPath,  \* the files of the prompt family
  Id,          \* node ids
  Sig,         \* what front matter may say about a node besides its id
  FoldedSig,   \* the sig of a node whose title or edges an override replaced
  Schema,      \* merged metadata schemas
  NoSchema,    \* the schema could not be read
  SchemaFile,  \* stands among files for the layers' metadata.schema.yaml
  Absent,      \* no file, and no entry
  Malformed    \* a file whose front matter cannot be parsed

Node == [id : Id, sig : Sig]

(***************************************************************************)
(* Edges are extracted against the merged schema while a file is           *)
(* collected, so an entry remembers which schema drew them.                *)
(***************************************************************************)
Entry == [id : Id, sig : Sig \cup {FoldedSig}, edgesBy : Schema \cup {NoSchema}]

ASSUME NodeIndexAssumption ==
  /\ Path \subseteq Nat
  /\ LayerOf \in [Path -> Nat]
  /\ RootLayer \in Nat
  /\ \A p, q \in Path : p < q => LayerOf[p] <= LayerOf[q]
  /\ \A p \in Path : LayerOf[p] <= RootLayer
  /\ PromptPath \subseteq Path
  /\ NoSchema \notin Schema
  /\ SchemaFile \notin Path
  /\ FoldedSig \notin Sig
  /\ Absent # Malformed
  /\ {Absent, Malformed} \cap (Node \cup Entry) = {}
Content == Node \cup {Absent, Malformed}
Disk == [Path -> Content]

Index ==
  [entry     : [Path -> Entry \cup {Absent}],  \* candidates and edges, by file
   rejected  : SUBSET Path,   \* files with a blocks_patch diagnostic
   unparsed  : SUBSET Path,   \* files with an unreadable identity
   overrides : SUBSET Id,     \* keys of overrides_by_target
   degraded  : BOOLEAN]

\* What a walk starts from; it is degraded from the start when the schema could
\* not be read
NewIndex(degraded) ==
  [entry     |-> [p \in Path |-> Absent],
   rejected  |-> {},
   unparsed  |-> {},
   overrides |-> {},
   degraded  |-> degraded]

EmptyIndex == NewIndex(FALSE)

IsNode(c) == c \notin {Absent, Malformed}

EntryOf(c, schema) == [id |-> c.id, sig |-> c.sig, edgesBy |-> schema]

-----------------------------------------------------------------------------
(* Collecting files, index_collect.py *)

\* entry_for_layer: the same layer already holds an entry for p's id, from
\* a file that is not being re-collected
AlreadyClaimed(ix, disk, p) ==
  \E q \in Path : /\ ix.entry[q] # Absent
                  /\ LayerOf[q] = LayerOf[p]
                  /\ ix.entry[q].id = disk[p].id

\* ... or from one of `files` collected before p
ClaimedEarlier(disk, files, p) ==
  \E q \in files : /\ q < p
                   /\ LayerOf[q] = LayerOf[p]
                   /\ IsNode(disk[q])
                   /\ disk[q].id = disk[p].id

Duplicates(ix, disk, files) ==
  {p \in files : /\ IsNode(disk[p])
                 /\ \/ AlreadyClaimed(ix, disk, p)
                    \/ ClaimedEarlier(disk, files, p)}

\* Faulty variant: a file that cannot be read is passed over in silence
AsReadOrSkipped(disk, unread) ==
  [p \in Path |-> IF p \in unread THEN Absent ELSE disk[p]]

\* A file that cannot be read shows no more than a malformed one
AsRead(disk, unread) ==
  [p \in Path |-> IF p \in unread /\ disk[p] # Absent THEN Malformed ELSE disk[p]]

\* _collect_entry_file for each of `files`, in walk order: an unparseable
\* file and a second claim at one layer leave a diagnostic and no entry, and
\* an unreadable one degrades the whole index
Collect(ix, disk, files, schema, unread) ==
  LET seen == AsRead(disk, unread)
      dup == Duplicates(ix, seen, files)
  IN [entry |-> [p \in Path |->
                   IF p \in files
                   THEN IF IsNode(seen[p]) /\ p \notin dup
                        THEN EntryOf(seen[p], schema)
                        ELSE Absent
                   ELSE ix.entry[p]],
      rejected  |-> ix.rejected \cup dup,
      unparsed  |-> ix.unparsed \cup {p \in files : seen[p] = Malformed},
      overrides |-> ix.overrides,
      degraded  |-> ix.degraded \/ \E p \in files \cap unread : disk[p] # Absent]

-----------------------------------------------------------------------------
(* Deriving the winners, node_index.py *)

Candidates(ix, i) == {p \in Path : ix.entry[p] # Absent /\ ix.entry[p].id = i}

\* An id resolves to candidates[id][0], its innermost claim (a layer holds at
\* most one), and by_id has an entry for each that has a claim at all
Wins(ix, p) ==
  /\ ix.entry[p] # Absent
  /\ \A q \in Candidates(ix, ix.entry[p].id) : LayerOf[q] <= LayerOf[p]

KnownIds(ix) == {i \in Id : Candidates(ix, i) # {}}

-----------------------------------------------------------------------------
(* Layer overrides, overrides.py: a delta on a node owned further out *)

\* _fold_override_titles and _fold_override_edges: the winner of an inherited
\* target shows the folded value; a target the open project owns does not
FoldOverrides(ix, targets) ==
  [entry     |-> [p \in Path |->
                    IF /\ Wins(ix, p)
                       /\ ix.entry[p].id \in targets
                       /\ LayerOf[p] # RootLayer
                    THEN [ix.entry[p] EXCEPT !.sig = FoldedSig]
                    ELSE ix.entry[p]],
   rejected  |-> ix.rejected,
   unparsed  |-> ix.unparsed,
   overrides |-> targets,
   degraded  |-> ix.degraded]

\* The full walk of _resolve_index_cold
Cold(disk, schema, targets, unread) ==
  LET empty == NewIndex(SchemaFile \in unread)
  IN FoldOverrides(Collect(empty, disk, Path, schema, unread), targets)

-----------------------------------------------------------------------------
(* The incremental patch, node_index_patch.py *)

\* The first phase: everything the changed files contributed goes, but for the
\* has_unparsed_nodes flag, which nothing clears
DropUnits(ix, changed) ==
  [entry     |-> [p \in Path |-> IF p \in changed THEN Absent ELSE ix.entry[p]],
   rejected  |-> ix.rejected \ changed,
   unparsed  |-> ix.unparsed,
   overrides |-> ix.overrides,
   degraded  |-> ix.degraded]

\* Faulty variant: patches over a rejected sibling it cannot promote
PatchableOverRejected(ix, changed) ==
  /\ ix.unparsed = {}
  /\ changed \cap PromptPath = {}
  /\ 2 * Cardinality(changed) <= Cardinality(KnownIds(ix))

\* What raises PatchNotApplicable
Patchable(ix, changed) ==
  /\ ix.unparsed = {}
  /\ ix.rejected = {}
  /\ changed \cap PromptPath = {}
  /\ LET held == Cardinality(KnownIds(ix))
     IN 2 * Cardinality(changed) <= IF held = 0 THEN 1 ELSE held

Patch(ix, disk, changed, schema, unread) ==
  Collect(DropUnits(ix, changed), disk, changed, schema, unread)

-----------------------------------------------------------------------------
(* The change-gate, references.py *)

\* Faulty variant: a signature that forgot the fields it should compare
SameIdentity(ix, disk, p, schema) ==
  /\ p \notin PromptPath
  /\ ix.entry[p] # Absent
  /\ IsNode(disk[p])
  /\ ix.entry[p].id = disk[p].id

\* _index_signature_from_memo of the held entry against
\* _index_signature_from_disk, which never matches for a prompt
SameSignature(ix, disk, p, schema) ==
  /\ p \notin PromptPath
  /\ ix.entry[p] # Absent
  /\ IsNode(disk[p])
  /\ ix.entry[p] = EntryOf(disk[p], schema)

\* _write_leaves_index_unchanged
LeavesIndexUnchanged(ix, disk, paths, structural, schema) ==
  IF structural
  THEN \A p \in paths : ix.entry[p] = Absent /\ disk[p] = Absent
  ELSE \E p \in paths : paths = {p} /\ SameSignature(ix, disk, p, schema)
=============================================================================
