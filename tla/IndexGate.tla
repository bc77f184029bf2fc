----------------------------- MODULE IndexGate -----------------------------
(***************************************************************************)
(* Keeping the node index in step with the files: the process-global memo  *)
(* (node_index_gate.py), the write funnel and cold build that maintain it  *)
(* (references.py), the persisted snapshot (node_index_snapshot.py) and    *)
(* the disk that request threads and other programs change underneath.     *)
(*                                                                         *)
(* A request thread is a Worker.  It changes the disk first and then owes  *)
(* the gate one or more notifications; between the two anything may happen.*)
(* The gate's lock is held across a job of two steps, because what a job   *)
(* reads and what it fingerprints are read at different times:             *)
(*   build : fingerprint every file, then read them  (_resolve_index_cold) *)
(*   patch : read the changed files, then fingerprint them                 *)
(*                                           (_mutate_index_for_write)     *)
(***************************************************************************)
EXTENDS NodeIndex

CONSTANTS
  Worker,       \* request threads of the server's pool
  OverTarget,   \* ids that layer overrides may target
  InitialDisk,  \* the projects a behaviour may start from
  MaxEdits,     \* bound: changes made to files
  MaxForeign,   \* bound: how many of them are made outside the app
  Unreadable,   \* the sets of files one job may fail to read (OSError)
  NoMemo, NoFlush, NoSnap, NoJob

Gone == 0  \* the fingerprint of a file that is not there

(* Whose members a variable may hold *)

Manifest == [files : [Path -> Nat], schema : Nat]
\* `raced` is history, no field of the code: the files that changed between the
\* index's reading them and the manifest's fingerprinting them
Built == [index : Index, manifest : Manifest, raced : SUBSET Path]
Resolved == [index : Index, manifest : Manifest, raced : SUBSET Path,
             schema : Schema \cup {NoSchema}]

\* What a worker tells the gate: apply these paths, or drop the memo
Notice == [kind : {"apply"}, paths : SUBSET Path, structural : BOOLEAN]
            \cup [kind : {"invalidate"}]

\* Whom a job is run for: a notice some worker owes, or (NoJob) a reader that
\* missed
Errand == [worker : Worker, notice : Notice]
BuildJob ==
  [step : {"build"}, for : Errand \cup {NoJob}, manifest : Manifest, folds : BOOLEAN]
\* (`read`: the fingerprints the files had when they were read)
PatchJob ==
  [step : {"patch"}, for : {e \in Errand : e.notice.kind = "apply"}, index : Index,
   read : [Path -> Nat]]

ASSUME IndexGateAssumption ==
  /\ OverTarget \subseteq Id
  /\ InitialDisk \subseteq Disk
  /\ MaxEdits \in Nat
  /\ MaxForeign \in Nat
  /\ Unreadable \subseteq SUBSET (Path \cup {SchemaFile})
  /\ NoMemo \notin Resolved /\ NoFlush \notin Built /\ NoSnap \notin Built
  /\ NoJob \notin BuildJob \cup PatchJob \cup Errand

VARIABLES
  disk,     \* the node files
  stamp,    \* each file's (mtime_ns, size), unique to one change of it
  schema,   \* the merged metadata schema
  schemaAt, \* ... and its fingerprint
  over,     \* ids targeted by an override file; no manifest covers these
  edits,    \* how many changes were made: the clock fingerprints come from
  foreign,  \* files changed outside the app since the held index was built
            \* or swept
  foreigns, \* how many such changes there were
  memo,     \* NodeIndexGate._current
  pending,  \* NodeIndexGate._pending_flush
  snap,     \* the snapshot file
  job,      \* what runs under NodeIndexGate._lock
  owed      \* owed[w]: the notifications worker w still has to make

diskVars == <<disk, stamp, schema, schemaAt, over, edits>>
foreignVars == <<foreign, foreigns>>
gateVars == <<memo, pending, snap, job>>
vars == <<diskVars, foreignVars, gateVars, owed>>

-----------------------------------------------------------------------------
Apply(paths, structural) ==
  [kind |-> "apply", paths |-> paths, structural |-> structural]
Invalidate == [kind |-> "invalidate"]

\* _build_index_manifest: fingerprint every file a build reads
Stat == [files |-> stamp, schema |-> schemaAt]

\* diff_manifests, its node files and whether the schema is among them
Drifted(m1, m2) == {p \in Path : m1.files[p] # m2.files[p]}
SchemaDrifted(m1, m2) == m1.schema # m2.schema

-----------------------------------------------------------------------------
Init ==
  /\ disk \in InitialDisk
  /\ stamp = [p \in Path |-> IF disk[p] = Absent THEN Gone ELSE 1]
  /\ schema \in Schema
  /\ schemaAt = 1
  /\ over = {}
  /\ edits = 1
  /\ foreign = {} /\ foreigns = 0
  /\ memo = NoMemo /\ pending = NoFlush /\ snap = NoSnap /\ job = NoJob
  /\ owed = [w \in Worker |-> {}]

-----------------------------------------------------------------------------
(* Changing the disk *)

\* Files change at any time, while a job runs as well: writers take no gate lock
\* until they notify

\* The files become `d`; those that differ get a fresh fingerprint
SetDisk(d) ==
  /\ edits < MaxEdits
  /\ edits' = edits + 1
  /\ disk' = d
  /\ stamp' = [p \in Path |-> IF d[p] = disk[p] THEN stamp[p]
                              ELSE IF d[p] = Absent THEN Gone ELSE edits']

\* A write that leaves the content the index sees alone: only prose moved
TouchFile(p) ==
  /\ edits < MaxEdits
  /\ edits' = edits + 1
  /\ stamp' = [stamp EXCEPT ![p] = edits']
  /\ UNCHANGED disk

Idle(w) == owed[w] = {}
Owes(w, notices) == owed' = [owed EXCEPT ![w] = notices]
Done(w, n) == owed' = [owed EXCEPT ![w] = @ \ {n}]

\* _atomic_write of a node file and the notice of _maintain_index_after_write.
\* A save keeps the file's id; a new file's id is new to its layer (it may be
\* an ancestor's: a fork).
SaveNode(w, p) ==
  /\ Idle(w)
  /\ \/ IsNode(disk[p]) /\ TouchFile(p)
     \/ \E c \in Node :
          /\ c # disk[p]
          /\ IF IsNode(disk[p]) THEN c.id = disk[p].id
             ELSE /\ disk[p] = Absent
                  /\ ~ClaimedEarlier([disk EXCEPT ![p] = c], Path, p)
                  /\ \A q \in Path : p < q /\ LayerOf[q] = LayerOf[p] /\ IsNode(disk[q])
                                       => disk[q].id # c.id
          /\ SetDisk([disk EXCEPT ![p] = c])
  /\ Owes(w, {Apply({p}, FALSE)})
  /\ UNCHANGED <<schema, schemaAt, over, foreignVars, gateVars>>

\* _delete_node_files: unlink them all, then one structural notice
DeleteNodes(w, paths) ==
  /\ Idle(w)
  /\ \A p \in paths : disk[p] # Absent
  /\ SetDisk([p \in Path |-> IF p \in paths THEN Absent ELSE disk[p]])
  /\ Owes(w, {Apply(paths, TRUE)})
  /\ UNCHANGED <<schema, schemaAt, over, foreignVars, gateVars>>

\* _maybe_rename_node_file: the node moves to a name that was free
RenameNode(w, p, target) ==
  /\ Idle(w)
  /\ IsNode(disk[p]) /\ disk[target] = Absent
  /\ LayerOf[p] = LayerOf[target]
  /\ (p \in PromptPath) = (target \in PromptPath)
  /\ SetDisk([disk EXCEPT ![p] = Absent, ![target] = disk[p]])
  /\ Owes(w, {Apply({p, target}, TRUE)})
  /\ UNCHANGED <<schema, schemaAt, over, foreignVars, gateVars>>

\* A write of metadata.schema.yaml fans out: the whole memo is dropped
SaveSchema(w) ==
  /\ Idle(w)
  /\ edits < MaxEdits
  /\ edits' = edits + 1
  /\ schema' \in Schema
  /\ schemaAt' = edits'
  /\ Owes(w, {Invalidate})
  /\ UNCHANGED <<disk, stamp, over, foreignVars, gateVars>>

\* _write_override_file: the same, by the overrides/ folder it lands in
WriteOverride(w, i) ==
  /\ Idle(w)
  /\ i \notin over
  /\ edits < MaxEdits
  /\ edits' = edits + 1
  /\ over' = over \cup {i}
  /\ Owes(w, {Invalidate})
  /\ UNCHANGED <<disk, stamp, schema, schemaAt, foreignVars, gateVars>>

\* _drop_layer_overrides_for_target unlinks through _delete_node_files, so it
\* notifies a structural write of paths no collector owns
DropOverride(w, i) ==
  /\ Idle(w)
  /\ i \in over
  /\ edits < MaxEdits
  /\ edits' = edits + 1
  /\ over' = over \ {i}
  /\ Owes(w, {Apply({}, TRUE)})
  /\ UNCHANGED <<disk, stamp, schema, schemaAt, foreignVars, gateVars>>

\* Another program (an editor, git, a sync client) changes, adds or removes a
\* file: nobody is notified, and it may well be malformed or claim a taken id
ForeignEdit(p) ==
  /\ foreigns < MaxForeign
  /\ \E c \in Content \ {disk[p]} : SetDisk([disk EXCEPT ![p] = c])
  /\ foreign' = IF memo = NoMemo /\ job = NoJob THEN {} ELSE foreign \cup {p}
  /\ foreigns' = foreigns + 1
  /\ UNCHANGED <<schema, schemaAt, over, gateVars, owed>>

-----------------------------------------------------------------------------
(* The snapshot *)

\* Faulty variant: persists a degraded index
PersistedAlways(old, new) == {old, new}

\* _write_index_snapshot: never a degraded index, and best-effort otherwise
Persisted(old, new) == IF new.index.degraded THEN {old} ELSE {old, new}

\* _flush_locked: the deferred write, if there is one
FlushPending ==
  /\ snap' \in IF pending = NoFlush THEN {snap}
               ELSE Persisted(snap, pending)
  /\ pending' = NoFlush

-----------------------------------------------------------------------------
(* The cold build *)

Building == job # NoJob /\ job.step = "build"

\* Under the lock: the layers are collected and fingerprinted, and the chain
\* asked once whether it carries overrides
StartBuild(for) ==
  /\ job' = [step |-> "build", for |-> for, manifest |-> Stat, folds |-> over # {}]
  /\ foreign' = {}
  /\ UNCHANGED foreigns

\* resolve() on a miss: flush what the outgoing index left, then build
ReadMiss ==
  /\ job = NoJob
  /\ memo = NoMemo
  /\ FlushPending
  /\ StartBuild(NoJob)
  /\ UNCHANGED <<diskVars, memo, owed>>

\* The schema a job sees
SchemaRead(unread) == IF SchemaFile \in unread THEN NoSchema ELSE schema

\* A chain with overrides ignores the snapshot.  Otherwise one that matches the
\* manifest is served as it is, and one that does not is patched if it can be.
FreshSnapshot == ~job.folds /\ snap # NoSnap /\ snap.manifest = job.manifest

PatchedSnapshot(unread) ==
  /\ ~job.folds /\ snap # NoSnap
  /\ snap.manifest # job.manifest
  /\ SchemaFile \notin unread
  /\ ~SchemaDrifted(snap.manifest, job.manifest)
  /\ Patchable(snap.index, Drifted(snap.manifest, job.manifest))

BuiltIndex(unread) ==
  IF FreshSnapshot THEN snap.index
  ELSE IF PatchedSnapshot(unread)
  THEN Patch(snap.index, disk, Drifted(snap.manifest, job.manifest), schema, unread)
  ELSE Cold(disk, SchemaRead(unread), IF job.folds THEN over ELSE {}, unread)

\* The files that appeared while the build ran, which it indexes unlisted
Created == {p \in Path : job.manifest.files[p] = Gone /\ stamp[p] # Gone}

\* A fresh snapshot reads no file, and a patched one those that drifted
BuiltRaced(unread) ==
  IF FreshSnapshot THEN snap.raced
  ELSE IF PatchedSnapshot(unread)
  THEN LET drift == Drifted(snap.manifest, job.manifest)
       IN (snap.raced \ drift) \cup (Created \cap drift)
  ELSE Created

\* Faulty variant: coalesces a burst by keeping its first flush
DeferFirst(built) == pending' = IF pending = NoFlush THEN built ELSE pending

\* apply() captures the flush of what mutate returned, over any earlier one
Defer(built) == pending' = built

\* The files are read, the result published; a build done for a write also
\* becomes the pending flush, as everything mutate returns does
FinishBuild ==
  /\ Building
  /\ \E unread \in Unreadable :
       LET built == [index |-> BuiltIndex(unread), manifest |-> job.manifest,
                     raced |-> BuiltRaced(unread)]
       IN /\ memo' = [index |-> built.index, manifest |-> built.manifest,
                      raced |-> built.raced, schema |-> SchemaRead(unread)]
          /\ snap' \in IF FreshSnapshot \/ job.folds THEN {snap} ELSE Persisted(snap, built)
          /\ IF job.for = NoJob
             THEN UNCHANGED <<pending, owed>>
             ELSE Defer(built) /\ Done(job.for.worker, job.for.notice)
  /\ job' = NoJob
  /\ UNCHANGED <<diskVars, foreignVars>>

-----------------------------------------------------------------------------
(* The write funnel *)

\* _write_leaves_index_unchanged, for the files as they read now
Unchanged(n, unread) ==
  LeavesIndexUnchanged(memo.index, AsRead(disk, unread), n.paths, n.structural,
                       memo.schema)

\* Faulty variant: patches a chain with overrides, losing what they fold
MustRebuildFlatOnly(n, unread) ==
  /\ n.paths # {}
  /\ \/ memo.schema = NoSchema
     \/ ~Unchanged(n, unread) /\ ~Patchable(memo.index, n.paths)

\* The cases of _mutate_index_for_write that rebuild instead of patching
MustRebuild(n, unread) ==
  \/ memo.index.overrides # {}
  \/ /\ n.paths # {}
     /\ \/ memo.schema = NoSchema
        \/ ~Unchanged(n, unread) /\ ~Patchable(memo.index, n.paths)

\* ... and those that leave the memo untouched
NothingToDo(n, unread) ==
  \/ memo = NoMemo
  \/ /\ memo # NoMemo
     /\ memo.index.overrides = {}
     /\ \/ n.paths = {}
        \/ memo.schema # NoSchema /\ Unchanged(n, unread)

\* apply() takes the lock for a notice of worker w; a refresh makes its
\* structural one first
MayApply(w, n) ==
  /\ job = NoJob
  /\ n.kind = "apply"
  /\ n.structural \/ \A m \in owed[w] : ~m.structural

ApplyNothing(w, n, unread) ==
  /\ MayApply(w, n)
  /\ NothingToDo(n, unread)
  /\ Done(w, n)
  /\ UNCHANGED <<diskVars, foreignVars, gateVars>>

ApplyRebuild(w, n, unread) ==
  /\ MayApply(w, n)
  /\ memo # NoMemo /\ MustRebuild(n, unread)
  /\ StartBuild([worker |-> w, notice |-> n])
  /\ UNCHANGED <<diskVars, memo, pending, snap, owed>>

\* Clone the held index and patch it with what the changed files say now
ApplyPatch(w, n, unread) ==
  /\ MayApply(w, n)
  /\ memo # NoMemo /\ ~NothingToDo(n, unread) /\ ~MustRebuild(n, unread)
  /\ job' = [step |-> "patch", for |-> [worker |-> w, notice |-> n],
             index |-> Patch(memo.index, disk, n.paths, memo.schema, unread),
             read |-> stamp]
  /\ UNCHANGED <<diskVars, foreignVars, memo, pending, snap, owed>>

Patching == job # NoJob /\ job.step = "patch"

\* Faulty variant: fingerprints all the files there are
RestampedAll(manifest, paths) == [manifest EXCEPT !.files = stamp]

\* The manifest of the held index, with new fingerprints for the patched files
Restamped(manifest, paths) ==
  [manifest EXCEPT !.files = [p \in Path |-> IF p \in paths THEN stamp[p] ELSE @[p]]]

\* Fingerprint the patched files, publish, and defer the snapshot.  A file that
\* changed since it was read is vouched for unseen: its fingerprint is the new one.
FinishPatch ==
  /\ Patching
  /\ LET patched == job.for.notice.paths
         manifest == Restamped(memo.manifest, patched)
         raced == (memo.raced \ patched) \cup {p \in patched : job.read[p] # stamp[p]}
     IN /\ memo' = [memo EXCEPT !.index = job.index, !.manifest = manifest,
                                !.raced = raced]
        /\ Defer([index |-> job.index, manifest |-> manifest, raced |-> raced])
  /\ Done(job.for.worker, job.for.notice)
  /\ job' = NoJob
  /\ UNCHANGED <<diskVars, foreignVars, snap>>

\* invalidate(): flush before clearing
DropMemo(w) ==
  /\ job = NoJob
  /\ Invalidate \in owed[w]
  /\ FlushPending
  /\ memo' = NoMemo
  /\ foreign' = {}
  /\ Done(w, Invalidate)
  /\ UNCHANGED <<diskVars, foreigns, job>>

-----------------------------------------------------------------------------
(* Readers, opens, refreshes, and the process going away *)

\* resolve() on a hit fires a deferred flush
ReadHit ==
  /\ job = NoJob
  /\ memo # NoMemo /\ pending # NoFlush
  /\ FlushPending
  /\ UNCHANGED <<diskVars, foreignVars, memo, job, owed>>

\* Faulty variant: clears the slot without taking the lock
OpenProjectUnlocked ==
  /\ memo # NoMemo
  /\ FlushPending
  /\ memo' = NoMemo
  /\ foreign' = {}
  /\ UNCHANGED <<diskVars, foreigns, job, owed>>

\* /api/project/open of the same root drops the memo unconditionally
OpenProject ==
  /\ job = NoJob
  /\ memo # NoMemo
  /\ FlushPending
  /\ memo' = NoMemo
  /\ foreign' = {}
  /\ UNCHANGED <<diskVars, foreigns, job, owed>>

\* refresh_node_index_from_disk: sweep the files against the held manifest.
\* What appeared or vanished is one structural write, each edit in place a
\* plain one; a schema that moved drops the memo.
Refresh(w) ==
  /\ Idle(w)
  /\ memo # NoMemo
  /\ LET drift == Drifted(memo.manifest, Stat)
         moved == {p \in drift : memo.manifest.files[p] = Gone \/ stamp[p] = Gone}
     IN /\ drift # {} \/ SchemaDrifted(memo.manifest, Stat) \/ foreign # {}
        /\ Owes(w, IF SchemaDrifted(memo.manifest, Stat)
                   THEN {Invalidate}
                   ELSE {Apply(moved, TRUE) : m \in moved}
                          \cup {Apply({p}, FALSE) : p \in drift \ moved})
  /\ foreign' = {}
  /\ UNCHANGED <<diskVars, foreigns, gateVars>>

\* A clean shutdown flushes; a crash does not, and may come at any point.
\* Either way the next process starts with an empty slot.
Restarted ==
  /\ memo' = NoMemo /\ pending' = NoFlush /\ job' = NoJob
  /\ owed' = [w \in Worker |-> {}]
  /\ foreign' = {}
  /\ UNCHANGED <<diskVars, foreigns>>

Shutdown ==
  /\ job = NoJob
  /\ memo # NoMemo
  /\ \A w \in Worker : Idle(w)
  /\ snap' \in IF pending = NoFlush THEN {snap}
               ELSE Persisted(snap, pending)
  /\ Restarted

Crash ==
  /\ memo # NoMemo \/ job # NoJob
  /\ UNCHANGED snap
  /\ Restarted

\* A snapshot another build wrote, a corrupt one and a deleted one are all
\* discarded by _load_index_snapshot
LoseSnapshot ==
  /\ job = NoJob
  /\ snap # NoSnap
  /\ snap' = NoSnap
  /\ UNCHANGED <<diskVars, foreignVars, memo, pending, job, owed>>

-----------------------------------------------------------------------------
DiskStep ==
  \/ \E w \in Worker :
       \/ \E p \in Path : SaveNode(w, p)
       \/ \E paths \in SUBSET Path \ {{}} : DeleteNodes(w, paths)
       \/ \E p, q \in Path : RenameNode(w, p, q)
       \/ SaveSchema(w)
       \/ \E i \in OverTarget : WriteOverride(w, i) \/ DropOverride(w, i)
  \/ \E p \in Path : ForeignEdit(p)

GateStep ==
  \/ ReadMiss \/ ReadHit \/ FinishBuild \/ FinishPatch
  \/ \E w \in Worker :
       \/ \E n \in owed[w], unread \in Unreadable :
            \/ ApplyNothing(w, n, unread)
            \/ ApplyRebuild(w, n, unread)
            \/ ApplyPatch(w, n, unread)
       \/ DropMemo(w) \/ Refresh(w)
  \/ OpenProject

ProcessStep == Shutdown \/ Crash \/ LoseSnapshot

Next == DiskStep \/ GateStep \/ ProcessStep

Spec == Init /\ [][Next]_vars

-----------------------------------------------------------------------------
(* What should hold *)

\* Every variable holds what the code keeps there; a job's errand is still owed
\* by the worker it runs for, and a patch has a held index to replace (apply
\* and invalidate exclude each other by the gate's lock).
TypeOK ==
  /\ disk \in Disk
  /\ stamp \in [Path -> Nat]
  /\ schema \in Schema
  /\ schemaAt \in Nat
  /\ over \subseteq Id
  /\ edits \in Nat
  /\ foreign \subseteq Path
  /\ foreigns \in Nat
  /\ memo \in Resolved \cup {NoMemo}
  /\ pending \in Built \cup {NoFlush}
  /\ snap \in Built \cup {NoSnap}
  /\ job \in BuildJob \cup PatchJob \cup {NoJob}
  /\ owed \in [Worker -> SUBSET Notice]
  /\ Patching => memo # NoMemo
  /\ job # NoJob /\ job.for # NoJob => job.for.notice \in owed[job.for.worker]

\* The moments a held index is meant to be true: no thread is between changing
\* a file and saying so, nothing is being built, and no outside change is newer
\* than the last sweep.
Quiet ==
  /\ job = NoJob /\ memo # NoMemo
  /\ \A w \in Worker : Idle(w)
  /\ foreign = {}

\* The index a walk of the whole disk would give now
OnDisk == Cold(disk, schema, over, {})

NoDuplicates == Duplicates(EmptyIndex, disk, Path) = {}

AsCold == ~memo.index.degraded => memo.index.entry = OnDisk.entry

\* The files a record vouches for though its index has not seen them as they
\* are, because they raced the job that made it: rewritten between a patch's read
\* and its fingerprint (references.py:660 and 667-675), or created while a build
\* ran, which its manifest never lists, and deleted since.
Blind(record) == {p \in record.raced : record.manifest.files[p] = stamp[p]}

\* However saves, deletes, renames, sweeps, opens, restarts and outside edits
\* were interleaved, an index held when all is quiet shows of every file what a
\* cold build over the disk shows: the change-gate of references.py never skips
\* or misapplies a change, until it is blind to a file.  (It fails with same-layer
\* duplicates and dropped overrides, which are stated apart: PatchIsCold and Coherent.)
CoherentWhenQuiet ==
  Quiet /\ NoDuplicates /\ (over # {} \/ OverTarget = {}) /\ Blind(memo) = {} => AsCold

\* The same where overrides come and go.  overrides.py:432-441: an override
\* leaves the disk through the funnel "so the memo stays coherent".
Coherent == Quiet /\ NoDuplicates => AsCold

\* The same where two files of a layer claim an id.  node_index_patch.py:75-77:
\* a patched index is "equivalent to a cold build over the same files - that
\* equivalence is the whole contract".
PatchIsCold == Quiet => AsCold

\* The diagnostics a held index carries are those of the files there are:
\* references.py:619-622, "the memo is never left describing a pre-write state".
DiagnosticsCurrent ==
  Quiet /\ ~memo.index.degraded =>
    /\ memo.index.rejected = {} <=> OnDisk.rejected = {}
    /\ memo.index.unparsed = {} <=> OnDisk.unparsed = {}

\* A snapshot whose manifest matches the files is served without reading one
\* (_resolve_index_cold), so it must be the index of just those files, whatever
\* crash, deferred flush or racing write came before it was written: it is wrong
\* only about a file it was blind to.
SnapshotTrue ==
  snap # NoSnap /\ snap.manifest = Stat /\ NoDuplicates /\ OverTarget = {} /\ Blind(snap) = {}
    => snap.index = OnDisk

\* _purge_references_to rewrites the user's files to drop links to ids that are
\* not in by_id, unless has_unparsed_nodes is set (metadata_values.py): an id
\* some file still declares must therefore never be missing from an index that
\* does not carry that flag, but for a file the index is blind to.
PurgeIsSafe ==
  Quiet /\ memo.index.unparsed = {} =>
    \A p \in Path \ Blind(memo) :
      /\ disk[p] # Malformed
      /\ IsNode(disk[p]) => disk[p].id \in KnownIds(memo.index)

\* An index built while the schema could not be read has no edges, and must not
\* be persisted: the schema file is unchanged, so the snapshot would match for
\* ever (NodeIndex.degraded).
SnapshotKeepsEdges ==
  snap # NoSnap =>
    \A p \in Path : snap.index.entry[p] # Absent => snap.index.entry[p].edgesBy \in Schema

\* A flush is deferred and a build writes at once, yet a snapshot is never
\* replaced by one of an earlier state of a file: the writes keep their order.
NotOlder(m1, m2) ==
  /\ \A p \in Path : m1.files[p] = Gone \/ m2.files[p] = Gone \/ m1.files[p] <= m2.files[p]
  /\ m1.schema <= m2.schema

SnapshotNeverGoesBack ==
  [][snap # NoSnap /\ snap' # NoSnap => NotOlder(snap.manifest, snap'.manifest)]_vars
=============================================================================
