----------------------------- MODULE IndexPatch -----------------------------
(***************************************************************************)
(* How node_index_patch.py and the walk of references.py come by the index *)
(* that NodeIndex describes: file by file, over candidate lists that are   *)
(* innermost-first only if every insertion keeps them so, and edges kept   *)
(* in a map of their own.  A patch drops all changed units and then        *)
(* collects them, in the order of the work list; a walk collects all files *)
(* outermost layer first.                                                  *)
(***************************************************************************)
EXTENDS NodeIndex, SequencesExt

CONSTANTS
  OldDisk,    \* the disks an index to be patched may have been built from
  MaxChanged  \* bound: files that changed since

ASSUME IndexPatchAssumption ==
  /\ OldDisk \subseteq Disk
  /\ MaxChanged \in Nat
  /\ IsFiniteSet(Path)
  /\ Schema # {}

VARIABLES
  old,         \* the disk the index was built from
  disk,        \* ... and the disk now
  walking,     \* a walk, instead of a patch?
  toDrop,      \* changed units the first phase has still to drop
  toCollect,   \* units still to collect
  ordered,     \* did _restore_candidate_order run, or need not?
  candidates,  \* per id, the claims on it
  edges,       \* edges_by_layer_src, per layer and id
  rejected,    \* files with a blocks_patch diagnostic
  unparsed     \* files with an unreadable identity

vars == <<old, disk, walking, toDrop, toCollect, ordered,
          candidates, edges, rejected, unparsed>>

Layer == {LayerOf[p] : p \in Path}
Claim == [path : Path, sig : Sig]
NoEdges == Absent

Changed == {p \in Path : old[p] # disk[p]}

TheSchema == CHOOSE s \in Schema : TRUE

-----------------------------------------------------------------------------
(* A built index, in lists *)

ClaimOf(d, p) == [path |-> p, sig |-> d[p].sig]
InnerFirst(c1, c2) == LayerOf[c1.path] > LayerOf[c2.path]

\* Claims of different layers, the innermost first
Sorted(claims) ==
  CHOOSE list \in [1..Cardinality(claims) -> claims] :
    \A j, k \in 1..Cardinality(claims) : j < k => InnerFirst(list[j], list[k])

ClaimsOn(d, i) == {ClaimOf(d, p) : p \in {q \in Path : IsNode(d[q]) /\ d[q].id = i}}

ListsOf(d) == [i \in Id |-> Sorted(ClaimsOn(d, i))]

EdgesOf(d) ==
  [k \in Layer \X Id |->
     LET held == {p \in Path : IsNode(d[p]) /\ d[p].id = k[2] /\ LayerOf[p] = k[1]}
     IN IF held = {} THEN NoEdges ELSE d[CHOOSE p \in held : TRUE].sig]

\* The disks `d` may have become with a few files changed
Later(d) ==
  {e \in {[p \in Path |-> IF p \in DOMAIN c THEN c[p] ELSE d[p]] :
            c \in UNION {[files -> Content] : files \in {f \in SUBSET Path : Cardinality(f) <= MaxChanged}}} :
     e # d}

StartPatch ==
  /\ old \in OldDisk /\ disk \in Later(old)
  /\ walking = FALSE
  /\ Patchable(Cold(old, TheSchema, {}, {}), Changed)
  /\ toDrop = Changed /\ toCollect = Changed
  /\ ordered = FALSE
  /\ candidates = ListsOf(old)
  /\ edges = EdgesOf(old)

StartWalk ==
  /\ disk \in OldDisk \cup UNION {Later(d) : d \in OldDisk}
  /\ old = disk
  /\ walking = TRUE
  /\ toDrop = {} /\ toCollect = Path
  /\ ordered = TRUE
  /\ candidates = [i \in Id |-> <<>>]
  /\ edges = [k \in Layer \X Id |-> NoEdges]

Init ==
  /\ StartPatch \/ StartWalk
  /\ rejected = {} /\ unparsed = {}

-----------------------------------------------------------------------------
\* The list without the claim of a file, which is in it once at most
Without(list, p) ==
  IF \E k \in DOMAIN list : list[k].path = p
  THEN RemoveAt(list, CHOOSE k \in DOMAIN list : list[k].path = p)
  ELSE list

\* Faulty variant: removes the claim but not its edges
DropUnitKeepingEdges(p) ==
  /\ p \in toDrop
  /\ toDrop' = toDrop \ {p}
  /\ candidates' = [i \in Id |-> Without(candidates[i], p)]
  /\ rejected' = rejected \ {p}
  /\ UNCHANGED <<old, disk, walking, toCollect, ordered, edges, unparsed>>

\* _drop_entries_under and _drop_diagnostics_under: the file's claim goes, and
\* with it the layer's edges for the id unless another file still claims it
\* there.  has_unparsed_nodes is never cleared.
DropUnit(p) ==
  /\ p \in toDrop
  /\ toDrop' = toDrop \ {p}
  /\ candidates' = [i \in Id |-> Without(candidates[i], p)]
  /\ edges' = [k \in Layer \X Id |->
                 IF /\ k[1] = LayerOf[p]
                    /\ candidates'[k[2]] # candidates[k[2]]
                    /\ \A c \in Range(candidates'[k[2]]) : LayerOf[c.path] # k[1]
                 THEN NoEdges
                 ELSE edges[k]]
  /\ rejected' = rejected \ {p}
  /\ UNCHANGED <<old, disk, walking, toCollect, ordered, unparsed>>

\* Faulty variant: each unit is collected as soon as it was dropped itself
MayCollectOwn(p) ==
  /\ p \in toCollect /\ p \notin toDrop
  /\ \A q \in toCollect : q < p => ~walking /\ LayerOf[q] # LayerOf[p]

\* Every drop comes before the first collect.  A walk goes in walk order; a
\* work list is sorted by path, which says nothing of how layers are nested.
MayCollect(p) ==
  /\ p \in toCollect /\ toDrop = {}
  /\ \A q \in toCollect : q < p => ~walking /\ LayerOf[q] # LayerOf[p]

\* Faulty variant: appends, so that the outermost claim stays first
AddLast(list, claim) == Append(list, claim)

\* NodeIndex.add inserts at the front
Add(list, claim) == <<claim>> \o list

\* _collect_entry_file of the file as it is now
CollectUnit(p) ==
  /\ MayCollect(p)
  /\ toCollect' = toCollect \ {p}
  /\ LET c == disk[p]
         taken == IsNode(c) /\ \E d \in Range(candidates[c.id]) : LayerOf[d.path] = LayerOf[p]
     IN /\ unparsed' = IF c = Malformed THEN unparsed \cup {p} ELSE unparsed
        /\ rejected' = IF taken THEN rejected \cup {p} ELSE rejected
        /\ IF IsNode(c) /\ ~taken
           THEN /\ candidates' = [candidates EXCEPT ![c.id] = Add(@, ClaimOf(disk, p))]
                /\ edges' = [edges EXCEPT ![<<LayerOf[p], c.id>>] = c.sig]
           ELSE UNCHANGED <<candidates, edges>>
  /\ UNCHANGED <<old, disk, walking, toDrop, ordered>>

\* Faulty variant: trusts the order of arrival
LeaveOrder ==
  /\ toDrop = {} /\ toCollect = {} /\ ~ordered
  /\ ordered' = TRUE
  /\ UNCHANGED <<old, disk, walking, toDrop, toCollect, candidates, edges, rejected, unparsed>>

\* _restore_candidate_order; no two claims of a list are of one layer
RestoreOrder ==
  /\ toDrop = {} /\ toCollect = {} /\ ~ordered
  /\ ordered' = TRUE
  /\ candidates' = [i \in Id |-> Sorted(Range(candidates[i]))]
  /\ UNCHANGED <<old, disk, walking, toDrop, toCollect, edges, rejected, unparsed>>

Next ==
  \/ \E p \in Path : DropUnit(p) \/ CollectUnit(p)
  \/ RestoreOrder

Spec == Init /\ [][Next]_vars

-----------------------------------------------------------------------------
Done == toDrop = {} /\ toCollect = {} /\ ordered

\* The index these lists amount to, as NodeIndex has it
AsIndex ==
  [entry |-> [p \in Path |->
                LET held == {i \in Id : \E c \in Range(candidates[i]) : c.path = p}
                IN IF held = {} THEN Absent
                   ELSE LET i == CHOOSE j \in held : TRUE
                            c == CHOOSE d \in Range(candidates[i]) : d.path = p
                        IN [id |-> i, sig |-> c.sig, edgesBy |-> TheSchema]],
   rejected |-> rejected, unparsed |-> unparsed, overrides |-> {}, degraded |-> FALSE]

\* The list algorithm computes what NodeIndex says of a walk and of a patch, so
\* what IndexGate shows with those operators it shows of this code.
ComputesIndex ==
  Done => AsIndex = IF walking THEN Cold(disk, TheSchema, {}, {})
                    ELSE Patch(Cold(old, TheSchema, {}, {}), disk, Changed, TheSchema, {})

\* The contract of node_index_patch.py where no layer has two claims on an id:
\* a patch leaves the very lists a walk over the same files would, renames,
\* moved ids, shadowed and un-shadowed ancestors included.
PatchEqualsWalk ==
  Done /\ Duplicates(EmptyIndex, disk, Path) = {} =>
    candidates = ListsOf(disk) /\ edges = EdgesOf(disk)

\* by_id is candidates[id][0]: whatever order units arrived in, the innermost
\* layer's claim wins and each layer has one at most.
InnermostFirst ==
  Done => \A i \in Id : \A k \in 1..Len(candidates[i]) - 1 :
            LayerOf[candidates[i][k].path] > LayerOf[candidates[i][k + 1].path]

\* Edges are filed under (layer, id), not with the claim they came from: at no
\* moment do they outlive it, belong to another file, or go missing.
EdgesFollowClaims ==
  \A k \in Layer \X Id :
    LET claims == {c \in Range(candidates[k[2]]) : LayerOf[c.path] = k[1]}
    IN IF claims = {} THEN edges[k] = NoEdges ELSE {c.sig : c \in claims} = {edges[k]}
=============================================================================
