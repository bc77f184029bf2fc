----------------------------- MODULE LayerMoves -----------------------------
(***************************************************************************)
(* Nodes that live in a chain of layers: universe, series, book.  A node   *)
(* has a file in the layer that owns it and, in the layers below, sparse   *)
(* overrides.  Any layer may be the open project, which sees itself and    *)
(* its ancestors.  An entry can be forked into the open project, and a     *)
(* node the project owns can be promoted into an ancestor.                 *)
(*                                                                         *)
(* A move is several writes, file by file, and may stop after any of them. *)
(* The index is taken to be that of the files (module IndexGate): both     *)
(* moves drop it between their writes.                                     *)
(***************************************************************************)
EXTENDS Naturals, FiniteSetsExt

CONSTANTS
    Depth,       \* how many layers the chain has; layer 1 is the outermost
    Lore, Prompt, MutationSet, \* the nodes, by kind
    Other,       \* nodes that are only referred to
    Value,       \* what a plain field may hold
    Target,      \* nodes the reference field may name
    Needs,       \* the snippets a prompt includes, the entity a set is pinned to
    Nested,      \* nodes that a list of groups in the node refers to
    None,        \* no file, no value, no promotion
    Start,       \* the files there may be at first
    MaxSteps,    \* bound: requests
    Overlap,     \* whether requests come between the writes of a move
    LateCut,     \* whether a move may stop before it settles the overrides
    OntoLeftover,\* whether a node is promoted onto an override of itself
    RefsReachDown,\* whether a layer refers to what lies below it, or is made to
    CascadeAfterCut\* whether a snippet that is in two layers goes up with its prompt

Layer == 1 .. Depth
Node == Lore \cup Prompt \cup MutationSet \cup Other
Content == [val : Value, refs : SUBSET Target, fork : BOOLEAN]
Rows == [val : Value \cup {None}, add : SUBSET Target, del : SUBSET Target]
NoRows == [val |-> None, add |-> {}, del |-> {}]

\* What a project reads of an entry, and a move under way.
Text == [val : Value, refs : SUBSET Target]
Moves ==
    [root : Layer, dest : Layer, top : Node, at : Node, todo : SUBSET Node,
     phase : {"fork", "drop", "store", "write", "delete", "settle"},
     full : Text \cup {None}, travels : Text \cup {None},
     before : [Node -> [Layer -> Text \cup {None}]], leftover : SUBSET Node]

ASSUME LayerMovesAssumption ==
    /\ Depth \in Nat \ {0} /\ MaxSteps \in Nat
    /\ Lore \cap Prompt = {} /\ MutationSet \cap (Lore \cup Prompt) = {}
    /\ Other \cap (Lore \cup Prompt \cup MutationSet) = {}
    /\ Target \subseteq Node
    /\ Needs \in [Node -> SUBSET Node] /\ Nested \in [Node -> SUBSET Target]
    /\ None \notin Value /\ None \notin Node /\ None \notin Content /\ None \notin Text
    /\ None \notin Moves
    /\ Start \subseteq [Layer -> [Node -> Content \cup {None}]]
    /\ {Overlap, LateCut, OntoLeftover, RefsReachDown, CascadeAfterCut} \subseteq BOOLEAN

\* A prompt includes snippets, which are prompts; a set is pinned to an entry.
ASSUME NeedsAssumption ==
    /\ IsFiniteSet(Node)
    /\ \A n \in Node : Needs[n] \subseteq
           IF n \in Prompt THEN Prompt ELSE IF n \in MutationSet THEN Lore ELSE {}

\* At first a node has one owner and, below it, forks of the owner's file; what
\* a layer refers to, it can see.
ASSUME StartAssumption ==
    \A f \in Start, l \in Layer, n \in Node : f[l][n] # None =>
        /\ \A k \in 1 .. l - 1 : f[k][n] # None => f[l][n].fork
        /\ RefsReachDown \/ \A r \in f[l][n].refs \cup Nested[n] \cup Needs[n] :
                              \E k \in 1 .. l : f[k][r] # None

VARIABLES
    file,   \* the node files of each layer
    over,   \* the override rows of each layer; without rows there is no file
    store,  \* the nodes each layer keeps snapshots of
    job,    \* the move under way, or None
    cut,    \* nodes that a promotion left in the middle, with the write it did not do
    steps   \* requests so far, for the bound

vars == <<file, over, store, job, cut, steps>>

-----------------------------------------------------------------------------
\* What an open project sees.

Owners(R, n) == {l \in 1 .. R : file[l][n] # None}
Visible(R) == {n \in Node : Owners(R, n) # {}}

\* The innermost candidate wins.
Winner(R, n) == Max(Owners(R, n))

\* The rows of some layers, folded onto a content: the innermost row decides.
FoldVal(n, base, layers) ==
    LET rows == {l \in layers : over[l][n].val # None}
    IN  IF rows = {} THEN base.val ELSE over[Max(rows)][n].val

FoldRefs(n, base, layers) ==
    {r \in Target :
        LET rows == {l \in layers : r \in over[l][n].add \cup over[l][n].del}
        IN  IF rows = {} THEN r \in base.refs ELSE r \in over[Max(rows)][n].add}

\* References that lead nowhere are healed away.
Fold(R, n, base, layers) ==
    [val |-> FoldVal(n, base, layers), refs |-> FoldRefs(n, base, layers) \cap Visible(R)]

\* The overrides that show: those of every layer of the chain down to the view,
\* on an entry the open project does not own.
Shown(R, n, L) == IF Winner(R, n) = R THEN {} ELSE 1 .. L

\* The entry as layer L sees it, read from the open project R.
View(R, n, L) == Fold(R, n, file[Winner(R, n)][n], Shown(R, n, L))
Reading(R, n) == View(R, n, R)

\* A file with this text in it.
Written(text, fork) == [val |-> text.val, refs |-> text.refs, fork |-> fork]

-----------------------------------------------------------------------------
\* Saving.

\* The sparse delta from what lies above a layer to what was submitted there.
Diff(base, submitted) ==
    [val |-> IF submitted.val = base.val THEN None ELSE submitted.val,
     add |-> submitted.refs \ base.refs, del |-> base.refs \ submitted.refs]

\* Faulty variant: the delta to the file of the owner, so that a layer copies
\* what the layers between have set.
Above_Owner(R, n, L) == Fold(R, n, file[Winner(R, n)][n], {})
Above(R, n, L) == Fold(R, n, file[Winner(R, n)][n], 1 .. L - 1)

\* One edit of the author: the plain field set, or a reference put in or out.
Edit == [field : {"val"}, to : Value] \cup [field : {"refs"}, to : Target]
Edited(view, e) ==
    IF e.field = "val" THEN [view EXCEPT !.val = e.to]
    ELSE [view EXCEPT !.refs = IF e.to \in @ THEN @ \ {e.to} ELSE @ \cup {e.to}]

\* A reset drops the rows of its field.
Cleared(rows, field) ==
    IF field = "val" THEN [rows EXCEPT !.val = None] ELSE [rows EXCEPT !.add = {}, !.del = {}]

Quiet == (job = None \/ Overlap) /\ steps < MaxSteps

\* Where the open project R may author n: in its own file, in the file of an
\* ancestor it chose, or in an override below that.  A prompt of an ancestor
\* is only overridden, and only by the open project, as which it is read.
MayAuthor(R, n, L) ==
    /\ n \in Visible(R) \cap (Lore \cup Prompt) /\ L <= R
    /\ IF n \in Prompt \/ Winner(R, n) = R THEN L = R ELSE L >= Winner(R, n)

Save(R, n, L, e) ==
    /\ Quiet /\ MayAuthor(R, n, L)
    /\ LET o == Winner(R, n)  view == View(R, n, L)  submitted == Edited(view, e) IN
         /\ submitted # view
         /\ submitted.refs \ view.refs \subseteq IF RefsReachDown THEN Visible(R) ELSE Visible(L)
         /\ IF L = o
              THEN /\ file' = [file EXCEPT ![o][n] = Written(submitted, file[o][n].fork)]
                   /\ UNCHANGED over
              ELSE /\ over' = [over EXCEPT ![L][n] = Diff(Above(R, n, L), submitted)]
                   /\ UNCHANGED file
         \* a save may begin a new session, which photographs what it replaces
         /\ store' \in {store} \cup IF L = o THEN {[store EXCEPT ![o] = @ \cup {n}]} ELSE {}
    /\ steps' = steps + 1
    /\ UNCHANGED <<job, cut>>

\* Reset to inherited: the save of an untouched view, with the rows of one
\* field left out.
Reset(R, n, L, field) ==
    /\ Quiet /\ MayAuthor(R, n, L) /\ L > Winner(R, n)
    /\ Cleared(over[L][n], field) # over[L][n]
    /\ over' = [over EXCEPT ![L][n] = Cleared(Diff(Above(R, n, L), View(R, n, L)), field)]
    /\ steps' = steps + 1
    /\ UNCHANGED <<file, store, job, cut>>

\* The camera: snapshots live with the owner's file.
Capture(R, n) ==
    /\ Quiet /\ n \in Visible(R) \cap (Lore \cup Prompt)
    /\ n \notin store[Winner(R, n)]
    /\ store' = [store EXCEPT ![Winner(R, n)] = @ \cup {n}]
    /\ steps' = steps + 1
    /\ UNCHANGED <<file, over, job, cut>>

\* Only what the open project owns can be deleted.  What refers to it is the
\* subject of module References: here nothing does, or an ancestor still has
\* the entry.
Delete(R, n) ==
    /\ Quiet /\ n \in Visible(R) \cap Lore /\ Winner(R, n) = R
    /\ \/ Owners(R, n) # {R}
       \/ n \notin Target /\ \A l \in Layer, m \in Node :
               file[l][m] # None => n \notin Needs[m] \cup Nested[m]
    /\ file' = [file EXCEPT ![R][n] = None]
    /\ store' = [store EXCEPT ![R] = @ \ {n}]
    /\ steps' = steps + 1
    /\ UNCHANGED <<over, job, cut>>

-----------------------------------------------------------------------------
\* Moves.  A job goes through its phases for one node after the other: "fork"
\* and "drop" copy an entry down; "store", "write", "delete" and "settle" take
\* a node up.  before remembers the readings at the start.

\* What the move promises about: each node of it as the open project and the
\* projects below see it.
Before(R, nodes) ==
    [n \in Node |-> [P \in Layer |-> IF n \in nodes /\ P >= R THEN Reading(P, n) ELSE None]]

Job(R, d, n, members, phase) ==
    [root |-> R, dest |-> d, top |-> n, at |-> n, todo |-> members, phase |-> phase,
     full |-> None, travels |-> None, before |-> Before(R, members \cup {n}),
     leftover |-> {m \in members \cup {n} : over[R][m] # NoRows}]

\* Faulty variant: the copy is taken of the owner's file.
Copied_Canon(R, n) == Fold(R, n, file[Winner(R, n)][n], {})
Copied(R, n) == Reading(R, n)

StartFork(R, n) ==
    /\ Quiet /\ job = None
    /\ n \in Visible(R) \cap Lore /\ Winner(R, n) < R
    /\ job' = [Job(R, R, n, {}, "fork") EXCEPT !.full = Copied(R, n)]
    /\ steps' = steps + 1
    /\ UNCHANGED <<file, over, store, cut>>

WriteFork ==
    /\ job # None /\ job.phase = "fork"
    /\ file' = [file EXCEPT ![job.root][job.at] = Written(job.full, TRUE)]
    /\ job' = [job EXCEPT !.phase = "drop"]
    /\ UNCHANGED <<over, store, cut, steps>>

DropOwn ==
    /\ job # None /\ job.phase = "drop"
    /\ over' = [over EXCEPT ![job.root][job.at] = NoRows]
    /\ job' = None
    /\ UNCHANGED <<file, store, cut, steps>>

\* Everything a prompt includes, directly or not.
Closure(n) ==
    LET within[k \in 0 .. Cardinality(Node)] ==
          IF k = 0 THEN Needs[n]
          ELSE within[k - 1] \cup UNION {Needs[m] : m \in within[k - 1]}
    IN  within[Cardinality(Node)]

\* Seen from a layer.  Faulty variant: everything the open project knows of.
SeenFrom_Known(d, r) == \E l \in Layer : file[l][r] # None
SeenFrom(d, r) == r \in Visible(d)

\* What has to go up with a node.
Members(n, d) ==
    {m \in IF n \in Prompt THEN Closure(n) ELSE IF n \in MutationSet THEN Needs[n] ELSE {} :
        ~SeenFrom(d, m)}

\* A reference inside a group cannot stay behind.
Blocked(n, d) == \E r \in Nested[n] : ~SeenFrom(d, r)

\* The guard of each promotion: owned here, and by nobody else in the chain.
\* Faulty variant: only the destination is looked at.
MayPromote_DestOnly(R, n, d) ==
    n \in Visible(R) \ Other /\ Winner(R, n) = R /\ d \in 1 .. R - 1 /\ file[d][n] = None
MayPromote(R, n, d) ==
    n \in Node \ Other /\ Owners(R, n) = {R} /\ d \in 1 .. R - 1

\* What travels: the references the destination can follow.
Travels(full, d) == [full EXCEPT !.refs = {r \in @ : SeenFrom(d, r)}]

\* A node's turn: it is read and partitioned as the index stands by then.  The
\* promoted node itself comes last.
Turn(j) ==
    {[j EXCEPT !.at = m, !.todo = @ \ {m}, !.phase = "store", !.full = Reading(j.root, m),
               !.travels = Travels(Reading(j.root, m), j.dest)] :
        m \in Visible(j.root) \cap IF j.todo = {} THEN {j.top} ELSE j.todo}

\* A promotion that is refused changes nothing.  A snippet is not asked the
\* questions a prompt is; the entity of a set is promoted in its own right.
StartPromotion(R, n, d) ==
    /\ Quiet /\ job = None
    /\ MayPromote(R, n, d) /\ ~Blocked(n, d)
    /\ LET members == Members(n, d) \cap Visible(R) IN
         /\ \A m \in members : Winner(R, m) = R
         /\ n \in MutationSet => \A m \in members : MayPromote(R, m, d) /\ ~Blocked(m, d)
         /\ CascadeAfterCut \/ \A m \in members : Owners(R, m) = {R}
         /\ OntoLeftover \/ \A m \in members \cup {n} : over[d][m] = NoRows
         /\ job' \in Turn(Job(R, d, n, members, "store"))
    /\ steps' = steps + 1
    /\ UNCHANGED <<file, over, store, cut>>

\* The snapshots go first; a store in their place refuses the move.  Sets have
\* none.  Faulty variant: the file moves and its snapshots stay.
MoveStore_Stays ==
    /\ job # None /\ job.phase = "store"
    /\ job' = [job EXCEPT !.phase = "write"]
    /\ UNCHANGED <<file, over, store, cut, steps>>
MoveStore ==
    /\ job # None /\ job.phase = "store"
    /\ LET R == job.root  n == job.at IN
         IF n \in store[R] \cap store[job.dest] THEN job' = None /\ UNCHANGED store
         ELSE /\ store' = IF n \in store[R] THEN
                             [store EXCEPT ![R] = @ \ {n}, ![job.dest] = @ \cup {n}] ELSE store
              /\ job' = [job EXCEPT !.phase = "write"]
    /\ UNCHANGED <<file, over, cut, steps>>

WritePromoted ==
    /\ job # None /\ job.phase = "write"
    /\ file' = [file EXCEPT ![job.dest][job.at] = Written(job.travels, FALSE)]
    /\ job' = [job EXCEPT !.phase = "delete"]
    /\ UNCHANGED <<over, store, cut, steps>>

DeleteOrigin ==
    /\ job # None /\ job.phase = "delete" /\ file[job.root][job.at] # None
    /\ file' = [file EXCEPT ![job.root][job.at] = None]
    /\ job' = [job EXCEPT !.phase = "settle"]
    /\ UNCHANGED <<over, store, cut, steps>>

\* What stays behind.
Settled(full, travels) == IF full = travels THEN NoRows ELSE Diff(travels, full)

SettleOrigin ==
    /\ job # None /\ job.phase = "settle"
    /\ LET n == job.at IN
         /\ over' = [over EXCEPT ![job.root][n] =
                       IF n \in MutationSet THEN @ ELSE Settled(job.full, job.travels)]
         /\ IF n = job.top \/ Turn(job) = {} THEN job' = None
            ELSE job' \in Turn(job)
    /\ UNCHANGED <<file, store, cut, steps>>

\* A write fails, or the server stops: the move stays as it is.
Stop ==
    /\ job # None
    /\ job.phase \in {"drop", "settle"} => LateCut
    /\ cut' = IF job.phase \in {"write", "delete"} THEN cut \cup {<<job.at, job.phase>>} ELSE cut
    /\ job' = None
    /\ UNCHANGED <<file, over, store, steps>>

-----------------------------------------------------------------------------
Init ==
    /\ file \in Start
    /\ over = [l \in Layer |-> [n \in Node |-> NoRows]]
    /\ store = [l \in Layer |-> {}]
    /\ job = None /\ cut = {} /\ steps = 0

Next ==
    \/ \E R \in Layer, n \in Node :
         \/ \E L \in Layer, e \in Edit : Save(R, n, L, e)
         \/ \E L \in Layer, field \in {"val", "refs"} : Reset(R, n, L, field)
         \/ Capture(R, n) \/ Delete(R, n) \/ StartFork(R, n)
         \/ \E d \in Layer : StartPromotion(R, n, d)
    \/ WriteFork \/ DropOwn
    \/ MoveStore \/ WritePromoted \/ DeleteOrigin \/ SettleOrigin \/ Stop

Spec == Init /\ [][Next]_vars

-----------------------------------------------------------------------------
\* Properties.

\* TypeOK: nothing is both added and removed by one layer, and a move under way
\* is one the code can be in.
TypeOK ==
    /\ file \in [Layer -> [Node -> Content \cup {None}]]
    /\ over \in [Layer -> [Node -> Rows]]
    /\ \A l \in Layer, n \in Node : over[l][n].add \cap over[l][n].del = {}
    /\ store \in [Layer -> SUBSET Node]
    /\ cut \subseteq Node \X {"write", "delete"} /\ steps \in 0 .. MaxSteps
    /\ job # None =>
         /\ job \in Moves /\ job.dest <= job.root
         /\ \A n \in {job.at, job.top} \cup job.todo : job.before[n][job.root] # None

\* What a request writes of n.
Touched(n, L) == file[L][n] # file'[L][n] \/ over[L][n] # over'[L][n]

\* All other fields, nodes and views are left alone by an edit of n's field at
\* L; at most one reference is put in or out.
Elsewhere(n, L, field, refs) ==
    \A P \in Layer : \A m \in Visible(P) :
        LET was == Reading(P, m)  is == Reading(P, m)' IN
        \/ is = was
        \/ /\ m = n /\ P >= L
           /\ field = "refs" => is.val = was.val /\ is.refs \ refs = was.refs \ refs
           /\ field = "val" => is.refs = was.refs

\* EditsLand: an edit saved at a layer is what that layer sees afterwards, and
\* a reset shows what lies above; nothing else changes for any project of the
\* chain but the one field edited, in that layer and below.  (The diff, the
\* fold and the routing of a save, lore.py and overrides.py.)
EditsLand ==
    [][\A R \in Layer, n \in Node, L \in Layer : Touched(n, L) =>
        /\ \A e \in Edit : Save(R, n, L, e) =>
             /\ View(R, n, L)' = Edited(View(R, n, L), e)
             /\ Elsewhere(n, L, e.field, IF e.field = "val" THEN {} ELSE {e.to})
        /\ \A field \in {"val", "refs"} : Reset(R, n, L, field) =>
             /\ View(R, n, L)'[field] = Above(R, n, L)[field]
             /\ Elsewhere(n, L, field, Target)]_vars

\* MovesKeepReadings: a fork changes nothing for the project that forks and for
\* those below it.  A promotion, done or broken off, changes nothing for those
\* below, and for the project itself at most what the overrides of its
\* ancestors write onto an entry it inherits again.  (fork_lore_entry, and the
\* order of writes that promotion.py calls load-bearing.)
MovesKeepReadings ==
    [][job # None /\ job' = None =>
        \A n \in Node, P \in Layer :
            LET was == job.before[n][P] IN
            \/ was = None \/ Reading(P, n)' = was
            \/ n \in job.leftover /\ P > job.root
            \/ /\ P = job.root /\ job.dest < job.root
               /\ Reading(P, n)' = Fold(P, n, was, 1 .. P - 1)]_vars

\* DestinationClosed: whatever a layer holds leads only to what the layer can
\* see: nothing a promotion writes refers down, whenever it stops.  (The
\* partition of fields and the order of the cascade, promotion.py.)
DestinationClosed ==
    \A l \in Layer, n \in Node :
        /\ file[l][n] # None => file[l][n].refs \cup Nested[n] \cup Needs[n] \subseteq Visible(l)
        /\ over[l][n].add \subseteq Visible(l)

\* OneHome: two layers hold a node only where one has forked it, or where a
\* promotion stopped between its two files.  (The guard of promotions and its
\* comment on #2025.)
OneHome ==
    \A n \in Node :
        \/ Cardinality({l \in Layer : file[l][n] # None /\ ~file[l][n].fork}) <= 1
        \/ <<n, "delete">> \in cut
        \/ job # None /\ job.at = n

\* HistoryFollows: the snapshots of a node are where its file is, so that they
\* are found through it.  (move_scene_snapshots and _snapshot_store_root.)
HistoryFollows ==
    \A l \in Layer : \A n \in store[l] :
        \/ file[l][n] # None
        \/ <<n, "write">> \in cut
        \/ job # None /\ job.at = n
=============================================================================
