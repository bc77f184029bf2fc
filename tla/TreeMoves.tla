------------------------------ MODULE TreeMoves ------------------------------
(***************************************************************************)
(* Moving, creating and saving the nodes of a tree (tree_nodes.py,         *)
(* manuscript.py).  A request thread plans a placement from the node index *)
(* and carries it out one file at a time, each write a read and a write    *)
(* under the file's lock; saves rewrite the same files, and the process    *)
(* may go away between any two steps.                                      *)
(***************************************************************************)
EXTENDS Placement

CONSTANTS
  Worker,       \* request threads
  Mover,        \* those that serve moves and creations
  InitialTree,  \* the trees a behaviour may start from
  Prose,        \* what a node's text may be
  NewProse,     \* the text of a node just created
  MaxRequests,  \* bound: requests served
  RenamesRace,  \* bound: does rename_structure_node, which takes no lock, run
                \* beside other requests?
  NoWork, NoFile, Free

\* A node file: its placement lines, and the rest
File == [place : Place, prose : Prose]

\* What one write does to the file it was read from
Edit ==
  [kind : {"place"}, node : Node, place : Place]
    \cup [kind : {"save"}, node : Node, prose : Prose]
    \cup [kind : {"rename"}, node : Node]

\* A request: the node it places (or Top: none), where to, the edits still to
\* make, how far the first of them got, and what it read
Work ==
  [mover : Node \cup {Top}, to : Container \cup {Top}, at : Nat,
   step : {"plan", "take", "put", "tell"}, todo : Seq(Edit), read : File \cup {NoFile}]

ASSUME TreeMovesAssumption ==
  /\ Mover \subseteq Worker
  /\ InitialTree \subseteq Tree
  /\ NewProse \in Prose
  /\ MaxRequests \in Nat
  /\ RenamesRace \in BOOLEAN
  /\ NoWork \notin Work /\ NoFile \notin File /\ Free \notin Worker
  /\ Absent \notin File

VARIABLES
  file,      \* the node files
  shown,     \* the placements in the node index, which trees are built from
  work,      \* work[w]: the request thread w is serving
  lock,      \* lock[n]: the holder of the file's lock (file_lock)
  meant,     \* what each file was last told to say: its placement by the last
             \* placement write, its prose by the last save
  requests   \* how many were served

vars == <<file, shown, work, lock, meant, requests>>

-----------------------------------------------------------------------------
\* The tree the files say, and the ranks of a tree
OnDisk == [n \in Node |-> IF file[n] = Absent THEN Absent ELSE file[n].place]
RankOf(tree) == [n \in NodesOf(tree) |-> tree[n].rank]

Init ==
  /\ \E tree \in InitialTree :
       /\ shown = tree
       /\ file = [n \in Node |-> IF tree[n] = Absent THEN Absent
                                 ELSE [place |-> tree[n], prose |-> NewProse]]
  /\ work = [w \in Worker |-> NoWork]
  /\ lock = [n \in Node |-> Free]
  /\ meant = file
  /\ requests = 0

Doing(w, step) == work[w] # NoWork /\ work[w].step = step
Current(w) == Head(work[w].todo)
Locks(edit) == edit.kind # "rename"

Busy(w) == work[w] # NoWork
Renames(w) == (Doing(w, "take") \/ Doing(w, "put") \/ Doing(w, "tell")) /\ ~Locks(Current(w))

Serves(w, request) ==
  /\ ~Busy(w)
  /\ RenamesRace \/ ~\E v \in Worker : Renames(v)
  /\ requests < MaxRequests
  /\ requests' = requests + 1
  /\ work' = [work EXCEPT ![w] = request]

Request(mover, to, at, step, todo) ==
  [mover |-> mover, to |-> to, at |-> at, step |-> step, todo |-> todo, read |-> NoFile]

\* _move_tree_node: the target holds nodes, and is not inside what moves
StartMove(w, n, to, at) ==
  /\ w \in Mover
  /\ shown[n] # Absent
  /\ to # Top => shown[to] # Absent /\ ~Contains(shown, n, to)
  /\ Serves(w, Request(n, to, at, "plan", <<>>))
  /\ UNCHANGED <<file, shown, lock, meant>>

\* create_scene, create_structure_node: a file under a new id, without a
\* placement; its notice comes next, and then it is appended under `to`
Create(w, n, to) ==
  /\ w \in Mover
  /\ file[n] = Absent
  /\ to # Top => shown[to] # Absent
  /\ file' = [file EXCEPT ![n] = [place |-> [parent |-> Top, rank |-> NoRank],
                                  prose |-> NewProse]]
  /\ meant' = [meant EXCEPT ![n] = file'[n]]
  /\ Serves(w, Request(n, to, Cardinality(Node), "tell",
                       <<[kind |-> "save", node |-> n, prose |-> NewProse]>>))
  /\ UNCHANGED <<shown, lock>>

\* save_scene
StartSave(w, n, prose) ==
  /\ shown[n] # Absent
  /\ Serves(w, Request(Top, Top, 0, "take",
                       <<[kind |-> "save", node |-> n, prose |-> prose]>>))
  /\ UNCHANGED <<file, shown, lock, meant>>

\* rename_structure_node: reads the file and writes it back with another title
StartRename(w, n) ==
  /\ RenamesRace \/ ~\E v \in Worker : Busy(v)
  /\ shown[n] # Absent
  /\ Serves(w, Request(Top, Top, 0, "take", <<[kind |-> "rename", node |-> n]>>))
  /\ UNCHANGED <<file, shown, lock, meant>>

-----------------------------------------------------------------------------
Leave(w) == work' = [work EXCEPT ![w] = NoWork]

\* The edits of _place_node: the planned ranks, a sibling's under the parent its
\* file names.  A node already in its slot under a parent the tree could not
\* honour has its file say what the tree shows.
PlacementEdits(n, to, at) ==
  LET writes == PlanPlacement(RankOf(shown), Siblings(shown, to), n, at)
      Placed(m, rank) ==
        [kind |-> "place", node |-> m,
         place |-> [parent |-> IF m = n THEN to ELSE shown[m].parent, rank |-> rank]]
  IN IF writes = <<>> /\ shown[n].parent # to
     THEN <<Placed(n, shown[n].rank)>>
     ELSE [i \in DOMAIN writes |-> Placed(writes[i].node, writes[i].rank)]

\* _place_node: plan from the tree as the index has it now
Plan(w) ==
  /\ Doing(w, "plan")
  /\ LET edits == PlacementEdits(work[w].mover, work[w].to, work[w].at)
     IN IF edits = <<>> THEN Leave(w)
        ELSE work' = [work EXCEPT ![w].step = "take", ![w].todo = edits]
  /\ UNCHANGED <<file, shown, lock, meant, requests>>

\* Faulty variant: reads without waiting for the file's lock
MayTakeAnyway(w) == TRUE
\* with file_lock(path), which a rename does not enter
MayTake(w) == Locks(Current(w)) => lock[Current(w).node] = Free

\* Read the file, which is there (reading it raises otherwise: Fail)
Take(w) ==
  /\ Doing(w, "take")
  /\ Current(w).node \in NodesOf(OnDisk)
  /\ MayTake(w)
  /\ work' = [work EXCEPT ![w].step = "put", ![w].read = file[Current(w).node]]
  /\ lock' = IF Locks(Current(w)) THEN [lock EXCEPT ![Current(w).node] = w] ELSE lock
  /\ UNCHANGED <<file, shown, meant, requests>>

\* Faulty variant: a save re-emits the placement the index shows
EditedFromIndex(content, edit) ==
  CASE edit.kind = "place" -> [content EXCEPT !.place = edit.place]
    [] edit.kind = "save" -> [prose |-> edit.prose, place |-> shown[edit.node]]
    [] edit.kind = "rename" -> content

\* What an edit makes of the file it was read from: a move keeps the prose, a
\* save the placement (set_placement_in_text, _with_disk_placement)
Edited(content, edit) ==
  CASE edit.kind = "place" -> [content EXCEPT !.place = edit.place]
    [] edit.kind = "save" -> [content EXCEPT !.prose = edit.prose]
    [] edit.kind = "rename" -> content

\* History: the placement is a move's to change, and the prose a save's
Told(content, edit) ==
  [place |-> IF edit.kind = "place" THEN edit.place ELSE content.place,
   prose |-> IF edit.kind = "save" THEN edit.prose ELSE content.prose]

Unlocked(w) == [n \in Node |-> IF lock[n] = w THEN Free ELSE lock[n]]

\* What w does after an edit: the next one, or, for a node just created, its
\* placement
Onward(w) ==
  LET rest == Tail(work[w].todo)
  IN IF rest # <<>>
     THEN [work[w] EXCEPT !.step = "take", !.todo = rest, !.read = NoFile]
     ELSE IF work[w].mover # Top /\ Current(w).kind = "save"
     THEN [work[w] EXCEPT !.step = "plan", !.todo = <<>>, !.read = NoFile]
     ELSE NoWork

\* Write it back and leave the lock (_write_scene_file).  _write_placement writes
\* nothing, and tells nobody, when the lines are there already.
Put(w) ==
  /\ Doing(w, "put")
  /\ LET n == Current(w).node
         new == Edited(work[w].read, Current(w))
         skip == Current(w).kind = "place" /\ new = work[w].read
     IN /\ file' = IF skip THEN file ELSE [file EXCEPT ![n] = new]
        /\ meant' = [meant EXCEPT ![n] = Told(@, Current(w))]
        /\ work' = [work EXCEPT ![w] =
                      IF skip THEN Onward(w)
                      ELSE [@ EXCEPT !.step = "tell", !.read = NoFile]]
  /\ lock' = Unlocked(w)
  /\ UNCHANGED <<shown, requests>>

\* _maintain_index_after_write: the index reads the file
Tell(w) ==
  /\ Doing(w, "tell")
  /\ LET n == Current(w).node
     IN shown' = [shown EXCEPT ![n] = file[n].place]
  /\ work' = [work EXCEPT ![w] = Onward(w)]
  /\ UNCHANGED <<file, lock, meant, requests>>

\* A read or a write raises (OSError), and the request ends there
Fail(w) ==
  /\ Doing(w, "take") \/ Doing(w, "put")
  /\ Leave(w)
  /\ lock' = Unlocked(w)
  /\ UNCHANGED <<file, shown, meant, requests>>

\* The process goes away; the next one indexes the files it finds
Crash ==
  /\ \E w \in Worker : Busy(w)
  /\ work' = [w \in Worker |-> NoWork]
  /\ lock' = [n \in Node |-> Free]
  /\ shown' = OnDisk
  /\ UNCHANGED <<file, meant, requests>>

Next ==
  \/ \E w \in Worker :
       \/ \E n \in Node :
            \/ \E to \in Container \cup {Top} :
                 \/ \E at \in 0..Cardinality(Node) - 1 : StartMove(w, n, to, at)
                 \/ Create(w, n, to)
            \/ \E prose \in Prose : StartSave(w, n, prose)
            \/ StartRename(w, n)
       \/ Plan(w) \/ Take(w) \/ Put(w) \/ Tell(w) \/ Fail(w)
  \/ Crash

Spec == Init /\ [][Next]_vars

-----------------------------------------------------------------------------
(* What should hold *)

\* Every variable holds what the code keeps there; who is between reading and
\* writing a file holds its lock, and a lock is held for nothing else.
TypeOK ==
  /\ file \in [Node -> File \cup {Absent}]
  /\ shown \in Tree
  /\ work \in [Worker -> Work \cup {NoWork}]
  /\ lock \in [Node -> Worker \cup {Free}]
  /\ meant \in [Node -> File \cup {Absent}]
  /\ requests \in Nat
  /\ \A w \in Worker : Busy(w) /\ work[w].step # "plan" => work[w].todo # <<>>
  /\ \A n \in Node, w \in Worker :
       lock[n] = w <=> Doing(w, "put") /\ Locks(Current(w)) /\ Current(w).node = n

\* placement.py:265-270: no save ever puts back the placement a move just
\* changed, and no move the prose a save just wrote, because each "holds the
\* file's lock from its read to its write".
NothingLost == file = meant

\* The nodes no request is placing
Bystanders == {n \in NodesOf(OnDisk) : \A w \in Worker : Busy(w) => work[w].mover # n}

\* placement.py:9-14: "every intermediate state of its writes is in the right
\* order, so a crash part-way through leaves the tree correct".  No write, and no
\* crash, changes the order of two siblings that nobody moves.
OrderKept ==
  [][LET old == OnDisk
         new == OnDisk'
     IN \A m, n \in Bystanders :
          /\ Before(RankOf(old), m, n)
          /\ ~Before(RankOf(new), m, n)
          => \/ HonouredParent(old, m) # HonouredParent(old, n)
             \/ HonouredParent(new, m) # HonouredParent(new, n)]_vars

\* A placement that was carried out has put the node where it was asked to go:
\* under `to`, with that many siblings before it (or all of them), and with a
\* rank.
Lands(w) ==
  LET n == work[w].mover
      group == Siblings(OnDisk', work[w].to)
      others == group \ {n}
      rank == RankOf(OnDisk')
  IN /\ n \in group
     /\ IndexIn(rank, group, n) =
          IF work[w].at < Cardinality(others) THEN work[w].at ELSE Cardinality(others)
     /\ rank[n] # NoRank

\* The last thing a placement does: nothing, or its last write
Settles(w) ==
  \/ Plan(w) /\ work'[w] = NoWork
  \/ Put(w) /\ Current(w).kind = "place" /\ Len(work[w].todo) = 1

MoveLands ==
  [][\A w \in Worker :
       Settles(w) => Lands(w)]_vars
=============================================================================
