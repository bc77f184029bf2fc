-------------------------- MODULE LayerMovesProofs --------------------------
(***************************************************************************)
(* One home for every node, its history with it, and no reference that     *)
(* leads down: for every chain of layers, every set of nodes and every     *)
(* number of requests.                                                     *)
(***************************************************************************)
EXTENDS LayerMoves, FiniteSetTheorems, WellFoundedInduction, TLAPS

Has(l, n) == file[l][n] # None
Moving == job # None
Promoting == Moving /\ job.phase \in {"store", "write", "delete", "settle"}

\* A move under way, with what its steps read of it
JobInv == Moving =>
    /\ job.full \in Text
    /\ job.phase \in {"fork", "drop"} => job.dest = job.root /\ job.todo = {}
    /\ Promoting => job.dest < job.root /\ job.travels \in Text

-----------------------------------------------------------------------------
\* Whatever another layer has of a node, it is a fork, below
OnlyForks(R, n) == \A k \in Layer : Has(k, n) /\ k # R =>
    R < k /\ (file[k][n].fork \/ <<n, "delete">> \in cut)

\* A file below another file of its node is a fork, or what a promotion has
\* not deleted yet
ForksBelow == \A n \in Node, l, k \in Layer :
    Has(l, n) /\ Has(k, n) /\ l < k /\ ~file[k][n].fork =>
        \/ <<n, "delete">> \in cut
        \/ Moving /\ job.phase = "delete" /\ job.at = n /\ job.root = k

\* A move writes its file where it makes no second home
HomeInv ==
    /\ ForksBelow
    /\ Moving /\ job.phase = "fork" =>
         \A k \in Layer : job.root < k /\ Has(k, job.at) =>
             file[k][job.at].fork \/ <<job.at, "delete">> \in cut
    /\ Promoting =>
         /\ job.phase \in {"store", "write"} => OnlyForks(job.root, job.at)
         /\ \A m \in job.todo : m # job.at /\ OnlyForks(job.root, m)
         /\ job.top # job.at => OnlyForks(job.root, job.top)

-----------------------------------------------------------------------------
\* A store is with the file, or a promotion has moved it ahead of the file
StoreInv ==
    /\ \A l \in Layer : \A n \in store[l] :
         \/ Has(l, n)
         \/ <<n, "write">> \in cut
         \/ Moving /\ job.at = n /\ job.phase = "write" /\ job.dest = l
    /\ Moving /\ job.phase \in {"write", "delete"} => job.at \notin store[job.root]

-----------------------------------------------------------------------------
\* Snippets do not include snippets, nor group what they list
FlatSnippets == \A n \in Prompt : \A m \in Needs[n] : Needs[m] = {} /\ Nested[m] = {}

\* What some file needs, and what no deletion takes out of sight
Needed == {r \in Node : \E l \in Layer, m \in Node : Has(l, m) /\ r \in Needs[m]}
Kept == Target \cup (Node \ Lore) \cup Needed

\* What a promotion carries on with
Carried(j) ==
    /\ j.travels.refs \cup Nested[j.at] \cup Nested[j.top] \subseteq Visible(j.dest)
    /\ \A m \in j.todo : m \in Needs[j.top] /\ Needs[m] = {} /\ Nested[m] \subseteq Visible(j.dest)
    /\ IF j.at = j.top THEN j.todo = {} ELSE j.at \in Needs[j.top] /\ Needs[j.at] = {}
    /\ Needs[j.top] \ {j.at} \subseteq Visible(j.dest) \cup j.todo
    /\ j.top \notin Needs[j.top] /\ Needs[j.top] \subseteq Needed

\* What a promotion takes up leads to what its destination sees, what it will
\* see by then, and what goes up before
ClosedInv ==
    /\ DestinationClosed
    /\ Moving => job.full.refs \subseteq Visible(job.root)
    /\ Moving /\ job.phase = "fork" =>
         Needs[job.at] = {} /\ Nested[job.at] \subseteq Visible(job.root)
    /\ Promoting =>
         /\ Carried(job)
         /\ job.phase \in {"delete", "settle"} => job.at \in Visible(job.dest) \/ job.at \notin Kept

-----------------------------------------------------------------------------
(* What an open project sees *)

\* A set of layers has an innermost one
LEMMA InnermostLayer ==
  ASSUME NEW R \in Nat, NEW S \in SUBSET (1 .. R), S # {}
  PROVE  Max(S) \in S /\ \A y \in S : y <= Max(S)
<1> DEFINE U == {u \in Nat : \A y \in S : y <= u}
           Less == OpToRel(<, Nat)
<1>1. IsWellFoundedOn(Less, Nat)
  BY NatLessThanWellFounded
<1>2. \A a, b \in Nat : a < b => <<a, b>> \in Less
  BY DEF OpToRel
<1>3. U \subseteq Nat /\ R \in U
  OBVIOUS
<1>4. PICK u \in U : \A v \in U : <<v, u>> \notin Less
  <2> HIDE DEF U, Less
  <2> QED  BY <1>1, <1>3, WFMin
<1>5. u \in S
  <2> SUFFICES ASSUME u \notin S PROVE FALSE
    OBVIOUS
  <2>1. u \in Nat /\ \A y \in S : y \in Nat /\ 1 <= y /\ y <= u /\ y # u
    OBVIOUS
  <2>2. u - 1 \in Nat /\ u - 1 < u
    <3>1. PICK y \in S : TRUE
      OBVIOUS
    <3> HIDE DEF U, Less
    <3> QED  BY <2>1, <3>1
  <2>4. \A y \in S : y <= u - 1
    <3> HIDE DEF U, Less
    <3> QED  BY <2>1
  <2>3. u - 1 \in U
    BY <2>2, <2>4
  <2> HIDE DEF U, Less
  <2> QED  BY <1>2, <1>4, <2>1, <2>2, <2>3
<1>6. \A y \in S : u >= y
  OBVIOUS
<1> QED  BY <1>5, <1>6 DEF Max

\* A file that is there has a text
LEMMA FileText ==
  ASSUME TypeOK, NEW l \in Layer, NEW n \in Node, Has(l, n)
  PROVE  file[l][n] \in Content
BY DEF TypeOK, Has

\* What is visible has an innermost owner among the layers down to the view
LEMMA WinnerOwns ==
  ASSUME NEW R \in Layer, NEW n \in Visible(R)
  PROVE  /\ n \in Node /\ Winner(R, n) \in Layer /\ Winner(R, n) <= R
         /\ Has(Winner(R, n), n)
         /\ \A l \in 1 .. R : Has(l, n) => l <= Winner(R, n)
<1>1. R \in Nat /\ 1 .. R \subseteq Layer
  BY LayerMovesAssumption DEF Layer
<1>2. Owners(R, n) \in SUBSET (1 .. R) /\ Owners(R, n) # {}
  BY DEF Visible, Owners
<1>3. Max(Owners(R, n)) \in Owners(R, n) /\ \A y \in Owners(R, n) : y <= Max(Owners(R, n))
  BY <1>1, <1>2, InnermostLayer
<1> QED  BY <1>1, <1>3 DEF Winner, Owners, Visible, Has

\* A layer sees what the layers above it see
LEMMA SeesMore ==
  ASSUME NEW l \in Layer, NEW k \in Layer, l <= k
  PROVE  Visible(l) \subseteq Visible(k)
BY LayerMovesAssumption DEF Visible, Owners, Layer

\* Rows folded onto a text make a text
LEMMA FoldText ==
  ASSUME TypeOK, NEW R \in Layer, NEW n \in Node, NEW base, base.val \in Value,
         NEW layers \in SUBSET Layer
  PROVE  Fold(R, n, base, layers) \in Text
<1> DEFINE rows == {l \in layers : over[l][n].val # None}
<1>1. FoldVal(n, base, layers) \in Value
  <2>1. CASE rows = {}
    BY <2>1 DEF FoldVal
  <2>2. CASE rows # {}
    <3>1. Depth \in Nat /\ rows \in SUBSET (1 .. Depth)
      BY LayerMovesAssumption DEF Layer
    <3>2. Max(rows) \in rows
      BY <2>2, <3>1, InnermostLayer
    <3>3. Max(rows) \in Layer /\ over[Max(rows)][n].val # None
      BY <3>2
    <3>4. over[Max(rows)][n] \in Rows
      BY <3>3 DEF TypeOK
    <3> QED  BY <2>2, <3>3, <3>4 DEF FoldVal, Rows
  <2> QED  BY <2>1, <2>2
<1>2. FoldRefs(n, base, layers) \subseteq Target
  BY DEF FoldRefs
<1> QED  BY <1>1, <1>2 DEF Fold, Text

\* ... that leads only to what the text and the rows lead to
LEMMA FoldLeads ==
  ASSUME NEW R \in Layer, NEW n \in Node, NEW base,
         NEW layers \in SUBSET Layer, NEW V, base.refs \subseteq V,
         \A l \in layers : over[l][n].add \subseteq V
  PROVE  Fold(R, n, base, layers).refs \subseteq V \cap Visible(R)
<1> SUFFICES ASSUME NEW r \in FoldRefs(n, base, layers) PROVE r \in V
  BY DEF Fold
<1> DEFINE rows == {l \in layers : r \in over[l][n].add \cup over[l][n].del}
<1>1. CASE rows = {}
  BY <1>1 DEF FoldRefs
<1>2. CASE rows # {}
  <2>1. Depth \in Nat /\ rows \in SUBSET (1 .. Depth)
    BY LayerMovesAssumption DEF Layer
  <2>2. Max(rows) \in rows
    BY <1>2, <2>1, InnermostLayer
  <2>3. r \in over[Max(rows)][n].add
    BY <1>2 DEF FoldRefs
  <2> QED  BY <2>2, <2>3
<1> QED  BY <1>1, <1>2

\* What a project reads is a text
LEMMA ViewText ==
  ASSUME TypeOK, NEW R \in Layer, NEW n \in Visible(R), NEW L \in Layer
  PROVE  /\ View(R, n, L) \in Text /\ View(R, n, L).refs \subseteq Visible(R)
         /\ Above(R, n, L) \in Text
<1>1. n \in Node /\ Winner(R, n) \in Layer /\ Has(Winner(R, n), n)
  BY WinnerOwns
<1>2. file[Winner(R, n)][n].val \in Value
  BY <1>1, FileText DEF Content
<1>3. Shown(R, n, L) \in SUBSET Layer /\ (1 .. L - 1) \in SUBSET Layer
  BY LayerMovesAssumption DEF Shown, Layer
<1>4. View(R, n, L) \in Text /\ Above(R, n, L) \in Text
  BY <1>1, <1>2, <1>3, FoldText DEF View, Above
<1>5. View(R, n, L).refs \subseteq Visible(R)
  BY DEF View, Fold
<1> QED  BY <1>4, <1>5

-----------------------------------------------------------------------------
(* A move, from one node of it to the next *)

\* What travels of a text is a text the destination can follow
LEMMA TravelsText ==
  ASSUME NEW full \in Text, NEW d
  PROVE  /\ Travels(full, d) \in Text
         /\ Travels(full, d).refs = full.refs \cap Visible(d)
BY DEF Travels, Text, SeenFrom


\* What a move remembers of its start
LEMMA BeforeType ==
  ASSUME TypeOK, NEW R \in Layer, NEW nodes \in SUBSET Visible(R)
  PROVE  /\ Before(R, nodes) \in [Node -> [Layer -> Text \cup {None}]]
         /\ \A m \in nodes : Before(R, nodes)[m][R] # None
<1>1. \A m \in nodes, P \in Layer : P >= R => Reading(P, m) \in Text
  <2> TAKE m \in nodes, P \in Layer
  <2> HAVE P >= R
  <2>1. R <= P
    BY LayerMovesAssumption DEF Layer
  <2>2. m \in Visible(P)
    BY <2>1, SeesMore
  <2> QED  BY <2>2, ViewText DEF Reading
<1>2. R >= R /\ nodes \subseteq Node /\ None \notin Text
  BY LayerMovesAssumption DEF Layer, Visible
<1> QED  BY <1>1, <1>2 DEF Before

\* A job at its start
LEMMA JobSays ==
  ASSUME TypeOK, NEW R \in Layer, NEW d \in Layer, NEW n, NEW members \in SUBSET Visible(R),
         n \in Visible(R), NEW phase \in {"fork", "store"}
  PROVE  LET j == Job(R, d, n, members, phase) IN
         /\ j \in Moves
         /\ j.root = R /\ j.dest = d /\ j.top = n /\ j.at = n
         /\ j.todo = members /\ j.phase = phase
         /\ \A m \in members \cup {n} : j.before[m][R] # None
<1> DEFINE nodes == members \cup {n}
           j == Job(R, d, n, members, phase)
<1>1. nodes \in SUBSET Visible(R) /\ nodes \subseteq Node
  BY DEF Visible
<1>2. /\ Before(R, nodes) \in [Node -> [Layer -> Text \cup {None}]]
      /\ \A m \in nodes : Before(R, nodes)[m][R] # None
  BY <1>1, BeforeType
<1>3. {m \in nodes : over[R][m] # NoRows} \in SUBSET Node
  BY <1>1
<1>4. n \in Node /\ members \in SUBSET Node
  BY <1>1
<1>5. j \in Moves
  BY <1>2, <1>3, <1>4 DEF Job, Moves
<1>6. /\ j.root = R /\ j.dest = d /\ j.top = n /\ j.at = n
      /\ j.todo = members /\ j.phase = phase /\ j.before = Before(R, nodes)
  BY DEF Job
<1> QED  BY <1>2, <1>5, <1>6

\* A node's turn
LEMMA TurnSays ==
  ASSUME TypeOK, NEW j \in Moves, NEW t \in Turn(j)
  PROVE  /\ t \in Moves
         /\ t.root = j.root /\ t.dest = j.dest /\ t.top = j.top /\ t.before = j.before
         /\ t.phase = "store" /\ t.todo = j.todo \ {t.at}
         /\ t.at \in IF j.todo = {} THEN {j.top} ELSE j.todo
         /\ t.at \in Visible(j.root)
         /\ t.full \in Text /\ t.full.refs \subseteq Visible(j.root)
         /\ t.travels \in Text /\ t.travels.refs \subseteq Visible(j.dest)
<1>1. PICK m \in Visible(j.root) \cap IF j.todo = {} THEN {j.top} ELSE j.todo :
        t = [j EXCEPT !.at = m, !.todo = @ \ {m}, !.phase = "store", !.full = Reading(j.root, m),
                      !.travels = Travels(Reading(j.root, m), j.dest)]
  BY DEF Turn
<1>2. j.root \in Layer /\ m \in Node /\ j.todo \ {m} \in SUBSET Node
  BY DEF Moves, Visible
<1>3. Reading(j.root, m) \in Text /\ Reading(j.root, m).refs \subseteq Visible(j.root)
  BY <1>2, ViewText DEF Reading
<1>4. /\ Travels(Reading(j.root, m), j.dest) \in Text
      /\ Travels(Reading(j.root, m), j.dest).refs \subseteq Visible(j.dest)
  BY <1>3, TravelsText
<1> DEFINE reading == Reading(j.root, m)
           travelling == Travels(reading, j.dest)
<1> HIDE DEF reading, travelling
<1>5. t = [j EXCEPT !.at = m, !.todo = @ \ {m}, !.phase = "store", !.full = reading,
                    !.travels = travelling]
  BY <1>1 DEF reading, travelling
<1>6. reading \in Text /\ travelling \in Text
  BY <1>3, <1>4 DEF reading, travelling
<1>7. /\ t \in Moves
      /\ t.root = j.root /\ t.dest = j.dest /\ t.top = j.top /\ t.before = j.before
      /\ t.at = m /\ t.todo = j.todo \ {m} /\ t.phase = "store"
      /\ t.full = reading /\ t.travels = travelling
  BY <1>2, <1>5, <1>6 DEF Moves
<1>8. m \in Visible(j.root) /\ m \in IF j.todo = {} THEN {j.top} ELSE j.todo
  BY <1>1
<1> QED  BY <1>3, <1>4, <1>7, <1>8 DEF reading, travelling

\* A fork at its start
LEMMA ForkSays ==
  ASSUME TypeOK, NEW R \in Layer, NEW n \in Node, StartFork(R, n)
  PROVE  /\ job' \in Moves /\ job'.before[n][R] # None
         /\ job'.root = R /\ job'.dest = R /\ job'.top = n /\ job'.at = n
         /\ job'.todo = {} /\ job'.phase = "fork"
         /\ job'.full \in Text /\ job'.full.refs \subseteq Visible(R)
         /\ n \in Visible(R) /\ Winner(R, n) < R
         /\ job = None /\ UNCHANGED <<file, over, store, cut>>
<1> DEFINE j == Job(R, R, n, {}, "fork")
<1>1. /\ n \in Visible(R) /\ Winner(R, n) < R
      /\ job = None /\ UNCHANGED <<file, over, store, cut>>
      /\ job' = [j EXCEPT !.full = Reading(R, n)]
  BY DEF StartFork, Copied
<1>2. Reading(R, n) \in Text /\ Reading(R, n).refs \subseteq Visible(R)
  BY <1>1, ViewText DEF Reading
<1>3. /\ j \in Moves /\ j.before[n][R] # None
      /\ j.root = R /\ j.dest = R /\ j.top = n /\ j.at = n
      /\ j.todo = {} /\ j.phase = "fork"
  BY <1>1, JobSays
<1> HIDE DEF j
<1>4. /\ job' \in Moves /\ job'.before = j.before
      /\ job'.root = R /\ job'.dest = R /\ job'.top = n /\ job'.at = n
      /\ job'.todo = {} /\ job'.phase = "fork" /\ job'.full = Reading(R, n)
  BY <1>1, <1>2, <1>3 DEF Moves
<1> QED  BY <1>1, <1>2, <1>3, <1>4

Up(R, n, d) == Members(n, d) \cap Visible(R)

\* A promotion at its start
LEMMA PromotionSays ==
  ASSUME TypeOK, NEW R \in Layer, NEW n \in Node, NEW d \in Layer, StartPromotion(R, n, d)
  PROVE  /\ job' \in Moves /\ \A m \in Up(R, n, d) \cup {n} : job'.before[m][R] # None
         /\ job'.root = R /\ job'.dest = d /\ d < R /\ job'.top = n
         /\ job'.phase = "store" /\ job'.todo = Up(R, n, d) \ {job'.at}
         /\ job'.at \in IF Up(R, n, d) = {} THEN {n} ELSE Up(R, n, d)
         /\ job'.full \in Text /\ job'.full.refs \subseteq Visible(R)
         /\ job'.travels \in Text /\ job'.travels.refs \subseteq Visible(d)
         /\ Owners(R, n) = {R} /\ n \notin Other /\ ~Blocked(n, d)
         /\ n \in MutationSet => \A m \in Up(R, n, d) : ~Blocked(m, d)
         /\ CascadeAfterCut \/ \A m \in Up(R, n, d) : Owners(R, m) = {R}
         /\ job = None /\ UNCHANGED <<file, over, store, cut>>
<1> DEFINE j == Job(R, d, n, Up(R, n, d), "store")
<1>1. /\ MayPromote(R, n, d) /\ ~Blocked(n, d)
      /\ n \in MutationSet => \A m \in Up(R, n, d) : ~Blocked(m, d)
      /\ CascadeAfterCut \/ \A m \in Up(R, n, d) : Owners(R, m) = {R}
      /\ job = None /\ UNCHANGED <<file, over, store, cut>>
      /\ job' \in Turn(j)
  BY DEF StartPromotion, Up
<1>2. Owners(R, n) = {R} /\ n \notin Other /\ d < R
  BY <1>1, LayerMovesAssumption DEF MayPromote, Layer
<1>3. n \in Visible(R) /\ Up(R, n, d) \in SUBSET Visible(R)
  BY <1>2 DEF Visible, Up
<1>4. /\ j \in Moves /\ \A m \in Up(R, n, d) \cup {n} : j.before[m][R] # None
      /\ j.root = R /\ j.dest = d /\ j.top = n /\ j.todo = Up(R, n, d)
  BY <1>3, JobSays
<1> HIDE DEF j
<1>5. /\ job' \in Moves
      /\ job'.root = R /\ job'.dest = d /\ job'.top = n /\ job'.before = j.before
      /\ job'.phase = "store" /\ job'.todo = Up(R, n, d) \ {job'.at}
      /\ job'.at \in IF Up(R, n, d) = {} THEN {n} ELSE Up(R, n, d)
      /\ job'.full \in Text /\ job'.full.refs \subseteq Visible(R)
      /\ job'.travels \in Text /\ job'.travels.refs \subseteq Visible(d)
  <2>1. job' \in Turn(j) /\ j \in Moves
    BY <1>1, <1>4
  <2>2. /\ job' \in Moves
        /\ job'.root = j.root /\ job'.dest = j.dest /\ job'.top = j.top /\ job'.before = j.before
        /\ job'.phase = "store" /\ job'.todo = j.todo \ {job'.at}
        /\ job'.at \in IF j.todo = {} THEN {j.top} ELSE j.todo
        /\ job'.full \in Text /\ job'.full.refs \subseteq Visible(j.root)
        /\ job'.travels \in Text /\ job'.travels.refs \subseteq Visible(j.dest)
    BY <2>1, TurnSays
  <2> QED  BY <1>4, <2>2
<1> QED  BY <1>1, <1>2, <1>4, <1>5

-----------------------------------------------------------------------------
(* Types *)

\* An edit of a text is a text
LEMMA EditedText ==
  ASSUME NEW view \in Text, NEW e \in Edit
  PROVE  Edited(view, e) \in Text
<1>1. CASE e.field = "val"
  BY <1>1 DEF Edit, Edited, Text
<1>2. CASE e.field # "val"
  <2>1. e.to \in Target
    BY <1>2 DEF Edit
  <2> QED  BY <1>2, <2>1 DEF Edited, Text
<1> QED  BY <1>1, <1>2

\* The delta between two texts adds nothing that it removes
LEMMA DiffRows ==
  ASSUME NEW base \in Text, NEW submitted \in Text
  PROVE  /\ Diff(base, submitted) \in Rows
         /\ Diff(base, submitted).add \cap Diff(base, submitted).del = {}
         /\ Diff(base, submitted).add = submitted.refs \ base.refs
BY DEF Diff, Rows, Text

\* The empty row
LEMMA NoRowsRows == NoRows \in Rows /\ NoRows.add = {} /\ NoRows.del = {}
BY DEF NoRows, Rows

\* A field's rows dropped
LEMMA ClearedRows ==
  ASSUME NEW rows \in Rows, rows.add \cap rows.del = {}, NEW field
  PROVE  /\ Cleared(rows, field) \in Rows
         /\ Cleared(rows, field).add \cap Cleared(rows, field).del = {}
         /\ Cleared(rows, field).add \subseteq rows.add
BY DEF Cleared, Rows

\* A text in a file
LEMMA WrittenContent ==
  ASSUME NEW text \in Text, NEW fork \in BOOLEAN
  PROVE  /\ Written(text, fork) \in Content /\ Written(text, fork) # None
         /\ Written(text, fork).fork = fork /\ Written(text, fork).refs = text.refs
BY LayerMovesAssumption DEF Written, Text, Content

FileTyped == file \in [Layer -> [Node -> Content \cup {None}]]
OverTyped == /\ over \in [Layer -> [Node -> Rows]]
             /\ \A l \in Layer, n \in Node : over[l][n].add \cap over[l][n].del = {}

\* One file written
LEMMA FileWritten ==
  ASSUME FileTyped, NEW l \in Layer, NEW n \in Node, NEW c \in Content \cup {None},
         file' = [file EXCEPT ![l][n] = c]
  PROVE  /\ FileTyped'
         /\ file'[l][n] = c
         /\ \A k \in Layer, m \in Node : k # l \/ m # n => file'[k][m] = file[k][m]
BY DEF FileTyped

\* The rows of one node in one layer written
LEMMA OverWritten ==
  ASSUME OverTyped, NEW l \in Layer, NEW n \in Node, NEW rows \in Rows,
         rows.add \cap rows.del = {}, over' = [over EXCEPT ![l][n] = rows]
  PROVE  /\ OverTyped'
         /\ over'[l][n] = rows
         /\ \A k \in Layer, m \in Node : k # l \/ m # n => over'[k][m] = over[k][m]
<1>1. /\ over' \in [Layer -> [Node -> Rows]] /\ over'[l][n] = rows
      /\ \A k \in Layer, m \in Node : k # l \/ m # n => over'[k][m] = over[k][m]
  BY DEF OverTyped
<1>2. \A k \in Layer, m \in Node : over'[k][m].add \cap over'[k][m].del = {}
  BY <1>1 DEF OverTyped
<1> QED  BY <1>1, <1>2 DEF OverTyped

\* A save of a file, or of the rows of a layer below it
LEMMA SaveSays ==
  ASSUME TypeOK, NEW R \in Layer, NEW n \in Node, NEW L \in Layer, NEW e \in Edit, Save(R, n, L, e)
  PROVE  LET o == Winner(R, n)  text == Edited(View(R, n, L), e) IN
         /\ n \in Visible(R) /\ o \in Layer /\ o <= L /\ L <= R /\ (o = R => L = R)
         /\ Has(o, n) /\ text \in Text
         /\ \/ /\ L = o /\ over' = over
               /\ file' = [file EXCEPT ![o][n] = Written(text, file[o][n].fork)]
            \/ /\ o < L /\ file' = file
               /\ over' = [over EXCEPT ![L][n] = Diff(Above(R, n, L), text)]
         /\ text.refs \ View(R, n, L).refs \subseteq
              IF RefsReachDown THEN Visible(R) ELSE Visible(L)
         /\ store' = store \/ store' = [store EXCEPT ![o] = @ \cup {n}]
         /\ job' = job /\ cut' = cut
<1> DEFINE o == Winner(R, n)
           text == Edited(View(R, n, L), e)
<1>1. /\ n \in Visible(R) /\ L <= R
      /\ IF n \in Prompt \/ o = R THEN L = R ELSE L >= o
  BY DEF Save, MayAuthor
<1>2. o \in Layer /\ o <= R /\ Has(o, n)
  BY <1>1, WinnerOwns
<1>3. o <= L /\ (L # o => o < L)
  BY <1>1, <1>2, LayerMovesAssumption DEF Layer
<1>4. text \in Text
  BY <1>1, ViewText, EditedText
<1>5. /\ \/ /\ L = o /\ over' = over
            /\ file' = [file EXCEPT ![o][n] = Written(text, file[o][n].fork)]
         \/ /\ L # o /\ file' = file
            /\ over' = [over EXCEPT ![L][n] = Diff(Above(R, n, L), text)]
      /\ text.refs \ View(R, n, L).refs \subseteq
           IF RefsReachDown THEN Visible(R) ELSE Visible(L)
      /\ store' = store \/ store' = [store EXCEPT ![o] = @ \cup {n}]
      /\ job' = job /\ cut' = cut
  <2> HIDE DEF o, text
  <2>1. o = Winner(R, n) /\ text = Edited(View(R, n, L), e)
    BY DEF o, text
  <2> QED  BY <2>1 DEF Save
<1> HIDE DEF o, text
<1>6. /\ \/ /\ L = o /\ over' = over
            /\ file' = [file EXCEPT ![o][n] = Written(text, file[o][n].fork)]
         \/ /\ o < L /\ file' = file
            /\ over' = [over EXCEPT ![L][n] = Diff(Above(R, n, L), text)]
  BY <1>3, <1>5
<1>7. o = R => L = R
  BY <1>1
<1>8. /\ n \in Visible(R) /\ o \in Layer /\ o <= L /\ L <= R /\ Has(o, n) /\ text \in Text
      /\ text.refs \ View(R, n, L).refs \subseteq
           IF RefsReachDown THEN Visible(R) ELSE Visible(L)
      /\ store' = store \/ store' = [store EXCEPT ![o] = @ \cup {n}]
      /\ job' = job /\ cut' = cut
  BY <1>1, <1>2, <1>3, <1>4, <1>5
<1> QED  BY <1>6, <1>7, <1>8 DEF o, text

\* The parts of the type invariant
JobTyped == Moving =>
    /\ job \in Moves /\ job.dest <= job.root
    /\ \A n \in {job.at, job.top} \cup job.todo : job.before[n][job.root] # None
CutTyped == cut \subseteq Node \X {"write", "delete"}
TypeInv == TypeOK /\ JobInv

\* They are its parts
LEMMA TypeParts ==
  TypeInv <=> /\ FileTyped /\ OverTyped /\ store \in [Layer -> SUBSET Node]
              /\ CutTyped /\ steps \in 0 .. MaxSteps /\ JobTyped /\ JobInv
BY DEF TypeInv, TypeOK, FileTyped, OverTyped, CutTyped, JobTyped, Moving

\* ... and make it up again
LEMMA TypeWhole ==
  ASSUME FileTyped', OverTyped', store' \in [Layer -> SUBSET Node],
         CutTyped', steps' \in 0 .. MaxSteps, JobTyped', JobInv'
  PROVE  TypeInv'
BY DEF TypeInv, TypeOK, FileTyped, OverTyped, CutTyped, JobTyped, Moving

\* Requests are counted up to their bound
LEMMA Counted ==
  ASSUME steps \in 0 .. MaxSteps, Quiet, steps' = steps + 1
  PROVE  steps' \in 0 .. MaxSteps
BY LayerMovesAssumption DEF Quiet

\* A save keeps the types
LEMMA TypeSave ==
  ASSUME TypeInv, NEW R \in Layer, NEW n \in Node, NEW L \in Layer, NEW e \in Edit, Save(R, n, L, e)
  PROVE  TypeInv'
<1> DEFINE o == Winner(R, n)
           text == Edited(View(R, n, L), e)
<1>1. TypeOK /\ n \in Visible(R)
  BY SaveSays DEF TypeInv
<1>2. /\ o \in Layer /\ Has(o, n) /\ text \in Text
      /\ \/ over' = over /\ file' = [file EXCEPT ![o][n] = Written(text, file[o][n].fork)]
         \/ file' = file /\ over' = [over EXCEPT ![L][n] = Diff(Above(R, n, L), text)]
      /\ store' = store \/ store' = [store EXCEPT ![o] = @ \cup {n}]
      /\ job' = job /\ cut' = cut
  BY <1>1, SaveSays
<1> HIDE DEF o, text
<1>3. Written(text, file[o][n].fork) \in Content
  BY <1>1, <1>2, FileText, WrittenContent DEF Content
<1>4. /\ Diff(Above(R, n, L), text) \in Rows
      /\ Diff(Above(R, n, L), text).add \cap Diff(Above(R, n, L), text).del = {}
  BY <1>1, <1>2, ViewText, DiffRows
<1>5. FileTyped /\ OverTyped /\ store \in [Layer -> SUBSET Node] /\ CutTyped
      /\ steps \in 0 .. MaxSteps /\ JobTyped /\ JobInv
  BY TypeParts
<1>6. FileTyped'
  BY <1>2, <1>3, <1>5, FileWritten DEF FileTyped
<1>7. OverTyped'
  <2>1. CASE over' = over
    BY <2>1, <1>5 DEF OverTyped
  <2>2. CASE over' = [over EXCEPT ![L][n] = Diff(Above(R, n, L), text)]
    BY <2>2, <1>4, <1>5, OverWritten
  <2> QED  BY <1>2, <2>1, <2>2
<1>8. store' \in [Layer -> SUBSET Node]
  BY <1>2, <1>5
<1>9. steps' \in 0 .. MaxSteps
  BY <1>5, Counted DEF Save
<1>10. CutTyped' /\ JobTyped' /\ JobInv'
  BY <1>2, <1>5 DEF CutTyped, JobTyped, JobInv, Moving, Promoting
<1> QED  BY <1>6, <1>7, <1>8, <1>9, <1>10, TypeWhole

\* So does a reset
LEMMA TypeReset ==
  ASSUME TypeInv, NEW R \in Layer, NEW n \in Node, NEW L \in Layer, NEW field, Reset(R, n, L, field)
  PROVE  TypeInv'
<1> DEFINE rows == Diff(Above(R, n, L), View(R, n, L))
<1>1. TypeOK /\ n \in Visible(R)
  BY DEF TypeInv, Reset, MayAuthor
<1>2. rows \in Rows /\ rows.add \cap rows.del = {}
  BY <1>1, ViewText, DiffRows
<1>3. /\ over' = [over EXCEPT ![L][n] = Cleared(rows, field)]
      /\ UNCHANGED <<file, store, job, cut>> /\ Quiet /\ steps' = steps + 1
  BY DEF Reset
<1> HIDE DEF rows
<1>4. Cleared(rows, field) \in Rows /\ Cleared(rows, field).add \cap Cleared(rows, field).del = {}
  BY <1>2, ClearedRows
<1>5. FileTyped /\ OverTyped /\ store \in [Layer -> SUBSET Node] /\ CutTyped
      /\ steps \in 0 .. MaxSteps /\ JobTyped /\ JobInv
  BY TypeParts
<1>6. OverTyped'
  BY <1>3, <1>4, <1>5, OverWritten
<1>7. FileTyped' /\ store' \in [Layer -> SUBSET Node] /\ CutTyped' /\ JobTyped' /\ JobInv'
  BY <1>3, <1>5 DEF FileTyped, CutTyped, JobTyped, JobInv, Moving, Promoting
<1>8. steps' \in 0 .. MaxSteps
  BY <1>3, <1>5, Counted
<1> QED  BY <1>6, <1>7, <1>8, TypeWhole

\* A snapshot and a delete keep the types
LEMMA TypeOther ==
  ASSUME TypeInv, NEW R \in Layer, NEW n \in Node, Capture(R, n) \/ Delete(R, n)
  PROVE  TypeInv'
<1>1. FileTyped /\ OverTyped /\ store \in [Layer -> SUBSET Node] /\ CutTyped
      /\ steps \in 0 .. MaxSteps /\ JobTyped /\ JobInv
  BY TypeParts
<1>2. /\ Quiet /\ steps' = steps + 1 /\ UNCHANGED <<over, job, cut>>
      /\ file' = file \/ file' = [file EXCEPT ![R][n] = None]
      /\ store' = [store EXCEPT ![Winner(R, n)] = @ \cup {n}] \/ store' = [store EXCEPT ![R] = @ \ {n}]
  BY DEF Capture, Delete
<1>3. FileTyped'
  BY <1>1, <1>2, FileWritten DEF FileTyped
<1>4. OverTyped' /\ CutTyped' /\ JobTyped' /\ JobInv'
  BY <1>1, <1>2 DEF OverTyped, CutTyped, JobTyped, JobInv, Moving, Promoting
<1>6. store' \in [Layer -> SUBSET Node]
  <2>1. CASE store' = [store EXCEPT ![Winner(R, n)] = @ \cup {n}]
    BY <1>1, <2>1
  <2>2. CASE store' = [store EXCEPT ![R] = @ \ {n}]
    BY <1>1, <2>2
  <2> QED  BY <1>2, <2>1, <2>2
<1>5. steps' \in 0 .. MaxSteps
  BY <1>1, <1>2, Counted
<1> QED  BY <1>3, <1>4, <1>5, <1>6, TypeWhole

\* Beginning a move keeps the types
LEMMA TypeBegin ==
  ASSUME TypeInv, NEW R \in Layer, NEW n \in Node,
         StartFork(R, n) \/ \E d \in Layer : StartPromotion(R, n, d)
  PROVE  TypeInv'
<1>1. FileTyped /\ OverTyped /\ store \in [Layer -> SUBSET Node] /\ CutTyped
      /\ steps \in 0 .. MaxSteps /\ TypeOK
  BY TypeParts DEF TypeInv
<1>2. steps' \in 0 .. MaxSteps
  BY <1>1, Counted DEF StartFork, StartPromotion
<1>3. UNCHANGED <<file, over, store, cut>>
  BY DEF StartFork, StartPromotion
<1>4. FileTyped' /\ OverTyped' /\ store' \in [Layer -> SUBSET Node] /\ CutTyped'
  BY <1>1, <1>3 DEF FileTyped, OverTyped, CutTyped
<1>5. CASE StartFork(R, n)
  <2>1. /\ job' \in Moves /\ job'.before[n][R] # None
        /\ job'.root = R /\ job'.dest = R /\ job'.at = n /\ job'.top = n
        /\ job'.todo = {} /\ job'.phase = "fork" /\ job'.full \in Text
    BY <1>1, <1>5, ForkSays
  <2>2. R <= R
    BY LayerMovesAssumption DEF Layer
  <2> QED  BY <1>2, <1>4, <2>1, <2>2, TypeWhole DEF JobTyped, JobInv, Moving, Promoting
<1>6. ASSUME NEW d \in Layer, StartPromotion(R, n, d)
      PROVE  TypeInv'
  <2>1. /\ job' \in Moves /\ \A m \in Up(R, n, d) \cup {n} : job'.before[m][R] # None
        /\ job'.root = R /\ job'.dest = d /\ d < R /\ job'.top = n
        /\ job'.phase = "store" /\ job'.todo = Up(R, n, d) \ {job'.at}
        /\ job'.at \in IF Up(R, n, d) = {} THEN {n} ELSE Up(R, n, d)
        /\ job'.full \in Text /\ job'.travels \in Text
    BY <1>1, <1>6, PromotionSays
  <2>2. d <= R
    BY <2>1, LayerMovesAssumption DEF Layer
  <2>3. {job'.at, job'.top} \cup job'.todo \subseteq Up(R, n, d) \cup {n}
    BY <2>1
  <2> QED  BY <1>2, <1>4, <2>1, <2>2, <2>3, TypeWhole DEF JobTyped, JobInv, Moving, Promoting
<1> QED  BY <1>5, <1>6

\* A move's own steps keep the types
LEMMA TypeMove ==
  ASSUME TypeInv,
         WriteFork \/ DropOwn \/ MoveStore \/ WritePromoted \/ DeleteOrigin \/ SettleOrigin \/ Stop
  PROVE  TypeInv'
<1>1. FileTyped /\ OverTyped /\ store \in [Layer -> SUBSET Node] /\ CutTyped
      /\ steps \in 0 .. MaxSteps /\ JobTyped /\ JobInv /\ TypeOK
  BY TypeParts DEF TypeInv
<1>2. job # None /\ steps' = steps
  BY DEF WriteFork, DropOwn, MoveStore, WritePromoted, DeleteOrigin, SettleOrigin, Stop
<1>3. /\ job \in Moves /\ job.full \in Text /\ job.dest <= job.root
      /\ job.root \in Layer /\ job.dest \in Layer /\ job.at \in Node
      /\ \A n \in {job.at, job.top} \cup job.todo : job.before[n][job.root] # None
      /\ job.phase \in {"fork", "drop"} => job.dest = job.root /\ job.todo = {}
      /\ job.phase \in {"store", "write", "delete", "settle"} =>
           job.dest < job.root /\ job.travels \in Text
  BY <1>1, <1>2 DEF JobTyped, JobInv, Moving, Promoting, Moves
<1>4. CASE WriteFork
  <2>1. /\ file' = [file EXCEPT ![job.root][job.at] = Written(job.full, TRUE)]
        /\ job' = [job EXCEPT !.phase = "drop"] /\ job.phase = "fork"
        /\ UNCHANGED <<over, store, cut, steps>>
    BY <1>4 DEF WriteFork
  <2>2. Written(job.full, TRUE) \in Content
    BY <1>3, WrittenContent
  <2>3. FileTyped'
    BY <1>1, <1>3, <2>1, <2>2, FileWritten
  <2>4. OverTyped' /\ CutTyped' /\ store' \in [Layer -> SUBSET Node]
    BY <1>1, <2>1 DEF OverTyped, CutTyped
  <2>5. JobTyped' /\ JobInv'
    BY <1>3, <2>1 DEF JobTyped, JobInv, Moving, Promoting, Moves
  <2> QED  BY <1>1, <1>2, <2>3, <2>4, <2>5, TypeWhole
<1>5. CASE DropOwn
  <2>1. /\ over' = [over EXCEPT ![job.root][job.at] = NoRows] /\ job' = None
        /\ UNCHANGED <<file, store, cut, steps>>
    BY <1>5 DEF DropOwn
  <2>2. OverTyped'
    <3>1. NoRows \in Rows /\ NoRows.add \cap NoRows.del = {}
      BY NoRowsRows
    <3> QED  BY <1>1, <1>3, <2>1, <3>1, OverWritten
  <2>3. FileTyped' /\ CutTyped' /\ store' \in [Layer -> SUBSET Node] /\ JobTyped' /\ JobInv'
    BY <1>1, <2>1 DEF FileTyped, CutTyped, JobTyped, JobInv, Moving, Promoting
  <2> QED  BY <1>1, <1>2, <2>2, <2>3, TypeWhole
<1>6. CASE MoveStore
  <2>1. UNCHANGED <<file, over, cut, steps>> /\ job.phase = "store"
    BY <1>6 DEF MoveStore
  <2>2. job' = None \/ job' = [job EXCEPT !.phase = "write"]
    BY <1>6 DEF MoveStore
  <2>3. \/ store' = store
        \/ store' = [store EXCEPT ![job.root] = @ \ {job.at}, ![job.dest] = @ \cup {job.at}]
    BY <1>6 DEF MoveStore
  <2>4. store' \in [Layer -> SUBSET Node]
    BY <1>1, <1>3, <2>3
  <2>5. FileTyped' /\ OverTyped' /\ CutTyped'
    BY <1>1, <2>1 DEF FileTyped, OverTyped, CutTyped
  <2>6. JobTyped' /\ JobInv'
    BY <1>3, <2>1, <2>2 DEF JobTyped, JobInv, Moving, Promoting, Moves
  <2> QED  BY <1>1, <1>2, <2>4, <2>5, <2>6, TypeWhole
<1>7. CASE WritePromoted
  <2>1. /\ file' = [file EXCEPT ![job.dest][job.at] = Written(job.travels, FALSE)]
        /\ job' = [job EXCEPT !.phase = "delete"] /\ job.phase = "write"
        /\ UNCHANGED <<over, store, cut, steps>>
    BY <1>7 DEF WritePromoted
  <2>2. Written(job.travels, FALSE) \in Content
    BY <1>3, <2>1, WrittenContent
  <2>3. FileTyped'
    BY <1>1, <1>3, <2>1, <2>2, FileWritten
  <2>4. OverTyped' /\ CutTyped' /\ store' \in [Layer -> SUBSET Node]
    BY <1>1, <2>1 DEF OverTyped, CutTyped
  <2>5. JobTyped' /\ JobInv'
    BY <1>3, <2>1 DEF JobTyped, JobInv, Moving, Promoting, Moves
  <2> QED  BY <1>1, <1>2, <2>3, <2>4, <2>5, TypeWhole
<1>8. CASE DeleteOrigin
  <2>1. /\ file' = [file EXCEPT ![job.root][job.at] = None]
        /\ job' = [job EXCEPT !.phase = "settle"] /\ job.phase = "delete"
        /\ UNCHANGED <<over, store, cut, steps>>
    BY <1>8 DEF DeleteOrigin
  <2>2. FileTyped'
    BY <1>1, <1>3, <2>1, FileWritten
  <2>3. OverTyped' /\ CutTyped' /\ store' \in [Layer -> SUBSET Node]
    BY <1>1, <2>1 DEF OverTyped, CutTyped
  <2>4. JobTyped' /\ JobInv'
    BY <1>3, <2>1 DEF JobTyped, JobInv, Moving, Promoting, Moves
  <2> QED  BY <1>1, <1>2, <2>2, <2>3, <2>4, TypeWhole
<1>9. CASE SettleOrigin
  <2>1. UNCHANGED <<file, store, cut, steps>> /\ job.phase = "settle"
    BY <1>9 DEF SettleOrigin
  <2>2. \E rows \in Rows : /\ rows.add \cap rows.del = {}
                           /\ over' = [over EXCEPT ![job.root][job.at] = rows]
    <3>1. over[job.root][job.at] \in Rows
          /\ over[job.root][job.at].add \cap over[job.root][job.at].del = {}
      BY <1>1, <1>3 DEF OverTyped
    <3>2. Settled(job.full, job.travels) \in Rows
          /\ Settled(job.full, job.travels).add \cap Settled(job.full, job.travels).del = {}
      BY <1>3, <2>1, DiffRows, NoRowsRows DEF Settled
    <3>3. over' = [over EXCEPT ![job.root][job.at] =
                     IF job.at \in MutationSet THEN over[job.root][job.at]
                     ELSE Settled(job.full, job.travels)]
      BY <1>9 DEF SettleOrigin
    <3>4. CASE job.at \in MutationSet
      BY <3>1, <3>3, <3>4
    <3>5. CASE job.at \notin MutationSet
      BY <3>2, <3>3, <3>5
    <3> QED  BY <3>4, <3>5
  <2>3. OverTyped'
    BY <1>1, <1>3, <2>2, OverWritten
  <2>4. FileTyped' /\ CutTyped' /\ store' \in [Layer -> SUBSET Node]
    BY <1>1, <2>1 DEF FileTyped, CutTyped
  <2>5. job' = None \/ job' \in Turn(job)
    BY <1>9 DEF SettleOrigin
  <2>6. JobTyped' /\ JobInv'
    <3>1. CASE job' = None
      BY <3>1 DEF JobTyped, JobInv, Moving, Promoting
    <3>2. CASE job' \in Turn(job)
      <4>1. /\ job' \in Moves /\ job'.root = job.root /\ job'.dest = job.dest /\ job'.top = job.top
            /\ job'.before = job.before
            /\ job'.phase = "store" /\ job'.todo = job.todo \ {job'.at}
            /\ job'.at \in IF job.todo = {} THEN {job.top} ELSE job.todo
            /\ job'.full \in Text /\ job'.travels \in Text
        BY <1>1, <1>3, <3>2, TurnSays
      <4> QED  BY <1>3, <2>1, <4>1 DEF JobTyped, JobInv, Moving, Promoting
    <3> QED  BY <2>5, <3>1, <3>2
  <2> QED  BY <1>1, <1>2, <2>3, <2>4, <2>6, TypeWhole
<1>10. CASE Stop
  <2>1. UNCHANGED <<file, over, store, steps>> /\ job' = None
    BY <1>10 DEF Stop
  <2>2. CutTyped'
    <3>1. cut' = IF job.phase \in {"write", "delete"} THEN cut \cup {<<job.at, job.phase>>} ELSE cut
      BY <1>10 DEF Stop
    <3>2. CASE job.phase \in {"write", "delete"}
      BY <1>1, <1>3, <3>1, <3>2 DEF CutTyped
    <3>3. CASE job.phase \notin {"write", "delete"}
      BY <1>1, <3>1, <3>3 DEF CutTyped
    <3> QED  BY <3>2, <3>3
  <2>3. FileTyped' /\ OverTyped' /\ store' \in [Layer -> SUBSET Node] /\ JobTyped' /\ JobInv'
    BY <1>1, <2>1 DEF FileTyped, OverTyped, JobTyped, JobInv, Moving, Promoting
  <2> QED  BY <1>1, <1>2, <2>2, <2>3, TypeWhole
<1> QED  BY <1>4, <1>5, <1>6, <1>7, <1>8, <1>9, <1>10

\* The chain as it is found is typed
LEMMA TypeInit ==
  ASSUME Init PROVE TypeInv
<1>1. file \in [Layer -> [Node -> Content \cup {None}]] /\ steps = 0 /\ cut = {} /\ job = None
      /\ over = [l \in Layer |-> [n \in Node |-> NoRows]] /\ store = [l \in Layer |-> {}]
  BY LayerMovesAssumption DEF Init
<1>2. steps \in 0 .. MaxSteps
  BY <1>1, LayerMovesAssumption
<1> QED  BY <1>1, <1>2, NoRowsRows DEF TypeInv, TypeOK, JobInv, Moving, Promoting

\* The type invariant is inductive
LEMMA TypeStep ==
  ASSUME TypeInv, [Next]_vars PROVE TypeInv'
<1>1. CASE UNCHANGED vars
  BY <1>1 DEF vars, TypeInv, TypeOK, JobInv, Moving, Promoting
<1>2. CASE Next
  BY <1>2, TypeSave, TypeReset, TypeOther, TypeBegin, TypeMove DEF Next
<1> QED  BY <1>1, <1>2

\* TypeCorrect: files, rows, stores and the move under way are always of their
\* types, for every chain, also when requests come between the writes of a move
THEOREM TypeCorrect == Spec => []TypeOK
<1>1. Init => TypeInv
  BY TypeInit
<1>2. TypeInv /\ [Next]_vars => TypeInv'
  BY TypeStep
<1>3. TypeInv => TypeOK
  BY DEF TypeInv
<1> QED  BY <1>1, <1>2, <1>3, PTL DEF Spec

-----------------------------------------------------------------------------
(* One home *)

\* A file that has not come into being, nor changed what it is
Homes == \A l \in Layer, m \in Node :
    file'[l][m] # None => file[l][m] # None /\ file'[l][m].fork = file[l][m].fork

\* Where no file comes into being and the move goes on as it was, there is no
\* second home
LEMMA HomesKept ==
  ASSUME JobTyped, HomeInv, Homes, job' = job, cut' = cut
  PROVE  HomeInv'
<1>1. ForksBelow'
  BY DEF HomeInv, ForksBelow, Homes, Has, Moving
<1>2. \A R \in Layer, m \in Node : OnlyForks(R, m) => OnlyForks(R, m)'
  BY DEF OnlyForks, Homes, Has
<1>3. Moving => /\ job.root \in Layer /\ job.at \in Node /\ job.top \in Node
                /\ job.todo \subseteq Node
  BY DEF JobTyped, Moves
<1>4. (Moving /\ job.phase = "fork" =>
         \A k \in Layer : job.root < k /\ Has(k, job.at) =>
             file[k][job.at].fork \/ <<job.at, "delete">> \in cut)'
  BY <1>3 DEF HomeInv, Homes, Has, Moving
<1>5. (Promoting =>
         /\ job.phase \in {"store", "write"} => OnlyForks(job.root, job.at)
         /\ \A m \in job.todo : m # job.at /\ OnlyForks(job.root, m)
         /\ job.top # job.at => OnlyForks(job.root, job.top))'
  <2> SUFFICES ASSUME Promoting'
      PROVE  /\ job.phase \in {"store", "write"} => OnlyForks(job.root, job.at)'
             /\ \A m \in job.todo : m # job.at /\ OnlyForks(job.root, m)'
             /\ job.top # job.at => OnlyForks(job.root, job.top)'
    BY DEF OnlyForks, Has
  <2>1. Promoting /\ Moving
    BY DEF Promoting, Moving
  <2> QED  BY <1>2, <1>3, <2>1 DEF HomeInv
<1> QED  BY <1>1, <1>4, <1>5 DEF HomeInv

\* No request makes a second home
LEMMA HomeRequest ==
  ASSUME TypeInv, HomeInv, NEW R \in Layer, NEW n \in Node,
         \/ \E L \in Layer, e \in Edit : Save(R, n, L, e)
         \/ \E L \in Layer, field \in {"val", "refs"} : Reset(R, n, L, field)
         \/ Capture(R, n) \/ Delete(R, n)
  PROVE  HomeInv'
<1>1. FileTyped /\ JobTyped /\ TypeOK
  BY TypeParts DEF TypeInv
<1>2. job' = job /\ cut' = cut
  BY DEF Save, Reset, Capture, Delete
<1>3. Homes
  <2>1. CASE \E L \in Layer, e \in Edit : Save(R, n, L, e)
    <3> PICK L \in Layer, e \in Edit : Save(R, n, L, e)
      BY <2>1
    <3> DEFINE o == Winner(R, n)
               text == Edited(View(R, n, L), e)
    <3>1. /\ o \in Layer /\ Has(o, n) /\ text \in Text
          /\ file' = file \/ file' = [file EXCEPT ![o][n] = Written(text, file[o][n].fork)]
      BY <1>1, SaveSays
    <3> HIDE DEF o, text
    <3>2. /\ Written(text, file[o][n].fork) \in Content
          /\ Written(text, file[o][n].fork).fork = file[o][n].fork
      BY <1>1, <3>1, FileText, WrittenContent DEF Content
    <3>3. CASE file' = file
      BY <3>3 DEF Homes
    <3>4. CASE file' = [file EXCEPT ![o][n] = Written(text, file[o][n].fork)]
      <4>1. /\ file'[o][n] = Written(text, file[o][n].fork)
            /\ \A k \in Layer, m \in Node : k # o \/ m # n => file'[k][m] = file[k][m]
        BY <1>1, <3>1, <3>4 DEF FileTyped
      <4> QED  BY <3>1, <3>2, <4>1 DEF Homes, Has
    <3> QED  BY <3>1, <3>3, <3>4
  <2>2. CASE Delete(R, n)
    <3>1. file' = [file EXCEPT ![R][n] = None]
      BY <2>2 DEF Delete
    <3>2. /\ file'[R][n] = None
          /\ \A k \in Layer, m \in Node : k # R \/ m # n => file'[k][m] = file[k][m]
      BY <1>1, <3>1 DEF FileTyped
    <3> QED  BY <3>2 DEF Homes
  <2>3. CASE file' = file
    BY <2>3 DEF Homes
  <2> QED  BY <2>1, <2>2, <2>3 DEF Reset, Capture
<1> QED  BY <1>1, <1>2, <1>3, HomesKept

\* Below the only owner a promotion starts from there are forks
LEMMA OwnerForks ==
  ASSUME ForksBelow, ~Moving, NEW R \in Layer, NEW m \in Node, Owners(R, m) = {R}
  PROVE  OnlyForks(R, m)
<1> SUFFICES ASSUME NEW k \in Layer, Has(k, m), k # R
    PROVE  R < k /\ (file[k][m].fork \/ <<m, "delete">> \in cut)
  BY DEF OnlyForks
<1>1. R \in Nat /\ k \in Nat /\ 1 <= k
  BY LayerMovesAssumption DEF Layer
<1>2. Has(R, m) /\ (k \in 1 .. R => FALSE)
  BY DEF Owners, Has
<1>3. R < k
  BY <1>1, <1>2
<1> QED  BY <1>2, <1>3 DEF ForksBelow

\* Nor does the start of a move
LEMMA HomeBegin ==
  ASSUME TypeInv, HomeInv, ~CascadeAfterCut, NEW R \in Layer, NEW n \in Node,
         StartFork(R, n) \/ \E d \in Layer : StartPromotion(R, n, d)
  PROVE  HomeInv'
<1>1. TypeOK /\ ForksBelow
  BY DEF TypeInv, HomeInv
<1>2. job = None /\ UNCHANGED <<file, cut>>
  BY DEF StartFork, StartPromotion
<1>3. ForksBelow'
  BY <1>1, <1>2 DEF ForksBelow, Has, Moving
<1>4. CASE StartFork(R, n)
  <2>1. /\ job'.root = R /\ job'.at = n /\ job'.phase = "fork"
        /\ n \in Visible(R) /\ Winner(R, n) < R
    BY <1>1, <1>4, ForkSays
  <2>2. Winner(R, n) \in Layer /\ Has(Winner(R, n), n)
    BY <2>1, WinnerOwns
  <2>3. \A k \in Layer : R < k => Winner(R, n) < k
    BY <2>1, <2>2, LayerMovesAssumption DEF Layer
  <2>4. \A k \in Layer : R < k /\ Has(k, n) => file[k][n].fork \/ <<n, "delete">> \in cut
    BY <1>1, <1>2, <2>2, <2>3 DEF ForksBelow, Moving
  <2> QED  BY <1>2, <1>3, <2>1, <2>4 DEF HomeInv, Has, Moving, Promoting
<1>5. ASSUME NEW d \in Layer, StartPromotion(R, n, d)
      PROVE  HomeInv'
  <2>1. /\ job'.root = R /\ job'.top = n /\ job'.phase = "store"
        /\ job'.todo = Up(R, n, d) \ {job'.at}
        /\ job'.at \in IF Up(R, n, d) = {} THEN {n} ELSE Up(R, n, d)
        /\ Owners(R, n) = {R} /\ \A m \in Up(R, n, d) : Owners(R, m) = {R}
    BY <1>1, <1>5, PromotionSays
  <2>2. Up(R, n, d) \subseteq Node
    BY DEF Up, Visible
  <2>3. \A m \in {n} \cup Up(R, n, d) : OnlyForks(R, m)
    BY <1>1, <1>2, <2>1, <2>2, OwnerForks DEF Moving
  <2>4. \A m \in {n} \cup Up(R, n, d) : OnlyForks(R, m)'
    BY <1>2, <2>3 DEF OnlyForks, Has
  <2>5. (Promoting =>
         /\ job.phase \in {"store", "write"} => OnlyForks(job.root, job.at)
         /\ \A m \in job.todo : m # job.at /\ OnlyForks(job.root, m)
         /\ job.top # job.at => OnlyForks(job.root, job.top))'
    BY <2>1, <2>4 DEF OnlyForks, Has
  <2> QED  BY <1>3, <2>1, <2>5 DEF HomeInv, Moving
<1> QED  BY <1>4, <1>5

\* A move writes where nothing but forks of its file is
LEMMA HomeMove ==
  ASSUME TypeInv, HomeInv,
         WriteFork \/ DropOwn \/ MoveStore \/ WritePromoted \/ DeleteOrigin \/ SettleOrigin \/ Stop
  PROVE  HomeInv'
<1>1. FileTyped /\ JobTyped /\ JobInv /\ CutTyped /\ TypeOK /\ ForksBelow
  BY TypeParts DEF TypeInv, HomeInv
<1>2. job # None /\ Moving
  BY DEF WriteFork, DropOwn, MoveStore, WritePromoted, DeleteOrigin, SettleOrigin, Stop, Moving
<1>0. /\ job \in Moves /\ job.full \in Text
      /\ job.phase \in {"store", "write", "delete", "settle"} =>
           job.dest < job.root /\ job.travels \in Text
  BY <1>1, <1>2 DEF JobTyped, JobInv, Moving, Promoting
<1>r. PICK R \in Layer, d \in Layer, n \in Node : R = job.root /\ d = job.dest /\ n = job.at
  BY <1>0 DEF Moves
<1>3. /\ job \in Moves /\ job.full \in Text
      /\ job.top \in Node /\ job.todo \subseteq Node
      /\ job.phase \in {"store", "write", "delete", "settle"} => d < R /\ job.travels \in Text
  BY <1>0, <1>r DEF Moves
<1>4. /\ job.phase = "fork" =>
           \A k \in Layer : R < k /\ Has(k, n) => file[k][n].fork \/ <<n, "delete">> \in cut
      /\ job.phase \in {"store", "write"} => OnlyForks(R, n)
      /\ job.phase \in {"store", "write", "delete", "settle"} =>
           /\ \A m \in job.todo : m # n /\ OnlyForks(R, m)
           /\ job.top # n => OnlyForks(R, job.top)
  BY <1>2, <1>r DEF HomeInv, Moving, Promoting
<1>5. \A k, l \in Layer : k \in Nat /\ l \in Nat
  BY LayerMovesAssumption DEF Layer
<1>6. CASE WriteFork
  <2>1. /\ file' = [file EXCEPT ![R][n] = Written(job.full, TRUE)]
        /\ job' = [job EXCEPT !.phase = "drop"] /\ job.phase = "fork" /\ cut' = cut
    BY <1>r, <1>6 DEF WriteFork
  <2>2. Written(job.full, TRUE).fork = TRUE
    BY <1>3, WrittenContent
  <2>3. /\ file'[R][n].fork = TRUE
        /\ \A k \in Layer, m \in Node : k # R \/ m # n => file'[k][m] = file[k][m]
    BY <1>1, <1>3, <2>1, <2>2 DEF FileTyped
  <2>4. ForksBelow'
    <3> SUFFICES ASSUME NEW m \in Node, NEW l \in Layer, NEW k \in Layer,
                        Has(l, m)', Has(k, m)', l < k, ~file'[k][m].fork
                 PROVE  <<m, "delete">> \in cut
      BY <2>1 DEF ForksBelow
    <3>1. file'[k][m] = file[k][m] /\ (k = R => m # n)
      BY <2>3
    <3>2. CASE l = R /\ m = n
      BY <1>4, <2>1, <3>1, <3>2 DEF Has
    <3>3. CASE ~(l = R /\ m = n)
      <4>1. file'[l][m] = file[l][m]
        BY <2>3, <3>3
      <4> QED  BY <1>1, <2>1, <3>1, <4>1 DEF ForksBelow, Has
    <3> QED  BY <3>2, <3>3
  <2>5. job'.phase = "drop"
    BY <1>3, <2>1 DEF Moves
  <2> QED  BY <2>4, <2>5 DEF HomeInv, Moving, Promoting
<1>7. CASE WritePromoted
  <2>1. /\ file' = [file EXCEPT ![d][n] = Written(job.travels, FALSE)]
        /\ job' = [job EXCEPT !.phase = "delete"] /\ job.phase = "write" /\ cut' = cut
    BY <1>r, <1>7 DEF WritePromoted
  <2>2. /\ job'.phase = "delete" /\ job'.root = R /\ job'.at = n
        /\ job'.todo = job.todo /\ job'.top = job.top
    BY <1>r, <1>3, <2>1 DEF Moves
  <2>3. /\ file'[d][n] = Written(job.travels, FALSE)
        /\ \A k \in Layer, m \in Node : k # d \/ m # n => file'[k][m] = file[k][m]
    BY <1>1, <1>3, <2>1 DEF FileTyped
  <2>4. /\ d < R /\ OnlyForks(R, n) /\ \A m \in job.todo : m # n /\ OnlyForks(R, m)
        /\ job.top # n => OnlyForks(R, job.top)
    BY <1>3, <1>4, <2>1
  <2>5. \A m \in Node : m # n /\ OnlyForks(R, m) => OnlyForks(R, m)'
    BY <2>1, <2>3 DEF OnlyForks, Has
  <2>6. \A m \in Node, l, k \in Layer :
            Has(l, m)' /\ Has(k, m)' /\ l < k /\ ~file'[k][m].fork =>
              <<m, "delete">> \in cut \/ (m = n /\ k = R)
    <3> SUFFICES ASSUME NEW m \in Node, NEW l \in Layer, NEW k \in Layer,
                        Has(l, m)', Has(k, m)', l < k, ~file'[k][m].fork
                 PROVE  <<m, "delete">> \in cut \/ (m = n /\ k = R)
      OBVIOUS
    <3>1. CASE m # n
      <4>1. file'[l][m] = file[l][m] /\ file'[k][m] = file[k][m]
        BY <2>3, <3>1
      <4>2. Has(l, m) /\ Has(k, m) /\ ~file[k][m].fork
        BY <4>1 DEF Has
      <4> QED  BY <1>1, <2>1, <4>2 DEF ForksBelow
    <3>2. CASE m = n /\ k # d /\ k # R
      <4>1. Has(k, n) /\ ~file[k][n].fork
        BY <2>3, <3>2 DEF Has
      <4> QED  BY <2>4, <3>2, <4>1 DEF OnlyForks
    <3>3. CASE m = n /\ k = d
      <4>1. Has(l, n) /\ l # R /\ ~(R < l)
        BY <1>3, <1>5, <2>3, <2>4, <3>3 DEF Has
      <4> QED  BY <2>4, <4>1 DEF OnlyForks
    <3> QED  BY <3>1, <3>2, <3>3
  <2>7. (Promoting =>
         /\ job.phase \in {"store", "write"} => OnlyForks(job.root, job.at)
         /\ \A m \in job.todo : m # job.at /\ OnlyForks(job.root, m)
         /\ job.top # job.at => OnlyForks(job.root, job.top))'
    <3>1. \A m \in job.todo : m # n /\ OnlyForks(R, m)'
      <4> TAKE m \in job.todo
      <4> QED  BY <1>3, <2>4, <2>5
    <3>2. job.top # n => OnlyForks(R, job.top)'
      BY <1>3, <2>2, <2>4, <2>5
    <3> QED  BY <2>2, <3>1, <3>2 DEF OnlyForks, Has
  <2>8. job' # None => ForksBelow'
    BY <2>1, <2>2, <2>6 DEF ForksBelow, Moving
  <2>9. job' # None
    BY <1>3, <2>1, LayerMovesAssumption DEF Moves
  <2> QED  BY <2>2, <2>7, <2>8, <2>9 DEF HomeInv, Moving
<1>8. CASE DeleteOrigin
  <2>1. /\ file' = [file EXCEPT ![R][n] = None]
        /\ job' = [job EXCEPT !.phase = "settle"] /\ job.phase = "delete" /\ cut' = cut
    BY <1>r, <1>8 DEF DeleteOrigin
  <2>2. /\ job'.phase = "settle" /\ job'.root = R /\ job'.at = n
        /\ job'.todo = job.todo /\ job'.top = job.top
    BY <1>r, <1>3, <2>1 DEF Moves
  <2>3. /\ file'[R][n] = None
        /\ \A k \in Layer, m \in Node : k # R \/ m # n => file'[k][m] = file[k][m]
    BY <1>1, <1>3, <2>1 DEF FileTyped
  <2>4. \A m \in Node : OnlyForks(R, m) => OnlyForks(R, m)'
    BY <2>1, <2>3 DEF OnlyForks, Has
  <2>5. ForksBelow'
    <3> SUFFICES ASSUME NEW m \in Node, NEW l \in Layer, NEW k \in Layer,
                        Has(l, m)', Has(k, m)', l < k, ~file'[k][m].fork
                 PROVE  <<m, "delete">> \in cut
      BY <2>1 DEF ForksBelow
    <3>1. ~(l = R /\ m = n) /\ ~(k = R /\ m = n)
      BY <2>3 DEF Has
    <3>2. file'[l][m] = file[l][m] /\ file'[k][m] = file[k][m]
      BY <2>3, <3>1
    <3> QED  BY <1>r, <1>1, <3>1, <3>2 DEF ForksBelow, Has
  <2>6. (Promoting =>
         /\ job.phase \in {"store", "write"} => OnlyForks(job.root, job.at)
         /\ \A m \in job.todo : m # job.at /\ OnlyForks(job.root, m)
         /\ job.top # job.at => OnlyForks(job.root, job.top))'
    <3>1. \A m \in job.todo : m # n /\ OnlyForks(R, m)'
      BY <1>3, <1>4, <2>1, <2>4
    <3>2. job.top # n => OnlyForks(R, job.top)'
      BY <1>3, <1>4, <2>1, <2>4
    <3> QED  BY <2>2, <3>1, <3>2 DEF OnlyForks, Has
  <2> QED  BY <2>2, <2>5, <2>6 DEF HomeInv, Moving
<1>9. CASE MoveStore
  <2>1. /\ file' = file /\ cut' = cut /\ job.phase = "store"
        /\ job' = None \/ job' = [job EXCEPT !.phase = "write"]
    BY <1>9 DEF MoveStore
  <2>2. ForksBelow'
    BY <1>1, <2>1 DEF ForksBelow, Has, Moving
  <2>3. CASE job' = None
    BY <2>2, <2>3 DEF HomeInv, Moving, Promoting
  <2>4. CASE job' = [job EXCEPT !.phase = "write"]
    <3>1. /\ job'.phase = "write" /\ job'.root = R /\ job'.at = n
          /\ job'.todo = job.todo /\ job'.top = job.top
      BY <1>r, <1>3, <2>4 DEF Moves
    <3>2. \A m \in Node : OnlyForks(R, m) => OnlyForks(R, m)'
      BY <2>1 DEF OnlyForks, Has
    <3>3. (Promoting =>
         /\ job.phase \in {"store", "write"} => OnlyForks(job.root, job.at)
         /\ \A m \in job.todo : m # job.at /\ OnlyForks(job.root, m)
         /\ job.top # job.at => OnlyForks(job.root, job.top))'
      <4>1. OnlyForks(R, n)'
        BY <1>3, <1>4, <2>1, <3>2
      <4>2. \A m \in job.todo : m # n /\ OnlyForks(R, m)'
        <5> TAKE m \in job.todo
        <5>1. m \in Node /\ m # n /\ OnlyForks(R, m)
          BY <1>3, <1>4, <2>1
        <5> QED  BY <3>2, <5>1
      <4>3. job.top # n => OnlyForks(R, job.top)'
        BY <1>3, <1>4, <2>1, <3>1, <3>2
      <4> QED  BY <3>1, <4>1, <4>2, <4>3 DEF OnlyForks, Has
    <3> QED  BY <2>2, <3>1, <3>3 DEF HomeInv, Moving
  <2> QED  BY <2>1, <2>3, <2>4
<1>10. CASE SettleOrigin
  <2>1. /\ file' = file /\ cut' = cut /\ job.phase = "settle"
        /\ \/ job' = None
           \/ n # job.top /\ job' \in Turn(job)
    BY <1>r, <1>10 DEF SettleOrigin
  <2>2. ForksBelow'
    BY <1>1, <2>1 DEF ForksBelow, Has, Moving
  <2>3. CASE job' = None
    BY <2>2, <2>3 DEF HomeInv, Moving, Promoting
  <2>4. CASE n # job.top /\ job' \in Turn(job)
    <3>1. /\ job'.root = R /\ job'.top = job.top
          /\ job'.phase = "store" /\ job'.todo = job.todo \ {job'.at}
          /\ job'.at \in IF job.todo = {} THEN {job.top} ELSE job.todo
      BY <1>r, <1>1, <1>3, <2>4, TurnSays
    <3>2. \A m \in {job.top} \cup job.todo : OnlyForks(R, m)
      BY <1>4, <2>1, <2>4
    <3>3. \A m \in {job.top} \cup job.todo : OnlyForks(R, m)'
      BY <2>1, <3>2 DEF OnlyForks, Has
    <3>4. (Promoting =>
         /\ job.phase \in {"store", "write"} => OnlyForks(job.root, job.at)
         /\ \A m \in job.todo : m # job.at /\ OnlyForks(job.root, m)
         /\ job.top # job.at => OnlyForks(job.root, job.top))'
      BY <3>1, <3>3 DEF OnlyForks, Has
    <3> QED  BY <2>2, <3>1, <3>4 DEF HomeInv, Moving
  <2> QED  BY <2>1, <2>3, <2>4
<1>11. CASE DropOwn \/ Stop
  <2>1. file' = file /\ job' = None
    BY <1>11 DEF DropOwn, Stop
  <2>2. cut \subseteq cut' /\ (job.phase = "delete" => <<n, "delete">> \in cut')
    <3>1. CASE DropOwn
      BY <3>1 DEF DropOwn
    <3>2. CASE Stop
      <4>1. cut' = IF job.phase \in {"write", "delete"} THEN cut \cup {<<n, job.phase>>} ELSE cut
        BY <1>r, <3>2 DEF Stop
      <4> QED  BY <4>1
    <3> QED  BY <1>11, <3>1, <3>2
  <2>3. ForksBelow'
    BY <1>r, <1>1, <2>1, <2>2 DEF ForksBelow, Has, Moving
  <2> QED  BY <2>1, <2>3 DEF HomeInv, Moving, Promoting
<1> QED  BY <1>6, <1>7, <1>8, <1>9, <1>10, <1>11

\* Chains as they are found
LEMMA HomeInit ==
  ASSUME Init PROVE HomeInv
<1>1. file \in Start /\ job = None
  BY DEF Init
<1>2. \A m \in Node, l, k \in Layer : l < k => l \in 1 .. k - 1
  BY LayerMovesAssumption DEF Layer
<1>3. ForksBelow
  <2> SUFFICES ASSUME NEW m \in Node, NEW l \in Layer, NEW k \in Layer, Has(l, m), Has(k, m), l < k
               PROVE  file[k][m].fork
    BY DEF ForksBelow
  <2>1. l \in 1 .. k - 1
    BY <1>2
  <2> QED  BY <1>1, <2>1, StartAssumption DEF Has
<1> QED  BY <1>1, <1>3 DEF HomeInv, Moving, Promoting

\* The invariant is inductive
LEMMA HomeStep ==
  ASSUME TypeInv, HomeInv, ~CascadeAfterCut, [Next]_vars PROVE HomeInv'
<1>1. CASE UNCHANGED vars
  <2>1. JobTyped /\ Homes /\ job' = job /\ cut' = cut
    BY <1>1, TypeParts DEF vars, Homes
  <2> QED  BY <2>1, HomesKept
<1>2. ASSUME NEW R \in Layer, NEW n \in Node,
             \/ \E L \in Layer, e \in Edit : Save(R, n, L, e)
             \/ \E L \in Layer, field \in {"val", "refs"} : Reset(R, n, L, field)
             \/ Capture(R, n) \/ Delete(R, n)
      PROVE  HomeInv'
  BY <1>2, HomeRequest
<1>3. ASSUME NEW R \in Layer, NEW n \in Node,
             StartFork(R, n) \/ \E d \in Layer : StartPromotion(R, n, d)
      PROVE  HomeInv'
  BY <1>3, HomeBegin
<1>4. CASE WriteFork \/ DropOwn \/ MoveStore \/ WritePromoted \/ DeleteOrigin \/ SettleOrigin \/ Stop
  BY <1>4, HomeMove
<1> QED  BY <1>1, <1>2, <1>3, <1>4 DEF Next

\* At most one file of a node is not a fork
LEMMA OneHomeFollows ==
  ASSUME TypeInv, HomeInv PROVE OneHome
<1> SUFFICES ASSUME NEW n \in Node, <<n, "delete">> \notin cut, ~(job # None /\ job.at = n)
             PROVE  Cardinality({l \in Layer : file[l][n] # None /\ ~file[l][n].fork}) <= 1
  BY DEF OneHome
<1> DEFINE S == {l \in Layer : file[l][n] # None /\ ~file[l][n].fork}
<1>1. \A l, k \in S : ~(l < k)
  BY DEF HomeInv, ForksBelow, Has, Moving
<1>2. \A l, k \in S : l = k
  BY <1>1, LayerMovesAssumption DEF Layer
<1>3. CASE S = {}
  BY <1>3, FS_EmptySet
<1>4. CASE S # {}
  <2>1. PICK l \in S : TRUE
    BY <1>4
  <2>2. S = {l}
    BY <1>2, <2>1
  <2> HIDE DEF S
  <2>3. Cardinality(S) = 1
    BY <2>2, FS_Singleton
  <2> QED  BY <2>3 DEF S
<1> QED  BY <1>3, <1>4

\* OneHome: at most one layer holds a node as its own and the others hold
\* forks, except where a promotion stopped between its two files; also when
\* requests come between the writes of a move, as long as no snippet that is in
\* two layers goes up with its prompt (the guard of promotions, promotion.py)
THEOREM OneHomeAlways == ASSUME ~CascadeAfterCut PROVE Spec => []OneHome
<1> DEFINE I == TypeInv /\ HomeInv
<1>1. Init => I
  BY TypeInit, HomeInit
<1>2. I /\ [Next]_vars => I'
  BY TypeStep, HomeStep
<1>3. I => OneHome
  BY OneHomeFollows
<1> QED  BY <1>1, <1>2, <1>3, PTL DEF Spec

-----------------------------------------------------------------------------
(* Snapshots *)

\* Where no file goes and no store grows, between moves, every store stays with
\* its file
LEMMA StoreKept ==
  ASSUME store \in [Layer -> SUBSET Node], StoreInv, ~Moving, job' = job, cut' = cut,
         \A l \in Layer : \A m \in store'[l] : file'[l][m] # None \/ m \in store[l],
         \A l \in Layer : \A m \in store'[l] : file[l][m] # None => file'[l][m] # None
  PROVE  StoreInv'
BY DEF StoreInv, Moving, Has

\* No request leaves a store behind
LEMMA StoreRequest ==
  ASSUME TypeInv, StoreInv, ~Overlap, NEW R \in Layer, NEW n \in Node,
         \/ \E L \in Layer, e \in Edit : Save(R, n, L, e)
         \/ \E L \in Layer, field \in {"val", "refs"} : Reset(R, n, L, field)
         \/ Capture(R, n) \/ Delete(R, n)
  PROVE  StoreInv'
<1>1. FileTyped /\ store \in [Layer -> SUBSET Node] /\ TypeOK
  BY TypeParts DEF TypeInv
<1>2. job' = job /\ cut' = cut /\ ~Moving
  BY DEF Save, Reset, Capture, Delete, Quiet, Moving
<1>3. CASE \E L \in Layer, e \in Edit : Save(R, n, L, e)
  <2> PICK L \in Layer, e \in Edit : Save(R, n, L, e)
    BY <1>3
  <2> DEFINE o == Winner(R, n)
             text == Edited(View(R, n, L), e)
  <2>1. /\ o \in Layer /\ Has(o, n) /\ text \in Text
        /\ file' = file \/ file' = [file EXCEPT ![o][n] = Written(text, file[o][n].fork)]
        /\ store' = store \/ store' = [store EXCEPT ![o] = @ \cup {n}]
    BY <1>1, SaveSays
  <2> HIDE DEF o, text
  <2>2. Written(text, file[o][n].fork) # None
    BY <1>1, <2>1, FileText, WrittenContent DEF Content
  <2>3. \A l \in Layer, m \in Node : file[l][m] # None => file'[l][m] # None
    <3>1. CASE file' = file
      BY <3>1
    <3>2. CASE file' = [file EXCEPT ![o][n] = Written(text, file[o][n].fork)]
      BY <1>1, <2>1, <2>2, <3>2 DEF FileTyped
    <3> QED  BY <2>1, <3>1, <3>2
  <2>4. \A l \in Layer : /\ store'[l] \subseteq Node
                         /\ \A m \in store'[l] : m \in store[l] \/ (l = o /\ m = n)
    BY <1>1, <2>1
  <2>5. \A l \in Layer : \A m \in store'[l] : file'[l][m] # None \/ m \in store[l]
    BY <2>1, <2>3, <2>4 DEF Has
  <2> QED  BY <1>1, <1>2, <2>3, <2>4, <2>5, StoreKept
<1>4. CASE \E L \in Layer, field \in {"val", "refs"} : Reset(R, n, L, field)
  <2>1. file' = file /\ store' = store
    BY <1>4 DEF Reset
  <2> QED  BY <1>1, <1>2, <2>1, StoreKept
<1>5. CASE Capture(R, n)
  <2>1. /\ file' = file /\ n \in Visible(R)
        /\ store' = [store EXCEPT ![Winner(R, n)] = @ \cup {n}]
    BY <1>5 DEF Capture
  <2>2. Winner(R, n) \in Layer /\ Has(Winner(R, n), n)
    BY <2>1, WinnerOwns
  <2>3. \A l \in Layer : \A m \in store'[l] : m \in store[l] \/ (l = Winner(R, n) /\ m = n)
    BY <1>1, <2>1, <2>2
  <2>4. \A l \in Layer : \A m \in store'[l] : file'[l][m] # None \/ m \in store[l]
    BY <2>1, <2>2, <2>3 DEF Has
  <2> QED  BY <1>1, <1>2, <2>1, <2>4, StoreKept
<1>6. CASE Delete(R, n)
  <2>1. file' = [file EXCEPT ![R][n] = None] /\ store' = [store EXCEPT ![R] = @ \ {n}]
    BY <1>6 DEF Delete
  <2>2. \A l \in Layer : \A m \in store'[l] :
            m \in store[l] /\ m \in Node /\ ~(l = R /\ m = n)
    BY <1>1, <2>1
  <2>3. \A l \in Layer, m \in Node : ~(l = R /\ m = n) => file'[l][m] = file[l][m]
    BY <1>1, <2>1 DEF FileTyped
  <2> QED  BY <1>1, <1>2, <2>2, <2>3, StoreKept
<1> QED  BY <1>3, <1>4, <1>5, <1>6

\* A move takes the store with the file
LEMMA StoreMove ==
  ASSUME TypeInv, StoreInv,
         WriteFork \/ DropOwn \/ MoveStore \/ WritePromoted \/ DeleteOrigin \/ SettleOrigin \/ Stop
  PROVE  StoreInv'
<1>1. FileTyped /\ store \in [Layer -> SUBSET Node] /\ JobTyped /\ JobInv /\ CutTyped /\ TypeOK
  BY TypeParts DEF TypeInv
<1>2. job # None /\ Moving
  BY DEF WriteFork, DropOwn, MoveStore, WritePromoted, DeleteOrigin, SettleOrigin, Stop, Moving
<1>3. /\ job \in Moves /\ job.full \in Text
      /\ job.phase \in {"store", "write", "delete", "settle"} =>
           job.dest < job.root /\ job.travels \in Text
  BY <1>1, <1>2 DEF JobTyped, JobInv, Moving, Promoting
<1>4. PICK R \in Layer, d \in Layer, n \in Node : R = job.root /\ d = job.dest /\ n = job.at
  BY <1>3 DEF Moves
<1>5. /\ \A l \in Layer : \A m \in store[l] :
           \/ Has(l, m)
           \/ <<m, "write">> \in cut
           \/ n = m /\ job.phase = "write" /\ d = l
      /\ job.phase \in {"write", "delete"} => n \notin store[R]
  BY <1>2, <1>4 DEF StoreInv
<1>6. d \in Nat /\ R \in Nat
  BY LayerMovesAssumption DEF Layer
<1>7. CASE WriteFork
  <2>1. /\ file' = [file EXCEPT ![R][n] = Written(job.full, TRUE)]
        /\ job' = [job EXCEPT !.phase = "drop"] /\ job.phase = "fork" /\ cut' = cut /\ store' = store
    BY <1>4, <1>7 DEF WriteFork
  <2>2. Written(job.full, TRUE) # None
    BY <1>3, WrittenContent
  <2>3. \A l \in Layer, m \in Node : Has(l, m) => Has(l, m)'
    BY <1>1, <2>1, <2>2 DEF FileTyped, Has
  <2>4. job'.phase = "drop"
    BY <1>3, <2>1 DEF Moves
  <2> QED  BY <1>1, <1>5, <2>1, <2>3, <2>4 DEF StoreInv, Moving
<1>8. CASE MoveStore
  <2>1. /\ file' = file /\ cut' = cut /\ job.phase = "store" /\ d < R
        /\ \/ job' = None /\ store' = store
           \/ /\ job' = [job EXCEPT !.phase = "write"]
              /\ store' = IF n \in store[R] THEN
                             [store EXCEPT ![R] = @ \ {n}, ![d] = @ \cup {n}] ELSE store
    BY <1>3, <1>4, <1>8 DEF MoveStore
  <2>2. CASE job' = None /\ store' = store
    BY <1>1, <1>5, <2>1, <2>2 DEF StoreInv, Moving, Has
  <2>3. CASE /\ job' = [job EXCEPT !.phase = "write"]
             /\ store' = IF n \in store[R] THEN
                            [store EXCEPT ![R] = @ \ {n}, ![d] = @ \cup {n}] ELSE store
    <3>1. job'.phase = "write" /\ job'.root = R /\ job'.dest = d /\ job'.at = n /\ job' # None
      BY <1>3, <1>4, <2>3, LayerMovesAssumption DEF Moves
    <3>2. /\ n \notin store'[R]
          /\ \A l \in Layer : \A m \in store'[l] : m \in store[l] \/ (l = d /\ m = n)
      <4>1. CASE n \in store[R]
        BY <1>1, <1>6, <2>1, <2>3, <4>1
      <4>2. CASE n \notin store[R]
        BY <2>3, <4>2
      <4> QED  BY <4>1, <4>2
    <3>3. \A l \in Layer : \A m \in store'[l] :
             \/ Has(l, m)'
             \/ <<m, "write">> \in cut'
             \/ job'.at = m /\ job'.phase = "write" /\ job'.dest = l
      BY <1>5, <2>1, <3>1, <3>2 DEF Has
    <3> QED  BY <3>1, <3>2, <3>3 DEF StoreInv, Moving
  <2> QED  BY <2>1, <2>2, <2>3
<1>9. CASE WritePromoted
  <2>1. /\ file' = [file EXCEPT ![d][n] = Written(job.travels, FALSE)]
        /\ job' = [job EXCEPT !.phase = "delete"] /\ job.phase = "write"
        /\ cut' = cut /\ store' = store
    BY <1>4, <1>9 DEF WritePromoted
  <2>2. Written(job.travels, FALSE) # None
    BY <1>3, <2>1, WrittenContent
  <2>3. (\A l \in Layer, m \in Node : Has(l, m) => Has(l, m)') /\ file'[d][n] # None
    BY <1>1, <2>1, <2>2 DEF FileTyped, Has
  <2>4. job'.phase = "delete" /\ job'.root = R /\ job'.at = n
    BY <1>3, <1>4, <2>1 DEF Moves
  <2>5. \A l \in Layer : \A m \in store'[l] : Has(l, m)' \/ <<m, "write">> \in cut'
    BY <1>1, <1>5, <2>1, <2>3 DEF Has
  <2> QED  BY <1>5, <2>1, <2>4, <2>5 DEF StoreInv
<1>10. CASE DeleteOrigin
  <2>1. /\ file' = [file EXCEPT ![R][n] = None]
        /\ job' = [job EXCEPT !.phase = "settle"] /\ job.phase = "delete"
        /\ cut' = cut /\ store' = store
    BY <1>4, <1>10 DEF DeleteOrigin
  <2>2. \A l \in Layer, m \in Node : ~(l = R /\ m = n) => file'[l][m] = file[l][m]
    BY <1>1, <2>1 DEF FileTyped
  <2>3. job'.phase = "settle"
    BY <1>3, <2>1 DEF Moves
  <2>4. \A l \in Layer : \A m \in store'[l] : Has(l, m)' \/ <<m, "write">> \in cut'
    BY <1>1, <1>5, <2>1, <2>2 DEF Has
  <2> QED  BY <2>3, <2>4 DEF StoreInv
<1>11. CASE SettleOrigin
  <2>1. /\ file' = file /\ cut' = cut /\ store' = store /\ job.phase = "settle"
        /\ job' = None \/ job' \in Turn(job)
    BY <1>11 DEF SettleOrigin
  <2>2. job' # None => job'.phase = "store"
    BY <1>1, <1>3, <2>1, TurnSays
  <2> QED  BY <1>1, <1>5, <2>1, <2>2 DEF StoreInv, Has, Moving
<1>12. CASE DropOwn \/ Stop
  <2>1. file' = file /\ store' = store /\ job' = None
    BY <1>12 DEF DropOwn, Stop
  <2>2. cut \subseteq cut' /\ (job.phase = "write" => <<n, "write">> \in cut')
    <3>1. CASE DropOwn
      BY <3>1 DEF DropOwn
    <3>2. CASE Stop
      <4>1. cut' = IF job.phase \in {"write", "delete"} THEN cut \cup {<<n, job.phase>>} ELSE cut
        BY <1>4, <3>2 DEF Stop
      <4> QED  BY <4>1
    <3> QED  BY <1>12, <3>1, <3>2
  <2> QED  BY <1>5, <2>1, <2>2 DEF StoreInv, Has, Moving
<1> QED  BY <1>7, <1>8, <1>9, <1>10, <1>11, <1>12

\* The invariant is inductive
LEMMA StoreStep ==
  ASSUME TypeInv, StoreInv, ~Overlap, [Next]_vars PROVE StoreInv'
<1>1. CASE UNCHANGED vars
  BY <1>1 DEF vars, StoreInv, Has, Moving
<1>2. ASSUME NEW R \in Layer, NEW n \in Node,
             \/ \E L \in Layer, e \in Edit : Save(R, n, L, e)
             \/ \E L \in Layer, field \in {"val", "refs"} : Reset(R, n, L, field)
             \/ Capture(R, n) \/ Delete(R, n)
      PROVE  StoreInv'
  BY <1>2, StoreRequest
<1>3. ASSUME NEW R \in Layer, NEW n \in Node,
             StartFork(R, n) \/ \E d \in Layer : StartPromotion(R, n, d)
      PROVE  StoreInv'
  <2>1. job = None /\ UNCHANGED <<file, store, cut>>
    BY <1>3 DEF StartFork, StartPromotion
  <2>2. job'.phase \in {"fork", "store"}
    BY <1>3, ForkSays, PromotionSays DEF TypeInv
  <2> QED  BY <2>1, <2>2 DEF StoreInv, Has, Moving
<1>4. CASE WriteFork \/ DropOwn \/ MoveStore \/ WritePromoted \/ DeleteOrigin \/ SettleOrigin \/ Stop
  BY <1>4, StoreMove
<1> QED  BY <1>1, <1>2, <1>3, <1>4 DEF Next

\* HistoryFollows: the snapshots of a node are in the layer that has its file,
\* or a promotion stopped between moving the one and writing the other, for
\* requests that do not come between the writes of a move
\* (move_scene_snapshots and _snapshot_store_root)
THEOREM HistoryAlwaysFollows == ASSUME ~Overlap PROVE Spec => []HistoryFollows
<1> DEFINE I == TypeInv /\ StoreInv
<1>1. Init => I
  BY TypeInit DEF Init, StoreInv, Moving
<1>2. I /\ [Next]_vars => I'
  BY TypeStep, StoreStep
<1>3. I => HistoryFollows
  BY DEF StoreInv, HistoryFollows, Has, Moving
<1> QED  BY <1>1, <1>2, <1>3, PTL DEF Spec

-----------------------------------------------------------------------------
(* Nothing leads down *)

\* With snippets that include nothing, what a prompt needs is what it includes
LEMMA FlatClosure ==
  ASSUME FlatSnippets, NEW n \in Prompt
  PROVE  Closure(n) = Needs[n]
<1> DEFINE N == Cardinality(Node)
           Next_(f) == [k \in 0 .. N |-> IF k = 0 THEN Needs[n]
                                         ELSE f[k - 1] \cup UNION {Needs[m] : m \in f[k - 1]}]
           within == CHOOSE f : f = Next_(f)
           Less == OpToRel(<, Nat)
           Bad == {k \in 0 .. N : within[k] # Needs[n]}
<1>1. N \in Nat
  BY NeedsAssumption, FS_CardinalityType
<1>2. UNION {Needs[m] : m \in Needs[n]} = {}
  BY DEF FlatSnippets
<1>3. [k \in 0 .. N |-> Needs[n]] = Next_([k \in 0 .. N |-> Needs[n]])
  <2>1. \A k \in 0 .. N : k # 0 => k - 1 \in 0 .. N
    BY <1>1
  <2> QED  BY <1>2, <2>1
<1>4. within = Next_(within)
  <2>1. \E f : f = Next_(f)
    BY <1>3
  <2> QED  BY <2>1
<1>5. Closure(n) = within[N]
  BY DEF Closure
<1>6. \A k \in 0 .. N : within[k] = IF k = 0 THEN Needs[n]
                                    ELSE within[k - 1] \cup UNION {Needs[m] : m \in within[k - 1]}
  <2> HIDE DEF within
  <2> QED  BY <1>4
<1>7. Bad = {}
  <2> SUFFICES ASSUME Bad # {} PROVE FALSE
    OBVIOUS
  <2>1. IsWellFoundedOn(Less, Nat)
    BY NatLessThanWellFounded
  <2>2. \A a, b \in Nat : a < b => <<a, b>> \in Less
    BY DEF OpToRel
  <2>3. Bad \subseteq Nat
    BY <1>1
  <2>4. PICK k \in Bad : \A i \in Bad : <<i, k>> \notin Less
    <3> HIDE DEF Bad, Less
    <3> QED  BY <2>1, <2>3, WFMin
  <2>5. k \in 0 .. N /\ within[k] # Needs[n]
    OBVIOUS
  <2> HIDE DEF within
  <2>6. k # 0
    BY <1>6, <2>5
  <2>7. k - 1 \in 0 .. N /\ k - 1 \in Nat /\ k \in Nat /\ k - 1 < k
    BY <1>1, <2>5, <2>6
  <2>8. k - 1 \notin Bad
    <3> HIDE DEF Bad, Less
    <3> QED  BY <2>2, <2>4, <2>7
  <2>9. within[k - 1] = Needs[n]
    BY <2>7, <2>8
  <2> QED  BY <1>2, <1>6, <2>5, <2>6, <2>9
<1>8. N \in 0 .. N
  BY <1>1
<1>9. within[N] = Needs[n]
  <2> HIDE DEF within
  <2> QED  BY <1>7, <1>8
<1> QED  BY <1>5, <1>9

\* What a layer sees stays if no file goes
LEMMA SightKept ==
  ASSUME \A l \in Layer, m \in Node : Has(l, m) => Has(l, m)'
  PROVE  \A l \in Layer : Visible(l) \subseteq Visible(l)'
<1> SUFFICES ASSUME NEW l \in Layer, NEW m \in Visible(l) PROVE m \in Visible(l)'
  OBVIOUS
<1>1. \A k \in 1 .. l : k \in Layer
  BY LayerMovesAssumption DEF Layer
<1>2. m \in Node /\ \E k \in 1 .. l : file[k][m] # None
  BY DEF Visible, Owners
<1>3. \E k \in 1 .. l : file'[k][m] # None
  BY <1>1, <1>2 DEF Has
<1> QED  BY <1>2, <1>3 DEF Visible, Owners

\* What an entry shows at a layer, that layer sees
LEMMA ViewLeads ==
  ASSUME DestinationClosed, NEW R \in Layer, NEW n \in Visible(R), NEW L \in Layer,
         Winner(R, n) <= L
  PROVE  View(R, n, L).refs \subseteq Visible(L)
<1> DEFINE o == Winner(R, n)
<1>1. o \in Layer /\ Has(o, n) /\ n \in Node
  BY WinnerOwns
<1>2. file[o][n].refs \subseteq Visible(L)
  BY <1>1, SeesMore DEF DestinationClosed, Has
<1>3. \A l \in Shown(R, n, L) : l \in Layer /\ l <= L
  BY LayerMovesAssumption DEF Shown, Layer
<1>4. \A l \in Shown(R, n, L) : over[l][n].add \subseteq Visible(L)
  BY <1>1, <1>3, SeesMore DEF DestinationClosed
<1> QED  BY <1>1, <1>2, <1>3, <1>4, FoldLeads DEF View

\* What a node needs is flat
LEMMA NeedsFlat ==
  ASSUME FlatSnippets, NEW n \in Node, NEW d
  PROVE  /\ Members(n, d) = Needs[n] \ Visible(d)
         /\ n \notin Needs[n]
         /\ Needs[n] \subseteq Node /\ \A m \in Needs[n] : Needs[m] = {}
         /\ n \notin MutationSet => \A m \in Needs[n] : Nested[m] = {}
<1>1. Needs[n] \subseteq Node
  BY LayerMovesAssumption
<1>2. CASE n \in Prompt
  <2>1. Closure(n) = Needs[n] /\ n \notin MutationSet
    BY <1>2, FlatClosure, LayerMovesAssumption
  <2>2. \A m \in Needs[n] : Needs[m] = {} /\ Nested[m] = {}
    BY <1>2 DEF FlatSnippets
  <2> QED  BY <1>1, <1>2, <2>1, <2>2 DEF Members, SeenFrom
<1>3. CASE n \in MutationSet
  <2>1. Needs[n] \subseteq Lore /\ n \notin Prompt
    BY <1>3, NeedsAssumption, LayerMovesAssumption
  <2>2. n \notin Lore /\ \A m \in Lore : m \in Node /\ m \notin Prompt /\ m \notin MutationSet
    BY <1>3, LayerMovesAssumption DEF Node
  <2>3. \A m \in Lore : Needs[m] = {}
    BY <2>2, NeedsAssumption
  <2> QED  BY <1>1, <1>3, <2>1, <2>2, <2>3 DEF Members, SeenFrom
<1>4. CASE n \notin Prompt /\ n \notin MutationSet
  <2>1. Needs[n] = {}
    BY <1>4, NeedsAssumption
  <2> QED  BY <1>1, <1>4, <2>1 DEF Members, SeenFrom
<1> QED  BY <1>2, <1>3, <1>4

\* Between moves it is the files and rows that count
LEMMA ClosedAtRest ==
  ASSUME DestinationClosed', job' = None
  PROVE  ClosedInv'
BY DEF ClosedInv, Moving, Promoting

\* What is needed changes with the files
LEMMA NeededSame ==
  ASSUME \A l \in Layer, m \in Node : Has(l, m)' <=> Has(l, m)
  PROVE  Needed' = Needed
BY DEF Needed

\* What stays for sure: what is referred to, what is not an entry, what is needed
LEMMA KeptStays ==
  ASSUME NEW j, j \in Moves, Carried(j), j.travels \in Text
  PROVE  /\ j.travels.refs \cup Nested[j.at] \cup Nested[j.top] \subseteq Kept
         /\ Needs[j.top] \subseteq Kept
         /\ \A m \in j.todo : Nested[m] \subseteq Kept
<1>1. j.at \in Node /\ j.top \in Node /\ j.todo \subseteq Node
  BY DEF Moves
<1>2. j.travels.refs \subseteq Target /\ \A m \in Node : Nested[m] \subseteq Target
  BY LayerMovesAssumption DEF Text
<1> QED  BY <1>1, <1>2 DEF Carried, Kept

\* Where nothing comes or goes, a layer sees what it saw
LEMMA SightSame ==
  ASSUME file' = file
  PROVE  \A l \in Layer : Visible(l)' = Visible(l)
BY DEF Visible, Owners

LEMMA NeededAlike ==
  ASSUME file' = file
  PROVE  Needed' = Needed
BY DEF Needed, Has

\* A promotion carries on over whatever leaves in sight what is kept
LEMMA CarriesOn ==
  ASSUME job \in Moves, job.travels \in Text, Carried(job), Needed \subseteq Needed',
         job'.dest = job.dest, job'.at = job.at, job'.top = job.top, job'.todo = job.todo,
         job'.travels = job.travels,
         \A l \in Layer : Visible(l) \cap Kept \subseteq Visible(l)'
  PROVE  Carried(job)'
<1>1. /\ job.travels.refs \cup Nested[job.at] \cup Nested[job.top] \subseteq Kept
      /\ Needs[job.top] \subseteq Kept
      /\ \A m \in job.todo : Nested[m] \subseteq Kept
  BY KeptStays
<1>2. job.dest \in Layer
  BY DEF Moves
<1>3. Visible(job.dest) \cap Kept \subseteq Visible(job.dest)'
  <2>1. PICK d \in Layer : d = job.dest /\ job'.dest = d
    BY <1>2
  <2>2. Visible(job.dest)' = Visible(d)'
    BY <2>1 DEF Visible, Owners
  <2> QED  BY <2>1, <2>2
<1> QED  BY <1>1, <1>3 DEF Carried

\* Requests that keep what is kept
LEMMA ClosedBetween ==
  ASSUME TypeInv, ClosedInv, job' = job, DestinationClosed', Needed' = Needed,
         \A l \in Layer : Visible(l) \cap Kept \subseteq Visible(l)'
  PROVE  ClosedInv'
<1>1. JobTyped /\ JobInv
  BY TypeParts DEF TypeInv
<1>2. CASE ~Moving
  BY <1>2 DEF ClosedInv, Moving, Promoting
<1>3. CASE Moving
  <2>1. /\ job \in Moves /\ job.full \in Text
        /\ Promoting => job.travels \in Text
    BY <1>1, <1>3 DEF JobTyped, JobInv, Moving, Promoting
  <2>2. job.root \in Layer /\ job.dest \in Layer /\ job.at \in Node
    BY <2>1 DEF Moves
  <2>3. job.full.refs \subseteq Visible(job.root)'
    BY <1>3, <2>1, <2>2 DEF ClosedInv, Kept, Text
  <2>4. job.phase = "fork" => Needs[job.at] = {} /\ Nested[job.at] \subseteq Visible(job.root)'
    BY <1>3, <2>2, LayerMovesAssumption DEF ClosedInv, Kept
  <2>5. ASSUME Promoting
        PROVE  /\ Carried(job)'
               /\ job.phase \in {"delete", "settle"} =>
                    job.at \in Visible(job.dest)' \/ job.at \notin Kept'
    <3>1. /\ Carried(job)
          /\ job.phase \in {"delete", "settle"} => job.at \in Visible(job.dest) \/ job.at \notin Kept
      BY <2>5 DEF ClosedInv
    <3>2. Kept' = Kept
      BY DEF Kept
    <3>4. Visible(job.dest) \cap Kept \subseteq Visible(job.dest)'
      BY <2>2
    <3>5. Carried(job)'
      BY <2>1, <2>5, <3>1, CarriesOn
    <3> QED  BY <3>1, <3>2, <3>4, <3>5
  <2> QED  BY <2>3, <2>4, <2>5 DEF ClosedInv, Moving, Promoting
<1> QED  BY <1>2, <1>3

\* No request but one that is told to refers down
LEMMA ClosedRequest ==
  ASSUME TypeInv, ClosedInv, ~RefsReachDown, NEW R \in Layer, NEW n \in Node,
         \/ \E L \in Layer, e \in Edit : Save(R, n, L, e)
         \/ \E L \in Layer, field \in {"val", "refs"} : Reset(R, n, L, field)
         \/ Capture(R, n) \/ Delete(R, n)
  PROVE  ClosedInv'
<1>1. FileTyped /\ OverTyped /\ TypeOK /\ DestinationClosed
  BY TypeParts DEF TypeInv, ClosedInv
<1>2. job' = job
  BY DEF Save, Reset, Capture, Delete
<1>3. CASE \E L \in Layer, e \in Edit : Save(R, n, L, e)
  <2> PICK L \in Layer, e \in Edit : Save(R, n, L, e)
    BY <1>3
  <2> DEFINE o == Winner(R, n)
             text == Edited(View(R, n, L), e)
             base == Above(R, n, L)
  <2>1. /\ n \in Visible(R) /\ o \in Layer /\ o <= L /\ Has(o, n) /\ text \in Text
        /\ \/ /\ L = o /\ over' = over
              /\ file' = [file EXCEPT ![o][n] = Written(text, file[o][n].fork)]
           \/ file' = file /\ over' = [over EXCEPT ![L][n] = Diff(base, text)]
        /\ text.refs \ View(R, n, L).refs \subseteq Visible(L)
    BY <1>1, SaveSays
  <2>2. text.refs \subseteq Visible(L)
    <3>1. View(R, n, L).refs \subseteq Visible(L)
      BY <1>1, <2>1, ViewLeads
    <3> QED  BY <2>1, <3>1
  <2>3. base \in Text
    BY <1>1, <2>1, ViewText
  <2> HIDE DEF o, text, base
  <2>4. CASE /\ L = o /\ over' = over
             /\ file' = [file EXCEPT ![o][n] = Written(text, file[o][n].fork)]
    <3>1. /\ Written(text, file[o][n].fork) # None
          /\ Written(text, file[o][n].fork).refs = text.refs
      BY <1>1, <2>1, FileText, WrittenContent DEF Content
    <3>2. /\ file'[o][n] = Written(text, file[o][n].fork)
          /\ \A k \in Layer, m \in Node : k # o \/ m # n => file'[k][m] = file[k][m]
      BY <1>1, <2>1, <2>4 DEF FileTyped
    <3>3. \A l \in Layer : Visible(l) \subseteq Visible(l)'
      <4>1. \A l \in Layer, m \in Node : Has(l, m) => Has(l, m)'
        BY <3>1, <3>2 DEF Has
      <4> QED  BY <4>1, SightKept
    <3>4. DestinationClosed'
      <4> SUFFICES ASSUME NEW l \in Layer, NEW m \in Node
          PROVE  /\ file'[l][m] # None =>
                      file'[l][m].refs \cup Nested[m] \cup Needs[m] \subseteq Visible(l)'
                 /\ over'[l][m].add \subseteq Visible(l)'
        BY DEF DestinationClosed
      <4>1. over'[l][m].add \subseteq Visible(l)'
        BY <1>1, <2>4, <3>3 DEF DestinationClosed
      <4>2. CASE l = o /\ m = n
        <5>1. Nested[n] \cup Needs[n] \subseteq Visible(o)
          BY <1>1, <2>1 DEF DestinationClosed, Has
        <5> QED  BY <2>1, <2>2, <2>4, <3>1, <3>2, <3>3, <4>1, <4>2, <5>1
      <4>3. CASE ~(l = o /\ m = n)
        <5>1. file'[l][m] = file[l][m]
          BY <3>2, <4>3
        <5> QED  BY <1>1, <3>3, <4>1, <5>1 DEF DestinationClosed
      <4> QED  BY <4>2, <4>3
    <3>5. Needed' = Needed
      <4>1. \A l \in Layer, m \in Node : Has(l, m)' <=> Has(l, m)
        BY <2>1, <3>1, <3>2 DEF Has
      <4> QED  BY <4>1, NeededSame
    <3> QED  BY <1>2, <3>3, <3>4, <3>5, ClosedBetween
  <2>5. CASE file' = file /\ over' = [over EXCEPT ![L][n] = Diff(base, text)]
    <3>1. Diff(base, text).add \subseteq Visible(L)
      BY <2>1, <2>2, <2>3, DiffRows
    <3>2. \A l \in Layer, m \in Node : over'[l][m] = over[l][m] \/ over'[l][m].add \subseteq Visible(l)
      BY <1>1, <2>5, <3>1 DEF OverTyped
    <3>3. DestinationClosed'
      BY <1>1, <2>5, <3>2 DEF DestinationClosed, Visible, Owners
    <3> QED  BY <1>2, <2>5, <3>3, SightSame, NeededAlike, ClosedBetween
  <2> QED  BY <2>1, <2>4, <2>5
<1>4. CASE \E L \in Layer, field \in {"val", "refs"} : Reset(R, n, L, field)
  <2> PICK L \in Layer, field \in {"val", "refs"} : Reset(R, n, L, field)
    BY <1>4
  <2> DEFINE rows == Diff(Above(R, n, L), View(R, n, L))
  <2>1. /\ n \in Visible(R) /\ L > Winner(R, n) /\ file' = file
        /\ over' = [over EXCEPT ![L][n] = Cleared(rows, field)]
    BY DEF Reset, MayAuthor
  <2>2. Winner(R, n) \in Layer /\ Winner(R, n) <= L
    BY <2>1, WinnerOwns, LayerMovesAssumption DEF Layer
  <2>3. View(R, n, L).refs \subseteq Visible(L)
    BY <1>1, <2>1, <2>2, ViewLeads
  <2>4. /\ rows \in Rows /\ rows.add \cap rows.del = {} /\ rows.add \subseteq Visible(L)
    BY <1>1, <2>1, <2>3, ViewText, DiffRows
  <2> HIDE DEF rows
  <2>5. Cleared(rows, field).add \subseteq Visible(L)
    BY <2>4, ClearedRows
  <2>6. \A l \in Layer, m \in Node : over'[l][m] = over[l][m] \/ over'[l][m].add \subseteq Visible(l)
    BY <1>1, <2>1, <2>5 DEF OverTyped
  <2>7. DestinationClosed'
    BY <1>1, <2>1, <2>6 DEF DestinationClosed, Visible, Owners
  <2> QED  BY <1>2, <2>1, <2>7, SightSame, NeededAlike, ClosedBetween
<1>5. CASE Capture(R, n)
  <2>1. file' = file /\ over' = over
    BY <1>5 DEF Capture
  <2>2. DestinationClosed'
    BY <1>1, <2>1 DEF DestinationClosed, Visible, Owners
  <2> QED  BY <1>2, <2>1, <2>2, SightSame, NeededAlike, ClosedBetween
<1>6. CASE Delete(R, n)
  <2>1. /\ n \in Visible(R) /\ n \in Lore /\ over' = over /\ file' = [file EXCEPT ![R][n] = None]
        /\ \/ Owners(R, n) # {R}
           \/ /\ n \notin Target
              /\ \A l \in Layer, m \in Node : Has(l, m) => n \notin Needs[m] \cup Nested[m]
        /\ Winner(R, n) = R
    BY <1>6 DEF Delete, Has
  <2>2. /\ file'[R][n] = None
        /\ \A k \in Layer, m \in Node : k # R \/ m # n => file'[k][m] = file[k][m]
    BY <1>1, <2>1 DEF FileTyped
  <2>3. \A l \in Layer : Visible(l) \ {n} \subseteq Visible(l)'
    <3> SUFFICES ASSUME NEW l \in Layer, NEW m \in Visible(l), m # n PROVE m \in Visible(l)'
      OBVIOUS
    <3>1. m \in Node /\ \E k \in 1 .. l : file[k][m] # None
      BY DEF Visible, Owners
    <3>2. \A k \in 1 .. l : k \in Layer
      BY LayerMovesAssumption DEF Layer
    <3>3. \E k \in 1 .. l : file'[k][m] # None
      BY <2>2, <3>1, <3>2
    <3> QED  BY <3>1, <3>3 DEF Visible, Owners
  <2>6. Needed' = Needed
    <3>1. Needs[n] = {}
      BY <2>1, NeedsAssumption, LayerMovesAssumption
    <3> QED  BY <2>2, <3>1 DEF Needed, Has
  <2>4. CASE Owners(R, n) # {R}
    <3>1. PICK o \in Layer : o < R /\ file[o][n] # None
      <4>1. R \in Owners(R, n)
        BY <2>1, WinnerOwns, LayerMovesAssumption DEF Owners, Has, Layer
      <4>2. PICK o \in Owners(R, n) : o # R
        BY <2>4, <4>1
      <4> QED  BY <4>2, LayerMovesAssumption DEF Owners, Layer
    <3>2. \A l \in Layer : n \in Visible(l) => n \in Visible(l)'
      <4> TAKE l \in Layer
      <4> HAVE n \in Visible(l)
      <4>1. PICK k \in 1 .. l : file[k][n] # None
        BY DEF Visible, Owners
      <4>2. k \in Layer /\ (k = R => o \in 1 .. l)
        BY <3>1, LayerMovesAssumption DEF Layer
      <4>3. \E i \in 1 .. l : file'[i][n] # None
        <5>1. CASE k = R
          BY <2>2, <3>1, <4>2, <5>1, LayerMovesAssumption DEF Layer
        <5>2. CASE k # R
          BY <2>2, <4>1, <4>2, <5>2
        <5> QED  BY <5>1, <5>2
      <4> QED  BY <4>3 DEF Visible, Owners
    <3>3. \A l \in Layer : Visible(l) \subseteq Visible(l)'
      BY <2>3, <3>2
    <3>4. \A l \in Layer, m \in Node : file'[l][m] # None => file'[l][m] = file[l][m]
      BY <2>2
    <3>5. DestinationClosed'
      BY <1>1, <2>1, <3>3, <3>4 DEF DestinationClosed
    <3> QED  BY <1>2, <2>6, <3>3, <3>5, ClosedBetween
  <2>5. CASE /\ n \notin Target
             /\ \A l \in Layer, m \in Node : Has(l, m) => n \notin Needs[m] \cup Nested[m]
    <3>1. \A l \in Layer, m \in Node : file'[l][m] # None =>
              /\ file'[l][m] = file[l][m] /\ Has(l, m)
              /\ n \notin file[l][m].refs \cup Nested[m] \cup Needs[m]
      <4> TAKE l \in Layer, m \in Node
      <4> HAVE file'[l][m] # None
      <4>1. file'[l][m] = file[l][m] /\ Has(l, m)
        BY <2>2 DEF Has
      <4>2. file[l][m].refs \subseteq Target
        BY <1>1, <4>1, FileText DEF Content
      <4> QED  BY <2>5, <4>1, <4>2
    <3>2. \A l \in Layer, m \in Node : n \notin over[l][m].add
      <4>1. \A l \in Layer, m \in Node : over[l][m] \in Rows
        BY <1>1 DEF OverTyped
      <4> QED  BY <2>5, <4>1 DEF Rows
    <3>3. DestinationClosed'
      <4> SUFFICES ASSUME NEW l \in Layer, NEW m \in Node
          PROVE  /\ file'[l][m] # None =>
                      file'[l][m].refs \cup Nested[m] \cup Needs[m] \subseteq Visible(l)'
                 /\ over'[l][m].add \subseteq Visible(l)'
        BY DEF DestinationClosed
      <4>1. over[l][m].add \subseteq Visible(l) \ {n}
        BY <1>1, <3>2 DEF DestinationClosed
      <4>2. file'[l][m] # None =>
              file'[l][m].refs \cup Nested[m] \cup Needs[m] \subseteq Visible(l) \ {n}
        BY <1>1, <3>1 DEF DestinationClosed, Has
      <4>3. Visible(l) \ {n} \subseteq Visible(l)'
        BY <2>3
      <4> QED  BY <2>1, <4>1, <4>2, <4>3
    <3>4. n \notin Kept
      BY <2>1, <2>5 DEF Kept, Needed
    <3> QED  BY <1>2, <2>3, <2>6, <3>3, <3>4, ClosedBetween
  <2> QED  BY <2>1, <2>4, <2>5
<1> QED  BY <1>3, <1>4, <1>5, <1>6

\* The layers of a move that goes on
LEMMA SightOfMove ==
  ASSUME NEW R \in Layer, NEW d \in Layer
  PROVE  /\ job'.root = R => Visible(job.root)' = Visible(R)'
         /\ job'.dest = d => Visible(job.dest)' = Visible(d)'
BY DEF Visible, Owners

\* A move begins with what it can carry
LEMMA ClosedBegin ==
  ASSUME TypeInv, ClosedInv, ~RefsReachDown, FlatSnippets, NEW R \in Layer, NEW n \in Node,
         StartFork(R, n) \/ \E d \in Layer : StartPromotion(R, n, d)
  PROVE  ClosedInv'
<1>1. TypeOK /\ DestinationClosed
  BY DEF TypeInv, ClosedInv
<1>2. job = None /\ UNCHANGED <<file, over>>
  BY DEF StartFork, StartPromotion
<1>3. DestinationClosed' /\ \A l \in Layer : Visible(l)' = Visible(l)
  BY <1>1, <1>2 DEF DestinationClosed, Visible, Owners
<1>4. CASE StartFork(R, n)
  <2>1. /\ job'.root = R /\ job'.at = n /\ job'.phase = "fork"
        /\ job'.full.refs \subseteq Visible(R) /\ n \in Visible(R)
    BY <1>1, <1>4, ForkSays
  <2>2. Winner(R, n) \in Layer /\ Winner(R, n) <= R /\ Has(Winner(R, n), n)
    BY <2>1, WinnerOwns
  <2>3. Needs[n] = {} /\ Nested[n] \subseteq Visible(R)
    <3>1. n \in Lore
      BY <1>4 DEF StartFork
    <3>2. Needs[n] = {}
      BY <3>1, NeedsAssumption, LayerMovesAssumption
    <3> QED  BY <1>1, <2>2, <3>2, SeesMore DEF DestinationClosed, Has
  <2>4. Visible(job.root)' = Visible(R)
    BY <1>3, <2>1, SightOfMove
  <2> QED  BY <1>3, <2>1, <2>3, <2>4 DEF ClosedInv, Moving, Promoting
<1>5. ASSUME NEW d \in Layer, StartPromotion(R, n, d)
      PROVE  ClosedInv'
  <2>1. /\ job'.root = R /\ job'.dest = d /\ job'.top = n
        /\ job'.phase = "store" /\ job'.todo = Up(R, n, d) \ {job'.at}
        /\ job'.at \in IF Up(R, n, d) = {} THEN {n} ELSE Up(R, n, d)
        /\ job'.full.refs \subseteq Visible(R) /\ job'.travels.refs \subseteq Visible(d)
        /\ Owners(R, n) = {R} /\ ~Blocked(n, d)
        /\ n \in MutationSet => \A m \in Up(R, n, d) : ~Blocked(m, d)
    BY <1>1, <1>5, PromotionSays
  <2>2. /\ Members(n, d) = Needs[n] \ Visible(d) /\ n \notin Needs[n]
        /\ Needs[n] \subseteq Node /\ \A m \in Needs[n] : Needs[m] = {}
        /\ n \notin MutationSet => \A m \in Needs[n] : Nested[m] = {}
    BY NeedsFlat
  <2>3. Needs[n] \subseteq Visible(R)
    BY <1>1, <2>1 DEF DestinationClosed, Owners
  <2>4. Up(R, n, d) = Needs[n] \ Visible(d)
    BY <2>2, <2>3 DEF Up
  <2>5. \A m \in {n} \cup Up(R, n, d) : Nested[m] \subseteq Visible(d)
    <3>1. Nested \in [Node -> SUBSET Node]
      BY LayerMovesAssumption
    <3>2. Nested[n] \subseteq Visible(d)
      BY <2>1, <3>1 DEF Blocked, SeenFrom
    <3>3. CASE n \in MutationSet
      BY <2>1, <3>1, <3>2, <3>3 DEF Blocked, SeenFrom
    <3>4. CASE n \notin MutationSet
      BY <2>2, <2>4, <3>2, <3>4
    <3> QED  BY <3>3, <3>4
  <2>8. Needs[n] \subseteq Needed'
    <3>1. Has(R, n)
      BY <2>1 DEF Owners, Has
    <3>2. Needs[n] \subseteq Needed
      BY <2>2, <3>1 DEF Needed
    <3> QED  BY <1>2, <3>2, NeededAlike
  <2>6. CASE Up(R, n, d) = {}
    <3>1. job'.at = n /\ job'.todo = {} /\ Needs[n] \subseteq Visible(d)
      BY <2>1, <2>4, <2>6
    <3>2. Visible(job.root)' = Visible(R) /\ Visible(job.dest)' = Visible(d)
      BY <1>3, <2>1, SightOfMove
    <3>3. Carried(job)'
      BY <1>3, <2>1, <2>2, <2>5, <2>8, <3>1, <3>2 DEF Carried
    <3> QED  BY <1>3, <2>1, <3>2, <3>3 DEF ClosedInv, Moving, Promoting
  <2>7. CASE Up(R, n, d) # {}
    <3>1. /\ job'.at \in Needs[n] /\ job'.at # n /\ job'.todo \subseteq Needs[n]
          /\ Needs[n] \ {job'.at} \subseteq Visible(d) \cup job'.todo
          /\ job'.todo \subseteq Up(R, n, d) /\ job'.at \in Up(R, n, d)
      BY <2>1, <2>2, <2>4, <2>7
    <3>2. Visible(job.root)' = Visible(R) /\ Visible(job.dest)' = Visible(d)
      BY <1>3, <2>1, SightOfMove
    <3>3. Carried(job)'
      BY <1>3, <2>1, <2>2, <2>5, <2>8, <3>1, <3>2 DEF Carried
    <3> QED  BY <1>3, <2>1, <3>2, <3>3 DEF ClosedInv, Moving, Promoting
  <2> QED  BY <2>6, <2>7
<1> QED  BY <1>4, <1>5

\* A move writes nothing that leads down, in whatever order it gets to its nodes
LEMMA ClosedMove ==
  ASSUME TypeInv, ClosedInv,
         WriteFork \/ DropOwn \/ MoveStore \/ WritePromoted \/ DeleteOrigin \/ SettleOrigin \/ Stop
  PROVE  ClosedInv'
<1>1. FileTyped /\ OverTyped /\ JobTyped /\ JobInv /\ TypeOK /\ DestinationClosed
  BY TypeParts DEF TypeInv, ClosedInv
<1>2. job # None /\ Moving
  BY DEF WriteFork, DropOwn, MoveStore, WritePromoted, DeleteOrigin, SettleOrigin, Stop, Moving
<1>3. /\ job \in Moves /\ job.full \in Text
      /\ job.phase \in {"store", "write", "delete", "settle"} =>
           job.dest < job.root /\ job.travels \in Text
  BY <1>1, <1>2 DEF JobTyped, JobInv, Moving, Promoting
<1>4. PICK R \in Layer, d \in Layer, n \in Node : R = job.root /\ d = job.dest /\ n = job.at
  BY <1>3 DEF Moves
<1>5. /\ job.full.refs \subseteq Visible(R)
      /\ job.phase = "fork" => Needs[n] = {} /\ Nested[n] \subseteq Visible(R)
      /\ job.phase \in {"store", "write", "delete", "settle"} => Carried(job)
      /\ job.phase \in {"delete", "settle"} => n \in Visible(d) \/ n \notin Kept
  BY <1>2, <1>4 DEF ClosedInv, Moving, Promoting
<1>6. CASE WriteFork
  <2>1. /\ file' = [file EXCEPT ![R][n] = Written(job.full, TRUE)] /\ over' = over
        /\ job' = [job EXCEPT !.phase = "drop"] /\ job.phase = "fork"
    BY <1>4, <1>6 DEF WriteFork
  <2>2. Written(job.full, TRUE) # None /\ Written(job.full, TRUE).refs = job.full.refs
    BY <1>3, WrittenContent
  <2>3. /\ file'[R][n] = Written(job.full, TRUE)
        /\ \A k \in Layer, m \in Node : k # R \/ m # n => file'[k][m] = file[k][m]
    BY <1>1, <2>1 DEF FileTyped
  <2>4. \A l \in Layer : Visible(l) \subseteq Visible(l)'
    <3>1. \A l \in Layer, m \in Node : Has(l, m) => Has(l, m)'
      BY <2>2, <2>3 DEF Has
    <3> QED  BY <3>1, SightKept
  <2>5. DestinationClosed'
    <3> SUFFICES ASSUME NEW l \in Layer, NEW m \in Node
        PROVE  /\ file'[l][m] # None =>
                    file'[l][m].refs \cup Nested[m] \cup Needs[m] \subseteq Visible(l)'
               /\ over'[l][m].add \subseteq Visible(l)'
      BY DEF DestinationClosed
    <3>1. over'[l][m].add \subseteq Visible(l)'
      BY <1>1, <2>1, <2>4 DEF DestinationClosed
    <3>2. CASE l = R /\ m = n
      <4>1. job.full.refs \cup Nested[n] \cup Needs[n] \subseteq Visible(R)'
        BY <1>5, <2>1, <2>4
      <4> QED  BY <2>2, <2>3, <3>1, <3>2, <4>1
    <3>3. CASE ~(l = R /\ m = n)
      <4>1. file'[l][m] = file[l][m]
        BY <2>3, <3>3
      <4> QED  BY <1>1, <2>4, <3>1, <4>1 DEF DestinationClosed
    <3> QED  BY <3>2, <3>3
  <2>6. job'.phase = "drop" /\ job'.root = R /\ job'.full = job.full
    BY <1>3, <1>4, <2>1 DEF Moves
  <2>7. job'.full.refs \subseteq Visible(R)'
    BY <1>5, <2>4, <2>6
  <2> QED  BY <2>5, <2>6, <2>7 DEF ClosedInv, Moving, Promoting
<1>7. CASE DropOwn
  <2>1. file' = file /\ job' = None /\ over' = [over EXCEPT ![R][n] = NoRows]
    BY <1>4, <1>7 DEF DropOwn
  <2>2. \A l \in Layer, m \in Node : over'[l][m] = over[l][m] \/ over'[l][m].add = {}
    BY <1>1, <2>1, NoRowsRows DEF OverTyped
  <2>3. DestinationClosed'
    BY <1>1, <2>1, <2>2 DEF DestinationClosed, Visible, Owners
  <2> QED  BY <2>1, <2>3, ClosedAtRest
<1>8. CASE MoveStore
  <2>1. /\ file' = file /\ over' = over /\ job.phase = "store"
        /\ job' = None \/ job' = [job EXCEPT !.phase = "write"]
    BY <1>8 DEF MoveStore
  <2>2. DestinationClosed' /\ \A l \in Layer : Visible(l)' = Visible(l)
    BY <1>1, <2>1 DEF DestinationClosed, Visible, Owners
  <2>3. CASE job' = None
    BY <2>2, <2>3, ClosedAtRest
  <2>4. CASE job' = [job EXCEPT !.phase = "write"]
    <3>1. /\ job'.phase = "write" /\ job'.root = R /\ job'.dest = d /\ job'.at = n
          /\ job'.top = job.top /\ job'.todo = job.todo
          /\ job'.full = job.full /\ job'.travels = job.travels
      BY <1>3, <1>4, <2>4 DEF Moves
    <3>2. Visible(job.root)' = Visible(R) /\ Visible(job.dest)' = Visible(d)
      BY <2>2, <3>1, SightOfMove
    <3>3. Carried(job)'
      BY <1>3, <1>5, <2>1, <2>2, <3>1, <1>4, NeededAlike, CarriesOn
    <3> QED  BY <1>5, <2>2, <3>1, <3>2, <3>3 DEF ClosedInv, Moving, Promoting
  <2> QED  BY <2>1, <2>3, <2>4
<1>9. CASE WritePromoted
  <2>1. /\ file' = [file EXCEPT ![d][n] = Written(job.travels, FALSE)] /\ over' = over
        /\ job' = [job EXCEPT !.phase = "delete"] /\ job.phase = "write"
    BY <1>4, <1>9 DEF WritePromoted
  <2>2. Written(job.travels, FALSE) # None /\ Written(job.travels, FALSE).refs = job.travels.refs
    BY <1>3, <2>1, WrittenContent
  <2>3. /\ file'[d][n] = Written(job.travels, FALSE)
        /\ \A k \in Layer, m \in Node : k # d \/ m # n => file'[k][m] = file[k][m]
    BY <1>1, <2>1 DEF FileTyped
  <2>4. \A l \in Layer : Visible(l) \subseteq Visible(l)'
    <3>1. \A l \in Layer, m \in Node : Has(l, m) => Has(l, m)'
      BY <2>2, <2>3 DEF Has
    <3> QED  BY <3>1, SightKept
  <2>5. /\ job.travels.refs \cup Nested[n] \cup Needs[n] \subseteq Visible(d)
        /\ Carried(job)
    <3>1. Carried(job)
      BY <1>5, <2>1
    <3>2. Needs[n] \subseteq Visible(d)
      BY <1>4, <3>1 DEF Carried
    <3> QED  BY <1>4, <3>1, <3>2 DEF Carried
  <2>6. DestinationClosed'
    <3> SUFFICES ASSUME NEW l \in Layer, NEW m \in Node
        PROVE  /\ file'[l][m] # None =>
                    file'[l][m].refs \cup Nested[m] \cup Needs[m] \subseteq Visible(l)'
               /\ over'[l][m].add \subseteq Visible(l)'
      BY DEF DestinationClosed
    <3>1. over'[l][m].add \subseteq Visible(l)'
      BY <1>1, <2>1, <2>4 DEF DestinationClosed
    <3>2. CASE l = d /\ m = n
      <4>1. job.travels.refs \cup Nested[n] \cup Needs[n] \subseteq Visible(d)'
        BY <2>4, <2>5
      <4> QED  BY <2>2, <2>3, <3>1, <3>2, <4>1
    <3>3. CASE ~(l = d /\ m = n)
      <4>1. file'[l][m] = file[l][m]
        BY <2>3, <3>3
      <4> QED  BY <1>1, <2>4, <3>1, <4>1 DEF DestinationClosed
    <3> QED  BY <3>2, <3>3
  <2>7. /\ job'.phase = "delete" /\ job'.root = R /\ job'.dest = d /\ job'.at = n
        /\ job'.top = job.top /\ job'.todo = job.todo
        /\ job'.full = job.full /\ job'.travels = job.travels
    BY <1>3, <1>4, <2>1 DEF Moves
  <2>8. n \in Visible(d)'
    <3>1. d \in 1 .. d
      BY LayerMovesAssumption DEF Layer
    <3> QED  BY <2>2, <2>3, <3>1 DEF Visible, Owners
  <2>9. /\ Visible(R) \subseteq Visible(job.root)' /\ Visible(d) \subseteq Visible(job.dest)'
        /\ n \in Visible(job.dest)'
    BY <2>4, <2>7, <2>8, SightOfMove
  <2>10. Needed \subseteq Needed'
    BY <2>2, <2>3 DEF Needed, Has
  <2>11. Carried(job)'
    BY <1>3, <1>4, <2>1, <2>4, <2>5, <2>7, <2>10, CarriesOn
  <2> QED  BY <1>5, <2>6, <2>7, <2>9, <2>11 DEF ClosedInv, Moving, Promoting
<1>10. CASE DeleteOrigin
  <2>1. /\ file' = [file EXCEPT ![R][n] = None] /\ over' = over
        /\ job' = [job EXCEPT !.phase = "settle"] /\ job.phase = "delete"
    BY <1>4, <1>10 DEF DeleteOrigin
  <2>2. /\ file'[R][n] = None
        /\ \A k \in Layer, m \in Node : k # R \/ m # n => file'[k][m] = file[k][m]
    BY <1>1, <2>1 DEF FileTyped
  <2>3. d < R /\ (n \in Visible(d) \/ n \notin Kept)
    BY <1>3, <1>4, <1>5, <2>1
  <2>4. /\ \A l \in Layer : Visible(l) \cap Kept \subseteq Visible(l)'
        /\ n \in Visible(d) => n \in Visible(d)'
        /\ Needed \subseteq Needed'
    <3>1. CASE n \in Visible(d)
      <4>1. PICK c \in 1 .. d : file[c][n] # None
        BY <3>1 DEF Visible, Owners
      <4>2. c \in Layer /\ c # R /\ file'[c][n] # None /\ \A l \in Layer : R \in 1 .. l => c \in 1 .. l
        BY <2>2, <2>3, <4>1, LayerMovesAssumption DEF Layer
      <4>3. \A l \in Layer : Visible(l) \subseteq Visible(l)'
        <5> SUFFICES ASSUME NEW l \in Layer, NEW m \in Visible(l) PROVE m \in Visible(l)'
          OBVIOUS
        <5>1. m \in Node /\ \E k \in 1 .. l : file[k][m] # None
          BY DEF Visible, Owners
        <5>2. PICK k \in 1 .. l : file[k][m] # None
          BY <5>1
        <5>3. k \in Layer
          BY LayerMovesAssumption DEF Layer
        <5>4. CASE k = R /\ m = n
          <6>1. c \in 1 .. l /\ file'[c][m] # None
            BY <4>2, <5>4
          <6> QED  BY <5>1, <6>1 DEF Visible, Owners
        <5>5. CASE ~(k = R /\ m = n)
          <6>1. file'[k][m] # None
            BY <2>2, <5>1, <5>2, <5>3, <5>5
          <6> QED  BY <5>1, <6>1 DEF Visible, Owners
        <5> QED  BY <5>4, <5>5
      <4>4. Needed \subseteq Needed'
        BY <2>2, <4>2 DEF Needed, Has
      <4> QED  BY <4>3, <4>4
    <3>2. CASE n \notin Visible(d) /\ n \notin Kept
      <4>1. \A l \in Layer : Visible(l) \ {n} \subseteq Visible(l)'
        <5> SUFFICES ASSUME NEW l \in Layer, NEW m \in Visible(l), m # n PROVE m \in Visible(l)'
          OBVIOUS
        <5>1. m \in Node /\ \E k \in 1 .. l : file[k][m] # None
          BY DEF Visible, Owners
        <5>2. \A k \in 1 .. l : k \in Layer
          BY LayerMovesAssumption DEF Layer
        <5>3. \E k \in 1 .. l : file'[k][m] # None
          BY <2>2, <5>1, <5>2
        <5> QED  BY <5>1, <5>3 DEF Visible, Owners
      <4>2. Needs[n] = {}
        BY <3>2, NeedsAssumption, LayerMovesAssumption DEF Kept
      <4>3. Needed \subseteq Needed'
        BY <2>2, <4>2 DEF Needed, Has
      <4> QED  BY <3>2, <4>1, <4>3
    <3> QED  BY <2>3, <3>1, <3>2
  <2>5. \A l \in Layer, m \in Node : file'[l][m] # None => file'[l][m] = file[l][m]
    BY <2>2
  <2>6. DestinationClosed'
    <3>1. \A l \in Layer, m \in Node : file[l][m] # None =>
             file[l][m].refs \cup Nested[m] \cup Needs[m] \subseteq Kept
      <4>1. \A l \in Layer, m \in Node : file[l][m] # None => file[l][m].refs \subseteq Target
        BY <1>1, FileText DEF Content, Has
      <4>2. \A l \in Layer, m \in Node : file[l][m] # None => Needs[m] \subseteq Needed
        BY LayerMovesAssumption DEF Needed, Has
      <4> QED  BY <4>1, <4>2, LayerMovesAssumption DEF Kept
    <3>2. \A l \in Layer, m \in Node : over[l][m].add \subseteq Kept
      BY <1>1 DEF OverTyped, Rows, Kept
    <3> QED  BY <1>1, <2>1, <2>4, <2>5, <3>1, <3>2 DEF DestinationClosed
  <2>7. /\ job'.phase = "settle" /\ job'.root = R /\ job'.dest = d /\ job'.at = n
        /\ job'.top = job.top /\ job'.todo = job.todo
        /\ job'.full = job.full /\ job'.travels = job.travels
    BY <1>3, <1>4, <2>1 DEF Moves
  <2>8. Visible(job.root)' = Visible(R)' /\ Visible(job.dest)' = Visible(d)'
    BY <2>7, SightOfMove
  <2>9. Carried(job)'
    BY <1>3, <1>4, <1>5, <2>1, <2>4, <2>7, CarriesOn
  <2>10. n \in Visible(d)' \/ n \notin Kept'
    <3>1. Needed' \subseteq Needed
      BY <2>5 DEF Needed, Has
    <3> QED  BY <2>3, <2>4, <3>1 DEF Kept
  <2>11. job'.full.refs \subseteq Visible(R)'
    BY <1>3, <1>5, <2>4, <2>7 DEF Text, Kept
  <2> QED  BY <2>6, <2>7, <2>8, <2>9, <2>10, <2>11 DEF ClosedInv, Moving, Promoting
<1>11. CASE SettleOrigin
  <2>1. /\ file' = file /\ job.phase = "settle"
        /\ over' = [over EXCEPT ![R][n] =
                      IF n \in MutationSet THEN over[R][n] ELSE Settled(job.full, job.travels)]
        /\ \/ job' = None
           \/ n # job.top /\ job' \in Turn(job)
    BY <1>4, <1>11 DEF SettleOrigin
  <2>2. Settled(job.full, job.travels).add \subseteq Visible(R)
    BY <1>3, <1>5, <2>1, DiffRows, NoRowsRows DEF Settled
  <2>3. \A l \in Layer, m \in Node : over'[l][m] = over[l][m] \/ over'[l][m].add \subseteq Visible(l)
    BY <1>1, <2>1, <2>2 DEF OverTyped
  <2>4. DestinationClosed' /\ \A l \in Layer : Visible(l)' = Visible(l)
    BY <1>1, <2>1, <2>3 DEF DestinationClosed, Visible, Owners
  <2>5. CASE job' = None
    BY <2>4, <2>5, ClosedAtRest
  <2>6. CASE n # job.top /\ job' \in Turn(job)
    <3>1. /\ job'.root = R /\ job'.dest = d /\ job'.top = job.top
          /\ job'.phase = "store" /\ job'.todo = job.todo \ {job'.at}
          /\ job'.at \in IF job.todo = {} THEN {job.top} ELSE job.todo
          /\ job'.full.refs \subseteq Visible(R) /\ job'.travels.refs \subseteq Visible(d)
      BY <1>1, <1>3, <1>4, <2>6, TurnSays
    <3>2. Carried(job) /\ n \in Visible(d)
      <4>1. Carried(job) /\ (n \in Visible(d) \/ n \notin Kept)
        BY <1>5, <2>1
      <4>2. n \in Kept
        BY <1>4, <2>6, <4>1 DEF Carried, Kept
      <4> QED  BY <4>1, <4>2
    <3>3. /\ Nested[job.top] \subseteq Visible(d) /\ job.top \notin job.todo
          /\ \A m \in job.todo : m \in Needs[job.top] /\ Needs[m] = {} /\ Nested[m] \subseteq Visible(d)
          /\ Needs[job.top] \subseteq Visible(d) \cup job.todo
          /\ job.top \notin Needs[job.top] /\ Needs[job.top] \subseteq Needed
      BY <1>4, <3>2 DEF Carried
    <3>4. Visible(job.root)' = Visible(R) /\ Visible(job.dest)' = Visible(d)
      BY <2>4, <3>1, SightOfMove
    <3>5. Carried(job)'
      <4>1. Needed' = Needed
        BY <2>1, NeededAlike
      <4>2. IF job'.at = job.top THEN job'.todo = {}
            ELSE job'.at \in job.todo /\ job'.at \in Needs[job.top] /\ Needs[job'.at] = {}
        BY <3>1, <3>3
      <4>3. Nested[job'.at] \subseteq Visible(d)
        BY <3>1, <3>3
      <4>4. Needs[job.top] \ {job'.at} \subseteq Visible(d) \cup job'.todo
        BY <3>1, <3>3
      <4> QED  BY <3>1, <3>3, <3>4, <4>1, <4>2, <4>3, <4>4 DEF Carried
    <3> QED  BY <2>4, <3>1, <3>4, <3>5 DEF ClosedInv, Moving, Promoting
  <2> QED  BY <2>1, <2>5, <2>6
<1>12. CASE Stop
  <2>1. file' = file /\ over' = over /\ job' = None
    BY <1>12 DEF Stop
  <2>2. DestinationClosed'
    BY <1>1, <2>1 DEF DestinationClosed, Visible, Owners
  <2> QED  BY <2>1, <2>2, ClosedAtRest
<1> QED  BY <1>6, <1>7, <1>8, <1>9, <1>10, <1>11, <1>12

\* Chains as they are found
LEMMA ClosedInit ==
  ASSUME Init, ~RefsReachDown PROVE ClosedInv
<1>1. file \in Start /\ job = None /\ \A l \in Layer, n \in Node : over[l][n] = NoRows
  BY DEF Init
<1>2. \A l \in Layer, n \in Node : over[l][n].add \subseteq Visible(l)
  BY <1>1, NoRowsRows
<1>3. Nested \in [Node -> SUBSET Node] /\ Needs \in [Node -> SUBSET Node]
  BY LayerMovesAssumption
<1>4. \A l \in Layer, n \in Node : file[l][n] # None => file[l][n].refs \subseteq Node
  BY <1>1, LayerMovesAssumption DEF Content
<1>5. \A l \in Layer, n \in Node : file[l][n] # None =>
        \A r \in file[l][n].refs \cup Nested[n] \cup Needs[n] :
            r \in Node /\ \E k \in 1 .. l : file[k][r] # None
  BY <1>1, <1>3, <1>4, StartAssumption
<1>6. \A l \in Layer, n \in Node : file[l][n] # None =>
        file[l][n].refs \cup Nested[n] \cup Needs[n] \subseteq Visible(l)
  BY <1>5 DEF Visible, Owners
<1> QED  BY <1>1, <1>2, <1>6 DEF ClosedInv, DestinationClosed, Moving, Promoting

\* The invariant is inductive
LEMMA ClosedStep ==
  ASSUME TypeInv, ClosedInv, ~RefsReachDown, FlatSnippets, [Next]_vars
  PROVE  ClosedInv'
<1>1. CASE UNCHANGED vars
  BY <1>1 DEF vars, ClosedInv, DestinationClosed, Visible, Owners, Moving, Promoting, Carried, Kept, Needed, Has
<1>2. ASSUME NEW R \in Layer, NEW n \in Node,
             \/ \E L \in Layer, e \in Edit : Save(R, n, L, e)
             \/ \E L \in Layer, field \in {"val", "refs"} : Reset(R, n, L, field)
             \/ Capture(R, n) \/ Delete(R, n)
      PROVE  ClosedInv'
  BY <1>2, ClosedRequest
<1>3. ASSUME NEW R \in Layer, NEW n \in Node,
             StartFork(R, n) \/ \E d \in Layer : StartPromotion(R, n, d)
      PROVE  ClosedInv'
  BY <1>3, ClosedBegin
<1>4. CASE WriteFork \/ DropOwn \/ MoveStore \/ WritePromoted \/ DeleteOrigin \/ SettleOrigin \/ Stop
  BY <1>4, ClosedMove
<1> QED  BY <1>1, <1>2, <1>3, <1>4 DEF Next

\* DestinationClosed: whatever a layer holds leads to what the layer sees, at
\* every point of a promotion, whatever requests come between its writes and
\* wherever it stops, for authors who refer to what the layer sees, and
\* snippets that include nothing (the partition of fields and the cascade,
\* promotion.py)
THEOREM DestinationAlwaysClosed ==
  ASSUME ~RefsReachDown, FlatSnippets PROVE Spec => []DestinationClosed
<1> DEFINE I == TypeInv /\ ClosedInv
<1>1. Init => I
  BY TypeInit, ClosedInit
<1>2. I /\ [Next]_vars => I'
  BY TypeStep, ClosedStep
<1>3. I => DestinationClosed
  BY DEF ClosedInv
<1> QED  BY <1>1, <1>2, <1>3, PTL DEF Spec
=============================================================================
