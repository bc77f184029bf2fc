-------------------------- MODULE IndexPatchProofs --------------------------
(***************************************************************************)
(* For all disks, changes and orders of collection: the list algorithm of  *)
(* node_index_patch.py and the walk of references.py compute the index     *)
(* that NodeIndex describes, their lists are innermost first, their edges  *)
(* follow the claims, and a patch leaves what a walk leaves.               *)
(***************************************************************************)
EXTENDS IndexPatch, FiniteSetTheorems, SequenceTheorems,
        WellFoundedInduction, TLAPS

-----------------------------------------------------------------------------
(* What NodeIndex computes *)

AnySchema == Schema \cup {NoSchema}

\* No layer has two files that claim one id
Unique(d) == Duplicates(EmptyIndex, d, Path) = {}

\* What is neither absent nor malformed declares a node
LEMMA NodeContent ==
  ASSUME NEW d \in Disk, NEW p \in Path, IsNode(d[p])
  PROVE  d[p] \in Node
BY DEF Disk, Content, IsNode

\* The entry collected for a node's front matter is an index entry
LEMMA EntryOfType ==
  ASSUME NEW c \in Node, NEW s \in AnySchema
  PROVE  EntryOf(c, s) \in Entry /\ EntryOf(c, s) # Absent
BY NodeIndexAssumption DEF EntryOf, Node, Entry, AnySchema

\* What a walk that could read everything makes of a disk without duplicates
LEMMA ColdOfUnique ==
  ASSUME NEW d \in Disk, Unique(d), NEW s \in Schema
  PROVE  Cold(d, s, {}, {})
           = [entry     |-> [p \in Path |-> IF IsNode(d[p]) THEN EntryOf(d[p], s) ELSE Absent],
              rejected  |-> {},
              unparsed  |-> {p \in Path : d[p] = Malformed},
              overrides |-> {},
              degraded  |-> FALSE]
<1> DEFINE empty == NewIndex(SchemaFile \in {})
           walked == Collect(empty, d, Path, s, {})
           e == [p \in Path |-> IF IsNode(d[p]) THEN EntryOf(d[p], s) ELSE Absent]
           u == {p \in Path : d[p] = Malformed}
<1>1. AsRead(d, {}) = d
  BY DEF AsRead, Disk
<1>2. Duplicates(empty, d, Path) = {}
  BY DEF Unique, Duplicates, AlreadyClaimed, EmptyIndex, NewIndex
<1>3. /\ walked.entry = e /\ walked.rejected = {} /\ walked.unparsed = u
      /\ walked.overrides = {} /\ walked.degraded = FALSE
  BY <1>1, <1>2 DEF Collect, NewIndex
<1>4. FoldOverrides(walked, {})
        = [entry |-> [p \in Path |-> e[p]], rejected |-> {}, unparsed |-> u,
           overrides |-> {}, degraded |-> FALSE]
  <2> HIDE DEF walked, e, u
  <2> QED  BY <1>3 DEF FoldOverrides
<1> QED  BY <1>4 DEF Cold

\* node_index_patch.py: a patch "is resolve()d and equivalent to a cold build
\* over the same files - that equivalence is the whole contract".  It holds of
\* any number of changed files, renamed, removed, added or re-identified, of an
\* index that was a cold build's and could be patched, provided no layer ends
\* up with two files claiming one id.
THEOREM PatchIsColdBuild ==
  ASSUME NEW was \in Disk, NEW now \in Disk, NEW changed \in SUBSET Path, NEW s \in Schema,
         Unique(was), Unique(now),
         \A p \in Path \ changed : now[p] = was[p],
         Patchable(Cold(was, s, {}, {}), changed)
  PROVE  Patch(Cold(was, s, {}, {}), now, changed, s, {}) = Cold(now, s, {}, {})
<1> DEFINE before == Cold(was, s, {}, {})
           dropped == DropUnits(before, changed)
           EntryIn(d) == [p \in Path |-> IF IsNode(d[p]) THEN EntryOf(d[p], s) ELSE Absent]
<1>1. before = [entry |-> EntryIn(was), rejected |-> {}, unparsed |-> {},
                overrides |-> {}, degraded |-> FALSE]
  <2>1. before.unparsed = {}
    BY DEF Patchable
  <2> HIDE DEF before
  <2>2. before = [entry |-> EntryIn(was), rejected |-> {},
                  unparsed |-> {p \in Path : was[p] = Malformed},
                  overrides |-> {}, degraded |-> FALSE]
    BY ColdOfUnique DEF before
  <2> QED  BY <2>1, <2>2
<1>2. \A p \in Path \ changed : now[p] # Malformed
  <2>1. {p \in Path : was[p] = Malformed} = {}
    BY <1>1, ColdOfUnique
  <2> QED  BY <2>1
<1>3. dropped = [entry |-> [p \in Path |-> IF p \in changed THEN Absent ELSE EntryIn(was)[p]],
                 rejected |-> {}, unparsed |-> {}, overrides |-> {}, degraded |-> FALSE]
  <2> HIDE DEF before
  <2> QED  BY <1>1 DEF DropUnits
<1>4. Duplicates(dropped, now, changed) = {}
  <2> SUFFICES ASSUME NEW p \in changed, IsNode(now[p]),
                      \/ AlreadyClaimed(dropped, now, p)
                      \/ ClaimedEarlier(now, changed, p)
               PROVE  FALSE
    BY DEF Duplicates
  <2>1. \A q \in Path : /\ q < p /\ LayerOf[q] = LayerOf[p]
                        /\ IsNode(now[q])
                        => now[q].id # now[p].id
    BY DEF Unique, Duplicates, ClaimedEarlier
  <2>2. \A q \in Path : /\ p < q /\ LayerOf[q] = LayerOf[p]
                        /\ IsNode(now[q])
                        => now[q].id # now[p].id
    BY DEF Unique, Duplicates, ClaimedEarlier
  <2>3. CASE ClaimedEarlier(now, changed, p)
    BY <2>1, <2>3 DEF ClaimedEarlier
  <2>4. CASE AlreadyClaimed(dropped, now, p)
    <3>1. PICK q \in Path : /\ dropped.entry[q] # Absent
                            /\ LayerOf[q] = LayerOf[p]
                            /\ dropped.entry[q].id = now[p].id
      BY <2>4 DEF AlreadyClaimed
    <3>2. q \notin changed /\ IsNode(was[q]) /\ dropped.entry[q] = EntryOf(was[q], s)
      BY <1>3, <3>1
    <3>3. IsNode(now[q]) /\ now[q].id = now[p].id
      BY <3>1, <3>2 DEF EntryOf
    <3>4. q < p \/ p < q
      BY <3>2, NodeIndexAssumption
    <3> QED  BY <2>1, <2>2, <3>1, <3>3, <3>4
  <2> QED  BY <2>3, <2>4
<1>5. AsRead(now, {}) = now
  BY DEF AsRead, Disk
<1>6. Collect(dropped, now, changed, s, {})
        = [entry |-> EntryIn(now), rejected |-> {},
           unparsed |-> {p \in Path : now[p] = Malformed},
           overrides |-> {}, degraded |-> FALSE]
  <2> DEFINE e == [p \in Path |-> IF p \in changed
                                  THEN IF IsNode(now[p]) /\ p \notin {}
                                       THEN EntryOf(now[p], s) ELSE Absent
                                  ELSE dropped.entry[p]]
  <2>1. e = EntryIn(now)
    <3> HIDE DEF dropped
    <3> QED  BY <1>3
  <2>2. {p \in changed : now[p] = Malformed} = {p \in Path : now[p] = Malformed}
    BY <1>2
  <2>3. Collect(dropped, now, changed, s, {})
          = [entry |-> e, rejected |-> dropped.rejected \cup {},
             unparsed |-> dropped.unparsed \cup {p \in changed : now[p] = Malformed},
             overrides |-> dropped.overrides,
             degraded |-> dropped.degraded \/ \E p \in changed \cap {} : now[p] # Absent]
    <3> HIDE DEF dropped
    <3> QED  BY <1>4, <1>5 DEF Collect
  <2> HIDE DEF dropped, e, EntryIn
  <2> QED  BY <1>3, <2>1, <2>2, <2>3
<1> QED  BY <1>6, ColdOfUnique DEF Patch

-----------------------------------------------------------------------------
(* The inductive invariant *)

\* The files that are collected, and the index they are collected into
Files == IF walking THEN Path ELSE Changed
Base == IF walking THEN EmptyIndex ELSE DropUnits(Cold(old, TheSchema, {}, {}), Changed)

\* Files whose claim is, or will be, refused
Refused == Duplicates(Base, disk, Files)

\* What a file's claim was made of, and whether it is in the lists
Source(p) == IF p \in toDrop THEN old[p] ELSE disk[p]
Held(p) == /\ IsNode(Source(p))
           /\ p \in toDrop \/ p \notin Files \/ p \notin toCollect \cup Refused

HeldOn(i) == {[path |-> p, sig |-> Source(p).sig] : p \in {q \in Path : Held(q) /\ Source(q).id = i}}

\* How far the work list has been gone through, and what was reported
WorkInv ==
  /\ old \in Disk /\ disk \in Disk
  /\ walking \in BOOLEAN /\ ordered \in BOOLEAN
  /\ toDrop \subseteq Files /\ toCollect \subseteq Files
  /\ toDrop # {} => toCollect = Files
  /\ walking => ordered /\ toDrop = {}
  /\ ordered /\ ~walking => toDrop = {} /\ toCollect = {}
  /\ ~walking => Duplicates(EmptyIndex, old, Path) = {} /\ \A p \in Path : old[p] # Malformed
  /\ \A q \in toCollect : \A r \in Files \ toCollect :
       q < r => ~walking /\ LayerOf[q] # LayerOf[r]
  /\ rejected = (Files \ toCollect) \cap Refused
  /\ unparsed = {p \in Files \ toCollect : disk[p] = Malformed}

\* A list of just these claims, each of a layer of its own
Lists(list, claims) ==
  /\ list \in Seq(Claim)
  /\ \A k \in 1..Len(list) : list[k] \in claims
  /\ \A c \in claims : \E k \in 1..Len(list) : list[k] = c
  /\ \A j, k \in 1..Len(list) : LayerOf[list[j].path] = LayerOf[list[k].path] => j = k

Ordered(list) == \A j, k \in 1..Len(list) : j < k => InnerFirst(list[j], list[k])

ListInv ==
  /\ candidates = [i \in Id |-> candidates[i]]
  /\ \A i \in Id : Lists(candidates[i], HeldOn(i)) /\ (ordered => Ordered(candidates[i]))

\* What a layer and an id have edges from
EdgeInv ==
  /\ edges = [k \in Layer \X Id |-> edges[k]]
  /\ \A l \in Layer, i \in Id :
       /\ \A c \in HeldOn(i) : LayerOf[c.path] = l => edges[<<l, i>>] = c.sig
       /\ (\A c \in HeldOn(i) : LayerOf[c.path] # l) => edges[<<l, i>>] = NoEdges

-----------------------------------------------------------------------------
(* Lists of claims *)

\* A non-empty set of naturals has a least element
LEMMA LeastNumber ==
  ASSUME NEW T, T \subseteq Nat, T # {}
  PROVE  \E x \in T : \A y \in T : x <= y
<1> DEFINE R == OpToRel(<, Nat)
<1>1. IsWellFoundedOn(R, Nat)
  BY NatLessThanWellFounded
<1>2. \A a, b \in Nat : <<a, b>> \in R <=> a < b
  BY DEF OpToRel
<1> HIDE DEF R
<1>3. PICK x \in T : \A y \in T : <<y, x>> \notin R
  BY <1>1, WFMin
<1>4. ASSUME NEW y \in T PROVE x <= y
  <2>1. x \in Nat /\ y \in Nat
    OBVIOUS
  <2>2. ~(y < x)
    BY <1>2, <1>3, <2>1
  <2> QED  BY <2>1, <2>2
<1> QED  BY <1>4

\* Layers are numbered
LEMMA ClaimLayer ==
  ASSUME NEW c \in Claim
  PROVE  c.path \in Path /\ LayerOf[c.path] \in Nat /\ LayerOf[c.path] \in Layer
BY NodeIndexAssumption DEF Claim, Layer

\* Claims of different layers
Layered(S) ==
  /\ S \in SUBSET Claim
  /\ \A c, d \in S : LayerOf[c.path] = LayerOf[d.path] => c = d

SortedList(list, S) ==
  /\ list \in [1..Cardinality(S) -> S]
  /\ \A j, k \in 1..Cardinality(S) : j < k => InnerFirst(list[j], list[k])

\* They can be put in order: the outermost one goes last
LEMMA SortExists ==
  ASSUME NEW S, IsFiniteSet(S), Layered(S)
  PROVE  \E list : SortedList(list, S)
<1> DEFINE Bad == {n \in Nat : \E T : /\ IsFiniteSet(T) /\ Cardinality(T) = n /\ Layered(T)
                                      /\ ~\E list : SortedList(list, T)}
<1>1. CASE Bad = {}
  <2>1. Cardinality(S) \in Nat
    BY FS_CardinalityType
  <2> QED  BY <1>1, <2>1
<1>2. CASE Bad # {}
  <2>1. PICK n \in Bad : \A m \in Bad : n <= m
    <3>1. Bad \subseteq Nat
      OBVIOUS
    <3> HIDE DEF Bad
    <3> QED  BY <1>2, <3>1, LeastNumber
  <2>2. PICK T : /\ IsFiniteSet(T) /\ Cardinality(T) = n /\ Layered(T)
                 /\ ~\E list : SortedList(list, T)
    OBVIOUS
  <2>3. n # 0
    <3>1. ASSUME n = 0 PROVE FALSE
      <4>1. T = {}
        BY <2>2, <3>1, FS_EmptySet
      <4>2. Cardinality(T) = 0 /\ 1..0 = {}
        BY <2>2, <3>1
      <4>3. SortedList([k \in 1..0 |-> k], T)
        BY <4>1, <4>2 DEF SortedList
      <4> QED  BY <2>2, <4>3
    <3> QED  BY <3>1
  <2>4. PICK c \in T : \A d \in T : LayerOf[c.path] <= LayerOf[d.path]
    <3>1. T # {}
      BY <2>2, <2>3, FS_EmptySet
    <3> DEFINE L == {LayerOf[d.path] : d \in T}
    <3>2. L \subseteq Nat /\ L # {}
      BY <2>2, <3>1, ClaimLayer DEF Layered
    <3>3. PICK x \in L : \A y \in L : x <= y
      <4> HIDE DEF L
      <4> QED  BY <3>2, LeastNumber
    <3> QED  BY <3>3
  <2> DEFINE rest == T \ {c}
             m == n - 1
  <2>5. n \in Nat /\ m \in Nat /\ m < n
    BY <2>3
  <2>6. IsFiniteSet(rest) /\ Cardinality(rest) = m
    BY <2>2, FS_RemoveElement
  <2>7. Layered(rest)
    BY <2>2 DEF Layered
  <2>8. PICK short : SortedList(short, rest)
    <3>1. m \notin Bad
      BY <2>1, <2>5
    <3> HIDE DEF rest, m
    <3> QED  BY <2>5, <2>6, <2>7, <3>1
  <2> DEFINE list == [k \in 1..n |-> IF k = n THEN c ELSE short[k]]
  <2>9. short \in [1..m -> rest] /\ \A j, k \in 1..m : j < k => InnerFirst(short[j], short[k])
    BY <2>6, <2>8 DEF SortedList
  <2>10. \A k \in 1..n : k = n \/ k \in 1..m
    BY <2>5
  <2>11. list \in [1..n -> T]
    BY <2>9, <2>10
  <2>12. ASSUME NEW j \in 1..n, NEW k \in 1..n, j < k PROVE InnerFirst(list[j], list[k])
    <3>1. j \in 1..m /\ j # n
      BY <2>5, <2>12
    <3>2. CASE k \in 1..m
      <4>1. k # n
        BY <3>2, <2>5
      <4> QED  BY <2>9, <2>12, <3>1, <3>2, <4>1
    <3>3. CASE k = n
      <4>1. short[j] \in T /\ short[j] # c
        BY <2>9, <3>1
      <4>2. LayerOf[short[j].path] # LayerOf[c.path] /\ LayerOf[c.path] <= LayerOf[short[j].path]
        BY <2>2, <2>4, <4>1 DEF Layered
      <4>3. LayerOf[short[j].path] \in Nat /\ LayerOf[c.path] \in Nat
        BY <2>2, <4>1, ClaimLayer DEF Layered
      <4>4. LayerOf[c.path] < LayerOf[short[j].path]
        BY <4>2, <4>3
      <4> QED  BY <3>1, <3>3, <4>4 DEF InnerFirst
    <3> QED  BY <2>10, <3>2, <3>3
  <2>13. SortedList(list, T)
    BY <2>2, <2>11, <2>12 DEF SortedList
  <2> QED  BY <2>2, <2>13
<1> QED  BY <1>1, <1>2

\* _restore_candidate_order: what is sorted has the same claims, in order
LEMMA SortedLists ==
  ASSUME NEW S, IsFiniteSet(S), Layered(S)
  PROVE  Lists(Sorted(S), S) /\ Ordered(Sorted(S))
<1> DEFINE list == Sorted(S)
           n == Cardinality(S)
<1>1. SortedList(list, S)
  <2>1. PICK l : SortedList(l, S)
    BY SortExists
  <2> QED  BY <2>1 DEF SortedList, Sorted
<1>2. n \in Nat
  BY FS_CardinalityType
<1> HIDE DEF list
<1>3. list \in [1..n -> S] /\ \A j, k \in 1..n : j < k => InnerFirst(list[j], list[k])
  BY <1>1 DEF SortedList
<1>4. list \in Seq(Claim) /\ Len(list) = n
  <2>1. list \in [1..n -> Claim]
    BY <1>3 DEF Layered
  <2>2. list \in Seq(Claim)
    BY <1>2, <2>1, IsASeq
  <2> QED  BY <1>2, <1>3, <2>2
<1>5. \A j, k \in 1..n : LayerOf[list[j].path] = LayerOf[list[k].path] => j = k
  <2> SUFFICES ASSUME NEW j \in 1..n, NEW k \in 1..n, j # k
               PROVE  LayerOf[list[j].path] # LayerOf[list[k].path]
    OBVIOUS
  <2>1. LayerOf[list[j].path] \in Nat /\ LayerOf[list[k].path] \in Nat
    BY <1>3, ClaimLayer DEF Layered
  <2>2. j < k \/ k < j
    BY <1>2
  <2> QED  BY <1>3, <2>1, <2>2 DEF InnerFirst
<1>6. \A c \in S : \E k \in 1..n : list[k] = c
  <2>1. list \in Injection(1..n, S)
    BY <1>3, <1>5 DEF Injection, IsInjective
  <2>2. Cardinality(1..n) = n
    <3>1. Cardinality(1..n) = IF 1 > n THEN 0 ELSE n - 1 + 1
      BY <1>2, FS_Interval
    <3> QED  BY <1>2, <3>1
  <2>3. list \in Surjection(1..n, S)
    BY <2>1, <2>2, FS_Injection
  <2> QED  BY <2>3 DEF Surjection
<1>7. Ordered(list)
  BY <1>3, <1>4 DEF Ordered
<1> QED  BY <1>3, <1>4, <1>5, <1>6, <1>7 DEF Lists, list

\* What a list lists
LEMMA ListsRange ==
  ASSUME NEW list, NEW S \in SUBSET Claim, Lists(list, S)
  PROVE  Range(list) = S /\ Layered(S)
<1>1. DOMAIN list = 1..Len(list)
  BY DEF Lists
<1>2. Range(list) = S
  BY <1>1 DEF Range, Lists
<1>3. ASSUME NEW c \in S, NEW d \in S, LayerOf[c.path] = LayerOf[d.path] PROVE c = d
  <2>1. PICK j \in 1..Len(list) : list[j] = c
    BY DEF Lists
  <2>2. PICK k \in 1..Len(list) : list[k] = d
    BY DEF Lists
  <2> QED  BY <1>3, <2>1, <2>2 DEF Lists
<1> QED  BY <1>2, <1>3 DEF Layered

\* There is one ordered list of the same claims
LEMMA OneOrder ==
  ASSUME NEW S \in SUBSET Claim, NEW a, NEW b, Lists(a, S), Lists(b, S), Ordered(a), Ordered(b)
  PROVE  a = b
<1>1. a \in Seq(Claim) /\ b \in Seq(Claim) /\ Len(a) \in Nat /\ Len(b) \in Nat
  BY DEF Lists
<1> DEFINE Both == 1..Len(a) \cap 1..Len(b)
           Bad == {k \in Both : a[k] # b[k]}
<1>2. Bad = {}
  <2> SUFFICES ASSUME Bad # {} PROVE FALSE
    OBVIOUS
  <2>1. PICK k \in Bad : \A y \in Bad : k <= y
    <3>1. Bad \subseteq Nat
      BY <1>1
    <3> HIDE DEF Bad
    <3> QED  BY <3>1, LeastNumber
  <2>2. k \in 1..Len(a) /\ k \in 1..Len(b) /\ a[k] # b[k]
    OBVIOUS
  <2>3. \A j \in 1..k - 1 : a[j] = b[j]
    <3> SUFFICES ASSUME NEW j \in 1..k - 1 PROVE a[j] = b[j]
      OBVIOUS
    <3>1. j \in Both /\ j < k
      BY <1>1, <2>2
    <3> QED  BY <2>1, <3>1
  <2>4. PICK j \in 1..Len(b) : b[j] = a[k]
    BY <2>2 DEF Lists
  <2>5. PICK i \in 1..Len(a) : a[i] = b[k]
    BY <2>2 DEF Lists
  <2>6. j > k
    <3>1. j # k
      BY <2>2, <2>4
    <3>2. ASSUME j < k PROVE FALSE
      <4>1. j \in 1..k - 1 /\ j \in 1..Len(a)
        BY <1>1, <2>2, <3>2
      <4>2. a[j] = a[k]
        BY <2>3, <2>4, <4>1
      <4>3. j = k
        BY <2>2, <4>1, <4>2 DEF Lists
      <4> QED  BY <3>1, <4>3
    <3> QED  BY <1>1, <2>2, <3>1, <3>2
  <2>7. i > k
    <3>1. i # k
      BY <2>2, <2>5
    <3>2. ASSUME i < k PROVE FALSE
      <4>1. i \in 1..k - 1 /\ i \in 1..Len(b)
        BY <1>1, <2>2, <3>2
      <4>2. b[i] = b[k]
        BY <2>3, <2>5, <4>1
      <4>3. i = k
        BY <2>2, <4>1, <4>2 DEF Lists
      <4> QED  BY <3>1, <4>3
    <3> QED  BY <1>1, <2>2, <3>1, <3>2
  <2>8. InnerFirst(b[k], b[j]) /\ InnerFirst(a[k], a[i])
    BY <2>2, <2>6, <2>7 DEF Ordered
  <2>9. LayerOf[a[k].path] \in Nat /\ LayerOf[b[k].path] \in Nat
    <3>1. a[k] \in Claim /\ b[k] \in Claim
      BY <1>1, <2>2
    <3> QED  BY <3>1, ClaimLayer
  <2> QED  BY <2>4, <2>5, <2>8, <2>9 DEF InnerFirst
<1>3. Len(a) <= Len(b)
  <2> SUFFICES ASSUME Len(b) < Len(a) PROVE FALSE
    BY <1>1
  <2>1. Len(b) + 1 \in 1..Len(a)
    BY <1>1
  <2>2. PICK j \in 1..Len(b) : b[j] = a[Len(b) + 1]
    BY <2>1 DEF Lists
  <2>3. j \in Both /\ j # Len(b) + 1 /\ j \in 1..Len(a)
    BY <1>1
  <2>4. a[j] = a[Len(b) + 1]
    BY <1>2, <2>2, <2>3
  <2> QED  BY <2>1, <2>3, <2>4 DEF Lists
<1>4. Len(b) <= Len(a)
  <2> SUFFICES ASSUME Len(a) < Len(b) PROVE FALSE
    BY <1>1
  <2>1. Len(a) + 1 \in 1..Len(b)
    BY <1>1
  <2>2. PICK j \in 1..Len(a) : a[j] = b[Len(a) + 1]
    BY <2>1 DEF Lists
  <2>3. j \in Both /\ j # Len(a) + 1 /\ j \in 1..Len(b)
    BY <1>1
  <2>4. b[j] = b[Len(a) + 1]
    BY <1>2, <2>2, <2>3
  <2> QED  BY <2>1, <2>3, <2>4 DEF Lists
<1>5. Len(a) = Len(b) /\ \A k \in 1..Len(a) : a[k] = b[k]
  BY <1>1, <1>2, <1>3, <1>4
<1> QED  BY <1>1, <1>5, SeqEqual

\* A claim of another layer is put in front
LEMMA ListsAdd ==
  ASSUME NEW S \in SUBSET Claim, NEW list, Lists(list, S), NEW c \in Claim,
         \A d \in S : LayerOf[d.path] # LayerOf[c.path]
  PROVE  /\ Lists(Add(list, c), S \cup {c})
         /\ Ordered(list) /\ (\A d \in S : LayerOf[d.path] < LayerOf[c.path])
              => Ordered(Add(list, c))
<1> DEFINE new == Add(list, c)
           n == Len(list)
<1>1. list \in Seq(Claim) /\ n \in Nat /\ <<c>> \in Seq(Claim)
  BY DEF Lists
<1>2. /\ new \in Seq(Claim) /\ Len(new) = n + 1
      /\ new[1] = c
      /\ \A k \in 2..n + 1 : new[k] = list[k - 1]
  <2>1. Len(<<c>>) = 1 /\ <<c>>[1] = c
    OBVIOUS
  <2> QED  BY <1>1, <2>1, ConcatProperties DEF Add
<1> HIDE DEF new, n
<1>3. \A k \in 1..n + 1 : k = 1 \/ (k \in 2..n + 1 /\ k - 1 \in 1..n /\ k = (k - 1) + 1)
  BY <1>1
<1>4. \A k \in 1..n : list[k] \in S
  BY DEF Lists, n
<1>5. \A k \in 1..n + 1 : new[k] \in S \cup {c}
  BY <1>2, <1>3, <1>4
<1>6. \A d \in S \cup {c} : \E k \in 1..n + 1 : new[k] = d
  <2>1. 1 \in 1..n + 1
    BY <1>1
  <2>2. ASSUME NEW d \in S PROVE \E k \in 1..n + 1 : new[k] = d
    <3>1. PICK j \in 1..n : list[j] = d
      BY DEF Lists, n
    <3>2. j + 1 \in 2..n + 1 /\ j + 1 \in 1..n + 1 /\ (j + 1) - 1 = j
      BY <1>1
    <3> QED  BY <1>2, <3>1, <3>2
  <2> QED  BY <1>2, <2>1, <2>2
<1>7. ASSUME NEW j \in 1..n + 1, NEW k \in 1..n + 1, LayerOf[new[j].path] = LayerOf[new[k].path]
      PROVE  j = k
  <2>1. CASE j = 1
    BY <1>2, <1>3, <1>4, <1>7, <2>1
  <2>2. CASE k = 1
    BY <1>2, <1>3, <1>4, <1>7, <2>2
  <2>3. CASE j # 1 /\ k # 1
    <3>1. j - 1 \in 1..n /\ k - 1 \in 1..n /\ new[j] = list[j - 1] /\ new[k] = list[k - 1]
      BY <1>2, <1>3, <2>3
    <3>2. j - 1 = k - 1
      BY <1>7, <3>1 DEF Lists, n
    <3> QED  BY <1>1, <3>2
  <2> QED  BY <2>1, <2>2, <2>3
<1>8. ASSUME Ordered(list), \A d \in S : LayerOf[d.path] < LayerOf[c.path]
      PROVE  Ordered(new)
  <2> SUFFICES ASSUME NEW j \in 1..n + 1, NEW k \in 1..n + 1, j < k
               PROVE  InnerFirst(new[j], new[k])
    BY <1>2 DEF Ordered
  <2>1. k # 1
    BY <1>1
  <2>2. k - 1 \in 1..n /\ new[k] = list[k - 1]
    BY <1>2, <1>3, <2>1
  <2>3. CASE j = 1
    <3>1. LayerOf[c.path] \in Nat /\ LayerOf[list[k - 1].path] \in Nat
      BY <1>4, <2>2, ClaimLayer
    <3>2. LayerOf[list[k - 1].path] < LayerOf[c.path]
      BY <1>4, <1>8, <2>2
    <3> QED  BY <1>2, <2>2, <2>3, <3>1, <3>2 DEF InnerFirst
  <2>4. CASE j # 1
    <3>1. j - 1 \in 1..n /\ new[j] = list[j - 1] /\ j - 1 < k - 1
      BY <1>2, <1>3, <2>4
    <3> QED  BY <1>8, <2>2, <3>1 DEF Ordered, n
  <2> QED  BY <2>3, <2>4
<1> QED  BY <1>2, <1>5, <1>6, <1>7, <1>8 DEF Lists, new

\* A file's claim is taken out
LEMMA ListsWithout ==
  ASSUME NEW S \in SUBSET Claim, NEW list, Lists(list, S), NEW p
  PROVE  /\ Lists(Without(list, p), {c \in S : c.path # p})
         /\ (\A c \in S : c.path # p) => Without(list, p) = list
         /\ Without(list, p) = list => \A c \in S : c.path # p
<1> DEFINE n == Len(list)
           at == CHOOSE k \in DOMAIN list : list[k].path = p
           new == Without(list, p)
           rest == {c \in S : c.path # p}
<1>1. list \in Seq(Claim) /\ n \in Nat /\ DOMAIN list = 1..n
  BY DEF Lists
<1>2. CASE \A k \in 1..n : list[k].path # p
  <2>1. new = list
    BY <1>1, <1>2 DEF Without
  <2>2. \A c \in S : c.path # p
    BY <1>2 DEF Lists
  <2>3. rest = S
    BY <2>2
  <2> QED  BY <2>1, <2>2, <2>3
<1>3. CASE \E k \in 1..n : list[k].path = p
  <2>1. at \in 1..n /\ list[at].path = p
    BY <1>1, <1>3
  <2>2. new = SubSeq(list, 1, at - 1) \o SubSeq(list, at + 1, n)
    BY <1>1, <1>3 DEF Without, RemoveAt
  <2> HIDE DEF at, new, n
  <2>3. /\ SubSeq(list, 1, at - 1) \in Seq(Claim) /\ Len(SubSeq(list, 1, at - 1)) = at - 1
        /\ \A k \in 1..at - 1 : SubSeq(list, 1, at - 1)[k] = list[k]
    BY <1>1, <2>1, SubSeqProperties DEF n
  <2>4. /\ SubSeq(list, at + 1, n) \in Seq(Claim) /\ Len(SubSeq(list, at + 1, n)) = n - at
        /\ \A k \in 1..n - at : SubSeq(list, at + 1, n)[k] = list[at + k]
    <3>1. at + 1 \in 1..n + 1 /\ n \in at..n
      BY <1>1, <2>1
    <3>2. /\ SubSeq(list, at + 1, n) \in Seq(Claim) /\ Len(SubSeq(list, at + 1, n)) = n - at
          /\ \A k \in 1..n - at : SubSeq(list, at + 1, n)[k] = list[(at + 1) + k - 1]
      <4>1. \A k \in at + 1..n : list[k] \in Claim
        BY <1>1, <2>1 DEF n
      <4>2. /\ SubSeq(list, at + 1, n) \in Seq(Claim)
            /\ Len(SubSeq(list, at + 1, n)) = IF at + 1 <= n THEN n - (at + 1) + 1 ELSE 0
            /\ \A k \in 1..n - (at + 1) + 1 : SubSeq(list, at + 1, n)[k] = list[(at + 1) + k - 1]
        BY <1>1, <2>1, <4>1, SubSeqProperties
      <4>3. n - (at + 1) + 1 = n - at
        BY <1>1, <2>1
      <4> QED  BY <1>1, <2>1, <4>2, <4>3
    <3>3. \A k \in 1..n - at : (at + 1) + k - 1 = at + k
      BY <1>1, <2>1
    <3> QED  BY <3>2, <3>3
  <2>5. /\ new \in Seq(Claim) /\ Len(new) = n - 1
        /\ \A k \in 1..n - 1 : new[k] = IF k < at THEN list[k] ELSE list[k + 1]
    <3>1. /\ new \in Seq(Claim) /\ Len(new) = (at - 1) + (n - at)
          /\ \A k \in 1..(at - 1) + (n - at) :
               new[k] = IF k <= at - 1 THEN SubSeq(list, 1, at - 1)[k]
                        ELSE SubSeq(list, at + 1, n)[k - (at - 1)]
      <4> DEFINE a == SubSeq(list, 1, at - 1)
                 b == SubSeq(list, at + 1, n)
      <4>1. a \in Seq(Claim) /\ b \in Seq(Claim) /\ Len(a) = at - 1 /\ Len(b) = n - at
        BY <2>3, <2>4
      <4> HIDE DEF a, b
      <4>2. /\ a \o b \in Seq(Claim) /\ Len(a \o b) = (at - 1) + (n - at)
            /\ \A k \in 1..(at - 1) + (n - at) :
                 (a \o b)[k] = IF k <= at - 1 THEN a[k] ELSE b[k - (at - 1)]
        <5>1. /\ a \o b \in Seq(Claim) /\ Len(a \o b) = Len(a) + Len(b)
              /\ \A k \in 1..Len(a) + Len(b) :
                   (a \o b)[k] = IF k <= Len(a) THEN a[k] ELSE b[k - Len(a)]
          BY <4>1, ConcatProperties
        <5> QED  BY <4>1, <5>1
      <4> QED  BY <2>2, <4>2 DEF a, b
    <3>2. (at - 1) + (n - at) = n - 1
      BY <1>1, <2>1
    <3>3. ASSUME NEW k \in 1..n - 1 PROVE new[k] = IF k < at THEN list[k] ELSE list[k + 1]
      <4>1. CASE k < at
        <5>1. k \in 1..at - 1
          BY <2>1, <4>1
        <5> QED  BY <2>3, <3>1, <3>2, <4>1, <5>1
      <4>2. CASE ~(k < at)
        <5>1. ~(k <= at - 1) /\ k - (at - 1) \in 1..n - at /\ at + (k - (at - 1)) = k + 1
          BY <1>1, <2>1, <4>2
        <5> QED  BY <2>4, <3>1, <3>2, <4>2, <5>1
      <4> QED  BY <4>1, <4>2
    <3> QED  BY <3>1, <3>2, <3>3
  <2> DEFINE To(k) == IF k < at THEN k ELSE k + 1
  <2>6. \A k \in 1..n - 1 : To(k) \in 1..n /\ To(k) # at /\ new[k] = list[To(k)]
    BY <1>1, <2>1, <2>5
  <2>7. \A j, k \in 1..n - 1 : To(j) = To(k) => j = k
    BY <1>1, <2>1
  <2>8. \A k \in 1..n : k # at => \E j \in 1..n - 1 : To(j) = k
    <3> SUFFICES ASSUME NEW k \in 1..n, k # at PROVE \E j \in 1..n - 1 : To(j) = k
      OBVIOUS
    <3>1. CASE k < at
      <4>1. k \in 1..n - 1 /\ To(k) = k
        BY <1>1, <2>1, <3>1
      <4> QED  BY <4>1
    <3>2. CASE k > at
      <4>1. k - 1 \in 1..n - 1 /\ To(k - 1) = k
        BY <1>1, <2>1, <3>2
      <4> QED  BY <4>1
    <3> QED  BY <1>1, <2>1, <3>1, <3>2
  <2> HIDE DEF To
  <2>9. \A k \in 1..n : list[k].path = p => k = at
    BY <2>1 DEF Lists, n
  <2>10. Lists(new, rest)
    <3>1. \A k \in 1..n - 1 : new[k] \in rest
      BY <2>6, <2>9 DEF Lists, n
    <3>2. ASSUME NEW c \in rest PROVE \E k \in 1..n - 1 : new[k] = c
      <4>1. PICK k \in 1..n : list[k] = c
        BY DEF Lists, n
      <4>2. k # at
        BY <2>1, <4>1
      <4>3. PICK j \in 1..n - 1 : To(j) = k
        BY <2>8, <4>2
      <4> QED  BY <2>6, <4>1, <4>3
    <3>3. \A j, k \in 1..n - 1 : LayerOf[new[j].path] = LayerOf[new[k].path] => j = k
      BY <2>6, <2>7 DEF Lists, n
    <3> HIDE DEF rest
    <3> QED  BY <2>5, <3>1, <3>2, <3>3 DEF Lists
  <2>11. new # list
    BY <1>1, <2>5 DEF n
  <2>12. list[at] \in S
    BY <2>1 DEF Lists, n
  <2> QED  BY <2>1, <2>10, <2>11, <2>12 DEF new
<1> QED  BY <1>2, <1>3

-----------------------------------------------------------------------------
(* What the lists are to amount to *)

LEMMA ReadAll ==
  ASSUME NEW d \in Disk
  PROVE  AsRead(d, {}) = d
BY DEF Disk, AsRead

LEMMA TheSchemaIs == TheSchema \in Schema
BY IndexPatchAssumption DEF TheSchema

LEMMA FilesType ==
  ASSUME WorkInv
  PROVE  /\ Files \subseteq Path
         /\ walking => Files = Path
         /\ \A p \in Path \ Files : ~walking /\ disk[p] = old[p]
BY DEF WorkInv, Files, Changed

\* A built index that may be patched has no file it refused or could not read
LEMMA PatchedIsWhole ==
  ASSUME NEW d \in Disk, NEW files, Patchable(Cold(d, TheSchema, {}, {}), files)
  PROVE  Duplicates(EmptyIndex, d, Path) = {} /\ \A p \in Path : d[p] # Malformed
<1> DEFINE empty == NewIndex(SchemaFile \in {})
           walked == Collect(empty, d, Path, TheSchema, {})
<1>1. walked.rejected = {} /\ walked.unparsed = {}
  BY DEF Patchable, Cold, FoldOverrides
<1>2. AsRead(d, {}) = d
  BY ReadAll
<1>3. Duplicates(empty, d, Path) = {} /\ \A p \in Path : d[p] # Malformed
  BY <1>1, <1>2 DEF Collect
<1>4. empty.entry = EmptyIndex.entry
  BY DEF NewIndex, EmptyIndex
<1>5. Duplicates(empty, d, Path) = Duplicates(EmptyIndex, d, Path)
  BY <1>4 DEF Duplicates, AlreadyClaimed
<1> QED  BY <1>3, <1>5

\* What a patch or a walk collects into: the claims of the other files
LEMMA BaseIs ==
  ASSUME WorkInv
  PROVE  /\ \A p \in Path : Base.entry[p] = IF p \notin Files /\ IsNode(disk[p])
                                            THEN EntryOf(disk[p], TheSchema) ELSE Absent
         /\ Base.rejected = {} /\ Base.unparsed = {}
         /\ Base.overrides = {} /\ Base.degraded = FALSE
<1>1. CASE walking
  BY <1>1, FilesType DEF Base, EmptyIndex, NewIndex
<1>2. CASE ~walking
  <2> DEFINE cold == Cold(old, TheSchema, {}, {})
  <2>1. cold = [entry     |-> [p \in Path |-> IF IsNode(old[p]) THEN EntryOf(old[p], TheSchema) ELSE Absent],
                rejected  |-> {},
                unparsed  |-> {p \in Path : old[p] = Malformed},
                overrides |-> {},
                degraded  |-> FALSE]
    BY <1>2, TheSchemaIs, ColdOfUnique DEF WorkInv, Unique
  <2>2. Base = DropUnits(cold, Files)
    BY <1>2 DEF Base, Files
  <2> HIDE DEF cold
  <2>3. \A p \in Path \ Files : old[p] = disk[p]
    BY FilesType
  <2>4. {p \in Path : old[p] = Malformed} = {}
    BY <1>2 DEF WorkInv
  <2> QED  BY <2>1, <2>2, <2>3, <2>4 DEF DropUnits
<1> QED  BY <1>1, <1>2 DEF WorkInv

\* The claims the lists hold are claims
LEMMA HeldOnType ==
  ASSUME WorkInv, NEW i
  PROVE  /\ HeldOn(i) \in SUBSET Claim /\ IsFiniteSet(HeldOn(i))
         /\ \A p \in Path : Held(p) => Source(p) \in Node
<1>1. \A p \in Path : Held(p) => Source(p) \in Node
  BY NodeContent DEF WorkInv, Held, Source
<1>2. HeldOn(i) \in SUBSET Claim
  BY <1>1 DEF HeldOn, Claim, Node
<1>3. IsFiniteSet(HeldOn(i))
  <2> DEFINE S == {q \in Path : Held(q) /\ Source(q).id = i}
             f(p) == [path |-> p, sig |-> Source(p).sig]
  <2>1. IsFiniteSet(S)
    BY IndexPatchAssumption, FS_Subset
  <2> DEFINE F == [p \in S |-> f(p)]
             R == {F[p] : p \in S}
  <2>2. F \in Surjection(S, R)
    BY DEF Surjection
  <2>3. IsFiniteSet(R)
    <3> HIDE DEF S, F, R
    <3> QED  BY <2>1, <2>2, FS_Surjection
  <2>4. R = HeldOn(i)
    BY DEF HeldOn
  <2> QED  BY <2>3, <2>4
<1> QED  BY <1>1, <1>2, <1>3

\* Of a disk without duplicates, each layer has one claim on an id at most
LEMMA UniqueClaims ==
  ASSUME NEW d \in Disk, Duplicates(EmptyIndex, d, Path) = {}, NEW p \in Path, NEW q \in Path,
         IsNode(d[p]), IsNode(d[q]), LayerOf[p] = LayerOf[q], d[p].id = d[q].id
  PROVE  p = q
<1>1. p < q \/ q < p \/ p = q
  BY NodeIndexAssumption
<1> QED  BY <1>1 DEF Duplicates, ClaimedEarlier

LEMMA ClaimsOnLayered ==
  ASSUME NEW d \in Disk, Duplicates(EmptyIndex, d, Path) = {}, NEW i
  PROVE  Layered(ClaimsOn(d, i))
<1>1. \A p \in Path : IsNode(d[p]) => d[p] \in Node
  BY NodeContent
<1>2. ClaimsOn(d, i) \in SUBSET Claim
  BY <1>1 DEF ClaimsOn, ClaimOf, Claim, Node
<1>3. ASSUME NEW c \in ClaimsOn(d, i), NEW e \in ClaimsOn(d, i),
             LayerOf[c.path] = LayerOf[e.path]
      PROVE  c = e
  <2>1. PICK p \in Path : IsNode(d[p]) /\ d[p].id = i /\ c = ClaimOf(d, p)
    BY DEF ClaimsOn
  <2>2. PICK q \in Path : IsNode(d[q]) /\ d[q].id = i /\ e = ClaimOf(d, q)
    BY DEF ClaimsOn
  <2>3. c.path = p /\ e.path = q
    BY <2>1, <2>2 DEF ClaimOf
  <2> QED  BY <1>3, <2>1, <2>2, <2>3, UniqueClaims
<1> QED  BY <1>2, <1>3 DEF Layered

\* The edges of a built index are those of its claims
LEMMA EdgesOfIs ==
  ASSUME NEW d \in Disk, Duplicates(EmptyIndex, d, Path) = {}, NEW l \in Layer, NEW i \in Id
  PROVE  /\ \A c \in ClaimsOn(d, i) : LayerOf[c.path] = l => EdgesOf(d)[<<l, i>>] = c.sig
         /\ (\A c \in ClaimsOn(d, i) : LayerOf[c.path] # l) => EdgesOf(d)[<<l, i>>] = NoEdges
<1> DEFINE held == {p \in Path : IsNode(d[p]) /\ d[p].id = i /\ LayerOf[p] = l}
<1>1. EdgesOf(d)[<<l, i>>] = IF held = {} THEN NoEdges ELSE d[CHOOSE p \in held : TRUE].sig
  <2> DEFINE of(k) == {p \in Path : IsNode(d[p]) /\ d[p].id = k[2] /\ LayerOf[p] = k[1]}
  <2>1. EdgesOf(d) = [k \in Layer \X Id |-> IF of(k) = {} THEN NoEdges
                                           ELSE d[CHOOSE p \in of(k) : TRUE].sig]
    BY DEF EdgesOf
  <2>2. of(<<l, i>>) = held
    OBVIOUS
  <2> HIDE DEF of, held
  <2> QED  BY <2>1, <2>2
<1>2. ASSUME NEW c \in ClaimsOn(d, i), LayerOf[c.path] = l
      PROVE  EdgesOf(d)[<<l, i>>] = c.sig
  <2>1. PICK p \in Path : IsNode(d[p]) /\ d[p].id = i /\ c = ClaimOf(d, p)
    BY DEF ClaimsOn
  <2>2. c.path = p /\ c.sig = d[p].sig
    BY <2>1 DEF ClaimOf
  <2>3. p \in held
    BY <1>2, <2>1, <2>2
  <2>4. (CHOOSE q \in held : TRUE) \in held
    BY <2>3
  <2>5. (CHOOSE q \in held : TRUE) = p
    BY <2>3, <2>4, UniqueClaims
  <2> HIDE DEF held
  <2> QED  BY <1>1, <2>2, <2>3, <2>5
<1>3. ASSUME \A c \in ClaimsOn(d, i) : LayerOf[c.path] # l
      PROVE  held = {}
  <2>1. \A p \in Path : IsNode(d[p]) /\ d[p].id = i => ClaimOf(d, p) \in ClaimsOn(d, i)
    BY DEF ClaimsOn
  <2>2. \A p \in Path : ClaimOf(d, p).path = p
    BY DEF ClaimOf
  <2> QED  BY <1>3, <2>1, <2>2
<1> QED  BY <1>1, <1>2, <1>3

\* A file is refused as a second claim just when an entry of its layer and id is
\* in the lists at its turn: `any(...)` of entry_for_layer against NodeIndex's
\* reckoning of which files come earlier
LEMMA TakenIsRefused ==
  ASSUME WorkInv, NEW p \in Path, MayCollect(p), IsNode(disk[p])
  PROVE  (\E c \in HeldOn(disk[p].id) : LayerOf[c.path] = LayerOf[p]) <=> p \in Refused
<1> DEFINE Same(q) == IsNode(disk[q]) /\ LayerOf[q] = LayerOf[p] /\ disk[q].id = disk[p].id
<1>1. toDrop = {} /\ p \in toCollect /\ p \in Files /\ Files \subseteq Path
  BY FilesType DEF MayCollect, WorkInv
<1>2. (\E c \in HeldOn(disk[p].id) : LayerOf[c.path] = LayerOf[p])
        <=> \E q \in Path : Held(q) /\ Same(q)
  <2>1. \A q \in Path : Source(q) = disk[q]
    BY <1>1 DEF Source
  <2>2. ASSUME NEW c \in HeldOn(disk[p].id), LayerOf[c.path] = LayerOf[p]
        PROVE  \E q \in Path : Held(q) /\ Same(q)
    <3>1. PICK q \in Path : Held(q) /\ Source(q).id = disk[p].id
                            /\ c = [path |-> q, sig |-> Source(q).sig]
      BY DEF HeldOn
    <3>2. c.path = q
      BY <3>1
    <3> QED  BY <2>1, <2>2, <3>1, <3>2 DEF Held
  <2>3. ASSUME NEW q \in Path, Held(q), Same(q)
        PROVE  \E c \in HeldOn(disk[p].id) : LayerOf[c.path] = LayerOf[p]
    <3> DEFINE c == [path |-> q, sig |-> Source(q).sig]
    <3>1. c \in HeldOn(disk[p].id)
      BY <2>1, <2>3 DEF HeldOn
    <3>2. c.path = q
      OBVIOUS
    <3> HIDE DEF c
    <3> QED  BY <2>3, <3>1, <3>2
  <2> QED  BY <2>2, <2>3
<1>3. \A q \in Path : Held(q) <=> IsNode(disk[q]) /\ (q \notin Files \/ q \notin toCollect \cup Refused)
  BY <1>1 DEF Held, Source
<1>4. \A q \in Path : AlreadyClaimed(Base, disk, q) <=>
        \E r \in Path : /\ r \notin Files /\ IsNode(disk[r])
                        /\ LayerOf[r] = LayerOf[q] /\ disk[r].id = disk[q].id
  <2>1. \A r \in Path : IsNode(disk[r]) =>
          EntryOf(disk[r], TheSchema) # Absent /\ EntryOf(disk[r], TheSchema).id = disk[r].id
    BY NodeContent, EntryOfType, TheSchemaIs DEF WorkInv, AnySchema, EntryOf
  <2> QED  BY <2>1, BaseIs DEF AlreadyClaimed
<1>5. \A q \in Files : q \in Refused <=>
        IsNode(disk[q]) /\ (AlreadyClaimed(Base, disk, q) \/ ClaimedEarlier(disk, Files, q))
  BY DEF Refused, Duplicates
<1>6. ASSUME NEW q \in Path, Held(q), Same(q)
      PROVE  p \in Refused
  <2>1. CASE q \notin Files
    BY <1>1, <1>4, <1>5, <1>6, <2>1
  <2>2. CASE q \in Files
    <3>1. q \notin toCollect
      BY <1>3, <1>6, <2>2
    <3>2. ~(p < q)
      BY <1>1, <1>6, <2>2, <3>1 DEF WorkInv
    <3>3. q < p
      BY <1>1, <3>1, <3>2, NodeIndexAssumption
    <3>4. ClaimedEarlier(disk, Files, p)
      BY <1>6, <2>2, <3>3 DEF ClaimedEarlier
    <3> QED  BY <1>1, <1>5, <3>4
  <2> QED  BY <2>1, <2>2
<1>7. ASSUME p \in Refused
      PROVE  \E q \in Path : Held(q) /\ Same(q)
  <2>1. CASE AlreadyClaimed(Base, disk, p)
    <3>1. PICK r \in Path : r \notin Files /\ Same(r)
      BY <1>4, <2>1
    <3> QED  BY <1>3, <3>1
  <2>2. CASE ~AlreadyClaimed(Base, disk, p)
    <3> DEFINE T == {q \in Files : q < p /\ Same(q)}
    <3>1. T # {}
      BY <1>1, <1>5, <1>7, <2>2 DEF ClaimedEarlier
    <3>2. T \subseteq Path
      BY <1>1
    <3>3. PICK q \in T : \A y \in T : q <= y
      <4> HIDE DEF T
      <4> QED  BY <3>1, <3>2, LeastNumber, NodeIndexAssumption
    <3>4. q \in Path /\ q \in Files /\ q < p /\ Same(q)
      BY <3>2
    <3>5. q \notin toCollect
      BY <3>4 DEF MayCollect
    <3>6. ~AlreadyClaimed(Base, disk, q)
      BY <1>1, <1>4, <2>2, <3>4
    <3>7. ~ClaimedEarlier(disk, Files, q)
      <4>1. ASSUME NEW r \in Files, r < q, LayerOf[r] = LayerOf[q], IsNode(disk[r]),
                   disk[r].id = disk[q].id
            PROVE  FALSE
        <5>1. r < p
          BY <1>1, <3>4, <4>1, NodeIndexAssumption
        <5>2. r \in T
          BY <3>4, <4>1, <5>1
        <5>3. q \in Nat /\ r \in Nat
          BY <1>1, <3>4, <4>1, NodeIndexAssumption
        <5> HIDE DEF T
        <5>4. q <= r
          BY <3>3, <5>2
        <5> QED  BY <4>1, <5>3, <5>4
      <4> QED  BY <4>1 DEF ClaimedEarlier
    <3> QED  BY <1>3, <1>5, <3>4, <3>5, <3>6, <3>7
  <2> QED  BY <2>1, <2>2
<1> HIDE DEF Same
<1> QED  BY <1>2, <1>6, <1>7

-----------------------------------------------------------------------------
(* The invariant is inductive *)

PatchInv == WorkInv /\ ListInv /\ EdgeInv

LEMMA InitPatch == Init => PatchInv
<1> SUFFICES ASSUME Init PROVE PatchInv
  OBVIOUS
<1>1. ASSUME NEW d \in Disk, NEW e \in Later(d) PROVE e \in Disk
  <2>1. PICK c \in UNION {[files -> Content] : files \in SUBSET Path} :
          e = [p \in Path |-> IF p \in DOMAIN c THEN c[p] ELSE d[p]]
    BY <1>1 DEF Later
  <2>2. \A p \in DOMAIN c : c[p] \in Content
    OBVIOUS
  <2> QED  BY <2>1, <2>2 DEF Disk
<1>2. CASE StartPatch
  <2>1. /\ old \in Disk /\ disk \in Disk /\ ~walking /\ walking \in BOOLEAN
        /\ toDrop = Changed /\ toCollect = Changed /\ ordered = FALSE
        /\ rejected = {} /\ unparsed = {}
    BY <1>1, <1>2, IndexPatchAssumption DEF Init, StartPatch
  <2>2. Duplicates(EmptyIndex, old, Path) = {} /\ \A p \in Path : old[p] # Malformed
    BY <1>2, <2>1, PatchedIsWhole DEF StartPatch
  <2>3. Files = Changed
    BY <2>1 DEF Files
  <2>4. WorkInv
    BY <2>1, <2>2, <2>3 DEF WorkInv
  <2>5. \A p \in Path : Source(p) = old[p] /\ (Held(p) <=> IsNode(old[p]))
    BY <2>1, <2>3 DEF Source, Held, Changed
  <2>6. \A i : HeldOn(i) = ClaimsOn(old, i)
    BY <2>5 DEF HeldOn, ClaimsOn, ClaimOf
  <2>7. ListInv
    <3>1. \A i \in Id : candidates[i] = Sorted(ClaimsOn(old, i))
      BY <1>2 DEF StartPatch, ListsOf
    <3>2. \A i \in Id : IsFiniteSet(ClaimsOn(old, i)) /\ Layered(ClaimsOn(old, i))
      BY <2>1, <2>2, <2>4, <2>6, HeldOnType, ClaimsOnLayered
    <3>3. \A i \in Id : Lists(candidates[i], ClaimsOn(old, i))
      BY <3>1, <3>2, SortedLists
    <3> QED  BY <1>2, <2>1, <2>6, <3>3 DEF ListInv, StartPatch, ListsOf
  <2>8. EdgeInv
    <3>1. edges = EdgesOf(old)
      BY <1>2 DEF StartPatch
    <3>2. edges = [k \in Layer \X Id |-> edges[k]]
      BY <3>1 DEF EdgesOf
    <3> QED  BY <2>1, <2>2, <2>6, <3>1, <3>2, EdgesOfIs DEF EdgeInv
  <2> QED  BY <2>4, <2>7, <2>8 DEF PatchInv
<1>3. CASE StartWalk
  <2>1. /\ old \in Disk /\ disk = old /\ walking = TRUE
        /\ toDrop = {} /\ toCollect = Path /\ ordered = TRUE
        /\ rejected = {} /\ unparsed = {}
    BY <1>1, <1>3, IndexPatchAssumption DEF Init, StartWalk
  <2>2. Files = Path
    BY <2>1 DEF Files
  <2>3. WorkInv
    BY <2>1, <2>2 DEF WorkInv
  <2>4. \A i : HeldOn(i) = {}
    BY <2>1, <2>2 DEF HeldOn, Held
  <2>5. ListInv
    <3>1. \A i \in Id : candidates[i] = <<>>
      BY <1>3 DEF StartWalk
    <3>2. <<>> \in Seq(Claim) /\ Len(<<>>) = 0 /\ 1..0 = {}
      OBVIOUS
    <3> QED  BY <1>3, <2>4, <3>1, <3>2 DEF ListInv, Lists, Ordered, StartWalk
  <2>6. EdgeInv
    BY <1>3, <2>4 DEF EdgeInv, StartWalk
  <2> QED  BY <2>3, <2>5, <2>6 DEF PatchInv
<1> QED  BY <1>2, <1>3 DEF Init

\* What no step changes
Fixed == UNCHANGED <<old, disk, walking>>

LEMMA FixedKeeps ==
  ASSUME Fixed
  PROVE  Files' = Files /\ Base' = Base /\ Refused' = Refused
<1>1. Changed' = Changed
  BY DEF Fixed, Changed
<1>2. Files' = Files /\ Base' = Base
  BY <1>1 DEF Fixed, Files, Base
<1> QED  BY <1>2 DEF Fixed, Refused

\* A dropped file's claim goes, and its edges, and nothing else
LEMMA DropKeeps ==
  ASSUME PatchInv, NEW p \in Path, DropUnit(p)
  PROVE  PatchInv'
<1>1. /\ Files' = Files /\ Refused' = Refused /\ old' = old /\ disk' = disk
      /\ walking' = walking /\ toCollect' = toCollect /\ ordered' = ordered
      /\ unparsed' = unparsed
  BY FixedKeeps DEF DropUnit, Fixed
<1>2. /\ p \in toDrop /\ toDrop' = toDrop \ {p} /\ toCollect = Files /\ ~walking
      /\ p \in Files /\ ~ordered
  BY DEF PatchInv, WorkInv, DropUnit
<1>3. WorkInv'
  <2>1. rejected' = (Files \ toCollect) \cap Refused
    BY <1>2 DEF PatchInv, WorkInv, DropUnit
  <2> QED  BY <1>1, <1>2, <2>1 DEF PatchInv, WorkInv
<1>4. \A q \in Path : (Held(q)' <=> Held(q) /\ q # p) /\ (q # p => Source(q)' = Source(q))
  <2>1. \A q \in Path : q # p => Source(q)' = Source(q)
    BY <1>1, <1>2 DEF Source
  <2>2. \A q \in Path : q # p => (Held(q)' <=> Held(q))
    BY <1>1, <1>2, <2>1 DEF Held
  <2>3. ~Held(p)'
    BY <1>1, <1>2 DEF Held
  <2> QED  BY <2>1, <2>2, <2>3
<1>5. ASSUME NEW i PROVE HeldOn(i)' = {c \in HeldOn(i) : c.path # p}
  <2> DEFINE f(q) == [path |-> q, sig |-> Source(q).sig]
  <2>1. HeldOn(i) = {f(q) : q \in {r \in Path : Held(r) /\ Source(r).id = i}}
    BY DEF HeldOn
  <2>2. HeldOn(i)' = {[path |-> q, sig |-> Source(q)'.sig] : q \in {r \in Path : Held(r)' /\ Source(r)'.id = i}}
    BY DEF HeldOn
  <2>3. HeldOn(i)' = {f(q) : q \in {r \in Path : Held(r) /\ r # p /\ Source(r).id = i}}
    BY <1>4, <2>2
  <2>4. \A q : f(q).path = q
    OBVIOUS
  <2> HIDE DEF f
  <2> QED  BY <2>1, <2>3, <2>4
<1>6. \A i \in Id : /\ HeldOn(i) \in SUBSET Claim /\ Lists(candidates[i], HeldOn(i))
                    /\ candidates'[i] = Without(candidates[i], p)
  BY HeldOnType DEF PatchInv, ListInv, DropUnit
<1>7. ListInv'
  <2>1. candidates' = [i \in Id |-> candidates'[i]]
    BY DEF DropUnit
  <2>2. \A i \in Id : Lists(candidates'[i], HeldOn(i)')
    BY <1>5, <1>6, ListsWithout
  <2> QED  BY <1>1, <1>2, <2>1, <2>2 DEF ListInv
<1>8. EdgeInv'
  <2>1. edges' = [k \in Layer \X Id |-> edges'[k]]
    BY DEF DropUnit
  <2> SUFFICES ASSUME NEW l \in Layer, NEW i \in Id
               PROVE  /\ \A c \in HeldOn(i)' : LayerOf[c.path] = l => edges'[<<l, i>>] = c.sig
                      /\ (\A c \in HeldOn(i)' : LayerOf[c.path] # l) => edges'[<<l, i>>] = NoEdges
    BY <2>1 DEF EdgeInv
  <2>2. Lists(candidates'[i], HeldOn(i)') /\ HeldOn(i)' \in SUBSET Claim
    BY <1>5, <1>6, ListsWithout
  <2>3. Range(candidates'[i]) = HeldOn(i)'
    BY <2>2, ListsRange
  <2>4. candidates'[i] # candidates[i] <=> \E c \in HeldOn(i) : c.path = p
    <3>1. /\ (\A c \in HeldOn(i) : c.path # p) => Without(candidates[i], p) = candidates[i]
          /\ Without(candidates[i], p) = candidates[i] => \A c \in HeldOn(i) : c.path # p
      <4> DEFINE S == HeldOn(i)
                 list == candidates[i]
      <4>1. S \in SUBSET Claim /\ Lists(list, S)
        BY <1>6
      <4> HIDE DEF S, list
      <4>2. /\ (\A c \in S : c.path # p) => Without(list, p) = list
            /\ Without(list, p) = list => \A c \in S : c.path # p
        BY <4>1, ListsWithout
      <4> QED  BY <4>2 DEF S, list
    <3>2. candidates'[i] = Without(candidates[i], p)
      BY <1>6
    <3> QED  BY <3>1, <3>2
  <2>5. edges'[<<l, i>>] = IF /\ l = LayerOf[p]
                              /\ \E c \in HeldOn(i) : c.path = p
                              /\ \A c \in HeldOn(i)' : LayerOf[c.path] # l
                           THEN NoEdges ELSE edges[<<l, i>>]
    <3> DEFINE Cleared(k) == /\ k[1] = LayerOf[p]
                             /\ candidates'[k[2]] # candidates[k[2]]
                             /\ \A c \in Range(candidates'[k[2]]) : LayerOf[c.path] # k[1]
    <3>1. edges' = [k \in Layer \X Id |-> IF Cleared(k) THEN NoEdges ELSE edges[k]]
      BY DEF DropUnit
    <3>2. Cleared(<<l, i>>) <=> /\ l = LayerOf[p]
                                /\ \E c \in HeldOn(i) : c.path = p
                                /\ \A c \in HeldOn(i)' : LayerOf[c.path] # l
      BY <2>3, <2>4
    <3> HIDE DEF Cleared
    <3> QED  BY <3>1, <3>2
  <2>6. /\ \A c \in HeldOn(i) : LayerOf[c.path] = l => edges[<<l, i>>] = c.sig
        /\ (\A c \in HeldOn(i) : LayerOf[c.path] # l) => edges[<<l, i>>] = NoEdges
    BY DEF PatchInv, EdgeInv
  <2>7. HeldOn(i)' = {c \in HeldOn(i) : c.path # p}
    BY <1>5
  <2> QED  BY <2>5, <2>6, <2>7
<1> QED  BY <1>3, <1>7, <1>8 DEF PatchInv

\* A collected file's claim comes in, and its edges, unless it is refused
LEMMA CollectKeeps ==
  ASSUME PatchInv, NEW p \in Path, CollectUnit(p)
  PROVE  PatchInv'
<1> DEFINE taken == IsNode(disk[p])
                      /\ \E d \in Range(candidates[disk[p].id]) : LayerOf[d.path] = LayerOf[p]
           new == ClaimOf(disk, p)
<1>0. WorkInv /\ MayCollect(p)
  BY DEF PatchInv, CollectUnit
<1>1. /\ Files' = Files /\ Refused' = Refused /\ old' = old /\ disk' = disk
      /\ walking' = walking /\ toDrop' = toDrop /\ ordered' = ordered
      /\ toCollect' = toCollect \ {p}
  BY FixedKeeps DEF CollectUnit, Fixed
<1>2. /\ toDrop = {} /\ p \in toCollect /\ p \in Files /\ Files \subseteq Path
      /\ toCollect \subseteq Files
  BY <1>0, FilesType DEF WorkInv, MayCollect
<1>3. \A i \in Id : /\ HeldOn(i) \in SUBSET Claim /\ Lists(candidates[i], HeldOn(i))
                    /\ Range(candidates[i]) = HeldOn(i)
  BY <1>0, HeldOnType, ListsRange DEF PatchInv, ListInv
<1>4. IsNode(disk[p]) => disk[p] \in Node /\ disk[p].id \in Id /\ disk[p].sig \in Sig /\ new \in Claim
  BY <1>0, NodeContent DEF WorkInv, Node, ClaimOf, Claim
<1>5. taken <=> IsNode(disk[p]) /\ p \in Refused
  BY <1>0, <1>3, <1>4, TakenIsRefused
<1>6. p \in Refused => IsNode(disk[p])
  BY DEF Refused, Duplicates
<1>7. WorkInv'
  <2>1. rejected' = (Files \ (toCollect \ {p})) \cap Refused
    <3>1. rejected' = IF taken THEN rejected \cup {p} ELSE rejected
      BY DEF CollectUnit
    <3> HIDE DEF taken
    <3> QED  BY <1>0, <1>2, <1>5, <1>6, <3>1 DEF WorkInv
  <2>2. unparsed' = {q \in Files \ (toCollect \ {p}) : disk[q] = Malformed}
    <3>1. unparsed' = IF disk[p] = Malformed THEN unparsed \cup {p} ELSE unparsed
      BY DEF CollectUnit
    <3> QED  BY <1>0, <1>2, <3>1 DEF WorkInv
  <2>3. \A q \in toCollect \ {p} : \A r \in Files \ (toCollect \ {p}) :
          q < r => ~walking /\ LayerOf[q] # LayerOf[r]
    <3>1. \A q \in toCollect : q < p => ~walking /\ LayerOf[q] # LayerOf[p]
      BY <1>0 DEF MayCollect
    <3> QED  BY <1>0, <1>2, <3>1 DEF WorkInv
  <2> HIDE DEF taken, new
  <2> QED  BY <1>0, <1>1, <1>2, <2>1, <2>2, <2>3 DEF WorkInv
<1>8. \A q \in Path : /\ Source(q) = disk[q] /\ Source(q)' = disk[q]
                      /\ Held(q)' <=> Held(q) \/ (q = p /\ IsNode(disk[p]) /\ p \notin Refused)
  <2>1. \A q \in Path : Source(q) = disk[q] /\ Source(q)' = disk[q]
    BY <1>1, <1>2 DEF Source
  <2> HIDE DEF taken, new
  <2> QED  BY <1>1, <1>2, <2>1 DEF Held
<1>9. ASSUME NEW i
      PROVE  HeldOn(i)' = HeldOn(i) \cup IF IsNode(disk[p]) /\ p \notin Refused /\ disk[p].id = i
                                         THEN {new} ELSE {}
  <2> DEFINE f(q) == [path |-> q, sig |-> disk[q].sig]
  <2>1. \A c : c \in HeldOn(i) <=> \E q \in Path : Held(q) /\ disk[q].id = i /\ c = f(q)
    BY <1>8 DEF HeldOn
  <2>2. \A c : c \in HeldOn(i)' <=>
          \E q \in Path : Held(q)' /\ Source(q)'.id = i /\ c = [path |-> q, sig |-> Source(q)'.sig]
    BY DEF HeldOn
  <2>3. \A c : c \in HeldOn(i)' <=>
          \E q \in Path : Held(q)' /\ disk[q].id = i /\ c = f(q)
    BY <1>8, <2>2
  <2>4. \A q \in Path : Held(q)' <=> Held(q) \/ (q = p /\ IsNode(disk[p]) /\ p \notin Refused)
    BY <1>8
  <2>5. f(p) = new
    BY DEF ClaimOf
  <2> HIDE DEF f, new, taken
  <2> QED  BY <2>1, <2>3, <2>4, <2>5
<1>10. IsNode(disk[p]) /\ p \notin Refused =>
         /\ \A d \in HeldOn(disk[p].id) : LayerOf[d.path] # LayerOf[p]
         /\ new.path = p /\ new.sig = disk[p].sig
  BY <1>0, TakenIsRefused DEF ClaimOf
<1>11. CASE ~(IsNode(disk[p]) /\ p \notin Refused)
  <2>1. candidates' = candidates /\ edges' = edges
    <3>1. ~(IsNode(disk[p]) /\ ~taken)
      BY <1>5, <1>11
    <3> QED  BY <3>1 DEF CollectUnit
  <2>2. \A i : HeldOn(i)' = HeldOn(i)
    BY <1>9, <1>11
  <2>3. ListInv'
    BY <1>1, <2>1, <2>2 DEF PatchInv, ListInv
  <2>4. EdgeInv'
    BY <2>1, <2>2 DEF PatchInv, EdgeInv
  <2> QED  BY <1>7, <2>3, <2>4 DEF PatchInv
<1>12. CASE IsNode(disk[p]) /\ p \notin Refused
  <2>0. PICK n \in Id : n = disk[p].id
    BY <1>4, <1>12
  <2>1. /\ candidates' = [candidates EXCEPT ![n] = Add(candidates[n], new)]
        /\ edges' = [edges EXCEPT ![<<LayerOf[p], n>>] = disk[p].sig]
    <3>1. IsNode(disk[p]) /\ ~taken
      BY <1>5, <1>12
    <3> QED  BY <2>0, <3>1 DEF CollectUnit
  <2>2. n \in Id /\ LayerOf[p] \in Layer /\ new \in Claim /\ new.path = p /\ new.sig = disk[p].sig
    BY <1>4, <1>10, <1>12 DEF Layer
  <2>3. /\ HeldOn(n)' = HeldOn(n) \cup {new}
        /\ \A i : i # n => HeldOn(i)' = HeldOn(i)
    <3> HIDE DEF new, taken
    <3> QED  BY <1>9, <1>12, <2>0
  <2>4. \A d \in HeldOn(n) : LayerOf[d.path] # LayerOf[new.path]
    BY <1>10, <1>12, <2>0, <2>2
  <2>5. ordered => \A d \in HeldOn(n) : LayerOf[d.path] < LayerOf[new.path]
    <3> SUFFICES ASSUME ordered, NEW d \in HeldOn(n) PROVE LayerOf[d.path] < LayerOf[p]
      BY <2>2
    <3>1. walking /\ Files = Path
      BY <1>0, <1>2, FilesType DEF WorkInv
    <3>2. PICK q \in Path : Held(q) /\ d = [path |-> q, sig |-> Source(q).sig]
      BY DEF HeldOn
    <3>3. d.path = q /\ q \in Files \ toCollect
      BY <1>2, <3>1, <3>2 DEF Held
    <3>4. ~(p < q)
      BY <1>0, <1>2, <3>1, <3>3 DEF WorkInv
    <3>5. q < p
      BY <1>2, <3>3, <3>4, NodeIndexAssumption
    <3>6. LayerOf[q] <= LayerOf[p] /\ LayerOf[q] \in Nat /\ LayerOf[p] \in Nat
      BY <3>5, NodeIndexAssumption
    <3>7. LayerOf[q] # LayerOf[p]
      BY <2>2, <2>4, <3>3
    <3> QED  BY <3>3, <3>6, <3>7
  <2> HIDE DEF new
  <2>6. ListInv'
    <3>1. candidates' = [i \in Id |-> candidates'[i]] /\ candidates'[n] = Add(candidates[n], new)
          /\ \A i \in Id : i # n => candidates'[i] = candidates[i]
      BY <2>1, <2>2 DEF PatchInv, ListInv
    <3>2. Lists(candidates'[n], HeldOn(n)') /\ (ordered => Ordered(candidates'[n]))
      <4>1. ordered => Ordered(candidates[n])
        BY <2>2 DEF PatchInv, ListInv
      <4> QED  BY <1>3, <2>2, <2>3, <2>4, <2>5, <3>1, <4>1, ListsAdd
    <3>3. \A i \in Id : i # n => Lists(candidates'[i], HeldOn(i)') /\ (ordered => Ordered(candidates'[i]))
      BY <2>3, <3>1 DEF PatchInv, ListInv
    <3> QED  BY <1>1, <3>1, <3>2, <3>3 DEF ListInv
  <2>7. EdgeInv'
    <3>1. edges' = [k \in Layer \X Id |-> edges'[k]]
      BY <2>1 DEF PatchInv, EdgeInv
    <3> SUFFICES ASSUME NEW l \in Layer, NEW i \in Id
                 PROVE  /\ \A c \in HeldOn(i)' : LayerOf[c.path] = l => edges'[<<l, i>>] = c.sig
                        /\ (\A c \in HeldOn(i)' : LayerOf[c.path] # l) => edges'[<<l, i>>] = NoEdges
      BY <3>1 DEF EdgeInv
    <3>2. /\ \A c \in HeldOn(i) : LayerOf[c.path] = l => edges[<<l, i>>] = c.sig
          /\ (\A c \in HeldOn(i) : LayerOf[c.path] # l) => edges[<<l, i>>] = NoEdges
      BY DEF PatchInv, EdgeInv
    <3>3. edges'[<<l, i>>] = IF l = LayerOf[p] /\ i = n THEN disk[p].sig ELSE edges[<<l, i>>]
      BY <2>1, <2>2 DEF PatchInv, EdgeInv
    <3>4. CASE i # n
      BY <2>3, <3>2, <3>3, <3>4
    <3>5. CASE i = n
      BY <2>2, <2>3, <2>4, <3>2, <3>3, <3>5
    <3> QED  BY <3>4, <3>5
  <2> QED  BY <1>7, <2>6, <2>7 DEF PatchInv
<1> QED  BY <1>11, <1>12

\* Sorting keeps the claims
LEMMA RestoreKeeps ==
  ASSUME PatchInv, RestoreOrder
  PROVE  PatchInv'
<1>1. /\ Files' = Files /\ Refused' = Refused /\ old' = old /\ disk' = disk
      /\ walking' = walking /\ toDrop' = toDrop /\ toCollect' = toCollect
      /\ ordered' = TRUE /\ rejected' = rejected /\ unparsed' = unparsed /\ edges' = edges
  BY FixedKeeps DEF RestoreOrder, Fixed
<1>2. WorkInv'
  BY <1>1 DEF PatchInv, WorkInv, RestoreOrder
<1>3. \A i : HeldOn(i)' = HeldOn(i)
  <2>1. \A q : (Held(q)' <=> Held(q)) /\ Source(q)' = Source(q)
    BY <1>1 DEF Held, Source
  <2> QED  BY <2>1 DEF HeldOn
<1>4. \A i \in Id : HeldOn(i) \in SUBSET Claim /\ IsFiniteSet(HeldOn(i)) /\ Lists(candidates[i], HeldOn(i))
  BY HeldOnType DEF PatchInv, ListInv
<1>5. \A i \in Id : candidates'[i] = Sorted(HeldOn(i)) /\ Layered(HeldOn(i))
  BY <1>4, ListsRange DEF RestoreOrder
<1>6. ListInv'
  <2>1. candidates' = [i \in Id |-> candidates'[i]]
    BY DEF RestoreOrder
  <2>2. \A i \in Id : Lists(candidates'[i], HeldOn(i)) /\ Ordered(candidates'[i])
    BY <1>4, <1>5, SortedLists
  <2> QED  BY <1>3, <2>1, <2>2 DEF ListInv
<1>7. EdgeInv'
  BY <1>1, <1>3 DEF PatchInv, EdgeInv
<1> QED  BY <1>2, <1>6, <1>7 DEF PatchInv

LEMMA StepPatch == PatchInv /\ [Next]_vars => PatchInv'
<1> SUFFICES ASSUME PatchInv, [Next]_vars PROVE PatchInv'
  OBVIOUS
<1>1. ASSUME NEW p \in Path, DropUnit(p) PROVE PatchInv'
  BY <1>1, DropKeeps
<1>2. ASSUME NEW p \in Path, CollectUnit(p) PROVE PatchInv'
  BY <1>2, CollectKeeps
<1>3. CASE RestoreOrder
  BY <1>3, RestoreKeeps
<1>4. CASE UNCHANGED vars
  <2>1. /\ old' = old /\ disk' = disk /\ walking' = walking /\ toDrop' = toDrop
        /\ toCollect' = toCollect /\ ordered' = ordered /\ candidates' = candidates
        /\ edges' = edges /\ rejected' = rejected /\ unparsed' = unparsed
    BY <1>4 DEF vars
  <2>2. Files' = Files /\ Refused' = Refused
    BY <2>1, FixedKeeps DEF Fixed
  <2>3. WorkInv'
    BY <2>1, <2>2 DEF PatchInv, WorkInv
  <2>4. \A i : HeldOn(i)' = HeldOn(i)
    <3>1. \A q : (Held(q)' <=> Held(q)) /\ Source(q)' = Source(q)
      BY <2>1, <2>2 DEF Held, Source
    <3> QED  BY <3>1 DEF HeldOn
  <2> QED  BY <2>1, <2>3, <2>4 DEF PatchInv, ListInv, EdgeInv
<1> QED  BY <1>1, <1>2, <1>3, <1>4 DEF Next

LEMMA PatchHolds == Spec => []PatchInv
BY InitPatch, StepPatch, PTL DEF Spec

-----------------------------------------------------------------------------
(* What the algorithm computes *)

\* Edges are filed under a layer and an id, apart from the claim they came from:
\* between any two steps of a patch or a walk they are those of the claim that
\* is in the lists.
THEOREM EdgesAlwaysFollow == Spec => []EdgesFollowClaims
<1>1. PatchInv => EdgesFollowClaims
  <2> SUFFICES ASSUME PatchInv, NEW l \in Layer, NEW i \in Id
               PROVE  LET claims == {c \in Range(candidates[i]) : LayerOf[c.path] = l}
                      IN IF claims = {} THEN edges[<<l, i>>] = NoEdges
                         ELSE {c.sig : c \in claims} = {edges[<<l, i>>]}
    BY DEF EdgesFollowClaims
  <2>1. Range(candidates[i]) = HeldOn(i)
    BY HeldOnType, ListsRange DEF PatchInv, ListInv
  <2>2. /\ \A c \in HeldOn(i) : LayerOf[c.path] = l => edges[<<l, i>>] = c.sig
        /\ (\A c \in HeldOn(i) : LayerOf[c.path] # l) => edges[<<l, i>>] = NoEdges
    BY DEF PatchInv, EdgeInv
  <2> DEFINE claims == {c \in HeldOn(i) : LayerOf[c.path] = l}
  <2>3. CASE claims = {}
    BY <2>1, <2>2, <2>3
  <2>4. CASE claims # {}
    <3>1. \A c \in claims : c.sig = edges[<<l, i>>]
      BY <2>2
    <3>2. {c.sig : c \in claims} = {edges[<<l, i>>]}
      <4> HIDE DEF claims
      <4> QED  BY <2>4, <3>1
    <3> QED  BY <2>1, <2>4, <3>2
  <2> QED  BY <2>3, <2>4
<1> QED  BY <1>1, PatchHolds, PTL

\* by_id is candidates[id][0]: in whatever order the units of a patch arrive, the
\* claim of the innermost layer is in front when it is done.
THEOREM InnermostInFront == Spec => []InnermostFirst
<1>1. PatchInv => InnermostFirst
  <2> SUFFICES ASSUME PatchInv, Done, NEW i \in Id, NEW k \in 1..Len(candidates[i]) - 1
               PROVE  LayerOf[candidates[i][k].path] > LayerOf[candidates[i][k + 1].path]
    BY DEF InnermostFirst
  <2>1. Ordered(candidates[i]) /\ Len(candidates[i]) \in Nat
    BY DEF PatchInv, ListInv, Lists, Done
  <2>2. k \in 1..Len(candidates[i]) /\ k + 1 \in 1..Len(candidates[i]) /\ k < k + 1
    BY <2>1
  <2> QED  BY <2>1, <2>2 DEF Ordered, InnerFirst
<1> QED  BY <1>1, PatchHolds, PTL

\* What the lists hold when the work is done
LEMMA DoneHolds ==
  ASSUME PatchInv, Done
  PROVE  /\ \A p \in Path : Held(p) <=> IsNode(disk[p]) /\ (p \notin Files \/ p \notin Refused)
         /\ \A p \in Path : Source(p) = disk[p]
         /\ rejected = Refused /\ unparsed = {p \in Files : disk[p] = Malformed}
<1>1. toDrop = {} /\ toCollect = {} /\ WorkInv
  BY DEF Done, PatchInv
<1>2. Refused \subseteq Files
  BY DEF Refused, Duplicates
<1> QED  BY <1>1, <1>2 DEF WorkInv, Held, Source

\* The list algorithm of node_index_patch.py, and the walk of references.py,
\* compute what NodeIndex says of a patch and of a cold build, for any disk, any
\* changes and any order of collection MayCollect allows; so what IndexGate
\* shows with those operators it shows of this code.
THEOREM ComputesTheIndex == Spec => []ComputesIndex
<1>1. PatchInv => ComputesIndex
  <2> SUFFICES ASSUME PatchInv, Done
               PROVE  AsIndex = IF walking THEN Cold(disk, TheSchema, {}, {})
                                ELSE Patch(Cold(old, TheSchema, {}, {}), disk, Changed, TheSchema, {})
    BY DEF ComputesIndex
  <2> DEFINE E == [p \in Path |-> IF IsNode(disk[p]) /\ (p \notin Files \/ p \notin Refused)
                                  THEN EntryOf(disk[p], TheSchema) ELSE Absent]
             result == [entry |-> E, rejected |-> Refused,
                        unparsed |-> {p \in Files : disk[p] = Malformed},
                        overrides |-> {}, degraded |-> FALSE]
  <2>0. WorkInv /\ disk \in Disk
    BY DEF PatchInv, WorkInv
  <2>1. AsIndex = result
    <3> DEFINE On(p) == {i \in Id : \E c \in Range(candidates[i]) : c.path = p}
               Of(i, p) == CHOOSE d \in Range(candidates[i]) : d.path = p
               The(p) == CHOOSE j \in On(p) : TRUE
               A == [p \in Path |-> IF On(p) = {} THEN Absent
                                    ELSE [id |-> The(p), sig |-> Of(The(p), p).sig,
                                          edgesBy |-> TheSchema]]
    <3>1. \A i \in Id : Range(candidates[i]) = HeldOn(i)
      BY <2>0, HeldOnType, ListsRange DEF PatchInv, ListInv
    <3>2. ASSUME NEW p \in Path, Held(p)
          PROVE  /\ On(p) = {disk[p].id}
                 /\ Of(disk[p].id, p).sig = disk[p].sig
      <4>1. disk[p].id \in Id /\ Source(p) = disk[p]
        BY <2>0, <3>2, HeldOnType, DoneHolds DEF Node
      <4>2. [path |-> p, sig |-> disk[p].sig] \in HeldOn(disk[p].id)
        BY <3>2, <4>1 DEF HeldOn
      <4>3. \A i \in Id : \A c \in HeldOn(i) : c.path = p => i = disk[p].id /\ c.sig = disk[p].sig
        <5>1. ASSUME NEW i \in Id, NEW c \in HeldOn(i), c.path = p
              PROVE  i = disk[p].id /\ c.sig = disk[p].sig
          <6>1. PICK q \in Path : Held(q) /\ Source(q).id = i /\ c = [path |-> q, sig |-> Source(q).sig]
            BY DEF HeldOn
          <6>2. q = p /\ c.sig = Source(q).sig
            BY <5>1, <6>1
          <6> QED  BY <4>1, <6>1, <6>2
        <5> QED  BY <5>1
      <4> DEFINE mine == [path |-> p, sig |-> disk[p].sig]
      <4>4. mine.path = p
        OBVIOUS
      <4> HIDE DEF mine
      <4>5. On(p) = {disk[p].id}
        BY <3>1, <4>1, <4>2, <4>3, <4>4 DEF mine
      <4>6. Of(disk[p].id, p) \in HeldOn(disk[p].id) /\ Of(disk[p].id, p).path = p
        BY <3>1, <4>1, <4>2, <4>4 DEF mine
      <4> QED  BY <4>1, <4>3, <4>5, <4>6
    <3>3. ASSUME NEW p \in Path, ~Held(p)
          PROVE  On(p) = {}
      <4>1. ASSUME NEW i \in Id, NEW c \in HeldOn(i), c.path = p PROVE FALSE
        <5>1. PICK q \in Path : Held(q) /\ c = [path |-> q, sig |-> Source(q).sig]
          BY DEF HeldOn
        <5>2. q = p
          BY <4>1, <5>1
        <5> QED  BY <3>3, <5>1, <5>2
      <4> QED  BY <3>1, <4>1
    <3>4. \A p \in Path : Held(p) => The(p) = disk[p].id
      BY <3>2
    <3> HIDE DEF On, Of, The
    <3>5. A = E
      <4> SUFFICES ASSUME NEW p \in Path PROVE A[p] = E[p]
        OBVIOUS
      <4>1. CASE Held(p)
        <5>1. A[p] = [id |-> disk[p].id, sig |-> disk[p].sig, edgesBy |-> TheSchema]
          BY <3>2, <3>4, <4>1
        <5>2. E[p] = EntryOf(disk[p], TheSchema)
          BY <4>1, DoneHolds
        <5> QED  BY <5>1, <5>2 DEF EntryOf
      <4>2. CASE ~Held(p)
        BY <3>3, <4>2, DoneHolds
      <4> QED  BY <4>1, <4>2
    <3>6. AsIndex = [entry |-> A, rejected |-> rejected, unparsed |-> unparsed,
                     overrides |-> {}, degraded |-> FALSE]
      BY DEF AsIndex, On, Of, The
    <3> HIDE DEF A, E
    <3> QED  BY <3>5, <3>6, DoneHolds
  <2>2. Collect(Base, disk, Files, TheSchema, {}) = result
    <3>1. AsRead(disk, {}) = disk
      BY <2>0, ReadAll
    <3>2. Collect(Base, disk, Files, TheSchema, {})
            = [entry |-> [p \in Path |-> IF p \in Files
                            THEN IF IsNode(disk[p]) /\ p \notin Refused
                                 THEN EntryOf(disk[p], TheSchema) ELSE Absent
                            ELSE Base.entry[p]],
               rejected  |-> Base.rejected \cup Refused,
               unparsed  |-> Base.unparsed \cup {p \in Files : disk[p] = Malformed},
               overrides |-> Base.overrides,
               degraded  |-> Base.degraded \/ \E p \in Files \cap {} : disk[p] # Absent]
      BY <3>1 DEF Collect, Refused
    <3>3. [p \in Path |-> IF p \in Files
                            THEN IF IsNode(disk[p]) /\ p \notin Refused
                                 THEN EntryOf(disk[p], TheSchema) ELSE Absent
                            ELSE Base.entry[p]] = E
      BY <2>0, BaseIs
    <3>4. (Base.degraded \/ \E p \in Files \cap {} : disk[p] # Absent) = FALSE
      BY <2>0, BaseIs
    <3> HIDE DEF E
    <3> QED  BY <2>0, <3>2, <3>3, <3>4, BaseIs
  <2> HIDE DEF result
  <2>3. CASE walking
    <3> DEFINE empty == NewIndex(SchemaFile \in {})
    <3>1. empty = EmptyIndex
      <4>1. (SchemaFile \in {}) = FALSE
        OBVIOUS
      <4> QED  BY <4>1 DEF NewIndex, EmptyIndex
    <3>2. Base = EmptyIndex /\ Files = Path
      BY <2>3 DEF Base, Files
    <3>3. Cold(disk, TheSchema, {}, {}) = FoldOverrides(result, {})
      BY <2>2, <3>1, <3>2 DEF Cold
    <3>4. FoldOverrides(result, {}) = result
      <4>1. \A p \in Path : result.entry[p] = E[p]
        BY DEF result
      <4>2. [p \in Path |-> IF /\ Wins(result, p)
                               /\ result.entry[p].id \in {}
                               /\ LayerOf[p] # RootLayer
                            THEN [result.entry[p] EXCEPT !.sig = FoldedSig]
                            ELSE result.entry[p]] = E
        BY <4>1
      <4> HIDE DEF E
      <4> QED  BY <4>2 DEF FoldOverrides, result
    <3> QED  BY <2>1, <2>3, <3>3, <3>4
  <2>4. CASE ~walking
    BY <2>1, <2>2, <2>4 DEF Patch, Base, Files
  <2> QED  BY <2>3, <2>4
<1> QED  BY <1>1, PatchHolds, PTL

\* The contract of node_index_patch.py where no layer has two claims on an id: a
\* patch leaves the very lists and edges a walk over the same files would.
THEOREM PatchIsWalk == Spec => []PatchEqualsWalk
<1>1. PatchInv => PatchEqualsWalk
  <2> SUFFICES ASSUME PatchInv, Done, Duplicates(EmptyIndex, disk, Path) = {}
               PROVE  candidates = ListsOf(disk) /\ edges = EdgesOf(disk)
    BY DEF PatchEqualsWalk
  <2>0. WorkInv /\ disk \in Disk
    BY DEF PatchInv, WorkInv
  <2>1. \A p \in Path : ~(p \in Files /\ p \in Refused)
    <3> SUFFICES ASSUME NEW p \in Path, p \in Files, p \in Refused PROVE FALSE
      OBVIOUS
    <3>1. IsNode(disk[p]) /\ (AlreadyClaimed(Base, disk, p) \/ ClaimedEarlier(disk, Files, p))
      BY DEF Refused, Duplicates
    <3>2. ~ClaimedEarlier(disk, Files, p)
      <4>1. ASSUME NEW q \in Files, q < p, LayerOf[q] = LayerOf[p], IsNode(disk[q]),
                   disk[q].id = disk[p].id
            PROVE  FALSE
        <5>1. q \in Path
          BY <2>0, FilesType
        <5>2. q = p
          BY <2>0, <3>1, <4>1, <5>1, UniqueClaims
        <5> QED  BY <4>1, <5>1, <5>2, NodeIndexAssumption
      <4> QED  BY <4>1 DEF ClaimedEarlier
    <3>3. PICK q \in Path : /\ Base.entry[q] # Absent /\ LayerOf[q] = LayerOf[p]
                            /\ Base.entry[q].id = disk[p].id
      BY <3>1, <3>2 DEF AlreadyClaimed
    <3>4. q \notin Files /\ IsNode(disk[q]) /\ disk[q].id = disk[p].id
      <4>1. Base.entry[q] = IF q \notin Files /\ IsNode(disk[q])
                            THEN EntryOf(disk[q], TheSchema) ELSE Absent
        BY <2>0, BaseIs
      <4>2. q \notin Files /\ IsNode(disk[q]) /\ Base.entry[q] = EntryOf(disk[q], TheSchema)
        BY <3>3, <4>1
      <4>3. EntryOf(disk[q], TheSchema).id = disk[q].id
        BY DEF EntryOf
      <4> QED  BY <3>3, <4>2, <4>3
    <3>5. q = p
      BY <2>0, <3>1, <3>3, <3>4, UniqueClaims
    <3> QED  BY <3>4, <3>5
  <2>2. \A i : HeldOn(i) = ClaimsOn(disk, i)
    <3>1. \A p \in Path : Source(p) = disk[p] /\ (Held(p) <=> IsNode(disk[p]))
      BY <2>1, DoneHolds
    <3> QED  BY <3>1 DEF HeldOn, ClaimsOn, ClaimOf
  <2>3. candidates = ListsOf(disk)
    <3>1. \A i \in Id : candidates[i] = Sorted(ClaimsOn(disk, i))
      <4> SUFFICES ASSUME NEW i \in Id PROVE candidates[i] = Sorted(HeldOn(i))
        BY <2>2
      <4>1. HeldOn(i) \in SUBSET Claim /\ IsFiniteSet(HeldOn(i)) /\ Lists(candidates[i], HeldOn(i))
            /\ Ordered(candidates[i])
        BY <2>0, HeldOnType DEF PatchInv, ListInv, Done
      <4>2. Layered(HeldOn(i))
        BY <4>1, ListsRange
      <4> QED  BY <4>1, <4>2, SortedLists, OneOrder
    <3>2. candidates = [i \in Id |-> candidates[i]]
      BY DEF PatchInv, ListInv
    <3> QED  BY <3>1, <3>2 DEF ListsOf
  <2>4. edges = EdgesOf(disk)
    <3>1. \A l \in Layer, i \in Id : edges[<<l, i>>] = EdgesOf(disk)[<<l, i>>]
      <4> SUFFICES ASSUME NEW l \in Layer, NEW i \in Id
                   PROVE  edges[<<l, i>>] = EdgesOf(disk)[<<l, i>>]
        OBVIOUS
      <4>1. /\ \A c \in ClaimsOn(disk, i) : LayerOf[c.path] = l => edges[<<l, i>>] = c.sig
            /\ (\A c \in ClaimsOn(disk, i) : LayerOf[c.path] # l) => edges[<<l, i>>] = NoEdges
        BY <2>2 DEF PatchInv, EdgeInv
      <4>2. /\ \A c \in ClaimsOn(disk, i) : LayerOf[c.path] = l => EdgesOf(disk)[<<l, i>>] = c.sig
            /\ (\A c \in ClaimsOn(disk, i) : LayerOf[c.path] # l) => EdgesOf(disk)[<<l, i>>] = NoEdges
        BY <2>0, EdgesOfIs
      <4> QED  BY <4>1, <4>2
    <3>2. edges = [k \in Layer \X Id |-> edges[k]]
      BY DEF PatchInv, EdgeInv
    <3>3. EdgesOf(disk) = [k \in Layer \X Id |-> EdgesOf(disk)[k]]
      BY DEF EdgesOf
    <3>4. \A k \in Layer \X Id : edges[k] = EdgesOf(disk)[k]
      BY <3>1
    <3> QED  BY <3>2, <3>3, <3>4
  <2> QED  BY <2>3, <2>4
<1> QED  BY <1>1, PatchHolds, PTL
=============================================================================
