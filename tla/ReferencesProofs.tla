-------------------------- MODULE ReferencesProofs --------------------------
(***************************************************************************)
(* Deletes and merges leave nothing behind that leads nowhere, and what a  *)
(* scene shows follows what they do and nothing else, whatever the nodes,  *)
(* however many requests there are and in whatever order their steps come, *)
(* when no file is written between a sweep's read of it and its write, no  *)
(* save brings a deleted scene back, and tags are deleted and merged one   *)
(* at a time.  The first is about deletes and merges that run through, the *)
(* second about those that stop as well.                                   *)
(***************************************************************************)
EXTENDS References, FiniteSetTheorems, WellFoundedInduction, TLAPS

\* A non-empty set of naturals has a least element
LEMMA Least ==
  ASSUME NEW T, T \subseteq Nat, T # {}
  PROVE  \E x \in T : \A y \in T : x <= y
<1> DEFINE R == OpToRel(<, Nat)
<1>1. IsWellFoundedOn(R, Nat)
  BY NatLessThanWellFounded
<1>2. \A a, b \in Nat : <<a, b>> \in R <=> a < b
  BY DEF OpToRel
<1> HIDE DEF R
<1>3. PICK x \in T : \A y \in T : <<y, x>> \notin R
  BY <1>1, WFMin
<1>4. ASSUME NEW y \in T PROVE x <= y
  <2>1. x \in Nat /\ y \in Nat
    OBVIOUS
  <2>2. ~(y < x)
    BY <1>2, <1>3, <2>1
  <2> QED  BY <2>1, <2>2
<1> QED  BY <1>4

-----------------------------------------------------------------------------
(* Lists *)

\* A list holds its head and what its tail holds
LEMMA HeadTail ==
  ASSUME NEW S, NEW s \in Seq(S), s # <<>>
  PROVE  /\ Head(s) \in S /\ Tail(s) \in Seq(S)
         /\ Range(s) = {Head(s)} \cup Range(Tail(s))
<1>1. Len(s) \in Nat \ {0} /\ Head(s) = s[1] /\ Head(s) \in S
  OBVIOUS
<1>2. Tail(s) \in Seq(S) /\ Len(Tail(s)) = Len(s) - 1
      /\ \A i \in 1..Len(s) - 1 : Tail(s)[i] = s[i + 1]
  OBVIOUS
<1>3. DOMAIN s = 1..Len(s) /\ DOMAIN Tail(s) = 1..Len(s) - 1
  BY <1>2
<1>4. ASSUME NEW x \in Range(s), x # Head(s) PROVE x \in Range(Tail(s))
  <2>1. PICK i \in 1..Len(s) : x = s[i]
    BY <1>3, <1>4 DEF Range
  <2>2. i # 1
    BY <1>1, <1>4, <2>1
  <2>3. i - 1 \in 1..Len(s) - 1 /\ Tail(s)[i - 1] = s[i]
    BY <1>1, <1>2, <2>1, <2>2
  <2> QED  BY <1>3, <2>1, <2>3 DEF Range
<1>5. Range(Tail(s)) \subseteq Range(s)
  BY <1>1, <1>2, <1>3 DEF Range
<1>6. Head(s) \in Range(s)
  BY <1>1, <1>3 DEF Range
<1> QED  BY <1>1, <1>2, <1>4, <1>5, <1>6

\* Two lists one after the other
LEMMA ListsTogether ==
  ASSUME NEW S, NEW s \in Seq(S), NEW u \in Seq(S)
  PROVE  s \o u \in Seq(S) /\ Range(s \o u) = Range(s) \cup Range(u)
<1> DEFINE c == s \o u
<1>1. /\ c \in Seq(S) /\ Len(c) = Len(s) + Len(u)
      /\ Len(s) \in Nat /\ Len(u) \in Nat
      /\ \A i \in 1..Len(s) : c[i] = s[i]
      /\ \A i \in 1..Len(u) : c[Len(s) + i] = u[i]
  OBVIOUS
<1>2. DOMAIN c = 1..Len(c) /\ DOMAIN s = 1..Len(s) /\ DOMAIN u = 1..Len(u)
  BY <1>1
<1> HIDE DEF c
<1>3. ASSUME NEW x \in Range(c) PROVE x \in Range(s) \cup Range(u)
  <2>1. PICK i \in 1..Len(c) : x = c[i]
    BY <1>2 DEF Range
  <2>2. CASE i <= Len(s)
    <3>1. i \in 1..Len(s)
      BY <1>1, <2>1, <2>2
    <3>2. x = s[i]
      BY <1>1, <2>1, <3>1
    <3> QED  BY <1>2, <3>1, <3>2 DEF Range
  <2>3. CASE i > Len(s)
    <3>1. i - Len(s) \in 1..Len(u) /\ Len(s) + (i - Len(s)) = i
      BY <1>1, <2>1, <2>3
    <3>2. c[i] = u[i - Len(s)]
      BY <1>1, <3>1
    <3> QED  BY <1>2, <2>1, <3>1, <3>2 DEF Range
  <2> QED  BY <1>1, <2>1, <2>2, <2>3
<1>4. Range(s) \subseteq Range(c)
  BY <1>1, <1>2 DEF Range
<1>5. Range(u) \subseteq Range(c)
  <2>1. \A i \in 1..Len(u) : Len(s) + i \in 1..Len(c)
    BY <1>1
  <2> QED  BY <1>1, <1>2, <2>1 DEF Range
<1> QED  BY <1>1, <1>3, <1>4, <1>5 DEF c

LEMMA KindsApart ==
  /\ Tag \cap Entity = {} /\ Tag \cap MutationSet = {} /\ Tag \cap Chat = {}
  /\ Tag \cap Scene = {} /\ Entity \cap MutationSet = {} /\ Entity \cap Chat = {}
  /\ Entity \cap Scene = {} /\ MutationSet \cap Chat = {} /\ MutationSet \cap Scene = {}
  /\ Chat \cap Scene = {}
<1> DEFINE kind == <<Tag, Entity, MutationSet, Chat, Scene>>
<1>1. /\ DOMAIN kind = 1..5 /\ kind[1] = Tag /\ kind[2] = Entity /\ kind[3] = MutationSet
      /\ kind[4] = Chat /\ kind[5] = Scene
  OBVIOUS
<1>2. \A i, j \in DOMAIN kind : i # j => kind[i] \cap kind[j] = {}
  BY ReferencesAssumption
<1> HIDE DEF kind
<1> QED  BY <1>1, <1>2

LEMMA NodesFinite == IsFiniteSet(Node)
<1>1. Len(Order) \in Nat /\ DOMAIN Order = 1..Len(Order) /\ Range(Order) = Node
      /\ Order \in [1..Len(Order) -> Node]
  BY ReferencesAssumption
<1>2. IsFiniteSet(1..Len(Order))
  BY <1>1, FS_Interval
<1>3. Order \in Surjection(1..Len(Order), Node)
  BY <1>1 DEF Surjection, Range
<1> QED  BY <1>2, <1>3, FS_Surjection

\* Each node has a place of its own in the index
LEMMA PlaceIs ==
  ASSUME NEW n \in Node
  PROVE  Place(n) \in Nat /\ Order[Place(n)] = n
<1>1. \E k \in DOMAIN Order : Order[k] = n
  BY ReferencesAssumption DEF Range
<1>2. DOMAIN Order \subseteq Nat
  <2>1. DOMAIN Order = 1..Len(Order) /\ Len(Order) \in Nat
    BY ReferencesAssumption
  <2> QED  BY <2>1
<1> QED  BY <1>1, <1>2 DEF Place

\* The index lists just the nodes of a set
LEMMA InOrderIs ==
  ASSUME NEW S \in SUBSET Node
  PROVE  InOrder(S) \in Seq(S) /\ Range(InOrder(S)) = S
<1> DEFINE N == Cardinality(S)
           Before(n) == {m \in S : Place(m) < Place(n)}
           b == [n \in S |-> Cardinality(Before(n))]
<1>1. IsFiniteSet(S) /\ N \in Nat
  BY NodesFinite, FS_Subset, FS_CardinalityType
<1>2. \A n \in S : IsFiniteSet(Before(n)) /\ b[n] \in 0..N - 1
  <2> TAKE n \in S
  <2>1. Before(n) \subseteq S \ {n}
    BY PlaceIs
  <2>2. IsFiniteSet(S \ {n}) /\ Cardinality(S \ {n}) = N - 1
    BY <1>1, FS_RemoveElement
  <2>3. IsFiniteSet(Before(n)) /\ Cardinality(Before(n)) <= N - 1
    BY <2>1, <2>2, FS_Subset
  <2> QED  BY <1>1, <2>3, FS_CardinalityType
<1>3. ASSUME NEW m \in S, NEW n \in S, Place(m) < Place(n) PROVE b[m] # b[n]
  <2>1. Before(m) \subseteq Before(n) /\ m \in Before(n) /\ m \notin Before(m)
    BY <1>3, PlaceIs
  <2> QED  BY <1>2, <2>1, FS_Subset
<1>4. \A m, n \in S : b[m] = b[n] => m = n
  <2> TAKE m, n \in S
  <2>1. Place(m) \in Nat /\ Place(n) \in Nat
    BY PlaceIs
  <2>2. Place(m) = Place(n) => m = n
    BY PlaceIs
  <2> HIDE DEF b
  <2> QED  BY <1>3, <2>1, <2>2
<1>5. \A k \in 0..N - 1 : \E n \in S : b[n] = k
  <2>1. b \in [S -> 0..N - 1]
    BY <1>2
  <2> HIDE DEF b
  <2>2. b \in Injection(S, 0..N - 1)
    BY <1>4, <2>1 DEF Injection, IsInjective
  <2>3. IsFiniteSet(0..N - 1) /\ Cardinality(0..N - 1) = N
    <3>1. IsFiniteSet(0..N - 1) /\ Cardinality(0..N - 1) = IF 0 > N - 1 THEN 0 ELSE (N - 1) - 0 + 1
      BY <1>1, FS_Interval
    <3> QED  BY <1>1, <3>1
  <2>4. b \in Surjection(S, 0..N - 1)
    BY <1>1, <2>2, <2>3, FS_Injection DEF Bijection
  <2> QED  BY <2>4 DEF Surjection
<1>6. InOrder(S) = [k \in 1..N |-> CHOOSE n \in S : Cardinality(Before(n)) = k - 1]
  BY DEF InOrder
<1>7. \A k \in 1..N : k - 1 \in 0..N - 1
  BY <1>1
<1>8. \A k \in 1..N : InOrder(S)[k] \in S /\ b[InOrder(S)[k]] = k - 1
  <2> TAKE k \in 1..N
  <2>1. \A n \in S : b[n] = Cardinality(Before(n))
    OBVIOUS
  <2> HIDE DEF b, Before
  <2>2. PICK n \in S : Cardinality(Before(n)) = k - 1
    BY <1>5, <1>7, <2>1
  <2>3. InOrder(S)[k] = CHOOSE m \in S : Cardinality(Before(m)) = k - 1
    BY <1>6
  <2> QED  BY <2>1, <2>2, <2>3
<1> HIDE DEF b, Before
<1>9. InOrder(S) \in Seq(S) /\ DOMAIN InOrder(S) = 1..N
  BY <1>1, <1>6, <1>8
<1>10. ASSUME NEW n \in S PROVE n \in Range(InOrder(S))
  <2>0. b[n] \in 0..N - 1
    BY <1>2
  <2>1. b[n] + 1 \in 1..N /\ (b[n] + 1) - 1 = b[n]
    BY <1>1, <2>0
  <2>2. InOrder(S)[b[n] + 1] = n
    BY <1>4, <1>8, <2>1
  <2> QED  BY <1>9, <2>1, <2>2 DEF Range
<1> QED  BY <1>8, <1>9, <1>10 DEF Range

\* A set walked in whatever order: each of its nodes, and no other
LEMMA AnyOrderIs ==
  ASSUME NEW S \in SUBSET Node, NEW s \in SetToSeqs(S)
  PROVE  /\ s \in Seq(Node) /\ Range(s) = S
         /\ \A i, k \in DOMAIN s : s[i] = s[k] => i = k
<1> DEFINE D == 1..Cardinality(S)
<1>1. IsFiniteSet(S) /\ Cardinality(S) \in Nat
  BY NodesFinite, FS_Subset, FS_CardinalityType
<1>2. s \in [D -> S] /\ \A i, k \in D : i # k => s[i] # s[k]
  BY DEF SetToSeqs
<1>3. IsFiniteSet(D) /\ Cardinality(D) = Cardinality(S)
  <2>1. IsFiniteSet(D) /\ Cardinality(D) = IF 1 > Cardinality(S) THEN 0 ELSE Cardinality(S) - 1 + 1
    BY <1>1, FS_Interval
  <2> QED  BY <1>1, <2>1
<1>4. s \in Injection(D, S)
  <2> HIDE DEF D
  <2> QED  BY <1>2 DEF Injection, IsInjective
<1>5. s \in Surjection(D, S)
  BY <1>1, <1>3, <1>4, FS_Injection
<1>6. Range(s) = S /\ DOMAIN s = D
  <2> HIDE DEF D
  <2> QED  BY <1>2, <1>5 DEF Surjection, Range
<1>7. s \in Seq(Node)
  BY <1>1, <1>2
<1> QED  BY <1>2, <1>6, <1>7

-----------------------------------------------------------------------------
(* Redirects: when the files refer to R and the index knows B *)

HopIn(R, B, n) == IF n \in Tag \cap B /\ R[n] \cap B # {} THEN CHOOSE m \in R[n] : TRUE ELSE n

CanonIn(R, B, n) ==
  LET walk[k \in 0..Cardinality(Tag)] == IF k = 0 THEN n ELSE HopIn(R, B, walk[k - 1])
      end == walk[Cardinality(Tag)]
  IN  IF HopIn(R, B, end) = end THEN end ELSE n

LEMMA CanonIs ==
  ASSUME NEW n
  PROVE  Canonical(n) = CanonIn(refs, ById, n) /\ Canonical(n)' = CanonIn(refs', ById', n)
<1>1. Canonical(n) = CanonIn(refs, ById, n)
  BY DEF Canonical, CanonIn, Hop, HopIn
<1>2. Canonical(n)' = CanonIn(refs', ById', n)
  BY DEF Canonical, CanonIn, Hop, HopIn
<1> QED  BY <1>1, <1>2

\* The walk along redirects, and where it leads
Walks(R, B, w, n) ==
  w = [k \in 0..Cardinality(Tag) |-> IF k = 0 THEN n ELSE HopIn(R, B, w[k - 1])]

TagCount == Cardinality(Tag)

LEMMA TagsFinite == IsFiniteSet(Tag) /\ TagCount \in Nat
BY NodesFinite, FS_Subset, FS_CardinalityType DEF Node, TagCount

LEMMA WalkIs ==
  ASSUME NEW R, NEW B, NEW n
  PROVE  \E w : /\ Walks(R, B, w, n)
                /\ CanonIn(R, B, n) = IF HopIn(R, B, w[TagCount]) = w[TagCount] THEN w[TagCount] ELSE n
<1> DEFINE Is(c, k) == c = [i \in 0..k |-> IF i = 0 THEN n ELSE HopIn(R, B, c[i - 1])]
           Good(k) == \E c : Is(c, k)
           Bad == {k \in Nat : ~Good(k)}
<1>1. Good(0)
  <2>1. Is([i \in 0..0 |-> n], 0)
    OBVIOUS
  <2> QED  BY <2>1
<1>2. ASSUME NEW k \in Nat \ {0}, Good(k - 1) PROVE Good(k)
  <2>1. PICK c : Is(c, k - 1)
    BY <1>2
  <2> DEFINE d == [i \in 0..k |-> IF i = k THEN HopIn(R, B, c[k - 1]) ELSE c[i]]
  <2>2. \A i \in 0..k : d[i] = IF i = 0 THEN n ELSE HopIn(R, B, d[i - 1])
    <3> TAKE i \in 0..k
    <3>1. CASE i = 0
      BY <2>1, <3>1
    <3>2. CASE i # 0
      <4>1. i - 1 \in 0..k - 1 /\ i - 1 # k /\ i - 1 \in 0..k
        BY <3>2
      <4>2. d[i - 1] = c[i - 1]
        BY <4>1
      <4>3. CASE i = k
        BY <3>2, <4>2, <4>3
      <4>4. CASE i # k
        <5>1. i \in 0..k - 1
          BY <4>4
        <5>2. c[i] = HopIn(R, B, c[i - 1])
          BY <2>1, <3>2, <5>1
        <5> QED  BY <3>2, <4>2, <4>4, <5>2
      <4> QED  BY <4>3, <4>4
    <3> QED  BY <3>1, <3>2
  <2>3. d = [i \in 0..k |-> d[i]]
    OBVIOUS
  <2> HIDE DEF d
  <2>4. Is(d, k)
    BY <2>2, <2>3
  <2> QED  BY <2>4
<1>3. Good(TagCount)
  <2>1. CASE Bad = {}
    BY <2>1, TagsFinite
  <2>2. CASE Bad # {}
    <3> HIDE DEF Good
    <3>1. PICK k \in Bad : \A y \in Bad : k <= y
      BY <2>2, Least
    <3>2. k # 0
      BY <1>1
    <3>3. k - 1 \in Nat /\ k - 1 \notin Bad
      BY <3>1, <3>2
    <3> QED  BY <1>2, <3>2, <3>3
  <2> QED  BY <2>1, <2>2
<1> DEFINE walk[k \in 0..Cardinality(Tag)] == IF k = 0 THEN n ELSE HopIn(R, B, walk[k - 1])
<1>4. walk = CHOOSE c : Is(c, TagCount)
  BY DEF TagCount
<1>5. CanonIn(R, B, n) = IF HopIn(R, B, walk[TagCount]) = walk[TagCount] THEN walk[TagCount] ELSE n
  BY DEF CanonIn, TagCount
<1> HIDE DEF walk
<1>6. Is(walk, TagCount)
  BY <1>3, <1>4
<1>7. Walks(R, B, walk, n)
  BY <1>6 DEF Walks, TagCount
<1> QED  BY <1>5, <1>7

\* A walk is where it starts first, and takes a hop at each step
LEMMA WalkSteps ==
  ASSUME NEW R, NEW B, NEW n, NEW w, Walks(R, B, w, n)
  PROVE  w[0] = n /\ \A k \in 1..TagCount : w[k] = HopIn(R, B, w[k - 1])
BY TagsFinite DEF Walks, TagCount

\* What every hop stays in, a walk stays in
LEMMA WalkStays ==
  ASSUME NEW R, NEW B, NEW P, NEW n \in P, \A x \in P : HopIn(R, B, x) \in P, NEW w, Walks(R, B, w, n)
  PROVE  \A k \in 0..TagCount : w[k] \in P
<1> DEFINE Bad == {k \in 0..TagCount : w[k] \notin P}
<1>1. CASE Bad = {}
  BY <1>1
<1>2. CASE Bad # {}
  <2>1. PICK k \in Bad : \A y \in Bad : k <= y
    <3>1. Bad \subseteq Nat
      BY TagsFinite
    <3> HIDE DEF Bad
    <3> QED  BY <1>2, <3>1, Least
  <2>2. k # 0
    BY WalkSteps
  <2>3. k \in 1..TagCount /\ k - 1 \in 0..TagCount /\ k - 1 \notin Bad
    BY <2>1, <2>2, TagsFinite
  <2>4. w[k - 1] \in P
    BY <2>3
  <2>5. w[k] \in P
    BY <2>3, <2>4, WalkSteps
  <2> QED  BY <2>5
<1> QED  BY <1>1, <1>2

LEMMA CanonicalStays ==
  ASSUME NEW R, NEW B, NEW P, NEW n \in P, \A x \in P : HopIn(R, B, x) \in P
  PROVE  CanonIn(R, B, n) \in P
<1>1. PICK w : Walks(R, B, w, n)
        /\ CanonIn(R, B, n) = IF HopIn(R, B, w[TagCount]) = w[TagCount] THEN w[TagCount] ELSE n
  BY WalkIs
<1>2. TagCount \in 0..TagCount
  BY TagsFinite
<1> QED  BY <1>1, <1>2, WalkStays

\* Tags refer to one tag each, and not in a circle
OneTagEach(f) ==
  /\ \A a \in Tag : f[a] \subseteq Tag /\ \A r, s \in f[a] : r = s
  /\ NoCycle(f)

\* A hop leads to what the tag refers to, and to what the index knows
LEMMA HopIs ==
  ASSUME NEW R, NEW B, OneTagEach(R), NEW n, HopIn(R, B, n) # n
  PROVE  n \in Tag /\ HopIn(R, B, n) \in R[n] /\ HopIn(R, B, n) \in B /\ HopIn(R, B, n) \in Tag
<1>1. n \in Tag \cap B /\ R[n] \cap B # {} /\ HopIn(R, B, n) = CHOOSE m \in R[n] : TRUE
  BY DEF HopIn
<1>2. PICK m \in R[n] : m \in B
  BY <1>1
<1>3. HopIn(R, B, n) \in R[n]
  BY <1>1, <1>2
<1> QED  BY <1>1, <1>2, <1>3 DEF OneTagEach

LEMMA CanonicalKnown ==
  ASSUME NEW R, NEW B, OneTagEach(R), NEW n \in B
  PROVE  CanonIn(R, B, n) \in B
<1>1. \A x \in B : HopIn(R, B, x) \in B
  BY HopIs
<1> QED  BY <1>1, CanonicalStays

LEMMA CanonicalTag ==
  ASSUME NEW R, NEW B, OneTagEach(R), NEW n \in Tag
  PROVE  CanonIn(R, B, n) \in Tag
<1>1. \A x \in Tag : HopIn(R, B, x) \in Tag
  BY HopIs
<1> QED  BY <1>1, CanonicalStays

\* A survivor of other kind than chat
LEMMA CanonicalType ==
  ASSUME NEW R, NEW B, OneTagEach(R), NEW n \in Node \ Chat
  PROVE  CanonIn(R, B, n) \in Node \ Chat
<1>1. \A x \in Node \ Chat : HopIn(R, B, x) \in Node \ Chat
  BY KindsApart, HopIs DEF Node
<1> QED  BY <1>1, CanonicalStays

\* A walk that has come to its end stays there
LEMMA WalkEnds ==
  ASSUME NEW R, NEW B, NEW n, NEW w, Walks(R, B, w, n), NEW i \in 0..TagCount, HopIn(R, B, w[i]) = w[i]
  PROVE  w[TagCount] = w[i]
<1> DEFINE Bad == {k \in i..TagCount : w[k] # w[i]}
<1>1. CASE Bad = {}
  BY <1>1, TagsFinite
<1>2. CASE Bad # {}
  <2>1. PICK k \in Bad : \A y \in Bad : k <= y
    <3>1. Bad \subseteq Nat
      BY TagsFinite
    <3> HIDE DEF Bad
    <3> QED  BY <1>2, <3>1, Least
  <2>2. k # i
    OBVIOUS
  <2>3. k \in 1..TagCount /\ k - 1 \in i..TagCount /\ k - 1 \notin Bad
    BY <2>1, <2>2, TagsFinite
  <2>4. w[k - 1] = w[i]
    BY <2>3
  <2>5. w[k] = w[i]
    BY <2>3, <2>4, WalkSteps
  <2> QED  BY <2>5
<1> QED  BY <1>1, <1>2

\* The survivor of a tag is not redirected itself
LEMMA CanonicalEnds ==
  ASSUME NEW R, NEW B, OneTagEach(R), NEW n \in Tag
  PROVE  HopIn(R, B, CanonIn(R, B, n)) = CanonIn(R, B, n)
<1>1. PICK w : Walks(R, B, w, n)
        /\ CanonIn(R, B, n) = IF HopIn(R, B, w[TagCount]) = w[TagCount] THEN w[TagCount] ELSE n
  BY WalkIs
<1>2. TagCount \in 0..TagCount
  BY TagsFinite
<1>3. HopIn(R, B, w[TagCount]) = w[TagCount]
  <2> SUFFICES ASSUME HopIn(R, B, w[TagCount]) # w[TagCount] PROVE FALSE
    OBVIOUS
  <2>1. \A k \in 0..TagCount : HopIn(R, B, w[k]) # w[k]
    BY <1>1, WalkEnds
  <2>2. \A k \in 0..TagCount : w[k] \in Tag
    <3>1. \A x \in Tag : HopIn(R, B, x) \in Tag
      BY HopIs
    <3> QED  BY <1>1, <3>1, WalkStays
  <2>3. w \in [0..TagCount -> Tag]
    <3>1. w = [k \in 0..TagCount |-> w[k]]
      BY <1>1 DEF Walks, TagCount
    <3> QED  BY <2>2, <3>1
  <2>4. \E i, j \in 0..TagCount : i < j /\ w[i] = w[j]
    <3>1. IsFiniteSet(0..TagCount) /\ Cardinality(0..TagCount) = TagCount + 1
      <4>1. IsFiniteSet(0..TagCount)
            /\ Cardinality(0..TagCount) = IF 0 > TagCount THEN 0 ELSE TagCount - 0 + 1
        BY TagsFinite, FS_Interval
      <4> QED  BY <4>1, TagsFinite
    <3>2. Cardinality(Tag) < Cardinality(0..TagCount)
      BY <3>1, TagsFinite DEF TagCount
    <3>3. PICK i, j \in 0..TagCount : i # j /\ w[i] = w[j]
      BY <2>3, <3>1, <3>2, TagsFinite, FS_PigeonHole
    <3>4. i < j \/ j < i
      BY <3>3, TagsFinite
    <3> QED  BY <3>3, <3>4
  <2>5. PICK i, j \in 0..TagCount : i < j /\ w[i] = w[j]
    BY <2>4
  <2> DEFINE C == {w[k] : k \in i..j - 1}
  <2>6. C \in SUBSET Tag /\ C # {}
    <3>1. i \in i..j - 1 /\ i..j - 1 \subseteq 0..TagCount
      BY <2>5, TagsFinite
    <3> QED  BY <2>2, <3>1
  <2>7. \A k \in i..j - 1 : R[w[k]] \cap C # {}
    <3> TAKE k \in i..j - 1
    <3>1. k \in 0..TagCount /\ k + 1 \in 1..TagCount /\ (k + 1) - 1 = k
      BY <2>5, TagsFinite
    <3>2. w[k + 1] = HopIn(R, B, w[k])
      BY <1>1, <3>1, WalkSteps
    <3>3. w[k + 1] \in R[w[k]]
      BY <2>1, <3>1, <3>2, HopIs
    <3>4. w[k + 1] \in C
      <4>1. CASE k + 1 = j
        <5>1. i \in i..j - 1
          BY <2>5, TagsFinite
        <5> QED  BY <2>5, <4>1, <5>1
      <4>2. CASE k + 1 # j
        <5>1. k + 1 \in i..j - 1
          BY <2>5, <4>2, TagsFinite
        <5> QED  BY <5>1
      <4> QED  BY <4>1, <4>2
    <3> QED  BY <3>3, <3>4
  <2>8. PICK a \in C : R[a] \cap C = {}
    <3> HIDE DEF C
    <3> QED  BY <2>6 DEF OneTagEach, NoCycle
  <2> QED  BY <2>7, <2>8
<1> QED  BY <1>1, <1>3

\* No tag refers to itself
LEMMA NoSelf ==
  ASSUME NEW R, OneTagEach(R), NEW a \in Tag
  PROVE  a \notin R[a]
<1>1. {a} \in SUBSET Tag /\ {a} # {}
  OBVIOUS
<1>2. PICK b \in {a} : R[b] \cap {a} = {}
  BY <1>1 DEF OneTagEach, NoCycle
<1> QED  BY <1>2

\* A survivor refers to nothing the index knows
LEMMA SurvivorIsFree ==
  ASSUME NEW R, NEW B, OneTagEach(R), NEW n \in Tag \cap B
  PROVE  R[CanonIn(R, B, n)] \cap B = {}
<1>1. CanonIn(R, B, n) \in Tag \cap B /\ HopIn(R, B, CanonIn(R, B, n)) = CanonIn(R, B, n)
  BY CanonicalKnown, CanonicalTag, CanonicalEnds
<1> DEFINE c == CanonIn(R, B, n)
<1> HIDE DEF c
<1>2. SUFFICES ASSUME R[c] \cap B # {} PROVE FALSE
  BY DEF c
<1>3. HopIn(R, B, c) = CHOOSE m \in R[c] : TRUE
  BY <1>1, <1>2 DEF HopIn, c
<1>4. c \in R[c]
  BY <1>1, <1>2, <1>3 DEF c
<1> QED  BY <1>1, <1>4, NoSelf DEF c

\* What readers take a node for
LEMMA SurvivorIs ==
  ASSUME OneTagEach(refs), NEW n
  PROVE  /\ n \in ById => Canonical(n) \in ById
         /\ n \in Tag => Canonical(n) \in Tag
         /\ n \in Node \ Chat => Canonical(n) \in Node \ Chat
         /\ n \in Tag \cap ById => refs[Canonical(n)] \cap ById = {}
<1>1. Canonical(n) = CanonIn(refs, ById, n)
  BY CanonIs
<1>2. n \in ById => CanonIn(refs, ById, n) \in ById
  BY CanonicalKnown
<1>3. n \in Tag => CanonIn(refs, ById, n) \in Tag
  BY CanonicalTag
<1>4. n \in Node \ Chat => CanonIn(refs, ById, n) \in Node \ Chat
  BY CanonicalType
<1>5. n \in Tag \cap ById => refs[CanonIn(refs, ById, n)] \cap ById = {}
  BY SurvivorIsFree
<1> QED  BY <1>1, <1>2, <1>3, <1>4, <1>5

-----------------------------------------------------------------------------
(* The invariant.  Under way, what leads nowhere is owed: some delete has   *)
(* yet to come by.  A delete that unlinks owes all that refers to its      *)
(* nodes; a sweep owes the files it has yet to visit.  Nobody owes what     *)
(* hangs on a node that an ancestor layer holds as well.                    *)

Held == live \cup above

Jobs ==
  [stage : {"idle", "unlink", "redirect", "sweep"}, target : Node \cup {Nil},
   into : Tag \cup {Nil}, ids : SUBSET Node, files : Seq(Node), todo : Seq(Node),
   at : Node \cup {Nil}, cleaned : SUBSET (Node \ Chat)]

Shapes ==
  /\ live \subseteq Node /\ above \subseteq Entity /\ bad \subseteq live \cap Scene
  /\ refs \in [Node -> SUBSET (Node \ Chat)]
  /\ job \in [Thread -> Jobs]

\* A request between two of its steps, when the files L are there and refer to R
Idles(j) ==
  j.stage = "idle" => j.target = Nil /\ j.into = Nil /\ j.at = Nil /\ j.files = <<>>
Unlinks(j, L) ==
  j.stage = "unlink" => /\ j.into = Nil /\ j.at = Nil
                        /\ Range(j.files) \subseteq j.ids
                        /\ j.ids \cap L \subseteq Range(j.files)
Purges(j, L) ==
  j.stage = "sweep" /\ j.into = Nil =>
    /\ Range(j.files) \subseteq MutationSet \cup Chat
    /\ Range(j.files) \ Chat \subseteq j.ids
    /\ j.files # <<>> => L \subseteq Range(j.files) \cup Range(j.todo)
    /\ \A c \in Chat \cap L : Subject[c] \in j.ids => c \in Range(j.files)
Merges(j, L, R) ==
  /\ j.stage = "redirect" => j.into # Nil
  /\ j.into # Nil => /\ j.target \in Tag /\ j.into \in Tag \cap L /\ j.into # j.target
                     /\ R[j.into] = {} /\ j.files = <<>>
Reads(j, R) ==
  j.at # Nil => /\ j.stage = "sweep" /\ j.files = <<>>
                /\ j.cleaned = Swept(j, R[j.at])
                /\ j.at \in Tag => j.target \in Tag

JobOK(j, L, R) ==
  /\ Idles(j) /\ Unlinks(j, L) /\ Purges(j, L) /\ Merges(j, L, R) /\ Reads(j, R)
  /\ j.target \notin Tag => j.ids \cap Tag = {}

\* Two requests that may not go side by side
Apart(j, k) ==
  /\ ~(j.target \in Tag /\ k.target \in Tag)
  /\ j.at # Nil => j.at # k.at

\* Request j has yet to take the reference from x to r away
Owes(j, x, r) ==
  /\ j.into = Nil /\ r \in j.ids
  /\ \/ j.stage = "unlink"
     \/ /\ j.stage = "sweep"
        /\ x \in Range(j.files) \/ x \in Range(j.todo) \/ x = j.at

\* Request j has yet to delete x, which hangs on r
Dooms(j, x, r) ==
  /\ j.into = Nil /\ r \in j.ids
  /\ \/ j.stage = "unlink"
     \/ j.stage = "sweep" /\ x \in Range(j.files)

RefsOwed ==
  \A x \in live : \A r \in refs[x] \ Held :
    <<x, r>> \notin late => \E t \in Thread : Owes(job[t], x, r)
PinsOwed ==
  \A s \in MutationSet \cap live : Pin[s] \notin Held => \E t \in Thread : Dooms(job[t], s, Pin[s])
SubjectsOwed ==
  \A c \in Chat \cap live : Subject[c] \notin Held => \E t \in Thread : Dooms(job[t], c, Subject[c])

JobsOK == \A t \in Thread : JobOK(job[t], live, refs)
Alone == \A t, u \in Thread : t # u => Apart(job[t], job[u])

\* The saves between their checks and their writes
SavesOK == saving \in [Scene -> SUBSET SUBSET (Node \ Chat)] /\ late \subseteq Scene \X Node

Base == Shapes /\ JobsOK /\ Alone /\ OneTagEach(refs)
Owed == RefsOwed /\ PinsOwed /\ SubjectsOwed

LeftInv == cut \in BOOLEAN /\ (~cut => Base /\ SavesOK /\ Owed)

-----------------------------------------------------------------------------
LEMMA IdleIs ==
  /\ Idle \in Jobs
  /\ Idle.stage = "idle" /\ Idle.target = Nil /\ Idle.into = Nil /\ Idle.ids = {}
  /\ Idle.files = <<>> /\ Idle.todo = <<>> /\ Idle.at = Nil /\ Idle.cleaned = {}
BY DEF Idle, Jobs

LEMMA NilIs == Nil \notin Node /\ Nil \notin Tag /\ Tag \subseteq Node
BY ReferencesAssumption DEF Node

LEMMA InitLeft == Init => LeftInv
<1> SUFFICES ASSUME Init PROVE LeftInv
  OBVIOUS
<1>1. Shapes
  BY IdleIs, StartAssumption DEF Init, Shapes
<1>2. \A t \in Thread : job[t] = Idle
  BY DEF Init
<1>3. JobsOK
  <2>1. JobOK(Idle, live, refs)
    BY IdleIs DEF JobOK, Idles, Unlinks, Purges, Merges, Reads
  <2> QED  BY <1>2, <2>1 DEF JobsOK
<1>4. Alone
  <2>1. Apart(Idle, Idle)
    BY IdleIs, NilIs DEF Apart
  <2> QED  BY <1>2, <2>1 DEF Alone
<1>5. OneTagEach(refs)
  BY StartAssumption DEF Init, OneTagEach
<1>6. RefsOwed
  BY <1>1 DEF Init, RefsOwed, Held, Shapes
<1>7. PinsOwed /\ SubjectsOwed
  BY ReferencesAssumption DEF Init, PinsOwed, SubjectsOwed, Held, Node
<1>8. SavesOK
  BY DEF Init, SavesOK
<1> QED  BY <1>1, <1>3, <1>4, <1>5, <1>6, <1>7, <1>8 DEF LeftInv, Base, Owed, Init

\* A request stays as it is when the files it has to do with do
LEMMA StaysOK ==
  ASSUME NEW j, NEW L, NEW L2, NEW R, NEW R2, JobOK(j, L, R), L2 \subseteq L,
         j.into # Nil => j.into \in L2 /\ R2[j.into] = {},
         j.at # Nil => R2[j.at] = R[j.at]
  PROVE  JobOK(j, L2, R2)
<1>1. Idles(j) /\ (j.target \notin Tag => j.ids \cap Tag = {})
  BY DEF JobOK
<1>2. Unlinks(j, L2)
  BY DEF JobOK, Unlinks
<1>3. Purges(j, L2)
  BY DEF JobOK, Purges
<1>4. Merges(j, L2, R2)
  BY DEF JobOK, Merges
<1>5. Reads(j, R2)
  BY DEF JobOK, Reads
<1> QED  BY <1>1, <1>2, <1>3, <1>4, <1>5 DEF JobOK

\* A step of request t: what has to be shown of it
LEMMA StepBase ==
  ASSUME Base, NEW t \in Thread, NEW j \in Jobs, job' = [job EXCEPT ![t] = j],
         live' \subseteq live, above' = above, bad' \subseteq live' \cap Scene,
         refs' \in [Node -> SUBSET (Node \ Chat)],
         \A u \in Thread \ {t} : /\ job[u].into # Nil => job[u].into \in live' /\ refs'[job[u].into] = {}
                                 /\ job[u].at # Nil => refs'[job[u].at] = refs[job[u].at],
         \A u \in Thread \ {t} : Apart(j, job[u]) /\ Apart(job[u], j),
         JobOK(j, live', refs'), OneTagEach(refs')
  PROVE  Base'
<1>1. Shapes'
  BY DEF Base, Shapes
<1>2. job \in [Thread -> Jobs] /\ job'[t] = j /\ \A u \in Thread \ {t} : job'[u] = job[u]
  BY DEF Base, Shapes
<1>3. JobsOK'
  <2>1. ASSUME NEW u \in Thread \ {t} PROVE JobOK(job[u], live', refs')
    <3>1. JobOK(job[u], live, refs)
      BY DEF Base, JobsOK
    <3> QED  BY <3>1, StaysOK
  <2>2. \A u \in Thread : JobOK(job'[u], live', refs')
    BY <1>2, <2>1
  <2> QED  BY <2>2 DEF JobsOK
<1>4. Alone'
  <2>1. \A u, v \in Thread : u # v => Apart(job'[u], job'[v])
    BY <1>2 DEF Base, Alone
  <2> QED  BY <2>1 DEF Alone
<1> QED  BY <1>1, <1>3, <1>4 DEF Base

\* What a step of request t may leave owed
LEMMA StepOwed ==
  ASSUME Base, Owed, NEW t \in Thread, NEW j, job' = [job EXCEPT ![t] = j], live' \subseteq live,
         \A x \in live' : \A r \in refs'[x] : r \in refs[x] \/ r \in Held',
         \A x \in live' : \A r \in refs'[x] \ Held' :
            r \in live \/ Owes(job[t], x, r) => Owes(j, x, r),
         \A s \in MutationSet \cap live' : Pin[s] \notin Held' =>
            (Pin[s] \in live \/ Dooms(job[t], s, Pin[s]) => Dooms(j, s, Pin[s])),
         \A c \in Chat \cap live' : Subject[c] \notin Held' =>
            (Subject[c] \in live \/ Dooms(job[t], c, Subject[c]) => Dooms(j, c, Subject[c])),
         above' = above, late' = late
  PROVE  Owed'
<1>1. job \in [Thread -> Jobs] /\ job'[t] = j /\ \A u \in Thread \ {t} : job'[u] = job[u]
  BY DEF Base, Shapes
<1>2. RefsOwed'
  <2>1. ASSUME NEW x \in live', NEW r \in refs'[x], r \notin Held', <<x, r>> \notin late'
        PROVE  \E u \in Thread : Owes(job'[u], x, r)
    <3>1. r \in refs[x] /\ x \in live
      BY <2>1
    <3>2. CASE r \in live
      BY <1>1, <2>1, <3>2
    <3>3. CASE r \notin live
      <4>1. r \notin Held
        BY <2>1, <3>3 DEF Held
      <4>2. PICK u \in Thread : Owes(job[u], x, r)
        BY <2>1, <3>1, <4>1 DEF Owed, RefsOwed
      <4> QED  BY <1>1, <2>1, <4>2
    <3> QED  BY <3>2, <3>3
  <2> QED  BY <2>1 DEF RefsOwed
<1>3. PinsOwed'
  <2>1. ASSUME NEW s \in MutationSet \cap live', Pin[s] \notin Held'
        PROVE  \E u \in Thread : Dooms(job'[u], s, Pin[s])
    <3>1. CASE Pin[s] \in live
      BY <1>1, <2>1, <3>1
    <3>2. CASE Pin[s] \notin live
      <4>1. Pin[s] \notin Held
        BY <2>1, <3>2 DEF Held
      <4>2. PICK u \in Thread : Dooms(job[u], s, Pin[s])
        BY <4>1 DEF Owed, PinsOwed
      <4> QED  BY <1>1, <2>1, <4>2
    <3> QED  BY <3>1, <3>2
  <2> QED  BY <2>1 DEF PinsOwed
<1>4. SubjectsOwed'
  <2>1. ASSUME NEW c \in Chat \cap live', Subject[c] \notin Held'
        PROVE  \E u \in Thread : Dooms(job'[u], c, Subject[c])
    <3>1. CASE Subject[c] \in live
      BY <1>1, <2>1, <3>1
    <3>2. CASE Subject[c] \notin live
      <4>1. Subject[c] \notin Held
        BY <2>1, <3>2 DEF Held
      <4>2. PICK u \in Thread : Dooms(job[u], c, Subject[c])
        BY <4>1 DEF Owed, SubjectsOwed
      <4> QED  BY <1>1, <2>1, <4>2
    <3> QED  BY <3>1, <3>2
  <2> QED  BY <2>1 DEF SubjectsOwed
<1> QED  BY <1>2, <1>3, <1>4 DEF Owed


\* A request that is done, or has not begun, is at nothing
LEMMA DoneIs ==
  ASSUME NEW L, NEW R, NEW k
  PROVE  /\ JobOK(Idle, L, R) /\ Apart(Idle, k) /\ Apart(k, Idle)
         /\ \A x, r : ~Owes(Idle, x, r) /\ ~Dooms(Idle, x, r)
<1>1. JobOK(Idle, L, R)
  BY IdleIs DEF JobOK, Idles, Unlinks, Purges, Merges, Reads
<1>2. Apart(Idle, k) /\ Apart(k, Idle)
  BY IdleIs, NilIs DEF Apart
<1>3. \A x, r : ~Owes(Idle, x, r) /\ ~Dooms(Idle, x, r)
  BY IdleIs DEF Owes, Dooms
<1> QED  BY <1>1, <1>2, <1>3

\* A request that takes on nothing while the files stay as they are
LEMMA OthersStay ==
  ASSUME Base, NEW t \in Thread, UNCHANGED <<live, refs>>
  PROVE  \A u \in Thread \ {t} :
           /\ job[u].into # Nil => job[u].into \in live' /\ refs'[job[u].into] = {}
           /\ job[u].at # Nil => refs'[job[u].at] = refs[job[u].at]
BY DEF Base, JobsOK, JobOK, Merges

\* A list with one more node at its end
LEMMA OneMore ==
  ASSUME NEW s \in Seq(Node), NEW n \in Node
  PROVE  s \o <<n>> \in Seq(Node) /\ Range(s \o <<n>>) = Range(s) \cup {n}
<1> DEFINE u == <<n>>
<1>1. u \in Seq(Node) /\ Range(u) = {n}
  <2>1. u \in Seq(Node) /\ DOMAIN u = 1..1 /\ u[1] = n
    OBVIOUS
  <2> HIDE DEF u
  <2> QED  BY <2>1 DEF Range
<1> HIDE DEF u
<1>2. s \o u \in Seq(Node) /\ Range(s \o u) = Range(s) \cup {n}
  BY <1>1, ListsTogether
<1> QED  BY <1>2 DEF u

\* A delete begins
LEMMA StartDeleteLeft ==
  ASSUME Base, ~TagRace, NEW t \in Thread,
         NEW n \in Tag \cup Entity \cup MutationSet \cup Scene, StartDelete(t, n)
  PROVE  Base' /\ (Owed => Owed')
<1>1. n \in Node /\ Nil \notin Tag
  BY NilIs DEF Node
<1> DEFINE set == Along(n) \cup {n}
<1>0. Along(n) \in SUBSET Node /\ (n \notin Tag => Along(n) = {})
  BY DEF Base, Shapes, Along
<1> PICK along \in SetToSeqs(Along(n)) :
       Take(t, [Idle EXCEPT !.stage = "unlink", !.target = n,
                            !.files = along \o <<n>>, !.ids = set])
  BY DEF StartDelete
<1> DEFINE files == along \o <<n>>
           j == [Idle EXCEPT !.stage = "unlink", !.target = n, !.files = files, !.ids = set]
<1>2. /\ j.stage = "unlink" /\ j.target = n /\ j.into = Nil /\ j.at = Nil
      /\ j.files = files /\ j.ids = set
  BY DEF Idle
<1>3. j \in Jobs /\ Range(files) = set
  <2>1. along \in Seq(Node) /\ Range(along) = Along(n)
    BY <1>0, AnyOrderIs
  <2>2. files \in Seq(Node) /\ Range(files) = set
    BY <1>1, <2>1, OneMore
  <2>3. set \in SUBSET Node
    BY <1>0, <1>1
  <2> HIDE DEF files, set
  <2> QED  BY <1>1, <2>2, <2>3, IdleIs DEF Jobs
<1>4. job' = [job EXCEPT ![t] = j] /\ job[t] = Idle
      /\ UNCHANGED <<live, above, bad, refs, late>>
  BY DEF Take
<1>5. n \in Tag => \A u \in Thread : job[u].target \notin Tag
  BY DEF StartDelete, TagAtWork
<1> HIDE DEF j, files
<1>6. JobOK(j, live, refs)
  <2>1. j.target \notin Tag => j.ids \cap Tag = {}
    BY <1>0, <1>2
  <2> QED  BY <1>2, <1>3, <2>1 DEF JobOK, Idles, Unlinks, Purges, Merges, Reads
<1>7. \A u \in Thread \ {t} : Apart(j, job[u]) /\ Apart(job[u], j)
  BY <1>2, <1>5 DEF Apart
<1>8. \A x, r : ~Owes(job[t], x, r) /\ ~Dooms(job[t], x, r)
  BY <1>4, DoneIs
<1>9. live' = live /\ refs' = refs /\ above' = above /\ bad' = bad /\ Held' = Held /\ late' = late
  BY <1>4 DEF Held
<1>10. Shapes /\ OneTagEach(refs)
  BY DEF Base
<1>11. \A r : r \in live => r \in Held'
  BY <1>9 DEF Held
<1>12. JobOK(j, live', refs') /\ OneTagEach(refs')
  BY <1>6, <1>9, <1>10
<1>13. Base'
  BY <1>3, <1>4, <1>7, <1>9, <1>10, <1>12, OthersStay, StepBase DEF Shapes
<1>14. Owed => Owed'
  BY <1>4, <1>8, <1>9, <1>11, StepOwed
<1> QED  BY <1>13, <1>14

\* A merge begins
LEMMA StartMergeLeft ==
  ASSUME Base, ~TagRace, NEW t \in Thread, NEW a \in Tag, NEW b \in Tag, StartMerge(t, a, b),
         refs[Canonical(b)] = {}
  PROVE  Base' /\ (Owed => Owed')
<1>1. a \in Node /\ Nil \notin Tag
  BY NilIs
<1> DEFINE c == Canonical(b)
<1> HIDE DEF c
<1> DEFINE j == [Idle EXCEPT !.stage = "redirect", !.target = a, !.into = c]
<1>2. /\ j.stage = "redirect" /\ j.target = a /\ j.into = c /\ j.at = Nil
      /\ j.files = <<>> /\ j.ids = {}
  BY DEF Idle
<1>3. job' = [job EXCEPT ![t] = j] /\ job[t] = Idle
      /\ UNCHANGED <<live, above, bad, refs, late>>
  BY DEF StartMerge, Take, c
<1>4. b \in ById /\ a # c /\ \A u \in Thread : job[u].target \notin Tag
  BY DEF StartMerge, TagAtWork, c
<1>5. Shapes /\ OneTagEach(refs)
  BY DEF Base
<1>6. c \in Tag \cap ById /\ refs[c] = {}
  BY <1>4, <1>5, SurvivorIs DEF c
<1>7. c \in live
  BY <1>5, <1>6, KindsApart DEF ById, Shapes
<1>8. j \in Jobs
  BY <1>1, <1>6, IdleIs DEF Jobs
<1> HIDE DEF j
<1>9. JobOK(j, live, refs)
  <2>1. Idles(j) /\ Unlinks(j, live) /\ Purges(j, live) /\ Reads(j, refs)
    BY <1>2 DEF Idles, Unlinks, Purges, Reads
  <2>2. Merges(j, live, refs)
    BY <1>1, <1>2, <1>4, <1>6, <1>7 DEF Merges
  <2> QED  BY <1>2, <2>1, <2>2 DEF JobOK
<1>10. \A u \in Thread \ {t} : Apart(j, job[u]) /\ Apart(job[u], j)
  BY <1>2, <1>4 DEF Apart
<1>11. \A x, r : ~Owes(job[t], x, r) /\ ~Dooms(job[t], x, r)
  BY <1>3, DoneIs
<1>12. live' = live /\ refs' = refs /\ above' = above /\ bad' = bad /\ Held' = Held /\ late' = late
  BY <1>3 DEF Held
<1>13. \A r : r \in live => r \in Held'
  BY <1>12 DEF Held
<1>14. JobOK(j, live', refs') /\ OneTagEach(refs')
  BY <1>5, <1>9, <1>12
<1>15. Base'
  BY <1>3, <1>5, <1>8, <1>10, <1>12, <1>14, OthersStay, StepBase DEF Shapes
<1>16. Owed => Owed'
  BY <1>3, <1>11, <1>12, <1>13, StepOwed
<1> QED  BY <1>15, <1>16

\* Tags that are merged into a tag that leads nowhere make no circle
LEMMA MergeMakesNoCycle ==
  ASSUME NEW f, NEW g, OneTagEach(f), NEW c \in Tag, f[c] = {}, NEW a \in Tag, a # c,
         \A b \in Tag : g[b] = f[b] \/ (b = a /\ g[b] = {c})
  PROVE  OneTagEach(g)
<1>1. \A b \in Tag : g[b] \subseteq Tag /\ \A r, s \in g[b] : r = s
  BY DEF OneTagEach
<1>2. ASSUME NEW C \in SUBSET Tag, C # {} PROVE \E b \in C : g[b] \cap C = {}
  <2>1. CASE c \in C
    <3>1. g[c] = {}
      OBVIOUS
    <3> QED  BY <2>1, <3>1
  <2>2. CASE c \notin C
    <3>1. PICK b \in C : f[b] \cap C = {}
      BY <1>2 DEF OneTagEach, NoCycle
    <3>2. b \in Tag
      OBVIOUS
    <3> QED  BY <2>2, <3>1, <3>2
  <2> QED  BY <2>1, <2>2
<1> QED  BY <1>1, <1>2 DEF OneTagEach, NoCycle

LEMMA FewerMakeNoCycle ==
  ASSUME NEW f, NEW g, OneTagEach(f), \A b \in Tag : g[b] \subseteq f[b]
  PROVE  OneTagEach(g)
<1>1. \A b \in Tag : g[b] \subseteq Tag /\ \A r, s \in g[b] : r = s
  BY DEF OneTagEach
<1>2. ASSUME NEW C \in SUBSET Tag, C # {} PROVE \E b \in C : g[b] \cap C = {}
  <2>1. PICK b \in C : f[b] \cap C = {}
    BY <1>2 DEF OneTagEach, NoCycle
  <2> QED  BY <2>1
<1> QED  BY <1>1, <1>2 DEF OneTagEach, NoCycle


\* While a tag is deleted or merged, the other requests leave tags alone
LEMMA OneTagJob ==
  ASSUME Base, NEW t \in Thread, job[t].target \in Tag, NEW u \in Thread \ {t}
  PROVE  /\ job[u].target \notin Tag /\ job[u].into = Nil /\ job[u].ids \cap Tag = {}
         /\ job[u].at # Nil => job[u].at \notin Tag
<1>1. Apart(job[t], job[u]) /\ JobOK(job[u], live, refs)
  BY DEF Base, Alone, JobsOK
<1> QED  BY <1>1 DEF Apart, JobOK, Merges, Reads

LEMMA ListsNodes ==
  ASSUME NEW S \in SUBSET Node
  PROVE  InOrder(S) \in Seq(Node) /\ Range(InOrder(S)) = S
<1>1. InOrder(S) \in Seq(S) /\ Range(InOrder(S)) = S
  BY InOrderIs
<1> QED  BY <1>1

LEMMA EmptyRange == Range(<<>>) = {}
BY DEF Range

\* A request is over
LEMMA EndBase ==
  ASSUME Base, NEW t \in Thread, job' = [job EXCEPT ![t] = Idle],
         UNCHANGED <<live, above, bad, refs>>
  PROVE  Base'
<1>1. Shapes /\ OneTagEach(refs)
  BY DEF Base
<1>2. live' = live /\ refs' = refs /\ above' = above /\ bad' = bad
  OBVIOUS
<1>3. Idle \in Jobs /\ JobOK(Idle, live', refs')
      /\ \A u \in Thread \ {t} : Apart(Idle, job[u]) /\ Apart(job[u], Idle)
  BY IdleIs, DoneIs
<1> QED  BY <1>1, <1>2, <1>3, OthersStay, StepBase DEF Shapes

\* A request that owes nothing any more
LEMMA EndOwed ==
  ASSUME Base, Owed, NEW t \in Thread, job' = [job EXCEPT ![t] = Idle],
         UNCHANGED <<live, above, refs, late>>,
         \A x \in live : \A r \in refs[x] \ Held : ~Owes(job[t], x, r),
         \A s \in MutationSet \cap live : Pin[s] \notin Held => ~Dooms(job[t], s, Pin[s]),
         \A c \in Chat \cap live : Subject[c] \notin Held => ~Dooms(job[t], c, Subject[c])
  PROVE  Owed'
<1>1. live' = live /\ refs' = refs /\ above' = above /\ Held' = Held /\ late' = late
  BY DEF Held
<1>2. \A r : r \in live => r \in Held'
  BY <1>1 DEF Held
<1> QED  BY <1>1, <1>2, StepOwed

\* A merge writes its redirect
LEMMA RedirectLeft ==
  ASSUME Base, NEW t \in Thread, Redirect(t)
  PROVE  Base' /\ (Owed /\ ~cut' => Owed')
<1> DEFINE a == job[t].target
           c == job[t].into
           j == [job[t] EXCEPT !.stage = "sweep", !.todo = InOrder(live \ bad)]
<1>0. CASE a \notin live
  <2>1. job' = [job EXCEPT ![t] = Idle] /\ UNCHANGED <<live, above, bad, refs, late>> /\ cut'
    BY <1>0 DEF Redirect
  <2> QED  BY <2>1, EndBase
<1> SUFFICES ASSUME a \in live PROVE Base' /\ (Owed => Owed')
  BY <1>0
<1>1. job[t].stage = "redirect" /\ a \in live
  BY DEF Redirect
<1>2. /\ job' = [job EXCEPT ![t] = j] /\ refs' = [refs EXCEPT ![a] = {c}]
      /\ UNCHANGED <<live, above, bad, late>>
  BY <1>1 DEF Redirect
<1>3. Shapes /\ JobOK(job[t], live, refs) /\ OneTagEach(refs) /\ job[t] \in Jobs
  BY DEF Base, JobsOK, Shapes
<1>4. /\ a \in Tag /\ c \in Tag \cap live /\ c # a /\ c # Nil
      /\ refs[c] = {} /\ job[t].files = <<>> /\ job[t].at = Nil
  BY <1>1, <1>3 DEF JobOK, Merges, Reads
<1>5. c \in Node \ Chat /\ a \in Node
  BY <1>4, KindsApart, NilIs
<1>6. j \in Jobs
  <2>1. InOrder(live \ bad) \in Seq(Node)
    <3>1. live \ bad \in SUBSET Node
      BY <1>3 DEF Shapes
    <3> QED  BY <3>1, ListsNodes
  <2> QED  BY <1>3, <2>1 DEF Jobs
<1>7. /\ j.stage = "sweep" /\ j.target = a /\ j.into = c /\ j.files = <<>> /\ j.at = Nil
      /\ j.ids = job[t].ids
  BY <1>3, <1>4 DEF Jobs
<1> HIDE DEF j
<1>8. refs' \in [Node -> SUBSET (Node \ Chat)] /\ refs'[a] = {c}
      /\ \A x \in Node \ {a} : refs'[x] = refs[x]
  BY <1>2, <1>3, <1>5 DEF Shapes
<1>9. \A u \in Thread \ {t} :
        /\ job[u].into # Nil => job[u].into \in live' /\ refs'[job[u].into] = {}
        /\ job[u].at # Nil => refs'[job[u].at] = refs[job[u].at]
  <2> TAKE u \in Thread \ {t}
  <2>1. job[u].into = Nil /\ (job[u].at # Nil => job[u].at \notin Tag)
    BY <1>4, OneTagJob
  <2>2. job[u].at \in Node \cup {Nil}
    BY <1>3 DEF Shapes, Jobs
  <2> QED  BY <1>4, <1>8, <2>1, <2>2
<1>10. \A u \in Thread \ {t} : Apart(j, job[u]) /\ Apart(job[u], j)
  BY <1>4, <1>7, OneTagJob DEF Apart
<1>11. JobOK(j, live', refs')
  <2>1. Idles(j) /\ Unlinks(j, live') /\ Purges(j, live') /\ Reads(j, refs')
    BY <1>4, <1>7 DEF Idles, Unlinks, Purges, Reads
  <2>2. Merges(j, live', refs')
    BY <1>2, <1>4, <1>5, <1>7, <1>8 DEF Merges
  <2> QED  BY <1>4, <1>7, <2>1, <2>2 DEF JobOK
<1>12. OneTagEach(refs')
  <2>1. \A b \in Tag : refs'[b] = refs[b] \/ (b = a /\ refs'[b] = {c})
    BY <1>8, NilIs
  <2> QED  BY <1>3, <1>4, <2>1, MergeMakesNoCycle
<1>13. \A x \in live' : \A r \in refs'[x] : r \in refs[x] \/ r \in Held'
  BY <1>2, <1>3, <1>4, <1>8 DEF Held, Shapes
<1>14. \A r : r \in live => r \in Held'
  BY <1>2 DEF Held
<1>15. \A x, r : ~Owes(job[t], x, r) /\ ~Dooms(job[t], x, r)
  BY <1>4 DEF Owes, Dooms
<1>16. live' \subseteq live /\ above' = above /\ bad' \subseteq live' \cap Scene /\ late' = late
  BY <1>2, <1>3 DEF Shapes
<1>17. \A x \in live' : \A r \in refs'[x] \ Held' :
          r \in live \/ Owes(job[t], x, r) => Owes(j, x, r)
  BY <1>14, <1>15
<1>18. \A s \in MutationSet \cap live' : Pin[s] \notin Held' =>
          (Pin[s] \in live \/ Dooms(job[t], s, Pin[s]) => Dooms(j, s, Pin[s]))
  BY <1>14, <1>15
<1>19. \A d \in Chat \cap live' : Subject[d] \notin Held' =>
          (Subject[d] \in live \/ Dooms(job[t], d, Subject[d]) => Dooms(j, d, Subject[d]))
  BY <1>14, <1>15
<1>20. job' = [job EXCEPT ![t] = j] /\ refs' \in [Node -> SUBSET (Node \ Chat)]
  BY <1>2, <1>8
<1> HIDE DEF a, c
<1>21. Base'
  BY <1>6, <1>9, <1>10, <1>11, <1>12, <1>16, <1>20, StepBase
<1>22. Owed => Owed'
  BY <1>13, <1>16, <1>17, <1>18, <1>19, <1>20, StepOwed
<1> QED  BY <1>21, <1>22

\* A file is unlinked
LEMMA UnlinkLeft ==
  ASSUME Base, NEW t \in Thread, Unlink(t)
  PROVE  Base' /\ (Owed => Owed')
<1> DEFINE f == Head(job[t].files)
           j == [job[t] EXCEPT !.files = Tail(@)]
<1>1. /\ job[t].files # <<>> /\ live' = live \ {f} /\ bad' = bad \ {f}
      /\ job' = [job EXCEPT ![t] = j] /\ UNCHANGED <<above, refs, late>>
  BY DEF Unlink
<1>2. Shapes /\ JobOK(job[t], live, refs) /\ OneTagEach(refs) /\ job[t] \in Jobs
  BY DEF Base, JobsOK, Shapes
<1>3. /\ f \in Node /\ Tail(job[t].files) \in Seq(Node)
      /\ Range(job[t].files) = {f} \cup Range(Tail(job[t].files))
  <2>1. job[t].files \in Seq(Node)
    BY <1>2 DEF Jobs
  <2> QED  BY <1>1, <2>1, HeadTail
<1>4. j \in Jobs
  BY <1>2, <1>3 DEF Jobs
<1>5. /\ j.stage = job[t].stage /\ j.target = job[t].target /\ j.into = job[t].into
      /\ j.ids = job[t].ids /\ j.files = Tail(job[t].files) /\ j.todo = job[t].todo
      /\ j.at = job[t].at
  BY <1>2 DEF Jobs
<1> HIDE DEF j, f
<1>6. /\ job[t].into = Nil /\ job[t].at = Nil /\ (f \in Chat \/ f \in job[t].ids)
      /\ \/ job[t].stage = "unlink" /\ f \in job[t].ids
         \/ job[t].stage = "sweep" /\ f \in MutationSet \cup Chat
  <2>1. job[t].into = Nil /\ job[t].at = Nil
    BY <1>1, <1>2 DEF JobOK, Merges, Reads
  <2>2. job[t].stage \in {"unlink", "sweep"}
    <3>1. job[t].stage \in {"idle", "unlink", "redirect", "sweep"}
      BY <1>2 DEF Jobs
    <3> QED  BY <1>1, <1>2, <2>1, <3>1 DEF JobOK, Idles, Merges
  <2>3. CASE job[t].stage = "unlink"
    <3>1. Range(job[t].files) \subseteq job[t].ids
      BY <1>2, <2>3 DEF JobOK, Unlinks
    <3> QED  BY <1>3, <2>1, <2>3, <3>1
  <2>4. CASE job[t].stage = "sweep"
    BY <1>2, <1>3, <2>1, <2>4 DEF JobOK, Purges
  <2> QED  BY <2>1, <2>2, <2>3, <2>4
<1>7. f \in Tag => job[t].target \in Tag
  BY <1>2, <1>6, KindsApart DEF JobOK
<1>8. \A u \in Thread \ {t} :
        /\ job[u].into # Nil => job[u].into \in live' /\ refs'[job[u].into] = {}
        /\ job[u].at # Nil => refs'[job[u].at] = refs[job[u].at]
  <2> TAKE u \in Thread \ {t}
  <2>1. job[u].into # Nil => job[u].into \in Tag \cap live /\ refs[job[u].into] = {}
    BY DEF Base, JobsOK, JobOK, Merges
  <2>2. job[u].into # Nil => job[u].into # f
    BY <1>7, <2>1, OneTagJob
  <2> QED  BY <1>1, <2>1, <2>2
<1>9. \A u \in Thread \ {t} : Apart(j, job[u]) /\ Apart(job[u], j)
  BY <1>5 DEF Apart, Base, Alone
<1>10. JobOK(j, live', refs')
  <2>1. Idles(j) /\ Merges(j, live', refs') /\ Reads(j, refs')
    BY <1>5, <1>6 DEF Idles, Merges, Reads
  <2>2. Unlinks(j, live')
    BY <1>1, <1>2, <1>3, <1>5, <1>6 DEF JobOK, Unlinks
  <2>3. Purges(j, live')
    <3>1. SUFFICES ASSUME job[t].stage = "sweep" PROVE Purges(j, live')
      BY <1>5 DEF Purges
    <3>2. /\ Range(job[t].files) \subseteq MutationSet \cup Chat
          /\ Range(job[t].files) \ Chat \subseteq job[t].ids
          /\ live \subseteq Range(job[t].files) \cup Range(job[t].todo)
          /\ \A c \in Chat \cap live : Subject[c] \in job[t].ids => c \in Range(job[t].files)
      BY <1>1, <1>2, <1>6, <3>1 DEF JobOK, Purges
    <3> QED  BY <1>1, <1>3, <1>5, <3>2 DEF Purges
  <2> QED  BY <1>2, <1>5, <2>1, <2>2, <2>3 DEF JobOK
<1>11. live' \subseteq live /\ above' = above /\ bad' \subseteq live' \cap Scene
       /\ refs' \in [Node -> SUBSET (Node \ Chat)] /\ OneTagEach(refs') /\ refs' = refs
  BY <1>1, <1>2 DEF Shapes
<1>12. \A r : r \in live /\ r \notin Held' => r = f
  BY <1>1 DEF Held
<1>13. ASSUME NEW x \in live', NEW r \in refs'[x], r \notin Held', r \in live \/ Owes(job[t], x, r)
       PROVE  Owes(j, x, r)
  <2>1. x \in live /\ x # f /\ x \in Node
    BY <1>1, <1>2, <1>13 DEF Shapes
  <2>2. r \notin Chat
    BY <1>1, <1>2, <1>13, <2>1 DEF Shapes
  <2>3. r \in job[t].ids
    BY <1>6, <1>12, <1>13, <2>2 DEF Owes
  <2>4. CASE job[t].stage = "unlink"
    BY <1>5, <1>6, <2>3, <2>4 DEF Owes
  <2>5. CASE job[t].stage = "sweep"
    <3>1. x \in Range(job[t].files) \cup Range(job[t].todo)
      BY <1>1, <1>2, <1>6, <2>1, <2>5 DEF JobOK, Purges
    <3> QED  BY <1>3, <1>5, <1>6, <2>1, <2>3, <2>5, <3>1 DEF Owes
  <2> QED  BY <1>6, <2>4, <2>5
<1>14. ASSUME NEW s \in MutationSet \cap live', Pin[s] \notin Held',
              Pin[s] \in live \/ Dooms(job[t], s, Pin[s])
       PROVE  Dooms(j, s, Pin[s])
  <2>1. Pin[s] \in Entity /\ s # f
    BY <1>1, ReferencesAssumption
  <2>2. CASE Dooms(job[t], s, Pin[s])
    BY <1>3, <1>5, <2>1, <2>2 DEF Dooms
  <2>3. CASE Pin[s] \in live
    <3>1. Pin[s] = f
      BY <1>12, <1>14, <2>3
    <3>2. job[t].stage = "unlink" /\ f \in job[t].ids
      BY <1>6, <2>1, <3>1, KindsApart
    <3> QED  BY <1>5, <1>6, <3>1, <3>2 DEF Dooms
  <2> QED  BY <1>14, <2>2, <2>3
<1>15. ASSUME NEW c \in Chat \cap live', Subject[c] \notin Held',
              Subject[c] \in live \/ Dooms(job[t], c, Subject[c])
       PROVE  Dooms(j, c, Subject[c])
  <2>1. Subject[c] \in Node \ Chat /\ c # f /\ c \in live
    BY <1>1, ReferencesAssumption
  <2>2. CASE Dooms(job[t], c, Subject[c])
    BY <1>3, <1>5, <2>1, <2>2 DEF Dooms
  <2>3. CASE Subject[c] \in live
    <3>1. Subject[c] = f /\ f \in job[t].ids
      BY <1>6, <1>12, <1>15, <2>1, <2>3
    <3>2. CASE job[t].stage = "unlink"
      BY <1>5, <1>6, <3>1, <3>2 DEF Dooms
    <3>3. CASE job[t].stage = "sweep"
      <4>1. c \in Range(job[t].files)
        BY <1>2, <1>6, <2>1, <3>1, <3>3 DEF JobOK, Purges
      <4> QED  BY <1>3, <1>5, <1>6, <2>1, <3>1, <3>3, <4>1 DEF Dooms
    <3> QED  BY <1>6, <3>2, <3>3
  <2> QED  BY <1>15, <2>2, <2>3
<1>16. Base'
  BY <1>1, <1>4, <1>8, <1>9, <1>10, <1>11, StepBase
<1>17. Owed => Owed'
  BY <1>1, <1>11, <1>13, <1>14, <1>15, StepOwed
<1> QED  BY <1>16, <1>17


\* A delete has unlinked its files, and looks what hangs on them
LEMMA BeginPurgeLeft ==
  ASSUME Base, NEW t \in Thread, BeginPurge(t)
  PROVE  Base' /\ (Owed /\ ~cut' => Owed')
<1> DEFINE safe == SafeToPurge(job[t].ids)
           sets == {s \in MutationSet \cap live : Pin[s] \in safe}
           chats == {c \in Chat \cap live : Subject[c] \in safe \cup sets}
           rest == live \ (sets \cup chats)
<1>0. PICK first \in SetToSeqs(sets), then \in SetToSeqs(chats) :
        job' = [job EXCEPT ![t] = IF safe = {} THEN Idle
                  ELSE [job[t] EXCEPT !.stage = "sweep", !.ids = safe \cup sets,
                                      !.files = first \o then, !.todo = InOrder(rest)]]
  BY DEF BeginPurge
<1> DEFINE j == [job[t] EXCEPT !.stage = "sweep", !.ids = safe \cup sets,
                               !.files = first \o then, !.todo = InOrder(rest)]
<1>1. /\ job[t].stage = "unlink" /\ job[t].files = <<>> /\ (~cut' => bad = {})
      /\ UNCHANGED <<live, above, bad, refs, late>>
  BY DEF BeginPurge
<1>2. job' = [job EXCEPT ![t] = IF safe = {} THEN Idle ELSE j]
  BY <1>0
<1>3. Shapes /\ JobOK(job[t], live, refs) /\ OneTagEach(refs) /\ job[t] \in Jobs
  BY DEF Base, JobsOK, Shapes
<1>4. safe = (IF bad = {} THEN job[t].ids \ Held ELSE {}) /\ safe \in SUBSET Node
  BY <1>3 DEF SafeToPurge, ById, Held, Jobs
<1>5. job[t].into = Nil /\ job[t].at = Nil
  BY <1>1, <1>3 DEF JobOK, Unlinks
<1> HIDE DEF safe, j
<1>6. CASE safe = {}
  <2>1. job' = [job EXCEPT ![t] = Idle]
    BY <1>2, <1>6
  <2>2. ~cut' => \A x, r : r \notin Held => ~Owes(job[t], x, r) /\ ~Dooms(job[t], x, r)
    BY <1>1, <1>4, <1>6 DEF Owes, Dooms
  <2> QED  BY <1>1, <2>1, <2>2, EndBase, EndOwed
<1>7. CASE safe # {}
  <2>0. safe = job[t].ids \ Held
    BY <1>4, <1>7
  <2>1. job' = [job EXCEPT ![t] = j]
    BY <1>2, <1>7
  <2>2. sets \in SUBSET Node /\ chats \in SUBSET Node /\ rest \in SUBSET Node
        /\ sets \subseteq MutationSet \cap live /\ chats \subseteq Chat \cap live
    BY <1>3 DEF Shapes
  <2>3. /\ \A s \in MutationSet \cap live : Pin[s] \in safe => s \in sets
        /\ \A c \in Chat \cap live : Subject[c] \in safe \cup sets => c \in chats
        /\ live \subseteq sets \cup chats \cup rest
    OBVIOUS
  <2> HIDE DEF sets, chats, rest
  <2>4. /\ first \in Seq(Node) /\ then \in Seq(Node) /\ InOrder(rest) \in Seq(Node)
        /\ Range(first) = sets /\ Range(then) = chats /\ Range(InOrder(rest)) = rest
    BY <2>2, AnyOrderIs, ListsNodes
  <2> DEFINE files == first \o then
  <2>5. files \in Seq(Node) /\ Range(files) = sets \cup chats
    BY <2>4, ListsTogether
  <2> HIDE DEF files
  <2>6. /\ j \in Jobs
        /\ j.stage = "sweep" /\ j.target = job[t].target /\ j.into = Nil /\ j.at = Nil
        /\ j.ids = safe \cup sets /\ j.files = files /\ j.todo = InOrder(rest)
    BY <1>3, <1>4, <1>5, <2>2, <2>4, <2>5 DEF Jobs, j, files
  <2>7. JobOK(j, live, refs)
    <3>1. Idles(j) /\ Unlinks(j, live) /\ Merges(j, live, refs) /\ Reads(j, refs)
      BY <2>6 DEF Idles, Unlinks, Merges, Reads
    <3>2. Purges(j, live)
      <4>1. Range(files) \subseteq MutationSet \cup Chat /\ Range(files) \ Chat \subseteq safe \cup sets
        BY <2>2, <2>5
      <4>2. live \subseteq Range(files) \cup Range(j.todo)
        BY <2>3, <2>4, <2>5, <2>6
      <4>3. \A c \in Chat \cap live : Subject[c] \in safe \cup sets => c \in Range(files)
        BY <2>3, <2>5
      <4> QED  BY <2>6, <4>1, <4>2, <4>3 DEF Purges
    <3>3. j.target \notin Tag => j.ids \cap Tag = {}
      BY <1>3, <1>4, <2>2, <2>6, KindsApart DEF JobOK
    <3> QED  BY <3>1, <3>2, <3>3 DEF JobOK
  <2>8. \A u \in Thread \ {t} : Apart(j, job[u]) /\ Apart(job[u], j)
    BY <1>5, <2>6 DEF Apart, Base, Alone
  <2>9. live' = live /\ refs' = refs /\ above' = above /\ bad' = bad /\ Held' = Held /\ late' = late
    BY <1>1 DEF Held
  <2>10. JobOK(j, live', refs') /\ OneTagEach(refs')
    BY <1>3, <2>7, <2>9
  <2>11. \A r : r \in live => r \in Held'
    BY <2>9 DEF Held
  <2>12. \A r : r \notin Held' /\ r \in job[t].ids => r \in safe
    BY <2>0, <2>9
  <2>13. ASSUME NEW x \in live', NEW r \in refs'[x], r \notin Held', r \in live \/ Owes(job[t], x, r)
         PROVE  Owes(j, x, r)
    <3>1. r \in safe
      BY <2>11, <2>12, <2>13 DEF Owes
    <3>2. x \in Range(files) \cup Range(j.todo)
      BY <2>3, <2>4, <2>5, <2>6, <2>9
    <3> QED  BY <2>6, <3>1, <3>2 DEF Owes
  <2>14. ASSUME NEW s \in MutationSet \cap live', Pin[s] \notin Held',
                Pin[s] \in live \/ Dooms(job[t], s, Pin[s])
         PROVE  Dooms(j, s, Pin[s])
    <3>1. Pin[s] \in safe
      BY <2>11, <2>12, <2>14 DEF Dooms
    <3>2. s \in Range(files)
      BY <2>3, <2>5, <2>9, <3>1
    <3> QED  BY <2>6, <3>1, <3>2 DEF Dooms
  <2>15. ASSUME NEW c \in Chat \cap live', Subject[c] \notin Held',
                Subject[c] \in live \/ Dooms(job[t], c, Subject[c])
         PROVE  Dooms(j, c, Subject[c])
    <3>1. Subject[c] \in safe
      BY <2>11, <2>12, <2>15 DEF Dooms
    <3>2. c \in Range(files)
      BY <2>3, <2>5, <2>9, <3>1
    <3> QED  BY <2>6, <3>1, <3>2 DEF Dooms
  <2>16. bad' \subseteq live' \cap Scene /\ refs' \in [Node -> SUBSET (Node \ Chat)]
         /\ j \in Jobs /\ live' \subseteq live
    BY <1>3, <2>6, <2>9 DEF Shapes
  <2> HIDE DEF files
  <2>17. Base'
    BY <1>1, <2>1, <2>8, <2>9, <2>10, <2>16, OthersStay, StepBase
  <2>18. Owed => Owed'
    BY <2>1, <2>9, <2>11, <2>13, <2>14, <2>15, StepOwed
  <2> QED  BY <2>17, <2>18
<1> QED  BY <1>6, <1>7

\* The next file that the sweep of j does not leave alone
NextAt(j) == SelectInSeq(j.todo, LAMBDA n : ~LeftAlone(j, n))

LEMMA NextIs ==
  ASSUME NEW j \in Jobs
  PROVE  /\ NextAt(j) \in 0..Len(j.todo) /\ Len(j.todo) \in Nat
         /\ NextAt(j) = 0 => \A n \in Range(j.todo) : LeftAlone(j, n)
         /\ NextAt(j) # 0 => /\ j.todo[NextAt(j)] \in Node
                             /\ ~LeftAlone(j, j.todo[NextAt(j)])
                             /\ \A i \in 1..NextAt(j) - 1 : LeftAlone(j, j.todo[i])
<1> DEFINE I == {i \in 1..Len(j.todo) : ~LeftAlone(j, j.todo[i])}
<1>1. j.todo \in Seq(Node) /\ Len(j.todo) \in Nat /\ DOMAIN j.todo = 1..Len(j.todo)
  BY DEF Jobs
<1>2. NextAt(j) = IF I # {} THEN Min(I) ELSE 0
  BY DEF NextAt, SelectInSeq
<1>3. CASE I = {}
  BY <1>1, <1>2, <1>3 DEF Range
<1>4. CASE I # {}
  <2>1. I \subseteq Nat
    BY <1>1
  <2>2. Min(I) \in I /\ \A i \in I : Min(I) <= i
    <3> HIDE DEF I
    <3>1. PICK x \in I : \A y \in I : x <= y
      BY <1>4, <2>1, Least
    <3> QED  BY <3>1 DEF Min
  <2>3. NextAt(j) \in I /\ \A i \in I : NextAt(j) <= i
    BY <1>2, <1>4, <2>2
  <2>4. NextAt(j) \in 1..Len(j.todo) /\ ~LeftAlone(j, j.todo[NextAt(j)])
    BY <2>3
  <2>5. \A i \in 1..NextAt(j) - 1 : LeftAlone(j, j.todo[i])
    <3> TAKE i \in 1..NextAt(j) - 1
    <3>1. i \in 1..Len(j.todo) /\ i < NextAt(j)
      BY <1>1, <2>4
    <3>2. i \notin I
      BY <1>1, <2>3, <2>4, <3>1
    <3> QED  BY <3>1, <3>2
  <2> QED  BY <1>1, <2>4, <2>5
<1> QED  BY <1>3, <1>4

\* What a sweep takes out of a file it does not leave alone
LEMMA SweptIs ==
  ASSUME NEW j, j.into = Nil, NEW n, LeftAlone(j, n)
  PROVE  refs[n] \cap j.ids = {}
BY DEF LeftAlone, Swept

\* A sweep that is at no file
LEMMA PassBase ==
  ASSUME Base, NEW t \in Thread, job[t].stage = "sweep", job[t].files = <<>>,
         NEW j \in Jobs, j.stage = "sweep", j.target = job[t].target, j.into = job[t].into,
         j.ids = job[t].ids, j.files = <<>>, j.at = Nil,
         job' = [job EXCEPT ![t] = j], UNCHANGED <<live, above, bad, refs>>
  PROVE  Base'
<1>1. Shapes /\ JobOK(job[t], live, refs) /\ OneTagEach(refs)
  BY DEF Base, JobsOK
<1>2. live' = live /\ refs' = refs /\ above' = above /\ bad' = bad
  OBVIOUS
<1>3. JobOK(j, live', refs')
  <2>1. Idles(j) /\ Unlinks(j, live) /\ Reads(j, refs)
    BY DEF Idles, Unlinks, Reads
  <2>2. Purges(j, live)
    BY <1>1 DEF JobOK, Purges
  <2>3. Merges(j, live, refs)
    BY <1>1 DEF JobOK, Merges
  <2> QED  BY <1>1, <1>2, <2>1, <2>2, <2>3 DEF JobOK
<1>4. \A u \in Thread \ {t} : Apart(j, job[u]) /\ Apart(job[u], j)
  BY DEF Apart, Base, Alone
<1> QED  BY <1>1, <1>2, <1>3, <1>4, OthersStay, StepBase DEF Shapes

\* A sweep goes to the next file
LEMMA VisitLeft ==
  ASSUME Base, ~Overlap, NEW t \in Thread, Visit(t)
  PROVE  Base' /\ (Owed /\ ~cut' => Owed')
<1> DEFINE k == NextAt(job[t])
           n == job[t].todo[k]
           j == [job[t] EXCEPT !.todo = SubSeq(@, k + 1, Len(@)), !.at = n,
                               !.cleaned = Swept(job[t], refs[n])]
<1>1. /\ job[t].stage = "sweep" /\ job[t].files = <<>> /\ job[t].at = Nil
      /\ UNCHANGED <<live, above, bad, refs, late>>
      /\ k # 0 => \A u \in Thread : job[u].at # n
      /\ k # 0 /\ ~cut' => n \in live \ bad
  BY DEF Visit, NextAt
<1>2. /\ k = 0 \/ n \notin live => job' = [job EXCEPT ![t] = Idle]
      /\ k # 0 /\ n \in bad /\ n \in live =>
           job' = [job EXCEPT ![t] = [job[t] EXCEPT
                     !.todo = SubSeq(job[t].todo, k + 1, Len(job[t].todo)), !.at = Nil, !.cleaned = {}]]
      /\ k # 0 /\ n \in live \ bad => job' = [job EXCEPT ![t] = j]
  BY DEF Visit, NextAt
<1>3. Shapes /\ JobOK(job[t], live, refs) /\ OneTagEach(refs) /\ job[t] \in Jobs
  BY DEF Base, JobsOK, Shapes
<1>4. /\ k \in 0..Len(job[t].todo) /\ Len(job[t].todo) \in Nat
      /\ k = 0 => \A m \in Range(job[t].todo) : LeftAlone(job[t], m)
      /\ k # 0 => /\ n \in Node /\ ~LeftAlone(job[t], n)
                  /\ \A i \in 1..k - 1 : LeftAlone(job[t], job[t].todo[i])
  BY <1>3, NextIs
<1> HIDE DEF k
<1>5. \A x, r : ~Dooms(job[t], x, r)
  BY <1>1, EmptyRange DEF Dooms
<1>6. CASE k = 0
  <2>1. job' = [job EXCEPT ![t] = Idle]
    BY <1>2, <1>6
  <2>2. ASSUME NEW x \in live, NEW r \in refs[x], Owes(job[t], x, r) PROVE FALSE
    <3>1. job[t].into = Nil /\ r \in job[t].ids /\ x \in Range(job[t].todo)
      BY <1>1, <1>3, <2>2, EmptyRange, NilIs DEF Owes, Shapes
    <3> QED  BY <1>4, <1>6, <2>2, <3>1, SweptIs
  <2> QED  BY <1>1, <1>5, <2>1, <2>2, EndBase, EndOwed
<1>7. CASE k # 0 /\ n \notin live
  BY <1>1, <1>2, <1>7, EndBase
<1>8. CASE k # 0 /\ n \in live /\ n \in bad
  <2> DEFINE todo == SubSeq(job[t].todo, k + 1, Len(job[t].todo))
             p == [job[t] EXCEPT !.todo = todo, !.at = Nil, !.cleaned = {}]
  <2>1. todo \in Seq(Node)
    <3>1. job[t].todo \in Seq(Node)
      BY <1>3 DEF Jobs
    <3> QED  BY <1>4, <3>1
  <2>2. job' = [job EXCEPT ![t] = p]
    BY <1>2, <1>8
  <2> HIDE DEF todo
  <2>3. /\ p \in Jobs /\ p.stage = "sweep" /\ p.target = job[t].target /\ p.into = job[t].into
        /\ p.ids = job[t].ids /\ p.files = <<>> /\ p.at = Nil
    BY <1>1, <1>3, <2>1 DEF Jobs
  <2> HIDE DEF p
  <2>4. Base'
    BY <1>1, <2>2, <2>3, PassBase
  <2> QED  BY <1>1, <1>8, <2>4
<1>9. CASE k # 0 /\ n \in live \ bad
  <2>1. job' = [job EXCEPT ![t] = j]
    BY <1>2, <1>9
  <2>2. n \in live \ bad /\ n \in Node /\ n # Nil /\ ~LeftAlone(job[t], n)
        /\ Swept(job[t], refs[n]) # refs[n]
    BY <1>4, <1>9, NilIs DEF LeftAlone
  <2> DEFINE todo == SubSeq(job[t].todo, k + 1, Len(job[t].todo))
             cleaned == Swept(job[t], refs[n])
  <2>3. todo \in Seq(Node) /\ cleaned \in SUBSET (Node \ Chat)
    <3>1. job[t].todo \in Seq(Node) /\ job[t].into \in Tag \cup {Nil}
      BY <1>3 DEF Jobs
    <3>2. todo \in Seq(Node)
      BY <1>4, <3>1
    <3>3. refs[n] \in SUBSET (Node \ Chat)
      BY <1>3, <2>2 DEF Shapes
    <3>4. job[t].into # Nil => job[t].into \in Node \ Chat
      BY <3>1, KindsApart, NilIs
    <3> QED  BY <3>2, <3>3, <3>4 DEF Swept
  <2>4. /\ j \in Jobs
        /\ j.stage = "sweep" /\ j.target = job[t].target /\ j.into = job[t].into
        /\ j.ids = job[t].ids /\ j.files = <<>> /\ j.todo = todo /\ j.at = n /\ j.cleaned = cleaned
    <3> HIDE DEF todo, cleaned
    <3>1. j = [job[t] EXCEPT !.todo = todo, !.at = n, !.cleaned = cleaned]
      BY DEF todo, cleaned
    <3> HIDE DEF j, n
    <3> QED  BY <1>1, <1>3, <2>2, <2>3, <3>1 DEF Jobs
  <2> HIDE DEF j
  <2>5. n \in Tag => job[t].target \in Tag
    <3> SUFFICES ASSUME n \in Tag, job[t].target \notin Tag PROVE FALSE
      OBVIOUS
    <3>1. job[t].into = Nil /\ job[t].ids \cap Tag = {}
      BY <1>3 DEF JobOK, Merges
    <3>2. refs[n] \subseteq Tag
      BY <1>3 DEF OneTagEach
    <3> QED  BY <2>2, <3>1, <3>2 DEF Swept
  <2>6. JobOK(j, live, refs)
    <3>1. Idles(j) /\ Unlinks(j, live)
      BY <2>4 DEF Idles, Unlinks
    <3>2. Purges(j, live)
      BY <1>1, <1>3, <2>4 DEF JobOK, Purges
    <3>3. Merges(j, live, refs)
      BY <1>1, <1>3, <2>4 DEF JobOK, Merges
    <3>4. Reads(j, refs)
      BY <2>4, <2>5 DEF Reads, Swept
    <3> QED  BY <1>3, <2>4, <3>1, <3>2, <3>3, <3>4 DEF JobOK
  <2>7. \A u \in Thread \ {t} : Apart(j, job[u]) /\ Apart(job[u], j)
    BY <1>1, <1>9, <2>4 DEF Apart, Base, Alone
  <2>8. live' = live /\ refs' = refs /\ above' = above /\ bad' = bad /\ Held' = Held /\ late' = late
    BY <1>1 DEF Held
  <2>9. JobOK(j, live', refs') /\ OneTagEach(refs')
    BY <1>3, <2>6, <2>8
  <2>10. \A r : r \in live => r \in Held'
    BY <2>8 DEF Held
  <2>11. ASSUME NEW x \in live', NEW r \in refs'[x], r \notin Held', r \in live \/ Owes(job[t], x, r)
         PROVE  Owes(j, x, r)
    <3>1. Owes(job[t], x, r) /\ x \in live /\ r \in refs[x]
      BY <2>8, <2>10, <2>11
    <3>2. job[t].into = Nil /\ r \in job[t].ids /\ x \in Range(job[t].todo)
      BY <1>1, <1>3, <3>1, EmptyRange, NilIs DEF Owes, Shapes
    <3>3. x = n \/ x \in Range(todo)
      <4>1. job[t].todo \in Seq(Node)
        BY <1>3 DEF Jobs
      <4>2. PICK i \in 1..Len(job[t].todo) : x = job[t].todo[i]
        BY <3>2, <4>1 DEF Range
      <4>3. ~LeftAlone(job[t], x)
        BY <3>1, <3>2, SweptIs
      <4>4. i >= k
        BY <1>4, <1>9, <4>2, <4>3
      <4>5. CASE i > k
        <5> DEFINE all == job[t].todo
        <5>0. all \in Seq(Node) /\ Len(all) \in Nat /\ k \in Nat /\ k < Len(all)
          BY <1>4, <4>1, <4>2, <4>5
        <5> HIDE DEF all
        <5>1. /\ Len(todo) = Len(job[t].todo) - k /\ DOMAIN todo = 1..Len(todo)
              /\ \A p \in 1..Len(todo) : todo[p] = job[t].todo[k + p]
          <6>1. todo = SubSeq(all, k + 1, Len(all))
            BY DEF all
          <6> HIDE DEF todo
          <6>2. Len(todo) = Len(all) - k /\ DOMAIN todo = 1..Len(todo)
            BY <5>0, <6>1
          <6>3. \A p \in 1..Len(todo) : todo[p] = all[(k + 1) + p - 1] /\ (k + 1) + p - 1 = k + p
            BY <5>0, <6>1, <6>2
          <6> QED  BY <6>2, <6>3 DEF all
        <5>2. i - k \in 1..Len(todo) /\ k + (i - k) = i
          BY <1>4, <4>5, <5>1
        <5>3. todo[i - k] = x
          BY <4>2, <5>1, <5>2
        <5> HIDE DEF todo
        <5> QED  BY <5>1, <5>2, <5>3 DEF Range
      <4> QED  BY <1>4, <4>2, <4>4, <4>5
    <3> QED  BY <2>4, <3>2, <3>3 DEF Owes
  <2>12. \A s \in MutationSet \cap live' : Pin[s] \notin Held' =>
            (Pin[s] \in live \/ Dooms(job[t], s, Pin[s]) => Dooms(j, s, Pin[s]))
    BY <1>5, <2>10
  <2>13. \A c \in Chat \cap live' : Subject[c] \notin Held' =>
            (Subject[c] \in live \/ Dooms(job[t], c, Subject[c]) => Dooms(j, c, Subject[c]))
    BY <1>5, <2>10
  <2>14. bad' \subseteq live' \cap Scene /\ refs' \in [Node -> SUBSET (Node \ Chat)]
         /\ j \in Jobs /\ live' \subseteq live
    BY <1>3, <2>4, <2>8 DEF Shapes
  <2> HIDE DEF n, todo, cleaned
  <2>15. Base'
    BY <1>1, <2>1, <2>7, <2>8, <2>9, <2>14, OthersStay, StepBase
  <2>16. \A x \in live' : \A r \in refs'[x] : r \in refs[x] \/ r \in Held'
    BY <2>8
  <2>17. Owed => Owed'
    BY <2>1, <2>8, <2>11, <2>12, <2>13, <2>14, <2>16, StepOwed
  <2> QED  BY <2>15, <2>17
<1> QED  BY <1>6, <1>7, <1>8, <1>9


\* A sweep writes the file it is at
LEMMA RewriteLeft ==
  ASSUME Base, NEW t \in Thread, Rewrite(t)
  PROVE  Base' /\ (Owed /\ ~cut' => Owed')
<1> DEFINE n == job[t].at
           cleaned == job[t].cleaned
           j == [job[t] EXCEPT !.at = Nil, !.cleaned = {}]
<1>0. CASE n \notin live \ bad
  <2>1. cut' /\ UNCHANGED <<live, above, bad, refs, late>> /\ n # Nil
    BY <1>0 DEF Rewrite
  <2>2. CASE n \notin live
    <3>1. job' = [job EXCEPT ![t] = Idle]
      BY <2>2 DEF Rewrite
    <3> QED  BY <2>1, <3>1, EndBase
  <2>3. CASE n \in live
    <3>1. job' = [job EXCEPT ![t] = j]
      BY <2>3 DEF Rewrite
    <3>2. JobOK(job[t], live, refs) /\ job[t] \in Jobs
      BY DEF Base, JobsOK, Shapes
    <3>3. job[t].stage = "sweep" /\ job[t].files = <<>>
      BY <2>1, <3>2 DEF JobOK, Reads
    <3>4. /\ j \in Jobs /\ j.stage = "sweep" /\ j.target = job[t].target
          /\ j.into = job[t].into /\ j.ids = job[t].ids /\ j.files = <<>> /\ j.at = Nil
      BY <3>2, <3>3 DEF Jobs
    <3> HIDE DEF j, n
    <3>5. Base'
      BY <2>1, <3>1, <3>3, <3>4, PassBase
    <3> QED  BY <2>1, <3>5
  <2> QED  BY <2>2, <2>3
<1> SUFFICES ASSUME n \in live \ bad PROVE Base' /\ (Owed => Owed')
  BY <1>0
<1>1. n # Nil /\ n \in live \ bad
  BY DEF Rewrite
<1>2. /\ job' = [job EXCEPT ![t] = j] /\ refs' = [refs EXCEPT ![n] = cleaned]
      /\ UNCHANGED <<live, above, bad, late>>
  BY <1>1 DEF Rewrite
<1>3. Shapes /\ JobOK(job[t], live, refs) /\ OneTagEach(refs) /\ job[t] \in Jobs
  BY DEF Base, JobsOK, Shapes
<1>4. /\ job[t].stage = "sweep" /\ job[t].files = <<>> /\ n \in Node
      /\ cleaned = Swept(job[t], refs[n]) /\ (n \in Tag => job[t].target \in Tag)
      /\ cleaned \in SUBSET (Node \ Chat)
  BY <1>1, <1>3 DEF JobOK, Reads, Jobs, Shapes
<1>5. /\ j \in Jobs /\ j.stage = "sweep" /\ j.target = job[t].target
      /\ j.into = job[t].into /\ j.ids = job[t].ids /\ j.files = <<>>
      /\ j.todo = job[t].todo /\ j.at = Nil
  BY <1>3, <1>4 DEF Jobs
<1>6. job[t].into # Nil =>
        /\ job[t].target \in Tag /\ job[t].into \in Tag \cap live /\ job[t].into # job[t].target
        /\ refs[job[t].into] = {}
  BY <1>3 DEF JobOK, Merges
<1> HIDE DEF j, n, cleaned
<1>7. refs' \in [Node -> SUBSET (Node \ Chat)] /\ refs'[n] = cleaned
      /\ \A x \in Node \ {n} : refs'[x] = refs[x]
  BY <1>2, <1>3, <1>4 DEF Shapes
<1>8. live' = live /\ above' = above /\ bad' = bad /\ Held' = Held /\ late' = late
  BY <1>2 DEF Held
<1>9. \A u \in Thread \ {t} :
        /\ job[u].into # Nil => job[u].into \in live' /\ refs'[job[u].into] = {}
        /\ job[u].at # Nil => refs'[job[u].at] = refs[job[u].at]
  <2> TAKE u \in Thread \ {t}
  <2>1. Apart(job[t], job[u]) /\ JobOK(job[u], live, refs)
    BY DEF Base, Alone, JobsOK
  <2>2. job[u].into # Nil => /\ job[u].into \in Tag \cap live /\ refs[job[u].into] = {}
                             /\ job[u].into # n
    <3>1. n \in Tag => job[u].into = Nil
      BY <1>4, OneTagJob
    <3> QED  BY <2>1, <3>1 DEF JobOK, Merges
  <2>3. job[u].at # n /\ job[u].at \in Node \cup {Nil}
    BY <1>1, <1>3, <2>1 DEF Apart, n, Shapes, Jobs
  <2> QED  BY <1>7, <1>8, <2>2, <2>3, NilIs
<1>10. \A u \in Thread \ {t} : Apart(j, job[u]) /\ Apart(job[u], j)
  <2> TAKE u \in Thread \ {t}
  <2>1. Apart(job[t], job[u])
    BY DEF Base, Alone
  <2> QED  BY <1>5, <2>1 DEF Apart
<1>11. JobOK(j, live', refs')
  <2>1. Idles(j) /\ Unlinks(j, live') /\ Reads(j, refs')
    BY <1>5 DEF Idles, Unlinks, Reads
  <2>2. Purges(j, live')
    BY <1>3, <1>4, <1>5, <1>8 DEF JobOK, Purges
  <2>3. Merges(j, live', refs')
    <3>1. job[t].into # Nil => refs'[job[t].into] = {}
      <4>1. job[t].into # Nil /\ job[t].into = n => cleaned = {}
        BY <1>4, <1>6 DEF Swept
      <4> QED  BY <1>6, <1>7, <4>1, NilIs
    <3> QED  BY <1>5, <1>6, <1>8, <3>1 DEF Merges
  <2> QED  BY <1>3, <1>5, <2>1, <2>2, <2>3 DEF JobOK
<1>12. OneTagEach(refs')
  <2>1. CASE job[t].into = Nil \/ n \notin Tag
    <3>1. \A b \in Tag : refs'[b] \subseteq refs[b]
      BY <1>4, <1>7, <2>1, NilIs DEF Swept
    <3> QED  BY <1>3, <3>1, FewerMakeNoCycle
  <2>2. CASE job[t].into # Nil /\ n \in Tag
    <3> DEFINE c == job[t].into
    <3>1. c \in Tag /\ refs[c] = {}
      BY <1>6, <2>2
    <3>2. cleaned = {IF r = job[t].target THEN c ELSE r : r \in refs[n]}
      BY <1>4, <2>2 DEF Swept
    <3>3. \A r, s \in refs[n] : r = s
      BY <1>3, <2>2 DEF OneTagEach
    <3>4. cleaned = refs[n] \/ (cleaned = {c} /\ refs[n] # {})
      <4>1. CASE job[t].target \in refs[n]
        <5>1. refs[n] = {job[t].target}
          BY <3>3, <4>1
        <5> QED  BY <3>2, <5>1
      <4>2. CASE job[t].target \notin refs[n]
        BY <3>2, <4>2
      <4> QED  BY <4>1, <4>2
    <3> HIDE DEF c
    <3>5. CASE cleaned = refs[n]
      <4>1. \A b \in Tag : refs'[b] \subseteq refs[b]
        BY <1>7, <3>5, NilIs
      <4> QED  BY <1>3, <4>1, FewerMakeNoCycle
    <3>6. CASE cleaned = {c} /\ refs[n] # {}
      <4>1. n # c
        BY <3>1, <3>6
      <4>2. \A b \in Tag : refs'[b] = refs[b] \/ (b = n /\ refs'[b] = {c})
        BY <1>7, <3>6, NilIs
      <4> QED  BY <1>3, <2>2, <3>1, <4>1, <4>2, MergeMakesNoCycle
    <3> QED  BY <3>4, <3>5, <3>6
  <2> QED  BY <2>1, <2>2
<1>13. \A r \in cleaned : r \in refs[n] \/ r \in live
  <2>1. CASE job[t].into = Nil
    BY <1>4, <2>1 DEF Swept
  <2>2. CASE job[t].into # Nil
    BY <1>4, <1>6, <2>2 DEF Swept
  <2> QED  BY <2>1, <2>2
<1>14. \A x \in live' : \A r \in refs'[x] : r \in refs[x] \/ r \in Held'
  <2> TAKE x \in live'
  <2>1. x \in Node
    BY <1>3, <1>8 DEF Shapes
  <2> QED  BY <1>7, <1>8, <1>13, <2>1 DEF Held
<1>15. \A r : r \in live => r \in Held'
  BY <1>8 DEF Held
<1>16. ASSUME NEW x \in live', NEW r \in refs'[x], r \notin Held', r \in live \/ Owes(job[t], x, r)
       PROVE  Owes(j, x, r)
  <2>1. Owes(job[t], x, r) /\ x \in Node
    BY <1>3, <1>8, <1>15, <1>16 DEF Shapes
  <2>2. x # n
    <3> SUFFICES ASSUME x = n PROVE FALSE
      OBVIOUS
    <3>1. r \in cleaned /\ job[t].into = Nil /\ r \in job[t].ids
      BY <1>7, <1>16, <2>1 DEF Owes
    <3> QED  BY <1>4, <3>1 DEF Swept
  <2> QED  BY <1>4, <1>5, <2>1, <2>2 DEF Owes, n
<1>17. \A x, r : Dooms(job[t], x, r) => Dooms(j, x, r)
  BY <1>4, <1>5 DEF Dooms
<1>18. \A s \in MutationSet \cap live' : Pin[s] \notin Held' =>
          (Pin[s] \in live \/ Dooms(job[t], s, Pin[s]) => Dooms(j, s, Pin[s]))
  BY <1>15, <1>17
<1>19. \A c \in Chat \cap live' : Subject[c] \notin Held' =>
          (Subject[c] \in live \/ Dooms(job[t], c, Subject[c]) => Dooms(j, c, Subject[c]))
  BY <1>15, <1>17
<1>20. /\ job' = [job EXCEPT ![t] = j] /\ j \in Jobs /\ bad' \subseteq live' \cap Scene
       /\ refs' \in [Node -> SUBSET (Node \ Chat)] /\ live' \subseteq live /\ above' = above
       /\ late' = late
  BY <1>2, <1>3, <1>5, <1>7, <1>8 DEF Shapes
<1>21. Base'
  BY <1>9, <1>10, <1>11, <1>12, <1>20, StepBase
<1>22. Owed => Owed'
  BY <1>14, <1>16, <1>18, <1>19, <1>20, StepOwed
<1> QED  BY <1>21, <1>22

\* What a save may write once it has passed its checks
LEMMA CheckedIs ==
  ASSUME Base, NEW x \in Scene, NEW rs \in Edits(x)
  PROVE  {Canonical(r) : r \in rs} \in SUBSET (Node \ Chat)
<1>1. Shapes /\ OneTagEach(refs) /\ x \in Node
  BY DEF Base, Node
<1>2. ASSUME NEW r \in rs PROVE r \in Node \ Chat
  <2>1. r \in Healed(refs[x]) \/ r \in (Tag \cup Entity) \cap ById
    BY DEF Edits
  <2>2. CASE r \in Healed(refs[x])
    <3>1. refs[x] \subseteq Node \ Chat
      BY <1>1 DEF Shapes
    <3> QED  BY <2>2, <3>1 DEF Healed
  <2>3. CASE r \in (Tag \cup Entity) \cap ById
    BY <2>3, KindsApart DEF Node
  <2> QED  BY <2>1, <2>2, <2>3
<1>3. \A r \in rs : Canonical(r) \in Node \ Chat
  BY <1>1, <1>2, SurvivorIs
<1> QED  BY <1>3

LEMMA SavesStep ==
  ASSUME Base, SavesOK, [Next]_vars
  PROVE  SavesOK'
<1>1. ASSUME NEW x \in Scene, NEW rs \in Edits(x), CheckSave(x, rs) PROVE SavesOK'
  <2>1. {Canonical(r) : r \in rs} \in SUBSET (Node \ Chat)
    BY CheckedIs
  <2>2. saving' = [saving EXCEPT ![x] = {{Canonical(r) : r \in rs}}] /\ late' = late
    BY <1>1 DEF CheckSave
  <2> QED  BY <2>1, <2>2 DEF SavesOK
<1>2. ASSUME NEW x \in Scene, WriteSave(x) PROVE SavesOK'
  <2>1. PICK new \in saving[x] :
          late' = {p \in late : p[1] # x} \cup {<<x, r>> : r \in new \ (live \cup above)}
    BY <1>2 DEF WriteSave
  <2>2. new \subseteq Node /\ saving' = [saving EXCEPT ![x] = {}]
    BY <1>2 DEF WriteSave, SavesOK
  <2> QED  BY <2>1, <2>2 DEF SavesOK
<1>3. ASSUME NEW x \in Scene, DropSave(x) PROVE SavesOK'
  BY <1>3 DEF DropSave, SavesOK
<1>4. CASE UNCHANGED <<saving, late>>
  BY <1>4 DEF SavesOK
<1>5. \/ UNCHANGED <<saving, late>>
      \/ \E x \in Scene : WriteSave(x) \/ DropSave(x) \/ \E rs \in Edits(x) : CheckSave(x, rs)
  BY DEF Next, vars, Break, Repair, StartDelete, StartMerge, Take, Visit, Redirect, Unlink,
         BeginPurge, Rewrite, Fail
<1> QED  BY <1>1, <1>2, <1>3, <1>4, <1>5

\* A save is written
LEMMA WriteLeft ==
  ASSUME Base, SavesOK, ~Overlap, ~Revives, NEW x \in Scene, WriteSave(x)
  PROVE  Base' /\ (Owed => Owed')
<1> PICK new \in saving[x] :
       /\ refs' = [refs EXCEPT ![x] = new]
       /\ late' = {p \in late : p[1] # x} \cup {<<x, r>> : r \in new \ (live \cup above)}
  BY DEF WriteSave
<1>1. /\ x \in live /\ live' = live /\ bad' = bad \ {x} /\ UNCHANGED <<above, job>>
      /\ \A t \in Thread : job[t].at # x
  BY DEF WriteSave
<1>2. Shapes /\ OneTagEach(refs)
  BY DEF Base
<1>4. new \in SUBSET (Node \ Chat)
  BY DEF SavesOK
<1>5. x \in Node /\ x \notin Tag
  BY KindsApart DEF Node
<1>6. refs' \in [Node -> SUBSET (Node \ Chat)] /\ refs'[x] = new
      /\ \A y \in Node \ {x} : refs'[y] = refs[y]
  BY <1>1, <1>2, <1>4, <1>5 DEF Shapes
<1>7. Shapes'
  BY <1>1, <1>2, <1>6 DEF Shapes
<1>8. JobsOK'
  <2>1. ASSUME NEW t \in Thread PROVE JobOK(job[t], live, refs')
    <3>1. JobOK(job[t], live, refs) /\ job[t] \in Jobs
      BY <1>2 DEF Base, JobsOK, Shapes
    <3>2. job[t].into # Nil => job[t].into \in live /\ refs'[job[t].into] = {}
      <4>1. job[t].into # Nil => job[t].into \in Tag \cap live /\ refs[job[t].into] = {}
        BY <3>1 DEF JobOK, Merges
      <4> QED  BY <1>5, <1>6, <4>1, NilIs
    <3>3. job[t].at # Nil => refs'[job[t].at] = refs[job[t].at]
      <4>1. job[t].at \in Node \cup {Nil} /\ job[t].at # x
        BY <1>1, <3>1 DEF Jobs
      <4> QED  BY <1>6, <4>1
    <3> QED  BY <3>1, <3>2, <3>3, StaysOK
  <2> QED  BY <1>1, <2>1 DEF JobsOK
<1>9. Alone' /\ Held' = Held /\ (Owed => PinsOwed' /\ SubjectsOwed')
  <2>1. Held' = Held
    BY <1>1 DEF Held
  <2> QED  BY <1>1, <2>1 DEF Base, Owed, Alone, PinsOwed, SubjectsOwed
<1>10. OneTagEach(refs')
  <2>1. \A b \in Tag : refs'[b] \subseteq refs[b]
    BY <1>5, <1>6, NilIs
  <2> QED  BY <1>2, <2>1, FewerMakeNoCycle
<1>11. Owed => RefsOwed'
  <2> SUFFICES ASSUME Owed PROVE RefsOwed'
    OBVIOUS
  <2>1. ASSUME NEW y \in live, NEW r \in refs'[y], r \notin Held, <<y, r>> \notin late'
        PROVE  \E t \in Thread : Owes(job[t], y, r)
    <3>1. y # x /\ y \in Node
      BY <1>2, <1>6, <2>1 DEF Shapes, Held
    <3>2. r \in refs[y] /\ <<y, r>> \notin late
      BY <1>6, <2>1, <3>1
    <3> QED  BY <2>1, <3>2 DEF Owed, RefsOwed
  <2> QED  BY <1>1, <1>9, <2>1 DEF RefsOwed
<1> QED  BY <1>7, <1>8, <1>9, <1>10, <1>11 DEF Base, Owed

\* Whether a file can be parsed
LEMMA ParsesLeft ==
  ASSUME Base, UNCHANGED <<live, above, refs, job, late>>, bad' \subseteq live \cap Scene
  PROVE  Base' /\ (Owed => Owed')
<1>1. Shapes' /\ OneTagEach(refs')
  BY DEF Base, Shapes
<1>2. JobsOK' /\ Alone'
  BY DEF Base, JobsOK, Alone
<1>3. Held' = Held
  BY DEF Held
<1>4. Owed => Owed'
  BY <1>3 DEF Owed, RefsOwed, PinsOwed, SubjectsOwed
<1> QED  BY <1>1, <1>2, <1>4 DEF Base

LEMMA StepBoth ==
  ASSUME ~Overlap, ~TagRace, ~Revives, Base, SavesOK, [Next]_vars,
         \A t \in Thread, a, b \in Tag : StartMerge(t, a, b) => refs[Canonical(b)] = {}
  PROVE  Base' /\ (Owed /\ ~cut' => Owed')
<1> DEFINE Both == Base' /\ (Owed /\ ~cut' => Owed')
<1>1. bad \subseteq live \cap Scene
  BY DEF Base, Shapes
<1>2. CASE UNCHANGED vars
  BY <1>1, <1>2, ParsesLeft DEF vars
<1>3. CASE \E x \in Scene : \/ Break(x) \/ Repair(x) \/ DropSave(x)
                           \/ \E rs \in Edits(x) : CheckSave(x, rs)
  <2>1. UNCHANGED <<live, above, refs, job, late>> /\ bad' \subseteq live \cap Scene
    BY <1>1, <1>3 DEF Break, Repair, DropSave, CheckSave
  <2> QED  BY <2>1, ParsesLeft
<1>4. CASE \E x \in Scene : WriteSave(x)
  BY <1>4, WriteLeft
<1>5. ASSUME NEW t \in Thread, NEW n \in Tag \cup Entity \cup MutationSet \cup Scene,
             StartDelete(t, n)
      PROVE  Both
  BY <1>5, StartDeleteLeft
<1>6. ASSUME NEW t \in Thread, NEW a \in Tag, NEW b \in Tag, StartMerge(t, a, b) PROVE Both
  BY <1>6, StartMergeLeft
<1>7. ASSUME NEW t \in Thread, Visit(t) PROVE Both
  BY <1>7, VisitLeft
<1>8. ASSUME NEW t \in Thread, Redirect(t) PROVE Both
  BY <1>8, RedirectLeft
<1>9. ASSUME NEW t \in Thread, Unlink(t) PROVE Both
  BY <1>9, UnlinkLeft
<1>10. ASSUME NEW t \in Thread, BeginPurge(t) PROVE Both
  BY <1>10, BeginPurgeLeft
<1>11. ASSUME NEW t \in Thread, Rewrite(t) PROVE Both
  BY <1>11, RewriteLeft
<1>12. ASSUME NEW t \in Thread, Fail(t) PROVE Both
  <2>1. job' = [job EXCEPT ![t] = Idle] /\ UNCHANGED <<live, above, bad, refs, late>> /\ cut'
    BY <1>12 DEF Fail
  <2> QED  BY <2>1, EndBase
<1> HIDE DEF Both
<1>13. Both
  BY <1>2, <1>3, <1>4, <1>5, <1>6, <1>7, <1>8, <1>9, <1>10, <1>11, <1>12 DEF Next, Both
<1> QED  BY <1>13 DEF Both

\* When no tag is deleted or merged, none owes it a redirect to what is gone
LEMMA SurvivorsFree ==
  ASSUME Base, SavesOK, Owed, ~TagRace, NEW t \in Thread, NEW a \in Tag, NEW b \in Tag,
         StartMerge(t, a, b)
  PROVE  refs[Canonical(b)] = {}
<1> DEFINE c == Canonical(b)
<1> HIDE DEF c
<1>1. b \in ById /\ \A u \in Thread : job[u].target \notin Tag
  BY DEF StartMerge, TagAtWork
<1>2. Shapes /\ OneTagEach(refs)
  BY DEF Base
<1>3. c \in Tag \cap ById /\ refs[c] \cap ById = {}
  BY <1>1, <1>2, SurvivorIs DEF c
<1>4. c \in live
  BY <1>2, <1>3, KindsApart DEF ById, Shapes
<1>5. ASSUME NEW r \in refs[c] PROVE FALSE
  <2>1. r \in Tag /\ r \notin ById
    BY <1>2, <1>3, <1>5 DEF OneTagEach
  <2>2. r \notin Held
    BY <1>2, <2>1, KindsApart DEF ById, Shapes, Held
  <2>0. <<c, r>> \notin late
    BY <1>3, KindsApart DEF SavesOK
  <2>3. PICK u \in Thread : Owes(job[u], c, r)
    BY <1>4, <1>5, <2>0, <2>2 DEF Owed, RefsOwed
  <2>4. JobOK(job[u], live, refs)
    BY DEF Base, JobsOK
  <2> QED  BY <1>1, <2>1, <2>3, <2>4 DEF Owes, JobOK
<1> QED  BY <1>5 DEF c

LEMMA StepLeft ==
  ASSUME ~Overlap, ~TagRace, ~Revives, LeftInv, [Next]_vars
  PROVE  LeftInv'
<1>1. cut' \in BOOLEAN /\ (cut => cut')
  BY DEF LeftInv, Next, vars, Break, Repair, CheckSave, WriteSave, DropSave, StartDelete, StartMerge, Take, Visit,
         Redirect, Unlink, BeginPurge, Rewrite, Fail
<1>2. CASE ~cut'
  <2>1. Base /\ SavesOK /\ Owed
    BY <1>1, <1>2 DEF LeftInv
  <2>2. Base' /\ SavesOK' /\ Owed'
    BY <1>2, <2>1, SurvivorsFree, StepBoth, SavesStep
  <2> QED  BY <1>1, <2>2 DEF LeftInv
<1> QED  BY <1>1, <1>2 DEF LeftInv

\* When nothing is owed, nothing leads nowhere
LEMMA LeftImplies == LeftInv => NothingLeftBehind
<1> SUFFICES ASSUME Base, SavesOK, Owed, \A t \in Thread : job[t] = Idle
             PROVE  /\ \A n \in live \ bad : \A r \in refs[n] :
                          r \in ById \cup bad \/ <<n, r>> \in late
                    /\ \A s \in MutationSet \cap live : Pin[s] \in live \cup above
                    /\ \A c \in Chat \cap live : Subject[c] \in live \cup above
                    /\ \A a \in Tag \cap live : refs[a] # {} => Canonical(a) # a
  BY DEF LeftInv, NothingLeftBehind
<1>1. \A t \in Thread : \A x, r : ~Owes(job[t], x, r) /\ ~Dooms(job[t], x, r)
  BY DoneIs
<1>2. \A n \in live : \A r \in refs[n] : r \in live \cup above \/ <<n, r>> \in late
  BY <1>1 DEF Owed, RefsOwed, Held
<1>3. \A n \in live \ bad : \A r \in refs[n] : r \in ById \cup bad \/ <<n, r>> \in late
  BY <1>2 DEF ById
<1>4. \A s \in MutationSet \cap live : Pin[s] \in live \cup above
  BY <1>1 DEF Owed, PinsOwed, Held
<1>5. \A c \in Chat \cap live : Subject[c] \in live \cup above
  BY <1>1 DEF Owed, SubjectsOwed, Held
<1>6. ASSUME NEW a \in Tag \cap live, refs[a] # {}, Canonical(a) = a PROVE FALSE
  <2>1. OneTagEach(refs) /\ Shapes
    BY DEF Base
  <2>2. \A r \in Tag \cap (live \cup above) : r \in ById
    BY <2>1, KindsApart DEF Shapes, ById
  <2>3. refs[a] \subseteq Tag /\ refs[a] \subseteq live \cup above
    <3>1. \A r : <<a, r>> \notin late
      BY KindsApart DEF SavesOK
    <3> QED  BY <1>2, <2>1, <3>1 DEF OneTagEach
  <2>4. refs[a] \cap ById = {}
    BY <1>6, <2>1, <2>2, SurvivorIs
  <2> QED  BY <1>6, <2>2, <2>3, <2>4
<1> QED  BY <1>3, <1>4, <1>5, <1>6

(***************************************************************************)
(* When no delete or merge is under way and all of them ran through, no    *)
(* file refers to a node that is gone, but by a reference that a save had  *)
(* checked before the node went and wrote after; no set is pinned to one,  *)
(* no chat is about one, and every redirect leads to a tag.  For all       *)
(* nodes, any number of requests and all orders of their steps, when no    *)
(* file is written between a sweep's read and write of it, no save writes  *)
(* a scene that was deleted since its checks, and tags are deleted and     *)
(* merged one at a time.                                                   *)
(***************************************************************************)
THEOREM NothingIsLeftBehind ==
  ASSUME ~Overlap, ~TagRace, ~Revives
  PROVE  Spec => []NothingLeftBehind
<1>1. Init => LeftInv
  BY InitLeft
<1>2. LeftInv /\ [Next]_vars => LeftInv'
  BY StepLeft
<1>3. LeftInv => NothingLeftBehind
  BY LeftImplies
<1> QED  BY <1>1, <1>2, <1>3, PTL DEF Spec
-----------------------------------------------------------------------------
(* What scenes show.  Here no tag is deleted that is merged itself, or to   *)
(* which others lead by way of a third, and no delete or merge has to have  *)
(* run through: requests may stop anywhere.                                 *)

\* Where one set of redirects takes each node of P as another does, and keeps
\* to P, they end at the same
LEMMA CanonicalSame ==
  ASSUME NEW R, NEW B, NEW R2, NEW B2, NEW P, NEW n \in P,
         \A x \in P : HopIn(R, B, x) \in P /\ HopIn(R2, B2, x) = HopIn(R, B, x)
  PROVE  CanonIn(R2, B2, n) = CanonIn(R, B, n)
<1>1. PICK w : Walks(R, B, w, n)
        /\ CanonIn(R, B, n) = IF HopIn(R, B, w[TagCount]) = w[TagCount] THEN w[TagCount] ELSE n
  BY WalkIs
<1>2. PICK v : Walks(R2, B2, v, n)
        /\ CanonIn(R2, B2, n) = IF HopIn(R2, B2, v[TagCount]) = v[TagCount] THEN v[TagCount] ELSE n
  BY WalkIs
<1>3. \A k \in 0..TagCount : w[k] \in P
  BY <1>1, WalkStays
<1>4. \A k \in 0..TagCount : v[k] = w[k]
  <2> DEFINE Bad == {k \in 0..TagCount : v[k] # w[k]}
  <2>1. CASE Bad = {}
    BY <2>1
  <2>2. CASE Bad # {}
    <3>1. PICK k \in Bad : \A y \in Bad : k <= y
      <4>1. Bad \subseteq Nat
        BY TagsFinite
      <4> HIDE DEF Bad
      <4> QED  BY <2>2, <4>1, Least
    <3>2. k # 0
      BY <1>1, <1>2, WalkSteps
    <3>3. k \in 1..TagCount /\ k - 1 \in 0..TagCount /\ k - 1 \notin Bad
      BY <3>1, <3>2, TagsFinite
    <3>4. v[k - 1] = w[k - 1] /\ w[k - 1] \in P
      BY <1>3, <3>3
    <3>5. w[k] = HopIn(R, B, w[k - 1]) /\ v[k] = HopIn(R2, B2, v[k - 1])
      BY <1>1, <1>2, <3>3, WalkSteps
    <3>6. v[k] = w[k]
      BY <3>4, <3>5
    <3> QED  BY <3>6
  <2> QED  BY <2>1, <2>2
<1>5. TagCount \in 0..TagCount
  BY TagsFinite
<1> QED  BY <1>1, <1>2, <1>3, <1>4, <1>5

\* What is not redirected stands for itself
LEMMA CanonicalStill ==
  ASSUME NEW R, NEW B, NEW n, HopIn(R, B, n) = n
  PROVE  CanonIn(R, B, n) = n
<1> DEFINE P == {n}
<1>1. n \in P /\ \A x \in P : HopIn(R, B, x) \in P
  OBVIOUS
<1> HIDE DEF P
<1>2. CanonIn(R, B, n) \in P
  BY <1>1, CanonicalStays
<1> QED  BY <1>2 DEF P

\* What is redirected to a tag that is not stands for that one
LEMMA CanonicalOfOne ==
  ASSUME NEW R, NEW B, OneTagEach(R), NEW a \in Tag, NEW c \in Tag,
         HopIn(R, B, a) = c, HopIn(R, B, c) = c, a # c
  PROVE  CanonIn(R, B, a) = c
<1> DEFINE P == {a, c}
<1>1. a \in P /\ \A x \in P : HopIn(R, B, x) \in P
  OBVIOUS
<1> HIDE DEF P
<1>2. CanonIn(R, B, a) \in P
  BY <1>1, CanonicalStays
<1>3. HopIn(R, B, CanonIn(R, B, a)) = CanonIn(R, B, a)
  BY CanonicalEnds
<1> QED  BY <1>2, <1>3 DEF P

\* What the index does not know stands for nothing it knows
LEMMA CanonicalLost ==
  ASSUME NEW R, NEW B, OneTagEach(R), NEW n
  PROVE  /\ CanonIn(R, B, n) \in B <=> n \in B
         /\ n \notin Tag => CanonIn(R, B, n) = n
<1>1. n \in B => CanonIn(R, B, n) \in B
  BY CanonicalKnown
<1>2. n \notin Tag \cap B => CanonIn(R, B, n) = n
  <2>1. n \notin Tag \cap B => HopIn(R, B, n) = n
    BY DEF HopIn
  <2> QED  BY <2>1, CanonicalStill
<1> QED  BY <1>1, <1>2

\* What a step of others does to what a scene shows
LEMMA FollowsIs ==
  ASSUME NEW x, OneTagEach(refs), OneTagEach(refs'), NEW gone,
         gone = UNION {job[t].ids : t \in Thread},
         \A q \in refs[x] \cap ById :
            CanonIn(refs, ById, q) \in ById' /\ (CanonIn(refs, ById, q) \in gone => q \in ById') =>
               \E p \in refs'[x] \cap ById' : CanonIn(refs', ById', p) = CanonIn(refs', ById', q),
         \A p \in refs'[x] \cap ById' : \E q \in refs[x] \cap ById :
            /\ CanonIn(refs', ById', q) = CanonIn(refs', ById', p)
            /\ CanonIn(refs, ById, q) \in gone => CanonIn(refs, ById, q) = CanonIn(refs', ById', p)
  PROVE  Follows(x)
<1>1. Healed(refs[x]) = refs[x] \cap ById
  <2>1. \A r : Canonical(r) \in ById <=> r \in ById
    BY CanonIs, CanonicalLost
  <2> QED  BY <2>1 DEF Healed
<1>2. Reading(x)' = {CanonIn(refs', ById', r) : r \in refs'[x] \cap ById'}
  <2>1. \A r : Canonical(r)' = CanonIn(refs', ById', r)
    BY CanonIs
  <2>2. \A r : CanonIn(refs', ById', r) \in ById' <=> r \in ById'
    BY CanonicalLost
  <2>3. Healed(refs[x])' = refs'[x] \cap ById'
    BY <2>1, <2>2 DEF Healed
  <2>4. Reading(x)' = {Canonical(r)' : r \in Healed(refs[x])'}
    BY DEF Reading
  <2> QED  BY <2>1, <2>3, <2>4
<1>3. \A q : Canonical(q) = CanonIn(refs, ById, q) /\ Canonical(q)' = CanonIn(refs', ById', q)
  BY CanonIs
<1> QED  BY <1>1, <1>2, <1>3 DEF Follows

\* The tags that lead to n in so many hops
Leads(w, n) ==
  w = [k \in 0..TagCount |-> IF k = 0 THEN {n}
                             ELSE w[k - 1] \cup {a \in Tag \cap ById : refs[a] \cap w[k - 1] # {}}]

LEMMA RedirectsIs ==
  ASSUME NEW n
  PROVE  \E w : Leads(w, n) /\ Redirects(n) = w[TagCount] \ {n}
<1> DEFINE More(near) == near \cup {a \in Tag \cap ById : refs[a] \cap near # {}}
           Is(c, k) == c = [i \in 0..k |-> IF i = 0 THEN {n} ELSE More(c[i - 1])]
           Good(k) == \E c : Is(c, k)
           Bad == {k \in Nat : ~Good(k)}
<1>1. Good(0)
  <2>1. Is([i \in 0..0 |-> {n}], 0)
    OBVIOUS
  <2> QED  BY <2>1
<1>2. ASSUME NEW k \in Nat \ {0}, Good(k - 1) PROVE Good(k)
  <2>1. PICK c : Is(c, k - 1)
    BY <1>2
  <2> DEFINE d == [i \in 0..k |-> IF i = k THEN More(c[k - 1]) ELSE c[i]]
  <2> HIDE DEF More
  <2>2. \A i \in 0..k : d[i] = IF i = 0 THEN {n} ELSE More(d[i - 1])
    <3> TAKE i \in 0..k
    <3>1. CASE i = 0
      BY <2>1, <3>1
    <3>2. CASE i # 0
      <4>1. i - 1 \in 0..k - 1 /\ i - 1 # k /\ i - 1 \in 0..k
        BY <3>2
      <4>2. d[i - 1] = c[i - 1]
        BY <4>1
      <4>3. CASE i = k
        BY <3>2, <4>2, <4>3
      <4>4. CASE i # k
        <5>1. i \in 0..k - 1
          BY <4>4
        <5>2. c[i] = More(c[i - 1])
          BY <2>1, <3>2, <5>1
        <5> QED  BY <3>2, <4>2, <4>4, <5>2
      <4> QED  BY <4>3, <4>4
    <3> QED  BY <3>1, <3>2
  <2>3. d = [i \in 0..k |-> d[i]]
    OBVIOUS
  <2> HIDE DEF d
  <2>4. Is(d, k)
    BY <2>2, <2>3
  <2> QED  BY <2>4
<1>3. Good(TagCount)
  <2>1. CASE Bad = {}
    BY <2>1, TagsFinite
  <2>2. CASE Bad # {}
    <3> HIDE DEF Good
    <3>1. PICK k \in Bad : \A y \in Bad : k <= y
      BY <2>2, Least
    <3>2. k # 0
      BY <1>1
    <3>3. k - 1 \in Nat /\ k - 1 \notin Bad
      BY <3>1, <3>2
    <3> QED  BY <1>2, <3>2, <3>3
  <2> QED  BY <2>1, <2>2
<1> DEFINE within[k \in 0..Cardinality(Tag)] ==
      IF k = 0 THEN {n}
      ELSE LET near == within[k - 1]
           IN  near \cup {a \in Tag \cap ById : refs[a] \cap near # {}}
<1>4. within = CHOOSE c : Is(c, TagCount)
  BY DEF TagCount
<1>5. Redirects(n) = within[TagCount] \ {n}
  BY DEF Redirects, TagCount
<1> HIDE DEF within
<1>6. Is(within, TagCount)
  BY <1>3, <1>4
<1>7. Leads(within, n)
  BY <1>6 DEF Leads
<1> QED  BY <1>5, <1>7

LEMMA LeadsOn ==
  ASSUME NEW n, NEW w, Leads(w, n)
  PROVE  /\ w[0] = {n}
         /\ \A k \in 1..TagCount : w[k] = w[k - 1] \cup {a \in Tag \cap ById : refs[a] \cap w[k - 1] # {}}
<1> DEFINE More(near) == near \cup {a \in Tag \cap ById : refs[a] \cap near # {}}
<1>1. w = [k \in 0..TagCount |-> IF k = 0 THEN {n} ELSE More(w[k - 1])]
  BY DEF Leads
<1> HIDE DEF More
<1>2. w[0] = {n} /\ \A k \in 1..TagCount : w[k] = More(w[k - 1])
  <2>1. 0 \in 0..TagCount /\ \A k \in 1..TagCount : k \in 0..TagCount /\ k # 0
    BY TagsFinite
  <2>2. \A k \in 0..TagCount : w[k] = IF k = 0 THEN {n} ELSE More(w[k - 1])
    BY <1>1
  <2> QED  BY <2>1, <2>2
<1> QED  BY <1>2 DEF More

\* All that lead there sooner lead there
LEMMA LeadsGrow ==
  ASSUME NEW n, NEW w, Leads(w, n), NEW i \in 0..TagCount
  PROVE  /\ w[i] \subseteq w[TagCount]
         /\ w[TagCount] \subseteq {n} \cup (Tag \cap ById)
<1>1. \A k \in i..TagCount : w[i] \subseteq w[k]
  <2> DEFINE Bad == {k \in i..TagCount : ~(w[i] \subseteq w[k])}
  <2>1. CASE Bad = {}
    BY <2>1
  <2>2. CASE Bad # {}
    <3>1. PICK k \in Bad : \A y \in Bad : k <= y
      <4>1. Bad \subseteq Nat
        BY TagsFinite
      <4> HIDE DEF Bad
      <4> QED  BY <2>2, <4>1, Least
    <3>2. k # i
      OBVIOUS
    <3>3. k \in 1..TagCount /\ k - 1 \in i..TagCount /\ k - 1 \notin Bad
      BY <3>1, <3>2, TagsFinite
    <3>4. w[i] \subseteq w[k - 1]
      BY <3>3
    <3>5. w[k - 1] \subseteq w[k]
      BY <3>3, LeadsOn
    <3> QED  BY <3>4, <3>5
  <2> QED  BY <2>1, <2>2
<1>2. \A k \in 0..TagCount : w[k] \subseteq {n} \cup (Tag \cap ById)
  <2> DEFINE Bad == {k \in 0..TagCount : ~(w[k] \subseteq {n} \cup (Tag \cap ById))}
  <2>1. CASE Bad = {}
    BY <2>1
  <2>2. CASE Bad # {}
    <3>1. PICK k \in Bad : \A y \in Bad : k <= y
      <4>1. Bad \subseteq Nat
        BY TagsFinite
      <4> HIDE DEF Bad
      <4> QED  BY <2>2, <4>1, Least
    <3>2. k # 0
      BY LeadsOn
    <3>3. k \in 1..TagCount /\ k - 1 \in 0..TagCount /\ k - 1 \notin Bad
      BY <3>1, <3>2, TagsFinite
    <3>4. w[k - 1] \subseteq {n} \cup (Tag \cap ById)
      BY <3>3
    <3>5. w[k] \subseteq {n} \cup (Tag \cap ById)
      BY <3>3, <3>4, LeadsOn
    <3> QED  BY <3>5
  <2> QED  BY <2>1, <2>2
<1>3. TagCount \in i..TagCount /\ TagCount \in 0..TagCount
  BY TagsFinite
<1> QED  BY <1>1, <1>2, <1>3

\* Where all that is taken along leads straight to a tag, nothing else leads
\* to it or to them
LEMMA AlongIs ==
  ASSUME Base, NEW n \in Tag, refs[n] = {}, \A a \in Along(n) : refs[a] = {n}
  PROVE  /\ n \notin Along(n) /\ Along(n) \subseteq Tag \cap live
         /\ \A a \in Tag \cap live : refs[a] \cap (Along(n) \cup {n}) # {} => a \in Along(n)
<1>1. PICK w : Leads(w, n) /\ Redirects(n) = w[TagCount] \ {n}
  BY RedirectsIs
<1>2. Shapes /\ OneTagEach(refs)
  BY DEF Base
<1>3. Along(n) = Redirects(n) \cap live
  BY DEF Along
<1>4. w[TagCount] \subseteq {n} \cup (Tag \cap ById) /\ \A i \in 0..TagCount : w[i] \subseteq w[TagCount]
  <2>1. \A i \in 0..TagCount : w[i] \subseteq w[TagCount] /\ w[TagCount] \subseteq {n} \cup (Tag \cap ById)
    BY <1>1, LeadsGrow
  <2>2. TagCount \in 0..TagCount
    BY TagsFinite
  <2> QED  BY <2>1, <2>2
<1>5. n \notin Along(n) /\ Along(n) \subseteq Tag \cap live
  BY <1>1, <1>3, <1>4
<1>6. \A a \in Tag \cap live : a \in Tag \cap ById
  BY <1>2, KindsApart DEF ById, Shapes
<1>7. TagCount >= 1
  <2>1. TagCount # 0
    BY TagsFinite, FS_EmptySet DEF TagCount
  <2> QED  BY <2>1, TagsFinite
<1>8. ASSUME NEW a \in Tag \cap live, n \in refs[a] PROVE a \in w[1]
  <2>1. 1 \in 1..TagCount
    BY <1>7, TagsFinite
  <2>2. w[1] = w[0] \cup {b \in Tag \cap ById : refs[b] \cap w[0] # {}} /\ w[0] = {n}
    BY <1>1, <2>1, LeadsOn
  <2> QED  BY <1>6, <1>8, <2>2
<1>9. ASSUME NEW a \in Tag \cap live, n \in refs[a] PROVE a \in Along(n)
  <2>1. a \in w[TagCount]
    BY <1>4, <1>7, <1>8, <1>9, TagsFinite
  <2>2. a # n
    BY <1>9
  <2> QED  BY <1>1, <1>3, <2>1, <2>2
<1>10. ASSUME NEW a \in Tag \cap live, NEW m \in Along(n), m \in refs[a] PROVE FALSE
  <2>1. m \in Tag \cap live /\ m # n /\ refs[m] = {n}
    BY <1>5
  <2>2. TagCount >= 2
    <3>1. {n, m} \subseteq Tag /\ IsFiniteSet({n, m}) /\ Cardinality({n, m}) = 2
      <4>1. IsFiniteSet({n}) /\ Cardinality({n}) = 1
        BY FS_Singleton
      <4> DEFINE S == {n}
      <4>2. m \notin S
        BY <2>1
      <4> HIDE DEF S
      <4>3. IsFiniteSet(S \cup {m}) /\ Cardinality(S \cup {m}) = Cardinality(S) + 1
        BY <4>1, <4>2, FS_AddElement DEF S
      <4>4. {n, m} = S \cup {m}
        BY DEF S
      <4> QED  BY <2>1, <4>1, <4>3, <4>4 DEF S
    <3> QED  BY <3>1, TagsFinite, FS_Subset DEF TagCount
  <2>3. m \in w[1]
    BY <1>8, <2>1
  <2>4. 2 \in 1..TagCount /\ 2 - 1 = 1 /\ 2 \in 0..TagCount
    BY <2>2, TagsFinite
  <2>5. w[2] = w[1] \cup {b \in Tag \cap ById : refs[b] \cap w[1] # {}}
    BY <1>1, <2>4, LeadsOn
  <2>6. a \in w[2]
    BY <1>6, <1>10, <2>3, <2>5
  <2>7. a \in w[TagCount] /\ a # n
    BY <1>4, <1>10, <2>4, <2>6
  <2>8. a \in Along(n)
    BY <1>1, <1>3, <2>7
  <2> QED  BY <1>10, <2>1, <2>8
<1> QED  BY <1>5, <1>9, <1>10

\* A tag's delete between two steps: the tags it takes along first, which lead
\* straight to it, then the tag, and nothing else leads to any of them
Cascades(j, L, R) ==
  j.stage = "unlink" /\ j.target \in Tag /\ j.files # <<>> =>
    /\ j.target \in L \cap j.ids /\ R[j.target] = {}
    /\ j.files[Len(j.files)] = j.target
    /\ \A i \in 1..Len(j.files) - 1 : /\ j.files[i] \in Tag /\ j.files[i] # j.target
                                      /\ R[j.files[i]] = {j.target}
    /\ \A a \in Tag \cap L : R[a] \cap j.ids # {} => R[a] = {j.target} /\ a \in Range(j.files)

\* A merge has its redirect written when it sweeps
Merged(j, L, R) ==
  j.into # Nil => j.ids = {} /\ (j.stage = "sweep" => j.target \in L /\ R[j.target] = {j.into})

\* A sweep takes out what nothing of H holds, but for what it has yet to delete
Gone(j, H) == j.stage = "sweep" => j.ids \cap H \subseteq Range(j.files)

GoesOn(j, L, H, R) == Cascades(j, L, R) /\ Merged(j, L, R) /\ Gone(j, H)

TagsLead == \A a \in Tag \cap live : refs[a] \subseteq live

Steady == Base /\ SavesOK /\ TagsLead /\ \A t \in Thread : GoesOn(job[t], live, Held, refs)

LEMMA IdleGoesOn ==
  ASSUME NEW L, NEW H, NEW R
  PROVE  GoesOn(Idle, L, H, R)
BY IdleIs DEF GoesOn, Cascades, Merged, Gone

LEMMA InitSteady == Init => Steady
<1> SUFFICES ASSUME Init PROVE Steady
  OBVIOUS
<1>1. Base /\ SavesOK
  BY InitLeft DEF LeftInv, Init
<1>2. TagsLead
  BY <1>1, NilIs DEF Init, TagsLead, Base, OneTagEach
<1>3. \A t \in Thread : GoesOn(job[t], live, Held, refs)
  BY IdleGoesOn DEF Init
<1> QED  BY <1>1, <1>2, <1>3 DEF Steady

\* A step of request t, which leaves tags alone while another works on them
LEMMA StepSteady ==
  ASSUME Steady, Base', SavesOK', NEW t \in Thread, NEW j, job' = [job EXCEPT ![t] = j],
         live' \subseteq live, above' = above, TagsLead', GoesOn(j, live', Held', refs'),
         \A u \in Thread \ {t} : job[u].target \in Tag =>
            /\ Tag \cap live \subseteq live'
            /\ \A a \in Tag : refs'[a] = refs[a]
  PROVE  Steady'
<1>1. job \in [Thread -> Jobs] /\ Held' \subseteq Held
  BY DEF Steady, Base, Shapes, Held
<1>2. job'[t] = j /\ \A u \in Thread \ {t} : job'[u] = job[u]
  BY <1>1
<1>3. ASSUME NEW u \in Thread \ {t} PROVE GoesOn(job[u], live', Held', refs')
  <2>1. GoesOn(job[u], live, Held, refs) /\ JobOK(job[u], live, refs)
    BY DEF Steady, Base, JobsOK
  <2>2. Gone(job[u], Held')
    BY <1>1, <2>1 DEF GoesOn, Gone
  <2>3. Merged(job[u], live', refs')
    <3>1. job[u].into # Nil => job[u].target \in Tag
      BY <2>1 DEF JobOK, Merges
    <3> QED  BY <2>1, <3>1 DEF GoesOn, Merged
  <2>4. Cascades(job[u], live', refs')
    <3> DEFINE k == job[u]
    <3> SUFFICES ASSUME k.stage = "unlink", k.target \in Tag, k.files # <<>>
                 PROVE  Cascades(k, live', refs')
      BY DEF Cascades
    <3>1. /\ k.target \in live \cap k.ids /\ refs[k.target] = {}
          /\ k.files[Len(k.files)] = k.target
          /\ \A i \in 1..Len(k.files) - 1 : /\ k.files[i] \in Tag /\ k.files[i] # k.target
                                            /\ refs[k.files[i]] = {k.target}
          /\ \A a \in Tag \cap live : refs[a] \cap k.ids # {} => refs[a] = {k.target} /\ a \in Range(k.files)
      BY <2>1 DEF GoesOn, Cascades
    <3>2. Tag \cap live \subseteq live' /\ \A a \in Tag : refs'[a] = refs[a]
      OBVIOUS
    <3> HIDE DEF k
    <3> QED  BY <3>1, <3>2 DEF Cascades
  <2> QED  BY <2>2, <2>3, <2>4 DEF GoesOn
<1>4. \A u \in Thread : GoesOn(job'[u], live', Held', refs')
  BY <1>2, <1>3
<1> QED  BY <1>4 DEF Steady

\* A step that leaves the files alone
LEMMA RestSteady ==
  ASSUME Steady, Base', SavesOK', NEW t \in Thread, NEW j, job' = [job EXCEPT ![t] = j],
         UNCHANGED <<live, above, refs>>, GoesOn(j, live, Held, refs)
  PROVE  Steady'
<1>1. live' = live /\ above' = above /\ refs' = refs /\ Held' = Held
  BY DEF Held
<1>2. TagsLead'
  BY <1>1 DEF Steady, TagsLead
<1> QED  BY <1>1, <1>2, StepSteady

\* A step that leaves the tags and the requests alone
LEMMA TagsSteady ==
  ASSUME Steady, Base', SavesOK', UNCHANGED <<live, above, job>>, \A a \in Tag : refs'[a] = refs[a]
  PROVE  Steady'
<1>1. Held' = Held
  BY DEF Held
<1>2. TagsLead'
  BY DEF Steady, TagsLead
<1>3. ASSUME NEW u \in Thread PROVE GoesOn(job[u], live, Held, refs')
  <2>1. GoesOn(job[u], live, Held, refs) /\ JobOK(job[u], live, refs)
    BY DEF Steady, Base, JobsOK
  <2>2. Merged(job[u], live, refs')
    <3>1. job[u].into # Nil => job[u].target \in Tag
      BY <2>1 DEF JobOK, Merges
    <3> QED  BY <2>1, <3>1 DEF GoesOn, Merged
  <2>3. Cascades(job[u], live, refs')
    BY <2>1 DEF GoesOn, Cascades
  <2> QED  BY <2>1, <2>2, <2>3 DEF GoesOn
<1> QED  BY <1>1, <1>2, <1>3 DEF Steady

LEMMA StartDeleteSteady ==
  ASSUME Steady, Base', SavesOK', ~LoseMerged, ~Relays, NEW t \in Thread,
         NEW n \in Tag \cup Entity \cup MutationSet \cup Scene, StartDelete(t, n)
  PROVE  Steady'
<1> DEFINE set == Along(n) \cup {n}
<1> PICK along \in SetToSeqs(Along(n)) :
       Take(t, [Idle EXCEPT !.stage = "unlink", !.target = n,
                            !.files = along \o <<n>>, !.ids = set])
  BY DEF StartDelete
<1> DEFINE files == along \o <<n>>
           j == [Idle EXCEPT !.stage = "unlink", !.target = n, !.files = files, !.ids = set]
<1>1. job' = [job EXCEPT ![t] = j] /\ UNCHANGED <<live, above, bad, refs>>
  BY DEF Take
<1>2. /\ j.stage = "unlink" /\ j.target = n /\ j.into = Nil /\ j.files = files /\ j.ids = set
  BY DEF Idle
<1> HIDE DEF j
<1>3. Merged(j, live, refs) /\ Gone(j, Held)
  BY <1>2 DEF Merged, Gone
<1>4. Cascades(j, live, refs)
  <2> SUFFICES ASSUME n \in Tag PROVE Cascades(j, live, refs)
    BY <1>2 DEF Cascades
  <2>1. n \in live /\ refs[n] = {} /\ \A a \in Along(n) : refs[a] = {n}
    BY DEF StartDelete
  <2>2. /\ n \notin Along(n) /\ Along(n) \subseteq Tag \cap live
        /\ \A a \in Tag \cap live : refs[a] \cap set # {} => a \in Along(n)
    BY <2>1, AlongIs DEF Steady
  <2>3. Along(n) \in SUBSET Node /\ n \in Node
    BY <2>2, NilIs
  <2>4. along \in Seq(Node) /\ Range(along) = Along(n)
    BY <2>3, AnyOrderIs
  <2>5. Range(files) = set
    BY <2>3, <2>4, OneMore
  <2>6. /\ Len(along) \in Nat /\ Len(files) = Len(along) + 1 /\ files[Len(files)] = n
        /\ \A i \in 1..Len(along) : files[i] = along[i] /\ along[i] \in Range(along)
    <3>1. DOMAIN along = 1..Len(along) /\ Len(along) \in Nat
      BY <2>4
    <3> QED  BY <2>3, <2>4, <3>1 DEF Range
  <2> HIDE DEF files
  <2>7. \A i \in 1..Len(files) - 1 : files[i] \in Along(n)
    BY <2>4, <2>6
  <2>8. \A a \in Tag \cap live : refs[a] \cap set # {} => refs[a] = {n} /\ a \in Range(files)
    BY <2>1, <2>2, <2>5
  <2> QED  BY <1>2, <2>1, <2>2, <2>6, <2>7, <2>8 DEF Cascades
<1> HIDE DEF files
<1> QED  BY <1>1, <1>3, <1>4, RestSteady DEF GoesOn

LEMMA StartMergeSteady ==
  ASSUME Steady, Base', SavesOK', NEW t \in Thread, NEW a \in Tag, NEW b \in Tag, StartMerge(t, a, b)
  PROVE  Steady'
<1> DEFINE c == Canonical(b)
<1> HIDE DEF c
<1> DEFINE j == [Idle EXCEPT !.stage = "redirect", !.target = a, !.into = c]
<1>1. job' = [job EXCEPT ![t] = j] /\ UNCHANGED <<live, above, bad, refs>>
  BY DEF StartMerge, Take, c
<1>2. j.stage = "redirect" /\ j.ids = {}
  BY DEF Idle
<1> HIDE DEF j
<1>3. GoesOn(j, live, Held, refs)
  BY <1>2 DEF GoesOn, Cascades, Merged, Gone
<1> QED  BY <1>1, <1>3, RestSteady

LEMMA EndSteady ==
  ASSUME Steady, Base', SavesOK', NEW t \in Thread, job' = [job EXCEPT ![t] = Idle],
         UNCHANGED <<live, above, refs>>
  PROVE  Steady'
BY IdleGoesOn, RestSteady

LEMMA BeginPurgeSteady ==
  ASSUME Steady, Base', SavesOK', NEW t \in Thread, BeginPurge(t)
  PROVE  Steady'
<1> DEFINE safe == SafeToPurge(job[t].ids)
           sets == {s \in MutationSet \cap live : Pin[s] \in safe}
           chats == {c \in Chat \cap live : Subject[c] \in safe \cup sets}
           rest == live \ (sets \cup chats)
<1>0. PICK first \in SetToSeqs(sets), then \in SetToSeqs(chats) :
        job' = [job EXCEPT ![t] = IF safe = {} THEN Idle
                  ELSE [job[t] EXCEPT !.stage = "sweep", !.ids = safe \cup sets,
                                      !.files = first \o then, !.todo = InOrder(rest)]]
  BY DEF BeginPurge
<1> DEFINE j == [job[t] EXCEPT !.stage = "sweep", !.ids = safe \cup sets,
                               !.files = first \o then, !.todo = InOrder(rest)]
<1>1. UNCHANGED <<live, above, bad, refs>> /\ job[t].stage = "unlink"
  BY DEF BeginPurge
<1>2. job' = [job EXCEPT ![t] = IF safe = {} THEN Idle ELSE j]
  BY <1>0
<1>3. job[t] \in Jobs /\ Shapes /\ JobOK(job[t], live, refs)
  BY DEF Steady, Base, JobsOK, Shapes
<1>4. safe \cap Held = {}
  BY DEF SafeToPurge, ById, Held
<1>5. sets \in SUBSET Node /\ chats \in SUBSET Node
  BY <1>3 DEF Shapes
<1> HIDE DEF safe, sets, chats, rest
<1>6. CASE safe = {}
  BY <1>1, <1>2, <1>6, EndSteady
<1>7. CASE safe # {}
  <2>1. job' = [job EXCEPT ![t] = j]
    BY <1>2, <1>7
  <2>2. /\ first \in Seq(Node) /\ then \in Seq(Node) /\ Range(first) = sets
    BY <1>5, AnyOrderIs
  <2> DEFINE files == first \o then
  <2>3. sets \subseteq Range(files)
    BY <2>2, ListsTogether
  <2> HIDE DEF files
  <2>4. j.stage = "sweep" /\ j.into = Nil /\ j.ids = safe \cup sets /\ j.files = files
    BY <1>1, <1>3 DEF Jobs, j, files, JobOK, Unlinks
  <2> HIDE DEF j
  <2>5. GoesOn(j, live, Held, refs)
    BY <1>4, <2>3, <2>4 DEF GoesOn, Cascades, Merged, Gone
  <2> QED  BY <1>1, <2>1, <2>5, RestSteady
<1> QED  BY <1>6, <1>7

\* A sweep that goes on to another file, or is at none
LEMMA SweepSteady ==
  ASSUME Steady, Base', SavesOK', NEW t \in Thread, job[t].stage = "sweep", job[t].files = <<>>,
         NEW j, j.stage = "sweep", j.target = job[t].target, j.into = job[t].into,
         j.ids = job[t].ids, j.files = <<>>,
         job' = [job EXCEPT ![t] = j], UNCHANGED <<live, above, refs>>
  PROVE  Steady'
<1>1. GoesOn(job[t], live, Held, refs)
  BY DEF Steady
<1>2. GoesOn(j, live, Held, refs)
  BY <1>1 DEF GoesOn, Cascades, Merged, Gone
<1> QED  BY <1>2, RestSteady

LEMMA VisitSteady ==
  ASSUME Steady, Base', SavesOK', NEW t \in Thread, Visit(t)
  PROVE  Steady'
<1> DEFINE k == NextAt(job[t])
           n == job[t].todo[k]
           todo == SubSeq(job[t].todo, k + 1, Len(job[t].todo))
           at == IF n \in bad THEN Nil ELSE n
           cleaned == IF n \in bad THEN {} ELSE Swept(job[t], refs[n])
           j == [job[t] EXCEPT !.todo = todo, !.at = at, !.cleaned = cleaned]
<1>1. job[t].stage = "sweep" /\ job[t].files = <<>> /\ UNCHANGED <<live, above, refs>>
  BY DEF Visit
<1>2. job' = [job EXCEPT ![t] = IF k = 0 \/ n \notin live THEN Idle ELSE j]
  BY DEF Visit, NextAt
<1>3. job[t] \in Jobs
  BY DEF Steady, Base, Shapes
<1> HIDE DEF k, n, todo, at, cleaned
<1>4. CASE k = 0 \/ n \notin live
  BY <1>1, <1>2, <1>4, EndSteady
<1>5. CASE ~(k = 0 \/ n \notin live)
  <2>1. job' = [job EXCEPT ![t] = j]
    BY <1>2, <1>5
  <2>2. /\ j.stage = "sweep" /\ j.target = job[t].target /\ j.into = job[t].into
        /\ j.ids = job[t].ids /\ j.files = <<>>
    BY <1>1, <1>3 DEF Jobs
  <2> HIDE DEF j
  <2> QED  BY <1>1, <2>1, <2>2, SweepSteady
<1> QED  BY <1>4, <1>5

LEMMA RedirectSteady ==
  ASSUME Steady, Base', SavesOK', NEW t \in Thread, Redirect(t)
  PROVE  Steady'
<1> DEFINE a == job[t].target
           c == job[t].into
           todo == InOrder(live \ bad)
           j == [job[t] EXCEPT !.stage = "sweep", !.todo = todo]
<1>1. CASE a \notin live
  <2>1. job' = [job EXCEPT ![t] = Idle] /\ UNCHANGED <<live, above, bad, refs>>
    BY <1>1 DEF Redirect
  <2> QED  BY <2>1, EndSteady
<1>2. CASE a \in live
  <2>1. /\ job[t].stage = "redirect" /\ job' = [job EXCEPT ![t] = j]
        /\ refs' = [refs EXCEPT ![a] = {c}] /\ UNCHANGED <<live, above, bad>>
    BY <1>2 DEF Redirect
  <2>2. Shapes /\ JobOK(job[t], live, refs) /\ job[t] \in Jobs /\ GoesOn(job[t], live, Held, refs)
    BY DEF Steady, Base, JobsOK, Shapes
  <2>3. a \in Tag /\ a \in Node /\ c \in live /\ c # Nil /\ job[t].ids = {}
    BY <2>1, <2>2, NilIs DEF JobOK, Merges, GoesOn, Merged
  <2> HIDE DEF todo
  <2>4. j.stage = "sweep" /\ j.target = a /\ j.into = c /\ j.ids = {}
    BY <2>2, <2>3 DEF Jobs
  <2> HIDE DEF j
  <2>5. refs'[a] = {c} /\ \A x \in Node \ {a} : refs'[x] = refs[x]
    BY <2>1, <2>2, <2>3 DEF Shapes
  <2>6. GoesOn(j, live', Held', refs')
    BY <1>2, <2>1, <2>4, <2>5 DEF GoesOn, Cascades, Merged, Gone
  <2>7. TagsLead'
    BY <2>1, <2>3, <2>5, NilIs DEF Steady, TagsLead
  <2>8. \A u \in Thread \ {t} : job[u].target \notin Tag
    BY <2>3, OneTagJob DEF Steady
  <2> QED  BY <2>1, <2>6, <2>7, <2>8, StepSteady
<1> QED  BY <1>1, <1>2

\* What a request unlinks
LEMMA UnlinkIs ==
  ASSUME Steady, NEW t \in Thread, job[t].files # <<>>
  PROVE  LET f == Head(job[t].files)
         IN  /\ job[t].into = Nil /\ f \in Node
             /\ f \in job[t].ids \/ f \in Chat
             /\ job[t].stage = "sweep" => f \in MutationSet \cup Chat
             /\ f \in Tag => job[t].stage = "unlink" /\ job[t].target \in Tag
<1> DEFINE f == Head(job[t].files)
<1>1. JobOK(job[t], live, refs) /\ job[t] \in Jobs
  BY DEF Steady, Base, JobsOK, Shapes
<1>2. f \in Node /\ f \in Range(job[t].files)
  <2>1. job[t].files \in Seq(Node)
    BY <1>1 DEF Jobs
  <2> QED  BY <2>1, HeadTail
<1> HIDE DEF f
<1>3. job[t].into = Nil /\ job[t].stage \in {"unlink", "sweep"}
  BY <1>1 DEF JobOK, Jobs, Idles, Merges
<1>4. CASE job[t].stage = "unlink"
  <2>1. f \in job[t].ids
    BY <1>1, <1>2, <1>4 DEF JobOK, Unlinks
  <2>2. f \in Tag => job[t].target \in Tag
    BY <1>1, <2>1 DEF JobOK
  <2> QED  BY <1>2, <1>3, <1>4, <2>1, <2>2 DEF f
<1>5. CASE job[t].stage = "sweep"
  <2>1. f \in MutationSet \cup Chat /\ (f \in job[t].ids \/ f \in Chat)
    BY <1>1, <1>2, <1>3, <1>5 DEF JobOK, Purges
  <2> QED  BY <1>2, <1>3, <1>5, <2>1, KindsApart DEF f
<1> QED  BY <1>3, <1>4, <1>5

\* A tag that is unlinked leads straight to the tag deleted, or is that one;
\* and none that stays leads to it
LEMMA UnlinkedTag ==
  ASSUME Steady, NEW t \in Thread, job[t].files # <<>>, Head(job[t].files) \in Tag
  PROVE  LET f == Head(job[t].files)
             n == job[t].target
         IN  /\ n \in Tag \cap live \cap job[t].ids /\ refs[n] = {}
             /\ f # n => refs[f] = {n}
             /\ \A a \in Tag \cap live : f \notin refs[a]
             /\ f \in job[t].ids
<1> DEFINE f == Head(job[t].files)
           n == job[t].target
           s == job[t].files
<1>1. job[t].stage = "unlink" /\ n \in Tag /\ f \in job[t].ids
  BY UnlinkIs, KindsApart
<1>2. /\ n \in live \cap job[t].ids /\ refs[n] = {} /\ s[Len(s)] = n
      /\ \A i \in 1..Len(s) - 1 : s[i] \in Tag /\ s[i] # n /\ refs[s[i]] = {n}
      /\ \A a \in Tag \cap live : refs[a] \cap job[t].ids # {} => refs[a] = {n} /\ a \in Range(s)
  BY <1>1 DEF Steady, GoesOn, Cascades
<1>3. s \in Seq(Node) /\ s # <<>>
  BY DEF Steady, Base, Shapes, Jobs
<1>4. Len(s) \in Nat \ {0} /\ f = s[1] /\ DOMAIN s = 1..Len(s)
  BY <1>3
<1> HIDE DEF f, n, s
<1>5. f # n => refs[f] = {n} /\ Len(s) # 1
  BY <1>2, <1>4
<1>6. ASSUME NEW a \in Tag \cap live, f \in refs[a] PROVE FALSE
  <2>1. refs[a] = {n} /\ a \in Range(s)
    BY <1>1, <1>2, <1>6
  <2>2. f = n
    BY <1>6, <2>1
  <2>3. Len(s) = 1
    <3>1. Len(s) # 1 => 1 \in 1..Len(s) - 1
      BY <1>4
    <3> QED  BY <1>2, <1>4, <2>2, <3>1
  <2>4. a = n
    BY <1>2, <1>4, <2>1, <2>3 DEF Range
  <2> QED  BY <1>2, <1>6, <2>4
<1> QED  BY <1>1, <1>2, <1>5, <1>6 DEF f, n

LEMMA UnlinkSteady ==
  ASSUME Steady, Base', SavesOK', NEW t \in Thread, Unlink(t)
  PROVE  Steady'
<1> DEFINE f == Head(job[t].files)
           s == job[t].files
           j == [job[t] EXCEPT !.files = Tail(s)]
<1>1. /\ s # <<>> /\ live' = live \ {f} /\ job' = [job EXCEPT ![t] = j] /\ UNCHANGED <<above, refs>>
  BY DEF Unlink
<1>2. Shapes /\ job[t] \in Jobs /\ GoesOn(job[t], live, Held, refs) /\ OneTagEach(refs)
  BY DEF Steady, Base, Shapes
<1>3. /\ job[t].into = Nil /\ f \in Node
      /\ f \in job[t].ids \/ f \in Chat
      /\ job[t].stage = "sweep" => f \in MutationSet \cup Chat
      /\ f \in Tag => job[t].stage = "unlink" /\ job[t].target \in Tag
  BY <1>1, UnlinkIs
<1>4. f \in Tag => \A a \in Tag \cap live : f \notin refs[a]
  BY <1>1, UnlinkedTag
<1>5. s \in Seq(Node) /\ Tail(s) \in Seq(Node) /\ Range(s) = {f} \cup Range(Tail(s))
  <2>1. s \in Seq(Node)
    BY <1>2 DEF Jobs
  <2> QED  BY <1>1, <2>1, HeadTail
<1>6. /\ j.stage = job[t].stage /\ j.target = job[t].target /\ j.into = Nil
      /\ j.ids = job[t].ids /\ j.files = Tail(s)
  BY <1>2, <1>3, <1>5 DEF Jobs
<1>7. /\ Len(s) \in Nat \ {0} /\ f = s[1] /\ Len(Tail(s)) = Len(s) - 1
      /\ \A i \in 1..Len(s) - 1 : Tail(s)[i] = s[i + 1]
      /\ Tail(s) # <<>> => Len(s) > 1
  BY <1>1, <1>5
<1> HIDE DEF f, j
<1>8. TagsLead'
  BY <1>1, <1>2, <1>4 DEF Steady, TagsLead, OneTagEach
<1>9. Cascades(j, live', refs')
  <2> DEFINE n == job[t].target
             rest == Tail(s)
  <2> SUFFICES ASSUME job[t].stage = "unlink", n \in Tag, rest # <<>> PROVE Cascades(j, live', refs')
    BY <1>6 DEF Cascades
  <2>1. /\ n \in live \cap job[t].ids /\ refs[n] = {} /\ s[Len(s)] = n
        /\ \A i \in 1..Len(s) - 1 : s[i] \in Tag /\ s[i] # n /\ refs[s[i]] = {n}
        /\ \A a \in Tag \cap live : refs[a] \cap job[t].ids # {} => refs[a] = {n} /\ a \in Range(s)
    BY <1>1, <1>2 DEF GoesOn, Cascades
  <2>2. /\ j.stage = "unlink" /\ j.target = n /\ j.ids = job[t].ids /\ j.files = rest
    BY <1>6
  <2>3. Len(rest) = Len(s) - 1 /\ Len(s) \in Nat /\ Len(s) > 1 /\ f = s[1]
        /\ \A i \in 1..Len(rest) : rest[i] = s[i + 1]
    BY <1>7
  <2>4. Range(s) = {f} \cup Range(rest)
    BY <1>5
  <2> HIDE DEF n, rest, s
  <2>5. f # n
    BY <2>1, <2>3
  <2>6. rest[Len(rest)] = n
    <3>1. Len(rest) \in 1..Len(rest) /\ Len(rest) + 1 = Len(s)
      BY <2>3
    <3> QED  BY <2>1, <2>3, <3>1
  <2>7. \A i \in 1..Len(rest) - 1 : rest[i] \in Tag /\ rest[i] # n /\ refs[rest[i]] = {n}
    <3> TAKE i \in 1..Len(rest) - 1
    <3>1. i \in 1..Len(rest) /\ i + 1 \in 1..Len(s) - 1
      BY <2>3
    <3>2. rest[i] = s[i + 1]
      BY <2>3, <3>1
    <3> QED  BY <2>1, <3>1, <3>2
  <2>8. \A a \in Tag \cap live' : refs[a] \cap job[t].ids # {} => refs[a] = {n} /\ a \in Range(rest)
    BY <1>1, <2>1, <2>4
  <2>9. n \in live' \cap job[t].ids
    BY <1>1, <2>1, <2>5
  <2> QED  BY <1>1, <2>1, <2>2, <2>6, <2>7, <2>8, <2>9 DEF Cascades
<1>10. Merged(j, live', refs')
  BY <1>6 DEF Merged
<1>11. Gone(j, Held')
  <2> SUFFICES ASSUME job[t].stage = "sweep" PROVE job[t].ids \cap Held' \subseteq Range(Tail(s))
    BY <1>6 DEF Gone
  <2>1. job[t].ids \cap Held \subseteq Range(s)
    BY <1>2 DEF GoesOn, Gone
  <2>2. f \notin Held'
    BY <1>1, <1>2, <1>3, KindsApart DEF Held, Shapes
  <2>3. Held' \subseteq Held
    BY <1>1 DEF Held
  <2> QED  BY <1>5, <2>1, <2>2, <2>3
<1>12. ASSUME NEW u \in Thread \ {t}, job[u].target \in Tag PROVE f \notin Tag
  BY <1>3, <1>12, OneTagJob DEF Steady
<1>13. live' \subseteq live /\ above' = above /\ \A a \in Tag : refs'[a] = refs[a]
  BY <1>1
<1>14. \A u \in Thread \ {t} : job[u].target \in Tag => Tag \cap live \subseteq live'
  BY <1>1, <1>12
<1>15. GoesOn(j, live', Held', refs')
  BY <1>9, <1>10, <1>11 DEF GoesOn
<1> HIDE DEF s
<1> QED  BY <1>1, <1>8, <1>13, <1>14, <1>15, StepSteady

\* What a sweep writes
LEMMA RewriteIs ==
  ASSUME Steady, NEW t \in Thread, job[t].at # Nil
  PROVE  LET n == job[t].at
         IN  /\ n \in Node /\ job[t].stage = "sweep" /\ job[t].files = <<>>
             /\ job[t].cleaned = Swept(job[t], refs[n])
             /\ n \in Tag => job[t].target \in Tag
             /\ job[t].into = Nil => refs[n] \cap Held \subseteq job[t].cleaned
             /\ job[t].into = Nil /\ n \in Tag \cap live => job[t].cleaned = refs[n]
<1> DEFINE n == job[t].at
           j == job[t]
<1>1. /\ JobOK(j, live, refs) /\ j \in Jobs /\ GoesOn(j, live, Held, refs)
  BY DEF Steady, Base, JobsOK, Shapes
<1>2. /\ n \in Node /\ j.stage = "sweep" /\ j.files = <<>>
      /\ j.cleaned = Swept(j, refs[n]) /\ (n \in Tag => j.target \in Tag)
  BY <1>1 DEF JobOK, Reads, Jobs
<1>3. j.ids \cap Held = {}
  BY <1>1, <1>2, EmptyRange DEF GoesOn, Gone
<1>4. j.into = Nil => refs[n] \cap Held \subseteq j.cleaned /\ j.cleaned \subseteq refs[n]
  BY <1>2, <1>3 DEF Swept
<1>5. n \in Tag \cap live => refs[n] \subseteq Held
  BY DEF Steady, TagsLead, Held
<1> HIDE DEF n, j
<1>6. j.into = Nil /\ n \in Tag \cap live => j.cleaned = refs[n]
  BY <1>4, <1>5
<1> QED  BY <1>2, <1>4, <1>6 DEF n, j

LEMMA RewriteSteady ==
  ASSUME Steady, Base', SavesOK', NEW t \in Thread, Rewrite(t)
  PROVE  Steady'
<1> DEFINE n == job[t].at
           cleaned == job[t].cleaned
           c == job[t].into
           j == [job[t] EXCEPT !.at = Nil, !.cleaned = {}]
<1>1. /\ n # Nil /\ UNCHANGED <<live, above>>
      /\ refs' = IF n \in live \ bad THEN [refs EXCEPT ![n] = cleaned] ELSE refs
      /\ n \notin live => job' = [job EXCEPT ![t] = Idle]
      /\ n \in live => job' = [job EXCEPT ![t] = j]
  <2>1. CASE n \notin live
    BY <2>1 DEF Rewrite
  <2>2. CASE n \in live
    <3>1. job' = [job EXCEPT ![t] = j]
      BY <2>2 DEF Rewrite
    <3> QED  BY <2>2, <3>1 DEF Rewrite
  <2> QED  BY <2>1, <2>2
<1>2. Shapes /\ JobOK(job[t], live, refs) /\ job[t] \in Jobs /\ GoesOn(job[t], live, Held, refs)
  BY DEF Steady, Base, JobsOK, Shapes
<1>3. /\ n \in Node /\ job[t].stage = "sweep" /\ job[t].files = <<>>
      /\ cleaned = Swept(job[t], refs[n])
      /\ n \in Tag => job[t].target \in Tag
      /\ c = Nil /\ n \in Tag \cap live => cleaned = refs[n]
  BY <1>1, RewriteIs
<1>4. /\ j.stage = "sweep" /\ j.target = job[t].target /\ j.into = c
      /\ j.ids = job[t].ids /\ j.files = <<>>
  BY <1>2, <1>3 DEF Jobs
<1> HIDE DEF j
<1>5. CASE n \notin live
  <2>1. job' = [job EXCEPT ![t] = Idle] /\ UNCHANGED <<live, above, refs>>
    BY <1>1, <1>5
  <2> QED  BY <2>1, EndSteady
<1>6. CASE n \in live /\ n \in bad
  <2>1. job' = [job EXCEPT ![t] = j] /\ UNCHANGED <<live, above, refs>>
    BY <1>1, <1>6
  <2> QED  BY <1>3, <1>4, <2>1, SweepSteady
<1>7. CASE n \in live \ bad
  <2>1. job' = [job EXCEPT ![t] = j] /\ refs' = [refs EXCEPT ![n] = cleaned]
    BY <1>1, <1>7
  <2>2. refs'[n] = cleaned /\ \A x \in Node \ {n} : refs'[x] = refs[x]
    BY <1>2, <1>3, <2>1 DEF Shapes
  <2>3. live' = live /\ above' = above /\ Held' = Held
    BY <1>1 DEF Held
  <2>4. c # Nil => /\ c \in Tag \cap live /\ c # job[t].target /\ job[t].ids = {}
                   /\ job[t].target \in Tag \cap live /\ refs[job[t].target] = {c}
    BY <1>2, <1>3 DEF JobOK, Merges, GoesOn, Merged
  <2>5. Merged(j, live, refs')
    <3> SUFFICES ASSUME c # Nil PROVE refs'[job[t].target] = {c}
      BY <1>4, <2>4 DEF Merged
    <3>1. CASE n = job[t].target
      BY <1>3, <2>2, <2>4, <3>1 DEF Swept
    <3>2. CASE n # job[t].target
      BY <2>2, <2>4, <3>2, NilIs
    <3> QED  BY <3>1, <3>2
  <2>6. GoesOn(j, live', Held', refs')
    BY <1>2, <1>3, <1>4, <2>3, <2>5 DEF GoesOn, Cascades, Gone
  <2>7. TagsLead'
    <3> SUFFICES ASSUME NEW a \in Tag \cap live PROVE refs'[a] \subseteq live
      BY <2>3 DEF TagsLead
    <3>1. refs[a] \subseteq live
      BY DEF Steady, TagsLead
    <3>2. CASE a # n
      BY <2>2, <3>1, <3>2, NilIs
    <3>3. CASE a = n /\ c = Nil
      BY <1>3, <2>2, <3>1, <3>3
    <3>4. CASE a = n /\ c # Nil
      <4>1. cleaned = {IF r = job[t].target THEN c ELSE r : r \in refs[n]}
        BY <1>3, <3>4 DEF Swept
      <4> QED  BY <2>2, <2>4, <3>1, <3>4, <4>1
    <3> QED  BY <3>2, <3>3, <3>4
  <2>8. ASSUME NEW u \in Thread \ {t}, job[u].target \in Tag
        PROVE  \A a \in Tag : refs'[a] = refs[a]
    <3>1. n \notin Tag
      BY <1>3, <2>8, OneTagJob DEF Steady
    <3> QED  BY <2>2, <3>1, NilIs
  <2> HIDE DEF n, cleaned, c
  <2> QED  BY <2>1, <2>3, <2>6, <2>7, <2>8, StepSteady
<1> QED  BY <1>5, <1>6, <1>7

LEMMA StepSteadily ==
  ASSUME ~Overlap, ~TagRace, ~LoseMerged, ~Relays, ~Revives, Steady, [Next]_vars
  PROVE  Steady'
<1>1. ASSUME NEW t \in Thread, NEW a \in Tag, NEW b \in Tag, StartMerge(t, a, b)
      PROVE  refs[Canonical(b)] = {}
  <2> DEFINE c == Canonical(b)
  <2> HIDE DEF c
  <2>1. b \in ById /\ Shapes /\ OneTagEach(refs)
    BY <1>1 DEF StartMerge, Steady, Base
  <2>2. c \in Tag \cap ById /\ refs[c] \cap ById = {}
    BY <2>1, SurvivorIs DEF c
  <2>3. \A r \in Tag : r \in ById <=> r \in live
    BY <2>1, KindsApart DEF ById, Shapes
  <2>4. refs[c] \subseteq Tag \cap live
    BY <2>1, <2>2, <2>3 DEF Steady, TagsLead, OneTagEach
  <2> QED  BY <2>2, <2>3, <2>4 DEF c
<1>2. Base' /\ SavesOK'
  BY <1>1, StepBoth, SavesStep DEF Steady
<1>3. CASE UNCHANGED <<live, above, refs, job>>
  BY <1>2, <1>3, TagsSteady
<1>4. ASSUME NEW x \in Scene, WriteSave(x) PROVE Steady'
  <2>1. \A a \in Tag : a # x /\ a \in Node
    BY KindsApart, NilIs
  <2>2. refs \in [Node -> SUBSET (Node \ Chat)]
    BY DEF Steady, Base, Shapes
  <2>3. UNCHANGED <<live, above, job>> /\ \A a \in Tag : refs'[a] = refs[a]
    BY <1>4, <2>1, <2>2 DEF WriteSave
  <2> QED  BY <1>2, <2>3, TagsSteady
<1>5. ASSUME NEW t \in Thread, NEW n \in Tag \cup Entity \cup MutationSet \cup Scene,
             StartDelete(t, n)
      PROVE  Steady'
  BY <1>2, <1>5, StartDeleteSteady
<1>6. ASSUME NEW t \in Thread, NEW a \in Tag, NEW b \in Tag, StartMerge(t, a, b) PROVE Steady'
  BY <1>2, <1>6, StartMergeSteady
<1>7. ASSUME NEW t \in Thread, Visit(t) PROVE Steady'
  BY <1>2, <1>7, VisitSteady
<1>8. ASSUME NEW t \in Thread, Redirect(t) PROVE Steady'
  BY <1>2, <1>8, RedirectSteady
<1>9. ASSUME NEW t \in Thread, Unlink(t) PROVE Steady'
  BY <1>2, <1>9, UnlinkSteady
<1>10. ASSUME NEW t \in Thread, BeginPurge(t) PROVE Steady'
  BY <1>2, <1>10, BeginPurgeSteady
<1>11. ASSUME NEW t \in Thread, Rewrite(t) PROVE Steady'
  BY <1>2, <1>11, RewriteSteady
<1>12. ASSUME NEW t \in Thread, Fail(t) PROVE Steady'
  <2>1. job' = [job EXCEPT ![t] = Idle] /\ UNCHANGED <<live, above, refs>>
    BY <1>12 DEF Fail
  <2> QED  BY <1>2, <2>1, EndSteady
<1>13. \/ UNCHANGED vars
       \/ \E x \in Scene : \/ Break(x) \/ Repair(x) \/ DropSave(x)
                         \/ \E rs \in Edits(x) : CheckSave(x, rs)
       => UNCHANGED <<live, above, refs, job>>
  BY DEF Break, Repair, DropSave, CheckSave, vars
<1> QED
  BY <1>3, <1>4, <1>5, <1>6, <1>7, <1>8, <1>9, <1>10, <1>11, <1>12, <1>13 DEF Next

\* As long as the tags are the same, each node stands for what it stood for
LEMMA SameSurvivors ==
  ASSUME OneTagEach(refs), OneTagEach(refs'), \A a \in Tag : refs'[a] = refs[a],
         \A a \in Tag : a \in ById' <=> a \in ById, NEW q
  PROVE  CanonIn(refs', ById', q) = CanonIn(refs, ById, q)
<1>1. CASE q \notin Tag
  BY <1>1, CanonicalLost
<1>2. CASE q \in Tag
  <2> DEFINE R == refs
             B == ById
             R2 == refs'
             B2 == ById'
  <2>1. ASSUME NEW x \in Tag PROVE HopIn(R, B, x) \in Tag /\ HopIn(R2, B2, x) = HopIn(R, B, x)
    <3>1. R[x] \subseteq Tag /\ R2[x] = R[x]
      BY DEF OneTagEach
    <3>2. R2[x] \cap B2 = R[x] \cap B /\ (x \in B2 <=> x \in B)
      BY <3>1
    <3> HIDE DEF R, B, R2, B2
    <3>3. HopIn(R2, B2, x) = HopIn(R, B, x)
      BY <3>1, <3>2 DEF HopIn
    <3>4. OneTagEach(R)
      BY DEF R
    <3> QED  BY <3>3, <3>4, HopIs
  <2> HIDE DEF R, B, R2, B2
  <2>2. CanonIn(R2, B2, q) = CanonIn(R, B, q)
    BY <1>2, <2>1, CanonicalSame
  <2> QED  BY <2>2 DEF R, B, R2, B2
<1> QED  BY <1>1, <1>2

\* A step that leaves the files alone
LEMMA RestFollows ==
  ASSUME OneTagEach(refs), UNCHANGED <<live, above, bad, refs>>, NEW x
  PROVE  Follows(x)
<1>1. refs' = refs /\ ById' = ById
  BY DEF ById
<1> DEFINE gone == UNION {job[t].ids : t \in Thread}
<1> HIDE DEF gone
<1>2. \A q : CanonIn(refs', ById', q) = CanonIn(refs, ById, q)
  BY <1>1
<1> QED  BY <1>1, <1>2, FollowsIs DEF gone

\* What a tag that is merged takes along: no tag goes
LEMMA NoTagGoes ==
  ASSUME Steady, NEW t \in Thread, job[t].into # Nil
  PROVE  (UNION {job[u].ids : u \in Thread}) \cap Tag = {}
<1>1. JobOK(job[t], live, refs) /\ GoesOn(job[t], live, Held, refs)
  BY DEF Steady, Base, JobsOK
<1>2. job[t].ids = {} /\ job[t].target \in Tag
  BY <1>1 DEF JobOK, Merges, GoesOn, Merged
<1>3. \A u \in Thread \ {t} : job[u].ids \cap Tag = {}
  BY <1>2, OneTagJob DEF Steady
<1> QED  BY <1>2, <1>3

\* A step that leaves a scene and what is there alone while no tag goes
LEMMA SceneAlone ==
  ASSUME OneTagEach(refs), OneTagEach(refs'), NEW x, refs'[x] = refs[x], ById' = ById,
         (UNION {job[u].ids : u \in Thread}) \cap Tag = {}
  PROVE  Follows(x)
<1> DEFINE gone == UNION {job[u].ids : u \in Thread}
<1> HIDE DEF gone
<1>1. ASSUME NEW q, CanonIn(refs, ById, q) \in gone
      PROVE  CanonIn(refs, ById, q) = CanonIn(refs', ById', q)
  <2>1. CanonIn(refs, ById, q) \notin Tag
    BY <1>1 DEF gone
  <2>2. q \notin Tag
    BY <2>1, CanonicalTag
  <2> QED  BY <2>2, CanonicalLost
<1> QED  BY <1>1, FollowsIs DEF gone

LEMMA RedirectFollows ==
  ASSUME Steady, Steady', NEW t \in Thread, Redirect(t), NEW x \in Scene
  PROVE  Follows(x)
<1> DEFINE a == job[t].target
<1>1. OneTagEach(refs) /\ OneTagEach(refs') /\ JobOK(job[t], live, refs) /\ Shapes
  BY DEF Steady, Base, JobsOK
<1>2. job[t].into # Nil /\ a \in Tag
  BY <1>1 DEF Redirect, JobOK, Merges
<1>3. refs'[x] = refs[x] /\ UNCHANGED <<live, above, bad>>
  <2>1. x \in Node /\ x # a
    BY <1>2, KindsApart DEF Node
  <2>2. CASE a \in live
    BY <1>1, <2>1, <2>2 DEF Redirect, Shapes
  <2>3. CASE a \notin live
    BY <2>3 DEF Redirect
  <2> QED  BY <2>2, <2>3
<1>4. ById' = ById
  BY <1>3 DEF ById
<1>5. (UNION {job[u].ids : u \in Thread}) \cap Tag = {}
  BY <1>2, NoTagGoes
<1> QED  BY <1>1, <1>3, <1>4, <1>5, SceneAlone

LEMMA UnlinkFollows ==
  ASSUME Steady, Steady', NEW t \in Thread, Unlink(t), NEW x \in Scene
  PROVE  Follows(x)
<1> DEFINE f == Head(job[t].files)
           gone == UNION {job[u].ids : u \in Thread}
<1>1. OneTagEach(refs) /\ OneTagEach(refs') /\ Shapes
  BY DEF Steady, Base
<1>2. job[t].files # <<>> /\ live' = live \ {f} /\ bad' = bad \ {f} /\ UNCHANGED <<above, refs>>
  BY DEF Unlink
<1> HIDE DEF f
<1>3. /\ ById' \subseteq ById /\ \A q \in ById : q # f => q \in ById'
      /\ f \in Tag => f \notin ById'
  BY <1>1, <1>2, KindsApart DEF ById, Shapes
<1>4. CASE f \notin Tag
  <2>1. \A a \in Tag : a \in ById' <=> a \in ById
    BY <1>3, <1>4
  <2>2. \A q : CanonIn(refs', ById', q) = CanonIn(refs, ById, q)
    BY <1>1, <1>2, <2>1, SameSurvivors
  <2>3. CanonIn(refs, ById, f) = f
    BY <1>1, <1>4, CanonicalLost
  <2> HIDE DEF gone
  <2>4. \A q \in refs[x] \cap ById : CanonIn(refs, ById, q) \in ById' => q \in refs'[x] \cap ById'
    BY <1>2, <1>3, <2>3
  <2>5. \A p \in refs'[x] \cap ById' : p \in refs[x] \cap ById
    BY <1>2, <1>3
  <2>6. \A q \in refs[x] \cap ById :
            CanonIn(refs, ById, q) \in ById' /\ (CanonIn(refs, ById, q) \in gone => q \in ById') =>
               \E p \in refs'[x] \cap ById' : CanonIn(refs', ById', p) = CanonIn(refs', ById', q)
    BY <2>4
  <2>7. \A p \in refs'[x] \cap ById' : \E q \in refs[x] \cap ById :
            /\ CanonIn(refs', ById', q) = CanonIn(refs', ById', p)
            /\ CanonIn(refs, ById, q) \in gone => CanonIn(refs, ById, q) = CanonIn(refs', ById', p)
    BY <2>2, <2>5
  <2> QED  BY <1>1, <2>6, <2>7, FollowsIs DEF gone
<1>5. CASE f \in Tag
  <2> DEFINE n == job[t].target
             R == refs
             B == ById
             B2 == ById'
  <2>1. /\ n \in Tag \cap live \cap job[t].ids /\ R[n] = {} /\ (f # n => R[f] = {n})
        /\ \A a \in Tag \cap live : f \notin R[a]
    BY <1>2, <1>5, UnlinkedTag DEF f
  <2>2. n \in gone
    BY <2>1
  <2>3. \A a \in Tag : a \in B <=> a \in live
    BY <1>1, KindsApart DEF ById, Shapes
  <2>4. OneTagEach(R) /\ refs' = R /\ B2 \subseteq B /\ f \notin B2 /\ \A q \in B : q # f => q \in B2
    BY <1>1, <1>2, <1>3, <1>5
  <2> HIDE DEF n, R, B, B2, gone
  <2>5. \A y \in Tag \ {f} : HopIn(R, B, y) \in Tag \ {f} /\ HopIn(R, B2, y) = HopIn(R, B, y)
    <3> TAKE y \in Tag \ {f}
    <3>1. CASE y \notin B
      BY <2>4, <3>1 DEF HopIn
    <3>2. CASE y \in B
      <4>1. f \notin R[y] /\ R[y] \cap B2 = R[y] \cap B /\ y \in B2
        BY <2>1, <2>3, <2>4, <3>2
      <4>2. HopIn(R, B2, y) = HopIn(R, B, y)
        BY <3>2, <4>1 DEF HopIn
      <4>3. HopIn(R, B, y) \in Tag \ {f}
        BY <2>4, <4>1, HopIs
      <4> QED  BY <4>2, <4>3
    <3> QED  BY <3>1, <3>2
  <2>6. \A q : q # f => CanonIn(R, B2, q) = CanonIn(R, B, q)
    <3> TAKE q
    <3>1. CASE q \in Tag \ {f}
      <4> DEFINE P == Tag \ {f}
      <4>1. q \in P /\ \A y \in P : HopIn(R, B, y) \in P /\ HopIn(R, B2, y) = HopIn(R, B, y)
        BY <2>5, <3>1
      <4> HIDE DEF P
      <4> QED  BY <4>1, CanonicalSame
    <3>2. CASE q \notin Tag
      BY <2>4, <3>2, CanonicalLost
    <3> QED  BY <3>1, <3>2
  <2>7. f \in B => CanonIn(R, B, f) = n
    <3> SUFFICES ASSUME f \in B PROVE CanonIn(R, B, f) = n
      OBVIOUS
    <3>1. HopIn(R, B, n) = n
      BY <2>1 DEF HopIn
    <3>2. CASE f = n
      BY <3>1, <3>2, CanonicalStill
    <3>3. CASE f # n
      <4>1. HopIn(R, B, f) = n
        BY <1>5, <2>1, <2>3, <3>3 DEF HopIn
      <4> QED  BY <1>5, <2>1, <2>4, <3>1, <3>3, <4>1, CanonicalOfOne
    <3> QED  BY <3>2, <3>3
  <2>8. ASSUME NEW q \in R[x] \cap B, CanonIn(R, B, q) \in B2,
               CanonIn(R, B, q) \in gone => q \in B2
        PROVE  q \in R[x] \cap B2
    BY <2>2, <2>4, <2>7, <2>8
  <2>9. \A p \in R[x] \cap B2 : p \in R[x] \cap B /\ p # f
    BY <2>4
  <2>10. \A p \in R[x] \cap B2 : p \in R[x] \cap B /\ CanonIn(R, B2, p) = CanonIn(R, B, p)
    BY <2>6, <2>9
  <2>11. \A p \in refs'[x] \cap ById' : \E q \in refs[x] \cap ById :
            /\ CanonIn(refs', ById', q) = CanonIn(refs', ById', p)
            /\ CanonIn(refs, ById, q) \in gone => CanonIn(refs, ById, q) = CanonIn(refs', ById', p)
    BY <2>4, <2>10 DEF R, B, B2
  <2>12. \A q \in refs[x] \cap ById :
            CanonIn(refs, ById, q) \in ById' /\ (CanonIn(refs, ById, q) \in gone => q \in ById') =>
               \E p \in refs'[x] \cap ById' : CanonIn(refs', ById', p) = CanonIn(refs', ById', q)
    BY <2>4, <2>8 DEF R, B, B2
  <2> QED  BY <1>1, <2>11, <2>12, FollowsIs DEF gone
<1> QED  BY <1>4, <1>5

LEMMA RewriteFollows ==
  ASSUME Steady, Steady', NEW t \in Thread, Rewrite(t), NEW x \in Scene
  PROVE  Follows(x)
<1> DEFINE n == job[t].at
           cleaned == job[t].cleaned
           a == job[t].target
           c == job[t].into
           gone == UNION {job[u].ids : u \in Thread}
<1>1. /\ OneTagEach(refs) /\ OneTagEach(refs') /\ Shapes
      /\ JobOK(job[t], live, refs) /\ GoesOn(job[t], live, Held, refs)
  BY DEF Steady, Base, JobsOK
<1>2. /\ n # Nil /\ UNCHANGED <<live, above, bad>>
      /\ refs' = IF n \in live \ bad THEN [refs EXCEPT ![n] = cleaned] ELSE refs
  BY DEF Rewrite
<1>3. /\ n \in Node /\ job[t].stage = "sweep" /\ cleaned = Swept(job[t], refs[n])
      /\ c = Nil => refs[n] \cap Held \subseteq cleaned
      /\ c = Nil /\ n \in Tag \cap live => cleaned = refs[n]
  BY <1>2, RewriteIs
<1>4. ById' = ById /\ ById \subseteq Held
  BY <1>2 DEF ById, Held
<1>5. x \in Node /\ x \notin Tag
  BY KindsApart DEF Node
<1>6. CASE n \notin live \ bad
  BY <1>1, <1>2, <1>6, RestFollows
<1>7. CASE n \in live \ bad /\ c = Nil
  <2>1. refs'[n] = cleaned /\ \A y \in Node \ {n} : refs'[y] = refs[y]
    BY <1>1, <1>2, <1>3, <1>7 DEF Shapes
  <2>2. cleaned \subseteq refs[n]
    BY <1>3, <1>7 DEF Swept
  <2>3. \A b \in Tag : refs'[b] = refs[b]
    BY <1>3, <1>7, <2>1, NilIs
  <2>4. \A q : CanonIn(refs', ById', q) = CanonIn(refs, ById, q)
    BY <1>1, <1>4, <2>3, SameSurvivors
  <2>5. refs'[x] \cap ById' = refs[x] \cap ById
    BY <1>3, <1>4, <1>5, <1>7, <2>1, <2>2
  <2> HIDE DEF gone, n, cleaned, c
  <2>6. \A q \in refs[x] \cap ById :
            CanonIn(refs, ById, q) \in ById' /\ (CanonIn(refs, ById, q) \in gone => q \in ById') =>
               \E p \in refs'[x] \cap ById' : CanonIn(refs', ById', p) = CanonIn(refs', ById', q)
    BY <2>5
  <2>7. \A p \in refs'[x] \cap ById' : \E q \in refs[x] \cap ById :
            /\ CanonIn(refs', ById', q) = CanonIn(refs', ById', p)
            /\ CanonIn(refs, ById, q) \in gone => CanonIn(refs, ById, q) = CanonIn(refs', ById', p)
    BY <2>4, <2>5
  <2> QED  BY <1>1, <2>6, <2>7, FollowsIs DEF gone
<1>8. CASE n \in live \ bad /\ c # Nil
  <2>1. refs'[n] = cleaned /\ \A y \in Node \ {n} : refs'[y] = refs[y]
    BY <1>1, <1>2, <1>3, <1>8 DEF Shapes
  <2>2. gone \cap Tag = {}
    BY <1>8, NoTagGoes
  <2>3. CASE x # n
    <3>1. refs'[x] = refs[x]
      BY <1>5, <2>1, <2>3
    <3> QED  BY <1>1, <1>4, <2>2, <3>1, SceneAlone
  <2>4. CASE x = n
    <3>1. cleaned = {IF r = a THEN c ELSE r : r \in refs[x]}
      BY <1>3, <1>8, <2>4 DEF Swept
    <3>2. /\ a \in Tag \cap live /\ refs[a] = {c} /\ c \in Tag \cap live /\ refs[c] = {} /\ c # a
      BY <1>1, <1>3, <1>8 DEF JobOK, Merges, GoesOn, Merged
    <3>3. a \in ById /\ c \in ById
      BY <1>1, <3>2, KindsApart DEF ById, Shapes
    <3>4. \A b \in Tag : refs'[b] = refs[b]
      BY <1>5, <2>1, <2>4, NilIs
    <3>5. \A q : CanonIn(refs', ById', q) = CanonIn(refs, ById, q)
      BY <1>1, <1>4, <3>4, SameSurvivors
    <3> HIDE DEF gone, n, cleaned, a, c
    <3>6. HopIn(refs, ById, a) = c /\ HopIn(refs, ById, c) = c
      BY <3>2, <3>3 DEF HopIn
    <3>7. CanonIn(refs, ById, a) = c /\ CanonIn(refs, ById, c) = c
      BY <1>1, <3>2, <3>6, CanonicalOfOne, CanonicalStill
    <3>8. ASSUME NEW q \in refs[x] \cap ById
          PROVE  \E p \in refs'[x] \cap ById' : CanonIn(refs', ById', p) = CanonIn(refs', ById', q)
      <4>1. CASE q = a
        <5>1. c \in refs'[x] \cap ById'
          BY <1>4, <2>1, <2>4, <3>1, <3>3, <4>1
        <5> QED  BY <3>5, <3>7, <4>1, <5>1
      <4>2. CASE q # a
        <5>1. q \in refs'[x] \cap ById'
          BY <1>4, <2>1, <2>4, <3>1, <4>2
        <5> QED  BY <5>1
      <4> QED  BY <4>1, <4>2
    <3>9. ASSUME NEW p \in refs'[x] \cap ById'
          PROVE  \E q \in refs[x] \cap ById : CanonIn(refs, ById, q) = CanonIn(refs, ById, p)
      <4>1. PICK r \in refs[x] : p = IF r = a THEN c ELSE r
        BY <2>1, <2>4, <3>1
      <4>2. CASE r = a
        BY <3>3, <3>7, <4>1, <4>2
      <4>3. CASE r # a
        BY <1>4, <4>1, <4>3
      <4> QED  BY <4>2, <4>3
    <3>10. \A p \in refs'[x] \cap ById' : \E q \in refs[x] \cap ById :
              /\ CanonIn(refs', ById', q) = CanonIn(refs', ById', p)
              /\ CanonIn(refs, ById, q) \in gone => CanonIn(refs, ById, q) = CanonIn(refs', ById', p)
      BY <3>5, <3>9
    <3>11. \A q \in refs[x] \cap ById :
              CanonIn(refs, ById, q) \in ById' /\ (CanonIn(refs, ById, q) \in gone => q \in ById') =>
                 \E p \in refs'[x] \cap ById' : CanonIn(refs', ById', p) = CanonIn(refs', ById', q)
      BY <3>8
    <3> QED  BY <1>1, <3>10, <3>11, FollowsIs DEF gone
  <2> QED  BY <2>3, <2>4
<1> QED  BY <1>6, <1>7, <1>8

LEMMA StepFollows ==
  ASSUME Steady, Steady', Next, job' # job, NEW x \in Scene
  PROVE  Follows(x)
<1>1. OneTagEach(refs)
  BY DEF Steady, Base
<1>2. ASSUME NEW y \in Scene, \/ Break(y) \/ Repair(y) \/ WriteSave(y) \/ DropSave(y)
                              \/ \E rs \in Edits(y) : CheckSave(y, rs)
      PROVE FALSE
  BY <1>2 DEF Break, Repair, CheckSave, WriteSave, DropSave
<1>3. ASSUME NEW t \in Thread, Redirect(t) PROVE Follows(x)
  BY <1>3, RedirectFollows
<1>4. ASSUME NEW t \in Thread, Unlink(t) PROVE Follows(x)
  BY <1>4, UnlinkFollows
<1>5. ASSUME NEW t \in Thread, Rewrite(t) PROVE Follows(x)
  BY <1>5, RewriteFollows
<1>6. ASSUME NEW t \in Thread, \/ \E n \in Tag \cup Entity \cup MutationSet \cup Scene : StartDelete(t, n)
                               \/ \E a, b \in Tag : StartMerge(t, a, b)
                               \/ Visit(t) \/ BeginPurge(t) \/ Fail(t)
      PROVE  Follows(x)
  <2>1. UNCHANGED <<live, above, bad, refs>>
    BY <1>6 DEF StartDelete, StartMerge, Take, Visit, BeginPurge, Fail
  <2> QED  BY <1>1, <2>1, RestFollows
<1> QED  BY <1>2, <1>3, <1>4, <1>5, <1>6 DEF Next

(***************************************************************************)
(* What a scene shows changes only by what somebody asked for: whatever    *)
(* step a delete or merge takes, each reference is still shown, by its     *)
(* survivor, unless it goes with the delete, and nothing comes back.  For  *)
(* all nodes, any number of requests that stop anywhere, and all orders of *)
(* their steps, when no file is written between a sweep's read and write   *)
(* of it, no save writes a scene that was deleted since its checks, tags   *)
(* are deleted and merged one at a time, and a tag that is deleted is not  *)
(* merged itself and others lead straight to it.                           *)
(***************************************************************************)
THEOREM ReadingsAlwaysFollow ==
  ASSUME ~Overlap, ~TagRace, ~LoseMerged, ~Relays, ~Revives
  PROVE  Spec => ReadingsFollow
<1>1. Init => Steady
  BY InitSteady
<1>2. Steady /\ [Next]_vars => Steady'
  BY StepSteadily
<1>3. Steady /\ Steady' /\ [Next]_vars =>
        [job' # job /\ <<live, bad, refs>>' # <<live, bad, refs>> =>
           \A x \in Scene : (x \in live \ bad /\ x \in (live \ bad)') => Follows(x)]_vars
  BY StepFollows
<1> QED  BY <1>1, <1>2, <1>3, PTL DEF Spec, ReadingsFollow
=============================================================================
