----------------------------- MODULE TreeProofs -----------------------------
(***************************************************************************)
(* Placing nodes, for every tree, however many threads serve it, when      *)
(* renames, which take no lock, run alone; and building the tree.          *)
(*                                                                         *)
(* First the arithmetic of placement.py: what rank_between and _new_rank   *)
(* return is where it should be, and a renumbering leaves room and keeps   *)
(* the order; so a whole plan, and every prefix of one, does what is       *)
(* promised.  Then the requests: no placement and no prose is ever lost;   *)
(* and with one mover at a time the files are always some prefix of a plan *)
(* away from the tree it was made of, so moves land and siblings keep      *)
(* their order.  Last the walk of tree_build.py, for all trees and all     *)
(* orders: it finds the nodes whose parents form a cycle, and no node is   *)
(* left out of the tree.                                                   *)
(***************************************************************************)
EXTENDS TreeMoves, TreeBuild, FiniteSetTheorems, WellFoundedInduction, SequenceTheorems, TLAPS

(* Between two ranks *)

\* The steps ranks may be rounded to are positive
LEMMA GrainType ==
  ASSUME NEW d \in 0..MaxDecimals
  PROVE  Grain[d] \in Nat /\ Grain[d] > 0
BY PlacementAssumption

\* Whole division by a positive number
LEMMA Quotient ==
  ASSUME NEW a \in Int, NEW b \in Nat, b > 0
  PROVE  /\ a \div b \in Int
         /\ b * (a \div b) <= a
         /\ a < b * (a \div b) + b
<1>1. a \div b \in Int
  OBVIOUS
<1>2. b * (a \div b) <= a
  OBVIOUS
<1>3. a < b * (a \div b) + b
  OBVIOUS
<1> QED  BY <1>1, <1>2, <1>3

\* A non-empty set of naturals has a least element
LEMMA Least ==
  ASSUME NEW T, T \subseteq Nat, T # {}
  PROVE  \E x \in T : \A y \in T : x <= y
<1> DEFINE R == OpToRel(<, Nat)
<1>1. IsWellFoundedOn(R, Nat)
  BY NatLessThanWellFounded
<1>2. \A a, b \in Nat : <<a, b>> \in R <=> a < b
  BY DEF OpToRel
<1> HIDE DEF R
<1>3. PICK x \in T : \A y \in T : <<y, x>> \notin R
  BY <1>1, WFMin
<1>4. ASSUME NEW y \in T PROVE x <= y
  <2>1. x \in Nat /\ y \in Nat
    OBVIOUS
  <2>2. ~(y < x)
    BY <1>2, <1>3, <2>1
  <2> QED  BY <2>1, <2>2
<1> QED  BY <1>4

\* Nearest is a multiple of g at most half of g from the midpoint
LEMMA NearestIsNear ==
  ASSUME NEW low \in Int, NEW high \in Int, NEW g \in Nat, g > 0
  PROVE  \E k \in Int : /\ Nearest(low, high, g) = g * k
                        /\ 2 * (g * k) <= low + high + g
                        /\ low + high - g <= 2 * (g * k)
<1> DEFINE sum == low + high
<1>0. 2 * g \in Nat /\ 2 * g > 0 /\ sum \in Int
  OBVIOUS
<1>1. CASE sum >= 0
  <2> DEFINE k == (sum + g) \div (2 * g)
  <2>1. k \in Int /\ (2 * g) * k <= sum + g /\ sum + g < (2 * g) * k + 2 * g
    BY <1>0, Quotient
  <2>2. Nearest(low, high, g) = g * k
    BY <1>1 DEF Nearest
  <2> HIDE DEF k
  <2>3. (2 * g) * k = 2 * (g * k) /\ g * k \in Int
    BY <2>1
  <2> QED  BY <2>1, <2>2, <2>3
<1>2. CASE sum < 0
  <2> DEFINE q == (g - sum) \div (2 * g)
  <2>1. q \in Int /\ (2 * g) * q <= g - sum /\ g - sum < (2 * g) * q + 2 * g
    BY <1>0, Quotient
  <2>2. Nearest(low, high, g) = -(g * q)
    BY <1>2 DEF Nearest
  <2> HIDE DEF q
  <2>3. (2 * g) * q = 2 * (g * q) /\ g * q \in Int
    BY <2>1
  <2>4. -(g * q) = g * (-q) /\ -q \in Int
    BY <2>1
  <2> DEFINE m == g * q
  <2>5. 2 * m <= g - sum /\ g - sum < 2 * m + 2 * g /\ m \in Int
    BY <2>1, <2>3
  <2> HIDE DEF m
  <2>6. 2 * (-m) <= low + high + g /\ low + high - g <= 2 * (-m)
    BY <2>5
  <2>7. g * (-q) = -m
    BY <2>4 DEF m
  <2> QED  BY <2>2, <2>4, <2>6, <2>7 DEF m
<1> QED  BY <1>1, <1>2

\* Two different multiples of g are at least g apart
LEMMA Apart ==
  ASSUME NEW g \in Nat, g > 0, NEW j \in Int, NEW k \in Int, j < k
  PROVE  g * j + g <= g * k
<1>1. j + 1 <= k
  OBVIOUS
<1>2. g * (k - j - 1) >= 0
  BY <1>1
<1>3. g * (k - j - 1) = g * k - g * j - g
  OBVIOUS
<1> QED  BY <1>2, <1>3

\* placement.py:175-177: if any multiple of g lies strictly between two ranks,
\* the one nearest their midpoint does too
LEMMA NearestBetween ==
  ASSUME NEW low \in Int, NEW high \in Int, NEW g \in Nat, g > 0,
         NEW j \in Int, low < g * j, g * j < high
  PROVE  low < Nearest(low, high, g) /\ Nearest(low, high, g) < high
<1>1. PICK k \in Int : /\ Nearest(low, high, g) = g * k
                       /\ 2 * (g * k) <= low + high + g
                       /\ low + high - g <= 2 * (g * k)
  BY NearestIsNear
<1>2. g * k \in Int /\ g * j \in Int
  OBVIOUS
<1>3. CASE k = j
  BY <1>1, <1>3
<1> DEFINE near == g * k
           some == g * j
<1> HIDE DEF near, some
<1>4. CASE k < j
  <2>1. near + g <= some
    BY <1>4, Apart DEF near, some
  <2> QED  BY <1>1, <1>2, <2>1 DEF near, some
<1>5. CASE j < k
  <2>1. some + g <= near
    BY <1>5, Apart DEF near, some
  <2> QED  BY <1>1, <1>2, <2>1 DEF near, some
<1> QED  BY <1>3, <1>4, <1>5

-----------------------------------------------------------------------------
(* Rounding *)

\* What Nearest rounds to d decimals has d decimals
LEMMA NearestHasDecimals ==
  ASSUME NEW low \in Int, NEW high \in Int, NEW d \in 0..MaxDecimals
  PROVE  \E k \in Int : Nearest(low, high, Grain[d]) = Grain[d] * k
<1> DEFINE g == Grain[d]
<1>1. g \in Nat /\ g > 0
  BY GrainType
<1> HIDE DEF g
<1>2. PICK k \in Int : /\ Nearest(low, high, g) = g * k
                       /\ 2 * (g * k) <= low + high + g
                       /\ low + high - g <= 2 * (g * k)
  BY <1>1, NearestIsNear
<1> QED  BY <1>2 DEF g

\* Decimals are counted by naturals
LEMMA EnoughType ==
  ASSUME NEW low, NEW high
  PROVE  /\ Enough(low, high) \subseteq 0..MaxDecimals
         /\ Enough(low, high) \subseteq Nat
<1>1. Enough(low, high) \subseteq 0..MaxDecimals
  BY DEF Enough
<1>2. 0..MaxDecimals \subseteq Nat
  BY PlacementAssumption
<1> QED  BY <1>1, <1>2

\* rank_between takes the fewest decimals that are enough
LEMMA Fewest ==
  ASSUME NEW low, NEW high, Enough(low, high) # {}
  PROVE  \E d \in Enough(low, high) :
           /\ RankBetween(low, high) = Nearest(low, high, Grain[d])
           /\ \A e \in Enough(low, high) : d <= e
<1> DEFINE IsLeast(d) == \A e \in Enough(low, high) : d <= e
           least == CHOOSE d \in Enough(low, high) : IsLeast(d)
<1>1. \E d \in Enough(low, high) : IsLeast(d)
  <2>1. Enough(low, high) \subseteq Nat
    BY EnoughType
  <2> QED  BY <2>1, Least
<1>2. RankBetween(low, high) = Nearest(low, high, Grain[least])
  BY DEF RankBetween
<1> HIDE DEF IsLeast
<1>3. least \in Enough(low, high) /\ IsLeast(least)
  BY <1>1
<1> QED  BY <1>2, <1>3 DEF IsLeast

\* A rank that rank_between finds is strictly between its neighbours, so a move
\* between two siblings never ties with either of them (placement.py:177).
THEOREM RankIsBetween ==
  ASSUME NEW low \in Int, NEW high \in Int, RankBetween(low, high) # NoRank
  PROVE  low < RankBetween(low, high) /\ RankBetween(low, high) < high
<1>1. Enough(low, high) # {}
  BY DEF RankBetween
<1>2. PICK d \in Enough(low, high) : RankBetween(low, high) = Nearest(low, high, Grain[d])
  BY <1>1, Fewest
<1>3. low < Nearest(low, high, Grain[d]) /\ Nearest(low, high, Grain[d]) < high
  BY DEF Enough
<1> QED  BY <1>2, <1>3

\* Rounding loses no room: when any rank of at most MaxDecimals decimals lies
\* strictly between two others, rank_between finds one, so plan_placement falls
\* back to a renumber only when it has to.
THEOREM RankIsFound ==
  ASSUME NEW low \in Int, NEW high \in Int, NEW d \in 0..MaxDecimals,
         NEW j \in Int, low < Grain[d] * j, Grain[d] * j < high
  PROVE  RankBetween(low, high) # NoRank
<1>1. low < Nearest(low, high, Grain[d]) /\ Nearest(low, high, Grain[d]) < high
  BY GrainType, NearestBetween
<1>2. d \in Enough(low, high)
  BY <1>1 DEF Enough
<1>3. PICK e \in Enough(low, high) : RankBetween(low, high) = Nearest(low, high, Grain[e])
  BY <1>2, Fewest
<1>4. e \in 0..MaxDecimals
  BY EnoughType
<1>5. PICK k \in Int : Nearest(low, high, Grain[e]) = Grain[e] * k
  BY <1>4, NearestHasDecimals
<1>6. Grain[e] * k \in Int
  BY <1>4, GrainType
<1> QED  BY <1>3, <1>5, <1>6, PlacementAssumption

\* The rank found has the fewest decimals a rank strictly between the two can
\* have: no rank of fewer lies there.
THEOREM RankIsShort ==
  ASSUME NEW low \in Int, NEW high \in Int, RankBetween(low, high) # NoRank
  PROVE  \E d \in 0..MaxDecimals :
           /\ \E k \in Int : RankBetween(low, high) = Grain[d] * k
           /\ \A e \in 0..MaxDecimals, j \in Int :
                low < Grain[e] * j /\ Grain[e] * j < high => d <= e
<1>1. Enough(low, high) # {}
  BY DEF RankBetween
<1>2. PICK d \in Enough(low, high) :
        /\ RankBetween(low, high) = Nearest(low, high, Grain[d])
        /\ \A e \in Enough(low, high) : d <= e
  BY <1>1, Fewest
<1>3. d \in 0..MaxDecimals
  BY EnoughType
<1>4. \E k \in Int : RankBetween(low, high) = Grain[d] * k
  BY <1>2, <1>3, NearestHasDecimals
<1>5. ASSUME NEW e \in 0..MaxDecimals, NEW j \in Int,
             low < Grain[e] * j, Grain[e] * j < high
      PROVE  d <= e
  <2>1. low < Nearest(low, high, Grain[e]) /\ Nearest(low, high, Grain[e]) < high
    BY <1>5, GrainType, NearestBetween
  <2>2. e \in Enough(low, high)
    BY <2>1 DEF Enough
  <2> QED  BY <1>2, <2>2
<1> QED  BY <1>3, <1>4, <1>5

\* placement.py:257: "integers one apart always leave room".  Between two whole
\* ranks there is always another, so the last write of a renumber has a rank.
THEOREM WholeRanksLeaveRoom ==
  ASSUME NEW a \in Int, NEW b \in Int, a < b
  PROVE  RankBetween(Unit * a, Unit * b) # NoRank
<1> DEFINE g == Grain[1]
           some == g * (10 * a + 1)
<1>1. g \in Nat /\ g > 0 /\ Unit = 10 * g
  <2>1. 0 \in 0..MaxDecimals - 1 /\ 1 \in 0..MaxDecimals
    BY PlacementAssumption
  <2>2. Grain[0] = 10 * Grain[0 + 1]
    BY <2>1, PlacementAssumption
  <2> QED  BY <2>1, <2>2, GrainType DEF Unit
<1> HIDE DEF g
<1>2. Unit * a = g * (10 * a) /\ Unit * b = g * (10 * b)
  BY <1>1
<1>3. g * (10 * a) + g <= some
  BY <1>1, Apart
<1>4. some + g <= g * (10 * b)
  BY <1>1, Apart
<1>5. Unit * a < some /\ some < Unit * b
  <2>1. g * (10 * a) \in Int /\ g * (10 * b) \in Int /\ some \in Int
    BY <1>1
  <2> HIDE DEF some
  <2> QED  BY <1>1, <1>2, <1>3, <1>4, <2>1
<1>6. Unit * a \in Int /\ Unit * b \in Int
  BY <1>1
<1>7. 1 \in 0..MaxDecimals
  BY PlacementAssumption
<1> QED  BY <1>5, <1>6, <1>7, RankIsFound DEF g

-----------------------------------------------------------------------------
(* Climbing from parent to parent *)

Step(up, x) == IF x = Top THEN Top ELSE up[x]
Climbs(up, h, m) == \A k \in 1..m : h[k] = Step(up, h[k - 1])

Size == Cardinality(Node)

LEMMA SizeType == Size \in Nat
BY PlacementAssumption, FS_CardinalityType DEF Size

\* A climb can be taken as far as one likes
LEMMA ClimbExists ==
  ASSUME NEW T, Top \notin T, NEW up \in [T -> T \cup {Top}],
         NEW n \in T \cup {Top}, NEW m \in Nat
  PROVE  \E h \in [0..m -> T \cup {Top}] : h[0] = n /\ Climbs(up, h, m)
<1> DEFINE Good(k) == \E h \in [0..k -> T \cup {Top}] : h[0] = n /\ Climbs(up, h, k)
           Bad == {k \in Nat : ~Good(k)}
<1>0. Good(0)
  <2> DEFINE h == [k \in 0..0 |-> n]
  <2>1. h \in [0..0 -> T \cup {Top}] /\ h[0] = n /\ Climbs(up, h, 0)
    BY DEF Climbs
  <2> QED  BY <2>1
<1>1. ASSUME NEW k \in Nat \ {0}, Good(k - 1) PROVE Good(k)
  <2>1. PICK f \in [0..k - 1 -> T \cup {Top}] : f[0] = n /\ Climbs(up, f, k - 1)
    BY <1>1
  <2> DEFINE h == [i \in 0..k |-> IF i = k THEN Step(up, f[k - 1]) ELSE f[i]]
  <2>2. k - 1 \in 0..k - 1 /\ 0 \in 0..k - 1
    OBVIOUS
  <2>3. Step(up, f[k - 1]) \in T \cup {Top}
    BY <2>1, <2>2 DEF Step
  <2>4. h \in [0..k -> T \cup {Top}]
    BY <2>1, <2>3
  <2>5. h[0] = n
    BY <2>1
  <2>6. Climbs(up, h, k)
    BY <2>1 DEF Climbs
  <2> QED  BY <2>4, <2>5, <2>6
<1>2. CASE Bad = {}
  BY <1>2
<1>3. CASE Bad # {}
  <2> HIDE DEF Good
  <2>1. PICK k \in Bad : \A y \in Bad : k <= y
    BY <1>3, Least
  <2>2. k # 0
    BY <1>0
  <2>3. k - 1 \in Nat /\ k - 1 \notin Bad
    BY <2>1, <2>2
  <2> QED  BY <1>1, <2>2, <2>3
<1> QED  BY <1>2, <1>3

\* There is one way to climb
LEMMA ClimbUnique ==
  ASSUME NEW up, NEW h, NEW g, NEW m \in Nat, NEW b \in Nat, m <= b,
         h[0] = g[0], Climbs(up, h, m), Climbs(up, g, b)
  PROVE  \A i \in 0..m : h[i] = g[i]
<1> DEFINE Bad == {i \in 0..m : h[i] # g[i]}
<1>1. CASE Bad = {}
  BY <1>1
<1>2. CASE Bad # {}
  <2>1. PICK k \in Bad : \A y \in Bad : k <= y
    <3>1. Bad \subseteq Nat
      OBVIOUS
    <3> HIDE DEF Bad
    <3> QED  BY <1>2, <3>1, Least
  <2>2. k \in 1..m
    OBVIOUS
  <2>3. k - 1 \in 0..m /\ k - 1 \notin Bad
    BY <2>1, <2>2
  <2>4. h[k - 1] = g[k - 1]
    BY <2>3
  <2>5. h[k] = Step(up, h[k - 1]) /\ g[k] = Step(up, g[k - 1])
    BY <2>2 DEF Climbs
  <2>6. h[k] # g[k]
    OBVIOUS
  <2> QED  BY <2>4, <2>5, <2>6
<1> QED  BY <1>1, <1>2

\* What is above a node is what a climb of that many steps passes
LEMMA AboveIs ==
  ASSUME NEW T, Top \notin T, NEW up \in [T -> T \cup {Top}], NEW n \in T
  PROVE  \E g \in [0..Size -> T \cup {Top}] :
           g[0] = n /\ Climbs(up, g, Size) /\ Above(up, n) = {g[k] : k \in 1..Size}
<1> DEFINE chain[k \in 0..Cardinality(Node)] ==
             IF k = 0 THEN n ELSE IF chain[k - 1] = Top THEN Top ELSE up[chain[k - 1]]
           Is(c) == c = [k \in 0..Cardinality(Node) |->
             IF k = 0 THEN n ELSE IF c[k - 1] = Top THEN Top ELSE up[c[k - 1]]]
<1>1. Above(up, n) = {chain[k] : k \in 1..Cardinality(Node)}
  BY DEF Above
<1>2. PICK g \in [0..Size -> T \cup {Top}] : g[0] = n /\ Climbs(up, g, Size)
  BY SizeType, ClimbExists
<1>3. Is(g)
  <2>1. \A k \in 0..Size : g[k] = IF k = 0 THEN n ELSE Step(up, g[k - 1])
    BY <1>2, SizeType DEF Climbs
  <2> QED  BY <1>2, <2>1 DEF Size, Step
<1>4. chain = CHOOSE c : Is(c)
  OBVIOUS
<1> HIDE DEF chain
<1>5. Is(chain)
  BY <1>3, <1>4
<1>6. Climbs(up, chain, Size) /\ chain[0] = n
  BY <1>5, SizeType DEF Climbs, Size, Step
<1> HIDE DEF Is
<1>7. \A i \in 0..Size : chain[i] = g[i]
  BY <1>2, <1>6, SizeType, ClimbUnique
<1>8. Above(up, n) = {g[k] : k \in 1..Size}
  BY <1>1, <1>7, SizeType DEF Size
<1> QED  BY <1>2, <1>8

\* Whatever a shorter climb reaches is above its start
LEMMA ReachedIsAbove ==
  ASSUME NEW T, Top \notin T, NEW up \in [T -> T \cup {Top}], NEW n \in T,
         NEW m \in Nat, m <= Size, NEW h, h[0] = n, Climbs(up, h, m), NEW k \in 1..m
  PROVE  h[k] \in Above(up, n)
<1>1. PICK g \in [0..Size -> T \cup {Top}] :
        g[0] = n /\ Climbs(up, g, Size) /\ Above(up, n) = {g[i] : i \in 1..Size}
  BY AboveIs
<1>2. \A i \in 0..m : h[i] = g[i]
  BY <1>1, SizeType, ClimbUnique
<1>3. k \in 0..m /\ k \in 1..Size
  BY SizeType
<1> QED  BY <1>1, <1>2, <1>3

-----------------------------------------------------------------------------
(* The order of siblings *)

Ranks(rank, group) == group \subseteq Node /\ \A n \in group : rank[n] \in Rank

\* rank_sort_key is a strict total order
LEMMA OrderIsStrict ==
  ASSUME NEW rank, NEW group, Ranks(rank, group), NEW a \in group, NEW b \in group
  PROVE  /\ ~(Before(rank, a, b) /\ Before(rank, b, a))
         /\ a = b \/ Before(rank, a, b) \/ Before(rank, b, a)
         /\ ~Before(rank, a, a)
<1>1. a \in Int /\ b \in Int /\ rank[a] \in Int \cup {NoRank} /\ rank[b] \in Int \cup {NoRank}
  BY PlacementAssumption DEF Ranks, Rank
<1> DEFINE x == rank[a]
           y == rank[b]
<1>2. NoRank \notin Int
  BY PlacementAssumption
<1>3. /\ Before(rank, a, b) <=> \/ x # NoRank /\ y = NoRank
                                \/ x # NoRank /\ y # NoRank /\ x < y
                                \/ x = y /\ a < b
      /\ Before(rank, b, a) <=> \/ y # NoRank /\ x = NoRank
                                \/ y # NoRank /\ x # NoRank /\ y < x
                                \/ y = x /\ b < a
      /\ Before(rank, a, a) <=> \/ x # NoRank /\ x < x
                                \/ a < a
  BY DEF Before
<1>4. x \in Int \cup {NoRank} /\ y \in Int \cup {NoRank}
  BY <1>1
<1> HIDE DEF x, y
<1> QED  BY <1>1, <1>2, <1>3, <1>4

LEMMA OrderIsTransitive ==
  ASSUME NEW rank, NEW group, Ranks(rank, group),
         NEW a \in group, NEW b \in group, NEW c \in group,
         Before(rank, a, b), Before(rank, b, c)
  PROVE  Before(rank, a, c)
<1>1. /\ a \in Int /\ b \in Int /\ c \in Int
      /\ rank[a] \in Int \cup {NoRank} /\ rank[b] \in Int \cup {NoRank}
      /\ rank[c] \in Int \cup {NoRank}
  BY PlacementAssumption DEF Ranks, Rank
<1>2. NoRank \notin Int
  BY PlacementAssumption
<1> DEFINE x == rank[a]
           y == rank[b]
           z == rank[c]
<1>3. /\ \/ x # NoRank /\ y = NoRank
         \/ x # NoRank /\ y # NoRank /\ x < y
         \/ x = y /\ a < b
      /\ \/ y # NoRank /\ z = NoRank
         \/ y # NoRank /\ z # NoRank /\ y < z
         \/ y = z /\ b < c
      /\ Before(rank, a, c) <=> \/ x # NoRank /\ z = NoRank
                                \/ x # NoRank /\ z # NoRank /\ x < z
                                \/ x = z /\ a < c
  BY DEF Before
<1>4. x \in Int \cup {NoRank} /\ y \in Int \cup {NoRank} /\ z \in Int \cup {NoRank}
  BY <1>1
<1> HIDE DEF x, y, z
<1> QED  BY <1>1, <1>2, <1>3, <1>4

\* The nodes of a group before n, and how many there are
Earlier(rank, group, n) == {m \in group : Before(rank, m, n)}

LEMMA IndexType ==
  ASSUME NEW rank, NEW group, Ranks(rank, group), NEW n
  PROVE  /\ IsFiniteSet(group) /\ Cardinality(group) \in Nat
         /\ IsFiniteSet(Earlier(rank, group, n))
         /\ IndexIn(rank, group, n) = Cardinality(Earlier(rank, group, n))
         /\ IndexIn(rank, group, n) \in Nat
<1>1. IsFiniteSet(group) /\ Cardinality(group) \in Nat
  BY PlacementAssumption, FS_Subset, FS_CardinalityType DEF Ranks
<1>2. Earlier(rank, group, n) \subseteq group
  BY DEF Earlier
<1>3. IsFiniteSet(Earlier(rank, group, n))
  BY <1>1, <1>2, FS_Subset
<1> QED  BY <1>1, <1>3, FS_CardinalityType DEF IndexIn, Earlier

\* Who is further back has a higher index
LEMMA IndexGrows ==
  ASSUME NEW rank, NEW group, Ranks(rank, group), NEW a \in group, NEW b \in group,
         Before(rank, a, b)
  PROVE  IndexIn(rank, group, a) < IndexIn(rank, group, b)
<1> DEFINE A == Earlier(rank, group, a)
           B == Earlier(rank, group, b)
<1>1. a \notin A /\ A \cup {a} \subseteq B
  <2>1. a \notin A
    BY OrderIsStrict DEF Earlier
  <2>2. \A c \in A : c \in B
    BY OrderIsTransitive DEF Earlier
  <2>3. a \in B
    BY DEF Earlier
  <2> QED  BY <2>1, <2>2, <2>3
<1>2. IsFiniteSet(A) /\ IsFiniteSet(B) /\ Cardinality(A) \in Nat /\ Cardinality(B) \in Nat
  BY IndexType
<1>3. Cardinality(A) = IndexIn(rank, group, a) /\ Cardinality(B) = IndexIn(rank, group, b)
  BY IndexType
<1> HIDE DEF A, B
<1>4. IsFiniteSet(A \cup {a}) /\ Cardinality(A \cup {a}) = Cardinality(A) + 1
  BY <1>1, <1>2, FS_AddElement
<1>5. Cardinality(A \cup {a}) <= Cardinality(B)
  BY <1>1, <1>2, FS_Subset
<1> QED  BY <1>2, <1>3, <1>4, <1>5

\* Indices tell the order
LEMMA IndexTells ==
  ASSUME NEW rank, NEW group, Ranks(rank, group), NEW a \in group, NEW b \in group
  PROVE  /\ Before(rank, a, b) <=> IndexIn(rank, group, a) < IndexIn(rank, group, b)
         /\ a = b <=> IndexIn(rank, group, a) = IndexIn(rank, group, b)
<1>1. IndexIn(rank, group, a) \in Nat /\ IndexIn(rank, group, b) \in Nat
  BY IndexType
<1>2. CASE a = b
  BY <1>1, <1>2, OrderIsStrict
<1>3. CASE Before(rank, a, b)
  BY <1>1, <1>3, IndexGrows
<1>4. CASE Before(rank, b, a)
  BY <1>1, <1>4, IndexGrows
<1> QED  BY <1>2, <1>3, <1>4, OrderIsStrict

\* They are the numbers below the size of the group
LEMMA IndexBelow ==
  ASSUME NEW rank, NEW group, Ranks(rank, group), NEW n \in group
  PROVE  IndexIn(rank, group, n) < Cardinality(group)
<1> DEFINE A == Earlier(rank, group, n)
<1>1. n \notin A /\ A \subseteq group
  BY OrderIsStrict DEF Earlier
<1>2. IsFiniteSet(A) /\ Cardinality(A) \in Nat /\ Cardinality(A) = IndexIn(rank, group, n)
      /\ IsFiniteSet(group) /\ Cardinality(group) \in Nat
  BY IndexType
<1> HIDE DEF A
<1>3. Cardinality(A \cup {n}) = Cardinality(A) + 1
  BY <1>1, <1>2, FS_AddElement
<1>4. Cardinality(A \cup {n}) <= Cardinality(group)
  BY <1>1, <1>2, FS_Subset
<1> QED  BY <1>2, <1>3, <1>4

LEMMA Interval ==
  ASSUME NEW c \in Nat
  PROVE  IsFiniteSet(0..c - 1) /\ Cardinality(0..c - 1) = c
<1>1. PICK b \in Int : b = c - 1
  OBVIOUS
<1>2. 0 \in Int
  OBVIOUS
<1>3. IsFiniteSet(0..b) /\ Cardinality(0..b) = IF 0 > b THEN 0 ELSE b - 0 + 1
  BY <1>1, <1>2, FS_Interval
<1>4. Cardinality(0..b) = c
  <2>1. b \in Int /\ b = c - 1 /\ c \in Nat
    BY <1>1
  <2> QED  BY <1>3, <2>1
<1> QED  BY <1>1, <1>3, <1>4

LEMMA IndexTaken ==
  ASSUME NEW rank, NEW group, Ranks(rank, group),
         NEW k \in Nat, k < Cardinality(group)
  PROVE  \E n \in group : IndexIn(rank, group, n) = k
<1> DEFINE c == Cardinality(group)
           K == 0..c - 1
           f == [n \in group |-> IndexIn(rank, group, n)]
<1>1. c \in Nat /\ IsFiniteSet(group) /\ c > 0
  BY IndexType
<1>2. \A n \in group : f[n] = IndexIn(rank, group, n) /\ f[n] \in K
  BY <1>1, IndexType, IndexBelow
<1>3. f \in [group -> K]
  BY <1>2
<1>4. \A a, b \in group : f[a] = f[b] => a = b
  BY <1>2, IndexTells
<1>5. IsFiniteSet(K) /\ Cardinality(K) = c
  BY <1>1, Interval
<1>6. k \in K
  BY <1>1
<1>7. f \in Injection(group, K)
  BY <1>3, <1>4 DEF Injection, IsInjective
<1> HIDE DEF f, K
<1>8. f \in Surjection(group, K)
  BY <1>5, <1>7, FS_Injection
<1>9. PICK n \in group : f[n] = k
  BY <1>6, <1>8 DEF Surjection
<1> QED  BY <1>2, <1>9

\* At finds the node of an index
LEMMA AtIs ==
  ASSUME NEW rank, NEW group, Ranks(rank, group), NEW k \in Nat, k < Cardinality(group)
  PROVE  At(rank, group, k) \in group /\ IndexIn(rank, group, At(rank, group, k)) = k
<1>1. \E n \in group : IndexIn(rank, group, n) = k
  BY IndexTaken
<1> QED  BY <1>1 DEF At

\* A group has as many nodes with an index below k, k at most its size
LEMMA BelowIndex ==
  ASSUME NEW rank, NEW group, Ranks(rank, group), NEW k \in Nat, k <= Cardinality(group)
  PROVE  Cardinality({m \in group : IndexIn(rank, group, m) < k}) = k
<1> DEFINE S == {m \in group : IndexIn(rank, group, m) < k}
<1>0. Cardinality(group) \in Nat
  BY IndexType
<1>1. CASE k = Cardinality(group)
  <2>1. S = group
    BY <1>1, IndexBelow
  <2> QED  BY <1>1, <2>1
<1>2. CASE k < Cardinality(group)
  <2> DEFINE n == At(rank, group, k)
  <2>1. n \in group /\ IndexIn(rank, group, n) = k
    BY <1>2, AtIs
  <2> HIDE DEF n
  <2>2. S = Earlier(rank, group, n)
    BY <2>1, IndexTells DEF Earlier
  <2> QED  BY <2>1, <2>2, IndexType
<1> QED  BY <1>0, <1>1, <1>2

\* Who is not behind a node that has a rank has one, and no higher
LEMMA EarlierIsLower ==
  ASSUME NEW rank, NEW group, Ranks(rank, group), NEW a \in group, NEW b \in group,
         IndexIn(rank, group, a) <= IndexIn(rank, group, b), rank[b] # NoRank
  PROVE  rank[a] \in Int /\ rank[b] \in Int /\ rank[a] <= rank[b]
<1>1. rank[a] \in Int \cup {NoRank} /\ rank[b] \in Int
  BY DEF Ranks, Rank
<1>2. NoRank \notin Int
  BY PlacementAssumption
<1>3. IndexIn(rank, group, a) \in Nat /\ IndexIn(rank, group, b) \in Nat
  BY IndexType
<1>4. a = b \/ Before(rank, a, b)
  BY <1>3, IndexTells
<1>5. CASE a = b
  BY <1>1, <1>5
<1>6. CASE Before(rank, a, b)
  BY <1>1, <1>2, <1>6 DEF Before
<1> QED  BY <1>4, <1>5, <1>6

UnitIs == Unit \in Nat /\ Unit > 0
LEMMA UnitType == UnitIs
<1>1. 0 \in 0..MaxDecimals
  BY PlacementAssumption
<1> QED  BY <1>1, GrainType DEF Unit, UnitIs

\* What rank_between returns is a rank
LEMMA BetweenType ==
  ASSUME NEW low \in Int, NEW high \in Int, RankBetween(low, high) # NoRank
  PROVE  RankBetween(low, high) \in Int
<1>1. PICK d \in 0..MaxDecimals : \E k \in Int : RankBetween(low, high) = Grain[d] * k
  BY RankIsShort
<1> QED  BY <1>1, GrainType

\* _new_rank: above the ranks of those before the place, below those of the rest
LEMMA NewRankFits ==
  ASSUME NEW rank, NEW others, Ranks(rank, others), NEW k \in Nat, k <= Cardinality(others),
         NewRank(rank, others, k) # NoRank
  PROVE  /\ NewRank(rank, others, k) \in Int
         /\ \A m \in others :
              /\ IndexIn(rank, others, m) < k =>
                   rank[m] \in Int /\ rank[m] < NewRank(rank, others, k)
              /\ ~(IndexIn(rank, others, m) < k) =>
                   rank[m] = NoRank \/ (rank[m] \in Int /\ NewRank(rank, others, k) < rank[m])
<1> DEFINE size == Cardinality(others)
           lower == rank[At(rank, others, k - 1)]
           upper == rank[At(rank, others, k)]
           r == NewRank(rank, others, k)
<1>0. size \in Nat /\ UnitIs
  BY IndexType, UnitType
<1>1. \A m \in others : IndexIn(rank, others, m) \in Nat /\ IndexIn(rank, others, m) < size
                        /\ rank[m] \in Int \cup {NoRank}
  BY IndexType, IndexBelow DEF Ranks, Rank
<1>2. ASSUME k # 0, lower # NoRank
      PROVE  lower \in Int /\ \A m \in others :
               IndexIn(rank, others, m) < k => rank[m] \in Int /\ rank[m] <= lower
  <2>1. k - 1 \in Nat /\ k - 1 < size
    BY <1>0, <1>2
  <2>2. PICK a \in others : a = At(rank, others, k - 1) /\ IndexIn(rank, others, a) = k - 1
    BY <2>1, AtIs
  <2>3. lower \in Int
    BY <1>1, <1>2, <2>2
  <2>4. ASSUME NEW m \in others, IndexIn(rank, others, m) < k
        PROVE  rank[m] \in Int /\ rank[m] <= rank[a]
    <3>1. IndexIn(rank, others, m) <= IndexIn(rank, others, a)
      BY <1>1, <2>2, <2>4
    <3> QED  BY <1>2, <2>2, <3>1, EarlierIsLower
  <2> QED  BY <2>2, <2>3, <2>4
<1>3. ASSUME k < size, upper # NoRank
      PROVE  upper \in Int /\ \A m \in others :
               ~(IndexIn(rank, others, m) < k) => rank[m] = NoRank \/ (rank[m] \in Int /\ upper <= rank[m])
  <2>2. PICK b \in others : b = At(rank, others, k) /\ IndexIn(rank, others, b) = k
    BY <1>3, AtIs
  <2>3. upper \in Int
    BY <1>1, <1>3, <2>2
  <2>4. ASSUME NEW m \in others, ~(IndexIn(rank, others, m) < k), rank[m] # NoRank
        PROVE  rank[m] \in Int /\ rank[b] <= rank[m]
    <3>1. IndexIn(rank, others, b) <= IndexIn(rank, others, m)
      BY <1>1, <2>2, <2>4
    <3> QED  BY <2>2, <2>4, <3>1, EarlierIsLower
  <2> QED  BY <2>2, <2>3, <2>4
<1>4. CASE size = 0
  <2>1. r = Unit
    BY <1>4 DEF NewRank
  <2>2. others = {}
    BY <1>4, IndexType, FS_EmptySet
  <2> QED  BY <1>0, <2>1, <2>2 DEF UnitIs
<1>5. CASE size > 0 /\ k = 0
  <2>1. r = (IF upper = NoRank THEN NoRank ELSE upper - Unit)
    BY <1>0, <1>5 DEF NewRank
  <2>2. upper # NoRank /\ r = upper - Unit
    BY <2>1
  <2>3. upper \in Int
    BY <1>0, <1>3, <1>5, <2>2
  <2>4. r \in Int /\ r < upper
    BY <1>0, <2>2, <2>3 DEF UnitIs
  <2> HIDE DEF r, upper
  <2>5. ASSUME NEW m \in others PROVE rank[m] = NoRank \/ (rank[m] \in Int /\ r < rank[m])
    <3>1. ~(IndexIn(rank, others, m) < k) /\ k < size
      BY <1>0, <1>1, <1>5
    <3>2. rank[m] = NoRank \/ (rank[m] \in Int /\ upper <= rank[m])
      BY <1>3, <2>2, <3>1
    <3> QED  BY <2>3, <2>4, <3>2
  <2>6. \A m \in others : ~(IndexIn(rank, others, m) < k)
    BY <1>1, <1>5
  <2> QED  BY <2>4, <2>5, <2>6 DEF r
<1>6. CASE size > 0 /\ k = size
  <2>1. r = (IF lower = NoRank THEN NoRank ELSE lower + Unit)
    BY <1>0, <1>6 DEF NewRank
  <2>2. lower # NoRank /\ r = lower + Unit
    BY <2>1
  <2>3. lower \in Int
    BY <1>0, <1>2, <1>6, <2>2
  <2>4. r \in Int /\ lower < r
    BY <1>0, <2>2, <2>3 DEF UnitIs
  <2> HIDE DEF r, lower
  <2>5. ASSUME NEW m \in others PROVE IndexIn(rank, others, m) < k /\ rank[m] \in Int /\ rank[m] < r
    <3>1. IndexIn(rank, others, m) < k /\ k # 0
      BY <1>0, <1>1, <1>6
    <3>2. rank[m] \in Int /\ rank[m] <= lower
      BY <1>2, <2>2, <3>1
    <3> QED  BY <2>3, <2>4, <3>1, <3>2
  <2> QED  BY <2>4, <2>5 DEF r
<1>7. CASE size > 0 /\ k # 0 /\ k # size
  <2>1. r = (IF NoRank \in {lower, upper} THEN NoRank ELSE RankBetween(lower, upper))
    BY <1>0, <1>7 DEF NewRank
  <2>2. lower # NoRank /\ upper # NoRank /\ r = RankBetween(lower, upper) /\ k < size
    BY <1>0, <1>7, <2>1
  <2>3. lower \in Int /\ upper \in Int
    BY <1>2, <1>3, <1>7, <2>2
  <2> HIDE DEF lower, upper
  <2>4. r \in Int /\ lower < r /\ r < upper
    BY <2>2, <2>3, BetweenType, RankIsBetween
  <2> HIDE DEF r
  <2>5. ASSUME NEW m \in others, IndexIn(rank, others, m) < k PROVE rank[m] \in Int /\ rank[m] < r
    <3>1. rank[m] \in Int /\ rank[m] <= lower
      BY <1>2, <1>7, <2>2, <2>5
    <3> QED  BY <2>3, <2>4, <3>1
  <2>6. ASSUME NEW m \in others, ~(IndexIn(rank, others, m) < k)
        PROVE  rank[m] = NoRank \/ (rank[m] \in Int /\ r < rank[m])
    <3>1. rank[m] = NoRank \/ (rank[m] \in Int /\ upper <= rank[m])
      BY <1>3, <2>2, <2>6
    <3> QED  BY <2>3, <2>4, <3>1
  <2> QED  BY <2>4, <2>5, <2>6 DEF r
<1> QED  BY <1>0, <1>4, <1>5, <1>6, <1>7

\* Whole ranks above those of a group
LEMMA BaseIs ==
  ASSUME NEW rank, NEW group, Ranks(rank, group)
  PROVE  \E q \in Int : /\ Base(rank, group) = Unit * q
                        /\ \A m \in group : rank[m] # NoRank =>
                             rank[m] \in Int /\ rank[m] < Unit * q + Unit
<1> DEFINE ranked == {n \in group : rank[n] # NoRank}
           IsHighest(n) == \A m \in ranked : rank[m] <= rank[n]
           highest == CHOOSE n \in ranked : IsHighest(n)
<1>0. UnitIs /\ \A m \in ranked : rank[m] \in Int
  BY UnitType DEF Ranks, Rank
<1>1. CASE ranked = {}
  <2>1. Base(rank, group) = 0 /\ Unit * 0 = 0
    BY <1>0, <1>1 DEF Base, UnitIs
  <2> QED  BY <1>1, <2>1
<1>2. CASE ranked # {}
  <2>1. Ranks(rank, ranked)
    BY DEF Ranks
  <2> DEFINE c == Cardinality(ranked)
  <2>2. IsFiniteSet(ranked) /\ c \in Nat /\ c # 0
    BY <1>2, <2>1, IndexType, FS_EmptySet
  <2>3. \E n \in ranked : IsHighest(n)
    <3>1. c - 1 \in Nat /\ c - 1 < c
      BY <2>2
    <3>2. PICK n \in ranked : IndexIn(rank, ranked, n) = c - 1
      BY <2>1, <3>1, IndexTaken
    <3>3. ASSUME NEW m \in ranked PROVE rank[m] <= rank[n]
      <4>1. IndexIn(rank, ranked, m) <= IndexIn(rank, ranked, n)
        BY <2>1, <2>2, <3>2, IndexBelow, IndexType
      <4>2. rank[n] # NoRank
        OBVIOUS
      <4> HIDE DEF ranked
      <4> QED  BY <2>1, <4>1, <4>2, EarlierIsLower
    <3> QED  BY <3>2, <3>3
  <2>4. highest \in ranked /\ IsHighest(highest)
    <3> HIDE DEF ranked, IsHighest
    <3> QED  BY <2>3
  <2>5. Base(rank, group) = Unit * (rank[highest] \div Unit)
    BY <1>2 DEF Base
  <2>6. rank[highest] \in Int
    BY <1>0, <2>4
  <2>7. PICK top \in Int : top = rank[highest]
    BY <2>6
  <2> HIDE DEF highest
  <2>8. top \div Unit \in Int /\ top < Unit * (top \div Unit) + Unit
    BY <1>0, Quotient DEF UnitIs
  <2>9. \A m \in group : rank[m] # NoRank => rank[m] \in Int /\ rank[m] <= top
    BY <1>0, <2>4, <2>7
  <2>10. PICK q \in Int : q = top \div Unit
    BY <2>8
  <2>11. PICK b \in Int : b = Unit * q /\ top < b + Unit
    BY <1>0, <2>8, <2>10 DEF UnitIs
  <2>12. \A m \in group : rank[m] # NoRank => rank[m] \in Int /\ rank[m] < b + Unit
    BY <1>0, <2>9, <2>11 DEF UnitIs
  <2> QED  BY <2>5, <2>7, <2>10, <2>11, <2>12
<1> QED  BY <1>1, <1>2

\* A renumbering gives whole ranks, in the old order, above all the old ones
LEMMA FreshIs ==
  ASSUME NEW rank, NEW group, Ranks(rank, group)
  PROVE  \E q \in Int :
           \A n \in group :
             /\ Renumbered(rank, group)[n] = Unit * (q + IndexIn(rank, group, n))
             /\ Renumbered(rank, group)[n] \in Int
             /\ \A m \in group : rank[m] # NoRank =>
                  rank[m] \in Int /\ rank[m] < Renumbered(rank, group)[n]
<1>0. Unit \in Nat /\ Unit > 0
  BY UnitType DEF UnitIs
<1>1. PICK p \in Int : /\ Base(rank, group) = Unit * p
                       /\ \A m \in group : rank[m] # NoRank =>
                            rank[m] \in Int /\ rank[m] < Unit * p + Unit
  BY BaseIs
<1>2. ASSUME NEW n \in group
      PROVE  /\ Renumbered(rank, group)[n] = Unit * (p + 1 + IndexIn(rank, group, n))
             /\ Renumbered(rank, group)[n] \in Int
             /\ Unit * p + Unit <= Renumbered(rank, group)[n]
  <2>1. Renumbered(rank, group)[n] = Base(rank, group) + Unit * (IndexIn(rank, group, n) + 1)
    BY DEF Renumbered
  <2>2. PICK i \in Nat : i = IndexIn(rank, group, n)
    BY IndexType
  <2>3. /\ Unit * p + Unit * (i + 1) = Unit * (p + 1 + i)
        /\ Unit * (p + 1 + i) = Unit * p + Unit + Unit * i
        /\ Unit * i \in Nat /\ Unit * p \in Int
    BY <1>0
  <2> QED  BY <1>0, <1>1, <2>1, <2>2, <2>3
<1>3. ASSUME NEW n \in group, NEW m \in group, rank[m] # NoRank
      PROVE  rank[m] \in Int /\ rank[m] < Renumbered(rank, group)[n]
  <2>1. rank[m] \in Int /\ rank[m] < Unit * p + Unit /\ Unit * p + Unit \in Int
    BY <1>0, <1>1, <1>3
  <2> QED  BY <1>2, <2>1
<1>4. p + 1 \in Int
  OBVIOUS
<1> QED  BY <1>2, <1>3, <1>4

LEMMA FreshKeepsOrder ==
  ASSUME NEW rank, NEW group, Ranks(rank, group)
  PROVE  /\ Ranks(Renumbered(rank, group), group)
         /\ \A a, b \in group :
              /\ Before(Renumbered(rank, group), a, b) <=> Before(rank, a, b)
              /\ Before(rank, a, b) =>
                   Renumbered(rank, group)[a] < Renumbered(rank, group)[b]
<1> DEFINE fresh == Renumbered(rank, group)
<1>0. Unit \in Nat /\ Unit > 0
  BY UnitType DEF UnitIs
<1>1. PICK q \in Int : \A n \in group : /\ fresh[n] = Unit * (q + IndexIn(rank, group, n))
                                        /\ fresh[n] \in Int
  BY FreshIs
<1> HIDE DEF fresh
<1>2. Ranks(fresh, group)
  BY <1>1 DEF Ranks, Rank
<1>3. ASSUME NEW a \in group, NEW b \in group, Before(rank, a, b)
      PROVE  fresh[a] < fresh[b] /\ Before(fresh, a, b)
  <2>1. PICK i \in Nat, j \in Nat : i = IndexIn(rank, group, a) /\ j = IndexIn(rank, group, b)
    BY IndexType
  <2>2. i < j
    BY <1>3, <2>1, IndexTells
  <2>3. Unit * (q + i) + Unit <= Unit * (q + j)
    <3>1. q + i \in Int /\ q + j \in Int /\ q + i < q + j
      BY <2>2
    <3> QED  BY <1>0, <3>1, Apart
  <2>4. fresh[a] + Unit <= fresh[b]
    BY <1>1, <2>1, <2>3
  <2>5. fresh[a] \in Int /\ fresh[b] \in Int /\ fresh[a] < fresh[b]
    BY <1>0, <1>1, <2>4
  <2> QED  BY <2>5, PlacementAssumption DEF Before
<1>4. ASSUME NEW a \in group, NEW b \in group, Before(fresh, a, b)
      PROVE  Before(rank, a, b)
  <2>1. a # b /\ ~Before(fresh, b, a)
    BY <1>2, <1>4, OrderIsStrict
  <2> QED  BY <1>3, <2>1, OrderIsStrict
<1> QED  BY <1>2, <1>3, <1>4 DEF fresh

\* Between whole ranks there is always room: the last write of a renumbering has
\* a rank
LEMMA FreshLeavesRoom ==
  ASSUME NEW rank, NEW group, Ranks(rank, group), NEW others \in SUBSET group,
         NEW k \in Nat, k <= Cardinality(others)
  PROVE  NewRank(Renumbered(rank, group), others, k) # NoRank
<1> DEFINE fresh == Renumbered(rank, group)
           size == Cardinality(others)
           lower == fresh[At(fresh, others, k - 1)]
           upper == fresh[At(fresh, others, k)]
<1>0. Unit \in Nat /\ Unit > 0 /\ NoRank \notin Int
  BY UnitType, PlacementAssumption DEF UnitIs
<1>1. PICK q \in Int : \A n \in group : /\ fresh[n] = Unit * (q + IndexIn(rank, group, n))
                                        /\ fresh[n] \in Int
  BY FreshIs
<1>2. /\ Ranks(fresh, group) /\ Ranks(fresh, others)
      /\ \A a, b \in group : Before(fresh, a, b) <=> Before(rank, a, b)
  BY FreshKeepsOrder DEF Ranks
<1> HIDE DEF fresh
<1>3. size \in Nat
  BY <1>2, IndexType
<1>4. ASSUME k # 0 PROVE At(fresh, others, k - 1) \in others /\ lower \in Int
                         /\ IndexIn(fresh, others, At(fresh, others, k - 1)) = k - 1
  <2>1. k - 1 \in Nat /\ k - 1 < size
    BY <1>3, <1>4
  <2>2. At(fresh, others, k - 1) \in others /\ IndexIn(fresh, others, At(fresh, others, k - 1)) = k - 1
    BY <1>2, <2>1, AtIs
  <2> QED  BY <1>1, <2>2
<1>5. ASSUME k < size PROVE At(fresh, others, k) \in others /\ upper \in Int
                            /\ IndexIn(fresh, others, At(fresh, others, k)) = k
  BY <1>1, <1>2, <1>5, AtIs
<1>6. CASE size = 0
  BY <1>0, <1>6 DEF NewRank
<1>7. CASE size > 0 /\ k = 0
  <2>1. NewRank(fresh, others, k) = IF upper = NoRank THEN NoRank ELSE upper - Unit
    BY <1>3, <1>7 DEF NewRank
  <2>2. upper \in Int
    BY <1>3, <1>5, <1>7
  <2> HIDE DEF upper
  <2>3. upper - Unit \in Int
    BY <1>0, <2>2
  <2> QED  BY <1>0, <2>1, <2>2, <2>3 DEF fresh
<1>8. CASE size > 0 /\ k = size
  <2>1. NewRank(fresh, others, k) = IF lower = NoRank THEN NoRank ELSE lower + Unit
    BY <1>3, <1>8 DEF NewRank
  <2>2. lower \in Int
    BY <1>3, <1>4, <1>8
  <2> HIDE DEF lower
  <2>3. lower + Unit \in Int
    BY <1>0, <2>2
  <2> QED  BY <1>0, <2>1, <2>2, <2>3 DEF fresh
<1>9. CASE size > 0 /\ k # 0 /\ k # size
  <2>1. NewRank(fresh, others, k) =
          IF NoRank \in {lower, upper} THEN NoRank ELSE RankBetween(lower, upper)
    BY <1>3, <1>9 DEF NewRank
  <2>2. lower \in Int /\ upper \in Int /\ k < size
    BY <1>3, <1>4, <1>5, <1>9
  <2>3. PICK a \in others, b \in others :
          /\ a = At(fresh, others, k - 1) /\ b = At(fresh, others, k)
          /\ IndexIn(fresh, others, a) = k - 1 /\ IndexIn(fresh, others, b) = k
    BY <1>4, <1>5, <1>9, <2>2
  <2>4. Before(fresh, a, b)
    BY <1>2, <2>3, IndexTells
  <2>5. Before(rank, a, b)
    BY <1>2, <2>4
  <2>6. PICK i \in Nat, j \in Nat : i = IndexIn(rank, group, a) /\ j = IndexIn(rank, group, b)
    BY IndexType
  <2>7. i < j
    BY <2>5, <2>6, IndexTells
  <2>8. lower = Unit * (q + i) /\ upper = Unit * (q + j)
    BY <1>1, <2>3, <2>6
  <2>9. q + i \in Int /\ q + j \in Int /\ q + i < q + j
    BY <2>7
  <2>10. RankBetween(lower, upper) # NoRank
    BY <2>8, <2>9, WholeRanksLeaveRoom
  <2> QED  BY <1>0, <2>1, <2>2, <2>10 DEF fresh
<1> QED  BY <1>3, <1>6, <1>7, <1>8, <1>9 DEF fresh

-----------------------------------------------------------------------------
(* Trees without cycles *)

Parents(tree) == [n \in NodesOf(tree) |-> Claimed(tree, n)]

\* No set of nodes has all their parents within it
Grounded(tree) ==
  \A S \in SUBSET NodesOf(tree) : S # {} => \E n \in S : Claimed(tree, n) \notin S

\* n is not above `to`: all that is above `to` is in a set without it
Clear(tree, n, to) ==
  /\ n # to
  /\ \E R \in SUBSET NodesOf(tree) :
       /\ n \notin R /\ to \in R \cup {Top}
       /\ \A x \in R : Claimed(tree, x) \in R \cup {Top}

LEMMA ParentsType ==
  ASSUME NEW tree
  PROVE  /\ Parents(tree) \in [NodesOf(tree) -> NodesOf(tree) \cup {Top}]
         /\ Top \notin NodesOf(tree) /\ NodesOf(tree) \subseteq Node
         /\ IsFiniteSet(NodesOf(tree)) /\ Cardinality(NodesOf(tree)) <= Size
<1>1. Top \notin NodesOf(tree) /\ NodesOf(tree) \subseteq Node
  BY PlacementAssumption DEF NodesOf
<1>2. \A n \in NodesOf(tree) : Claimed(tree, n) \in NodesOf(tree) \cup {Top}
  BY DEF Claimed
<1>3. IsFiniteSet(NodesOf(tree)) /\ Cardinality(NodesOf(tree)) <= Size
  BY <1>1, PlacementAssumption, FS_Subset DEF Size
<1> QED  BY <1>1, <1>2, <1>3 DEF Parents

\* A climb does not come back from the top
LEMMA TopStays ==
  ASSUME NEW up, NEW g, NEW m \in Nat, Climbs(up, g, m),
         NEW i \in 0..m, NEW j \in i..m, g[j] # Top
  PROVE  g[i] # Top
<1> DEFINE Bad == {k \in i..j : g[k] # Top}
<1> SUFFICES ASSUME g[i] = Top PROVE FALSE
  OBVIOUS
<1>1. Bad \subseteq Nat /\ j \in Bad
  OBVIOUS
<1>2. PICK k \in Bad : \A l \in Bad : k <= l
  <2> HIDE DEF Bad
  <2> QED  BY <1>1, Least
<1>3. k # i
  OBVIOUS
<1>4. k - 1 \in i..j /\ k - 1 \notin Bad /\ k \in 1..m
  BY <1>2, <1>3
<1>5. g[k - 1] = Top
  BY <1>4
<1>6. g[k] = Top
  BY <1>4, <1>5 DEF Climbs, Step
<1> QED  BY <1>6

\* A climb of a grounded tree passes no node twice
LEMMA NothingTwice ==
  ASSUME NEW tree, Grounded(tree), NEW m \in Nat, NEW g \in [0..m -> NodesOf(tree) \cup {Top}],
         Climbs(Parents(tree), g, m), NEW i \in 0..m, NEW j \in 0..m, i < j, g[i] = g[j]
  PROVE  g[j] = Top
<1> SUFFICES ASSUME g[j] # Top PROVE FALSE
  OBVIOUS
<1> DEFINE S == {g[k] : k \in i..j - 1}
<1>1. ASSUME NEW k \in i..j - 1 PROVE g[k] \in NodesOf(tree) /\ Claimed(tree, g[k]) \in S
  <2>1. k \in 0..m /\ j \in k..m /\ k + 1 \in 1..m
    OBVIOUS
  <2>2. g[k] # Top
    BY <2>1, TopStays
  <2>3. g[k] \in NodesOf(tree)
    BY <2>1, <2>2
  <2>4. g[k + 1] = Step(Parents(tree), g[k])
    <3>1. g[k + 1] = Step(Parents(tree), g[k + 1 - 1])
      BY <2>1 DEF Climbs
    <3>2. k + 1 - 1 = k
      OBVIOUS
    <3> QED  BY <3>1, <3>2
  <2>5. g[k + 1] = Claimed(tree, g[k])
    BY <2>2, <2>3, <2>4 DEF Step, Parents
  <2>6. CASE k = j - 1
    <3>1. g[k + 1] = g[i] /\ i \in i..j - 1
      BY <2>6
    <3> QED  BY <2>3, <2>5, <3>1
  <2>7. CASE k # j - 1
    <3>1. k + 1 \in i..j - 1
      BY <2>7
    <3> QED  BY <2>3, <2>5, <3>1
  <2> QED  BY <2>6, <2>7
<1>2. S \subseteq NodesOf(tree) /\ \A n \in S : Claimed(tree, n) \in S
  BY <1>1
<1>3. g[i] \in S
  OBVIOUS
<1> HIDE DEF S
<1> QED  BY <1>2, <1>3 DEF Grounded

\* A climb as long as there are nodes passes one twice, or reaches the top
LEMMA SomethingTwice ==
  ASSUME NEW tree, NEW g \in [0..Size -> NodesOf(tree) \cup {Top}],
         \A k \in 0..Size : g[k] # Top
  PROVE  \E i, j \in 0..Size : i < j /\ g[i] = g[j]
<1>1. IsFiniteSet(0..Size) /\ Cardinality(0..Size) = Size + 1
  <2>1. PICK c \in Nat : c = Size + 1
    BY SizeType
  <2>2. IsFiniteSet(0..c - 1) /\ Cardinality(0..c - 1) = c
    BY Interval
  <2>3. c - 1 = Size
    BY <2>1, SizeType
  <2> QED  BY <2>1, <2>2, <2>3
<1>2. g \in [0..Size -> NodesOf(tree)]
  OBVIOUS
<1>3. /\ IsFiniteSet(NodesOf(tree)) /\ Cardinality(NodesOf(tree)) \in Nat
      /\ Cardinality(NodesOf(tree)) <= Size
  BY ParentsType, FS_CardinalityType
<1>4. Cardinality(NodesOf(tree)) < Cardinality(0..Size)
  BY <1>1, <1>3, SizeType
<1>5. PICK x, y \in 0..Size : x # y /\ g[x] = g[y]
  BY <1>1, <1>2, <1>3, <1>4, FS_PigeonHole, ZenonT(60)
<1>6. x < y \/ y < x
  BY <1>5, SizeType
<1> QED  BY <1>5, <1>6

\* A grounded tree has no cycle: every node is where its file says
LEMMA GroundedHasNoCycle ==
  ASSUME NEW tree, Grounded(tree), NEW n \in NodesOf(tree)
  PROVE  ~OnCycle(tree, n) /\ HonouredParent(tree, n) = Claimed(tree, n)
<1> SUFFICES ASSUME OnCycle(tree, n) PROVE FALSE
  BY DEF HonouredParent
<1> DEFINE U == Parents(tree)
<1>1. n \in Above(U, n)
  BY DEF OnCycle, Parents
<1>2. U \in [NodesOf(tree) -> NodesOf(tree) \cup {Top}] /\ Top \notin NodesOf(tree)
  BY ParentsType
<1> HIDE DEF U
<1>3. PICK g \in [0..Size -> NodesOf(tree) \cup {Top}] :
        g[0] = n /\ Climbs(U, g, Size) /\ Above(U, n) = {g[k] : k \in 1..Size}
  BY <1>2, AboveIs
<1>4. PICK k \in 1..Size : g[k] = n
  BY <1>1, <1>3
<1>5. 0 \in 0..Size /\ k \in 0..Size /\ 0 < k
  BY SizeType
<1>6. g[k] = Top
  BY <1>3, <1>4, <1>5, SizeType, NothingTwice DEF U
<1> QED  BY <1>2, <1>4, <1>6

\* ... and one without a cycle is grounded
LEMMA NoCycleIsGrounded ==
  ASSUME NEW tree, \A n \in NodesOf(tree) : ~OnCycle(tree, n)
  PROVE  Grounded(tree)
<1> SUFFICES ASSUME NEW S \in SUBSET NodesOf(tree), S # {},
                    \A n \in S : Claimed(tree, n) \in S
             PROVE  FALSE
  BY DEF Grounded
<1> DEFINE U == Parents(tree)
<1>1. U \in [NodesOf(tree) -> NodesOf(tree) \cup {Top}] /\ Top \notin NodesOf(tree)
      /\ \A x \in NodesOf(tree) : U[x] = Claimed(tree, x)
  BY ParentsType DEF Parents
<1> HIDE DEF U
<1>2. PICK x \in S : TRUE
  OBVIOUS
<1>3. PICK g \in [0..Size -> NodesOf(tree) \cup {Top}] : g[0] = x /\ Climbs(U, g, Size)
  BY <1>1, AboveIs
<1>4. \A k \in 0..Size : g[k] \in S
  <2> DEFINE Bad == {k \in 0..Size : g[k] \notin S}
  <2> SUFFICES ASSUME Bad # {} PROVE FALSE
    OBVIOUS
  <2>1. Bad \subseteq Nat
    BY SizeType
  <2>2. PICK k \in Bad : \A l \in Bad : k <= l
    <3> HIDE DEF Bad
    <3> QED  BY <2>1, Least
  <2>3. k # 0
    BY <1>3
  <2>4. k - 1 \in 0..Size /\ k - 1 \notin Bad /\ k \in 1..Size
    BY <2>2, <2>3, SizeType
  <2>5. g[k - 1] \in S
    BY <2>4
  <2>6. g[k] = Step(U, g[k - 1])
    BY <1>3, <2>4 DEF Climbs
  <2>7. g[k] = Claimed(tree, g[k - 1])
    BY <1>1, <2>5, <2>6 DEF Step
  <2>8. g[k] \in S
    BY <2>5, <2>7
  <2> QED  BY <2>8
<1>5. PICK i, j \in 0..Size : i < j /\ g[i] = g[j]
  <2>1. \A k \in 0..Size : g[k] # Top
    BY <1>1, <1>4
  <2> QED  BY <2>1, SomethingTwice
<1> DEFINE n == g[i]
           m == j - i
           h == [k \in 0..m |-> g[i + k]]
<1>6. m \in Nat /\ m <= Size /\ m \in 1..m
  BY <1>5, SizeType
<1>7. h[0] = n /\ h[m] = n
  <2>1. i + 0 = i /\ i + m = j /\ 0 \in 0..m /\ m \in 0..m
    BY <1>5, <1>6, SizeType
  <2> HIDE DEF m
  <2>2. h[0] = g[i + 0] /\ h[m] = g[i + m]
    BY <2>1
  <2> QED  BY <1>5, <2>1, <2>2
<1>8. Climbs(U, h, m)
  <2> SUFFICES ASSUME NEW k \in 1..m PROVE h[k] = Step(U, h[k - 1])
    BY DEF Climbs
  <2>1. h[k] = g[i + k] /\ h[k - 1] = g[i + (k - 1)]
    BY <1>6
  <2>2. i + k \in 1..Size /\ i + k - 1 = i + (k - 1)
    BY <1>5, <1>6, SizeType
  <2>3. g[i + k] = Step(U, g[i + k - 1])
    BY <1>3, <2>2 DEF Climbs
  <2> QED  BY <2>1, <2>2, <2>3
<1>9. n \in NodesOf(tree)
  BY <1>4
<1> HIDE DEF h, n, m
<1>10. h[m] \in Above(U, n)
  BY <1>1, <1>6, <1>7, <1>8, <1>9, ReachedIsAbove
<1>11. OnCycle(tree, n)
  BY <1>7, <1>10 DEF OnCycle, U, Parents
<1> QED  BY <1>9, <1>11

\* contains_node: what does not contain the place it is to go to is not above it
LEMMA NotContaining ==
  ASSUME NEW tree, Grounded(tree), NEW n \in NodesOf(tree), NEW to \in NodesOf(tree) \cup {Top},
         to # Top => ~Contains(tree, n, to)
  PROVE  Clear(tree, n, to)
<1>0. Top \notin NodesOf(tree)
  BY ParentsType
<1>1. CASE to = Top
  <2>1. n # to
    BY <1>0, <1>1
  <2>2. {} \in SUBSET NodesOf(tree) /\ to \in {} \cup {Top}
    BY <1>1
  <2> QED  BY <2>1, <2>2 DEF Clear
<1>2. CASE to # Top
  <2> DEFINE U == Parents(tree)
             R == ({to} \cup Above(U, to)) \ {Top}
  <2>1. U = [k \in NodesOf(tree) |-> HonouredParent(tree, k)]
    BY GroundedHasNoCycle DEF Parents
  <2>2. n # to /\ n \notin Above(U, to)
    BY <1>2, <2>1 DEF Contains
  <2>3. U \in [NodesOf(tree) -> NodesOf(tree) \cup {Top}] /\ to \in NodesOf(tree)
    BY <1>2, ParentsType
  <2>4. \A x \in NodesOf(tree) : U[x] = Claimed(tree, x)
    BY DEF Parents
  <2> HIDE DEF U
  <2>5. PICK g \in [0..Size -> NodesOf(tree) \cup {Top}] :
          g[0] = to /\ Climbs(U, g, Size) /\ Above(U, to) = {g[k] : k \in 1..Size}
    BY <1>0, <2>3, AboveIs
  <2>6. {to} \cup Above(U, to) = {g[k] : k \in 0..Size}
    <3>1. 0..Size = {0} \cup 1..Size
      BY SizeType
    <3> QED  BY <2>5, <3>1
  <2>7. g[Size] = Top
    <3> SUFFICES ASSUME g[Size] # Top PROVE FALSE
      OBVIOUS
    <3>1. \A k \in 0..Size : g[k] # Top
      <4> SUFFICES ASSUME NEW k \in 0..Size PROVE g[k] # Top
        OBVIOUS
      <4>1. Size \in k..Size
        BY SizeType
      <4> QED  BY <2>5, <4>1, SizeType, TopStays
    <3>2. PICK i, j \in 0..Size : i < j /\ g[i] = g[j]
      BY <3>1, SomethingTwice
    <3>3. g[j] = Top
      BY <2>5, <3>2, SizeType, NothingTwice DEF U
    <3> QED  BY <3>1, <3>3
  <2>8. R \subseteq NodesOf(tree)
    BY <2>6
  <2>9. n \notin R /\ to \in R
    BY <1>2, <2>2
  <2>10. ASSUME NEW x \in R PROVE Claimed(tree, x) \in R \cup {Top}
    <3>1. PICK k \in 0..Size : x = g[k]
      BY <2>6
    <3>2. k # Size /\ k + 1 \in 1..Size /\ k + 1 - 1 = k
      BY <2>7, <3>1, SizeType
    <3>3. g[k + 1] = Step(U, g[k])
      BY <2>5, <3>2 DEF Climbs
    <3>4. g[k + 1] = Claimed(tree, x)
      BY <2>4, <2>8, <3>1, <3>3 DEF Step
    <3>5. g[k + 1] \in Above(U, to)
      BY <2>5, <3>2
    <3> QED  BY <3>4, <3>5
  <2> HIDE DEF R
  <2> QED  BY <2>2, <2>8, <2>9, <2>10 DEF Clear
<1> QED  BY <1>1, <1>2

\* A tree stays grounded when one node goes where it is not above
LEMMA GoingKeepsGrounded ==
  ASSUME NEW old, NEW new, Grounded(old), NodesOf(new) = NodesOf(old),
         NEW n \in NodesOf(old), NEW to, Clear(old, n, to),
         Claimed(new, n) = to,
         \A m \in NodesOf(old) : m # n => Claimed(new, m) = Claimed(old, m)
  PROVE  Grounded(new)
<1> SUFFICES ASSUME NEW S \in SUBSET NodesOf(old), S # {}, \A m \in S : Claimed(new, m) \in S
             PROVE  FALSE
  BY DEF Grounded
<1>1. CASE n \notin S
  BY <1>1 DEF Grounded
<1>2. CASE n \in S
  <2>1. PICK R \in SUBSET NodesOf(old) :
          /\ n \notin R /\ to \in R \cup {Top}
          /\ \A x \in R : Claimed(old, x) \in R \cup {Top}
    BY DEF Clear
  <2>2. Top \notin S /\ to \in S
    BY <1>2, ParentsType
  <2> DEFINE Q == R \cap S
  <2>3. to \in Q /\ Q \subseteq NodesOf(old)
    BY <2>1, <2>2
  <2>4. \A x \in Q : Claimed(old, x) \in Q
    BY <2>1, <2>2
  <2> HIDE DEF Q
  <2> QED  BY <2>3, <2>4 DEF Grounded
<1> QED  BY <1>1, <1>2

LEMMA StaysClear ==
  ASSUME NEW old, NEW new, NodesOf(new) = NodesOf(old), NEW n, NEW to, Clear(old, n, to),
         \A m \in NodesOf(old) : m # n => Claimed(new, m) = Claimed(old, m)
  PROVE  Clear(new, n, to)
BY DEF Clear

-----------------------------------------------------------------------------
(* Lists *)

IsList(s) == s \in Seq({s[i] : i \in DOMAIN s})

\* A function on 1..k is a list of length k
LEMMA FunctionIsList ==
  ASSUME NEW k \in Nat, NEW s, s = [i \in 1..k |-> s[i]]
  PROVE  IsList(s) /\ Len(s) = k /\ DOMAIN s = 1..k
<1> DEFINE S == {s[i] : i \in 1..k}
<1>1. DOMAIN s = 1..k
  OBVIOUS
<1>2. s \in [1..k -> S]
  OBVIOUS
<1>3. s \in Seq(S) /\ Len(s) = k
  BY <1>2
<1> QED  BY <1>1, <1>3 DEF IsList

\* What a list is
LEMMA ListIsFunction ==
  ASSUME NEW s, IsList(s)
  PROVE  Len(s) \in Nat /\ DOMAIN s = 1..Len(s) /\ s = [i \in 1..Len(s) |-> s[i]]
BY DEF IsList

\* The rest of a list is a list
LEMMA TailIsList ==
  ASSUME NEW s, IsList(s), s # <<>>
  PROVE  /\ IsList(Tail(s)) /\ Len(Tail(s)) = Len(s) - 1 /\ Len(s) >= 1
         /\ \A i \in 1..Len(Tail(s)) : Tail(s)[i] = s[i + 1]
         /\ Head(s) = s[1]
<1> DEFINE S == {s[i] : i \in DOMAIN s}
<1>1. s \in Seq(S)
  BY DEF IsList
<1> HIDE DEF S
<1>2. /\ Tail(s) \in Seq(S) /\ Len(Tail(s)) = Len(s) - 1 /\ Len(s) >= 1
      /\ \A i \in 1..Len(Tail(s)) : Tail(s)[i] = s[i + 1]
  BY <1>1, HeadTailProperties, EmptySeq
<1>3. Tail(s) = [i \in 1..Len(Tail(s)) |-> Tail(s)[i]] /\ Len(Tail(s)) \in Nat
  BY <1>2, LenProperties
<1>4. Head(s) = s[1]
  BY <1>1
<1> QED  BY <1>2, <1>3, <1>4, FunctionIsList

\* A list of one, and of none
LEMMA ShortLists ==
  /\ IsList(<<>>) /\ Len(<<>>) = 0
  /\ \A e : IsList(<<e>>) /\ Len(<<e>>) = 1 /\ <<e>>[1] = e /\ <<e>> # <<>>
<1>1. IsList(<<>>) /\ Len(<<>>) = 0
  BY DEF IsList
<1>2. ASSUME NEW e PROVE IsList(<<e>>) /\ Len(<<e>>) = 1 /\ <<e>>[1] = e /\ <<e>> # <<>>
  <2> DEFINE s == <<e>>
  <2>1. s = [i \in 1..1 |-> s[i]] /\ s[1] = e /\ s # <<>>
    OBVIOUS
  <2> HIDE DEF s
  <2>2. IsList(s) /\ Len(s) = 1
    BY <2>1, FunctionIsList
  <2> QED  BY <2>1, <2>2 DEF s
<1> QED  BY <1>1, <1>2

\* Two lists end to end
LEMMA ConcatIsList ==
  ASSUME NEW s, NEW t, IsList(s), IsList(t)
  PROVE  IsList(s \o t)
<1> DEFINE S == {s[i] : i \in DOMAIN s}
           T == {t[i] : i \in DOMAIN t}
<1>1. s \in Seq(S) /\ t \in Seq(T)
  BY DEF IsList
<1> HIDE DEF S, T
<1>2. s \in Seq(S \cup T) /\ t \in Seq(S \cup T)
  BY <1>1, SeqMonotonic
<1>3. s \o t \in Seq(S \cup T)
  BY <1>2, ConcatProperties
<1>4. Len(s \o t) \in Nat /\ s \o t = [i \in 1..Len(s \o t) |-> (s \o t)[i]]
  BY <1>3, LenProperties
<1> QED  BY <1>4, FunctionIsList

-----------------------------------------------------------------------------
(* Plans of a tree *)

\* The placement edits of a tree, and the first of them applied to it
PlacedIn(tree, n, to, m, rank) ==
  [kind |-> "place", node |-> m,
   place |-> [parent |-> IF m = n THEN to ELSE tree[m].parent, rank |-> rank]]
EditsOf(tree, n, to, at) ==
  LET writes == PlanPlacement(RankOf(tree), Siblings(tree, to), n, at)
  IN IF writes = <<>> /\ tree[n].parent # to
     THEN <<PlacedIn(tree, n, to, n, tree[n].rank)>>
     ELSE [i \in DOMAIN writes |-> PlacedIn(tree, n, to, writes[i].node, writes[i].rank)]

Written(edits, j, m) == {i \in 1..j : edits[i].node = m}
Newest(I) == CHOOSE i \in I : \A k \in I : k <= i
After(tree, edits, j) ==
  [m \in Node |-> IF Written(edits, j, m) = {} THEN tree[m]
                  ELSE edits[Newest(Written(edits, j, m))].place]

LEMMA AfterNone ==
  ASSUME NEW tree \in Tree, NEW edits
  PROVE  After(tree, edits, 0) = tree
<1>1. \A m \in Node : Written(edits, 0, m) = {}
  BY DEF Written
<1>2. After(tree, edits, 0) = [m \in Node |-> tree[m]]
  BY <1>1 DEF After
<1> QED  BY <1>2 DEF Tree

LEMMA AfterNext ==
  ASSUME NEW tree, NEW edits, NEW j \in Nat, edits[j + 1].node \in Node
  PROVE  After(tree, edits, j + 1)
           = [After(tree, edits, j) EXCEPT ![edits[j + 1].node] = edits[j + 1].place]
<1> DEFINE n == edits[j + 1].node
<1>1. ASSUME NEW m \in Node, m # n PROVE Written(edits, j + 1, m) = Written(edits, j, m)
  <2>1. 1..j + 1 = (1..j) \cup {j + 1}
    OBVIOUS
  <2> QED  BY <1>1, <2>1 DEF Written
<1>2. j + 1 \in Written(edits, j + 1, n) /\ \A i \in Written(edits, j + 1, n) : i <= j + 1
  BY DEF Written
<1>3. Newest(Written(edits, j + 1, n)) = j + 1
  <2> DEFINE I == Written(edits, j + 1, n)
  <2>1. I \subseteq Int /\ j + 1 \in I /\ \A i \in I : i <= j + 1
    BY <1>2 DEF Written
  <2> HIDE DEF I
  <2>2. \A i \in I : (\A k \in I : k <= i) => i = j + 1
    BY <2>1
  <2>3. Newest(I) = j + 1
    BY <2>1, <2>2 DEF Newest
  <2> QED  BY <2>3 DEF I
<1>4. \A m \in Node : After(tree, edits, j + 1)[m] =
        IF m = n THEN edits[j + 1].place ELSE After(tree, edits, j)[m]
  <2>1. ASSUME NEW m \in Node, m # n PROVE After(tree, edits, j + 1)[m] = After(tree, edits, j)[m]
    BY <1>1, <2>1 DEF After
  <2>2. After(tree, edits, j + 1)[n] = edits[Newest(Written(edits, j + 1, n))].place
    BY <1>2 DEF After
  <2> HIDE DEF n
  <2> QED  BY <1>3, <2>1, <2>2
<1>5. After(tree, edits, j + 1) = [m \in Node |-> After(tree, edits, j + 1)[m]]
      /\ After(tree, edits, j) = [m \in Node |-> After(tree, edits, j)[m]]
  BY DEF After
<1> HIDE DEF n
<1> QED  BY <1>4, <1>5 DEF n

\* What a node says after some edits: the last of them that was for it
LEMMA NewestIs ==
  ASSUME NEW edits, NEW j \in Nat, NEW m, Written(edits, j, m) # {}
  PROVE  /\ Newest(Written(edits, j, m)) \in Written(edits, j, m)
         /\ \A k \in Written(edits, j, m) : k <= Newest(Written(edits, j, m))
<1> DEFINE I == Written(edits, j, m)
           Gaps == {j - i : i \in I}
<1>1. I \subseteq 1..j
  BY DEF Written
<1>2. Gaps \subseteq Nat /\ Gaps # {}
  BY <1>1
<1> HIDE DEF I, Gaps
<1>3. PICK g \in Gaps : \A h \in Gaps : g <= h
  BY <1>2, Least
<1>4. PICK i \in I : g = j - i
  BY DEF Gaps
<1>5. \A k \in I : k <= i
  <2> SUFFICES ASSUME NEW k \in I PROVE k <= i
    OBVIOUS
  <2>1. j - k \in Gaps
    BY DEF Gaps
  <2>2. j - i <= j - k /\ i \in Int /\ k \in Int
    BY <1>1, <1>3, <1>4, <2>1
  <2> QED  BY <2>2
<1>6. Newest(I) \in I /\ \A k \in I : k <= Newest(I)
  BY <1>5 DEF Newest
<1> QED  BY <1>6 DEF I

\* The shape of a placement edit
IsPlacing(tree, n, to, edit) ==
  /\ edit.kind = "place" /\ edit.node \in NodesOf(tree)
  /\ edit.place.rank \in Int
  /\ edit.place = [parent |-> IF edit.node = n THEN to ELSE tree[edit.node].parent,
                   rank |-> edit.place.rank]

Placing(tree, n, to, edits) ==
  IsList(edits) /\ \A i \in 1..Len(edits) : IsPlacing(tree, n, to, edits[i])

\* ... leaves the nodes what they are, and where they are, all but the one moved
LEMMA AfterIs ==
  ASSUME NEW tree \in Tree, NEW n \in NodesOf(tree), NEW to \in NodesOf(tree) \cup {Top},
         NEW edits, Placing(tree, n, to, edits), NEW j \in 0..Len(edits)
  PROVE  /\ After(tree, edits, j) \in Tree
         /\ NodesOf(After(tree, edits, j)) = NodesOf(tree)
         /\ \A m \in NodesOf(tree) :
              /\ m # n => After(tree, edits, j)[m].parent = tree[m].parent
              /\ After(tree, edits, j)[m].parent \in {tree[m].parent, to}
              /\ After(tree, edits, j)[m].rank = tree[m].rank
                   \/ After(tree, edits, j)[m].rank \in Int
<1> DEFINE new == After(tree, edits, j)
<1>0. Len(edits) \in Nat /\ j \in Nat
  BY ListIsFunction DEF Placing
<1>1. \A m \in Node : tree[m] \in Place \cup {Absent}
  BY DEF Tree
<1>2. ASSUME NEW m \in Node, Written(edits, j, m) = {} PROVE new[m] = tree[m]
  BY <1>2 DEF After
<1>3. ASSUME NEW m \in Node, Written(edits, j, m) # {}
      PROVE  /\ m \in NodesOf(tree)
             /\ new[m].rank \in Int
             /\ new[m] = [parent |-> IF m = n THEN to ELSE tree[m].parent, rank |-> new[m].rank]
  <2> DEFINE i == Newest(Written(edits, j, m))
  <2>0. i \in Written(edits, j, m)
    BY <1>0, <1>3, NewestIs
  <2>2. new[m] = edits[i].place
    BY <1>3 DEF After
  <2> HIDE DEF i, new
  <2>1. i \in 1..j /\ edits[i].node = m
    BY <2>0 DEF Written
  <2>3. i \in 1..Len(edits)
    BY <1>0, <2>1
  <2>4. IsPlacing(tree, n, to, edits[i])
    BY <2>3 DEF Placing
  <2> QED  BY <2>1, <2>2, <2>4 DEF IsPlacing
<1>4. to \in Node \cup {Top, Stranger} /\ NodesOf(tree) \subseteq Node
  BY DEF NodesOf
<1>5. ASSUME NEW m \in NodesOf(tree)
      PROVE  tree[m] \in Place /\ tree[m].parent \in Node \cup {Top, Stranger} /\ tree[m].rank \in Rank
  BY <1>1 DEF NodesOf, Place
<1>6. ASSUME NEW m \in Node, Written(edits, j, m) # {} PROVE new[m] \in Place
  <2>1. new[m].rank \in Rank /\ m \in NodesOf(tree)
    BY <1>3, <1>6 DEF Rank
  <2>2. (IF m = n THEN to ELSE tree[m].parent) \in Node \cup {Top, Stranger}
    BY <1>4, <1>5, <2>1
  <2>3. new[m] = [parent |-> IF m = n THEN to ELSE tree[m].parent, rank |-> new[m].rank]
    BY <1>3, <1>6
  <2> HIDE DEF new
  <2> QED  BY <2>1, <2>2, <2>3 DEF Place
<1>7. new = [m \in Node |-> new[m]]
  BY DEF After
<1> HIDE DEF new
<1>8. \A m \in Node : new[m] \in Place \cup {Absent}
  BY <1>1, <1>2, <1>6
<1>9. new \in Tree
  BY <1>7, <1>8 DEF Tree
<1>10. \A m \in Node : new[m] # Absent <=> tree[m] # Absent
  BY <1>2, <1>3, <1>6, AbsentAssumption DEF NodesOf
<1>11. NodesOf(new) = NodesOf(tree)
  BY <1>10 DEF NodesOf
<1>12. ASSUME NEW m \in NodesOf(tree)
       PROVE  /\ m # n => new[m].parent = tree[m].parent
              /\ new[m].parent \in {tree[m].parent, to}
              /\ new[m].rank = tree[m].rank \/ new[m].rank \in Int
  <2>1. CASE Written(edits, j, m) = {}
    BY <1>2, <1>4, <2>1
  <2>2. CASE Written(edits, j, m) # {}
    <3>1. new[m].rank \in Int
          /\ new[m] = [parent |-> IF m = n THEN to ELSE tree[m].parent, rank |-> new[m].rank]
      BY <1>3, <1>4, <2>2
    <3>2. new[m].parent = IF m = n THEN to ELSE tree[m].parent
      BY <3>1
    <3> QED  BY <3>1, <3>2
  <2> QED  BY <2>1, <2>2
<1> QED  BY <1>9, <1>11, <1>12 DEF new

\* So the parents are those of before, but for the node moved, and the tree stays
\* grounded
MayGo(tree, n, to) ==
  /\ tree \in Tree /\ Grounded(tree) /\ n \in NodesOf(tree)
  /\ to \in (Container \cap NodesOf(tree)) \cup {Top} /\ Clear(tree, n, to)

LEMMA AfterStands ==
  ASSUME NEW tree, NEW n, NEW to, MayGo(tree, n, to),
         NEW edits, Placing(tree, n, to, edits), NEW j \in 0..Len(edits)
  PROVE  /\ MayGo(After(tree, edits, j), n, to)
         /\ \A m \in NodesOf(tree) : m # n => Claimed(After(tree, edits, j), m) = Claimed(tree, m)
<1> DEFINE new == After(tree, edits, j)
<1>0. tree \in Tree /\ n \in NodesOf(tree) /\ to \in NodesOf(tree) \cup {Top}
  BY DEF MayGo
<1>1. /\ new \in Tree /\ NodesOf(new) = NodesOf(tree)
      /\ \A m \in NodesOf(tree) :
           /\ m # n => new[m].parent = tree[m].parent
           /\ new[m].parent \in {tree[m].parent, to}
  <2>1. new \in Tree /\ NodesOf(new) = NodesOf(tree)
    BY <1>0, AfterIs
  <2>2. ASSUME NEW m \in NodesOf(tree)
        PROVE  /\ m # n => new[m].parent = tree[m].parent
               /\ new[m].parent \in {tree[m].parent, to}
    BY <1>0, AfterIs
  <2> QED  BY <2>1, <2>2
<1> HIDE DEF new
<1>2. \A m \in NodesOf(tree) : m # n => Claimed(new, m) = Claimed(tree, m)
  BY <1>1 DEF Claimed
<1>3. Claimed(new, n) \in {Claimed(tree, n), to}
  <2>1. to \in (Container \cap NodesOf(tree)) \cup {Top}
    BY DEF MayGo
  <2>2. Top \notin NodesOf(tree)
    BY ParentsType
  <2>3. new[n].parent \in {tree[n].parent, to}
    BY <1>1 DEF MayGo
  <2> QED  BY <1>1, <2>1, <2>2, <2>3 DEF Claimed
<1>4. Grounded(new)
  <2>1. CASE Claimed(new, n) = to
    BY <1>1, <1>2, <2>1, GoingKeepsGrounded DEF MayGo
  <2>2. CASE Claimed(new, n) = Claimed(tree, n)
    BY <1>1, <1>2, <2>2 DEF MayGo, Grounded
  <2> QED  BY <1>3, <2>1, <2>2
<1>5. Clear(new, n, to)
  BY <1>1, <1>2, StaysClear DEF MayGo
<1> QED  BY <1>1, <1>2, <1>4, <1>5 DEF MayGo, new

-----------------------------------------------------------------------------
(* What is planned *)

SlotOf(others, at) == IF at < Cardinality(others) THEN at ELSE Cardinality(others)

\* Nothing: the node is in its slot
Idle(tree, n, to, at, edits) ==
  LET group == Siblings(tree, to)
  IN /\ n \in group /\ tree[n].rank # NoRank
     /\ IndexIn(RankOf(tree), group, n) = SlotOf(group \ {n}, at)
     /\ edits = <<>> \/ edits = <<PlacedIn(tree, n, to, n, tree[n].rank)>>
     /\ edits = <<>> => tree[n].parent = to

\* One write, of a rank between the neighbours
Single(tree, n, to, at, edits) ==
  LET others == Siblings(tree, to) \ {n}
      rank == NewRank(RankOf(tree), others, SlotOf(others, at))
  IN rank # NoRank /\ edits = <<PlacedIn(tree, n, to, n, rank)>>

\* The whole group, the last sibling first, and then the node, when it is not
\* where it should be by then
Whole(tree, n, to, at, edits) ==
  LET group == Siblings(tree, to)
      others == group \ {n}
      c == Cardinality(group)
      fresh == Renumbered(RankOf(tree), group)
      last == NewRank(fresh, others, SlotOf(others, at))
  IN /\ IsList(edits) /\ Len(edits) \in {c, c + 1}
     /\ \A i \in 1..c :
          LET m == At(RankOf(tree), group, c - i)
          IN edits[i] = PlacedIn(tree, n, to, m, fresh[m])
     /\ Len(edits) = c => n \in group /\ fresh[n] = last
     /\ Len(edits) = c + 1 => edits[c + 1] = PlacedIn(tree, n, to, n, last)

LEMMA GroupType ==
  ASSUME NEW tree \in Tree, NEW to
  PROVE  /\ Ranks(RankOf(tree), Siblings(tree, to))
         /\ Siblings(tree, to) \subseteq NodesOf(tree)
         /\ NodesOf(tree) \subseteq Node
         /\ IsFiniteSet(Siblings(tree, to)) /\ Cardinality(Siblings(tree, to)) \in Nat
         /\ \A m \in NodesOf(tree) : RankOf(tree)[m] = tree[m].rank /\ tree[m].rank \in Rank
<1>1. Siblings(tree, to) \subseteq NodesOf(tree) /\ NodesOf(tree) \subseteq Node
  BY DEF Siblings, NodesOf
<1>2. \A m \in NodesOf(tree) : tree[m] \in Place
  BY DEF Tree, NodesOf
<1>3. \A m \in NodesOf(tree) : RankOf(tree)[m] = tree[m].rank /\ tree[m].rank \in Rank
  BY <1>2 DEF RankOf, Place
<1>4. Ranks(RankOf(tree), Siblings(tree, to))
  BY <1>1, <1>3 DEF Ranks
<1> QED  BY <1>1, <1>3, <1>4, IndexType

LEMMA PlanIs ==
  ASSUME NEW tree \in Tree, NEW n \in NodesOf(tree), NEW to, NEW at \in Nat
  PROVE  LET edits == EditsOf(tree, n, to, at)
         IN \/ Idle(tree, n, to, at, edits)
            \/ Single(tree, n, to, at, edits)
            \/ Whole(tree, n, to, at, edits)
<1> DEFINE rank == RankOf(tree)
           group == Siblings(tree, to)
           others == group \ {n}
           k == SlotOf(others, at)
           alone == NewRank(rank, others, k)
           fresh == Renumbered(rank, group)
           last == NewRank(fresh, others, k)
           writes == PlanPlacement(rank, group, n, at)
           edits == EditsOf(tree, n, to, at)
           c == Cardinality(group)
<1>0. c \in Nat /\ IsFiniteSet(group) /\ rank[n] = tree[n].rank
  BY GroupType
<1>1. edits = IF writes = <<>> /\ tree[n].parent # to
              THEN <<PlacedIn(tree, n, to, n, tree[n].rank)>>
              ELSE [i \in DOMAIN writes |-> PlacedIn(tree, n, to, writes[i].node, writes[i].rank)]
  BY DEF EditsOf
<1>2. CASE n \in group /\ rank[n] # NoRank /\ IndexIn(rank, group, n) = k
  <2>1. writes = <<>>
    BY <1>2 DEF PlanPlacement, SlotOf
  <2>2. DOMAIN writes = {}
    BY <2>1
  <2>3. edits = <<>> \/ edits = <<PlacedIn(tree, n, to, n, tree[n].rank)>>
    BY <1>1, <2>1, <2>2
  <2>4. tree[n].parent # to => edits = <<PlacedIn(tree, n, to, n, tree[n].rank)>>
    BY <1>1, <2>1
  <2>5. <<PlacedIn(tree, n, to, n, tree[n].rank)>> # <<>>
    OBVIOUS
  <2> HIDE DEF edits
  <2>6. Idle(tree, n, to, at, edits)
    BY <1>0, <1>2, <2>3, <2>4, <2>5 DEF Idle
  <2> QED  BY <2>6 DEF edits
<1>3. CASE ~(n \in group /\ rank[n] # NoRank /\ IndexIn(rank, group, n) = k) /\ alone # NoRank
  <2>1. writes = <<[node |-> n, rank |-> alone]>>
    BY <1>3 DEF PlanPlacement, SlotOf
  <2>2. writes # <<>> /\ DOMAIN writes = {1} /\ writes[1].node = n /\ writes[1].rank = alone
    BY <2>1
  <2>3. edits = [i \in {1} |-> PlacedIn(tree, n, to, n, alone)]
    BY <1>1, <2>2
  <2>4. edits = <<PlacedIn(tree, n, to, n, alone)>>
    BY <2>3
  <2> HIDE DEF edits
  <2>5. Single(tree, n, to, at, edits)
    BY <1>3, <2>4 DEF Single
  <2> QED  BY <2>5 DEF edits
<1>4. CASE ~(n \in group /\ rank[n] # NoRank /\ IndexIn(rank, group, n) = k) /\ alone = NoRank
  <2> DEFINE first == RenumberWrites(rank, group)
             final == IF n \in group /\ fresh[n] = last THEN <<>> ELSE <<[node |-> n, rank |-> last]>>
             Nth == [i \in 1..c |-> At(rank, group, c - i)]
  <2>1. writes = first \o final
    BY <1>4 DEF PlanPlacement, SlotOf
  <2>2. /\ first = [i \in 1..c |-> [node |-> Nth[i], rank |-> fresh[Nth[i]]]]
    BY DEF RenumberWrites
  <2>3. IsList(first) /\ Len(first) = c /\ \A i \in 1..c : first[i] = [node |-> Nth[i], rank |-> fresh[Nth[i]]]
    <3>1. first = [i \in 1..c |-> first[i]]
      BY <2>2
    <3>2. \A i \in 1..c : first[i] = [node |-> Nth[i], rank |-> fresh[Nth[i]]]
      BY <2>2
    <3> HIDE DEF first, Nth
    <3> QED  BY <1>0, <3>1, <3>2, FunctionIsList
  <2>4. \/ final = <<>> /\ n \in group /\ fresh[n] = last
        \/ final = <<[node |-> n, rank |-> last]>>
    OBVIOUS
  <2> HIDE DEF first, final, Nth
  <2> DEFINE e == [node |-> n, rank |-> last]
  <2>5. IsList(final) /\ IsList(writes)
    BY <2>1, <2>3, <2>4, ShortLists, ConcatIsList
  <2>6. /\ Len(writes) = Len(first) + Len(final)
        /\ \A i \in 1..Len(first) + Len(final) :
             writes[i] = IF i <= Len(first) THEN first[i] ELSE final[i - Len(first)]
    <3> DEFINE S == {first[i] : i \in DOMAIN first} \cup {final[i] : i \in DOMAIN final}
    <3>1. first \in Seq(S) /\ final \in Seq(S)
      BY <2>3, <2>5, SeqMonotonic DEF IsList
    <3> HIDE DEF S
    <3> QED  BY <2>1, <3>1, ConcatProperties
  <2>7. Len(final) \in {0, 1} /\ (Len(final) = 0 => n \in group /\ fresh[n] = last)
        /\ (Len(final) = 1 => final[1] = [node |-> n, rank |-> last])
    <3>1. PICK r : r = [node |-> n, rank |-> last]
      OBVIOUS
    <3>2. (final = <<>> /\ n \in group /\ fresh[n] = last) \/ final = <<r>>
      BY <2>4, <3>1
    <3>3. CASE final = <<>> /\ n \in group /\ fresh[n] = last
      <4>1. Len(final) = 0
        BY <3>3, ShortLists
      <4> QED  BY <3>3, <4>1
    <3>4. CASE final = <<r>>
      <4>1. Len(final) = 1 /\ final[1] = r
        BY <3>4, ShortLists
      <4> QED  BY <3>1, <4>1
    <3> QED  BY <3>2, <3>3, <3>4
  <2>8. Len(writes) \in {c, c + 1} /\ Len(writes) \in Nat
    BY <1>0, <2>3, <2>6, <2>7
  <2>9. \A i \in 1..c : writes[i] = [node |-> Nth[i], rank |-> fresh[Nth[i]]]
    BY <1>0, <2>3, <2>6, <2>7
  <2>10. Len(writes) = c => n \in group /\ fresh[n] = last
    BY <1>0, <2>3, <2>6, <2>7
  <2>11. Len(writes) = c + 1 => writes[c + 1] = [node |-> n, rank |-> last]
    BY <1>0, <2>3, <2>6, <2>7
  <2>12. writes # <<>>
    <3>1. CASE c = 0
      <4>1. group = {} /\ others = {} /\ Cardinality(others) = 0
        BY <1>0, <3>1, FS_EmptySet
      <4>2. alone = Unit
        BY <4>1 DEF NewRank
      <4> HIDE DEF alone
      <4> QED  BY <1>4, <4>2, UnitType, PlacementAssumption DEF UnitIs
    <3>2. CASE c # 0
      BY <1>0, <2>8, <3>2
    <3> QED  BY <3>1, <3>2
  <2>13. DOMAIN writes = 1..Len(writes)
    BY <2>5, ListIsFunction
  <2> HIDE DEF writes
  <2>14. edits = [i \in 1..Len(writes) |-> PlacedIn(tree, n, to, writes[i].node, writes[i].rank)]
    BY <1>1, <2>12, <2>13
  <2>15. \A i \in 1..Len(writes) : edits[i] = PlacedIn(tree, n, to, writes[i].node, writes[i].rank)
    BY <2>14
  <2>16. IsList(edits) /\ Len(edits) = Len(writes)
    <3>1. edits = [i \in 1..Len(writes) |-> edits[i]]
      BY <2>14
    <3> HIDE DEF edits
    <3> QED  BY <2>8, <3>1, FunctionIsList
  <2> HIDE DEF edits, fresh, last, c
  <2>17. \A i \in 1..c : edits[i] = PlacedIn(tree, n, to, Nth[i], fresh[Nth[i]])
    <3> SUFFICES ASSUME NEW i \in 1..c PROVE edits[i] = PlacedIn(tree, n, to, Nth[i], fresh[Nth[i]])
      OBVIOUS
    <3>1. i \in 1..Len(writes)
      BY <1>0, <2>8
    <3>2. PICK m : m = Nth[i]
      OBVIOUS
    <3>3. writes[i].node = m /\ writes[i].rank = fresh[m]
      <4>1. writes[i] = [node |-> m, rank |-> fresh[m]]
        BY <2>9, <3>2
      <4>2. [node |-> m, rank |-> fresh[m]].node = m /\ [node |-> m, rank |-> fresh[m]].rank = fresh[m]
        OBVIOUS
      <4> QED  BY <4>1, <4>2
    <3>4. edits[i] = PlacedIn(tree, n, to, m, fresh[m])
      BY <2>15, <3>1, <3>3
    <3> QED  BY <3>2, <3>4
  <2>18. Len(edits) = c + 1 => edits[c + 1] = PlacedIn(tree, n, to, n, last)
    <3> SUFFICES ASSUME Len(edits) = c + 1 PROVE edits[c + 1] = PlacedIn(tree, n, to, n, last)
      OBVIOUS
    <3>1. c + 1 \in 1..Len(writes)
      BY <1>0, <2>16
    <3>2. writes[c + 1].node = n /\ writes[c + 1].rank = last
      BY <2>11, <2>16
    <3> QED  BY <2>15, <3>1, <3>2
  <2>19. Whole(tree, n, to, at, edits)
    <3>1. \A i \in 1..c : Nth[i] = At(rank, group, c - i)
      BY DEF Nth
    <3>2. \A i \in 1..c : edits[i] = PlacedIn(tree, n, to, At(rank, group, c - i), fresh[At(rank, group, c - i)])
      BY <2>17, <3>1
    <3> QED  BY <2>8, <2>10, <2>16, <2>18, <3>2 DEF Whole, fresh, last, c
  <2> QED  BY <2>19 DEF edits
<1> QED  BY <1>2, <1>3, <1>4

LEMMA PlacedIsPlacing ==
  ASSUME NEW tree, NEW n, NEW to, NEW m \in NodesOf(tree), NEW rank \in Int
  PROVE  IsPlacing(tree, n, to, PlacedIn(tree, n, to, m, rank))
BY DEF IsPlacing, PlacedIn

LEMMA SlotType ==
  ASSUME NEW others, IsFiniteSet(others), NEW at \in Nat
  PROVE  SlotOf(others, at) \in Nat /\ SlotOf(others, at) <= Cardinality(others)
BY FS_CardinalityType DEF SlotOf

\* The rank a renumbering ends with
LEMMA LastIs ==
  ASSUME NEW rank, NEW group, Ranks(rank, group), NEW n, NEW at \in Nat
  PROVE  LET others == group \ {n}
             fresh == Renumbered(rank, group)
             last == NewRank(fresh, others, SlotOf(others, at))
         IN last # NoRank /\ last \in Int /\ Ranks(fresh, others)
              /\ \A m \in group : fresh[m] \in Int
<1> DEFINE others == group \ {n}
           fresh == Renumbered(rank, group)
           k == SlotOf(others, at)
           last == NewRank(fresh, others, k)
<1>1. IsFiniteSet(group) /\ IsFiniteSet(others)
  BY IndexType, FS_Subset
<1>2. k \in Nat /\ k <= Cardinality(others)
  BY <1>1, SlotType
<1>3. Ranks(fresh, others)
  BY FreshKeepsOrder DEF Ranks
<1> HIDE DEF k
<1>4. last # NoRank
  BY <1>2, FreshLeavesRoom
<1> HIDE DEF fresh, others
<1>5. last \in Int
  BY <1>2, <1>3, <1>4, NewRankFits
<1>6. \A m \in group : fresh[m] \in Int
  BY FreshIs DEF fresh
<1> QED  BY <1>3, <1>4, <1>5, <1>6 DEF k, fresh, others

\* A plan consists of placements
LEMMA PlanPlaces ==
  ASSUME NEW tree, NEW n, NEW to, MayGo(tree, n, to), NEW at \in Nat
  PROVE  Placing(tree, n, to, EditsOf(tree, n, to, at))
<1> DEFINE group == Siblings(tree, to)
           others == group \ {n}
           rank == RankOf(tree)
           edits == EditsOf(tree, n, to, at)
<1>0. tree \in Tree /\ n \in NodesOf(tree)
  BY DEF MayGo
<1>1. /\ Ranks(rank, group) /\ group \subseteq NodesOf(tree) /\ IsFiniteSet(group)
      /\ Cardinality(group) \in Nat
      /\ \A m \in NodesOf(tree) : rank[m] = tree[m].rank /\ tree[m].rank \in Rank
  BY <1>0, GroupType
<1> SUFFICES Placing(tree, n, to, edits)
  OBVIOUS
<1> HIDE DEF edits
<1>2. ASSUME NEW r \in Int, edits = <<PlacedIn(tree, n, to, n, r)>>
      PROVE  Placing(tree, n, to, edits)
  <2> DEFINE e == PlacedIn(tree, n, to, n, r)
  <2>1. IsPlacing(tree, n, to, e)
    BY <1>0, PlacedIsPlacing
  <2> HIDE DEF e
  <2>2. IsList(edits) /\ Len(edits) = 1 /\ edits[1] = e
    BY <1>2, ShortLists DEF e
  <2>3. \A i \in 1..Len(edits) : edits[i] = e
    BY <2>2
  <2> QED  BY <2>1, <2>2, <2>3 DEF Placing
<1>3. CASE Idle(tree, n, to, at, edits)
  <2>1. CASE edits = <<>>
    BY <2>1, ShortLists DEF Placing
  <2>2. CASE edits # <<>>
    <3>1. tree[n].rank \in Int /\ edits = <<PlacedIn(tree, n, to, n, tree[n].rank)>>
      BY <1>0, <1>1, <1>3, <2>2 DEF Idle, Rank
    <3> QED  BY <1>2, <3>1
  <2> QED  BY <2>1, <2>2
<1>4. CASE Single(tree, n, to, at, edits)
  <2> DEFINE k == SlotOf(others, at)
             r == NewRank(rank, others, k)
  <2>1. r # NoRank /\ edits = <<PlacedIn(tree, n, to, n, r)>>
    BY <1>4 DEF Single
  <2>2. k \in Nat /\ k <= Cardinality(others) /\ Ranks(rank, others)
    BY <1>1, FS_Subset, SlotType DEF Ranks
  <2> HIDE DEF k
  <2>3. r \in Int
    BY <2>1, <2>2, NewRankFits
  <2> HIDE DEF r
  <2> QED  BY <1>2, <2>1, <2>3
<1>5. CASE Whole(tree, n, to, at, edits)
  <2> DEFINE c == Cardinality(group)
             fresh == Renumbered(rank, group)
             last == NewRank(fresh, others, SlotOf(others, at))
  <2>1. last \in Int /\ \A m \in group : fresh[m] \in Int
    BY <1>1, LastIs
  <2>2. /\ IsList(edits) /\ Len(edits) \in {c, c + 1}
        /\ \A i \in 1..c :
             edits[i] = PlacedIn(tree, n, to, At(rank, group, c - i), fresh[At(rank, group, c - i)])
        /\ Len(edits) = c + 1 => edits[c + 1] = PlacedIn(tree, n, to, n, last)
    BY <1>5 DEF Whole
  <2> HIDE DEF fresh, last
  <2>3. ASSUME NEW i \in 1..Len(edits) PROVE IsPlacing(tree, n, to, edits[i])
    <3>1. CASE i \in 1..c
      <4>1. c - i \in Nat /\ c - i < c
        BY <1>1, <3>1
      <4>2. PICK m \in group : m = At(rank, group, c - i)
        BY <1>1, <4>1, AtIs
      <4>3. edits[i] = PlacedIn(tree, n, to, m, fresh[m])
        BY <2>2, <3>1, <4>2
      <4> QED  BY <1>1, <2>1, <4>3, PlacedIsPlacing
    <3>2. CASE i \notin 1..c
      <4>1. i = c + 1 /\ Len(edits) = c + 1
        BY <1>1, <2>2, <3>2
      <4> QED  BY <1>0, <2>1, <2>2, <4>1, PlacedIsPlacing
    <3> QED  BY <3>1, <3>2
  <2> QED  BY <2>2, <2>3 DEF Placing
<1>6. Idle(tree, n, to, at, edits) \/ Single(tree, n, to, at, edits) \/ Whole(tree, n, to, at, edits)
  BY <1>0, PlanIs DEF edits
<1> QED  BY <1>3, <1>4, <1>5, <1>6

\* Which edits of a renumbering are for a node
LEMMA WrittenWhole ==
  ASSUME NEW tree \in Tree, NEW n \in NodesOf(tree), NEW to, NEW at \in Nat, NEW edits,
         Whole(tree, n, to, at, edits), NEW j \in 0..Len(edits), NEW m \in NodesOf(tree),
         m # n \/ j <= Cardinality(Siblings(tree, to))
  PROVE  LET group == Siblings(tree, to)
             i == Cardinality(group) - IndexIn(RankOf(tree), group, m)
         IN /\ Written(edits, j, m) = IF m \in group /\ i <= j THEN {i} ELSE {}
            /\ m \in group =>
                 /\ i \in 1..Cardinality(group)
                 /\ edits[i] = PlacedIn(tree, n, to, m, Renumbered(RankOf(tree), group)[m])
<1> DEFINE group == Siblings(tree, to)
           rank == RankOf(tree)
           c == Cardinality(group)
           fresh == Renumbered(rank, group)
           last == NewRank(fresh, group \ {n}, SlotOf(group \ {n}, at))
           idx == IndexIn(rank, group, m)
<1>1. /\ Ranks(rank, group) /\ group \subseteq NodesOf(tree) /\ c \in Nat
  BY GroupType
<1>2. /\ IsList(edits) /\ Len(edits) \in {c, c + 1}
      /\ \A l \in 1..c :
           edits[l] = PlacedIn(tree, n, to, At(rank, group, c - l), fresh[At(rank, group, c - l)])
      /\ Len(edits) = c + 1 => edits[c + 1] = PlacedIn(tree, n, to, n, last)
  BY DEF Whole
<1> HIDE DEF fresh, last, rank, group, c, idx
<1>3. \A l \in 1..c : At(rank, group, c - l) \in group /\ IndexIn(rank, group, At(rank, group, c - l)) = c - l
  <2> SUFFICES ASSUME NEW l \in 1..c
               PROVE  At(rank, group, c - l) \in group /\ IndexIn(rank, group, At(rank, group, c - l)) = c - l
    OBVIOUS
  <2>1. c - l \in Nat /\ c - l < c
    BY <1>1
  <2> QED  BY <1>1, <2>1, AtIs DEF c
<1>4. \A l \in 1..c : edits[l].node = At(rank, group, c - l)
  <2>1. \A m2, r : PlacedIn(tree, n, to, m2, r).node = m2
    BY DEF PlacedIn
  <2> QED  BY <1>2, <2>1
<1>5. Len(edits) = c + 1 => edits[c + 1].node = n
  BY <1>2 DEF PlacedIn
<1>6. \A l \in 1..j : edits[l].node = m => l \in 1..c
  <2> SUFFICES ASSUME NEW l \in 1..j, edits[l].node = m, l \notin 1..c PROVE FALSE
    OBVIOUS
  <2>1. l = c + 1 /\ Len(edits) = c + 1 /\ j = c + 1
    BY <1>1, <1>2
  <2>2. m # n
    BY <1>1, <2>1 DEF c, group
  <2> QED  BY <1>5, <2>1, <2>2
<1>7. CASE m \in group
  <2> DEFINE i == c - idx
  <2>1. idx \in Nat /\ idx < c
    BY <1>1, <1>7, IndexType, IndexBelow DEF idx, c
  <2>2. i \in 1..c /\ c - i = idx
    BY <1>1, <2>1
  <2>3. At(rank, group, c - i) = m
    <3>1. At(rank, group, idx) \in group /\ IndexIn(rank, group, At(rank, group, idx)) = idx
      BY <1>1, <2>1, AtIs DEF c
    <3>2. At(rank, group, idx) = m
      BY <1>1, <1>7, <3>1, IndexTells DEF idx
    <3> QED  BY <2>2, <3>2
  <2>4. \A l \in 1..c : edits[l].node = m <=> l = i
    <3> SUFFICES ASSUME NEW l \in 1..c, edits[l].node = m PROVE l = i
      BY <1>4, <2>2, <2>3
    <3>1. IndexIn(rank, group, m) = c - l
      BY <1>3, <1>4
    <3> QED  BY <1>1, <2>1, <3>1 DEF idx
  <2> HIDE DEF i
  <2>5. Written(edits, j, m) = IF i <= j THEN {i} ELSE {}
    <3>1. j \in Nat
      BY <1>1, <1>2
    <3>2. \A l \in 1..j : edits[l].node = m <=> l = i
      BY <1>6, <2>2, <2>4
    <3>3. i \in Nat /\ i > 0
      BY <1>1, <2>2
    <3>4. i <= j => i \in 1..j
      BY <3>1, <3>3
    <3>5. ~(i <= j) => i \notin 1..j
      BY <3>1, <3>3
    <3> QED  BY <3>2, <3>4, <3>5 DEF Written
  <2>6. edits[i] = PlacedIn(tree, n, to, m, fresh[m])
    BY <1>2, <2>2, <2>3
  <2> QED  BY <1>7, <2>2, <2>5, <2>6 DEF fresh, rank, group, c, idx, i
<1>8. CASE m \notin group
  <2>1. Written(edits, j, m) = {}
    BY <1>3, <1>4, <1>6, <1>8 DEF Written
  <2> QED  BY <1>8, <2>1 DEF group
<1> QED  BY <1>7, <1>8

\* What the nodes that are not moved say on the way
LEMMA OnTheWay ==
  ASSUME NEW tree, NEW n, NEW to, MayGo(tree, n, to), NEW at \in Nat,
         NEW edits, edits = EditsOf(tree, n, to, at), NEW j \in 0..Len(edits)
  PROVE  \/ \A m \in NodesOf(tree) : m # n => After(tree, edits, j)[m] = tree[m]
         \/ LET group == Siblings(tree, to)
            IN \A m \in NodesOf(tree) : m # n =>
                 After(tree, edits, j)[m].rank =
                   IF m \in group
                        /\ Cardinality(group) - IndexIn(RankOf(tree), group, m) <= j
                   THEN Renumbered(RankOf(tree), group)[m] ELSE tree[m].rank
<1>0. tree \in Tree /\ n \in NodesOf(tree) /\ NodesOf(tree) \subseteq Node
  BY DEF MayGo, NodesOf
<1>1. Placing(tree, n, to, edits)
  BY PlanPlaces
<1>2. Len(edits) \in Nat
  BY <1>1, ListIsFunction DEF Placing
<1>3. ASSUME edits = <<>> \/ \E r : edits = <<PlacedIn(tree, n, to, n, r)>>, NEW m \in NodesOf(tree), m # n
      PROVE  After(tree, edits, j)[m] = tree[m]
  <2>1. \A i \in 1..Len(edits) : edits[i].node = n
    <3>1. CASE edits = <<>>
      BY <3>1
    <3>2. CASE edits # <<>>
      <4>1. PICK r : edits = <<PlacedIn(tree, n, to, n, r)>>
        BY <1>3, <3>2
      <4>2. PICK e : e = PlacedIn(tree, n, to, n, r)
        OBVIOUS
      <4>3. e.node = n
        BY <4>2 DEF PlacedIn
      <4>4. Len(edits) = 1 /\ edits[1] = e
        BY <4>1, <4>2, ShortLists
      <4> QED  BY <4>3, <4>4
    <3> QED  BY <3>1, <3>2
  <2>2. Written(edits, j, m) = {}
    BY <1>2, <1>3, <2>1 DEF Written
  <2> QED  BY <1>0, <2>2 DEF After
<1>4. CASE Whole(tree, n, to, at, edits)
  <2> DEFINE group == Siblings(tree, to)
             c == Cardinality(group)
             fresh == Renumbered(RankOf(tree), group)
  <2> SUFFICES ASSUME NEW m \in NodesOf(tree), m # n
               PROVE  After(tree, edits, j)[m].rank =
                        IF m \in group /\ c - IndexIn(RankOf(tree), group, m) <= j
                        THEN fresh[m] ELSE tree[m].rank
    OBVIOUS
  <2> DEFINE i == c - IndexIn(RankOf(tree), group, m)
  <2>1. /\ Written(edits, j, m) = IF m \in group /\ i <= j THEN {i} ELSE {}
        /\ m \in group => edits[i] = PlacedIn(tree, n, to, m, fresh[m])
    BY <1>0, <1>4, WrittenWhole
  <2> HIDE DEF i, fresh, c, group
  <2>2. CASE m \in group /\ i <= j
    <3>1. Written(edits, j, m) = {i}
      BY <2>1, <2>2
    <3>2. Newest({i}) = i
      <4>1. i \in {i} /\ \A k \in {i} : k <= i
        BY <3>1, <1>2 DEF Written
      <4> QED  BY <4>1 DEF Newest
    <3>3. After(tree, edits, j)[m] = edits[i].place
      BY <1>0, <3>1, <3>2 DEF After
    <3>4. PlacedIn(tree, n, to, m, fresh[m]).place.rank = fresh[m]
      BY DEF PlacedIn
    <3> QED  BY <2>1, <2>2, <3>3, <3>4 DEF i
  <2>3. CASE ~(m \in group /\ i <= j)
    <3>1. Written(edits, j, m) = {}
      BY <2>1, <2>3
    <3>2. After(tree, edits, j)[m] = tree[m]
      BY <1>0, <3>1 DEF After
    <3> QED  BY <2>3, <3>2 DEF i
  <2> QED  BY <2>2, <2>3
<1>5. CASE Idle(tree, n, to, at, edits) \/ Single(tree, n, to, at, edits)
  <2>1. edits = <<>> \/ \E r : edits = <<PlacedIn(tree, n, to, n, r)>>
    BY <1>5 DEF Idle, Single
  <2> QED  BY <1>3, <2>1
<1>6. Idle(tree, n, to, at, edits) \/ Single(tree, n, to, at, edits) \/ Whole(tree, n, to, at, edits)
  BY <1>0, PlanIs
<1> QED  BY <1>4, <1>5, <1>6

\* Two siblings that are not moved keep their order through every prefix of the
\* writes, if the first of them has a rank: the written ones are the last of the
\* group, and their fresh ranks are above all the old ones
LEMMA PrefixKeepsFirst ==
  ASSUME NEW tree, NEW n, NEW to, MayGo(tree, n, to), NEW at \in Nat,
         NEW edits, edits = EditsOf(tree, n, to, at), NEW j \in 0..Len(edits),
         NEW a \in NodesOf(tree), NEW b \in NodesOf(tree), a # n, b # n,
         Claimed(tree, a) = Claimed(tree, b),
         Before(RankOf(tree), a, b), RankOf(tree)[a] # NoRank
  PROVE  Before(RankOf(After(tree, edits, j)), a, b)
<1> DEFINE new == After(tree, edits, j)
           group == Siblings(tree, to)
           rank == RankOf(tree)
           fresh == Renumbered(rank, group)
           c == Cardinality(group)
<1>0. tree \in Tree
  BY DEF MayGo
<1>1. /\ Ranks(rank, group) /\ c \in Nat /\ group \subseteq NodesOf(tree)
      /\ \A m \in NodesOf(tree) : rank[m] = tree[m].rank /\ tree[m].rank \in Rank
  BY <1>0, GroupType
<1>2. NodesOf(new) = NodesOf(tree) /\ \A m \in NodesOf(tree) : RankOf(new)[m] = new[m].rank
  <2>1. NodesOf(new) = NodesOf(tree)
    BY PlanPlaces, AfterIs DEF MayGo
  <2> QED  BY <2>1 DEF RankOf
<1>3. a \in group <=> b \in group
  BY GroundedHasNoCycle DEF MayGo, Siblings
<1>4. a \in Int /\ b \in Int /\ NoRank \notin Int
  BY PlacementAssumption DEF NodesOf
<1> DEFINE x == rank[a]
           y == rank[b]
           x2 == RankOf(new)[a]
           y2 == RankOf(new)[b]
<1>5. x \in Int /\ y \in Int \cup {NoRank}
  BY <1>1 DEF Rank
<1>6. y = NoRank \/ x < y \/ (x = y /\ a < b)
  BY <1>5, <1>4 DEF Before
<1>7. \/ x2 = x /\ y2 = y
      \/ \E i, k \in Nat :
            /\ i < k /\ k < c
            /\ x2 = (IF c - i <= j THEN fresh[a] ELSE x)
            /\ y2 = (IF c - k <= j THEN fresh[b] ELSE y)
            /\ a \in group /\ b \in group
  <2>1. CASE \A m \in NodesOf(tree) : m # n => new[m] = tree[m]
    BY <1>1, <1>2, <2>1
  <2>2. CASE \A m \in NodesOf(tree) : m # n =>
               new[m].rank = IF m \in group /\ c - IndexIn(rank, group, m) <= j
                             THEN fresh[m] ELSE tree[m].rank
    <3>1. CASE a \notin group
      BY <1>1, <1>2, <1>3, <2>2, <3>1
    <3>2. CASE a \in group
      <4>1. PICK i \in Nat, k \in Nat : i = IndexIn(rank, group, a) /\ k = IndexIn(rank, group, b)
        BY <1>1, <1>3, <3>2, IndexType
      <4>2. i < k /\ k < c
        BY <1>1, <1>3, <3>2, <4>1, IndexTells, IndexBelow
      <4>3. x2 = (IF c - i <= j THEN fresh[a] ELSE x) /\ y2 = (IF c - k <= j THEN fresh[b] ELSE y)
        BY <1>1, <1>2, <1>3, <2>2, <3>2, <4>1
      <4> QED  BY <1>3, <3>2, <4>2, <4>3
    <3> QED  BY <3>1, <3>2
  <2>3. \/ \A m \in NodesOf(tree) : m # n => new[m] = tree[m]
        \/ \A m \in NodesOf(tree) : m # n =>
             new[m].rank = IF m \in group /\ c - IndexIn(rank, group, m) <= j
                           THEN fresh[m] ELSE tree[m].rank
    BY OnTheWay
  <2> QED  BY <2>1, <2>2, <2>3
<1>8. ASSUME a \in group, b \in group
      PROVE  fresh[a] \in Int /\ fresh[b] \in Int /\ fresh[a] < fresh[b] /\ x < fresh[b]
  BY <1>1, <1>8, FreshIs, FreshKeepsOrder
<1>9. Len(edits) \in Nat /\ j \in Nat
  <2>1. Placing(tree, n, to, edits)
    BY PlanPlaces
  <2> QED  BY <2>1, ListIsFunction DEF Placing
<1> HIDE DEF x, y, x2, y2, fresh, c, group, rank, new
<1>10. x2 \in Int /\ (y2 = NoRank \/ (y2 \in Int /\ x2 < y2) \/ (x2 = y2 /\ a < b))
  <2>1. CASE x2 = x /\ y2 = y
    BY <1>4, <1>5, <1>6, <2>1
  <2>2. CASE \E i, k \in Nat :
            /\ i < k /\ k < c
            /\ x2 = (IF c - i <= j THEN fresh[a] ELSE x)
            /\ y2 = (IF c - k <= j THEN fresh[b] ELSE y)
            /\ a \in group /\ b \in group
    <3>1. PICK i \in Nat, k \in Nat :
            /\ i < k /\ k < c
            /\ x2 = (IF c - i <= j THEN fresh[a] ELSE x)
            /\ y2 = (IF c - k <= j THEN fresh[b] ELSE y)
            /\ a \in group /\ b \in group
      BY <2>2
    <3>2. fresh[a] \in Int /\ fresh[b] \in Int /\ fresh[a] < fresh[b] /\ x < fresh[b]
      BY <1>8, <3>1
    <3>3. c - i <= j => c - k <= j
      BY <1>1, <1>9, <3>1
    <3> QED  BY <1>4, <1>5, <1>6, <3>1, <3>2, <3>3
  <2> QED  BY <1>7, <2>1, <2>2
<1>11. Before(RankOf(new), a, b)
  BY <1>4, <1>10 DEF Before, x2, y2
<1> QED  BY <1>11 DEF new

LEMMA PrefixKeepsOrder ==
  ASSUME NEW tree, NEW n, NEW to, MayGo(tree, n, to), NEW at \in Nat,
         NEW edits, edits = EditsOf(tree, n, to, at), NEW j \in 0..Len(edits),
         NEW a \in NodesOf(tree), NEW b \in NodesOf(tree), a # n, b # n,
         Claimed(tree, a) = Claimed(tree, b),
         RankOf(tree)[a] # NoRank \/ RankOf(tree)[b] # NoRank
  PROVE  Before(RankOf(After(tree, edits, j)), a, b) <=> Before(RankOf(tree), a, b)
<1> DEFINE new == After(tree, edits, j)
           nodes == NodesOf(tree)
<1>1. Ranks(RankOf(tree), nodes)
  <2>1. tree \in Tree
    BY DEF MayGo
  <2>2. /\ nodes \subseteq Node
        /\ \A m \in nodes : RankOf(tree)[m] = tree[m].rank /\ tree[m].rank \in Rank
    BY <2>1, GroupType
  <2> QED  BY <2>2 DEF Ranks
<1>2. Ranks(RankOf(new), nodes)
  <2>1. new \in Tree /\ NodesOf(new) = nodes
    BY PlanPlaces, AfterIs DEF MayGo
  <2> HIDE DEF new
  <2>2. /\ nodes \subseteq Node
        /\ \A m \in nodes : RankOf(new)[m] = new[m].rank /\ new[m].rank \in Rank
    BY <2>1, GroupType
  <2> QED  BY <2>2 DEF Ranks
<1>3. CASE Before(RankOf(tree), a, b)
  <2>1. RankOf(tree)[a] # NoRank
    BY <1>3 DEF Before
  <2> QED  BY <1>3, <2>1, PrefixKeepsFirst
<1>4. CASE Before(RankOf(tree), b, a)
  <2>1. RankOf(tree)[b] # NoRank
    BY <1>4 DEF Before
  <2>2. Before(RankOf(new), b, a)
    BY <1>4, <2>1, PrefixKeepsFirst
  <2> HIDE DEF new, nodes
  <2>3. ~Before(RankOf(new), a, b)
    BY <1>2, <2>2, OrderIsStrict DEF nodes
  <2>4. ~Before(RankOf(tree), a, b)
    BY <1>1, <1>4, OrderIsStrict DEF nodes
  <2> QED  BY <2>3, <2>4 DEF new
<1>5. CASE a = b
  <2> HIDE DEF new, nodes
  <2>1. ~Before(RankOf(new), a, b)
    BY <1>2, <1>5, OrderIsStrict DEF nodes
  <2>2. ~Before(RankOf(tree), a, b)
    BY <1>1, <1>5, OrderIsStrict DEF nodes
  <2> QED  BY <2>1, <2>2 DEF new
<1> HIDE DEF new, nodes
<1>6. a = b \/ Before(RankOf(tree), a, b) \/ Before(RankOf(tree), b, a)
  BY <1>1, OrderIsStrict DEF nodes
<1> QED  BY <1>3, <1>4, <1>5, <1>6

-----------------------------------------------------------------------------
(* Where a plan ends *)

\* Indices are a matter of the order of those concerned
LEMMA IndexSame ==
  ASSUME NEW rank, NEW other, NEW group, NEW n,
         \A m \in group : Before(rank, m, n) <=> Before(other, m, n)
  PROVE  IndexIn(rank, group, n) = IndexIn(other, group, n)
<1>1. {m \in group : Before(rank, m, n)} = {m \in group : Before(other, m, n)}
  OBVIOUS
<1> QED  BY <1>1 DEF IndexIn

\* A node with a rank from _new_rank has its slot
LEMMA FittingLands ==
  ASSUME NEW rank, NEW others, Ranks(rank, others), NEW n \in Node, n \notin others,
         NEW k \in Nat, k <= Cardinality(others), NewRank(rank, others, k) # NoRank,
         NEW new, \A m \in others : new[m] = rank[m], new[n] = NewRank(rank, others, k)
  PROVE  IndexIn(new, others \cup {n}, n) = k
<1> DEFINE r == NewRank(rank, others, k)
<1>1. /\ r \in Int
      /\ \A m \in others :
           /\ IndexIn(rank, others, m) < k => rank[m] \in Int /\ rank[m] < r
           /\ ~(IndexIn(rank, others, m) < k) =>
                rank[m] = NoRank \/ (rank[m] \in Int /\ r < rank[m])
  BY NewRankFits
<1>2. NoRank \notin Int /\ n \in Int
  BY PlacementAssumption
<1> HIDE DEF r
<1>3. ASSUME NEW m \in others PROVE Before(new, m, n) <=> IndexIn(rank, others, m) < k
  <2>1. new[m] = rank[m] /\ new[n] = r
    BY DEF r
  <2>2. CASE IndexIn(rank, others, m) < k
    <3>1. rank[m] \in Int /\ rank[m] < r
      BY <1>1, <2>2
    <3> QED  BY <1>1, <1>2, <2>1, <2>2, <3>1 DEF Before
  <2>3. CASE ~(IndexIn(rank, others, m) < k)
    <3>1. rank[m] = NoRank \/ (rank[m] \in Int /\ r < rank[m])
      BY <1>1, <2>3
    <3>2. rank[m] # r /\ ~(rank[m] # NoRank /\ rank[m] < r) /\ r # NoRank
      BY <1>1, <1>2, <3>1
    <3> QED  BY <2>1, <2>3, <3>2 DEF Before
  <2> QED  BY <2>2, <2>3
<1>4. ~Before(new, n, n)
  <2>1. new[n] = r
    BY DEF r
  <2> QED  BY <1>1, <1>2, <2>1 DEF Before
<1>5. {m \in others \cup {n} : Before(new, m, n)} = {m \in others : IndexIn(rank, others, m) < k}
  BY <1>3, <1>4
<1>6. Cardinality({m \in others : IndexIn(rank, others, m) < k}) = k
  BY BelowIndex
<1> QED  BY <1>5, <1>6 DEF IndexIn

\* What the moved node says when all is written
EndsAs(tree, n, to, at, edits, place) ==
  LET group == Siblings(tree, to)
      others == group \ {n}
      fresh == Renumbered(RankOf(tree), group)
  IN /\ place.parent = to
     /\ \/ Idle(tree, n, to, at, edits) /\ place.rank = tree[n].rank
        \/ /\ Single(tree, n, to, at, edits)
           /\ place.rank = NewRank(RankOf(tree), others, SlotOf(others, at))
        \/ /\ Whole(tree, n, to, at, edits)
           /\ place.rank = NewRank(fresh, others, SlotOf(others, at))

LEMMA MovedSays ==
  ASSUME NEW tree, NEW n, NEW to, MayGo(tree, n, to), NEW at \in Nat,
         NEW edits, edits = EditsOf(tree, n, to, at)
  PROVE  EndsAs(tree, n, to, at, edits, After(tree, edits, Len(edits))[n])
<1> DEFINE group == Siblings(tree, to)
           others == group \ {n}
           rank == RankOf(tree)
           fresh == Renumbered(rank, group)
           alone == NewRank(rank, others, SlotOf(others, at))
           last == NewRank(fresh, others, SlotOf(others, at))
           c == Cardinality(group)
           new == After(tree, edits, Len(edits))
<1>0. tree \in Tree /\ n \in NodesOf(tree) /\ n \in Node
  BY DEF MayGo, NodesOf
<1>1. Placing(tree, n, to, edits)
  BY PlanPlaces
<1>2. Len(edits) \in Nat
  BY <1>1, ListIsFunction DEF Placing
<1>3. \A r : /\ PlacedIn(tree, n, to, n, r).place.parent = to
             /\ PlacedIn(tree, n, to, n, r).place.rank = r
             /\ PlacedIn(tree, n, to, n, r).node = n
  BY DEF PlacedIn
<1>4. ASSUME NEW r, NEW i, i + 1 = Len(edits), i \in Nat, edits[i + 1] = PlacedIn(tree, n, to, n, r)
      PROVE  new[n].parent = to /\ new[n].rank = r
  <2>1. edits[i + 1].node \in Node /\ edits[i + 1].node = n
    BY <1>0, <1>3, <1>4
  <2>2. After(tree, edits, i + 1) = [After(tree, edits, i) EXCEPT ![n] = edits[i + 1].place]
    BY <1>4, <2>1, AfterNext
  <2>3. n \in DOMAIN After(tree, edits, i)
    BY <1>0 DEF After
  <2>4. new[n] = edits[i + 1].place
    BY <1>4, <2>2, <2>3
  <2> QED  BY <1>3, <1>4, <2>4
<1>5. ASSUME NEW r, edits = <<PlacedIn(tree, n, to, n, r)>>
      PROVE  new[n].parent = to /\ new[n].rank = r
  <2>1. 0 \in Nat /\ 0 + 1 = Len(edits) /\ edits[0 + 1] = PlacedIn(tree, n, to, n, r)
    BY <1>5, ShortLists
  <2> HIDE DEF new
  <2> QED  BY <1>4, <2>1
<1> SUFFICES /\ new[n].parent = to
             /\ \/ Idle(tree, n, to, at, edits) /\ new[n].rank = tree[n].rank
                \/ Single(tree, n, to, at, edits) /\ new[n].rank = alone
                \/ Whole(tree, n, to, at, edits) /\ new[n].rank = last
  BY DEF EndsAs
<1>6. CASE Idle(tree, n, to, at, edits)
  <2>1. CASE edits = <<>>
    <3>1. new = tree /\ tree[n].parent = to
      BY <1>0, <1>6, <2>1, AfterNone DEF Idle
    <3> QED  BY <1>6, <3>1
  <2>2. CASE edits # <<>>
    <3>1. edits = <<PlacedIn(tree, n, to, n, tree[n].rank)>>
      BY <1>6, <2>2 DEF Idle
    <3> HIDE DEF new
    <3> QED  BY <1>5, <1>6, <3>1
  <2> QED  BY <2>1, <2>2
<1>7. CASE Single(tree, n, to, at, edits)
  <2>1. edits = <<PlacedIn(tree, n, to, n, alone)>>
    BY <1>7 DEF Single
  <2> HIDE DEF new, alone
  <2> QED  BY <1>5, <1>7, <2>1
<1>8. CASE Whole(tree, n, to, at, edits)
  <2>1. /\ Len(edits) \in {c, c + 1} /\ c \in Nat
        /\ Len(edits) = c => n \in group /\ fresh[n] = last
        /\ Len(edits) = c + 1 => edits[c + 1] = PlacedIn(tree, n, to, n, last)
    BY <1>0, <1>8, GroupType DEF Whole
  <2>2. CASE Len(edits) = c + 1
    <3> HIDE DEF new, last
    <3> QED  BY <1>4, <1>8, <2>1, <2>2
  <2>3. CASE Len(edits) = c
    <3> DEFINE i == c - IndexIn(rank, group, n)
    <3>1. /\ Written(edits, Len(edits), n) = IF n \in group /\ i <= Len(edits) THEN {i} ELSE {}
          /\ n \in group => i \in 1..c /\ edits[i] = PlacedIn(tree, n, to, n, fresh[n])
      <4>1. Len(edits) \in 0..Len(edits) /\ (n # n \/ Len(edits) <= c)
        BY <1>2, <2>1, <2>3
      <4> QED  BY <1>0, <1>8, <4>1, WrittenWhole
    <3> HIDE DEF i, c, fresh, last, group
    <3>2. Written(edits, Len(edits), n) = {i} /\ i \in Int /\ edits[i] = PlacedIn(tree, n, to, n, last)
      BY <2>1, <2>3, <3>1
    <3>3. Newest({i}) = i
      <4>1. i \in {i} /\ \A k \in {i} : k <= i
        BY <3>2
      <4> QED  BY <4>1 DEF Newest
    <3>4. new[n] = edits[i].place
      BY <1>0, <3>2, <3>3 DEF After
    <3> HIDE DEF new
    <3> QED  BY <1>3, <1>8, <3>2, <3>4
  <2> QED  BY <2>1, <2>2, <2>3
<1>9. Idle(tree, n, to, at, edits) \/ Single(tree, n, to, at, edits) \/ Whole(tree, n, to, at, edits)
  BY <1>0, PlanIs
<1> HIDE DEF new, alone, last
<1> QED  BY <1>6, <1>7, <1>8, <1>9

\* Who is a sibling where, on the way
LEMMA GroupStays ==
  ASSUME NEW tree, NEW n, NEW to, MayGo(tree, n, to), NEW at \in Nat,
         NEW edits, edits = EditsOf(tree, n, to, at), NEW j \in 0..Len(edits)
  PROVE  /\ MayGo(After(tree, edits, j), n, to)
         /\ NodesOf(After(tree, edits, j)) = NodesOf(tree)
         /\ \A m \in NodesOf(tree) : m # n =>
              HonouredParent(After(tree, edits, j), m) = HonouredParent(tree, m)
         /\ Siblings(After(tree, edits, j), to) \ {n} = Siblings(tree, to) \ {n}
<1> DEFINE new == After(tree, edits, j)
<1>1. Placing(tree, n, to, edits)
  BY PlanPlaces
<1>2. NodesOf(new) = NodesOf(tree)
  BY <1>1, AfterIs DEF MayGo
<1>3. /\ MayGo(new, n, to)
      /\ \A m \in NodesOf(tree) : m # n => Claimed(new, m) = Claimed(tree, m)
  BY <1>1, AfterStands
<1> HIDE DEF new
<1>4. /\ \A m \in NodesOf(tree) : HonouredParent(tree, m) = Claimed(tree, m)
      /\ \A m \in NodesOf(new) : HonouredParent(new, m) = Claimed(new, m)
  BY <1>3, GroundedHasNoCycle DEF MayGo
<1>5. \A m \in NodesOf(tree) : m # n => HonouredParent(new, m) = HonouredParent(tree, m)
  BY <1>2, <1>3, <1>4
<1>6. Siblings(new, to) \ {n} = Siblings(tree, to) \ {n}
  BY <1>2, <1>5 DEF Siblings
<1> QED  BY <1>2, <1>3, <1>5, <1>6 DEF new

\* ... and with what rank, when all is written
LEMMA OthersSay ==
  ASSUME NEW tree, NEW n, NEW to, MayGo(tree, n, to), NEW at \in Nat,
         NEW edits, edits = EditsOf(tree, n, to, at)
  PROVE  LET new == After(tree, edits, Len(edits))
             group == Siblings(tree, to)
         IN \A m \in group \ {n} :
              /\ Idle(tree, n, to, at, edits) \/ Single(tree, n, to, at, edits) =>
                   new[m].rank = tree[m].rank
              /\ Whole(tree, n, to, at, edits) =>
                   new[m].rank = Renumbered(RankOf(tree), group)[m]
<1> DEFINE group == Siblings(tree, to)
           fresh == Renumbered(RankOf(tree), group)
           c == Cardinality(group)
           new == After(tree, edits, Len(edits))
<1>0. tree \in Tree /\ n \in NodesOf(tree) /\ NodesOf(tree) \subseteq Node
      /\ group \subseteq NodesOf(tree) /\ c \in Nat
  <2>1. tree \in Tree /\ n \in NodesOf(tree)
    BY DEF MayGo
  <2> QED  BY <2>1, GroupType
<1>1. Len(edits) \in Nat
  <2>1. Placing(tree, n, to, edits)
    BY PlanPlaces
  <2> QED  BY <2>1, ListIsFunction DEF Placing
<1> SUFFICES ASSUME NEW m \in group \ {n}
             PROVE  /\ Idle(tree, n, to, at, edits) \/ Single(tree, n, to, at, edits) =>
                         new[m].rank = tree[m].rank
                    /\ Whole(tree, n, to, at, edits) => new[m].rank = fresh[m]
  OBVIOUS
<1>2. ASSUME Idle(tree, n, to, at, edits) \/ Single(tree, n, to, at, edits)
      PROVE  new[m].rank = tree[m].rank
  <2>1. edits = <<>> \/ \E r : edits = <<PlacedIn(tree, n, to, n, r)>>
    BY <1>2 DEF Idle, Single
  <2>2. \A i \in 1..Len(edits) : edits[i].node = n
    <3>1. CASE edits = <<>>
      BY <3>1
    <3>2. CASE edits # <<>>
      <4>1. PICK r : edits = <<PlacedIn(tree, n, to, n, r)>>
        BY <2>1, <3>2
      <4>2. PICK e : e = PlacedIn(tree, n, to, n, r)
        OBVIOUS
      <4>3. e.node = n
        BY <4>2 DEF PlacedIn
      <4>4. Len(edits) = 1 /\ edits[1] = e
        BY <4>1, <4>2, ShortLists
      <4> QED  BY <4>3, <4>4
    <3> QED  BY <3>1, <3>2
  <2>3. Written(edits, Len(edits), m) = {}
    BY <1>1, <2>2 DEF Written
  <2>4. m \in Node
    BY <1>0
  <2> QED  BY <2>3, <2>4 DEF After
<1>3. ASSUME Whole(tree, n, to, at, edits)
      PROVE  new[m].rank = fresh[m]
  <2> DEFINE i == c - IndexIn(RankOf(tree), group, m)
  <2>1. Len(edits) \in 0..Len(edits) /\ m \in NodesOf(tree) /\ m # n /\ Len(edits) >= c
    BY <1>0, <1>1, <1>3 DEF Whole
  <2>2. /\ Written(edits, Len(edits), m) = IF m \in group /\ i <= Len(edits) THEN {i} ELSE {}
        /\ m \in group => i \in 1..c /\ edits[i] = PlacedIn(tree, n, to, m, fresh[m])
    BY <1>0, <1>3, <2>1, WrittenWhole
  <2>3. m \in group
    OBVIOUS
  <2> HIDE DEF i, fresh, c, group
  <2>4. i <= Len(edits)
    BY <1>0, <1>1, <2>1, <2>2, <2>3
  <2>5. Written(edits, Len(edits), m) = {i} /\ edits[i] = PlacedIn(tree, n, to, m, fresh[m])
    BY <2>2, <2>3, <2>4
  <2>6. Newest({i}) = i
    <3>1. i \in {i} /\ \A k \in {i} : k <= i
      BY <2>2, <2>3, <1>0
    <3> QED  BY <3>1 DEF Newest
  <2>7. m \in Node
    BY <1>0, <2>1
  <2>8. new[m] = edits[i].place
    BY <2>5, <2>6, <2>7 DEF After
  <2>9. PlacedIn(tree, n, to, m, fresh[m]).place.rank = fresh[m]
    BY DEF PlacedIn
  <2> HIDE DEF new
  <2> QED  BY <2>5, <2>8, <2>9
<1> QED  BY <1>2, <1>3

\* Under its new parent, in its slot, and with a rank
LandedAt(tree, n, to, at) ==
  LET group == Siblings(tree, to)
  IN /\ n \in group
     /\ IndexIn(RankOf(tree), group, n) = SlotOf(group \ {n}, at)
     /\ RankOf(tree)[n] # NoRank

LEMMA PlanLands ==
  ASSUME NEW tree, NEW n, NEW to, MayGo(tree, n, to), NEW at \in Nat,
         NEW edits, edits = EditsOf(tree, n, to, at)
  PROVE  LandedAt(After(tree, edits, Len(edits)), n, to, at)
<1> DEFINE new == After(tree, edits, Len(edits))
           group == Siblings(tree, to)
           others == group \ {n}
           rank == RankOf(tree)
           fresh == Renumbered(rank, group)
           k == SlotOf(others, at)
<1>0. /\ tree \in Tree /\ n \in NodesOf(tree) /\ NodesOf(tree) \subseteq Node
      /\ Ranks(rank, group) /\ IsFiniteSet(group) /\ group \subseteq NodesOf(tree)
      /\ \A m \in NodesOf(tree) : rank[m] = tree[m].rank
  <2>1. tree \in Tree /\ n \in NodesOf(tree)
    BY DEF MayGo
  <2> QED  BY <2>1, GroupType
<1>1. Len(edits) \in Nat
  <2>1. Placing(tree, n, to, edits)
    BY PlanPlaces
  <2> QED  BY <2>1, ListIsFunction DEF Placing
<1>2. /\ MayGo(new, n, to) /\ NodesOf(new) = NodesOf(tree)
      /\ Siblings(new, to) \ {n} = others
  <2>1. Len(edits) \in 0..Len(edits)
    BY <1>1
  <2> QED  BY <2>1, GroupStays
<1>3. /\ new[n].parent = to
      /\ \/ /\ Idle(tree, n, to, at, edits) /\ new[n].rank = tree[n].rank
         \/ /\ Single(tree, n, to, at, edits) /\ new[n].rank = NewRank(rank, others, k)
         \/ /\ Whole(tree, n, to, at, edits) /\ new[n].rank = NewRank(fresh, others, k)
  <2>1. EndsAs(tree, n, to, at, edits, new[n])
    BY MovedSays
  <2> QED  BY <2>1 DEF EndsAs
<1>4. \A m \in others :
        /\ Idle(tree, n, to, at, edits) \/ Single(tree, n, to, at, edits) =>
             new[m].rank = tree[m].rank
        /\ Whole(tree, n, to, at, edits) => new[m].rank = fresh[m]
  BY OthersSay
<1>5. k \in Nat /\ k <= Cardinality(others)
  <2>1. IsFiniteSet(others)
    BY <1>0, FS_Subset
  <2> HIDE DEF others
  <2> QED  BY <2>1, SlotType
<1>6. Ranks(rank, others)
  BY <1>0 DEF Ranks
<1>7. NewRank(fresh, others, k) # NoRank /\ Ranks(fresh, others)
  BY <1>0, LastIs
<1> HIDE DEF new, fresh, k
<1>8. n \in Siblings(new, to)
  <2>1. Claimed(new, n) = to
    <3>1. to \in (Container \cap NodesOf(new)) \cup {Top} /\ Top \notin NodesOf(new)
      BY <1>2, PlacementAssumption DEF MayGo, NodesOf
    <3> QED  BY <1>3, <3>1 DEF Claimed
  <2>2. HonouredParent(new, n) = Claimed(new, n)
    BY <1>2, GroundedHasNoCycle DEF MayGo
  <2> QED  BY <1>2, <2>1, <2>2 DEF MayGo, Siblings
<1>9. Siblings(new, to) = others \cup {n} /\ n \notin others
  BY <1>2, <1>8
<1>10. \A m \in NodesOf(tree) : RankOf(new)[m] = new[m].rank
  BY <1>2 DEF RankOf
<1>11. n \in Node /\ \A m \in others : m \in NodesOf(tree)
  BY <1>0
<1>12. ASSUME Idle(tree, n, to, at, edits), new[n].rank = tree[n].rank
       PROVE  IndexIn(RankOf(new), Siblings(new, to), n) = k /\ RankOf(new)[n] # NoRank
  <2>1. n \in group /\ tree[n].rank # NoRank /\ IndexIn(rank, group, n) = k
    BY <1>12 DEF Idle, k
  <2>2. group = others \cup {n}
    BY <2>1
  <2>3. \A m \in group : RankOf(new)[m] = rank[m]
    BY <1>0, <1>4, <1>10, <1>12, <2>2
  <2>4. \A m \in group : Before(rank, m, n) <=> Before(RankOf(new), m, n)
    BY <2>1, <2>3 DEF Before
  <2> HIDE DEF others, rank, group
  <2>5. IndexIn(rank, group, n) = IndexIn(RankOf(new), group, n)
    BY <2>4, IndexSame
  <2> QED  BY <1>0, <1>9, <1>10, <1>12, <2>1, <2>2, <2>5
<1>13. ASSUME Single(tree, n, to, at, edits), new[n].rank = NewRank(rank, others, k)
       PROVE  IndexIn(RankOf(new), Siblings(new, to), n) = k /\ RankOf(new)[n] # NoRank
  <2>1. NewRank(rank, others, k) # NoRank
    BY <1>13 DEF Single, k
  <2>2. \A m \in others : RankOf(new)[m] = rank[m]
    BY <1>0, <1>4, <1>10, <1>11, <1>13
  <2>3. RankOf(new)[n] = NewRank(rank, others, k)
    BY <1>0, <1>10, <1>13
  <2> HIDE DEF others, rank
  <2>4. IndexIn(RankOf(new), others \cup {n}, n) = k
    BY <1>5, <1>6, <1>9, <1>11, <2>1, <2>2, <2>3, FittingLands
  <2> QED  BY <1>9, <2>1, <2>3, <2>4
<1>14. ASSUME Whole(tree, n, to, at, edits), new[n].rank = NewRank(fresh, others, k)
       PROVE  IndexIn(RankOf(new), Siblings(new, to), n) = k /\ RankOf(new)[n] # NoRank
  <2>2. \A m \in others : RankOf(new)[m] = fresh[m]
    BY <1>4, <1>10, <1>11, <1>14
  <2>3. RankOf(new)[n] = NewRank(fresh, others, k)
    BY <1>0, <1>10, <1>14
  <2> HIDE DEF others, rank
  <2>4. IndexIn(RankOf(new), others \cup {n}, n) = k
    BY <1>5, <1>7, <1>9, <1>11, <2>2, <2>3, FittingLands
  <2> QED  BY <1>7, <1>9, <2>3, <2>4
<1>15. /\ n \in Siblings(new, to)
       /\ IndexIn(RankOf(new), Siblings(new, to), n) = k
       /\ RankOf(new)[n] # NoRank
  BY <1>3, <1>8, <1>12, <1>13, <1>14
<1>16. SlotOf(Siblings(new, to) \ {n}, at) = k
  BY <1>2 DEF k
<1> QED  BY <1>15, <1>16 DEF LandedAt, new

-----------------------------------------------------------------------------
(* Requests *)

\* What the argument needs to know of a value, without its type: where a planned
\* write goes is worked out from the tree, and is not followed here.
IsFile(content) == content = [place |-> content.place, prose |-> content.prose]
IsWork(r) ==
  r = [mover |-> r.mover, to |-> r.to, at |-> r.at, step |-> r.step,
       todo |-> r.todo, read |-> r.read]

Shapes ==
  /\ file = [n \in Node |-> file[n]]
  /\ lock = [n \in Node |-> lock[n]]
  /\ work = [w \in Worker |-> work[w]]
  /\ \A n \in Node : file[n] # Absent => IsFile(file[n])

\* A request's edits are of the three kinds, and a rename is the only one of its own
WellFormed(r) ==
  /\ IsWork(r)
  /\ IsList(r.todo)
  /\ \A i \in 1..Len(r.todo) :
       /\ r.todo[i].kind \in {"place", "save", "rename"}
       /\ r.todo[i].kind = "rename" => Len(r.todo) = 1
  /\ r.step # "plan" => r.todo # <<>>

Requests == \A w \in Worker : Busy(w) => WellFormed(work[w])

\* Between its read and its write a request has read what the file says, and the
\* file's lock is its own
Fresh(w) ==
  LET n == Current(w).node
  IN /\ n \in Node /\ file[n] # Absent
     /\ work[w].read = file[n]
     /\ Locks(Current(w)) => lock[n] = w
Reads == \A w \in Worker : Doing(w, "put") => Fresh(w)

\* A rename runs beside nothing
Alone == \A v, w \in Worker : Renames(v) /\ Busy(w) => v = w

IInv == Shapes /\ Requests /\ Reads /\ Alone /\ NothingLost

-----------------------------------------------------------------------------
(* Plans *)

\* plan_placement returns a list
LEMMA PlanIsList ==
  ASSUME NEW rank, NEW group, group \subseteq Node, NEW n, NEW at
  PROVE  IsList(PlanPlacement(rank, group, n, at))
<1> DEFINE fresh == Renumbered(rank, group)
           others == group \ {n}
           k == IF at < Cardinality(others) THEN at ELSE Cardinality(others)
           last == NewRank(fresh, others, k)
           rest == IF n \in group /\ fresh[n] = last THEN <<>> ELSE <<[node |-> n, rank |-> last]>>
           writes == RenumberWrites(rank, group)
<1>1. Cardinality(group) \in Nat
  BY PlacementAssumption, FS_Subset, FS_CardinalityType
<1>2. IsList(writes)
  <2>1. writes = [i \in 1..Cardinality(group) |-> writes[i]]
    BY DEF RenumberWrites
  <2> HIDE DEF writes
  <2> QED  BY <1>1, <2>1, FunctionIsList
<1>3. IsList(rest)
  <2> HIDE DEF last, fresh
  <2> QED  BY ShortLists
<1>4. IsList(writes \o rest)
  <2> HIDE DEF writes, rest
  <2> QED  BY <1>2, <1>3, ConcatIsList
<1>5. \/ PlanPlacement(rank, group, n, at) = <<>>
      \/ PlanPlacement(rank, group, n, at) = <<[node |-> n, rank |-> NewRank(rank, others, k)]>>
      \/ PlanPlacement(rank, group, n, at) = writes \o rest
  BY DEF PlanPlacement
<1> HIDE DEF writes, rest, k, others
<1> QED  BY <1>4, <1>5, ShortLists

\* ... and so does _place_node, of placements only
LEMMA PlanIsWellFormed ==
  ASSUME NEW n, NEW to, NEW at
  PROVE  LET edits == PlacementEdits(n, to, at)
         IN IsList(edits) /\ \A i \in 1..Len(edits) : edits[i].kind = "place"
<1> DEFINE writes == PlanPlacement(RankOf(shown), Siblings(shown, to), n, at)
           Placed(m, rank) ==
             [kind |-> "place", node |-> m,
              place |-> [parent |-> IF m = n THEN to ELSE shown[m].parent, rank |-> rank]]
           edits == PlacementEdits(n, to, at)
<1>1. IsList(writes)
  <2>1. Siblings(shown, to) \subseteq Node
    BY DEF Siblings, NodesOf
  <2> QED  BY <2>1, PlanIsList
<1>2. \/ edits = <<Placed(n, shown[n].rank)>>
      \/ edits = [i \in DOMAIN writes |-> Placed(writes[i].node, writes[i].rank)]
  BY DEF PlacementEdits
<1>3. CASE edits = <<Placed(n, shown[n].rank)>>
  <2>1. Placed(n, shown[n].rank).kind = "place"
    OBVIOUS
  <2> HIDE DEF edits, Placed
  <2>2. IsList(edits) /\ Len(edits) = 1 /\ edits[1].kind = "place"
    BY <1>3, <2>1, ShortLists
  <2> QED  BY <2>2 DEF edits
<1>4. CASE edits = [i \in DOMAIN writes |-> Placed(writes[i].node, writes[i].rank)]
  <2>1. Len(writes) \in Nat /\ DOMAIN writes = 1..Len(writes)
    BY <1>1, ListIsFunction
  <2>2. \A i \in DOMAIN writes : edits[i].kind = "place"
    BY <1>4
  <2>3. edits = [i \in 1..Len(writes) |-> edits[i]]
    BY <1>4, <2>1
  <2> HIDE DEF edits, writes
  <2>4. IsList(edits) /\ Len(edits) = Len(writes)
    BY <2>1, <2>3, FunctionIsList
  <2> QED  BY <2>1, <2>2, <2>4 DEF edits
<1> QED  BY <1>2, <1>3, <1>4

-----------------------------------------------------------------------------
(* The invariant *)

\* It holds at the start
LEMMA InitKeeps == Init => IInv
<1> SUFFICES ASSUME Init PROVE IInv
  OBVIOUS
<1> USE DEF Init
<1>1. \A w \in Worker : ~Busy(w) /\ ~Doing(w, "put")
  BY DEF Busy, Doing
<1>2. Shapes
  BY DEF Shapes, IsFile
<1>3. Requests /\ Reads /\ Alone
  BY <1>1 DEF Requests, Reads, Alone
<1> QED  BY <1>2, <1>3 DEF IInv, NothingLost

\* Taking a new request keeps what is known of the others, when no file that is
\* there changes
LEMMA ServingKeeps ==
  ASSUME IInv, ~RenamesRace, NEW w \in Worker, NEW r, Serves(w, r),
         WellFormed(r), r.step # "put",
         r.step # "plan" /\ ~Locks(Head(r.todo)) => \A v \in Worker : ~Busy(v),
         lock' = lock,
         \A n \in Node : file[n] # Absent => file'[n] = file[n]
  PROVE  /\ work' = [v \in Worker |-> work'[v]]
         /\ Requests' /\ Reads' /\ Alone'
<1> USE DEF IInv
<1>1. work' = [work EXCEPT ![w] = r] /\ work = [v \in Worker |-> work[v]]
  BY DEF Serves, Shapes
<1>2. work'[w] = r /\ \A v \in Worker : v # w => work'[v] = work[v]
  BY <1>1
<1>3. work' = [v \in Worker |-> work'[v]]
  BY <1>1
<1>4. Requests'
  BY <1>2 DEF Requests, Busy
<1>5. Reads'
  <2> SUFFICES ASSUME NEW v \in Worker, Doing(v, "put")' PROVE Fresh(v)'
    BY DEF Reads
  <2>1. v # w /\ work'[v] = work[v]
    BY <1>2 DEF Doing
  <2>2. Fresh(v)
    BY <2>1 DEF Reads, Doing
  <2> QED  BY <2>1, <2>2 DEF Fresh, Current, Locks
<1>6. Alone'
  <2> SUFFICES ASSUME NEW u \in Worker, NEW v \in Worker, Renames(u)', Busy(v)', u # v
               PROVE  FALSE
    BY DEF Alone
  <2>1. CASE u = w
    <3>1. Busy(v)
      BY <1>2, <2>1 DEF Busy
    <3>2. r.step # "plan" /\ ~Locks(Head(r.todo))
      BY <1>2, <2>1 DEF Renames, Doing, Current, Locks
    <3> QED  BY <3>1, <3>2
  <2>2. CASE u # w
    <3>1. Renames(u)
      BY <1>2, <2>2 DEF Renames, Doing, Current, Locks
    <3> QED  BY <3>1 DEF Serves
  <2> QED  BY <2>1, <2>2
<1> QED  BY <1>3, <1>4, <1>5, <1>6

\* So does going on with one, when no other can notice: its next piece of work is
\* of the form expected, nobody else's file changes, and a rename stays alone
LEMMA WorkingKeeps ==
  ASSUME IInv, NEW w \in Worker, Busy(w), NEW r, work' = [work EXCEPT ![w] = r],
         r # NoWork => WellFormed(r),
         r # NoWork /\ r.step # "plan" /\ ~Locks(Head(r.todo)) => Renames(w),
         Doing(w, "put")' => Fresh(w)',
         \A v \in Worker : v # w /\ Doing(v, "put") =>
           /\ file'[Current(v).node] = file[Current(v).node]
           /\ lock[Current(v).node] = v => lock'[Current(v).node] = v
  PROVE  /\ work' = [v \in Worker |-> work'[v]]
         /\ Requests' /\ Reads' /\ Alone'
<1> USE DEF IInv
<1>1. work = [v \in Worker |-> work[v]]
  BY DEF Shapes
<1>2. work'[w] = r /\ \A v \in Worker : v # w => work'[v] = work[v]
  BY <1>1
<1>3. work' = [v \in Worker |-> work'[v]]
  BY <1>1
<1>4. Requests'
  BY <1>2 DEF Requests, Busy
<1>5. Reads'
  <2> SUFFICES ASSUME NEW v \in Worker, Doing(v, "put")', v # w PROVE Fresh(v)'
    BY DEF Reads
  <2>1. work'[v] = work[v] /\ Doing(v, "put")
    BY <1>2 DEF Doing
  <2>2. Fresh(v)
    BY <2>1 DEF Reads
  <2> QED  BY <2>1, <2>2 DEF Fresh, Current, Locks
<1>6. Alone'
  <2> SUFFICES ASSUME NEW u \in Worker, NEW v \in Worker, Renames(u)', Busy(v)'
               PROVE  u = v
    BY DEF Alone
  <2>1. Renames(u)
    BY <1>2 DEF Renames, Doing, Current, Locks
  <2>2. Busy(v)
    BY <1>2 DEF Busy
  <2> QED  BY <2>1, <2>2 DEF Alone
<1> QED  BY <1>3, <1>4, <1>5, <1>6

\* The next edit of a request is not a rename: that would have been its only one
LEMMA OnwardIsWellFormed ==
  ASSUME NEW w, WellFormed(work[w]), work[w].step # "plan", Onward(w) # NoWork
  PROVE  LET r == Onward(w)
         IN WellFormed(r) /\ r.step # "put" /\ (r.step # "plan" => Locks(Head(r.todo)))
<1> DEFINE r == Onward(w)
           s == work[w].todo
           rest == Tail(s)
<1>1. IsWork(work[w]) /\ IsList(s) /\ s # <<>>
  BY DEF WellFormed
<1>2. CASE rest # <<>>
  <2>1. /\ IsList(rest) /\ Len(rest) = Len(s) - 1 /\ Len(s) \in Nat
        /\ \A i \in 1..Len(rest) : rest[i] = s[i + 1]
    BY <1>1, TailIsList, ListIsFunction
  <2>2. r = [work[w] EXCEPT !.step = "take", !.todo = rest, !.read = NoFile]
    BY <1>2 DEF Onward
  <2>3. IsWork(r) /\ r.todo = rest /\ r.step = "take"
    BY <1>1, <2>2 DEF IsWork
  <2>4. Head(rest) = rest[1] /\ Len(rest) >= 1
    BY <1>2, <2>1, TailIsList
  <2>5. \A i \in 1..Len(rest) :
          rest[i].kind \in {"place", "save", "rename"} /\ rest[i].kind # "rename"
    <3> SUFFICES ASSUME NEW i \in 1..Len(rest)
                 PROVE  rest[i].kind \in {"place", "save", "rename"} /\ rest[i].kind # "rename"
      OBVIOUS
    <3> HIDE DEF s, rest
    <3>1. i + 1 \in 1..Len(s) /\ Len(s) # 1
      BY <2>1, <2>4
    <3>2. rest[i] = s[i + 1]
      BY <2>1
    <3>3. s[i + 1].kind \in {"place", "save", "rename"} /\ s[i + 1].kind # "rename"
      BY <3>1 DEF WellFormed, s
    <3> QED  BY <3>2, <3>3
  <2>6. 1 \in 1..Len(rest)
    BY <2>1, <2>4
  <2> HIDE DEF r, rest, s
  <2>7. WellFormed(r)
    BY <1>2, <2>1, <2>3, <2>5 DEF WellFormed
  <2>8. Locks(Head(r.todo))
    BY <2>3, <2>4, <2>5, <2>6 DEF Locks
  <2> QED  BY <2>3, <2>7, <2>8 DEF r
<1>3. CASE rest = <<>>
  <2>1. r = [work[w] EXCEPT !.step = "plan", !.todo = <<>>, !.read = NoFile]
    BY <1>3 DEF Onward
  <2>2. IsWork(r) /\ r.todo = <<>> /\ r.step = "plan"
    BY <1>1, <2>1 DEF IsWork
  <2> HIDE DEF r
  <2>3. WellFormed(r)
    BY <2>2, ShortLists DEF WellFormed
  <2> QED  BY <2>2, <2>3 DEF r
<1> QED  BY <1>2, <1>3

\* The requests that come in are well formed
LEMMA RequestIsWellFormed ==
  ASSUME NEW mover, NEW to, NEW at, NEW step, NEW e,
         e.kind \in {"place", "save", "rename"}
  PROVE  LET r == Request(mover, to, at, step, <<e>>)
         IN WellFormed(r) /\ r.step = step /\ Head(r.todo) = e
<1> DEFINE r == Request(mover, to, at, step, <<e>>)
<1>1. IsWork(r) /\ r.todo = <<e>> /\ r.step = step
  BY DEF Request, IsWork
<1>2. Head(<<e>>) = e
  OBVIOUS
<1> HIDE DEF r
<1>3. WellFormed(r)
  BY <1>1, ShortLists DEF WellFormed
<1> QED  BY <1>1, <1>2, <1>3 DEF r

-----------------------------------------------------------------------------
(* The steps that take a request *)

LEMMA StartsKeep ==
  ASSUME IInv, ~RenamesRace, NEW w \in Worker, NEW n \in Node,
         \/ \E to \in Container \cup {Top}, at \in 0..Cardinality(Node) - 1 : StartMove(w, n, to, at)
         \/ \E prose \in Prose : StartSave(w, n, prose)
         \/ StartRename(w, n)
  PROVE  IInv'
<1>1. file' = file /\ lock' = lock /\ meant' = meant
  BY DEF StartMove, StartSave, StartRename
<1>2. work' = [v \in Worker |-> work'[v]] /\ Requests' /\ Reads' /\ Alone'
  <2>1. CASE \E to \in Container \cup {Top}, at \in 0..Cardinality(Node) - 1 : StartMove(w, n, to, at)
    <3>1. PICK to \in Container \cup {Top}, at \in 0..Cardinality(Node) - 1 : StartMove(w, n, to, at)
      BY <2>1
    <3> DEFINE r == Request(n, to, at, "plan", <<>>)
    <3>2. Serves(w, r)
      BY <3>1 DEF StartMove
    <3>3. IsWork(r) /\ r.todo = <<>> /\ r.step = "plan"
      BY DEF Request, IsWork
    <3> HIDE DEF r
    <3>4. WellFormed(r)
      BY <3>3, ShortLists DEF WellFormed
    <3> QED  BY <1>1, <3>2, <3>3, <3>4, ServingKeeps
  <2>2. CASE \E prose \in Prose : StartSave(w, n, prose)
    <3>1. PICK prose \in Prose : StartSave(w, n, prose)
      BY <2>2
    <3> DEFINE e == [kind |-> "save", node |-> n, prose |-> prose]
               r == Request(Top, Top, 0, "take", <<e>>)
    <3>2. Serves(w, r)
      BY <3>1 DEF StartSave
    <3>3. e.kind = "save"
      OBVIOUS
    <3> HIDE DEF e
    <3>4. WellFormed(r) /\ r.step = "take" /\ Head(r.todo) = e
      BY <3>3, RequestIsWellFormed
    <3> HIDE DEF r
    <3>5. Locks(Head(r.todo))
      BY <3>3, <3>4 DEF Locks
    <3> QED  BY <1>1, <3>2, <3>4, <3>5, ServingKeeps
  <2>3. CASE StartRename(w, n)
    <3> DEFINE e == [kind |-> "rename", node |-> n]
               r == Request(Top, Top, 0, "take", <<e>>)
    <3>1. Serves(w, r) /\ \A v \in Worker : ~Busy(v)
      BY <2>3 DEF StartRename
    <3>2. e.kind = "rename"
      OBVIOUS
    <3> HIDE DEF e
    <3>3. WellFormed(r) /\ r.step = "take"
      BY <3>2, RequestIsWellFormed
    <3> HIDE DEF r
    <3> QED  BY <1>1, <3>1, <3>3, ServingKeeps
  <2> QED  BY <2>1, <2>2, <2>3
<1> QED  BY <1>1, <1>2 DEF IInv, Shapes, NothingLost, IsFile

LEMMA CreateKeeps ==
  ASSUME IInv, ~RenamesRace, NEW w \in Worker, NEW n \in Node, NEW to, Create(w, n, to)
  PROVE  IInv'
<1> DEFINE e == [kind |-> "save", node |-> n, prose |-> NewProse]
           r == Request(n, to, Cardinality(Node), "tell", <<e>>)
           new == [place |-> [parent |-> Top, rank |-> NoRank], prose |-> NewProse]
<1>1. /\ Serves(w, r) /\ file[n] = Absent /\ lock' = lock
      /\ file' = [file EXCEPT ![n] = new]
      /\ meant' = [meant EXCEPT ![n] = file'[n]]
  BY DEF Create
<1>2. IsFile(new)
  BY DEF IsFile
<1>3. e.kind = "save"
  OBVIOUS
<1> HIDE DEF new, e
<1>4. WellFormed(r) /\ r.step = "tell" /\ Head(r.todo) = e
  BY <1>3, RequestIsWellFormed
<1> HIDE DEF r
<1>5. Locks(Head(r.todo))
  BY <1>3, <1>4 DEF Locks
<1>6. file = [m \in Node |-> file[m]] /\ lock = [m \in Node |-> lock[m]]
  BY DEF IInv, Shapes
<1>7. file'[n] = new /\ \A m \in Node : m # n => file'[m] = file[m]
  BY <1>1, <1>6
<1>8. work' = [v \in Worker |-> work'[v]] /\ Requests' /\ Reads' /\ Alone'
  BY <1>1, <1>4, <1>5, <1>7, ServingKeeps
<1>9. Shapes'
  BY <1>1, <1>2, <1>6, <1>7, <1>8 DEF IInv, Shapes, IsFile
<1>10. NothingLost'
  BY <1>1, <1>6, <1>7 DEF IInv, NothingLost
<1> QED  BY <1>8, <1>9, <1>10 DEF IInv

-----------------------------------------------------------------------------
(* The steps that carry one out *)

LEMMA PlanKeeps ==
  ASSUME IInv, NEW w \in Worker, Plan(w)
  PROVE  IInv'
<1> DEFINE edits == PlacementEdits(work[w].mover, work[w].to, work[w].at)
           r == IF edits = <<>> THEN NoWork
                ELSE [work[w] EXCEPT !.step = "take", !.todo = edits]
<1>1. Doing(w, "plan") /\ Busy(w) /\ WellFormed(work[w])
  BY DEF Plan, Doing, Busy, IInv, Requests
<1>2. file' = file /\ lock' = lock /\ meant' = meant
  BY DEF Plan
<1>3. work' = [work EXCEPT ![w] = r]
  <2>1. work = [v \in Worker |-> work[v]]
    BY DEF IInv, Shapes
  <2> QED  BY <2>1 DEF Plan, Leave
<1>4. IsList(edits) /\ \A i \in 1..Len(edits) : edits[i].kind = "place"
  BY PlanIsWellFormed
<1>5. r # NoWork => WellFormed(r) /\ r.step = "take" /\ Locks(Head(r.todo))
  <2> SUFFICES ASSUME r # NoWork PROVE WellFormed(r) /\ r.step = "take" /\ Locks(Head(r.todo))
    OBVIOUS
  <2>1. edits # <<>> /\ r = [work[w] EXCEPT !.step = "take", !.todo = edits]
    OBVIOUS
  <2>2. IsWork(r) /\ r.todo = edits /\ r.step = "take"
    BY <1>1, <2>1 DEF WellFormed, IsWork
  <2> HIDE DEF r, edits
  <2>3. Head(edits) = edits[1] /\ 1 \in 1..Len(edits)
    BY <1>4, <2>1, TailIsList, ListIsFunction
  <2> QED  BY <1>4, <2>1, <2>2, <2>3 DEF WellFormed, Locks
<1> HIDE DEF r, edits
<1>6. ~Doing(w, "put")'
  <2>1. work'[w] = r
    BY <1>3 DEF IInv, Shapes
  <2> QED  BY <1>5, <2>1 DEF Doing
<1>7. work' = [v \in Worker |-> work'[v]] /\ Requests' /\ Reads' /\ Alone'
  BY <1>1, <1>2, <1>3, <1>5, <1>6, WorkingKeeps
<1> QED  BY <1>2, <1>7 DEF IInv, Shapes, NothingLost, IsFile

LEMMA TakeKeeps ==
  ASSUME IInv, NEW w \in Worker, Take(w)
  PROVE  IInv'
<1> DEFINE n == Current(w).node
           r == [work[w] EXCEPT !.step = "put", !.read = file[n]]
<1>1. Doing(w, "take") /\ Busy(w) /\ WellFormed(work[w])
  BY DEF Take, Doing, Busy, IInv, Requests
<1>2. n \in Node /\ file[n] # Absent
  BY DEF Take, NodesOf, OnDisk
<1>3. /\ file' = file /\ meant' = meant /\ work' = [work EXCEPT ![w] = r]
      /\ lock' = IF Locks(Current(w)) THEN [lock EXCEPT ![n] = w] ELSE lock
      /\ Locks(Current(w)) => lock[n] = Free
  BY DEF Take, MayTake
<1>4. lock = [m \in Node |-> lock[m]] /\ work = [v \in Worker |-> work[v]]
  BY DEF IInv, Shapes
<1>5. IsWork(r) /\ r.todo = work[w].todo /\ r.step = "put" /\ r.read = file[n]
  <2> DEFINE content == file[n]
  <2>1. IsWork(work[w]) /\ r = [work[w] EXCEPT !.step = "put", !.read = content]
    BY <1>1 DEF WellFormed
  <2> HIDE DEF n, content, r
  <2>2. IsWork(r) /\ r.todo = work[w].todo /\ r.step = "put" /\ r.read = content
    BY <2>1 DEF IsWork
  <2> QED  BY <2>2 DEF content
<1> HIDE DEF r
<1>6. WellFormed(r)
  BY <1>1, <1>5 DEF WellFormed, Doing
<1>7. work'[w] = r
  BY <1>3, <1>4
<1>8. ~Locks(Head(r.todo)) => Renames(w)
  BY <1>1, <1>5 DEF Renames, Current
<1>9. Doing(w, "put")' => Fresh(w)'
  BY <1>2, <1>3, <1>4, <1>5, <1>7 DEF Fresh, Current, Locks
<1>10. \A v \in Worker : v # w /\ Doing(v, "put") =>
         /\ file'[Current(v).node] = file[Current(v).node]
         /\ lock[Current(v).node] = v => lock'[Current(v).node] = v
  <2> SUFFICES ASSUME NEW v \in Worker, v # w, lock[Current(v).node] = v, Doing(v, "put")
               PROVE  lock'[Current(v).node] = v
    BY <1>3
  <2>1. Current(v).node \in Node
    BY DEF IInv, Reads, Fresh
  <2>2. Free \notin Worker
    BY TreeMovesAssumption
  <2> QED  BY <1>3, <1>4, <2>1, <2>2
<1>11. work' = [v \in Worker |-> work'[v]] /\ Requests' /\ Reads' /\ Alone'
  BY <1>1, <1>3, <1>6, <1>8, <1>9, <1>10, WorkingKeeps
<1>12. lock' = [m \in Node |-> lock'[m]]
  BY <1>3, <1>4
<1> QED  BY <1>3, <1>11, <1>12 DEF IInv, Shapes, NothingLost, IsFile

\* Leaving the locks of one request takes none from another
LEMMA UnlockedKeeps ==
  ASSUME IInv, NEW w \in Worker, lock' = Unlocked(w)
  PROVE  /\ lock' = [m \in Node |-> lock'[m]]
         /\ \A v \in Worker : v # w /\ Doing(v, "put") /\ lock[Current(v).node] = v
              => lock'[Current(v).node] = v
<1>1. lock' = [m \in Node |-> lock'[m]]
  BY DEF Unlocked
<1>2. ASSUME NEW v \in Worker, v # w, Doing(v, "put"), lock[Current(v).node] = v
      PROVE  lock'[Current(v).node] = v
  <2>1. Current(v).node \in Node
    BY <1>2 DEF IInv, Reads, Fresh
  <2> QED  BY <1>2, <2>1 DEF Unlocked
<1> QED  BY <1>1, <1>2

\* The heart of it: what a request read is what the file says, so what it writes
\* back differs in the edit alone; and nobody else is between reading and writing
\* that file.
LEMMA PutKeeps ==
  ASSUME IInv, NEW w \in Worker, Put(w)
  PROVE  IInv'
<1> DEFINE n == Current(w).node
           edit == Current(w)
           new == Edited(work[w].read, edit)
           skip == edit.kind = "place" /\ new = work[w].read
           r == IF skip THEN Onward(w) ELSE [work[w] EXCEPT !.step = "tell", !.read = NoFile]
<1>1. Doing(w, "put") /\ Busy(w) /\ WellFormed(work[w]) /\ Fresh(w)
  BY DEF Put, Doing, Busy, IInv, Requests, Reads
<1>2. /\ file' = IF skip THEN file ELSE [file EXCEPT ![n] = new]
      /\ meant' = [meant EXCEPT ![n] = Told(@, edit)]
      /\ work' = [work EXCEPT ![w] = r]
      /\ lock' = Unlocked(w)
  BY DEF Put
<1>3. /\ n \in Node /\ work[w].read = file[n] /\ IsFile(file[n])
      /\ file = [m \in Node |-> file[m]] /\ work = [v \in Worker |-> work[v]]
      /\ meant = file
  BY <1>1 DEF Fresh, IInv, Shapes, NothingLost
<1>4. edit.kind \in {"place", "save", "rename"}
  <2>1. IsList(work[w].todo) /\ work[w].todo # <<>>
    BY <1>1 DEF WellFormed, Doing
  <2>2. edit = work[w].todo[1] /\ 1 \in 1..Len(work[w].todo)
    BY <2>1, TailIsList, ListIsFunction DEF Current
  <2> QED  BY <1>1, <2>2 DEF WellFormed
<1>5. IsFile(new) /\ new = Told(file[n], edit)
  <2>1. CASE edit.kind = "place"
    <3>1. new = [file[n] EXCEPT !.place = edit.place]
      BY <1>3, <2>1 DEF Edited
    <3> QED  BY <1>3, <2>1, <3>1 DEF IsFile, Told
  <2>2. CASE edit.kind = "save"
    <3>1. new = [file[n] EXCEPT !.prose = edit.prose]
      BY <1>3, <2>2 DEF Edited
    <3> QED  BY <1>3, <2>2, <3>1 DEF IsFile, Told
  <2>3. CASE edit.kind = "rename"
    <3>1. new = file[n]
      BY <1>3, <2>3 DEF Edited
    <3> QED  BY <1>3, <2>3, <3>1 DEF IsFile, Told
  <2> QED  BY <1>4, <2>1, <2>2, <2>3
<1> HIDE DEF new
<1>6. file' = [file EXCEPT ![n] = new] /\ meant' = [meant EXCEPT ![n] = new]
  BY <1>2, <1>3, <1>5
<1>7. r # NoWork => WellFormed(r) /\ r.step # "put"
  <2>1. CASE skip
    BY <1>1, <2>1, OnwardIsWellFormed DEF Doing
  <2>2. CASE ~skip
    <3>1. r = [work[w] EXCEPT !.step = "tell", !.read = NoFile]
      BY <2>2
    <3>2. IsWork(r) /\ r.todo = work[w].todo /\ r.step = "tell"
      BY <1>1, <3>1 DEF WellFormed, IsWork
    <3> HIDE DEF r
    <3> QED  BY <1>1, <3>2 DEF WellFormed, Doing
  <2> QED  BY <2>1, <2>2
<1>8. r # NoWork /\ r.step # "plan" /\ ~Locks(Head(r.todo)) => Renames(w)
  <2>1. CASE skip
    BY <1>1, <2>1, OnwardIsWellFormed DEF Doing
  <2>2. CASE ~skip
    <3>1. r = [work[w] EXCEPT !.step = "tell", !.read = NoFile]
      BY <2>2
    <3>2. r.todo = work[w].todo
      BY <1>1, <3>1 DEF WellFormed, IsWork
    <3> QED  BY <1>1, <3>2 DEF Renames, Current
  <2> QED  BY <2>1, <2>2
<1> HIDE DEF r
<1>9. work'[w] = r
  BY <1>2, <1>3
<1>10. ~Doing(w, "put")'
  BY <1>7, <1>9 DEF Doing
<1>11. \A v \in Worker : v # w /\ Doing(v, "put") =>
         /\ file'[Current(v).node] = file[Current(v).node]
         /\ lock[Current(v).node] = v => lock'[Current(v).node] = v
  <2> SUFFICES ASSUME NEW v \in Worker, v # w, Doing(v, "put")
               PROVE  file'[Current(v).node] = file[Current(v).node]
    BY <1>2, UnlockedKeeps
  <2>1. Fresh(v) /\ Busy(v)
    BY DEF IInv, Reads, Doing, Busy
  <2>2. Locks(Current(v)) /\ Locks(Current(w))
    BY <1>1, <2>1 DEF IInv, Alone, Renames
  <2>3. Current(v).node # n
    BY <1>1, <2>1, <2>2 DEF Fresh
  <2> QED  BY <1>3, <1>6, <2>1, <2>3 DEF Fresh
<1>12. work' = [v \in Worker |-> work'[v]] /\ Requests' /\ Reads' /\ Alone'
  BY <1>1, <1>2, <1>7, <1>8, <1>10, <1>11, WorkingKeeps
<1>13. lock' = [m \in Node |-> lock'[m]]
  BY <1>2, UnlockedKeeps
<1>14. Shapes'
  <2>1. file' = [m \in Node |-> file'[m]]
    BY <1>3, <1>6
  <2>2. \A m \in Node : file'[m] = IF m = n THEN new ELSE file[m]
    BY <1>3, <1>6
  <2>3. \A m \in Node : file[m] # Absent => IsFile(file[m])
    BY DEF IInv, Shapes
  <2>4. \A m \in Node : file'[m] # Absent => IsFile(file'[m])
    BY <1>5, <2>2, <2>3
  <2> QED  BY <1>12, <1>13, <2>1, <2>4 DEF Shapes, IsFile
<1>15. NothingLost'
  BY <1>3, <1>6 DEF NothingLost
<1> QED  BY <1>12, <1>14, <1>15 DEF IInv

LEMMA TellKeeps ==
  ASSUME IInv, NEW w \in Worker, Tell(w)
  PROVE  IInv'
<1> DEFINE r == Onward(w)
<1>1. Doing(w, "tell") /\ Busy(w) /\ WellFormed(work[w])
  BY DEF Tell, Doing, Busy, IInv, Requests
<1>2. /\ file' = file /\ lock' = lock /\ meant' = meant
      /\ work' = [work EXCEPT ![w] = r] /\ work = [v \in Worker |-> work[v]]
  BY DEF Tell, IInv, Shapes
<1>3. r # NoWork =>
        WellFormed(r) /\ r.step # "put" /\ (r.step # "plan" => Locks(Head(r.todo)))
  BY <1>1, OnwardIsWellFormed DEF Doing
<1> HIDE DEF r
<1>4. ~Doing(w, "put")'
  BY <1>2, <1>3 DEF Doing
<1>5. work' = [v \in Worker |-> work'[v]] /\ Requests' /\ Reads' /\ Alone'
  BY <1>1, <1>2, <1>3, <1>4, WorkingKeeps
<1> QED  BY <1>2, <1>5 DEF IInv, Shapes, NothingLost, IsFile

LEMMA FailKeeps ==
  ASSUME IInv, NEW w \in Worker, Fail(w)
  PROVE  IInv'
<1>1. Busy(w)
  BY DEF Fail, Doing, Busy
<1>2. /\ file' = file /\ meant' = meant /\ lock' = Unlocked(w)
      /\ work' = [work EXCEPT ![w] = NoWork] /\ work = [v \in Worker |-> work[v]]
  BY DEF Fail, Leave, IInv, Shapes
<1>3. ~Doing(w, "put")'
  BY <1>2 DEF Doing
<1>4. /\ lock' = [m \in Node |-> lock'[m]]
      /\ \A v \in Worker : v # w /\ Doing(v, "put") =>
           /\ file'[Current(v).node] = file[Current(v).node]
           /\ lock[Current(v).node] = v => lock'[Current(v).node] = v
  BY <1>2, UnlockedKeeps
<1>5. work' = [v \in Worker |-> work'[v]] /\ Requests' /\ Reads' /\ Alone'
  BY <1>1, <1>2, <1>3, <1>4, WorkingKeeps
<1> QED  BY <1>2, <1>4, <1>5 DEF IInv, Shapes, NothingLost, IsFile

LEMMA CrashKeeps ==
  ASSUME IInv, Crash
  PROVE  IInv'
<1>1. /\ file' = file /\ meant' = meant /\ lock' = [n \in Node |-> Free]
      /\ work' = [w \in Worker |-> NoWork]
  BY DEF Crash
<1>2. \A w \in Worker : ~Busy(w)' /\ ~Doing(w, "put")'
  BY <1>1 DEF Busy, Doing
<1>3. Requests' /\ Reads' /\ Alone'
  BY <1>2 DEF Requests, Reads, Alone
<1>4. Shapes'
  BY <1>1 DEF IInv, Shapes, IsFile
<1> QED  BY <1>1, <1>3, <1>4 DEF IInv, NothingLost

\* Every step keeps the invariant
LEMMA StepKeeps ==
  ASSUME IInv, ~RenamesRace, [Next]_vars
  PROVE  IInv'
<1>1. CASE \E w \in Worker, n \in Node :
             \/ \E to \in Container \cup {Top}, at \in 0..Cardinality(Node) - 1 :
                  StartMove(w, n, to, at)
             \/ \E prose \in Prose : StartSave(w, n, prose)
             \/ StartRename(w, n)
  BY <1>1, StartsKeep
<1>2. CASE \E w \in Worker, n \in Node, to \in Container \cup {Top} : Create(w, n, to)
  BY <1>2, CreateKeeps
<1>3. CASE \E w \in Worker : Plan(w)
  BY <1>3, PlanKeeps
<1>4. CASE \E w \in Worker : Take(w)
  BY <1>4, TakeKeeps
<1>5. CASE \E w \in Worker : Put(w)
  BY <1>5, PutKeeps
<1>6. CASE \E w \in Worker : Tell(w)
  BY <1>6, TellKeeps
<1>7. CASE \E w \in Worker : Fail(w)
  BY <1>7, FailKeeps
<1>8. CASE Crash
  BY <1>8, CrashKeeps
<1>9. CASE UNCHANGED vars
  <2>1. /\ file' = file /\ work' = work /\ lock' = lock /\ meant' = meant
    BY <1>9 DEF vars
  <2>2. Shapes' /\ NothingLost'
    BY <2>1 DEF IInv, Shapes, IsFile, NothingLost
  <2>3. Requests' /\ Alone'
    BY <2>1 DEF IInv, Requests, Alone, Busy, Renames, Doing, Current
  <2>4. Reads'
    BY <2>1 DEF IInv, Reads, Fresh, Doing, Current
  <2> QED  BY <2>2, <2>3, <2>4 DEF IInv
<1> QED  BY <1>1, <1>2, <1>3, <1>4, <1>5, <1>6, <1>7, <1>8, <1>9 DEF Next

\* placement.py:263-270: a concurrent save and move cannot undo each other.  What
\* every file says is the placement the last move gave it and the prose the last
\* save did, whatever fails or crashes on the way, as long as no rename, which
\* takes no lock, runs beside them.
THEOREM EditsSurvive ==
  ASSUME ~RenamesRace
  PROVE  Spec => []NothingLost
<1>1. Init => IInv
  BY InitKeeps
<1>2. IInv /\ [Next]_vars => IInv'
  BY StepKeeps
<1>3. IInv => NothingLost
  BY DEF IInv
<1> QED  BY <1>1, <1>2, <1>3, PTL DEF Spec

-----------------------------------------------------------------------------
(* One mover at a time *)

\* What is asked of the trees a behaviour may start from: no cycles, and no file
\* names as its parent a node that is yet to be created (ids are not used twice)
Rooted(tree) ==
  \A n \in NodesOf(tree) : tree[n].parent \in NodesOf(tree) \cup {Top, Stranger}
SoundStart ==
  \A tree \in InitialTree : Rooted(tree) /\ \A n \in NodesOf(tree) : ~OnCycle(tree, n)
OneMover == \A v, w \in Mover : v = w

\* No two siblings but the node n are without a rank
OneUnranked(tree, n) ==
  \A a, b \in NodesOf(tree) \ {n} :
    /\ HonouredParent(tree, a) = HonouredParent(tree, b)
    /\ tree[a].rank = NoRank /\ tree[b].rank = NoRank
    => a = b

\* What a request is about to do to the tree the files say: nothing, when it is a
\* save or a rename
Asks(disk, r) ==
  /\ r.mover = Top /\ r.step # "plan"
  /\ \E e : /\ r.todo = <<e>> /\ e.kind \in {"save", "rename"} /\ e.node \in NodesOf(disk)
            /\ e.kind = "save" => e.prose \in Prose

\* ... a plan yet to be made,
Waits(disk, r) ==
  /\ MayGo(disk, r.mover, r.to) /\ r.at \in Nat /\ r.read = NoFile
  /\ \/ r.step = "plan"
     \/ /\ r.step = "tell"
        /\ \E e : r.todo = <<e>> /\ e.kind = "save" /\ e.node = r.mover

\* ... or what is left, from the k-th edit on, of the one made of the tree T
\* (p: in which no two siblings were without a rank)
Midway(disk, r, T, k, p) ==
  LET edits == EditsOf(T, r.mover, r.to, r.at)
  IN /\ MayGo(T, r.mover, r.to) /\ Rooted(T) /\ r.at \in Nat
     /\ p => OneUnranked(T, r.mover)
     /\ k \in 1..Len(edits)
     /\ Len(r.todo) = Len(edits) - k + 1
     /\ \A i \in 1..Len(r.todo) : r.todo[i] = edits[k + i - 1]
     /\ r.step # "plan"
     /\ disk = After(T, edits, IF r.step = "tell" THEN k ELSE k - 1)

Moves(disk, r, p) == Waits(disk, r) \/ \E T, k : Midway(disk, r, T, k, p)
Does(disk, w, r, p) == Asks(disk, r) \/ (w \in Mover /\ Moves(disk, r, p))

\* The index is behind the files by the write a mover has yet to tell it of
Telling(n) ==
  \E w \in Worker : Doing(w, "tell") /\ work[w].mover # Top /\ Current(w).node = n
Synced ==
  /\ shown = [n \in Node |-> shown[n]]
  /\ \A n \in Node : shown[n] = OnDisk[n] \/ Telling(n)

Sound(disk) == disk \in Tree /\ Grounded(disk) /\ Rooted(disk)

MInv(p) ==
  /\ file \in [Node -> File \cup {Absent}]
  /\ Sound(OnDisk) /\ Synced
  /\ \A w \in Worker : Busy(w) => Does(OnDisk, w, work[w], p)

-----------------------------------------------------------------------------
(* Files and index *)

\* The files make a tree
LEMMA DiskIs ==
  ASSUME NEW f, f \in [Node -> File \cup {Absent}],
         NEW disk, disk = [n \in Node |-> IF f[n] = Absent THEN Absent ELSE f[n].place]
  PROVE  /\ disk \in Tree
         /\ \A n \in Node : /\ n \in NodesOf(disk) <=> f[n] # Absent
                            /\ f[n] # Absent => /\ f[n] \in File /\ f[n].place \in Place
                                                /\ f[n].prose \in Prose /\ disk[n] = f[n].place
<1>1. \A n \in Node : f[n] # Absent =>
        /\ f[n] \in File /\ f[n].place \in Place /\ f[n].prose \in Prose /\ disk[n] = f[n].place
  BY DEF File
<1>2. Absent \notin Place
  BY AbsentAssumption
<1> QED  BY <1>1, <1>2 DEF Tree, NodesOf

\* Once a step leaves the tree alone, or is the mover's and takes no node away,
\* the requests of the others are what they were
LEMMA OthersDo ==
  ASSUME NEW p, MInv(p), OneMover, NEW w \in Worker, NEW r, NEW disk,
         work = [v \in Worker |-> work[v]], work' = [work EXCEPT ![w] = r],
         OnDisk' = disk,
         \/ disk = OnDisk
         \/ w \in Mover /\ NodesOf(OnDisk) \subseteq NodesOf(disk),
         r # NoWork => Does(disk, w, r, p)
  PROVE  \A v \in Worker : Busy(v)' => Does(OnDisk', v, work'[v], p)
<1> SUFFICES ASSUME NEW v \in Worker, Busy(v)' PROVE Does(disk, v, work'[v], p)
  OBVIOUS
<1>1. CASE v = w
  BY <1>1 DEF Busy
<1>2. CASE v # w
  <2>1. work'[v] = work[v]
    BY <1>2
  <2>2. Does(OnDisk, v, work[v], p)
    BY <2>1 DEF MInv, Busy
  <2>3. CASE disk = OnDisk
    BY <2>1, <2>2, <2>3
  <2>4. CASE w \in Mover /\ NodesOf(OnDisk) \subseteq NodesOf(disk)
    <3>1. Asks(OnDisk, work[v])
      BY <1>2, <2>2, <2>4 DEF Does, OneMover
    <3>2. Asks(disk, work[v])
      BY <2>4, <3>1 DEF Asks
    <3> QED  BY <2>1, <3>2 DEF Does
  <2> QED  BY <2>3, <2>4
<1> QED  BY <1>1, <1>2

\* A step that leaves the tree and the index alone
LEMMA QuietKeeps ==
  ASSUME NEW p, MInv(p), OneMover, NEW w \in Worker, NEW r,
         work = [v \in Worker |-> work[v]], work' = [work EXCEPT ![w] = r],
         file' \in [Node -> File \cup {Absent}], OnDisk' = OnDisk, shown' = shown,
         r # NoWork => Does(OnDisk, w, r, p),
         ~(Doing(w, "tell") /\ work[w].mover # Top)
  PROVE  MInv(p)'
<1>1. \A v \in Worker : Busy(v)' => Does(OnDisk', v, work'[v], p)
  BY OthersDo
<1>2. Sound(OnDisk')
  BY DEF MInv
<1>3. Synced'
  <2>1. \A n \in Node : Telling(n) => Telling(n)'
    <3> SUFFICES ASSUME NEW n \in Node, NEW v \in Worker, Doing(v, "tell"), work[v].mover # Top,
                        Current(v).node = n
                 PROVE  Doing(v, "tell")' /\ work'[v].mover # Top /\ Current(v)'.node = n
      BY DEF Telling
    <3>1. work'[v] = work[v]
      OBVIOUS
    <3> QED  BY <3>1 DEF Doing, Current
  <2> QED  BY <2>1 DEF MInv, Synced
<1> QED  BY <1>1, <1>2, <1>3 DEF MInv, Sound

\* ... and one that leaves the files alone
LEMMA SameDisk ==
  ASSUME NEW p, MInv(p), file' = file
  PROVE  file' \in [Node -> File \cup {Absent}] /\ OnDisk' = OnDisk
BY DEF OnDisk, MInv

\* The edit a request is at
LEMMA CurrentIs ==
  ASSUME IInv, NEW w \in Worker, Busy(w), work[w].step # "plan"
  PROVE  /\ WellFormed(work[w]) /\ IsList(work[w].todo) /\ Len(work[w].todo) \in Nat
         /\ 1 \in 1..Len(work[w].todo) /\ Current(w) = work[w].todo[1]
<1>1. WellFormed(work[w]) /\ IsList(work[w].todo) /\ work[w].todo # <<>>
  BY DEF IInv, Requests, WellFormed
<1> QED  BY <1>1, TailIsList, ListIsFunction DEF Current

\* ... is, midway, a placement of one of the nodes there are
LEMMA MidwayIs ==
  ASSUME NEW disk, NEW r, NEW T, NEW k, NEW p, Midway(disk, r, T, k, p)
  PROVE  LET edits == EditsOf(T, r.mover, r.to, r.at)
         IN /\ Placing(T, r.mover, r.to, edits) /\ Len(edits) \in Nat /\ k \in Nat
            /\ edits[k].kind = "place" /\ edits[k].node \in NodesOf(T)
            /\ NodesOf(disk) = NodesOf(T) /\ NodesOf(T) \subseteq Node
            /\ MayGo(T, r.mover, r.to)
            /\ r.mover \in NodesOf(disk) /\ r.mover # Top
<1> DEFINE edits == EditsOf(T, r.mover, r.to, r.at)
           j == IF r.step = "tell" THEN k ELSE k - 1
<1>1. MayGo(T, r.mover, r.to) /\ r.at \in Nat /\ k \in 1..Len(edits) /\ disk = After(T, edits, j)
  BY DEF Midway
<1>2. Placing(T, r.mover, r.to, edits)
  BY <1>1, PlanPlaces
<1>3. Len(edits) \in Nat
  BY <1>2, ListIsFunction DEF Placing
<1>4. k \in Nat /\ j \in 0..Len(edits)
  BY <1>1, <1>3
<1>5. edits[k].kind = "place" /\ edits[k].node \in NodesOf(T)
  BY <1>1, <1>2 DEF Placing, IsPlacing
<1> HIDE DEF j
<1>6. NodesOf(disk) = NodesOf(T)
  BY <1>1, <1>4, GroupStays
<1>7. r.mover \in NodesOf(T) /\ NodesOf(T) \subseteq Node /\ Top \notin Node
  BY <1>1, PlacementAssumption DEF MayGo, NodesOf
<1> QED  BY <1>1, <1>2, <1>3, <1>4, <1>5, <1>6, <1>7

\* Only the mover is telling of a placement
LEMMA MoverTells ==
  ASSUME NEW p, MInv(p), NEW w \in Worker, Busy(w), work[w].mover # Top
  PROVE  w \in Mover /\ Moves(OnDisk, work[w], p)
BY DEF MInv, Does, Asks

LEMMA IndexIsDisk ==
  ASSUME NEW p, MInv(p), OneMover, NEW w \in Worker, w \in Mover, ~Doing(w, "tell")
  PROVE  shown = OnDisk
<1>1. ASSUME NEW n \in Node PROVE ~Telling(n)
  <2> SUFFICES ASSUME NEW v \in Worker, Doing(v, "tell"), work[v].mover # Top PROVE FALSE
    BY DEF Telling
  <2>1. v \in Mover
    BY MoverTells DEF Doing, Busy
  <2>2. v = w
    BY <2>1 DEF OneMover
  <2> QED  BY <2>2
<1>2. shown = [n \in Node |-> shown[n]] /\ \A n \in Node : shown[n] = OnDisk[n]
  BY <1>1 DEF MInv, Synced
<1> QED  BY <1>2 DEF OnDisk

\* The node it is telling of is there
LEMMA ToldIsThere ==
  ASSUME IInv, NEW p, MInv(p), NEW w \in Worker, Doing(w, "tell")
  PROVE  Current(w).node \in NodesOf(OnDisk)
<1>1. Busy(w) /\ work[w].step = "tell"
  BY DEF Doing, Busy
<1>2. Does(OnDisk, w, work[w], p) /\ Current(w) = work[w].todo[1] /\ 1 \in 1..Len(work[w].todo)
  BY <1>1, CurrentIs DEF MInv
<1>3. CASE Asks(OnDisk, work[w])
  <2>1. PICK e : work[w].todo = <<e>> /\ e.node \in NodesOf(OnDisk)
    BY <1>3 DEF Asks
  <2> QED  BY <1>2, <2>1, ShortLists
<1>4. CASE Waits(OnDisk, work[w])
  <2>1. PICK e : work[w].todo = <<e>> /\ e.node = work[w].mover
    BY <1>1, <1>4 DEF Waits
  <2>2. work[w].mover \in NodesOf(OnDisk)
    BY <1>4 DEF Waits, MayGo
  <2> QED  BY <1>2, <2>1, <2>2, ShortLists
<1>5. CASE \E T, k : Midway(OnDisk, work[w], T, k, p)
  <2>1. PICK T, k : Midway(OnDisk, work[w], T, k, p)
    BY <1>5
  <2> DEFINE edits == EditsOf(T, work[w].mover, work[w].to, work[w].at)
  <2>2. edits[k].node \in NodesOf(T) /\ NodesOf(OnDisk) = NodesOf(T) /\ k \in Nat
    BY <2>1, MidwayIs
  <2>3. work[w].todo[1] = edits[k + 1 - 1]
    BY <1>2, <2>1 DEF Midway
  <2> HIDE DEF edits
  <2>4. k + 1 - 1 = k
    BY <2>2
  <2> QED  BY <1>2, <2>2, <2>3, <2>4
<1> QED  BY <1>2, <1>3, <1>4, <1>5 DEF Does, Moves

LEMMA ShownIsThere ==
  ASSUME IInv, NEW p, MInv(p), NEW n \in Node, shown[n] # Absent
  PROVE  n \in NodesOf(OnDisk)
<1>1. CASE shown[n] = OnDisk[n]
  BY <1>1 DEF NodesOf
<1>2. CASE Telling(n)
  BY <1>2, ToldIsThere DEF Telling
<1> QED  BY <1>1, <1>2 DEF MInv, Synced

-----------------------------------------------------------------------------
(* The steps, with one mover *)

LEMMA InitialDisk ==
  ASSUME Init
  PROVE  /\ file \in [Node -> File \cup {Absent}]
         /\ OnDisk = shown /\ OnDisk \in InitialTree
<1>1. PICK tree \in InitialTree :
        /\ shown = tree
        /\ file = [n \in Node |-> IF tree[n] = Absent THEN Absent
                                  ELSE [place |-> tree[n], prose |-> NewProse]]
  BY DEF Init
<1>2. tree \in Tree /\ NewProse \in Prose
  BY TreeMovesAssumption
<1>3. Absent \notin File
  BY TreeMovesAssumption
<1>4. \A n \in Node : tree[n] # Absent => tree[n] \in Place
  BY <1>2 DEF Tree
<1>5. file \in [Node -> File \cup {Absent}]
  BY <1>1, <1>2, <1>4 DEF File
<1>6. ASSUME NEW n \in Node PROVE OnDisk[n] = tree[n]
  <2>1. CASE tree[n] = Absent
    BY <1>1, <2>1 DEF OnDisk
  <2>2. CASE tree[n] # Absent
    <3>1. file[n] = [place |-> tree[n], prose |-> NewProse]
      BY <1>1, <2>2
    <3>2. file[n] \in File
      BY <1>2, <1>4, <2>2, <3>1 DEF File
    <3> QED  BY <1>3, <3>1, <3>2 DEF OnDisk
  <2> QED  BY <2>1, <2>2
<1>7. OnDisk = tree
  <2>1. OnDisk = [n \in Node |-> OnDisk[n]] /\ tree = [n \in Node |-> tree[n]]
    BY <1>2 DEF OnDisk, Tree
  <2> QED  BY <1>6, <2>1
<1> QED  BY <1>1, <1>5, <1>7

LEMMA InitMoves ==
  ASSUME NEW p, SoundStart, Init
  PROVE  MInv(p)
<1>1. /\ file \in [Node -> File \cup {Absent}]
      /\ OnDisk = shown /\ OnDisk \in InitialTree
  BY InitialDisk
<1>2. OnDisk \in Tree
  BY <1>1, TreeMovesAssumption
<1>3. Sound(OnDisk)
  <2>1. Grounded(OnDisk) /\ Rooted(OnDisk)
    BY <1>1, NoCycleIsGrounded DEF SoundStart
  <2> QED  BY <1>2, <2>1 DEF Sound
<1>4. Synced
  BY <1>1, <1>2 DEF Synced, Tree
<1>5. \A w \in Worker : ~Busy(w)
  BY DEF Init, Busy
<1> QED  BY <1>1, <1>3, <1>4, <1>5 DEF MInv

\* A move comes in
LEMMA StartMoveMoves ==
  ASSUME IInv, NEW p, MInv(p), OneMover, NEW w \in Worker, NEW n \in Node,
         NEW to \in Container \cup {Top}, NEW at \in 0..Cardinality(Node) - 1,
         StartMove(w, n, to, at)
  PROVE  MInv(p)'
<1> DEFINE r == Request(n, to, at, "plan", <<>>)
<1>1. /\ w \in Mover /\ ~Busy(w) /\ work' = [work EXCEPT ![w] = r]
      /\ file' = file /\ shown' = shown
      /\ shown[n] # Absent /\ (to # Top => shown[to] # Absent /\ ~Contains(shown, n, to))
  BY DEF StartMove, Serves
<1>2. work = [v \in Worker |-> work[v]]
  BY DEF IInv, Shapes
<1>3. shown = OnDisk
  BY <1>1, IndexIsDisk DEF Busy, Doing
<1>4. MayGo(OnDisk, n, to)
  <2>1. OnDisk \in Tree /\ Grounded(OnDisk)
    BY DEF MInv, Sound
  <2>2. n \in NodesOf(OnDisk) /\ to \in (Container \cap NodesOf(OnDisk)) \cup {Top}
    BY <1>1, <1>3, PlacementAssumption DEF NodesOf
  <2>3. Clear(OnDisk, n, to)
    BY <1>1, <1>3, <2>1, <2>2, NotContaining
  <2> QED  BY <2>1, <2>2, <2>3 DEF MayGo
<1>5. r.mover = n /\ r.to = to /\ r.at = at /\ r.step = "plan" /\ r.read = NoFile
  BY DEF Request
<1> HIDE DEF r
<1>6. Waits(OnDisk, r)
  BY <1>4, <1>5 DEF Waits
<1>7. Does(OnDisk, w, r, p)
  BY <1>1, <1>6 DEF Does, Moves
<1> QED  BY <1>1, <1>2, <1>7, SameDisk, QuietKeeps DEF Busy, Doing

\* A save or a rename does
LEMMA StartSaveMoves ==
  ASSUME IInv, NEW p, MInv(p), OneMover, NEW w \in Worker, NEW n \in Node,
         (\E prose \in Prose : StartSave(w, n, prose)) \/ StartRename(w, n)
  PROVE  MInv(p)'
<1>1. PICK e : /\ e.kind \in {"save", "rename"} /\ e.node = n
               /\ e.kind = "save" => e.prose \in Prose
               /\ Serves(w, Request(Top, Top, 0, "take", <<e>>))
               /\ file' = file /\ shown' = shown /\ shown[n] # Absent
  <2>1. CASE \E prose \in Prose : StartSave(w, n, prose)
    <3>1. PICK prose \in Prose : StartSave(w, n, prose)
      BY <2>1
    <3> WITNESS [kind |-> "save", node |-> n, prose |-> prose]
    <3> QED  BY <3>1 DEF StartSave
  <2>2. CASE StartRename(w, n)
    <3> WITNESS [kind |-> "rename", node |-> n]
    <3> QED  BY <2>2 DEF StartRename
  <2> QED  BY <2>1, <2>2
<1> DEFINE r == Request(Top, Top, 0, "take", <<e>>)
<1>2. ~Busy(w) /\ work' = [work EXCEPT ![w] = r]
  BY <1>1 DEF Serves
<1>3. work = [v \in Worker |-> work[v]]
  BY DEF IInv, Shapes
<1>4. n \in NodesOf(OnDisk)
  BY <1>1, ShownIsThere
<1>5. r.mover = Top /\ r.step = "take" /\ r.todo = <<e>>
  BY DEF Request
<1> HIDE DEF r
<1>6. Asks(OnDisk, r)
  BY <1>1, <1>4, <1>5 DEF Asks
<1>7. Does(OnDisk, w, r, p)
  BY <1>6 DEF Does
<1> QED  BY <1>1, <1>2, <1>3, <1>7, SameDisk, QuietKeeps DEF Busy, Doing

\* A node created is one more, and leaves the others alone
LEMMA CreatedAdds ==
  ASSUME NEW disk \in Tree, NEW n \in Node, disk[n] = Absent,
         NEW place \in Place, NEW new, new = [disk EXCEPT ![n] = place]
  PROVE  /\ NodesOf(new) = NodesOf(disk) \cup {n}
         /\ \A m \in NodesOf(disk) : new[m] = disk[m]
<1>1. \A m \in Node : new[m] = IF m = n THEN place ELSE disk[m]
  BY DEF Tree
<1> QED  BY <1>1, AbsentAssumption DEF NodesOf

\* A node is created, at the top, with nobody under it
LEMMA CreatedStands ==
  ASSUME NEW disk, Sound(disk), NEW n \in Node, disk[n] = Absent,
         NEW place \in Place, place.parent = Top, NEW new, new = [disk EXCEPT ![n] = place]
  PROVE  /\ Sound(new) /\ NodesOf(new) = NodesOf(disk) \cup {n} /\ n \notin NodesOf(disk)
         /\ \A m \in NodesOf(disk) : new[m] = disk[m] /\ HonouredParent(new, m) = HonouredParent(disk, m)
         /\ \A to \in (Container \cap NodesOf(disk)) \cup {Top} : MayGo(new, n, to)
<1>2. disk \in Tree /\ Grounded(disk) /\ Rooted(disk) /\ Absent \notin Place /\ Top \notin Node
  BY AbsentAssumption, PlacementAssumption DEF Sound
<1>3. /\ new \in Tree
      /\ \A m \in Node : new[m] = IF m = n THEN place ELSE disk[m]
  BY <1>2 DEF Tree
<1>5. NodesOf(new) = NodesOf(disk) \cup {n} /\ n \notin NodesOf(disk)
  BY <1>2, <1>3 DEF NodesOf
<1>6. \A m \in NodesOf(disk) : new[m] = disk[m]
  BY <1>3, <1>5 DEF NodesOf
<1>7. new[n].parent = Top
  BY <1>3
<1>8. \A m \in NodesOf(disk) : Claimed(new, m) = Claimed(disk, m)
  <2> SUFFICES ASSUME NEW m \in NodesOf(disk) PROVE Claimed(new, m) = Claimed(disk, m)
    OBVIOUS
  <2>1. disk[m].parent # n
    <3>1. disk[m].parent \in NodesOf(disk) \cup {Top, Stranger}
      BY <1>2 DEF Rooted
    <3> QED  BY <1>2, <1>5, <3>1, PlacementAssumption
  <2>2. new[m] = disk[m]
    BY <1>6
  <2>3. new[m].parent = disk[m].parent
    BY <2>2
  <2>4. disk[m].parent \in Container \cap NodesOf(new) <=> disk[m].parent \in Container \cap NodesOf(disk)
    BY <1>5, <2>1
  <2> QED  BY <2>3, <2>4, Zenon DEF Claimed
<1>9. Claimed(new, n) = Top
  BY <1>7 DEF Claimed
<1>10. Grounded(new)
  <2> SUFFICES ASSUME NEW S \in SUBSET NodesOf(new), S # {}
               PROVE  \E m \in S : Claimed(new, m) \notin S
    BY DEF Grounded
  <2>1. CASE n \in S
    <3>1. Top \notin S
      BY <1>2 DEF NodesOf
    <3> QED  BY <1>9, <2>1, <3>1
  <2>2. CASE n \notin S
    <3>1. S \in SUBSET NodesOf(disk)
      BY <1>5, <2>2
    <3>2. PICK m \in S : Claimed(disk, m) \notin S
      BY <1>2, <3>1 DEF Grounded
    <3> QED  BY <1>8, <3>1, <3>2
  <2> QED  BY <2>1, <2>2
<1>11. Rooted(new)
  BY <1>2, <1>5, <1>6, <1>7 DEF Rooted
<1>12. \A m \in NodesOf(disk) : HonouredParent(new, m) = HonouredParent(disk, m)
  BY <1>2, <1>5, <1>8, <1>10, GroundedHasNoCycle
<1>13. ASSUME NEW to \in (Container \cap NodesOf(disk)) \cup {Top} PROVE MayGo(new, n, to)
  <2>1. Clear(new, n, to)
    <3>1. n # to
      BY <1>2, <1>5
    <3>2. \A m \in NodesOf(disk) : Claimed(disk, m) \in NodesOf(disk) \cup {Top}
      BY DEF Claimed
    <3>3. /\ NodesOf(disk) \in SUBSET NodesOf(new) /\ n \notin NodesOf(disk)
          /\ to \in NodesOf(disk) \cup {Top}
          /\ \A m \in NodesOf(disk) : Claimed(new, m) \in NodesOf(disk) \cup {Top}
      BY <1>5, <1>8, <3>2
    <3> QED  BY <3>1, <3>3 DEF Clear
  <2> QED  BY <1>3, <1>5, <1>10, <2>1 DEF MayGo
<1> QED  BY <1>3, <1>5, <1>6, <1>10, <1>11, <1>12, <1>13 DEF Sound

\* One file written is one node of the tree
LEMMA DiskWritten ==
  ASSUME NEW p, MInv(p), NEW n \in Node, NEW content \in File,
         file' = [file EXCEPT ![n] = content]
  PROVE  /\ file' \in [Node -> File \cup {Absent}]
         /\ OnDisk' = [OnDisk EXCEPT ![n] = content.place]
<1>1. file \in [Node -> File \cup {Absent}]
  BY DEF MInv
<1>2. file' \in [Node -> File \cup {Absent}] /\ content # Absent
  BY <1>1, TreeMovesAssumption
<1>3. \A m \in Node : file'[m] = IF m = n THEN content ELSE file[m]
  BY <1>1
<1>4. \A m \in Node : OnDisk'[m] = IF m = n THEN content.place ELSE OnDisk[m]
  BY <1>2, <1>3 DEF OnDisk
<1>5. OnDisk' = [m \in Node |-> OnDisk'[m]] /\ OnDisk = [m \in Node |-> OnDisk[m]]
  BY DEF OnDisk
<1> QED  BY <1>2, <1>4, <1>5

LEMMA CreateMoves ==
  ASSUME IInv, NEW p, MInv(p), OneMover, NEW w \in Worker, NEW n \in Node,
         NEW to \in Container \cup {Top}, Create(w, n, to)
  PROVE  /\ MInv(p)'
         /\ OnDisk[n] = Absent
         /\ OnDisk' = [OnDisk EXCEPT ![n] = [parent |-> Top, rank |-> NoRank]]
<1> DEFINE e == [kind |-> "save", node |-> n, prose |-> NewProse]
           r == Request(n, to, Cardinality(Node), "tell", <<e>>)
           content == [place |-> [parent |-> Top, rank |-> NoRank], prose |-> NewProse]
<1>1. /\ w \in Mover /\ ~Busy(w) /\ work' = [work EXCEPT ![w] = r]
      /\ file' = [file EXCEPT ![n] = content] /\ shown' = shown
      /\ file[n] = Absent /\ (to # Top => shown[to] # Absent)
  BY DEF Create, Serves
<1>2. work = [v \in Worker |-> work[v]]
  BY DEF IInv, Shapes
<1>3. shown = OnDisk
  BY <1>1, IndexIsDisk DEF Busy, Doing
<1>4. content \in File /\ content.place = [parent |-> Top, rank |-> NoRank]
  BY TreeMovesAssumption DEF File, Place, Rank
<1>5. r.mover = n /\ r.to = to /\ r.at = Cardinality(Node) /\ r.step = "tell" /\ r.read = NoFile
      /\ r.todo = <<e>> /\ e.kind = "save" /\ e.node = n
  BY DEF Request
<1> HIDE DEF content, r, e
<1>6. /\ file' \in [Node -> File \cup {Absent}]
      /\ OnDisk' = [OnDisk EXCEPT ![n] = [parent |-> Top, rank |-> NoRank]]
  BY <1>1, <1>4, DiskWritten
<1>7. OnDisk[n] = Absent
  BY <1>1 DEF OnDisk
<1>8. PICK new : new = [OnDisk EXCEPT ![n] = [parent |-> Top, rank |-> NoRank]]
  OBVIOUS
<1>9. to \in (Container \cap NodesOf(OnDisk)) \cup {Top}
  BY <1>1, <1>3, PlacementAssumption DEF NodesOf
<1>10. /\ Sound(new) /\ NodesOf(new) = NodesOf(OnDisk) \cup {n} /\ n \notin NodesOf(OnDisk)
       /\ \A m \in NodesOf(OnDisk) : new[m] = OnDisk[m]
       /\ MayGo(new, n, to)
  <2>1. Sound(OnDisk)
    BY DEF MInv
  <2>2. PICK place : place = [parent |-> Top, rank |-> NoRank]
    OBVIOUS
  <2>3. place \in Place /\ place.parent = Top
    BY <2>2 DEF Place, Rank
  <2>4. new = [OnDisk EXCEPT ![n] = place]
    BY <1>8, <2>2
  <2> HIDE <1>8
  <2>5. Sound(new) /\ NodesOf(new) = NodesOf(OnDisk) \cup {n} /\ n \notin NodesOf(OnDisk)
    BY <1>7, <2>1, <2>3, <2>4, CreatedStands
  <2>6. \A m \in NodesOf(OnDisk) : new[m] = OnDisk[m]
    BY <1>7, <2>1, <2>3, <2>4, CreatedStands
  <2>7. MayGo(new, n, to)
    BY <1>7, <1>9, <2>1, <2>3, <2>4, CreatedStands
  <2> QED  BY <2>5, <2>6, <2>7
<1>11. new = OnDisk'
  BY <1>6, <1>8
<1>12. \A m \in Node : m # n => new[m] = OnDisk[m]
  BY <1>8 DEF OnDisk
<1>13. Cardinality(Node) \in Nat
  BY PlacementAssumption, FS_CardinalityType
<1>14. Does(new, w, r, p)
  <2>1. Waits(new, r)
    BY <1>5, <1>10, <1>13 DEF Waits
  <2> QED  BY <1>1, <2>1 DEF Does, Moves
<1>15. \A v \in Worker : Busy(v)' => Does(OnDisk', v, work'[v], p)
  BY <1>1, <1>2, <1>10, <1>11, <1>14, OthersDo
<1>16. Synced'
  <2>1. Telling(n)'
    <3>1. work'[w] = r
      BY <1>1, <1>2
    <3>2. NoWork \notin Work
      BY TreeMovesAssumption
    <3>3. r # NoWork
      <4>1. r \in Work
        BY <1>4, <1>5, <1>13 DEF r, Request, Work, e, Edit, content, File
      <4> QED  BY <3>2, <4>1
    <3>4. Doing(w, "tell")' /\ work'[w].mover # Top
      BY <1>5, <3>1, <3>3, PlacementAssumption DEF Doing
    <3>5. Current(w)'.node = n
      BY <1>5, <3>1 DEF Current
    <3> QED  BY <3>4, <3>5 DEF Telling
  <2>2. \A m \in Node : m # n => shown'[m] = OnDisk'[m]
    BY <1>1, <1>3, <1>11, <1>12
  <2>3. shown' = [m \in Node |-> shown'[m]]
    BY <1>1 DEF MInv, Synced
  <2> QED  BY <2>1, <2>2, <2>3 DEF Synced
<1>17. Sound(OnDisk')
  BY <1>10, <1>11
<1>18. MInv(p)'
  BY <1>6, <1>15, <1>16, <1>17 DEF MInv, Sound
<1> QED  BY <1>6, <1>7, <1>18

\* A list of members of a set
LEMMA ListInside ==
  ASSUME NEW s, IsList(s), NEW S, \A i \in DOMAIN s : s[i] \in S
  PROVE  s \in Seq(S)
<1>1. Len(s) \in Nat /\ DOMAIN s = 1..Len(s) /\ s = [i \in 1..Len(s) |-> s[i]]
  BY ListIsFunction DEF IsList
<1>2. s \in [1..Len(s) -> S]
  BY <1>1
<1> QED  BY <1>1, <1>2

\* Carrying out a plan keeps the tree sound
LEMMA PlannedStands ==
  ASSUME NEW T, NEW n, NEW to, MayGo(T, n, to), Rooted(T), NEW at \in Nat,
         NEW edits, edits = EditsOf(T, n, to, at), NEW j \in 0..Len(edits)
  PROVE  Sound(After(T, edits, j)) /\ NodesOf(After(T, edits, j)) = NodesOf(T)
<1> DEFINE new == After(T, edits, j)
<1>1. Placing(T, n, to, edits)
  BY PlanPlaces
<1>2. \A m \in NodesOf(T) : new[m].parent \in {T[m].parent, to}
  BY <1>1, AfterIs DEF MayGo
<1>3. MayGo(new, n, to) /\ NodesOf(new) = NodesOf(T)
  BY GroupStays
<1> HIDE DEF new
<1>4. Rooted(new)
  BY <1>2, <1>3 DEF Rooted, MayGo
<1> QED  BY <1>3, <1>4 DEF Sound, MayGo, new

\* How far a request has come is a matter of its edits, and of whether it is telling
LEMMA MidwayStays ==
  ASSUME NEW disk, NEW r, NEW s, NEW T, NEW k, NEW p, Midway(disk, r, T, k, p),
         s.mover = r.mover, s.to = r.to, s.at = r.at, s.todo = r.todo,
         r.step # "tell", s.step # "tell", s.step # "plan"
  PROVE  Midway(disk, s, T, k, p)
BY DEF Midway

\* The k-th edit written: what is left is told of, ...
LEMMA MidwayWrites ==
  ASSUME NEW disk, NEW r, NEW s, NEW T, NEW k, NEW p, Midway(disk, r, T, k, p),
         s.mover = r.mover, s.to = r.to, s.at = r.at, s.todo = r.todo, s.step = "tell",
         NEW new, new = After(T, EditsOf(T, r.mover, r.to, r.at), k)
  PROVE  Midway(new, s, T, k, p)
BY DEF Midway

\* ... and then begins with the next
LEMMA MidwayGoesOn ==
  ASSUME IInv, NEW w \in Worker, Busy(w),
         NEW disk, NEW T, NEW k, NEW p, Midway(disk, work[w], T, k, p), Onward(w) # NoWork,
         NEW new, new = After(T, EditsOf(T, work[w].mover, work[w].to, work[w].at), k)
  PROVE  Midway(new, Onward(w), T, k + 1, p)
<1> DEFINE s == work[w].todo
           rest == Tail(s)
           edits == EditsOf(T, work[w].mover, work[w].to, work[w].at)
           r == Onward(w)
<1>1. /\ MayGo(T, work[w].mover, work[w].to) /\ Rooted(T) /\ work[w].at \in Nat
      /\ p => OneUnranked(T, work[w].mover)
      /\ Len(s) = Len(edits) - k + 1 /\ k \in 1..Len(edits)
      /\ \A i \in 1..Len(s) : s[i] = edits[k + i - 1]
      /\ work[w].step # "plan"
  BY DEF Midway
<1>2. edits[k].kind = "place" /\ Len(edits) \in Nat /\ k \in Nat
  BY MidwayIs
<1>3. WellFormed(work[w]) /\ IsList(s) /\ 1 \in 1..Len(s) /\ Current(w) = s[1] /\ Len(s) \in Nat
  BY <1>1, CurrentIs
<1>4. Current(w).kind = "place"
  <2>1. s[1] = edits[k + 1 - 1] /\ k + 1 - 1 = k
    BY <1>1, <1>2, <1>3
  <2> QED  BY <1>2, <1>3, <2>1
<1>5. rest # <<>>
  BY <1>4 DEF Onward
<1>6. r = [work[w] EXCEPT !.step = "take", !.todo = rest, !.read = NoFile]
  BY <1>5 DEF Onward
<1>7. /\ r.mover = work[w].mover /\ r.to = work[w].to /\ r.at = work[w].at
      /\ r.todo = rest /\ r.step = "take"
  BY <1>3, <1>6 DEF WellFormed, IsWork
<1>8. s # <<>>
  BY <1>3
<1>9. /\ IsList(rest) /\ Len(rest) = Len(s) - 1 /\ Len(rest) \in Nat
      /\ \A i \in 1..Len(rest) : rest[i] = s[i + 1]
      /\ 1 \in 1..Len(rest)
  BY <1>3, <1>5, <1>8, TailIsList, ListIsFunction
<1> HIDE DEF rest, s, edits, r
<1>10. Len(rest) = Len(edits) - (k + 1) + 1 /\ k + 1 \in 1..Len(edits) /\ k + 1 - 1 = k
  BY <1>1, <1>2, <1>3, <1>9
<1>11. ASSUME NEW i \in 1..Len(rest) PROVE rest[i] = edits[(k + 1) + i - 1]
  <2>1. i + 1 \in 1..Len(s) /\ k + (i + 1) - 1 = (k + 1) + i - 1
    BY <1>2, <1>3, <1>9
  <2>2. s[i + 1] = edits[k + (i + 1) - 1]
    BY <1>1, <2>1
  <2> QED  BY <1>9, <2>1, <2>2
<1>12. new = After(T, edits, (k + 1) - 1)
  <2>1. PICK j : j = (k + 1) - 1
    OBVIOUS
  <2>2. new = After(T, edits, k) /\ j = k
    BY <1>2, <2>1 DEF edits
  <2>3. new = After(T, edits, j)
    BY <2>2
  <2> QED  BY <2>1, <2>3
<1>13. edits = EditsOf(T, r.mover, r.to, r.at)
  BY <1>7 DEF edits
<1>14. Midway(new, r, T, k + 1, p)
  BY <1>1, <1>7, <1>10, <1>11, <1>12, <1>13 DEF Midway
<1> QED  BY <1>14 DEF r

\* What is planned are edits
LEMMA EditsAreEdits ==
  ASSUME NEW tree, NEW n, NEW to, MayGo(tree, n, to), NEW at \in Nat
  PROVE  EditsOf(tree, n, to, at) \in Seq(Edit)
<1> DEFINE edits == EditsOf(tree, n, to, at)
           writes == PlanPlacement(RankOf(tree), Siblings(tree, to), n, at)
<1>1. Placing(tree, n, to, edits)
  BY PlanPlaces
<1>2. IsList(edits) /\ DOMAIN edits = 1..Len(edits)
  BY <1>1, ListIsFunction DEF Placing
<1>3. tree \in Tree /\ n \in NodesOf(tree) /\ to \in Node \cup {Top, Stranger}
  BY DEF MayGo, NodesOf
<1>4. \/ edits = <<PlacedIn(tree, n, to, n, tree[n].rank)>>
      \/ edits = [h \in DOMAIN writes |-> PlacedIn(tree, n, to, writes[h].node, writes[h].rank)]
  BY DEF EditsOf
<1> HIDE DEF edits, writes
<1>5. ASSUME NEW i \in DOMAIN edits PROVE edits[i] \in Edit
  <2>1. IsPlacing(tree, n, to, edits[i])
    BY <1>1, <1>2, <1>5 DEF Placing
  <2>2. PICK m, x : edits[i] = PlacedIn(tree, n, to, m, x)
    <3>1. CASE edits = <<PlacedIn(tree, n, to, n, tree[n].rank)>>
      <4>1. i = 1 /\ edits[1] = PlacedIn(tree, n, to, n, tree[n].rank)
        BY <1>2, <3>1, ShortLists
      <4> QED  BY <4>1
    <3>2. CASE edits = [h \in DOMAIN writes |->
                          PlacedIn(tree, n, to, writes[h].node, writes[h].rank)]
      BY <3>2
    <3> QED  BY <1>4, <3>1, <3>2
  <2>3. edits[i] = [kind |-> edits[i].kind, node |-> edits[i].node, place |-> edits[i].place]
    BY <2>2 DEF PlacedIn
  <2>4. edits[i].node \in NodesOf(tree) /\ edits[i].kind = "place" /\ edits[i].place.rank \in Rank
    BY <2>1 DEF IsPlacing, Rank
  <2>5. tree[edits[i].node].parent \in Node \cup {Top, Stranger} /\ edits[i].node \in Node
    BY <1>3, <2>4 DEF Tree, NodesOf, Place
  <2>6. PICK up \in Node \cup {Top, Stranger} :
          edits[i].place = [parent |-> up, rank |-> edits[i].place.rank]
    BY <1>3, <2>1, <2>5 DEF IsPlacing
  <2>7. edits[i].place \in Place
    BY <2>4, <2>6 DEF Place
  <2> QED  BY <2>3, <2>4, <2>5, <2>7 DEF Edit
<1>6. edits \in Seq(Edit)
  BY <1>2, <1>5, ListInside
<1> QED  BY <1>6 DEF edits

\* ... so the request that tells of one is a request
LEMMA TellIsWork ==
  ASSUME IInv, NEW w \in Worker, Busy(w),
         NEW disk, NEW T, NEW k, NEW p, Midway(disk, work[w], T, k, p),
         NEW s, s = [mover |-> work[w].mover, to |-> work[w].to, at |-> work[w].at,
                     step |-> "tell", todo |-> work[w].todo, read |-> NoFile]
  PROVE  s \in Work
<1> DEFINE todo == work[w].todo
           edits == EditsOf(T, work[w].mover, work[w].to, work[w].at)
<1>1. /\ MayGo(T, work[w].mover, work[w].to) /\ work[w].at \in Nat
      /\ Len(todo) = Len(edits) - k + 1 /\ k \in 1..Len(edits)
      /\ \A i \in 1..Len(todo) : todo[i] = edits[k + i - 1]
      /\ work[w].step # "plan"
  BY DEF Midway
<1>2. IsList(todo) /\ DOMAIN todo = 1..Len(todo)
  <2>1. IsList(todo)
    BY <1>1, CurrentIs
  <2> QED  BY <2>1, ListIsFunction
<1>3. edits \in Seq(Edit)
  BY <1>1, EditsAreEdits
<1> HIDE DEF todo, edits
<1>4. Len(edits) \in Nat /\ \A i \in 1..Len(edits) : edits[i] \in Edit
  BY <1>3
<1>5. ASSUME NEW i \in DOMAIN todo PROVE todo[i] \in Edit
  <2>1. k + i - 1 \in 1..Len(edits) /\ todo[i] = edits[k + i - 1]
    BY <1>1, <1>2, <1>4, <1>5
  <2> QED  BY <1>4, <2>1
<1>6. todo \in Seq(Edit)
  BY <1>2, <1>5, ListInside
<1>7. work[w].mover \in Node \cup {Top} /\ work[w].to \in Container \cup {Top}
  BY <1>1 DEF MayGo, NodesOf
<1> QED  BY <1>1, <1>6, <1>7 DEF Work, todo

\* A plan is a plan of the tree on disk
LEMMA PlanBegins ==
  ASSUME IInv, NEW p, MInv(p), OneMover, NEW w \in Worker, Plan(w),
         p => OneUnranked(OnDisk, work[w].mover)
  PROVE  LET edits == EditsOf(OnDisk, work[w].mover, work[w].to, work[w].at)
         IN /\ MInv(p)' /\ OnDisk' = OnDisk
            /\ Waits(OnDisk, work[w])
            /\ work'[w] = NoWork => edits = <<>>
<1> DEFINE n == work[w].mover
           edits == EditsOf(OnDisk, n, work[w].to, work[w].at)
           r == [work[w] EXCEPT !.step = "take", !.todo = edits]
<1>1. Doing(w, "plan") /\ Busy(w) /\ work[w].step = "plan" /\ WellFormed(work[w])
  BY DEF Plan, Doing, Busy, IInv, Requests
<1>2. w \in Mover /\ Waits(OnDisk, work[w])
  BY <1>1 DEF MInv, Does, Asks, Moves, Midway
<1>3. shown = OnDisk
  BY <1>1, <1>2, IndexIsDisk DEF Doing
<1>4. PlacementEdits(n, work[w].to, work[w].at) = edits
  BY <1>3 DEF PlacementEdits, EditsOf, PlacedIn
<1>5. /\ file' = file /\ shown' = shown
      /\ work' = [work EXCEPT ![w] = IF edits = <<>> THEN NoWork ELSE r]
      /\ work = [v \in Worker |-> work[v]]
  <2>1. work = [v \in Worker |-> work[v]]
    BY DEF IInv, Shapes
  <2> QED  BY <1>4, <2>1 DEF Plan, Leave
<1>6. OnDisk' = OnDisk
  BY <1>5, SameDisk
<1>7. MayGo(OnDisk, n, work[w].to) /\ work[w].at \in Nat /\ work[w].read = NoFile
      /\ Rooted(OnDisk)
  BY <1>2 DEF Waits, MInv, Sound
<1>8. Placing(OnDisk, n, work[w].to, edits)
  BY <1>7, PlanPlaces
<1>9. IsList(edits) /\ Len(edits) \in Nat
  BY <1>8, ListIsFunction DEF Placing
<1>10. /\ r.mover = n /\ r.to = work[w].to /\ r.at = work[w].at /\ r.step = "take"
       /\ r.todo = edits /\ r.read = NoFile
       /\ r = [mover |-> n, to |-> work[w].to, at |-> work[w].at, step |-> "take",
               todo |-> edits, read |-> NoFile]
  <2>1. PICK q, e, s : q = work[w] /\ e = edits /\ s = r
    OBVIOUS
  <2>2. IsWork(q) /\ s = [q EXCEPT !.step = "take", !.todo = e] /\ q.read = NoFile
    BY <1>1, <1>7, <2>1 DEF WellFormed
  <2>3. /\ s.mover = q.mover /\ s.to = q.to /\ s.at = q.at /\ s.step = "take"
        /\ s.todo = e /\ s.read = NoFile
        /\ s = [mover |-> q.mover, to |-> q.to, at |-> q.at, step |-> "take",
                todo |-> e, read |-> NoFile]
    BY <2>2 DEF IsWork
  <2> QED  BY <2>1, <2>3
<1>11. ASSUME edits # <<>> PROVE Midway(OnDisk, r, OnDisk, 1, p)
  <2>1. 1 \in 1..Len(edits)
    BY <1>9, <1>11, TailIsList
  <2>2. OnDisk = After(OnDisk, edits, 1 - 1)
    <3>1. OnDisk \in Tree /\ 1 - 1 = 0
      BY <1>7 DEF MayGo
    <3> QED  BY <3>1, AfterNone
  <2>3. edits = EditsOf(OnDisk, r.mover, r.to, r.at)
    BY <1>10
  <2> HIDE DEF edits, r
  <2>4. Len(r.todo) = Len(edits) - 1 + 1 /\ \A i \in 1..Len(r.todo) : r.todo[i] = edits[1 + i - 1]
    <3>1. \A i \in 1..Len(edits) : 1 + i - 1 = i
      BY <1>9
    <3> QED  BY <1>9, <1>10, <3>1
  <2> QED  BY <1>7, <1>10, <2>1, <2>2, <2>3, <2>4 DEF Midway
<1>12. ASSUME edits # <<>> PROVE r # NoWork
  <2>1. edits \in Seq(Edit)
    BY <1>7, EditsAreEdits
  <2>2. r \in Work
    <3>1. n \in Node \cup {Top} /\ work[w].to \in Container \cup {Top}
      BY <1>7 DEF MayGo, NodesOf
    <3> HIDE DEF r, edits, n
    <3> QED  BY <1>7, <1>10, <2>1, <3>1 DEF Work
  <2> QED  BY <2>2, TreeMovesAssumption
<1>13. work'[w] = NoWork => edits = <<>>
  BY <1>5, <1>12
<1>14. MInv(p)'
  <2> DEFINE q == IF edits = <<>> THEN NoWork ELSE r
  <2>1. q # NoWork => Does(OnDisk, w, q, p)
    BY <1>2, <1>11 DEF Does, Moves
  <2>2. work' = [work EXCEPT ![w] = q]
    BY <1>5
  <2> HIDE DEF q
  <2> QED  BY <1>1, <1>5, <2>1, <2>2, SameDisk, QuietKeeps DEF Doing
<1> QED  BY <1>2, <1>6, <1>13, <1>14

\* Who takes or puts is at an edit of a save, of a rename, or of a plan
LEMMA WorkerIs ==
  ASSUME NEW p, MInv(p), NEW w \in Worker, Doing(w, "take") \/ Doing(w, "put")
  PROVE  /\ Busy(w) /\ work[w].step \in {"take", "put"}
         /\ \/ Asks(OnDisk, work[w])
            \/ w \in Mover /\ \E T, k : Midway(OnDisk, work[w], T, k, p)
BY DEF MInv, Does, Moves, Waits, Doing, Busy

LEMMA TakeMoves ==
  ASSUME IInv, NEW p, MInv(p), OneMover, NEW w \in Worker, Take(w)
  PROVE  MInv(p)' /\ OnDisk' = OnDisk
<1> DEFINE r == [work[w] EXCEPT !.step = "put", !.read = file[Current(w).node]]
<1>1. Doing(w, "take") /\ Busy(w) /\ work[w].step = "take" /\ IsWork(work[w])
  BY DEF Take, Doing, Busy, IInv, Requests, WellFormed
<1>2. file' = file /\ shown' = shown /\ work' = [work EXCEPT ![w] = r]
  BY DEF Take
<1>3. work = [v \in Worker |-> work[v]]
  BY DEF IInv, Shapes
<1>4. /\ r.mover = work[w].mover /\ r.to = work[w].to /\ r.at = work[w].at
      /\ r.todo = work[w].todo /\ r.step = "put"
  <2>1. PICK q, s, x : q = work[w] /\ s = r /\ x = file[Current(w).node]
    OBVIOUS
  <2>2. IsWork(q) /\ s = [q EXCEPT !.step = "put", !.read = x]
    BY <1>1, <2>1
  <2>3. s.mover = q.mover /\ s.to = q.to /\ s.at = q.at /\ s.todo = q.todo /\ s.step = "put"
    BY <2>2 DEF IsWork
  <2> QED  BY <2>1, <2>3
<1> HIDE DEF r
<1>5. Does(OnDisk, w, r, p)
  <2>1. CASE Asks(OnDisk, work[w])
    <3>1. Asks(OnDisk, r)
      BY <1>4, <2>1 DEF Asks
    <3> QED  BY <3>1 DEF Does
  <2>2. CASE w \in Mover /\ \E T, k : Midway(OnDisk, work[w], T, k, p)
    <3>1. PICK T, k : Midway(OnDisk, work[w], T, k, p)
      BY <2>2
    <3>2. Midway(OnDisk, r, T, k, p)
      BY <1>1, <1>4, <3>1, MidwayStays
    <3> QED  BY <2>2, <3>2 DEF Does, Moves
  <2> QED  BY <1>1, <2>1, <2>2, WorkerIs
<1>6. OnDisk' = OnDisk /\ file' \in [Node -> File \cup {Absent}]
  BY <1>2, SameDisk
<1> QED  BY <1>1, <1>2, <1>3, <1>5, <1>6, QuietKeeps DEF Doing

LEMMA FailMoves ==
  ASSUME IInv, NEW p, MInv(p), OneMover, NEW w \in Worker, Fail(w)
  PROVE  MInv(p)' /\ OnDisk' = OnDisk
<1>1. file' = file /\ shown' = shown /\ work' = [work EXCEPT ![w] = NoWork] /\ ~Doing(w, "tell")
  BY DEF Fail, Leave, Doing
<1>2. work = [v \in Worker |-> work[v]]
  BY DEF IInv, Shapes
<1>3. OnDisk' = OnDisk /\ file' \in [Node -> File \cup {Absent}]
  BY <1>1, SameDisk
<1> QED  BY <1>1, <1>2, <1>3, QuietKeeps

LEMMA CrashMoves ==
  ASSUME NEW p, MInv(p), Crash
  PROVE  MInv(p)' /\ OnDisk' = OnDisk
<1>1. file' = file /\ shown' = OnDisk /\ work' = [w \in Worker |-> NoWork]
  BY DEF Crash
<1>2. OnDisk' = OnDisk /\ file' \in [Node -> File \cup {Absent}]
  BY <1>1, SameDisk
<1>3. \A w \in Worker : ~Busy(w)'
  BY <1>1 DEF Busy
<1>4. Sound(OnDisk')
  BY <1>2 DEF MInv
<1>5. Synced'
  <2>1. OnDisk = [n \in Node |-> OnDisk[n]]
    BY DEF OnDisk
  <2> QED  BY <1>1, <1>2, <2>1 DEF Synced
<1> QED  BY <1>2, <1>3, <1>4, <1>5 DEF MInv, Sound

\* A write of a save or a rename leaves the tree; one of a plan is its next edit
LEMMA PutWrites ==
  ASSUME IInv, NEW p, MInv(p), NEW w \in Worker, Put(w)
  PROVE  /\ file' \in [Node -> File \cup {Absent}]
         /\ \/ Asks(OnDisk, work[w]) /\ OnDisk' = OnDisk /\ Current(w).kind # "place"
            \/ /\ w \in Mover /\ Current(w).kind = "place"
               /\ \E T, k : /\ Midway(OnDisk, work[w], T, k, p)
                            /\ OnDisk' = After(T, EditsOf(T, work[w].mover, work[w].to, work[w].at), k)
                            /\ \A m \in Node : m # Current(w).node => OnDisk'[m] = OnDisk[m]
<1> DEFINE n == Current(w).node
           edit == Current(w)
           new == Edited(work[w].read, edit)
           skip == edit.kind = "place" /\ new = work[w].read
<1>1. Doing(w, "put") /\ Busy(w) /\ work[w].step = "put" /\ Fresh(w)
  BY DEF Put, Doing, Busy, IInv, Reads
<1>2. file' = IF skip THEN file ELSE [file EXCEPT ![n] = new]
  BY DEF Put
<1>3. n \in Node /\ file[n] # Absent /\ work[w].read = file[n]
  BY <1>1 DEF Fresh
<1>4. file \in [Node -> File \cup {Absent}]
  BY DEF MInv
<1>5. file[n] \in File
  BY <1>3, <1>4
<1>6. n \in NodesOf(OnDisk) /\ file[n].place \in Place /\ file[n].prose \in Prose
      /\ OnDisk[n] = file[n].place /\ OnDisk \in Tree
  BY <1>3, <1>4, DiskIs DEF OnDisk
<1>7. Current(w) = work[w].todo[1] /\ 1 \in 1..Len(work[w].todo)
  BY <1>1, CurrentIs
<1>8. CASE Asks(OnDisk, work[w])
  <2>1. PICK e : /\ work[w].todo = <<e>> /\ e.kind \in {"save", "rename"}
                 /\ e.kind = "save" => e.prose \in Prose
    BY <1>8 DEF Asks
  <2>2. edit = e
    BY <1>7, <2>1, ShortLists
  <2>3. new \in File /\ new.place = file[n].place
    <3>1. CASE e.kind = "save"
      <4>1. new = [file[n] EXCEPT !.prose = edit.prose] /\ edit.prose \in Prose
        BY <1>3, <2>1, <2>2, <3>1 DEF Edited
      <4> QED  BY <1>5, <4>1 DEF File
    <3>2. CASE e.kind = "rename"
      <4>1. new = file[n]
        BY <1>3, <2>2, <3>2 DEF Edited
      <4> HIDE DEF new
      <4> QED  BY <1>5, <4>1
    <3> QED  BY <2>1, <3>1, <3>2
  <2>4. file' = [file EXCEPT ![n] = new] /\ edit.kind # "place"
    BY <1>2, <2>1, <2>2
  <2> HIDE DEF new, n, edit
  <2>5. file' \in [Node -> File \cup {Absent}] /\ OnDisk' = [OnDisk EXCEPT ![n] = new.place]
    BY <1>3, <2>3, <2>4, DiskWritten
  <2>6. [OnDisk EXCEPT ![n] = new.place] = OnDisk
    BY <1>6, <2>3 DEF OnDisk
  <2> QED  BY <1>8, <2>4, <2>5, <2>6 DEF edit
<1>9. CASE w \in Mover /\ \E T, k : Midway(OnDisk, work[w], T, k, p)
  <2>1. PICK T, k : Midway(OnDisk, work[w], T, k, p)
    BY <1>9
  <2> DEFINE edits == EditsOf(T, work[w].mover, work[w].to, work[w].at)
  <2>2. /\ MayGo(T, work[w].mover, work[w].to) /\ Rooted(T) /\ work[w].at \in Nat
        /\ k \in 1..Len(edits) /\ OnDisk = After(T, edits, k - 1)
        /\ work[w].todo[1] = edits[k + 1 - 1]
    BY <1>1, <1>7, <2>1 DEF Midway
  <2>3. Len(edits) \in Nat /\ k \in Nat /\ edits[k].node \in Node /\ edits[k].kind = "place"
    BY <2>1, MidwayIs
  <2>4. edit = edits[k]
    BY <1>7, <2>2, <2>3
  <2>5. After(T, edits, k) = [OnDisk EXCEPT ![n] = edit.place]
    <3>1. PICK j \in Nat : j = k - 1 /\ j + 1 = k
      BY <2>2, <2>3
    <3> HIDE DEF edits, edit, n
    <3>2. After(T, edits, j + 1) = [After(T, edits, j) EXCEPT ![edits[j + 1].node] = edits[j + 1].place]
      <4>1. edits[j + 1].node \in Node
        BY <2>3, <3>1
      <4> QED  BY <4>1, AfterNext
    <3>3. edits[j + 1] = edit /\ n = edit.node /\ After(T, edits, j) = OnDisk
          /\ After(T, edits, j + 1) = After(T, edits, k)
      BY <2>2, <2>4, <3>1 DEF n, edit
    <3> QED  BY <3>2, <3>3
  <2>6. edit.place \in Place
    <3>1. k \in 0..Len(edits)
      BY <2>2, <2>3
    <3>2. Sound(After(T, edits, k)) /\ NodesOf(After(T, edits, k)) = NodesOf(T)
      BY <2>2, <3>1, PlannedStands
    <3>3. NodesOf(OnDisk) = NodesOf(T)
      BY <2>1, MidwayIs
    <3> HIDE DEF edits, n, edit
    <3>4. After(T, edits, k)[n] = edit.place
      BY <1>3, <2>5 DEF OnDisk
    <3>5. After(T, edits, k)[n] \in Place
      <4>1. n \in NodesOf(OnDisk)
        BY <1>6
      <4>2. n \in NodesOf(After(T, edits, k))
        BY <3>2, <3>3, <4>1
      <4>3. After(T, edits, k) \in Tree
        BY <3>2, ZenonT(60) DEF Sound
      <4> QED  BY <4>2, <4>3 DEF NodesOf, Tree
    <3> QED  BY <3>4, <3>5
  <2>7. new = [file[n] EXCEPT !.place = edit.place]
    BY <1>3, <2>3, <2>4 DEF Edited
  <2>8. new \in File /\ new.place = edit.place
    BY <1>5, <2>6, <2>7 DEF File
  <2>9. file' \in [Node -> File \cup {Absent}] /\ OnDisk' = [OnDisk EXCEPT ![n] = edit.place]
    <3> HIDE DEF edits, edit, n, new
    <3>1. CASE skip
      <4>1. file' = file
        BY <1>2, <3>1
      <4>2. OnDisk[n] = edit.place
        BY <1>3, <1>6, <2>8, <3>1
      <4>3. [OnDisk EXCEPT ![n] = edit.place] = OnDisk
        BY <4>2 DEF OnDisk
      <4> QED  BY <4>1, <4>3, SameDisk
    <3>2. CASE ~skip
      <4>1. file' = [file EXCEPT ![n] = new]
        BY <1>2, <3>2
      <4> QED  BY <1>3, <2>8, <4>1, DiskWritten
    <3> QED  BY <3>1, <3>2
  <2>10. \A m \in Node : m # n => OnDisk'[m] = OnDisk[m]
    BY <2>9 DEF OnDisk
  <2>11. edit.kind = "place"
    BY <2>3, <2>4
  <2> QED  BY <1>9, <2>1, <2>5, <2>9, <2>10, <2>11
<1> QED  BY <1>1, <1>8, <1>9, WorkerIs

\* The rest of a single edit
LEMMA SingleTail ==
  ASSUME NEW e, NEW s, s = <<e>>
  PROVE  Tail(s) = <<>>
OBVIOUS

\* What a request does next, once the edit it is at is done
LEMMA OnwardDoes ==
  ASSUME IInv, NEW w \in Worker, Busy(w), NEW p, NEW disk, NEW new,
         \/ Asks(disk, work[w]) /\ new = disk
         \/ w \in Mover /\ Waits(disk, work[w]) /\ new = disk /\ work[w].step = "tell"
         \/ w \in Mover /\ \E T, k : /\ Midway(disk, work[w], T, k, p)
                                     /\ new = After(T, EditsOf(T, work[w].mover, work[w].to, work[w].at), k),
         Onward(w) # NoWork
  PROVE  Does(new, w, Onward(w), p)
<1> DEFINE rest == Tail(work[w].todo)
<1>1. CASE Asks(disk, work[w])
  <2>1. PICK e : work[w].todo = <<e>> /\ work[w].mover = Top
    BY <1>1 DEF Asks
  <2>2. rest = <<>>
    BY <2>1, SingleTail
  <2> QED  BY <2>1, <2>2 DEF Onward
<1>2. CASE w \in Mover /\ Waits(disk, work[w]) /\ new = disk /\ work[w].step = "tell"
  <2>1. PICK e : work[w].todo = <<e>> /\ e.kind = "save"
    BY <1>2 DEF Waits
  <2>2. rest = <<>>
    BY <2>1, SingleTail
  <2>3. Onward(w) = [work[w] EXCEPT !.step = "plan", !.todo = <<>>, !.read = NoFile]
    BY <2>2 DEF Onward
  <2>4. PICK q, s : q = work[w] /\ s = Onward(w)
    OBVIOUS
  <2>5. IsWork(q) /\ s = [q EXCEPT !.step = "plan", !.todo = <<>>, !.read = NoFile]
    BY <2>3, <2>4 DEF IInv, Requests, WellFormed
  <2>6. s.mover = q.mover /\ s.to = q.to /\ s.at = q.at /\ s.step = "plan" /\ s.read = NoFile
    BY <2>5 DEF IsWork
  <2>7. Waits(disk, s)
    BY <1>2, <2>4, <2>6 DEF Waits
  <2> QED  BY <1>2, <2>4, <2>7 DEF Does, Moves
<1>3. CASE w \in Mover /\ \E T, k :
             /\ Midway(disk, work[w], T, k, p)
             /\ new = After(T, EditsOf(T, work[w].mover, work[w].to, work[w].at), k)
  <2>1. PICK T, k : /\ Midway(disk, work[w], T, k, p)
                    /\ new = After(T, EditsOf(T, work[w].mover, work[w].to, work[w].at), k)
    BY <1>3
  <2>2. Midway(new, Onward(w), T, k + 1, p)
    BY <2>1, MidwayGoesOn
  <2> QED  BY <1>3, <2>2 DEF Does, Moves
<1> QED  BY <1>1, <1>2, <1>3

LEMMA PutMoves ==
  ASSUME IInv, NEW p, MInv(p), OneMover, NEW w \in Worker, Put(w)
  PROVE  MInv(p)'
<1> DEFINE edit == Current(w)
           skip == edit.kind = "place" /\ Edited(work[w].read, edit) = work[w].read
           tell == [work[w] EXCEPT !.step = "tell", !.read = NoFile]
           r == IF skip THEN Onward(w) ELSE tell
<1>1. Doing(w, "put") /\ Busy(w) /\ work[w].step = "put" /\ IsWork(work[w])
  BY DEF Put, Doing, Busy, IInv, Requests, WellFormed
<1>2. /\ work' = [work EXCEPT ![w] = r] /\ shown' = shown
      /\ skip => file' = file
  BY DEF Put
<1>3. work = [v \in Worker |-> work[v]]
  BY DEF IInv, Shapes
<1>4. /\ tell.mover = work[w].mover /\ tell.to = work[w].to /\ tell.at = work[w].at
      /\ tell.todo = work[w].todo /\ tell.step = "tell"
      /\ tell = [mover |-> work[w].mover, to |-> work[w].to, at |-> work[w].at,
                 step |-> "tell", todo |-> work[w].todo, read |-> NoFile]
  <2>1. PICK q, s : q = work[w] /\ s = tell
    OBVIOUS
  <2>2. IsWork(q) /\ s = [q EXCEPT !.step = "tell", !.read = NoFile]
    BY <1>1, <2>1
  <2>3. /\ s.mover = q.mover /\ s.to = q.to /\ s.at = q.at /\ s.todo = q.todo /\ s.step = "tell"
        /\ s = [mover |-> q.mover, to |-> q.to, at |-> q.at,
                step |-> "tell", todo |-> q.todo, read |-> NoFile]
    BY <2>2 DEF IsWork
  <2> QED  BY <2>1, <2>3
<1>5. file' \in [Node -> File \cup {Absent}]
  BY PutWrites
<1> HIDE DEF tell
<1>6. CASE Asks(OnDisk, work[w]) /\ OnDisk' = OnDisk /\ Current(w).kind # "place"
  <2>1. r = tell
    BY <1>6
  <2>2. Asks(OnDisk, tell)
    BY <1>4, <1>6 DEF Asks
  <2>3. r # NoWork => Does(OnDisk, w, r, p)
    BY <2>1, <2>2 DEF Does
  <2> HIDE DEF r
  <2> QED  BY <1>1, <1>2, <1>3, <1>5, <1>6, <2>3, QuietKeeps DEF Doing
<1>7. CASE /\ w \in Mover /\ Current(w).kind = "place"
           /\ \E T, k : /\ Midway(OnDisk, work[w], T, k, p)
                        /\ OnDisk' = After(T, EditsOf(T, work[w].mover, work[w].to, work[w].at), k)
                        /\ \A m \in Node : m # Current(w).node => OnDisk'[m] = OnDisk[m]
  <2>1. PICK T, k : /\ Midway(OnDisk, work[w], T, k, p)
                    /\ OnDisk' = After(T, EditsOf(T, work[w].mover, work[w].to, work[w].at), k)
                    /\ \A m \in Node : m # Current(w).node => OnDisk'[m] = OnDisk[m]
    BY <1>7
  <2> DEFINE edits == EditsOf(T, work[w].mover, work[w].to, work[w].at)
  <2>2. PICK disk, new : disk = OnDisk /\ new = OnDisk'
    OBVIOUS
  <2>3. /\ MayGo(T, work[w].mover, work[w].to) /\ Rooted(T) /\ work[w].at \in Nat
        /\ k \in 1..Len(edits)
    BY <2>1 DEF Midway
  <2>4. Len(edits) \in Nat /\ NodesOf(disk) = NodesOf(T) /\ k \in 0..Len(edits)
        /\ work[w].mover # Top
    BY <2>1, <2>2, <2>3, MidwayIs
  <2>5. Sound(new) /\ NodesOf(new) = NodesOf(T)
    BY <2>1, <2>2, <2>3, <2>4, PlannedStands
  <2>6. r # NoWork => Does(new, w, r, p)
    <3>1. CASE skip
      <4>1. Onward(w) # NoWork => Does(new, w, Onward(w), p)
        BY <1>1, <1>7, <2>1, <2>2, OnwardDoes
      <4> QED  BY <3>1, <4>1
    <3>2. CASE ~skip
      <4>1. Midway(new, tell, T, k, p)
        BY <1>4, <2>1, <2>2, MidwayWrites
      <4> QED  BY <1>7, <3>2, <4>1 DEF Does, Moves
    <3> QED  BY <3>1, <3>2
  <2>7. \A v \in Worker : Busy(v)' => Does(OnDisk', v, work'[v], p)
    <3> HIDE DEF r
    <3>1. NodesOf(OnDisk) \subseteq NodesOf(new)
      BY <2>2, <2>4, <2>5
    <3> QED  BY <1>2, <1>3, <1>7, <2>2, <2>6, <3>1, OthersDo
  <2>8. shown = OnDisk
    BY <1>1, <1>7, IndexIsDisk DEF Doing
  <2>9. Synced'
    <3>1. shown' = [n \in Node |-> shown'[n]]
      BY <1>2 DEF MInv, Synced
    <3>2. CASE skip
      <4>1. OnDisk' = OnDisk
        BY <1>2, <3>2, SameDisk
      <4> QED  BY <1>2, <2>8, <3>1, <4>1 DEF Synced
    <3>3. CASE ~skip
      <4>1. work'[w] = tell
        BY <1>2, <1>3, <3>3
      <4>2. tell # NoWork
        <5>1. tell \in Work
          BY <1>1, <1>4, <2>1, TellIsWork
        <5> QED  BY <5>1, TreeMovesAssumption
      <4>3. Doing(w, "tell")' /\ work'[w].mover # Top
        BY <1>4, <2>4, <4>1, <4>2 DEF Doing
      <4> PICK n : n = Current(w).node
        OBVIOUS
      <4>4. Current(w)'.node = n
        BY <1>4, <4>1 DEF Current
      <4>5. Telling(n)'
        BY <4>3, <4>4 DEF Telling
      <4>6. \A m \in Node : m # n => shown'[m] = OnDisk'[m]
        BY <1>2, <2>1, <2>8
      <4> QED  BY <3>1, <4>5, <4>6 DEF Synced
    <3> QED  BY <3>2, <3>3
  <2> QED  BY <1>5, <2>2, <2>5, <2>7, <2>9 DEF MInv
<1> QED  BY <1>6, <1>7, PutWrites

LEMMA TellMoves ==
  ASSUME IInv, NEW p, MInv(p), OneMover, NEW w \in Worker, Tell(w)
  PROVE  MInv(p)' /\ OnDisk' = OnDisk
<1> DEFINE r == Onward(w)
<1>1. Doing(w, "tell") /\ Busy(w) /\ work[w].step = "tell"
  BY DEF Tell, Doing, Busy
<1> PICK n : n = Current(w).node
  OBVIOUS
<1>2. file' = file /\ work' = [work EXCEPT ![w] = r] /\ shown' = [shown EXCEPT ![n] = file[n].place]
  BY DEF Tell
<1>3. work = [v \in Worker |-> work[v]]
  BY DEF IInv, Shapes
<1>4. OnDisk' = OnDisk /\ file' \in [Node -> File \cup {Absent}]
  BY <1>2, SameDisk
<1>5. n \in NodesOf(OnDisk)
  BY <1>1, ToldIsThere
<1>6. n \in Node /\ file[n].place = OnDisk[n]
  BY <1>5 DEF NodesOf, OnDisk
<1>7. r # NoWork => Does(OnDisk, w, r, p)
  <2>1. Does(OnDisk, w, work[w], p)
    BY <1>1 DEF MInv
  <2>2. ASSUME NEW T, NEW k, Midway(OnDisk, work[w], T, k, p)
        PROVE  OnDisk = After(T, EditsOf(T, work[w].mover, work[w].to, work[w].at), k)
    BY <1>1, <2>2 DEF Midway
  <2>3. \/ Asks(OnDisk, work[w])
        \/ w \in Mover /\ Waits(OnDisk, work[w]) /\ work[w].step = "tell"
        \/ w \in Mover /\ \E T, k :
             /\ Midway(OnDisk, work[w], T, k, p)
             /\ OnDisk = After(T, EditsOf(T, work[w].mover, work[w].to, work[w].at), k)
    BY <1>1, <2>1, <2>2 DEF Does, Moves
  <2>4. PICK disk : disk = OnDisk
    OBVIOUS
  <2>5. Onward(w) # NoWork => Does(disk, w, Onward(w), p)
    BY <1>1, <2>3, <2>4, OnwardDoes
  <2> QED  BY <2>4, <2>5
<1> HIDE DEF r
<1>8. \A v \in Worker : Busy(v)' => Does(OnDisk', v, work'[v], p)
  BY <1>2, <1>3, <1>4, <1>7, OthersDo
<1>9. Synced'
  <2>1. shown = [m \in Node |-> shown[m]]
    BY DEF MInv, Synced
  <2>2. shown' = [m \in Node |-> shown'[m]] /\ shown'[n] = OnDisk'[n]
    BY <1>2, <1>4, <1>6, <2>1
  <2>3. ASSUME NEW m \in Node, m # n PROVE shown'[m] = OnDisk'[m] \/ Telling(m)'
    <3>1. shown'[m] = shown[m]
      BY <1>2, <2>1, <2>3
    <3>2. CASE shown[m] = OnDisk[m]
      BY <1>4, <3>1, <3>2
    <3>3. CASE Telling(m)
      <4>1. PICK v \in Worker : Doing(v, "tell") /\ work[v].mover # Top /\ Current(v).node = m
        BY <3>3 DEF Telling
      <4>2. v # w
        BY <2>3, <4>1
      <4>3. work'[v] = work[v]
        BY <1>2, <1>3, <4>2
      <4>4. Doing(v, "tell")' /\ work'[v].mover # Top /\ Current(v)'.node = m
        BY <4>1, <4>3 DEF Doing, Current
      <4> QED  BY <4>4 DEF Telling
    <3> QED  BY <3>2, <3>3 DEF MInv, Synced
  <2> QED  BY <2>2, <2>3 DEF Synced
<1>10. Sound(OnDisk')
  BY <1>4 DEF MInv
<1> QED  BY <1>4, <1>8, <1>9, <1>10 DEF MInv

-----------------------------------------------------------------------------
(* What is promised of moves *)

\* At no time are two siblings without a rank, but for those being placed
AtMostOneUnranked ==
  \A a, b \in Bystanders :
    /\ HonouredParent(OnDisk, a) = HonouredParent(OnDisk, b)
    /\ OnDisk[a].rank = NoRank /\ OnDisk[b].rank = NoRank
    => a = b

\* The node of a placement is the only one that is no bystander
LEMMA OneIsPlaced ==
  ASSUME NEW p, MInv(p), OneMover, NEW w \in Worker, w \in Mover, NEW m \in NodesOf(OnDisk),
         m # work[w].mover
  PROVE  m \in Bystanders
<1> SUFFICES ASSUME NEW v \in Worker, Busy(v), work[v].mover = m PROVE FALSE
  BY DEF Bystanders
<1>1. m # Top
  BY PlacementAssumption DEF NodesOf
<1>2. v \in Mover
  BY <1>1, MoverTells
<1> QED  BY <1>2 DEF OneMover

LEMMA StepMoves ==
  ASSUME IInv, NEW p, MInv(p), OneMover, p => AtMostOneUnranked, [Next]_vars
  PROVE  MInv(p)'
<1>1. CASE \E w \in Worker, n \in Node :
             \/ \E to \in Container \cup {Top}, at \in 0..Cardinality(Node) - 1 :
                  StartMove(w, n, to, at)
             \/ \E prose \in Prose : StartSave(w, n, prose)
             \/ StartRename(w, n)
  BY <1>1, StartMoveMoves, StartSaveMoves
<1>2. CASE \E w \in Worker, n \in Node, to \in Container \cup {Top} : Create(w, n, to)
  BY <1>2, CreateMoves
<1>3. CASE \E w \in Worker : Plan(w)
  <2>1. PICK w \in Worker : Plan(w)
    BY <1>3
  <2>2. w \in Mover
    BY <2>1 DEF Plan, Doing, Busy, MInv, Does, Asks
  <2>3. p => OneUnranked(OnDisk, work[w].mover)
    BY <2>2, OneIsPlaced DEF OneUnranked, AtMostOneUnranked
  <2> QED  BY <2>1, <2>3, PlanBegins
<1>4. CASE \E w \in Worker : Take(w)
  BY <1>4, TakeMoves
<1>5. CASE \E w \in Worker : Put(w)
  BY <1>5, PutMoves
<1>6. CASE \E w \in Worker : Tell(w)
  BY <1>6, TellMoves
<1>7. CASE \E w \in Worker : Fail(w)
  BY <1>7, FailMoves
<1>8. CASE Crash
  BY <1>8, CrashMoves
<1>9. CASE UNCHANGED vars
  <2>1. file' = file /\ shown' = shown /\ work' = work
    BY <1>9 DEF vars
  <2>2. OnDisk' = OnDisk /\ file' \in [Node -> File \cup {Absent}]
    BY <2>1, SameDisk
  <2>3. \A w \in Worker : Busy(w)' => Does(OnDisk', w, work'[w], p)
    BY <2>1, <2>2 DEF MInv, Busy
  <2>4. Synced'
    BY <2>1, <2>2 DEF MInv, Synced, Telling, Doing, Current
  <2>5. Sound(OnDisk')
    BY <2>2 DEF MInv
  <2> QED  BY <2>2, <2>3, <2>4, <2>5 DEF MInv
<1> QED  BY <1>1, <1>2, <1>3, <1>4, <1>5, <1>6, <1>7, <1>8, <1>9 DEF Next

\* What a step does to the tree: nothing, a node created, or an edit of a plan
LEMMA DiskSteps ==
  ASSUME IInv, NEW p, MInv(p), OneMover, [Next]_vars
  PROVE  \/ OnDisk' = OnDisk
         \/ \E n \in Node : /\ OnDisk[n] = Absent
                            /\ OnDisk' = [OnDisk EXCEPT ![n] = [parent |-> Top, rank |-> NoRank]]
         \/ \E w \in Worker : Busy(w) /\ \E T, k :
              /\ Midway(OnDisk, work[w], T, k, p) /\ work[w].step # "tell"
              /\ OnDisk' = After(T, EditsOf(T, work[w].mover, work[w].to, work[w].at), k)
<1>1. CASE \E w \in Worker, n \in Node, to \in Container \cup {Top} : Create(w, n, to)
  BY <1>1, CreateMoves
<1>2. CASE \E w \in Worker : Put(w)
  <2>1. PICK w \in Worker : Put(w)
    BY <1>2
  <2>2. work[w].step = "put" /\ Busy(w)
    BY <2>1 DEF Put, Doing, Busy
  <2> QED  BY <2>1, <2>2, PutWrites
<1>3. ASSUME file' = file PROVE OnDisk' = OnDisk
  BY <1>3, SameDisk
<1>4. CASE \E w \in Worker, n \in Node :
             \/ \E to \in Container \cup {Top}, at \in 0..Cardinality(Node) - 1 :
                  StartMove(w, n, to, at)
             \/ \E prose \in Prose : StartSave(w, n, prose)
             \/ StartRename(w, n)
  BY <1>3, <1>4 DEF StartMove, StartSave, StartRename
<1>5. CASE \E w \in Worker : Plan(w) \/ Take(w) \/ Tell(w) \/ Fail(w)
  BY <1>3, <1>5 DEF Plan, Take, Tell, Fail
<1>6. CASE Crash \/ UNCHANGED vars
  BY <1>3, <1>6 DEF Crash, vars
<1> QED  BY <1>1, <1>2, <1>4, <1>5, <1>6 DEF Next

\* One edit of a plan keeps the order of two siblings that are not moved
LEMMA EditKeepsOrder ==
  ASSUME NEW old, NEW r, NEW T, NEW k, Midway(old, r, T, k, TRUE), r.step # "tell",
         NEW new, new = After(T, EditsOf(T, r.mover, r.to, r.at), k),
         NEW a \in NodesOf(old), NEW b \in NodesOf(old), a # r.mover, b # r.mover,
         HonouredParent(old, a) = HonouredParent(old, b),
         Before(RankOf(old), a, b)
  PROVE  Before(RankOf(new), a, b)
<1> DEFINE edits == EditsOf(T, r.mover, r.to, r.at)
<1>1. /\ MayGo(T, r.mover, r.to) /\ r.at \in Nat /\ OneUnranked(T, r.mover)
      /\ k \in 1..Len(edits) /\ old = After(T, edits, k - 1)
  BY DEF Midway
<1>2. Len(edits) \in Nat /\ NodesOf(old) = NodesOf(T)
  BY MidwayIs
<1>3. PICK j \in 0..Len(edits) : j = k - 1 /\ old = After(T, edits, j)
  BY <1>1, <1>2
<1>4. k \in 0..Len(edits)
  BY <1>1, <1>2
<1>5. HonouredParent(T, a) = HonouredParent(T, b)
  <2>1. \A m \in NodesOf(T) : m # r.mover => HonouredParent(old, m) = HonouredParent(T, m)
    BY <1>1, <1>3, GroupStays
  <2> QED  BY <1>2, <2>1
<1>6. Claimed(T, a) = Claimed(T, b)
  BY <1>1, <1>2, <1>5, GroundedHasNoCycle DEF MayGo
<1>7. RankOf(T)[a] = T[a].rank /\ RankOf(T)[b] = T[b].rank
  BY <1>2 DEF RankOf
<1>8. CASE RankOf(T)[a] # NoRank \/ RankOf(T)[b] # NoRank
  <2>1. Before(RankOf(old), a, b) <=> Before(RankOf(T), a, b)
    BY <1>1, <1>2, <1>3, <1>6, <1>8, PrefixKeepsOrder
  <2>2. Before(RankOf(new), a, b) <=> Before(RankOf(T), a, b)
    BY <1>1, <1>2, <1>4, <1>6, <1>8, PrefixKeepsOrder
  <2> QED  BY <2>1, <2>2
<1>9. CASE RankOf(T)[a] = NoRank /\ RankOf(T)[b] = NoRank
  <2>1. a = b
    BY <1>1, <1>2, <1>5, <1>7, <1>9 DEF OneUnranked
  <2>2. a \in Int
    BY <1>2, PlacementAssumption DEF NodesOf
  <2>3. RankOf(old)[a] = old[a].rank /\ old[a].rank \in Rank
    <3>1. old \in Tree
      BY <1>1, <1>3, GroupStays DEF MayGo
    <3> QED  BY <3>1, GroupType
  <2>4. ~Before(RankOf(old), a, a)
    BY <2>2, <2>3, PlacementAssumption DEF Before, Rank
  <2> QED  BY <2>1, <2>4
<1> QED  BY <1>8, <1>9

\* Two nodes that say what they said are in the order they were
LEMMA SameOrder ==
  ASSUME NEW old, NEW new, NEW a \in NodesOf(old), NEW b \in NodesOf(old),
         NodesOf(old) \subseteq NodesOf(new), new[a] = old[a], new[b] = old[b]
  PROVE  Before(RankOf(new), a, b) <=> Before(RankOf(old), a, b)
<1>1. /\ RankOf(new)[a] = new[a].rank /\ RankOf(new)[b] = new[b].rank
      /\ RankOf(old)[a] = old[a].rank /\ RankOf(old)[b] = old[b].rank
  BY DEF RankOf
<1>2. RankOf(new)[a] = RankOf(old)[a] /\ RankOf(new)[b] = RankOf(old)[b]
  BY <1>1
<1> QED  BY <1>2 DEF Before

LEMMA StepKeepsOrder ==
  ASSUME IInv, MInv(TRUE), OneMover, [Next]_vars,
         NEW a \in Bystanders, NEW b \in Bystanders,
         HonouredParent(OnDisk, a) = HonouredParent(OnDisk, b),
         Before(RankOf(OnDisk), a, b)
  PROVE  Before(RankOf(OnDisk'), a, b)
<1>1. PICK old, new : old = OnDisk /\ new = OnDisk'
  OBVIOUS
<1>2. a \in NodesOf(old) /\ b \in NodesOf(old)
  BY <1>1 DEF Bystanders
<1>3. CASE new = old
  BY <1>1, <1>3
<1>4. CASE \E n \in Node : /\ old[n] = Absent
                           /\ new = [old EXCEPT ![n] = [parent |-> Top, rank |-> NoRank]]
  <2>1. PICK n \in Node : /\ old[n] = Absent
                          /\ new = [old EXCEPT ![n] = [parent |-> Top, rank |-> NoRank]]
    BY <1>4
  <2>2. PICK place : place = [parent |-> Top, rank |-> NoRank]
    OBVIOUS
  <2>3. place \in Place /\ place.parent = Top /\ new = [old EXCEPT ![n] = place]
    BY <2>1, <2>2 DEF Place, Rank
  <2>4. Sound(old)
    BY <1>1 DEF MInv
  <2> HIDE <1>1, <1>4
  <2>8. old \in Tree
    BY <2>4 DEF Sound
  <2>5. NodesOf(new) = NodesOf(old) \cup {n}
    BY <2>1, <2>3, <2>8, CreatedAdds
  <2>7. \A m \in NodesOf(old) : new[m] = old[m]
    BY <2>1, <2>3, <2>8, CreatedAdds
  <2>6. Before(RankOf(new), a, b) <=> Before(RankOf(old), a, b)
    BY <1>2, <2>5, <2>7, SameOrder
  <2> QED  BY <1>1, <2>6
<1>5. CASE \E w \in Worker : Busy(w) /\ \E T, k :
             /\ Midway(old, work[w], T, k, TRUE) /\ work[w].step # "tell"
             /\ new = After(T, EditsOf(T, work[w].mover, work[w].to, work[w].at), k)
  <2> PICK w \in Worker : Busy(w) /\ \E T, k :
             /\ Midway(old, work[w], T, k, TRUE) /\ work[w].step # "tell"
             /\ new = After(T, EditsOf(T, work[w].mover, work[w].to, work[w].at), k)
    BY <1>5
  <2>1. PICK T, k :
             /\ Midway(old, work[w], T, k, TRUE) /\ work[w].step # "tell"
             /\ new = After(T, EditsOf(T, work[w].mover, work[w].to, work[w].at), k)
    OBVIOUS
  <2>2. a # work[w].mover /\ b # work[w].mover
    BY DEF Bystanders
  <2> QED  BY <1>1, <1>2, <2>1, <2>2, EditKeepsOrder
<1> QED  BY <1>1, <1>3, <1>4, <1>5, DiskSteps

\* The last edit of a plan, or finding none, leaves the node where it should be
LEMMA SettledLands ==
  ASSUME IInv, NEW p, MInv(p), ~p, OneMover, NEW w \in Worker, Settles(w)
  PROVE  Lands(w)
<1> DEFINE n == work[w].mover
           to == work[w].to
           at == work[w].at
<1>1. ASSUME NEW T, MayGo(T, n, to), at \in Nat,
             OnDisk' = After(T, EditsOf(T, n, to, at), Len(EditsOf(T, n, to, at)))
      PROVE  Lands(w)
  <2>1. LandedAt(After(T, EditsOf(T, n, to, at), Len(EditsOf(T, n, to, at))), n, to, at)
    BY <1>1, PlanLands
  <2>2. LandedAt(OnDisk', n, to, at)
    BY <1>1, <2>1
  <2> QED  BY <2>2 DEF LandedAt, Lands, SlotOf
<1>2. CASE Plan(w) /\ work'[w] = NoWork
  <2>1. /\ OnDisk' = OnDisk /\ Waits(OnDisk, work[w])
        /\ EditsOf(OnDisk, n, to, at) = <<>>
    BY <1>2, PlanBegins
  <2>2. MayGo(OnDisk, n, to) /\ at \in Nat
    BY <2>1 DEF Waits
  <2>3. Len(EditsOf(OnDisk, n, to, at)) = 0
    BY <2>1, ShortLists
  <2>4. OnDisk = After(OnDisk, EditsOf(OnDisk, n, to, at), 0)
    BY <2>2, AfterNone DEF MayGo
  <2> QED  BY <1>1, <2>1, <2>2, <2>3, <2>4
<1>3. CASE Put(w) /\ Current(w).kind = "place" /\ Len(work[w].todo) = 1
  <2>1. PICK T, k : /\ Midway(OnDisk, work[w], T, k, p)
                    /\ OnDisk' = After(T, EditsOf(T, n, to, at), k)
    BY <1>3, PutWrites
  <2>2. /\ MayGo(T, n, to) /\ at \in Nat
        /\ Len(work[w].todo) = Len(EditsOf(T, n, to, at)) - k + 1
    BY <2>1 DEF Midway
  <2>3. Len(EditsOf(T, n, to, at)) \in Nat /\ k \in Nat
    BY <2>1, MidwayIs
  <2>4. k = Len(EditsOf(T, n, to, at))
    <3>1. PICK size : size = Len(EditsOf(T, n, to, at))
      OBVIOUS
    <3>2. size \in Nat /\ k \in Nat /\ 1 = size - k + 1
      BY <1>3, <2>2, <2>3, <3>1
    <3> QED  BY <3>1, <3>2
  <2> QED  BY <1>1, <2>1, <2>2, <2>4
<1> QED  BY <1>2, <1>3 DEF Settles

LEMMA EditsHold ==
  ASSUME ~RenamesRace
  PROVE  Spec => []IInv
<1>1. Init => IInv
  BY InitKeeps
<1>2. IInv /\ [Next]_vars => IInv'
  BY StepKeeps
<1> QED  BY <1>1, <1>2, PTL DEF Spec

\* placement.py: a placement that is carried out puts the node where it was asked
\* to go.  From any tree without cycles, beside any number of saves, with one
\* move at a time, whatever fails before: the last write of a plan leaves the node
\* under its new parent, with as many siblings before it as were asked for, and
\* with a rank; and when nothing is written, it was there.
THEOREM MovesLand ==
  ASSUME ~RenamesRace, OneMover, SoundStart
  PROVE  Spec => MoveLands
<1>1. Init => MInv(FALSE)
  BY InitMoves
<1>2. IInv /\ MInv(FALSE) /\ [Next]_vars => MInv(FALSE)'
  BY StepMoves
<1>3. IInv /\ MInv(FALSE) => \A w \in Worker : Settles(w) => Lands(w)
  BY SettledLands
<1>4. IInv /\ MInv(FALSE) /\ [Next]_vars
        => [\A w \in Worker : Settles(w) => Lands(w)]_vars
  BY <1>3
<1> QED  BY <1>1, <1>2, <1>4, EditsHold, PTL DEF Spec, MoveLands

\* placement.py:9-14: every intermediate state of a placement's writes is in the
\* right order, so that a crash part-way through leaves the tree correct.  No step
\* changes the order of two siblings that are not being moved, from any tree
\* without cycles, beside any number of saves, with one move at a time and as long
\* as no two siblings are without a rank.
THEOREM SiblingsKeepOrder ==
  ASSUME ~RenamesRace, OneMover, SoundStart
  PROVE  Spec /\ []AtMostOneUnranked => OrderKept
<1>1. Init => MInv(TRUE)
  BY InitMoves
<1>2. IInv /\ MInv(TRUE) /\ AtMostOneUnranked /\ [Next]_vars => MInv(TRUE)'
  BY StepMoves
<1> DEFINE Kept == LET old == OnDisk
                       new == OnDisk'
                   IN \A m, n \in Bystanders :
                        /\ Before(RankOf(old), m, n)
                        /\ ~Before(RankOf(new), m, n)
                        => \/ HonouredParent(old, m) # HonouredParent(old, n)
                           \/ HonouredParent(new, m) # HonouredParent(new, n)
<1>3. IInv /\ MInv(TRUE) /\ [Next]_vars => Kept
  BY StepKeepsOrder
<1>4. IInv /\ MInv(TRUE) /\ [Next]_vars => [Kept]_vars
  BY <1>3
<1>5. OrderKept <=> [][Kept]_vars
  BY DEF OrderKept
<1> HIDE DEF Kept
<1> QED  BY <1>1, <1>2, <1>4, <1>5, EditsHold, PTL DEF Spec

\* A node that has no rank, or is yet to be created without one
Unranked(tree, n) == tree[n] = Absent \/ tree[n].rank = NoRank
OneIsUnranked(tree) == \A a, b \in Node : Unranked(tree, a) /\ Unranked(tree, b) => a = b

\* No step takes a rank from a node
LEMMA StepKeepsRanks ==
  ASSUME IInv, NEW p, MInv(p), OneMover, [Next]_vars, NEW m \in Node, Unranked(OnDisk', m)
  PROVE  Unranked(OnDisk, m)
<1>1. CASE OnDisk' = OnDisk
  BY <1>1
<1>2. CASE \E n \in Node : /\ OnDisk[n] = Absent
                           /\ OnDisk' = [OnDisk EXCEPT ![n] = [parent |-> Top, rank |-> NoRank]]
  <2>1. PICK n \in Node : /\ OnDisk[n] = Absent
                          /\ OnDisk' = [OnDisk EXCEPT ![n] = [parent |-> Top, rank |-> NoRank]]
    BY <1>2
  <2>2. CASE m = n
    BY <2>1, <2>2 DEF Unranked
  <2>3. CASE m # n
    <3>1. OnDisk'[m] = OnDisk[m]
      BY <2>1, <2>3 DEF OnDisk
    <3> QED  BY <3>1 DEF Unranked
  <2> QED  BY <2>2, <2>3
<1>3. CASE \E w \in Worker : Busy(w) /\ \E T, k :
             /\ Midway(OnDisk, work[w], T, k, p) /\ work[w].step # "tell"
             /\ OnDisk' = After(T, EditsOf(T, work[w].mover, work[w].to, work[w].at), k)
  <2> PICK w \in Worker : Busy(w) /\ \E T, k :
             /\ Midway(OnDisk, work[w], T, k, p) /\ work[w].step # "tell"
             /\ OnDisk' = After(T, EditsOf(T, work[w].mover, work[w].to, work[w].at), k)
    BY <1>3
  <2>1. PICK T, k :
             /\ Midway(OnDisk, work[w], T, k, p) /\ work[w].step # "tell"
             /\ OnDisk' = After(T, EditsOf(T, work[w].mover, work[w].to, work[w].at), k)
    OBVIOUS
  <2>2. PICK edits : edits = EditsOf(T, work[w].mover, work[w].to, work[w].at)
    OBVIOUS
  <2>3. /\ k \in 1..Len(edits) /\ OnDisk = After(T, edits, k - 1) /\ OnDisk' = After(T, edits, k)
    BY <2>1, <2>2 DEF Midway
  <2>4. Placing(T, work[w].mover, work[w].to, edits) /\ Len(edits) \in Nat /\ k \in Nat
    BY <2>1, <2>2, MidwayIs
  <2>5. CASE Written(edits, k, m) = {}
    <3>1. Written(edits, k - 1, m) = {}
      BY <2>4, <2>5 DEF Written
    <3>2. After(T, edits, k)[m] = T[m]
      BY <2>5 DEF After
    <3>3. After(T, edits, k - 1)[m] = T[m]
      BY <3>1 DEF After
    <3>4. OnDisk'[m] = T[m] /\ OnDisk[m] = T[m]
      BY <2>3, <3>2, <3>3
    <3> QED  BY <3>4 DEF Unranked
  <2>6. CASE Written(edits, k, m) # {}
    <3>1. PICK i : i = Newest(Written(edits, k, m))
      OBVIOUS
    <3>2. i \in Written(edits, k, m)
      BY <2>4, <2>6, <3>1, NewestIs
    <3>3. i \in 1..Len(edits)
      BY <2>3, <2>4, <3>2 DEF Written
    <3>4. edits[i].place.rank \in Int
      BY <2>4, <3>3 DEF Placing, IsPlacing
    <3>5. OnDisk'[m] = edits[i].place
      BY <2>3, <2>6, <3>1 DEF After
    <3>6. OnDisk'[m].rank # NoRank
      BY <3>4, <3>5, PlacementAssumption
    <3>7. OnDisk'[m] = Absent
      BY <3>6 DEF Unranked
    <3>8. NodesOf(OnDisk) = NodesOf(T) /\ NodesOf(After(T, edits, k)) = NodesOf(T)
          /\ edits[i].node = m /\ edits[i].node \in NodesOf(T)
      <4>1. MayGo(T, work[w].mover, work[w].to) /\ Rooted(T) /\ work[w].at \in Nat /\ k \in 0..Len(edits)
        BY <2>1, <2>3, <2>4 DEF Midway
      <4>2. NodesOf(After(T, edits, k)) = NodesOf(T)
        BY <2>2, <4>1, PlannedStands
      <4>3. edits[i].node = m /\ edits[i].node \in NodesOf(T)
        BY <2>4, <3>2, <3>3 DEF Written, Placing, IsPlacing
      <4> QED  BY <2>1, <4>2, <4>3, MidwayIs
    <3> QED  BY <2>3, <3>7, <3>8 DEF NodesOf
  <2> QED  BY <2>5, <2>6
<1> QED  BY <1>1, <1>2, <1>3, DiskSteps

\* Moves give ranks and take none, so siblings without a rank come only with the
\* files one starts from and with nodes created and never placed: when there is
\* one such node at most, given or to be created, there is never a second.
THEOREM UnrankedStaysOne ==
  ASSUME ~RenamesRace, OneMover, SoundStart,
         \A tree \in InitialTree : OneIsUnranked(tree)
  PROVE  Spec => []AtMostOneUnranked
<1>1. Init => MInv(FALSE) /\ OneIsUnranked(OnDisk)
  <2> SUFFICES ASSUME Init PROVE OneIsUnranked(OnDisk)
    BY InitMoves
  <2>1. OnDisk \in InitialTree
    BY InitialDisk
  <2> QED  BY <2>1
<1>2. IInv /\ MInv(FALSE) /\ OneIsUnranked(OnDisk) /\ [Next]_vars
        => MInv(FALSE)' /\ OneIsUnranked(OnDisk)'
  <2> SUFFICES ASSUME IInv, MInv(FALSE), OneIsUnranked(OnDisk), [Next]_vars
               PROVE  OneIsUnranked(OnDisk')
    BY StepMoves
  <2>1. \A m \in Node : Unranked(OnDisk', m) => Unranked(OnDisk, m)
    BY StepKeepsRanks
  <2> QED  BY <2>1 DEF OneIsUnranked
<1>3. OneIsUnranked(OnDisk) => AtMostOneUnranked
  BY DEF OneIsUnranked, AtMostOneUnranked, Unranked, Bystanders, NodesOf
<1> QED  BY <1>1, <1>2, <1>3, EditsHold, PTL DEF Spec

\* ... so that from such trees the order of siblings is kept at every step, by
\* writes, crashes and failures alike.
THEOREM OrderIsKept ==
  ASSUME ~RenamesRace, OneMover, SoundStart,
         \A tree \in InitialTree : OneIsUnranked(tree)
  PROVE  Spec => OrderKept
<1>1. Spec => []AtMostOneUnranked
  BY UnrankedStaysOne
<1>2. Spec /\ []AtMostOneUnranked => OrderKept
  BY SiblingsKeepOrder
<1> QED  BY <1>1, <1>2

-----------------------------------------------------------------------------
(* Climbing past the nodes of a tree that is being built *)

\* A set that holds a node's parent, and the parent of whatever it holds,
\* holds all that is above the node
LEMMA AboveClosed ==
  ASSUME NEW T, Top \notin T, NEW up \in [T -> T \cup {Top}], NEW n \in T,
         NEW R, up[n] \in R, \A x \in R : Step(up, x) \in R
  PROVE  Above(up, n) \subseteq R
<1>1. PICK g \in [0..Size -> T \cup {Top}] :
        g[0] = n /\ Climbs(up, g, Size) /\ Above(up, n) = {g[i] : i \in 1..Size}
  BY AboveIs
<1> DEFINE Bad == {i \in 1..Size : g[i] \notin R}
<1>2. CASE Bad = {}
  BY <1>1, <1>2
<1>3. CASE Bad # {}
  <2>1. PICK k \in Bad : \A y \in Bad : k <= y
    <3>1. Bad \subseteq Nat
      BY SizeType
    <3> HIDE DEF Bad
    <3> QED  BY <1>3, <3>1, Least
  <2>2. k \in 1..Size /\ g[k] = Step(up, g[k - 1]) /\ g[k] \notin R
    BY <1>1 DEF Climbs
  <2>3. CASE k = 1
    BY <1>1, <2>2, <2>3 DEF Step
  <2>4. CASE k # 1
    <3>1. k - 1 \in 1..Size /\ k - 1 \notin Bad
      BY <2>1, <2>2, <2>4, SizeType
    <3> QED  BY <2>2, <3>1
  <2> QED  BY <2>3, <2>4
<1> QED  BY <1>2, <1>3

\* A sequence of different nodes is no longer than there are nodes
LEMMA PathIsShort ==
  ASSUME NEW T \in SUBSET Node, NEW p \in Seq(T),
         \A i, j \in 1..Len(p) : p[i] = p[j] => i = j
  PROVE  Len(p) <= Size
<1>1. IsFiniteSet(T) /\ Cardinality(T) <= Size
  BY PlacementAssumption, FS_Subset DEF Size
<1>2. p \in [1..Len(p) -> T] /\ Len(p) \in Nat
  OBVIOUS
<1>3. p \in Injection(1..Len(p), T)
  BY <1>2 DEF Injection, IsInjective
<1>4. Cardinality(1..Len(p)) <= Cardinality(T)
  BY <1>1, <1>3, FS_Injection
<1>5. Cardinality(1..Len(p)) = Len(p)
  <2>1. Cardinality(1..Len(p)) = IF 1 > Len(p) THEN 0 ELSE Len(p) - 1 + 1
    BY <1>2, FS_Interval
  <2> QED  BY <1>2, <2>1
<1>6. Cardinality(T) \in Nat
  BY <1>1, FS_CardinalityType
<1> QED  BY <1>1, <1>2, <1>4, <1>5, <1>6, SizeType

-----------------------------------------------------------------------------
(* The walk *)

\* Before the first loop
Unread ==
  /\ honoured = [n \in NodesOf(entries) |-> Absent]
  /\ toVisit = NodesOf(entries) /\ state = [n \in NodesOf(entries) |-> 0]
  /\ path = <<>> /\ here = Absent /\ onCycle = {} /\ ~cut

\* The path goes from parent to parent, to where the walk stands, over nodes
\* of its own
PathInv ==
  LET U == Parents(entries) IN
  /\ path \in Seq(NodesOf(entries)) /\ state \in [NodesOf(entries) -> {0, 1, 2}]
  /\ toVisit \subseteq NodesOf(entries) /\ here \in NodesOf(entries) \cup {Top, Absent}
  /\ here = Absent => path = <<>>
  /\ \A i, j \in 1..Len(path) : path[i] = path[j] => i = j
  /\ \A n \in NodesOf(entries) : state[n] = 1 <=> \E i \in 1..Len(path) : path[i] = n
  /\ \A i \in 1..Len(path) : U[path[i]] = IF i = Len(path) THEN here ELSE path[i + 1]

\* What is settled is settled up to the top, and its cycles are known
SettledInv ==
  LET U == Parents(entries) IN
  /\ \A n \in NodesOf(entries) : state[n] = 2 => U[n] = Top \/ state[U[n]] = 2
  /\ \A n \in NodesOf(entries) : n \in onCycle <=> state[n] = 2 /\ OnCycle(entries, n)
  /\ onCycle \subseteq NodesOf(entries)
  /\ \A n \in NodesOf(entries) : n \in toVisit \/ state[n] # 0 \/ here = n

Walking == ~cut /\ honoured = Parents(entries) /\ PathInv /\ SettledInv

Built ==
  /\ cut /\ toVisit = {} /\ here = Absent
  /\ honoured = [n \in NodesOf(entries) |-> HonouredParent(entries, n)]

BuildInv == entries \in Tree /\ (Unread \/ Walking \/ Built)

LEMMA OnCycleIs ==
  ASSUME NEW t, NEW n
  PROVE  OnCycle(t, n) <=> n \in Above(Parents(t), n)
BY DEF OnCycle, Parents

\* ... and so do the parents the tree is built with
LEMMA HonouredType ==
  ASSUME NEW t
  PROVE  [n \in NodesOf(t) |-> HonouredParent(t, n)] \in [NodesOf(t) -> NodesOf(t) \cup {Top}]
BY ParentsType DEF HonouredParent, Parents, Claimed

-----------------------------------------------------------------------------
(* What a path that has ended shows *)

\* A node of the path before the place it comes back to, or of a path that does
\* not come back, is on no cycle: no climb from it returns to it
LEMMA LedIn ==
  ASSUME PathInv, SettledInv, here # Absent,
         here = Top \/ (here \in NodesOf(entries) /\ state[here] # 0),
         NEW i \in 1..Len(path), \A j \in 1..i : path[j] # here
  PROVE  ~OnCycle(entries, path[i])
<1> DEFINE U == Parents(entries)
           R == {path[k] : k \in i + 1..Len(path)} \cup {Top}
                  \cup {n \in NodesOf(entries) : state[n] = 2}
<1>0. path \in Seq(NodesOf(entries)) /\ Len(path) \in Nat
  BY DEF PathInv
<1>1. U \in [NodesOf(entries) -> NodesOf(entries) \cup {Top}] /\ Top \notin NodesOf(entries)
  BY ParentsType
<1>2. \A k \in 1..Len(path) :
        /\ path[k] \in NodesOf(entries) /\ state[path[k]] = 1
        /\ U[path[k]] = IF k = Len(path) THEN here ELSE path[k + 1]
  BY <1>0 DEF PathInv
<1>3. here \in R
  <2>1. CASE here = Top
    BY <2>1
  <2>2. CASE here \in NodesOf(entries) /\ state[here] = 2
    BY <2>2
  <2>3. CASE here \in NodesOf(entries) /\ state[here] = 1
    <3>1. PICK j \in 1..Len(path) : path[j] = here
      BY <2>3 DEF PathInv
    <3>2. j \in i + 1..Len(path)
      BY <3>1, <1>0
    <3> QED  BY <3>1, <3>2
  <2> QED  BY <2>1, <2>2, <2>3 DEF PathInv
<1>4. \A k \in i..Len(path) : k \in 1..Len(path) /\ U[path[k]] \in R
  <2> SUFFICES ASSUME NEW k \in i..Len(path)
               PROVE  k \in 1..Len(path) /\ U[path[k]] \in R
    OBVIOUS
  <2>1. k \in 1..Len(path)
    BY <1>0
  <2>2. CASE k = Len(path)
    BY <2>1, <2>2, <1>2, <1>3
  <2>3. CASE k # Len(path)
    <3>1. k + 1 \in i + 1..Len(path)
      BY <2>3, <1>0
    <3>2. U[path[k]] = path[k + 1]
      BY <1>2, <2>1, <2>3
    <3> QED  BY <2>1, <3>1, <3>2
  <2> QED  BY <2>2, <2>3
<1>5. U[path[i]] \in R
  BY <1>4, <1>0
<1>6. ASSUME NEW x \in R PROVE Step(U, x) \in R
  <2>1. CASE x = Top
    BY <2>1 DEF Step
  <2>2. CASE x \in NodesOf(entries) /\ state[x] = 2
    <3>1. U[x] = Top \/ (U[x] \in NodesOf(entries) /\ state[U[x]] = 2)
      BY <2>2, <1>1 DEF SettledInv
    <3>2. Step(U, x) = U[x]
      BY <2>2, <1>1 DEF Step
    <3> QED  BY <3>1, <3>2
  <2>3. ASSUME NEW k \in i + 1..Len(path), x = path[k] PROVE Step(U, x) \in R
    <3>1. k \in i..Len(path)
      BY <1>0
    <3>2. Step(U, x) = U[x]
      BY <2>3, <3>1, <1>1, <1>2, <1>4 DEF Step
    <3> QED  BY <2>3, <3>1, <3>2, <1>4
  <2> QED  BY <2>1, <2>2, <2>3
<1>7. path[i] \notin R
  <2>1. path[i] # Top /\ state[path[i]] # 2
    BY <1>1, <1>2
  <2>2. \A k \in i + 1..Len(path) : path[k] # path[i]
    BY <1>0 DEF PathInv
  <2> QED  BY <2>1, <2>2
<1> HIDE DEF U, R
<1>8. path[i] \in NodesOf(entries)
  BY <1>2
<1>9. Above(U, path[i]) \subseteq R
  BY <1>1, <1>5, <1>6, <1>8, AboveClosed
<1> QED  BY <1>7, <1>9, OnCycleIs DEF U

\* A node of the path from the place it comes back to is on a cycle: the climb
\* around it returns
LEMMA LedRound ==
  ASSUME entries \in Tree, PathInv, NEW j \in 1..Len(path), path[j] = here,
         NEW i \in j..Len(path)
  PROVE  OnCycle(entries, path[i])
<1> DEFINE U == Parents(entries)
           len == Len(path)
           m == len - j + 1
           h == [k \in 0..m |-> IF i + k <= len THEN path[i + k]
                                ELSE path[i + k - len + j - 1]]
<1>0. path \in Seq(NodesOf(entries)) /\ len \in Nat /\ i \in 1..len
  BY DEF PathInv
<1>1. U \in [NodesOf(entries) -> NodesOf(entries) \cup {Top}] /\ Top \notin NodesOf(entries)
  BY ParentsType
<1>2. \A k \in 1..len : path[k] \in NodesOf(entries)
                        /\ U[path[k]] = IF k = len THEN here ELSE path[k + 1]
  BY <1>0 DEF PathInv
<1>3. m \in Nat /\ m >= 1 /\ m <= len /\ i + m > len
  BY <1>0
<1>4. len <= Size
  <2>1. NodesOf(entries) \in SUBSET Node
    BY DEF NodesOf
  <2> QED  BY <2>1, <1>0, PathIsShort DEF PathInv
<1>5. h[0] = path[i]
  BY <1>0, <1>3
<1>6. h[m] = path[i]
  <2>1. i + m - len + j - 1 = i
    BY <1>0
  <2>2. h[m] = path[i + m - len + j - 1]
    BY <1>0, <1>3
  <2> QED  BY <2>1, <2>2
<1>7. ASSUME NEW k \in 1..m PROVE h[k] = Step(U, h[k - 1])
  <2>0. k \in 0..m /\ k - 1 \in 0..m /\ k \in Nat
    BY <1>3
  <2>1. CASE i + k <= len
    <3> DEFINE a == i + (k - 1)
    <3>1. a \in 1..len /\ a # len /\ a + 1 = i + k
      BY <1>0, <2>0, <2>1
    <3>2. h[k] = path[i + k] /\ h[k - 1] = path[a]
      BY <1>0, <2>0, <2>1
    <3> HIDE DEF a, h, U, len
    <3>3. U[path[a]] = path[a + 1] /\ path[a] # Top
      BY <1>1, <1>2, <3>1
    <3> QED  BY <3>1, <3>2, <3>3 DEF Step
  <2>2. CASE i + k = len + 1
    <3>1. i + (k - 1) = len /\ i + k - len + j - 1 = j /\ ~(i + k <= len)
      BY <1>0, <2>0, <2>2
    <3>2. h[k] = path[i + k - len + j - 1] /\ h[k - 1] = path[i + (k - 1)]
      BY <1>0, <2>0, <3>1
    <3>3. len \in 1..len
      BY <1>0
    <3> HIDE DEF h, U, len
    <3>4. U[path[len]] = here /\ path[len] # Top
      BY <1>1, <1>2, <3>3
    <3>5. h[k] = path[j] /\ h[k - 1] = path[len]
      BY <3>1, <3>2
    <3> QED  BY <3>4, <3>5 DEF Step
  <2>3. CASE i + k > len + 1
    <3> DEFINE a == i + (k - 1) - len + j - 1
    <3>1. a \in 1..len /\ a # len /\ a + 1 = i + k - len + j - 1
      BY <1>0, <2>0, <2>3
    <3>2. h[k] = path[i + k - len + j - 1] /\ h[k - 1] = path[a]
      BY <1>0, <2>0, <2>3
    <3> HIDE DEF a, h, U, len
    <3>3. U[path[a]] = path[a + 1] /\ path[a] # Top
      BY <1>1, <1>2, <3>1
    <3> QED  BY <3>1, <3>2, <3>3 DEF Step
  <2> QED  BY <1>0, <2>0, <2>1, <2>2, <2>3
<1>8. Climbs(U, h, m)
  BY <1>7 DEF Climbs
<1>9. path[i] \in NodesOf(entries) /\ m <= Size /\ m \in 1..m
  BY <1>0, <1>2, <1>3, <1>4, SizeType
<1> HIDE DEF U, h, m, len
<1>10. h[m] \in Above(U, path[i])
  BY <1>1, <1>3, <1>5, <1>8, <1>9, ReachedIsAbove
<1> QED  BY <1>6, <1>10, OnCycleIs DEF U

-----------------------------------------------------------------------------
(* The steps of the walk *)

LEMMA NodesType == NodesOf(entries) \subseteq Node /\ Absent \notin NodesOf(entries) \cup {Top}
BY TreeBuildAssumption DEF NodesOf

LEMMA InitBuild == BuildInit => BuildInv
BY TreeBuildAssumption DEF BuildInit, BuildInv, Unread

\* The honoured parents are the parents the files name, once they are written
LEMMA HonourStarts ==
  ASSUME BuildInv, Honour
  PROVE  BuildInv'
<1>1. honoured' = Parents(entries) /\ entries \in Tree
  BY DEF Honour, Parents, BuildInv
<1>2. CASE NodesOf(entries) = {}
  <2>1. honoured' = honoured
    BY <1>2 DEF Honour
  <2>2. Unread' \/ Walking' \/ Built'
    <3>1. CASE Unread
      BY <2>1, <3>1 DEF Honour, Unread
    <3>2. CASE Walking
      <4>1. PathInv'
        BY <3>2 DEF Walking, Honour, PathInv
      <4>2. SettledInv'
        BY <3>2 DEF Walking, Honour, SettledInv
      <4> QED  BY <2>1, <3>2, <4>1, <4>2 DEF Walking, Honour
    <3>3. CASE Built
      BY <2>1, <3>3 DEF Honour, Built
    <3> QED  BY <3>1, <3>2, <3>3 DEF BuildInv
  <2> QED  BY <1>1, <2>2 DEF BuildInv, Honour
<1>3. CASE NodesOf(entries) # {}
  <2>1. PICK n \in NodesOf(entries) : TRUE
    BY <1>3
  <2>2. honoured[n] = Absent
    BY <2>1 DEF Honour
  <2>3. Parents(entries)[n] # Absent /\ HonouredParent(entries, n) # Absent
    BY <2>1, ParentsType, HonouredType, NodesType
  <2>4. Unread
    BY <2>1, <2>2, <2>3 DEF BuildInv, Walking, Built
  <2>5. PathInv'
    BY <2>4 DEF Unread, PathInv, Honour
  <2>6. SettledInv'
    BY <2>4 DEF Unread, SettledInv, Honour
  <2> QED  BY <1>1, <2>4, <2>5, <2>6 DEF BuildInv, Walking, Unread, Honour
<1> QED  BY <1>2, <1>3

\* Until then no walk goes on, and after the cut none is left
LEMMA OnlyWalks ==
  ASSUME BuildInv, (\E n \in NodesOf(entries) : Start(n)) \/ Follow \/ Settle
  PROVE  Walking
<1>1. ~Unread
  <2>1. ASSUME Unread, NEW n \in NodesOf(entries), Start(n) PROVE FALSE
    BY <2>1 DEF Unread, Start, Honoured
  <2>2. ASSUME Unread, Follow PROVE FALSE
    BY <2>2, NodesType DEF Unread, Follow
  <2>3. ASSUME Unread, Settle PROVE FALSE
    BY <2>3, NodesType DEF Unread, Settle
  <2> QED  BY <2>1, <2>2, <2>3
<1>2. ~Built
  <2>1. ASSUME Built, NEW n \in NodesOf(entries), Start(n) PROVE FALSE
    BY <2>1 DEF Built, Start
  <2>2. ASSUME Built, Follow PROVE FALSE
    BY <2>2, NodesType DEF Built, Follow
  <2>3. ASSUME Built, Settle PROVE FALSE
    BY <2>3, NodesType DEF Built, Settle
  <2> QED  BY <2>1, <2>2, <2>3
<1> QED  BY <1>1, <1>2 DEF BuildInv

LEMMA StartWalks ==
  ASSUME Walking, NEW n \in NodesOf(entries), Start(n)
  PROVE  Walking'
<1>1. PathInv'
  <2>1. here' \in NodesOf(entries) \cup {Top, Absent}
    BY DEF Start
  <2>2. path = <<>>
    BY DEF Walking, PathInv, Start
  <2> QED  BY <2>1, <2>2 DEF Walking, PathInv, Start
<1>2. SettledInv'
  <2>1. \A x \in NodesOf(entries) : x \in toVisit' \/ state'[x] # 0 \/ here' = x
    BY NodesType DEF Walking, SettledInv, Start
  <2> QED  BY <2>1 DEF Walking, SettledInv, Start
<1> QED  BY <1>1, <1>2 DEF Walking, Start

LEMMA FollowWalks ==
  ASSUME Walking, Follow
  PROVE  Walking'
<1> DEFINE U == Parents(entries)
           len == Len(path)
<1>0. path \in Seq(NodesOf(entries)) /\ len \in Nat /\ here \in NodesOf(entries)
  BY DEF Walking, PathInv, Follow
<1>1. U \in [NodesOf(entries) -> NodesOf(entries) \cup {Top}] /\ Top \notin NodesOf(entries)
  BY ParentsType
<1>2. state \in [NodesOf(entries) -> {0, 1, 2}] /\ state[here] = 0
  BY DEF Walking, PathInv, Follow
<1>3. /\ Len(path') = len + 1
      /\ path' \in Seq(NodesOf(entries))
      /\ path'[len + 1] = here
      /\ \A k \in 1..len : path'[k] = path[k]
  BY <1>0 DEF Follow
<1>4. \A k \in 1..len : path[k] # here
  BY <1>0, <1>2 DEF Walking, PathInv
<1>5. here' = U[here]
  BY <1>0 DEF Walking, Follow
<1>6. /\ state' \in [NodesOf(entries) -> {0, 1, 2}]
      /\ \A n \in NodesOf(entries) : state'[n] = IF n = here THEN 1 ELSE state[n]
  BY <1>0, <1>2 DEF Follow
<1>7. PathInv'
  <2>1. entries' = entries /\ toVisit' = toVisit
    BY DEF Follow
  <2>2. here' # Absent /\ here' \in NodesOf(entries) \cup {Top, Absent}
    BY <1>0, <1>1, <1>5, NodesType
  <2>3. \A i, k \in 1..len + 1 : path'[i] = path'[k] => i = k
    <3>1. \A i, k \in 1..len : path'[i] = path'[k] => i = k
      BY <1>0, <1>3 DEF Walking, PathInv
    <3>2. \A i \in 1..len + 1 : i \in 1..len \/ i = len + 1
      BY <1>0
    <3> QED  BY <1>3, <1>4, <3>1, <3>2
  <2>4. \A n \in NodesOf(entries) : state'[n] = 1 <=> \E i \in 1..len + 1 : path'[i] = n
    <3>1. \A i \in 1..len + 1 : i \in 1..len \/ i = len + 1
      BY <1>0
    <3>2. len + 1 \in 1..len + 1 /\ \A i \in 1..len : i \in 1..len + 1
      BY <1>0
    <3>3. \A n \in NodesOf(entries) : state[n] = 1 <=> \E i \in 1..len : path[i] = n
      BY DEF Walking, PathInv
    <3> QED  BY <1>3, <1>6, <3>1, <3>2, <3>3
  <2>5. \A i \in 1..len + 1 : U[path'[i]] = IF i = len + 1 THEN here' ELSE path'[i + 1]
    <3> SUFFICES ASSUME NEW i \in 1..len + 1
                 PROVE  U[path'[i]] = IF i = len + 1 THEN here' ELSE path'[i + 1]
      OBVIOUS
    <3>1. CASE i = len + 1
      BY <3>1, <1>3, <1>5
    <3>2. CASE i = len
      <4>1. i \in 1..len /\ i # len + 1
        BY <3>2, <1>0
      <4>2. U[path[i]] = here
        BY <4>1, <3>2 DEF Walking, PathInv
      <4> QED  BY <4>1, <4>2, <3>2, <1>3
    <3>3. CASE i # len + 1 /\ i # len
      <4>1. i \in 1..len /\ i + 1 \in 1..len
        BY <3>3, <1>0
      <4>2. U[path[i]] = path[i + 1]
        BY <4>1, <3>3 DEF Walking, PathInv
      <4> QED  BY <4>1, <4>2, <3>3, <1>3
    <3> QED  BY <3>1, <3>2, <3>3
  <2>6. toVisit \subseteq NodesOf(entries)
    BY DEF Walking, PathInv
  <2> HIDE DEF len
  <2> QED  BY <1>3, <1>6, <2>1, <2>2, <2>3, <2>4, <2>5, <2>6 DEF PathInv
<1>8. SettledInv'
  <2>1. \A n \in NodesOf(entries) : state'[n] = 2 <=> state[n] = 2
    BY <1>2, <1>6
  <2>2. \A n \in NodesOf(entries) : state[n] = 2 => U[n] = Top \/ (U[n] \in NodesOf(entries) /\ state[U[n]] = 2)
    BY <1>1 DEF Walking, SettledInv
  <2>3. \A n \in NodesOf(entries) : n \in toVisit \/ state'[n] # 0 \/ here' = n
    BY <1>2, <1>6 DEF Walking, SettledInv
  <2> QED  BY <2>1, <2>2, <2>3 DEF Walking, SettledInv, Follow
<1> QED  BY <1>7, <1>8 DEF Walking, Follow

\* What the path shows: every node of it is settled, and those on a cycle are
\* the ones from the place it comes back to
LEMMA SettleWalks ==
  ASSUME entries \in Tree, Walking, Settle
  PROVE  Walking'
<1> DEFINE U == Parents(entries)
           len == Len(path)
<1>0. path \in Seq(NodesOf(entries)) /\ len \in Nat /\ here # Absent
  BY NodesType DEF Walking, PathInv, Settle
<1>1. U \in [NodesOf(entries) -> NodesOf(entries) \cup {Top}] /\ Top \notin NodesOf(entries)
  BY ParentsType
<1>2. state \in [NodesOf(entries) -> {0, 1, 2}]
  BY DEF Walking, PathInv
<1>3. /\ state' \in [NodesOf(entries) -> {0, 1, 2}]
      /\ \A n \in NodesOf(entries) : state'[n] = IF state[n] = 1 THEN 2 ELSE state[n]
  BY <1>2 DEF Settle
<1>4. PathInv'
  <2>1. path' = <<>> /\ here' = Absent /\ entries' = entries /\ toVisit' = toVisit
    BY DEF Settle
  <2>2. \A n \in NodesOf(entries) : state'[n] # 1
    BY <1>2, <1>3
  <2>3. toVisit \subseteq NodesOf(entries)
    BY DEF Walking, PathInv
  <2> QED  BY <1>3, <2>1, <2>2, <2>3 DEF PathInv
<1>5. \A i \in 1..len : path[i] \in NodesOf(entries) /\ state[path[i]] = 1
  BY <1>0 DEF Walking, PathInv
<1>6. ASSUME NEW i \in 1..len
      PROVE  OnCycle(entries, path[i]) <=> \E j \in 1..i : path[j] = here
  <2>1. CASE \A j \in 1..i : path[j] # here
    BY <1>0, <2>1, LedIn DEF Walking, Settle
  <2>2. ASSUME NEW j \in 1..i, path[j] = here PROVE OnCycle(entries, path[i])
    <3>1. j \in 1..len /\ i \in j..len
      BY <1>0
    <3> QED  BY <2>2, <3>1, LedRound DEF Walking
  <2> QED  BY <2>1, <2>2
<1>7. \A n \in NodesOf(entries) : state[n] = 1 => \E i \in 1..len : path[i] = n
  BY DEF Walking, PathInv
<1>8. \A n \in NodesOf(entries) :
        n \in onCycle' <=> n \in onCycle \/ (state[n] = 1 /\ OnCycle(entries, n))
  <2>1. Loop = {path[i] : i \in {k \in 1..len : \E j \in 1..k : path[j] = here}}
    BY <1>0 DEF Loop
  <2>2. \A n \in NodesOf(entries) : n \in Loop <=> state[n] = 1 /\ OnCycle(entries, n)
    BY <2>1, <1>5, <1>6, <1>7
  <2>3. CASE here # Top /\ state[here] = 1
    BY <2>2, <2>3 DEF Settle
  <2>4. CASE ~(here # Top /\ state[here] = 1)
    <3>1. onCycle' = onCycle
      BY <2>4 DEF Settle
    <3>2. \A i \in 1..len : path[i] # here
      BY <2>4, <1>1, <1>5
    <3>3. Loop = {}
      BY <2>1, <3>2, <1>0
    <3> QED  BY <2>2, <3>1, <3>3
  <2> QED  BY <2>3, <2>4
<1>9. SettledInv'
  <2>1. \A n \in NodesOf(entries) : state'[n] = 2 => U[n] = Top \/ state'[U[n]] = 2
    <3> SUFFICES ASSUME NEW n \in NodesOf(entries), state'[n] = 2, U[n] # Top
                 PROVE  state'[U[n]] = 2
      OBVIOUS
    <3>1. U[n] \in NodesOf(entries)
      BY <1>1
    <3>2. CASE state[n] = 2
      BY <1>3, <3>1, <3>2 DEF Walking, SettledInv
    <3>3. CASE state[n] = 1
      <4>1. PICK i \in 1..len : path[i] = n
        BY <1>7, <3>3
      <4>2. U[n] = IF i = len THEN here ELSE path[i + 1]
        BY <4>1 DEF Walking, PathInv
      <4>3. state[U[n]] # 0
        <5>1. CASE i = len
          BY <4>2, <5>1, <3>1, <1>1 DEF Settle
        <5>2. CASE i # len
          <6>1. i + 1 \in 1..len
            BY <5>2, <1>0
          <6> QED  BY <4>2, <5>2, <6>1, <1>5
        <5> QED  BY <5>1, <5>2
      <4> QED  BY <4>3, <3>1, <1>2, <1>3
    <3> QED  BY <1>2, <1>3, <3>2, <3>3
  <2>2. \A n \in NodesOf(entries) : n \in onCycle' <=> state'[n] = 2 /\ OnCycle(entries, n)
    BY <1>2, <1>3, <1>8 DEF Walking, SettledInv
  <2>3. onCycle' \subseteq NodesOf(entries)
    <3>1. Loop \subseteq NodesOf(entries)
      BY <1>0 DEF Loop
    <3> QED  BY <3>1 DEF Walking, SettledInv, Settle
  <2>4. \A n \in NodesOf(entries) : n \in toVisit \/ state'[n] # 0 \/ Absent = n
    <3>1. here \in NodesOf(entries) => state[here] # 0
      BY <1>1 DEF Settle
    <3> QED  BY <3>1, <1>2, <1>3 DEF Walking, SettledInv
  <2>5. entries' = entries /\ toVisit' = toVisit /\ here' = Absent
    BY DEF Settle
  <2> QED  BY <2>1, <2>2, <2>3, <2>4, <2>5 DEF SettledInv
<1> QED  BY <1>4, <1>9 DEF Walking, Settle

\* When every node was walked from, every node is settled
LEMMA CutBuilds ==
  ASSUME BuildInv, Cut
  PROVE  Built'
<1>1. honoured' = [n \in NodesOf(entries) |-> HonouredParent(entries, n)]
  <2>1. CASE NodesOf(entries) = {}
    BY <2>1 DEF Cut
  <2>2. CASE NodesOf(entries) # {}
    <3>1. Walking
      BY <2>2 DEF BuildInv, Unread, Built, Cut
    <3>2. \A n \in NodesOf(entries) : state[n] = 2
      <4>1. path = <<>>
        BY <3>1 DEF Walking, PathInv, Cut
      <4>2. \A n \in NodesOf(entries) : state[n] # 1
        BY <3>1, <4>1 DEF Walking, PathInv
      <4>3. \A n \in NodesOf(entries) : state[n] # 0
        BY <3>1, NodesType DEF Walking, SettledInv, Cut
      <4> QED  BY <3>1, <4>2, <4>3 DEF Walking, PathInv
    <3>3. \A n \in NodesOf(entries) : n \in onCycle <=> OnCycle(entries, n)
      BY <3>1, <3>2 DEF Walking, SettledInv
    <3>4. \A n \in NodesOf(entries) : honoured[n] = Claimed(entries, n)
      BY <3>1 DEF Walking, Parents
    <3> QED  BY <3>3, <3>4 DEF Cut, HonouredParent
  <2> QED  BY <2>1, <2>2
<1> QED  BY <1>1 DEF Built, Cut

LEMMA StepBuild == BuildInv /\ [BuildNext]_buildVars => BuildInv'
<1> SUFFICES ASSUME BuildInv, [BuildNext]_buildVars PROVE BuildInv'
  OBVIOUS
<1>1. CASE Honour
  BY <1>1, HonourStarts
<1>2. ASSUME NEW n \in NodesOf(entries), Start(n) PROVE BuildInv'
  <2>1. Walking
    BY <1>2, OnlyWalks
  <2> QED  BY <1>2, <2>1, StartWalks DEF BuildInv, Start
<1>3. CASE Follow
  <2>1. Walking
    BY <1>3, OnlyWalks
  <2> QED  BY <1>3, <2>1, FollowWalks DEF BuildInv, Follow
<1>4. CASE Settle
  <2>1. Walking
    BY <1>4, OnlyWalks
  <2> QED  BY <1>4, <2>1, SettleWalks DEF BuildInv, Settle
<1>5. CASE Cut
  BY <1>5, CutBuilds DEF BuildInv, Cut
<1>6. CASE UNCHANGED buildVars
  BY <1>6 DEF buildVars, BuildInv, Unread, Walking, Built, PathInv, SettledInv
<1> QED  BY <1>1, <1>2, <1>3, <1>4, <1>5, <1>6 DEF BuildNext

LEMMA BuildHolds == BuildSpec => []BuildInv
BY InitBuild, StepBuild, PTL DEF BuildSpec

-----------------------------------------------------------------------------
\* tree_build.py:116-119: the walk finds just the nodes that are their own
\* ancestors, whatever the nodes, the parents their files name and the order
\* they are visited in; the tree is the one Placement describes.
THEOREM CyclesFound == BuildSpec => []FindsCycles
<1>1. BuildInv => FindsCycles
  BY DEF BuildInv, FindsCycles, Unread, Walking, Built
<1> QED  BY <1>1, BuildHolds, PTL

\* Once the nodes on cycles are at the top, every node's chain of parents ends
\* there: a chain that does not repeats a node, and the nodes between were cut.
LEMMA CutReachesTop ==
  ASSUME entries \in Tree, NEW n \in NodesOf(entries)
  PROVE  Top \in Above([x \in NodesOf(entries) |-> HonouredParent(entries, x)], n)
<1> DEFINE H == [x \in NodesOf(entries) |-> HonouredParent(entries, x)]
           U == Parents(entries)
<1>1. /\ H \in [NodesOf(entries) -> NodesOf(entries) \cup {Top}]
      /\ U \in [NodesOf(entries) -> NodesOf(entries) \cup {Top}]
      /\ Top \notin NodesOf(entries)
  BY ParentsType, HonouredType
<1>2. \A x \in NodesOf(entries) : H[x] = IF x \in Above(U, x) THEN Top ELSE U[x]
  BY OnCycleIs DEF HonouredParent, Parents
<1> HIDE DEF H, U
<1>3. PICK g \in [0..Size -> NodesOf(entries) \cup {Top}] :
        g[0] = n /\ Climbs(H, g, Size) /\ Above(H, n) = {g[i] : i \in 1..Size}
  BY <1>1, AboveIs
<1> SUFFICES ASSUME Top \notin Above(H, n) PROVE FALSE
  BY DEF H
<1>4. \A k \in 0..Size : g[k] \in NodesOf(entries)
  <2> SUFFICES ASSUME NEW k \in 0..Size PROVE g[k] \in NodesOf(entries)
    OBVIOUS
  <2>1. CASE k = 0
    BY <2>1, <1>3
  <2>2. CASE k # 0
    <3>1. k \in 1..Size
      BY <2>2, SizeType
    <3> QED  BY <3>1, <1>3
  <2> QED  BY <2>1, <2>2
<1>5. \A k \in 1..Size : g[k] = U[g[k - 1]] /\ g[k - 1] \notin Above(U, g[k - 1])
  <2> SUFFICES ASSUME NEW k \in 1..Size
               PROVE  g[k] = U[g[k - 1]] /\ g[k - 1] \notin Above(U, g[k - 1])
    OBVIOUS
  <2>1. k \in 0..Size /\ k - 1 \in 0..Size
    BY SizeType
  <2>2. g[k] # Top /\ g[k - 1] # Top /\ g[k - 1] \in NodesOf(entries)
    BY <1>1, <1>4, <2>1
  <2>3. g[k] = H[g[k - 1]]
    BY <1>3, <2>2 DEF Climbs, Step
  <2> QED  BY <1>2, <2>2, <2>3
<1>6. \E i, j \in 0..Size : i < j /\ g[i] = g[j]
  <2>1. IsFiniteSet(NodesOf(entries)) /\ Cardinality(NodesOf(entries)) <= Size
    BY PlacementAssumption, FS_Subset, NodesType DEF Size
  <2>2. IsFiniteSet(0..Size) /\ Cardinality(0..Size) = Size + 1
    <3>1. /\ IsFiniteSet(0..Size)
          /\ Cardinality(0..Size) = IF 0 > Size THEN 0 ELSE Size - 0 + 1
      BY FS_Interval, SizeType
    <3> QED  BY <3>1, SizeType
  <2>3. g \in [0..Size -> NodesOf(entries)]
    BY <1>3, <1>4
  <2>4. Cardinality(NodesOf(entries)) \in Nat
    BY <2>1, FS_CardinalityType
  <2>5. Cardinality(NodesOf(entries)) < Cardinality(0..Size)
    BY <2>1, <2>2, <2>4, SizeType
  <2>6. \E x, y \in 0..Size : x # y /\ g[x] = g[y]
    BY <2>1, <2>2, <2>3, <2>5, FS_PigeonHole
  <2> QED  BY <2>6, SizeType
<1>7. PICK i \in 0..Size, j \in 0..Size : i < j /\ g[i] = g[j]
  BY <1>6
<1> DEFINE m == j - i
           h == [k \in 0..m |-> g[i + k]]
<1>8. m \in Nat /\ m <= Size /\ m \in 1..m /\ i + m = j
  BY <1>7, SizeType
<1>9. h[0] = g[i] /\ h[m] = g[j]
  BY <1>7, <1>8
<1>10. Climbs(U, h, m)
  <2> SUFFICES ASSUME NEW k \in 1..m PROVE h[k] = Step(U, h[k - 1])
    BY DEF Climbs
  <2>1. i + k \in 1..Size /\ k \in 0..m /\ k - 1 \in 0..m
    BY <1>7, SizeType
  <2>2. i + (k - 1) = (i + k) - 1 /\ (i + k) - 1 \in 0..Size
    BY <2>1, SizeType
  <2>3. h[k] = g[i + k] /\ h[k - 1] = g[(i + k) - 1]
    BY <2>1, <2>2
  <2> HIDE DEF h
  <2> QED  BY <1>1, <1>4, <1>5, <2>1, <2>2, <2>3 DEF Step
<1> HIDE DEF m, h
<1>11. g[i] \in Above(U, g[i])
  BY <1>1, <1>4, <1>7, <1>8, <1>9, <1>10, ReachedIsAbove
<1>12. i + 1 \in 1..Size /\ (i + 1) - 1 = i
  BY <1>7, SizeType
<1> QED  BY <1>5, <1>11, <1>12

\* tree_build.py:14-15: "Nothing is dropped": every node handed in is in the
\* tree, under the root, whatever the files say of parents.
THEOREM EveryNodeInTheTree == BuildSpec => []NothingDropped
<1>1. BuildInv => NothingDropped
  <2> SUFFICES ASSUME BuildInv, cut, NEW n \in NodesOf(entries)
               PROVE  Top \in Above(honoured, n)
    BY DEF NothingDropped
  <2>1. honoured = [x \in NodesOf(entries) |-> HonouredParent(entries, x)] /\ entries \in Tree
    BY DEF BuildInv, Unread, Walking, Built
  <2> QED  BY <2>1, CutReachesTop
<1> QED  BY <1>1, BuildHolds, PTL
==============================================================================
