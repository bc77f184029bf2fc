-------------------------- MODULE StoryTimeProofs --------------------------
(***************************************************************************)
(* No anchor is ever in two places of a book, whatever is written, cut,    *)
(* copied, pasted, captured and restored, for any number of scenes, pills, *)
(* sets and snapshots, as long as no pill is captured or pasted again      *)
(* without the set it is still to get, and no cut pill is pasted after a   *)
(* restore has brought it back.                                            *)
(***************************************************************************)
EXTENDS StoryTime, FiniteSetTheorems, SequenceTheorems, WellFoundedInduction, TLAPS

\* A non-empty set of naturals has a least element
LEMMA Least ==
  ASSUME NEW T, T \subseteq Nat, T # {}
  PROVE  \E x \in T : \A y \in T : x <= y
<1> DEFINE R == OpToRel(<, Nat)
<1>1. IsWellFoundedOn(R, Nat)
  BY NatLessThanWellFounded
<1>2. \A a, b \in Nat : <<a, b>> \in R <=> a < b
  BY DEF OpToRel
<1> HIDE DEF R
<1>3. PICK x \in T : \A y \in T : <<y, x>> \notin R
  BY <1>1, WFMin
<1>4. ASSUME NEW y \in T PROVE x <= y
  <2>1. x \in Nat /\ y \in Nat
    OBVIOUS
  <2>2. ~(y < x)
    BY <1>2, <1>3, <2>1
  <2> QED  BY <2>1, <2>2
<1> QED  BY <1>4

-----------------------------------------------------------------------------
(* Marks *)

LEMMA AnchorAt ==
  ASSUME NEW b, NEW m
  PROVE  m \in AnchorsOf(b) <=> \E i \in 1..Len(b) : b[i] = m /\ b[i].kind = "anchor"
BY DEF AnchorsOf

LEMMA IdAt ==
  ASSUME NEW b, NEW x
  PROVE  x \in AnchorIds(b) <=> \E i \in 1..Len(b) : b[i].kind = "anchor" /\ b[i].id = x
BY DEF AnchorIds, AnchorsOf

LEMMA MarkAtIs ==
  ASSUME NEW b \in Seq(Marks), NEW i \in 1..Len(b)
  PROVE  /\ b[i] \in Marks /\ b[i].kind \in {"anchor", "close"}
         /\ b[i].kind = "anchor" => b[i] = [kind |-> "anchor", id |-> b[i].id, set |-> b[i].set]
                                    /\ b[i].id \in Nat /\ b[i].set \in Nat
         /\ b[i].kind = "close" => b[i] = [kind |-> "close", ref |-> b[i].ref, row |-> b[i].row]
                                   /\ b[i].ref \in Nat /\ b[i].row \in Nat
<1>1. b[i] \in Marks
  BY ElementOfSeq
<1> QED  BY <1>1 DEF Marks

LEMMA AnchorIs ==
  ASSUME NEW n \in Nat, NEW x \in Nat
  PROVE  /\ Anchor(n, x) \in Marks /\ Anchor(n, x).kind = "anchor"
         /\ Anchor(n, x).id = n /\ Anchor(n, x).set = x
BY DEF Anchor, Marks

\* What is put into a body is there, between what was before
LEMMA PutIs ==
  ASSUME NEW b \in Seq(Marks), NEW new \in Seq(Marks), NEW p \in 0..Len(b)
  PROVE  /\ Put(b, p, new) \in Seq(Marks)
         /\ Len(Put(b, p, new)) = Len(b) + Len(new)
         /\ \A i \in 1..Len(b) + Len(new) :
               Put(b, p, new)[i] = IF i <= p THEN b[i]
                                   ELSE IF i <= p + Len(new) THEN new[i - p] ELSE b[i - Len(new)]
<1> DEFINE f == SubSeq(b, 1, p)
           l == SubSeq(b, p + 1, Len(b))
           h == f \o new
<1>0. Len(b) \in Nat /\ Len(new) \in Nat /\ p \in Int /\ p + 1 \in Int
  BY LenProperties
<1>1. /\ f \in Seq(Marks) /\ Len(f) = p
      /\ \A i \in 1..p : f[i] = b[i]
  <2>1. \A i \in 1..p : b[i] \in Marks
    BY <1>0, ElementOfSeq
  <2>2. /\ f \in Seq(Marks) /\ Len(f) = IF 1 <= p THEN p - 1 + 1 ELSE 0
        /\ \A i \in 1..p - 1 + 1 : f[i] = b[1 + i - 1]
    BY <1>0, <2>1, SubSeqProperties
  <2> QED  BY <1>0, <2>2
<1>2. /\ l \in Seq(Marks) /\ Len(l) = Len(b) - p
      /\ \A i \in 1..Len(b) - p : l[i] = b[p + i]
  <2>1. \A i \in p + 1..Len(b) : b[i] \in Marks
    BY <1>0, ElementOfSeq
  <2>2. /\ l \in Seq(Marks) /\ Len(l) = IF p + 1 <= Len(b) THEN Len(b) - (p + 1) + 1 ELSE 0
        /\ \A i \in 1..Len(b) - (p + 1) + 1 : l[i] = b[(p + 1) + i - 1]
    BY <1>0, <2>1, SubSeqProperties
  <2>3. \A i \in 1..Len(b) - p : i \in 1..Len(b) - (p + 1) + 1 /\ (p + 1) + i - 1 = p + i
    BY <1>0
  <2> QED  BY <1>0, <2>2, <2>3
<1>5. Put(b, p, new) = h \o l
  BY DEF Put
<1> HIDE DEF f, l
<1>3. /\ h \in Seq(Marks) /\ Len(h) = p + Len(new)
      /\ \A i \in 1..p + Len(new) : h[i] = IF i <= p THEN f[i] ELSE new[i - p]
  BY <1>1, ConcatProperties
<1> HIDE DEF h
<1>4. /\ h \o l \in Seq(Marks) /\ Len(h \o l) = p + Len(new) + (Len(b) - p)
      /\ \A i \in 1..p + Len(new) + (Len(b) - p) :
            (h \o l)[i] = IF i <= p + Len(new) THEN h[i] ELSE l[i - (p + Len(new))]
  <2>1. /\ h \o l \in Seq(Marks) /\ Len(h \o l) = Len(h) + Len(l)
        /\ \A i \in 1..Len(h) + Len(l) : (h \o l)[i] = IF i <= Len(h) THEN h[i] ELSE l[i - Len(h)]
    BY <1>2, <1>3, ConcatProperties
  <2> QED  BY <1>2, <1>3, <2>1
<1>6. ASSUME NEW i \in 1..Len(b) + Len(new)
      PROVE  (h \o l)[i] = IF i <= p THEN b[i]
                           ELSE IF i <= p + Len(new) THEN new[i - p] ELSE b[i - Len(new)]
  <2>1. i \in 1..p + Len(new) + (Len(b) - p)
    BY <1>0
  <2>2. CASE i <= p
    <3>1. i \in 1..p /\ i \in 1..p + Len(new) /\ i <= p + Len(new)
      BY <1>0, <2>2
    <3>2. (h \o l)[i] = h[i]
      BY <1>4, <2>1, <3>1
    <3>3. h[i] = f[i]
      BY <1>3, <2>2, <3>1
    <3> QED  BY <1>1, <2>2, <3>1, <3>2, <3>3
  <2>3. CASE ~(i <= p) /\ i <= p + Len(new)
    <3>1. (h \o l)[i] = h[i] /\ h[i] = new[i - p]
      BY <1>0, <1>3, <1>4, <2>1, <2>3
    <3> QED  BY <2>3, <3>1
  <2>4. CASE ~(i <= p + Len(new))
    <3>1. (h \o l)[i] = l[i - (p + Len(new))]
      BY <1>0, <1>4, <2>1, <2>4
    <3>2. i - (p + Len(new)) \in 1..Len(b) - p /\ p + (i - (p + Len(new))) = i - Len(new)
      BY <1>0, <2>4
    <3>3. l[i - (p + Len(new))] = b[i - Len(new)]
      BY <1>2, <3>2
    <3>4. ~(i <= p)
      BY <1>0, <2>4
    <3> QED  BY <2>4, <3>1, <3>3, <3>4
  <2> QED  BY <2>2, <2>3, <2>4
<1>7. Len(h \o l) = Len(b) + Len(new)
  BY <1>0, <1>4
<1> QED  BY <1>4, <1>5, <1>6, <1>7

\* Each mark of it is one of before or a new one
LEMMA PutFrom ==
  ASSUME NEW b \in Seq(Marks), NEW new \in Seq(Marks), NEW p \in 0..Len(b),
         NEW i \in 1..Len(Put(b, p, new))
  PROVE  \/ \E k \in 1..Len(b) : Put(b, p, new)[i] = b[k]
         \/ \E k \in 1..Len(new) : Put(b, p, new)[i] = new[k]
<1>0. Len(b) \in Nat /\ Len(new) \in Nat
  BY LenProperties
<1>1. i \in 1..Len(b) + Len(new)
  BY PutIs
<1>2. CASE i <= p
  <2>1. i \in 1..Len(b)
    BY <1>0, <1>1, <1>2
  <2>2. Put(b, p, new)[i] = b[i]
    BY <1>1, <1>2, PutIs
  <2> QED  BY <2>1, <2>2
<1>3. CASE ~(i <= p) /\ i <= p + Len(new)
  <2>1. Put(b, p, new)[i] = new[i - p] /\ i - p \in 1..Len(new)
    BY <1>0, <1>1, <1>3, PutIs
  <2> QED  BY <2>1
<1>4. CASE ~(i <= p + Len(new))
  <2>1. ~(i <= p) /\ i - Len(new) \in 1..Len(b)
    BY <1>0, <1>1, <1>4
  <2>2. Put(b, p, new)[i] = b[i - Len(new)]
    BY <1>1, <1>4, <2>1, PutIs
  <2> QED  BY <2>1, <2>2
<1> QED  BY <1>2, <1>3, <1>4

\* A single mark put into a body leaves each anchor once, if it is new
LEMMA PutOne ==
  ASSUME NEW b \in Seq(Marks), NEW m \in Marks, NEW p \in 0..Len(b), Once(b),
         m.kind = "anchor" => m.id \notin AnchorIds(b)
  PROVE  /\ Put(b, p, <<m>>) \in Seq(Marks) /\ Once(Put(b, p, <<m>>))
         /\ \A a \in AnchorsOf(Put(b, p, <<m>>)) : a \in AnchorsOf(b) \/ (a = m /\ m.kind = "anchor")
<1>0. Len(b) \in Nat
  BY LenProperties
<1>1. <<m>> \in Seq(Marks) /\ Len(<<m>>) = 1 /\ <<m>>[1] = m
  OBVIOUS
<1> DEFINE r == Put(b, p, <<m>>)
<1>2. /\ r \in Seq(Marks) /\ Len(r) = Len(b) + 1
      /\ \A i \in 1..Len(b) + 1 :
            r[i] = IF i <= p THEN b[i] ELSE IF i <= p + 1 THEN <<m>>[i - p] ELSE b[i - 1]
  BY <1>1, PutIs
<1> HIDE DEF r
<1>3. \A i \in 1..Len(b) + 1 : r[i] = IF i <= p THEN b[i] ELSE IF i = p + 1 THEN m ELSE b[i - 1]
  <2> TAKE i \in 1..Len(b) + 1
  <2>1. CASE i = p + 1
    <3>1. ~(i <= p) /\ i <= p + 1 /\ i - p = 1
      BY <1>0, <2>1
    <3> QED  BY <1>1, <1>2, <2>1, <3>1
  <2>2. CASE i # p + 1
    <3>1. ~(i <= p) => ~(i <= p + 1)
      BY <1>0, <2>2
    <3> QED  BY <1>2, <2>2, <3>1
  <2> QED  BY <2>1, <2>2
<1> DEFINE from(i) == IF i <= p THEN i ELSE i - 1
<1>4. \A i \in 1..Len(b) + 1 : i # p + 1 => from(i) \in 1..Len(b) /\ r[i] = b[from(i)]
  BY <1>0, <1>3
<1>5. Once(r)
  <2> SUFFICES ASSUME NEW i \in 1..Len(b) + 1, NEW j \in 1..Len(b) + 1,
                      r[i].kind = "anchor", r[j].kind = "anchor", r[i].id = r[j].id
               PROVE  i = j
    BY <1>2 DEF Once
  <2>1. CASE i # p + 1 /\ j # p + 1
    <3>1. from(i) = from(j)
      BY <1>4, <2>1 DEF Once
    <3> QED  BY <1>0, <2>1, <3>1
  <2>2. CASE i = p + 1 /\ j # p + 1
    <3>1. r[i] = m
      BY <1>0, <1>3, <2>2
    <3>2. r[j].id \in AnchorIds(b)
      BY <1>4, <2>2, IdAt
    <3> QED  BY <3>1, <3>2
  <2>3. CASE i # p + 1 /\ j = p + 1
    <3>1. r[j] = m
      BY <1>0, <1>3, <2>3
    <3>2. r[i].id \in AnchorIds(b)
      BY <1>4, <2>3, IdAt
    <3> QED  BY <3>1, <3>2
  <2> QED  BY <2>1, <2>2, <2>3
<1>6. ASSUME NEW a \in AnchorsOf(r) PROVE a \in AnchorsOf(b) \/ (a = m /\ m.kind = "anchor")
  <2>1. PICK i \in 1..Len(b) + 1 : r[i] = a /\ r[i].kind = "anchor"
    BY <1>2, AnchorAt
  <2>2. CASE i = p + 1
    BY <1>0, <1>3, <2>1, <2>2
  <2>3. CASE i # p + 1
    BY <1>4, <2>1, <2>3, AnchorAt
  <2> QED  BY <2>2, <2>3
<1> QED  BY <1>2, <1>5, <1>6 DEF r

LEMMA SubSeqIs ==
  ASSUME NEW b \in Seq(Marks), NEW m \in 1..Len(b) + 1, NEW n \in m - 1..Len(b)
  PROVE  /\ SubSeq(b, m, n) \in Seq(Marks) /\ Len(SubSeq(b, m, n)) = n - m + 1
         /\ \A k \in 1..n - m + 1 : m + k - 1 \in m..n /\ SubSeq(b, m, n)[k] = b[m + k - 1]
<1>0. Len(b) \in Nat /\ m \in Int /\ n \in Int
  BY LenProperties
<1>1. \A i \in m..n : b[i] \in Marks
  BY <1>0, ElementOfSeq
<1>2. /\ SubSeq(b, m, n) \in Seq(Marks) /\ Len(SubSeq(b, m, n)) = IF m <= n THEN n - m + 1 ELSE 0
      /\ \A k \in 1..n - m + 1 : SubSeq(b, m, n)[k] = b[m + k - 1]
  BY <1>0, <1>1, SubSeqProperties
<1> QED  BY <1>0, <1>2

\* A cut takes its anchors out of the body
LEMMA CutIs ==
  ASSUME NEW b \in Seq(Marks), NEW i \in 1..Len(b), NEW j \in i..Len(b), Once(b)
  PROVE  LET rest == SubSeq(b, 1, i - 1) \o SubSeq(b, j + 1, Len(b))
             gone == SubSeq(b, i, j)
         IN  /\ rest \in Seq(Marks) /\ Once(rest) /\ AnchorsOf(rest) \subseteq AnchorsOf(b)
             /\ gone \in Seq(Marks) /\ AnchorsOf(gone) \subseteq AnchorsOf(b)
             /\ AnchorIds(rest) \cap AnchorIds(gone) = {}
<1> DEFINE f == SubSeq(b, 1, i - 1)
           l == SubSeq(b, j + 1, Len(b))
           gone == SubSeq(b, i, j)
           rest == f \o l
           from(k) == IF k < i THEN k ELSE k + (j - i + 1)
<1>0. Len(b) \in Nat /\ i \in Int /\ j \in Int
  BY LenProperties
<1>1. /\ f \in Seq(Marks) /\ Len(f) = i - 1
      /\ \A k \in 1..i - 1 : f[k] = b[k]
  <2>1. 1 \in 1..Len(b) + 1 /\ i - 1 \in 1 - 1..Len(b)
    BY <1>0
  <2>2. /\ f \in Seq(Marks) /\ Len(f) = (i - 1) - 1 + 1
        /\ \A k \in 1..(i - 1) - 1 + 1 : f[k] = b[1 + k - 1]
    BY <2>1, SubSeqIs
  <2> QED  BY <1>0, <2>2
<1>2. /\ l \in Seq(Marks) /\ Len(l) = Len(b) - j
      /\ \A k \in 1..Len(b) - j : l[k] = b[j + k]
  <2>1. j + 1 \in 1..Len(b) + 1 /\ Len(b) \in (j + 1) - 1..Len(b)
    BY <1>0
  <2>2. /\ l \in Seq(Marks) /\ Len(l) = Len(b) - (j + 1) + 1
        /\ \A k \in 1..Len(b) - (j + 1) + 1 : l[k] = b[(j + 1) + k - 1]
    BY <2>1, SubSeqIs
  <2>3. \A k \in 1..Len(b) - j : k \in 1..Len(b) - (j + 1) + 1 /\ (j + 1) + k - 1 = j + k
    BY <1>0
  <2> QED  BY <1>0, <2>2, <2>3
<1>3. /\ gone \in Seq(Marks) /\ Len(gone) = j - i + 1
      /\ \A k \in 1..j - i + 1 : i + k - 1 \in i..j /\ gone[k] = b[i + k - 1]
  <2>1. i \in 1..Len(b) + 1 /\ j \in i - 1..Len(b)
    BY <1>0
  <2> QED  BY <2>1, SubSeqIs
<1> HIDE DEF f, l, gone
<1>4. /\ rest \in Seq(Marks) /\ Len(rest) = Len(f) + Len(l)
      /\ \A k \in 1..Len(f) + Len(l) : rest[k] = IF k <= Len(f) THEN f[k] ELSE l[k - Len(f)]
  BY <1>1, <1>2, ConcatProperties
<1> HIDE DEF rest
<1>5. Len(rest) = (i - 1) + (Len(b) - j)
  BY <1>1, <1>2, <1>4
<1>6. ASSUME NEW k \in 1..Len(rest)
      PROVE  /\ rest[k] = b[from(k)] /\ from(k) \in 1..Len(b) /\ from(k) \notin i..j
             /\ k \in Nat
  <2>1. CASE k < i
    <3>1. k \in 1..i - 1 /\ k \in 1..Len(f) + Len(l) /\ k <= Len(f)
      BY <1>0, <1>1, <1>2, <1>5, <2>1
    <3>2. rest[k] = f[k] /\ f[k] = b[k]
      BY <1>1, <1>4, <3>1
    <3>3. k \in 1..Len(b) /\ k \notin i..j
      BY <1>0, <2>1, <3>1
    <3> QED  BY <2>1, <3>1, <3>2, <3>3
  <2>2. CASE ~(k < i)
    <3>1. k \in 1..Len(f) + Len(l) /\ ~(k <= Len(f)) /\ k - Len(f) \in 1..Len(b) - j
          /\ j + (k - Len(f)) = k + (j - i + 1)
      BY <1>0, <1>1, <1>2, <1>5, <2>2
    <3>2. rest[k] = l[k - Len(f)]
      BY <1>4, <3>1
    <3>3. l[k - Len(f)] = b[k + (j - i + 1)]
      BY <1>2, <3>1
    <3>4. k + (j - i + 1) \in 1..Len(b) /\ k + (j - i + 1) \notin i..j
      BY <1>0, <1>5, <2>2
    <3> QED  BY <1>5, <2>2, <3>2, <3>3, <3>4, <1>0
  <2> QED  BY <2>1, <2>2
<1>7. ASSUME NEW k \in 1..Len(rest), NEW n \in 1..Len(rest), from(k) = from(n) PROVE k = n
  <2>1. k \in Nat /\ n \in Nat /\ i \in Nat /\ j \in Nat /\ i <= j
    BY <1>0, <1>6
  <2> QED  BY <1>7, <2>1
<1> HIDE DEF from
<1>8. Once(rest)
  <2> SUFFICES ASSUME NEW k \in 1..Len(rest), NEW n \in 1..Len(rest),
                      rest[k].kind = "anchor", rest[n].kind = "anchor", rest[k].id = rest[n].id
               PROVE  k = n
    BY DEF Once
  <2>1. from(k) = from(n)
    BY <1>6 DEF Once
  <2> QED  BY <1>7, <2>1
<1>9. AnchorsOf(rest) \subseteq AnchorsOf(b)
  BY <1>6, AnchorAt
<1>10. AnchorsOf(gone) \subseteq AnchorsOf(b)
  <2>1. \A k \in 1..Len(gone) : i + k - 1 \in 1..Len(b) /\ gone[k] = b[i + k - 1]
    BY <1>0, <1>3
  <2> SUFFICES ASSUME NEW m \in AnchorsOf(gone) PROVE m \in AnchorsOf(b)
    OBVIOUS
  <2>2. PICK k \in 1..Len(gone) : gone[k] = m /\ gone[k].kind = "anchor"
    BY AnchorAt
  <2>3. b[i + k - 1] = m /\ b[i + k - 1].kind = "anchor" /\ i + k - 1 \in 1..Len(b)
    BY <2>1, <2>2
  <2> QED  BY <2>3, AnchorAt
<1>11. ASSUME NEW x \in AnchorIds(rest), x \in AnchorIds(gone) PROVE FALSE
  <2>1. PICK k \in 1..Len(rest) : rest[k].kind = "anchor" /\ rest[k].id = x
    BY IdAt
  <2>2. PICK n \in 1..Len(gone) : gone[n].kind = "anchor" /\ gone[n].id = x
    BY <1>11, IdAt
  <2>3. i + n - 1 \in i..j /\ i + n - 1 \in 1..Len(b) /\ gone[n] = b[i + n - 1]
    BY <1>0, <1>3
  <2>4. from(k) = i + n - 1
    BY <1>6, <2>1, <2>2, <2>3 DEF Once
  <2> QED  BY <1>6, <2>3, <2>4
<1> QED  BY <1>3, <1>4, <1>8, <1>9, <1>10, <1>11 DEF rest, f, l, gone

-----------------------------------------------------------------------------
(* Numbering the members of a set *)

Rank(F, i) == Cardinality({j \in F : j <= i})

LEMMA RankIs ==
  ASSUME NEW F, F \subseteq Nat, IsFiniteSet(F)
  PROVE  /\ Cardinality(F) \in Nat
         /\ \A i \in F : Rank(F, i) \in 1..Cardinality(F)
         /\ \A i, j \in F : Rank(F, i) = Rank(F, j) => i = j
<1> DEFINE upTo(i) == {j \in F : j <= i}
<1>1. Cardinality(F) \in Nat
  BY FS_CardinalityType
<1>2. \A i \in F : IsFiniteSet(upTo(i)) /\ Cardinality(upTo(i)) \in Nat
                   /\ Cardinality(upTo(i)) <= Cardinality(F)
  <2> TAKE i \in F
  <2>1. upTo(i) \in SUBSET F
    OBVIOUS
  <2> HIDE DEF upTo
  <2>2. IsFiniteSet(upTo(i)) /\ Cardinality(upTo(i)) <= Cardinality(F)
    BY <2>1, FS_Subset
  <2> QED  BY <2>2, FS_CardinalityType
<1>3. \A i \in F : Cardinality(upTo(i)) # 0
  <2> TAKE i \in F
  <2>1. i \in upTo(i)
    OBVIOUS
  <2> HIDE DEF upTo
  <2> QED  BY <1>2, <2>1, FS_EmptySet
<1>4. ASSUME NEW i \in F, NEW j \in F, i < j PROVE Cardinality(upTo(i)) # Cardinality(upTo(j))
  <2>1. upTo(i) \in SUBSET upTo(j) /\ j \in upTo(j) /\ j \notin upTo(i)
    <3>1. i \in Nat /\ j \in Nat /\ ~(j <= i) /\ j <= j
      BY <1>4
    <3>2. \A k \in F : k \in Nat /\ (k <= i => k <= j)
      BY <1>4, <3>1
    <3> QED  BY <3>1, <3>2
  <2> HIDE DEF upTo
  <2> QED  BY <1>2, <2>1, FS_Subset
<1>5. \A i : Rank(F, i) = Cardinality(upTo(i))
  BY DEF Rank
<1> HIDE DEF upTo
<1>6. \A i \in F : Rank(F, i) \in 1..Cardinality(F)
  BY <1>1, <1>2, <1>3, <1>5
<1>7. \A i, j \in F : Rank(F, i) = Rank(F, j) => i = j
  <2> TAKE i, j \in F
  <2>1. i \in Nat /\ j \in Nat
    OBVIOUS
  <2>2. CASE i < j
    BY <1>4, <1>5, <2>2
  <2>3. CASE j < i
    BY <1>4, <1>5, <2>3
  <2> QED  BY <2>1, <2>2, <2>3
<1> QED  BY <1>1, <1>6, <1>7

LEMMA RankOnto ==
  ASSUME NEW F, F \subseteq Nat, IsFiniteSet(F), NEW n \in 1..Cardinality(F)
  PROVE  \E i \in F : Rank(F, i) = n
<1> DEFINE T == 1..Cardinality(F)
           f == [i \in F |-> Rank(F, i)]
<1>1. Cardinality(F) \in Nat /\ f \in [F -> T] /\ \A i, j \in F : f[i] = f[j] => i = j
  BY RankIs
<1>2. IsFiniteSet(T) /\ Cardinality(T) = Cardinality(F)
  BY <1>1, FS_Interval
<1>3. n \in T
  OBVIOUS
<1> HIDE DEF T
<1>4. f \in Injection(F, T)
  BY <1>1 DEF Injection, IsInjective
<1>5. f \in Surjection(F, T)
  <2> HIDE DEF f
  <2> QED  BY <1>2, <1>4, FS_Injection
<1>6. PICK i \in F : f[i] = n
  BY <1>3, <1>5 DEF Surjection
<1> QED  BY <1>6

-----------------------------------------------------------------------------
(* What a paste and a restore make of marks *)

LEMMA ListIs ==
  ASSUME NEW S, NEW n \in Nat, NEW f \in [1..n -> S]
  PROVE  f \in Seq(S) /\ Len(f) = n /\ \A i \in 1..n : f[i] \in S
OBVIOUS

LEMMA Greatest ==
  ASSUME NEW T, NEW n \in Nat, T \subseteq 0..n, T # {}
  PROVE  \E x \in T : \A y \in T : y <= x
<1> DEFINE U == {k \in Nat : \A x \in T : x <= k}
<1>1. U \subseteq Nat /\ n \in U
  OBVIOUS
<1>2. PICK u \in U : \A k \in U : u <= k
  <2> HIDE DEF U
  <2> QED  BY <1>1, Least
<1>3. CASE u \in T
  BY <1>3
<1>4. CASE u \notin T
  <2>1. \A x \in T : x \in Nat /\ x < u
    BY <1>4
  <2>2. PICK x \in T : TRUE
    OBVIOUS
  <2>3. u \in Nat /\ x \in Nat /\ x < u
    BY <2>1
  <2>4. u - 1 \in Nat
    BY <2>3
  <2>5. \A y \in T : y <= u - 1
    BY <2>1, <2>3
  <2>6. u - 1 \in U
    BY <2>4, <2>5
  <2>7. u <= u - 1
    BY <1>2, <2>6
  <2> QED  BY <2>3, <2>7
<1> QED  BY <1>3, <1>4

LEMMA FreshIs ==
  ASSUME NEW F, F \subseteq Nat, IsFiniteSet(F), minted \in Nat
  PROVE  /\ minted + Cardinality(F) \in Nat
         /\ \A i \in F : FreshId(F, i) \in minted + 1..minted + Cardinality(F)
         /\ \A i, j \in F : FreshId(F, i) = FreshId(F, j) => i = j
<1>1. \A i \in F : FreshId(F, i) = minted + Rank(F, i)
  BY DEF FreshId, Rank
<1>2. /\ Cardinality(F) \in Nat
      /\ \A i \in F : Rank(F, i) \in 1..Cardinality(F)
      /\ \A i, j \in F : Rank(F, i) = Rank(F, j) => i = j
  BY RankIs
<1> QED  BY <1>1, <1>2

LEMMA FreshNat ==
  ASSUME NEW F, F \subseteq Nat, IsFiniteSet(F), minted \in Nat
  PROVE  \A i \in F : FreshId(F, i) \in Nat
<1>1. /\ minted + Cardinality(F) \in Nat
      /\ \A i \in F : FreshId(F, i) \in minted + 1..minted + Cardinality(F)
  BY FreshIs
<1> QED  BY <1>1

LEMMA PlacesFinite ==
  ASSUME NEW b \in Seq(Marks), NEW F, F \subseteq 1..Len(b)
  PROVE  F \subseteq Nat /\ IsFiniteSet(F) /\ Len(b) \in Nat
<1>1. Len(b) \in Nat
  BY LenProperties
<1>2. IsFiniteSet(1..Len(b)) /\ F \in SUBSET (1..Len(b))
  BY <1>1, FS_Interval
<1>3. IsFiniteSet(F)
  BY <1>2, FS_Subset
<1> QED  BY <1>1, <1>3

\* The copies are anchors with numbers of their own, and the others stay
LEMMA ReconciledIs ==
  ASSUME minted \in Nat, NEW b \in Seq(Marks), NEW F, F \subseteq 1..Len(b)
  PROVE  /\ Reconciled(b, F) \in Seq(Marks) /\ Len(Reconciled(b, F)) = Len(b)
         /\ \A i \in 1..Len(b) :
               /\ i \in F => Reconciled(b, F)[i] = Anchor(FreshId(F, i), NoSet)
               /\ i \notin F /\ b[i].kind = "anchor" => Reconciled(b, F)[i] = b[i]
               /\ i \notin F /\ b[i].kind # "anchor" => Reconciled(b, F)[i].kind # "anchor"
<1> DEFINE at(id) == {i \in F : b[i].id = id}
           newId(id) == FreshId(F, CHOOSE i \in at(id) : \A j \in at(id) : j <= i)
           turned(i) == b[i].kind = "close" /\ \E j \in F : b[j].id = b[i].ref
           e(i) == IF i \in F THEN Anchor(FreshId(F, i), NoSet)
                   ELSE IF turned(i) THEN [b[i] EXCEPT !.ref = newId(b[i].ref)]
                   ELSE b[i]
           r == [i \in 1..Len(b) |-> e(i)]
<1>1. F \subseteq Nat /\ IsFiniteSet(F) /\ Len(b) \in Nat
  BY PlacesFinite
<1>2. \A i \in F : FreshId(F, i) \in Nat
  BY <1>1, FreshNat
<1>3. ASSUME NEW i \in 1..Len(b), turned(i)
      PROVE  [b[i] EXCEPT !.ref = newId(b[i].ref)] \in Marks /\ b[i].kind # "anchor"
             /\ [b[i] EXCEPT !.ref = newId(b[i].ref)].kind = b[i].kind
  <2>1. PICK k \in F : b[k].id = b[i].ref
    BY <1>3
  <2>2. k \in at(b[i].ref)
    BY <2>1
  <2>3. at(b[i].ref) \subseteq 0..Len(b)
    <3>1. at(b[i].ref) \subseteq 1..Len(b)
      OBVIOUS
    <3> HIDE DEF at
    <3> QED  BY <1>1, <3>1
  <2>4. \E m \in at(b[i].ref) : \A j \in at(b[i].ref) : j <= m
    <3> HIDE DEF at
    <3> QED  BY <1>1, <2>2, <2>3, Greatest
  <2>5. newId(b[i].ref) \in Nat
    BY <1>2, <2>4
  <2>6. b[i] = [kind |-> "close", ref |-> b[i].ref, row |-> b[i].row] /\ b[i].row \in Nat
    BY <1>3, MarkAtIs
  <2> HIDE DEF newId
  <2>7. [b[i] EXCEPT !.ref = newId(b[i].ref)] = [kind |-> "close", ref |-> newId(b[i].ref), row |-> b[i].row]
    BY <2>6
  <2> QED  BY <2>5, <2>6, <2>7 DEF Marks
<1> HIDE DEF newId, turned
<1>4. \A i \in F : Anchor(FreshId(F, i), NoSet) \in Marks
  BY <1>2, AnchorIs DEF NoSet
<1>5. \A i \in 1..Len(b) : e(i) \in Marks
  BY <1>3, <1>4, MarkAtIs
<1>6. Reconciled(b, F) = r
  BY DEF Reconciled, newId, turned
<1>7. r \in [1..Len(b) -> Marks] /\ \A i \in 1..Len(b) : r[i] = e(i)
  BY <1>5
<1>8. r \in Seq(Marks) /\ Len(r) = Len(b)
  <2> HIDE DEF r, e
  <2> QED  BY <1>1, <1>7, ListIs
<1>9. \A i \in 1..Len(b) :
         /\ i \in F => r[i] = Anchor(FreshId(F, i), NoSet)
         /\ i \notin F /\ b[i].kind = "anchor" => r[i] = b[i]
         /\ i \notin F /\ b[i].kind # "anchor" => r[i].kind # "anchor"
  <2> TAKE i \in 1..Len(b)
  <2>1. r[i] = e(i)
    BY <1>7
  <2> HIDE DEF r
  <2> QED  BY <1>3, <2>1
<1> QED  BY <1>6, <1>8, <1>9

\* So do the anchors a restore has to mint anew
LEMMA DedupeIs ==
  ASSUME minted \in Nat, NEW b \in Seq(Marks), NEW F, F \subseteq 1..Len(b), NEW n \in Nat \ {0}
  PROVE  LET r == DedupeRestoredAnchors(b, F, n)
         IN  /\ r \in Seq(Marks) /\ Len(r) = Len(b)
             /\ \A i \in 1..Len(b) :
                   /\ i \in F => /\ r[i].kind = "anchor" /\ r[i].id = FreshId(F, i)
                                 /\ r[i].set # NoSet
                   /\ i \notin F /\ b[i].kind = "anchor" => r[i] = b[i]
                   /\ i \notin F /\ b[i].kind # "anchor" => r[i].kind # "anchor"
<1> DEFINE newId(ref) == FreshId(F, CHOOSE j \in F : b[j].id = ref)
           set(i) == n + Cardinality({j \in F : j <= i}) - 1
           turned(i) == b[i].kind = "close" /\ \E j \in F : b[j].id = b[i].ref
           e(i) == IF i \in F THEN Anchor(FreshId(F, i), set(i))
                   ELSE IF turned(i) THEN [b[i] EXCEPT !.ref = newId(b[i].ref)]
                   ELSE b[i]
           r == [i \in 1..Len(b) |-> e(i)]
<1>1. F \subseteq Nat /\ IsFiniteSet(F) /\ Len(b) \in Nat
  BY PlacesFinite
<1>2. \A i \in F : FreshId(F, i) \in Nat
  BY <1>1, FreshNat
<1>3. ASSUME NEW i \in 1..Len(b), turned(i)
      PROVE  [b[i] EXCEPT !.ref = newId(b[i].ref)] \in Marks /\ b[i].kind # "anchor"
             /\ [b[i] EXCEPT !.ref = newId(b[i].ref)].kind = b[i].kind
  <2>1. newId(b[i].ref) \in Nat
    BY <1>2, <1>3
  <2>2. b[i] = [kind |-> "close", ref |-> b[i].ref, row |-> b[i].row] /\ b[i].row \in Nat
    BY <1>3, MarkAtIs
  <2> HIDE DEF newId
  <2>3. [b[i] EXCEPT !.ref = newId(b[i].ref)] = [kind |-> "close", ref |-> newId(b[i].ref), row |-> b[i].row]
    BY <2>2
  <2> QED  BY <2>1, <2>2, <2>3 DEF Marks
<1>4. \A i \in F : set(i) \in Nat \ {0}
  <2>1. \A i \in F : Rank(F, i) \in 1..Cardinality(F) /\ Cardinality(F) \in Nat
    BY <1>1, RankIs
  <2>2. \A i \in F : set(i) = n + Rank(F, i) - 1
    BY DEF Rank
  <2> HIDE DEF set
  <2> QED  BY <2>1, <2>2
<1> HIDE DEF newId, turned, set
<1>5. \A i \in F : /\ Anchor(FreshId(F, i), set(i)) \in Marks
                   /\ Anchor(FreshId(F, i), set(i)).kind = "anchor"
                   /\ Anchor(FreshId(F, i), set(i)).id = FreshId(F, i)
                   /\ Anchor(FreshId(F, i), set(i)).set # NoSet
  BY <1>2, <1>4, AnchorIs DEF NoSet
<1>6. \A i \in 1..Len(b) : e(i) \in Marks
  BY <1>3, <1>5, MarkAtIs
<1>7. DedupeRestoredAnchors(b, F, n) = r
  BY DEF DedupeRestoredAnchors, newId, turned, set
<1>8. r \in [1..Len(b) -> Marks] /\ \A i \in 1..Len(b) : r[i] = e(i)
  BY <1>6
<1>9. r \in Seq(Marks) /\ Len(r) = Len(b)
  <2> HIDE DEF r, e
  <2> QED  BY <1>1, <1>8, ListIs
<1>10. \A i \in 1..Len(b) :
         /\ i \in F => r[i].kind = "anchor" /\ r[i].id = FreshId(F, i) /\ r[i].set # NoSet
         /\ i \notin F /\ b[i].kind = "anchor" => r[i] = b[i]
         /\ i \notin F /\ b[i].kind # "anchor" => r[i].kind # "anchor"
  <2> TAKE i \in 1..Len(b)
  <2>1. r[i] = e(i)
    BY <1>8
  <2> HIDE DEF r
  <2> QED  BY <1>3, <1>5, <2>1
<1> QED  BY <1>7, <1>9, <1>10

-----------------------------------------------------------------------------
(* Snapshots *)

Snap == [frozen : Seq(Marks), retention : {"kept", "thinned"}]

\* Thinning keeps some of the snapshots and makes no others
LEMMA ThinnedIs ==
  ASSUME NEW list \in Seq(Snap)
  PROVE  /\ Thinned(list) \in Seq(Snap)
         /\ \A k \in 1..Len(Thinned(list)) : \E i \in 1..Len(list) : Thinned(list)[k] = list[i]
<1> DEFINE auto(i) == Cardinality({j \in i..Len(list) : list[j].retention = "thinned"})
           kept == {i \in 1..Len(list) : list[i].retention = "kept" \/ auto(i) <= AutomaticKeep}
           nth(n) == CHOOSE i \in kept : Cardinality({j \in kept : j <= i}) = n
           r == [n \in 1..Cardinality(kept) |-> list[nth(n)]]
<1>1. Thinned(list) = r
  BY DEF Thinned
<1>2. Len(list) \in Nat
  BY LenProperties
<1>3. kept \subseteq 1..Len(list)
  OBVIOUS
<1> HIDE DEF kept
<1>4. kept \subseteq Nat /\ IsFiniteSet(kept)
  <2>1. IsFiniteSet(1..Len(list)) /\ kept \in SUBSET (1..Len(list))
    BY <1>2, <1>3, FS_Interval
  <2>2. IsFiniteSet(kept)
    BY <2>1, FS_Subset
  <2> QED  BY <1>2, <1>3, <2>2
<1>5. \A n \in 1..Cardinality(kept) : nth(n) \in 1..Len(list)
  <2> TAKE n \in 1..Cardinality(kept)
  <2>1. \E i \in kept : Cardinality({j \in kept : j <= i}) = n
    BY <1>4, RankOnto DEF Rank
  <2>2. nth(n) \in kept
    BY <2>1
  <2> QED  BY <1>3, <2>2
<1> HIDE DEF nth
<1>6. \A n \in 1..Cardinality(kept) : list[nth(n)] \in Snap
  BY <1>5, ElementOfSeq
<1>7. r \in [1..Cardinality(kept) -> Snap]
  BY <1>6
<1>8. Cardinality(kept) \in Nat
  BY <1>4, RankIs
<1>9. r \in Seq(Snap) /\ Len(r) = Cardinality(kept)
  <2> HIDE DEF r
  <2> QED  BY <1>7, <1>8, ListIs
<1>10. \A k \in 1..Len(r) : r[k] = list[nth(k)]
  BY <1>9
<1> QED  BY <1>1, <1>5, <1>9, <1>10

LEMMA CapturedIs ==
  ASSUME NEW s \in Scene, snaps[s] \in Seq(Snap), body[s] \in Seq(Marks),
         NEW retention \in {"kept", "thinned"}
  PROVE  /\ Captured(s, retention) \in Seq(Snap)
         /\ \A k \in 1..Len(Captured(s, retention)) :
               \/ \E i \in 1..Len(snaps[s]) : Captured(s, retention)[k] = snaps[s][i]
               \/ Captured(s, retention)[k].frozen = body[s]
<1> DEFINE new == [frozen |-> body[s], retention |-> retention]
           list == Append(snaps[s], new)
<1>1. new \in Snap
  BY DEF Snap
<1>2. new.frozen = body[s]
  OBVIOUS
<1> HIDE DEF new
<1>3. /\ list \in Seq(Snap) /\ Len(list) = Len(snaps[s]) + 1 /\ Len(snaps[s]) \in Nat
      /\ \A i \in 1..Len(snaps[s]) : list[i] = snaps[s][i]
      /\ list[Len(snaps[s]) + 1] = new
  BY <1>1, AppendProperties, LenProperties
<1>4. Captured(s, retention) = IF retention = "thinned" THEN Thinned(list) ELSE list
  BY DEF Captured, new
<1> HIDE DEF list
<1>5. \A i \in 1..Len(list) : (\E k \in 1..Len(snaps[s]) : list[i] = snaps[s][k]) \/ list[i].frozen = body[s]
  <2> TAKE i \in 1..Len(list)
  <2>1. i \in 1..Len(snaps[s]) \/ i = Len(snaps[s]) + 1
    BY <1>3
  <2> QED  BY <1>2, <1>3, <2>1
<1>6. /\ Captured(s, retention) \in Seq(Snap)
      /\ \A k \in 1..Len(Captured(s, retention)) : \E i \in 1..Len(list) : Captured(s, retention)[k] = list[i]
  <2>1. CASE retention = "thinned"
    BY <1>3, <1>4, <2>1, ThinnedIs
  <2>2. CASE retention # "thinned"
    BY <1>3, <1>4, <2>2
  <2> QED  BY <2>1, <2>2
<1> QED  BY <1>5, <1>6

-----------------------------------------------------------------------------
(***************************************************************************)
(* The invariant.  A pill without a set is the one case a restore does not *)
(* look for in other scenes.  So what has to be known of such a pill, in a *)
(* body or on its way from one to another, is that no snapshot has it.     *)
(***************************************************************************)
Clips == [kind : {"none", "cut", "copy"}, marks : Seq(Marks), consumed : BOOLEAN]

\* The anchors a paste will keep as they are
Carried(c) == IF c.kind = "cut" /\ ~c.consumed THEN AnchorsOf(c.marks) ELSE {}

InSnap(N, x) == \E s \in Scene : \E k \in 1..Len(N[s]) : x \in AnchorIds(N[s][k].frozen)

Numbered(b, n) == AnchorIds(b) \subseteq 1..n
Whole(f, n) == Once(f) /\ Numbered(f, n) /\ ~Unset(f)

Typed ==
  /\ body \in [Scene -> Seq(Marks)] /\ snaps \in [Scene -> Seq(Snap)]
  /\ clip \in Clips /\ minted \in Nat /\ sets \in Seq(Range(sets))

Numbers == (\A s \in Scene : Numbered(body[s], minted)) /\ Numbered(clip.marks, minted)

SnapsWhole == \A s \in Scene : \A k \in 1..Len(snaps[s]) : Whole(snaps[s][k].frozen, minted)

Waiting ==
  /\ \A s \in Scene : \A m \in AnchorsOf(body[s]) : m.set = NoSet => ~InSnap(snaps, m.id)
  /\ \A m \in Carried(clip) : m.set = NoSet =>
        ~InSnap(snaps, m.id) /\ \A s \in Scene : m.id \notin AnchorIds(body[s])

Inv == Typed /\ Numbers /\ SnapsWhole /\ OneAnchorOnePlace /\ Waiting

LEMMA OnlySets ==
  ASSUME Inv, UNCHANGED <<body, snaps, clip, minted>>, sets' \in Seq(Range(sets'))
  PROVE  Inv'
BY DEF Inv, Typed, Numbers, SnapsWhole, OneAnchorOnePlace, Waiting

LEMMA IdOf ==
  ASSUME NEW b, NEW m \in AnchorsOf(b)
  PROVE  m.id \in AnchorIds(b)
BY DEF AnchorIds

\* A scene that changes, and what has to be known of its new body
LEMMA Changed ==
  ASSUME Inv, NEW s \in Scene, NEW b \in Seq(Marks), Once(b),
         body' = [body EXCEPT ![s] = b],
         minted' \in Nat, minted <= minted', Numbered(b, minted'),
         clip' \in Clips, Numbered(clip'.marks, minted'),
         sets' \in Seq(Range(sets')),
         snaps' \in [Scene -> Seq(Snap)],
         \A t \in Scene : \A k \in 1..Len(snaps'[t]) : Whole(snaps'[t][k].frozen, minted'),
         \A x \in AnchorIds(b), t \in Scene \ {s} : x \notin AnchorIds(body[t]),
         \A m \in AnchorsOf(b) : m.set = NoSet => ~InSnap(snaps', m.id),
         \A t \in Scene \ {s} : \A m \in AnchorsOf(body[t]) : m.set = NoSet => ~InSnap(snaps', m.id),
         \A m \in Carried(clip') : m.set = NoSet =>
            /\ ~InSnap(snaps', m.id) /\ m.id \notin AnchorIds(b)
            /\ \A t \in Scene \ {s} : m.id \notin AnchorIds(body[t])
  PROVE  Inv'
<1>1. body \in [Scene -> Seq(Marks)] /\ minted \in Nat
  BY DEF Inv, Typed
<1>2. body'[s] = b /\ \A t \in Scene \ {s} : body'[t] = body[t]
  BY <1>1
<1>3. Typed'
  <2>1. body' \in [Scene -> Seq(Marks)]
    BY <1>1
  <2> QED  BY <2>1 DEF Typed
<1>4. Numbers'
  <2>1. \A t \in Scene : Numbered(body[t], minted)
    BY DEF Inv, Numbers
  <2>2. \A t \in Scene : Numbered(body[t], minted')
    BY <1>1, <2>1 DEF Numbered
  <2>3. \A t \in Scene : Numbered(body'[t], minted')
    <3> TAKE t \in Scene
    <3>1. CASE t = s
      BY <1>2, <3>1
    <3>2. CASE t # s
      BY <1>2, <2>2, <3>2
    <3> QED  BY <3>1, <3>2
  <2> QED  BY <2>3 DEF Numbers
<1>5. SnapsWhole'
  BY DEF SnapsWhole
<1>6. OneAnchorOnePlace'
  <2>1. \A t \in Scene : Once(body'[t])
    <3>1. \A t \in Scene : Once(body[t])
      BY DEF Inv, OneAnchorOnePlace
    <3> QED  BY <1>2, <3>1
  <2>2. ASSUME NEW t \in Scene, NEW u \in Scene, t # u
        PROVE  AnchorIds(body'[t]) \cap AnchorIds(body'[u]) = {}
    <3>1. AnchorIds(body[t]) \cap AnchorIds(body[u]) = {}
      BY <2>2 DEF Inv, OneAnchorOnePlace
    <3>2. CASE t = s
      <4>1. body'[t] = b /\ body'[u] = body[u] /\ u \in Scene \ {s}
        BY <1>2, <2>2, <3>2
      <4> QED  BY <4>1
    <3>3. CASE u = s
      <4>1. body'[u] = b /\ body'[t] = body[t] /\ t \in Scene \ {s}
        BY <1>2, <2>2, <3>3
      <4> QED  BY <4>1
    <3>4. CASE t # s /\ u # s
      BY <1>2, <3>1, <3>4
    <3> QED  BY <3>2, <3>3, <3>4
  <2> QED  BY <2>1, <2>2 DEF OneAnchorOnePlace
<1>7. Waiting'
  <2>1. ASSUME NEW t \in Scene, NEW m \in AnchorsOf(body'[t]), m.set = NoSet
        PROVE  ~InSnap(snaps', m.id)
    <3>1. CASE t = s
      BY <1>2, <2>1, <3>1
    <3>2. CASE t # s
      BY <1>2, <2>1, <3>2
    <3> QED  BY <3>1, <3>2
  <2>2. ASSUME NEW m \in Carried(clip'), m.set = NoSet, NEW t \in Scene
        PROVE  ~InSnap(snaps', m.id) /\ m.id \notin AnchorIds(body'[t])
    <3>1. CASE t = s
      BY <1>2, <2>2, <3>1
    <3>2. CASE t # s
      BY <1>2, <2>2, <3>2
    <3> QED  BY <3>1, <3>2
  <2>3. \A m \in Carried(clip') : m.set = NoSet => ~InSnap(snaps', m.id)
    OBVIOUS
  <2> QED  BY <2>1, <2>2, <2>3 DEF Waiting
<1> QED  BY <1>3, <1>4, <1>5, <1>6, <1>7 DEF Inv

\* The same where snapshots stay as they are
LEMMA ChangedBody ==
  ASSUME Inv, NEW s \in Scene, NEW b \in Seq(Marks), Once(b),
         body' = [body EXCEPT ![s] = b], snaps' = snaps,
         minted' \in Nat, minted <= minted', Numbered(b, minted'),
         clip' \in Clips, Numbered(clip'.marks, minted'),
         sets' \in Seq(Range(sets')),
         \A x \in AnchorIds(b), t \in Scene \ {s} : x \notin AnchorIds(body[t]),
         \A m \in AnchorsOf(b) : m.set = NoSet => ~InSnap(snaps, m.id),
         \A m \in Carried(clip') : m.set = NoSet =>
            /\ ~InSnap(snaps, m.id) /\ m.id \notin AnchorIds(b)
            /\ \A t \in Scene \ {s} : m.id \notin AnchorIds(body[t])
  PROVE  Inv'
<1>1. minted \in Nat /\ snaps' \in [Scene -> Seq(Snap)]
  BY DEF Inv, Typed
<1>2. \A t \in Scene : \A k \in 1..Len(snaps'[t]) : Whole(snaps'[t][k].frozen, minted')
  <2>1. \A t \in Scene : \A k \in 1..Len(snaps[t]) : Whole(snaps[t][k].frozen, minted)
    BY DEF Inv, SnapsWhole
  <2>2. \A f : Whole(f, minted) => Whole(f, minted')
    BY <1>1 DEF Whole, Numbered
  <2> QED  BY <2>1, <2>2
<1>3. \A t \in Scene \ {s} : \A m \in AnchorsOf(body[t]) : m.set = NoSet => ~InSnap(snaps', m.id)
  BY DEF Inv, Waiting
<1> QED  BY <1>1, <1>2, <1>3, Changed

\* Ids that were never given out are nowhere
LEMMA Unused ==
  ASSUME Inv, NEW x \in Nat, x > minted
  PROVE  /\ ~InSnap(snaps, x) /\ x \notin AnchorIds(clip.marks)
         /\ \A s \in Scene : x \notin AnchorIds(body[s])
<1>1. minted \in Nat /\ x \notin 1..minted
  BY DEF Inv, Typed
<1> QED  BY <1>1 DEF Inv, Numbers, SnapsWhole, Whole, Numbered, InSnap

LEMMA CarriedIs ==
  ASSUME NEW c, NEW m \in Carried(c)
  PROVE  m \in AnchorsOf(c.marks) /\ m.id \in AnchorIds(c.marks) /\ c.kind = "cut" /\ ~c.consumed
BY IdOf DEF Carried

\* What is carried and has no set is in no body
LEMMA CarriedStays ==
  ASSUME Inv, NEW m \in Carried(clip), m.set = NoSet
  PROVE  ~InSnap(snaps, m.id) /\ m.id \in 1..minted /\ \A t \in Scene : m.id \notin AnchorIds(body[t])
<1>1. m.id \in AnchorIds(clip.marks)
  BY CarriedIs
<1> QED  BY <1>1 DEF Inv, Waiting, Numbers, Numbered

-----------------------------------------------------------------------------
(* Writing *)

LEMMA InitInv == Init => Inv
<1> SUFFICES ASSUME Init PROVE Inv
  OBVIOUS
<1>1. PICK s \in Scene, b \in StartBodies :
        body = [t \in Scene |-> IF t = s THEN b ELSE <<>>] /\ minted = Cardinality(AnchorIds(b))
  BY DEF Init
<1>2. b \in Seq(Marks) /\ Once(b) /\ AnchorIds(b) = 1..minted
  BY <1>1, StoryStartAssumption
<1>3. Len(<<>>) = 0 /\ <<>> \in Seq(Marks) /\ <<>> \in Seq(Snap)
  OBVIOUS
<1>4. AnchorIds(<<>>) = {} /\ AnchorsOf(<<>>) = {} /\ Once(<<>>)
  BY <1>3 DEF AnchorIds, AnchorsOf, Once
<1>5. minted \in Nat
  <2>1. IsFiniteSet(AnchorIds(b))
    <3> DEFINE P == {k \in 1..Len(b) : b[k].kind = "anchor"}
               f == [i \in P |-> b[i].id]
    <3>1. P \in SUBSET (1..Len(b)) /\ IsFiniteSet(P)
      BY <1>2, PlacesFinite
    <3>2. f \in Surjection(P, AnchorIds(b))
      BY DEF AnchorIds, AnchorsOf, Surjection
    <3> QED  BY <3>1, <3>2, FS_Surjection
  <2> QED  BY <1>1, <2>1, FS_CardinalityType
<1>6. clip = NoClip /\ snaps = [t \in Scene |-> <<>>] /\ sets \in StartSets
  BY DEF Init
<1>7. clip \in Clips /\ clip.marks = <<>> /\ Carried(clip) = {}
  BY <1>3, <1>4, <1>6 DEF NoClip, Clips, Carried
<1>8. \A t \in Scene : /\ body[t] \in Seq(Marks) /\ Once(body[t]) /\ AnchorIds(body[t]) \subseteq 1..minted
                       /\ t # s => AnchorIds(body[t]) = {}
  BY <1>1, <1>2, <1>3, <1>4
<1>9. Typed
  <2>1. body \in [Scene -> Seq(Marks)] /\ snaps \in [Scene -> Seq(Snap)]
    BY <1>1, <1>2, <1>3, <1>6
  <2> QED  BY <1>5, <1>6, <1>7, <2>1, StoryStartAssumption DEF Typed
<1>10. \A x : ~InSnap(snaps, x)
  BY <1>3, <1>6 DEF InSnap
<1>11. Numbers
  BY <1>4, <1>7, <1>8 DEF Numbers, Numbered
<1>12. SnapsWhole
  BY <1>3, <1>6 DEF SnapsWhole
<1>13. OneAnchorOnePlace
  BY <1>8 DEF OneAnchorOnePlace
<1>14. Waiting
  BY <1>7, <1>10 DEF Waiting
<1> QED  BY <1>9, <1>11, <1>12, <1>13, <1>14 DEF Inv

LEMMA InsertAnchorKeeps ==
  ASSUME Inv, NEW s \in Scene, NEW p \in 0..Len(body[s]), NEW x \in 1..Len(sets), InsertAnchor(s, p, x)
  PROVE  Inv'
<1>1. body[s] \in Seq(Marks) /\ Once(body[s]) /\ minted \in Nat /\ sets \in Seq(Range(sets)) /\ clip \in Clips
  BY DEF Inv, Typed, OneAnchorOnePlace
<1>2. x \in Nat \ {0}
  <2>1. Len(sets) \in Nat
    BY <1>1, LenProperties
  <2> QED  BY <2>1
<1> DEFINE m == Anchor(minted + 1, x)
           b == Put(body[s], p, <<m>>)
<1>3. m \in Marks /\ m.kind = "anchor" /\ m.id = minted + 1 /\ m.set = x /\ m.set # NoSet
  BY <1>1, <1>2, AnchorIs DEF NoSet
<1>4. /\ body' = [body EXCEPT ![s] = b] /\ minted' = minted + 1
      /\ UNCHANGED <<sets, snaps, clip>>
  BY DEF InsertAnchor
<1> HIDE DEF m
<1>5. /\ ~InSnap(snaps, minted + 1) /\ minted + 1 \notin AnchorIds(clip.marks)
      /\ \A t \in Scene : minted + 1 \notin AnchorIds(body[t])
  BY <1>1, Unused
<1>6. /\ b \in Seq(Marks) /\ Once(b)
      /\ \A a \in AnchorsOf(b) : a \in AnchorsOf(body[s]) \/ a = m
  BY <1>1, <1>3, <1>5, PutOne
<1> HIDE DEF b
<1>7. \A y \in AnchorIds(b) : y \in AnchorIds(body[s]) \/ y = minted + 1
  BY <1>3, <1>6 DEF AnchorIds
<1>8. Numbered(b, minted') /\ Numbered(clip'.marks, minted') /\ minted' \in Nat /\ minted <= minted'
  <2>1. AnchorIds(body[s]) \subseteq 1..minted /\ AnchorIds(clip.marks) \subseteq 1..minted
    BY DEF Inv, Numbers, Numbered
  <2> QED  BY <1>1, <1>4, <1>7, <2>1 DEF Numbered
<1>9. \A y \in AnchorIds(b), t \in Scene \ {s} : y \notin AnchorIds(body[t])
  BY <1>5, <1>7 DEF Inv, OneAnchorOnePlace
<1>10. \A a \in AnchorsOf(b) : a.set = NoSet => ~InSnap(snaps, a.id)
  BY <1>3, <1>6 DEF Inv, Waiting
<1>11. \A a \in Carried(clip') : a.set = NoSet =>
          /\ ~InSnap(snaps, a.id) /\ a.id \notin AnchorIds(b)
          /\ \A t \in Scene \ {s} : a.id \notin AnchorIds(body[t])
  BY <1>4, <1>5, <1>7, CarriedStays, CarriedIs
<1>12. clip' \in Clips /\ sets' \in Seq(Range(sets'))
  BY <1>1, <1>4
<1> QED  BY <1>4, <1>6, <1>8, <1>9, <1>10, <1>11, <1>12, ChangedBody

LEMMA InsertCloseKeeps ==
  ASSUME Inv, NEW s \in Scene, NEW p \in 0..Len(body[s]), NEW id \in 1..minted,
         NEW row \in {WholeSet, 1}, InsertClose(s, p, id, row)
  PROVE  Inv'
<1>1. body[s] \in Seq(Marks) /\ Once(body[s]) /\ minted \in Nat /\ sets \in Seq(Range(sets)) /\ clip \in Clips
  BY DEF Inv, Typed, OneAnchorOnePlace
<1> DEFINE m == Close(id, row)
           b == Put(body[s], p, <<m>>)
<1>3. m \in Marks /\ m.kind # "anchor"
  BY <1>1 DEF Marks, Close, WholeSet
<1>4. body' = [body EXCEPT ![s] = b] /\ UNCHANGED <<sets, snaps, clip, minted>>
  BY DEF InsertClose
<1> HIDE DEF m
<1>6. b \in Seq(Marks) /\ Once(b) /\ AnchorsOf(b) \subseteq AnchorsOf(body[s])
  BY <1>1, <1>3, PutOne
<1> HIDE DEF b
<1>7. AnchorIds(b) \subseteq AnchorIds(body[s])
  BY <1>6 DEF AnchorIds
<1>8. Numbered(b, minted') /\ Numbered(clip'.marks, minted') /\ minted' \in Nat /\ minted <= minted'
  BY <1>1, <1>4, <1>7 DEF Inv, Numbers, Numbered
<1>9. \A y \in AnchorIds(b), t \in Scene \ {s} : y \notin AnchorIds(body[t])
  BY <1>7 DEF Inv, OneAnchorOnePlace
<1>10. \A a \in AnchorsOf(b) : a.set = NoSet => ~InSnap(snaps, a.id)
  BY <1>6 DEF Inv, Waiting
<1>11. \A a \in Carried(clip') : a.set = NoSet =>
          /\ ~InSnap(snaps, a.id) /\ a.id \notin AnchorIds(b)
          /\ \A t \in Scene \ {s} : a.id \notin AnchorIds(body[t])
  BY <1>4, <1>7, CarriedStays
<1>12. clip' \in Clips /\ sets' \in Seq(Range(sets'))
  BY <1>1, <1>4
<1> QED  BY <1>4, <1>6, <1>8, <1>9, <1>10, <1>11, <1>12, ChangedBody

LEMMA RecordIs ==
  ASSUME NEW kind \in {"cut", "copy"}, NEW marks \in Seq(Marks), RecordClipboard(kind, marks)
  PROVE  /\ clip' \in Clips /\ AnchorIds(clip'.marks) \subseteq AnchorIds(marks)
         /\ kind = "copy" => Carried(clip') = {}
         /\ Carried(clip') \subseteq AnchorsOf(marks)
<1>1. CASE AnchorIds(marks) = {}
  <2>1. clip' = NoClip
    BY <1>1 DEF RecordClipboard
  <2>2. NoClip \in Clips /\ NoClip.marks = <<>> /\ NoClip.kind = "none"
    BY DEF NoClip, Clips
  <2>3. AnchorIds(<<>>) = {}
    BY DEF AnchorIds, AnchorsOf
  <2> QED  BY <2>1, <2>2, <2>3 DEF Carried
<1>2. CASE AnchorIds(marks) # {}
  <2>1. clip' = [kind |-> kind, marks |-> marks, consumed |-> FALSE]
    BY <1>2 DEF RecordClipboard
  <2> QED  BY <2>1 DEF Clips, Carried
<1> QED  BY <1>1, <1>2

LEMMA CutKeeps ==
  ASSUME Inv, NEW s \in Scene, NEW i \in 1..Len(body[s]), NEW j \in 1..Len(body[s]), i <= j, Cut(s, i, j)
  PROVE  Inv'
<1>1. body[s] \in Seq(Marks) /\ Once(body[s]) /\ minted \in Nat /\ sets \in Seq(Range(sets)) /\ clip \in Clips
  BY DEF Inv, Typed, OneAnchorOnePlace
<1>2. j \in i..Len(body[s])
  <2>1. Len(body[s]) \in Nat
    BY <1>1, LenProperties
  <2> QED  BY <2>1
<1> DEFINE b == SubSeq(body[s], 1, i - 1) \o SubSeq(body[s], j + 1, Len(body[s]))
           gone == SubSeq(body[s], i, j)
<1>3. /\ body' = [body EXCEPT ![s] = b] /\ RecordClipboard("cut", gone)
      /\ UNCHANGED <<sets, snaps, minted>>
  BY DEF Cut
<1>4. /\ b \in Seq(Marks) /\ Once(b) /\ AnchorsOf(b) \subseteq AnchorsOf(body[s])
      /\ gone \in Seq(Marks) /\ AnchorsOf(gone) \subseteq AnchorsOf(body[s])
      /\ AnchorIds(b) \cap AnchorIds(gone) = {}
  BY <1>1, <1>2, CutIs
<1> HIDE DEF b, gone
<1>5. AnchorIds(b) \subseteq AnchorIds(body[s]) /\ AnchorIds(gone) \subseteq AnchorIds(body[s])
  BY <1>4 DEF AnchorIds
<1>6. /\ clip' \in Clips /\ AnchorIds(clip'.marks) \subseteq AnchorIds(gone)
      /\ Carried(clip') \subseteq AnchorsOf(gone)
  BY <1>3, <1>4, RecordIs
<1>8. Numbered(b, minted') /\ Numbered(clip'.marks, minted') /\ minted' \in Nat /\ minted <= minted'
  BY <1>1, <1>3, <1>5, <1>6 DEF Inv, Numbers, Numbered
<1>9. \A y \in AnchorIds(body[s]), t \in Scene \ {s} : y \notin AnchorIds(body[t])
  BY DEF Inv, OneAnchorOnePlace
<1>10. \A a \in AnchorsOf(body[s]) : a.set = NoSet => ~InSnap(snaps, a.id)
  BY DEF Inv, Waiting
<1>11. \A a \in Carried(clip') : a.set = NoSet =>
          /\ ~InSnap(snaps, a.id) /\ a.id \notin AnchorIds(b)
          /\ \A t \in Scene \ {s} : a.id \notin AnchorIds(body[t])
  <2> TAKE a \in Carried(clip')
  <2>1. a \in AnchorsOf(gone) /\ a \in AnchorsOf(body[s])
    BY <1>4, <1>6
  <2>2. a.id \in AnchorIds(gone) /\ a.id \in AnchorIds(body[s])
    BY <2>1, IdOf
  <2> QED  BY <1>4, <1>9, <1>10, <2>1, <2>2
<1>12. sets' \in Seq(Range(sets'))
  BY <1>1, <1>3
<1>13. \A y \in AnchorIds(b), t \in Scene \ {s} : y \notin AnchorIds(body[t])
  BY <1>5, <1>9
<1>14. \A a \in AnchorsOf(b) : a.set = NoSet => ~InSnap(snaps, a.id)
  BY <1>4, <1>10
<1> QED  BY <1>3, <1>4, <1>6, <1>8, <1>11, <1>12, <1>13, <1>14, ChangedBody

LEMMA CopyKeeps ==
  ASSUME Inv, NEW s \in Scene, NEW i \in 1..Len(body[s]), NEW j \in 1..Len(body[s]), i <= j, Copy(s, i, j)
  PROVE  Inv'
<1>1. body \in [Scene -> Seq(Marks)] /\ body[s] \in Seq(Marks) /\ Once(body[s])
      /\ minted \in Nat /\ sets \in Seq(Range(sets))
  BY DEF Inv, Typed, OneAnchorOnePlace
<1>2. j \in i..Len(body[s])
  <2>1. Len(body[s]) \in Nat
    BY <1>1, LenProperties
  <2> QED  BY <2>1
<1> DEFINE some == SubSeq(body[s], i, j)
<1>3. RecordClipboard("copy", some) /\ UNCHANGED <<body, sets, snaps, minted>>
  BY DEF Copy
<1>4. some \in Seq(Marks) /\ AnchorsOf(some) \subseteq AnchorsOf(body[s])
  BY <1>1, <1>2, CutIs
<1> HIDE DEF some
<1>5. AnchorIds(some) \subseteq AnchorIds(body[s])
  BY <1>4 DEF AnchorIds
<1>6. clip' \in Clips /\ AnchorIds(clip'.marks) \subseteq AnchorIds(some) /\ Carried(clip') = {}
  BY <1>3, <1>4, RecordIs
<1>7. body' = [body EXCEPT ![s] = body[s]]
  BY <1>1, <1>3
<1>8. Numbered(body[s], minted') /\ Numbered(clip'.marks, minted') /\ minted' \in Nat /\ minted <= minted'
  BY <1>1, <1>3, <1>5, <1>6 DEF Inv, Numbers, Numbered
<1>9. \A y \in AnchorIds(body[s]), t \in Scene \ {s} : y \notin AnchorIds(body[t])
  BY DEF Inv, OneAnchorOnePlace
<1>10. \A a \in AnchorsOf(body[s]) : a.set = NoSet => ~InSnap(snaps, a.id)
  BY DEF Inv, Waiting
<1>11. sets' \in Seq(Range(sets')) /\ snaps' = snaps
  BY <1>1, <1>3
<1> QED  BY <1>1, <1>6, <1>7, <1>8, <1>9, <1>10, <1>11, ChangedBody

\* Two anchors of a pasted body that both stay as they are differ
LEMMA StaysIs ==
  ASSUME NEW b, NEW known, NEW i \in 1..Len(b), b[i].kind = "anchor", i \notin Reminted(b, known)
  PROVE  \/ b[i].id \in known /\ ~Repeated(b, i) /\ ~Arrived(b, i, known)
         \/ Arrived(b, i, known) /\ KeptByCut(b, i)
BY DEF Reminted, Arrived

LEMMA StayOnce ==
  ASSUME NEW b \in Seq(Marks), NEW known, NEW i \in 1..Len(b), NEW j \in 1..Len(b), i < j,
         b[i].kind = "anchor", b[j].kind = "anchor", b[i].id = b[j].id, j \notin Reminted(b, known)
  PROVE  FALSE
<1>1. Len(b) \in Nat
  BY LenProperties
<1>2. i \in 1..(j - 1)
  BY <1>1
<1>3. Repeated(b, j)
  BY <1>2 DEF Repeated
<1> QED  BY <1>3, StaysIs DEF KeptByCut

LEMMA PasteKeeps ==
  ASSUME ~PasteRestored, ~PasteUnset, Inv, NEW s \in Scene, NEW p \in 0..Len(body[s]), Paste(s, p)
  PROVE  Inv'
<1> DEFINE b == Put(body[s], p, clip.marks)
           known == AnchorIds(body[s])
           fresh == Reminted(b, known)
           r == Reconciled(b, fresh)
<1>1. /\ body[s] \in Seq(Marks) /\ minted \in Nat /\ sets \in Seq(Range(sets))
      /\ clip \in Clips /\ clip.marks \in Seq(Marks)
  BY DEF Inv, Typed, Clips
<1>2. /\ body' = [body EXCEPT ![s] = r] /\ minted' = minted + Cardinality(fresh)
      /\ clip' = [clip EXCEPT !.consumed = @ \/ \E i \in 1..Len(b) : Arrived(b, i, known) /\ KeptByCut(b, i)]
      /\ UNCHANGED <<sets, snaps>>
      /\ \A m \in AnchorsOf(clip.marks) : m.set = NoSet => m.id \notin known
      /\ \/ clip.kind = "copy" \/ clip.consumed
         \/ \A t \in Scene : AnchorIds(clip.marks) \cap AnchorIds(body[t]) = {}
  BY DEF Paste
<1>3. b \in Seq(Marks) /\ Len(b) \in Nat
  <2>1. b \in Seq(Marks)
    BY <1>1, PutIs
  <2> HIDE DEF b
  <2> QED  BY <2>1, LenProperties
<1>4. \A i \in 1..Len(b) : (\E k \in 1..Len(body[s]) : b[i] = body[s][k])
                        \/ (\E k \in 1..Len(clip.marks) : b[i] = clip.marks[k])
  BY <1>1, PutFrom
<1> HIDE DEF b
<1>5. fresh \subseteq 1..Len(b) /\ \A i \in fresh : b[i].kind = "anchor"
  BY DEF Reminted, Arrived
<1>6. \A i \in 1..Len(b) : b[i].kind = "anchor" =>
         /\ b[i] \in AnchorsOf(body[s]) \/ b[i] \in AnchorsOf(clip.marks)
         /\ b[i].id \in 1..minted /\ b[i].id \in Nat
  <2> TAKE i \in 1..Len(b)
  <2>1. ASSUME b[i].kind = "anchor" PROVE b[i] \in AnchorsOf(body[s]) \/ b[i] \in AnchorsOf(clip.marks)
    BY <1>4, <2>1, AnchorAt
  <2>2. AnchorIds(body[s]) \subseteq 1..minted /\ AnchorIds(clip.marks) \subseteq 1..minted
    BY DEF Inv, Numbers, Numbered
  <2> QED  BY <1>1, <2>1, <2>2, IdOf
<1> HIDE DEF fresh
<1>7. /\ r \in Seq(Marks) /\ Len(r) = Len(b)
      /\ \A i \in 1..Len(b) :
            /\ i \in fresh => r[i] = Anchor(FreshId(fresh, i), NoSet)
            /\ i \notin fresh /\ b[i].kind = "anchor" => r[i] = b[i]
            /\ i \notin fresh /\ b[i].kind # "anchor" => r[i].kind # "anchor"
  BY <1>1, <1>3, <1>5, ReconciledIs
<1> HIDE DEF r
<1>8. /\ minted + Cardinality(fresh) \in Nat
      /\ \A i \in fresh : FreshId(fresh, i) \in minted + 1..minted + Cardinality(fresh)
      /\ \A i, j \in fresh : FreshId(fresh, i) = FreshId(fresh, j) => i = j
  <2>1. fresh \subseteq Nat /\ IsFiniteSet(fresh)
    BY <1>3, <1>5, PlacesFinite
  <2> QED  BY <1>1, <2>1, FreshIs
<1>9. minted' \in Nat /\ minted <= minted'
  <2>1. Cardinality(fresh) \in Nat
    <3>1. fresh \subseteq Nat /\ IsFiniteSet(fresh)
      BY <1>3, <1>5, PlacesFinite
    <3> QED  BY <3>1, FS_CardinalityType
  <2> QED  BY <1>1, <1>2, <2>1
\* An anchor of the new body is a copy with a new id, or one that stays
<1>10. \A i \in 1..Len(b) : r[i].kind = "anchor" =>
          \/ i \in fresh /\ r[i].id = FreshId(fresh, i) /\ r[i].id \in minted + 1..minted' /\ r[i].id \in Nat
          \/ i \notin fresh /\ b[i].kind = "anchor" /\ r[i] = b[i]
  <2> TAKE i \in 1..Len(b)
  <2>1. CASE i \in fresh
    <3>1. FreshId(fresh, i) \in minted + 1..minted' /\ FreshId(fresh, i) \in Nat
      BY <1>1, <1>2, <1>8, <2>1
    <3>2. r[i] = Anchor(FreshId(fresh, i), NoSet)
      BY <1>7, <2>1
    <3>3. r[i].id = FreshId(fresh, i)
      BY <3>1, <3>2, AnchorIs DEF NoSet
    <3> QED  BY <2>1, <3>1, <3>3
  <2>2. CASE i \notin fresh
    BY <1>7, <2>2
  <2> QED  BY <2>1, <2>2
\* One that stays was there, or was cut and is nowhere now
<1>11. ASSUME NEW i \in 1..Len(b), i \notin fresh, b[i].kind = "anchor"
       PROVE  \/ b[i].id \in known
              \/ /\ KeptByCut(b, i) /\ Arrived(b, i, known)
                 /\ b[i].id \in AnchorIds(clip.marks) /\ clip.kind = "cut" /\ ~clip.consumed
                 /\ \A t \in Scene : b[i].id \notin AnchorIds(body[t])
  <2>1. \/ b[i].id \in known
        \/ Arrived(b, i, known) /\ KeptByCut(b, i)
    BY <1>11, StaysIs DEF fresh
  <2>2. ASSUME KeptByCut(b, i)
        PROVE  /\ b[i].id \in AnchorIds(clip.marks) /\ clip.kind = "cut" /\ ~clip.consumed
               /\ \A t \in Scene : b[i].id \notin AnchorIds(body[t])
    BY <1>2, <2>2 DEF KeptByCut
  <2> QED  BY <2>1, <2>2
<1>12. Once(r)
  <2>1. ASSUME NEW i \in 1..Len(b), NEW j \in 1..Len(b), i < j,
               r[i].kind = "anchor", r[j].kind = "anchor", r[i].id = r[j].id
        PROVE  FALSE
    <3>1. CASE i \in fresh /\ j \in fresh
      BY <1>3, <1>8, <1>10, <2>1, <3>1
    <3>2. CASE i \in fresh /\ j \notin fresh
      <4>1. r[j] = b[j] /\ b[j].kind = "anchor" /\ r[i].id \in minted + 1..minted'
        BY <1>10, <2>1, <3>2
      <4>2. b[j].id \in 1..minted
        BY <1>6, <4>1
      <4> QED  BY <1>1, <1>9, <2>1, <4>1, <4>2
    <3>3. CASE i \notin fresh /\ j \in fresh
      <4>1. r[i] = b[i] /\ b[i].kind = "anchor" /\ r[j].id \in minted + 1..minted'
        BY <1>10, <2>1, <3>3
      <4>2. b[i].id \in 1..minted
        BY <1>6, <4>1
      <4> QED  BY <1>1, <1>9, <2>1, <4>1, <4>2
    <3>4. CASE i \notin fresh /\ j \notin fresh
      <4>1. r[i] = b[i] /\ b[i].kind = "anchor" /\ r[j] = b[j] /\ b[j].kind = "anchor"
        BY <1>10, <2>1, <3>4
      <4> QED  BY <1>3, <2>1, <3>4, <4>1, StayOnce DEF fresh
    <3> QED  BY <3>1, <3>2, <3>3, <3>4
  <2> SUFFICES ASSUME NEW i \in 1..Len(b), NEW j \in 1..Len(b),
                      r[i].kind = "anchor", r[j].kind = "anchor", r[i].id = r[j].id, i # j
               PROVE  FALSE
    BY <1>7 DEF Once
  <2>2. i < j \/ j < i
    BY <1>3
  <2> QED  BY <2>1, <2>2
\* The ids of the new body
<1>13. \A x \in AnchorIds(r) :
          \/ x \in minted + 1..minted' /\ x \in Nat
          \/ x \in known
          \/ /\ x \in AnchorIds(clip.marks) /\ \A t \in Scene : x \notin AnchorIds(body[t])
             /\ \E i \in 1..Len(b) : Arrived(b, i, known) /\ KeptByCut(b, i)
  <2> TAKE x \in AnchorIds(r)
  <2>1. PICK i \in 1..Len(b) : r[i].kind = "anchor" /\ r[i].id = x
    BY <1>7, IdAt
  <2>2. CASE i \in fresh
    BY <1>10, <2>1, <2>2
  <2>3. CASE i \notin fresh
    <3>1. b[i].kind = "anchor" /\ b[i].id = x
      BY <1>10, <2>1, <2>3
    <3> QED  BY <1>11, <2>3, <3>1
  <2> QED  BY <2>2, <2>3
<1>14. Numbered(r, minted')
  <2>1. AnchorIds(body[s]) \subseteq 1..minted /\ AnchorIds(clip.marks) \subseteq 1..minted
    BY DEF Inv, Numbers, Numbered
  <2>2. \A x \in 1..minted : x \in 1..minted'
    BY <1>1, <1>9
  <2>3. \A x \in minted + 1..minted' : x \in 1..minted'
    BY <1>1, <1>9
  <2> QED  BY <1>13, <2>1, <2>2, <2>3 DEF Numbered
<1>15. \A x \in AnchorIds(r), t \in Scene \ {s} : x \notin AnchorIds(body[t])
  <2> TAKE x \in AnchorIds(r), t \in Scene \ {s}
  <2>1. ASSUME x \in minted + 1..minted', x \in Nat PROVE x \notin AnchorIds(body[t])
    <3>1. x > minted
      BY <1>1, <1>9, <2>1
    <3> QED  BY <2>1, <3>1, Unused
  <2>2. ASSUME x \in known PROVE x \notin AnchorIds(body[t])
    BY <2>2 DEF Inv, OneAnchorOnePlace
  <2> QED  BY <1>13, <2>1, <2>2
<1>16. ASSUME NEW m \in AnchorsOf(r), m.set = NoSet PROVE ~InSnap(snaps, m.id)
  <2>1. PICK i \in 1..Len(b) : r[i] = m /\ r[i].kind = "anchor"
    BY <1>7, AnchorAt
  <2>2. CASE i \in fresh
    <3>1. m.id \in minted + 1..minted' /\ m.id \in Nat
      BY <1>10, <2>1, <2>2
    <3>2. m.id > minted
      BY <1>1, <1>9, <3>1
    <3> QED  BY <3>1, <3>2, Unused
  <2>3. CASE i \notin fresh
    <3>1. b[i] = m /\ b[i].kind = "anchor"
      BY <1>10, <2>1, <2>3
    <3>2. CASE m \in AnchorsOf(body[s])
      BY <1>16, <3>2 DEF Inv, Waiting
    <3>3. CASE m \in AnchorsOf(clip.marks)
      <4>1. m.id \notin known
        BY <1>2, <1>16, <3>3
      <4>2. clip.kind = "cut" /\ ~clip.consumed
        BY <1>11, <2>3, <3>1, <4>1
      <4>3. m \in Carried(clip)
        BY <3>3, <4>2 DEF Carried
      <4> QED  BY <1>16, <4>3, CarriedStays
    <3> QED  BY <1>6, <3>1, <3>2, <3>3
  <2> QED  BY <2>2, <2>3
<1>17. /\ clip' \in Clips /\ clip'.marks = clip.marks
       /\ Carried(clip') \subseteq Carried(clip)
       /\ Carried(clip') # {} => ~\E i \in 1..Len(b) : Arrived(b, i, known) /\ KeptByCut(b, i)
  <2> DEFINE used == \E i \in 1..Len(b) : Arrived(b, i, known) /\ KeptByCut(b, i)
  <2>1. clip' = [clip EXCEPT !.consumed = clip.consumed \/ used] /\ used \in BOOLEAN
    BY <1>2
  <2> HIDE DEF used
  <2>2. /\ clip' \in Clips /\ clip'.marks = clip.marks /\ clip'.kind = clip.kind
        /\ clip'.consumed = (clip.consumed \/ used)
    BY <1>1, <2>1 DEF Clips
  <2> QED  BY <2>2 DEF Carried, used
<1>18. Numbered(clip'.marks, minted')
  <2>1. AnchorIds(clip.marks) \subseteq 1..minted
    BY DEF Inv, Numbers, Numbered
  <2> QED  BY <1>1, <1>9, <1>17, <2>1 DEF Numbered
<1>19. ASSUME NEW m \in Carried(clip'), m.set = NoSet
       PROVE  /\ ~InSnap(snaps, m.id) /\ m.id \notin AnchorIds(r)
              /\ \A t \in Scene \ {s} : m.id \notin AnchorIds(body[t])
  <2>1. /\ ~InSnap(snaps, m.id) /\ m.id \in 1..minted
        /\ \A t \in Scene : m.id \notin AnchorIds(body[t])
    BY <1>17, <1>19, CarriedStays
  <2>2. ~(m.id \in minted + 1..minted')
    BY <1>1, <1>9, <2>1
  <2> QED  BY <1>13, <1>17, <1>19, <2>1, <2>2
<1>20. snaps' = snaps /\ sets' \in Seq(Range(sets'))
  BY <1>1, <1>2
<1> QED  BY <1>2, <1>7, <1>9, <1>12, <1>14, <1>15, <1>16, <1>17, <1>18, <1>19, <1>20, ChangedBody

LEMMA CopyEndsKeeps ==
  ASSUME Inv, NEW ok \in BOOLEAN, CopyEnds(ok)
  PROVE  Inv'
<1>1. /\ body \in [Scene -> Seq(Marks)] /\ minted \in Nat /\ sets \in Seq(Range(sets))
      /\ clip \in Clips /\ snaps \in [Scene -> Seq(Snap)]
  BY DEF Inv, Typed
<1>2. CASE ~ok
  <2>1. UNCHANGED <<body, sets, snaps, clip, minted>>
    BY <1>2 DEF CopyEnds
  <2> QED  BY <1>1, <2>1, OnlySets
<1>3. CASE ok
  <2> DEFINE job == Head(copying)
             s == job.scene
             at == {i \in 1..Len(body[s]) : body[s][i].kind = "anchor" /\ body[s][i].id = job.id}
             b == [i \in DOMAIN body[s] |->
                     IF i \in at THEN [body[s][i] EXCEPT !.set = Len(sets) + 1] ELSE body[s][i]]
  <2>1. /\ body' = [body EXCEPT ![s] = b] /\ sets' = Append(sets, sets[job.set])
        /\ UNCHANGED <<snaps, clip, minted>>
    BY <1>3 DEF CopyEnds
  <2>2. sets' \in Seq(Range(sets')) /\ Len(sets) \in Nat
    <3> DEFINE S == Range(sets) \cup {sets[job.set]}
    <3>1. Append(sets, sets[job.set]) \in Seq(S)
      <4>1. sets \in Seq(S) /\ sets[job.set] \in S
        BY <1>1, SeqMonotonic
      <4> HIDE DEF S
      <4> QED  BY <4>1, AppendProperties
    <3> HIDE DEF S
    <3> QED  BY <1>1, <2>1, <3>1, SeqOfRange, LenProperties
  <2>3. CASE s \notin Scene
    <3>1. body' = body
      BY <1>1, <2>1, <2>3
    <3> QED  BY <2>1, <2>2, <3>1, OnlySets
  <2>4. CASE s \in Scene
    <3>1. body[s] \in Seq(Marks) /\ Once(body[s])
      BY <1>1, <2>4 DEF Inv, OneAnchorOnePlace
    <3>2. DOMAIN body[s] = 1..Len(body[s]) /\ Len(body[s]) \in Nat
      BY <3>1, LenProperties
    <3> HIDE DEF at, job
    <3>3. ASSUME NEW i \in 1..Len(body[s])
          PROVE  /\ b[i] \in Marks /\ b[i].kind = body[s][i].kind
                 /\ b[i].kind = "anchor" => /\ b[i].id = body[s][i].id
                                            /\ b[i].set = NoSet => b[i] = body[s][i]
      <4>1. CASE i \notin at
        <5>1. b[i] = body[s][i]
          BY <3>2, <4>1
        <5> QED  BY <3>1, <5>1, MarkAtIs
      <4>2. CASE i \in at
        <5>1. b[i] = [body[s][i] EXCEPT !.set = Len(sets) + 1]
          BY <3>2, <4>2
        <5>2. body[s][i].kind = "anchor"
          BY <4>2 DEF at
        <5>3. body[s][i] = [kind |-> "anchor", id |-> body[s][i].id, set |-> body[s][i].set]
              /\ body[s][i].id \in Nat
          BY <3>1, <5>2, MarkAtIs
        <5>4. b[i] = [kind |-> "anchor", id |-> body[s][i].id, set |-> Len(sets) + 1]
          BY <5>1, <5>3
        <5>5. b[i].set # NoSet /\ Len(sets) + 1 \in Nat
          BY <2>2, <5>4 DEF NoSet
        <5> HIDE DEF b
        <5> QED  BY <5>2, <5>3, <5>4, <5>5 DEF Marks
      <4> QED  BY <4>1, <4>2
    <3>4. b \in [1..Len(body[s]) -> Marks]
      BY <3>2, <3>3
    <3> HIDE DEF b
    <3>5. b \in Seq(Marks) /\ Len(b) = Len(body[s])
      BY <3>2, <3>4, ListIs
    <3>6. Once(b)
      <4> SUFFICES ASSUME NEW i \in 1..Len(b), NEW j \in 1..Len(b),
                          b[i].kind = "anchor", b[j].kind = "anchor", b[i].id = b[j].id
                   PROVE  i = j
        BY DEF Once
      <4>1. /\ i \in 1..Len(body[s]) /\ j \in 1..Len(body[s])
            /\ body[s][i].kind = "anchor" /\ body[s][j].kind = "anchor" /\ body[s][i].id = body[s][j].id
        BY <3>3, <3>5
      <4> QED  BY <3>1, <4>1 DEF Once
    <3>7. AnchorIds(b) \subseteq AnchorIds(body[s])
      <4> SUFFICES ASSUME NEW x \in AnchorIds(b) PROVE x \in AnchorIds(body[s])
        OBVIOUS
      <4>1. PICK i \in 1..Len(b) : b[i].kind = "anchor" /\ b[i].id = x
        BY IdAt
      <4>2. i \in 1..Len(body[s]) /\ body[s][i].kind = "anchor" /\ body[s][i].id = x
        BY <3>3, <3>5, <4>1
      <4> QED  BY <4>2, IdAt
    <3>8. ASSUME NEW m \in AnchorsOf(b), m.set = NoSet PROVE ~InSnap(snaps, m.id)
      <4>1. PICK i \in 1..Len(b) : b[i] = m /\ b[i].kind = "anchor"
        BY AnchorAt
      <4>2. i \in 1..Len(body[s]) /\ body[s][i] = m /\ body[s][i].kind = "anchor"
        BY <3>3, <3>5, <3>8, <4>1
      <4>3. m \in AnchorsOf(body[s])
        BY <4>2, AnchorAt
      <4> QED  BY <2>4, <3>8, <4>3 DEF Inv, Waiting
    <3>9. Numbered(b, minted') /\ Numbered(clip'.marks, minted') /\ minted' \in Nat /\ minted <= minted'
      BY <1>1, <2>1, <2>4, <3>7 DEF Inv, Numbers, Numbered
    <3>10. \A y \in AnchorIds(b), t \in Scene \ {s} : y \notin AnchorIds(body[t])
      BY <2>4, <3>7 DEF Inv, OneAnchorOnePlace
    <3>11. \A a \in Carried(clip') : a.set = NoSet =>
              /\ ~InSnap(snaps, a.id) /\ a.id \notin AnchorIds(b)
              /\ \A t \in Scene \ {s} : a.id \notin AnchorIds(body[t])
      BY <2>1, <2>4, <3>7, CarriedStays
    <3>12. clip' \in Clips /\ snaps' = snaps /\ body' = [body EXCEPT ![s] = b]
      BY <1>1, <2>1
    <3> HIDE DEF s
    <3> QED  BY <2>2, <2>4, <3>5, <3>6, <3>8, <3>9, <3>10, <3>11, <3>12, ChangedBody
  <2> QED  BY <2>3, <2>4
<1> QED  BY <1>2, <1>3

-----------------------------------------------------------------------------
(* Mutation sets *)

LEMMA SetChanges ==
  ASSUME Inv, NEW x \in 1..Len(sets), NEW v, sets' = [sets EXCEPT ![x] = v]
  PROVE  sets' \in Seq(Range(sets'))
<1> DEFINE S == Range(sets) \cup {v}
<1>1. sets \in Seq(Range(sets))
  BY DEF Inv, Typed
<1>2. Range(sets) \subseteq S /\ v \in S
  OBVIOUS
<1> HIDE DEF S
<1>3. sets \in Seq(S)
  BY <1>1, <1>2, SeqMonotonic
<1>4. sets' \in Seq(S)
  BY <1>2, <1>3, ExceptSeq
<1> QED  BY <1>4, SeqOfRange

LEMMA SaveSetKeeps ==
  ASSUME Inv, NEW x \in 1..Len(sets), NEW rows, SaveSet(x, rows)
  PROVE  Inv'
<1>1. sets' = [sets EXCEPT ![x] = [sets[x] EXCEPT !.rows = rows]]
  BY DEF SaveSet
<1>2. sets' \in Seq(Range(sets'))
  BY <1>1, SetChanges
<1> QED  BY <1>2, OnlySets DEF SaveSet

LEMMA DeleteSetKeeps ==
  ASSUME Inv, NEW x \in 1..Len(sets), DeleteSet(x)
  PROVE  Inv'
<1>1. sets' \in Seq(Range(sets'))
  BY SetChanges DEF DeleteSet
<1> QED  BY <1>1, OnlySets DEF DeleteSet

LEMMA MoveSceneKeeps ==
  ASSUME Inv, NEW o, MoveScene(o)
  PROVE  Inv'
<1>1. sets' \in Seq(Range(sets')) /\ UNCHANGED <<body, snaps, clip, minted>>
  BY DEF MoveScene, Inv, Typed
<1> QED  BY <1>1, OnlySets

-----------------------------------------------------------------------------
(* Snapshots *)

\* A scene that is captured with a set for each of its pills
LEMMA CapturedKeeps ==
  ASSUME Inv, NEW s \in Scene, ~Unset(body[s]), NEW retention \in {"kept", "thinned"},
         snaps' = [snaps EXCEPT ![s] = Captured(s, retention)]
  PROVE  /\ snaps' \in [Scene -> Seq(Snap)]
         /\ \A t \in Scene : \A k \in 1..Len(snaps'[t]) : Whole(snaps'[t][k].frozen, minted)
         /\ \A x : InSnap(snaps', x) => InSnap(snaps, x) \/ x \in AnchorIds(body[s])
<1>1. /\ snaps \in [Scene -> Seq(Snap)] /\ body[s] \in Seq(Marks)
      /\ Once(body[s]) /\ Numbered(body[s], minted)
  BY DEF Inv, Typed, Numbers, OneAnchorOnePlace
<1>2. Whole(body[s], minted)
  BY <1>1 DEF Whole
<1>3. /\ Captured(s, retention) \in Seq(Snap)
      /\ \A k \in 1..Len(Captured(s, retention)) :
            \/ \E i \in 1..Len(snaps[s]) : Captured(s, retention)[k] = snaps[s][i]
            \/ Captured(s, retention)[k].frozen = body[s]
  BY <1>1, CapturedIs
<1>4. /\ snaps' \in [Scene -> Seq(Snap)] /\ snaps'[s] = Captured(s, retention)
      /\ \A t \in Scene \ {s} : snaps'[t] = snaps[t]
  BY <1>1, <1>3
<1>5. \A t \in Scene : \A k \in 1..Len(snaps'[t]) :
         \/ \E i \in 1..Len(snaps[t]) : snaps'[t][k] = snaps[t][i]
         \/ snaps'[t][k].frozen = body[s]
  <2> TAKE t \in Scene
  <2>1. CASE t = s
    BY <1>3, <1>4, <2>1
  <2>2. CASE t # s
    BY <1>4, <2>2
  <2> QED  BY <2>1, <2>2
<1>6. \A t \in Scene : \A k \in 1..Len(snaps'[t]) : Whole(snaps'[t][k].frozen, minted)
  <2> TAKE t \in Scene
  <2> TAKE k \in 1..Len(snaps'[t])
  <2>1. ASSUME NEW i \in 1..Len(snaps[t]) PROVE Whole(snaps[t][i].frozen, minted)
    BY DEF Inv, SnapsWhole
  <2> QED  BY <1>2, <1>5, <2>1
<1>7. ASSUME NEW x, InSnap(snaps', x) PROVE InSnap(snaps, x) \/ x \in AnchorIds(body[s])
  <2>0. PICK t \in Scene : \E k \in 1..Len(snaps'[t]) : x \in AnchorIds(snaps'[t][k].frozen)
    BY <1>7 DEF InSnap
  <2>1. PICK k \in 1..Len(snaps'[t]) : x \in AnchorIds(snaps'[t][k].frozen)
    BY <2>0
  <2>2. ASSUME NEW i \in 1..Len(snaps[t]), snaps'[t][k] = snaps[t][i] PROVE InSnap(snaps, x)
    BY <2>1, <2>2 DEF InSnap
  <2> QED  BY <1>5, <2>1, <2>2
<1> QED  BY <1>4, <1>6, <1>7

LEMMA CaptureSnapshotKeeps ==
  ASSUME ~SnapUnset, Inv, NEW s \in Scene, CaptureSnapshot(s)
  PROVE  Inv'
<1>1. /\ ~Unset(body[s]) /\ snaps' = [snaps EXCEPT ![s] = Captured(s, "kept")]
      /\ UNCHANGED <<body, sets, clip, minted>>
  BY DEF CaptureSnapshot
<1>2. /\ body \in [Scene -> Seq(Marks)] /\ minted \in Nat /\ sets \in Seq(Range(sets)) /\ clip \in Clips
      /\ Once(body[s]) /\ Numbered(body[s], minted) /\ Numbered(clip.marks, minted)
  BY DEF Inv, Typed, Numbers, OneAnchorOnePlace
<1>3. /\ snaps' \in [Scene -> Seq(Snap)]
      /\ \A t \in Scene : \A k \in 1..Len(snaps'[t]) : Whole(snaps'[t][k].frozen, minted)
      /\ \A x : InSnap(snaps', x) => InSnap(snaps, x) \/ x \in AnchorIds(body[s])
  BY <1>1, CapturedKeeps
<1>4. body' = [body EXCEPT ![s] = body[s]] /\ body[s] \in Seq(Marks)
  BY <1>1, <1>2
<1>5. \A x \in AnchorIds(body[s]), t \in Scene \ {s} : x \notin AnchorIds(body[t])
  BY DEF Inv, OneAnchorOnePlace
<1>6. \A m \in AnchorsOf(body[s]) : m.set # NoSet
  BY <1>1 DEF Unset
<1>7. ASSUME NEW t \in Scene \ {s}, NEW m \in AnchorsOf(body[t]), m.set = NoSet
      PROVE  ~InSnap(snaps', m.id)
  <2>1. m.id \in AnchorIds(body[t])
    BY IdOf
  <2>2. ~InSnap(snaps, m.id)
    BY <1>7 DEF Inv, Waiting
  <2> QED  BY <1>3, <1>5, <2>1, <2>2
<1>8. ASSUME NEW m \in Carried(clip'), m.set = NoSet
      PROVE  /\ ~InSnap(snaps', m.id) /\ m.id \notin AnchorIds(body[s])
             /\ \A t \in Scene \ {s} : m.id \notin AnchorIds(body[t])
  <2>1. ~InSnap(snaps, m.id) /\ \A t \in Scene : m.id \notin AnchorIds(body[t])
    BY <1>1, <1>8, CarriedStays
  <2> QED  BY <1>3, <2>1
<1>9. /\ minted' \in Nat /\ minted <= minted' /\ Numbered(body[s], minted')
      /\ clip' \in Clips /\ Numbered(clip'.marks, minted') /\ sets' \in Seq(Range(sets'))
      /\ \A t \in Scene : \A k \in 1..Len(snaps'[t]) : Whole(snaps'[t][k].frozen, minted')
  BY <1>1, <1>2, <1>3
<1> QED  BY <1>2, <1>3, <1>4, <1>5, <1>6, <1>7, <1>8, <1>9, Changed

\* The sets copied for a restore are sets of the book
LEMMA CopiedIs ==
  ASSUME Inv, NEW frozen \in Seq(Marks), NEW F, F \subseteq 1..Len(frozen),
         sets' = sets \o CopiedSets(frozen, F)
  PROVE  sets' \in Seq(Range(sets')) /\ Len(sets) \in Nat
<1> DEFINE at(n) == CHOOSE i \in F : Cardinality({j \in F : j <= i}) = n
           e(n) == sets[frozen[at(n)].set]
           copies == [n \in 1..Cardinality(F) |-> e(n)]
           C == {e(n) : n \in 1..Cardinality(F)}
           S == Range(sets) \cup C
<1>1. CopiedSets(frozen, F) = copies
  BY DEF CopiedSets
<1>2. Cardinality(F) \in Nat
  BY PlacesFinite, FS_CardinalityType
<1>3. copies \in [1..Cardinality(F) -> C]
  <2> HIDE DEF e
  <2> QED  OBVIOUS
<1>4. copies \in Seq(C)
  <2> HIDE DEF copies, C
  <2> QED  BY <1>2, <1>3, ListIs
<1>5. Range(sets) \subseteq S /\ C \subseteq S
  OBVIOUS
<1> HIDE DEF copies, C, S
<1>6. sets \in Seq(S) /\ copies \in Seq(S)
  <2>1. sets \in Seq(Range(sets))
    BY DEF Inv, Typed
  <2> QED  BY <1>4, <1>5, <2>1, SeqMonotonic
<1>7. sets \o copies \in Seq(S)
  BY <1>6, ConcatProperties
<1> QED  BY <1>1, <1>6, <1>7, SeqOfRange, LenProperties

LEMMA ElsewhereIs ==
  ASSUME NEW s \in Scene, NEW t \in Scene \ {s}, NEW m \in AnchorsOf(body[t]), m.set # NoSet
  PROVE  m.id \in Elsewhere(s)
BY DEF Elsewhere

LEMMA RestoreSnapshotKeeps ==
  ASSUME ~SnapUnset, Inv, NEW s \in Scene, NEW k \in 1..Len(snaps[s]), RestoreSnapshot(s, k)
  PROVE  Inv'
<1> DEFINE frozen == snaps[s][k].frozen
           fresh == Collides(s, frozen)
           r == DedupeRestoredAnchors(frozen, fresh, Len(sets) + 1)
<1>1. /\ ~Unset(body[s]) /\ snaps' = [snaps EXCEPT ![s] = Captured(s, "thinned")]
      /\ body' = [body EXCEPT ![s] = r] /\ minted' = minted + Cardinality(fresh)
      /\ sets' = sets \o CopiedSets(frozen, fresh) /\ UNCHANGED clip
  BY DEF RestoreSnapshot
<1>2. /\ body \in [Scene -> Seq(Marks)] /\ minted \in Nat /\ clip \in Clips
      /\ Numbered(body[s], minted) /\ Numbered(clip.marks, minted) /\ snaps[s] \in Seq(Snap)
  BY DEF Inv, Typed, Numbers
<1>3. frozen \in Seq(Marks) /\ Once(frozen) /\ Numbered(frozen, minted) /\ ~Unset(frozen)
  <2>1. snaps[s][k] \in Snap
    BY <1>2, ElementOfSeq
  <2> QED  BY <2>1 DEF Snap, Inv, SnapsWhole, Whole
<1>4. \A x \in AnchorIds(frozen) : InSnap(snaps, x)
  BY DEF InSnap
<1> HIDE DEF frozen
<1>5. /\ fresh \subseteq 1..Len(frozen)
      /\ \A i \in 1..Len(frozen) : frozen[i].kind = "anchor" =>
            /\ frozen[i].set # NoSet /\ frozen[i].id \in AnchorIds(frozen) /\ frozen[i].id \in 1..minted
            /\ i \notin fresh => frozen[i].id \notin Elsewhere(s)
  <2>1. \A i \in 1..Len(frozen) : frozen[i].kind = "anchor" =>
           frozen[i] \in AnchorsOf(frozen) /\ frozen[i].id \in AnchorIds(frozen)
    BY AnchorAt, IdAt
  <2> QED  BY <1>3, <2>1 DEF Collides, Unset, Numbered
<1> HIDE DEF fresh
<1>6. sets' \in Seq(Range(sets')) /\ Len(sets) + 1 \in Nat \ {0}
  <2>1. sets' \in Seq(Range(sets')) /\ Len(sets) \in Nat
    BY <1>1, <1>3, <1>5, CopiedIs
  <2> QED  BY <2>1
<1>7. /\ r \in Seq(Marks) /\ Len(r) = Len(frozen)
      /\ \A i \in 1..Len(frozen) :
            /\ i \in fresh => r[i].kind = "anchor" /\ r[i].id = FreshId(fresh, i) /\ r[i].set # NoSet
            /\ i \notin fresh /\ frozen[i].kind = "anchor" => r[i] = frozen[i]
            /\ i \notin fresh /\ frozen[i].kind # "anchor" => r[i].kind # "anchor"
  BY <1>2, <1>3, <1>5, <1>6, DedupeIs
<1> HIDE DEF r
<1>8. fresh \subseteq Nat /\ IsFiniteSet(fresh) /\ Len(frozen) \in Nat
  BY <1>3, <1>5, PlacesFinite
<1>9. /\ \A i \in fresh : FreshId(fresh, i) \in minted + 1..minted'
      /\ \A i, j \in fresh : FreshId(fresh, i) = FreshId(fresh, j) => i = j
      /\ minted' \in Nat
  BY <1>1, <1>2, <1>8, FreshIs
<1>10. minted <= minted'
  <2>1. Cardinality(fresh) \in Nat
    BY <1>8, FS_CardinalityType
  <2> QED  BY <1>1, <1>2, <2>1
\* An anchor of the body put back has a new id, or one nobody else has
<1>11. \A i \in 1..Len(frozen) : r[i].kind = "anchor" =>
          /\ r[i].set # NoSet
          /\ \/ /\ i \in fresh /\ r[i].id = FreshId(fresh, i)
                /\ r[i].id \in Nat /\ r[i].id > minted /\ r[i].id <= minted'
             \/ /\ i \notin fresh /\ frozen[i].kind = "anchor" /\ r[i] = frozen[i]
                /\ r[i].id \in 1..minted
  <2> TAKE i \in 1..Len(frozen)
  <2>1. CASE i \in fresh
    <3>1. FreshId(fresh, i) \in minted + 1..minted'
      BY <1>9, <2>1
    <3>2. FreshId(fresh, i) \in Nat /\ FreshId(fresh, i) > minted /\ FreshId(fresh, i) <= minted'
      BY <1>2, <1>9, <3>1
    <3> QED  BY <1>7, <2>1, <3>2
  <2>2. CASE i \notin fresh
    BY <1>5, <1>7, <2>2
  <2> QED  BY <2>1, <2>2
<1>12. Once(r)
  <2> SUFFICES ASSUME NEW i \in 1..Len(frozen), NEW j \in 1..Len(frozen),
                      r[i].kind = "anchor", r[j].kind = "anchor", r[i].id = r[j].id
               PROVE  i = j
    BY <1>7 DEF Once
  <2>1. CASE i \in fresh /\ j \in fresh
    BY <1>9, <1>11, <2>1
  <2>2. CASE ~(i \in fresh <=> j \in fresh)
    BY <1>2, <1>11, <2>2
  <2>3. CASE i \notin fresh /\ j \notin fresh
    <3>1. /\ frozen[i].kind = "anchor" /\ frozen[j].kind = "anchor"
          /\ frozen[i].id = frozen[j].id
      BY <1>11, <2>3
    <3> QED  BY <1>3, <3>1 DEF Once
  <2> QED  BY <2>1, <2>2, <2>3
<1>13. \A x \in AnchorIds(r) :
          \/ x \in Nat /\ x > minted /\ x <= minted'
          \/ x \in 1..minted /\ InSnap(snaps, x) /\ x \notin Elsewhere(s)
  <2> TAKE x \in AnchorIds(r)
  <2>1. PICK i \in 1..Len(frozen) : r[i].kind = "anchor" /\ r[i].id = x
    BY <1>7, IdAt
  <2> QED  BY <1>4, <1>5, <1>11, <2>1
<1>14. \A m \in AnchorsOf(r) : m.set # NoSet
  BY <1>7, <1>11, AnchorAt
<1>15. ASSUME NEW x \in AnchorIds(r), NEW t \in Scene \ {s}, x \in AnchorIds(body[t]) PROVE FALSE
  <2>1. CASE x \in Nat /\ x > minted
    BY <1>15, <2>1, Unused
  <2>2. CASE InSnap(snaps, x) /\ x \notin Elsewhere(s)
    <3>1. PICK m \in AnchorsOf(body[t]) : m.id = x
      BY <1>15 DEF AnchorIds
    <3>2. m.set # NoSet
      BY <2>2, <3>1 DEF Inv, Waiting
    <3> QED  BY <2>2, <3>1, <3>2, ElsewhereIs
  <2> QED  BY <1>13, <2>1, <2>2
<1>16. /\ snaps' \in [Scene -> Seq(Snap)]
       /\ \A t \in Scene : \A n \in 1..Len(snaps'[t]) : Whole(snaps'[t][n].frozen, minted)
       /\ \A x : InSnap(snaps', x) => InSnap(snaps, x) \/ x \in AnchorIds(body[s])
  BY <1>1, CapturedKeeps
<1>17. \A t \in Scene : \A n \in 1..Len(snaps'[t]) : Whole(snaps'[t][n].frozen, minted')
  <2>1. \A f : Whole(f, minted) => Whole(f, minted')
    BY <1>2, <1>9, <1>10 DEF Whole, Numbered
  <2> QED  BY <1>16, <2>1
<1>18. Numbered(r, minted') /\ Numbered(clip'.marks, minted')
  <2>1. \A x \in AnchorIds(r) : x \in 1..minted'
    BY <1>2, <1>9, <1>10, <1>13
  <2>2. AnchorIds(clip.marks) \subseteq 1..minted /\ clip' = clip
    BY <1>1, <1>2 DEF Numbered
  <2> QED  BY <1>2, <1>9, <1>10, <2>1, <2>2 DEF Numbered
<1>19. ASSUME NEW t \in Scene \ {s}, NEW m \in AnchorsOf(body[t]), m.set = NoSet
       PROVE  ~InSnap(snaps', m.id)
  <2>1. m.id \in AnchorIds(body[t]) /\ ~InSnap(snaps, m.id)
    BY <1>19, IdOf DEF Inv, Waiting
  <2>2. m.id \notin AnchorIds(body[s])
    BY <2>1 DEF Inv, OneAnchorOnePlace
  <2> QED  BY <1>16, <2>1, <2>2
<1>20. ASSUME NEW m \in Carried(clip'), m.set = NoSet
       PROVE  /\ ~InSnap(snaps', m.id) /\ m.id \notin AnchorIds(r)
              /\ \A t \in Scene \ {s} : m.id \notin AnchorIds(body[t])
  <2>1. /\ ~InSnap(snaps, m.id) /\ m.id \in 1..minted
        /\ \A t \in Scene : m.id \notin AnchorIds(body[t])
    BY <1>1, <1>20, CarriedStays
  <2>2. ~(m.id > minted)
    BY <1>2, <2>1
  <2> QED  BY <1>13, <1>16, <2>1, <2>2
<1>21. \A x \in AnchorIds(r), t \in Scene \ {s} : x \notin AnchorIds(body[t])
  BY <1>15
<1>22. /\ body' = [body EXCEPT ![s] = r] /\ clip' \in Clips
       /\ \A m \in AnchorsOf(r) : m.set = NoSet => ~InSnap(snaps', m.id)
  BY <1>1, <1>2, <1>14
<1> QED  BY <1>6, <1>7, <1>9, <1>10, <1>12, <1>16, <1>17, <1>18, <1>19, <1>20, <1>21, <1>22, Changed

-----------------------------------------------------------------------------
LEMMA WriteKeeps ==
  ASSUME ~PasteRestored, ~PasteUnset, Inv, Write
  PROVE  Inv'
<1>1. PICK s \in Scene :
        \/ \E p \in 0..Len(body[s]) :
              \/ \E x \in 1..Len(sets) : InsertAnchor(s, p, x)
              \/ \E id \in 1..minted, row \in {WholeSet, 1} : InsertClose(s, p, id, row)
              \/ Paste(s, p)
        \/ \E i, j \in 1..Len(body[s]) : i <= j /\ (Cut(s, i, j) \/ Copy(s, i, j))
  BY DEF Write
<1>2. ASSUME NEW p \in 0..Len(body[s]), NEW x \in 1..Len(sets), InsertAnchor(s, p, x) PROVE Inv'
  BY <1>2, InsertAnchorKeeps
<1>3. ASSUME NEW p \in 0..Len(body[s]), NEW id \in 1..minted, NEW row \in {WholeSet, 1},
             InsertClose(s, p, id, row)
      PROVE  Inv'
  BY <1>3, InsertCloseKeeps
<1>4. ASSUME NEW p \in 0..Len(body[s]), Paste(s, p) PROVE Inv'
  BY <1>4, PasteKeeps
<1>5. ASSUME NEW i \in 1..Len(body[s]), NEW j \in 1..Len(body[s]), i <= j, Cut(s, i, j) PROVE Inv'
  BY <1>5, CutKeeps
<1>6. ASSUME NEW i \in 1..Len(body[s]), NEW j \in 1..Len(body[s]), i <= j, Copy(s, i, j) PROVE Inv'
  BY <1>6, CopyKeeps
<1> QED  BY <1>1, <1>2, <1>3, <1>4, <1>5, <1>6

\* OneAnchorOnePlace for every book and any number of steps: no anchor comes to
\* be in two places, in one scene or in two, by writing, by a cut or copy and
\* its pastes, by the copy of a set that comes late or fails, or by putting a
\* snapshot back; as long as no pill is captured, or pasted beside itself,
\* before it has its set, and a restore brings no pill back while it is cut.
THEOREM OneAnchorAlwaysOnePlace ==
  ASSUME ~PasteRestored, ~PasteUnset, ~SnapUnset
  PROVE  Spec => []OneAnchorOnePlace
<1>1. Init => Inv
  BY InitInv
<1>2. Inv /\ [Next]_vars => Inv'
  <2> SUFFICES ASSUME Inv, [Next]_vars PROVE Inv'
    OBVIOUS
  <2>1. CASE Write
    BY <2>1, WriteKeeps
  <2>2. ASSUME NEW ok \in BOOLEAN, CopyEnds(ok) PROVE Inv'
    BY <2>2, CopyEndsKeeps
  <2>3. ASSUME NEW o, MoveScene(o) PROVE Inv'
    BY <2>3, MoveSceneKeeps
  <2>4. ASSUME NEW x \in 1..Len(sets), DeleteSet(x) PROVE Inv'
    BY <2>4, DeleteSetKeeps
  <2>5. ASSUME NEW x \in 1..Len(sets), NEW rows \in Rows, SaveSet(x, rows) PROVE Inv'
    BY <2>5, SaveSetKeeps
  <2>6. ASSUME NEW s \in Scene, CaptureSnapshot(s) PROVE Inv'
    BY <2>6, CaptureSnapshotKeeps
  <2>7. CASE Restoring
    BY <2>7, RestoreSnapshotKeeps DEF Restoring
  <2>8. CASE UNCHANGED vars
    BY <2>8, OnlySets DEF vars, Inv, Typed
  <2> QED  BY <2>1, <2>2, <2>3, <2>4, <2>5, <2>6, <2>7, <2>8 DEF Next
<1>3. Inv => OneAnchorOnePlace
  BY DEF Inv
<1> QED  BY <1>1, <1>2, <1>3, PTL DEF Spec
=============================================================================
