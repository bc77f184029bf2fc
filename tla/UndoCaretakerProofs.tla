------------------------ MODULE UndoCaretakerProofs ------------------------
(***************************************************************************)
(* For any cap, any number of commands and any transactions: undo runs     *)
(* every closure on the document it was made for, and the log with its     *)
(* cursor is a history of whole steps.                                     *)
(***************************************************************************)
EXTENDS UndoCaretaker, FiniteSetTheorems, WellFoundedInduction, SequenceTheorems, TLAPS

Entries == [command : Nat, step : Nat]
Documents == Seq(Nat)

Replays == [kind : {"undo", "redo"}, at : Nat, last : Nat]
Operations ==
    {NoOp} \cup [phase : {"waiting", "running"}] \cup [phase : {"done"}, command : Nat]

\* Types, and where a replay stands: in its step, and the step in the log
Shape ==
    /\ log \in Seq(Entries) /\ cursor \in 0 .. Len(log) /\ stepCount \in Nat
    /\ \A i \in 1 .. Len(log) : log[i].command \in 1 .. Len(before) /\ log[i].step \in 1 .. stepCount
    /\ openId \in Transaction \cup {NoTransaction} /\ openStep \in Nat
    /\ openId # NoTransaction => openStep \in 1 .. stepCount
    /\ before \in Seq(Documents) /\ doc \in Documents
    /\ op \in [Operation -> Operations]
    /\ \A o \in Operation : op[o].phase = "done" => op[o].command \in 1 .. Len(before)
    /\ hung => replay.kind = "undo"
    /\ replay \in {Idle} \cup Replays
    /\ replay.kind = "undo" => 1 <= replay.last /\ replay.last <= replay.at /\ replay.at <= Len(log)
    /\ replay.kind = "redo" => 1 <= replay.at /\ replay.at <= replay.last /\ replay.last <= Len(log)

\* No replay is under way while a command waits to be reported
Apart == Busy => Unreported = {}

\* The first n entries of a document
Begins(document, whole, n) ==
    /\ document \in Documents /\ Len(document) = n
    /\ \A j \in 1 .. n : document[j] = whole[j]

\* The document as it would be with everything redone: b commands that are no
\* longer in the log, and the log; each is there once, and found what is before
\* it
Told(whole, b) ==
    /\ Len(whole) = b + Len(log)
    /\ \A i \in 1 .. Len(log) :
         /\ log[i].command = whole[b + i]
         /\ Begins(before[whole[b + i]], whole, b + i - 1)
    /\ \A i, j \in 1 .. Len(whole) : whole[i] = whole[j] => i = j
    /\ \A i \in 1 .. Len(whole) : whole[i] \in 1 .. Len(before)

\* What is in force is its beginning, and then the commands that have not been
\* reported, in the order in which they took effect
Stands(whole, b) ==
    /\ b + InForce <= Len(doc)
    /\ \A j \in 1 .. b + InForce : doc[j] = whole[j]
    /\ \A j \in b + InForce + 1 .. Len(doc) :
         /\ doc[j] \in 1 .. Len(before) /\ Begins(before[doc[j]], doc, j - 1)
         /\ \E o \in Unreported : op[o].command = doc[j]
         /\ \A i \in 1 .. Len(whole) : whole[i] < doc[j]
    /\ \A i, j \in b + InForce + 1 .. Len(doc) : i < j => doc[i] < doc[j]
    /\ \A o \in Unreported :
         /\ \E j \in b + InForce + 1 .. Len(doc) : doc[j] = op[o].command
         /\ \A p \in Unreported : op[p].command = op[o].command => p = o

UndoInv ==
    ~astray => Apart /\ \E whole \in Documents, b \in Nat : Told(whole, b) /\ Stands(whole, b)

-----------------------------------------------------------------------------
(* Steps of a log *)

\* A set of positions has a first one
LEMMA FirstPosition ==
  ASSUME NEW T, T \subseteq Nat, T # {}
  PROVE  \E x \in T : \A y \in T : x <= y
<1> DEFINE Less == OpToRel(<, Nat)
<1>1. IsWellFoundedOn(Less, Nat)
  BY NatLessThanWellFounded
<1>2. \A a, b \in Nat : a < b => <<a, b>> \in Less
  BY DEF OpToRel
<1> HIDE DEF Less
<1>3. PICK x \in T : \A y \in T : <<y, x>> \notin Less
  BY <1>1, WFMin
<1>4. \A y \in T : ~(y < x) /\ x \in Nat /\ y \in Nat
  BY <1>2, <1>3
<1>5. \A y \in T : x <= y
  BY <1>4
<1> QED  BY <1>3, <1>5

\* The run of a step begins somewhere
LEMMA StepStartIs ==
  ASSUME NEW entries \in Seq(Entries), NEW i \in 1 .. Len(entries)
  PROVE  LET a == StepStart(entries, i) IN
         /\ a \in 1 .. i
         /\ \A j \in a .. i : entries[j].step = entries[i].step
         /\ a = 1 \/ entries[a - 1].step # entries[i].step
<1> DEFINE Run == {a \in 1 .. i : \A j \in a .. i : entries[j].step = entries[i].step}
<1>1. Run \subseteq Nat /\ i \in Run
  OBVIOUS
<1>2. PICK a \in Run : \A y \in Run : a <= y
  <2> HIDE DEF Run
  <2> QED  BY <1>1, FirstPosition
<1>3. a = 1 \/ entries[a - 1].step # entries[i].step
  <2> SUFFICES ASSUME a # 1, entries[a - 1].step = entries[i].step PROVE FALSE
    OBVIOUS
  <2>1. a - 1 \in 1 .. i /\ a \in Nat
    OBVIOUS
  <2>2. \A j \in (a - 1) .. i : j = a - 1 \/ j \in a .. i
    OBVIOUS
  <2>3. a - 1 \in Run
    BY <2>1, <2>2
  <2> HIDE DEF Run
  <2> QED  BY <1>2, <2>1, <2>3
<1>4. \E x \in 1 .. i : /\ \A j \in x .. i : entries[j].step = entries[i].step
                        /\ x = 1 \/ entries[x - 1].step # entries[i].step
  BY <1>2, <1>3
<1> QED  BY <1>4 DEF StepStart

\* ... and ends somewhere
LEMMA StepEndIs ==
  ASSUME NEW entries \in Seq(Entries), NEW i \in 1 .. Len(entries)
  PROVE  LET b == StepEnd(entries, i) IN
         /\ b \in i .. Len(entries)
         /\ \A j \in i .. b : entries[j].step = entries[i].step
         /\ b = Len(entries) \/ entries[b + 1].step # entries[i].step
<1> DEFINE Others == {b \in i .. Len(entries) : entries[b].step # entries[i].step}
<1>1. \E x \in i .. Len(entries) :
          /\ \A j \in i .. x : entries[j].step = entries[i].step
          /\ x = Len(entries) \/ entries[x + 1].step # entries[i].step
  <2>1. CASE Others = {}
    <3>1. Len(entries) \in i .. Len(entries)
      OBVIOUS
    <3> QED  BY <2>1, <3>1
  <2>2. CASE Others # {}
    <3>1. PICK b \in Others : \A y \in Others : b <= y
      <4>1. Others \subseteq Nat
        OBVIOUS
      <4> HIDE DEF Others
      <4> QED  BY <2>2, <4>1, FirstPosition
    <3>2. b # i /\ b - 1 \in i .. Len(entries) /\ b \in Nat /\ b - 1 + 1 = b
      OBVIOUS
    <3>3. \A j \in i .. b - 1 : j \in i .. Len(entries) /\ j \notin Others
      <4> TAKE j \in i .. b - 1
      <4>1. j \in i .. Len(entries) /\ ~(b <= j)
        BY <3>2
      <4> QED  BY <3>1, <4>1
    <3>4. \A j \in i .. b - 1 : entries[j].step = entries[i].step
      BY <3>3
    <3>5. entries[b - 1 + 1].step # entries[i].step
      BY <3>2
    <3> QED  BY <3>2, <3>4, <3>5
  <2> QED  BY <2>1, <2>2
<1> QED  BY <1>1 DEF StepEnd

\* How many entries it is enough to drop
Enough(entries) ==
  {e \in {0} \cup {StepEnd(entries, i) : i \in 1 .. Len(entries)} :
     /\ e < Len(entries)
     /\ Len(SubSeq(entries, e + 1, Len(entries))) <= Cap \/ StepEnd(entries, e + 1) = Len(entries)}

\* What is dropped is a piece of the old end, never all, and no more than enough
LEMMA TrimmedIs ==
  ASSUME NEW entries \in Seq(Entries), entries # << >>
  PROVE  \E e \in 0 .. Len(entries) - 1 :
           /\ Trimmed(entries) = SubSeq(entries, e + 1, Len(entries))
           /\ e \in Enough(entries) /\ \A f \in Enough(entries) : e <= f
<1> DEFINE N == Len(entries)
           ends == {StepEnd(entries, i) : i \in 1 .. N}
           cut(e) == SubSeq(entries, e + 1, N)
           enough == {e \in {0} \cup ends : /\ e < N
                                            /\ Len(cut(e)) <= Cap \/ StepEnd(entries, e + 1) = N}
           a == StepStart(entries, N)
<1>1. N \in Nat /\ N \in 1 .. N
  OBVIOUS
<1>2. /\ a \in 1 .. N /\ \A j \in a .. N : entries[j].step = entries[N].step
      /\ a = 1 \/ entries[a - 1].step # entries[N].step
  BY <1>1, StepStartIs
<1>3. \A i \in 1 .. N : /\ StepEnd(entries, i) \in i .. N
                        /\ \A j \in i .. StepEnd(entries, i) : entries[j].step = entries[i].step
                        /\ \/ StepEnd(entries, i) = N
                           \/ entries[StepEnd(entries, i) + 1].step # entries[i].step
  BY StepEndIs
<1> HIDE DEF a, N
<1>4. StepEnd(entries, a) = N
  <2>1. StepEnd(entries, a) + 1 \in a .. N \/ StepEnd(entries, a) = N
    BY <1>1, <1>2, <1>3
  <2>2. a \in a .. N
    BY <1>2
  <2> QED  BY <1>2, <1>3, <2>1, <2>2
<1>5. a - 1 \in {0} \cup ends
  <2>1. CASE a = 1
    BY <2>1
  <2>2. CASE a # 1
    <3>1. a - 1 \in 1 .. N /\ a - 1 + 1 = a /\ a \in a .. N
      BY <1>1, <1>2, <2>2
    <3>2. StepEnd(entries, a - 1) \in (a - 1) .. N /\ entries[a].step = entries[N].step
      BY <1>2, <1>3, <3>1
    <3>3. a \notin (a - 1) .. StepEnd(entries, a - 1)
      BY <1>2, <1>3, <2>2, <3>1, <3>2
    <3>4. StepEnd(entries, a - 1) = a - 1
      BY <1>1, <1>2, <3>2, <3>3
    <3> QED  BY <3>1, <3>4
  <2> QED  BY <2>1, <2>2
<1>6. a - 1 \in enough
  <2>1. a - 1 < N /\ a - 1 + 1 = a
    BY <1>1, <1>2
  <2> QED  BY <1>4, <1>5, <2>1
<1>7. enough \subseteq 0 .. N - 1
  BY <1>1, <1>3
<1>8. PICK e \in enough : \A f \in enough : e <= f
  <2>1. enough \subseteq Nat
    BY <1>1, <1>7
  <2> HIDE DEF enough
  <2> QED  BY <1>6, <2>1, FirstPosition
<1> DEFINE first == CHOOSE x \in enough : \A f \in enough : x <= f
<1>9. first \in enough /\ \A f \in enough : first <= f
  <2> HIDE DEF enough
  <2> QED  BY <1>8
<1>10. Trimmed(entries) = cut(first)
  BY DEF Trimmed, N
<1>11. enough = Enough(entries)
  BY DEF Enough, N
<1> HIDE DEF enough, first
<1> QED  BY <1>7, <1>9, <1>10, <1>11 DEF N

-----------------------------------------------------------------------------
(* Types *)

\* What is logged when a command is reported: the last of what is kept, of
\* which e entries are dropped
LEMMA ReportedLog ==
  ASSUME Shape, NEW c \in Nat, NEW t \in Transaction \cup {NoTransaction}, ~Busy, Report(c, t)
  PROVE  \E e \in 0 .. cursor :
           /\ log' \in Seq(Entries) /\ Len(log') = cursor + 1 - e /\ cursor' = Len(log')
           /\ \A i \in 1 .. Len(log') - 1 : log'[i] = log[e + i]
           /\ log'[Len(log')].command = c /\ log'[Len(log')].step \in 1 .. stepCount'
           /\ stepCount' \in Nat /\ stepCount <= stepCount'
           /\ openId' = t /\ openStep' \in 1 .. stepCount'
<1> DEFINE joins == t # NoTransaction /\ t = openId
           step == IF joins THEN openStep ELSE stepCount + 1
           kept == Append(Kept(log, cursor), [command |-> c, step |-> step])
<1>1. /\ log' = Trimmed(kept) /\ cursor' = Len(log')
      /\ stepCount' = (IF joins THEN stepCount ELSE step)
      /\ openId' = t /\ openStep' = step
  BY DEF Report, CursorAt
<1>2. /\ log \in Seq(Entries) /\ cursor \in 0 .. Len(log) /\ stepCount \in Nat
      /\ openId # NoTransaction => openStep \in 1 .. stepCount
  BY DEF Shape
<1>3. step \in Nat /\ stepCount' \in Nat /\ stepCount <= stepCount' /\ step \in 1 .. stepCount'
  BY <1>1, <1>2
<1> HIDE DEF step, joins
<1>4. /\ Kept(log, cursor) \in Seq(Entries) /\ Len(Kept(log, cursor)) = cursor
      /\ \A i \in 1 .. cursor : Kept(log, cursor)[i] = log[i]
  BY <1>2 DEF Kept
<1>5. [command |-> c, step |-> step] \in Entries
  BY <1>3 DEF Entries
<1>6. /\ kept \in Seq(Entries) /\ Len(kept) = cursor + 1
      /\ \A i \in 1 .. cursor : kept[i] = log[i]
      /\ kept[cursor + 1] = [command |-> c, step |-> step]
  <2>1. \A s \in Seq(Entries), x \in Entries :
          /\ Append(s, x) \in Seq(Entries) /\ Len(Append(s, x)) = Len(s) + 1
          /\ \A i \in 1 .. Len(s) : Append(s, x)[i] = s[i]
          /\ Append(s, x)[Len(s) + 1] = x
    BY AppendProperties
  <2> HIDE DEF kept
  <2>2. /\ kept \in Seq(Entries) /\ Len(kept) = Len(Kept(log, cursor)) + 1
        /\ \A i \in 1 .. Len(Kept(log, cursor)) : kept[i] = Kept(log, cursor)[i]
        /\ kept[Len(Kept(log, cursor)) + 1] = [command |-> c, step |-> step]
    BY <1>4, <1>5, <2>1 DEF kept
  <2> QED  BY <1>4, <2>2
<1> HIDE DEF kept
<1>7. PICK e \in 0 .. cursor : log' = SubSeq(kept, e + 1, cursor + 1)
  <2>1. kept # << >> /\ Len(kept) - 1 = cursor
    BY <1>2, <1>6
  <2> QED  BY <1>1, <1>6, <2>1, TrimmedIs
<1>8. /\ log' \in Seq(Entries) /\ Len(log') = cursor + 1 - e
      /\ \A i \in 1 .. Len(log') : log'[i] = kept[e + i]
  BY SMTT(30), <1>2, <1>6, <1>7
<1>9. \A i \in 1 .. Len(log') - 1 : log'[i] = log[e + i]
  <2> TAKE i \in 1 .. Len(log') - 1
  <2>1. i \in 1 .. Len(log') /\ e + i \in 1 .. cursor
    BY <1>2, <1>8
  <2> QED  BY <1>6, <1>8, <2>1
<1>10. log'[Len(log')] = [command |-> c, step |-> step]
  <2>1. Len(log') \in 1 .. Len(log') /\ e + Len(log') = cursor + 1
    BY <1>2, <1>8
  <2> QED  BY <1>6, <1>8, <2>1
<1> QED  BY <1>1, <1>3, <1>8, <1>9, <1>10

\* Reporting keeps the shape of the log
LEMMA ReportShape ==
  ASSUME Shape, NEW c \in Nat, NEW t \in Transaction \cup {NoTransaction}, Report(c, t),
         before' \in Seq(Documents), Len(before) <= Len(before'), c \in 1 .. Len(before'),
         UNCHANGED replay
  PROVE  /\ log' \in Seq(Entries) /\ cursor' \in 0 .. Len(log') /\ stepCount' \in Nat
         /\ \A i \in 1 .. Len(log') : /\ log'[i].command \in 1 .. Len(before')
                                      /\ log'[i].step \in 1 .. stepCount'
         /\ openId' \in Transaction \cup {NoTransaction} /\ openStep' \in Nat
         /\ openId' # NoTransaction => openStep' \in 1 .. stepCount'
         /\ Busy => Len(log') = Len(log)
<1>0. Len(before) \in Nat /\ Len(before') \in Nat
  BY DEF Shape
<1>1. CASE Busy
  <2>1. UNCHANGED <<log, cursor, stepCount, openId, openStep>>
    BY <1>1 DEF Report, caretaker
  <2> QED  BY <1>0, <1>1, <2>1 DEF Shape
<1>2. CASE ~Busy
  <2>1. PICK e \in 0 .. cursor :
           /\ log' \in Seq(Entries) /\ Len(log') = cursor + 1 - e /\ cursor' = Len(log')
           /\ \A i \in 1 .. Len(log') - 1 : log'[i] = log[e + i]
           /\ log'[Len(log')].command = c /\ log'[Len(log')].step \in 1 .. stepCount'
           /\ stepCount' \in Nat /\ stepCount <= stepCount'
           /\ openId' = t /\ openStep' \in 1 .. stepCount'
    BY <1>2, ReportedLog
  <2>2. cursor \in 0 .. Len(log) /\ Len(log) \in Nat /\ stepCount \in Nat
    BY DEF Shape
  <2>3. ASSUME NEW i \in 1 .. Len(log')
        PROVE  log'[i].command \in 1 .. Len(before') /\ log'[i].step \in 1 .. stepCount'
    <3>1. CASE i = Len(log')
      BY <2>1, <3>1
    <3>2. CASE i # Len(log')
      <4>1. i \in 1 .. Len(log') - 1 /\ e + i \in 1 .. Len(log')  + e
        BY <2>1, <2>2, <3>2
      <4>2. e + i \in 1 .. Len(log)
        BY <2>1, <2>2, <4>1
      <4>3. log[e + i].command \in 1 .. Len(before) /\ log[e + i].step \in 1 .. stepCount
        BY <4>2 DEF Shape
      <4>4. log'[i] = log[e + i]
        BY <2>1, <4>1
      <4>5. log[e + i].command \in 1 .. Len(before')
        BY <1>0, <4>3
      <4>6. log[e + i].step \in 1 .. stepCount'
        <5>1. stepCount' \in Nat /\ stepCount <= stepCount' /\ stepCount \in Nat
          BY <2>1, <2>2
        <5> QED  BY SMTT(30), <4>3, <5>1
      <4> QED  BY <4>4, <4>5, <4>6
    <3> QED  BY <3>1, <3>2
  <2>4. cursor' \in 0 .. Len(log')
    BY <2>1, <2>2
  <2> QED  BY <1>2, <2>1, <2>3, <2>4
<1> QED  BY <1>1, <1>2

\* Performing a command makes it the last one
LEMMA PerformShape ==
  ASSUME Shape, Perform(New)
  PROVE  /\ before' \in Seq(Documents) /\ Len(before') = New /\ New \in 1 .. Len(before')
         /\ New \in Nat /\ Len(before) <= Len(before')
         /\ doc' \in Documents /\ Len(doc') = Len(doc) + 1 /\ doc'[Len(doc) + 1] = New
         /\ \A i \in 1 .. Len(doc) : doc'[i] = doc[i]
         /\ \A i \in 1 .. Len(before) : before'[i] = before[i]
         /\ before'[New] = doc
<1>1. before \in Seq(Documents) /\ doc \in Documents /\ New \in Nat /\ Len(before) \in Nat
  BY DEF Shape, New
<1>2. before' = Append(before, doc) /\ doc' = Append(doc, New)
  BY DEF Perform
<1> QED  BY <1>1, <1>2 DEF Documents, New

\* Without a command a document is still one; without its last, it is what was
\* there before
LEMMA WithoutIs ==
  ASSUME NEW d \in Documents, NEW c
  PROVE  /\ Without(d, c) \in Documents
         /\ Len(d) > 0 /\ d[Len(d)] = c /\ (\A i \in 1 .. Len(d) - 1 : d[i] # c)
            => /\ Len(Without(d, c)) = Len(d) - 1
               /\ \A i \in 1 .. Len(d) - 1 : Without(d, c)[i] = d[i]
<1> DEFINE at == CHOOSE i \in DOMAIN d : d[i] = c
<1>1. d \in Seq(Nat) /\ DOMAIN d = 1 .. Len(d) /\ Len(d) \in Nat
  BY DEF Documents
<1>2. c \in Range(d) => at \in 1 .. Len(d) /\ d[at] = c
  <2>1. c \in Range(d) => \E i \in DOMAIN d : d[i] = c
    BY DEF Range
  <2> QED  BY <1>1, <2>1
<1>3. Without(d, c) = IF c \in Range(d) THEN SubSeq(d, 1, at - 1) \o SubSeq(d, at + 1, Len(d)) ELSE d
  BY DEF Without, RemoveAt
<1> HIDE DEF at
<1>4. Without(d, c) \in Documents
  <2>1. CASE c \notin Range(d)
    BY <1>3, <2>1
  <2>2. CASE c \in Range(d)
    <3>1. SubSeq(d, 1, at - 1) \in Seq(Nat) /\ SubSeq(d, at + 1, Len(d)) \in Seq(Nat)
      BY SMTT(30), <1>1, <1>2, <2>2
    <3> QED  BY SMTT(30), <1>3, <2>2, <3>1 DEF Documents
  <2> QED  BY <2>1, <2>2
<1>5. ASSUME Len(d) > 0, d[Len(d)] = c, \A i \in 1 .. Len(d) - 1 : d[i] # c
      PROVE  /\ Len(Without(d, c)) = Len(d) - 1
             /\ \A i \in 1 .. Len(d) - 1 : Without(d, c)[i] = d[i]
  <2>1. c \in Range(d)
    BY <1>1, <1>5 DEF Range
  <2>2. at = Len(d)
    BY <1>1, <1>2, <1>5, <2>1
  <2>3. SubSeq(d, at + 1, Len(d)) = << >>
    BY <1>1, <2>2
  <2>4. Without(d, c) = SubSeq(d, 1, Len(d) - 1)
    <3>1. SubSeq(d, 1, Len(d) - 1) \in Seq(Nat)
      BY <1>1
    <3> QED  BY <1>1, <1>3, <2>1, <2>2, <2>3, <3>1
  <2> QED  BY <1>1, <1>5, <2>4
<1> QED  BY <1>4, <1>5

\* An operation that is told a new phase, or let in
LEMMA OperationsIs ==
  ASSUME Shape, NEW o \in Operation, NEW x \in Operations, op' = [op EXCEPT ![o] = x],
         before' \in Seq(Documents), Len(before) <= Len(before'),
         x.phase = "done" => x.command \in 1 .. Len(before')
  PROVE  /\ op' \in [Operation -> Operations]
         /\ \A p \in Operation : op'[p].phase = "done" => op'[p].command \in 1 .. Len(before')
<1>1. op' \in [Operation -> Operations] /\ \A p \in Operation : op'[p] = IF p = o THEN x ELSE op[p]
  BY DEF Shape
<1>2. \A p \in Operation : op[p].phase = "done" => op[p].command \in 1 .. Len(before')
  <2>1. Len(before) \in Nat /\ Len(before') \in Nat
    BY DEF Shape
  <2> QED  BY <2>1 DEF Shape
<1> QED  BY <1>1, <1>2

LEMMA ReleasedIs ==
  ASSUME Shape, NEW c, NEW failed, Exit(c, failed)
  PROVE  /\ cursor' = c /\ replay' = Idle
         /\ op' \in [Operation -> Operations]
         /\ \A o \in Operation : op'[o].phase = "done" => op'[o] = op[o]
         /\ \A o \in Operation : op[o].phase = "done" => op'[o] = op[o]
<1>1. /\ cursor' = c /\ replay' = Idle
      /\ op' = [o \in Operation |-> IF Released(o, failed) THEN [phase |-> "running"] ELSE op[o]]
  BY DEF Exit
<1>2. [phase |-> "running"] \in Operations
  BY DEF Operations
<1>3. op \in [Operation -> Operations]
  BY DEF Shape
<1>4. op' \in [Operation -> Operations]
  BY <1>1, <1>2, <1>3
<1>5. ASSUME NEW o \in Operation
      PROVE  op'[o].phase = "done" \/ op[o].phase = "done" => op'[o] = op[o]
  BY <1>1 DEF Released
<1> QED  BY <1>1, <1>4, <1>5

\* A gesture keeps the types
LEMMA ShapeGesture ==
  ASSUME Shape, NEW t \in Transaction \cup {NoTransaction}, Gesture(t)
  PROVE  Shape'
<1>1. Perform(New) /\ Report(New, t) /\ UNCHANGED <<replay, hung, op>>
  BY DEF Gesture
<1>2. /\ before' \in Seq(Documents) /\ Len(before') = New /\ New \in 1 .. Len(before')
      /\ New \in Nat /\ Len(before) <= Len(before')
      /\ doc' \in Documents
  BY <1>1, PerformShape
<1>3. /\ log' \in Seq(Entries) /\ cursor' \in 0 .. Len(log') /\ stepCount' \in Nat
      /\ \A i \in 1 .. Len(log') : /\ log'[i].command \in 1 .. Len(before')
                                   /\ log'[i].step \in 1 .. stepCount'
      /\ openId' \in Transaction \cup {NoTransaction} /\ openStep' \in Nat
      /\ openId' # NoTransaction => openStep' \in 1 .. stepCount'
      /\ Busy => Len(log') = Len(log)
  BY <1>1, <1>2, ReportShape
<1>4. \A o \in Operation : op[o].phase = "done" => op[o].command \in 1 .. Len(before')
  <2>1. Len(before) \in Nat /\ Len(before') \in Nat
    BY <1>2 DEF Shape
  <2> QED  BY <1>2, <2>1 DEF Shape
<1>5. /\ replay' = replay /\ replay \in {Idle} \cup Replays
      /\ replay.kind = "undo" => 1 <= replay.last /\ replay.last <= replay.at /\ replay.at <= Len(log')
      /\ replay.kind = "redo" => 1 <= replay.at /\ replay.at <= replay.last /\ replay.last <= Len(log')
  BY <1>1, <1>3 DEF Shape, Busy, Idle
<1> QED  BY <1>1, <1>2, <1>3, <1>4, <1>5 DEF Shape

\* So does each turn of an operation
LEMMA ShapeOperation ==
  ASSUME Shape, NEW o \in Operation,
         StartOperation(o) \/ Operate(o) \/ ReportOperation(o) \/ ReadFails(o)
  PROVE  Shape'
<1>0. Len(before) \in Nat /\ before \in Seq(Documents)
  BY DEF Shape
<1>1. NoOp \in Operations /\ NoOp.phase # "done"
  BY DEF Operations, NoOp
<1>2. CASE StartOperation(o)
  <2>1. PICK x : x = [phase |-> IF Busy THEN "waiting" ELSE "running"]
    OBVIOUS
  <2>2. x \in Operations /\ x.phase # "done"
    BY <2>1 DEF Operations
  <2>3. /\ op' = [op EXCEPT ![o] = x]
        /\ UNCHANGED <<log, cursor, stepCount, openId, openStep, replay, hung, doc, before>>
    BY <1>2, <2>1 DEF StartOperation, caretaker
  <2>4. /\ op' \in [Operation -> Operations]
        /\ \A p \in Operation : op'[p].phase = "done" => op'[p].command \in 1 .. Len(before')
    <3>1. before' \in Seq(Documents) /\ Len(before) <= Len(before')
      BY <1>0, <2>3
    <3> HIDE <2>1
    <3> QED  BY <2>2, <2>3, <3>1, OperationsIs
  <2> QED  BY <2>3, <2>4 DEF Shape
<1>3. CASE Operate(o)
  <2>1. UNCHANGED <<log, cursor, stepCount, openId, openStep, replay, hung>>
    BY <1>3 DEF Operate, caretaker
  <2>2. CASE op' = [op EXCEPT ![o] = NoOp] /\ UNCHANGED <<doc, before>>
    <3>1. /\ op' \in [Operation -> Operations]
          /\ \A p \in Operation : op'[p].phase = "done" => op'[p].command \in 1 .. Len(before')
      <4>1. before' \in Seq(Documents) /\ Len(before) <= Len(before')
        BY <1>0, <2>2
      <4> QED  BY <1>1, <2>2, <4>1, OperationsIs
    <3> QED  BY <2>1, <2>2, <3>1 DEF Shape
  <2>3. CASE op' = [op EXCEPT ![o] = [phase |-> "done", command |-> New]] /\ Perform(New)
    <3>1. /\ before' \in Seq(Documents) /\ Len(before') = New /\ New \in 1 .. Len(before')
          /\ New \in Nat /\ Len(before) <= Len(before')
          /\ doc' \in Documents
      BY <2>3, PerformShape
    <3>2. PICK x : x = [phase |-> "done", command |-> New]
      OBVIOUS
    <3>3. x \in Operations /\ x.command = New
      BY <3>1, <3>2 DEF Operations
    <3>4. /\ op' \in [Operation -> Operations]
          /\ \A p \in Operation : op'[p].phase = "done" => op'[p].command \in 1 .. Len(before')
      <4>1. op' = [op EXCEPT ![o] = x]
        BY <2>3, <3>2
      <4> HIDE <3>2
      <4> QED  BY <3>1, <3>3, <4>1, OperationsIs
    <3> QED  BY SMTT(30), <1>0, <2>1, <3>1, <3>4 DEF Shape
  <2> QED  BY <1>3, <2>2, <2>3 DEF Operate
<1>4. CASE ReportOperation(o)
  <2>1. /\ op[o].phase = "done" /\ Report(op[o].command, NoTransaction)
        /\ op' = [op EXCEPT ![o] = NoOp] /\ UNCHANGED <<replay, hung, doc, before>>
    BY <1>4 DEF ReportOperation, Unreported
  <2>2. op[o].command \in 1 .. Len(before) /\ op[o].command \in Nat
    BY <1>0, <2>1 DEF Shape
  <2>3. /\ log' \in Seq(Entries) /\ cursor' \in 0 .. Len(log') /\ stepCount' \in Nat
        /\ \A i \in 1 .. Len(log') : /\ log'[i].command \in 1 .. Len(before')
                                     /\ log'[i].step \in 1 .. stepCount'
        /\ openId' \in Transaction \cup {NoTransaction} /\ openStep' \in Nat
        /\ openId' # NoTransaction => openStep' \in 1 .. stepCount'
        /\ Busy => Len(log') = Len(log)
    <3>1. before' \in Seq(Documents) /\ Len(before) <= Len(before') /\ op[o].command \in 1 .. Len(before')
      BY <1>0, <2>1, <2>2
    <3> QED  BY <2>1, <2>2, <3>1, ReportShape
  <2>4. /\ op' \in [Operation -> Operations]
        /\ \A p \in Operation : op'[p].phase = "done" => op'[p].command \in 1 .. Len(before')
    <3>1. before' \in Seq(Documents) /\ Len(before) <= Len(before')
      BY <1>0, <2>1
    <3> QED  BY <1>1, <2>1, <3>1, OperationsIs
  <2>5. /\ replay' = replay /\ replay \in {Idle} \cup Replays
        /\ replay.kind = "undo" => 1 <= replay.last /\ replay.last <= replay.at /\ replay.at <= Len(log')
        /\ replay.kind = "redo" => 1 <= replay.at /\ replay.at <= replay.last /\ replay.last <= Len(log')
    BY <2>1, <2>3 DEF Shape, Busy, Idle
  <2> QED  BY <2>1, <2>3, <2>4, <2>5 DEF Shape
<1>5. CASE ReadFails(o)
  <2>1. /\ op' = [op EXCEPT ![o] = NoOp]
        /\ UNCHANGED <<log, cursor, stepCount, openId, openStep, replay, hung, doc, before>>
    BY <1>5 DEF ReadFails, caretaker
  <2>2. /\ op' \in [Operation -> Operations]
        /\ \A p \in Operation : op'[p].phase = "done" => op'[p].command \in 1 .. Len(before')
    <3>1. before' \in Seq(Documents) /\ Len(before) <= Len(before')
      BY <1>0, <2>1
    <3> QED  BY <1>1, <2>1, <3>1, OperationsIs
  <2> QED  BY <2>1, <2>2 DEF Shape
<1> QED  BY <1>2, <1>3, <1>4, <1>5

\* So does each turn of a replay
LEMMA ShapeReplay ==
  ASSUME Shape, Reset \/ StartUndo \/ StartRedo \/ ReplayOne \/ ReplayFails \/ ReplayHangs
  PROVE  Shape'
<1>0. /\ log \in Seq(Entries) /\ Len(log) \in Nat /\ cursor \in 0 .. Len(log) /\ stepCount \in Nat
      /\ doc \in Documents
  BY DEF Shape
<1>1. CASE Reset
  <2>1. /\ log' = << >> /\ cursor' = 0 /\ stepCount' = 0 /\ openId' = NoTransaction /\ openStep' = 0
        /\ doc' = << >> /\ replay = Idle /\ UNCHANGED <<replay, hung, op, before>>
    BY <1>1 DEF Reset, Busy
  <2>2. doc' \in Documents
    BY <2>1 DEF Documents
  <2> QED  BY <2>1, <2>2 DEF Shape, Idle
<1>2. CASE StartUndo
  <2>1. /\ ~Busy /\ cursor > 0
        /\ replay' = [kind |-> "undo", at |-> cursor, last |-> StepStart(log, cursor)]
        /\ openId' = NoTransaction
        /\ UNCHANGED <<log, cursor, stepCount, openStep, hung, op, doc, before>>
    BY <1>2 DEF StartUndo
  <2>2. StepStart(log, cursor) \in 1 .. cursor
    <3>1. cursor \in 1 .. Len(log)
      BY <1>0, <2>1
    <3> QED  BY <1>0, <3>1, StepStartIs
  <2>3. /\ replay' \in Replays /\ replay'.kind = "undo"
        /\ 1 <= replay'.last /\ replay'.last <= replay'.at /\ replay'.at <= Len(log)
    BY <1>0, <2>1, <2>2 DEF Replays
  <2> QED  BY <2>1, <2>3 DEF Shape, Busy, Idle
<1>3. CASE StartRedo
  <2>1. /\ ~Busy /\ cursor < Len(log)
        /\ replay' = [kind |-> "redo", at |-> cursor + 1, last |-> StepEnd(log, cursor + 1)]
        /\ openId' = NoTransaction
        /\ UNCHANGED <<log, cursor, stepCount, openStep, hung, op, doc, before>>
    BY <1>3 DEF StartRedo
  <2>2. StepEnd(log, cursor + 1) \in cursor + 1 .. Len(log)
    <3>1. cursor + 1 \in 1 .. Len(log)
      BY <1>0, <2>1
    <3> QED  BY <1>0, <3>1, StepEndIs
  <2>3. /\ replay' \in Replays /\ replay'.kind = "redo"
        /\ 1 <= replay'.at /\ replay'.at <= replay'.last /\ replay'.last <= Len(log)
    BY <1>0, <2>1, <2>2 DEF Replays
  <2> QED  BY <2>1, <2>3 DEF Shape, Busy, Idle
<1>4. ASSUME NEW c \in 0 .. Len(log), NEW failed, Exit(c, failed), UNCHANGED before
      PROVE  /\ cursor' \in 0 .. Len(log) /\ replay' = Idle
             /\ op' \in [Operation -> Operations]
             /\ \A o \in Operation : op'[o].phase = "done" => op'[o].command \in 1 .. Len(before')
  BY <1>4, ReleasedIs DEF Shape
<1>5. CASE ReplayOne
  <2>1. replay \in Replays /\ ~hung /\ UNCHANGED <<log, stepCount, openId, openStep, hung, before>>
    BY <1>5 DEF ReplayOne, Shape, Busy
  <2>2. replay.at \in Nat /\ replay.last \in Nat /\ replay.at >= 1 /\ replay.at <= Len(log)
    BY <1>0, <2>1 DEF Shape, Replays
  <2>3. doc' \in Documents
    <3>1. log[replay.at].command \in Nat
      <4>1. log[replay.at] \in Entries
        BY <1>0, <2>2
      <4> QED  BY <4>1 DEF Entries
    <3>2. doc' = Without(doc, log[replay.at].command) \/ doc' = Append(doc, log[replay.at].command)
      BY <1>5 DEF ReplayOne
    <3>3. Append(doc, log[replay.at].command) \in Documents
      BY <1>0, <3>1 DEF Documents
    <3> QED  BY <1>0, <3>2, <3>3, WithoutIs
  <2>4. CASE Exit(replay.at - 1, FALSE) \/ Exit(replay.at, FALSE)
    <3>1. replay.at - 1 \in 0 .. Len(log) /\ replay.at \in 0 .. Len(log)
      BY <1>0, <2>2
    <3>2. /\ cursor' \in 0 .. Len(log) /\ replay' = Idle
          /\ op' \in [Operation -> Operations]
          /\ \A o \in Operation : op'[o].phase = "done" => op'[o].command \in 1 .. Len(before')
      BY <1>4, <2>1, <2>4, <3>1
    <3>9. replay'.kind # "undo" /\ replay'.kind # "redo"
      BY <3>2 DEF Idle
    <3> QED  BY <2>1, <2>3, <3>2, <3>9 DEF Shape
  <2>5. CASE /\ replay.kind = "undo" /\ replay.at > replay.last
             /\ replay' = [replay EXCEPT !.at = @ - 1] /\ UNCHANGED <<cursor, op>>
    <3>1. /\ replay' \in Replays /\ replay'.kind = "undo" /\ replay'.at = replay.at - 1
          /\ replay'.last = replay.last
      BY <2>1, <2>2, <2>5 DEF Replays
    <3>2. 1 <= replay'.last /\ replay'.last <= replay'.at /\ replay'.at <= Len(log)
      BY <1>0, <2>2, <2>5, <3>1 DEF Shape
    <3> QED  BY <2>1, <2>3, <2>5, <3>1, <3>2 DEF Shape
  <2>6. CASE /\ replay.kind = "redo" /\ replay.at < replay.last
             /\ replay' = [replay EXCEPT !.at = @ + 1] /\ UNCHANGED <<cursor, op>>
    <3>1. /\ replay' \in Replays /\ replay'.kind = "redo" /\ replay'.at = replay.at + 1
          /\ replay'.last = replay.last
      BY <2>1, <2>2, <2>6 DEF Replays
    <3>2. 1 <= replay'.at /\ replay'.at <= replay'.last /\ replay'.last <= Len(log)
      BY <1>0, <2>2, <2>6, <3>1 DEF Shape
    <3> QED  BY <2>1, <2>3, <2>6, <3>1, <3>2 DEF Shape
  <2> QED  BY <1>5, <2>4, <2>5, <2>6 DEF ReplayOne
<1>6. CASE ReplayFails
  <2>1. replay \in Replays /\ ~hung /\ UNCHANGED <<log, stepCount, openId, openStep, hung, doc, before>>
    BY <1>6 DEF ReplayFails, Shape, Busy
  <2>2. replay.at \in Nat /\ replay.at >= 1 /\ replay.at <= Len(log)
    BY <1>0, <2>1 DEF Shape, Replays
  <2>3. (IF replay.kind = "undo" THEN replay.at ELSE replay.at - 1) \in 0 .. Len(log)
    BY <1>0, <2>2
  <2>4. /\ cursor' \in 0 .. Len(log) /\ replay' = Idle
        /\ op' \in [Operation -> Operations]
        /\ \A o \in Operation : op'[o].phase = "done" => op'[o].command \in 1 .. Len(before')
    BY <1>4, <1>6, <2>1, <2>3 DEF ReplayFails
  <2>9. replay'.kind # "undo" /\ replay'.kind # "redo"
    BY <2>4 DEF Idle
  <2> QED  BY <2>1, <2>4, <2>9 DEF Shape
<1>7. CASE ReplayHangs
  BY <1>7 DEF ReplayHangs, Shape, caretaker
<1> QED  BY <1>1, <1>2, <1>3, <1>5, <1>6, <1>7

\* Every step keeps the shape
LEMMA ShapeStep ==
  ASSUME Shape, [Next]_vars
  PROVE  Shape'
<1>1. CASE UNCHANGED vars
  BY <1>1 DEF vars, caretaker, Shape
<1>2. CASE Next
  BY <1>2, ShapeGesture, ShapeOperation, ShapeReplay DEF Next
<1> QED  BY <1>1, <1>2

\* They hold at first
LEMMA ShapeInit ==
  ASSUME Init
  PROVE  Shape
BY DEF Init, Shape, Idle, NoOp, Operations, Documents, Entries

\* They hold always
LEMMA ShapeAlways == Spec => []Shape
<1>1. Init => Shape
  BY ShapeInit
<1>2. Shape /\ [Next]_vars => Shape'
  BY ShapeStep
<1> QED  BY <1>1, <1>2, PTL DEF Spec

\* What TypeOK says of the log, its cursor, a replay and an operation holds
\* throughout, also when replays, gestures and operations overlap (record,
\* undo, redo, reset and whenIdle of the caretaker).
THEOREM TypeCorrect == Spec => []TypeOK
<1>1. ASSUME Shape PROVE TypeOK
  <2>1. DOMAIN log = 1 .. Len(log) /\ DOMAIN before = 1 .. Len(before) /\ Len(log) \in Nat
    BY <1>1 DEF Shape
  <2>2. \A o \in Operation : op[o].phase \in {"none", "waiting", "running", "done"}
    <3>1. op \in [Operation -> Operations]
      BY <1>1 DEF Shape
    <3>2. \A x \in Operations : x.phase \in {"none", "waiting", "running", "done"}
      BY DEF Operations, NoOp
    <3> QED  BY <3>1, <3>2
  <2>3. Busy => replay \in Replays
    BY <1>1 DEF Shape, Busy
  <2>4. Busy => replay.at \in DOMAIN log /\ replay.last \in DOMAIN log
    BY <1>1, <2>1, <2>3 DEF Shape, Replays
  <2> QED  BY <1>1, <2>1, <2>2, <2>4 DEF Shape, TypeOK
<1> QED  BY <1>1, ShapeAlways, PTL

-----------------------------------------------------------------------------
(* Every closure runs on the document it was made for *)

\* Two beginnings of one document, and of two that agree
LEMMA BeginsOfBoth ==
  ASSUME NEW d, NEW v, NEW w, NEW n \in Nat, Begins(d, v, n), \A j \in 1 .. n : v[j] = w[j]
  PROVE  Begins(d, w, n)
BY DEF Begins

\* What is in force while no replay is under way, and while one is
LEMMA InForceIs ==
  ASSUME Shape
  PROVE  /\ ~Busy => InForce = cursor
         /\ replay.kind = "undo" => InForce = replay.at /\ replay \in Replays /\ replay.at \in 1 .. Len(log)
         /\ replay.kind = "redo" => InForce = replay.at - 1 /\ replay \in Replays /\ replay.at \in 1 .. Len(log)
         /\ Busy => replay.kind = "undo" \/ replay.kind = "redo"
         /\ InForce \in 0 .. Len(log)
<1>1. ~Busy => replay.kind = "none"
  BY DEF Busy, Idle
<1>2. Busy => replay \in Replays /\ replay.kind \in {"undo", "redo"} /\ replay.at \in Nat /\ replay.last \in Nat
  BY DEF Shape, Busy, Replays
<1>3. replay.kind = "undo" \/ replay.kind = "redo" => Busy
  BY <1>1
<1>4. cursor \in 0 .. Len(log) /\ Len(log) \in Nat
  BY DEF Shape
<1>5. Busy => replay.at \in 1 .. Len(log)
  BY <1>2, <1>4 DEF Shape
<1> QED  BY <1>1, <1>2, <1>3, <1>4, <1>5 DEF InForce

\* A step that leaves the log and the history alone
LEMMA ToldSame ==
  ASSUME NEW F, NEW b, Told(F, b), UNCHANGED <<log, before>>
  PROVE  Told(F, b)'
BY DEF Told

\* A step that performs nothing, and puts nothing else in force
LEMMA StandsSame ==
  ASSUME NEW F, NEW b, Stands(F, b), UNCHANGED <<doc, before>>, InForce' = InForce,
         Unreported' = Unreported, \A o \in Unreported : op'[o] = op[o]
  PROVE  Stands(F, b)'
BY SMTT(30) DEF Stands

\* With everything reported, what is in force is all there is
LEMMA StandsAlone ==
  ASSUME Shape, NEW F, NEW b \in Nat, Stands(F, b), Unreported = {}
  PROVE  Begins(doc, F, b + InForce)
<1>1. doc \in Documents /\ Len(doc) \in Nat /\ InForce \in Nat
  BY InForceIs DEF Shape, Documents
<1>2. Len(doc) = b + InForce
  <2>1. SUFFICES ASSUME Len(doc) > b + InForce PROVE FALSE
    BY <1>1 DEF Stands
  <2>2. Len(doc) \in b + InForce + 1 .. Len(doc)
    BY <1>1, <2>1
  <2> QED  BY <2>2 DEF Stands
<1> QED  BY <1>1, <1>2 DEF Stands, Begins

LEMMA AloneStands ==
  ASSUME Shape', NEW F, NEW b \in Nat, Begins(doc', F, b + InForce'), Unreported' = {}
  PROVE  Stands(F, b)'
<1>1. Len(doc') = b + InForce' /\ \A j \in 1 .. b + InForce' : doc'[j] = F[j]
  BY DEF Begins
<1>2. InForce' \in Nat
  <2>1. replay'.kind = "undo" \/ replay'.kind = "redo" => replay' \in Replays
    BY DEF Shape, Idle
  <2>2. Len(log') \in Nat /\ cursor' \in Nat
    BY DEF Shape
  <2> QED  BY <2>1, <2>2 DEF InForce, Shape, Replays
<1>3. PICK n \in Nat : n = b + InForce'
  <2>1. PICK k \in Nat : k = InForce'
    BY <1>2
  <2>2. b + k \in Nat
    OBVIOUS
  <2> QED  BY <2>1, <2>2
<1>4. Len(doc') = n /\ n + 1 .. Len(doc') = {}
  BY <1>1, <1>3
<1>5. \A j \in 1 .. n : doc'[j] = F[j]
  BY <1>1, <1>3
<1> QED  BY <1>3, <1>4, <1>5 DEF Stands

\* A command is reported: what was in force, with it, is the new tale
LEMMA TaleReported ==
  ASSUME Shape, NEW F \in Documents, NEW b \in Nat, Told(F, b), Shape', ~Busy,
         NEW c \in 1 .. Len(before'), NEW t \in Transaction \cup {NoTransaction}, Report(c, t),
         NEW W \in Documents, Len(W) = b + cursor + 1, W[b + cursor + 1] = c,
         \A j \in 1 .. b + cursor : W[j] = F[j],
         Len(before) <= Len(before'), \A i \in 1 .. Len(before) : before'[i] = before[i],
         Begins(before'[c], F, b + cursor), \A i \in 1 .. Len(F) : F[i] # c,
         UNCHANGED replay
  PROVE  \E d \in Nat : Told(W, d)' /\ d + InForce' = b + cursor + 1
<1>0. /\ cursor \in 0 .. Len(log) /\ Len(log) \in Nat /\ Len(before) \in Nat /\ Len(before') \in Nat
      /\ Len(F) = b + Len(log) /\ Len(F) \in Nat /\ F \in Seq(Nat) /\ W \in Seq(Nat) /\ c \in Nat
      /\ cursor \in Nat
  <2>1. /\ cursor \in 0 .. Len(log) /\ Len(log) \in Nat
        /\ before \in Seq(Documents) /\ before' \in Seq(Documents)
    BY DEF Shape
  <2>2. Len(F) = b + Len(log)
    BY DEF Told
  <2>3. Len(before) \in Nat /\ Len(before') \in Nat /\ F \in Seq(Nat) /\ W \in Seq(Nat)
    BY SMTT(30), <2>1 DEF Documents
  <2>4. Len(F) \in Nat /\ c \in Nat /\ cursor \in Nat
    BY <2>1, <2>3
  <2> QED  BY <2>1, <2>2, <2>3, <2>4
<1>1. PICK e \in 0 .. cursor :
        /\ log' \in Seq(Entries) /\ Len(log') = cursor + 1 - e /\ cursor' = Len(log')
        /\ \A i \in 1 .. Len(log') - 1 : log'[i] = log[e + i]
        /\ log'[Len(log')].command = c
  BY <1>0, ReportedLog
<1>2. e \in Nat /\ b + e \in Nat /\ Len(log') \in Nat /\ Len(W) = b + e + Len(log')
  <2>1. e \in Nat /\ e <= cursor /\ cursor \in Nat /\ Len(log') = cursor + 1 - e
    BY <1>0, <1>1
  <2>2. Len(log') \in Nat
    BY <2>1
  <2>3. Len(W) = b + cursor + 1
    OBVIOUS
  <2> QED  BY <2>1, <2>2, <2>3
<1>3. ASSUME NEW i \in 1 .. Len(log')
      PROVE  /\ log'[i].command = W[b + e + i]
             /\ Begins(before'[W[b + e + i]], W, b + e + i - 1)
  <2>1. CASE i = Len(log')
    <3>1. b + e + i = b + cursor + 1 /\ b + e + i - 1 = b + cursor /\ b + cursor \in Nat
      BY <1>0, <1>1, <1>2, <2>1
    <3>2. Begins(before'[c], W, b + cursor)
      BY <3>1, BeginsOfBoth
    <3> QED  BY <1>1, <2>1, <3>1, <3>2
  <2>2. CASE i # Len(log')
    <3>1. /\ i \in 1 .. Len(log') - 1 /\ e + i \in 1 .. cursor /\ e + i \in 1 .. Len(log)
          /\ b + (e + i) = b + e + i /\ b + e + i \in 1 .. b + cursor
          /\ b + e + i - 1 \in Nat /\ b + e + i \in 1 .. Len(F)
      <4>1. /\ i \in Nat /\ 1 <= i /\ i <= Len(log') /\ i # Len(log')
            /\ Len(log') = cursor + 1 - e /\ e \in Nat /\ e <= cursor /\ cursor \in Nat
            /\ cursor <= Len(log) /\ Len(log) \in Nat /\ Len(F) = b + Len(log)
        BY <1>0, <1>1, <1>2, <2>2
      <4>2. i <= cursor - e /\ e + i <= cursor /\ 1 <= e + i /\ e + i \in Nat
        BY <4>1
      <4>3. i \in 1 .. Len(log') - 1 /\ e + i \in 1 .. cursor /\ e + i \in 1 .. Len(log)
        BY <4>1, <4>2
      <4>4. b \in Nat
        BY <1>0
      <4>5. b + (e + i) = b + e + i /\ b + e + i <= b + cursor /\ 1 <= b + e + i
        BY <4>1, <4>2, <4>4
      <4> QED  BY <4>1, <4>2, <4>3, <4>4, <4>5
    <3>2. /\ log[e + i].command = F[b + e + i]
          /\ Begins(before[F[b + e + i]], F, b + e + i - 1)
      BY SMTT(30), <3>1 DEF Told
    <3>3. W[b + e + i] = F[b + e + i] /\ log'[i] = log[e + i]
      BY <1>1, <3>1
    <3>4. F[b + e + i] \in 1 .. Len(before)
      BY <3>1 DEF Told
    <3>5. before'[F[b + e + i]] = before[F[b + e + i]]
      BY <3>4
    <3>6. \A j \in 1 .. b + e + i - 1 : F[j] = W[j]
      <4>1. b + e + i \in Nat /\ b + e + i <= b + cursor /\ b + cursor \in Nat
        BY <1>0, <3>1
      <4>2. \A j \in 1 .. b + e + i - 1 : j \in 1 .. b + cursor
        BY <4>1
      <4> QED  BY <4>2
    <3>7. Begins(before'[F[b + e + i]], W, b + e + i - 1)
      BY <3>1, <3>2, <3>5, <3>6, BeginsOfBoth
    <3> QED  BY <3>2, <3>3, <3>7
  <2> QED  BY <2>1, <2>2
<1>4. \A i \in 1 .. Len(W) : (i \in 1 .. b + cursor /\ i \in 1 .. Len(F) /\ W[i] = F[i])
                             \/ (i = b + cursor + 1 /\ W[i] = c)
  <2> TAKE i \in 1 .. Len(W)
  <2>1. Len(W) = b + cursor + 1 /\ b + cursor \in Nat /\ b + cursor <= Len(F)
    BY <1>0
  <2>2. i \in 1 .. b + cursor \/ i = b + cursor + 1
    BY <2>1
  <2>3. CASE i \in 1 .. b + cursor
    <3>1. i \in 1 .. Len(F)
      BY <1>0, <2>1, <2>3
    <3> QED  BY <2>3, <3>1
  <2>4. CASE i = b + cursor + 1
    BY <2>4
  <2> QED  BY <2>2, <2>3, <2>4
<1>5. \A i, j \in 1 .. Len(W) : W[i] = W[j] => i = j
  <2> TAKE i, j \in 1 .. Len(W)
  <2> HAVE W[i] = W[j]
  <2>1. \A k, l \in 1 .. Len(F) : F[k] = F[l] => k = l
    BY DEF Told
  <2> QED  BY <1>4, <2>1
<1>6. \A i \in 1 .. Len(W) : W[i] \in 1 .. Len(before')
  <2>1. \A i \in 1 .. Len(F) : F[i] \in 1 .. Len(before')
    BY <1>0 DEF Told
  <2> QED  BY <1>4, <2>1
<1>7. InForce' = Len(log')
  <2>1. replay'.kind = "none"
    BY DEF Busy, Idle
  <2> QED  BY <1>1, <2>1 DEF InForce
<1>8. Told(W, b + e)'
  BY <1>2, <1>3, <1>5, <1>6 DEF Told
<1>9. b + e + InForce' = b + cursor + 1
  BY <1>0, <1>1, <1>2, <1>7
<1> QED  BY <1>2, <1>8, <1>9

\* A gesture that nothing is beside keeps the closures on their documents
LEMMA TaleGesture ==
  ASSUME Shape, Shape', UndoInv, NEW t \in Transaction \cup {NoTransaction}, Gesture(t), ~astray'
  PROVE  Apart' /\ \E whole \in Documents, b \in Nat : Told(whole, b)' /\ Stands(whole, b)'
<1>0. ~astray /\ ~Busy /\ Unreported = {} /\ Perform(New) /\ Report(New, t) /\ UNCHANGED <<replay, op>>
  BY DEF Gesture
<1>1. PICK F \in Documents, b \in Nat : Told(F, b) /\ Stands(F, b)
  BY <1>0 DEF UndoInv
<1>2. Apart' /\ Unreported' = {}
  BY <1>0 DEF Apart, Unreported
<1>3. /\ Len(before') = New /\ New \in 1 .. Len(before') /\ Len(before) <= Len(before')
      /\ doc' \in Documents /\ Len(doc') = Len(doc) + 1 /\ doc'[Len(doc) + 1] = New
      /\ \A i \in 1 .. Len(doc) : doc'[i] = doc[i]
      /\ \A i \in 1 .. Len(before) : before'[i] = before[i]
      /\ before'[New] = doc
  BY <1>0, PerformShape
<1>4. Begins(doc, F, b + cursor)
  BY <1>0, <1>1, StandsAlone, InForceIs
<1>5. PICK W \in Documents : W = doc'
  BY <1>3
<1>6. /\ Len(W) = b + cursor + 1 /\ W[b + cursor + 1] = New
      /\ \A j \in 1 .. b + cursor : W[j] = F[j]
  BY <1>3, <1>4, <1>5 DEF Begins
<1>7. \A i \in 1 .. Len(F) : F[i] # New
  <2>1. \A i \in 1 .. Len(F) : F[i] \in 1 .. Len(before)
    BY <1>1 DEF Told
  <2>2. New = Len(before) + 1 /\ Len(before) \in Nat
    BY DEF New, Shape
  <2> QED  BY <2>1, <2>2
<1>8. Begins(before'[New], F, b + cursor)
  BY <1>3, <1>4
<1>9. PICK n \in 1 .. Len(before') : n = New
  BY <1>3
<1>10. PICK d \in Nat : Told(W, d)' /\ d + InForce' = b + cursor + 1
  BY <1>0, <1>1, <1>3, <1>6, <1>7, <1>8, <1>9, TaleReported
<1>11. Begins(doc', W, d + InForce')
  BY <1>5, <1>6, <1>10 DEF Begins
<1>12. Stands(W, d)'
  BY <1>2, <1>11, AloneStands
<1> QED  BY <1>2, <1>10, <1>12

\* The command of an operation is new: the tale is the same, and the document
\* ends with it
LEMMA TalePerformed ==
  ASSUME Shape, Shape', NEW o \in Operation, op[o].phase = "running", Perform(New),
         op' = [op EXCEPT ![o] = [phase |-> "done", command |-> New]],
         UNCHANGED <<log, cursor, replay>>, ~Busy,
         NEW F \in Documents, NEW b \in Nat, Told(F, b), Stands(F, b)
  PROVE  Told(F, b)' /\ Stands(F, b)'
<1>0. Len(before) \in Nat /\ Len(F) \in Nat /\ cursor \in Nat /\ F \in Seq(Nat) /\ Len(doc) \in Nat
  BY SMTT(30) DEF Shape, Documents
<1>1. /\ Len(before') = New /\ New \in 1 .. Len(before') /\ Len(before) <= Len(before')
      /\ doc' \in Documents /\ Len(doc') = Len(doc) + 1 /\ doc'[Len(doc) + 1] = New
      /\ \A i \in 1 .. Len(doc) : doc'[i] = doc[i]
      /\ \A i \in 1 .. Len(before) : before'[i] = before[i]
      /\ before'[New] = doc
  BY PerformShape
<1>2. New = Len(before) + 1
  BY DEF New
<1>3. InForce = cursor /\ InForce' = cursor
  BY DEF InForce, Busy, Idle
<1>4. \A i \in 1 .. Len(F) : F[i] \in 1 .. Len(before)
  BY DEF Told
<1>5. \A i \in 1 .. Len(F) : F[i] \in 1 .. Len(before') /\ F[i] < New
  BY <1>0, <1>1, <1>2, <1>4
<1>6. ASSUME NEW i \in 1 .. Len(log)
      PROVE  /\ log[i].command = F[b + i]
             /\ Begins(before'[F[b + i]], F, b + i - 1)
  <2>1. log[i].command = F[b + i] /\ Begins(before[F[b + i]], F, b + i - 1)
    BY DEF Told
  <2>2. b + i \in 1 .. Len(F)
    <3>1. Len(F) = b + Len(log) /\ Len(log) \in Nat
      BY DEF Told, Shape
    <3> QED  BY <3>1
  <2> QED  BY <1>1, <1>4, <2>1, <2>2
<1>7. Told(F, b)'
  <2>1. Len(F) = b + Len(log) /\ \A i, j \in 1 .. Len(F) : F[i] = F[j] => i = j
    BY DEF Told
  <2> QED  BY <1>5, <1>6, <2>1 DEF Told
<1> DEFINE n == b + cursor + 1
<1>8. /\ n \in Nat /\ n <= Len(doc) + 1
      /\ \A j \in 1 .. b + cursor : j \in 1 .. Len(doc) /\ doc'[j] = F[j]
  <2>1. b + cursor <= Len(doc) /\ \A j \in 1 .. b + cursor : doc[j] = F[j]
    BY <1>3 DEF Stands
  <2>2. \A j \in 1 .. b + cursor : j \in 1 .. Len(doc)
    BY <1>0, <2>1
  <2> QED  BY <1>0, <1>1, <2>1, <2>2
<1>9. \A j \in n .. Len(doc') : (j \in n .. Len(doc) /\ j \in 1 .. Len(doc)) \/ j = Len(doc) + 1
  BY SMTT(30), <1>0, <1>1, <1>8
<1>10. /\ o \notin Unreported /\ Unreported' = Unreported \cup {o} /\ op'[o].command = New
       /\ \A p \in Unreported : op'[p] = op[p] /\ op[p].command \in 1 .. Len(before)
  <2>1. op \in [Operation -> Operations]
    BY DEF Shape
  <2>2. \A p \in Operation : op'[p] = IF p = o THEN [phase |-> "done", command |-> New] ELSE op[p]
    BY <2>1
  <2> QED  BY <2>2 DEF Unreported, Shape
<1>11. ASSUME NEW j \in n .. Len(doc')
       PROVE  /\ doc'[j] \in 1 .. Len(before') /\ Begins(before'[doc'[j]], doc', j - 1)
              /\ \E p \in Unreported' : op'[p].command = doc'[j]
              /\ \A i \in 1 .. Len(F) : F[i] < doc'[j]
  <2>1. CASE j = Len(doc) + 1
    <3>1. doc'[j] = New /\ j - 1 = Len(doc) /\ doc \in Documents
      BY <1>0, <1>1, <2>1 DEF Shape
    <3>2. Begins(doc, doc', Len(doc))
      BY <1>1, <3>1 DEF Begins
    <3> QED  BY <1>1, <1>5, <1>10, <3>1, <3>2
  <2>2. CASE j \in n .. Len(doc) /\ j \in 1 .. Len(doc)
    <3>1. /\ doc[j] \in 1 .. Len(before) /\ Begins(before[doc[j]], doc, j - 1)
          /\ \E p \in Unreported : op[p].command = doc[j]
          /\ \A i \in 1 .. Len(F) : F[i] < doc[j]
      BY <1>3, <2>2 DEF Stands
    <3>2. doc'[j] = doc[j] /\ before'[doc[j]] = before[doc[j]] /\ doc[j] \in 1 .. Len(before')
      BY <1>0, <1>1, <2>2, <3>1
    <3>3. j - 1 \in Nat /\ \A i \in 1 .. j - 1 : doc[i] = doc'[i]
      BY <1>0, <1>1, <2>2
    <3>4. Begins(before[doc[j]], doc', j - 1)
      BY <3>1, <3>3, BeginsOfBoth
    <3>5. \E p \in Unreported' : op'[p].command = doc'[j]
      BY <1>10, <3>1, <3>2
    <3> QED  BY <3>1, <3>2, <3>4, <3>5
  <2> QED  BY <1>9, <2>1, <2>2
<1>12. ASSUME NEW i \in n .. Len(doc'), NEW j \in n .. Len(doc'), i < j
       PROVE  doc'[i] < doc'[j]
  <2>1. i \in n .. Len(doc) /\ i \in 1 .. Len(doc)
    BY <1>0, <1>1, <1>9, <1>12
  <2>2. doc'[i] = doc[i] /\ doc[i] \in 1 .. Len(before)
    BY <1>1, <1>3, <2>1 DEF Stands
  <2>3. CASE j = Len(doc) + 1
    BY <1>0, <1>1, <1>2, <2>2, <2>3
  <2>4. CASE j \in n .. Len(doc) /\ j \in 1 .. Len(doc)
    <3>1. doc'[j] = doc[j] /\ doc[i] < doc[j]
      BY <1>1, <1>3, <1>12, <2>1, <2>4 DEF Stands
    <3> QED  BY <2>2, <3>1
  <2> QED  BY <1>9, <2>3, <2>4
<1>13. ASSUME NEW q \in Unreported'
       PROVE  /\ \E j \in n .. Len(doc') : doc'[j] = op'[q].command
              /\ \A p \in Unreported' : op'[p].command = op'[q].command => p = q
  <2>1. Len(before) < New /\ \A p \in Unreported : op'[p].command # New
    BY <1>0, <1>2, <1>10
  <2>2. CASE q = o
    <3>1. Len(doc) + 1 \in n .. Len(doc')
      BY <1>0, <1>1, <1>8
    <3> QED  BY <1>1, <1>10, <2>1, <2>2, <3>1
  <2>3. CASE q \in Unreported
    <3>1. PICK j \in n .. Len(doc) : doc[j] = op[q].command
      BY <1>3, <2>3 DEF Stands
    <3>2. j \in n .. Len(doc') /\ j \in 1 .. Len(doc)
      BY <1>0, <1>1, <1>8
    <3>3. \A p \in Unreported : op[p].command = op[q].command => p = q
      BY <2>3 DEF Stands
    <3> QED  BY <1>1, <1>10, <2>1, <2>3, <3>1, <3>2, <3>3
  <2> QED  BY <1>10, <2>2, <2>3
<1>14. Stands(F, b)'
  <2>1. b + cursor <= Len(doc')
    BY <1>0, <1>1, <1>8
  <2> QED  BY <1>3, <1>8, <1>11, <1>12, <1>13, <2>1 DEF Stands
<1> QED  BY <1>7, <1>14

\* The first command that waits to be reported is, and the tale goes on with it
LEMMA TaleReport ==
  ASSUME Shape, Shape', UndoInv, NEW o \in Operation, ReportOperation(o), ~astray'
  PROVE  Apart' /\ \E whole \in Documents, b \in Nat : Told(whole, b)' /\ Stands(whole, b)'
<1>0. /\ ~astray /\ o \in Unreported /\ Report(op[o].command, NoTransaction)
      /\ op' = [op EXCEPT ![o] = NoOp] /\ UNCHANGED <<replay, doc, before>>
      /\ \A p \in Unreported : ~(op[p].command < op[o].command)
  BY DEF ReportOperation
<1>1. PICK F \in Documents, b \in Nat : Told(F, b) /\ Stands(F, b)
  BY <1>0 DEF UndoInv
<1>2. ~Busy
  BY <1>0 DEF UndoInv, Apart
<1>3. /\ InForce = cursor /\ cursor \in 0 .. Len(log) /\ Len(log) \in Nat /\ Len(F) = b + Len(log)
      /\ F \in Seq(Nat) /\ doc \in Seq(Nat) /\ Len(doc) \in Nat /\ Len(before) \in Nat
  <2>1. InForce = cursor
    BY <1>2, InForceIs
  <2>2. cursor \in 0 .. Len(log) /\ log \in Seq(Entries) /\ before \in Seq(Documents) /\ doc \in Documents
    BY DEF Shape
  <2>3. Len(F) = b + Len(log)
    BY <1>1 DEF Told
  <2>4. F \in Seq(Nat) /\ doc \in Seq(Nat)
    BY <2>2 DEF Documents
  <2>5. Len(log) \in Nat /\ Len(before) \in Nat /\ Len(doc) \in Nat
    BY <2>2, <2>4
  <2> QED  BY <2>1, <2>2, <2>3, <2>4, <2>5
<1>4. Apart'
  BY <1>0, <1>2 DEF Apart, Busy
<1>5. PICK n \in Nat : n = b + cursor + 1
  BY <1>3
<1>6. n \in n .. Len(doc) /\ doc[n] = op[o].command
  <2>1. PICK j \in n .. Len(doc) : doc[j] = op[o].command
    BY <1>0, <1>1, <1>3, <1>5 DEF Stands
  <2>2. n \in n .. Len(doc)
    BY <1>3, <2>1
  <2>3. CASE j = n
    BY <2>1, <2>2, <2>3
  <2>4. CASE j # n
    <3>1. n < j
      BY <1>3, <2>1, <2>4
    <3>2. doc[n] < doc[j] /\ \E p \in Unreported : op[p].command = doc[n]
      BY <1>1, <1>3, <1>5, <2>1, <2>2, <3>1 DEF Stands
    <3> QED  BY <1>0, <2>1, <3>2
  <2> QED  BY <2>3, <2>4
<1>7. PICK W \in Documents : W = SubSeq(doc, 1, n)
  <2>1. SubSeq(doc, 1, n) \in Documents
    BY SMTT(30), <1>3, <1>6 DEF Documents
  <2> QED  BY <2>1
<1>8. Len(W) = n /\ \A j \in 1 .. n : W[j] = doc[j]
  <2>1. n <= Len(doc)
    BY <1>6
  <2> QED  BY <1>3, <1>7, <2>1
<1>9. /\ \A j \in 1 .. b + cursor : doc[j] = F[j]
      /\ doc[n] \in 1 .. Len(before) /\ Begins(before[doc[n]], doc, n - 1)
      /\ \A i \in 1 .. Len(F) : F[i] < doc[n]
  BY <1>1, <1>3, <1>5, <1>6 DEF Stands
<1>10. PICK c \in 1 .. Len(before) : c = doc[n]
  BY <1>9
<1>11. n \in 1 .. n /\ n - 1 = b + cursor /\ b + cursor \in Nat /\ \A j \in 1 .. b + cursor : j \in 1 .. n
  BY <1>3, <1>5
<1>12. Begins(before[c], F, b + cursor)
  BY <1>9, <1>10, <1>11, BeginsOfBoth
<1>13. \A i \in 1 .. Len(F) : F[i] # c
  BY SMTT(30), <1>3, <1>9, <1>10
<1>14. PICK d \in Nat : Told(W, d)' /\ d + InForce' = b + cursor + 1
  <2>1. Len(W) = b + cursor + 1 /\ W[b + cursor + 1] = c
    BY <1>5, <1>8, <1>10, <1>11
  <2>2. \A j \in 1 .. b + cursor : W[j] = F[j]
    BY <1>8, <1>9, <1>11
  <2>3. PICK t \in Transaction \cup {NoTransaction} : t = NoTransaction
    OBVIOUS
  <2>4. Report(c, t)
    BY <1>0, <1>6, <1>10, <2>3
  <2>5. c \in 1 .. Len(before') /\ Len(before) <= Len(before') /\ before' = before
    BY <1>0, <1>3
  <2>6. Begins(before'[c], F, b + cursor) /\ \A i \in 1 .. Len(before) : before'[i] = before[i]
    BY <1>12, <2>5
  <2>7. UNCHANGED replay
    BY <1>0
  <2> HIDE <2>3, <1>7, <1>10
  <2> QED  BY <1>1, <1>2, <1>13, <2>1, <2>2, <2>4, <2>5, <2>6, <2>7, TaleReported
<1>15. /\ Unreported' = Unreported \ {o}
       /\ \A p \in Unreported' : op'[p] = op[p]
  <2>1. op \in [Operation -> Operations]
    BY DEF Shape
  <2>2. \A p \in Operation : op'[p] = IF p = o THEN NoOp ELSE op[p]
    BY <1>0, <2>1
  <2> QED  BY <2>2 DEF Unreported, NoOp
<1>16. ASSUME NEW j \in n + 1 .. Len(doc)
       PROVE  /\ j \in n .. Len(doc) /\ doc[n] < doc[j]
              /\ doc[j] \in 1 .. Len(before) /\ Begins(before[doc[j]], doc, j - 1)
              /\ \E p \in Unreported' : op'[p].command = doc[j]
              /\ \A i \in 1 .. Len(W) : W[i] < doc[j]
  <2>1. j \in n .. Len(doc) /\ n < j
    BY <1>3
  <2>2. /\ doc[n] < doc[j]
        /\ doc[j] \in 1 .. Len(before) /\ Begins(before[doc[j]], doc, j - 1)
        /\ \A i \in 1 .. Len(F) : F[i] < doc[j]
    BY <1>1, <1>3, <1>5, <1>6, <2>1 DEF Stands
  <2>3. PICK p \in Unreported : op[p].command = doc[j]
    BY <1>1, <1>3, <1>5, <2>1 DEF Stands
  <2>4. p # o
    <3>1. doc[n] \in Nat
      BY SMTT(30), <1>3, <1>9
    <3>2. doc[n] # doc[j]
      BY <2>2, <3>1
    <3> QED  BY <1>6, <2>3, <3>2
  <2>5. \E q \in Unreported' : op'[q].command = doc[j]
    BY <1>15, <2>3, <2>4
  <2>6. ASSUME NEW i \in 1 .. Len(W) PROVE W[i] < doc[j]
    <3>1. CASE i = n
      BY <1>8, <1>11, <2>2, <3>1
    <3>2. CASE i # n
      <4>1. i \in 1 .. b + cursor /\ i \in 1 .. Len(F) /\ i \in 1 .. n
        <5>1. i \in 1 .. n /\ i <= b + cursor
          BY SMTT(30), <1>3, <1>5, <1>8, <3>2
        <5>2. b + cursor <= Len(F) /\ Len(F) \in Nat /\ b + cursor \in Nat
          BY <1>3
        <5> QED  BY <5>1, <5>2
      <4>2. W[i] = F[i]
        BY <1>8, <1>9, <4>1
      <4> QED  BY <2>2, <4>1, <4>2
    <3> QED  BY <3>1, <3>2
  <2> QED  BY <2>1, <2>2, <2>5, <2>6
<1>17. \A i, j \in n + 1 .. Len(doc) : i < j => doc[i] < doc[j]
  BY <1>1, <1>3, <1>5, <1>16 DEF Stands
<1>18. ASSUME NEW q \in Unreported'
       PROVE  /\ \E j \in n + 1 .. Len(doc) : doc[j] = op'[q].command
              /\ \A p \in Unreported' : op'[p].command = op'[q].command => p = q
  <2>1. q \in Unreported /\ q # o /\ op'[q] = op[q]
    BY <1>15
  <2>2. \A p \in Unreported : op[p].command = op[q].command => p = q
    BY <1>1, <2>1 DEF Stands
  <2>3. PICK j \in n .. Len(doc) : doc[j] = op[q].command
    BY <1>1, <1>3, <1>5, <2>1 DEF Stands
  <2>4. j # n
    BY <1>0, <1>6, <2>1, <2>2, <2>3
  <2>5. j \in n + 1 .. Len(doc)
    BY <1>3, <2>3, <2>4
  <2> QED  BY <1>15, <2>1, <2>2, <2>3, <2>5
<1>19. Stands(W, d)'
  <2>1. d + InForce' = n /\ n <= Len(doc') /\ doc' = doc /\ before' = before
    BY <1>0, <1>3, <1>5, <1>6, <1>14
  <2> QED  BY <1>8, <1>16, <1>17, <1>18, <2>1 DEF Stands
<1> QED  BY <1>4, <1>14, <1>19

\* So does each turn of an operation
LEMMA TaleOperation ==
  ASSUME Shape, Shape', UndoInv, NEW o \in Operation, ~astray',
         StartOperation(o) \/ Operate(o) \/ ReportOperation(o) \/ ReadFails(o)
  PROVE  Apart' /\ \E whole \in Documents, b \in Nat : Told(whole, b)' /\ Stands(whole, b)'
<1>1. ~ReadFails(o)
  BY DEF ReadFails
<1>2. ~astray
  BY <1>1 DEF StartOperation, Operate, ReportOperation
<1>3. PICK F \in Documents, b \in Nat : Told(F, b) /\ Stands(F, b)
  BY <1>2 DEF UndoInv
<1>4. op \in [Operation -> Operations] /\ (Busy => Unreported = {})
  BY <1>2 DEF Shape, UndoInv, Apart
<1>5. ASSUME op[o].phase # "done", NEW x, x.phase # "done", op' = [op EXCEPT ![o] = x],
             UNCHANGED <<log, cursor, replay, doc, before>>
      PROVE  Apart' /\ Told(F, b)' /\ Stands(F, b)'
  <2>1. \A p \in Operation : op'[p] = IF p = o THEN x ELSE op[p]
    BY <1>4, <1>5
  <2>2. Unreported' = Unreported /\ \A p \in Unreported : op'[p] = op[p]
    BY <1>5, <2>1 DEF Unreported
  <2>3. Apart'
    BY <1>4, <1>5, <2>2 DEF Apart, Busy
  <2>4. InForce' = InForce
    BY <1>5 DEF InForce
  <2> QED  BY <1>3, <1>5, <2>2, <2>3, <2>4, ToldSame, StandsSame
<1>6. CASE StartOperation(o)
  <2>1. PICK x : x = [phase |-> IF Busy THEN "waiting" ELSE "running"]
    OBVIOUS
  <2>2. x.phase # "done"
    BY <2>1
  <2>3. /\ op[o].phase # "done" /\ op' = [op EXCEPT ![o] = x]
        /\ UNCHANGED <<log, cursor, replay, doc, before>>
    BY <1>6, <2>1 DEF StartOperation, NoOp, caretaker
  <2> QED  BY <1>3, <1>5, <2>2, <2>3
<1>7. CASE Operate(o)
  <2>1. op[o].phase = "running" /\ UNCHANGED <<log, cursor, replay>>
    BY <1>7 DEF Operate, caretaker
  <2>2. CASE op' = [op EXCEPT ![o] = NoOp] /\ UNCHANGED <<doc, before>>
    <3>1. NoOp.phase # "done"
      BY DEF NoOp
    <3> QED  BY <1>3, <1>5, <2>1, <2>2, <3>1
  <2>3. CASE /\ op' = [op EXCEPT ![o] = [phase |-> "done", command |-> New]] /\ Perform(New)
             /\ astray' = (astray \/ Busy)
    <3>1. ~Busy
      BY <2>3
    <3>2. Apart'
      BY <2>1, <3>1 DEF Apart, Busy
    <3> QED  BY <1>3, <2>1, <2>3, <3>1, <3>2, TalePerformed
  <2> QED  BY <1>7, <2>2, <2>3 DEF Operate
<1>8. CASE ReportOperation(o)
  BY <1>8, TaleReport
<1> QED  BY <1>1, <1>6, <1>7, <1>8

\* Another document: the tale begins anew, unless an operation on the old one
\* is under way
LEMMA TaleReset ==
  ASSUME Shape, Shape', Reset, ~astray'
  PROVE  Apart' /\ \E whole \in Documents, b \in Nat : Told(whole, b)' /\ Stands(whole, b)'
<1>1. /\ ~Busy /\ log' = << >> /\ cursor' = 0 /\ doc' = << >> /\ UNCHANGED <<replay, op, before>>
      /\ \A o \in Operation : op[o] = NoOp
  BY DEF Reset
<1>2. Unreported' = {} /\ Apart'
  BY <1>1 DEF Unreported, NoOp, Apart
<1>3. PICK W \in Documents : W = << >>
  <2>1. << >> \in Documents
    BY DEF Documents
  <2> QED  BY <2>1
<1>4. Len(W) = 0 /\ Len(log') = 0 /\ 1 .. 0 = {} /\ InForce' = 0 /\ Len(doc') = 0 /\ 0 \in Nat
  BY <1>1, <1>3 DEF InForce, Busy, Idle
<1>5. Told(W, 0)'
  BY <1>4 DEF Told
<1>6. Begins(doc', W, 0 + InForce')
  BY <1>1, <1>3, <1>4 DEF Begins
<1>7. Stands(W, 0)'
  BY <1>2, <1>4, <1>6, AloneStands
<1> QED  BY <1>2, <1>4, <1>5, <1>7

\* So does each turn of a replay
LEMMA TaleReplay ==
  ASSUME Shape, Shape', UndoInv, ~astray',
         StartUndo \/ StartRedo \/ ReplayOne \/ ReplayFails \/ ReplayHangs
  PROVE  Apart' /\ \E whole \in Documents, b \in Nat : Told(whole, b)' /\ Stands(whole, b)'
<1>1. ~astray
  BY DEF StartUndo, StartRedo, ReplayOne, ReplayFails, ReplayHangs
<1>2. PICK F \in Documents, b \in Nat : Told(F, b) /\ Stands(F, b)
  BY <1>1 DEF UndoInv
<1>0. /\ Len(F) \in Nat /\ F \in Seq(Nat) /\ Len(F) = b + Len(log) /\ Len(log) \in Nat
      /\ cursor \in 0 .. Len(log) /\ doc \in Documents
  BY <1>2 DEF Shape, Documents, Told
<1>3. Unreported = {}
  <2>1. Busy => Unreported = {}
    BY <1>1 DEF UndoInv, Apart
  <2>2. CASE StartUndo \/ StartRedo
    BY <1>1, <2>2 DEF StartUndo, StartRedo
  <2>3. CASE ReplayOne \/ ReplayFails
    BY <2>1, <2>3 DEF ReplayOne, ReplayFails
  <2>4. CASE ReplayHangs
    <3>1. replay.kind = "undo"
      BY <2>4 DEF ReplayHangs
    <3> QED  BY <2>1, <3>1 DEF Busy, Idle
  <2> QED  BY <2>2, <2>3, <2>4
<1>4. Begins(doc, F, b + InForce)
  BY <1>2, <1>3, StandsAlone
<1>5. Unreported' = {} /\ Apart'
  <2>1. CASE UNCHANGED op
    BY <1>3, <2>1 DEF Unreported, Apart
  <2>2. ASSUME NEW c, NEW failed, Exit(c, failed) PROVE Unreported' = {}
    BY <1>3, <2>2, ReleasedIs DEF Unreported
  <2>3. UNCHANGED op \/ \E c \in {replay.at, replay.at - 1}, failed \in BOOLEAN : Exit(c, failed)
    BY DEF StartUndo, StartRedo, ReplayOne, ReplayFails, ReplayHangs
  <2> QED  BY <2>1, <2>2, <2>3 DEF Apart
<1>6. ASSUME NEW n \in 0 .. Len(log), InForce' = n, Begins(doc', F, b + n), UNCHANGED <<log, before>>
      PROVE  Told(F, b)' /\ Stands(F, b)'
  BY <1>2, <1>5, <1>6, ToldSame, AloneStands
<1>7. CASE StartUndo \/ StartRedo
  <2>1. /\ ~Busy /\ UNCHANGED <<log, doc, before>>
        /\ \/ replay'.kind = "undo" /\ replay'.at = cursor
           \/ replay'.kind = "redo" /\ replay'.at = cursor + 1
    BY <1>7 DEF StartUndo, StartRedo
  <2>2. InForce = cursor
    BY <2>1, InForceIs
  <2>3. InForce' = cursor
    <3>1. cursor + 1 - 1 = cursor
      BY <1>0
    <3>2. CASE replay'.kind = "undo" /\ replay'.at = cursor
      BY <3>2 DEF InForce
    <3>3. CASE replay'.kind = "redo" /\ replay'.at = cursor + 1
      <4>1. InForce' = replay'.at - 1
        BY <3>3 DEF InForce
      <4> QED  BY <1>0, <3>1, <3>3, <4>1
    <3> QED  BY <2>1, <3>2, <3>3
  <2>4. Begins(doc', F, b + cursor)
    BY <1>4, <2>1, <2>2
  <2> QED  BY <1>0, <1>2, <1>5, <1>6, <2>1, <2>3, <2>4
<1>8. ASSUME NEW c, NEW failed, Exit(c, failed)
      PROVE  InForce' = c
  BY <1>8 DEF Exit, InForce, Idle
<1>9. CASE ReplayOne
  <2>1. Busy /\ UNCHANGED <<log, before>>
    BY <1>9 DEF ReplayOne
  <2>2. PICK at \in 1 .. Len(log) : replay.at = at
    BY <2>1, InForceIs
  <2>3. b + at \in 1 .. Len(F) /\ log[at].command = F[b + at] /\ F[b + at] \in Nat
    <3>1. Len(F) = b + Len(log) /\ log[at].command = F[b + at]
      BY <1>2, <2>2 DEF Told
    <3>2. b + at \in 1 .. Len(F)
      BY <1>0, <2>2, <3>1
    <3> QED  BY SMTT(30), <1>0, <1>2, <3>1, <3>2 DEF Told
  <2>4. CASE replay.kind = "undo"
    <3>1. Begins(doc, F, b + at)
      BY <1>4, <2>1, <2>2, <2>4, InForceIs
    <3>2. doc' = Without(doc, F[b + at])
      BY <1>9, <2>2, <2>3, <2>4 DEF ReplayOne
    <3>3. Len(doc) > 0 /\ doc[Len(doc)] = F[b + at] /\ \A i \in 1 .. Len(doc) - 1 : doc[i] # F[b + at]
      <4>1. Len(doc) = b + at /\ b + at \in 1 .. b + at
        BY <3>1 DEF Begins
      <4>2. doc[Len(doc)] = F[b + at]
        BY <3>1, <4>1 DEF Begins
      <4>3. ASSUME NEW i \in 1 .. Len(doc) - 1 PROVE doc[i] # F[b + at]
        <5>1. i \in 1 .. b + at /\ i \in 1 .. Len(F) /\ i # b + at
          BY <1>0, <4>1
        <5>2. doc[i] = F[i]
          BY <3>1, <5>1 DEF Begins
        <5>3. F[i] # F[b + at]
          BY <1>2, <2>3, <5>1 DEF Told
        <5> QED  BY <5>2, <5>3
      <4> QED  BY <4>1, <4>2, <4>3
    <3>4. /\ doc' \in Documents /\ Len(doc') = Len(doc) - 1
          /\ \A i \in 1 .. Len(doc) - 1 : doc'[i] = doc[i]
      BY <1>0, <3>2, <3>3, WithoutIs
    <3>5. Begins(doc', F, b + (at - 1))
      BY <3>1, <3>4 DEF Begins
    <3>6. InForce' = at - 1
      <4>1. CASE Exit(replay.at - 1, FALSE)
        BY <1>8, <2>2, <4>1
      <4>2. CASE replay' = [replay EXCEPT !.at = @ - 1] /\ UNCHANGED <<cursor, op>>
        <5>1. replay \in Replays /\ replay'.kind = "undo" /\ replay'.at = at - 1
          BY <2>2, <2>4, <4>2, InForceIs DEF Replays
        <5> QED  BY <5>1 DEF InForce
      <4> QED  BY <1>9, <2>4, <4>1, <4>2 DEF ReplayOne
    <3>7. at - 1 \in 0 .. Len(log)
      BY <1>0
    <3> QED  BY <1>2, <1>5, <1>6, <2>1, <3>5, <3>6, <3>7
  <2>5. CASE replay.kind = "redo"
    <3>1. Begins(doc, F, b + (at - 1))
      BY <1>4, <2>1, <2>2, <2>5, InForceIs
    <3>2. doc' = Append(doc, F[b + at])
      BY <1>9, <2>2, <2>3, <2>5 DEF ReplayOne
    <3>3. Begins(doc', F, b + at)
      BY SMTT(30), <2>3, <3>1, <3>2 DEF Begins, Documents
    <3>4. InForce' = at
      <4>1. CASE Exit(replay.at, FALSE)
        BY <1>8, <2>2, <4>1
      <4>2. CASE replay' = [replay EXCEPT !.at = @ + 1] /\ UNCHANGED <<cursor, op>>
        <5>1. replay \in Replays /\ replay'.kind = "redo" /\ replay'.at = at + 1
          BY <2>2, <2>5, <4>2, InForceIs DEF Replays
        <5> QED  BY <5>1 DEF InForce
      <4> QED  BY <1>9, <2>5, <4>1, <4>2 DEF ReplayOne
    <3>5. at \in 0 .. Len(log)
      BY <1>0
    <3> QED  BY <1>2, <1>5, <1>6, <2>1, <3>3, <3>4, <3>5
  <2> QED  BY <2>1, <2>4, <2>5, InForceIs
<1>10. CASE ReplayFails
  <2>1. Busy /\ UNCHANGED <<log, before, doc>>
    BY <1>10 DEF ReplayFails
  <2>2. InForce' = (IF replay.kind = "undo" THEN replay.at ELSE replay.at - 1)
    <3> DEFINE at == IF replay.kind = "undo" THEN replay.at ELSE replay.at - 1
    <3>1. Exit(at, TRUE)
      BY <1>10 DEF ReplayFails
    <3> HIDE DEF at
    <3>2. InForce' = at
      BY <1>8, <3>1
    <3> QED  BY <3>2 DEF at
  <2>3. InForce' = InForce /\ InForce \in 0 .. Len(log)
    BY <2>1, <2>2, InForceIs
  <2> QED  BY <1>2, <1>4, <1>5, <1>6, <2>1, <2>3
<1>11. CASE ReplayHangs
  <2>1. InForce' = InForce /\ InForce \in 0 .. Len(log) /\ UNCHANGED <<log, before, doc>>
    BY <1>11, InForceIs DEF ReplayHangs, InForce, caretaker
  <2> QED  BY <1>2, <1>4, <1>5, <1>6, <2>1
<1> QED  BY <1>7, <1>9, <1>10, <1>11

\* The tale goes on at every step
LEMMA UndoInvStep ==
  ASSUME Shape, UndoInv, [Next]_vars
  PROVE  UndoInv'
<1> SUFFICES ASSUME ~astray'
             PROVE  Apart' /\ \E whole \in Documents, b \in Nat : Told(whole, b)' /\ Stands(whole, b)'
  BY DEF UndoInv
<1>1. Shape'
  BY ShapeStep
<1>2. CASE UNCHANGED vars
  <2>1. ~astray /\ UNCHANGED <<log, cursor, replay, op, doc, before>>
    BY <1>2 DEF vars, caretaker
  <2>2. Apart /\ InForce' = InForce /\ Unreported' = Unreported /\ Busy' = Busy
    BY <2>1 DEF UndoInv, InForce, Unreported, Busy
  <2>3. PICK F \in Documents, b \in Nat : Told(F, b) /\ Stands(F, b)
    BY <2>1 DEF UndoInv
  <2>4. Told(F, b)' /\ Stands(F, b)'
    BY <2>1, <2>2, <2>3, ToldSame, StandsSame
  <2> QED  BY <2>2, <2>4 DEF Apart
<1>3. CASE Next
  BY <1>1, <1>3, TaleGesture, TaleOperation, TaleReset, TaleReplay DEF Next
<1> QED  BY <1>2, <1>3

\* They are there at first
LEMMA UndoInvInit ==
  ASSUME Init
  PROVE  UndoInv
<1>1. /\ log = << >> /\ cursor = 0 /\ replay = Idle /\ op = [o \in Operation |-> NoOp]
      /\ doc = << >> /\ before = << >>
  BY DEF Init
<1>2. PICK W \in Documents : W = << >>
  <2>1. << >> \in Documents
    BY DEF Documents
  <2> QED  BY <2>1
<1>3. Unreported = {} /\ Apart
  BY <1>1 DEF Unreported, NoOp, Apart
<1>4. InForce = 0 /\ Len(W) = 0 /\ Len(log) = 0 /\ Len(doc) = 0 /\ 1 .. 0 = {} /\ 0 + 0 + 1 .. 0 = {}
  BY <1>1, <1>2 DEF InForce, Idle
<1>5. Told(W, 0) /\ Stands(W, 0)
  BY <1>3, <1>4 DEF Told, Stands
<1> QED  BY <1>2, <1>3, <1>5 DEF UndoInv

\* One document after another
LEMMA ConcatIs ==
  ASSUME NEW d \in Seq(Nat), NEW r \in Seq(Nat)
  PROVE  /\ d \o r \in Seq(Nat) /\ Len(d \o r) = Len(d) + Len(r)
         /\ \A j \in 1 .. Len(d) + Len(r) :
              (d \o r)[j] = IF j <= Len(d) THEN d[j] ELSE r[j - Len(d)]
BY ConcatProperties

\* A function on 1 .. n is a sequence
LEMMA FunctionIsSeq ==
  ASSUME NEW n \in Nat, NEW f \in [1 .. n -> Nat]
  PROVE  f \in Seq(Nat) /\ Len(f) = n
OBVIOUS

\* A beginning is a piece of the sequence
LEMMA BeginsIs ==
  ASSUME NEW d, NEW w \in Documents, NEW n \in 0 .. Len(w), Begins(d, w, n)
  PROVE  d = SubSeq(w, 1, n)
<1>1. d \in Seq(Nat) /\ Len(d) = n /\ w \in Seq(Nat) /\ n \in Nat
  BY DEF Begins, Documents
<1>2. SubSeq(w, 1, n) \in Seq(Nat) /\ Len(SubSeq(w, 1, n)) = n
  BY <1>1
<1>3. \A j \in 1 .. n : d[j] = SubSeq(w, 1, n)[j]
  BY <1>1 DEF Begins
<1> QED  BY <1>1, <1>2, <1>3, SeqEqual

\* The commands of the log between two places
LEMMA CommandsIs ==
  ASSUME Shape, NEW F \in Documents, NEW b \in Nat, Told(F, b),
         NEW a \in 1 .. Len(log) + 1, NEW z \in Nat, z <= Len(log), a <= z + 1
  PROVE  /\ Commands(a, z) \in Seq(Nat) /\ Len(Commands(a, z)) = z - a + 1
         /\ \A j \in 1 .. z - a + 1 : Commands(a, z)[j] = F[b + a + j - 1]
<1>1. Len(log) \in Nat /\ F \in Seq(Nat) /\ Len(F) = b + Len(log)
  BY DEF Shape, Documents, Told
<1>2. z - a + 1 \in Nat
  OBVIOUS
<1>3. ASSUME NEW j \in 1 .. z - a + 1
      PROVE  log[a + j - 1].command = F[b + a + j - 1] /\ F[b + a + j - 1] \in Nat
  <2>1. a + j - 1 \in 1 .. Len(log) /\ b + (a + j - 1) = b + a + j - 1 /\ b + a + j - 1 \in 1 .. Len(F)
    BY <1>1
  <2>2. log[a + j - 1].command = F[b + (a + j - 1)]
    BY <2>1 DEF Told
  <2>3. F[b + a + j - 1] \in Nat
    BY <1>1, <2>1, ElementOfSeq
  <2>4. log[a + j - 1].command = F[b + a + j - 1]
    BY <2>1, <2>2
  <2> QED  BY <2>3, <2>4
<1>4. Commands(a, z) = [i \in 1 .. z - a + 1 |-> log[a + i - 1].command]
  BY DEF Commands
<1>5. \A j \in 1 .. z - a + 1 : Commands(a, z)[j] = F[b + a + j - 1] /\ Commands(a, z)[j] \in Nat
  BY <1>3, <1>4
<1>6. Len(Commands(a, z)) = z - a + 1 /\ Commands(a, z) \in Seq(Nat)
  <2>1. Commands(a, z) \in [1 .. z - a + 1 -> Nat]
    BY <1>4, <1>5
  <2> QED  BY <1>2, <2>1, FunctionIsSeq
<1> QED  BY <1>5, <1>6

\* Faithful: unless a command has gone astray, every closure that can come to
\* run next runs on the document it was made for, whatever the cap, the
\* transactions, the replays that fail, and the gestures, operations and
\* replays side by side (record, undo and redo of the caretaker).
THEOREM FaithfulAlways == Spec => []Faithful
<1>1. Init => Shape /\ UndoInv
  BY ShapeInit, UndoInvInit
<1>2. Shape /\ UndoInv /\ [Next]_vars => (Shape /\ UndoInv)'
  BY ShapeStep, UndoInvStep
<1>3. ASSUME Shape, UndoInv PROVE Faithful
  <2> SUFFICES ASSUME ~astray, Unreported = {}
               PROVE  /\ \E old \in 0 .. Len(doc) : doc = SubSeq(doc, 1, old) \o Commands(1, InForce)
                      /\ \A i \in 1 .. InForce :
                           before[log[i].command] = SubSeq(doc, 1, Len(doc) - InForce + i - 1)
                      /\ \A i \in (InForce + 1) .. Len(log) :
                           before[log[i].command] = doc \o Commands(InForce + 1, i - 1)
    BY DEF Faithful
  <2>1. PICK F \in Documents, b \in Nat : Told(F, b) /\ Stands(F, b)
    BY <1>3 DEF UndoInv
  <2>2. PICK k \in 0 .. Len(log) : k = InForce
    BY <1>3, InForceIs
  <2>3. Begins(doc, F, b + k)
    BY <1>3, <2>1, <2>2, StandsAlone
  <2>4. Len(log) \in Nat /\ F \in Seq(Nat) /\ Len(F) = b + Len(log) /\ doc \in Seq(Nat)
    BY <1>3, <2>1 DEF Shape, Documents, Told
  <2>5. Len(doc) = b + k /\ k \in Nat /\ \A j \in 1 .. b + k : doc[j] = F[j]
    BY <2>2, <2>3 DEF Begins
  <2>6. /\ Commands(1, k) \in Seq(Nat) /\ Len(Commands(1, k)) = k
        /\ \A j \in 1 .. k : Commands(1, k)[j] = F[b + j]
    <3>1. 1 \in 1 .. Len(log) + 1 /\ k \in Nat /\ k <= Len(log) /\ 1 <= k + 1 /\ k - 1 + 1 = k
      BY <2>2, <2>4
    <3>2. \A j \in 1 .. k : b + 1 + j - 1 = b + j
      OBVIOUS
    <3> QED  BY SMTT(30), <1>3, <2>1, <3>1, <3>2, CommandsIs
  <2>7. doc = SubSeq(doc, 1, b) \o Commands(1, k)
    <3> DEFINE old == SubSeq(doc, 1, b)
    <3>1. old \in Seq(Nat) /\ Len(old) = b /\ \A j \in 1 .. b : old[j] = doc[j]
      BY SMTT(30), <2>4, <2>5
    <3> HIDE DEF old
    <3>2. /\ old \o Commands(1, k) \in Seq(Nat) /\ Len(old \o Commands(1, k)) = b + k
          /\ \A j \in 1 .. b + k :
               (old \o Commands(1, k))[j] = IF j <= b THEN old[j] ELSE Commands(1, k)[j - b]
      <4>1. /\ old \o Commands(1, k) \in Seq(Nat)
            /\ Len(old \o Commands(1, k)) = Len(old) + Len(Commands(1, k))
            /\ \A j \in 1 .. Len(old) + Len(Commands(1, k)) :
                 (old \o Commands(1, k))[j] =
                   IF j <= Len(old) THEN old[j] ELSE Commands(1, k)[j - Len(old)]
        BY <2>6, <3>1, ConcatIs
      <4>2. Len(old) = b /\ Len(Commands(1, k)) = k
        BY <2>6, <3>1
      <4> QED  BY <4>1, <4>2
    <3>3. ASSUME NEW j \in 1 .. b + k PROVE (old \o Commands(1, k))[j] = doc[j]
      <4>1. CASE j <= b
        BY <3>1, <3>2, <4>1
      <4>2. CASE ~(j <= b)
        <5>1. j - b \in 1 .. k /\ b + (j - b) = j
          BY <2>5, <4>2
        <5>2. Commands(1, k)[j - b] = F[j]
          BY <2>6, <5>1
        <5> QED  BY <2>5, <3>2, <4>2, <5>2
      <4> QED  BY <4>1, <4>2
    <3>4. old \o Commands(1, k) = doc
      BY <2>4, <2>5, <3>2, <3>3, SeqEqual
    <3> QED  BY <3>4 DEF old
  <2>8. ASSUME NEW i \in 1 .. k
        PROVE  before[log[i].command] = SubSeq(doc, 1, Len(doc) - k + i - 1)
    <3>1. /\ i \in 1 .. Len(log) /\ Len(doc) - k + i - 1 = b + i - 1 /\ b + i - 1 \in 0 .. Len(doc)
          /\ b + i - 1 \in Nat
      BY <2>2, <2>4, <2>5
    <3>2. log[i].command = F[b + i] /\ Begins(before[F[b + i]], F, b + i - 1)
      BY <2>1, <3>1 DEF Told
    <3>3. \A j \in 1 .. b + i - 1 : F[j] = doc[j]
      BY <2>5, <3>1
    <3>4. Begins(before[F[b + i]], doc, b + i - 1)
      BY <3>1, <3>2, <3>3, BeginsOfBoth
    <3> QED  BY <2>4, <3>1, <3>2, <3>4, BeginsIs DEF Documents
  <2>9. ASSUME NEW i \in (k + 1) .. Len(log)
        PROVE  before[log[i].command] = doc \o Commands(k + 1, i - 1)
    <3>1. i \in 1 .. Len(log) /\ b + i - 1 \in Nat /\ b + i - 1 = (b + k) + (i - 1 - k) /\ i - 1 - k \in Nat
      BY <2>4, <2>5
    <3>2. log[i].command = F[b + i] /\ Begins(before[F[b + i]], F, b + i - 1)
      BY <2>1, <3>1 DEF Told
    <3> DEFINE d == before[F[b + i]]
               rest == Commands(k + 1, i - 1)
    <3>3. /\ rest \in Seq(Nat) /\ Len(rest) = i - 1 - k
          /\ \A j \in 1 .. i - 1 - k : rest[j] = F[b + k + j]
      <4>1. /\ k + 1 \in 1 .. Len(log) + 1 /\ i - 1 \in Nat /\ i - 1 <= Len(log) /\ k + 1 <= i - 1 + 1
            /\ i - 1 - (k + 1) + 1 = i - 1 - k
        BY <2>4, <2>5
      <4>2. \A j \in 1 .. i - 1 - k : b + (k + 1) + j - 1 = b + k + j
        BY <2>5
      <4>3. /\ rest \in Seq(Nat) /\ Len(rest) = i - 1 - (k + 1) + 1
            /\ \A j \in 1 .. i - 1 - (k + 1) + 1 : rest[j] = F[b + (k + 1) + j - 1]
        BY <1>3, <2>1, <4>1, CommandsIs
      <4> QED  BY <4>1, <4>2, <4>3
    <3>4. d \in Seq(Nat) /\ Len(d) = b + i - 1 /\ \A j \in 1 .. b + i - 1 : d[j] = F[j]
      BY <3>2 DEF Begins, Documents
    <3> HIDE DEF d, rest
    <3>5. /\ doc \o rest \in Seq(Nat) /\ Len(doc \o rest) = b + i - 1
          /\ \A j \in 1 .. b + i - 1 :
               (doc \o rest)[j] = IF j <= b + k THEN doc[j] ELSE rest[j - (b + k)]
      <4>1. /\ doc \o rest \in Seq(Nat) /\ Len(doc \o rest) = Len(doc) + Len(rest)
            /\ \A j \in 1 .. Len(doc) + Len(rest) :
                 (doc \o rest)[j] = IF j <= Len(doc) THEN doc[j] ELSE rest[j - Len(doc)]
        BY <2>4, <3>3, ConcatIs
      <4>2. Len(doc) + Len(rest) = b + i - 1 /\ Len(doc) = b + k
        BY <2>5, <3>1, <3>3
      <4> QED  BY <4>1, <4>2
    <3>6. ASSUME NEW j \in 1 .. b + i - 1 PROVE (doc \o rest)[j] = d[j]
      <4>1. CASE j <= b + k
        <5>1. j \in 1 .. b + k
          BY <2>5, <4>1
        <5>2. (doc \o rest)[j] = doc[j]
          BY <3>5, <4>1
        <5> QED  BY <2>5, <3>4, <5>1, <5>2
      <4>2. CASE ~(j <= b + k)
        <5>1. j - (b + k) \in 1 .. i - 1 - k /\ b + k + (j - (b + k)) = j
          BY <2>5, <3>1, <4>2
        <5>2. rest[j - (b + k)] = F[j]
          BY <3>3, <5>1
        <5> QED  BY <3>4, <3>5, <4>2, <5>2
      <4> QED  BY <4>1, <4>2
    <3>7. d = doc \o rest
      BY <3>4, <3>5, <3>6, SeqEqual
    <3> QED  BY <3>2, <3>7 DEF d, rest
  <2>10. b \in 0 .. Len(doc)
    BY <2>5
  <2>11. \A i \in 1 .. k : before[log[i].command] = SubSeq(doc, 1, Len(doc) - k + i - 1)
    BY <2>8
  <2>12. \A i \in (k + 1) .. Len(log) : before[log[i].command] = doc \o Commands(k + 1, i - 1)
    BY <2>9
  <2> QED  BY <2>2, <2>7, <2>10, <2>11, <2>12
<1>4. Shape /\ UndoInv => Faithful
  BY <1>3
<1> QED  BY <1>1, <1>2, <1>4, PTL DEF Spec

-----------------------------------------------------------------------------
(* A log as the steps in it *)

\* The commands of some entries, one after the other
Part(e, a, b) == [i \in 1 .. (b - a + 1) |-> e[a + i - 1].command]

\* Where a new step begins
Starts(e, a, b) == {i \in a .. b : i = a \/ e[i].step # e[i - 1].step}
Nth(S, n) == CHOOSE i \in S : Cardinality({j \in S : j < i}) = n - 1

StepsIn(e, a, b) ==
  [n \in 1 .. Cardinality(Starts(e, a, b)) |->
     Part(e, Nth(Starts(e, a, b), n),
          IF n = Cardinality(Starts(e, a, b)) THEN b ELSE Nth(Starts(e, a, b), n + 1) - 1)]

\* The K places where steps begin, and where the next one would
Marks(st, K, e, a, b) ==
  /\ K \in Nat /\ st \in [1 .. K + 1 -> Nat \ {0}]
  /\ st[1] = a /\ st[K + 1] = b + 1
  /\ \A n \in 1 .. K : /\ st[n] < st[n + 1]
                       /\ \A i \in st[n] .. st[n + 1] - 1 : e[i].step = e[st[n]].step
  /\ \A n \in 2 .. K : e[st[n] - 1].step # e[st[n]].step

\* Every stretch of a log has them
LEMMA MarksExist ==
  ASSUME NEW e, NEW a \in Nat \ {0}, NEW b \in Nat, a <= b + 1
  PROVE  \E K \in Nat : \E st : Marks(st, K, e, a, b)
<1> DEFINE Good(m) == \E K \in Nat : \E st : Marks(st, K, e, a, a + m - 1)
           Bad == {m \in Nat : ~Good(m)}
<1>1. Good(0)
  <2> DEFINE st == [n \in 1 .. 1 |-> a]
  <2>1. Marks(st, 0, e, a, a + 0 - 1)
    BY DEF Marks
  <2> QED  BY <2>1
<1>2. ASSUME NEW m \in Nat, Good(m) PROVE Good(m + 1)
  <2>0. PICK z \in Nat : z = a + m
    OBVIOUS
  <2>1K. PICK K \in Nat : \E st : Marks(st, K, e, a, z - 1)
    BY <1>2, <2>0
  <2>1. PICK st : Marks(st, K, e, a, z - 1)
    BY <2>1K
  <2>2. /\ st \in [1 .. K + 1 -> Nat \ {0}] /\ st[1] = a /\ st[K + 1] = z
        /\ \A n \in 1 .. K : /\ st[n] < st[n + 1]
                             /\ \A i \in st[n] .. st[n + 1] - 1 : e[i].step = e[st[n]].step
        /\ \A n \in 2 .. K : e[st[n] - 1].step # e[st[n]].step
    BY <2>0, <2>1 DEF Marks
  <2>3. CASE K # 0 /\ e[z].step = e[st[K]].step
    <3> DEFINE up == [n \in 1 .. K + 1 |-> IF n = K + 1 THEN z + 1 ELSE st[n]]
    <3>1. up \in [1 .. K + 1 -> Nat \ {0}] /\ up[1] = a /\ up[K + 1] = z + 1
      BY <2>2, <2>3
    <3>2. \A n \in 1 .. K : up[n] = st[n]
      OBVIOUS
    <3>3. ASSUME NEW n \in 1 .. K
          PROVE  up[n] < up[n + 1] /\ \A i \in up[n] .. up[n + 1] - 1 : e[i].step = e[up[n]].step
      <4>1. CASE n = K
        <5>1. up[n] = st[K] /\ up[n + 1] = z + 1 /\ st[K] < z /\ st[K] \in Nat
              /\ \A i \in st[K] .. z - 1 : e[i].step = e[st[K]].step
          BY <2>2, <4>1
        <5>2. \A i \in st[K] .. z : i = z \/ i \in st[K] .. z - 1
          BY <5>1
        <5>3. z + 1 - 1 = z
          OBVIOUS
        <5> HIDE DEF up
        <5> QED  BY <2>3, <5>1, <5>2, <5>3
      <4>2. CASE n # K
        <5>1. up[n] = st[n] /\ up[n + 1] = st[n + 1]
          BY <4>2
        <5> HIDE DEF up
        <5> QED  BY <2>2, <5>1
      <4> QED  BY <4>1, <4>2
    <3>4. \A n \in 2 .. K : e[up[n] - 1].step # e[up[n]].step
      BY <2>2, <3>2
    <3> HIDE DEF up
    <3>5. Marks(up, K, e, a, z)
      BY <3>1, <3>3, <3>4 DEF Marks
    <3> QED  BY <2>0, <3>5
  <2>4. CASE K = 0 \/ e[z].step # e[st[K]].step
    <3> DEFINE up == [n \in 1 .. K + 2 |-> IF n = K + 2 THEN z + 1 ELSE st[n]]
    <3>1. up \in [1 .. K + 2 -> Nat \ {0}] /\ up[1] = a /\ up[K + 2] = z + 1 /\ K + 2 = K + 1 + 1
      BY <2>2
    <3>2. \A n \in 1 .. K + 1 : up[n] = st[n]
      OBVIOUS
    <3> HIDE DEF up
    <3>3. ASSUME NEW n \in 1 .. K + 1
          PROVE  up[n] < up[n + 1] /\ \A i \in up[n] .. up[n + 1] - 1 : e[i].step = e[up[n]].step
      <4>1. CASE n = K + 1
        <5>1. up[n] = z /\ up[n + 1] = z + 1
          BY <2>2, <3>1, <3>2, <4>1
        <5> QED  BY <5>1
      <4>2. CASE n # K + 1
        <5>1. n \in 1 .. K /\ n + 1 \in 1 .. K + 1
          BY <4>2
        <5> QED  BY <2>2, <3>2, <5>1
      <4> QED  BY <4>1, <4>2
    <3>4. ASSUME NEW n \in 2 .. K + 1 PROVE e[up[n] - 1].step # e[up[n]].step
      <4>1. CASE n = K + 1
        <5>1. K \in 1 .. K /\ up[n] = z /\ e[z].step # e[st[K]].step
          BY <2>2, <2>4, <3>2, <4>1
        <5>2. st[K] < z /\ st[K] \in Nat /\ \A i \in st[K] .. z - 1 : e[i].step = e[st[K]].step
          BY <2>2, <5>1
        <5>3. z - 1 \in st[K] .. z - 1
          BY <5>2
        <5> QED  BY <5>1, <5>2, <5>3
      <4>2. CASE n # K + 1
        <5>1. n \in 2 .. K /\ n \in 1 .. K + 1
          BY <4>2
        <5> QED  BY <2>2, <3>2, <5>1
      <4> QED  BY <4>1, <4>2
    <3>5. Marks(up, K + 1, e, a, z)
      BY <3>1, <3>3, <3>4 DEF Marks
    <3> QED  BY <2>0, <3>5
  <2> QED  BY <2>3, <2>4
<1> HIDE DEF Good
<1>3. Bad = {}
  <2> SUFFICES ASSUME Bad # {} PROVE FALSE
    OBVIOUS
  <2>1. PICK m \in Bad : \A y \in Bad : m <= y
    <3>1. Bad \subseteq Nat
      OBVIOUS
    <3> HIDE DEF Bad
    <3> QED  BY <3>1, FirstPosition
  <2>2. m \in Nat \ {0}
    BY <1>1, <2>1
  <2>3. m - 1 \in Nat /\ m - 1 + 1 = m /\ ~(m <= m - 1)
    BY <2>2
  <2>4. Good(m - 1)
    BY <2>1, <2>3
  <2> QED  BY <1>2, <2>1, <2>3, <2>4
<1>4. b - a + 1 \in Nat /\ a + (b - a + 1) - 1 = b
  OBVIOUS
<1>5. Good(b - a + 1)
  BY <1>3, <1>4
<1> QED  BY <1>4, <1>5 DEF Good

\* They are in order
LEMMA MarksIncrease ==
  ASSUME NEW e, NEW a, NEW b, NEW K, NEW st, Marks(st, K, e, a, b)
  PROVE  \A m, n \in 1 .. K + 1 : m < n => st[m] < st[n]
<1>1. K \in Nat /\ st \in [1 .. K + 1 -> Nat \ {0}] /\ \A n \in 1 .. K : st[n] < st[n + 1]
  BY DEF Marks
<1> SUFFICES ASSUME NEW m \in 1 .. K + 1 PROVE \A n \in 1 .. K + 1 : m < n => st[m] < st[n]
  OBVIOUS
<1> DEFINE Bad == {n \in 1 .. K + 1 : m < n /\ ~(st[m] < st[n])}
<1> SUFFICES ASSUME Bad # {} PROVE FALSE
  OBVIOUS
<1>2. PICK n \in Bad : \A y \in Bad : n <= y
  <2>1. Bad \subseteq Nat
    BY <1>1
  <2> HIDE DEF Bad
  <2> QED  BY <2>1, FirstPosition
<1>3. n \in 1 .. K + 1 /\ m < n /\ ~(st[m] < st[n])
  OBVIOUS
<1>4. n - 1 \in 1 .. K /\ n - 1 \in 1 .. K + 1 /\ n - 1 + 1 = n /\ ~(n <= n - 1) /\ m <= n - 1
  BY <1>1, <1>3
<1>5. st[n - 1] < st[n]
  BY <1>1, <1>4
<1>6. m = n - 1 \/ st[m] < st[n - 1]
  BY <1>1, <1>2, <1>4
<1>7. st[m] \in Nat /\ st[n] \in Nat /\ st[n - 1] \in Nat
  BY <1>1, <1>3, <1>4
<1> QED  BY <1>3, <1>5, <1>6, <1>7

\* Every place is in one of the steps
LEMMA MarksFind ==
  ASSUME NEW e, NEW a, NEW b \in Nat, NEW K, NEW st, Marks(st, K, e, a, b), NEW p \in a .. b
  PROVE  \E n \in 1 .. K : st[n] <= p /\ p < st[n + 1]
<1>1. /\ K \in Nat /\ st \in [1 .. K + 1 -> Nat \ {0}] /\ st[1] = a /\ st[K + 1] = b + 1
  BY DEF Marks
<1>2. a \in Nat /\ p \in Nat /\ K # 0
  BY <1>1
<1> DEFINE T == {n \in 1 .. K : p < st[n + 1]}
<1>3. K \in T
  BY <1>1, <1>2
<1>4. PICK n \in T : \A y \in T : n <= y
  <2>1. T \subseteq Nat
    BY <1>1
  <2> HIDE DEF T
  <2> QED  BY <1>3, <2>1, FirstPosition
<1>5. CASE n = 1
  BY <1>1, <1>5
<1>6. CASE n # 1
  <2>1. n - 1 \in 1 .. K /\ n - 1 + 1 = n /\ ~(n <= n - 1) /\ n \in 1 .. K + 1
    BY <1>1, <1>6
  <2>2. ~(p < st[n])
    BY <1>4, <2>1
  <2>3. st[n] \in Nat
    BY <1>1, <2>1
  <2>4. st[n] <= p
    BY <1>2, <2>2, <2>3
  <2> QED  BY <2>4
<1> QED  BY <1>5, <1>6

\* They are where a new step begins
LEMMA MarksAreStarts ==
  ASSUME NEW e, NEW a, NEW b \in Nat, NEW K, NEW st, Marks(st, K, e, a, b)
  PROVE  Starts(e, a, b) = {st[n] : n \in 1 .. K}
<1>1. /\ K \in Nat /\ st \in [1 .. K + 1 -> Nat \ {0}] /\ st[1] = a /\ st[K + 1] = b + 1
      /\ \A n \in 1 .. K : /\ st[n] < st[n + 1]
                           /\ \A i \in st[n] .. st[n + 1] - 1 : e[i].step = e[st[n]].step
      /\ \A n \in 2 .. K : e[st[n] - 1].step # e[st[n]].step
  BY DEF Marks
<1>2. \A m, n \in 1 .. K + 1 : m < n => st[m] < st[n]
  BY MarksIncrease
<1>3. a \in Nat
  BY <1>1
<1>4. ASSUME NEW n \in 1 .. K PROVE st[n] \in Starts(e, a, b)
  <2>1. st[n] \in Nat /\ n \in 1 .. K + 1 /\ K + 1 \in 1 .. K + 1 /\ 1 \in 1 .. K + 1 /\ n < K + 1
    BY <1>1
  <2>2. st[n] < b + 1
    BY <1>1, <1>2, <2>1
  <2>3. n = 1 \/ a < st[n]
    BY <1>1, <1>2, <2>1
  <2>4. st[n] \in a .. b
    BY <1>1, <1>3, <2>1, <2>2, <2>3
  <2>5. n = 1 \/ n \in 2 .. K
    BY <2>1
  <2> QED  BY <1>1, <2>4, <2>5 DEF Starts
<1>5. ASSUME NEW i \in Starts(e, a, b) PROVE \E n \in 1 .. K : i = st[n]
  <2>1. i \in a .. b /\ (i = a \/ e[i].step # e[i - 1].step)
    BY DEF Starts
  <2>2. PICK n \in 1 .. K : st[n] <= i /\ i < st[n + 1]
    BY <2>1, MarksFind
  <2>3. st[n] \in Nat /\ st[n + 1] \in Nat /\ i \in Nat /\ n \in 1 .. K + 1 /\ 1 \in 1 .. K + 1
    BY <1>1, <1>3, <2>1
  <2>4. a <= st[n]
    BY SMTT(30), <1>1, <1>2, <1>3, <2>3
  <2>5. CASE i # st[n]
    <3>1. i \in st[n] .. st[n + 1] - 1 /\ i - 1 \in st[n] .. st[n + 1] - 1 /\ i # a
      BY <1>3, <2>2, <2>3, <2>4, <2>5
    <3> QED  BY <1>1, <2>1, <3>1
  <2> QED  BY <2>5
<1> QED  BY <1>4, <1>5

\* How many of them lie before a place
LEMMA MarksBefore ==
  ASSUME NEW e, NEW a, NEW b, NEW K, NEW st, Marks(st, K, e, a, b), NEW k \in 0 .. K
  PROVE  Cardinality({st[n] : n \in 1 .. k}) = k
<1>1. K \in Nat /\ st \in [1 .. K + 1 -> Nat \ {0}]
  BY DEF Marks
<1>2. \A m, n \in 1 .. K + 1 : m < n => st[m] < st[n]
  BY MarksIncrease
<1> DEFINE T == {st[n] : n \in 1 .. k}
           f == [n \in 1 .. k |-> st[n]]
<1>3. k \in Nat /\ \A n \in 1 .. k : n \in 1 .. K + 1 /\ st[n] \in Nat
  BY <1>1
<1>4. ASSUME NEW m \in 1 .. k, NEW n \in 1 .. k, st[m] = st[n] PROVE m = n
  <2>1. m \in Nat /\ n \in Nat /\ (m < n \/ n < m \/ m = n)
    BY <1>3
  <2> QED  BY <1>2, <1>3, <1>4, <2>1
<1>5. f \in Bijection(1 .. k, T)
  <2>1. f \in [1 .. k -> T] /\ \A t \in T : \E n \in 1 .. k : f[n] = t
    OBVIOUS
  <2>2. \A m, n \in 1 .. k : f[m] = f[n] => m = n
    BY <1>4
  <2> HIDE DEF f, T
  <2> QED  BY <2>1, <2>2 DEF Bijection, Injection, Surjection, IsInjective
<1>6. IsFiniteSet(1 .. k) /\ Cardinality(1 .. k) = k
  BY <1>3, FS_Interval
<1> HIDE DEF f, T
<1>7. Cardinality(T) = Cardinality(1 .. k)
  BY <1>5, <1>6, FS_Bijection DEF ExistsBijection
<1> QED  BY <1>6, <1>7 DEF T

\* The steps of a stretch are what lies between its marks
LEMMA StepsAre ==
  ASSUME NEW e, NEW a, NEW b \in Nat, NEW K, NEW st, Marks(st, K, e, a, b)
  PROVE  StepsIn(e, a, b) = [n \in 1 .. K |-> Part(e, st[n], st[n + 1] - 1)]
<1>1. /\ K \in Nat /\ st \in [1 .. K + 1 -> Nat \ {0}] /\ st[1] = a /\ st[K + 1] = b + 1
  BY DEF Marks
<1>2. \A m, n \in 1 .. K + 1 : m < n => st[m] < st[n]
  BY MarksIncrease
<1> DEFINE S == Starts(e, a, b)
<1>3. S = {st[n] : n \in 1 .. K}
  BY MarksAreStarts
<1>4. Cardinality(S) = K
  <2>1. K \in 0 .. K
    BY <1>1
  <2> QED  BY <1>3, <2>1, MarksBefore
<1>5. ASSUME NEW n \in 1 .. K PROVE Cardinality({j \in S : j < st[n]}) = n - 1
  <2>1. {j \in S : j < st[n]} = {st[m] : m \in 1 .. n - 1}
    <3>1. ASSUME NEW m \in 1 .. K PROVE st[m] < st[n] <=> m \in 1 .. n - 1
      <4>1. m \in 1 .. K + 1 /\ n \in 1 .. K + 1 /\ m \in Nat /\ n \in Nat
        BY <1>1
      <4>2. st[m] \in Nat /\ st[n] \in Nat
        BY <1>1, <4>1
      <4>3. m < n => st[m] < st[n]
        BY <1>2, <4>1
      <4>4. n < m => st[n] < st[m]
        BY <1>2, <4>1
      <4>5. m = n => ~(st[m] < st[n])
        BY <4>2
      <4> QED  BY <4>1, <4>2, <4>3, <4>4, <4>5
    <3>2. \A m \in 1 .. n - 1 : m \in 1 .. K
      BY <1>1
    <3> QED  BY <1>3, <3>1, <3>2
  <2>2. n - 1 \in 0 .. K
    BY <1>1
  <2> QED  BY <2>1, <2>2, MarksBefore
<1>6. ASSUME NEW n \in 1 .. K PROVE Nth(S, n) = st[n]
  <2>1. st[n] \in S /\ Cardinality({j \in S : j < st[n]}) = n - 1
    BY <1>3, <1>5
  <2>2. ASSUME NEW i \in S, Cardinality({j \in S : j < i}) = n - 1 PROVE i = st[n]
    <3>1. PICK m \in 1 .. K : i = st[m]
      BY <1>3
    <3>2. m - 1 = n - 1
      BY <1>5, <2>2, <3>1
    <3>3. m = n
      BY <1>1, <3>2
    <3> QED  BY <3>1, <3>3
  <2> HIDE DEF S
  <2> QED  BY <2>1, <2>2 DEF Nth
<1>7. ASSUME NEW n \in 1 .. K PROVE (IF n = K THEN b ELSE Nth(S, n + 1) - 1) = st[n + 1] - 1
  <2>1. CASE n = K
    BY <1>1, <2>1
  <2>2. CASE n # K
    <3>1. n + 1 \in 1 .. K
      BY <1>1, <2>2
    <3> QED  BY <1>6, <2>2, <3>1
  <2> QED  BY <2>1, <2>2
<1>8. StepsIn(e, a, b) = [n \in 1 .. Cardinality(S) |->
                            Part(e, Nth(S, n), IF n = Cardinality(S) THEN b ELSE Nth(S, n + 1) - 1)]
  BY DEF StepsIn
<1> HIDE DEF S
<1>9. \A n \in 1 .. K : Part(e, Nth(S, n), IF n = Cardinality(S) THEN b ELSE Nth(S, n + 1) - 1)
                          = Part(e, st[n], st[n + 1] - 1)
  BY <1>4, <1>6, <1>7
<1> QED  BY <1>4, <1>8, <1>9

-----------------------------------------------------------------------------
(* Steps put together and taken apart *)

\* The steps of entries of a log
Parts(e) == {Part(e, i, j) : i \in Nat, j \in Nat}

\* The steps of a stretch are steps of the entries
LEMMA StepsType ==
  ASSUME NEW e, NEW a \in Nat \ {0}, NEW b \in Nat, a <= b + 1
  PROVE  StepsIn(e, a, b) \in Seq(Parts(e))
<1>1K. PICK K \in Nat : \E st : Marks(st, K, e, a, b)
  BY MarksExist
<1>1. PICK st : Marks(st, K, e, a, b)
  BY <1>1K
<1>2. st \in [1 .. K + 1 -> Nat \ {0}]
  BY <1>1 DEF Marks
<1>3. StepsIn(e, a, b) = [n \in 1 .. K |-> Part(e, st[n], st[n + 1] - 1)]
  BY <1>1, StepsAre
<1>4. ASSUME NEW n \in 1 .. K PROVE Part(e, st[n], st[n + 1] - 1) \in Parts(e)
  <2>1. st[n] \in Nat /\ st[n + 1] - 1 \in Nat
    BY <1>2
  <2> QED  BY <2>1 DEF Parts
<1>5. StepsIn(e, a, b) \in [1 .. K -> Parts(e)]
  BY <1>3, <1>4
<1> QED  BY <1>5

\* Nothing is no step
LEMMA StepsNone ==
  ASSUME NEW e, NEW a \in Nat \ {0}
  PROVE  StepsIn(e, a, a - 1) = << >>
<1> DEFINE st == [n \in 1 .. 1 |-> a]
<1>1. Marks(st, 0, e, a, a - 1) /\ a - 1 \in Nat
  BY DEF Marks
<1> HIDE DEF st
<1>2. StepsIn(e, a, a - 1) = [n \in 1 .. 0 |-> Part(e, st[n], st[n + 1] - 1)]
  BY <1>1, StepsAre
<1> QED  BY <1>2

\* Entries of one step are one step
LEMMA StepsOne ==
  ASSUME NEW e, NEW a \in Nat \ {0}, NEW b \in Nat, a <= b,
         \A i \in a .. b : e[i].step = e[a].step
  PROVE  StepsIn(e, a, b) = << Part(e, a, b) >>
<1> DEFINE st == [n \in 1 .. 2 |-> IF n = 1 THEN a ELSE b + 1]
<1>1. st \in [1 .. 1 + 1 -> Nat \ {0}] /\ st[1] = a /\ st[2] = b + 1 /\ 1 + 1 = 2
  OBVIOUS
<1> HIDE DEF st
<1>2. \A n \in 1 .. 1 : /\ st[n] < st[n + 1]
                        /\ \A i \in st[n] .. st[n + 1] - 1 : e[i].step = e[st[n]].step
  BY <1>1
<1>3. Marks(st, 1, e, a, b)
  BY <1>1, <1>2 DEF Marks
<1>4. PICK K \in Nat : K = 1
  OBVIOUS
<1>5. StepsIn(e, a, b) = [n \in 1 .. K |-> Part(e, st[n], st[n + 1] - 1)]
  <2>1. Marks(st, K, e, a, b)
    BY <1>3, <1>4
  <2> HIDE <1>4
  <2> QED  BY <2>1, StepsAre
<1>6. b + 1 - 1 = b /\ st[1 + 1] = b + 1
  BY <1>1
<1>7. StepsIn(e, a, b) = [n \in 1 .. 1 |-> Part(e, a, b)]
  BY <1>1, <1>4, <1>5, <1>6
<1> QED  BY <1>7

\* A log is split in two between two steps
LEMMA StepsApart ==
  ASSUME NEW e, NEW a \in Nat \ {0}, NEW c \in Nat, NEW b \in Nat, a <= c + 1, c <= b,
         c = a - 1 \/ c = b \/ e[c].step # e[c + 1].step
  PROVE  StepsIn(e, a, b) = StepsIn(e, a, c) \o StepsIn(e, c + 1, b)
<1>1K1. PICK K1 \in Nat : \E st : Marks(st, K1, e, a, c)
  BY MarksExist
<1>1. PICK s1 : Marks(s1, K1, e, a, c)
  BY <1>1K1
<1>2K2. PICK K2 \in Nat : \E st : Marks(st, K2, e, c + 1, b)
  <2>1. c + 1 \in Nat \ {0} /\ c + 1 <= b + 1
    OBVIOUS
  <2> QED  BY <2>1, MarksExist
<1>2. PICK s2 : Marks(s2, K2, e, c + 1, b)
  BY <1>2K2
<1>3. /\ s1 \in [1 .. K1 + 1 -> Nat \ {0}] /\ s1[1] = a /\ s1[K1 + 1] = c + 1
      /\ \A n \in 1 .. K1 : /\ s1[n] < s1[n + 1]
                            /\ \A i \in s1[n] .. s1[n + 1] - 1 : e[i].step = e[s1[n]].step
      /\ \A n \in 2 .. K1 : e[s1[n] - 1].step # e[s1[n]].step
  BY <1>1 DEF Marks
<1>4. /\ s2 \in [1 .. K2 + 1 -> Nat \ {0}] /\ s2[1] = c + 1 /\ s2[K2 + 1] = b + 1
      /\ \A n \in 1 .. K2 : /\ s2[n] < s2[n + 1]
                            /\ \A i \in s2[n] .. s2[n + 1] - 1 : e[i].step = e[s2[n]].step
      /\ \A n \in 2 .. K2 : e[s2[n] - 1].step # e[s2[n]].step
  BY <1>2 DEF Marks
<1> DEFINE K == K1 + K2
           st == [n \in 1 .. K + 1 |-> IF n <= K1 THEN s1[n] ELSE s2[n - K1]]
<1>5. /\ \A n \in 1 .. K1 + 1 : n \in 1 .. K + 1 /\ st[n] = s1[n]
      /\ \A n \in 1 .. K2 + 1 : K1 + n \in 1 .. K + 1 /\ st[K1 + n] = s2[n]
  <2>1. ASSUME NEW n \in 1 .. K1 + 1 PROVE n \in 1 .. K + 1 /\ st[n] = s1[n]
    <3>1. CASE n <= K1
      BY <3>1
    <3>2. CASE n = K1 + 1
      <4>1. n \in 1 .. K + 1 /\ ~(n <= K1) /\ n - K1 = 1
        BY <3>2
      <4> QED  BY <1>3, <1>4, <3>2, <4>1
    <3> QED  BY <3>1, <3>2
  <2>2. ASSUME NEW n \in 1 .. K2 + 1 PROVE K1 + n \in 1 .. K + 1 /\ st[K1 + n] = s2[n]
    <3>1. K1 + n \in 1 .. K + 1 /\ ~(K1 + n <= K1) /\ K1 + n - K1 = n
      OBVIOUS
    <3> QED  BY <3>1
  <2> QED  BY <2>1, <2>2
<1>6. K \in Nat /\ st \in [1 .. K + 1 -> Nat \ {0}]
  <2>1. ASSUME NEW n \in 1 .. K + 1 PROVE st[n] \in Nat \ {0}
    <3>1. CASE n \in 1 .. K1 + 1
      <4> HIDE DEF st
      <4> QED  BY <1>3, <1>5, <3>1
    <3>2. CASE n \notin 1 .. K1 + 1
      <4>1. PICK m \in 1 .. K2 + 1 : K1 + m = n
        <5>1. n - K1 \in 1 .. K2 + 1 /\ K1 + (n - K1) = n
          BY <3>2
        <5> QED  BY <5>1
      <4> HIDE DEF st
      <4> QED  BY <1>4, <1>5, <4>1
    <3> QED  BY <3>1, <3>2
  <2> QED  BY <2>1
<1> HIDE DEF st
<1>7. st[1] = a /\ st[K + 1] = b + 1
  <2>1. 1 \in 1 .. K1 + 1 /\ K2 + 1 \in 1 .. K2 + 1 /\ K1 + (K2 + 1) = K + 1
    OBVIOUS
  <2> QED  BY <1>3, <1>4, <1>5, <2>1
<1>8. ASSUME NEW n \in 1 .. K
      PROVE  \/ n \in 1 .. K1 /\ st[n] = s1[n] /\ st[n + 1] = s1[n + 1]
             \/ n - K1 \in 1 .. K2 /\ st[n] = s2[n - K1] /\ st[n + 1] = s2[n - K1 + 1]
  <2>1. CASE n <= K1
    <3>1. n \in 1 .. K1 + 1 /\ n + 1 \in 1 .. K1 + 1
      BY <2>1
    <3> QED  BY <1>5, <2>1, <3>1
  <2>2. CASE ~(n <= K1)
    <3>1. /\ n - K1 \in 1 .. K2 /\ n - K1 \in 1 .. K2 + 1 /\ n - K1 + 1 \in 1 .. K2 + 1
          /\ K1 + (n - K1) = n /\ K1 + (n - K1 + 1) = n + 1
      BY <2>2
    <3> QED  BY <1>5, <3>1
  <2> QED  BY <2>1, <2>2
<1>9. ASSUME NEW n \in 1 .. K
      PROVE  st[n] < st[n + 1] /\ \A i \in st[n] .. st[n + 1] - 1 : e[i].step = e[st[n]].step
  <2>1. CASE n \in 1 .. K1 /\ st[n] = s1[n] /\ st[n + 1] = s1[n + 1]
    BY <1>3, <2>1
  <2>2. CASE n - K1 \in 1 .. K2 /\ st[n] = s2[n - K1] /\ st[n + 1] = s2[n - K1 + 1]
    BY <1>4, <2>2
  <2> QED  BY <1>8, <2>1, <2>2
<1>10. ASSUME NEW n \in 2 .. K PROVE e[st[n] - 1].step # e[st[n]].step
  <2>1. CASE n <= K1
    <3>1. n \in 1 .. K1 + 1 /\ n \in 2 .. K1
      BY <2>1
    <3> QED  BY <1>3, <1>5, <3>1
  <2>2. CASE n = K1 + 1
    <3>1. n \in 1 .. K1 + 1 /\ K1 \in 1 .. K1 /\ 1 \in 1 .. K2 /\ 1 \in 1 .. K1 + 1 /\ K1 + 1 \in 1 .. K1 + 1
          /\ 1 < K1 + 1 /\ K2 + 1 \in 1 .. K2 + 1 /\ 1 \in 1 .. K2 + 1 /\ 1 < K2 + 1
      BY <2>2
    <3>2. st[n] = c + 1 /\ c + 1 - 1 = c
      BY <1>3, <1>5, <2>2, <3>1
    <3>3. s1[1] < s1[K1 + 1]
      BY <1>1, <3>1, MarksIncrease
    <3>4. s2[1] < s2[K2 + 1]
      BY <1>2, <3>1, MarksIncrease
    <3>5. c # a - 1 /\ c # b
      BY <1>3, <1>4, <3>3, <3>4
    <3> QED  BY <3>2, <3>5
  <2>3. CASE n > K1 + 1
    <3>1. PICK m \in 2 .. K2 : K1 + m = n
      <4>1. n - K1 \in 2 .. K2 /\ K1 + (n - K1) = n
        BY <2>3
      <4> QED  BY <4>1
    <3>2. m \in 1 .. K2 + 1
      OBVIOUS
    <3>3. st[n] = s2[m]
      BY <1>5, <3>1, <3>2
    <3> QED  BY <1>4, <3>3
  <2> QED  BY <2>1, <2>2, <2>3
<1>11. Marks(st, K, e, a, b)
  BY <1>6, <1>7, <1>9, <1>10 DEF Marks
<1>12. StepsIn(e, a, b) = [n \in 1 .. K |-> Part(e, st[n], st[n + 1] - 1)]
  BY <1>11, StepsAre
<1>13. StepsIn(e, a, c) = [n \in 1 .. K1 |-> Part(e, s1[n], s1[n + 1] - 1)]
  BY <1>1, StepsAre
<1>14. StepsIn(e, c + 1, b) = [n \in 1 .. K2 |-> Part(e, s2[n], s2[n + 1] - 1)]
  BY <1>2, StepsAre
<1> DEFINE X == StepsIn(e, a, c)
           Y == StepsIn(e, c + 1, b)
           Z == StepsIn(e, a, b)
<1>15. X \in Seq(Parts(e)) /\ Y \in Seq(Parts(e)) /\ Z \in Seq(Parts(e))
  <2>1. c + 1 \in Nat \ {0} /\ c + 1 <= b + 1 /\ a <= b + 1
    OBVIOUS
  <2> QED  BY <2>1, StepsType
<1>16. Len(X) = K1 /\ Len(Y) = K2 /\ Len(Z) = K
  BY <1>6, <1>12, <1>13, <1>14
<1> HIDE DEF X, Y, Z
<1>17. /\ X \o Y \in Seq(Parts(e)) /\ Len(X \o Y) = K
       /\ \A n \in 1 .. K : (X \o Y)[n] = IF n <= K1 THEN X[n] ELSE Y[n - K1]
  BY <1>15, <1>16, ConcatProperties
<1>18. ASSUME NEW n \in 1 .. K PROVE (X \o Y)[n] = Z[n]
  <2>1. Z[n] = Part(e, st[n], st[n + 1] - 1)
    BY <1>12 DEF Z
  <2>2. CASE n \in 1 .. K1 /\ st[n] = s1[n] /\ st[n + 1] = s1[n + 1]
    <3>1. X[n] = Part(e, s1[n], s1[n + 1] - 1) /\ n <= K1
      BY <1>13, <2>2 DEF X
    <3> QED  BY <1>17, <2>1, <2>2, <3>1
  <2>3. CASE n - K1 \in 1 .. K2 /\ st[n] = s2[n - K1] /\ st[n + 1] = s2[n - K1 + 1]
    <3>1. Y[n - K1] = Part(e, s2[n - K1], s2[n - K1 + 1] - 1) /\ ~(n <= K1)
      BY <1>14, <2>3 DEF Y
    <3> QED  BY <1>17, <2>1, <2>3, <3>1
  <2> QED  BY <1>8, <2>2, <2>3
<1>19. X \o Y = Z
  BY <1>15, <1>16, <1>17, <1>18, SeqEqual
<1> QED  BY <1>19 DEF X, Y, Z

\* Two logs that agree on a stretch have the same steps in it
Agree(e, f, a, b, d) == \A i \in a .. b : e[i] = f[d + i]
SameSteps(e, f, a, b, d) == StepsIn(e, a, b) = StepsIn(f, d + a, d + b)

\* Logs that agree on a stretch have the same steps there
LEMMA StepsAgree ==
  ASSUME NEW e, NEW f, NEW a \in Nat \ {0}, NEW b \in Nat, NEW d \in Nat, a <= b + 1,
         Agree(e, f, a, b, d)
  PROVE  SameSteps(e, f, a, b, d)
<1>0. \A i \in a .. b : e[i] = f[d + i]
  BY DEF Agree
<1>1K. PICK K \in Nat : \E st : Marks(st, K, e, a, b)
  BY MarksExist
<1>1. PICK s : Marks(s, K, e, a, b)
  BY <1>1K
<1>2. /\ s \in [1 .. K + 1 -> Nat \ {0}] /\ s[1] = a /\ s[K + 1] = b + 1
      /\ \A n \in 1 .. K : /\ s[n] < s[n + 1]
                            /\ \A i \in s[n] .. s[n + 1] - 1 : e[i].step = e[s[n]].step
      /\ \A n \in 2 .. K : e[s[n] - 1].step # e[s[n]].step
  BY <1>1 DEF Marks
<1>3. \A m, n \in 1 .. K + 1 : m < n => s[m] < s[n]
  BY <1>1, MarksIncrease
<1> DEFINE st == [n \in 1 .. K + 1 |-> d + s[n]]
<1>4. \A n \in 1 .. K + 1 : st[n] = d + s[n] /\ s[n] \in Nat \ {0}
  BY <1>2
<1>5. st \in [1 .. K + 1 -> Nat \ {0}]
  BY <1>4
<1> HIDE DEF st
<1>6. st[1] = d + a /\ st[K + 1] = d + b + 1
  BY <1>2, <1>4
<1>7. ASSUME NEW n \in 1 .. K
      PROVE  /\ n \in 1 .. K + 1 /\ n + 1 \in 1 .. K + 1 /\ a <= s[n] /\ s[n] < s[n + 1] /\ s[n + 1] <= b + 1
             /\ s[n] \in Nat /\ s[n + 1] \in Nat
  <2>1. n \in 1 .. K + 1 /\ n + 1 \in 1 .. K + 1 /\ 1 \in 1 .. K + 1 /\ K + 1 \in 1 .. K + 1
    OBVIOUS
  <2>2. n = 1 \/ a < s[n]
    BY <1>2, <1>3, <2>1
  <2>3. n + 1 = K + 1 \/ s[n + 1] < b + 1
    BY <1>2, <1>3, <2>1
  <2>4. s[n] \in Nat /\ s[n + 1] \in Nat /\ s[n] < s[n + 1]
    BY <1>2, <1>4, <2>1
  <2>5. a <= s[n] /\ s[n + 1] <= b + 1
    BY <1>2, <2>2, <2>3, <2>4
  <2> QED  BY <2>1, <2>4, <2>5
<1>8. ASSUME NEW n \in 1 .. K
      PROVE  st[n] < st[n + 1] /\ \A i \in st[n] .. st[n + 1] - 1 : f[i].step = f[st[n]].step
  <2>1. st[n] < st[n + 1]
    BY <1>4, <1>7
  <2>2. ASSUME NEW i \in st[n] .. st[n + 1] - 1 PROVE f[i].step = f[st[n]].step
    <3>1. i - d \in s[n] .. s[n + 1] - 1 /\ i - d \in a .. b /\ d + (i - d) = i /\ s[n] \in a .. b
      BY <1>4, <1>7
    <3>2. f[i] = e[i - d] /\ f[st[n]] = e[s[n]]
      BY <1>0, <1>4, <1>7, <3>1
    <3> QED  BY <1>2, <3>1, <3>2
  <2> QED  BY <2>1, <2>2
<1>9. ASSUME NEW n \in 2 .. K PROVE f[st[n] - 1].step # f[st[n]].step
  <2>1. n \in 1 .. K /\ 1 \in 1 .. K + 1 /\ n \in 1 .. K + 1 /\ 1 < n
    OBVIOUS
  <2>2. a < s[n] /\ s[n] <= b
    BY <1>2, <1>3, <1>7, <2>1
  <2>3. s[n] - 1 \in a .. b /\ s[n] \in a .. b /\ st[n] - 1 = d + (s[n] - 1) /\ st[n] = d + s[n]
    BY <1>4, <1>7, <2>1, <2>2
  <2>4. f[st[n] - 1] = e[s[n] - 1] /\ f[st[n]] = e[s[n]]
    BY <1>0, <2>3
  <2> QED  BY <1>2, <2>4
<1>10. Marks(st, K, f, d + a, d + b)
  BY <1>5, <1>6, <1>8, <1>9 DEF Marks
<1>11. StepsIn(f, d + a, d + b) = [n \in 1 .. K |-> Part(f, st[n], st[n + 1] - 1)]
  BY <1>10, StepsAre
<1>12. StepsIn(e, a, b) = [n \in 1 .. K |-> Part(e, s[n], s[n + 1] - 1)]
  BY <1>1, StepsAre
<1>13. ASSUME NEW n \in 1 .. K PROVE Part(f, st[n], st[n + 1] - 1) = Part(e, s[n], s[n + 1] - 1)
  <2>1. st[n] = d + s[n] /\ st[n + 1] = d + s[n + 1]
    BY <1>4, <1>7
  <2>2. st[n + 1] - 1 - st[n] + 1 = s[n + 1] - 1 - s[n] + 1
    BY <1>7, <2>1
  <2>3. ASSUME NEW i \in 1 .. s[n + 1] - 1 - s[n] + 1
        PROVE  f[st[n] + i - 1].command = e[s[n] + i - 1].command
    <3>1. s[n] + i - 1 \in a .. b /\ d + (s[n] + i - 1) = st[n] + i - 1
      BY <1>7, <2>1
    <3> QED  BY <1>0, <3>1
  <2> QED  BY <2>2, <2>3 DEF Part
<1> QED  BY <1>11, <1>12, <1>13 DEF SameSteps

\* The steps of a stretch have all its commands
LEMMA SizeIs ==
  ASSUME NEW e, NEW a \in Nat \ {0}, NEW b \in Nat, a <= b + 1
  PROVE  History!Size(StepsIn(e, a, b)) = b - a + 1
<1>1K. PICK K \in Nat : \E st : Marks(st, K, e, a, b)
  BY MarksExist
<1>1. PICK st : Marks(st, K, e, a, b)
  BY <1>1K
<1>2. /\ st \in [1 .. K + 1 -> Nat \ {0}] /\ st[1] = a /\ st[K + 1] = b + 1
      /\ \A n \in 1 .. K : st[n] < st[n + 1]
  BY <1>1 DEF Marks
<1>3. \A m, n \in 1 .. K + 1 : m < n => st[m] < st[n]
  BY <1>1, MarksIncrease
<1>4. ASSUME NEW n \in 1 .. K
      PROVE  /\ n \in 1 .. K + 1 /\ n + 1 \in 1 .. K + 1
             /\ st[n] \in Nat /\ st[n + 1] \in Nat /\ a <= st[n] /\ st[n + 1] <= b + 1
  <2>1. n \in 1 .. K + 1 /\ n + 1 \in 1 .. K + 1 /\ 1 \in 1 .. K + 1 /\ K + 1 \in 1 .. K + 1
    OBVIOUS
  <2>2. n = 1 \/ a < st[n]
    BY <1>2, <1>3, <2>1
  <2>3. n + 1 = K + 1 \/ st[n + 1] < b + 1
    BY <1>2, <1>3, <2>1
  <2>4. st[n] \in Nat /\ st[n + 1] \in Nat
    BY <1>2, <2>1
  <2> QED  BY <1>2, <2>1, <2>2, <2>3, <2>4
<1> DEFINE X == StepsIn(e, a, b)
           U == UNION {{i} \X DOMAIN X[i] : i \in DOMAIN X}
           At(p) == CHOOSE n \in 1 .. K : st[n] <= p /\ p < st[n + 1]
           f == [p \in a .. b |-> <<At(p), p - st[At(p)] + 1>>]
<1>5. DOMAIN X = 1 .. K /\ \A n \in 1 .. K : DOMAIN X[n] = 1 .. st[n + 1] - st[n]
  <2>1. X = [n \in 1 .. K |-> Part(e, st[n], st[n + 1] - 1)]
    BY <1>1, StepsAre
  <2> HIDE DEF X
  <2>2. ASSUME NEW n \in 1 .. K PROVE DOMAIN X[n] = 1 .. st[n + 1] - st[n]
    <3>1. (st[n + 1] - 1) - st[n] + 1 = st[n + 1] - st[n]
      BY <1>4
    <3> QED  BY <2>1, <3>1 DEF Part
  <2> QED  BY <2>1, <2>2
<1>6. ASSUME NEW p \in a .. b
      PROVE  At(p) \in 1 .. K /\ st[At(p)] <= p /\ p < st[At(p) + 1]
  <2>1. \E n \in 1 .. K : st[n] <= p /\ p < st[n + 1]
    BY <1>1, MarksFind
  <2> QED  BY <2>1
<1>7. ASSUME NEW p \in a .. b, NEW n \in 1 .. K, st[n] <= p, p < st[n + 1] PROVE At(p) = n
  <2> DEFINE m == At(p)
  <2>1. m \in 1 .. K /\ st[m] <= p /\ p < st[m + 1]
    BY <1>6
  <2> HIDE DEF m
  <2>2. /\ m + 1 \in 1 .. K + 1 /\ n + 1 \in 1 .. K + 1 /\ m \in 1 .. K + 1 /\ n \in 1 .. K + 1
        /\ st[m] \in Nat /\ st[n] \in Nat /\ st[m + 1] \in Nat /\ st[n + 1] \in Nat
    BY <1>4, <2>1
  <2>3. ~(m < n)
    <3> SUFFICES ASSUME m < n PROVE FALSE
      OBVIOUS
    <3>1. m + 1 = n \/ m + 1 < n
      BY <2>1
    <3>2. m + 1 = n \/ st[m + 1] < st[n]
      BY <1>3, <2>2, <3>1
    <3> QED  BY <1>7, <2>1, <2>2, <3>2
  <2>4. ~(n < m)
    <3> SUFFICES ASSUME n < m PROVE FALSE
      OBVIOUS
    <3>1. n + 1 = m \/ n + 1 < m
      BY <2>1
    <3>2. n + 1 = m \/ st[n + 1] < st[m]
      BY <1>3, <2>2, <3>1
    <3> QED  BY <1>7, <2>1, <2>2, <3>2
  <2>5. m = n
    BY <2>1, <2>3, <2>4
  <2> QED  BY <2>5 DEF m
<1> HIDE DEF X, At
<1>8. ASSUME NEW n \in 1 .. K, NEW j \in 1 .. st[n + 1] - st[n] PROVE <<n, j>> \in U
  <2>1. n \in DOMAIN X /\ <<n, j>> \in {n} \X DOMAIN X[n]
    BY <1>5
  <2> QED  BY <2>1
<1>9. ASSUME NEW p \in a .. b PROVE f[p] \in U
  <2>1. At(p) \in 1 .. K /\ st[At(p)] <= p /\ p < st[At(p) + 1]
    BY <1>6
  <2>2. PICK n \in 1 .. K : n = At(p)
    BY <2>1
  <2>3. p - st[n] + 1 \in 1 .. st[n + 1] - st[n]
    BY <1>4, <2>1, <2>2
  <2> HIDE DEF U
  <2> QED  BY <1>8, <2>2, <2>3
<1>10. ASSUME NEW p \in a .. b, NEW q \in a .. b, f[p] = f[q] PROVE p = q
  <2>1. At(p) = At(q) /\ p - st[At(p)] + 1 = q - st[At(q)] + 1
    BY <1>10
  <2>2. PICK n \in 1 .. K : n = At(p)
    BY <1>6
  <2>3. p - st[n] + 1 = q - st[n] + 1 /\ st[n] \in Nat
    BY <1>4, <2>1, <2>2
  <2> QED  BY <2>3
<1>11. ASSUME NEW u \in U PROVE \E p \in a .. b : f[p] = u
  <2>0. PICK n \in 1 .. K : \E j \in 1 .. st[n + 1] - st[n] : u = <<n, j>>
    <3>1. PICK i \in DOMAIN X : u \in {i} \X DOMAIN X[i]
      OBVIOUS
    <3>2. i \in 1 .. K /\ DOMAIN X[i] = 1 .. st[i + 1] - st[i]
      BY <1>5, <3>1
    <3> QED  BY <3>1, <3>2
  <2>1. PICK j \in 1 .. st[n + 1] - st[n] : u = <<n, j>>
    BY <2>0
  <2>2. PICK p \in Nat : p = st[n] + j - 1
    BY <1>4
  <2>3. p \in a .. b /\ st[n] <= p /\ p < st[n + 1] /\ p - st[n] + 1 = j
    BY <1>4, <2>1, <2>2
  <2>4. At(p) = n
    BY <1>7, <2>3
  <2>5. f[p] = <<n, j>>
    BY <2>3, <2>4
  <2> QED  BY <2>1, <2>3, <2>5
<1>12. f \in Bijection(a .. b, U)
  <2>1. DOMAIN f = a .. b /\ f = [p \in a .. b |-> f[p]]
    OBVIOUS
  <2> HIDE DEF f, U
  <2>2. f \in [a .. b -> U]
    BY <1>9, <2>1
  <2> QED  BY <1>10, <1>11, <2>2 DEF Bijection, Injection, Surjection, IsInjective
<1>13. IsFiniteSet(a .. b) /\ Cardinality(a .. b) = b - a + 1
  <2>1. IsFiniteSet(a .. b) /\ Cardinality(a .. b) = IF a > b THEN 0 ELSE b - a + 1
    BY FS_Interval
  <2>2. a > b => b - a + 1 = 0
    OBVIOUS
  <2> QED  BY <2>1, <2>2
<1> HIDE DEF U, f
<1>14. Cardinality(U) = b - a + 1
  BY <1>12, <1>13, FS_Bijection DEF ExistsBijection
<1>15. History!Size(X) = Cardinality(U)
  BY DEF History!Size, History!Cardinality, Cardinality, U
<1> QED  BY <1>14, <1>15 DEF X

From(steps, m) == SubSeq(steps, m, Len(steps))

\* What is left when the first steps of a stretch are dropped
LEMMA StepsRest ==
  ASSUME NEW e, NEW a \in Nat \ {0}, NEW b \in Nat, NEW K, NEW st, Marks(st, K, e, a, b),
         NEW m \in 1 .. K
  PROVE  /\ st[m] \in a .. b /\ Len(StepsIn(e, a, b)) = K
         /\ From(StepsIn(e, a, b), m) = StepsIn(e, st[m], b)
<1>1. /\ K \in Nat /\ st \in [1 .. K + 1 -> Nat \ {0}] /\ st[1] = a /\ st[K + 1] = b + 1
      /\ \A n \in 1 .. K : /\ st[n] < st[n + 1]
                            /\ \A i \in st[n] .. st[n + 1] - 1 : e[i].step = e[st[n]].step
      /\ \A n \in 2 .. K : e[st[n] - 1].step # e[st[n]].step
  BY DEF Marks
<1>2. st[m] \in a .. b
  <2>1. \A i, j \in 1 .. K + 1 : i < j => st[i] < st[j]
    BY MarksIncrease
  <2>2. m \in 1 .. K + 1 /\ 1 \in 1 .. K + 1 /\ K + 1 \in 1 .. K + 1 /\ m < K + 1 /\ (m = 1 \/ 1 < m)
    BY <1>1
  <2>3. st[m] \in Nat /\ st[m] < b + 1 /\ (m = 1 \/ a < st[m])
    BY <1>1, <2>1, <2>2
  <2> QED  BY <1>1, <2>3
<1>0. PICK L \in Nat : L = K - m + 1
  BY <1>1
<1> DEFINE s == [n \in 1 .. L + 1 |-> st[m + n - 1]]
<1>3. L \in Nat /\ \A n \in 1 .. L + 1 : m + n - 1 \in 1 .. K + 1 /\ s[n] = st[m + n - 1]
  BY <1>0, <1>1
<1>4. s \in [1 .. L + 1 -> Nat \ {0}]
  BY <1>1, <1>3
<1> HIDE DEF s
<1>5. s[1] = st[m] /\ s[L + 1] = b + 1
  <2>1. 1 \in 1 .. L + 1 /\ L + 1 \in 1 .. L + 1 /\ m + 1 - 1 = m /\ m + (L + 1) - 1 = K + 1
    BY <1>0, <1>1, <1>3
  <2> QED  BY <1>1, <1>3, <2>1
<1>6. ASSUME NEW n \in 1 .. L
      PROVE  /\ m + n - 1 \in 1 .. K /\ s[n] = st[m + n - 1] /\ s[n + 1] = st[m + n - 1 + 1]
             /\ n # 1 => m + n - 1 \in 2 .. K
  <2>1. /\ n \in 1 .. L + 1 /\ n + 1 \in 1 .. L + 1 /\ m + (n + 1) - 1 = m + n - 1 + 1
        /\ m + n - 1 \in 1 .. K /\ n # 1 => m + n - 1 \in 2 .. K
    BY <1>0, <1>1, <1>3
  <2>2. n # 1 => m + n - 1 \in 2 .. K
    BY <1>0, <1>1, <1>3
  <2> QED  BY <1>3, <2>1, <2>2
<1>7. \A n \in 1 .. L : /\ s[n] < s[n + 1]
                        /\ \A i \in s[n] .. s[n + 1] - 1 : e[i].step = e[s[n]].step
  <2> TAKE n \in 1 .. L
  <2>1. PICK k \in 1 .. K : s[n] = st[k] /\ s[n + 1] = st[k + 1]
    BY <1>6
  <2> QED  BY <1>1, <2>1
<1>8. \A n \in 2 .. L : e[s[n] - 1].step # e[s[n]].step
  <2> TAKE n \in 2 .. L
  <2>1. n \in 1 .. L /\ n # 1
    BY <1>3
  <2>2. PICK k \in 2 .. K : s[n] = st[k]
    BY <1>6, <2>1
  <2> QED  BY <1>1, <2>2
<1>9. Marks(s, L, e, st[m], b)
  BY <1>3, <1>4, <1>5, <1>7, <1>8 DEF Marks
<1>17. StepsIn(e, st[m], b) = [n \in 1 .. L |-> Part(e, s[n], s[n + 1] - 1)]
  BY <1>9, StepsAre
<1> DEFINE X == StepsIn(e, a, b)
           Y == StepsIn(e, st[m], b)
<1>10. X = [n \in 1 .. K |-> Part(e, st[n], st[n + 1] - 1)] /\ X \in Seq(Parts(e))
  <2>1. a <= b + 1
    BY <1>2
  <2> QED  BY <2>1, StepsAre, StepsType
<1>11. Y = [n \in 1 .. L |-> Part(e, s[n], s[n + 1] - 1)]
  BY <1>17
<1>12. Y \in Seq(Parts(e))
  <2>1. st[m] \in Nat \ {0} /\ st[m] <= b + 1
    BY <1>2
  <2> QED  BY <2>1, StepsType
<1> HIDE DEF X, Y
<1>13. Len(X) = K /\ Len(Y) = L
  BY <1>1, <1>3, <1>10, <1>11
<1>14. /\ SubSeq(X, m, K) \in Seq(Parts(e)) /\ Len(SubSeq(X, m, K)) = L
       /\ \A n \in 1 .. L : SubSeq(X, m, K)[n] = X[m + n - 1]
  BY <1>1, <1>10, <1>13, <1>0, SubSeqProperties
<1>15. ASSUME NEW n \in 1 .. L PROVE X[m + n - 1] = Y[n]
  BY <1>6, <1>10, <1>11
<1>16. SubSeq(X, m, K) = Y
  BY <1>12, <1>13, <1>14, <1>15, SeqEqual
<1>18. From(X, m) = Y
  BY <1>13, <1>16 DEF From
<1> QED  BY <1>2, <1>13, <1>18 DEF X, Y

\* A history is trimmed to the steps of the trimmed log
LEMMA TrimIs ==
  ASSUME NEW e \in Seq(Entries), e # << >>
  PROVE  History!Trimmed(StepsIn(e, 1, Len(e))) = StepsIn(Trimmed(e), 1, Len(Trimmed(e)))
<1>0. PICK N \in Nat \ {0} : N = Len(e)
  OBVIOUS
<1>1K. PICK K \in Nat : \E st : Marks(st, K, e, 1, N)
  <2>1. 1 \in Nat \ {0} /\ 1 <= N + 1
    OBVIOUS
  <2> QED  BY <2>1, MarksExist
<1>1. PICK st : Marks(st, K, e, 1, N)
  BY <1>1K
<1>2. /\ st \in [1 .. K + 1 -> Nat \ {0}] /\ st[1] = 1 /\ st[K + 1] = N + 1
      /\ \A n \in 1 .. K : /\ st[n] < st[n + 1]
                            /\ \A i \in st[n] .. st[n + 1] - 1 : e[i].step = e[st[n]].step
      /\ \A n \in 2 .. K : e[st[n] - 1].step # e[st[n]].step
  BY <1>1 DEF Marks
<1>3. \A m, n \in 1 .. K + 1 : m < n => st[m] < st[n]
  BY <1>1, MarksIncrease
<1>4. \A i \in 1 .. N : /\ StepEnd(e, i) \in i .. N
                        /\ \A j \in i .. StepEnd(e, i) : e[j].step = e[i].step
                        /\ StepEnd(e, i) = N \/ e[StepEnd(e, i) + 1].step # e[i].step
  BY <1>0, StepEndIs
<1> DEFINE X == StepsIn(e, 1, N)
           Ends == {0} \cup {StepEnd(e, i) : i \in 1 .. N}
<1>5. Len(X) = K /\ \A m \in 1 .. K : st[m] \in 1 .. N /\ SubSeq(X, m, K) = StepsIn(e, st[m], N)
  <2>1. \A m \in 1 .. K : st[m] \in 1 .. N /\ Len(X) = K /\ SubSeq(X, m, K) = StepsIn(e, st[m], N)
    <3>1. 1 \in Nat \ {0} /\ N \in Nat
      OBVIOUS
    <3> TAKE m \in 1 .. K
    <3> HIDE DEF X
    <3>2. X = StepsIn(e, 1, N)
      BY DEF X
    <3>3. PICK a \in Nat \ {0} : a = 1
      OBVIOUS
    <3>4. Marks(st, K, e, a, N)
      BY <1>1, <3>3
    <3>5. /\ st[m] \in a .. N /\ Len(StepsIn(e, a, N)) = K
          /\ From(StepsIn(e, a, N), m) = StepsIn(e, st[m], N)
      BY <3>1, <3>4, StepsRest
    <3> QED  BY <3>2, <3>3, <3>5 DEF From
  <2>2. K # 0
    BY <1>2
  <2>3. 1 \in 1 .. K
    BY <2>2
  <2> QED  BY <2>1, <2>3
<1>6. X \in Seq(Parts(e))
  BY StepsType
<1> HIDE DEF X
<1>7. ASSUME NEW m \in 1 .. K
      PROVE  /\ History!Size(SubSeq(X, m, K)) = N - st[m] + 1
             /\ Len(SubSeq(X, m, K)) = K - m + 1
             /\ Len(SubSeq(e, st[m] - 1 + 1, N)) = N - st[m] + 1
  <2>1. st[m] \in Nat \ {0} /\ st[m] <= N + 1 /\ SubSeq(X, m, K) = StepsIn(e, st[m], N)
    BY <1>5
  <2>2. History!Size(SubSeq(X, m, K)) = N - st[m] + 1
    BY <2>1, SizeIs
  <2>3. Len(SubSeq(X, m, K)) = K - m + 1
    BY <1>5, <1>6
  <2>4. st[m] - 1 + 1 = st[m] /\ st[m] \in 1 .. N
    BY <1>5
  <2>5. Len(SubSeq(e, st[m], N)) = N - st[m] + 1
    BY <1>0, <2>4
  <2> QED  BY <2>2, <2>3, <2>4, <2>5
<1>8. ASSUME NEW m \in 1 .. K PROVE st[m] - 1 \in Ends /\ st[m] - 1 < N
  <2>1. st[m] \in 1 .. N
    BY <1>5
  <2>2. CASE m = 1
    BY <1>2, <2>1, <2>2
  <2>3. CASE m # 1
    <3>1. m \in 2 .. K /\ 1 \in 1 .. K + 1 /\ m \in 1 .. K + 1 /\ 1 < m
      BY <2>3
    <3>2. 1 < st[m]
      BY <1>2, <1>3, <3>1
    <3>3. PICK p \in 1 .. N : p = st[m] - 1
      BY <2>1, <3>2
    <3>6. p + 1 = st[m]
      BY <2>1, <3>3
    <3>4. e[p].step # e[p + 1].step
      BY <1>2, <3>1, <3>3, <3>6
    <3>5. StepEnd(e, p) = p
      <4>1. StepEnd(e, p) \in p .. N
        BY <1>4
      <4>2. p + 1 \notin p .. StepEnd(e, p)
        BY <1>4, <3>4
      <4> QED  BY <4>1, <4>2
    <3> QED  BY <2>1, <3>3, <3>5
  <2> QED  BY <2>2, <2>3
<1>9. ASSUME NEW x \in Ends, x < N PROVE x \in Nat /\ \E m \in 1 .. K : st[m] = x + 1
  <2>1. x \in Nat
    BY <1>4
  <2>2. x + 1 \in Starts(e, 1, N)
    <3>1. x + 1 \in 1 .. N /\ x + 1 - 1 = x
      BY <1>9, <2>1
    <3>2. CASE x = 0
      BY <3>1, <3>2 DEF Starts
    <3>3. CASE x # 0
      <4>1. PICK i \in 1 .. N : x = StepEnd(e, i)
        BY <3>3
      <4>2. x \in i .. x
        BY <1>4, <4>1
      <4>3. e[x + 1].step # e[i].step /\ e[x].step = e[i].step
        BY <1>4, <1>9, <4>1, <4>2
      <4> QED  BY <3>1, <4>3 DEF Starts
    <3> QED  BY <3>2, <3>3
  <2>3. Starts(e, 1, N) = {st[n] : n \in 1 .. K}
    BY <1>1, MarksAreStarts
  <2> QED  BY <2>1, <2>2, <2>3
<1> HIDE DEF Ends
<1>10. PICK x \in 0 .. N - 1 :
         /\ Trimmed(e) = SubSeq(e, x + 1, N)
         /\ x \in Enough(e) /\ \A f \in Enough(e) : x <= f
  BY <1>0, TrimmedIs
<1>11. Enough(e) = {y \in Ends : y < N /\ (Len(SubSeq(e, y + 1, N)) <= Cap \/ StepEnd(e, y + 1) = N)}
  BY <1>0 DEF Enough, Ends
<1>12. PICK m \in 1 .. K : st[m] = x + 1
  BY <1>9, <1>10, <1>11
<1> DEFINE kept == SubSeq(X, m, K)
           All == {SubSeq(X, i, Len(X)) : i \in 1 .. Len(X)}
           Fits(k) == /\ History!Size(k) <= Cap \/ Len(k) = 1
                      /\ \A i \in 1 .. Len(X) :
                           Len(SubSeq(X, i, Len(X))) > Len(k) => History!Size(SubSeq(X, i, Len(X))) > Cap
<1>13. All = {SubSeq(X, i, K) : i \in 1 .. K}
  BY <1>5
<1>14. History!Size(kept) <= Cap \/ Len(kept) = 1
  <2>1. st[m] - 1 = x /\ Len(SubSeq(e, x + 1, N)) = N - st[m] + 1
    BY <1>7, <1>10, <1>12
  <2>2. CASE Len(SubSeq(e, x + 1, N)) <= Cap
    BY <1>7, <2>1, <2>2
  <2>3. CASE StepEnd(e, x + 1) = N
    <3>1. \A j \in st[m] .. N : e[j].step = e[st[m]].step
      BY <1>4, <1>5, <1>12, <2>3
    <3>2. m = K
      <4> SUFFICES ASSUME m # K PROVE FALSE
        OBVIOUS
      <4>1. m + 1 \in 1 .. K /\ m + 1 \in 2 .. K
        OBVIOUS
      <4>4. st[m] \in 1 .. N /\ st[m + 1] \in 1 .. N
        BY <1>5, <4>1
      <4>2. st[m] \in Nat /\ st[m + 1] \in 1 .. N /\ st[m] < st[m + 1]
        BY <1>2, <4>4
      <4>3. st[m + 1] - 1 \in st[m] .. N /\ st[m + 1] \in st[m] .. N
        BY <4>2
      <4> QED  BY <1>2, <3>1, <4>1, <4>3
    <3> QED  BY <1>7, <3>2
  <2> QED  BY <1>10, <1>11, <2>2, <2>3
<1>15. ASSUME NEW i \in 1 .. K, Len(SubSeq(X, i, K)) > Len(kept)
       PROVE  History!Size(SubSeq(X, i, K)) > Cap
  <2>1. i < m /\ i \in 1 .. K + 1 /\ m \in 1 .. K + 1
    BY <1>7, <1>15
  <2>2. st[i] < st[m] /\ st[i] \in Nat /\ st[m] \in Nat
    BY <1>2, <1>3, <2>1
  <2>3. st[i] - 1 \notin Enough(e)
    <3>1. ~(x <= st[i] - 1)
      BY <1>12, <2>2
    <3> QED  BY <1>10, <3>1
  <2>4. st[i] - 1 \in Ends /\ st[i] - 1 < N
    BY <1>8
  <2>5. ~(Len(SubSeq(e, st[i] - 1 + 1, N)) <= Cap)
    BY <1>11, <2>3, <2>4
  <2>6. /\ History!Size(SubSeq(X, i, K)) = N - st[i] + 1
        /\ Len(SubSeq(e, st[i] - 1 + 1, N)) = N - st[i] + 1
    BY <1>7
  <2>7. N - st[i] + 1 \in Nat
    <3>1. st[i] \in 1 .. N
      BY <1>5
    <3> QED  BY <3>1
  <2>8. Cap \in Nat
    BY UndoCaretakerAssumption
  <2>9. PICK z \in Nat : z = N - st[i] + 1
    BY <2>7
  <2>10. ~(z <= Cap)
    BY <2>5, <2>6, <2>9, Zenon
  <2>11. z > Cap
    BY <2>8, <2>10
  <2> QED  BY <2>6, <2>9, <2>11, Zenon
<1>16. kept \in All /\ Fits(kept)
  BY <1>5, <1>13, <1>14, <1>15
<1>17. ASSUME NEW k \in All, Fits(k) PROVE k = kept
  <2>1. PICK i \in 1 .. K : k = SubSeq(X, i, K)
    BY <1>13
  <2>2. Len(k) = K - i + 1 /\ Len(kept) = K - m + 1
    BY <1>7, <2>1
  <2>3. ~(i < m)
    <3> SUFFICES ASSUME i < m PROVE FALSE
      OBVIOUS
    <3>1. Len(k) > Len(kept) /\ Len(k) # 1
      BY <2>2
    <3>2. History!Size(k) > Cap
      BY <1>15, <2>1, <3>1
    <3>3. History!Size(k) \in Nat
      <4>1. History!Size(k) = N - st[i] + 1 /\ st[i] \in 1 .. N
        BY <1>5, <1>7, <2>1
      <4> QED  BY <4>1
    <3> QED  BY <1>17, <3>1, <3>2, <3>3, UndoCaretakerAssumption
  <2>4. ~(m < i)
    <3> SUFFICES ASSUME m < i PROVE FALSE
      OBVIOUS
    <3>1. Len(kept) > Len(k) /\ Len(kept) # 1
      BY <2>2
    <3>2. History!Size(kept) > Cap
      BY <1>5, <1>17, <3>1
    <3>3. History!Size(kept) \in Nat
      <4>1. History!Size(kept) = N - st[m] + 1 /\ st[m] \in 1 .. N
        BY <1>5, <1>7
      <4> QED  BY <4>1
    <3> QED  BY <1>14, <3>1, <3>2, <3>3, UndoCaretakerAssumption
  <2>5. i = m
    BY <2>3, <2>4
  <2> QED  BY <2>1, <2>5
<1>18. History!Trimmed(X) = CHOOSE k \in All : Fits(k)
  BY DEF History!Trimmed
<1>19. History!Trimmed(X) = kept
  <2> HIDE DEF kept, All, Fits
  <2> QED  BY <1>16, <1>17, <1>18
<1>20. kept = StepsIn(e, st[m], N)
  BY <1>5
<1>21. Len(Trimmed(e)) = N - x /\ \A i \in 1 .. N - x : Trimmed(e)[i] = e[x + i]
  <2>1. x \in Nat /\ x + 1 \in 1 .. N /\ N - (x + 1) + 1 = N - x
    OBVIOUS
  <2>2. /\ Len(SubSeq(e, x + 1, N)) = N - x
        /\ \A i \in 1 .. N - x : SubSeq(e, x + 1, N)[i] = e[x + 1 + i - 1]
    BY <1>0, <2>1
  <2>3. \A i \in 1 .. N - x : x + 1 + i - 1 = x + i
    OBVIOUS
  <2> QED  BY <1>10, <2>2, <2>3
<1>22. StepsIn(Trimmed(e), 1, N - x) = StepsIn(e, x + 1, x + (N - x))
  <2>1. N - x \in Nat /\ x \in Nat /\ 1 <= N - x + 1 /\ 1 \in Nat \ {0}
    OBVIOUS
  <2>2. Agree(Trimmed(e), e, 1, N - x, x)
    BY <1>21 DEF Agree
  <2>3. SameSteps(Trimmed(e), e, 1, N - x, x)
    BY <2>1, <2>2, StepsAgree
  <2> QED  BY <2>3 DEF SameSteps
<1>23. x + (N - x) = N
  OBVIOUS
<1> QED  BY <1>0, <1>12, <1>19, <1>20, <1>21, <1>22, <1>23 DEF X

-----------------------------------------------------------------------------
(* The steps next to the cursor *)

\* The commands of a stretch
LEMMA PartIs ==
  ASSUME NEW e \in Seq(Entries), NEW a \in Nat \ {0}, NEW b \in Nat, a <= b + 1, b <= Len(e)
  PROVE  /\ Part(e, a, b) \in Seq(Nat) /\ Len(Part(e, a, b)) = b - a + 1
         /\ \A i \in 1 .. b - a + 1 : Part(e, a, b)[i] = e[a + i - 1].command
<1>1. \A i \in 1 .. b - a + 1 : e[a + i - 1].command \in Nat
  <2> TAKE i \in 1 .. b - a + 1
  <2>1. a + i - 1 \in 1 .. Len(e)
    OBVIOUS
  <2>2. e[a + i - 1] \in Entries
    BY <2>1
  <2> QED  BY <2>2 DEF Entries
<1>2. PICK n \in Nat : n = b - a + 1
  OBVIOUS
<1>3. Part(e, a, b) \in [1 .. n -> Nat]
  BY <1>1, <1>2 DEF Part
<1>4. Part(e, a, b) \in Seq(Nat) /\ Len(Part(e, a, b)) = n
  <2> HIDE <1>2
  <2> QED  BY <1>3, FunctionIsSeq
<1> QED  BY <1>2, <1>4 DEF Part

\* ... is that of its two halves
LEMMA PartsTogether ==
  ASSUME NEW e \in Seq(Entries), NEW a \in Nat \ {0}, NEW c \in Nat, NEW b \in Nat,
         a <= c + 1, c <= b, b <= Len(e)
  PROVE  Part(e, a, b) = Part(e, a, c) \o Part(e, c + 1, b)
<1> DEFINE P == Part(e, a, c)
           Q == Part(e, c + 1, b)
           W == Part(e, a, b)
<1>1. c + 1 \in Nat \ {0} /\ c + 1 <= b + 1 /\ c <= Len(e) /\ a <= b + 1
  OBVIOUS
<1>2. /\ P \in Seq(Nat) /\ Len(P) = c - a + 1
      /\ \A i \in 1 .. c - a + 1 : P[i] = e[a + i - 1].command
  BY <1>1, PartIs
<1>3. /\ Q \in Seq(Nat) /\ Len(Q) = b - (c + 1) + 1
      /\ \A i \in 1 .. b - (c + 1) + 1 : Q[i] = e[c + 1 + i - 1].command
  BY <1>1, PartIs
<1>4. /\ W \in Seq(Nat) /\ Len(W) = b - a + 1
      /\ \A i \in 1 .. b - a + 1 : W[i] = e[a + i - 1].command
  BY <1>1, PartIs
<1> HIDE DEF P, Q, W
<1>5. Len(P) + Len(Q) = b - a + 1
  BY <1>2, <1>3
<1>6. /\ P \o Q \in Seq(Nat) /\ Len(P \o Q) = b - a + 1
      /\ \A i \in 1 .. b - a + 1 : (P \o Q)[i] = IF i <= Len(P) THEN P[i] ELSE Q[i - Len(P)]
  BY <1>2, <1>3, <1>5, ConcatProperties
<1>7. ASSUME NEW i \in 1 .. b - a + 1 PROVE (P \o Q)[i] = W[i]
  <2>1. CASE i <= Len(P)
    <3>1. i \in 1 .. c - a + 1
      BY <1>2, <2>1
    <3> QED  BY <1>2, <1>4, <1>6, <2>1, <3>1
  <2>2. CASE ~(i <= Len(P))
    <3>1. PICK j \in 1 .. b - (c + 1) + 1 : j = i - Len(P)
      BY <1>2, <2>2
    <3>2. c + 1 + j - 1 = a + i - 1
      BY <1>2, <3>1
    <3> QED  BY <1>3, <1>4, <1>6, <2>2, <3>1, <3>2
  <2> QED  BY <2>1, <2>2
<1>8. P \o Q = W
  BY <1>4, <1>6, <1>7, SeqEqual
<1> QED  BY <1>8 DEF P, Q, W

\* The commands of a step up to the kth, and after it
First(step, k) == SubSeq(step, 1, k)
Rest(step, k) == SubSeq(step, k + 1, Len(step))

\* ... and has them as its beginning and its end
LEMMA PartApart ==
  ASSUME NEW e \in Seq(Entries), NEW a \in Nat \ {0}, NEW c \in Nat, NEW b \in Nat,
         a <= c + 1, c <= b, b <= Len(e)
  PROVE  /\ First(Part(e, a, b), c - a + 1) = Part(e, a, c)
         /\ Rest(Part(e, a, b), c - a + 1) = Part(e, c + 1, b)
<1> DEFINE P == Part(e, a, c)
           Q == Part(e, c + 1, b)
           W == Part(e, a, b)
<1>1. c + 1 \in Nat \ {0} /\ c + 1 <= b + 1 /\ c <= Len(e) /\ a <= b + 1
  OBVIOUS
<1>2. /\ P \in Seq(Nat) /\ Len(P) = c - a + 1
      /\ \A i \in 1 .. c - a + 1 : P[i] = e[a + i - 1].command
  BY <1>1, PartIs
<1>3. /\ Q \in Seq(Nat) /\ Len(Q) = b - (c + 1) + 1
      /\ \A i \in 1 .. b - (c + 1) + 1 : Q[i] = e[c + 1 + i - 1].command
  BY <1>1, PartIs
<1>4. /\ W \in Seq(Nat) /\ Len(W) = b - a + 1
      /\ \A i \in 1 .. b - a + 1 : W[i] = e[a + i - 1].command
  BY <1>1, PartIs
<1> HIDE DEF P, Q, W
<1>5. PICK k \in Nat : k = c - a + 1 /\ k <= Len(W) /\ Len(W) \in Nat
  BY <1>4
<1>6. SubSeq(W, 1, k) = P
  <2>1. SubSeq(W, 1, k) \in Seq(Nat) /\ Len(SubSeq(W, 1, k)) = k
        /\ \A i \in 1 .. k : SubSeq(W, 1, k)[i] = W[i]
    BY <1>4, <1>5
  <2>2. \A i \in 1 .. k : W[i] = P[i]
    BY <1>2, <1>4, <1>5
  <2> QED  BY <1>2, <1>5, <2>1, <2>2, SeqEqual
<1>7. SubSeq(W, k + 1, Len(W)) = Q
  <2>1. /\ SubSeq(W, k + 1, Len(W)) \in Seq(Nat) /\ Len(SubSeq(W, k + 1, Len(W))) = Len(W) - k
        /\ \A i \in 1 .. Len(W) - k : SubSeq(W, k + 1, Len(W))[i] = W[k + i]
    <3>1. \A i \in k + 1 .. Len(W) : W[i] \in Nat
      BY <1>4, <1>5
    <3>2. PICK m \in Nat \ {0} : m = k + 1
      BY <1>5
    <3>3. PICK z \in Nat : z = Len(W)
      BY <1>5
    <3>4. \A i \in m .. z : W[i] \in Nat
      BY <3>1, <3>2, <3>3
    <3>5. z - m + 1 = z - k /\ z - k \in Nat /\ (m <= z \/ z - k = 0)
      BY <1>5, <3>2, <3>3
    <3>6. /\ SubSeq(W, m, z) \in Seq(Nat)
          /\ Len(SubSeq(W, m, z)) = IF m <= z THEN z - m + 1 ELSE 0
          /\ \A i \in 1 .. z - m + 1 : SubSeq(W, m, z)[i] = W[m + i - 1]
      <4> HIDE <3>2, <3>3, <3>5
      <4> QED  BY <3>4, SubSeqProperties
    <3>7. \A i \in 1 .. z - k : m + i - 1 = k + i
      BY <1>5, <3>2
    <3> QED  BY <3>2, <3>3, <3>5, <3>6, <3>7
  <2>2. Len(W) - k = b - (c + 1) + 1
    BY <1>4, <1>5
  <2>3. ASSUME NEW i \in 1 .. Len(W) - k PROVE W[k + i] = Q[i]
    <3>1. k + i \in 1 .. b - a + 1 /\ i \in 1 .. b - (c + 1) + 1 /\ a + (k + i) - 1 = c + 1 + i - 1
      BY <1>4, <1>5, <2>2
    <3> QED  BY <1>3, <1>4, <3>1
  <2> QED  BY <1>3, <2>1, <2>2, <2>3, SeqEqual
<1> QED  BY <1>5, <1>6, <1>7 DEF P, Q, W, First, Rest

\* The mapping, in terms of the steps of a stretch
LEMMA Mapped ==
  /\ Steps(1, cursor) = StepsIn(log, 1, cursor)
  /\ Steps(cursor + 1, Len(log)) = StepsIn(log, cursor + 1, Len(log))
  /\ Steps(1, cursor)' = StepsIn(log', 1, cursor')
  /\ Steps(cursor + 1, Len(log))' = StepsIn(log', cursor' + 1, Len(log'))
BY DEF Steps, StepsIn, Starts, Nth, Part, Commands, StepOf

\* A step at the end of some steps
LEMMA StepAtEnd ==
  ASSUME NEW S, NEW X \in Seq(S), NEW p \in S
  PROVE  /\ X \o << p >> # << >> /\ X \o << p >> = Append(X, p)
         /\ History!Front(X \o << p >>) = X /\ History!Last(X \o << p >>) = p
<1> DEFINE Y == X \o << p >>
<1>1. PICK n \in Nat : n = Len(X)
  OBVIOUS
<1>2. << p >> \in Seq(S) /\ Len(<< p >>) = 1 /\ << p >>[1] = p
  OBVIOUS
<1>3. /\ Y \in Seq(S) /\ Len(Y) = n + 1 /\ \A i \in 1 .. n : Y[i] = X[i]
      /\ Y[n + 1] = p
  BY <1>1, <1>2
<1>4. Y = Append(X, p)
  BY <1>1, <1>3
<1> HIDE DEF Y
<1>5. SubSeq(Y, 1, n) \in Seq(S) /\ Len(SubSeq(Y, 1, n)) = n
      /\ \A i \in 1 .. n : SubSeq(Y, 1, n)[i] = Y[i]
  BY <1>3
<1>6. SubSeq(Y, 1, n) = X
  BY <1>1, <1>3, <1>5, SeqEqual
<1>7. Len(Y) - 1 = n
  BY <1>3
<1>8. Y # << >>
  BY <1>3
<1> QED  BY <1>3, <1>4, <1>6, <1>7, <1>8 DEF Y, History!Front, History!Last

\* A step at the beginning of some steps
LEMMA StepAtFront ==
  ASSUME NEW S, NEW X \in Seq(S), NEW p \in S
  PROVE  /\ << p >> \o X # << >>
         /\ Head(<< p >> \o X) = p /\ Tail(<< p >> \o X) = X
<1> DEFINE Y == << p >> \o X
<1>1. PICK n \in Nat : n = Len(X)
  OBVIOUS
<1>2. << p >> \in Seq(S) /\ Len(<< p >>) = 1 /\ << p >>[1] = p
  OBVIOUS
<1>3. /\ Y \in Seq(S) /\ Len(Y) = n + 1 /\ \A i \in 1 .. n : Y[i + 1] = X[i]
      /\ Y[1] = p
  BY <1>1, <1>2
<1> HIDE DEF Y
<1>8. Y # << >>
  BY <1>3
<1>4. /\ Tail(Y) \in Seq(S) /\ Len(Tail(Y)) = n /\ \A i \in 1 .. n : Tail(Y)[i] = Y[i + 1]
  BY <1>3, <1>8
<1>5. Tail(Y) = X
  BY <1>1, <1>3, <1>4, SeqEqual
<1>6. Head(Y) = p
  BY <1>3, <1>8
<1> QED  BY <1>5, <1>6, <1>8 DEF Y

\* Two neighbours are of one step
SplitAt(e, m) == m \in 1 .. (Len(e) - 1) /\ e[m].step = e[m + 1].step

\* The steps of a beginning and of the end
LEMMA StepsSeq ==
  ASSUME NEW e \in Seq(Entries), NEW m \in 0 .. Len(e)
  PROVE  /\ StepsIn(e, 1, m) \in Seq(Parts(e)) /\ StepsIn(e, m + 1, Len(e)) \in Seq(Parts(e))
<1>1. PICK o \in Nat \ {0} : o = 1
  OBVIOUS
<1>2. PICK q \in Nat \ {0} : q = m + 1
  OBVIOUS
<1>3. PICK n \in Nat : n = Len(e)
  OBVIOUS
<1>4. o <= m + 1 /\ q <= n + 1 /\ m \in Nat
  BY <1>1, <1>2, <1>3
<1>5. StepsIn(e, o, m) \in Seq(Parts(e)) /\ StepsIn(e, q, n) \in Seq(Parts(e))
  <2> HIDE <1>1, <1>2, <1>3
  <2> QED  BY <1>4, StepsType
<1> QED  BY <1>1, <1>2, <1>3, <1>5

\* Neighbours of one step
Run(e, a, b) ==
  /\ a \in Nat \ {0} /\ b \in Nat /\ a <= b + 1 /\ b <= Len(e)
  /\ \A i \in a .. b : e[i].step = e[a].step

\* ... are one step, or none if there are none
LEMMA RunSteps ==
  ASSUME NEW e \in Seq(Entries), NEW a, NEW b, Run(e, a, b)
  PROVE  /\ StepsIn(e, a, b) = History!NonEmpty(Part(e, a, b))
         /\ a <= b => StepsIn(e, a, b) = << Part(e, a, b) >>
<1>0. /\ a \in Nat \ {0} /\ b \in Nat /\ a <= b + 1 /\ b <= Len(e)
      /\ \A i \in a .. b : e[i].step = e[a].step
  BY DEF Run
<1>1. Len(Part(e, a, b)) = b - a + 1
  BY <1>0, PartIs
<1>2. CASE a <= b
  <2>1. StepsIn(e, a, b) = << Part(e, a, b) >>
    BY <1>0, <1>2, StepsOne
  <2>2. Part(e, a, b) # << >>
    BY <1>0, <1>1, <1>2
  <2> QED  BY <2>1, <2>2 DEF History!NonEmpty
<1>3. CASE ~(a <= b)
  <2>1. b = a - 1
    BY <1>0, <1>3
  <2>2. StepsIn(e, a, b) = << >>
    BY <1>0, <2>1, StepsNone
  <2>3. Part(e, a, b) = << >>
    <3>1. 1 .. b - a + 1 = {}
      BY <1>0, <2>1
    <3> QED  BY <3>1 DEF Part
  <2> QED  BY <1>3, <2>2, <2>3 DEF History!NonEmpty
<1> QED  BY <1>2, <1>3

\* The commands of a run, in two
LEMMA RunParts ==
  ASSUME NEW e \in Seq(Entries), NEW a, NEW c \in Nat, NEW b, Run(e, a, b), a <= c + 1, c <= b
  PROVE  /\ Run(e, a, c) /\ Run(e, c + 1, b) /\ c - a + 1 \in 0 .. Len(Part(e, a, b))
         /\ Len(Part(e, a, b)) = b - a + 1
         /\ Part(e, a, b) \in Parts(e) /\ Part(e, a, c) \in Parts(e) /\ Part(e, c + 1, b) \in Parts(e)
         /\ First(Part(e, a, b), c - a + 1) = Part(e, a, c)
         /\ Rest(Part(e, a, b), c - a + 1) = Part(e, c + 1, b)
         /\ Part(e, a, b) = Part(e, a, c) \o Part(e, c + 1, b)
<1>0. /\ a \in Nat \ {0} /\ b \in Nat /\ a <= b + 1 /\ b <= Len(e)
      /\ \A i \in a .. b : e[i].step = e[a].step
  BY DEF Run
<1>1. Run(e, a, c)
  BY <1>0 DEF Run
<1>2. Run(e, c + 1, b)
  BY <1>0 DEF Run
<1>3. Len(Part(e, a, b)) = b - a + 1
  BY <1>0, PartIs
<1>4. c - a + 1 \in 0 .. Len(Part(e, a, b))
  BY <1>0, <1>3
<1>5. Part(e, a, b) \in Parts(e) /\ Part(e, a, c) \in Parts(e) /\ Part(e, c + 1, b) \in Parts(e)
  <2>1. PICK d \in Nat : d = c + 1
    BY <1>0
  <2>2. Part(e, d, b) \in Parts(e)
    BY <1>0 DEF Parts
  <2>3. Part(e, a, b) \in Parts(e) /\ Part(e, a, c) \in Parts(e)
    BY <1>0 DEF Parts
  <2> QED  BY <2>1, <2>2, <2>3
<1>6. /\ First(Part(e, a, b), c - a + 1) = Part(e, a, c)
      /\ Rest(Part(e, a, b), c - a + 1) = Part(e, c + 1, b)
  BY <1>0, PartApart
<1>7. Part(e, a, b) = Part(e, a, c) \o Part(e, c + 1, b)
  BY <1>0, PartsTogether
<1> QED  BY <1>1, <1>2, <1>3, <1>4, <1>5, <1>6, <1>7

\* A run of one step is its two parts, one after the other
LEMMA RunTogether ==
  ASSUME NEW e \in Seq(Entries), NEW a, NEW c \in Nat, NEW b, Run(e, a, b), a <= c + 1, c <= b
  PROVE  Part(e, a, b) = Part(e, a, c) \o Part(e, c + 1, b)
<1>1. a \in Nat \ {0} /\ b \in Nat /\ b <= Len(e)
  BY DEF Run
<1> QED  BY <1>1, PartsTogether

\* Steps around a place between two of them
LEMMA StepsAround ==
  ASSUME NEW e \in Seq(Entries), NEW m \in Nat, NEW a \in Nat \ {0}, NEW b \in Nat,
         a <= m + 1, m <= b, b <= Len(e), ~SplitAt(e, m)
  PROVE  StepsIn(e, a, b) = StepsIn(e, a, m) \o StepsIn(e, m + 1, b)
<1>1. m = a - 1 \/ m = b \/ e[m].step # e[m + 1].step
  BY DEF SplitAt
<1>2. a <= m + 1 /\ m <= b
  OBVIOUS
<1> QED  BY <1>1, <1>2, StepsApart, ZenonT(60)

\* Two runs of one step
LEMMA RunsJoin ==
  ASSUME NEW e \in Seq(Entries), NEW s, NEW m, NEW p, NEW z, Run(e, s, m), s <= m, p = m + 1,
         Run(e, p, z), p <= z, SplitAt(e, m)
  PROVE  Run(e, s, z)
<1>1. /\ s \in Nat \ {0} /\ m \in Nat /\ z \in Nat /\ z <= Len(e) /\ m < z
      /\ \A i \in s .. m : e[i].step = e[s].step
      /\ \A i \in m + 1 .. z : e[i].step = e[m + 1].step
      /\ e[m].step = e[m + 1].step
  BY DEF Run, SplitAt
<1>2. m \in s .. m
  BY <1>1
<1>3. \A i \in s .. z : i \in s .. m \/ i \in m + 1 .. z
  BY <1>1
<1>4. \A i \in s .. z : e[i].step = e[s].step
  BY <1>1, <1>2, <1>3
<1>5. s <= z + 1
  BY <1>1
<1> QED  BY <1>1, <1>4, <1>5 DEF Run

\* The steps up to a place, and the step there
LEMMA StepBefore ==
  ASSUME NEW e \in Seq(Entries), NEW q \in Nat, NEW m, Run(e, q + 1, m), ~SplitAt(e, q)
  PROVE  /\ StepsIn(e, 1, m) = StepsIn(e, 1, q) \o History!NonEmpty(Part(e, q + 1, m))
         /\ q + 1 <= m => /\ StepsIn(e, 1, m) # << >>
                      /\ StepsIn(e, 1, m) = StepsIn(e, 1, q) \o << Part(e, q + 1, m) >>
                      /\ History!Front(StepsIn(e, 1, m)) = StepsIn(e, 1, q)
                      /\ History!Last(StepsIn(e, 1, m)) = Part(e, q + 1, m)
<1>0. PICK s : s = q + 1
  OBVIOUS
<1>1. s \in Nat \ {0} /\ m \in Nat /\ s <= m + 1 /\ m <= Len(e) /\ q <= m /\ q \in 0 .. Len(e)
      /\ Run(e, s, m)
  BY <1>0 DEF Run
<1>2. PICK o \in Nat \ {0} : o = 1
  OBVIOUS
<1>3. o <= s
  BY <1>1, <1>2
<1>4. StepsIn(e, o, m) = StepsIn(e, o, q) \o StepsIn(e, s, m)
  <2>1. ~SplitAt(e, q) /\ o <= q + 1
    BY <1>0, <1>3
  <2>2. m \in Nat /\ q <= m /\ m <= Len(e)
    BY <1>1
  <2>3. StepsIn(e, o, m) = StepsIn(e, o, q) \o StepsIn(e, q + 1, m)
    <3> HIDE <1>0, <1>2
    <3> QED  BY <2>1, <2>2, StepsAround, ZenonT(60)
  <2> QED  BY <1>0, <2>3
<1>5. StepsIn(e, 1, q) \in Seq(Parts(e))
  BY <1>1, StepsSeq
<1>6. /\ StepsIn(e, s, m) = History!NonEmpty(Part(e, s, m))
      /\ s <= m => StepsIn(e, s, m) = << Part(e, s, m) >>
  BY <1>1, RunSteps
<1>7. Part(e, s, m) \in Parts(e)
  BY <1>1 DEF Parts
<1>8. PICK X : X = StepsIn(e, 1, q)
  OBVIOUS
<1>9. PICK x : x = Part(e, s, m)
  OBVIOUS
<1>10. /\ X \o << x >> # << >>
       /\ History!Front(X \o << x >>) = X /\ History!Last(X \o << x >>) = x
  <2>1. X \in Seq(Parts(e)) /\ x \in Parts(e)
    BY <1>5, <1>7, <1>8, <1>9
  <2> HIDE <1>8, <1>9
  <2> QED  BY <2>1, StepAtEnd, ZenonT(60)
<1>11. StepsIn(e, 1, m) = StepsIn(e, 1, q) \o History!NonEmpty(Part(e, s, m))
  BY <1>2, <1>4, <1>6
<1>12. s <= m => StepsIn(e, 1, m) = X \o << x >>
  BY <1>2, <1>4, <1>6, <1>8, <1>9
<1> QED  BY <1>0, <1>8, <1>9, <1>10, <1>11, <1>12

\* The step after a place, and the steps from there
LEMMA StepAfter ==
  ASSUME NEW e \in Seq(Entries), NEW d, NEW z, Run(e, d, z), ~SplitAt(e, z)
  PROVE  /\ StepsIn(e, d, Len(e)) = History!NonEmpty(Part(e, d, z)) \o StepsIn(e, z + 1, Len(e))
         /\ d <= z => /\ StepsIn(e, d, Len(e)) # << >>
                      /\ StepsIn(e, d, Len(e)) = << Part(e, d, z) >> \o StepsIn(e, z + 1, Len(e))
                      /\ Head(StepsIn(e, d, Len(e))) = Part(e, d, z)
                      /\ Tail(StepsIn(e, d, Len(e))) = StepsIn(e, z + 1, Len(e))
<1>1. d \in Nat \ {0} /\ z \in Nat /\ d <= z + 1 /\ z <= Len(e) /\ z \in 0 .. Len(e)
  BY DEF Run
<1>4. StepsIn(e, d, Len(e)) = StepsIn(e, d, z) \o StepsIn(e, z + 1, Len(e))
  <2>1. ~SplitAt(e, z) /\ d <= z + 1 /\ z \in Nat
    BY <1>1
  <2>2. PICK N \in Nat : N = Len(e)
    OBVIOUS
  <2>3. d \in Nat \ {0} /\ z <= N /\ N <= Len(e)
    BY <1>1, <2>2
  <2>4. StepsIn(e, d, N) = StepsIn(e, d, z) \o StepsIn(e, z + 1, N)
    <3> HIDE <2>2
    <3> QED  BY <2>1, <2>3, StepsAround, ZenonT(60)
  <2> QED  BY <2>2, <2>4
<1>5. StepsIn(e, z + 1, Len(e)) \in Seq(Parts(e))
  BY <1>1, StepsSeq
<1>6. /\ StepsIn(e, d, z) = History!NonEmpty(Part(e, d, z))
      /\ d <= z => StepsIn(e, d, z) = << Part(e, d, z) >>
  BY RunSteps
<1>7. Part(e, d, z) \in Parts(e)
  BY <1>1 DEF Parts
<1>8. PICK X : X = StepsIn(e, z + 1, Len(e))
  OBVIOUS
<1>9. PICK x : x = Part(e, d, z)
  OBVIOUS
<1>10. << x >> \o X # << >> /\ Head(<< x >> \o X) = x /\ Tail(<< x >> \o X) = X
  <2>1. X \in Seq(Parts(e)) /\ x \in Parts(e)
    BY <1>5, <1>7, <1>8, <1>9
  <2> HIDE <1>8, <1>9
  <2> QED  BY <2>1, StepAtFront, ZenonT(60)
<1>11. StepsIn(e, d, Len(e)) = History!NonEmpty(Part(e, d, z)) \o StepsIn(e, z + 1, Len(e))
  BY <1>4, <1>6
<1>12. d <= z => StepsIn(e, d, Len(e)) = << x >> \o X
  BY <1>4, <1>6, <1>8, <1>9
<1> QED  BY <1>8, <1>9, <1>10, <1>11, <1>12

\* The step at m, from q + 1 on, is undone down to c
DoneDownTo(e, q, m, c) ==
  /\ StepsIn(e, 1, m) # << >>
  /\ History!Last(StepsIn(e, 1, m)) = Part(e, q + 1, m)
  /\ StepsIn(e, 1, c) = History!Front(StepsIn(e, 1, m)) \o History!NonEmpty(Part(e, q + 1, c))

\* The steps that are still done
LEMMA UndoDone ==
  ASSUME NEW e \in Seq(Entries), NEW q \in Nat, NEW m, Run(e, q + 1, m), q + 1 <= m,
         ~SplitAt(e, q), NEW c \in Nat, q <= c, c <= m
  PROVE  DoneDownTo(e, q, m, c)
<1>1. Run(e, q + 1, c)
  <2>1. PICK s : s = q + 1
    OBVIOUS
  <2>2. Run(e, s, m) /\ s <= c + 1
    BY <2>1
  <2>3. Run(e, s, c)
    <3> HIDE <2>1
    <3> QED  BY <2>2, RunParts
  <2> QED  BY <2>1, <2>3
<1>2. StepsIn(e, 1, c) = StepsIn(e, 1, q) \o History!NonEmpty(Part(e, q + 1, c))
  BY <1>1, StepBefore, ZenonT(60)
<1>3. StepsIn(e, 1, m) # << >>
  BY StepBefore, ZenonT(60)
<1>4. History!Front(StepsIn(e, 1, m)) = StepsIn(e, 1, q)
  BY StepBefore, ZenonT(60)
<1>5. History!Last(StepsIn(e, 1, m)) = Part(e, q + 1, m)
  BY StepBefore, ZenonT(60)
<1> QED  BY <1>2, <1>3, <1>4, <1>5 DEF DoneDownTo

CutAfter(e, s, m, c) ==
  /\ First(Part(e, s, m), c - s + 1) = Part(e, s, c)
  /\ Rest(Part(e, s, m), c - s + 1) = Part(e, c + 1, m)
  /\ c - s + 1 \in 0 .. Len(Part(e, s, m))

\* The commands of the step before and after c
LEMMA UndoCut ==
  ASSUME NEW e \in Seq(Entries), NEW s, NEW m, Run(e, s, m), NEW c \in Nat, s <= c + 1, c <= m
  PROVE  CutAfter(e, s, m, c)
<1>1. s \in Nat \ {0} /\ m \in Nat /\ m <= Len(e)
  BY DEF Run
<1>2. /\ First(Part(e, s, m), c - s + 1) = Part(e, s, c)
      /\ Rest(Part(e, s, m), c - s + 1) = Part(e, c + 1, m)
  BY <1>1, PartApart
<1>3. Len(Part(e, s, m)) = m - s + 1
  <2>1. s <= m + 1
    BY <1>1
  <2> QED  BY <1>1, <2>1, PartIs
<1>4. c - s + 1 \in 0 .. Len(Part(e, s, m))
  BY <1>1, <1>3
<1> QED  BY <1>2, <1>4 DEF CutAfter

\* The steps that can be redone then: a step undone in part is put together again
LEMMA UndoUndone ==
  ASSUME NEW e \in Seq(Entries), NEW q \in Nat, NEW s, s = q + 1, NEW m \in Nat, Run(e, s, m),
         s <= m, NEW c \in Nat, q <= c, c <= m,
         SplitAt(e, m) => \E z : Run(e, m + 1, z) /\ m + 1 <= z /\ ~SplitAt(e, z)
  PROVE  /\ SplitAt(e, m) =>
              StepsIn(e, c + 1, Len(e)) = << Part(e, c + 1, m) \o Head(StepsIn(e, m + 1, Len(e))) >>
                                            \o Tail(StepsIn(e, m + 1, Len(e)))
         /\ ~SplitAt(e, m) =>
              StepsIn(e, c + 1, Len(e)) = History!NonEmpty(Part(e, c + 1, m)) \o StepsIn(e, m + 1, Len(e))
<1>1. s <= c + 1 /\ c - s + 1 = c - q
  BY DEF Run
<1>2. Run(e, c + 1, m)
  BY <1>1, RunParts, ZenonT(60)
<1>3. ASSUME ~SplitAt(e, m)
      PROVE  StepsIn(e, c + 1, Len(e)) = History!NonEmpty(Part(e, c + 1, m)) \o StepsIn(e, m + 1, Len(e))
  <2>1. StepsIn(e, c + 1, Len(e)) = History!NonEmpty(Part(e, c + 1, m)) \o StepsIn(e, m + 1, Len(e))
    BY <1>2, <1>3, StepAfter, ZenonT(60)
  <2> QED  BY <1>2, <2>1
<1>4. ASSUME SplitAt(e, m)
      PROVE  StepsIn(e, c + 1, Len(e)) = << Part(e, c + 1, m) \o Head(StepsIn(e, m + 1, Len(e))) >>
                                           \o Tail(StepsIn(e, m + 1, Len(e)))
  <2>1. PICK z : Run(e, m + 1, z) /\ m + 1 <= z /\ ~SplitAt(e, z)
    BY <1>4
  <2>3. z \in Nat /\ c <= z /\ m <= z /\ c + 1 <= m + 1 /\ c + 1 <= z
    BY <2>1 DEF Run
  <2>4. Run(e, s, z)
    BY <1>4, <2>1, RunsJoin, ZenonT(60)
  <2>5. Run(e, c + 1, z)
    BY <1>1, <2>3, <2>4, RunParts, ZenonT(60)
  <2>6. Part(e, c + 1, z) = Part(e, c + 1, m) \o Part(e, m + 1, z)
    <3>1. PICK d \in Nat : d = c + 1
      OBVIOUS
    <3>2. Run(e, d, z) /\ d <= m + 1 /\ m <= z
      BY <2>3, <2>5, <3>1
    <3>3. Part(e, d, z) = Part(e, d, m) \o Part(e, m + 1, z)
      <4> HIDE <3>1
      <4> QED  BY <3>2, RunParts
    <3> QED  BY <3>1, <3>3
  <2>7. Head(StepsIn(e, m + 1, Len(e))) = Part(e, m + 1, z)
        /\ Tail(StepsIn(e, m + 1, Len(e))) = StepsIn(e, z + 1, Len(e))
    BY <2>1, StepAfter, ZenonT(60)
  <2>8. StepsIn(e, c + 1, Len(e)) = << Part(e, c + 1, z) >> \o StepsIn(e, z + 1, Len(e))
    BY <2>1, <2>3, <2>5, StepAfter, ZenonT(60)
  <2> QED  BY <1>2, <2>6, <2>7, <2>8
<1> QED  BY <1>3, <1>4

\* The cursor is inside a step exactly when a part of it is undone
LEMMA UndoSplit ==
  ASSUME NEW e \in Seq(Entries), NEW q \in Nat, NEW s, s = q + 1, NEW m, Run(e, s, m), s <= m,
         ~SplitAt(e, q), NEW c \in Nat, q <= c, c <= m, NEW k, k = c - q
  PROVE  SplitAt(e, c) <=> (k > 0 /\ (SplitAt(e, m) \/ k < Len(Part(e, s, m))))
<1>1. /\ s \in Nat \ {0} /\ m \in Nat /\ m <= Len(e) /\ k \in Nat
      /\ \A i \in s .. m : e[i].step = e[s].step
  BY DEF Run
<1>2. Len(Part(e, s, m)) = m - q
  <2>1. s <= m + 1
    BY <1>1
  <2>2. Len(Part(e, s, m)) = m - s + 1
    BY <1>1, <2>1, PartIs, ZenonT(60)
  <2> QED  BY <1>1, <2>2
<1>3. CASE c = q
  <2>1. ~(k > 0) /\ ~SplitAt(e, c)
    BY <1>1, <1>3
  <2> QED  BY <2>1
<1>4. CASE c = m
  <2>1. k > 0 /\ ~(k < Len(Part(e, s, m)))
    BY <1>1, <1>2, <1>4
  <2> QED  BY <1>4, <2>1
<1>5. CASE q < c /\ c < m
  <2>1. c \in s .. m /\ c + 1 \in s .. m /\ c \in 1 .. Len(e) - 1
    BY <1>1, <1>5
  <2>2. e[c].step = e[c + 1].step
    BY <1>1, <2>1
  <2>3. k > 0 /\ k < Len(Part(e, s, m))
    BY <1>1, <1>2, <1>5
  <2> QED  BY <2>1, <2>2, <2>3 DEF SplitAt
<1> QED  BY <1>1, <1>3, <1>4, <1>5

\* The step after m, up to z, is redone up to c
UndoneFrom(e, m, z, c) ==
  /\ StepsIn(e, m + 1, Len(e)) # << >>
  /\ Head(StepsIn(e, m + 1, Len(e))) = Part(e, m + 1, z)
  /\ StepsIn(e, c + 1, Len(e)) = History!NonEmpty(Part(e, c + 1, z)) \o Tail(StepsIn(e, m + 1, Len(e)))

\* The steps that can still be redone
LEMMA RedoUndone ==
  ASSUME NEW e \in Seq(Entries), NEW m \in Nat, NEW z, Run(e, m + 1, z), m + 1 <= z,
         ~SplitAt(e, z), NEW c \in Nat, m <= c, c <= z
  PROVE  UndoneFrom(e, m, z, c)
<1>1. Run(e, c + 1, z)
  <2>1. PICK p : p = m + 1
    OBVIOUS
  <2>2. Run(e, p, z) /\ p <= c + 1
    BY <2>1
  <2>3. Run(e, c + 1, z)
    <3> HIDE <2>1
    <3> QED  BY <2>2, RunParts, ZenonT(60)
  <2> QED  BY <2>3
<1>3. StepsIn(e, c + 1, Len(e)) = History!NonEmpty(Part(e, c + 1, z)) \o StepsIn(e, z + 1, Len(e))
  BY <1>1, StepAfter, ZenonT(60)
<1>4. StepsIn(e, m + 1, Len(e)) # << >>
  BY StepAfter, ZenonT(60)
<1>5. Head(StepsIn(e, m + 1, Len(e))) = Part(e, m + 1, z)
  BY StepAfter, ZenonT(60)
<1>6. Tail(StepsIn(e, m + 1, Len(e))) = StepsIn(e, z + 1, Len(e))
  BY StepAfter, ZenonT(60)
<1> QED  BY <1>3, <1>4, <1>5, <1>6 DEF UndoneFrom

\* A step that is redone where it was cut is one run
LEMMA RedoJoined ==
  ASSUME NEW e \in Seq(Entries), NEW m \in Nat, NEW z, Run(e, m + 1, z), m + 1 <= z,
         NEW c \in Nat, m <= c, c <= z, SplitAt(e, m), NEW s, Run(e, s, m), s <= m
  PROVE  Run(e, s, c) /\ Part(e, s, c) = Part(e, s, m) \o Part(e, m + 1, c)
<1>1. Run(e, s, z)
  BY RunsJoin, ZenonT(60)
<1>2. s <= c + 1 /\ s <= m + 1
  BY DEF Run
<1>3. Run(e, s, c)
  BY <1>1, <1>2, RunParts
<1>4. PICK b : b = c
  OBVIOUS
<1>5. Run(e, s, b) /\ m <= b
  BY <1>3, <1>4
<1>6. Part(e, s, b) = Part(e, s, m) \o Part(e, m + 1, b)
  <2> HIDE <1>4
  <2> QED  BY <1>2, <1>5, RunTogether, ZenonT(60)
<1> QED  BY <1>3, <1>4, <1>6

\* The steps that are done then: a step redone in part is put together again
LEMMA RedoDone ==
  ASSUME NEW e \in Seq(Entries), NEW m \in Nat, NEW z, Run(e, m + 1, z), m + 1 <= z,
         NEW c \in Nat, m <= c, c <= z,
         SplitAt(e, m) => \E q \in Nat : Run(e, q + 1, m) /\ q + 1 <= m /\ ~SplitAt(e, q)
  PROVE  /\ SplitAt(e, m) =>
              StepsIn(e, 1, c) = History!Front(StepsIn(e, 1, m))
                                   \o << History!Last(StepsIn(e, 1, m)) \o Part(e, m + 1, c) >>
         /\ ~SplitAt(e, m) =>
              StepsIn(e, 1, c) = StepsIn(e, 1, m) \o History!NonEmpty(Part(e, m + 1, c))
<1>2. Run(e, m + 1, c)
  <2>1. PICK p : p = m + 1
    OBVIOUS
  <2>2. Run(e, p, z) /\ p <= c + 1
    BY <2>1
  <2>3. Run(e, p, c)
    <3> HIDE <2>1
    <3> QED  BY <2>2, RunParts
  <2> QED  BY <2>1, <2>3
<1>3. ASSUME ~SplitAt(e, m)
      PROVE  StepsIn(e, 1, c) = StepsIn(e, 1, m) \o History!NonEmpty(Part(e, m + 1, c))
  BY <1>2, <1>3, StepBefore, ZenonT(60)
<1>4. ASSUME SplitAt(e, m)
      PROVE  StepsIn(e, 1, c) = History!Front(StepsIn(e, 1, m))
                                  \o << History!Last(StepsIn(e, 1, m)) \o Part(e, m + 1, c) >>
  <2>1. PICK q \in Nat : Run(e, q + 1, m) /\ q + 1 <= m /\ ~SplitAt(e, q)
    BY <1>4
  <2>2. PICK s \in Nat : s = q + 1
    OBVIOUS
  <2>3. Run(e, s, m) /\ s <= m
    BY <2>1, <2>2
  <2>5. s <= c
    BY <2>3
  <2>6. Run(e, s, c)
    <3> HIDE <2>2
    <3> QED  BY <1>4, <2>3, RedoJoined, ZenonT(60)
  <2>7. Part(e, s, c) = Part(e, s, m) \o Part(e, m + 1, c)
    <3> HIDE <2>2
    <3> QED  BY <1>4, <2>3, RedoJoined, ZenonT(60)
  <2>8. Run(e, q + 1, c) /\ q + 1 <= c
    BY <2>2, <2>5, <2>6
  <2>9. StepsIn(e, 1, c) = StepsIn(e, 1, q) \o << Part(e, q + 1, c) >>
    BY <2>1, <2>8, StepBefore, ZenonT(60)
  <2>10. History!Front(StepsIn(e, 1, m)) = StepsIn(e, 1, q)
    BY <2>1, StepBefore, ZenonT(60)
  <2>11. History!Last(StepsIn(e, 1, m)) = Part(e, q + 1, m)
    BY <2>1, StepBefore, ZenonT(60)
  <2> QED  BY <2>2, <2>7, <2>9, <2>10, <2>11
<1> QED  BY <1>3, <1>4

\* The cursor is inside a step exactly when a part of it is redone
LEMMA RedoSplit ==
  ASSUME NEW e \in Seq(Entries), NEW m \in Nat, NEW p, p = m + 1, NEW z, Run(e, p, z), p <= z,
         ~SplitAt(e, z), NEW c \in Nat, m <= c, c <= z, NEW k, k = c - m
  PROVE  SplitAt(e, c) <=> (k < Len(Part(e, p, z)) /\ (SplitAt(e, m) \/ k > 0))
<1>1. /\ p \in Nat \ {0} /\ z \in Nat /\ z <= Len(e) /\ k \in Nat
      /\ \A i \in p .. z : e[i].step = e[p].step
  BY DEF Run
<1>2. Len(Part(e, p, z)) = z - m
  <2>1. p <= z + 1
    BY <1>1
  <2>2. Len(Part(e, p, z)) = z - p + 1
    BY <1>1, <2>1, PartIs, ZenonT(60)
  <2> QED  BY <1>1, <2>2
<1>3. CASE c = z
  <2>1. ~(k < Len(Part(e, p, z))) /\ ~SplitAt(e, c)
    BY <1>1, <1>2, <1>3
  <2> QED  BY <2>1
<1>4. CASE c = m /\ c < z
  <2>1. ~(k > 0) /\ k < Len(Part(e, p, z))
    BY <1>1, <1>2, <1>4
  <2> QED  BY <1>4, <2>1
<1>5. CASE m < c /\ c < z
  <2>1. c \in p .. z /\ c + 1 \in p .. z /\ c \in 1 .. Len(e) - 1
    BY <1>1, <1>5
  <2>2. e[c].step = e[c + 1].step
    BY <1>1, <2>1
  <2>3. k > 0 /\ k < Len(Part(e, p, z))
    BY <1>1, <1>2, <1>5
  <2> QED  BY <2>1, <2>2, <2>3 DEF SplitAt
<1> QED  BY <1>1, <1>3, <1>4, <1>5

\* Where the step at a place begins, and where the one after it ends
LEMMA StartRun ==
  ASSUME NEW e \in Seq(Entries), NEW m \in 1 .. Len(e)
  PROVE  \E q \in Nat : StepStart(e, m) = q + 1 /\ Run(e, q + 1, m) /\ q + 1 <= m /\ ~SplitAt(e, q)
<1>1. PICK s : s = StepStart(e, m)
  OBVIOUS
<1>2. s \in 1 .. m /\ (\A j \in s .. m : e[j].step = e[m].step)
      /\ (s = 1 \/ e[s - 1].step # e[m].step)
  BY <1>1, StepStartIs
<1>3. PICK q \in Nat : q + 1 = s
  <2>1. s - 1 \in Nat /\ (s - 1) + 1 = s
    BY <1>2
  <2> QED  BY <2>1
<1>4. s \in s .. m /\ s \in Nat \ {0} /\ m \in Nat
  BY <1>2
<1>5. Run(e, s, m)
  <2>1. \A j \in s .. m : e[j].step = e[s].step
    BY <1>2, <1>4
  <2> QED  BY <1>2, <1>4, <2>1 DEF Run
<1>6. ~SplitAt(e, q)
  <2>1. s = 1 => q = 0
    BY <1>3, <1>4
  <2>2. s - 1 = q
    BY <1>3, <1>4
  <2>3. e[s].step = e[m].step
    BY <1>2, <1>4
  <2> QED  BY <1>2, <1>3, <2>1, <2>2, <2>3 DEF SplitAt
<1> QED  BY <1>1, <1>2, <1>3, <1>5, <1>6

\* Where the step after a place ends
LEMMA EndRun ==
  ASSUME NEW e \in Seq(Entries), NEW m \in Nat, m < Len(e)
  PROVE  \E z \in Nat : StepEnd(e, m + 1) = z /\ Run(e, m + 1, z) /\ m + 1 <= z /\ ~SplitAt(e, z)
<1>1. PICK p \in 1 .. Len(e) : p = m + 1
  OBVIOUS
<1>2. PICK z : z = StepEnd(e, p)
  OBVIOUS
<1>3. z \in p .. Len(e) /\ (\A j \in p .. z : e[j].step = e[p].step)
      /\ (z = Len(e) \/ e[z + 1].step # e[p].step)
  BY <1>2, StepEndIs
<1>4. Run(e, p, z)
  BY <1>3 DEF Run
<1>5. ~SplitAt(e, z)
  <2>1. z \in p .. z /\ e[z].step = e[p].step /\ z \in Nat
    BY <1>3
  <2> QED  BY <1>3, <2>1 DEF SplitAt
<1> QED  BY <1>1, <1>2, <1>3, <1>4, <1>5

-----------------------------------------------------------------------------
(* What a replay comes to *)

\* What undoing the step at m down to c comes to
Undone(e, m, c, k) ==
  LET D == StepsIn(e, 1, m)
      U == StepsIn(e, m + 1, Len(e))
      step == History!Last(D)
  IN
  /\ D # << >> /\ k \in 0 .. Len(step)
  /\ StepsIn(e, 1, c) = History!Front(D) \o History!NonEmpty(First(step, k))
  /\ SplitAt(e, m) => StepsIn(e, c + 1, Len(e)) = << Rest(step, k) \o Head(U) >> \o Tail(U)
  /\ ~SplitAt(e, m) => StepsIn(e, c + 1, Len(e)) = History!NonEmpty(Rest(step, k)) \o U
  /\ SplitAt(e, c) <=> k > 0 /\ (SplitAt(e, m) \/ k < Len(step))

\* Undoing the step at m down to c keeps the first k commands of it
LEMMA UndoneIs ==
  ASSUME NEW e \in Seq(Entries), NEW m \in Nat, NEW q \in Nat, Run(e, q + 1, m), q + 1 <= m,
         ~SplitAt(e, q), NEW c \in Nat, q <= c, c <= m
  PROVE  \E k \in 0 .. m : Undone(e, m, c, k)
<1>4. /\ StepsIn(e, 1, m) # << >>
      /\ History!Last(StepsIn(e, 1, m)) = Part(e, q + 1, m)
      /\ StepsIn(e, 1, c) = History!Front(StepsIn(e, 1, m)) \o History!NonEmpty(Part(e, q + 1, c))
  <2>1. StepsIn(e, 1, m) # << >>
    BY StepBefore, ZenonT(60)
  <2>2. History!Last(StepsIn(e, 1, m)) = Part(e, q + 1, m)
    BY StepBefore, ZenonT(60)
  <2>3. StepsIn(e, 1, c) = History!Front(StepsIn(e, 1, m)) \o History!NonEmpty(Part(e, q + 1, c))
    <3>1. DoneDownTo(e, q, m, c)
      BY UndoDone
    <3> QED  BY <3>1 DEF DoneDownTo
  <2> QED  BY <2>1, <2>2, <2>3
<1>5. /\ First(Part(e, q + 1, m), c - q) = Part(e, q + 1, c)
      /\ Rest(Part(e, q + 1, m), c - q) = Part(e, c + 1, m)
      /\ c - q \in 0 .. Len(Part(e, q + 1, m))
  <2>1. PICK s : s = q + 1
    OBVIOUS
  <2>2. Run(e, s, m) /\ s <= c + 1 /\ s \in Nat
    BY <2>1
  <2>3. CutAfter(e, s, m, c)
    <3> HIDE <2>1
    <3> QED  BY <2>2, UndoCut
  <2>5. c - s + 1 = c - q
    BY <2>1
  <2> QED  BY <2>1, <2>3, <2>5 DEF CutAfter
<1>6. /\ SplitAt(e, m) =>
           StepsIn(e, c + 1, Len(e)) = << Part(e, c + 1, m) \o Head(StepsIn(e, m + 1, Len(e))) >>
                                         \o Tail(StepsIn(e, m + 1, Len(e)))
      /\ ~SplitAt(e, m) =>
           StepsIn(e, c + 1, Len(e)) = History!NonEmpty(Part(e, c + 1, m)) \o StepsIn(e, m + 1, Len(e))
  <2>1. SplitAt(e, m) => \E z : Run(e, m + 1, z) /\ m + 1 <= z /\ ~SplitAt(e, z)
    <3> SUFFICES ASSUME SplitAt(e, m) PROVE \E z : Run(e, m + 1, z) /\ m + 1 <= z /\ ~SplitAt(e, z)
      OBVIOUS
    <3>1. m < Len(e) /\ m \in Nat
      BY DEF SplitAt
    <3>2. PICK z \in Nat : StepEnd(e, m + 1) = z /\ Run(e, m + 1, z) /\ m + 1 <= z /\ ~SplitAt(e, z)
      BY <3>1, EndRun, ZenonT(60)
    <3> QED  BY <3>2
  <2>2. PICK s : s = q + 1
    OBVIOUS
  <2>3. Run(e, s, m) /\ s <= m
    BY <2>2
  <2> QED  BY <2>1, <2>2, <2>3, UndoUndone, ZenonT(60)
<1>7. PICK step : step = Part(e, q + 1, m)
  OBVIOUS
<1>8. PICK k \in 0 .. m : k = c - q
  OBVIOUS
<1>9. SplitAt(e, c) <=> k > 0 /\ (SplitAt(e, m) \/ k < Len(step))
  <2>1. PICK s : s = q + 1
    OBVIOUS
  <2>2. Run(e, s, m) /\ s <= m /\ step = Part(e, s, m)
    BY <1>7, <2>1
  <2> QED  BY <1>8, <2>1, <2>2, UndoSplit
<1>10. /\ First(step, k) = Part(e, q + 1, c) /\ Rest(step, k) = Part(e, c + 1, m)
       /\ k \in 0 .. Len(step) /\ History!Last(StepsIn(e, 1, m)) = step
  BY <1>4, <1>5, <1>7, <1>8
<1>11. Undone(e, m, c, k)
  <2> HIDE <1>7, <1>8
  <2> QED  BY <1>4, <1>6, <1>9, <1>10 DEF Undone
<1> QED  BY <1>11

\* What redoing the step after m up to c comes to
Redone(e, m, c, k) ==
  LET D == StepsIn(e, 1, m)
      U == StepsIn(e, m + 1, Len(e))
      step == Head(U)
  IN
  /\ U # << >> /\ k \in 0 .. Len(step)
  /\ StepsIn(e, c + 1, Len(e)) = History!NonEmpty(Rest(step, k)) \o Tail(U)
  /\ SplitAt(e, m) => StepsIn(e, 1, c) = History!Front(D) \o << History!Last(D) \o First(step, k) >>
  /\ ~SplitAt(e, m) => StepsIn(e, 1, c) = D \o History!NonEmpty(First(step, k))
  /\ SplitAt(e, c) <=> k < Len(step) /\ (SplitAt(e, m) \/ k > 0)

\* Redoing up to c is redoing the first k commands of the step
LEMMA RedoneIs ==
  ASSUME NEW e \in Seq(Entries), NEW m \in Nat, NEW z \in Nat, Run(e, m + 1, z), m + 1 <= z,
         ~SplitAt(e, z), NEW c \in Nat, m <= c, c <= z
  PROVE  \E k \in 0 .. Len(e) - m : Redone(e, m, c, k)
<1>1. PICK p : p = m + 1
  OBVIOUS
<1>2. Run(e, p, z) /\ p <= z /\ z <= Len(e) /\ p <= c + 1 /\ p \in Nat
  BY <1>1 DEF Run
<1>4. /\ StepsIn(e, m + 1, Len(e)) # << >>
      /\ Head(StepsIn(e, m + 1, Len(e))) = Part(e, m + 1, z)
      /\ StepsIn(e, c + 1, Len(e)) = History!NonEmpty(Part(e, c + 1, z)) \o Tail(StepsIn(e, m + 1, Len(e)))
  <2>1. UndoneFrom(e, m, z, c)
    <3> HIDE <1>1
    <3> QED  BY RedoUndone
  <2> QED  BY <2>1 DEF UndoneFrom
<1>5. /\ First(Part(e, m + 1, z), c - m) = Part(e, m + 1, c)
      /\ Rest(Part(e, m + 1, z), c - m) = Part(e, c + 1, z)
      /\ c - m \in 0 .. Len(Part(e, m + 1, z))
  <2>3. CutAfter(e, p, z, c)
    <3> HIDE <1>1
    <3> QED  BY <1>2, UndoCut
  <2>5. c - p + 1 = c - m
    BY <1>1
  <2> QED  BY <1>1, <2>3, <2>5 DEF CutAfter
<1>6. /\ SplitAt(e, m) =>
           StepsIn(e, 1, c) = History!Front(StepsIn(e, 1, m))
                                \o << History!Last(StepsIn(e, 1, m)) \o Part(e, m + 1, c) >>
      /\ ~SplitAt(e, m) =>
           StepsIn(e, 1, c) = StepsIn(e, 1, m) \o History!NonEmpty(Part(e, m + 1, c))
  <2>1. SplitAt(e, m) => \E q \in Nat : Run(e, q + 1, m) /\ q + 1 <= m /\ ~SplitAt(e, q)
    <3> SUFFICES ASSUME SplitAt(e, m)
                 PROVE  \E q \in Nat : Run(e, q + 1, m) /\ q + 1 <= m /\ ~SplitAt(e, q)
      OBVIOUS
    <3>1. m \in 1 .. Len(e)
      BY DEF SplitAt
    <3>2. PICK q \in Nat : StepStart(e, m) = q + 1 /\ Run(e, q + 1, m) /\ q + 1 <= m /\ ~SplitAt(e, q)
      BY <3>1, StartRun
    <3> QED  BY <3>2
  <2> QED  BY <2>1, RedoDone, ZenonT(60)
<1>7. PICK step : step = Part(e, m + 1, z)
  OBVIOUS
<1>8. PICK k \in 0 .. Len(e) - m : k = c - m
  BY <1>2
<1>9. SplitAt(e, c) <=> k < Len(step) /\ (SplitAt(e, m) \/ k > 0)
  <2>1. step = Part(e, p, z)
    BY <1>1, <1>7
  <2> QED  BY <1>1, <1>2, <1>8, <2>1, RedoSplit
<1>10. /\ First(step, k) = Part(e, m + 1, c) /\ Rest(step, k) = Part(e, c + 1, z)
       /\ k \in 0 .. Len(step) /\ Head(StepsIn(e, m + 1, Len(e))) = step
  BY <1>4, <1>5, <1>7, <1>8
<1>11. Redone(e, m, c, k)
  <2> HIDE <1>1, <1>7, <1>8
  <2> QED  BY <1>4, <1>6, <1>9, <1>10 DEF Redone
<1> QED  BY <1>11

-----------------------------------------------------------------------------
(* What a report comes to *)

\* One command more than up to m
Longer(e, m, f) ==
  /\ f \in Seq(Entries) /\ Len(f) = m + 1 /\ \A i \in 1 .. m : f[i] = e[i]

\* What was done before is done still
LEMMA StepsKept ==
  ASSUME NEW e \in Seq(Entries), NEW m \in 0 .. Len(e), NEW f, Longer(e, m, f), NEW q \in 0 .. m
  PROVE  StepsIn(f, 1, q) = StepsIn(e, 1, q)
<1>1. PICK o \in Nat \ {0} : o = 1
  OBVIOUS
<1>2. PICK d \in Nat : d = 0
  OBVIOUS
<1>3. q \in Nat /\ o <= q + 1
  BY <1>1
<1>4. Agree(f, e, o, q, d)
  BY <1>1, <1>2 DEF Longer, Agree
<1>5. SameSteps(f, e, o, q, d)
  <2> HIDE <1>1, <1>2
  <2> QED  BY <1>3, <1>4, StepsAgree
<1>6. d + o = 1 /\ d + q = q
  BY <1>1, <1>2
<1> QED  BY <1>1, <1>5, <1>6 DEF SameSteps

StartsStep(e, m, f) == StepsIn(f, 1, Len(f)) = Append(StepsIn(e, 1, m), << f[m + 1].command >>)

\* ... begins a step
LEMMA RecordsNew ==
  ASSUME NEW e \in Seq(Entries), NEW m \in 0 .. Len(e), NEW f, Longer(e, m, f),
         m = 0 \/ e[m].step # f[m + 1].step
  PROVE  StartsStep(e, m, f)
<1>1. m \in Nat /\ f \in Seq(Entries) /\ Len(f) = m + 1 /\ \A i \in 1 .. m : f[i] = e[i]
  BY DEF Longer
<1>2. ~SplitAt(f, m)
  BY <1>1 DEF SplitAt
<1>3. PICK p : p = m + 1
  OBVIOUS
<1>4. Run(f, p, p)
  BY <1>1, <1>3 DEF Run
<1>5. StepsIn(f, 1, p) = StepsIn(f, 1, m) \o << Part(f, m + 1, p) >>
  <2>1. Run(f, m + 1, p) /\ m + 1 <= p
    BY <1>1, <1>3, <1>4
  <2> HIDE <1>3
  <2> QED  BY <1>1, <1>2, <2>1, StepBefore, ZenonT(60)
<1>6. Part(f, p, p) = << f[p].command >>
  <2>1. p - p + 1 = 1 /\ p + 1 - 1 = p
    BY <1>1, <1>3
  <2>2. Part(f, p, p) = [i \in 1 .. 1 |-> f[p + i - 1].command]
    BY <2>1 DEF Part
  <2>3. \A i \in 1 .. 1 : f[p + i - 1].command = f[p].command
    BY <2>1
  <2> QED  BY <2>2, <2>3
<1>7. StepsIn(f, 1, m) = StepsIn(e, 1, m)
  <2>1. m \in 0 .. m
    BY <1>1
  <2> QED  BY <2>1, StepsKept
<1>8. PICK X : X = StepsIn(e, 1, m)
  OBVIOUS
<1>9. X \in Seq(Parts(e))
  BY <1>8, StepsSeq
<1>10. \A x : X \o << x >> = Append(X, x)
  BY <1>9
<1> QED  BY <1>1, <1>3, <1>5, <1>6, <1>7, <1>8, <1>10 DEF StartsStep

JoinsStep(e, m, f) ==
  LET D == StepsIn(e, 1, m) IN
  StepsIn(f, 1, Len(f)) = History!Front(D) \o << Append(History!Last(D), f[m + 1].command) >>

\* ... joins the last one
LEMMA RecordsJoined ==
  ASSUME NEW e \in Seq(Entries), NEW m \in 1 .. Len(e), NEW f, Longer(e, m, f),
         e[m].step = f[m + 1].step
  PROVE  JoinsStep(e, m, f)
<1>1. m \in Nat /\ f \in Seq(Entries) /\ Len(f) = m + 1 /\ (\A i \in 1 .. m : f[i] = e[i])
      /\ m \in 0 .. Len(e)
  BY DEF Longer
<1>2. PICK q \in Nat : /\ StepStart(e, m) = q + 1
                       /\ Run(e, q + 1, m) /\ q + 1 <= m /\ ~SplitAt(e, q)
  BY StartRun
<1>3. PICK p : p = m + 1
  OBVIOUS
<1>4. PICK s : s = q + 1
  OBVIOUS
<1>5. /\ s \in Nat \ {0} /\ s <= m /\ s <= p /\ p \in Nat /\ p <= Len(f)
      /\ \A i \in s .. m : e[i].step = e[s].step
  BY <1>1, <1>2, <1>3, <1>4 DEF Run
<1>6. Run(f, s, p)
  <2>1. ASSUME NEW i \in s .. p PROVE f[i].step = f[s].step
    <3>1. f[s] = e[s] /\ m \in s .. m
      BY <1>1, <1>5
    <3>2. CASE i = p
      BY <1>3, <1>5, <3>1, <3>2
    <3>3. CASE i # p
      <4>1. i \in s .. m /\ i \in 1 .. m
        BY <1>1, <1>3, <1>5, <3>3
      <4> QED  BY <1>1, <1>5, <3>1, <4>1
    <3> QED  BY <3>2, <3>3
  <2> QED  BY <1>5, <2>1 DEF Run
<1>7. ~SplitAt(f, q)
  <2>1. q < m /\ f[q + 1] = e[q + 1]
    BY <1>1, <1>4, <1>5
  <2>2. q = 0 \/ f[q] = e[q]
    BY <1>1, <2>1
  <2>3. q = 0 \/ e[q].step # e[q + 1].step
    BY <1>1, <1>2, <2>1 DEF SplitAt
  <2> QED  BY <2>2, <2>1, <2>3 DEF SplitAt
<1>8. StepsIn(f, 1, p) = StepsIn(f, 1, q) \o << Part(f, q + 1, p) >>
  <2>1. Run(f, q + 1, p) /\ q + 1 <= p
    BY <1>4, <1>5, <1>6
  <2> HIDE <1>3, <1>4
  <2> QED  BY <1>1, <1>7, <2>1, StepBefore, ZenonT(60)
<1>9. StepsIn(f, 1, q) = StepsIn(e, 1, q)
  <2>1. q \in 0 .. m
    BY <1>2, <1>1
  <2> QED  BY <1>1, <2>1, StepsKept
<1>10. History!Front(StepsIn(e, 1, m)) = StepsIn(e, 1, q)
  BY <1>1, <1>2, StepBefore, ZenonT(60)
<1>11. History!Last(StepsIn(e, 1, m)) = Part(e, q + 1, m)
  BY <1>1, <1>2, StepBefore, ZenonT(60)
<1>12. Part(f, s, p) = Append(Part(e, s, m), f[p].command)
  <2>1. /\ Part(e, s, m) \in Seq(Nat) /\ Len(Part(e, s, m)) = m - s + 1
        /\ \A i \in 1 .. m - s + 1 : Part(e, s, m)[i] = e[s + i - 1].command
    <3>1. s <= m + 1 /\ m <= Len(e)
      BY <1>1, <1>5
    <3> HIDE <1>3, <1>4
    <3> QED  BY <1>1, <1>5, <3>1, PartIs
  <2>2. /\ Part(f, s, p) \in Seq(Nat) /\ Len(Part(f, s, p)) = p - s + 1
        /\ \A i \in 1 .. p - s + 1 : Part(f, s, p)[i] = f[s + i - 1].command
    <3>1. s <= p + 1
      BY <1>5
    <3> HIDE <1>3, <1>4
    <3> QED  BY <1>1, <1>5, <3>1, PartIs
  <2>3. f[p].command \in Nat
    <3>1. f[p] \in Entries
      BY <1>1, <1>3
    <3> QED  BY <3>1 DEF Entries
  <2>4. PICK P : P = Part(e, s, m)
    OBVIOUS
  <2>5. PICK n \in Nat : n = m - s + 1
    BY <1>1, <1>5
  <2>6. /\ Append(P, f[p].command) \in Seq(Nat) /\ Len(Append(P, f[p].command)) = n + 1
        /\ Append(P, f[p].command)[n + 1] = f[p].command
        /\ \A i \in 1 .. n : Append(P, f[p].command)[i] = P[i]
    <3>1. P \in Seq(Nat) /\ Len(P) = n
      BY <2>1, <2>4, <2>5
    <3> HIDE <2>4, <2>5
    <3> QED  BY <2>3, <3>1
  <2>7. p - s + 1 = n + 1 /\ s + (n + 1) - 1 = p
    BY <1>1, <1>3, <1>5, <2>5
  <2>8. ASSUME NEW i \in 1 .. n + 1 PROVE Part(f, s, p)[i] = Append(P, f[p].command)[i]
    <3>1. CASE i = n + 1
      <4>1. Part(f, s, p)[n + 1] = f[p].command
        <5>1. n + 1 \in 1 .. p - s + 1
          BY <2>7
        <5> QED  BY <2>2, <2>7, <5>1
      <4> QED  BY <2>6, <3>1, <4>1
    <3>2. CASE i # n + 1
      <4>1. i \in 1 .. n /\ s + i - 1 \in 1 .. m
        BY <1>1, <1>5, <2>5, <3>2
      <4>2. Part(f, s, p)[i] = f[s + i - 1].command
        BY <2>2, <2>7
      <4>3. P[i] = e[s + i - 1].command
        BY <2>1, <2>4, <2>5, <4>1
      <4> QED  BY <1>1, <2>6, <4>1, <4>2, <4>3
    <3> QED  BY <3>1, <3>2
  <2>9. Part(f, s, p) = Append(P, f[p].command)
    <3>1. PICK A : A = Part(f, s, p)
      OBVIOUS
    <3>2. PICK B : B = Append(P, f[p].command)
      OBVIOUS
    <3>3. A \in Seq(Nat) /\ Len(A) = n + 1 /\ B \in Seq(Nat) /\ Len(B) = n + 1
      BY <2>2, <2>6, <2>7, <3>1, <3>2
    <3>4. \A i \in 1 .. n + 1 : A[i] = B[i]
      BY <2>8, <3>1, <3>2
    <3>5. A = B
      <4> HIDE <1>3, <1>4, <2>4, <2>5, <3>1, <3>2
      <4> QED  BY <3>3, <3>4, SeqEqual
    <3> QED  BY <3>1, <3>2, <3>5
  <2> QED  BY <2>4, <2>9
<1> QED  BY <1>1, <1>3, <1>4, <1>8, <1>9, <1>10, <1>11, <1>12 DEF JoinsStep

-----------------------------------------------------------------------------
(* The caretaker is a history of whole steps *)

\* Where a transaction, a replay and an operation stand
Standing ==
  /\ Busy => openId = NoTransaction
  /\ openId # NoTransaction => cursor = Len(log) /\ cursor > 0 /\ log[cursor].step = openStep
  /\ replay.kind = "undo" => /\ cursor > 0 /\ replay.last = StepStart(log, cursor)
                             /\ replay.last <= replay.at /\ replay.at <= cursor
  /\ replay.kind = "redo" => /\ cursor < Len(log) /\ replay.last = StepEnd(log, cursor + 1)
                             /\ cursor + 1 <= replay.at /\ replay.at <= replay.last
  /\ \A o \in Unreported : op[o].command \in Command

\* The steps hold every command of the log
LEMMA MappedSize ==
  ASSUME Shape
  PROVE  /\ History!Size(Steps(1, cursor)) = cursor
         /\ History!Size(Steps(cursor + 1, Len(log))) = Len(log) - cursor
<1>1. PICK o \in Nat \ {0} : o = 1
  OBVIOUS
<1>2. PICK q : q = cursor + 1
  OBVIOUS
<1>3. PICK n : n = Len(log)
  OBVIOUS
<1>4. PICK m : m = cursor
  OBVIOUS
<1>5. m \in Nat /\ n \in Nat /\ q \in Nat \ {0} /\ o <= m + 1 /\ q <= n + 1
      /\ m - o + 1 = cursor /\ n - q + 1 = Len(log) - cursor
  BY <1>1, <1>2, <1>3, <1>4 DEF Shape
<1>6. History!Size(StepsIn(log, o, m)) = m - o + 1
  <2> HIDE <1>1, <1>2, <1>3, <1>4
  <2> QED  BY <1>5, SizeIs
<1>7. History!Size(StepsIn(log, q, n)) = n - q + 1
  <2> HIDE <1>1, <1>2, <1>3, <1>4
  <2> QED  BY <1>5, SizeIs
<1> QED  BY <1>1, <1>2, <1>3, <1>4, <1>5, <1>6, <1>7, Mapped

\* A replay that ends with the commands up to c in force undoes part of a step
LEMMA UndoExit ==
  ASSUME Shape, cursor > 0, NEW c \in Nat, c <= cursor, StepStart(log, cursor) <= c + 1,
         cursor' = c, UNCHANGED log, openId' = NoTransaction
  PROVE  \E k \in 0 .. History!Size(Steps(1, cursor)) : History!Undo(k)
<1>1. PICK m : m = cursor
  OBVIOUS
<1>2. PICK e : e = log
  OBVIOUS
<1>3. e \in Seq(Entries) /\ m \in 1 .. Len(e) /\ m \in Nat /\ c <= m
  BY <1>1, <1>2 DEF Shape
<1>4. PICK q \in Nat : StepStart(e, m) = q + 1 /\ Run(e, q + 1, m) /\ q + 1 <= m /\ ~SplitAt(e, q)
  BY <1>3, StartRun
<1>5. q <= c
  BY <1>1, <1>2, <1>4
<1>6. PICK k \in 0 .. m : Undone(e, m, c, k)
  <2> HIDE <1>1, <1>2
  <2> QED  BY <1>3, <1>4, <1>5, UndoneIs
<1>7. k \in 0 .. History!Size(Steps(1, cursor))
  BY <1>1, MappedSize
<1>8. /\ Steps(1, cursor) = StepsIn(e, 1, m) /\ Steps(cursor + 1, Len(log)) = StepsIn(e, m + 1, Len(e))
      /\ Steps(1, cursor)' = StepsIn(e, 1, c)
      /\ Steps(cursor + 1, Len(log))' = StepsIn(e, c + 1, Len(e))
  BY <1>1, <1>2, Mapped
<1>9. /\ (cursor \in 1 .. (Len(log) - 1) /\ StepOf(cursor) = StepOf(cursor + 1)) = SplitAt(e, m)
      /\ (cursor \in 1 .. (Len(log) - 1) /\ StepOf(cursor) = StepOf(cursor + 1))' = SplitAt(e, c)
  BY <1>1, <1>2 DEF SplitAt, StepOf
<1>10. openId' = History!NoTransaction
  BY DEF NoTransaction, History!NoTransaction
<1>11. History!Undo(k)
  <2> HIDE <1>1, <1>2
  <2> QED  BY <1>6, <1>8, <1>9, <1>10 DEF History!Undo, Undone, First, Rest
<1> QED  BY <1>7, <1>11

\* A replay that ends with the commands up to c in force redoes part of a step
LEMMA RedoExit ==
  ASSUME Shape, cursor < Len(log), NEW c \in Nat, cursor <= c, c <= StepEnd(log, cursor + 1),
         cursor' = c, UNCHANGED log, openId' = NoTransaction
  PROVE  \E k \in 0 .. History!Size(Steps(cursor + 1, Len(log))) : History!Redo(k)
<1>1. PICK m : m = cursor
  OBVIOUS
<1>2. PICK e : e = log
  OBVIOUS
<1>3. e \in Seq(Entries) /\ m \in Nat /\ m < Len(e) /\ m <= c
  BY <1>1, <1>2 DEF Shape
<1>4. PICK z \in Nat : StepEnd(e, m + 1) = z /\ Run(e, m + 1, z) /\ m + 1 <= z /\ ~SplitAt(e, z)
  <2> HIDE <1>1, <1>2
  <2> QED  BY <1>3, EndRun, ZenonT(60)
<1>5. c <= z
  BY <1>1, <1>2, <1>4
<1>6. PICK k \in 0 .. Len(e) - m : Redone(e, m, c, k)
  <2> HIDE <1>1, <1>2
  <2> QED  BY <1>3, <1>4, <1>5, RedoneIs
<1>7. k \in 0 .. History!Size(Steps(cursor + 1, Len(log)))
  BY <1>1, <1>2, MappedSize
<1>8. /\ Steps(1, cursor) = StepsIn(e, 1, m) /\ Steps(cursor + 1, Len(log)) = StepsIn(e, m + 1, Len(e))
      /\ Steps(1, cursor)' = StepsIn(e, 1, c)
      /\ Steps(cursor + 1, Len(log))' = StepsIn(e, c + 1, Len(e))
  BY <1>1, <1>2, Mapped
<1>9. /\ (cursor \in 1 .. (Len(log) - 1) /\ StepOf(cursor) = StepOf(cursor + 1)) = SplitAt(e, m)
      /\ (cursor \in 1 .. (Len(log) - 1) /\ StepOf(cursor) = StepOf(cursor + 1))' = SplitAt(e, c)
  BY <1>1, <1>2 DEF SplitAt, StepOf
<1>10. openId' = History!NoTransaction
  BY DEF NoTransaction, History!NoTransaction
<1>11. History!Redo(k)
  <2> HIDE <1>1, <1>2
  <2> QED  BY <1>6, <1>8, <1>9, <1>10 DEF History!Redo, Redone, First, Rest
<1> QED  BY <1>7, <1>11

\* A report records the command
LEMMA ReportRecords ==
  ASSUME Shape, Standing, NEW c \in Nat, NEW t \in Transaction \cup {NoTransaction}, ~Busy, Report(c, t)
  PROVE  /\ History!Record(c, t)
         /\ openId' = t
         /\ cursor' = Len(log') /\ cursor' > 0 /\ log'[cursor'].step = openStep'
<1> DEFINE joins == t # NoTransaction /\ t = openId
           step == IF joins THEN openStep ELSE stepCount + 1
           kept == Append(Kept(log, cursor), [command |-> c, step |-> step])
<1>1. /\ log' = Trimmed(kept) /\ cursor' = Len(log') /\ openId' = t /\ openStep' = step
  BY DEF Report, CursorAt
<1>2. /\ log \in Seq(Entries) /\ cursor \in 0 .. Len(log) /\ stepCount \in Nat /\ openStep \in Nat
      /\ \A i \in 1 .. Len(log) : log[i].step \in 1 .. stepCount
  BY DEF Shape
<1>3. PICK x : x = [command |-> c, step |-> step]
  OBVIOUS
<1>4. x \in Entries /\ x.command = c /\ x.step = step
  BY <1>2, <1>3 DEF Entries
<1>5. PICK e : e = log
  OBVIOUS
<1>6. PICK m : m = cursor
  OBVIOUS
<1>7. e \in Seq(Entries) /\ m \in 0 .. Len(e) /\ m \in Nat
  BY <1>2, <1>5, <1>6
<1>8. PICK f : f = kept
  OBVIOUS
<1>9. Longer(e, m, f) /\ f[m + 1] = x
  <2>1. f = Append(SubSeq(e, 1, m), x)
    BY <1>3, <1>5, <1>6, <1>8 DEF Kept
  <2>2. /\ SubSeq(e, 1, m) \in Seq(Entries) /\ Len(SubSeq(e, 1, m)) = m
        /\ \A i \in 1 .. m : SubSeq(e, 1, m)[i] = e[i]
    <3> HIDE <1>5, <1>6
    <3> QED  BY <1>7
  <2>3. PICK g : g = SubSeq(e, 1, m)
    OBVIOUS
  <2>4. /\ Append(g, x) \in Seq(Entries) /\ Len(Append(g, x)) = m + 1 /\ Append(g, x)[m + 1] = x
        /\ \A i \in 1 .. m : Append(g, x)[i] = g[i]
    <3>1. g \in Seq(Entries) /\ Len(g) = m
      BY <2>2, <2>3
    <3> HIDE <1>3, <1>5, <1>6, <2>3
    <3> QED  BY <1>4, <1>7, <3>1
  <2> QED  BY <2>1, <2>2, <2>3, <2>4 DEF Longer
<1> HIDE DEF kept
<1>10. f \in Seq(Entries) /\ f # << >> /\ Len(f) = m + 1
  BY <1>7, <1>9 DEF Longer
<1>11. History!Trimmed(StepsIn(f, 1, Len(f))) = StepsIn(Trimmed(f), 1, Len(Trimmed(f)))
  <2> HIDE <1>8
  <2> QED  BY <1>10, TrimIs
<1>12. /\ Len(log') > 0 /\ log'[Len(log')] = x /\ Len(log') \in Nat
  <2>1. PICK n \in Nat : n = m + 1
    BY <1>7
  <2>2. PICK y \in 0 .. n - 1 : Trimmed(f) = SubSeq(f, y + 1, n)
    BY <1>10, <2>1, TrimmedIs
  <2>3. PICK a \in 1 .. n : a = y + 1
    BY <2>1
  <2>4. Len(SubSeq(f, a, n)) = n - a + 1 /\ SubSeq(f, a, n)[n - a + 1] = f[n]
    <3>1. n = Len(f) /\ a + (n - a + 1) - 1 = n
      BY <1>10, <2>1
    <3>2. n - a + 1 \in 1 .. n - a + 1
      BY <2>3
    <3>3. /\ Len(SubSeq(f, a, n)) = n - a + 1
          /\ \A i \in 1 .. n - a + 1 : SubSeq(f, a, n)[i] = f[a + i - 1]
      BY <1>10, <3>1
    <3> QED  BY <3>1, <3>2, <3>3
  <2>5. log' = SubSeq(f, a, n) /\ f[n] = x
    BY <1>1, <1>8, <1>9, <2>1, <2>2, <2>3
  <2> QED  BY <2>4, <2>5
<1>13. ASSUME joins
       PROVE  StepsIn(f, 1, Len(f)) = History!Front(Steps(1, cursor))
                                        \o << Append(History!Last(Steps(1, cursor)), c) >>
  <2>1. e[m].step = x.step /\ m \in 1 .. Len(e)
    BY <1>4, <1>5, <1>6, <1>7, <1>13 DEF Standing
  <2>2. JoinsStep(e, m, f)
    <3> HIDE <1>3, <1>5, <1>6, <1>8
    <3> QED  BY <1>7, <1>9, <2>1, RecordsJoined
  <2> QED  BY <1>4, <1>5, <1>6, <1>9, <2>2, Mapped DEF JoinsStep
<1>14. ASSUME ~joins
       PROVE  StepsIn(f, 1, Len(f)) = Append(Steps(1, cursor), << c >>)
  <2>1. x.step = stepCount + 1
    BY <1>4, <1>14
  <2>2. m = 0 \/ e[m].step # x.step
    BY <1>2, <1>5, <1>6, <1>7, <2>1
  <2>3. StartsStep(e, m, f)
    <3> HIDE <1>3, <1>5, <1>6, <1>8
    <3> QED  BY <1>7, <1>9, <2>2, RecordsNew
  <2> QED  BY <1>4, <1>5, <1>6, <1>9, <2>3, Mapped DEF StartsStep
<1>15. Steps(1, cursor)' = History!Trimmed(StepsIn(f, 1, Len(f)))
  <2>1. Steps(1, cursor)' = StepsIn(log', 1, cursor')
    BY Mapped
  <2> QED  BY <1>1, <1>8, <1>11, <2>1
<1>16. Steps(cursor + 1, Len(log))' = << >>
  <2>1. PICK a \in Nat \ {0} : a = Len(log') + 1
    BY <1>12
  <2>2. StepsIn(log', a, a - 1) = << >>
    <3> HIDE <2>1
    <3> QED  BY StepsNone
  <2>3. a - 1 = Len(log')
    BY <1>12, <2>1
  <2>4. StepsIn(log', cursor' + 1, Len(log')) = << >>
    BY <1>1, <2>1, <2>2, <2>3
  <2> QED  BY <2>4, Mapped
<1>17. (cursor \in 1 .. (Len(log) - 1) /\ StepOf(cursor) = StepOf(cursor + 1))' = FALSE
  BY <1>1, <1>12
<1>18. joins <=> t # History!NoTransaction /\ t = openId
  BY DEF NoTransaction, History!NoTransaction
<1>19. StepsIn(f, 1, Len(f)) =
         IF t # History!NoTransaction /\ t = openId
         THEN History!Front(Steps(1, cursor)) \o << Append(History!Last(Steps(1, cursor)), c) >>
         ELSE Append(Steps(1, cursor), << c >>)
  <2> HIDE DEF joins
  <2> QED  BY <1>13, <1>14, <1>18
<1>20. History!Record(c, t)
  <2> HIDE DEF joins
  <2> QED  BY <1>1, <1>15, <1>16, <1>17, <1>19 DEF History!Record
<1>21. log'[cursor'].step = openStep'
  BY <1>1, <1>4, <1>12
<1> QED  BY <1>1, <1>12, <1>20, <1>21

\* Nothing of the history changes
LEMMA HistoryStutters ==
  ASSUME UNCHANGED <<log, cursor, openId>>
  PROVE  UNCHANGED History!hvars
<1>1. Steps(1, cursor)' = Steps(1, cursor)
  BY Mapped
<1>2. Steps(cursor + 1, Len(log))' = Steps(cursor + 1, Len(log))
  BY Mapped
<1>3. (cursor \in 1 .. (Len(log) - 1) /\ StepOf(cursor) = StepOf(cursor + 1))'
        = (cursor \in 1 .. (Len(log) - 1) /\ StepOf(cursor) = StepOf(cursor + 1))
  BY DEF StepOf
<1> QED  BY <1>1, <1>2, <1>3 DEF History!hvars

\* A replay begins
LEMMA HistoryCloses ==
  ASSUME UNCHANGED <<log, cursor>>, openId' = NoTransaction
  PROVE  History!Close
<1>1. Steps(1, cursor)' = Steps(1, cursor)
  BY Mapped
<1>2. Steps(cursor + 1, Len(log))' = Steps(cursor + 1, Len(log))
  BY Mapped
<1>3. (cursor \in 1 .. (Len(log) - 1) /\ StepOf(cursor) = StepOf(cursor + 1))'
        = (cursor \in 1 .. (Len(log) - 1) /\ StepOf(cursor) = StepOf(cursor + 1))
  BY DEF StepOf
<1> QED  BY <1>1, <1>2, <1>3 DEF History!Close, NoTransaction, History!NoTransaction

\* An empty log is an empty history
LEMMA NoSteps ==
  ASSUME NEW a \in Nat \ {0}, a = 1
  PROVE  StepsIn(<< >>, 1, 0) = << >> /\ StepsIn(<< >>, 0 + 1, Len(<< >>)) = << >>
<1>1. PICK e : e = << >>
  OBVIOUS
<1>2. StepsIn(e, a, a - 1) = << >>
  BY StepsNone, ZenonT(60)
<1>3. a - 1 = 0 /\ Len(e) = 0 /\ 0 + 1 = a
  BY <1>1
<1> QED  BY <1>1, <1>2, <1>3

\* Another document is loaded
LEMMA HistoryClears ==
  ASSUME log' = << >>, cursor' = 0, openId' = NoTransaction
  PROVE  History!Clear
<1>1. StepsIn(<< >>, 1, 0) = << >> /\ StepsIn(<< >>, 0 + 1, Len(<< >>)) = << >>
  <2>1. PICK a \in Nat \ {0} : a = 1
    OBVIOUS
  <2> QED  BY <2>1, NoSteps
<1>2. Steps(1, cursor)' = << >> /\ Steps(cursor + 1, Len(log))' = << >>
  BY <1>1, Mapped
<1>3. (cursor \in 1 .. (Len(log) - 1) /\ StepOf(cursor) = StepOf(cursor + 1))' = FALSE
  OBVIOUS
<1> QED  BY <1>2, <1>3 DEF History!Clear, NoTransaction, History!NoTransaction

\* Both begin together
LEMMA HistoryStarts ==
  ASSUME Init
  PROVE  History!Init /\ Standing
<1>1. /\ log = << >> /\ cursor = 0 /\ openId = NoTransaction /\ replay = Idle
      /\ op = [o \in Operation |-> NoOp]
  BY DEF Init
<1>2. StepsIn(<< >>, 1, 0) = << >> /\ StepsIn(<< >>, 0 + 1, Len(<< >>)) = << >>
  <2>1. PICK a \in Nat \ {0} : a = 1
    OBVIOUS
  <2> QED  BY <2>1, NoSteps
<1>3. Steps(1, cursor) = << >> /\ Steps(cursor + 1, Len(log)) = << >>
  BY <1>1, <1>2, Mapped
<1>4. (cursor \in 1 .. (Len(log) - 1) /\ StepOf(cursor) = StepOf(cursor + 1)) = FALSE
  BY <1>1
<1>5. History!Init
  BY <1>1, <1>3, <1>4 DEF History!Init, NoTransaction, History!NoTransaction
<1>6. Standing
  BY <1>1 DEF Standing, Busy, Idle, NoOp, Unreported
<1> QED  BY <1>5, <1>6

\* A report in a turn of its own, or one that a replay turns away
LEMMA ReportStep ==
  ASSUME Shape, Standing, NEW c \in Command, NEW t \in Transaction \cup {NoTransaction},
         Report(c, t), UNCHANGED replay, \A o \in Unreported' : o \in Unreported /\ op'[o] = op[o]
  PROVE  [History!Next]_(History!hvars) /\ Standing'
<1>1. c \in Nat
  BY UndoCaretakerAssumption DEF Command
<1>2. CASE Busy
  <2>1. UNCHANGED <<log, cursor, openId, openStep>>
    BY <1>2 DEF Report, caretaker
  <2>2. UNCHANGED History!hvars
    BY <2>1, HistoryStutters
  <2>3. Standing'
    BY <2>1 DEF Standing, Busy
  <2> QED  BY <2>2, <2>3
<1>3. CASE ~Busy
  <2>1. /\ History!Record(c, t)
        /\ openId' = t
        /\ cursor' = Len(log') /\ cursor' > 0 /\ log'[cursor'].step = openStep'
    BY <1>1, <1>3, ReportRecords
  <2>2. t \in History!Id
    BY DEF History!Id, NoTransaction, History!NoTransaction
  <2>3. History!Next
    BY <2>1, <2>2 DEF History!Next
  <2>4. replay' = Idle
    BY <1>3 DEF Busy
  <2>5. Standing'
    BY <2>1, <2>4 DEF Standing, Busy, Idle
  <2> QED  BY <2>3, <2>5
<1> QED  BY <1>2, <1>3

\* A replay ends
LEMMA ExitStep ==
  ASSUME Shape, Standing, NEW c, NEW failed \in BOOLEAN, Exit(c, failed), Busy,
         UNCHANGED <<log, openId, openStep>>,
         \/ /\ replay.kind = "undo" /\ c \in Nat
            /\ replay.last <= c + 1 /\ c <= replay.at
         \/ /\ replay.kind = "redo" /\ c \in Nat
            /\ replay.at - 1 <= c /\ c <= replay.last
  PROVE  [History!Next]_(History!hvars) /\ Standing'
<1>1. /\ cursor' = c /\ replay' = Idle /\ openId' = NoTransaction
      /\ \A o \in Unreported' : o \in Unreported /\ op'[o] = op[o]
  <2>1. /\ cursor' = c /\ replay' = Idle
        /\ \A o \in Operation : op'[o].phase = "done" => op'[o] = op[o]
    BY ReleasedIs
  <2> QED  BY <2>1 DEF Standing, Unreported
<1>2. cursor \in Nat /\ Len(log) \in Nat /\ replay \in Replays
  BY DEF Shape, Busy
<1>3. Standing'
  BY <1>1 DEF Standing, Busy, Idle
<1>4. CASE replay.kind = "undo"
  <2>1. cursor > 0 /\ c <= cursor /\ StepStart(log, cursor) <= c + 1 /\ c \in Nat
    <3>1. replay.at \in Nat
      BY <1>2 DEF Replays
    <3> QED  BY <1>2, <1>4, <3>1 DEF Standing
  <2>2. \E k \in 0 .. History!Size(Steps(1, cursor)) : History!Undo(k)
    BY <1>1, <2>1, UndoExit
  <2> QED  BY <1>3, <2>2 DEF History!Next
<1>5. CASE replay.kind = "redo"
  <2>1. cursor < Len(log) /\ cursor <= c /\ c <= StepEnd(log, cursor + 1) /\ c \in Nat
    <3>1. replay.at \in Nat /\ replay.kind # "undo"
      BY <1>2, <1>5 DEF Replays
    <3> QED  BY <1>2, <1>5, <3>1 DEF Standing
  <2>2. \E k \in 0 .. History!Size(Steps(cursor + 1, Len(log))) : History!Redo(k)
    BY <1>1, <2>1, RedoExit
  <2> QED  BY <1>3, <2>2 DEF History!Next
<1> QED  BY <1>4, <1>5

\* The turns of the surface are turns of the history
LEMMA SurfaceStep ==
  ASSUME Shape, Standing,
         \/ \E t \in Transaction \cup {NoTransaction} : Gesture(t)
         \/ \E o \in Operation : StartOperation(o) \/ Operate(o) \/ ReportOperation(o) \/ ReadFails(o)
         \/ Reset
  PROVE  [History!Next]_(History!hvars) /\ Standing'
<1>0. /\ op \in [Operation -> Operations]
      /\ \A x : \A o \in Operation : op' = [op EXCEPT ![o] = x] =>
           \A p \in Operation : op'[p] = IF p = o THEN x ELSE op[p]
  BY DEF Shape
<1>1. CASE \E t \in Transaction \cup {NoTransaction} : Gesture(t)
  <2>1. PICK t \in Transaction \cup {NoTransaction} : Gesture(t)
    BY <1>1
  <2>2. New \in Command /\ Report(New, t) /\ UNCHANGED replay /\ op' = op
    BY <2>1 DEF Gesture
  <2>3. \A o \in Unreported' : o \in Unreported /\ op'[o] = op[o]
    BY <2>2 DEF Unreported
  <2> QED  BY <2>2, <2>3, ReportStep
<1>2. ASSUME UNCHANGED <<log, cursor, openId, openStep, replay>>,
             \A o \in Unreported' : op'[o].command \in Command
      PROVE  [History!Next]_(History!hvars) /\ Standing'
  <2>1. Standing'
    BY <1>2 DEF Standing, Busy
  <2> QED  BY <1>2, <2>1, HistoryStutters
<1>3. CASE \E o \in Operation : StartOperation(o) \/ Operate(o) \/ ReadFails(o)
  <2>1. PICK o \in Operation : StartOperation(o) \/ Operate(o) \/ ReadFails(o)
    BY <1>3
  <2>2. UNCHANGED <<log, cursor, openId, openStep, replay>>
    BY <2>1 DEF StartOperation, Operate, ReadFails, caretaker
  <2>3. PICK x : op' = [op EXCEPT ![o] = x] /\ (x.phase = "done" => x.command \in Command)
    <3>1. CASE StartOperation(o)
      <4>1. PICK y : y = [phase |-> IF Busy THEN "waiting" ELSE "running"]
        OBVIOUS
      <4>2. y.phase # "done" /\ op' = [op EXCEPT ![o] = y]
        BY <3>1, <4>1 DEF StartOperation
      <4> QED  BY <4>2
    <3>2. CASE Operate(o)
      BY <3>2 DEF Operate, NoOp
    <3>3. CASE ReadFails(o)
      <4>1. NoOp.phase # "done" /\ op' = [op EXCEPT ![o] = NoOp]
        BY <3>3 DEF ReadFails, NoOp
      <4> QED  BY <4>1
    <3> QED  BY <2>1, <3>1, <3>2, <3>3
  <2>4. \A p \in Operation : op'[p] = IF p = o THEN x ELSE op[p]
    BY <1>0, <2>3
  <2>5. \A p \in Unreported' : op'[p].command \in Command
    BY <2>3, <2>4 DEF Unreported, Standing
  <2> QED  BY <1>2, <2>2, <2>5
<1>4. CASE \E o \in Operation : ReportOperation(o)
  <2>1. PICK o \in Operation : ReportOperation(o)
    BY <1>4
  <2>2. /\ op[o].command \in Command /\ Report(op[o].command, NoTransaction)
        /\ UNCHANGED replay /\ op' = [op EXCEPT ![o] = NoOp]
    BY <2>1 DEF ReportOperation, Standing
  <2>3. \A p \in Unreported' : p \in Unreported /\ op'[p] = op[p]
    <3>1. \A p \in Operation : op'[p] = IF p = o THEN NoOp ELSE op[p]
      BY <1>0, <2>2
    <3> QED  BY <3>1 DEF Unreported, NoOp
  <2>4. PICK c \in Command : c = op[o].command
    BY <2>2
  <2>5. PICK t \in Transaction \cup {NoTransaction} : t = NoTransaction
    OBVIOUS
  <2>6. Report(c, t)
    BY <2>2, <2>4, <2>5
  <2> HIDE <2>4, <2>5
  <2> QED  BY <2>2, <2>3, <2>6, ReportStep
<1>5. CASE Reset
  <2>1. /\ log' = << >> /\ cursor' = 0 /\ openId' = NoTransaction
        /\ replay' = Idle /\ op' = op
    BY <1>5 DEF Reset, Busy
  <2>2. History!Clear
    BY <2>1, HistoryClears
  <2>3. Standing'
    BY <2>1 DEF Standing, Busy, Idle, Unreported
  <2> QED  BY <2>2, <2>3 DEF History!Next
<1> QED  BY <1>1, <1>3, <1>4, <1>5

\* The turns of a replay are turns of the history, most of them none
LEMMA ReplayStep ==
  ASSUME Shape, Standing, StartUndo \/ StartRedo \/ ReplayOne \/ ReplayFails \/ ReplayHangs
  PROVE  [History!Next]_(History!hvars) /\ Standing'
<1>0. /\ log \in Seq(Entries) /\ Len(log) \in Nat /\ cursor \in 0 .. Len(log) /\ cursor \in Nat
  BY DEF Shape
<1>1. CASE StartUndo
  <2>1. /\ UNCHANGED <<log, cursor, op>> /\ openId' = NoTransaction /\ cursor > 0
        /\ replay' = [kind |-> "undo", at |-> cursor, last |-> StepStart(log, cursor)]
    BY <1>1 DEF StartUndo
  <2>2. StepStart(log, cursor) <= cursor
    <3>1. cursor \in 1 .. Len(log)
      BY <1>0, <2>1
    <3>2. StepStart(log, cursor) \in 1 .. cursor
      BY <1>0, <3>1, StepStartIs
    <3> QED  BY <3>2
  <2>3. Standing'
    BY <1>0, <2>1, <2>2 DEF Standing, Unreported
  <2> QED  BY <2>1, <2>3, HistoryCloses DEF History!Next
<1>2. CASE StartRedo
  <2>1. /\ UNCHANGED <<log, cursor, op>> /\ openId' = NoTransaction /\ cursor < Len(log)
        /\ replay' = [kind |-> "redo", at |-> cursor + 1, last |-> StepEnd(log, cursor + 1)]
    BY <1>2 DEF StartRedo
  <2>2. cursor + 1 <= StepEnd(log, cursor + 1)
    <3>1. cursor + 1 \in 1 .. Len(log)
      BY <1>0, <2>1
    <3>2. StepEnd(log, cursor + 1) \in cursor + 1 .. Len(log)
      BY <1>0, <3>1, StepEndIs
    <3> QED  BY <3>2
  <2>3. Standing'
    BY <1>0, <2>1, <2>2 DEF Standing, Unreported
  <2> QED  BY <2>1, <2>3, HistoryCloses DEF History!Next
<1>3. ASSUME Busy
      PROVE  /\ replay \in Replays /\ replay.at \in Nat /\ replay.last \in Nat /\ replay.at >= 1
             /\ replay.last >= 1 /\ replay.kind \in {"undo", "redo"}
             /\ replay.kind = "undo" => replay.last <= replay.at
             /\ replay.kind = "redo" => replay.at <= replay.last
  <2>1. replay \in Replays
    BY <1>3 DEF Shape, Busy
  <2> QED  BY <2>1 DEF Replays, Shape
<1>4. CASE ReplayOne
  <2>1. Busy /\ UNCHANGED <<log, openId, openStep>>
    BY <1>4 DEF ReplayOne
  <2>2. \/ replay.kind = "undo" /\ replay.at = replay.last /\ Exit(replay.at - 1, FALSE)
        \/ replay.kind = "redo" /\ replay.at = replay.last /\ Exit(replay.at, FALSE)
        \/ /\ replay.kind = "undo" /\ replay.at > replay.last /\ UNCHANGED <<cursor, op>>
           /\ replay' = [replay EXCEPT !.at = @ - 1]
        \/ /\ replay.kind = "redo" /\ replay.at < replay.last /\ UNCHANGED <<cursor, op>>
           /\ replay' = [replay EXCEPT !.at = @ + 1]
    BY <1>4 DEF ReplayOne
  <2>3. CASE replay.kind = "undo" /\ replay.at = replay.last /\ Exit(replay.at - 1, FALSE)
    <3>1. PICK c : c = replay.at - 1
      OBVIOUS
    <3>2. c \in Nat /\ replay.last <= c + 1 /\ c <= replay.at
      <4>1. replay.at = replay.last
        BY <2>3
      <4> QED  BY <1>3, <2>1, <3>1, <4>1
    <3>3. Exit(c, FALSE)
      BY <2>3, <3>1, ZenonT(60)
    <3> HIDE <3>1
    <3> QED  BY <2>1, <2>3, <3>2, <3>3, ExitStep
  <2>4. CASE replay.kind = "redo" /\ replay.at = replay.last /\ Exit(replay.at, FALSE)
    <3>1. PICK c : c = replay.at
      OBVIOUS
    <3>2. c \in Nat /\ replay.at - 1 <= c /\ c <= replay.last
      <4>1. replay.at = replay.last
        BY <2>4
      <4> QED  BY <1>3, <2>1, <3>1, <4>1
    <3>3. Exit(c, FALSE)
      BY <2>4, <3>1, ZenonT(60)
    <3> HIDE <3>1
    <3> QED  BY <2>1, <2>4, <3>2, <3>3, ExitStep
  <2>5. CASE /\ replay.kind = "undo" /\ replay.at > replay.last /\ UNCHANGED <<cursor, op>>
             /\ replay' = [replay EXCEPT !.at = @ - 1]
    <3>1. /\ replay'.kind = "undo" /\ replay'.at = replay.at - 1 /\ replay'.last = replay.last
      BY <1>3, <2>1, <2>5 DEF Replays
    <3>2. Standing'
      BY <1>0, <1>3, <2>1, <2>5, <3>1 DEF Standing, Busy, Unreported
    <3> QED  BY <2>1, <2>5, <3>2, HistoryStutters
  <2>6. CASE /\ replay.kind = "redo" /\ replay.at < replay.last /\ UNCHANGED <<cursor, op>>
             /\ replay' = [replay EXCEPT !.at = @ + 1]
    <3>1. /\ replay'.kind = "redo" /\ replay'.at = replay.at + 1 /\ replay'.last = replay.last
      BY <1>3, <2>1, <2>6 DEF Replays
    <3>2. Standing'
      BY <1>0, <1>3, <2>1, <2>6, <3>1 DEF Standing, Busy, Unreported
    <3> QED  BY <2>1, <2>6, <3>2, HistoryStutters
  <2> QED  BY <2>2, <2>3, <2>4, <2>5, <2>6
<1>5. CASE ReplayFails
  <2>1. Busy /\ UNCHANGED <<log, openId, openStep>>
    BY <1>5 DEF ReplayFails
  <2>2. PICK c : c = IF replay.kind = "undo" THEN replay.at ELSE replay.at - 1
    OBVIOUS
  <2>3. Exit(c, TRUE)
    BY <1>5, <2>2 DEF ReplayFails
  <2>4. c \in Nat /\ \/ replay.kind = "undo" /\ replay.last <= c + 1 /\ c <= replay.at
                     \/ replay.kind = "redo" /\ replay.at - 1 <= c /\ c <= replay.last
    BY <1>3, <2>1, <2>2
  <2> HIDE <2>2
  <2> QED  BY <2>1, <2>3, <2>4, ExitStep
<1>6. CASE ReplayHangs
  <2>1. UNCHANGED <<log, cursor, openId, openStep, replay, op>>
    BY <1>6 DEF ReplayHangs, caretaker
  <2>2. Standing'
    BY <2>1 DEF Standing, Busy, Unreported
  <2> QED  BY <2>1, <2>2, HistoryStutters
<1> QED  BY <1>1, <1>2, <1>4, <1>5, <1>6

\* Every turn is
LEMMA HistoryStep ==
  ASSUME Shape, Standing, [Next]_vars
  PROVE  [History!Next]_(History!hvars) /\ Standing'
<1>1. CASE UNCHANGED vars
  <2>1. UNCHANGED <<log, cursor, openId, openStep, replay, op>>
    BY <1>1 DEF vars, caretaker
  <2>2. Standing'
    BY <2>1 DEF Standing, Busy, Unreported
  <2> QED  BY <2>1, <2>2, HistoryStutters
<1>2. CASE Next
  BY <1>2, SurfaceStep, ReplayStep DEF Next
<1> QED  BY <1>1, <1>2

\* Whatever is reported, undone, redone and failed, for any cap and any
\* transactions, and also when replays, gestures and operations overlap, the
\* log and its cursor are a history of whole steps: a step is undone and
\* redone whole, and split only at a command that fails, and the cap drops
\* whole steps (record, undo, redo and trim of the caretaker).
THEOREM StaysWhole == Spec => WholeSteps
<1>1. Init => Shape /\ Standing /\ History!Init
  BY ShapeInit, HistoryStarts
<1>2. Shape /\ Standing /\ [Next]_vars => (Shape /\ Standing)' /\ [History!Next]_(History!hvars)
  BY ShapeStep, HistoryStep
<1> QED  BY <1>1, <1>2, PTL DEF Spec, WholeSteps, History!Spec
=============================================================================
