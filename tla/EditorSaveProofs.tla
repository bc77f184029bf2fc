-------------------------- MODULE EditorSaveProofs --------------------------
(***************************************************************************)
(* The window's state keeps its shape with any number of panes.  With one  *)
(* pane, whatever the author, the server and others do, unsaved text is    *)
(* always somebody's errand, and it waits no longer than the ceiling.  The *)
(* saves of a pane never conflict with one another.  And no edit is lost,  *)
(* of the author or of anybody else, once no check is stale when used.     *)
(***************************************************************************)
EXTENDS EditorSave, SequenceTheorems, TLAPS

Ticks(n) == {Off} \cup 0..n
PaneRec ==
    [draft : Text, base : Text, rev : Text, dirty : BOOLEAN, saving : BOOLEAN,
     idle : Ticks(IdleWait), ceiling : Ticks(MaxWait), open : BOOLEAN]

Call == [by : {"auto", "flush", "close", "force", "forceclose"}, slot : {0}]
          \cup [by : {"merge"}, slot : Slot]

Put == {None} \cup
    [phase : {"sent", "checked", "written", "ok", "conflict", "refused", "failed"},
     text : Text, rev : Text, forced : BOOLEAN]

Errand == {"auto", "close"}
Ladder == {NoLadder} \cup [stage : {"fetch", "save"}, kind : {"none"} \cup Errand]
    \cup [stage : {"merge"}, kind : {"none"} \cup Errand, remote : Text, base : Text,
          local : Text, fields : Text]

Fetch == {None} \cup [phase : {"reload"}] \cup [phase : {"rename"}, title : Mark]

Dialog == {NoDialog} \cup [kind : {"none"} \cup Errand, pane : Pane]

Story ==
    [want : Text, undone : Text, lost : Text, theirs : Text, told : BOOLEAN,
     excuse : BOOLEAN, outside : Text, fails : Nat, waited : Nat]

Shapes ==
    /\ disk \in [Pane -> Text]
    /\ pane \in [Pane -> PaneRec]
    /\ chain \in [Pane -> Seq(Call)]
    /\ put \in [Pane -> Put]
    /\ ladder \in [Pane -> [Slot -> Ladder]]
    /\ fetch \in [Pane -> Fetch]
    /\ modal \in Dialog
    /\ confirm \in Dialog
    /\ story \in [Pane -> Story]

\* Only an open pane is being saved, and the idle timer runs within a run of
\* the ceiling timer.
Sound(q) == /\ ~q.open => ~q.saving
            /\ q.idle # Off => q.ceiling # Off

\* A request is that of the first save in the chain, and a pane that says it
\* is saving has one on its way.
Running(p) == /\ put[p] # None => chain[p] # << >>
              /\ pane[p].saving => put[p] # None

TypeInv == Shapes /\ \A p \in Pane : Sound(pane[p]) /\ Running(p)

-----------------------------------------------------------------------------
(* The operators on one pane and on one text                               *)

LEMMA NoneIsNoRequest ==
    /\ None.phase = "none" /\ NoLadder.stage = "none" /\ NoLadder.kind = "none"
    /\ NoDialog.kind = "none"
BY DEF None, NoLadder, NoDialog

LEMMA SetIsText ==
    ASSUME NEW t \in Text, NEW m \in Mark
    PROVE  Set(t, m) \in Text
BY DEF Set, Text

LEMMA MergeIsText ==
    ASSUME NEW a \in Text, NEW b \in Text, NEW c \in Text
    PROVE  Merge(a, b, c) \in Text
BY DEF Merge, Text

LEMMA PartsAreText ==
    ASSUME NEW t \in Text
    PROVE  Fields(t) \in Text /\ Prose(t) \in Text
BY DEF Fields, Prose, Text

LEMMA WaitsAreTicks ==
    /\ IdleWait \in Ticks(IdleWait) /\ MaxWait \in Ticks(MaxWait)
    /\ Off \in Ticks(IdleWait) /\ Off \in Ticks(MaxWait)
    /\ IdleWait # Off /\ MaxWait # Off
BY EditorSaveAssumption DEF Ticks, Off

LEMMA CancelledPane ==
    ASSUME NEW q \in PaneRec
    PROVE  LET r == Cancelled(q) IN
           /\ r \in PaneRec
           /\ r.idle = Off /\ r.ceiling = Off
           /\ r.draft = q.draft /\ r.base = q.base /\ r.rev = q.rev
           /\ r.dirty = q.dirty /\ r.saving = q.saving /\ r.open = q.open
BY WaitsAreTicks DEF Cancelled, PaneRec

LEMMA ScheduledPane ==
    ASSUME NEW q \in PaneRec
    PROVE  LET r == Scheduled(q) IN
           /\ r \in PaneRec
           /\ r.idle # Off => r.ceiling # Off
           /\ ShouldSave(q) => r.ceiling # Off
           /\ q.ceiling # Off => r.ceiling \in {Off, q.ceiling}
           /\ r.dirty = q.dirty /\ r.saving = q.saving /\ r.open = q.open
<1>1. CASE ShouldSave(q)
    BY <1>1, WaitsAreTicks DEF Scheduled, PaneRec
<1>2. CASE ~ShouldSave(q)
    BY <1>2, CancelledPane DEF Scheduled
<1> QED  BY <1>1, <1>2

LEMMA RetryPane ==
    ASSUME NEW q \in PaneRec
    PROVE  LET r == RetryScheduled(q) IN
           /\ r \in PaneRec
           /\ r.idle = Off
           /\ ShouldSave(q) => r.ceiling # Off
           /\ r.dirty = q.dirty /\ r.saving = q.saving /\ r.open = q.open
<1>1. CASE ShouldSave(q)
    BY <1>1, WaitsAreTicks DEF RetryScheduled, Cancelled, PaneRec
<1>2. CASE ~ShouldSave(q)
    BY <1>2, CancelledPane DEF RetryScheduled
<1> QED  BY <1>1, <1>2

LEMMA TornDownPane ==
    ASSUME NEW q \in PaneRec
    PROVE  LET r == TornDown(q) IN
           r \in PaneRec /\ Sound(r) /\ ~r.open /\ ~r.dirty /\ ~r.saving
BY WaitsAreTicks DEF TornDown, Cancelled, PaneRec, Sound

LEMMA AdoptedPane ==
    ASSUME NEW q \in PaneRec, NEW t \in Text
    PROVE  LET r == Adopted(q, t) IN
           /\ r \in PaneRec /\ ~r.saving
           /\ r.idle = q.idle /\ r.ceiling = q.ceiling /\ r.open = q.open
BY DEF Adopted, PaneRec

LEMMA PatchedPane ==
    ASSUME NEW q \in PaneRec, NEW t \in Text, NEW u \in Text
    PROVE  LET r == Patched(q, t, u) IN
           /\ r \in PaneRec /\ r.idle = Off /\ r.ceiling = Off
           /\ r.saving = q.saving /\ r.open = q.open
BY WaitsAreTicks DEF Patched, Cancelled, PaneRec

-----------------------------------------------------------------------------
(* Every step keeps the shapes                                             *)

LEMMA NewPane ==
    ASSUME Shapes, NEW p \in Pane, NEW r \in PaneRec, pane' = [pane EXCEPT ![p] = r]
    PROVE  /\ pane' \in [Pane -> PaneRec] /\ pane'[p] = r
           /\ \A x \in Pane : x # p => pane'[x] = pane[x]
BY DEF Shapes

LEMMA NewCall ==
    ASSUME Shapes, NEW p \in Pane, NEW c \in Call, Asks(p, c)
    PROVE  /\ chain' \in [Pane -> Seq(Call)] /\ chain'[p] # << >>
           /\ \A x \in Pane : x # p => chain'[x] = chain[x]
<1>1. chain[p] \in Seq(Call)
    BY DEF Shapes
<1>2. Append(chain[p], c) \in Seq(Call) /\ Append(chain[p], c) # << >>
    BY <1>1
<1> QED  BY <1>2 DEF Asks, Shapes

LEMMA CallersAreCalls ==
    \A by \in {"auto", "flush", "close", "force", "forceclose"} : Caller(by) \in Call
BY DEF Caller, Call

LEMMA SoundTogether ==
    ASSUME TypeInv, NEW p \in Pane, Shapes',
           \A x \in Pane : x # p =>
               pane'[x] = pane[x] /\ chain'[x] = chain[x] /\ put'[x] = put[x],
           Sound(pane'[p]), Running(p)'
    PROVE  TypeInv'
BY DEF TypeInv, Running, Sound

LEMMA NewStory ==
    ASSUME Shapes, NEW p \in Pane, NEW s \in Story, story' = [story EXCEPT ![p] = s]
    PROVE  story' \in [Pane -> Story]
BY DEF Shapes

LEMMA ToldStory ==
    ASSUME Shapes, NEW p \in Pane, story' = Told(p)
    PROVE  story' \in [Pane -> Story] /\ story'[p].told
BY DEF Told, Shapes, Story

LEMMA InitSound == Init => TypeInv
<1> SUFFICES ASSUME Init PROVE TypeInv
    OBVIOUS
<1>1. {} \in Text
    BY DEF Text
<1>2. pane \in [Pane -> PaneRec]
    BY <1>1, WaitsAreTicks DEF Init, PaneRec
<1>3. story \in [Pane -> Story]
    BY <1>1 DEF Init, Story
<1>4. disk \in [Pane -> Text] /\ chain \in [Pane -> Seq(Call)] /\ put \in [Pane -> Put]
    BY <1>1 DEF Init, Put
<1>5. ladder \in [Pane -> [Slot -> Ladder]] /\ fetch \in [Pane -> Fetch]
    BY DEF Init, Ladder, Fetch
<1>6. modal \in Dialog /\ confirm \in Dialog
    BY DEF Init, Dialog
<1>7. \A p \in Pane : Sound(pane[p]) /\ Running(p)
    BY DEF Init, Sound, Running
<1> QED  BY <1>2, <1>3, <1>4, <1>5, <1>6, <1>7 DEF TypeInv, Shapes

LEMMA TypeKeeps ==
    ASSUME TypeInv, NEW p \in Pane, NEW m \in OwnMark, Type(p, m)
    PROVE  TypeInv'
<1> DEFINE q == pane[p]
           text == IF m \notin q.draft THEN Set(q.draft, m) ELSE q.draft \ {m}
           typed == [q EXCEPT !.draft = text, !.dirty = text # q.base]
<1>1. q \in PaneRec /\ story[p] \in Story /\ m \in Mark
    BY DEF TypeInv, Shapes, Mark
<1>2. text \in Text
    BY <1>1, SetIsText DEF PaneRec, Text
<1>3. typed \in PaneRec /\ typed.saving = q.saving /\ typed.open = q.open
    BY <1>1, <1>2 DEF PaneRec
<1>4. pane' = [pane EXCEPT ![p] = Scheduled(typed)]
    BY DEF Type
<1>5. pane' \in [Pane -> PaneRec] /\ pane'[p] = Scheduled(typed)
      /\ \A x \in Pane : x # p => pane'[x] = pane[x]
    <2>1. Scheduled(typed) \in PaneRec
        BY <1>3, ScheduledPane
    <2> HIDE DEF typed
    <2> QED  BY <2>1, <1>4, NewPane DEF TypeInv
<1>6. Sound(pane'[p]) /\ pane'[p].saving = q.saving
    <2>1. Sound(q)
        BY DEF TypeInv
    <2> HIDE DEF typed
    <2> QED  BY <1>3, <1>5, <2>1, ScheduledPane DEF Sound
<1>7. story' \in [Pane -> Story]
    <2>1. story[p].want \in Text /\ story[p].undone \in Text /\ story[p].theirs \in Text
        BY <1>1 DEF Story
    <2>2. Set(story[p].want, m) \in Text
        BY <1>1, <2>1, SetIsText
    <2>3. (story[p].undone \cup (RivalsOf(m) \cap OwnMark)) \ {m} \in Text
        BY <2>1 DEF Text, Mark
    <2>4. \E w \in Text, u \in Text, t \in Text, n \in Nat :
             story' = [story EXCEPT ![p] =
                 [story[p] EXCEPT !.want = w, !.undone = u, !.theirs = t, !.told = FALSE, !.waited = n]]
        <3> DEFINE adds == m \notin q.draft
                   stale == /\ RivalsOf(m) \cap disk[p] # {}
                            /\ m \in q.base \/ (put[p] # None /\ m \in put[p].text)
                   w == IF ~adds \/ stale THEN story[p].want \ ({m} \cup RivalsOf(m))
                        ELSE Set(story[p].want, m)
                   u == IF adds THEN (story[p].undone \cup (RivalsOf(m) \cap OwnMark)) \ {m}
                        ELSE story[p].undone \cup {m}
                   t == IF adds THEN story[p].theirs \ (RivalsOf(m) \cap q.draft)
                        ELSE story[p].theirs
                   n == IF q.dirty /\ ~story[p].told THEN story[p].waited ELSE 0
        <3>1. w \in Text /\ u \in Text /\ t \in Text /\ n \in Nat
            BY <1>1, <2>1, <2>2, <2>3 DEF Text, Story
        <3>2. story' = [story EXCEPT ![p] =
                 [story[p] EXCEPT !.want = w, !.undone = u, !.theirs = t, !.told = FALSE, !.waited = n]]
            BY DEF Type
        <3> QED  BY <3>1, <3>2
    <2>5. PICK w \in Text, u \in Text, t \in Text, n \in Nat :
             story' = [story EXCEPT ![p] =
                 [story[p] EXCEPT !.want = w, !.undone = u, !.theirs = t, !.told = FALSE, !.waited = n]]
        BY <2>4
    <2>6. [story[p] EXCEPT !.want = w, !.undone = u, !.theirs = t, !.told = FALSE, !.waited = n] \in Story
        BY <1>1 DEF Story
    <2> QED  BY <2>5, <2>6, NewStory DEF TypeInv
<1>8. Shapes'
    BY <1>5, <1>7 DEF Type, TypeInv, Shapes
<1> QED
    BY <1>5, <1>6, <1>8, SoundTogether DEF Type, TypeInv, Running

LEMMA FireKeeps ==
    ASSUME TypeInv, NEW p \in Pane,
           Fire(p) \/ \E by \in {"auto", "flush"} : Flush(p, by)
    PROVE  TypeInv'
<1>1. pane[p] \in PaneRec /\ pane' = [pane EXCEPT ![p] = Cancelled(pane[p])]
    BY DEF TypeInv, Shapes, Fire, Flush
<1>2. pane' \in [Pane -> PaneRec] /\ pane'[p] = Cancelled(pane[p])
      /\ \A x \in Pane : x # p => pane'[x] = pane[x]
    BY <1>1, CancelledPane, NewPane DEF TypeInv
<1>3. /\ chain' \in [Pane -> Seq(Call)] /\ (chain'[p] # << >> \/ chain' = chain)
      /\ \A x \in Pane : x # p => chain'[x] = chain[x]
    BY CallersAreCalls, NewCall DEF Fire, Flush, TypeInv, Shapes
<1>4. Sound(pane'[p]) /\ pane'[p].saving = pane[p].saving
    BY <1>1, <1>2, CancelledPane DEF TypeInv, Sound
<1>5. Shapes' /\ put' = put
    BY <1>2, <1>3 DEF Fire, Flush, TypeInv, Shapes
<1> QED  BY <1>2, <1>3, <1>4, <1>5, SoundTogether DEF TypeInv, Running

LEMMA CloseKeeps ==
    ASSUME TypeInv, NEW p \in Pane, Close(p)
    PROVE  TypeInv'
<1>1. CASE Asks(p, Caller("close")) /\ pane' = pane
    <2>1. /\ chain' \in [Pane -> Seq(Call)] /\ chain'[p] # << >>
          /\ \A x \in Pane : x # p => chain'[x] = chain[x]
        BY <1>1, CallersAreCalls, NewCall DEF TypeInv
    <2>2. Shapes'
        BY <1>1, <2>1 DEF Close, TypeInv, Shapes
    <2> QED  BY <1>1, <2>1, <2>2, SoundTogether DEF Close, TypeInv, Running
<1>2. CASE pane' = [pane EXCEPT ![p] = TornDown(pane[p])] /\ chain' = chain
    <2>1. TornDown(pane[p]) \in PaneRec /\ Sound(TornDown(pane[p])) /\ ~TornDown(pane[p]).saving
        BY TornDownPane DEF TypeInv, Shapes
    <2>2. pane' \in [Pane -> PaneRec] /\ pane'[p] = TornDown(pane[p])
          /\ \A x \in Pane : x # p => pane'[x] = pane[x]
        BY <1>2, <2>1, NewPane DEF TypeInv
    <2>3. Shapes'
        BY <1>2, <2>2 DEF Close, TypeInv, Shapes
    <2> QED  BY <1>2, <2>1, <2>2, <2>3, SoundTogether DEF Close, TypeInv, Running
<1> QED  BY <1>1, <1>2 DEF Close

\* A first call of a chain, and the conflict it may carry
LEMMA FirstCall ==
    ASSUME Shapes, NEW p \in Pane, chain[p] # << >>
    PROVE  LET c == Head(chain[p]) IN
           /\ c \in Call
           /\ Tail(chain[p]) \in Seq(Call)
           /\ c.by = "merge" => /\ c.slot \in Slot
                                /\ ladder[p][c.slot].kind \in {"none"} \cup Errand
           /\ c.by \in {"auto", "flush", "close", "force", "forceclose", "merge"}
<1>1. chain[p] \in Seq(Call)
    BY DEF Shapes
<1>2. Head(chain[p]) \in Call /\ Tail(chain[p]) \in Seq(Call)
    BY <1>1
<1>3. Head(chain[p]).by = "merge" => Head(chain[p]).slot \in Slot
    BY <1>2 DEF Call
<1>4. \A s \in Slot : ladder[p][s].kind \in {"none"} \cup Errand
    BY DEF Shapes, Ladder, NoLadder
<1>5. Head(chain[p]).by \in {"auto", "flush", "close", "force", "forceclose", "merge"}
    BY <1>2 DEF Call
<1> QED  BY <1>2, <1>3, <1>4, <1>5

LEMMA NewLadder ==
    ASSUME Shapes, NEW p \in Pane, NEW s, NEW l \in Ladder, ladder' = [ladder EXCEPT ![p][s] = l]
    PROVE  ladder' \in [Pane -> [Slot -> Ladder]]
BY DEF Shapes

LEMMA ClimbShape ==
    ASSUME Shapes, NEW p \in Pane, NEW kind \in Errand, Climb(p, kind)
    PROVE  ladder' \in [Pane -> [Slot -> Ladder]]
<1>1. [stage |-> "fetch", kind |-> kind] \in Ladder
    BY DEF Ladder
<1> QED  BY <1>1, NewLadder DEF Climb

LEMMA ResolvedShape ==
    ASSUME Shapes, NEW p \in Pane, NEW c \in Call, NEW q \in PaneRec, Resolved(p, c, q), Sound(q)
    PROVE  /\ pane' \in [Pane -> PaneRec] /\ Sound(pane'[p])
           /\ \A x \in Pane : x # p => pane'[x] = pane[x]
           /\ pane'[p] = q \/ ~pane'[p].open
           /\ ~q.saving => ~pane'[p].saving
           /\ ladder' \in [Pane -> [Slot -> Ladder]]
           /\ modal' = modal /\ confirm' = confirm
<1>1. PICK r \in {q, TornDown(q)} : pane' = [pane EXCEPT ![p] = r]
    BY DEF Resolved
<1>2. r \in PaneRec /\ Sound(r) /\ (r = q \/ ~r.open) /\ (~q.saving => ~r.saving)
    BY TornDownPane
<1>3. pane' \in [Pane -> PaneRec] /\ pane'[p] = r /\ \A x \in Pane : x # p => pane'[x] = pane[x]
    BY <1>1, <1>2, NewPane
<1>4. NoLadder \in Ladder
    BY DEF Ladder
<1>5. ladder' \in [Pane -> [Slot -> Ladder]]
    BY <1>4, NewLadder DEF Resolved, Shapes
<1> QED  BY <1>2, <1>3, <1>5 DEF Resolved

LEMMA RejectedShape ==
    ASSUME Shapes, NEW p \in Pane, NEW c, c = Head(chain[p]), chain[p] # << >>,
           NEW q \in PaneRec, NEW why, Rejected(p, c, q, why), Sound(q), ~q.saving
    PROVE  /\ pane' \in [Pane -> PaneRec] /\ Sound(pane'[p]) /\ ~pane'[p].saving
           /\ \A x \in Pane : x # p => pane'[x] = pane[x]
           /\ ladder' \in [Pane -> [Slot -> Ladder]]
           /\ modal' \in Dialog /\ confirm' \in Dialog /\ story' \in [Pane -> Story]
<1>1. pane' = [pane EXCEPT ![p] = q] \/ pane' = [pane EXCEPT ![p] = RetryScheduled(q)]
    BY DEF Rejected
<1>2. RetryScheduled(q) \in PaneRec /\ Sound(RetryScheduled(q)) /\ ~RetryScheduled(q).saving
    BY RetryPane DEF Sound
<1>3. /\ pane' \in [Pane -> PaneRec] /\ Sound(pane'[p]) /\ ~pane'[p].saving
      /\ \A x \in Pane : x # p => pane'[x] = pane[x]
    BY <1>1, <1>2, NewPane
<1>4. NoLadder \in Ladder
    BY DEF Ladder
<1>5. ladder' \in [Pane -> [Slot -> Ladder]]
    BY <1>4, NewLadder, ClimbShape DEF Rejected, Shapes, Errand
<1>6. modal' \in Dialog
    BY FirstCall DEF Rejected, Ask, Shapes, Dialog
<1>7. confirm' \in Dialog
    BY DEF Rejected, Shapes, Dialog, Errand
<1>8. story' \in [Pane -> Story]
    BY ToldStory DEF Rejected, Shapes
<1> QED  BY <1>3, <1>5, <1>6, <1>7, <1>8

LEMMA StartSaveKeeps ==
    ASSUME TypeInv, NEW p \in Pane, StartSave(p)
    PROVE  TypeInv'
<1> DEFINE c == Head(chain[p])
           q == pane[p]
<1>1. chain[p] # << >> /\ put[p] = None /\ q \in PaneRec /\ Sound(q) /\ ~q.saving
      /\ story[p] \in Story
    BY DEF StartSave, Calm, TypeInv, Shapes, Running
<1>2. c \in Call /\ Tail(chain[p]) \in Seq(Call)
    BY <1>1, FirstCall DEF TypeInv
<1>3. CASE q.open /\ (q.dirty \/ Forced(c))
    <2> DEFINE r == [Cancelled(q) EXCEPT !.saving = TRUE]
               u == [phase |-> "sent", text |-> q.draft, rev |-> q.rev, forced |-> Forced(c)]
    <2>1. Cancelled(q) \in PaneRec /\ Cancelled(q).idle = Off /\ Cancelled(q).open
        BY <1>1, <1>3, CancelledPane
    <2>2. r \in PaneRec /\ Sound(r)
        BY <2>1 DEF PaneRec, Sound
    <2>3. u \in Put /\ u # None
        BY <1>1 DEF Put, PaneRec, Forced, None
    <2>4. /\ pane' = [pane EXCEPT ![p] = r] /\ put' = [put EXCEPT ![p] = u]
          /\ story' = [story EXCEPT ![p].waited = 0]
          /\ UNCHANGED <<disk, chain, ladder, fetch, modal, confirm>>
        BY <1>3 DEF StartSave
    <2> HIDE DEF r, u
    <2>5. pane' \in [Pane -> PaneRec] /\ pane'[p] = r /\ \A x \in Pane : x # p => pane'[x] = pane[x]
        BY <2>2, <2>4, NewPane DEF TypeInv
    <2>6. put' \in [Pane -> Put] /\ put'[p] = u /\ \A x \in Pane : x # p => put'[x] = put[x]
        BY <2>3, <2>4 DEF TypeInv, Shapes
    <2>7. story' \in [Pane -> Story]
        BY <1>1, <2>4 DEF Story, TypeInv, Shapes
    <2>8. Shapes'
        BY <2>4, <2>5, <2>6, <2>7 DEF TypeInv, Shapes
    <2> QED  BY <1>1, <2>2, <2>3, <2>4, <2>5, <2>6, <2>8, SoundTogether DEF Running
<1>4. CASE ~(q.open /\ (q.dirty \/ Forced(c)))
    <2>1. Resolved(p, c, q) /\ chain' = [chain EXCEPT ![p] = Tail(chain[p])]
          /\ UNCHANGED <<disk, put, fetch, story>>
        BY <1>4 DEF StartSave
    <2>2. /\ pane' \in [Pane -> PaneRec] /\ Sound(pane'[p]) /\ ~pane'[p].saving
          /\ \A x \in Pane : x # p => pane'[x] = pane[x]
          /\ ladder' \in [Pane -> [Slot -> Ladder]] /\ modal' = modal /\ confirm' = confirm
        BY <1>1, <1>2, <2>1, ResolvedShape DEF TypeInv
    <2>3. chain' \in [Pane -> Seq(Call)] /\ \A x \in Pane : x # p => chain'[x] = chain[x]
        BY <1>2, <2>1 DEF TypeInv, Shapes
    <2>4. Shapes'
        BY <2>1, <2>2, <2>3 DEF TypeInv, Shapes
    <2> QED  BY <1>1, <2>1, <2>2, <2>3, <2>4, SoundTogether DEF Running
<1> QED  BY <1>3, <1>4

LEMMA ReceiveKeeps ==
    ASSUME TypeInv, NEW p \in Pane, Receive(p)
    PROVE  TypeInv'
<1> DEFINE c == Head(chain[p])
           q == pane[p]
           idle == [q EXCEPT !.saving = FALSE]
           next == Adopted(q, put[p].text)
           got == IF ~q.open THEN q ELSE IF next.dirty THEN Scheduled(next) ELSE next
<1>1. put[p] # None /\ chain[p] # << >> /\ q \in PaneRec /\ Sound(q) /\ put[p].text \in Text
    BY DEF Receive, None, TypeInv, Running, Shapes, Put
<1>2. c \in Call /\ Tail(chain[p]) \in Seq(Call)
    BY <1>1, FirstCall DEF TypeInv
<1>3. got \in PaneRec /\ Sound(got) /\ ~got.saving
    <2>1. next \in PaneRec /\ ~next.saving /\ next.open = q.open
          /\ next.idle = q.idle /\ next.ceiling = q.ceiling
        BY <1>1, AdoptedPane
    <2> HIDE DEF next
    <2>2. Scheduled(next) \in PaneRec /\ ~Scheduled(next).saving
          /\ (Scheduled(next).idle # Off => Scheduled(next).ceiling # Off)
        BY <2>1, ScheduledPane
    <2> QED  BY <1>1, <2>1, <2>2 DEF Sound
<1>4. idle \in PaneRec /\ ~idle.saving /\ Sound(idle)
    BY <1>1 DEF PaneRec, Sound
<1>5. ~q.open => ~q.saving
    BY <1>1 DEF Sound
<1> HIDE DEF got, idle
<1>6. /\ pane' \in [Pane -> PaneRec] /\ Sound(pane'[p]) /\ ~pane'[p].saving
      /\ \A x \in Pane : x # p => pane'[x] = pane[x]
      /\ ladder' \in [Pane -> [Slot -> Ladder]]
      /\ modal' \in Dialog /\ confirm' \in Dialog /\ story' \in [Pane -> Story]
    <2>1. CASE Resolved(p, c, got) /\ story' = [story EXCEPT ![p].told = FALSE]
        <3>1. story' \in [Pane -> Story]
            BY <2>1 DEF TypeInv, Shapes, Story
        <3> QED  BY <1>2, <1>3, <2>1, <3>1, ResolvedShape DEF TypeInv, Shapes
    <2>2. CASE Rejected(p, c, IF q.open THEN idle ELSE q, put[p].phase)
        BY <1>1, <1>4, <1>5, <2>2, RejectedShape DEF TypeInv
    <2> QED  BY <2>1, <2>2 DEF Receive, got, idle
<1>7. chain' \in [Pane -> Seq(Call)] /\ \A x \in Pane : x # p => chain'[x] = chain[x]
    BY <1>2 DEF Receive, TypeInv, Shapes
<1>8. put' \in [Pane -> Put] /\ put'[p] = None /\ \A x \in Pane : x # p => put'[x] = put[x]
    BY DEF Receive, TypeInv, Shapes, Put
<1>9. Shapes'
    BY <1>6, <1>7, <1>8 DEF Receive, TypeInv, Shapes
<1> QED  BY <1>6, <1>7, <1>8, <1>9, SoundTogether DEF Running

LEMMA ServerKeeps ==
    ASSUME TypeInv, NEW p \in Pane,
           Server(p) \/ \E how \in {"refused", "failed"} : ServerFails(p, how)
    PROVE  TypeInv'
<1>1. put[p] # None /\ put[p] \in Put /\ disk[p] \in Text /\ pane[p] \in PaneRec
      /\ story[p] \in Story
    BY DEF Server, ServerCheck, ServerWrite, ServerReply, ServerFails, None, TypeInv, Shapes
<1>2. /\ put' \in [Pane -> Put] /\ put'[p] # None
      /\ \A x \in Pane : x # p => put'[x] = put[x]
    <2>1. \A phase \in {"sent", "checked", "written", "ok", "conflict", "refused", "failed"},
             t \in Text :
             LET u == [put[p] EXCEPT !.phase = phase]  v == [u EXCEPT !.text = t] IN
             u \in Put /\ v \in Put /\ u # None /\ v # None
        BY <1>1 DEF Put, None
    <2>2. PICK phase \in {"checked", "written", "ok", "conflict", "refused", "failed"} :
             \/ put' = [put EXCEPT ![p].phase = phase]
             \/ put' = [put EXCEPT ![p].phase = phase, ![p].text = disk[p]]
        BY DEF Server, ServerCheck, ServerWrite, ServerReply, ServerFails
    <2>3. put' = [put EXCEPT ![p] = [put[p] EXCEPT !.phase = phase]]
          \/ put' = [put EXCEPT ![p] = [[put[p] EXCEPT !.phase = phase] EXCEPT !.text = disk[p]]]
        BY <2>2 DEF TypeInv, Shapes
    <2>4. PICK u \in Put : u # None /\ put' = [put EXCEPT ![p] = u]
        BY <1>1, <2>1, <2>3
    <2> QED  BY <2>4 DEF TypeInv, Shapes
<1>3. disk' \in [Pane -> Text]
    BY <1>1 DEF Server, ServerCheck, ServerWrite, ServerReply, ServerFails, Put, None, TypeInv, Shapes
<1>4. story' \in [Pane -> Story]
    <2>1. Changed(put[p].text, pane[p].base) \in Text /\ (story[p].theirs \cap put[p].text) \in Text
        BY <1>1 DEF Changed, Text, Put, None, PaneRec, Story
    <2>2. story' = story \/ story' = [story EXCEPT ![p].theirs = story[p].theirs \cap put[p].text]
          \/ story' = [story EXCEPT ![p].fails = story[p].fails + 1]
          \/ story' = [story EXCEPT ![p].fails = story[p].fails + 1,
                                    ![p].lost = Changed(put[p].text, pane[p].base)]
        BY DEF Server, ServerCheck, ServerWrite, ServerReply, ServerFails
    <2>3. \A t \in Text, n \in Nat :
             /\ [story[p] EXCEPT !.theirs = t] \in Story /\ [story[p] EXCEPT !.fails = n] \in Story
             /\ [story[p] EXCEPT !.fails = n, !.lost = t] \in Story
        BY <1>1 DEF Story
    <2>4. story[p].fails + 1 \in Nat
        BY <1>1 DEF Story
    <2>5. PICK s \in Story : story' = [story EXCEPT ![p] = s]
        BY <1>1, <2>1, <2>2, <2>3, <2>4 DEF TypeInv, Shapes
    <2> QED  BY <2>5, NewStory DEF TypeInv
<1>5. UNCHANGED <<pane, chain, ladder, fetch, modal, confirm>>
    BY DEF Server, ServerCheck, ServerWrite, ServerReply, ServerFails
<1>6. Shapes'
    BY <1>2, <1>3, <1>4, <1>5 DEF TypeInv, Shapes
<1> QED  BY <1>1, <1>2, <1>5, <1>6, SoundTogether DEF TypeInv, Running

\* A step that leaves panes, chains and requests alone
LEMMA RestTogether ==
    ASSUME TypeInv, UNCHANGED <<pane, chain, put>>,
           disk' \in [Pane -> Text], ladder' \in [Pane -> [Slot -> Ladder]],
           fetch' \in [Pane -> Fetch], modal' \in Dialog, confirm' \in Dialog,
           story' \in [Pane -> Story]
    PROVE  TypeInv'
BY DEF TypeInv, Shapes, Sound, Running

LEMMA OutsideShape ==
    ASSUME Shapes, NEW p \in Pane, NEW m \in OutMark, Outside(p, m)
    PROVE  disk' \in [Pane -> Text] /\ story' \in [Pane -> Story]
<1>1. m \in Mark /\ disk[p] \in Text /\ story[p] \in Story
    BY DEF Mark, Shapes
<1>2. Set(disk[p], m) \in Text
    BY <1>1, SetIsText
<1>3. disk' \in [Pane -> Text]
    BY <1>2 DEF Outside, Shapes
<1>4. story[p].theirs \in Text /\ story[p].want \in Text /\ story[p].outside \in Text
    BY <1>1 DEF Story
<1>5. /\ Set(story[p].theirs, m) \in Text
      /\ (story[p].want \ (RivalsOf(m) \cap disk[p])) \in Text
      /\ (story[p].outside \cup {m}) \in Text
    <2>1. Set(story[p].theirs, m) \in Text
        BY <1>1, <1>4, SetIsText
    <2> QED  BY <1>1, <1>4, <2>1 DEF Text
<1>6. \A a \in Text, b \in Text, c \in Text :
        [story[p] EXCEPT !.theirs = a, !.want = b, !.excuse = TRUE, !.outside = c] \in Story
    BY <1>1 DEF Story
<1>7. PICK s \in Story : story' = [story EXCEPT ![p] = s]
    BY <1>5, <1>6 DEF Outside
<1> QED  BY <1>3, <1>7, NewStory

LEMMA OthersKeep ==
    ASSUME TypeInv, NEW p \in Pane, NEW m \in OutMark, OutsideWrite(p, m) \/ RenameInTree(p, m)
    PROVE  TypeInv'
<1>1. Outside(p, m)
    BY DEF OutsideWrite, RenameInTree
<1>2. disk' \in [Pane -> Text] /\ story' \in [Pane -> Story]
    BY <1>1, OutsideShape DEF TypeInv
<1>3. fetch' \in [Pane -> Fetch]
    <2>1. [phase |-> "rename", title |-> m] \in Fetch
        BY DEF Fetch, Mark
    <2> QED  BY <2>1 DEF OutsideWrite, RenameInTree, TypeInv, Shapes
<1> QED
    BY <1>2, <1>3, RestTogether DEF OutsideWrite, RenameInTree, TypeInv, Shapes

LEMMA GiveUpShape ==
    ASSUME Shapes, NEW p \in Pane, NEW s \in Slot, GiveUp(p, s)
    PROVE  modal' \in Dialog /\ ladder' \in [Pane -> [Slot -> Ladder]]
<1>1. ladder[p][s] \in Ladder /\ NoLadder \in Ladder
    BY DEF Shapes, Ladder
<1>2. ladder[p][s].kind \in {"none"} \cup Errand
    BY <1>1 DEF Ladder, NoLadder
<1> QED  BY <1>1, <1>2, NewLadder DEF GiveUp, Ask, Dialog

LEMMA ResaveShape ==
    ASSUME TypeInv, NEW p \in Pane, NEW s \in Slot, NEW r \in Text, NEW t \in Text,
           Resave(p, s, r, t), disk' = disk, put' = put, fetch' = fetch, confirm' = confirm
    PROVE  TypeInv'
<1>1. pane[p] \in PaneRec /\ Sound(pane[p]) /\ ladder[p][s] \in Ladder
    BY DEF TypeInv, Shapes
<1> DEFINE n == IF pane[p].open THEN Patched(pane[p], r, t) ELSE pane[p]
<1>2. n \in PaneRec /\ Sound(n) /\ n.saving = pane[p].saving
    BY <1>1, PatchedPane DEF Sound
<1>3. pane' = [pane EXCEPT ![p] = n]
    BY DEF Resave
<1> HIDE DEF n
<1>4. pane' \in [Pane -> PaneRec] /\ pane'[p] = n /\ \A x \in Pane : x # p => pane'[x] = pane[x]
    BY <1>2, <1>3, NewPane DEF TypeInv
<1>5. [stage |-> "save", kind |-> ladder[p][s].kind] \in Ladder
    BY <1>1 DEF Ladder, NoLadder
<1>6. ladder' \in [Pane -> [Slot -> Ladder]]
    BY <1>5, NewLadder DEF Resave, TypeInv
<1>7. [by |-> "merge", slot |-> s] \in Call
    BY DEF Call
<1>8. /\ chain' \in [Pane -> Seq(Call)] /\ chain'[p] # << >>
      /\ \A x \in Pane : x # p => chain'[x] = chain[x]
    BY <1>7, NewCall DEF Resave, TypeInv
<1>9. Shapes'
    BY <1>4, <1>6, <1>8 DEF Resave, TypeInv, Shapes
<1> QED  BY <1>2, <1>4, <1>8, <1>9, SoundTogether DEF TypeInv, Running

LEMMA AdoptShape ==
    ASSUME TypeInv, NEW p \in Pane, NEW s \in Slot, NEW r \in Text,
           Adopt(p, s, r), disk' = disk, put' = put, fetch' = fetch, confirm' = confirm
    PROVE  TypeInv' /\ ~pane'[p].dirty
<1> DEFINE q == [Cancelled(pane[p]) EXCEPT !.base = r, !.rev = r, !.dirty = FALSE]
           n == IF ladder[p][s].kind = "close" THEN TornDown(q) ELSE q
<1>1. pane[p] \in PaneRec /\ Sound(pane[p])
    BY DEF TypeInv, Shapes
<1>2. q \in PaneRec /\ q.idle = Off /\ q.ceiling = Off /\ q.saving = pane[p].saving
      /\ q.open = pane[p].open /\ ~q.dirty
    <2>1. /\ Cancelled(pane[p]) \in PaneRec
          /\ Cancelled(pane[p]).idle = Off /\ Cancelled(pane[p]).ceiling = Off
          /\ Cancelled(pane[p]).saving = pane[p].saving
          /\ Cancelled(pane[p]).open = pane[p].open
        BY <1>1, CancelledPane
    <2> QED  BY <2>1 DEF PaneRec
<1>3. pane' = [pane EXCEPT ![p] = n]
    BY DEF Adopt
<1> HIDE DEF q
<1>4. n \in PaneRec /\ Sound(n) /\ (n.saving => pane[p].saving) /\ ~n.dirty
    BY <1>1, <1>2, TornDownPane DEF Sound
<1> HIDE DEF n
<1>5. pane' \in [Pane -> PaneRec] /\ pane'[p] = n /\ \A x \in Pane : x # p => pane'[x] = pane[x]
    BY <1>3, <1>4, NewPane DEF TypeInv
<1>6. NoLadder \in Ladder
    BY DEF Ladder
<1>7. ladder' \in [Pane -> [Slot -> Ladder]]
    BY <1>6, NewLadder DEF Adopt, TypeInv
<1>8. Shapes'
    BY <1>5, <1>7 DEF Adopt, TypeInv, Shapes
<1>9. TypeInv'
    BY <1>4, <1>5, <1>8, SoundTogether DEF Adopt, TypeInv, Running
<1> QED  BY <1>4, <1>5, <1>9

LEMMA CompareKeeps ==
    ASSUME TypeInv, NEW p \in Pane, NEW s \in Slot, Compare(p, s)
    PROVE  TypeInv'
<1> DEFINE q == pane[p]
           fields == Merge(Fields(q.base), Fields(q.draft), Fields(disk[p]))
<1>1. q \in PaneRec /\ disk[p] \in Text /\ ladder[p][s] \in Ladder
    BY DEF TypeInv, Shapes
<1>2. q.base \in Text /\ q.draft \in Text
    BY <1>1 DEF PaneRec
<1>3. fields \in Text /\ Prose(q.draft) \in Text
    BY <1>1, <1>2, PartsAreText, MergeIsText
<1> HIDE DEF fields
<1>4. UNCHANGED <<disk, put, fetch, confirm>>
    BY DEF Compare
<1>5. CASE Adopt(p, s, disk[p])
    BY <1>1, <1>4, <1>5, AdoptShape
<1>6. CASE GiveUp(p, s) /\ UNCHANGED story
    BY <1>4, <1>6, GiveUpShape, RestTogether DEF GiveUp, TypeInv, Shapes
<1>7. CASE Resave(p, s, disk[p], fields \cup Prose(q.draft))
    <2>1. (fields \cup Prose(q.draft)) \in Text
        BY <1>3 DEF Text
    <2> QED  BY <1>1, <1>4, <1>7, <2>1, ResaveShape
<1>8. CASE /\ ladder' = [ladder EXCEPT ![p][s] =
                [stage |-> "merge", kind |-> ladder[p][s].kind, remote |-> disk[p],
                 base |-> q.base, local |-> Prose(q.draft), fields |-> fields]]
           /\ UNCHANGED <<pane, chain, modal, story>>
    <2>1. ladder[p][s].kind \in {"none"} \cup Errand
        BY <1>1 DEF Ladder, NoLadder
    <2>2. [stage |-> "merge", kind |-> ladder[p][s].kind, remote |-> disk[p],
           base |-> q.base, local |-> Prose(q.draft), fields |-> fields] \in Ladder
        BY <1>1, <1>2, <1>3, <2>1 DEF Ladder
    <2>3. ladder' \in [Pane -> [Slot -> Ladder]]
        BY <1>8, <2>2, NewLadder DEF TypeInv
    <2> QED  BY <1>4, <1>8, <2>3, RestTogether DEF TypeInv, Shapes
<1> QED  BY <1>5, <1>6, <1>7, <1>8 DEF Compare, fields, TypeInv, Shapes

LEMMA MergeProseKeeps ==
    ASSUME TypeInv, NEW p \in Pane, NEW s \in Slot, MergeProse(p, s)
    PROVE  TypeInv'
<1> DEFINE l == ladder[p][s]
           now == Prose(pane[p].draft)
           merged == Merge(Prose(l.base), l.local, Prose(l.remote))
           text == l.fields \cup (IF merged = l.local THEN now ELSE merged)
<1>1. l \in Ladder /\ l.stage = "merge" /\ pane[p] \in PaneRec
    BY DEF MergeProse, TypeInv, Shapes
<1>2. l.remote \in Text /\ l.base \in Text /\ l.local \in Text /\ l.fields \in Text
    BY <1>1 DEF Ladder, NoLadder
<1>3. text \in Text
    <2>1. pane[p].draft \in Text
        BY <1>1 DEF PaneRec
    <2>2. now \in Text /\ merged \in Text
        BY <1>2, <2>1, PartsAreText, MergeIsText
    <2> HIDE DEF now, merged
    <2> QED  BY <1>2, <2>2 DEF Text
<1>4. UNCHANGED <<disk, put, fetch, confirm>>
    BY DEF MergeProse
<1>5. CASE Resave(p, s, l.remote, text)
    BY <1>2, <1>3, <1>4, <1>5, ResaveShape
<1>6. CASE GiveUp(p, s) /\ UNCHANGED story
    BY <1>4, <1>6, GiveUpShape, RestTogether DEF GiveUp, TypeInv, Shapes
<1> QED  BY <1>5, <1>6 DEF MergeProse

LEMMA CompareFailsKeeps ==
    ASSUME TypeInv, NEW p \in Pane, NEW s \in Slot, CompareFails(p, s)
    PROVE  TypeInv'
<1>1. story[p] \in Story
    BY DEF TypeInv, Shapes
<1>2. \A n \in Nat : [story[p] EXCEPT !.fails = n, !.excuse = TRUE] \in Story
    BY <1>1 DEF Story
<1>3. story[p].fails + 1 \in Nat
    BY <1>1 DEF Story
<1>4. story' = [story EXCEPT ![p] = [story[p] EXCEPT !.fails = story[p].fails + 1, !.excuse = TRUE]]
    BY DEF CompareFails, TypeInv, Shapes
<1>5. story' \in [Pane -> Story]
    BY <1>2, <1>3, <1>4, NewStory DEF TypeInv
<1> QED
    BY <1>5, GiveUpShape, RestTogether DEF CompareFails, GiveUp, TypeInv, Shapes

LEMMA DialogKeeps ==
    ASSUME TypeInv, NEW p \in Pane, KeepEditing(p) \/ Overwrite(p) \/ KeepOpen(p)
    PROVE  TypeInv'
<1>1. NoDialog \in Dialog
    BY DEF Dialog
<1>2. CASE KeepEditing(p) \/ KeepOpen(p)
    BY <1>1, <1>2, ToldStory, RestTogether DEF KeepEditing, KeepOpen, TypeInv, Shapes
<1>3. CASE Overwrite(p)
    <2>1. Asks(p, Caller("force")) \/ Asks(p, Caller("forceclose"))
        BY <1>3 DEF Overwrite
    <2>2. /\ chain' \in [Pane -> Seq(Call)] /\ chain'[p] # << >>
          /\ \A x \in Pane : x # p => chain'[x] = chain[x]
        BY <2>1, CallersAreCalls, NewCall DEF TypeInv
    <2>3. Shapes'
        BY <1>1, <1>3, <2>2 DEF Overwrite, TypeInv, Shapes
    <2> QED  BY <1>3, <2>2, <2>3, SoundTogether DEF Overwrite, TypeInv, Running
<1> QED  BY <1>2, <1>3

LEMMA DiscardKeeps ==
    ASSUME TypeInv, NEW p \in Pane, Discard(p)
    PROVE  TypeInv' /\ ~pane'[p].open
<1>1. NoDialog \in Dialog /\ {} \in Text /\ story[p] \in Story
    BY DEF Dialog, Text, TypeInv, Shapes
<1>2. /\ TornDown(pane[p]) \in PaneRec /\ Sound(TornDown(pane[p]))
      /\ ~TornDown(pane[p]).saving /\ ~TornDown(pane[p]).open
    BY TornDownPane DEF TypeInv, Shapes
<1>3. pane' = [pane EXCEPT ![p] = TornDown(pane[p])]
    BY DEF Discard
<1>4. /\ pane' \in [Pane -> PaneRec] /\ pane'[p] = TornDown(pane[p])
      /\ \A x \in Pane : x # p => pane'[x] = pane[x]
    BY <1>2, <1>3, NewPane DEF TypeInv
<1>5. [story[p] EXCEPT !.want = {}, !.undone = {}] \in Story
    BY <1>1 DEF Story
<1>6. story' = [story EXCEPT ![p] = [story[p] EXCEPT !.want = {}, !.undone = {}]]
    BY DEF Discard, TypeInv, Shapes
<1>7. story' \in [Pane -> Story]
    BY <1>5, <1>6, NewStory DEF TypeInv
<1>8. Shapes'
    BY <1>1, <1>4, <1>7 DEF Discard, TypeInv, Shapes
<1> QED  BY <1>2, <1>4, <1>8, SoundTogether DEF Discard, TypeInv, Running

LEMMA ReconcileKeeps ==
    ASSUME TypeInv, NEW p \in Pane, Reconcile(p)
    PROVE  TypeInv'
<1>1. pane[p] \in PaneRec /\ pane' = [pane EXCEPT ![p] = Cancelled(pane[p])]
    BY DEF TypeInv, Shapes, Reconcile
<1>2. pane' \in [Pane -> PaneRec] /\ pane'[p] = Cancelled(pane[p])
      /\ \A x \in Pane : x # p => pane'[x] = pane[x]
    BY <1>1, CancelledPane, NewPane DEF TypeInv
<1>3. ladder' \in [Pane -> [Slot -> Ladder]]
    BY ClimbShape DEF Reconcile, TypeInv, Errand
<1>4. Sound(pane'[p]) /\ pane'[p].saving = pane[p].saving
    BY <1>1, <1>2, CancelledPane DEF TypeInv, Sound
<1>5. Shapes'
    BY <1>2, <1>3 DEF Reconcile, TypeInv, Shapes
<1> QED  BY <1>2, <1>4, <1>5, SoundTogether DEF Reconcile, TypeInv, Running

\* What an answer that comes for a reload or a rename makes of a pane
LEMMA FetchedKeeps ==
    ASSUME TypeInv, NEW p \in Pane, FinishReload(p) \/ FinishRename(p)
    PROVE  /\ TypeInv'
           /\ pane'[p].dirty => pane'[p].idle = pane[p].idle /\ pane'[p].ceiling = pane[p].ceiling
           /\ pane'[p].dirty => pane[p].dirty
           /\ pane'[p].open = pane[p].open
<1> DEFINE q == pane[p]
           m == fetch[p].title
           r == [Cancelled(q) EXCEPT !.draft = disk[p], !.base = disk[p], !.rev = disk[p],
                                     !.dirty = FALSE]
           t == [q EXCEPT !.base = Set(q.base, m), !.rev = disk[p],
                          !.draft = IF q.dirty THEN q.draft ELSE Set(q.draft, m)]
           n == IF FinishReload(p) THEN (IF q.open THEN r ELSE q) ELSE (IF q.open THEN t ELSE q)
<1>1. q \in PaneRec /\ Sound(q) /\ disk[p] \in Text /\ fetch[p] \in Fetch
    BY DEF TypeInv, Shapes
<1>2. r \in PaneRec /\ Sound(r) /\ r.saving = q.saving /\ ~r.dirty /\ r.open = q.open
    <2>1. /\ Cancelled(q) \in PaneRec /\ Cancelled(q).idle = Off
          /\ Cancelled(q).saving = q.saving /\ Cancelled(q).open = q.open
        BY <1>1, CancelledPane
    <2> QED  BY <1>1, <2>1 DEF PaneRec, Sound
<1>3. ASSUME fetch[p].phase = "rename"
      PROVE  /\ t \in PaneRec /\ Sound(t) /\ t.saving = q.saving /\ t.dirty = q.dirty
             /\ t.idle = q.idle /\ t.ceiling = q.ceiling /\ t.open = q.open
    <2>1. m \in Mark
        BY <1>1, <1>3 DEF Fetch, None
    <2>2. Set(q.base, m) \in Text /\ Set(q.draft, m) \in Text
        BY <1>1, <2>1, SetIsText DEF PaneRec
    <2> DEFINE b == Set(q.base, m)
               e == IF q.dirty THEN q.draft ELSE Set(q.draft, m)
    <2>3. b \in Text /\ e \in Text
        BY <1>1, <2>2 DEF PaneRec
    <2>4. t = [q EXCEPT !.base = b, !.rev = disk[p], !.draft = e]
        OBVIOUS
    <2> HIDE DEF b, e, t
    <2>5. /\ t \in PaneRec /\ t.saving = q.saving /\ t.dirty = q.dirty
          /\ t.idle = q.idle /\ t.ceiling = q.ceiling /\ t.open = q.open
        BY <1>1, <2>3, <2>4 DEF PaneRec
    <2> QED  BY <1>1, <2>5 DEF Sound
<1>4. fetch[p].phase = (IF FinishReload(p) THEN "reload" ELSE "rename")
    BY DEF FinishReload, FinishRename
<1>5. pane' = [pane EXCEPT ![p] = n]
    <2>1. CASE FinishReload(p)
        BY <2>1 DEF FinishReload
    <2>2. CASE ~FinishReload(p)
        BY <2>2 DEF FinishRename
    <2> QED  BY <2>1, <2>2
<1> HIDE DEF r, t
<1>6. /\ n \in PaneRec /\ Sound(n) /\ n.saving = q.saving /\ n.open = q.open
      /\ n.dirty => q.dirty /\ n.idle = q.idle /\ n.ceiling = q.ceiling
    BY <1>1, <1>2, <1>3, <1>4
<1> HIDE DEF n
<1>7. pane' \in [Pane -> PaneRec] /\ pane'[p] = n /\ \A x \in Pane : x # p => pane'[x] = pane[x]
    BY <1>5, <1>6, NewPane DEF TypeInv
<1>8. /\ fetch' \in [Pane -> Fetch]
      /\ UNCHANGED <<disk, chain, put, ladder, modal, confirm, story>>
    BY DEF FinishReload, FinishRename, TypeInv, Shapes, Fetch
<1>9. Shapes'
    BY <1>7, <1>8 DEF TypeInv, Shapes
<1>10. TypeInv'
    BY <1>6, <1>7, <1>8, <1>9, SoundTogether DEF TypeInv, Running
<1> QED  BY <1>6, <1>7, <1>10

LEMMA StartReloadKeeps ==
    ASSUME TypeInv, NEW p \in Pane, StartReload(p)
    PROVE  TypeInv'
<1>1. [phase |-> "reload"] \in Fetch
    BY DEF Fetch
<1>2. fetch' \in [Pane -> Fetch]
    BY <1>1 DEF StartReload, TypeInv, Shapes
<1> QED  BY <1>2, RestTogether DEF StartReload, TypeInv, Shapes

LEMMA TickKeeps ==
    ASSUME TypeInv, Tick
    PROVE  TypeInv'
<1>1. ASSUME NEW p \in Pane
      PROVE  /\ pane'[p] \in PaneRec /\ Sound(pane'[p]) /\ pane'[p].saving = pane[p].saving
             /\ story'[p] \in Story
    <2>1. pane[p] \in PaneRec /\ story[p] \in Story /\ Sound(pane[p])
        BY DEF TypeInv, Shapes
    <2>2. Less(pane[p].idle) \in Ticks(IdleWait) /\ Less(pane[p].ceiling) \in Ticks(MaxWait)
          /\ (Less(pane[p].idle) # Off => pane[p].idle # Off)
          /\ (pane[p].ceiling # Off => Less(pane[p].ceiling) # Off)
        BY <2>1, EditorSaveAssumption DEF PaneRec, Ticks, Off, Less
    <2>3. \A a \in Ticks(IdleWait), b \in Ticks(MaxWait) :
             LET r == [pane[p] EXCEPT !.idle = a, !.ceiling = b] IN
             /\ r \in PaneRec /\ r.idle = a /\ r.ceiling = b
             /\ r.saving = pane[p].saving /\ r.open = pane[p].open
        BY <2>1 DEF PaneRec
    <2>4. pane'[p] = [pane[p] EXCEPT !.idle = Less(pane[p].idle), !.ceiling = Less(pane[p].ceiling)]
        BY DEF Tick
    <2>5. PICK a \in Ticks(IdleWait), b \in Ticks(MaxWait) :
             /\ a = Less(pane[p].idle) /\ b = Less(pane[p].ceiling)
             /\ pane'[p] = [pane[p] EXCEPT !.idle = a, !.ceiling = b]
        BY <2>2, <2>4
    <2>6. /\ pane'[p] \in PaneRec /\ pane'[p].saving = pane[p].saving
          /\ pane'[p].idle = a /\ pane'[p].ceiling = b
          /\ pane'[p].open = pane[p].open /\ pane'[p].dirty = pane[p].dirty
        BY <2>1, <2>5 DEF PaneRec
    <2>7. Sound(pane'[p])
        BY <2>1, <2>2, <2>5, <2>6 DEF Sound
    <2>8. PICK n \in Nat : story'[p] = [story[p] EXCEPT !.waited = n]
        <3>1. story[p].waited \in Nat
            BY <2>1 DEF Story
        <3>2. (IF Waiting(p) THEN story[p].waited + 1 ELSE 0) \in Nat
            BY <3>1
        <3> QED  BY <3>2 DEF Tick
    <2>9. story'[p] \in Story
        BY <2>1, <2>8 DEF Story
    <2> QED  BY <2>6, <2>7, <2>9
<1>2. pane' = [p \in Pane |-> pane'[p]] /\ story' = [p \in Pane |-> story'[p]]
    BY DEF Tick
<1>3. pane' \in [Pane -> PaneRec] /\ story' \in [Pane -> Story]
    BY <1>1, <1>2
<1>4. UNCHANGED <<disk, chain, put, ladder, fetch, modal, confirm>>
    BY DEF Tick
<1> QED  BY <1>1, <1>3, <1>4 DEF TypeInv, Shapes, Running

LEMMA StepKeeps == TypeInv /\ [Next]_vars => TypeInv'
<1> SUFFICES ASSUME TypeInv, [Next]_vars PROVE TypeInv'
    OBVIOUS
<1>1. CASE Tick
    BY <1>1, TickKeeps
<1>2. ASSUME NEW p \in Pane, Author(p) PROVE TypeInv'
    BY <1>2, TypeKeeps, FireKeeps, CloseKeeps, DialogKeeps, DiscardKeeps, StartReloadKeeps,
       ReconcileKeeps, OthersKeep DEF Author
<1>3. ASSUME NEW p \in Pane, Window(p) PROVE TypeInv'
    BY <1>3, FireKeeps, StartSaveKeeps, ReceiveKeeps, CompareKeeps, MergeProseKeeps,
       FetchedKeeps DEF Window
<1>4. ASSUME NEW p \in Pane, Server(p) \/ Mishap(p) PROVE TypeInv'
    BY <1>4, ServerKeeps, CompareFailsKeeps, OthersKeep DEF Mishap
<1>5. CASE UNCHANGED vars
    BY <1>5 DEF TypeInv, Shapes, Sound, Running, vars
<1> QED  BY <1>1, <1>2, <1>3, <1>4, <1>5 DEF Next

\* TypeOK: the window's state keeps its shape, with any number of panes and
\* whatever windows between check and use are left open.
THEOREM TypeCorrect == Spec => []TypeOK
<1>1. TypeInv => TypeOK
    BY DEF TypeInv, Shapes, Running, PaneRec, Ticks, TypeOK
<1> QED  BY InitSound, StepKeeps, <1>1, PTL DEF Spec

-----------------------------------------------------------------------------
(* One pane: unsaved text is always somebody's errand                      *)

\* Nothing has to be done about the pane, or somebody has it in hand.
Held(p) ==
    \/ ~pane[p].open \/ ~pane[p].dirty
    \/ chain[p] # << >> \/ Ladders(p) # {}
    \/ modal # NoDialog /\ modal.pane = p
    \/ confirm # NoDialog /\ confirm.pane = p
    \/ story[p].told

\* Otherwise the ceiling runs, and has been running since the text waits.  A
\* request on its way starts the waiting anew.
Kept(p) ==
    /\ put[p] # None => story[p].waited = 0
    /\ story[p].waited <= MaxWait
    /\ Held(p) \/ (pane[p].ceiling # Off /\ story[p].waited + pane[p].ceiling <= MaxWait)

LEMMA StillHeld ==
    ASSUME NEW p \in Pane, Kept(p), Held(p)',
           story'[p].waited = story[p].waited, put'[p] # None => put[p] # None
    PROVE  Kept(p)'
BY DEF Kept

LEMMA StillKept ==
    ASSUME NEW p \in Pane, Kept(p), UNCHANGED <<chain, ladder, modal, confirm>>,
           pane'[p].open = pane[p].open, pane'[p].dirty = pane[p].dirty,
           pane'[p].ceiling = pane[p].ceiling,
           story'[p].told = story[p].told, story'[p].waited = story[p].waited,
           put'[p] # None => put[p] # None
    PROVE  Kept(p)'
BY DEF Kept, Held, Ladders

LEMMA AskedIsHeld ==
    ASSUME TypeInv, NEW p \in Pane, NEW kind, Ask(p, kind)
    PROVE  Held(p)'
<1>1. modal' = [kind |-> kind, pane |-> p]
    BY DEF Ask
<1>2. "pane" \in DOMAIN modal' /\ "pane" \notin DOMAIN NoDialog
    BY <1>1 DEF NoDialog
<1>3. modal' # NoDialog
    BY <1>2
<1> QED  BY <1>1, <1>3 DEF Held

LEMMA OnLadderIsHeld ==
    ASSUME TypeInv, NEW p \in Pane, NEW s \in Slot, ladder'[p][s] # NoLadder
    PROVE  Held(p)'
BY DEF Held, Ladders

\* With no slot free the ladder stays as it is, and is not empty.
LEMMA ClimbedIsHeld ==
    ASSUME TypeInv, NEW p \in Pane, NEW kind \in Errand, Climb(p, kind)
    PROVE  Held(p)'
<1> DEFINE s == CHOOSE s \in Slot : ladder[p][s] = NoLadder
           l == [stage |-> "fetch", kind |-> kind]
<1>1. ladder' = [ladder EXCEPT ![p][s] = l] /\ l # NoLadder
    BY DEF Climb, NoLadder
<1> HIDE DEF s, l
<1>2. CASE s \in Slot
    <2>1. ladder'[p][s] = l
        BY <1>1, <1>2 DEF TypeInv, Shapes
    <2> QED  BY <1>1, <1>2, <2>1, OnLadderIsHeld
<1>3. CASE s \notin Slot
    <2>1. \A x \in Slot : ladder[p][x] # NoLadder
        BY <1>3 DEF s
    <2>2. 1 \in Slot
        BY EditorSaveAssumption DEF Slot
    <2>3. ladder'[p][1] = ladder[p][1]
        BY <1>1, <1>3, <2>2 DEF TypeInv, Shapes
    <2> QED  BY <2>1, <2>2, <2>3, OnLadderIsHeld
<1> QED  BY <1>2, <1>3

LEMMA CallIsHeld ==
    ASSUME TypeInv, NEW p \in Pane, NEW c \in Call, Asks(p, c)
    PROVE  Held(p)'
BY NewCall DEF TypeInv, Held

\* What is known of a pane nobody has in hand
LEMMA Unheld ==
    ASSUME TypeInv, NEW p \in Pane, Kept(p), ~Held(p)
    PROVE  /\ pane[p].open /\ pane[p].dirty /\ ~pane[p].saving /\ ~story[p].told
           /\ pane[p].ceiling # Off /\ story[p].waited + pane[p].ceiling <= MaxWait
           /\ put[p] = None
BY DEF TypeInv, Running, Kept, Held

LEMMA TypedIsKept ==
    ASSUME TypeInv, NEW p \in Pane, NEW m \in OwnMark, Type(p, m), Kept(p)
    PROVE  Kept(p)'
<1> DEFINE q == pane[p]
           text == IF m \notin q.draft THEN Set(q.draft, m) ELSE q.draft \ {m}
           typed == [q EXCEPT !.draft = text, !.dirty = text # q.base]
           w == IF q.dirty /\ ~story[p].told THEN story[p].waited ELSE 0
<1>1. q \in PaneRec /\ story[p] \in Story /\ m \in Mark /\ q.open
    BY DEF TypeInv, Shapes, Mark, Type, MayType
<1>2. text \in Text
    BY <1>1, SetIsText DEF PaneRec, Text
<1>3. /\ typed \in PaneRec /\ typed.saving = q.saving /\ typed.open
      /\ typed.ceiling = q.ceiling
    BY <1>1, <1>2 DEF PaneRec
<1>4. pane' = [pane EXCEPT ![p] = Scheduled(typed)]
    BY DEF Type
<1> HIDE DEF typed
<1>5. pane'[p] = Scheduled(typed)
    BY <1>4 DEF TypeInv, Shapes
<1>6. story'[p].waited = w /\ ~story'[p].told
    BY DEF Type, TypeInv, Shapes, Story
<1>7. UNCHANGED <<chain, put, ladder, modal, confirm>>
    BY DEF Type
<1>8. w \in Nat /\ w <= MaxWait /\ (put[p] # None => w = 0)
    BY <1>1, EditorSaveAssumption DEF Kept, Story
<1>9. ASSUME ~Held(p)'
      PROVE  pane'[p].ceiling # Off /\ w + pane'[p].ceiling <= MaxWait
    <2>1. chain[p] = << >> /\ pane'[p].dirty
        BY <1>7, <1>9 DEF Held
    <2>2. put[p] = None /\ ~q.saving
        BY <2>1 DEF TypeInv, Running
    <2>3. Scheduled(typed) \in PaneRec /\ Scheduled(typed).dirty = typed.dirty
        BY <1>3, ScheduledPane
    <2>4. ShouldSave(typed)
        BY <1>3, <1>5, <2>1, <2>2, <2>3 DEF ShouldSave, PaneRec
    <2>5. /\ pane'[p].ceiling # Off /\ pane'[p].ceiling \in Ticks(MaxWait)
          /\ q.ceiling # Off => pane'[p].ceiling = q.ceiling
        BY <1>3, <1>5, <2>3, <2>4, ScheduledPane DEF PaneRec
    <2>6. CASE q.dirty /\ ~story[p].told
        <3>1. ~Held(p)
            BY <1>1, <1>7, <1>9, <2>6 DEF Held, Ladders
        <3> QED  BY <2>5, <2>6, <3>1 DEF Kept
    <2>7. CASE ~(q.dirty /\ ~story[p].told)
        BY <2>5, <2>7, EditorSaveAssumption DEF Ticks, Off
    <2> QED  BY <2>6, <2>7
<1> HIDE DEF w
<1> QED  BY <1>6, <1>7, <1>8, <1>9 DEF Kept

LEMMA FiredIsKept ==
    ASSUME TypeInv, NEW p \in Pane, Kept(p),
           Fire(p) \/ \E by \in {"auto", "flush"} : Flush(p, by)
    PROVE  Kept(p)'
<1>1. Held(p)'
    <2>1. CASE \E by \in {"auto", "flush"} : Asks(p, Caller(by))
        BY <2>1, CallersAreCalls, CallIsHeld
    <2>2. CASE ~ShouldSave(pane[p]) /\ UNCHANGED <<chain, put>>
               /\ pane' = [pane EXCEPT ![p] = Cancelled(pane[p])]
        <3>1. /\ pane'[p].open = pane[p].open /\ pane'[p].dirty = pane[p].dirty
            BY <2>2, CancelledPane DEF TypeInv, Shapes
        <3>2. ~pane[p].open \/ ~pane[p].dirty \/ pane[p].saving
            BY <2>2 DEF ShouldSave
        <3>3. pane[p].saving => chain[p] # << >>
            BY DEF TypeInv, Running
        <3> QED  BY <2>2, <3>1, <3>2, <3>3 DEF Held
    <2> QED  BY <2>1, <2>2 DEF Fire, Flush
<1> QED  BY <1>1, StillHeld DEF Fire, Flush

LEMMA ClosedIsKept ==
    ASSUME TypeInv, NEW p \in Pane, Kept(p), Close(p) \/ Discard(p)
    PROVE  Kept(p)'
<1>1. Held(p)'
    <2>1. CASE Asks(p, Caller("close"))
        BY <2>1, CallersAreCalls, CallIsHeld
    <2>2. CASE pane' = [pane EXCEPT ![p] = TornDown(pane[p])]
        <3>1. ~pane'[p].open
            BY <2>2, TornDownPane DEF TypeInv, Shapes
        <3> QED  BY <3>1 DEF Held
    <2> QED  BY <2>1, <2>2 DEF Close, Discard
<1>2. story'[p].waited = story[p].waited
    BY DEF Close, Discard, TypeInv, Shapes, Story
<1> QED  BY <1>1, <1>2, StillHeld DEF Close, Discard

LEMMA DialogIsKept ==
    ASSUME TypeInv, NEW p \in Pane, Kept(p), KeepEditing(p) \/ KeepOpen(p) \/ Overwrite(p)
    PROVE  Kept(p)'
<1>1. CASE story' = Told(p)
    <2>1. story'[p].told /\ story'[p].waited = story[p].waited
        BY <1>1 DEF Told, TypeInv, Shapes, Story
    <2>2. Held(p)'
        BY <2>1 DEF Held
    <2> QED  BY <2>1, <2>2, StillHeld DEF KeepEditing, KeepOpen, Overwrite
<1>2. CASE Overwrite(p)
    <2>1. Held(p)'
        BY <1>2, CallersAreCalls, CallIsHeld DEF Overwrite
    <2> QED  BY <1>2, <2>1, StillHeld DEF Overwrite
<1> QED  BY <1>1, <1>2 DEF KeepEditing, KeepOpen

LEMMA ReconcileIsKept ==
    ASSUME TypeInv, NEW p \in Pane, Kept(p), Reconcile(p)
    PROVE  Kept(p)'
<1>1. Held(p)'
    BY ClimbedIsHeld DEF Reconcile, Errand
<1> QED  BY <1>1, StillHeld DEF Reconcile

\* A save that starts has the pane's text with it, or finds nothing to send.
LEMMA StartedIsKept ==
    ASSUME TypeInv, NEW p \in Pane, Kept(p), StartSave(p)
    PROVE  Kept(p)'
<1> DEFINE c == Head(chain[p])
           q == pane[p]
<1>1. chain[p] # << >> /\ put[p] = None /\ q \in PaneRec
    BY DEF StartSave, Calm, TypeInv, Shapes
<1>2. CASE q.open /\ (q.dirty \/ Forced(c))
    <2>1. chain' = chain /\ story' = [story EXCEPT ![p].waited = 0]
        BY <1>2 DEF StartSave
    <2>2. story'[p].waited = 0
        BY <2>1 DEF TypeInv, Shapes, Story
    <2>3. Held(p)'
        BY <1>1, <2>1 DEF Held
    <2> QED  BY <2>2, <2>3, EditorSaveAssumption DEF Kept
<1>3. CASE ~(q.open /\ (q.dirty \/ Forced(c)))
    <2>1. Resolved(p, c, q) /\ UNCHANGED <<put, story>>
        BY <1>3 DEF StartSave
    <2>2. pane' = [pane EXCEPT ![p] = q] \/ pane' = [pane EXCEPT ![p] = TornDown(q)]
        BY <2>1 DEF Resolved
    <2>3. ~pane'[p].open \/ ~pane'[p].dirty
        BY <1>1, <1>3, <2>2, TornDownPane DEF TypeInv, Shapes
    <2>4. Held(p)'
        BY <2>3 DEF Held
    <2> QED  BY <2>1, <2>4, StillHeld
<1> QED  BY <1>2, <1>3

\* A save that did not land is reconciled, told, retried or asked about.
LEMMA RejectedIsKept ==
    ASSUME TypeInv, NEW p \in Pane, NEW c, c = Head(chain[p]), chain[p] # << >>,
           NEW q \in PaneRec, ~q.saving, NEW why, Rejected(p, c, q, why),
           story[p].waited = 0, put'[p] = None
    PROVE  Kept(p)'
<1>1. story'[p].waited = 0
    BY DEF Rejected, Told, TypeInv, Shapes, Story
<1>2. Held(p)' \/ (pane'[p].ceiling \in Ticks(MaxWait) /\ pane'[p].ceiling # Off)
    <2>1. CASE \E kind \in Errand : Climb(p, kind)
        BY <2>1, ClimbedIsHeld
    <2>2. CASE story' = Told(p)
        <3>1. story'[p].told
            BY <2>2, ToldStory DEF TypeInv
        <3> QED  BY <3>1 DEF Held
    <2>3. CASE pane' = [pane EXCEPT ![p] = RetryScheduled(q)]
        <3>1. pane'[p] = RetryScheduled(q)
            BY <2>3 DEF TypeInv, Shapes
        <3>2. CASE ShouldSave(q)
            BY <3>1, <3>2, RetryPane DEF PaneRec
        <3>3. CASE ~ShouldSave(q)
            BY <3>1, <3>3, RetryPane DEF ShouldSave, Held
        <3> QED  BY <3>2, <3>3
    <2>4. CASE confirm' = [kind |-> "close", pane |-> p]
        <3>1. confirm'.kind = "close" /\ confirm'.pane = p
            BY <2>4
        <3>2. confirm' # NoDialog
            BY <3>1, NoneIsNoRequest
        <3> QED  BY <3>1, <3>2 DEF Held
    <2>5. CASE Ask(p, ladder[p][c.slot].kind)
        BY <2>5, AskedIsHeld
    <2> QED  BY <2>1, <2>2, <2>3, <2>4, <2>5 DEF Rejected, Errand
<1> QED
    BY <1>1, <1>2, EditorSaveAssumption DEF Kept, Ticks, Off

LEMMA ReceivedIsKept ==
    ASSUME TypeInv, NEW p \in Pane, Kept(p), Receive(p)
    PROVE  Kept(p)'
<1> DEFINE c == Head(chain[p])
           q == pane[p]
           idle == [q EXCEPT !.saving = FALSE]
           next == Adopted(q, put[p].text)
           got == IF ~q.open THEN q ELSE IF next.dirty THEN Scheduled(next) ELSE next
<1>1. put[p] # None /\ chain[p] # << >> /\ q \in PaneRec /\ Sound(q) /\ put[p].text \in Text
    BY DEF Receive, None, TypeInv, Running, Shapes, Put
<1>2. story[p].waited = 0 /\ put'[p] = None
    BY <1>1 DEF Kept, Receive, TypeInv, Shapes
<1>3. next \in PaneRec /\ ~next.saving /\ next.open = q.open
    BY <1>1, AdoptedPane
<1>4. idle \in PaneRec /\ ~idle.saving
    BY <1>1 DEF PaneRec
<1> HIDE DEF next, idle
<1>5. CASE Resolved(p, c, got) /\ story' = [story EXCEPT ![p].told = FALSE]
    <2>1. story'[p].waited = 0
        BY <1>2, <1>5 DEF TypeInv, Shapes, Story
    <2>2. pane'[p] = got \/ pane'[p] = TornDown(got)
        BY <1>5 DEF Resolved, TypeInv, Shapes
    <2>3. got \in PaneRec
        BY <1>1, <1>3, ScheduledPane
    <2>4. CASE pane'[p] = TornDown(got)
        <3>1. ~pane'[p].open
            BY <2>3, <2>4, TornDownPane
        <3> QED  BY <1>2, <2>1, <3>1, EditorSaveAssumption DEF Kept, Held
    <2>5. CASE pane'[p] = got /\ q.open /\ next.dirty
        <3>1. pane'[p] = Scheduled(next) /\ ShouldSave(next)
            BY <1>3, <2>5 DEF ShouldSave
        <3>2. pane'[p].ceiling \in Ticks(MaxWait) /\ pane'[p].ceiling # Off
            BY <1>3, <3>1, ScheduledPane DEF PaneRec
        <3> QED  BY <1>2, <2>1, <3>2, EditorSaveAssumption DEF Kept, Ticks, Off
    <2>6. CASE pane'[p] = got /\ ~(q.open /\ next.dirty)
        <3>1. ~pane'[p].open \/ ~pane'[p].dirty
            BY <2>6
        <3> QED  BY <1>2, <2>1, <3>1, EditorSaveAssumption DEF Kept, Held
    <2> QED  BY <2>2, <2>4, <2>5, <2>6
<1>6. CASE Rejected(p, c, IF q.open THEN idle ELSE q, put[p].phase)
    <2>1. (IF q.open THEN idle ELSE q) \in PaneRec /\ ~(IF q.open THEN idle ELSE q).saving
        BY <1>1, <1>4 DEF Sound
    <2> QED  BY <1>1, <1>2, <1>6, <2>1, RejectedIsKept
<1> QED  BY <1>5, <1>6 DEF Receive, idle, next

\* Every rung of the ladder ends in a pane that is clean, a save or a dialog.
LEMMA ClimbingIsKept ==
    ASSUME TypeInv, NEW p \in Pane, NEW s \in Slot, Kept(p), Held(p),
           Compare(p, s) \/ MergeProse(p, s) \/ CompareFails(p, s)
    PROVE  Kept(p)'
<1>1. Held(p)'
    <2>1. CASE \E r \in Text : Adopt(p, s, r) /\ Compare(p, s)
        <3>1. PICK r \in Text : Adopt(p, s, r) /\ Compare(p, s)
            BY <2>1
        <3>2. ~pane'[p].dirty
            BY <3>1, AdoptShape DEF Compare
        <3> QED  BY <3>2 DEF Held
    <2>2. CASE GiveUp(p, s)
        BY <2>2, AskedIsHeld DEF GiveUp
    <2>3. CASE Asks(p, [by |-> "merge", slot |-> s])
        <3>1. [by |-> "merge", slot |-> s] \in Call
            BY DEF Call
        <3> QED  BY <2>3, <3>1, CallIsHeld
    <2>4. CASE \E l : ladder' = [ladder EXCEPT ![p][s] = l] /\ l.stage = "merge"
        <3>1. PICK l : ladder' = [ladder EXCEPT ![p][s] = l] /\ l.stage = "merge"
            BY <2>4
        <3>2. ladder'[p][s] = l
            BY <3>1 DEF TypeInv, Shapes
        <3>3. ladder'[p][s] # NoLadder
            BY <3>1, <3>2, NoneIsNoRequest
        <3> QED  BY <3>3, OnLadderIsHeld
    <2>5. CASE Compare(p, s)
        <3>1. disk[p] \in Text
            BY DEF TypeInv, Shapes
        <3>2. \/ Adopt(p, s, disk[p]) \/ GiveUp(p, s) \/ Asks(p, [by |-> "merge", slot |-> s])
              \/ \E l : ladder' = [ladder EXCEPT ![p][s] = l] /\ l.stage = "merge"
            <4> DEFINE L(fields) == [stage |-> "merge", kind |-> ladder[p][s].kind,
                         remote |-> disk[p], base |-> pane[p].base,
                         local |-> Prose(pane[p].draft), fields |-> fields]
            <4>1. \A fields : L(fields).stage = "merge"
                OBVIOUS
            <4>2. \/ Adopt(p, s, disk[p]) \/ GiveUp(p, s)
                  \/ Asks(p, [by |-> "merge", slot |-> s])
                  \/ \E fields : ladder' = [ladder EXCEPT ![p][s] = L(fields)]
                BY <2>5 DEF Compare, Resave, TypeInv, Shapes
            <4> HIDE DEF L
            <4> QED  BY <4>1, <4>2
        <3> QED  BY <2>1, <2>2, <2>3, <2>4, <2>5, <3>1, <3>2
    <2>6. CASE MergeProse(p, s) \/ CompareFails(p, s)
        BY <2>2, <2>3, <2>6 DEF MergeProse, CompareFails, Resave
    <2> QED  BY <2>5, <2>6
<1>2. put' = put
    BY DEF Compare, MergeProse, CompareFails
<1>3. story'[p].waited = story[p].waited
    BY DEF Compare, MergeProse, CompareFails, Adopt, GiveUp, Resave, TypeInv, Shapes, Story
<1> QED  BY <1>1, <1>2, <1>3, StillHeld

LEMMA FetchedIsKept ==
    ASSUME TypeInv, NEW p \in Pane, Kept(p),
           StartReload(p) \/ FinishReload(p) \/ FinishRename(p)
    PROVE  Kept(p)'
<1>1. CASE StartReload(p)
    BY <1>1, StillKept DEF StartReload
<1>2. CASE FinishReload(p) \/ FinishRename(p)
    <2>1. UNCHANGED <<chain, put, ladder, modal, confirm, story>>
        BY <1>2 DEF FinishReload, FinishRename
    <2>2. /\ pane'[p].open = pane[p].open
          /\ pane'[p].dirty => pane[p].dirty
          /\ pane'[p].dirty => pane'[p].ceiling = pane[p].ceiling
        BY <1>2, FetchedKeeps
    <2> QED  BY <2>1, <2>2 DEF Kept, Held, Ladders
<1> QED  BY <1>1, <1>2

LEMMA ServedIsKept ==
    ASSUME TypeInv, NEW p \in Pane, Kept(p),
           \/ Server(p) \/ \E how \in {"refused", "failed"} : ServerFails(p, how)
           \/ \E m \in OutMark : OutsideWrite(p, m) \/ RenameInTree(p, m)
    PROVE  Kept(p)'
<1>1. UNCHANGED <<pane, chain, ladder, modal, confirm>>
    BY DEF Server, ServerCheck, ServerWrite, ServerReply, ServerFails, OutsideWrite, RenameInTree
<1>2. put'[p] # None => put[p] # None
    BY DEF Server, ServerCheck, ServerWrite, ServerReply, ServerFails, OutsideWrite,
           RenameInTree, None
<1>3. story'[p].told = story[p].told /\ story'[p].waited = story[p].waited
    <2>1. CASE \E m \in OutMark : Outside(p, m)
        BY <2>1 DEF Outside, TypeInv, Shapes, Story
    <2>2. CASE Server(p) \/ \E how \in {"refused", "failed"} : ServerFails(p, how)
        BY <2>2 DEF Server, ServerCheck, ServerWrite, ServerReply, ServerFails,
                    TypeInv, Shapes, Story
    <2> QED  BY <2>1, <2>2 DEF OutsideWrite, RenameInTree
<1> QED  BY <1>1, <1>2, <1>3, StillKept

\* Each tick takes from the ceiling what it adds to the waiting.
LEMMA TickedIsKept ==
    ASSUME TypeInv, NEW p \in Pane, Kept(p), Tick
    PROVE  Kept(p)'
<1>1. UNCHANGED <<chain, put, ladder, modal, confirm>>
    BY DEF Tick
<1>2. pane[p] \in PaneRec /\ story[p] \in Story
    BY DEF TypeInv, Shapes
<1>3. /\ pane'[p].open = pane[p].open /\ pane'[p].dirty = pane[p].dirty
      /\ pane'[p].ceiling = Less(pane[p].ceiling)
    BY <1>2 DEF Tick, PaneRec
<1>4. /\ story'[p].told = story[p].told
      /\ story'[p].waited = IF Waiting(p) THEN story[p].waited + 1 ELSE 0
    BY <1>2 DEF Tick, Story
<1>5. Held(p)' <=> Held(p)
    BY <1>1, <1>3, <1>4 DEF Held, Ladders
<1>6. story[p].waited \in Nat /\ pane[p].ceiling \in Ticks(MaxWait)
    BY <1>2 DEF Story, PaneRec
<1>7. CASE Held(p)
    <2>1. ~Waiting(p)
        BY <1>7 DEF Held, Waiting, NobodyAsked
    <2> QED  BY <1>4, <1>5, <1>7, <2>1, EditorSaveAssumption DEF Kept
<1>8. CASE ~Held(p)
    <2>1. pane[p].ceiling \in 1..MaxWait /\ put[p] = None
          /\ story[p].waited + pane[p].ceiling <= MaxWait
        <3>1. pane[p].ceiling # 0
            BY DEF Tick, Due
        <3> QED  BY <1>6, <1>8, <3>1, Unheld DEF Ticks
    <2>2. pane'[p].ceiling = pane[p].ceiling - 1
        BY <1>3, <2>1, EditorSaveAssumption DEF Less
    <2>3. story'[p].waited = 0 \/ story'[p].waited = story[p].waited + 1
        BY <1>4
    <2> QED  BY <1>1, <1>6, <2>1, <2>2, <2>3, EditorSaveAssumption DEF Kept, Off
<1> QED  BY <1>7, <1>8

KeptInv == TypeInv /\ \A p \in Pane : Kept(p)

LEMMA InitKept == Init => KeptInv
<1> SUFFICES ASSUME Init, NEW p \in Pane PROVE Kept(p)
    BY InitSound DEF KeptInv
<1> QED  BY EditorSaveAssumption DEF Init, Kept, Held

LEMMA StepKept ==
    ASSUME \A x, y \in Pane : x = y
    PROVE  KeptInv /\ [Next]_vars => KeptInv'
<1> SUFFICES ASSUME KeptInv, [Next]_vars, NEW p \in Pane PROVE Kept(p)'
    BY StepKeeps DEF KeptInv
<1>1. TypeInv /\ Kept(p)
    BY DEF KeptInv
<1>2. CASE Tick
    BY <1>1, <1>2, TickedIsKept
<1>3. CASE Author(p)
    BY <1>1, <1>3, TypedIsKept, FiredIsKept, ClosedIsKept, DialogIsKept, ReconcileIsKept,
       FetchedIsKept, ServedIsKept DEF Author
<1>4. CASE Window(p)
    <2>1. \A s \in Slot : Compare(p, s) \/ MergeProse(p, s) => Held(p)
        BY NoneIsNoRequest DEF Compare, MergeProse, Held, Ladders
    <2> QED  BY <1>1, <1>4, <2>1, FiredIsKept, StartedIsKept, ReceivedIsKept, ClimbingIsKept,
                FetchedIsKept DEF Window
<1>5. CASE Server(p) \/ Mishap(p)
    <2>1. \A s \in Slot : CompareFails(p, s) => Held(p)
        BY NoneIsNoRequest DEF CompareFails, Held, Ladders
    <2> QED  BY <1>1, <1>5, <2>1, ServedIsKept, ClimbingIsKept DEF Mishap
<1>6. CASE UNCHANGED vars
    BY <1>1, <1>6, StillKept DEF vars
<1>7. (\E x \in Pane : Author(x) \/ Window(x) \/ Server(x) \/ Mishap(x))
        => Author(p) \/ Window(p) \/ Server(p) \/ Mishap(p)
    <2> SUFFICES ASSUME NEW x \in Pane, Author(x) \/ Window(x) \/ Server(x) \/ Mishap(x)
                 PROVE  Author(p) \/ Window(p) \/ Server(p) \/ Mishap(p)
        OBVIOUS
    <2>1. x = p
        OBVIOUS
    <2> QED  BY <2>1
<1> QED  BY <1>2, <1>3, <1>4, <1>5, <1>6, <1>7 DEF Next

\* SavesInTime: in a window of one pane, an author who never stops typing
\* waits no longer for a save than the ceiling timer runs.
THEOREM SavedInTime ==
    ASSUME \A x, y \in Pane : x = y
    PROVE  Spec => []SavesInTime
<1>1. KeptInv => SavesInTime
    BY DEF KeptInv, Kept, SavesInTime
<1>2. KeptInv /\ [Next]_vars => KeptInv'
    BY StepKept
<1> QED  BY InitKept, <1>1, <1>2, PTL DEF Spec

\* NeverForgotten: in a window of one pane, unsaved text has a timer running,
\* a save or a conflict under way, a dialog open, or an author who knows.
THEOREM NothingForgotten ==
    ASSUME \A x, y \in Pane : x = y
    PROVE  Spec => []NeverForgotten
<1>1. KeptInv => NeverForgotten
    BY DEF KeptInv, Kept, Held, NeverForgotten
<1>2. KeptInv /\ [Next]_vars => KeptInv'
    BY StepKept
<1> QED  BY InitKept, <1>1, <1>2, PTL DEF Spec

-----------------------------------------------------------------------------
(* A pane's own saves never conflict with one another *)

\* Nothing has come between: nobody else wrote and no answer got lost
Quiet(p) == ~story[p].excuse /\ story[p].fails = 0

\* What the pane takes for the file's revision is the file's, and the answer
\* that is on its way says it again.  A merge is only begun with an answer
\* on its way, and finds one change on both sides.
InStep(p) ==
    /\ put[p].phase \notin {"conflict", "refused", "failed"}
    /\ put[p].phase \in {"sent", "checked"} => put[p].rev = disk[p]
    /\ put[p].phase \in {"written", "ok"} => put[p].text = disk[p]
    /\ pane[p].open =>
         /\ pane[p].base = pane[p].rev
         /\ put[p].phase \in {"written", "ok"} \/ pane[p].rev = disk[p]
    /\ fetch[p].phase # "rename"
    /\ \A s \in Slot : ladder[p][s].stage = "merge" =>
         ~Apart(Prose(ladder[p][s].base), ladder[p][s].local, Prose(ladder[p][s].remote))

Agreed(p) == Quiet(p) => InStep(p)

\* The part of a pane that a save is about
SameSave(q, r) == r.open => q.open /\ r.base = q.base /\ r.rev = q.rev

\* A step that leaves all of that alone
LEMMA StaysAgreed ==
    ASSUME NEW p \in Pane, Agreed(p), Quiet(p)' => Quiet(p),
           disk'[p] = disk[p], put'[p] = put[p], fetch'[p].phase = "rename" => fetch[p].phase = "rename",
           SameSave(pane[p], pane'[p]),
           \A s \in Slot : ladder'[p][s].stage = "merge" => ladder'[p][s] = ladder[p][s]
    PROVE  Agreed(p)'
BY DEF Agreed, InStep, SameSave

LEMMA TimersAreNoSave ==
    ASSUME NEW q \in PaneRec
    PROVE  /\ SameSave(q, q) /\ SameSave(q, Cancelled(q)) /\ SameSave(q, Scheduled(q))
           /\ SameSave(q, RetryScheduled(q)) /\ SameSave(q, TornDown(q))
<1>1. SameSave(q, q) /\ SameSave(q, Cancelled(q))
    BY CancelledPane DEF SameSave
<1>2. SameSave(q, TornDown(q))
    BY TornDownPane DEF SameSave
<1>3. SameSave(q, Scheduled(q)) /\ SameSave(q, RetryScheduled(q))
    BY <1>1 DEF SameSave, Scheduled, RetryScheduled, Cancelled, PaneRec
<1> QED  BY <1>1, <1>2, <1>3

\* The author's own steps and the passing of time
LEMMA AuthorAgrees ==
    ASSUME TypeInv, NEW p \in Pane, Agreed(p),
           \/ \E m \in OwnMark : Type(p, m)
           \/ \E by \in {"auto", "flush"} : Flush(p, by)
           \/ Close(p) \/ KeepEditing(p) \/ Overwrite(p) \/ Discard(p) \/ KeepOpen(p)
           \/ StartReload(p) \/ Reconcile(p) \/ Fire(p) \/ Tick
    PROVE  Agreed(p)'
<1>0. pane[p] \in PaneRec /\ story[p] \in Story
    BY DEF TypeInv, Shapes
<1>1. disk' = disk /\ put' = put
    BY DEF Type, Flush, Close, KeepEditing, Overwrite, Discard, KeepOpen, StartReload, Reconcile,
           Fire, Tick
<1>2. Quiet(p)' => Quiet(p)
    <2>1. story'[p].excuse = story[p].excuse /\ story'[p].fails = story[p].fails
        <3>1. CASE \E m \in OwnMark : Type(p, m)
            <4>1. PICK m \in OwnMark : Type(p, m)
                BY <3>1
            <4>2. story'[p].excuse = story[p].excuse
                BY <4>1 DEF Type, TypeInv, Shapes, Story
            <4>3. story'[p].fails = story[p].fails
                BY <4>1 DEF Type, TypeInv, Shapes, Story
            <4> QED  BY <4>2, <4>3
        <3>2. CASE Discard(p)
            BY <1>0, <3>2 DEF Discard, TypeInv, Shapes, Story
        <3>3. CASE Tick
            BY <1>0, <3>3 DEF Tick, Story
        <3>4. CASE story' = story \/ story' = Told(p)
            BY <1>0, <3>4 DEF Told, TypeInv, Shapes, Story
        <3> QED
            BY <3>1, <3>2, <3>3, <3>4 DEF Flush, Close, KeepEditing, Overwrite, KeepOpen,
                   StartReload, Reconcile, Fire
    <2> QED  BY <2>1 DEF Quiet
<1>3. fetch'[p].phase = "rename" => fetch[p].phase = "rename"
    <2>1. CASE \E m \in OwnMark : Type(p, m)
        BY <2>1 DEF Type, MayType
    <2>2. CASE StartReload(p)
        BY <2>2 DEF StartReload, TypeInv, Shapes
    <2>3. CASE fetch' = fetch
        BY <2>3
    <2> QED
        BY <2>1, <2>2, <2>3 DEF Flush, Close, KeepEditing, Overwrite, Discard, KeepOpen,
               Reconcile, Fire, Tick
<1>4. SameSave(pane[p], pane'[p])
    <2>1. CASE \E m \in OwnMark : Type(p, m)
        <3>1. PICK m \in OwnMark : Type(p, m)
            BY <2>1
        <3> DEFINE text == IF m \notin pane[p].draft THEN Set(pane[p].draft, m) ELSE pane[p].draft \ {m}
                   typed == [pane[p] EXCEPT !.draft = text, !.dirty = text # pane[p].base]
        <3>2. text \in Text
            BY <1>0, SetIsText DEF PaneRec, Text, Mark
        <3>3. typed \in PaneRec /\ SameSave(pane[p], typed)
            BY <1>0, <3>2 DEF PaneRec, SameSave
        <3>4. pane' = [pane EXCEPT ![p] = Scheduled(typed)]
            BY <3>1 DEF Type
        <3> HIDE DEF typed
        <3>5. pane'[p] = Scheduled(typed)
            BY <3>4 DEF TypeInv, Shapes
        <3> QED  BY <3>3, <3>5, TimersAreNoSave DEF SameSave
    <2>2. CASE Tick
        BY <1>0, <2>2 DEF Tick, SameSave, PaneRec
    <2>3. CASE pane'[p] \in {pane[p], Cancelled(pane[p]), TornDown(pane[p])}
        BY <1>0, <2>3, TimersAreNoSave
    <2> QED
        BY <2>1, <2>2, <2>3 DEF Flush, Close, KeepEditing, Overwrite, Discard, KeepOpen,
               StartReload, Reconcile, Fire, TypeInv, Shapes
<1>5. \A s \in Slot : ladder'[p][s].stage = "merge" => ladder'[p][s] = ladder[p][s]
    <2>1. CASE ladder' = ladder
        BY <2>1
    <2>2. CASE Climb(p, "auto")
        BY <2>2 DEF Climb, TypeInv, Shapes
    <2> QED
        BY <2>1, <2>2 DEF Type, Flush, Close, KeepEditing, Overwrite, Discard, KeepOpen,
               StartReload, Reconcile, Fire, Tick
<1> QED  BY <1>1, <1>2, <1>3, <1>4, <1>5, StaysAgreed

\* A save takes the revision with it
LEMMA StartAgrees ==
    ASSUME TypeInv, NEW p \in Pane, Agreed(p), StartSave(p)
    PROVE  Agreed(p)'
<1>0. pane[p] \in PaneRec /\ put[p] = None
    BY DEF TypeInv, Shapes, StartSave, Calm
<1> DEFINE c == Head(chain[p])
           q == pane[p]
<1>1. CASE q.open /\ (q.dirty \/ Forced(c))
    <2> DEFINE r == [Cancelled(q) EXCEPT !.saving = TRUE]
               u == [phase |-> "sent", text |-> q.draft, rev |-> q.rev, forced |-> Forced(c)]
    <2>1. SameSave(q, r)
        <3>1. SameSave(q, Cancelled(q)) /\ Cancelled(q) \in PaneRec
            BY <1>0, TimersAreNoSave, CancelledPane
        <3> QED  BY <3>1 DEF SameSave, PaneRec
    <2>2. /\ pane' = [pane EXCEPT ![p] = r] /\ put' = [put EXCEPT ![p] = u]
          /\ story' = [story EXCEPT ![p].waited = 0]
          /\ UNCHANGED <<disk, ladder, fetch>>
        BY <1>1 DEF StartSave
    <2>3. u.phase = "sent" /\ u.rev = q.rev
        OBVIOUS
    <2> HIDE DEF r, u
    <2>4. pane'[p] = r /\ put'[p] = u /\ (Quiet(p)' => Quiet(p))
        BY <2>2 DEF TypeInv, Shapes, Story, Quiet
    <2>5. None.phase = "none"
        BY NoneIsNoRequest
    <2> QED  BY <1>0, <1>1, <2>1, <2>2, <2>3, <2>4, <2>5 DEF Agreed, InStep, SameSave
<1>2. CASE ~(q.open /\ (q.dirty \/ Forced(c)))
    <2>1. Resolved(p, c, q) /\ UNCHANGED <<disk, put, fetch, story>>
        BY <1>2 DEF StartSave
    <2>2. pane'[p] \in {q, TornDown(q)}
        BY <2>1 DEF Resolved, TypeInv, Shapes
    <2>3. SameSave(q, pane'[p])
        BY <1>0, <2>2, TimersAreNoSave
    <2>4. \A s \in Slot : ladder'[p][s].stage = "merge" => ladder'[p][s] = ladder[p][s]
        BY <2>1, NoneIsNoRequest DEF Resolved, TypeInv, Shapes
    <2> QED  BY <2>1, <2>3, <2>4, StaysAgreed DEF Quiet
<1> QED  BY <1>1, <1>2

\* ... and comes back with the one it wrote
LEMMA ReceiveAgrees ==
    ASSUME TypeInv, NEW p \in Pane, Agreed(p), Receive(p)
    PROVE  Agreed(p)'
<1> DEFINE c == Head(chain[p])
           q == pane[p]
           next == Adopted(q, put[p].text)
           got == IF ~q.open THEN q ELSE IF next.dirty THEN Scheduled(next) ELSE next
<1> SUFFICES ASSUME Quiet(p)' PROVE InStep(p)'
    BY DEF Agreed
<1>1. put[p] # None /\ q \in PaneRec /\ put[p].text \in Text /\ put'[p] = None
    BY DEF Receive, None, TypeInv, Shapes, Put
<1>2. Quiet(p)
    BY DEF Receive, Rejected, Told, Quiet, TypeInv, Shapes, Story
<1>3. InStep(p)
    BY <1>2 DEF Agreed
<1>4. put[p].phase = "ok"
    BY <1>3 DEF InStep, Receive
<1>5. Resolved(p, c, got) /\ UNCHANGED <<disk, fetch>>
    BY <1>4 DEF Receive
<1>6. put[p].text = disk[p]
    BY <1>3, <1>4 DEF InStep
<1>7. got.open => got.base = disk[p] /\ got.rev = disk[p]
    <2>1. next \in PaneRec /\ next.base = disk[p] /\ next.rev = disk[p] /\ next.open = q.open
        BY <1>1, <1>6, AdoptedPane DEF Adopted, PaneRec
    <2> HIDE DEF next
    <2>2. SameSave(next, Scheduled(next)) /\ SameSave(next, next)
        BY <2>1, TimersAreNoSave
    <2> QED  BY <2>1, <2>2 DEF SameSave
<1>8. got \in PaneRec
    <2>1. next \in PaneRec
        BY <1>1, AdoptedPane
    <2> HIDE DEF next
    <2> QED  BY <1>1, <2>1, ScheduledPane
<1> HIDE DEF got
<1>9. pane'[p] \in {got, TornDown(got)}
    BY <1>5 DEF Resolved, TypeInv, Shapes
<1>10. pane'[p].open => pane'[p].base = disk'[p] /\ pane'[p].rev = disk'[p]
    <2>1. ~TornDown(got).open
        BY <1>8, TornDownPane
    <2> QED  BY <1>5, <1>7, <1>9, <2>1
<1>11. \A s \in Slot : ladder'[p][s].stage = "merge" => ladder'[p][s] = ladder[p][s]
    BY <1>5, NoneIsNoRequest DEF Resolved, TypeInv, Shapes
<1>12. put'[p].phase = "none"
    BY <1>1, NoneIsNoRequest
<1> QED  BY <1>3, <1>5, <1>10, <1>11, <1>12 DEF InStep

\* The server finds the revision it expects; others and mishaps are excuses
LEMMA ServerAgrees ==
    ASSUME TypeInv, NEW p \in Pane, Agreed(p),
           \/ Server(p) \/ \E how \in {"refused", "failed"} : ServerFails(p, how)
           \/ \E m \in OutMark : OutsideWrite(p, m) \/ RenameInTree(p, m)
    PROVE  Agreed(p)'
<1> SUFFICES ASSUME Quiet(p)' PROVE InStep(p)'
    BY DEF Agreed
<1>1. story[p] \in Story /\ put[p] \in Put
    BY DEF TypeInv, Shapes
<1>2. ~\E m \in OutMark : OutsideWrite(p, m) \/ RenameInTree(p, m)
    <2>1. ASSUME NEW m \in OutMark, Outside(p, m) PROVE story'[p].excuse
        BY <1>1, <2>1 DEF Outside, TypeInv, Shapes, Story
    <2> QED  BY <2>1 DEF OutsideWrite, RenameInTree, Quiet
<1>3. ~\E how \in {"refused", "failed"} : ServerFails(p, how)
    <2>1. ASSUME NEW how \in {"refused", "failed"}, ServerFails(p, how)
          PROVE  story'[p].fails = story[p].fails + 1
        BY <1>1, <2>1 DEF ServerFails, TypeInv, Shapes, Story
    <2>2. story[p].fails + 1 # 0
        BY <1>1 DEF Story
    <2> QED  BY <2>1, <2>2 DEF Quiet
<1>4. Server(p) /\ put[p] # None /\ UNCHANGED <<pane, ladder, fetch>>
    BY <1>2, <1>3 DEF Server, ServerCheck, ServerWrite, ServerReply, None
<1>5. Quiet(p)
    <2>1. story'[p].excuse = story[p].excuse /\ story'[p].fails = story[p].fails
        <3>1. CASE ServerWrite(p)
            BY <1>1, <3>1 DEF ServerWrite, TypeInv, Shapes, Story
        <3>2. CASE ServerCheck(p) \/ ServerReply(p)
            BY <3>2 DEF ServerCheck, ServerReply
        <3> QED  BY <1>4, <3>1, <3>2 DEF Server
    <2> QED  BY <2>1 DEF Quiet
<1>6. InStep(p)
    BY <1>5 DEF Agreed
<1>7. CASE ServerCheck(p)
    <2>1. put[p].phase = "sent" /\ put[p].rev = disk[p] /\ Current(put[p], disk[p])
        BY <1>6, <1>7 DEF ServerCheck, InStep, Current
    <2>2. put' = [put EXCEPT ![p] = [put[p] EXCEPT !.phase = "checked"]] /\ disk' = disk
        BY <1>7, <2>1 DEF ServerCheck, TypeInv, Shapes
    <2>3. put'[p].phase = "checked" /\ put'[p].rev = put[p].rev
        BY <1>1, <1>4, <2>2 DEF Put, TypeInv, Shapes
    <2> QED  BY <1>4, <1>6, <2>1, <2>2, <2>3 DEF InStep
<1>8. CASE ServerWrite(p)
    <2>1. put[p].phase = "checked" /\ disk'[p] = put[p].text
        BY <1>8 DEF ServerWrite, TypeInv, Shapes
    <2>2. put' = [put EXCEPT ![p] = [put[p] EXCEPT !.phase = "written"]]
        BY <1>8 DEF ServerWrite, TypeInv, Shapes
    <2>3. put'[p].phase = "written" /\ put'[p].text = put[p].text
        BY <1>1, <1>4, <2>2 DEF Put, TypeInv, Shapes
    <2> QED  BY <1>4, <1>6, <2>1, <2>3 DEF InStep
<1>9. CASE ServerReply(p)
    <2>1. put' = [put EXCEPT ![p] = [put[p] EXCEPT !.phase = "ok", !.text = disk[p]]] /\ disk' = disk
          /\ put[p].phase = "written"
        BY <1>9 DEF ServerReply, TypeInv, Shapes
    <2>2. put'[p].phase = "ok" /\ put'[p].text = disk'[p]
        BY <1>1, <1>4, <2>1 DEF Put, TypeInv, Shapes
    <2> QED  BY <1>4, <1>6, <2>1, <2>2 DEF InStep
<1> QED  BY <1>4, <1>7, <1>8, <1>9 DEF Server

\* The ladder leaves the pane with the file's revision
LEMMA LadderAgrees ==
    ASSUME "undone" \notin Gaps, TypeInv, NEW p \in Pane, NEW s \in Slot, Agreed(p),
           Compare(p, s) \/ MergeProse(p, s) \/ CompareFails(p, s)
    PROVE  Agreed(p)'
<1> SUFFICES ASSUME Quiet(p)' PROVE InStep(p)'
    BY DEF Agreed
<1>0. /\ pane[p] \in PaneRec /\ story[p] \in Story /\ disk[p] \in Text /\ put[p] \in Put
      /\ ladder[p][s] \in Ladder
    BY DEF TypeInv, Shapes
<1>1. ~CompareFails(p, s)
    <2>1. CompareFails(p, s) => story'[p].excuse
        BY <1>0 DEF CompareFails, TypeInv, Shapes, Story
    <2> QED  BY <2>1 DEF Quiet
<1>2. story' = story /\ UNCHANGED <<disk, put, fetch>>
    BY <1>1 DEF Compare, MergeProse, Adopt, Resave
<1>3. Quiet(p) /\ InStep(p)
    BY <1>2 DEF Quiet, Agreed
<1>4. CASE GiveUp(p, s)
    <2>1. \A x \in Slot : ladder'[p][x].stage = "merge" => ladder'[p][x] = ladder[p][x]
        BY <1>4, NoneIsNoRequest DEF GiveUp, TypeInv, Shapes
    <2>2. pane' = pane
        BY <1>4 DEF GiveUp
    <2> QED  BY <1>2, <1>3, <2>1, <2>2 DEF InStep
<1>5. CASE MergeProse(p, s)
    <2>1. GiveUp(p, s)
        BY <1>3, <1>5 DEF MergeProse, InStep
    <2> QED  BY <1>4, <2>1
<1>6. CASE Compare(p, s) /\ Adopt(p, s, disk[p])
    <2> DEFINE q == [Cancelled(pane[p]) EXCEPT !.base = disk[p], !.rev = disk[p], !.dirty = FALSE]
    <2>1. pane'[p] \in {q, TornDown(q)}
        BY <1>6 DEF Adopt, TypeInv, Shapes
    <2>2. q \in PaneRec /\ q.base = disk[p] /\ q.rev = disk[p]
        <3>1. Cancelled(pane[p]) \in PaneRec
            BY <1>0, CancelledPane
        <3> QED  BY <1>0, <3>1 DEF PaneRec
    <2> HIDE DEF q
    <2>3. pane'[p].open => pane'[p].base = disk[p] /\ pane'[p].rev = disk[p]
        BY <2>1, <2>2, TornDownPane
    <2>4. \A x \in Slot : ladder'[p][x].stage = "merge" => ladder'[p][x] = ladder[p][x]
        BY <1>6, NoneIsNoRequest DEF Adopt, TypeInv, Shapes
    <2> QED  BY <1>2, <1>3, <2>3, <2>4 DEF InStep
<1>7. CASE \E text : Compare(p, s) /\ Resave(p, s, disk[p], text)
    <2>1. PICK text : Resave(p, s, disk[p], text)
        BY <1>7
    <2>2. pane'[p] = IF pane[p].open THEN Patched(pane[p], disk[p], text) ELSE pane[p]
        BY <2>1 DEF Resave, TypeInv, Shapes
    <2>3. pane'[p].open => pane'[p].base = disk[p] /\ pane'[p].rev = disk[p]
        BY <1>0, <2>2 DEF Patched, Cancelled, PaneRec
    <2>4. \A x \in Slot : ladder'[p][x].stage = "merge" => ladder'[p][x] = ladder[p][x]
        BY <2>1 DEF Resave, TypeInv, Shapes
    <2> QED  BY <1>2, <1>3, <2>3, <2>4 DEF InStep
<1>8. CASE /\ Compare(p, s) /\ pane[p].open /\ Prose(disk[p]) # Prose(pane[p].base)
           /\ \E fields : ladder' = [ladder EXCEPT ![p][s] =
                     [stage |-> "merge", kind |-> @.kind, remote |-> disk[p],
                      base |-> pane[p].base, local |-> Prose(pane[p].draft), fields |-> fields]]
           /\ pane' = pane
    <2> DEFINE base == pane[p].base
               draft == pane[p].draft
    <2>1. put[p].phase \in {"written", "ok"} /\ put[p].text = disk[p] /\ put[p] # None
        BY <1>3, <1>8, NoneIsNoRequest DEF InStep
    <2>2. Changed(disk[p], base) \cap Changed(disk[p], draft) = {}
        BY <1>8, <2>1 DEF Compare, TakenBack
    <2>3. PICK m \in Mark : m \in Changed(Prose(base), Prose(disk[p]))
        BY <1>0, <1>8 DEF Changed, Prose, PaneRec, Text
    <2>4. m \in Changed(Prose(base), Prose(draft))
        BY <2>2, <2>3 DEF Changed, Prose
    <2>5. m \in Nat
        BY EditorSaveAssumption DEF Mark
    <2>6. ~Apart(Prose(base), Prose(draft), Prose(disk[p]))
        BY <2>3, <2>4, <2>5 DEF Apart
    <2>7. \A x \in Slot : ladder'[p][x].stage = "merge" =>
             \/ ladder'[p][x] = ladder[p][x]
             \/ /\ ladder'[p][x].base = base /\ ladder'[p][x].local = Prose(draft)
                /\ ladder'[p][x].remote = disk[p]
        BY <1>8 DEF TypeInv, Shapes
    <2>8. ASSUME NEW x \in Slot, ladder'[p][x].stage = "merge"
          PROVE  ~Apart(Prose(ladder'[p][x].base), ladder'[p][x].local, Prose(ladder'[p][x].remote))
        BY <1>3, <2>6, <2>7, <2>8 DEF InStep
    <2> QED  BY <1>2, <1>3, <1>8, <2>8 DEF InStep
<1> QED  BY <1>1, <1>4, <1>5, <1>6, <1>7, <1>8 DEF Compare

\* A reload that is answered
LEMMA FetchAgrees ==
    ASSUME TypeInv, NEW p \in Pane, Agreed(p), FinishReload(p) \/ FinishRename(p)
    PROVE  Agreed(p)'
<1> SUFFICES ASSUME Quiet(p)' PROVE InStep(p)'
    BY DEF Agreed
<1>0. pane[p] \in PaneRec /\ disk[p] \in Text
    BY DEF TypeInv, Shapes
<1>1. UNCHANGED <<disk, put, ladder, story>> /\ fetch'[p] = None
    BY DEF FinishReload, FinishRename, TypeInv, Shapes
<1>2. InStep(p)
    BY <1>1 DEF Quiet, Agreed
<1>3. FinishReload(p)
    BY <1>2 DEF InStep, FinishRename
<1>4. pane'[p].open => pane'[p].base = disk[p] /\ pane'[p].rev = disk[p]
    BY <1>0, <1>3 DEF FinishReload, Cancelled, PaneRec, TypeInv, Shapes
<1> QED  BY <1>1, <1>2, <1>4, NoneIsNoRequest DEF InStep

\* What goes on in another pane
LEMMA ElsewhereAgrees ==
    ASSUME TypeInv, NEW p \in Pane, NEW x \in Pane, x # p, Agreed(p),
           Author(x) \/ Window(x) \/ Server(x) \/ Mishap(x)
    PROVE  Agreed(p)'
<1>1. /\ disk'[p] = disk[p] /\ put'[p] = put[p] /\ fetch'[p] = fetch[p] /\ story'[p] = story[p]
      /\ pane'[p] = pane[p] /\ ladder'[p] = ladder[p]
    <2>1. CASE Author(x)
        BY <2>1 DEF Author, Type, Flush, Close, KeepEditing, Overwrite, Discard, KeepOpen,
               StartReload, Reconcile, Climb, RenameInTree, Outside, Told, TypeInv, Shapes
    <2>2. CASE Window(x)
        <3>1. CASE Fire(x) \/ StartSave(x) \/ FinishReload(x) \/ FinishRename(x)
            BY <3>1 DEF Fire, StartSave, Resolved, FinishReload, FinishRename, TypeInv, Shapes
        <3>2. CASE Receive(x)
            BY <3>2 DEF Receive, Resolved, Rejected, Climb, Told, TypeInv, Shapes
        <3>3. CASE \E s \in Slot : Compare(x, s) \/ MergeProse(x, s)
            BY <3>3 DEF Compare, MergeProse, Adopt, GiveUp, Resave, TypeInv, Shapes
        <3> QED  BY <2>2, <3>1, <3>2, <3>3 DEF Window
    <2>3. CASE Server(x) \/ Mishap(x)
        BY <2>3 DEF Server, Mishap, ServerCheck, ServerWrite, ServerReply, ServerFails,
               CompareFails, GiveUp, OutsideWrite, Outside, TypeInv, Shapes
    <2> QED  BY <2>1, <2>2, <2>3
<1> QED  BY <1>1 DEF Agreed, Quiet, InStep

AgreedInv == TypeInv /\ \A p \in Pane : Agreed(p)

LEMMA InitAgreed == Init => AgreedInv
<1> SUFFICES ASSUME Init, NEW p \in Pane PROVE InStep(p)
    BY InitSound DEF AgreedInv, Agreed
<1> QED  BY NoneIsNoRequest DEF Init, InStep

LEMMA StepAgreed ==
    ASSUME "undone" \notin Gaps
    PROVE  AgreedInv /\ [Next]_vars => AgreedInv'
<1> SUFFICES ASSUME AgreedInv, [Next]_vars, NEW p \in Pane PROVE Agreed(p)'
    BY StepKeeps DEF AgreedInv
<1>1. TypeInv /\ Agreed(p)
    BY DEF AgreedInv
<1>2. CASE UNCHANGED vars
    BY <1>1, <1>2 DEF vars, Agreed, Quiet, InStep
<1>3. CASE Tick
    BY <1>1, <1>3, AuthorAgrees
<1>4. CASE Author(p) \/ Window(p) \/ Server(p) \/ Mishap(p)
    <2>1. CASE Author(p)
        BY <1>1, <2>1, AuthorAgrees, ServerAgrees DEF Author
    <2>2. CASE Window(p)
        BY <1>1, <2>2, AuthorAgrees, StartAgrees, ReceiveAgrees, LadderAgrees, FetchAgrees DEF Window
    <2>3. CASE Server(p) \/ Mishap(p)
        BY <1>1, <2>3, ServerAgrees, LadderAgrees DEF Mishap
    <2> QED  BY <1>4, <2>1, <2>2, <2>3
<1>5. CASE \E x \in Pane : x # p /\ (Author(x) \/ Window(x) \/ Server(x) \/ Mishap(x))
    BY <1>1, <1>5, ElsewhereAgrees
<1> QED  BY <1>2, <1>3, <1>4, <1>5 DEF Next

\* OnlyOthersConflict: with any number of panes, a pane's own saves never meet
\* a revision conflict unless an answer got lost or somebody else wrote, however
\* saves, conflicts, merges and reloads overlap (the save chain, the ladder and
\* the revision check together).  Text that was written and taken back before
\* the answer came is left out.
THEOREM OwnSavesAgree ==
    ASSUME "undone" \notin Gaps
    PROVE  Spec => []OnlyOthersConflict
<1>1. AgreedInv => OnlyOthersConflict
    <2> SUFFICES ASSUME AgreedInv, NEW p \in Pane, put[p].phase = "conflict", ~story[p].excuse
                 PROVE  story[p].fails > 0
        BY DEF OnlyOthersConflict
    <2>1. story[p].fails \in Nat
        BY DEF AgreedInv, TypeInv, Shapes, Story
    <2>2. story[p].fails # 0
        BY DEF AgreedInv, Agreed, Quiet, InStep
    <2> QED  BY <2>1, <2>2
<1>2. AgreedInv /\ [Next]_vars => AgreedInv'
    BY StepAgreed
<1> QED  BY InitAgreed, <1>1, <1>2, PTL DEF Spec

-----------------------------------------------------------------------------
(* No edit is lost: what is true of one pane, its request, its file and its *)
(* history between any two steps                                            *)

\* What the author wants to find is in the text, what was taken back is not
Good(s, t) == s.want \subseteq t /\ s.undone \cap t = {}

\* The edits of others that nobody replaced.  Prose is never replaced.
OutProse == OutMark \ FieldMark
Others(s) == s.theirs \cup OutProse

\* Of the request u on its way: its text is in the file, or will be
OnWay(u) == u.phase \in {"sent", "checked", "written", "ok"}
Landed(u) == u.phase \in {"written", "ok"}
ToLand(u, f) == u.phase = "checked" \/ (u.phase = "sent" /\ Current(u, f))
Lands(u, f) == ToLand(u, f) \/ Landed(u)

\* What the file said the last time the pane wrote or read it
Effective(q, u) == IF Landed(u) THEN u.text ELSE q.base

\* Somebody else has set the field that edit x of the text t had set
Replaced(s, x, t, f) == x \in t \ f /\ RivalsOf(x) \cap f # {} /\ x \notin s.want

Marked(s, f) ==
    /\ s.want \subseteq OwnMark /\ s.undone \subseteq OwnMark
    /\ s.theirs \subseteq OutMark /\ s.theirs \subseteq f

\* Edits of others are known before they are in any text
Known(s, t) == t \cap OutMark \subseteq s.outside
KnowsPane(s, q, f) == Known(s, f) /\ Known(s, q.draft) /\ Known(s, q.base)
KnowsPut(s, u) == u # None => Known(s, u.text) /\ Known(s, u.rev)
KnowsLadder(s, k) ==
    k.stage = "merge" =>
        Known(s, k.remote) /\ Known(s, k.base) /\ Known(s, k.local) /\ Known(s, k.fields)

\* The open pane: it has every edit, and what others wrote as far as it or a
\* save that lands has seen it
Drafted(s, q, u, f) == q.open =>
    /\ Good(s, q.draft)
    /\ q.base = q.rev
    /\ q.draft # q.base => q.dirty
    /\ Others(s) \cap q.base \subseteq q.draft
    /\ Lands(u, f) => Others(s) \cap u.text \subseteq q.draft
    /\ OutProse \cap Effective(q, u) \subseteq f

\* The request: it gives up nothing of the text whose revision it names
Sends(s, u, f) ==
    /\ u.phase \in {"sent", "checked"} /\ ~u.forced => Others(s) \cap u.rev \subseteq u.text
    /\ u.phase = "checked" => Current(u, f)
    /\ u.phase = "written" => f = u.text

\* Where the file differs from what the pane knows, an answer got lost and the
\* pane still has the edit, or somebody else set the field to another value
Explained(s, q, u, f) == q.open =>
    \A x \in OwnMark : x \in Changed(Effective(q, u), f) =>
        \/ ~Landed(u) /\ x \in s.lost /\ x \in Changed(q.base, q.draft)
        \/ Replaced(s, x, Effective(q, u), f)

\* Nothing is owed to the file of a pane that is closed or being reloaded
Settled(s, q, u, f, g) == ~q.open \/ g.phase = "reload" =>
    Good(s, f) /\ (OnWay(u) => Good(s, u.text))
Reloads(q, u, f, g) == q.open /\ g.phase = "reload" =>
    /\ OutProse \cap q.draft \subseteq f
    /\ Lands(u, f) => OutProse \cap u.text \subseteq f
    /\ ToLand(u, f) => OutProse \cap q.draft \subseteq u.text

\* A save that closes the pane has every edit
Closes(c, l) == c.by \in {"close", "forceclose"} \/ (c.by = "merge" /\ l[c.slot].kind = "close")
Leaving(c, l) == (c # << >> /\ Closes(Head(c), l)) \/ \E i \in Slot : l[i].kind = "close"
Leaves(s, q, u, c, l) == q.open /\ OnWay(u) /\ Leaving(c, l) => Good(s, u.text)

\* The prose of a merge k: its pane has seen what others wrote meanwhile, or
\* the two sides have changed the same stretch.  It will not be applied.
Doomed(q, k) ==
    \/ ~Apart(Prose(k.base), k.local, Prose(k.remote))
    \/ \E m \in (OutProse \cap k.remote) \ k.local : m \in q.draft

\* What was true when the texts were compared, and still is
Compared(s, f, k) ==
    /\ k.local \cap FieldMark = {} /\ k.fields \subseteq FieldMark
    /\ Prose(k.base) # Prose(k.remote)
    /\ OutProse \cap k.remote \subseteq f
    /\ Others(s) \cap k.base \subseteq k.remote
    /\ Others(s) \cap Prose(k.base) \subseteq k.local
    /\ Others(s) \cap Fields(k.remote) \subseteq k.fields
    /\ s.want \cap FieldMark \subseteq k.fields /\ s.undone \cap k.fields = {}
    /\ \A x \in OwnMark \ FieldMark :
         x \in Changed(k.base, k.remote) => (x \in k.remote <=> x \in k.local)

\* As long as it may be applied the pane's own saves leave the file alone
Viable(s, q, u, f, k) == q.open /\ ~Doomed(q, k) =>
    /\ u.phase = "ok" => Others(s) \cap Fields(u.text) \subseteq k.fields
    /\ \A x \in OwnMark : x \in Changed(k.remote, f) => Replaced(s, x, k.remote, f)

Merges(s, q, u, f, l) == \A i \in Slot : l[i].stage = "merge" =>
    Compared(s, f, l[i]) /\ Viable(s, q, u, f, l[i])

\* An overwrite is first in the chain, with no conflict beside it
Forces(u, c, l) ==
    /\ \A i \in DOMAIN c : Forced(c[i]) => i = 1
    /\ (\E i \in Slot : l[i] # NoLadder) =>
         (\A i \in DOMAIN c : ~Forced(c[i])) /\ (u # None => ~u.forced)

\* A pane whose title was changed in the tree is at rest until it knows
Renames(p) == fetch[p].phase = "rename" =>
    /\ chain[p] = << >> /\ Ladders(p) = {} /\ put[p] = None
    /\ modal # NoDialog => modal.pane # p
    /\ confirm # NoDialog => confirm.pane # p
    /\ pane[p].open => /\ ~pane[p].dirty /\ pane[p].draft = pane[p].base
                       /\ disk[p] = Set(pane[p].base, fetch[p].title)

\* In the words of one pane's values: history s, pane q, request u, file f,
\* reload g, chain c and ladders l
SafeText(s, q, u, f, g, c, l) ==
    /\ Marked(s, f)
    /\ KnowsPane(s, q, f) /\ KnowsPut(s, u) /\ \A i \in Slot : KnowsLadder(s, l[i])
    /\ Drafted(s, q, u, f)
    /\ Sends(s, u, f)
    /\ Explained(s, q, u, f)
    /\ Settled(s, q, u, f, g)
    /\ Reloads(q, u, f, g)
    /\ Leaves(s, q, u, c, l)
    /\ Merges(s, q, u, f, l)
    /\ Forces(u, c, l)

Safe(p) ==
    /\ SafeText(story[p], pane[p], put[p], disk[p], fetch[p], chain[p], ladder[p])
    /\ Renames(p)

SafeInv == TypeInv /\ \A p \in Pane : Safe(p)

-----------------------------------------------------------------------------
(* Edits and their rivals *)

\* An edit and its rival both set fields, and each is the other's rival.
LEMMA RivalsAreFields ==
    ASSUME NEW m, NEW n \in RivalsOf(m)
    PROVE  n \in FieldMark /\ m \in FieldMark /\ n \in Mark /\ n # m /\ m \in RivalsOf(n)
<1>1. n \in Mark /\ {m, n} \in Rivals /\ n # m
    BY DEF RivalsOf
<1>2. {m, n} \subseteq FieldMark
    BY <1>1, EditorSaveAssumption
<1>3. m \in Mark
    BY <1>2, EditorSaveAssumption
<1>4. {n, m} \in Rivals
    <2>1. {n, m} = {m, n}
        OBVIOUS
    <2> QED  BY <1>1, <2>1
<1> QED  BY <1>1, <1>2, <1>3, <1>4 DEF RivalsOf

\* Two rivals of an edit set the same field, so they are rivals as well.
LEMMA RivalsOfRivals ==
    ASSUME NEW m, NEW n \in RivalsOf(m), NEW k \in RivalsOf(n), k # m
    PROVE  k \in RivalsOf(m)
<1>1. k \in FieldMark /\ n \in FieldMark /\ m \in FieldMark /\ k \in Mark
    BY RivalsAreFields
<1>2. {m, n} \in Rivals /\ {n, k} \in Rivals
    BY DEF RivalsOf
<1>3. {m, k} \in Rivals
    BY <1>1, <1>2, EditorSaveAssumption
<1> QED  BY <1>1, <1>3 DEF RivalsOf

\* What a text says once the edit m has been made in it
LEMMA InSet ==
    ASSUME NEW t, NEW m, NEW x
    PROVE  x \in Set(t, m) <=> x = m \/ (x \in t /\ x \notin RivalsOf(m))
BY RivalsAreFields DEF Set

\* Prose has no rivals
LEMMA ProseStays ==
    ASSUME NEW m, NEW x, x \notin FieldMark
    PROVE  RivalsOf(x) = {} /\ x \notin RivalsOf(m)
BY RivalsAreFields

\* Every edit is the author's or somebody else's.
LEMMA OwnOrOut ==
    /\ \A x \in OwnMark : x \in Mark /\ x \notin OutMark
    /\ \A x \in OutMark : x \in Mark /\ x \notin OwnMark
    /\ \A x \in Mark : x \in OwnMark \/ x \in OutMark
BY EditorSaveAssumption DEF Mark

-----------------------------------------------------------------------------
(* What each kind of step makes of the values of one pane *)

\* Type: the new pane r and the new history z
Typed(s, q, u, f, m, r, z) ==
    LET adds == m \notin q.draft
        stale == RivalsOf(m) \cap f # {} /\ (m \in q.base \/ (u # None /\ m \in u.text))
    IN
    /\ r.draft = (IF adds THEN Set(q.draft, m) ELSE q.draft \ {m})
    /\ r.dirty = (r.draft # q.base)
    /\ r.base = q.base /\ r.rev = q.rev /\ r.open = q.open
    /\ z.want = (IF ~adds \/ stale THEN s.want \ ({m} \cup RivalsOf(m)) ELSE Set(s.want, m))
    /\ z.undone = (IF adds THEN (s.undone \cup (RivalsOf(m) \cap OwnMark)) \ {m}
                   ELSE s.undone \cup {m})
    /\ z.theirs = (IF adds THEN s.theirs \ (RivalsOf(m) \cap q.draft) ELSE s.theirs)
    /\ z.lost = s.lost /\ z.outside = s.outside

\* Typing: the drafts have what the author wants, and lose of what others
\* wrote only what the author replaced.
LEMMA TypedTexts ==
    ASSUME NEW s, NEW q, NEW u, NEW f, NEW m \in OwnMark, NEW r, NEW z,
           Typed(s, q, u, f, m, r, z), Marked(s, f), Drafted(s, q, u, f), q.open
    PROVE  /\ Marked(z, f) /\ Good(z, r.draft)
           /\ z.theirs \subseteq s.theirs /\ z.want \subseteq s.want \cup {m}
           /\ \A x \in Others(z) : x \in q.draft => x \in r.draft
           /\ \A x \in OutMark : x \in r.draft => x \in q.draft
           /\ \A x : x \in q.draft /\ x \notin FieldMark /\ x # m => x \in r.draft
<1>1. z.theirs \subseteq s.theirs /\ z.want \subseteq s.want \cup {m}
    BY InSet DEF Typed
<1>2. Good(s, q.draft)
    BY DEF Drafted
<1>3. Marked(z, f)
    <2>1. z.undone \subseteq OwnMark
        BY DEF Typed, Marked
    <2> QED  BY <1>1, <2>1 DEF Marked
<1>4. CASE m \notin q.draft
    <2>1. \A x : x \in r.draft <=> x = m \/ (x \in q.draft /\ x \notin RivalsOf(m))
        BY <1>4, InSet DEF Typed
    <2>2. z.want \subseteq r.draft
        BY <1>2, <1>4, <2>1, InSet DEF Typed, Good
    <2>3. z.undone \cap r.draft = {}
        BY <1>2, <1>4, <2>1 DEF Typed, Good
    <2>4. \A x \in Others(z) : x \in q.draft => x \in r.draft
        <3>1. \A x \in OutProse : x \notin RivalsOf(m)
            BY ProseStays DEF OutProse
        <3>2. \A x \in z.theirs : x \in q.draft => x \notin RivalsOf(m)
            BY <1>4 DEF Typed
        <3> QED  BY <2>1, <3>1, <3>2 DEF Others
    <2>5. \A x \in OutMark : x # m
        BY OwnOrOut
    <2> QED  BY <1>1, <1>3, <2>1, <2>2, <2>3, <2>4, <2>5, ProseStays DEF Good
<1>5. CASE m \in q.draft
    <2>1. \A x : x \in r.draft <=> x \in q.draft /\ x # m
        BY <1>5 DEF Typed
    <2>2. z.want \subseteq r.draft /\ z.undone \cap r.draft = {}
        BY <1>2, <1>5, <2>1 DEF Typed, Good
    <2>3. \A x \in Others(z) : x # m
        BY <1>1, OwnOrOut DEF Others, Marked, OutProse
    <2> QED  BY <1>1, <1>3, <2>1, <2>2, <2>3 DEF Good
<1> QED  BY <1>4, <1>5

\* Typing: the drafts still have what others wrote.
LEMMA TypedIsDrafted ==
    ASSUME NEW s, NEW q, NEW u, NEW f, NEW m \in OwnMark, NEW r, NEW z,
           Typed(s, q, u, f, m, r, z), Marked(s, f), Drafted(s, q, u, f), q.open
    PROVE  Drafted(z, r, u, f)
<1>1. /\ Good(z, r.draft) /\ z.theirs \subseteq s.theirs
      /\ \A x \in Others(z) : x \in q.draft => x \in r.draft
    BY TypedTexts
<1>2. r.base = q.base /\ r.rev = q.rev /\ r.dirty = (r.draft # q.base)
    BY DEF Typed
<1>3. Others(z) \subseteq Others(s)
    BY <1>1 DEF Others
<1>4. OutProse \cap Effective(r, u) \subseteq f
    BY <1>2 DEF Drafted, Effective
<1> QED  BY <1>1, <1>2, <1>3, <1>4 DEF Drafted

\* Typing: what differs in the file is still explained.
LEMMA TypedIsExplained ==
    ASSUME NEW s, NEW q, NEW u, NEW f, NEW m \in OwnMark, NEW r, NEW z,
           Typed(s, q, u, f, m, r, z), Marked(s, f), Drafted(s, q, u, f), q.open,
           Explained(s, q, u, f), Changed(q.draft, r.draft) \cap s.lost \cap Changed(f, q.base) = {}
    PROVE  Explained(z, r, u, f)
<1>1. r.base = q.base /\ z.lost = s.lost /\ Effective(r, u) = Effective(q, u)
    BY DEF Typed, Effective
<1>2. z.want \subseteq s.want \cup {m}
    BY TypedTexts
<1>3. SUFFICES ASSUME NEW x \in OwnMark, x \in Changed(Effective(q, u), f)
               PROVE  \/ ~Landed(u) /\ x \in s.lost /\ x \in Changed(q.base, r.draft)
                      \/ Replaced(z, x, Effective(q, u), f)
    BY <1>1 DEF Explained
<1>4. CASE ~Landed(u) /\ x \in s.lost /\ x \in Changed(q.base, q.draft)
    <2>1. x \in Changed(f, q.base)
        BY <1>3, <1>4 DEF Effective, Changed
    <2>2. x \notin Changed(q.draft, r.draft)
        BY <1>4, <2>1
    <2> QED  BY <1>4, <2>2 DEF Changed
<1>5. CASE Replaced(s, x, Effective(q, u), f)
    <2>1. CASE x # m
        BY <1>2, <1>5, <2>1 DEF Replaced
    <2>2. CASE x = m
        <3>1. RivalsOf(m) \cap f # {} /\ (m \in q.base \/ (u # None /\ m \in u.text))
            BY <1>5, <2>2, NoneIsNoRequest DEF Replaced, Effective, Landed
        <3>2. m \notin z.want
            BY <3>1 DEF Typed
        <3> QED  BY <1>5, <2>2, <3>2 DEF Replaced
    <2> QED  BY <2>1, <2>2
<1> QED  BY <1>3, <1>4, <1>5 DEF Explained

\* Typing prose: a merge under way stays what it was, or is doomed.
LEMMA TypedMerges ==
    ASSUME NEW s, NEW q, NEW u, NEW f, NEW m \in OwnMark, NEW r, NEW z, NEW k,
           Typed(s, q, u, f, m, r, z), Marked(s, f), Drafted(s, q, u, f), q.open,
           m \notin FieldMark, Compared(s, f, k), Viable(s, q, u, f, k)
    PROVE  Compared(z, f, k) /\ Viable(z, r, u, f, k)
<1>1. /\ z.theirs \subseteq s.theirs /\ z.want \subseteq s.want \cup {m}
      /\ \A x : x \in q.draft /\ x \notin FieldMark /\ x # m => x \in r.draft
    BY TypedTexts
<1>2. RivalsOf(m) = {}
    BY ProseStays
<1>3. Others(z) \subseteq Others(s)
    BY <1>1 DEF Others
<1>4. z.want \cap FieldMark \subseteq k.fields /\ z.undone \cap k.fields = {}
    <2>1. z.undone \subseteq s.undone \cup {m}
        BY <1>2 DEF Typed
    <2> QED  BY <1>1, <2>1 DEF Compared
<1>5. Compared(z, f, k)
    BY <1>3, <1>4 DEF Compared
<1>6. Doomed(q, k) => Doomed(r, k)
    <2>1. \A x \in OutProse : x \notin FieldMark /\ x # m
        BY OwnOrOut DEF OutProse
    <2> QED  BY <1>1, <2>1 DEF Doomed
<1>7. \A x \in OwnMark : Replaced(s, x, k.remote, f) => Replaced(z, x, k.remote, f)
    BY <1>1, <1>2 DEF Replaced
<1>8. r.open = q.open
    BY DEF Typed
<1> QED  BY <1>3, <1>5, <1>6, <1>7, <1>8 DEF Viable

\* Timers, dialogs, and calls that join the chain leave the texts alone
SameTexts(q, r) ==
    /\ r.draft = q.draft /\ r.base = q.base /\ r.rev = q.rev
    /\ r.dirty = q.dirty /\ r.open = q.open
SameMarks(s, z) ==
    /\ z.want = s.want /\ z.undone = s.undone /\ z.lost = s.lost
    /\ z.theirs = s.theirs /\ z.outside = s.outside

\* No merge begins
NoNewMerge(l, n) == \A i \in Slot : n[i].stage = "merge" => n[i] = l[i]

\* A step that leaves the texts alone
LEMMA SameIsSafe ==
    ASSUME NEW s, NEW q, NEW u, NEW f, NEW g, NEW c, NEW l, NEW z, NEW r, NEW h, NEW d, NEW n,
           SafeText(s, q, u, f, g, c, l), SameTexts(q, r), SameMarks(s, z),
           h.phase = "reload" => g.phase = "reload", NoNewMerge(l, n), Forces(u, d, n),
           OnWay(u) /\ Leaving(d, n) => Leaving(c, l)
    PROVE  SafeText(z, r, u, f, h, d, n)
<1>1. Marked(z, f) /\ KnowsPane(z, r, f) /\ KnowsPut(z, u)
    BY DEF SafeText, SameTexts, SameMarks, Marked, KnowsPane, KnowsPut, Known
<1>2. \A i \in Slot : KnowsLadder(z, n[i])
    BY DEF SafeText, SameMarks, NoNewMerge, KnowsLadder, Known
<1>3. Others(z) = Others(s) /\ Effective(r, u) = Effective(q, u)
    BY DEF SameTexts, SameMarks, Others, Effective
<1>4. Drafted(z, r, u, f)
    BY <1>3 DEF SafeText, SameTexts, SameMarks, Drafted, Good
<1>5. Sends(z, u, f)
    BY <1>3 DEF SafeText, Sends
<1>6. Explained(z, r, u, f)
    BY <1>3 DEF SafeText, SameTexts, SameMarks, Explained, Replaced
<1>7. Settled(z, r, u, f, h) /\ Reloads(r, u, f, h) /\ Leaves(z, r, u, d, n)
    BY DEF SafeText, SameTexts, SameMarks, Settled, Reloads, Leaves, Good
<1>8. ASSUME NEW i \in Slot, n[i].stage = "merge"
      PROVE  Compared(z, f, n[i]) /\ Viable(z, r, u, f, n[i])
    <2>1. n[i] = l[i] /\ Compared(s, f, l[i]) /\ Viable(s, q, u, f, l[i])
        BY <1>8 DEF SafeText, NoNewMerge, Merges
    <2>2. Compared(z, f, l[i])
        BY <1>3, <2>1 DEF Compared, SameMarks
    <2>3. Viable(z, r, u, f, l[i])
        BY <1>3, <2>1 DEF Viable, Doomed, Replaced, SameMarks, SameTexts
    <2> QED  BY <2>1, <2>2, <2>3
<1> QED  BY <1>1, <1>2, <1>4, <1>5, <1>6, <1>7, <1>8 DEF SafeText, Merges

\* Of a pane that is gone only the file and what is on its way matter.
LEMMA ClosedIsSafe ==
    ASSUME NEW s, NEW q, NEW u, NEW f, NEW g, NEW c, NEW l, NEW z, NEW r, NEW v, NEW d, NEW n,
           SafeText(s, q, u, f, g, c, l), ~r.open, Known(s, r.draft), Known(s, r.base),
           z.want \subseteq s.want, z.undone \subseteq s.undone, z.theirs = s.theirs,
           z.outside = s.outside, Good(z, f),
           v = u \/ v = None, OnWay(v) => Good(z, v.text),
           NoNewMerge(l, n), Forces(v, d, n)
    PROVE  SafeText(z, r, v, f, g, d, n)
<1>0. ~OnWay(None) /\ None.phase = "none"
    BY NoneIsNoRequest DEF OnWay
<1>1. Marked(z, f) /\ KnowsPane(z, r, f) /\ KnowsPut(z, v)
    BY DEF SafeText, Marked, KnowsPane, KnowsPut, Known
<1>2. \A i \in Slot : KnowsLadder(z, n[i])
    BY DEF SafeText, NoNewMerge, KnowsLadder, Known
<1>3. Others(z) = Others(s)
    BY DEF Others
<1>4. Sends(z, v, f)
    BY <1>0, <1>3 DEF SafeText, Sends
<1>5. Drafted(z, r, v, f) /\ Explained(z, r, v, f) /\ Reloads(r, v, f, g) /\ Leaves(z, r, v, d, n)
    BY DEF Drafted, Explained, Reloads, Leaves
<1>6. Settled(z, r, v, f, g)
    BY DEF Settled
<1>7. ASSUME NEW i \in Slot, n[i].stage = "merge"
      PROVE  Compared(z, f, n[i]) /\ Viable(z, r, v, f, n[i])
    <2>1. n[i] = l[i] /\ Compared(s, f, l[i])
        BY <1>7 DEF SafeText, NoNewMerge, Merges
    <2> QED  BY <1>3, <2>1 DEF Compared, Viable
<1> QED  BY <1>1, <1>2, <1>4, <1>5, <1>6, <1>7 DEF SafeText, Merges

\* A file that differs from a good text by what others have replaced is good.
LEMMA FileIsGood ==
    ASSUME NEW s, NEW e, NEW f, Good(s, e), Marked(s, f),
           \A x \in OwnMark : x \in Changed(e, f) => Replaced(s, x, e, f)
    PROVE  Good(s, f)
BY DEF Good, Marked, Changed, Replaced

\* A pane without unsaved text that takes nothing back has a good file, and a
\* good request on its way.
LEMMA CleanIsGood ==
    ASSUME NEW s, NEW q, NEW u, NEW f,
           Marked(s, f), Drafted(s, q, u, f), Explained(s, q, u, f), q.open, q.draft = q.base,
           u = None \/ Changed(u.text, q.base) \cap Changed(u.text, q.draft) = {}
    PROVE  Good(s, f) /\ (OnWay(u) => Good(s, u.text))
<1>1. u # None => u.text \cap Mark = q.draft \cap Mark
    BY DEF Changed
<1>2. Good(s, q.draft) /\ Good(s, Effective(q, u))
    <2>1. Good(s, q.draft)
        BY DEF Drafted
    <2>2. Landed(u) => u # None
        BY NoneIsNoRequest DEF Landed
    <2> QED  BY <1>1, <2>1, <2>2, OwnOrOut DEF Good, Effective, Marked
<1>3. \A x \in OwnMark : x \in Changed(Effective(q, u), f) => Replaced(s, x, Effective(q, u), f)
    BY DEF Explained, Changed
<1>4. OnWay(u) => u # None
    BY NoneIsNoRequest DEF OnWay
<1> QED  BY <1>1, <1>2, <1>3, <1>4, FileIsGood, OwnOrOut DEF Good, Marked

\* StartSave: the request takes the drafts and the revision with it
LEMMA SentIsSafe ==
    ASSUME NEW s, NEW q, NEW f, NEW g, NEW c, NEW l, NEW z, NEW r, NEW v,
           SafeText(s, q, None, f, g, c, l), SameTexts(q, r), SameMarks(s, z), q.open,
           v.phase = "sent", v.text = q.draft, v.rev = q.rev, v # None, Forces(v, c, l)
    PROVE  SafeText(z, r, v, f, g, c, l)
<1>0. ~OnWay(None) /\ ~Landed(None) /\ ~Landed(v) /\ OnWay(v) /\ ~Lands(None, f)
    BY NoneIsNoRequest DEF OnWay, Landed, Lands, ToLand
<1>1. Marked(z, f) /\ KnowsPane(z, r, f) /\ \A i \in Slot : KnowsLadder(z, l[i])
    BY DEF SafeText, SameTexts, SameMarks, Marked, KnowsPane, KnowsLadder, Known
<1>2. Others(z) = Others(s) /\ Effective(r, v) = Effective(q, None)
    BY <1>0 DEF SameTexts, SameMarks, Others, Effective
<1>3. Drafted(s, q, None, f) /\ q.base = q.rev
    BY DEF SafeText, Drafted
<1>4. KnowsPut(z, v)
    BY <1>3 DEF SafeText, SameMarks, KnowsPane, KnowsPut, Known
<1>5. Drafted(z, r, v, f)
    BY <1>2, <1>3 DEF SameTexts, SameMarks, Drafted, Good
<1>6. Sends(z, v, f)
    BY <1>2, <1>3 DEF Sends, Drafted
<1>7. Explained(z, r, v, f)
    BY <1>0, <1>2 DEF SafeText, SameTexts, SameMarks, Explained, Replaced
<1>8. Settled(z, r, v, f, g) /\ Leaves(z, r, v, c, l)
    BY <1>3 DEF SafeText, SameTexts, SameMarks, Settled, Leaves, Good, Drafted
<1>9. Reloads(r, v, f, g)
    BY DEF SafeText, SameTexts, Reloads
<1>10. ASSUME NEW i \in Slot, l[i].stage = "merge"
       PROVE  Compared(z, f, l[i]) /\ Viable(z, r, v, f, l[i])
    <2>1. Compared(s, f, l[i]) /\ Viable(s, q, None, f, l[i])
        BY <1>10 DEF SafeText, Merges
    <2> QED  BY <1>2, <2>1 DEF Compared, Viable, Doomed, Replaced, SameMarks, SameTexts
<1> QED  BY <1>1, <1>4, <1>5, <1>6, <1>7, <1>8, <1>9, <1>10 DEF SafeText, Merges

\* Receive: the answer of a save that landed
LEMMA ReceivedIsSafe ==
    ASSUME NEW s, NEW q, NEW u, NEW f, NEW g, NEW c, NEW l, NEW z, NEW r, NEW d, NEW n,
           SafeText(s, q, u, f, g, c, l), SameMarks(s, z), q.open, u.phase = "ok",
           r.draft = q.draft, r.base = u.text, r.rev = u.text, r.open,
           r.dirty = (q.draft # u.text), NoNewMerge(l, n), Forces(None, d, n)
    PROVE  SafeText(z, r, None, f, g, d, n)
<1>0. /\ ~OnWay(None) /\ ~Landed(None) /\ Landed(u) /\ OnWay(u) /\ u # None
      /\ ~Lands(None, f) /\ Lands(u, f) /\ None.phase = "none" /\ ~ToLand(None, f)
    BY NoneIsNoRequest DEF OnWay, Landed, Lands, ToLand
<1>1. Marked(z, f) /\ KnowsPane(z, r, f) /\ KnowsPut(z, None)
    BY <1>0 DEF SafeText, SameMarks, Marked, KnowsPane, KnowsPut, Known
<1>2. \A i \in Slot : KnowsLadder(z, n[i])
    BY DEF SafeText, SameMarks, NoNewMerge, KnowsLadder, Known
<1>3. Others(z) = Others(s) /\ Effective(r, None) = Effective(q, u)
    BY <1>0 DEF SameMarks, Others, Effective
<1>4. Drafted(z, r, None, f)
    BY <1>0, <1>3 DEF SafeText, SameMarks, Drafted, Good
<1>5. Sends(z, None, f)
    BY <1>0 DEF Sends
<1>6. Explained(z, r, None, f)
    BY <1>0, <1>3 DEF SafeText, SameMarks, Explained, Replaced
<1>7. Settled(z, r, None, f, g) /\ Reloads(r, None, f, g) /\ Leaves(z, r, None, d, n)
    BY <1>0 DEF SafeText, SameMarks, Settled, Reloads, Leaves, Good, Lands
<1>8. ASSUME NEW i \in Slot, n[i].stage = "merge"
      PROVE  Compared(z, f, n[i]) /\ Viable(z, r, None, f, n[i])
    <2>1. n[i] = l[i] /\ Compared(s, f, l[i]) /\ Viable(s, q, u, f, l[i])
        BY <1>8 DEF SafeText, NoNewMerge, Merges
    <2> QED  BY <1>0, <1>3, <2>1 DEF Compared, Viable, Doomed, Replaced, SameMarks
<1> QED  BY <1>1, <1>2, <1>4, <1>5, <1>6, <1>7, <1>8 DEF SafeText, Merges

\* Receive, for a save that closes the pane
LEMMA LandedIsGood ==
    ASSUME NEW s, NEW q, NEW u, NEW f, NEW g, NEW c, NEW l,
           SafeText(s, q, u, f, g, c, l), q.open, u.phase = "ok", Leaving(c, l)
    PROVE  Good(s, f)
<1>1. OnWay(u) /\ Landed(u) /\ Effective(q, u) = u.text
    BY DEF OnWay, Landed, Effective
<1>2. Good(s, u.text)
    BY <1>1 DEF SafeText, Leaves
<1>3. \A x \in OwnMark : x \in Changed(u.text, f) => Replaced(s, x, u.text, f)
    BY <1>1 DEF SafeText, Explained
<1> QED  BY <1>2, <1>3, FileIsGood DEF SafeText

\* A request that comes to nothing: what is known of the file is as before.
LEMMA DeadIsSafe ==
    ASSUME NEW s, NEW q, NEW u, NEW f, NEW g, NEW c, NEW l, NEW z, NEW r, NEW v, NEW d, NEW n,
           SafeText(s, q, u, f, g, c, l), SameTexts(q, r), SameMarks(s, z), ~Landed(u),
           ~OnWay(v), v # None => u # None /\ v.text = u.text /\ v.rev = u.rev,
           NoNewMerge(l, n), Forces(v, d, n)
    PROVE  SafeText(z, r, v, f, g, d, n)
<1>0. ~Landed(v) /\ ~Lands(v, f) /\ ~ToLand(v, f) /\ v.phase # "ok"
    BY DEF OnWay, Landed, Lands, ToLand
<1>1. Marked(z, f) /\ KnowsPane(z, r, f) /\ KnowsPut(z, v)
    BY DEF SafeText, SameTexts, SameMarks, Marked, KnowsPane, KnowsPut, Known
<1>2. \A i \in Slot : KnowsLadder(z, n[i])
    BY DEF SafeText, SameMarks, NoNewMerge, KnowsLadder, Known
<1>3. Others(z) = Others(s) /\ Effective(r, v) = Effective(q, u)
    BY <1>0 DEF SameMarks, SameTexts, Others, Effective
<1>4. Drafted(z, r, v, f)
    BY <1>0, <1>3 DEF SafeText, SameMarks, SameTexts, Drafted, Good
<1>5. Sends(z, v, f)
    BY DEF Sends, OnWay
<1>6. Explained(z, r, v, f)
    BY <1>0, <1>3 DEF SafeText, SameMarks, SameTexts, Explained, Replaced
<1>7. Settled(z, r, v, f, g) /\ Reloads(r, v, f, g) /\ Leaves(z, r, v, d, n)
    BY <1>0 DEF SafeText, SameMarks, SameTexts, Settled, Reloads, Leaves, Good
<1>8. ASSUME NEW i \in Slot, n[i].stage = "merge"
      PROVE  Compared(z, f, n[i]) /\ Viable(z, r, v, f, n[i])
    <2>1. n[i] = l[i] /\ Compared(s, f, l[i]) /\ Viable(s, q, u, f, l[i])
        BY <1>8 DEF SafeText, NoNewMerge, Merges
    <2> QED  BY <1>0, <1>3, <2>1 DEF Compared, Viable, Doomed, Replaced, SameMarks, SameTexts
<1> QED  BY <1>1, <1>2, <1>4, <1>5, <1>6, <1>7, <1>8 DEF SafeText, Merges

\* Type, with nothing closing and nothing being reloaded
LEMMA TypedIsSafe ==
    ASSUME NEW s, NEW q, NEW u, NEW f, NEW g, NEW c, NEW l, NEW m \in OwnMark, NEW r, NEW z,
           Typed(s, q, u, f, m, r, z), SafeText(s, q, u, f, g, c, l), q.open,
           Changed(q.draft, r.draft) \cap s.lost \cap Changed(f, q.base) = {},
           g.phase # "reload", ~Leaving(c, l),
           m \in FieldMark => \A i \in Slot : l[i].stage # "merge"
    PROVE  SafeText(z, r, u, f, g, c, l)
<1>1. Marked(s, f) /\ Drafted(s, q, u, f) /\ Explained(s, q, u, f)
    BY DEF SafeText
<1>2. /\ Marked(z, f) /\ z.theirs \subseteq s.theirs
      /\ \A x \in OutMark : x \in r.draft => x \in q.draft
    BY <1>1, TypedTexts
<1>3. r.base = q.base /\ r.open = q.open /\ z.outside = s.outside
    BY DEF Typed
<1>4. KnowsPane(z, r, f) /\ KnowsPut(z, u) /\ \A i \in Slot : KnowsLadder(z, l[i])
    BY <1>2, <1>3 DEF SafeText, KnowsPane, KnowsPut, KnowsLadder, Known
<1>5. Drafted(z, r, u, f)
    BY <1>1, TypedIsDrafted
<1>6. Others(z) \subseteq Others(s)
    BY <1>2 DEF Others
<1>7. Sends(z, u, f)
    BY <1>6 DEF SafeText, Sends
<1>8. Explained(z, r, u, f)
    BY <1>1, TypedIsExplained
<1>9. Settled(z, r, u, f, g) /\ Reloads(r, u, f, g) /\ Leaves(z, r, u, c, l)
    BY <1>3 DEF Settled, Reloads, Leaves
<1>10. Merges(z, r, u, f, l)
    <2> SUFFICES ASSUME NEW i \in Slot, l[i].stage = "merge"
                 PROVE  Compared(z, f, l[i]) /\ Viable(z, r, u, f, l[i])
        BY DEF Merges
    <2>1. m \notin FieldMark
        OBVIOUS
    <2>2. Compared(s, f, l[i]) /\ Viable(s, q, u, f, l[i])
        BY DEF SafeText, Merges
    <2> QED  BY <1>1, <2>1, <2>2, TypedMerges
<1> QED  BY <1>2, <1>4, <1>5, <1>7, <1>8, <1>9, <1>10 DEF SafeText

-----------------------------------------------------------------------------
(* While a merge may be applied no save of its pane lands *)

\* What others wrote, and the pane has not seen
LEMMA MergeWitness ==
    ASSUME NEW s, NEW f, NEW k \in Ladder, k.stage = "merge", Compared(s, f, k),
           Apart(Prose(k.base), k.local, Prose(k.remote))
    PROVE  \E m \in OutProse \cap k.remote : m \notin k.local /\ m \notin k.base
<1>1. k.base \subseteq Mark /\ k.remote \subseteq Mark /\ k.local \subseteq Mark
    BY DEF Ladder, NoLadder, Text
<1>2. PICK m : m \in Changed(Prose(k.base), Prose(k.remote))
    BY DEF Compared, Changed, Prose
<1>3. m \in Mark /\ m \notin FieldMark /\ m \in Changed(k.base, k.remote)
    BY <1>1, <1>2 DEF Changed, Prose
<1>4. m \in Nat
    BY <1>3, EditorSaveAssumption DEF Mark
<1>5. m \notin Changed(Prose(k.base), k.local)
    <2>1. ~(m < m)
        BY <1>4
    <2> QED  BY <1>2, <2>1 DEF Apart
<1>6. m \in k.local <=> m \in k.base
    BY <1>3, <1>5 DEF Changed, Prose
<1>7. m \in OutProse
    BY <1>3, <1>6, OwnOrOut DEF Compared, OutProse, Changed
<1> QED  BY <1>3, <1>6, <1>7 DEF Compared, Others, Changed

\* A save that would land has seen what the witness is an edit of; then the
\* pane has it, and the merge is doomed.
LEMMA NoLanding ==
    ASSUME NEW s, NEW q, NEW u, NEW f, NEW g, NEW c, NEW l \in [Slot -> Ladder],
           SafeText(s, q, u, f, g, c, l), NEW i \in Slot, l[i].stage = "merge",
           q.open, ~Doomed(q, l[i])
    PROVE  ~ToLand(u, f) /\ u.phase # "written"
<1>1. Compared(s, f, l[i]) /\ Apart(Prose(l[i].base), l[i].local, Prose(l[i].remote))
    BY DEF SafeText, Merges, Doomed
<1>2. PICK m \in OutProse \cap l[i].remote : m \notin l[i].local /\ m \notin l[i].base
    BY <1>1, MergeWitness
<1>3. m \in f /\ m \notin q.draft /\ m \in Others(s)
    BY <1>1, <1>2 DEF Compared, Doomed, Others
<1>4. Lands(u, f) => m \notin u.text
    BY <1>3 DEF SafeText, Drafted
<1>5. l[i] # NoLadder
    BY NoneIsNoRequest
<1>6. u # None => ~u.forced
    BY <1>5 DEF SafeText, Forces
<1>7. ToLand(u, f) => u.rev = f
    BY <1>6, NoneIsNoRequest DEF SafeText, Sends, ToLand, Current
<1>8. ~ToLand(u, f)
    BY <1>3, <1>4, <1>6, <1>7, NoneIsNoRequest DEF SafeText, Sends, ToLand, Lands
<1> QED  BY <1>3, <1>4, <1>8 DEF SafeText, Sends, Lands, Landed

-----------------------------------------------------------------------------
(* The server's steps *)

\* The request u goes on as v
Onward(u, v) == v # None /\ u # None /\ v.rev = u.rev /\ v.text = u.text /\ v.forced = u.forced

\* ServerCheck: the revision is the file's.
LEMMA CheckedIsSafe ==
    ASSUME NEW s, NEW q, NEW u, NEW f, NEW g, NEW c, NEW l, NEW v,
           SafeText(s, q, u, f, g, c, l), Onward(u, v), u.phase = "sent", Current(u, f),
           v.phase = "checked"
    PROVE  SafeText(s, q, v, f, g, c, l)
<1>1. /\ OnWay(u) /\ OnWay(v) /\ ~Landed(u) /\ ~Landed(v) /\ ToLand(u, f) /\ ToLand(v, f)
      /\ Lands(u, f) /\ Lands(v, f) /\ Current(v, f) /\ Effective(q, v) = Effective(q, u)
    BY DEF OnWay, Landed, ToLand, Lands, Current, Onward, Effective
<1>2. KnowsPut(s, v) /\ Drafted(s, q, v, f) /\ Explained(s, q, v, f)
    BY <1>1 DEF SafeText, KnowsPut, Drafted, Explained, Onward
<1>3. Sends(s, v, f) /\ Settled(s, q, v, f, g) /\ Reloads(q, v, f, g) /\ Leaves(s, q, v, c, l)
    BY <1>1 DEF SafeText, Sends, Settled, Reloads, Leaves, Onward
<1>4. Merges(s, q, v, f, l) /\ Forces(v, c, l)
    BY <1>1 DEF SafeText, Merges, Viable, Forces, Onward
<1> QED  BY <1>2, <1>3, <1>4 DEF SafeText

\* ServerWrite: the file becomes the text.  An overwrite gives up what others
\* wrote; any other save has it.
LEMMA WrittenIsSafe ==
    ASSUME NEW s, NEW q, NEW u, NEW f, NEW g, NEW c, NEW l \in [Slot -> Ladder], NEW v, NEW h, NEW z,
           SafeText(s, q, u, f, g, c, l), Onward(u, v), u.phase = "checked", v.phase = "written",
           h = u.text, z.theirs = (IF u.forced THEN s.theirs \cap u.text ELSE s.theirs),
           z.want = s.want, z.undone = s.undone, z.outside = s.outside
    PROVE  SafeText(z, q, v, h, g, c, l)
<1>1. /\ OnWay(u) /\ OnWay(v) /\ Landed(v) /\ ToLand(u, f) /\ ~ToLand(v, h)
      /\ Lands(u, f) /\ Lands(v, h) /\ Effective(q, v) = h
    BY DEF OnWay, Landed, ToLand, Lands, Onward, Effective
<1>2. Others(z) \subseteq Others(s)
    BY DEF Others
<1>3. ~u.forced => Others(s) \cap f \subseteq h
    BY DEF SafeText, Sends, Current
<1>4. Marked(z, h)
    BY <1>3 DEF SafeText, Marked, Others
<1>5. KnowsPane(z, q, h) /\ KnowsPut(z, v) /\ \A i \in Slot : KnowsLadder(z, l[i])
    BY DEF SafeText, KnowsPane, KnowsPut, KnowsLadder, Known, Onward
<1>6. Drafted(z, q, v, h)
    BY <1>1, <1>2 DEF SafeText, Drafted, Onward, Good
<1>7. Sends(z, v, h)
    BY DEF Sends, Onward
<1>8. Explained(z, q, v, h)
    BY <1>1 DEF Explained, Changed
<1>9. Settled(z, q, v, h, g) /\ Reloads(q, v, h, g) /\ Leaves(z, q, v, c, l)
    BY <1>1 DEF SafeText, Settled, Reloads, Leaves, Onward, Good
<1>10. ASSUME NEW i \in Slot, l[i].stage = "merge"
       PROVE  Compared(z, h, l[i]) /\ Viable(z, q, v, h, l[i])
    <2>1. Compared(s, f, l[i])
        BY <1>10 DEF SafeText, Merges
    <2>2. ~u.forced
        BY <1>10, NoneIsNoRequest DEF SafeText, Forces, Onward
    <2>3. Compared(z, h, l[i])
        BY <1>2, <1>3, <2>1, <2>2 DEF Compared, Others
    <2>4. q.open => Doomed(q, l[i])
        BY <1>1, <1>10, NoLanding
    <2> QED  BY <2>3, <2>4 DEF Viable
<1>11. Forces(v, c, l)
    BY DEF SafeText, Forces, Onward
<1> QED  BY <1>4, <1>5, <1>6, <1>7, <1>8, <1>9, <1>10, <1>11 DEF SafeText, Merges

\* ServerReply: the file is read back.
LEMMA RepliedIsSafe ==
    ASSUME NEW s, NEW q, NEW u, NEW f, NEW g, NEW c, NEW l \in [Slot -> Ladder], NEW v,
           SafeText(s, q, u, f, g, c, l), u # None, v # None, u.phase = "written", v.phase = "ok",
           v.text = f, v.rev = u.rev, v.forced = u.forced
    PROVE  SafeText(s, q, v, f, g, c, l)
<1>1. f = u.text
    BY DEF SafeText, Sends
<1>2. /\ OnWay(u) /\ OnWay(v) /\ Landed(u) /\ Landed(v) /\ ~ToLand(u, f) /\ ~ToLand(v, f)
      /\ Lands(u, f) /\ Lands(v, f) /\ Effective(q, v) = Effective(q, u)
    BY <1>1 DEF OnWay, Landed, ToLand, Lands, Effective
<1>3. KnowsPut(s, v) /\ Drafted(s, q, v, f) /\ Explained(s, q, v, f)
    BY <1>1, <1>2 DEF SafeText, KnowsPut, Drafted, Explained
<1>4. Sends(s, v, f) /\ Settled(s, q, v, f, g) /\ Reloads(q, v, f, g) /\ Leaves(s, q, v, c, l)
    BY <1>1, <1>2 DEF SafeText, Sends, Settled, Reloads, Leaves
<1>5. ASSUME NEW i \in Slot, l[i].stage = "merge"
      PROVE  Compared(s, f, l[i]) /\ Viable(s, q, v, f, l[i])
    <2>1. Compared(s, f, l[i])
        BY <1>5 DEF SafeText, Merges
    <2>2. q.open => Doomed(q, l[i])
        BY <1>5, NoLanding
    <2> QED  BY <2>1, <2>2 DEF Viable
<1>6. Forces(v, c, l)
    BY DEF SafeText, Forces
<1> QED  BY <1>3, <1>4, <1>5, <1>6 DEF SafeText, Merges

\* The answer of a write gets lost
LEMMA LostIsSafe ==
    ASSUME NEW s, NEW q, NEW u, NEW f, NEW g, NEW c, NEW l, NEW v, NEW z,
           SafeText(s, q, u, f, g, c, l), Onward(u, v), u.phase = "written", v.phase = "failed",
           Changed(u.text, q.base) \cap Changed(u.text, q.draft) = {},
           z.lost = Changed(u.text, q.base), z.want = s.want, z.undone = s.undone,
           z.theirs = s.theirs, z.outside = s.outside
    PROVE  SafeText(z, q, v, f, g, c, l)
<1>1. f = u.text
    BY DEF SafeText, Sends
<1>2. /\ OnWay(u) /\ ~OnWay(v) /\ Landed(u) /\ ~Landed(v) /\ ~ToLand(v, f)
      /\ Lands(u, f) /\ ~Lands(v, f) /\ Effective(q, v) = q.base /\ Effective(q, u) = f
    BY <1>1 DEF OnWay, Landed, ToLand, Lands, Effective
<1>3. Marked(z, f) /\ KnowsPane(z, q, f) /\ KnowsPut(z, v) /\ \A i \in Slot : KnowsLadder(z, l[i])
    BY DEF SafeText, Marked, KnowsPane, KnowsPut, KnowsLadder, Known, Onward
<1>4. Others(z) = Others(s)
    BY DEF Others
<1>5. ASSUME q.open
      PROVE  OutProse \cap q.base \subseteq f
    <2>1. OutProse \cap q.base \subseteq q.draft
        BY <1>5 DEF SafeText, Drafted, Others
    <2> QED  BY <1>1, <2>1 DEF Changed
<1>6. Drafted(z, q, v, f)
    BY <1>2, <1>4, <1>5 DEF SafeText, Drafted, Good
<1>7. Sends(z, v, f)
    BY DEF Sends
<1>8. Explained(z, q, v, f)
    <2> SUFFICES ASSUME NEW x, x \in Changed(q.base, f)
                 PROVE  x \in z.lost /\ x \in Changed(q.base, q.draft)
        BY <1>2 DEF Explained
    <2>1. x \in Changed(u.text, q.base)
        BY <1>1 DEF Changed
    <2> QED  BY <1>1, <2>1 DEF Changed
<1>9. Settled(z, q, v, f, g) /\ Reloads(q, v, f, g) /\ Leaves(z, q, v, c, l)
    BY <1>2 DEF SafeText, Settled, Reloads, Leaves, Good
<1>10. ASSUME NEW i \in Slot, l[i].stage = "merge"
       PROVE  Compared(z, f, l[i]) /\ Viable(z, q, v, f, l[i])
    <2>1. Compared(s, f, l[i]) /\ Viable(s, q, u, f, l[i])
        BY <1>10 DEF SafeText, Merges
    <2> QED  BY <1>4, <2>1 DEF Compared, Viable, Replaced
<1>11. Forces(v, c, l)
    BY DEF SafeText, Forces, Onward
<1> QED  BY <1>3, <1>6, <1>7, <1>8, <1>9, <1>10, <1>11 DEF SafeText, Merges

-----------------------------------------------------------------------------
(* Somebody else's edit of the file *)

\* Edit m by somebody else: the new text h and the new history z
Outsider(s, f, m, h, z) ==
    /\ h = Set(f, m) /\ z.theirs = Set(s.theirs, m) /\ z.want = s.want \ (RivalsOf(m) \cap f)
    /\ z.outside = s.outside \cup {m} /\ z.undone = s.undone /\ z.lost = s.lost

\* An edit that was there is replaced, and stays so
LEMMA OutsiderReplaces ==
    ASSUME NEW s, NEW f, NEW m \in OutMark, NEW h, NEW z, Outsider(s, f, m, h, z), NEW t
    PROVE  \A x \in OwnMark :
             /\ x \in h => x \in f
             /\ x \in t \cap f /\ x \notin h => Replaced(z, x, t, h)
             /\ Replaced(s, x, t, f) => Replaced(z, x, t, h)
<1> SUFFICES ASSUME NEW x \in OwnMark
             PROVE  /\ x \in h => x \in f
                    /\ x \in t \cap f /\ x \notin h => Replaced(z, x, t, h)
                    /\ Replaced(s, x, t, f) => Replaced(z, x, t, h)
    OBVIOUS
<1>1. x # m /\ m \in h
    BY OwnOrOut, InSet DEF Outsider
<1>2. \A n : n \in h <=> n = m \/ (n \in f /\ n \notin RivalsOf(m))
    BY InSet DEF Outsider
<1>3. ASSUME x \in t \cap f, x \notin h
      PROVE  Replaced(z, x, t, h)
    <2>1. x \in RivalsOf(m)
        BY <1>2, <1>3
    <2>2. m \in RivalsOf(x)
        BY <2>1, RivalsAreFields
    <2>3. x \notin z.want
        BY <1>3, <2>1 DEF Outsider
    <2> QED  BY <1>1, <1>3, <2>2, <2>3 DEF Replaced
<1>4. ASSUME Replaced(s, x, t, f)
      PROVE  Replaced(z, x, t, h)
    <2>1. x \in t /\ x \notin h /\ x \notin z.want
        BY <1>1, <1>2, <1>4 DEF Replaced, Outsider
    <2>2. PICK n \in RivalsOf(x) : n \in f
        BY <1>4 DEF Replaced
    <2>3. CASE n \in h
        BY <2>1, <2>2, <2>3 DEF Replaced
    <2>4. CASE n \notin h
        <3>1. n \in RivalsOf(m)
            BY <1>2, <2>2, <2>4
        <3>2. m \in RivalsOf(n)
            BY <3>1, RivalsAreFields
        <3>3. m \in RivalsOf(x)
            BY <1>1, <2>2, <3>2, RivalsOfRivals
        <3> QED  BY <1>1, <2>1, <3>3 DEF Replaced
    <2> QED  BY <2>3, <2>4
<1> QED  BY <1>1, <1>2, <1>3, <1>4

\* The file changes, the pane does not.
LEMMA OutsiderIsSafe ==
    ASSUME NEW s, NEW q, NEW u, NEW f, NEW g, NEW c, NEW l, NEW m \in OutMark, NEW h, NEW z, NEW j,
           SafeText(s, q, u, f, g, c, l), Outsider(s, f, m, h, z), m \notin s.outside,
           u.phase \notin {"checked", "written"}, j.phase = "reload" => g.phase = "reload"
    PROVE  SafeText(z, q, u, h, j, c, l)
<1>1. /\ m \notin q.base /\ m \notin q.draft /\ m \notin f
      /\ u # None => m \notin u.text /\ m \notin u.rev
    BY DEF SafeText, KnowsPane, KnowsPut, Known
<1>2. \A n : n \in h <=> n = m \/ (n \in f /\ n \notin RivalsOf(m))
    BY InSet DEF Outsider
<1>3. Others(z) \subseteq Others(s) \cup {m} /\ z.want \subseteq s.want
    BY InSet DEF Outsider, Others
<1>4. \A n \in OutProse : n \in f => n \in h
    BY <1>2, ProseStays DEF OutProse
<1>5. ToLand(u, h) => ToLand(u, f)
    <2>1. u.phase = "sent" => u # None
        BY NoneIsNoRequest
    <2> QED  BY <1>1, <1>2, <2>1 DEF ToLand, Current
<1>6. Lands(u, h) => Lands(u, f) /\ u # None
    BY <1>5, NoneIsNoRequest DEF Lands, ToLand, Landed
<1>7. Marked(z, h)
    <2>1. z.theirs \subseteq h
        BY <1>2, InSet DEF SafeText, Marked, Outsider
    <2>2. z.theirs \subseteq OutMark
        BY InSet DEF SafeText, Marked, Outsider
    <2> QED  BY <1>3, <2>1, <2>2 DEF SafeText, Marked, Outsider
<1>8. KnowsPane(z, q, h) /\ KnowsPut(z, u) /\ \A i \in Slot : KnowsLadder(z, l[i])
    BY <1>2 DEF SafeText, KnowsPane, KnowsPut, KnowsLadder, Known, Outsider
<1>9. Drafted(z, q, u, h)
    <2> SUFFICES ASSUME q.open PROVE Drafted(z, q, u, h)
        BY DEF Drafted
    <2>1. Good(z, q.draft)
        BY <1>3 DEF SafeText, Drafted, Good, Outsider
    <2>2. Others(z) \cap q.base \subseteq q.draft
        BY <1>1, <1>3 DEF SafeText, Drafted
    <2>3. Lands(u, h) => Others(z) \cap u.text \subseteq q.draft
        BY <1>1, <1>3, <1>6 DEF SafeText, Drafted
    <2>4. OutProse \cap Effective(q, u) \subseteq h
        BY <1>4 DEF SafeText, Drafted
    <2> QED  BY <2>1, <2>2, <2>3, <2>4 DEF SafeText, Drafted
<1>10. Sends(z, u, h)
    <2>1. u.phase = "sent" => u # None
        BY NoneIsNoRequest
    <2> QED  BY <1>1, <1>3, <2>1 DEF SafeText, Sends
<1>11. Explained(z, q, u, h)
    <2> DEFINE e == Effective(q, u)
    <2> SUFFICES ASSUME q.open, NEW x \in OwnMark, x \in Changed(e, h)
                 PROVE  \/ ~Landed(u) /\ x \in z.lost /\ x \in Changed(q.base, q.draft)
                        \/ Replaced(z, x, e, h)
        BY DEF Explained
    <2> HIDE DEF e
    <2>1. /\ x \in h => x \in f
          /\ x \in e \cap f /\ x \notin h => Replaced(z, x, e, h)
          /\ Replaced(s, x, e, f) => Replaced(z, x, e, h)
        BY OutsiderReplaces
    <2>2. CASE x \in Changed(e, f)
        BY <2>1, <2>2 DEF SafeText, Explained, Outsider, e
    <2>3. CASE x \notin Changed(e, f)
        BY <2>1, <2>3 DEF Changed
    <2> QED  BY <2>2, <2>3
<1>12. Settled(z, q, u, h, j)
    <2> SUFFICES ASSUME ~q.open \/ g.phase = "reload"
                 PROVE  Good(z, h) /\ (OnWay(u) => Good(z, u.text))
        BY DEF Settled
    <2>1. Good(s, f) /\ (OnWay(u) => Good(s, u.text))
        BY DEF SafeText, Settled
    <2>2. z.want \subseteq h
        BY <1>2, <2>1 DEF Good, Outsider
    <2>3. z.undone \cap h = {}
        BY <1>2, <2>1, OwnOrOut DEF Good, Outsider, SafeText, Marked
    <2> QED  BY <1>3, <2>1, <2>2, <2>3 DEF Good, Outsider
<1>13. Reloads(q, u, h, j)
    BY <1>4, <1>5, <1>6 DEF SafeText, Reloads
<1>14. Leaves(z, q, u, c, l)
    BY <1>3 DEF SafeText, Leaves, Good, Outsider
<1>15. ASSUME NEW i \in Slot, l[i].stage = "merge"
       PROVE  Compared(z, h, l[i]) /\ Viable(z, q, u, h, l[i])
    <2> DEFINE k == l[i]
    <2>1. Compared(s, f, k) /\ Viable(s, q, u, f, k)
        BY <1>15 DEF SafeText, Merges
    <2>2. m \notin k.remote /\ m \notin k.base
        BY <1>15 DEF SafeText, KnowsLadder, Known
    <2> HIDE DEF k
    <2>3. Compared(z, h, k)
        <3>1. OutProse \cap k.remote \subseteq h
            BY <1>4, <2>1 DEF Compared
        <3>2. /\ Others(z) \cap k.base \subseteq k.remote
              /\ Others(z) \cap Prose(k.base) \subseteq k.local
              /\ Others(z) \cap Fields(k.remote) \subseteq k.fields
            BY <1>3, <2>1, <2>2 DEF Compared, Prose, Fields
        <3>3. z.want \cap FieldMark \subseteq k.fields /\ z.undone \cap k.fields = {}
            BY <1>3, <2>1 DEF Compared, Outsider
        <3> QED  BY <2>1, <3>1, <3>2, <3>3 DEF Compared
    <2>4. Viable(z, q, u, h, k)
        <3> SUFFICES ASSUME q.open, ~Doomed(q, k) PROVE Viable(z, q, u, h, k)
            BY DEF Viable
        <3>1. u.phase = "ok" => Others(z) \cap Fields(u.text) \subseteq k.fields
            <4>1. u.phase = "ok" => u # None
                BY NoneIsNoRequest
            <4> QED  BY <1>1, <1>3, <2>1, <4>1 DEF Viable, Fields
        <3>2. ASSUME NEW x \in OwnMark, x \in Changed(k.remote, h)
              PROVE  Replaced(z, x, k.remote, h)
            <4>1. /\ x \in h => x \in f
                  /\ x \in k.remote \cap f /\ x \notin h => Replaced(z, x, k.remote, h)
                  /\ Replaced(s, x, k.remote, f) => Replaced(z, x, k.remote, h)
                BY OutsiderReplaces
            <4>2. CASE x \in Changed(k.remote, f)
                BY <2>1, <4>1, <4>2 DEF Viable
            <4>3. CASE x \notin Changed(k.remote, f)
                BY <3>2, <4>1, <4>3 DEF Changed
            <4> QED  BY <4>2, <4>3
        <3> QED  BY <3>1, <3>2 DEF Viable
    <2> QED  BY <2>3, <2>4 DEF k
<1> QED  BY <1>7, <1>8, <1>9, <1>10, <1>11, <1>12, <1>13, <1>14, <1>15 DEF SafeText, Merges

-----------------------------------------------------------------------------
(* A pane gets another base *)

\* The request and the file stay; the pane q becomes r
LEMMA RebasedIsSafe ==
    ASSUME NEW s, NEW q, NEW u, NEW f, NEW g, NEW c, NEW l, NEW r, NEW h, NEW d, NEW n,
           SafeText(s, q, u, f, g, c, l), q.open, r.open,
           KnowsPane(s, r, f), Drafted(s, r, u, f), Explained(s, r, u, f),
           Settled(s, r, u, f, h), Reloads(r, u, f, h),
           \A i \in Slot : n[i].stage = "merge" => n[i] = l[i] /\ (Doomed(q, l[i]) => Doomed(r, l[i])),
           Forces(u, d, n), OnWay(u) /\ Leaving(d, n) => Leaving(c, l)
    PROVE  SafeText(s, r, u, f, h, d, n)
<1>1. Marked(s, f) /\ KnowsPut(s, u) /\ Sends(s, u, f)
    BY DEF SafeText
<1>2. \A i \in Slot : KnowsLadder(s, n[i])
    BY DEF SafeText, KnowsLadder
<1>3. Leaves(s, r, u, d, n)
    BY DEF SafeText, Leaves
<1>4. ASSUME NEW i \in Slot, n[i].stage = "merge"
      PROVE  Compared(s, f, n[i]) /\ Viable(s, r, u, f, n[i])
    <2>1. n[i] = l[i] /\ Compared(s, f, l[i]) /\ Viable(s, q, u, f, l[i])
        BY <1>4 DEF SafeText, Merges
    <2> QED  BY <1>4, <2>1 DEF Viable
<1> QED  BY <1>1, <1>2, <1>3, <1>4 DEF SafeText, Merges

\* Nothing that is on its way has been taken back
Standing(q, u) == u = None \/ Changed(u.text, q.base) \cap Changed(u.text, q.draft) = {}

\* What differs in the file from the base is in the drafts as well, or others
\* have set the field
LEMMA TakeUp ==
    ASSUME NEW s, NEW q, NEW u, NEW f, Explained(s, q, u, f), q.open, Standing(q, u),
           NEW x \in OwnMark, x \in Changed(q.base, f)
    PROVE  \/ x \in q.draft <=> x \in f
           \/ x \notin f /\ RivalsOf(x) \cap f # {} /\ x \notin s.want
<1>1. CASE ~Landed(u)
    BY <1>1 DEF Explained, Effective, Changed, Replaced
<1>2. CASE Landed(u) /\ x \in Changed(u.text, f)
    BY <1>2 DEF Explained, Effective, Replaced
<1>3. CASE Landed(u) /\ x \notin Changed(u.text, f)
    <2>1. x \in Changed(u.text, q.base) /\ u # None
        BY <1>3, NoneIsNoRequest DEF Changed, Landed
    <2>2. x \notin Changed(u.text, q.draft)
        BY <2>1 DEF Standing
    <2> QED  BY <1>3, <2>2 DEF Changed
<1> QED  BY <1>1, <1>2, <1>3

\* The prose of others that the pane knows is still in the file.
LEMMA ProseIsThere ==
    ASSUME NEW s, NEW q, NEW u, NEW f, Drafted(s, q, u, f), q.open, Standing(q, u)
    PROVE  OutProse \cap q.base \subseteq f
<1>1. OutProse \cap q.base \subseteq q.draft
    BY DEF Drafted, Others
<1>2. CASE ~Landed(u)
    BY <1>2 DEF Drafted, Effective
<1>3. CASE Landed(u)
    <2>1. u # None
        BY <1>3, NoneIsNoRequest DEF Landed
    <2>2. OutProse \cap q.base \subseteq u.text
        BY <1>1, <2>1 DEF Standing, Changed
    <2> QED  BY <1>3, <2>2 DEF Drafted, Effective
<1> QED  BY <1>2, <1>3

\* Compare: the merged fields have what the author wants and what others wrote.
LEMMA FieldsAreMerged ==
    ASSUME NEW s, NEW q, NEW u, NEW f, NEW t,
           Marked(s, f), Drafted(s, q, u, f), Explained(s, q, u, f), q.open, Standing(q, u),
           t = Merge(Fields(q.base), Fields(q.draft), Fields(f))
    PROVE  /\ t \subseteq FieldMark /\ t \subseteq q.draft \cup f
           /\ s.want \cap FieldMark \subseteq t /\ s.undone \cap t = {}
           /\ \A x \in Others(s) \cap FieldMark : x \in t
<1>1. \A x : x \in t <=> /\ x \in FieldMark
                         /\ \/ x \in q.draft \ q.base \/ x \in f \ q.base
                            \/ x \in q.base \cap q.draft \cap f
    BY DEF Merge, Fields
<1>2. Good(s, q.draft) /\ s.want \subseteq OwnMark /\ s.undone \subseteq OwnMark
    BY DEF Drafted, Marked
<1>3. \A x \in OwnMark : x \in Changed(q.base, f) =>
          \/ x \in q.draft <=> x \in f
          \/ x \notin f /\ RivalsOf(x) \cap f # {} /\ x \notin s.want
    BY TakeUp
<1>4. s.want \cap FieldMark \subseteq t
    <2> SUFFICES ASSUME NEW x \in s.want, x \in FieldMark PROVE x \in t
        OBVIOUS
    <2>1. x \in OwnMark /\ x \in q.draft
        BY <1>2 DEF Good
    <2>2. CASE x \in q.base /\ x \notin f
        BY <1>3, <2>1, <2>2 DEF Changed
    <2> QED  BY <1>1, <2>1, <2>2
<1>5. s.undone \cap t = {}
    <2> SUFFICES ASSUME NEW x \in s.undone, x \in t PROVE FALSE
        OBVIOUS
    <2>1. x \in OwnMark /\ x \notin q.draft
        BY <1>2 DEF Good
    <2>2. x \in f \ q.base
        BY <1>1, <2>1
    <2> QED  BY <1>3, <2>1, <2>2 DEF Changed
<1>6. \A x \in Others(s) \cap FieldMark : x \in t
    <2> SUFFICES ASSUME NEW x \in Others(s), x \in FieldMark PROVE x \in t
        OBVIOUS
    <2>1. x \in f
        BY DEF Others, OutProse, Marked
    <2>2. x \in q.base => x \in q.draft
        BY DEF Drafted
    <2> QED  BY <1>1, <2>1, <2>2
<1> QED  BY <1>1, <1>4, <1>5, <1>6

-----------------------------------------------------------------------------
(* The ladder *)

\* Rung 1, the pane stays open
LEMMA AdoptedIsSafe ==
    ASSUME NEW s, NEW q, NEW u, NEW f, NEW g, NEW c, NEW l, NEW r, NEW n,
           SafeText(s, q, u, f, g, c, l), q.open, q.draft = f,
           r.open, r.draft = q.draft, r.base = f, r.rev = f,
           NoNewMerge(l, n), Forces(u, c, n), OnWay(u) /\ Leaving(c, n) => Leaving(c, l)
    PROVE  SafeText(s, r, u, f, g, c, n)
<1>1. KnowsPane(s, r, f)
    BY DEF SafeText, KnowsPane
<1>2. Drafted(s, r, u, f)
    BY DEF SafeText, Drafted, Effective
<1>3. Explained(s, r, u, f)
    BY DEF SafeText, Explained, Effective, Changed
<1>4. Settled(s, r, u, f, g) /\ Reloads(r, u, f, g)
    BY DEF SafeText, Settled, Reloads
<1>5. \A i \in Slot : n[i].stage = "merge" => n[i] = l[i] /\ (Doomed(q, l[i]) => Doomed(r, l[i]))
    BY DEF NoNewMerge, Doomed
<1> QED  BY <1>1, <1>2, <1>3, <1>4, <1>5, RebasedIsSafe

\* Only fields differ: they are merged and saved again
LEMMA FieldsResavedIsSafe ==
    ASSUME NEW s, NEW q, NEW u, NEW f, NEW g, NEW c, NEW l, NEW r, NEW d, NEW n, NEW t,
           SafeText(s, q, u, f, g, c, l), q.open, Standing(q, u), Prose(f) = Prose(q.base),
           t = Merge(Fields(q.base), Fields(q.draft), Fields(f)),
           r.open, r.draft = t \cup Prose(q.draft), r.base = f, r.rev = f, r.dirty,
           NoNewMerge(l, n), Forces(u, d, n), OnWay(u) /\ Leaving(d, n) => Leaving(c, l)
    PROVE  SafeText(s, r, u, f, g, d, n)
<1>0. Marked(s, f) /\ Drafted(s, q, u, f) /\ Explained(s, q, u, f)
    BY DEF SafeText
<1>1. /\ t \subseteq FieldMark /\ t \subseteq q.draft \cup f
      /\ s.want \cap FieldMark \subseteq t /\ s.undone \cap t = {}
      /\ \A x \in Others(s) \cap FieldMark : x \in t
    BY <1>0, FieldsAreMerged
<1>2. \A x : x \notin FieldMark => (x \in r.draft <=> x \in q.draft) /\ (x \in f <=> x \in q.base)
    BY <1>1 DEF Prose
<1>3. KnowsPane(s, r, f)
    BY <1>1 DEF SafeText, KnowsPane, Known, Prose
<1>4. Drafted(s, r, u, f)
    <2>1. Good(s, r.draft)
        BY <1>0, <1>1 DEF Drafted, Good, Prose
    <2>2. Others(s) \cap r.base \subseteq r.draft
        BY <1>0, <1>1, <1>2 DEF Drafted
    <2>3. Lands(u, f) => Others(s) \cap u.text \subseteq r.draft
        BY <1>0, <1>1, <1>2 DEF Drafted
    <2>4. OutProse \cap Effective(r, u) \subseteq f
        BY <1>0 DEF Drafted, Effective
    <2> QED  BY <2>1, <2>2, <2>3, <2>4 DEF Drafted
<1>5. Explained(s, r, u, f)
    BY <1>0 DEF Explained, Effective, Changed
<1>6. Settled(s, r, u, f, g) /\ Reloads(r, u, f, g)
    <2>1. OutProse \cap r.draft = OutProse \cap q.draft
        BY <1>2 DEF OutProse
    <2> QED  BY <2>1 DEF SafeText, Settled, Reloads
<1>7. \A i \in Slot : n[i].stage = "merge" => n[i] = l[i] /\ (Doomed(q, l[i]) => Doomed(r, l[i]))
    BY <1>2 DEF NoNewMerge, Doomed, OutProse
<1> QED  BY <1>3, <1>4, <1>5, <1>6, <1>7, RebasedIsSafe

\* The merge k of the pane q with the file f, and what it makes of q in the end
Begun(q, f, k) ==
    /\ Prose(f) # Prose(q.base)
    /\ k.remote = f /\ k.base = q.base /\ k.local = Prose(q.draft)
    /\ k.fields = Merge(Fields(q.base), Fields(q.draft), Fields(f))
Ended(q, k, r) ==
    LET w == Merge(Prose(k.base), k.local, Prose(k.remote)) IN
    /\ Apart(Prose(k.base), k.local, Prose(k.remote))
    /\ w = k.local \/ Prose(q.draft) = k.local
    /\ r.draft = k.fields \cup (IF w = k.local THEN Prose(q.draft) ELSE w)
    /\ r.base = k.remote /\ r.rev = k.remote /\ r.open /\ r.dirty

\* The slot j of the ladders l gets k
Placed(l, j, k, n) == n[j] = k /\ \A i \in Slot : i # j => n[i] = l[i]

\* The prose differs: a merge begins
LEMMA MergeBegunIsSafe ==
    ASSUME NEW s, NEW q, NEW u, NEW f, NEW g, NEW c, NEW l, NEW n, NEW j \in Slot, NEW k,
           SafeText(s, q, u, f, g, c, l), q.open, Standing(q, u), Begun(q, f, k),
           Placed(l, j, k, n), Forces(u, c, n), Leaving(c, n) => Leaving(c, l)
    PROVE  SafeText(s, q, u, f, g, c, n)
<1> USE DEF Begun, Placed
<1>0. Marked(s, f) /\ Drafted(s, q, u, f) /\ Explained(s, q, u, f)
    BY DEF SafeText
<1>1. /\ k.fields \subseteq FieldMark /\ k.fields \subseteq q.draft \cup f
      /\ s.want \cap FieldMark \subseteq k.fields /\ s.undone \cap k.fields = {}
      /\ \A x \in Others(s) \cap FieldMark : x \in k.fields
    BY <1>0, FieldsAreMerged
<1>2. KnowsLadder(s, k)
    BY <1>1 DEF KnowsLadder, SafeText, KnowsPane, Known, Prose
<1>3. Compared(s, f, k)
    <2>1. OutProse \cap q.base \subseteq f
        BY <1>0, ProseIsThere
    <2>2. /\ Others(s) \cap k.base \subseteq k.remote
          /\ Others(s) \cap Prose(k.base) \subseteq k.local
          /\ Others(s) \cap Fields(k.remote) \subseteq k.fields
        BY <1>0, <1>1, <2>1 DEF Others, Marked, Drafted, Prose, Fields
    <2>3. ASSUME NEW x \in OwnMark \ FieldMark, x \in Changed(k.base, k.remote)
          PROVE  x \in k.remote <=> x \in k.local
        <3>1. \/ x \in q.draft <=> x \in f
              \/ x \notin f /\ RivalsOf(x) \cap f # {} /\ x \notin s.want
            BY <1>0, <2>3, TakeUp
        <3>2. RivalsOf(x) = {}
            BY <2>3, ProseStays
        <3> QED  BY <2>3, <3>1, <3>2 DEF Prose
    <2> QED  BY <1>1, <2>2, <2>3 DEF Compared, Prose
<1>4. Viable(s, q, u, f, k)
    BY <1>1 DEF Viable, Changed, Fields
<1>5. Merges(s, q, u, f, n)
    BY <1>3, <1>4 DEF SafeText, Merges
<1>6. \A i \in Slot : KnowsLadder(s, n[i])
    BY <1>2 DEF SafeText
<1>7. Leaves(s, q, u, c, n)
    BY DEF SafeText, Leaves
<1> QED  BY <1>5, <1>6, <1>7 DEF SafeText

\* The prose has been merged and goes into the drafts
LEMMA ProseMergedIsSafe ==
    ASSUME NEW s, NEW q, NEW u, NEW f, NEW g, NEW c, NEW l \in [Slot -> Ladder], NEW d, NEW n,
           NEW j \in Slot, NEW r, l[j].stage = "merge",
           SafeText(s, q, u, f, g, c, l), q.open, Ended(q, l[j], r),
           NoNewMerge(l, n), Forces(u, d, n), OnWay(u) /\ Leaving(d, n) => Leaving(c, l)
    PROVE  SafeText(s, r, u, f, g, d, n)
<1>a. PICK k : k = l[j]
    OBVIOUS
<1>b. PICK w : w = Merge(Prose(k.base), k.local, Prose(k.remote))
    OBVIOUS
<1>c. /\ Apart(Prose(k.base), k.local, Prose(k.remote))
      /\ w = k.local \/ Prose(q.draft) = k.local
      /\ r.draft = k.fields \cup (IF w = k.local THEN Prose(q.draft) ELSE w)
      /\ r.base = k.remote /\ r.rev = k.remote /\ r.open /\ r.dirty
    BY <1>a, <1>b DEF Ended
<1>0. /\ Marked(s, f) /\ Drafted(s, q, u, f)
      /\ Compared(s, f, k) /\ Viable(s, q, u, f, k) /\ k \in Ladder
      /\ KnowsLadder(s, k) /\ k.stage = "merge"
    BY <1>a DEF SafeText, Merges
<1>1. \A x : x \in w <=>
          \/ x \in k.local /\ x \notin Prose(k.base)
          \/ x \in Prose(k.remote) /\ x \notin Prose(k.base)
          \/ x \in Prose(k.base) /\ x \in k.local /\ x \in Prose(k.remote)
    BY <1>b DEF Merge
<1>2. w # k.local
    <2>1. PICK m \in OutProse \cap k.remote : m \notin k.local /\ m \notin k.base
        BY <1>0, <1>c, MergeWitness
    <2> QED  BY <1>1, <2>1 DEF Prose, OutProse
<1>3. k.local = Prose(q.draft) /\ r.draft = k.fields \cup w
    BY <1>2, <1>c
<1>4. ~Doomed(q, k)
    BY <1>3, <1>c DEF Doomed, Prose, OutProse
<1>5. ~ToLand(u, f) /\ u.phase # "written"
    BY <1>a, <1>0, <1>4, NoLanding
<1>6. \A x \in Others(s) : x \in k.local => x \in w
    BY <1>0, <1>1 DEF Compared, Prose
<1>7. \A x \in Others(s) : x \in Prose(k.remote) => x \in w
    BY <1>0, <1>1 DEF Compared
<1>8. w \cap FieldMark = {} /\ k.fields \subseteq FieldMark
    BY <1>0, <1>1 DEF Compared, Prose
<1>9. KnowsPane(s, r, f)
    <2>1. Known(s, w)
        BY <1>0, <1>1 DEF KnowsLadder, Known, Prose
    <2> QED  BY <1>0, <1>3, <1>c, <2>1 DEF SafeText, KnowsLadder, KnowsPane, Known
<1>10. Drafted(s, r, u, f)
    <2>1. Good(s, q.draft)
        BY <1>0 DEF Drafted
    <2>2. \A x \in OwnMark \ FieldMark : x \in w <=> x \in k.local
        BY <1>0, <1>1 DEF Compared, Changed, Prose
    <2>3. s.want \subseteq r.draft
        <3> SUFFICES ASSUME NEW x \in s.want PROVE x \in r.draft
            OBVIOUS
        <3>1. x \in OwnMark /\ x \in q.draft
            BY <1>0, <2>1 DEF Marked, Good
        <3>2. CASE x \in FieldMark
            BY <1>0, <1>3, <3>2 DEF Compared
        <3>3. CASE x \notin FieldMark
            BY <1>3, <2>2, <3>1, <3>3 DEF Prose
        <3> QED  BY <3>2, <3>3
    <2>4. s.undone \cap r.draft = {}
        <3> SUFFICES ASSUME NEW x \in s.undone, x \in r.draft PROVE FALSE
            OBVIOUS
        <3>1. x \in OwnMark /\ x \notin q.draft
            BY <1>0, <2>1 DEF Marked, Good
        <3>2. x \in w
            BY <1>0, <1>3 DEF Compared
        <3> QED  BY <1>3, <1>8, <2>2, <3>1, <3>2 DEF Prose
    <2>5. Others(s) \cap r.base \subseteq r.draft
        BY <1>0, <1>3, <1>7, <1>c DEF Compared, Fields, Prose
    <2>6. Lands(u, f) => Others(s) \cap u.text \subseteq r.draft
        <3> SUFFICES ASSUME Lands(u, f), NEW x \in Others(s), x \in u.text PROVE x \in r.draft
            OBVIOUS
        <3>1. u.phase = "ok" /\ x \in q.draft
            BY <1>0, <1>5 DEF Lands, Landed, Drafted
        <3>2. CASE x \in FieldMark
            BY <1>0, <1>3, <1>4, <3>1, <3>2 DEF Viable, Fields
        <3>3. CASE x \notin FieldMark
            BY <1>3, <1>6, <3>1, <3>3 DEF Prose
        <3> QED  BY <3>2, <3>3
    <2>7. OutProse \cap Effective(r, u) \subseteq f
        BY <1>0, <1>c DEF Drafted, Effective, Compared
    <2> QED  BY <1>c, <2>3, <2>4, <2>5, <2>6, <2>7 DEF Drafted, Good
<1>11. Explained(s, r, u, f)
    <2>1. CASE Landed(u)
        BY <1>0, <2>1 DEF SafeText, Explained, Effective
    <2>2. CASE ~Landed(u)
        BY <1>0, <1>4, <1>c, <2>2 DEF Explained, Effective, Viable
    <2> QED  BY <2>1, <2>2
<1>12. OutProse \cap q.draft \subseteq r.draft
    BY <1>3, <1>6 DEF OutProse, Others, Prose
<1>13. Settled(s, r, u, f, g) /\ Reloads(r, u, f, g)
    <2>1. g.phase = "reload" => OutProse \cap r.draft \subseteq f
        <3> SUFFICES ASSUME g.phase = "reload", NEW x \in OutProse, x \in r.draft PROVE x \in f
            OBVIOUS
        <3>1. x \in w
            BY <1>3, <1>8 DEF OutProse
        <3>2. x \in q.draft \/ x \in k.remote
            BY <1>1, <1>3, <3>1 DEF Prose
        <3> QED  BY <1>0, <3>2 DEF SafeText, Reloads, Compared
    <2> QED  BY <1>5, <1>c, <2>1 DEF SafeText, Settled, Reloads
<1>14. \A i \in Slot : n[i].stage = "merge" => n[i] = l[i] /\ (Doomed(q, l[i]) => Doomed(r, l[i]))
    BY <1>12 DEF NoNewMerge, Doomed
<1> QED  BY <1>c, <1>9, <1>10, <1>11, <1>13, <1>14, RebasedIsSafe

-----------------------------------------------------------------------------
(* Reloads and renames *)

\* StartReload: the file may replace the drafts of a clean pane.
LEMMA ReloadBegunIsSafe ==
    ASSUME NEW s, NEW q, NEW u, NEW f, NEW g, NEW c, NEW l, NEW h,
           SafeText(s, q, u, f, g, c, l), q.open, q.draft = q.base, Standing(q, u)
    PROVE  SafeText(s, q, u, f, h, c, l)
<1>1. Drafted(s, q, u, f)
    BY DEF SafeText
<1>2. Good(s, f) /\ (OnWay(u) => Good(s, u.text))
    BY CleanIsGood DEF SafeText, Standing
<1>3. OutProse \cap q.draft \subseteq f
    BY <1>1, ProseIsThere
<1>4. Lands(u, f) => OutProse \cap u.text \subseteq f
    BY <1>1, <1>3 DEF Drafted, Others
<1>5. ToLand(u, f) => OutProse \cap q.draft \subseteq u.text
    BY NoneIsNoRequest DEF ToLand, Standing, Changed
<1>6. Settled(s, q, u, f, h) /\ Reloads(q, u, f, h)
    BY <1>2, <1>3, <1>4, <1>5 DEF Settled, Reloads
<1> QED  BY <1>6 DEF SafeText

\* FinishReload: it does.
LEMMA ReloadedIsSafe ==
    ASSUME NEW s, NEW q, NEW u, NEW f, NEW g, NEW c, NEW l, NEW r, NEW h,
           SafeText(s, q, u, f, g, c, l), q.open, g.phase = "reload", h.phase # "reload",
           r.open, r.draft = f, r.base = f, r.rev = f, Forces(u, c, l)
    PROVE  SafeText(s, r, u, f, h, c, l)
<1>1. KnowsPane(s, r, f)
    BY DEF SafeText, KnowsPane
<1>2. Drafted(s, r, u, f)
    <2>1. Good(s, f)
        BY DEF SafeText, Settled
    <2>2. Lands(u, f) => Others(s) \cap u.text \subseteq f
        BY DEF SafeText, Reloads, Others, Marked
    <2>3. OutProse \cap Effective(r, u) \subseteq f
        BY DEF SafeText, Drafted, Effective
    <2> QED  BY <2>1, <2>2, <2>3 DEF Drafted
<1>3. Explained(s, r, u, f)
    BY DEF SafeText, Explained, Effective, Changed
<1>4. Settled(s, r, u, f, h) /\ Reloads(r, u, f, h)
    BY DEF Settled, Reloads
<1>5. \A i \in Slot : l[i].stage = "merge" => l[i] = l[i] /\ (Doomed(q, l[i]) => Doomed(r, l[i]))
    BY DEF SafeText, Reloads, Doomed
<1> QED  BY <1>1, <1>2, <1>3, <1>4, <1>5, RebasedIsSafe

\* FinishRename: base, drafts and file are one text.
LEMMA RenamedIsSafe ==
    ASSUME NEW s, NEW q, NEW f, NEW g, NEW c, NEW l, NEW r, NEW h,
           SafeText(s, q, None, f, g, c, l), q.open, q.draft = q.base, h.phase # "reload",
           \A i \in Slot : l[i].stage # "merge",
           r.open, r.draft = f, r.base = f, r.rev = f, Forces(None, c, l)
    PROVE  SafeText(s, r, None, f, h, c, l)
<1>0. ~Landed(None) /\ ~Lands(None, f)
    BY NoneIsNoRequest DEF Landed, Lands, ToLand
<1>1. KnowsPane(s, r, f)
    BY DEF SafeText, KnowsPane
<1>2. Drafted(s, r, None, f)
    <2>1. Good(s, f)
        BY CleanIsGood DEF SafeText
    <2> QED  BY <1>0, <2>1 DEF Drafted, Effective
<1>3. Explained(s, r, None, f)
    BY <1>0 DEF Explained, Effective, Changed
<1>4. Settled(s, r, None, f, h) /\ Reloads(r, None, f, h)
    BY DEF Settled, Reloads
<1> QED  BY <1>1, <1>2, <1>3, <1>4, RebasedIsSafe

-----------------------------------------------------------------------------
(* The chain and the ladders *)

\* No conflict is added, and none is about closing that was not
NoMore(l, n) == \A i \in Slot : /\ n[i] # NoLadder => l[i] # NoLadder
                                /\ n[i].kind \in {l[i].kind, "none"}

\* Fewer conflicts: an overwrite is still first, and no more closes wait.
LEMMA ChainStays ==
    ASSUME NEW u, NEW c \in Seq(Call), NEW l, NEW n, NoMore(l, n), Forces(u, c, l)
    PROVE  Forces(u, c, n) /\ (Leaving(c, n) => Leaving(c, l))
<1>1. Forces(u, c, n)
    BY DEF Forces, NoMore
<1>2. ASSUME Leaving(c, n) PROVE Leaving(c, l)
    <2>1. CASE \E i \in Slot : n[i].kind = "close"
        BY <2>1 DEF NoMore, Leaving
    <2>2. CASE c # << >> /\ Closes(Head(c), n)
        <3>1. Head(c) \in Call
            BY <2>2
        <3>2. Head(c).by = "merge" => Head(c).slot \in Slot
            BY <3>1 DEF Call
        <3> QED  BY <2>2, <3>2 DEF NoMore, Leaving, Closes
    <2> QED  BY <1>2, <2>1, <2>2 DEF Leaving
<1> QED  BY <1>1, <1>2

\* A call that is not an overwrite joins.
LEMMA ChainGrows ==
    ASSUME NEW u, NEW c \in Seq(Call), NEW l, NEW n, NEW e \in Call, NoMore(l, n),
           Forces(u, c, l), ~Forced(e), u # None => c # << >>
    PROVE  /\ Forces(u, Append(c, e), n)
           /\ OnWay(u) /\ Leaving(Append(c, e), n) => Leaving(c, l)
<1> DEFINE d == Append(c, e)
<1>1. /\ Len(d) = Len(c) + 1 /\ d[Len(c) + 1] = e /\ DOMAIN d = 1..(Len(c) + 1)
      /\ \A i \in 1..Len(c) : d[i] = c[i]
      /\ DOMAIN c = 1..Len(c) /\ Len(c) \in Nat
    OBVIOUS
<1>2. \A i \in DOMAIN d : Forced(d[i]) => i \in DOMAIN c /\ Forced(c[i])
    <2>1. \A i \in DOMAIN d : i \in 1..Len(c) \/ i = Len(c) + 1
        BY <1>1
    <2> HIDE DEF d
    <2> QED  BY <1>1, <2>1
<1>3. c # << >> => Head(d) = Head(c)
    OBVIOUS
<1> HIDE DEF d
<1>4. Forces(u, d, n)
    BY <1>2 DEF Forces, NoMore
<1>5. ASSUME OnWay(u), Leaving(d, n) PROVE Leaving(c, l)
    <2>1. c # << >> /\ Head(d) = Head(c)
        BY <1>3, <1>5, NoneIsNoRequest DEF OnWay
    <2>2. Leaving(c, n)
        BY <1>5, <2>1 DEF Leaving
    <2> QED  BY <2>2, ChainStays
<1> QED  BY <1>4, <1>5 DEF d

\* The first call is settled
LEMMA ChainShortens ==
    ASSUME NEW u, NEW c \in Seq(Call), NEW l, NEW n, Forces(u, c, l), c # << >>
    PROVE  Forces(None, Tail(c), n)
<1>1. \A i \in DOMAIN Tail(c) : i + 1 \in DOMAIN c /\ Tail(c)[i] = c[i + 1] /\ i + 1 # 1
    <2>1. DOMAIN Tail(c) = 1..(Len(c) - 1) /\ DOMAIN c = 1..Len(c) /\ Len(c) \in Nat
        OBVIOUS
    <2>2. \A i \in 1..(Len(c) - 1) : Tail(c)[i] = c[i + 1]
        OBVIOUS
    <2> QED  BY <2>1, <2>2
<1>2. \A i \in DOMAIN Tail(c) : ~Forced(Tail(c)[i])
    BY <1>1 DEF Forces
<1> QED  BY <1>2 DEF Forces

\* An overwrite joins a chain that is empty.
LEMMA FirstOverwrite ==
    ASSUME NEW e, NEW l, \A i \in Slot : l[i] = NoLadder
    PROVE  Forces(None, Append(<< >>, e), l)
<1>1. DOMAIN Append(<< >>, e) = {1}
    OBVIOUS
<1> QED  BY <1>1 DEF Forces

\* A call joins the chain, and nothing else happens
LEMMA JoinedIsSafe ==
    ASSUME NEW s, NEW q, NEW u, NEW f, NEW g, NEW c \in Seq(Call), NEW l, NEW z, NEW r, NEW n,
           NEW e \in Call, SafeText(s, q, u, f, g, c, l), SameTexts(q, r), SameMarks(s, z),
           u # None => c # << >>, ~Forced(e), NoMore(l, n), NoNewMerge(l, n)
    PROVE  SafeText(z, r, u, f, g, Append(c, e), n)
<1>1. Forces(u, c, l)
    BY DEF SafeText
<1>2. PICK d : d = Append(c, e)
    OBVIOUS
<1>3. Forces(u, d, n) /\ (OnWay(u) /\ Leaving(d, n) => Leaving(c, l))
    BY <1>1, <1>2, ChainGrows
<1> QED  BY <1>2, <1>3, SameIsSafe

\* A conflict is settled without the pane
LEMMA SettledIsSafe ==
    ASSUME NEW s, NEW q, NEW u, NEW f, NEW g, NEW c \in Seq(Call), NEW l, NEW z, NEW r, NEW n, NEW h,
           SafeText(s, q, u, f, g, c, l), SameTexts(q, r), SameMarks(s, z),
           h.phase = "reload" => g.phase = "reload", NoMore(l, n), NoNewMerge(l, n)
    PROVE  SafeText(z, r, u, f, h, c, n)
<1>1. Forces(u, c, l)
    BY DEF SafeText
<1>2. Forces(u, c, n) /\ (Leaving(c, n) => Leaving(c, l))
    BY <1>1, ChainStays
<1> QED  BY <1>2, SameIsSafe

\* Timers have no text.
LEMMA TimersAreNoText ==
    ASSUME NEW q \in PaneRec
    PROVE  /\ SameTexts(q, q) /\ SameTexts(q, Cancelled(q)) /\ SameTexts(q, Scheduled(q))
           /\ SameTexts(q, RetryScheduled(q))
<1>1. SameTexts(q, q) /\ SameTexts(q, Cancelled(q))
    BY CancelledPane DEF SameTexts
<1>2. SameTexts(q, Scheduled(q)) /\ SameTexts(q, RetryScheduled(q))
    BY <1>1 DEF SameTexts, Scheduled, RetryScheduled, Cancelled, PaneRec
<1> QED  BY <1>1, <1>2

\* A pane that is torn down keeps its texts.
LEMMA TornDownIsClosed ==
    ASSUME NEW q \in PaneRec
    PROVE  LET r == TornDown(q) IN ~r.open /\ r.draft = q.draft /\ r.base = q.base
BY DEF TornDown, Cancelled, PaneRec

\* A history is like itself.
LEMMA SameMarksAnyway ==
    ASSUME NEW s
    PROVE  SameMarks(s, s)
BY DEF SameMarks

-----------------------------------------------------------------------------
(* A pane at rest for a rename *)

\* Only timers and dialogs of others change
LEMMA StaysRenamed ==
    ASSUME NEW p \in Pane, Renames(p), fetch'[p] = fetch[p], chain'[p] = chain[p],
           ladder'[p] = ladder[p], put'[p] = put[p], disk'[p] = disk[p],
           SameTexts(pane[p], pane'[p]) \/ ~pane'[p].open,
           modal' # NoDialog /\ modal'.pane = p => modal # NoDialog /\ modal.pane = p,
           confirm' # NoDialog /\ confirm'.pane = p => confirm # NoDialog /\ confirm.pane = p
    PROVE  Renames(p)'
BY DEF Renames, Ladders, SameTexts

\* Nothing is asked of a pane with no rename to wait for.
LEMMA NotRenamed ==
    ASSUME NEW p \in Pane, fetch'[p].phase # "rename"
    PROVE  Renames(p)'
BY DEF Renames

\* Whoever saves, has a conflict or a dialog, or types has no rename to wait for
LEMMA Unrenamed ==
    ASSUME NEW p \in Pane, Renames(p),
           \/ chain[p] # << >> \/ put[p] # None
           \/ \E s \in Slot : ladder[p][s] # NoLadder
           \/ pane[p].open /\ pane[p].dirty
           \/ modal # NoDialog /\ modal.pane = p
           \/ confirm # NoDialog /\ confirm.pane = p
    PROVE  fetch[p].phase # "rename"
BY DEF Renames, Ladders

-----------------------------------------------------------------------------
(* The author's steps *)

\* What the steps below start from
LEMMA Values ==
    ASSUME TypeInv, NEW p \in Pane, Safe(p)
    PROVE  /\ SafeText(story[p], pane[p], put[p], disk[p], fetch[p], chain[p], ladder[p])
           /\ Renames(p) /\ story[p] \in Story /\ pane[p] \in PaneRec /\ put[p] \in Put
           /\ disk[p] \in Text /\ fetch[p] \in Fetch /\ chain[p] \in Seq(Call)
           /\ ladder[p] \in [Slot -> Ladder] /\ (put[p] # None => chain[p] # << >>)
BY DEF TypeInv, Shapes, Safe, Running

\* What the steps below come to
LEMMA SafeAgain ==
    ASSUME NEW p \in Pane, Renames(p)',
           SafeText(story'[p], pane'[p], put'[p], disk'[p], fetch'[p], chain'[p], ladder'[p])
    PROVE  Safe(p)'
BY DEF Safe

\* What is told or counted is no edit
LEMMA NotedStory ==
    ASSUME TypeInv, NEW p \in Pane,
           \/ story' = story \/ story' = Told(p)
           \/ \E t \in BOOLEAN : story' = [story EXCEPT ![p].told = t]
           \/ \E n \in Nat : story' = [story EXCEPT ![p].waited = n]
           \/ \E n \in Nat : story' = [story EXCEPT ![p].fails = n]
    PROVE  SameMarks(story[p], story'[p])
<1>1. story[p] \in Story
    BY DEF TypeInv, Shapes
<1> QED  BY <1>1 DEF SameMarks, Told, TypeInv, Shapes, Story

\* Type does what Typed says.
LEMMA TypeMakes ==
    ASSUME TypeInv, NEW p \in Pane, NEW m \in OwnMark, Type(p, m)
    PROVE  Typed(story[p], pane[p], put[p], disk[p], m, pane'[p], story'[p])
<1> DEFINE q == pane[p]
           s == story[p]
           adds == m \notin q.draft
           text == IF adds THEN Set(q.draft, m) ELSE q.draft \ {m}
           typed == [q EXCEPT !.draft = text, !.dirty = text # q.base]
           stale == RivalsOf(m) \cap disk[p] # {} /\ (m \in q.base \/ (put[p] # None /\ m \in put[p].text))
           w == IF ~adds \/ stale THEN s.want \ ({m} \cup RivalsOf(m)) ELSE Set(s.want, m)
           v == IF adds THEN (s.undone \cup (RivalsOf(m) \cap OwnMark)) \ {m} ELSE s.undone \cup {m}
           t == IF adds THEN s.theirs \ (RivalsOf(m) \cap q.draft) ELSE s.theirs
           n == IF q.dirty /\ ~s.told THEN s.waited ELSE 0
<1>1. q \in PaneRec /\ s \in Story /\ m \in Mark
    BY DEF TypeInv, Shapes, Mark
<1>2. text \in Text
    BY <1>1, SetIsText DEF PaneRec, Text
<1>3. typed \in PaneRec /\ typed.draft = text /\ typed.dirty = (text # q.base)
      /\ typed.base = q.base /\ typed.rev = q.rev /\ typed.open = q.open
    BY <1>1, <1>2 DEF PaneRec
<1>4. pane' = [pane EXCEPT ![p] = Scheduled(typed)]
    BY DEF Type
<1>5. /\ pane'[p].draft = text /\ pane'[p].dirty = (text # q.base)
      /\ pane'[p].base = q.base /\ pane'[p].rev = q.rev /\ pane'[p].open = q.open
    <2> HIDE DEF typed, text
    <2>1. pane'[p] = Scheduled(typed)
        BY <1>4 DEF TypeInv, Shapes
    <2>2. SameTexts(typed, Scheduled(typed))
        BY <1>3, TimersAreNoText
    <2> QED  BY <1>3, <2>1, <2>2 DEF SameTexts
<1>6. story' = [story EXCEPT ![p] =
         [s EXCEPT !.want = w, !.undone = v, !.theirs = t, !.told = FALSE, !.waited = n]]
    BY DEF Type
<1> HIDE DEF w, v, t, n
<1>7. /\ story'[p].want = w /\ story'[p].undone = v /\ story'[p].theirs = t
      /\ story'[p].lost = s.lost /\ story'[p].outside = s.outside
    BY <1>1, <1>6 DEF TypeInv, Shapes, Story
<1> QED  BY <1>5, <1>7 DEF Typed, w, v, t

\* Type
LEMMA TypeStaysSafe ==
    ASSUME Gaps = {}, TypeInv, NEW p \in Pane, Safe(p), NEW m \in OwnMark, Type(p, m)
    PROVE  Safe(p)'
<1>0. /\ SafeText(story[p], pane[p], put[p], disk[p], fetch[p], chain[p], ladder[p])
      /\ chain[p] \in Seq(Call)
    BY Values
<1>1. Typed(story[p], pane[p], put[p], disk[p], m, pane'[p], story'[p])
    BY TypeMakes
<1>2. MayType(p, m) /\ UNCHANGED <<disk, chain, put, ladder, fetch, modal, confirm>>
    BY DEF Type
<1>3. /\ pane[p].open /\ fetch[p].phase \notin {"reload", "rename"} /\ ~Closing(p)
      /\ m \in FieldMark => ~\E i \in Ladders(p) : ladder[p][i].stage = "merge"
    BY <1>2 DEF MayType
<1>4. m \in FieldMark => \A i \in Slot : ladder[p][i].stage # "merge"
    BY <1>3, NoneIsNoRequest DEF Ladders
<1>5. ~Leaving(chain[p], ladder[p])
    <2>1. \A i \in Slot : ladder[p][i].kind # "close"
        BY <1>3, NoneIsNoRequest DEF Closing, Ladders
    <2>2. chain[p] # << >> => Head(chain[p]) = chain[p][1] /\ 1 \in DOMAIN chain[p] /\ chain[p][1] \in Call
        BY <1>0
    <2>3. chain[p] # << >> => Head(chain[p]).by \notin {"close", "forceclose"}
        BY <1>3, <2>2 DEF Closing
    <2>4. chain[p] # << >> /\ Head(chain[p]).by = "merge" => Head(chain[p]).slot \in Slot
        BY <2>2 DEF Call
    <2> QED  BY <2>1, <2>3, <2>4 DEF Leaving, Closes
<1>6. Changed(pane[p].draft, pane'[p].draft) \cap story[p].lost \cap Changed(disk[p], pane[p].base) = {}
    <2> DEFINE text == IF m \notin pane[p].draft THEN Set(pane[p].draft, m) ELSE pane[p].draft \ {m}
    <2>1. pane'[p].draft = text
        BY <1>1 DEF Typed
    <2>2. Changed(pane[p].draft, text) \cap story[p].lost \cap Changed(disk[p], pane[p].base) = {}
        BY DEF Type
    <2> QED  BY <2>1, <2>2
<1>7. SafeText(story'[p], pane'[p], put[p], disk[p], fetch[p], chain[p], ladder[p])
    BY <1>0, <1>1, <1>3, <1>4, <1>5, <1>6, TypedIsSafe
<1> QED  BY <1>2, <1>3, <1>7, SafeAgain, NotRenamed

\* A save is asked for, or the timers run out
LEMMA FireStaysSafe ==
    ASSUME TypeInv, NEW p \in Pane, Safe(p), Fire(p) \/ \E by \in {"auto", "flush"} : Flush(p, by)
    PROVE  Safe(p)'
<1>0. /\ SafeText(story[p], pane[p], put[p], disk[p], fetch[p], chain[p], ladder[p])
      /\ Renames(p) /\ pane[p] \in PaneRec /\ chain[p] \in Seq(Call)
      /\ put[p] # None => chain[p] # << >>
    BY Values
<1>1. /\ UNCHANGED <<disk, put, ladder, fetch, modal, confirm, story>>
      /\ pane'[p] = Cancelled(pane[p])
    BY DEF Fire, Flush, TypeInv, Shapes
<1>2. SameTexts(pane[p], pane'[p]) /\ SameMarks(story[p], story'[p])
    BY <1>0, <1>1, TimersAreNoText, SameMarksAnyway
<1>3. NoMore(ladder[p], ladder'[p]) /\ NoNewMerge(ladder[p], ladder'[p])
    BY <1>1 DEF NoMore, NoNewMerge
<1>4. CASE chain' = chain
    <2>1. SafeText(story'[p], pane'[p], put[p], disk[p], fetch[p], chain[p], ladder'[p])
        BY <1>0, <1>2, <1>3, SettledIsSafe
    <2> QED  BY <1>0, <1>1, <1>2, <1>4, <2>1, SafeAgain, StaysRenamed
<1>5. CASE /\ pane[p].open /\ pane[p].dirty
           /\ \E by \in {"auto", "flush"} : Asks(p, Caller(by))
    <2>1. PICK e \in Call : Asks(p, e) /\ ~Forced(e)
        <3>1. \A by \in {"auto", "flush"} : Caller(by) \in Call /\ ~Forced(Caller(by))
            BY CallersAreCalls DEF Caller, Forced
        <3> QED  BY <1>5, <3>1
    <2>2. chain'[p] = Append(chain[p], e)
        BY <2>1 DEF Asks, TypeInv, Shapes
    <2>3. SafeText(story'[p], pane'[p], put[p], disk[p], fetch[p], Append(chain[p], e), ladder'[p])
        BY <1>0, <1>2, <1>3, <2>1, JoinedIsSafe
    <2>4. fetch[p].phase # "rename"
        BY <1>0, <1>5, Unrenamed
    <2> QED  BY <1>1, <2>2, <2>3, <2>4, SafeAgain, NotRenamed
<1> QED  BY <1>4, <1>5 DEF Fire, Flush, ShouldSave

\* The pane is torn down
LEMMA CloseStaysSafe ==
    ASSUME Gaps = {}, TypeInv, NEW p \in Pane, Safe(p), Close(p)
    PROVE  Safe(p)'
<1>0. /\ SafeText(story[p], pane[p], put[p], disk[p], fetch[p], chain[p], ladder[p])
      /\ Renames(p) /\ pane[p] \in PaneRec /\ chain[p] \in Seq(Call)
      /\ put[p] # None => chain[p] # << >>
    BY Values
<1>1. UNCHANGED <<disk, put, ladder, fetch, modal, confirm, story>> /\ pane[p].open
    BY DEF Close
<1>2. NoMore(ladder[p], ladder'[p]) /\ NoNewMerge(ladder[p], ladder'[p]) /\ SameMarks(story[p], story'[p])
    BY <1>1, SameMarksAnyway DEF NoMore, NoNewMerge
<1>3. CASE pane[p].dirty /\ Asks(p, Caller("close")) /\ pane' = pane
    <2>1. PICK e \in Call : e = Caller("close") /\ ~Forced(e)
        BY CallersAreCalls DEF Caller, Forced
    <2>2. chain'[p] = Append(chain[p], e) /\ SameTexts(pane[p], pane'[p])
        BY <1>0, <1>3, <2>1, TimersAreNoText DEF Asks, TypeInv, Shapes
    <2>3. SafeText(story'[p], pane'[p], put[p], disk[p], fetch[p], Append(chain[p], e), ladder'[p])
        BY <1>0, <1>2, <2>1, <2>2, JoinedIsSafe
    <2>4. fetch[p].phase # "rename"
        BY <1>0, <1>1, <1>3, Unrenamed
    <2> QED  BY <1>1, <2>2, <2>3, <2>4, SafeAgain, NotRenamed
<1>4. CASE ~pane[p].dirty /\ ~TakenBack(p) /\ pane' = [pane EXCEPT ![p] = TornDown(@)] /\ chain' = chain
    <2>1. ~pane'[p].open /\ pane'[p].draft = pane[p].draft /\ pane'[p].base = pane[p].base
        BY <1>0, <1>4, TornDownIsClosed DEF TypeInv, Shapes
    <2>2. pane[p].draft = pane[p].base
        BY <1>0, <1>1, <1>4 DEF SafeText, Drafted
    <2>3. Good(story[p], disk[p]) /\ (OnWay(put[p]) => Good(story[p], put[p].text))
        BY <1>0, <1>1, <1>4, <2>2, CleanIsGood DEF SafeText, TakenBack
    <2>4. Known(story[p], pane'[p].draft) /\ Known(story[p], pane'[p].base) /\ Forces(put[p], chain[p], ladder[p])
        BY <1>0, <2>1 DEF SafeText, KnowsPane
    <2>5. SafeText(story[p], pane'[p], put[p], disk[p], fetch[p], chain[p], ladder[p])
        BY <1>0, <1>1, <1>2, <2>1, <2>3, <2>4, ClosedIsSafe
    <2> QED  BY <1>0, <1>1, <1>4, <2>1, <2>5, SafeAgain, StaysRenamed
<1> QED  BY <1>3, <1>4 DEF Close

\* KeepEditing, KeepOpen and Overwrite
LEMMA DialogStaysSafe ==
    ASSUME Gaps = {}, TypeInv, NEW p \in Pane, Safe(p), KeepEditing(p) \/ KeepOpen(p) \/ Overwrite(p)
    PROVE  Safe(p)'
<1>0. /\ SafeText(story[p], pane[p], put[p], disk[p], fetch[p], chain[p], ladder[p])
      /\ Renames(p) /\ pane[p] \in PaneRec /\ chain[p] \in Seq(Call)
      /\ put[p] # None => chain[p] # << >>
    BY Values
<1>1. UNCHANGED <<disk, pane, put, ladder, fetch>>
    BY DEF KeepEditing, KeepOpen, Overwrite
<1>2. SameMarks(story[p], story'[p]) /\ SameTexts(pane[p], pane'[p])
    BY <1>0, <1>1, NotedStory, TimersAreNoText DEF KeepEditing, KeepOpen, Overwrite
<1>3. NoMore(ladder[p], ladder'[p]) /\ NoNewMerge(ladder[p], ladder'[p])
    BY <1>1 DEF NoMore, NoNewMerge
<1>4. fetch[p].phase # "rename"
    BY <1>0, Unrenamed, NoneIsNoRequest DEF KeepEditing, KeepOpen, Overwrite
<1>5. CASE chain' = chain
    <2>1. SafeText(story'[p], pane'[p], put[p], disk[p], fetch[p], chain[p], ladder'[p])
        BY <1>0, <1>2, <1>3, SettledIsSafe
    <2> QED  BY <1>1, <1>4, <1>5, <2>1, SafeAgain, NotRenamed
<1>6. CASE Overwrite(p)
    <2>1. PICK e : Asks(p, e)
        BY <1>6 DEF Overwrite
    <2>2. chain[p] = << >> /\ (\A i \in Slot : ladder[p][i] = NoLadder) /\ put[p] = None
        BY <1>0, <1>6 DEF Overwrite, Ladders
    <2>3. chain'[p] = Append(<< >>, e)
        BY <2>1, <2>2 DEF Asks, TypeInv, Shapes
    <2>4. Forces(put[p], chain'[p], ladder[p])
        BY <2>2, <2>3, FirstOverwrite
    <2>5. ~OnWay(put[p])
        BY <2>2, NoneIsNoRequest DEF OnWay
    <2>6. SafeText(story'[p], pane'[p], put[p], disk[p], fetch[p], chain'[p], ladder[p])
        BY <1>0, <1>1, <1>2, <1>3, <2>4, <2>5, SameIsSafe
    <2> QED  BY <1>1, <1>4, <2>6, SafeAgain, NotRenamed
<1> QED  BY <1>5, <1>6 DEF KeepEditing, KeepOpen

\* Discard: nothing is wanted any more.
LEMMA DiscardStaysSafe ==
    ASSUME TypeInv, NEW p \in Pane, Safe(p), Discard(p)
    PROVE  Safe(p)'
<1>0. /\ SafeText(story[p], pane[p], put[p], disk[p], fetch[p], chain[p], ladder[p])
      /\ Renames(p) /\ pane[p] \in PaneRec /\ story[p] \in Story
    BY Values
<1>1. UNCHANGED <<disk, chain, put, ladder, fetch>>
    BY DEF Discard
<1>2. ~pane'[p].open /\ pane'[p].draft = pane[p].draft /\ pane'[p].base = pane[p].base
    BY <1>0, TornDownIsClosed DEF Discard, TypeInv, Shapes
<1>3. /\ story'[p].want = {} /\ story'[p].undone = {} /\ story'[p].theirs = story[p].theirs
      /\ story'[p].outside = story[p].outside
    BY <1>0 DEF Discard, TypeInv, Shapes, Story
<1>4. Known(story[p], pane'[p].draft) /\ Known(story[p], pane'[p].base) /\ Forces(put[p], chain[p], ladder[p])
    BY <1>0, <1>2 DEF SafeText, KnowsPane
<1>5. NoNewMerge(ladder[p], ladder[p])
    BY DEF NoNewMerge
<1>6. SafeText(story'[p], pane'[p], put[p], disk[p], fetch[p], chain[p], ladder[p])
    <2>1. Good(story'[p], disk[p]) /\ (OnWay(put[p]) => Good(story'[p], put[p].text))
        BY <1>3 DEF Good
    <2>2. story'[p].want \subseteq story[p].want /\ story'[p].undone \subseteq story[p].undone
        BY <1>3
    <2> QED  BY <1>0, <1>2, <1>3, <1>4, <1>5, <2>1, <2>2, ClosedIsSafe
<1>7. fetch[p].phase # "rename"
    BY <1>0, Unrenamed, NoneIsNoRequest DEF Discard
<1> QED  BY <1>1, <1>6, <1>7, SafeAgain, NotRenamed

\* Reconcile: a conflict without a save
LEMMA ReconcileStaysSafe ==
    ASSUME TypeInv, NEW p \in Pane, Safe(p), Reconcile(p)
    PROVE  Safe(p)'
<1>0. /\ SafeText(story[p], pane[p], put[p], disk[p], fetch[p], chain[p], ladder[p])
      /\ Renames(p) /\ pane[p] \in PaneRec
      /\ put[p] # None => chain[p] # << >>
    BY Values
<1>1. UNCHANGED <<disk, chain, put, fetch, story>> /\ chain[p] = << >> /\ put[p] = None
    BY <1>0 DEF Reconcile
<1>2. SameTexts(pane[p], pane'[p]) /\ SameMarks(story[p], story'[p])
    BY <1>0, <1>1, TimersAreNoText, SameMarksAnyway DEF Reconcile, TypeInv, Shapes
<1>3. NoNewMerge(ladder[p], ladder'[p])
    BY DEF Reconcile, Climb, TypeInv, Shapes, NoNewMerge
<1>4. Forces(put[p], chain[p], ladder'[p])
    BY <1>1 DEF Forces
<1>5. ~OnWay(put[p])
    BY <1>1, NoneIsNoRequest DEF OnWay
<1>6. SafeText(story'[p], pane'[p], put[p], disk[p], fetch[p], chain[p], ladder'[p])
    BY <1>0, <1>2, <1>3, <1>4, <1>5, SameIsSafe
<1>7. fetch[p].phase # "rename"
    BY <1>0, Unrenamed DEF Reconcile
<1> QED  BY <1>1, <1>6, <1>7, SafeAgain, NotRenamed

-----------------------------------------------------------------------------
(* A save starts, comes back, and is served *)

\* The call c ends: the pane is torn down if it asked for that
LEMMA ResolvedMakes ==
    ASSUME TypeInv, NEW p \in Pane, chain[p] # << >>, NEW q \in PaneRec, NEW c,
           c = Head(chain[p]), Resolved(p, c, q)
    PROVE  /\ NoMore(ladder[p], ladder'[p]) /\ NoNewMerge(ladder[p], ladder'[p])
           /\ modal' = modal /\ confirm' = confirm
           /\ \/ pane'[p] = q /\ ~Closes(c, ladder[p])
              \/ pane'[p] = TornDown(q) /\ Closes(c, ladder[p])
<1>1. \A i \in Slot : ladder'[p][i] = ladder[p][i] \/ ladder'[p][i] = NoLadder
    BY DEF Resolved, TypeInv, Shapes
<1>2. NoMore(ladder[p], ladder'[p]) /\ NoNewMerge(ladder[p], ladder'[p])
    BY <1>1, NoneIsNoRequest DEF NoMore, NoNewMerge
<1> QED  BY <1>2 DEF Resolved, Closes, TypeInv, Shapes

\* StartSave
LEMMA StartStaysSafe ==
    ASSUME TypeInv, NEW p \in Pane, Safe(p), StartSave(p)
    PROVE  Safe(p)'
<1>0. /\ SafeText(story[p], pane[p], put[p], disk[p], fetch[p], chain[p], ladder[p])
      /\ Renames(p) /\ pane[p] \in PaneRec /\ chain[p] \in Seq(Call)
      /\ chain[p] # << >> /\ put[p] = None
    BY Values DEF StartSave, Calm
<1> DEFINE c == Head(chain[p])
           q == pane[p]
<1>1. fetch[p].phase # "rename" /\ UNCHANGED <<disk, fetch>>
    BY <1>0, Unrenamed DEF StartSave
<1>2. Forces(put[p], chain[p], ladder[p])
    BY <1>0 DEF SafeText
<1>3. CASE q.open /\ (q.dirty \/ Forced(c))
    <2> DEFINE r == [Cancelled(q) EXCEPT !.saving = TRUE]
               u == [phase |-> "sent", text |-> q.draft, rev |-> q.rev, forced |-> Forced(c)]
    <2>1. SameTexts(q, r)
        BY <1>0, CancelledPane DEF SameTexts, PaneRec
    <2>2. u.phase = "sent" /\ u.text = q.draft /\ u.rev = q.rev /\ u # None /\ u.forced = Forced(c)
        BY NoneIsNoRequest
    <2>3. /\ pane' = [pane EXCEPT ![p] = r] /\ put' = [put EXCEPT ![p] = u]
          /\ story' = [story EXCEPT ![p].waited = 0] /\ UNCHANGED <<chain, ladder, modal, confirm>>
        BY <1>3 DEF StartSave
    <2> HIDE DEF r, u
    <2>4. pane'[p] = r /\ put'[p] = u /\ SameMarks(story[p], story'[p])
        BY <2>3, NotedStory DEF TypeInv, Shapes
    <2>5. Forces(u, chain[p], ladder[p])
        <3>1. Head(chain[p]) = chain[p][1] /\ 1 \in DOMAIN chain[p]
            BY <1>0
        <3> QED  BY <1>2, <2>2, <3>1 DEF Forces
    <2>6. SafeText(story'[p], r, u, disk[p], fetch[p], chain[p], ladder[p])
        BY <1>0, <1>3, <2>1, <2>2, <2>4, <2>5, SentIsSafe
    <2> QED  BY <1>1, <2>3, <2>4, <2>6, SafeAgain, NotRenamed
<1>4. CASE ~(q.open /\ (q.dirty \/ Forced(c)))
    <2>1. Resolved(p, c, q) /\ put' = put /\ story' = story /\ chain'[p] = Tail(chain[p])
        BY <1>4 DEF StartSave, TypeInv, Shapes
    <2>2. /\ NoMore(ladder[p], ladder'[p]) /\ NoNewMerge(ladder[p], ladder'[p])
          /\ pane'[p] = q \/ (pane'[p] = TornDown(q))
        BY <1>0, <2>1, ResolvedMakes
    <2>3. Forces(put[p], Tail(chain[p]), ladder'[p])
        BY <1>0, <1>2, ChainShortens
    <2>4. ~OnWay(put[p]) /\ SameMarks(story[p], story'[p])
        BY <1>0, <2>1, NoneIsNoRequest, SameMarksAnyway DEF OnWay
    <2>5. CASE pane'[p] = q
        <3>1. SameTexts(q, pane'[p])
            BY <1>0, <2>5, TimersAreNoText
        <3>2. SafeText(story'[p], pane'[p], put[p], disk[p], fetch[p], Tail(chain[p]), ladder'[p])
            BY <1>0, <2>2, <2>3, <2>4, <3>1, SameIsSafe
        <3> QED  BY <1>1, <2>1, <3>2, SafeAgain, NotRenamed
    <2>6. CASE pane'[p] = TornDown(q)
        <3>1. ~pane'[p].open /\ pane'[p].draft = q.draft /\ pane'[p].base = q.base
            BY <1>0, <2>6, TornDownIsClosed
        <3>2. Good(story[p], disk[p])
            <4>1. CASE q.open
                <5>1. q.draft = q.base
                    BY <1>0, <1>4, <4>1 DEF SafeText, Drafted
                <5> QED  BY <1>0, <4>1, <5>1, CleanIsGood DEF SafeText
            <4>2. CASE ~q.open
                BY <1>0, <4>2 DEF SafeText, Settled
            <4> QED  BY <4>1, <4>2
        <3>3. Known(story[p], pane'[p].draft) /\ Known(story[p], pane'[p].base)
            BY <1>0, <3>1 DEF SafeText, KnowsPane
        <3>4. SafeText(story[p], pane'[p], put[p], disk[p], fetch[p], Tail(chain[p]), ladder'[p])
            BY <1>0, <2>2, <2>3, <2>4, <3>1, <3>2, <3>3, ClosedIsSafe
        <3> QED  BY <1>1, <2>1, <3>4, SafeAgain, NotRenamed
    <2> QED  BY <2>2, <2>5, <2>6
<1> QED  BY <1>3, <1>4

\* The save landed
LEMMA LandStaysSafe ==
    ASSUME TypeInv, NEW p \in Pane, Safe(p), Receive(p), put[p].phase = "ok"
    PROVE  Safe(p)'
<1>0. /\ SafeText(story[p], pane[p], put[p], disk[p], fetch[p], chain[p], ladder[p])
      /\ Renames(p) /\ pane[p] \in PaneRec /\ chain[p] \in Seq(Call) /\ put[p] \in Put
      /\ put[p] # None /\ chain[p] # << >>
    BY Values, NoneIsNoRequest
<1> DEFINE c == Head(chain[p])
           q == pane[p]
           next == Adopted(q, put[p].text)
           got == IF ~q.open THEN q ELSE IF next.dirty THEN Scheduled(next) ELSE next
<1>1. fetch[p].phase # "rename" /\ UNCHANGED <<disk, fetch>>
    BY <1>0, Unrenamed DEF Receive
<1>2. /\ Resolved(p, c, got) /\ put'[p] = None /\ chain'[p] = Tail(chain[p])
      /\ SameMarks(story[p], story'[p])
    <2>1. SameMarks(story[p], story'[p])
        BY NotedStory DEF Receive
    <2> QED  BY <2>1 DEF Receive, TypeInv, Shapes
<1>3. /\ got \in PaneRec /\ got.open = q.open
      /\ q.open => /\ got.draft = q.draft /\ got.base = put[p].text /\ got.rev = put[p].text
                   /\ got.dirty = (q.draft # put[p].text)
    <2>1. put[p].text \in Text
        BY <1>0 DEF Put
    <2>2. /\ next \in PaneRec /\ next.open = q.open /\ next.draft = q.draft
          /\ next.base = put[p].text /\ next.rev = put[p].text /\ next.dirty = (q.draft # put[p].text)
        BY <1>0, <2>1, AdoptedPane DEF Adopted, PaneRec
    <2> HIDE DEF next
    <2>3. SameTexts(next, Scheduled(next)) /\ Scheduled(next) \in PaneRec
        BY <2>2, TimersAreNoText, ScheduledPane
    <2> QED  BY <1>0, <2>2, <2>3 DEF SameTexts
<1> HIDE DEF got
<1>4. /\ NoMore(ladder[p], ladder'[p]) /\ NoNewMerge(ladder[p], ladder'[p])
      /\ \/ pane'[p] = got /\ ~Closes(c, ladder[p])
         \/ pane'[p] = TornDown(got) /\ Closes(c, ladder[p])
    BY <1>0, <1>2, <1>3, ResolvedMakes
<1>5. Forces(None, Tail(chain[p]), ladder'[p])
    <2>1. Forces(put[p], chain[p], ladder[p])
        BY <1>0 DEF SafeText
    <2> QED  BY <1>0, <2>1, ChainShortens
<1>6. CASE q.open /\ pane'[p] = got
    <2>1. SafeText(story'[p], pane'[p], None, disk[p], fetch[p], Tail(chain[p]), ladder'[p])
        BY <1>0, <1>2, <1>3, <1>4, <1>5, <1>6, ReceivedIsSafe
    <2> QED  BY <1>1, <1>2, <2>1, SafeAgain, NotRenamed
<1>7. CASE ~q.open \/ (pane'[p] = TornDown(got) /\ Closes(c, ladder[p]))
    <2>1. /\ ~pane'[p].open /\ pane'[p].draft = got.draft /\ pane'[p].base = got.base
        BY <1>3, <1>4, <1>7, TornDownIsClosed
    <2>2. Good(story[p], disk[p])
        <3>1. CASE q.open
            <4>1. Leaving(chain[p], ladder[p])
                BY <1>0, <1>7, <3>1 DEF Leaving
            <4> QED  BY <1>0, <3>1, <4>1, LandedIsGood
        <3>2. CASE ~q.open
            BY <1>0, <3>2 DEF SafeText, Settled
        <3> QED  BY <3>1, <3>2
    <2>3. Known(story[p], pane'[p].draft) /\ Known(story[p], pane'[p].base)
        <3>1. Known(story[p], q.draft) /\ Known(story[p], q.base) /\ Known(story[p], put[p].text)
            BY <1>0 DEF SafeText, KnowsPane, KnowsPut
        <3>2. ~q.open => got = q
            BY DEF got
        <3> QED  BY <1>3, <2>1, <3>1, <3>2
    <2>4. ~OnWay(None)
        BY NoneIsNoRequest DEF OnWay
    <2>5. /\ story'[p].want = story[p].want /\ story'[p].undone = story[p].undone
          /\ story'[p].theirs = story[p].theirs /\ story'[p].outside = story[p].outside
        BY <1>2 DEF SameMarks
    <2>6. Good(story'[p], disk[p])
        BY <2>2, <2>5 DEF Good
    <2>7. PICK v : v = None
        OBVIOUS
    <2>8. SafeText(story'[p], pane'[p], v, disk[p], fetch[p], Tail(chain[p]), ladder'[p])
        <3>1. story'[p].want \subseteq story[p].want /\ story'[p].undone \subseteq story[p].undone
            BY <2>5
        <3>2. OnWay(v) => Good(story'[p], v.text)
            BY <2>4, <2>7
        <3>3. Forces(v, Tail(chain[p]), ladder'[p])
            BY <1>5, <2>7
        <3> QED  BY <1>0, <1>4, <2>1, <2>3, <2>5, <2>6, <2>7, <3>1, <3>2, <3>3, ClosedIsSafe
    <2> QED  BY <1>1, <1>2, <2>7, <2>8, SafeAgain, NotRenamed
<1> QED  BY <1>4, <1>6, <1>7

\* The save did not land, or nobody knows
LEMMA RejectStaysSafe ==
    ASSUME TypeInv, NEW p \in Pane, Safe(p), Receive(p), put[p].phase # "ok"
    PROVE  Safe(p)'
<1>0. /\ SafeText(story[p], pane[p], put[p], disk[p], fetch[p], chain[p], ladder[p])
      /\ Renames(p) /\ pane[p] \in PaneRec /\ chain[p] \in Seq(Call) /\ put[p] \in Put
      /\ put[p].phase \in {"conflict", "refused", "failed"} /\ put[p] # None /\ chain[p] # << >>
    BY Values, NoneIsNoRequest DEF Receive
<1> DEFINE c == Head(chain[p])
           q == pane[p]
           back == IF q.open THEN [q EXCEPT !.saving = FALSE] ELSE q
<1>1. fetch[p].phase # "rename" /\ UNCHANGED <<disk, fetch>>
    BY <1>0, Unrenamed DEF Receive
<1>2. Rejected(p, c, back, put[p].phase) /\ put'[p] = None /\ chain'[p] = Tail(chain[p])
    BY DEF Receive, TypeInv, Shapes
<1>3. back \in PaneRec /\ SameTexts(q, back)
    BY <1>0 DEF PaneRec, SameTexts
<1> HIDE DEF back
<1>4. SameTexts(q, pane'[p])
    <2>1. pane'[p] \in {back, RetryScheduled(back)}
        BY <1>2 DEF Rejected, TypeInv, Shapes
    <2>2. SameTexts(back, RetryScheduled(back))
        BY <1>3, TimersAreNoText
    <2> QED  BY <1>3, <2>1, <2>2 DEF SameTexts
<1>5. SameMarks(story[p], story'[p])
    BY <1>2, NotedStory DEF Rejected
<1>6. NoNewMerge(ladder[p], ladder'[p])
    <2>1. \A i \in Slot : \/ ladder'[p][i] = ladder[p][i] \/ ladder'[p][i] = NoLadder
                          \/ ladder'[p][i].stage = "fetch"
        <3>1. \/ ladder' = ladder
              \/ \E i : ladder' = [ladder EXCEPT ![p][i] = NoLadder]
              \/ \E i, k : ladder' = [ladder EXCEPT ![p][i] = [stage |-> "fetch", kind |-> k]]
            BY <1>2, Zenon DEF Rejected, Climb
        <3> QED  BY <3>1 DEF TypeInv, Shapes
    <2> QED  BY <2>1, NoneIsNoRequest DEF NoNewMerge
<1>7. PICK v : v = None
    OBVIOUS
<1>8. Forces(v, Tail(chain[p]), ladder'[p])
    <2>1. Forces(put[p], chain[p], ladder[p])
        BY <1>0 DEF SafeText
    <2> QED  BY <1>0, <1>7, <2>1, ChainShortens
<1>9. ~OnWay(v) /\ ~Landed(put[p])
    BY <1>0, <1>7, NoneIsNoRequest DEF OnWay, Landed
<1>10. SafeText(story'[p], pane'[p], v, disk[p], fetch[p], Tail(chain[p]), ladder'[p])
    BY <1>0, <1>4, <1>5, <1>6, <1>7, <1>8, <1>9, DeadIsSafe
<1> QED  BY <1>1, <1>2, <1>7, <1>10, SafeAgain, NotRenamed

\* The server's three steps
LEMMA ServerStaysSafe ==
    ASSUME TypeInv, NEW p \in Pane, Safe(p), Server(p)
    PROVE  Safe(p)'
<1>0. /\ SafeText(story[p], pane[p], put[p], disk[p], fetch[p], chain[p], ladder[p])
      /\ Renames(p) /\ pane[p] \in PaneRec /\ put[p] \in Put /\ story[p] \in Story
      /\ ladder[p] \in [Slot -> Ladder] /\ put[p] # None
    BY Values, NoneIsNoRequest DEF Server, ServerCheck, ServerWrite, ServerReply
<1>1. fetch[p].phase # "rename" /\ UNCHANGED <<pane, chain, ladder, fetch, modal, confirm>>
    BY <1>0, Unrenamed DEF Server, ServerCheck, ServerWrite, ServerReply
<1>2. ASSUME NEW how \in {"checked", "conflict", "written"}, put' = [put EXCEPT ![p].phase = how]
      PROVE  Onward(put[p], put'[p]) /\ put'[p].phase = how
    <2>1. put'[p] = [put[p] EXCEPT !.phase = how]
        BY <1>2 DEF TypeInv, Shapes
    <2>2. put'[p].phase = how
        BY <1>0, <2>1 DEF Put
    <2> QED  BY <1>0, <2>1, <2>2, NoneIsNoRequest DEF Put, Onward
<1>3. CASE ServerCheck(p) /\ Current(put[p], disk[p])
    <2>1. Onward(put[p], put'[p]) /\ put'[p].phase = "checked" /\ disk' = disk /\ story' = story
        BY <1>2, <1>3 DEF ServerCheck
    <2>2. SafeText(story[p], pane[p], put'[p], disk[p], fetch[p], chain[p], ladder[p])
        BY <1>0, <1>3, <2>1, CheckedIsSafe DEF ServerCheck
    <2> QED  BY <1>1, <2>1, <2>2, SafeAgain, NotRenamed
<1>4. CASE ServerCheck(p) /\ ~Current(put[p], disk[p])
    <2>1. Onward(put[p], put'[p]) /\ put'[p].phase = "conflict" /\ disk' = disk /\ story' = story
        BY <1>2, <1>4 DEF ServerCheck
    <2>2. ~OnWay(put'[p]) /\ ~Landed(put[p])
        BY <1>4, <2>1 DEF OnWay, Landed, ServerCheck
    <2>3. /\ SameTexts(pane[p], pane[p]) /\ SameMarks(story[p], story[p])
          /\ NoNewMerge(ladder[p], ladder[p])
        BY <1>0, TimersAreNoText, SameMarksAnyway DEF NoNewMerge
    <2>4. Forces(put'[p], chain[p], ladder[p])
        BY <1>0, <2>1 DEF SafeText, Forces, Onward
    <2>5. SafeText(story[p], pane[p], put'[p], disk[p], fetch[p], chain[p], ladder[p])
        BY <1>0, <2>1, <2>2, <2>3, <2>4, DeadIsSafe DEF Onward
    <2> QED  BY <1>1, <2>1, <2>5, SafeAgain, NotRenamed
<1>5. CASE ServerWrite(p)
    <2>1. Onward(put[p], put'[p]) /\ put'[p].phase = "written" /\ disk'[p] = put[p].text
        BY <1>2, <1>5 DEF ServerWrite, TypeInv, Shapes
    <2>2. /\ story'[p].theirs = (IF put[p].forced THEN story[p].theirs \cap put[p].text ELSE story[p].theirs)
          /\ story'[p].want = story[p].want /\ story'[p].undone = story[p].undone
          /\ story'[p].outside = story[p].outside
        BY <1>0, <1>5 DEF ServerWrite, TypeInv, Shapes, Story
    <2>3. SafeText(story'[p], pane[p], put'[p], disk'[p], fetch[p], chain[p], ladder[p])
        BY <1>0, <1>5, <2>1, <2>2, WrittenIsSafe DEF ServerWrite
    <2> QED  BY <1>1, <2>1, <2>3, SafeAgain, NotRenamed
<1>6. CASE ServerReply(p)
    <2>1. put'[p] = [put[p] EXCEPT !.phase = "ok", !.text = disk[p]] /\ disk' = disk /\ story' = story
        BY <1>6 DEF ServerReply, TypeInv, Shapes
    <2>2. /\ put'[p].phase = "ok" /\ put'[p].text = disk[p] /\ put'[p].rev = put[p].rev
          /\ put'[p].forced = put[p].forced /\ put'[p] # None
        BY <1>0, <2>1, NoneIsNoRequest DEF Put
    <2>3. SafeText(story[p], pane[p], put'[p], disk[p], fetch[p], chain[p], ladder[p])
        BY <1>0, <1>6, <2>2, RepliedIsSafe DEF ServerReply
    <2> QED  BY <1>1, <2>1, <2>3, SafeAgain, NotRenamed
<1> QED  BY <1>3, <1>4, <1>5, <1>6 DEF Server

\* ServerFails, before the write and after it
LEMMA FailStaysSafe ==
    ASSUME Gaps = {}, TypeInv, NEW p \in Pane, Safe(p), NEW how \in {"refused", "failed"},
           ServerFails(p, how)
    PROVE  Safe(p)'
<1>0. /\ SafeText(story[p], pane[p], put[p], disk[p], fetch[p], chain[p], ladder[p])
      /\ Renames(p) /\ pane[p] \in PaneRec /\ put[p] \in Put /\ story[p] \in Story
      /\ put[p] # None
    BY Values, NoneIsNoRequest DEF ServerFails
<1>1. /\ fetch[p].phase # "rename" /\ UNCHANGED <<disk, pane, chain, ladder, fetch, modal, confirm>>
    BY <1>0, Unrenamed DEF ServerFails
<1>2. Onward(put[p], put'[p]) /\ put'[p].phase = how
    <2>1. put'[p] = [put[p] EXCEPT !.phase = how]
        BY DEF ServerFails, TypeInv, Shapes
    <2>2. put'[p].phase = how
        BY <1>0, <2>1 DEF Put
    <2> QED  BY <1>0, <2>1, <2>2, NoneIsNoRequest DEF Put, Onward
<1>3. CASE put[p].phase = "checked" /\ story' = [story EXCEPT ![p].fails = @ + 1]
    <2>1. SameMarks(story[p], story'[p])
        BY <1>0, <1>3 DEF SameMarks, TypeInv, Shapes, Story
    <2>2. ~OnWay(put'[p]) /\ ~Landed(put[p])
        BY <1>2, <1>3 DEF OnWay, Landed
    <2>3. SameTexts(pane[p], pane[p]) /\ NoNewMerge(ladder[p], ladder[p])
        BY <1>0, TimersAreNoText DEF NoNewMerge
    <2>4. Forces(put'[p], chain[p], ladder[p])
        BY <1>0, <1>2 DEF SafeText, Forces, Onward
    <2>5. SafeText(story'[p], pane[p], put'[p], disk[p], fetch[p], chain[p], ladder[p])
        BY <1>0, <1>2, <2>1, <2>2, <2>3, <2>4, DeadIsSafe DEF Onward
    <2> QED  BY <1>1, <2>5, SafeAgain, NotRenamed
<1>4. CASE /\ put[p].phase = "written" /\ how = "failed" /\ ~TakenBack(p)
           /\ story' = [story EXCEPT ![p].fails = @ + 1,
                                     ![p].lost = Changed(put[p].text, pane[p].base)]
    <2>1. PICK x : x = Changed(put[p].text, pane[p].base)
        OBVIOUS
    <2>2. story' = [story EXCEPT ![p] = [story[p] EXCEPT !.fails = story[p].fails + 1, !.lost = x]]
        BY <1>4, <2>1 DEF TypeInv, Shapes
    <2>3. /\ story'[p].lost = x
          /\ story'[p].want = story[p].want /\ story'[p].undone = story[p].undone
          /\ story'[p].theirs = story[p].theirs /\ story'[p].outside = story[p].outside
        BY <1>0, <2>2 DEF TypeInv, Shapes, Story
    <2>4. Changed(put[p].text, pane[p].base) \cap Changed(put[p].text, pane[p].draft) = {}
        BY <1>0, <1>4 DEF TakenBack
    <2>5. SafeText(story'[p], pane[p], put'[p], disk[p], fetch[p], chain[p], ladder[p])
        BY <1>0, <1>2, <1>4, <2>1, <2>3, <2>4, LostIsSafe
    <2> QED  BY <1>1, <2>5, SafeAgain, NotRenamed
<1> QED  BY <1>3, <1>4 DEF ServerFails

-----------------------------------------------------------------------------
(* The ladder *)

\* One slot gets what does not begin a merge
LEMMA SlotMakes ==
    ASSUME TypeInv, NEW p \in Pane, NEW s \in Slot, ladder[p][s] # NoLadder, NEW k,
           ladder' = [ladder EXCEPT ![p][s] = k],
           k = NoLadder \/ (k.stage # "merge" /\ k.kind = ladder[p][s].kind)
    PROVE  NoMore(ladder[p], ladder'[p]) /\ NoNewMerge(ladder[p], ladder'[p])
<1>1. \A i \in Slot : ladder'[p][i] = ladder[p][i] \/ (i = s /\ ladder'[p][i] = k)
    BY DEF TypeInv, Shapes
<1> QED  BY <1>1, NoneIsNoRequest DEF NoMore, NoNewMerge

\* The author is asked
LEMMA GiveUpStaysSafe ==
    ASSUME TypeInv, NEW p \in Pane, Safe(p), NEW s \in Slot, ladder[p][s] # NoLadder,
           GiveUp(p, s), SameMarks(story[p], story'[p]), UNCHANGED <<disk, put, fetch, confirm>>
    PROVE  Safe(p)'
<1>0. /\ SafeText(story[p], pane[p], put[p], disk[p], fetch[p], chain[p], ladder[p])
      /\ Renames(p) /\ pane[p] \in PaneRec /\ chain[p] \in Seq(Call)
    BY Values
<1>1. NoMore(ladder[p], ladder'[p]) /\ NoNewMerge(ladder[p], ladder'[p])
    BY SlotMakes DEF GiveUp
<1>2. SameTexts(pane[p], pane'[p]) /\ chain' = chain
    BY <1>0, TimersAreNoText DEF GiveUp
<1>3. SafeText(story'[p], pane'[p], put[p], disk[p], fetch[p], chain[p], ladder'[p])
    BY <1>0, <1>1, <1>2, SettledIsSafe
<1>4. fetch[p].phase # "rename"
    BY <1>0, Unrenamed
<1> QED  BY <1>2, <1>3, <1>4, SafeAgain, NotRenamed

\* Adopt: the file says what the drafts say.
LEMMA AdoptStaysSafe ==
    ASSUME TypeInv, NEW p \in Pane, Safe(p), NEW s \in Slot, ladder[p][s] # NoLadder,
           pane[p].open, pane[p].draft = disk[p], Adopt(p, s, disk[p]),
           UNCHANGED <<disk, put, fetch, confirm>>
    PROVE  Safe(p)'
<1>0. /\ SafeText(story[p], pane[p], put[p], disk[p], fetch[p], chain[p], ladder[p])
      /\ Renames(p) /\ pane[p] \in PaneRec /\ chain[p] \in Seq(Call) /\ disk[p] \in Text
    BY Values
<1>1. NoMore(ladder[p], ladder'[p]) /\ NoNewMerge(ladder[p], ladder'[p])
    BY SlotMakes DEF Adopt
<1>2. fetch[p].phase # "rename"
    BY <1>0, Unrenamed
<1>3. chain' = chain /\ story' = story
    BY DEF Adopt
<1>4. Forces(put[p], chain[p], ladder'[p]) /\ (Leaving(chain[p], ladder'[p]) => Leaving(chain[p], ladder[p]))
    <2>1. Forces(put[p], chain[p], ladder[p])
        BY <1>0 DEF SafeText
    <2> QED  BY <1>0, <1>1, <2>1, ChainStays
<1> DEFINE q == [Cancelled(pane[p]) EXCEPT !.base = disk[p], !.rev = disk[p], !.dirty = FALSE]
<1>5. /\ q \in PaneRec /\ q.open = pane[p].open /\ q.draft = pane[p].draft
      /\ q.base = disk[p] /\ q.rev = disk[p]
    <2>1. Cancelled(pane[p]) \in PaneRec /\ Cancelled(pane[p]).open = pane[p].open
          /\ Cancelled(pane[p]).draft = pane[p].draft
        BY <1>0, CancelledPane
    <2> QED  BY <1>0, <2>1 DEF PaneRec
<1>6. pane'[p] = (IF ladder[p][s].kind = "close" THEN TornDown(q) ELSE q)
    BY DEF Adopt, TypeInv, Shapes
<1> HIDE DEF q
<1>7. CASE ladder[p][s].kind # "close"
    <2>1. SafeText(story[p], pane'[p], put[p], disk[p], fetch[p], chain[p], ladder'[p])
        BY <1>0, <1>1, <1>4, <1>5, <1>6, <1>7, AdoptedIsSafe
    <2> QED  BY <1>2, <1>3, <2>1, SafeAgain, NotRenamed
<1>8. CASE ladder[p][s].kind = "close"
    <2>1. ~pane'[p].open /\ pane'[p].draft = disk[p] /\ pane'[p].base = disk[p]
        BY <1>5, <1>6, <1>8, TornDownIsClosed
    <2>2. Leaving(chain[p], ladder[p])
        BY <1>8 DEF Leaving
    <2>3. Good(story[p], disk[p]) /\ (OnWay(put[p]) => Good(story[p], put[p].text))
        BY <1>0, <2>2 DEF SafeText, Drafted, Leaves
    <2>4. Known(story[p], pane'[p].draft) /\ Known(story[p], pane'[p].base)
        BY <1>0, <2>1 DEF SafeText, KnowsPane
    <2>5. SafeText(story[p], pane'[p], put[p], disk[p], fetch[p], chain[p], ladder'[p])
        BY <1>0, <1>1, <1>4, <2>1, <2>3, <2>4, ClosedIsSafe
    <2> QED  BY <1>2, <1>3, <2>5, SafeAgain, NotRenamed
<1> QED  BY <1>7, <1>8

\* What a resave makes of the pane, the ladders and the chain
LEMMA ResaveMakes ==
    ASSUME TypeInv, NEW p \in Pane, Safe(p), NEW s \in Slot, ladder[p][s] # NoLadder,
           NEW t \in Text, NEW w \in Text, Resave(p, s, t, w)
    PROVE  /\ NoMore(ladder[p], ladder'[p]) /\ NoNewMerge(ladder[p], ladder'[p])
           /\ Forces(put[p], chain'[p], ladder'[p])
           /\ OnWay(put[p]) /\ Leaving(chain'[p], ladder'[p]) => Leaving(chain[p], ladder[p])
           /\ modal' = modal /\ story' = story
           /\ ~pane[p].open => pane'[p] = pane[p]
           /\ pane[p].open => /\ pane'[p].open /\ pane'[p].dirty
                              /\ pane'[p].draft = w /\ pane'[p].base = t /\ pane'[p].rev = t
<1>0. /\ SafeText(story[p], pane[p], put[p], disk[p], fetch[p], chain[p], ladder[p])
      /\ pane[p] \in PaneRec /\ chain[p] \in Seq(Call) /\ (put[p] # None => chain[p] # << >>)
    BY Values
<1>1. NoMore(ladder[p], ladder'[p]) /\ NoNewMerge(ladder[p], ladder'[p])
    <2>1. PICK k : k = [stage |-> "save", kind |-> ladder[p][s].kind]
        OBVIOUS
    <2>2. k.stage # "merge" /\ k.kind = ladder[p][s].kind
        BY <2>1
    <2>3. ladder' = [ladder EXCEPT ![p][s] = k]
        BY <2>1 DEF Resave
    <2> QED  BY <2>2, <2>3, SlotMakes
<1>2. PICK e \in Call : Asks(p, e) /\ ~Forced(e)
    <2>1. [by |-> "merge", slot |-> s] \in Call /\ ~Forced([by |-> "merge", slot |-> s])
        BY DEF Call, Forced
    <2> QED  BY <2>1 DEF Resave
<1>3. chain'[p] = Append(chain[p], e)
    BY <1>2 DEF Asks, TypeInv, Shapes
<1>4. /\ Forces(put[p], Append(chain[p], e), ladder'[p])
      /\ OnWay(put[p]) /\ Leaving(Append(chain[p], e), ladder'[p]) => Leaving(chain[p], ladder[p])
    <2>1. Forces(put[p], chain[p], ladder[p])
        BY <1>0 DEF SafeText
    <2> QED  BY <1>0, <1>1, <1>2, <2>1, ChainGrows
<1>5. pane'[p] = (IF pane[p].open THEN Patched(pane[p], t, w) ELSE pane[p])
    BY DEF Resave, TypeInv, Shapes
<1>6. LET r == Patched(pane[p], t, w) IN
      r.open = pane[p].open /\ r.dirty /\ r.draft = w /\ r.base = t /\ r.rev = t
    BY <1>0 DEF Patched, Cancelled, PaneRec
<1> QED  BY <1>1, <1>3, <1>4, <1>5, <1>6 DEF Resave

\* Compare, by its four ways out
LEMMA CompareStaysSafe ==
    ASSUME Gaps = {}, TypeInv, NEW p \in Pane, Safe(p), NEW s \in Slot, Compare(p, s)
    PROVE  Safe(p)'
<1>0. /\ SafeText(story[p], pane[p], put[p], disk[p], fetch[p], chain[p], ladder[p])
      /\ Renames(p) /\ pane[p] \in PaneRec /\ chain[p] \in Seq(Call) /\ disk[p] \in Text
    BY Values
<1> DEFINE q == pane[p]
           f == disk[p]
           fields == Merge(Fields(q.base), Fields(q.draft), Fields(f))
<1>1. ladder[p][s] # NoLadder /\ UNCHANGED <<disk, put, fetch, confirm>>
    BY NoneIsNoRequest DEF Compare
<1>2. fetch[p].phase # "rename"
    BY <1>0, <1>1, Unrenamed
<1>3. Standing(q, put[p])
    BY DEF Compare, TakenBack, Standing
<1>4. CASE q.open /\ q.draft = f /\ Adopt(p, s, f)
    BY <1>1, <1>4, AdoptStaysSafe
<1>5. CASE GiveUp(p, s) /\ story' = story
    BY <1>1, <1>5, GiveUpStaysSafe, SameMarksAnyway
<1>6. CASE q.open /\ Prose(f) = Prose(q.base) /\ Resave(p, s, f, fields \cup Prose(q.draft))
    <2>1. PICK t : t = fields
        OBVIOUS
    <2>2. PICK w \in Text : w = t \cup Prose(q.draft)
        <3>1. fields \in Text /\ Prose(q.draft) \in Text
            BY <1>0, PartsAreText, MergeIsText DEF PaneRec
        <3> QED  BY <2>1, <3>1 DEF Text
    <2>3. Resave(p, s, f, w)
        BY <1>6, <2>1, <2>2
    <2>4. /\ NoNewMerge(ladder[p], ladder'[p]) /\ Forces(put[p], chain'[p], ladder'[p])
          /\ OnWay(put[p]) /\ Leaving(chain'[p], ladder'[p]) => Leaving(chain[p], ladder[p])
          /\ story' = story /\ pane'[p].open /\ pane'[p].dirty
          /\ pane'[p].draft = w /\ pane'[p].base = f /\ pane'[p].rev = f
        BY <1>0, <1>1, <1>6, <2>3, ResaveMakes
    <2>5. SafeText(story[p], pane'[p], put[p], disk[p], fetch[p], chain'[p], ladder'[p])
        BY <1>0, <1>3, <1>6, <2>1, <2>2, <2>4, FieldsResavedIsSafe
    <2> QED  BY <1>1, <1>2, <2>4, <2>5, SafeAgain, NotRenamed
<1>7. CASE /\ q.open /\ Prose(f) # Prose(q.base)
           /\ ladder' = [ladder EXCEPT ![p][s] =
                     [stage |-> "merge", kind |-> @.kind, remote |-> f,
                      base |-> q.base, local |-> Prose(q.draft), fields |-> fields]]
           /\ UNCHANGED <<pane, chain, modal, story>>
    <2>1. PICK k : k = [stage |-> "merge", kind |-> ladder[p][s].kind, remote |-> f,
                        base |-> q.base, local |-> Prose(q.draft), fields |-> fields]
        OBVIOUS
    <2>2. k.kind = ladder[p][s].kind /\ Begun(q, f, k)
        BY <1>7, <2>1 DEF Begun
    <2>3. Placed(ladder[p], s, k, ladder'[p])
        BY <1>7, <2>1 DEF TypeInv, Shapes, Placed
    <2>4. NoMore(ladder[p], ladder'[p])
        BY <1>1, <2>2, <2>3 DEF NoMore, Placed
    <2>5. /\ Forces(put[p], chain[p], ladder'[p])
          /\ Leaving(chain[p], ladder'[p]) => Leaving(chain[p], ladder[p])
        <3>1. Forces(put[p], chain[p], ladder[p])
            BY <1>0 DEF SafeText
        <3> QED  BY <1>0, <2>4, <3>1, ChainStays
    <2>6. SafeText(story[p], pane[p], put[p], disk[p], fetch[p], chain[p], ladder'[p])
        BY <1>0, <1>3, <1>7, <2>2, <2>3, <2>5, MergeBegunIsSafe
    <2> QED  BY <1>1, <1>2, <1>7, <2>6, SafeAgain, NotRenamed
<1> QED  BY <1>4, <1>5, <1>6, <1>7, Zenon DEF Compare

\* MergeProse
LEMMA MergeStaysSafe ==
    ASSUME TypeInv, NEW p \in Pane, Safe(p), NEW s \in Slot, MergeProse(p, s)
    PROVE  Safe(p)'
<1>0. /\ SafeText(story[p], pane[p], put[p], disk[p], fetch[p], chain[p], ladder[p])
      /\ Renames(p) /\ pane[p] \in PaneRec /\ chain[p] \in Seq(Call)
      /\ ladder[p] \in [Slot -> Ladder]
    BY Values
<1> DEFINE q == pane[p]
           now == Prose(q.draft)
<1>1. ladder[p][s].stage = "merge" /\ ladder[p][s] # NoLadder /\ UNCHANGED <<disk, put, fetch, confirm>>
    BY NoneIsNoRequest DEF MergeProse
<1>2. fetch[p].phase # "rename"
    BY <1>0, <1>1, Unrenamed
<1>3. PICK k \in Ladder : k = ladder[p][s]
    BY <1>0
<1>4. k.remote \in Text /\ k.base \in Text /\ k.local \in Text /\ k.fields \in Text
    BY <1>1, <1>3, NoneIsNoRequest DEF Ladder
<1>5. PICK w \in Text : w = Merge(Prose(k.base), k.local, Prose(k.remote))
    BY <1>4, PartsAreText, MergeIsText
<1>6. PICK t \in Text : t = k.fields \cup (IF w = k.local THEN now ELSE w)
    <2>1. now \in Text
        BY <1>0, PartsAreText DEF PaneRec
    <2> QED  BY <1>4, <1>5, <2>1 DEF Text
<1>7. CASE /\ Apart(Prose(k.base), k.local, Prose(k.remote)) /\ (w = k.local \/ now = k.local)
           /\ Resave(p, s, k.remote, t)
    <2>1. Apart(Prose(k.base), k.local, Prose(k.remote)) /\ (w = k.local \/ now = k.local)
        BY <1>7
    <2>2. /\ NoMore(ladder[p], ladder'[p])
          /\ NoNewMerge(ladder[p], ladder'[p]) /\ Forces(put[p], chain'[p], ladder'[p])
          /\ OnWay(put[p]) /\ Leaving(chain'[p], ladder'[p]) => Leaving(chain[p], ladder[p])
          /\ story' = story
          /\ ~q.open => pane'[p] = q
          /\ q.open => /\ pane'[p].open /\ pane'[p].dirty
                       /\ pane'[p].draft = t /\ pane'[p].base = k.remote /\ pane'[p].rev = k.remote
        BY <1>1, <1>4, <1>7, ResaveMakes
    <2>3. CASE q.open
        <3>1. SafeText(story[p], pane'[p], put[p], disk[p], fetch[p], chain'[p], ladder'[p])
            <4>1. Ended(q, ladder[p][s], pane'[p])
                BY <1>3, <1>5, <1>6, <2>1, <2>2, <2>3 DEF Ended
            <4> QED  BY <1>0, <1>1, <2>2, <2>3, <4>1, ProseMergedIsSafe
        <3> QED  BY <1>1, <1>2, <2>2, <3>1, SafeAgain, NotRenamed
    <2>4. CASE ~q.open
        <3>1. SameTexts(q, pane'[p]) /\ SameMarks(story[p], story[p])
            BY <1>0, <2>2, <2>4, TimersAreNoText, SameMarksAnyway
        <3>2. SafeText(story[p], pane'[p], put[p], disk[p], fetch[p], chain'[p], ladder'[p])
            BY <1>0, <2>2, <3>1, SameIsSafe
        <3> QED  BY <1>1, <1>2, <2>2, <3>2, SafeAgain, NotRenamed
    <2> QED  BY <2>3, <2>4
<1>8. CASE GiveUp(p, s) /\ story' = story
    BY <1>1, <1>8, GiveUpStaysSafe, SameMarksAnyway
<1> QED  BY <1>3, <1>5, <1>6, <1>7, <1>8 DEF MergeProse

\* CompareFails
LEMMA CompareFailsStaysSafe ==
    ASSUME TypeInv, NEW p \in Pane, Safe(p), NEW s \in Slot, CompareFails(p, s)
    PROVE  Safe(p)'
<1>1. ladder[p][s] # NoLadder /\ UNCHANGED <<disk, put, fetch, confirm>> /\ GiveUp(p, s)
    BY NoneIsNoRequest DEF CompareFails
<1>2. story[p] \in Story
    BY Values
<1>3. story' = [story EXCEPT ![p] = [story[p] EXCEPT !.fails = story[p].fails + 1, !.excuse = TRUE]]
    BY DEF CompareFails, TypeInv, Shapes
<1>4. SameMarks(story[p], story'[p])
    BY <1>2, <1>3 DEF SameMarks, TypeInv, Shapes, Story
<1> QED  BY <1>1, <1>4, GiveUpStaysSafe

-----------------------------------------------------------------------------
(* Others write, and the pane is brought up to it *)

\* Outside does what Outsider says.
LEMMA OutsideMakes ==
    ASSUME TypeInv, NEW p \in Pane, NEW m, Outside(p, m)
    PROVE  Outsider(story[p], disk[p], m, disk'[p], story'[p])
<1>1. story[p] \in Story
    BY DEF TypeInv, Shapes
<1>2. PICK t, w, o : /\ t = Set(story[p].theirs, m) /\ w = story[p].want \ (RivalsOf(m) \cap disk[p])
                     /\ o = story[p].outside \cup {m}
    OBVIOUS
<1>3. story' = [story EXCEPT ![p] =
                  [story[p] EXCEPT !.theirs = t, !.want = w, !.excuse = TRUE, !.outside = o]]
    BY <1>2 DEF Outside
<1>4. /\ story'[p].theirs = t /\ story'[p].want = w /\ story'[p].outside = o
      /\ story'[p].undone = story[p].undone /\ story'[p].lost = story[p].lost
    BY <1>1, <1>3 DEF TypeInv, Shapes, Story
<1>5. disk'[p] = Set(disk[p], m)
    BY DEF Outside, TypeInv, Shapes
<1> QED  BY <1>2, <1>4, <1>5 DEF Outsider

\* OutsideWrite
LEMMA OutsideStaysSafe ==
    ASSUME Gaps = {}, TypeInv, NEW p \in Pane, Safe(p), NEW m \in OutMark, OutsideWrite(p, m)
    PROVE  Safe(p)'
<1>0. SafeText(story[p], pane[p], put[p], disk[p], fetch[p], chain[p], ladder[p])
    BY Values
<1>1. /\ UNCHANGED <<pane, chain, put, ladder, fetch>> /\ m \notin story[p].outside
      /\ put[p].phase \notin {"checked", "written"} /\ fetch[p].phase # "rename" /\ Outside(p, m)
    BY DEF OutsideWrite, New
<1>2. Outsider(story[p], disk[p], m, disk'[p], story'[p])
    BY <1>1, OutsideMakes
<1>3. SafeText(story'[p], pane[p], put[p], disk'[p], fetch[p], chain[p], ladder[p])
    BY <1>0, <1>1, <1>2, OutsiderIsSafe
<1> QED  BY <1>1, <1>3, SafeAgain, NotRenamed

\* RenameInTree: the pane comes to rest until it knows.
LEMMA RenameStaysSafe ==
    ASSUME Gaps = {}, TypeInv, NEW p \in Pane, Safe(p), NEW m \in OutMark, RenameInTree(p, m)
    PROVE  Safe(p)'
<1>0. SafeText(story[p], pane[p], put[p], disk[p], fetch[p], chain[p], ladder[p])
    BY Values
<1>1. /\ UNCHANGED <<pane, chain, put, ladder, modal, confirm>> /\ m \notin story[p].outside
      /\ disk[p] = pane[p].rev /\ ~pane[p].dirty /\ put[p] = None /\ Ladders(p) = {}
      /\ chain[p] = << >> /\ modal = NoDialog /\ confirm = NoDialog /\ Outside(p, m)
    BY DEF RenameInTree, New, Calm, NobodyAsked
<1>2. fetch'[p] = [phase |-> "rename", title |-> m]
    BY DEF RenameInTree, TypeInv, Shapes
<1>3. fetch'[p].phase = "rename" /\ fetch'[p].title = m
    BY <1>2
<1>4. Outsider(story[p], disk[p], m, disk'[p], story'[p])
    BY <1>1, OutsideMakes
<1>5. SafeText(story'[p], pane[p], put[p], disk'[p], fetch'[p], chain[p], ladder[p])
    BY <1>0, <1>1, <1>3, <1>4, OutsiderIsSafe, NoneIsNoRequest
<1>6. pane[p].open => pane[p].draft = pane[p].base /\ disk'[p] = Set(pane[p].base, m)
    BY <1>0, <1>1, <1>4 DEF SafeText, Drafted, Outsider
<1>7. Renames(p)'
    BY <1>1, <1>3, <1>6 DEF Renames, Ladders
<1> QED  BY <1>1, <1>5, <1>7, SafeAgain

\* StartReload and FinishReload
LEMMA ReloadStaysSafe ==
    ASSUME Gaps = {}, TypeInv, NEW p \in Pane, Safe(p), StartReload(p) \/ FinishReload(p)
    PROVE  Safe(p)'
<1>0. /\ SafeText(story[p], pane[p], put[p], disk[p], fetch[p], chain[p], ladder[p])
      /\ pane[p] \in PaneRec /\ disk[p] \in Text /\ chain[p] \in Seq(Call)
    BY Values
<1>1. CASE StartReload(p)
    <2>1. fetch'[p].phase = "reload" /\ UNCHANGED <<disk, pane, chain, put, ladder, story>>
        BY <1>1 DEF StartReload, TypeInv, Shapes
    <2>2. /\ pane[p].open /\ pane[p].draft = pane[p].base /\ Standing(pane[p], put[p])
        BY <1>0, <1>1 DEF StartReload, SafeText, Drafted, TakenBack, Standing
    <2>3. SafeText(story[p], pane[p], put[p], disk[p], fetch'[p], chain[p], ladder[p])
        BY <1>0, <2>2, ReloadBegunIsSafe
    <2> QED  BY <2>1, <2>3, SafeAgain, NotRenamed
<1>2. CASE FinishReload(p)
    <2> DEFINE r == [Cancelled(pane[p]) EXCEPT !.draft = disk[p], !.base = disk[p], !.rev = disk[p],
                                               !.dirty = FALSE]
    <2>1. /\ fetch'[p] = None /\ fetch[p].phase = "reload"
          /\ UNCHANGED <<disk, chain, put, ladder, story>>
          /\ pane'[p] = (IF pane[p].open THEN r ELSE pane[p])
        BY <1>2 DEF FinishReload, TypeInv, Shapes
    <2>2. r.open = pane[p].open /\ r.draft = disk[p] /\ r.base = disk[p] /\ r.rev = disk[p]
        <3>1. Cancelled(pane[p]) \in PaneRec /\ Cancelled(pane[p]).open = pane[p].open
            BY <1>0, CancelledPane
        <3> QED  BY <1>0, <3>1 DEF PaneRec
    <2> HIDE DEF r
    <2>3. fetch'[p].phase \notin {"reload", "rename"}
        BY <2>1, NoneIsNoRequest
    <2>4. CASE pane[p].open
        <3>1. Forces(put[p], chain[p], ladder[p])
            BY <1>0 DEF SafeText
        <3>2. SafeText(story[p], pane'[p], put[p], disk[p], fetch'[p], chain[p], ladder[p])
            BY <1>0, <2>1, <2>2, <2>3, <2>4, <3>1, ReloadedIsSafe
        <3> QED  BY <2>1, <2>3, <3>2, SafeAgain, NotRenamed
    <2>5. CASE ~pane[p].open
        <3>1. /\ SameTexts(pane[p], pane'[p]) /\ SameMarks(story[p], story[p])
              /\ NoMore(ladder[p], ladder[p]) /\ NoNewMerge(ladder[p], ladder[p])
            BY <1>0, <2>1, <2>5, TimersAreNoText, SameMarksAnyway DEF NoMore, NoNewMerge
        <3>2. SafeText(story[p], pane'[p], put[p], disk[p], fetch'[p], chain[p], ladder[p])
            BY <1>0, <2>3, <3>1, SettledIsSafe
        <3> QED  BY <2>1, <2>3, <3>2, SafeAgain, NotRenamed
    <2> QED  BY <2>4, <2>5
<1> QED  BY <1>1, <1>2

\* FinishRename
LEMMA RenamedStaysSafe ==
    ASSUME TypeInv, NEW p \in Pane, Safe(p), FinishRename(p)
    PROVE  Safe(p)'
<1>0. /\ SafeText(story[p], pane[p], put[p], disk[p], fetch[p], chain[p], ladder[p])
      /\ Renames(p) /\ pane[p] \in PaneRec /\ disk[p] \in Text /\ chain[p] \in Seq(Call)
    BY Values
<1>1. /\ fetch'[p] = None /\ fetch[p].phase = "rename"
      /\ UNCHANGED <<disk, chain, put, ladder, story>>
    BY DEF FinishRename, TypeInv, Shapes
<1>2. fetch'[p].phase \notin {"reload", "rename"}
    BY <1>1, NoneIsNoRequest
<1>3. /\ put[p] = None /\ \A i \in Slot : ladder[p][i] = NoLadder
      /\ pane[p].open => /\ ~pane[p].dirty /\ pane[p].draft = pane[p].base
                         /\ disk[p] = Set(pane[p].base, fetch[p].title)
    BY <1>0, <1>1 DEF Renames, Ladders
<1>4. CASE pane[p].open
    <2>1. pane' = [pane EXCEPT ![p] =
             [pane[p] EXCEPT !.base = disk[p], !.rev = disk[p], !.draft = disk[p]]]
        BY <1>3, <1>4 DEF FinishRename, TypeInv, Shapes
    <2>2. pane'[p].open /\ pane'[p].draft = disk[p] /\ pane'[p].base = disk[p] /\ pane'[p].rev = disk[p]
        BY <1>0, <1>4, <2>1 DEF PaneRec, TypeInv, Shapes
    <2>3. Forces(None, chain[p], ladder[p])
        BY <1>0, <1>3 DEF SafeText
    <2>4. \A i \in Slot : ladder[p][i].stage # "merge"
        BY <1>3, NoneIsNoRequest
    <2>5. SafeText(story[p], pane'[p], None, disk[p], fetch'[p], chain[p], ladder[p])
        BY <1>0, <1>2, <1>3, <1>4, <2>2, <2>3, <2>4, RenamedIsSafe
    <2> QED  BY <1>1, <1>2, <1>3, <2>5, SafeAgain, NotRenamed
<1>5. CASE ~pane[p].open
    <2>1. pane'[p] = pane[p]
        BY <1>5 DEF FinishRename, TypeInv, Shapes
    <2>2. /\ SameTexts(pane[p], pane'[p]) /\ SameMarks(story[p], story[p])
          /\ NoMore(ladder[p], ladder[p]) /\ NoNewMerge(ladder[p], ladder[p])
        BY <1>0, <2>1, TimersAreNoText, SameMarksAnyway DEF NoMore, NoNewMerge
    <2>3. SafeText(story[p], pane'[p], put[p], disk[p], fetch'[p], chain[p], ladder[p])
        BY <1>0, <1>2, <2>2, SettledIsSafe
    <2> QED  BY <1>1, <1>2, <2>3, SafeAgain, NotRenamed
<1> QED  BY <1>4, <1>5

-----------------------------------------------------------------------------
(* Every step *)

\* Tick
LEMMA TickStaysSafe ==
    ASSUME TypeInv, NEW p \in Pane, Safe(p), Tick
    PROVE  Safe(p)'
<1>0. /\ SafeText(story[p], pane[p], put[p], disk[p], fetch[p], chain[p], ladder[p])
      /\ Renames(p) /\ pane[p] \in PaneRec /\ story[p] \in Story /\ chain[p] \in Seq(Call)
    BY Values
<1>1. UNCHANGED <<disk, chain, put, ladder, fetch, modal, confirm>>
    BY DEF Tick
<1>2. SameTexts(pane[p], pane'[p])
    BY <1>0 DEF Tick, SameTexts, PaneRec
<1>3. SameMarks(story[p], story'[p])
    BY <1>0 DEF Tick, SameMarks, Story
<1>4. NoMore(ladder[p], ladder[p]) /\ NoNewMerge(ladder[p], ladder[p])
    BY DEF NoMore, NoNewMerge
<1>5. SafeText(story'[p], pane'[p], put[p], disk[p], fetch[p], chain[p], ladder[p])
    BY <1>0, <1>2, <1>3, <1>4, SettledIsSafe
<1> QED  BY <1>0, <1>1, <1>2, <1>5, SafeAgain, StaysRenamed

\* What happens to one pane is nothing to another, but for the room it takes
\* in the dialogs.
LEMMA ElsewhereStaysSafe ==
    ASSUME TypeInv, NEW p \in Pane, NEW x \in Pane, x # p, Safe(p),
           Author(x) \/ Window(x) \/ Server(x) \/ Mishap(x)
    PROVE  Safe(p)'
<1>1. /\ disk'[p] = disk[p] /\ put'[p] = put[p] /\ fetch'[p] = fetch[p] /\ story'[p] = story[p]
      /\ pane'[p] = pane[p] /\ ladder'[p] = ladder[p] /\ chain'[p] = chain[p]
    <2>1. CASE Author(x)
        BY <2>1 DEF Author, Type, Flush, Close, KeepEditing, Overwrite, Discard, KeepOpen, Asks,
               StartReload, Reconcile, Climb, RenameInTree, Outside, Told, TypeInv, Shapes
    <2>2. CASE Window(x)
        <3>1. CASE Fire(x) \/ StartSave(x) \/ FinishReload(x) \/ FinishRename(x)
            BY <3>1 DEF Fire, Asks, StartSave, Resolved, FinishReload, FinishRename, TypeInv, Shapes
        <3>2. CASE Receive(x)
            BY <3>2 DEF Receive, Resolved, Rejected, Climb, Told, TypeInv, Shapes
        <3>3. CASE \E s \in Slot : Compare(x, s) \/ MergeProse(x, s)
            BY <3>3 DEF Compare, MergeProse, Adopt, GiveUp, Resave, Asks, TypeInv, Shapes
        <3> QED  BY <2>2, <3>1, <3>2, <3>3 DEF Window
    <2>3. CASE Server(x) \/ Mishap(x)
        BY <2>3 DEF Server, Mishap, ServerCheck, ServerWrite, ServerReply, ServerFails,
               CompareFails, GiveUp, OutsideWrite, Outside, TypeInv, Shapes
    <2> QED  BY <2>1, <2>2, <2>3
<1>2. /\ modal' # NoDialog /\ modal'.pane = p => modal # NoDialog /\ modal.pane = p
      /\ confirm' # NoDialog /\ confirm'.pane = p => confirm # NoDialog /\ confirm.pane = p
    <2>1. modal' = modal \/ modal' = NoDialog \/ \E kind : modal' = [kind |-> kind, pane |-> x]
        <3>1. CASE Author(x)
            BY <3>1 DEF Author, Type, Flush, Close, KeepEditing, Overwrite, Discard, KeepOpen,
                   StartReload, Reconcile, RenameInTree
        <3>2. CASE Window(x)
            <4>1. CASE Fire(x) \/ StartSave(x) \/ FinishReload(x) \/ FinishRename(x)
                BY <4>1 DEF Fire, StartSave, Resolved, FinishReload, FinishRename
            <4>2. CASE Receive(x)
                BY <4>2 DEF Receive, Resolved, Rejected, Ask
            <4>3. CASE \E s \in Slot : Compare(x, s) \/ MergeProse(x, s)
                BY <4>3 DEF Compare, MergeProse, Adopt, GiveUp, Resave, Ask
            <4> QED  BY <3>2, <4>1, <4>2, <4>3 DEF Window
        <3>3. CASE Server(x) \/ Mishap(x)
            BY <3>3 DEF Server, Mishap, ServerCheck, ServerWrite, ServerReply, ServerFails,
                   CompareFails, GiveUp, Ask, OutsideWrite
        <3> QED  BY <3>1, <3>2, <3>3
    <2>2. confirm' = confirm \/ confirm' = NoDialog \/ \E kind : confirm' = [kind |-> kind, pane |-> x]
        <3>1. CASE Author(x)
            BY <3>1 DEF Author, Type, Flush, Close, KeepEditing, Overwrite, Discard, KeepOpen,
                   StartReload, Reconcile, RenameInTree
        <3>2. CASE Window(x)
            <4>1. CASE Fire(x) \/ StartSave(x) \/ FinishReload(x) \/ FinishRename(x)
                BY <4>1 DEF Fire, StartSave, Resolved, FinishReload, FinishRename
            <4>2. CASE Receive(x)
                BY <4>2 DEF Receive, Resolved, Rejected
            <4>3. CASE \E s \in Slot : Compare(x, s) \/ MergeProse(x, s)
                BY <4>3 DEF Compare, MergeProse
            <4> QED  BY <3>2, <4>1, <4>2, <4>3 DEF Window
        <3>3. CASE Server(x) \/ Mishap(x)
            BY <3>3 DEF Server, Mishap, ServerCheck, ServerWrite, ServerReply, ServerFails,
                   CompareFails, OutsideWrite
        <3> QED  BY <3>1, <3>2, <3>3
    <2> QED  BY <2>1, <2>2
<1>3. Renames(p) /\ SameTexts(pane[p], pane'[p])
    BY <1>1, Values, TimersAreNoText
<1>4. Renames(p)'
    BY <1>1, <1>2, <1>3, StaysRenamed
<1> QED  BY <1>1, <1>4, Values, SafeAgain

\* An empty window
LEMMA InitSafe == Init => SafeInv
<1> SUFFICES ASSUME Init, NEW p \in Pane PROVE Safe(p)
    BY InitSound DEF SafeInv
<1>1. /\ disk[p] = {} /\ chain[p] = << >> /\ put[p] = None /\ fetch[p] = None
      /\ pane[p].draft = {} /\ pane[p].base = {} /\ pane[p].rev = {}
      /\ story[p].want = {} /\ story[p].undone = {} /\ story[p].theirs = {}
      /\ \A i \in Slot : ladder[p][i] = NoLadder
    BY DEF Init
<1>2. ~OnWay(None) /\ ~Landed(None) /\ ~ToLand(None, {}) /\ ~Lands(None, {})
    BY NoneIsNoRequest DEF OnWay, Landed, ToLand, Lands
<1>3. Marked(story[p], {}) /\ KnowsPane(story[p], pane[p], {}) /\ KnowsPut(story[p], None)
    BY <1>1 DEF Marked, KnowsPane, KnowsPut, Known
<1>4. Drafted(story[p], pane[p], None, {}) /\ Explained(story[p], pane[p], None, {})
    BY <1>1, <1>2 DEF Drafted, Explained, Good, Effective, Changed
<1>5. Sends(story[p], None, {}) /\ Settled(story[p], pane[p], None, {}, None)
      /\ Reloads(pane[p], None, {}, None) /\ Leaves(story[p], pane[p], None, chain[p], ladder[p])
    BY <1>1, <1>2, NoneIsNoRequest DEF Sends, Settled, Reloads, Leaves, Good
<1>6. /\ Merges(story[p], pane[p], None, {}, ladder[p]) /\ Forces(None, chain[p], ladder[p])
      /\ \A i \in Slot : KnowsLadder(story[p], ladder[p][i])
    BY <1>1, NoneIsNoRequest DEF Merges, Forces, KnowsLadder
<1>7. Renames(p)
    BY <1>1, NoneIsNoRequest DEF Renames
<1> QED  BY <1>1, <1>3, <1>4, <1>5, <1>6, <1>7 DEF Safe, SafeText

\* With no window left open, every step keeps the invariant.
LEMMA StepSafe ==
    ASSUME Gaps = {}
    PROVE  SafeInv /\ [Next]_vars => SafeInv'
<1> SUFFICES ASSUME SafeInv, [Next]_vars, NEW p \in Pane PROVE Safe(p)'
    BY StepKeeps DEF SafeInv
<1>1. TypeInv /\ Safe(p)
    BY DEF SafeInv
<1>2. CASE UNCHANGED vars
    BY <1>1, <1>2 DEF vars, Safe, Renames, Ladders
<1>3. CASE Tick
    BY <1>1, <1>3, TickStaysSafe
<1>4. CASE Author(p) \/ Window(p) \/ Server(p) \/ Mishap(p)
    <2>1. CASE Author(p)
        BY <1>1, <2>1, TypeStaysSafe, FireStaysSafe, CloseStaysSafe, DialogStaysSafe,
           DiscardStaysSafe, ReloadStaysSafe, ReconcileStaysSafe, RenameStaysSafe DEF Author
    <2>2. CASE Window(p)
        BY <1>1, <2>2, FireStaysSafe, StartStaysSafe, LandStaysSafe, RejectStaysSafe,
           CompareStaysSafe, MergeStaysSafe, ReloadStaysSafe, RenamedStaysSafe DEF Window
    <2>3. CASE Server(p) \/ Mishap(p)
        BY <1>1, <2>3, ServerStaysSafe, FailStaysSafe, CompareFailsStaysSafe, OutsideStaysSafe
           DEF Mishap
    <2> QED  BY <1>4, <2>1, <2>2, <2>3
<1>5. CASE \E x \in Pane : x # p /\ (Author(x) \/ Window(x) \/ Server(x) \/ Mishap(x))
    BY <1>1, <1>5, ElsewhereStaysSafe
<1> QED  BY <1>2, <1>3, <1>4, <1>5 DEF Next

\* NothingLost: with any number of panes and conflicts, an edit of the author
\* is in the open pane, and in the file once the pane is clean or closed; one
\* taken back is not there; an edit of anybody else stays in the file, until
\* the author replaces, discards or overwrites it (the save chain, the conflict
\* ladder, the revision check, reloads and renames together).  Every window
\* between a check and its use is taken to be closed: each one that is open
\* loses text.
THEOREM NothingIsLost ==
    ASSUME Gaps = {}
    PROVE  Spec => []NothingLost
<1>1. SafeInv => NothingLost
    <2> SUFFICES ASSUME SafeInv, NEW p \in Pane
                 PROVE  /\ story[p].theirs \subseteq disk[p]
                        /\ pane[p].open => Good(story[p], pane[p].draft)
                        /\ ~pane[p].dirty /\ put[p] = None => Good(story[p], disk[p])
        BY DEF NothingLost, Good
    <2>1. SafeText(story[p], pane[p], put[p], disk[p], fetch[p], chain[p], ladder[p])
        BY DEF SafeInv, Safe
    <2>2. story[p].theirs \subseteq disk[p] /\ (pane[p].open => Good(story[p], pane[p].draft))
        BY <2>1 DEF SafeText, Marked, Drafted
    <2>3. CASE pane[p].open /\ ~pane[p].dirty /\ put[p] = None
        <3>1. pane[p].draft = pane[p].base
            BY <2>1, <2>3 DEF SafeText, Drafted
        <3>2. Good(story[p], disk[p])
            BY <2>1, <2>3, <3>1, CleanIsGood DEF SafeText
        <3> QED  BY <2>2, <3>2
    <2>4. CASE ~pane[p].open
        BY <2>1, <2>2, <2>4 DEF SafeText, Settled
    <2> QED  BY <2>2, <2>3, <2>4
<1>2. SafeInv /\ [Next]_vars => SafeInv'
    BY StepSafe
<1> QED  BY InitSafe, <1>1, <1>2, PTL DEF Spec
=============================================================================
