----------------------------- MODULE EditorSave -----------------------------
(***************************************************************************)
(* One window of the editor and the server it saves to: the panes with     *)
(* their drafts, the autosave timers, the chain that puts a pane's saves   *)
(* one after another, the ladder a revision conflict goes through, the     *)
(* dialogs at its end, and on the other side the revision check, the write *)
(* and the reading back of a save.  Other programs write the same files.   *)
(*                                                                         *)
(* A text is the set of edits in it.  An edit is a number: a place in the  *)
(* prose, or a field set to a value.                                       *)
(***************************************************************************)
EXTENDS Integers, FiniteSets, Sequences

CONSTANTS
    Pane,        \* the panes of the window, each on a document of its own
    OwnMark,     \* edits the author makes in a pane
    OutMark,     \* edits made to the file by anybody else
    FieldMark,   \* the edits that set a field; the others are prose
    Rivals,      \* pairs of edits that set one field to different values
    IdleWait,    \* ticks of the idle timer
    MaxWait,     \* ticks of the ceiling timer
    MaxLadders,  \* bound: conflicts of one pane under way together
    MaxOutside,  \* bound: edits by others, for each file
    MaxFails,    \* bound: requests that fail, in all
    Gaps         \* the windows between check and use that are left open

\* The places where the code acts on what it knew before an await.
Gap == {"check",     \* save_scene, between revision check and write
        "readback",  \* save_scene, between write and reading back
        "rename",    \* syncRename adopts a revision without its text
        "reload",    \* typing while a clean pane is being reloaded
        "fields",    \* typing in a field while the prose is being merged
        "closing",   \* typing while the save of a close is under way
        "overlap",   \* an overwrite while another save or conflict is under way
        "undone"}    \* taking back what was written and not confirmed: its answer
                     \* got lost, or the pane is closed meanwhile

Mark == OwnMark \cup OutMark

ASSUME EditorSaveAssumption ==
    /\ OwnMark \subseteq Nat /\ OutMark \subseteq Nat /\ OwnMark \cap OutMark = {}
    /\ FieldMark \subseteq Mark /\ Rivals \subseteq SUBSET FieldMark
    \* all the values of one field are rivals of one another
    /\ \A a, b, c \in FieldMark :
         {a, b} \in Rivals /\ {b, c} \in Rivals /\ a # c => {a, c} \in Rivals
    /\ IdleWait \in Nat /\ MaxWait \in Nat /\ IdleWait <= MaxWait
    /\ MaxLadders \in Nat \ {0} /\ MaxOutside \in Nat /\ MaxFails \in Nat
    /\ Gaps \subseteq Gap

VARIABLES
    disk,    \* the text of each file; its revision is a hash of it
    pane,    \* what the window holds of each pane
    chain,   \* the saves asked for and not settled, the first one running
    put,     \* the save request on its way, or None
    ladder,  \* the conflicts being reconciled
    fetch,   \* a rename or a reload waiting for its answer
    modal,   \* the changed-on-disk dialog: the window has room for one
    confirm, \* the could-not-save dialog, likewise
    story    \* history: what author and others want to find in the end

vars == <<disk, pane, chain, put, ladder, fetch, modal, confirm, story>>

Text == SUBSET Mark
Off  == -1
None == [phase |-> "none"]
NoLadder == [stage |-> "none", kind |-> "none"]
NoDialog == [kind |-> "none"]
Slot == 1..MaxLadders

----------------------------------------------------------------------------
(* Texts.                                                                  *)

Fields(t) == t \cap FieldMark
Prose(t)  == t \ FieldMark
Changed(a, b) == (a \ b) \cup (b \ a)
RivalsOf(m) == {n \in Mark : {m, n} \in Rivals /\ n # m}
Set(t, m) == (t \ RivalsOf(m)) \cup {m}

Merge(base, local, remote) ==
    (local \ base) \cup (remote \ base) \cup (base \cap local \cap remote)

\* Each side's changes count as one stretch, from the first to the last.
Apart(base, local, remote) ==
    LET l == Changed(base, local)  r == Changed(base, remote) IN
    \/ \A i \in l, j \in r : i < j
    \/ \A i \in l, j \in r : j < i

\* One field set to two values.
FieldsClash(base, local, remote) ==
    \E m \in Fields(Changed(base, local)), n \in Fields(Changed(base, remote)) :
        m \in RivalsOf(n)

----------------------------------------------------------------------------
(* The autosave scheduler, on the record of one pane.                      *)

ShouldSave(q) == q.open /\ q.dirty /\ ~q.saving

Cancelled(q) == [q EXCEPT !.idle = Off, !.ceiling = Off]

\* Faulty variant: each keystroke pushes the ceiling out as well.
Scheduled_CeilingMoves(q) ==
    IF ShouldSave(q) THEN [q EXCEPT !.idle = IdleWait, !.ceiling = MaxWait]
    ELSE Cancelled(q)

Scheduled(q) ==
    IF ShouldSave(q)
    THEN [q EXCEPT !.idle = IdleWait,
                   !.ceiling = IF q.ceiling = Off THEN MaxWait ELSE q.ceiling]
    ELSE Cancelled(q)

\* Faulty variant: the retry is armed only if the ceiling still runs.
RetryScheduled_Dropped(q) == Cancelled(q)

RetryScheduled(q) ==
    IF ShouldSave(q) THEN [Cancelled(q) EXCEPT !.ceiling = MaxWait]
    ELSE Cancelled(q)

\* Faulty variant: nothing fires at the ceiling.
Due_IdleOnly(q) == q.idle = 0

Due(q) == q.idle = 0 \/ q.ceiling = 0

----------------------------------------------------------------------------
(* Saves wait in a chain for each pane.  A caller is who asked: autosave,  *)
(* a flush, a close, an overwrite chosen in the dialog (which may close),  *)
(* or the save of a merge, with the slot of its ladder.                    *)

Caller(by) == [by |-> by, slot |-> 0]
Forced(c) == c.by \in {"force", "forceclose"}

\* A save that can start runs in the same turn: no event comes in between.
Calm(p) == chain[p] = << >> \/ put[p] # None

Asks(p, c) == chain' = [chain EXCEPT ![p] = Append(@, c)]

Ladders(p) == {s \in Slot : ladder[p][s] # NoLadder}

\* Bound: two saves waiting, and a slot for the conflict each may meet.
Room(p) ==
    /\ Len(chain[p]) < 2
    /\ Cardinality({i \in DOMAIN chain[p] : chain[p][i].by \in {"auto", "close"}})
         + Cardinality(Ladders(p)) < MaxLadders

\* Part of what is on its way has been taken back in the pane.
TakenBack(p) ==
    /\ put[p] # None
    /\ Changed(put[p].text, pane[p].base) \cap Changed(put[p].text, pane[p].draft) # {}

Closing(p) == \/ \E i \in DOMAIN chain[p] : chain[p][i].by \in {"close", "forceclose"}
              \/ \E s \in Ladders(p) : ladder[p][s].kind = "close"

NobodyAsked == modal = NoDialog /\ confirm = NoDialog
Ask(p, kind) == modal' = [kind |-> kind, pane |-> p]
Told(p) == [story EXCEPT ![p].told = TRUE]
TornDown(q) == [Cancelled(q) EXCEPT !.open = FALSE, !.dirty = FALSE, !.saving = FALSE]

Init ==
    /\ disk = [p \in Pane |-> {}]
    /\ pane = [p \in Pane |->
                 [draft |-> {}, base |-> {}, rev |-> {}, dirty |-> FALSE,
                  saving |-> FALSE, idle |-> Off, ceiling |-> Off, open |-> TRUE]]
    /\ chain = [p \in Pane |-> << >>]
    /\ put = [p \in Pane |-> None]
    /\ ladder = [p \in Pane |-> [s \in Slot |-> NoLadder]]
    /\ fetch = [p \in Pane |-> None]
    /\ modal = NoDialog /\ confirm = NoDialog
    /\ story = [p \in Pane |->
                  [want |-> {}, undone |-> {}, lost |-> {}, theirs |-> {}, told |-> FALSE,
                   excuse |-> FALSE, outside |-> {}, fails |-> 0, waited |-> 0]]

----------------------------------------------------------------------------
(* The author types, or takes an edit back, which is the same handler.     *)

MayType(p, m) ==
    /\ pane[p].open /\ Calm(p) /\ NobodyAsked
    /\ fetch[p].phase = "reload" => "reload" \in Gaps
    /\ fetch[p].phase = "rename" => "rename" \in Gaps
    /\ Closing(p) => "closing" \in Gaps
    /\ (m \in FieldMark /\ \E s \in Ladders(p) : ladder[p][s].stage = "merge")
         => "fields" \in Gaps

Type(p, m) ==
    LET q == pane[p]
        s == story[p]
        adds == m \notin q.draft
        text == IF adds THEN Set(q.draft, m) ELSE q.draft \ {m}
        \* Back to a value as sent, which others have replaced: no new edit.
        stale == /\ RivalsOf(m) \cap disk[p] # {}
                 /\ m \in q.base \/ (put[p] # None /\ m \in put[p].text)
    IN
    /\ MayType(p, m)
    /\ Changed(q.draft, text) \cap story[p].lost \cap Changed(disk[p], q.base) # {}
         => "undone" \in Gaps
    /\ pane' = [pane EXCEPT ![p] =
                  Scheduled([q EXCEPT !.draft = text, !.dirty = text # q.base])]
    /\ story' = [story EXCEPT ![p] =
         [s EXCEPT !.want = IF ~adds \/ stale THEN s.want \ ({m} \cup RivalsOf(m))
                             ELSE Set(s.want, m),
                   !.undone = IF adds THEN (s.undone \cup (RivalsOf(m) \cap OwnMark)) \ {m}
                              ELSE s.undone \cup {m},
                   !.theirs = IF adds THEN s.theirs \ (RivalsOf(m) \cap q.draft) ELSE s.theirs,
                   !.told = FALSE,
                   !.waited = IF q.dirty /\ ~s.told THEN s.waited ELSE 0]]
    /\ UNCHANGED <<disk, chain, put, ladder, fetch, modal, confirm>>

\* A timer elapses.  Whichever comes first ends the run of both.
Fire(p) ==
    /\ Calm(p) /\ Room(p) /\ Due(pane[p])
    /\ pane' = [pane EXCEPT ![p] = Cancelled(@)]
    /\ IF ShouldSave(pane[p]) THEN Asks(p, Caller("auto")) ELSE UNCHANGED chain
    /\ UNCHANGED <<disk, put, ladder, fetch, modal, confirm, story>>

\* Everything dirty is saved before a project switch, an update or the end
\* of the page ("flush") or before an AI call reads the files ("auto").
Flush(p, by) ==
    /\ Calm(p) /\ Room(p) /\ NobodyAsked /\ pane[p].open /\ pane[p].dirty
    /\ pane' = [pane EXCEPT ![p] = Cancelled(@)]
    /\ Asks(p, Caller(by))
    /\ UNCHANGED <<disk, put, ladder, fetch, modal, confirm, story>>

Close(p) ==
    /\ Calm(p) /\ Room(p) /\ NobodyAsked /\ pane[p].open /\ ~Closing(p)
    /\ \/ /\ pane[p].dirty
          /\ Asks(p, Caller("close"))
          /\ UNCHANGED pane
       \/ /\ ~pane[p].dirty
          /\ TakenBack(p) => "undone" \in Gaps
          /\ pane' = [pane EXCEPT ![p] = TornDown(@)]
          /\ UNCHANGED chain
    /\ UNCHANGED <<disk, put, ladder, fetch, modal, confirm, story>>

----------------------------------------------------------------------------
(* How a save ends, for whoever asked for it.                              *)

Resolved(p, c, q) ==
    LET closes == \/ c.by \in {"close", "forceclose"}
                  \/ c.by = "merge" /\ ladder[p][c.slot].kind = "close"
    IN
    /\ pane' = [pane EXCEPT ![p] = IF closes THEN TornDown(q) ELSE q]
    /\ ladder' = IF c.by = "merge" THEN [ladder EXCEPT ![p][c.slot] = NoLadder]
                 ELSE ladder
    /\ UNCHANGED <<modal, confirm>>

Climb(p, kind) ==
    LET s == CHOOSE s \in Slot : ladder[p][s] = NoLadder IN
    ladder' = [ladder EXCEPT ![p][s] = [stage |-> "fetch", kind |-> kind]]

\* What a save that did not get through leads to, by its kind and by why.
Rejected(p, c, q, why) ==
    \/ /\ c.by \in {"auto", "close"} /\ why = "conflict"
       /\ Climb(p, c.by)
       /\ pane' = [pane EXCEPT ![p] = q]
       /\ UNCHANGED <<modal, confirm, story>>
    \/ /\ c.by = "auto" /\ why = "refused"
       /\ pane' = [pane EXCEPT ![p] = q]
       /\ story' = Told(p)
       /\ UNCHANGED <<ladder, modal, confirm>>
    \/ /\ c.by = "auto" /\ why = "failed"
       /\ pane' = [pane EXCEPT ![p] = RetryScheduled(q)]
       /\ UNCHANGED <<ladder, modal, confirm, story>>
    \/ /\ c.by = "close" /\ why # "conflict"
       /\ pane' = [pane EXCEPT ![p] = q]
       /\ confirm' = [kind |-> "close", pane |-> p]
       /\ UNCHANGED <<ladder, modal, story>>
    \/ /\ c.by = "merge"
       /\ pane' = [pane EXCEPT ![p] = q]
       /\ Ask(p, ladder[p][c.slot].kind)
       /\ ladder' = [ladder EXCEPT ![p][c.slot] = NoLadder]
       /\ UNCHANGED <<confirm, story>>
    \/ /\ c.by = "flush" \/ Forced(c)
       /\ pane' = [pane EXCEPT ![p] = q]
       /\ story' = Told(p)
       /\ UNCHANGED <<ladder, modal, confirm>>

\* The next save in the chain starts.  With the pane gone or clean, and
\* nothing forced, there is nothing to send.
StartSave(p) ==
    LET c == Head(chain[p])  q == pane[p] IN
    /\ ~Calm(p)
    /\ IF q.open /\ (q.dirty \/ Forced(c))
       THEN /\ pane' = [pane EXCEPT ![p] = [Cancelled(q) EXCEPT !.saving = TRUE]]
            /\ put' = [put EXCEPT ![p] = [phase |-> "sent", text |-> q.draft,
                                          rev |-> q.rev, forced |-> Forced(c)]]
            /\ story' = [story EXCEPT ![p].waited = 0]
            /\ UNCHANGED <<chain, ladder, modal, confirm>>
       ELSE /\ chain' = [chain EXCEPT ![p] = Tail(@)]
            /\ Resolved(p, c, q)
            /\ UNCHANGED <<put, story>>
    /\ UNCHANGED <<disk, fetch>>

\* Faulty variant: the drafts become what was saved.
Adopted_DraftToo(q, saved) ==
    [q EXCEPT !.draft = saved, !.base = saved, !.rev = saved, !.dirty = FALSE,
              !.saving = FALSE]

\* Faulty variant: the pane goes on to say that it is saving.
Adopted_StillSaving(q, saved) ==
    [q EXCEPT !.base = saved, !.rev = saved, !.dirty = q.draft # saved]

\* Faulty variant: the old revision is kept.
Adopted_OldRevision(q, saved) ==
    [q EXCEPT !.base = saved, !.dirty = q.draft # saved, !.saving = FALSE]

\* A save that landed: the drafts stay, and are compared again.
Adopted(q, saved) ==
    [q EXCEPT !.base = saved, !.rev = saved, !.dirty = q.draft # saved,
              !.saving = FALSE]

Receive(p) ==
    LET c == Head(chain[p])
        q == pane[p]
        idle == [q EXCEPT !.saving = FALSE]
        next == Adopted(q, put[p].text)
    IN
    /\ put[p].phase \in {"ok", "conflict", "refused", "failed"}
    /\ \/ /\ put[p].phase = "ok"
          /\ Resolved(p, c, IF ~q.open THEN q
                            ELSE IF next.dirty THEN Scheduled(next) ELSE next)
          /\ story' = [story EXCEPT ![p].told = FALSE]
       \/ /\ put[p].phase # "ok"
          /\ Rejected(p, c, IF q.open THEN idle ELSE q, put[p].phase)
    /\ put' = [put EXCEPT ![p] = None]
    /\ chain' = [chain EXCEPT ![p] = Tail(@)]
    /\ UNCHANGED <<disk, fetch>>

----------------------------------------------------------------------------
(* The server: save_scene, and everybody else who writes the file.         *)

\* The revision is a hash of the text it was read with; an overwrite sends none.
Current(r, text) == r.forced \/ r.rev = text

ServerCheck(p) ==
    /\ put[p].phase = "sent"
    /\ put' = [put EXCEPT ![p].phase =
                 IF Current(put[p], disk[p]) THEN "checked" ELSE "conflict"]
    /\ UNCHANGED <<disk, pane, chain, ladder, fetch, modal, confirm, story>>

\* An overwrite that was asked for gives up what others wrote.
ServerWrite(p) ==
    /\ put[p].phase = "checked"
    /\ disk' = [disk EXCEPT ![p] = put[p].text]
    /\ put' = [put EXCEPT ![p].phase = "written"]
    /\ story' = IF put[p].forced THEN [story EXCEPT ![p].theirs = @ \cap put[p].text]
                ELSE story
    /\ UNCHANGED <<pane, chain, ladder, fetch, modal, confirm>>

\* The answer is the document as it is read back.
ServerReply(p) ==
    /\ put[p].phase = "written"
    /\ put' = [put EXCEPT ![p].phase = "ok", ![p].text = disk[p]]
    /\ UNCHANGED <<disk, pane, chain, ladder, fetch, modal, confirm, story>>

\* Validation refuses the text, the server fails or the connection does,
\* before the write or after it.
ServerFails(p, how) ==
    /\ story[p].fails < MaxFails
    /\ \/ /\ put[p].phase = "checked"
          /\ story' = [story EXCEPT ![p].fails = @ + 1]
       \/ /\ put[p].phase = "written" /\ how = "failed"
          /\ TakenBack(p) => "undone" \in Gaps
          /\ story' = [story EXCEPT ![p].fails = @ + 1,
                                    ![p].lost = Changed(put[p].text, pane[p].base)]
    /\ put' = [put EXCEPT ![p].phase = how]
    /\ UNCHANGED <<disk, pane, chain, ladder, fetch, modal, confirm>>

\* Somebody else's edit of the file.  Whoever sets a field has seen what it
\* said, so that value is nobody's to keep any more.
Outside(p, m) ==
    LET s == story[p] IN
    /\ disk' = [disk EXCEPT ![p] = Set(@, m)]
    /\ story' = [story EXCEPT ![p] =
         [s EXCEPT !.theirs = Set(s.theirs, m), !.want = s.want \ (RivalsOf(m) \cap disk[p]),
                   !.excuse = TRUE, !.outside = s.outside \cup {m}]]

\* Each edit is made once: a file that is brought back to what it said has
\* its old revision again.
New(p, m) ==
    m \notin story[p].outside /\ Cardinality(story[p].outside) < MaxOutside

OutsideWrite(p, m) ==
    /\ New(p, m)
    /\ put[p].phase = "checked" => "check" \in Gaps
    /\ put[p].phase = "written" => "readback" \in Gaps
    /\ fetch[p].phase = "rename" => "rename" \in Gaps
    /\ Outside(p, m)
    /\ UNCHANGED <<pane, chain, put, ladder, fetch, modal, confirm>>

----------------------------------------------------------------------------
(* A conflict goes up the ladder: adopt, merge, or ask.                    *)

\* The merged drafts go in, over the text they were merged with.
Patched(q, remote, text) ==
    [Cancelled(q) EXCEPT !.draft = text, !.base = remote, !.rev = remote, !.dirty = TRUE]

\* The merged text, saved at the revision it was merged with.
Resave(p, s, remote, text) ==
    /\ pane' = [pane EXCEPT ![p] = IF @.open THEN Patched(@, remote, text) ELSE @]
    /\ ladder' = [ladder EXCEPT ![p][s] = [stage |-> "save", kind |-> ladder[p][s].kind]]
    /\ Asks(p, [by |-> "merge", slot |-> s])
    /\ UNCHANGED <<modal, story>>

GiveUp(p, s) ==
    /\ Ask(p, ladder[p][s].kind)
    /\ ladder' = [ladder EXCEPT ![p][s] = NoLadder]
    /\ UNCHANGED <<pane, chain>>

\* Rung 1: the file already says what the drafts say.
Adopt(p, s, remote) ==
    LET q == [Cancelled(pane[p]) EXCEPT !.base = remote, !.rev = remote, !.dirty = FALSE] IN
    /\ pane' = [pane EXCEPT ![p] = IF ladder[p][s].kind = "close" THEN TornDown(q) ELSE q]
    /\ ladder' = [ladder EXCEPT ![p][s] = NoLadder]
    /\ UNCHANGED <<chain, modal, story>>

\* The document is fetched again; the pane is looked at after that.
Compare(p, s) ==
    LET q == pane[p]
        remote == disk[p]
        fields == Merge(Fields(q.base), Fields(q.draft), Fields(remote))
    IN
    /\ ladder[p][s].stage = "fetch" /\ Calm(p)
    /\ TakenBack(p) => "undone" \in Gaps
    /\ \/ q.open /\ q.draft = remote /\ Adopt(p, s, remote)
       \/ /\ ~q.open \/ (q.draft # remote /\ FieldsClash(q.base, q.draft, remote))
          /\ GiveUp(p, s)
          /\ UNCHANGED story
       \/ /\ q.open /\ q.draft # remote /\ ~FieldsClash(q.base, q.draft, remote)
          /\ \/ /\ Prose(remote) = Prose(q.base)
                /\ Resave(p, s, remote, fields \cup Prose(q.draft))
             \/ /\ Prose(remote) # Prose(q.base)
                /\ ladder' = [ladder EXCEPT ![p][s] =
                     [stage |-> "merge", kind |-> @.kind, remote |-> remote,
                      base |-> q.base, local |-> Prose(q.draft), fields |-> fields]]
                /\ UNCHANGED <<pane, chain, modal, story>>
    /\ UNCHANGED <<disk, put, fetch, confirm>>

CompareFails(p, s) ==
    /\ ladder[p][s].stage = "fetch" /\ Calm(p)
    /\ story[p].fails < MaxFails
    /\ GiveUp(p, s)
    /\ story' = [story EXCEPT ![p].fails = @ + 1, ![p].excuse = TRUE]
    /\ UNCHANGED <<disk, put, fetch, confirm>>

\* The prose merge has parsed both texts.  It was begun with the prose of
\* that moment (local): a change made to the editor since cannot be applied
\* over.  The fields are those of that moment too.
MergeProse(p, s) ==
    LET l == ladder[p][s]
        now == Prose(pane[p].draft)
        merged == Merge(Prose(l.base), l.local, Prose(l.remote))
    IN
    /\ l.stage = "merge" /\ Calm(p)
    /\ \/ /\ Apart(Prose(l.base), l.local, Prose(l.remote))
          /\ merged = l.local \/ now = l.local
          /\ Resave(p, s, l.remote, l.fields \cup (IF merged = l.local THEN now ELSE merged))
       \/ /\ \/ ~Apart(Prose(l.base), l.local, Prose(l.remote))
             \/ merged # l.local /\ now # l.local
          /\ GiveUp(p, s)
          /\ UNCHANGED story
    /\ UNCHANGED <<disk, put, fetch, confirm>>

----------------------------------------------------------------------------
(* The dialogs.                                                            *)

KeepEditing(p) ==
    /\ modal.kind # "none" /\ modal.pane = p /\ Calm(p)
    /\ modal' = NoDialog
    /\ story' = Told(p)
    /\ UNCHANGED <<disk, pane, chain, put, ladder, fetch, confirm>>

Overwrite(p) ==
    /\ modal.kind # "none" /\ modal.pane = p /\ Calm(p)
    /\ chain[p] # << >> \/ Ladders(p) # {} => "overlap" \in Gaps
    /\ modal' = NoDialog
    /\ Asks(p, Caller(IF modal.kind = "auto" THEN "force" ELSE "forceclose"))
    /\ UNCHANGED <<disk, pane, put, ladder, fetch, confirm, story>>

\* Discard and close: what was typed is given up.
Discard(p) ==
    /\ Calm(p)
    /\ \/ /\ modal.kind = "close" /\ modal.pane = p
          /\ modal' = NoDialog
          /\ UNCHANGED confirm
       \/ /\ confirm.kind = "close" /\ confirm.pane = p
          /\ confirm' = NoDialog
          /\ UNCHANGED modal
    /\ pane' = [pane EXCEPT ![p] = TornDown(@)]
    /\ story' = [story EXCEPT ![p].want = {}, ![p].undone = {}]
    /\ UNCHANGED <<disk, chain, put, ladder, fetch>>

KeepOpen(p) ==
    /\ confirm.kind = "close" /\ confirm.pane = p /\ Calm(p)
    /\ confirm' = NoDialog
    /\ story' = Told(p)
    /\ UNCHANGED <<disk, pane, chain, put, ladder, fetch, modal>>

\* The project was migrated under the tab and has been opened again: every
\* dirty pane goes up the ladder without a save of its own.
Reconcile(p) ==
    /\ chain[p] = << >> /\ Ladders(p) = {} /\ NobodyAsked
    /\ pane[p].open /\ pane[p].dirty
    /\ pane' = [pane EXCEPT ![p] = Cancelled(@)]
    /\ Climb(p, "auto")
    /\ UNCHANGED <<disk, chain, put, fetch, modal, confirm, story>>

----------------------------------------------------------------------------
(* A clean pane is brought up to a change made elsewhere in the app.       *)

StartReload(p) ==
    /\ Calm(p) /\ fetch[p] = None
    /\ pane[p].open /\ ~pane[p].dirty
    /\ TakenBack(p) => "undone" \in Gaps
    /\ fetch' = [fetch EXCEPT ![p] = [phase |-> "reload"]]
    /\ UNCHANGED <<disk, pane, chain, put, ladder, modal, confirm, story>>

\* The answer goes over the drafts whatever has become of them.
FinishReload(p) ==
    /\ Calm(p) /\ fetch[p].phase = "reload"
    /\ fetch' = [fetch EXCEPT ![p] = None]
    /\ pane' = [pane EXCEPT ![p] =
         IF @.open
         THEN [Cancelled(@) EXCEPT !.draft = disk[p], !.base = disk[p], !.rev = disk[p],
                                   !.dirty = FALSE]
         ELSE @]
    /\ UNCHANGED <<disk, chain, put, ladder, modal, confirm, story>>

\* A title changed in the tree is written there and then fetched for the
\* pane: its revision and the title, without the rest of the text.
RenameInTree(p, m) ==
    /\ Calm(p) /\ fetch[p] = None /\ NobodyAsked
    /\ New(p, m) /\ m \in FieldMark
    /\ \/ "rename" \in Gaps
       \/ disk[p] = pane[p].rev /\ ~pane[p].dirty /\ put[p] = None /\ Ladders(p) = {}
    /\ Outside(p, m)
    /\ fetch' = [fetch EXCEPT ![p] = [phase |-> "rename", title |-> m]]
    /\ UNCHANGED <<pane, chain, put, ladder, modal, confirm>>

FinishRename(p) ==
    LET q == pane[p]  m == fetch[p].title IN
    /\ Calm(p) /\ fetch[p].phase = "rename"
    /\ fetch' = [fetch EXCEPT ![p] = None]
    /\ pane' = [pane EXCEPT ![p] =
         IF ~q.open THEN q
         ELSE [q EXCEPT !.base = Set(q.base, m), !.rev = disk[p],
                        !.draft = IF q.dirty THEN q.draft ELSE Set(q.draft, m)]]
    /\ UNCHANGED <<disk, chain, put, ladder, modal, confirm, story>>

----------------------------------------------------------------------------
(* Time passes.  A timer that is due fires first.                          *)

Waiting(p) ==
    /\ pane[p].open /\ pane[p].dirty /\ ~story[p].told
    /\ chain[p] = << >> /\ Ladders(p) = {} /\ NobodyAsked

Less(t) == IF t > 0 THEN t - 1 ELSE t

Tick ==
    /\ \E p \in Pane : pane[p].idle > 0 \/ pane[p].ceiling > 0
    /\ \A p \in Pane : Calm(p) /\ ~Due(pane[p])
    /\ pane' = [p \in Pane |-> [pane[p] EXCEPT !.idle = Less(@), !.ceiling = Less(@)]]
    /\ story' = [p \in Pane |->
         [story[p] EXCEPT !.waited = IF Waiting(p) THEN @ + 1 ELSE 0]]
    /\ UNCHANGED <<disk, chain, put, ladder, fetch, modal, confirm>>

Author(p) ==
    \/ \E m \in OwnMark : Type(p, m)
    \/ \E by \in {"auto", "flush"} : Flush(p, by)
    \/ Close(p)
    \/ KeepEditing(p) \/ Overwrite(p) \/ Discard(p) \/ KeepOpen(p)
    \/ StartReload(p) \/ Reconcile(p)
    \/ \E m \in OutMark : RenameInTree(p, m)

Window(p) ==
    \/ Fire(p) \/ StartSave(p) \/ Receive(p)
    \/ \E s \in Slot : Compare(p, s) \/ MergeProse(p, s)
    \/ FinishReload(p) \/ FinishRename(p)

Server(p) == ServerCheck(p) \/ ServerWrite(p) \/ ServerReply(p)

Mishap(p) ==
    \/ \E how \in {"refused", "failed"} : ServerFails(p, how)
    \/ \E s \in Slot : CompareFails(p, s)
    \/ \E m \in OutMark : OutsideWrite(p, m)

Next == Tick \/ \E p \in Pane : Author(p) \/ Window(p) \/ Server(p) \/ Mishap(p)

\* Timers elapse and requests are answered or fail; time goes on however
\* fast the author types.  Nothing is assumed of the author.
Fairness ==
    /\ SF_vars(Tick)
    /\ \A p \in Pane :
        /\ WF_vars(Fire(p)) /\ WF_vars(StartSave(p)) /\ WF_vars(Receive(p))
        /\ WF_vars(Server(p)) /\ WF_vars(FinishReload(p)) /\ WF_vars(FinishRename(p))
        /\ \A s \in Slot : WF_vars(Compare(p, s)) /\ WF_vars(MergeProse(p, s))

Spec == Init /\ [][Next]_vars
FairSpec == Spec /\ Fairness

----------------------------------------------------------------------------
(* Properties.                                                             *)

\* TypeOK: the shape of the window's state.
TypeOK ==
    /\ disk \in [Pane -> Text]
    /\ \A p \in Pane :
        /\ pane[p].draft \in Text /\ pane[p].base \in Text /\ pane[p].rev \in Text
        /\ pane[p].idle \in {Off} \cup 0..IdleWait
        /\ pane[p].ceiling \in {Off} \cup 0..MaxWait
        /\ put[p] # None => chain[p] # << >>
        /\ pane[p].saving => put[p] # None

\* NothingLost: an edit of the author is in the open pane, and in the file
\* once the pane is clean or closed; one taken back is not there; an edit
\* of anybody else stays in the file.  The only ways out are the author's
\* own: Discard and Overwrite.  (The save chain, the conflict ladder, the
\* revision check and both reloads together.)
NothingLost ==
    \A p \in Pane :
        LET s == story[p]  q == pane[p] IN
        /\ s.theirs \subseteq disk[p]
        /\ q.open => s.want \subseteq q.draft /\ s.undone \cap q.draft = {}
        /\ ~q.dirty /\ put[p] = None =>
             s.want \subseteq disk[p] /\ s.undone \cap disk[p] = {}

\* SavesInTime: an author who never stops typing waits no longer for a save
\* than the ceiling timer runs (autosave.ts, the ceiling of a dirty run).
SavesInTime == \A p \in Pane : story[p].waited <= MaxWait

\* NeverForgotten: a pane with unsaved text has a timer running, a save or a
\* conflict under way, a dialog open about it, or the author has been told.
\* (handleSaveFailure's classes, the one slot of each dialog service, and
\* every place that cancels the timers.)
NeverForgotten ==
    \A p \in Pane : pane[p].open /\ pane[p].dirty =>
        \/ pane[p].idle # Off \/ pane[p].ceiling # Off
        \/ chain[p] # << >> \/ Ladders(p) # {}
        \/ modal # NoDialog /\ modal.pane = p
        \/ confirm # NoDialog /\ confirm.pane = p
        \/ story[p].told

\* OnlyOthersConflict: a pane's own saves, one after another, never meet a
\* revision conflict unless an answer got lost or somebody else wrote.
OnlyOthersConflict ==
    \A p \in Pane : put[p].phase = "conflict" => story[p].excuse \/ story[p].fails > 0

\* TypedIsSaved: what the author types reaches the file, unless it is taken
\* back, the author knows that it is not saved, or the pane is discarded.
TypedIsSaved ==
    \A p \in Pane : \A m \in OwnMark :
        m \in story[p].want ~>
            \/ m \in disk[p] \/ m \notin story[p].want
            \/ story[p].told \/ ~NobodyAsked \/ ~pane[p].open
=============================================================================
