----------------------------- MODULE Migrations -----------------------------
(***************************************************************************)
(* Projects are brought up to the running code when a tab opens them, and  *)
(* a gate refuses the requests of a tab or a project that is behind, which *)
(* makes the tab open its project again.                                   *)
(*                                                                         *)
(* An open walks the declared chain from the outermost layer to the        *)
(* project, under one lock; each layer is stamped when its ladder is done. *)
(* A step may raise, and the process may go down, between any two writes.  *)
(***************************************************************************)
EXTENDS LayerLadder, Functions

CONSTANTS
    Layer,      \* project folders
    Chain,      \* for each its declared chain, outermost first, itself last
    Tab,        \* browser tabs
    Root,       \* the project each tab has open
    Start,      \* contents the layers may start with
    MaxFails,   \* bound: steps that raise or processes that go down
    MaxTicks,   \* bound: ticks of the clock that file times are taken from
    MidRank     \* whether a run may be cut short between two ranks

ASSUME MigrationsAssumption ==
    /\ Chain \in [Layer -> Seq(Layer)]
    /\ \A l \in Layer : Chain[l] # <<>> /\ Last(Chain[l]) = l
    /\ Root \in [Tab -> Layer]
    /\ {MaxFails, MaxTicks} \subseteq Nat
    /\ MidRank \in BOOLEAN

VARIABLES
    start, \* the layers as they were at first
    layer, \* the layers on disk
    mtime, \* the tick in which a layer's manifest was written last
    clock, \* the tick it is
    memo,  \* the gate's memory: for a root the time and version of its manifest
    run,   \* the run of migrations that holds the lock
    ids,   \* tag ids handed out
    tab,   \* where each tab is with its request
    fails, \* failures so far, for the bound
    late   \* history: what a layer's tag step met of ancestors that the run had passed over

vars == <<start, layer, mtime, clock, memo, run, ids, tab, fails, late>>

NoRun == [tab |-> {}, left |-> <<>>, unread |-> TRUE, steps |-> <<>>, todo |-> <<>>,
          names |-> <<>>, met |-> {}]

Ancestors(l) == Range(Front(Chain[l]))
TagsOf(l) == Range(layer[l].tags)
ChainTags(l) == UNION {TagsOf(d) : d \in Range(Chain[l])}

Init ==
    /\ start \in Start
    /\ layer = start
    /\ mtime = [l \in Layer |-> 0]
    /\ clock = 0
    /\ memo = <<>>
    /\ run = NoRun
    /\ ids = 10
    /\ tab \in [Tab -> {[phase |-> "idle", current |-> c, seen |-> 0, version |-> 0] : c \in BOOLEAN}]
    /\ fails = 0
    /\ late = [l \in Layer |-> {}]

-----------------------------------------------------------------------------
\* The gate.

Answer(t, version) ==
    IF version = CURRENT_VERSION /\ tab[t].current THEN "served" ELSE "refused"

\* A request arrives; the manifest's time is compared with the memory's.
Request(t) ==
    LET r == Root[t]
    IN  /\ tab[t].phase \in {"idle", "served"}
        /\ tab' = [tab EXCEPT
              ![t].phase = IF r \in DOMAIN memo /\ memo[r].seen = mtime[r]
                           THEN Answer(t, memo[r].version) ELSE "parse",
              ![t].seen = mtime[r]]
        /\ UNCHANGED <<start, layer, mtime, clock, memo, run, ids, fails, late>>

Parse(t) ==
    /\ tab[t].phase = "parse"
    /\ tab' = [tab EXCEPT ![t].phase = "store", ![t].version = layer[Root[t]].version]
    /\ UNCHANGED <<start, layer, mtime, clock, memo, run, ids, fails, late>>

Store(t) ==
    /\ tab[t].phase = "store"
    /\ memo' = (Root[t] :> [seen |-> tab[t].seen, version |-> tab[t].version]) @@ memo
    /\ tab' = [tab EXCEPT ![t].phase = Answer(t, tab[t].version)]
    /\ UNCHANGED <<start, layer, mtime, clock, run, ids, fails, late>>

\* Faulty variant: the memory of the gate is left as it is.
ForgetVersion_Nothing(r) == memo' = memo

ForgetVersion(r) == memo' = [q \in DOMAIN memo \ {r} |-> memo[q]]

\* The run has let go of the lock; the answer makes the tab a current one.
Opened(t) ==
    /\ tab[t].phase = "opened"
    /\ ForgetVersion(Root[t])
    /\ tab' = [tab EXCEPT ![t].phase = "idle", ![t].current = TRUE]
    /\ UNCHANGED <<start, layer, mtime, clock, run, ids, fails, late>>

-----------------------------------------------------------------------------
\* The run.

\* What layer l takes from an ancestor whose tag step is not a step of this run
\* (it was stamped by an earlier one): a name of its nodes, or the id of one.
PassedOver(l) ==
    LET nodes == UNION {TagsOf(d) : d \in Ancestors(l) \ run.met}
        words == Range(layer[l].yaml \o layer[l].docs)
    IN  {what \in {"name", "id"} :
            \E x \in words, t \in nodes : IF what = "id" THEN x = t.id ELSE Key(x) = Key(t.title)}

BetweenRanks ==
    /\ run.todo # <<>>
    /\ LET cards == layer[Head(run.left)].cards
           next == Head(run.todo).cards
       IN  /\ \E i \in DOMAIN cards : next[i].rank # cards[i].rank
           /\ \E i \in DOMAIN cards : cards[i].rank # None

MayBreak == MidRank \/ ~BetweenRanks

\* The layers an open goes through.
Walk(r) == Chain[r]

Begin(t) ==
    /\ run.tab = {}
    /\ tab[t].phase = "refused"
    /\ run' = [NoRun EXCEPT !.tab = {t}, !.left = Walk(Root[t])]
    /\ tab' = [tab EXCEPT ![t].phase = "opening"]
    /\ UNCHANGED <<start, layer, mtime, clock, memo, ids, fails, late>>

\* The version is read once, before anything is written; a layer that needs
\* nothing is left alone.
ReadVersion ==
    /\ run.left # <<>> /\ run.unread
    /\ LET steps == Pending(layer[Head(run.left)].version)
       IN  run' = IF steps = <<>> THEN [run EXCEPT !.left = Tail(@)]
                  ELSE [run EXCEPT !.unread = FALSE, !.steps = steps]
    /\ UNCHANGED <<start, layer, mtime, clock, memo, ids, tab, fails, late>>

BeginStep ==
    /\ run.left # <<>> /\ ~run.unread /\ run.todo = <<>> /\ run.steps # <<>>
    /\ LET l == Head(run.left)
           what == Head(run.steps).what
           w == Perform(what, layer[l], run.names, ids)
       IN  /\ run' = [run EXCEPT !.steps = Tail(@), !.todo = w.out, !.names = w.names,
                                 !.met = IF what = "tags" THEN @ \cup {l} ELSE @]
           /\ ids' = w.ids
           /\ late' = IF what = "tags" THEN [late EXCEPT ![l] = @ \cup PassedOver(l)] ELSE late
    /\ UNCHANGED <<start, layer, mtime, clock, memo, tab, fails>>

WriteFile ==
    /\ run.todo # <<>>
    /\ layer' = [layer EXCEPT ![Head(run.left)] = Head(run.todo)]
    /\ run' = [run EXCEPT !.todo = Tail(@)]
    /\ UNCHANGED <<start, mtime, clock, memo, ids, tab, fails, late>>

Stamp ==
    /\ run.left # <<>> /\ ~run.unread /\ run.todo = <<>> /\ run.steps = <<>>
    /\ layer' = [layer EXCEPT ![Head(run.left)].version = CURRENT_VERSION]
    /\ mtime' = [mtime EXCEPT ![Head(run.left)] = clock]
    /\ run' = [run EXCEPT !.left = Tail(@), !.unread = TRUE]
    /\ UNCHANGED <<start, clock, memo, ids, tab, fails, late>>

Finish ==
    /\ run.tab # {} /\ run.left = <<>>
    /\ tab' = [t \in Tab |-> IF t \in run.tab THEN [tab[t] EXCEPT !.phase = "opened"] ELSE tab[t]]
    /\ run' = NoRun
    /\ UNCHANGED <<start, layer, mtime, clock, memo, ids, fails, late>>

-----------------------------------------------------------------------------
\* Faulty variant: a step that raises leaves the run, and its lock, behind.
Fail_KeepsTheLock ==
    /\ run.left # <<>> /\ MayBreak /\ fails < MaxFails
    /\ fails' = fails + 1
    /\ tab' = [t \in Tab |-> IF t \in run.tab THEN [tab[t] EXCEPT !.phase = "idle"] ELSE tab[t]]
    /\ UNCHANGED <<start, layer, mtime, clock, memo, run, ids, late>>

\* A step raises: the open fails, and the tab's next request is refused again.
Fail ==
    /\ run.left # <<>> /\ MayBreak /\ fails < MaxFails
    /\ fails' = fails + 1
    /\ tab' = [t \in Tab |-> IF t \in run.tab THEN [tab[t] EXCEPT !.phase = "idle"] ELSE tab[t]]
    /\ run' = NoRun
    /\ UNCHANGED <<start, layer, mtime, clock, memo, ids, late>>

\* The process goes down and comes back: its memory is gone, and so are the
\* requests it was at.
Crash ==
    /\ MayBreak /\ fails < MaxFails
    /\ fails' = fails + 1
    /\ tab' = [t \in Tab |-> [tab[t] EXCEPT !.phase = IF @ = "served" THEN @ ELSE "idle"]]
    /\ run' = NoRun
    /\ memo' = <<>>
    /\ UNCHANGED <<start, layer, mtime, clock, ids, late>>

Advance ==
    /\ clock < MaxTicks
    /\ clock' = clock + 1
    /\ UNCHANGED <<start, layer, mtime, memo, run, ids, tab, fails, late>>

RunStep == ReadVersion \/ BeginStep \/ WriteFile \/ Stamp \/ Finish
TabStep(t) == Request(t) \/ Parse(t) \/ Store(t) \/ Opened(t)

Next ==
    \/ \E t \in Tab : TabStep(t) \/ Begin(t)
    \/ RunStep
    \/ Fail
    \/ Crash
    \/ Advance

\* A run goes on as long as there is one.  (Weak fairness of RunStep, which is
\* enabled exactly then; spelt out, as ENABLED makes TLC work out every step.)
RunGoesOn == []<>(run.tab = {}) \/ []<><<RunStep>>_vars

Fairness ==
    /\ RunGoesOn
    /\ \A t \in Tab : WF_vars(TabStep(t)) /\ WF_vars(Begin(t))

Spec == Init /\ [][Next]_vars
FairSpec == Spec /\ Fairness

-----------------------------------------------------------------------------
TagNode == [id : Nat, title : Name \cup Nat]
Content(c) ==
    /\ c.version \in 0..CURRENT_VERSION
    /\ c.yaml \in Seq(Name)
    /\ c.tags \in Seq(TagNode)
    /\ c.docs \in Seq(Name \cup Nat)
    /\ c.cards \in Seq([scene : 0..Len(c.scenes), body : BOOLEAN, rank : Nat])
    /\ c.scenes \in Seq([summary : Nat, bracketed : BOOLEAN])

TypeOK ==
    /\ late \in [Layer -> SUBSET {"name", "id"}]
    /\ \A l \in Layer : Content(layer[l]) /\ mtime[l] \in 0..clock
    /\ \A r \in DOMAIN memo : memo[r].seen \in 0..clock /\ memo[r].version \in 0..CURRENT_VERSION
    /\ run.left \in Seq(Layer) /\ run.tab \subseteq Tab
    /\ \A t \in run.tab : tab[t].phase = "opening"
    /\ \A t \in Tab : tab[t].phase \in {"idle", "parse", "store", "served", "refused", "opening", "opened"}

\* The cards, scenes and documents a layer should end with, told from what it
\* had at first.
FirstCard(c, i) ==
    c.cards[i].scene # None /\ \A j \in 1..(i - 1) : c.cards[j].scene # c.cards[i].scene
BoardPlace(c, i) ==
    LET before(j) ==
            IF FirstCard(c, i) THEN FirstCard(c, j) /\ c.cards[j].scene <= c.cards[i].scene
            ELSE FirstCard(c, j) \/ j <= i
    IN  Cardinality({j \in DOMAIN c.cards : before(j)})
UpgradedCards(c) ==
    [i \in DOMAIN c.cards |->
        [scene |-> IF FirstCard(c, i) THEN c.cards[i].scene ELSE None,
         body |-> c.cards[i].body,
         rank |-> IF \E j \in DOMAIN c.cards : c.cards[j].rank # None
                  THEN c.cards[i].rank ELSE BoardPlace(c, i)]]
UpgradedSummary(c, s) ==
    IF c.scenes[s].summary # None THEN {c.scenes[s].summary}
    ELSE LET card == {i \in DOMAIN c.cards : FirstCard(c, i) /\ c.cards[i].scene = s /\ c.cards[i].body}
         IN  IF card = {} THEN {None} ELSE card

(***************************************************************************)
(* A layer stamped with the current version holds what the whole ladder    *)
(* makes of what it held at first, however often the run was cut short,    *)
(* and so does every ancestor: the gate lets requests through on the word  *)
(* of that one stamp.                                                      *)
(***************************************************************************)
StampedIsUpgraded ==
    \A l \in Layer : layer[l].version = CURRENT_VERSION =>
        /\ \A d \in Ancestors(l) : layer[d].version = CURRENT_VERSION
        /\ layer[l].yaml = <<>> /\ Range(layer[l].docs) \subseteq Nat
        /\ \A name \in Range(start[l].yaml) : \E t \in ChainTags(l) : Key(t.title) = Key(name)
        /\ layer[l].cards = UpgradedCards(start[l])
        /\ \A s \in DOMAIN layer[l].scenes :
              /\ layer[l].scenes[s].bracketed
              /\ layer[l].scenes[s].summary \in UpgradedSummary(start[l], s)

(***************************************************************************)
(* At every point a document's tag is the name it had, or the id of a node *)
(* of its chain that goes by that name; an id it had stays.  A retry must  *)
(* tell the ids the attempt before it wrote from names yet to be turned,   *)
(* and does, but for the ids of an ancestor's nodes when that ancestor was *)
(* stamped in between: to the new run they are names.                      *)
(***************************************************************************)
TagsKeepNames ==
    \A l \in Layer : "id" \notin late[l] => \A i \in DOMAIN layer[l].docs :
        LET was == start[l].docs[i]
            is == layer[l].docs[i]
        IN  \/ is = was
            \/ was \in Name /\ \E t \in ChainTags(l) : t.id = is /\ Key(t.title) = Key(was)

(***************************************************************************)
(* A name, however it is cased, has one tag node in a layer, and one in a  *)
(* chain unless a layer of it was upgraded by a run that passed over the   *)
(* ancestor which had the name's node: a retry mints nothing twice, and an *)
(* ancestor's node serves the layers a run goes through after it.          *)
(***************************************************************************)
OneTagPerName ==
    \A l \in Layer :
        /\ \A s, t \in TagsOf(l) : Key(s.title) = Key(t.title) => s.id = t.id
        /\ late[l] = {} => \A s \in TagsOf(l), t \in ChainTags(l) :
              Key(s.title) = Key(t.title) => s.id = t.id

(***************************************************************************)
(* A tab that keeps asking is served again and again: a refusal leads to   *)
(* an open, an open that fails to another, and no stale memory of the gate *)
(* keeps a project that is current out for good.                           *)
(***************************************************************************)
EventuallyServed == \A t \in Tab : []<>(tab[t].phase = "served")
=============================================================================
