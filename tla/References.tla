----------------------------- MODULE References -----------------------------
(***************************************************************************)
(* References between the nodes of a project, and what becomes of them     *)
(* when a node is deleted or a tag is merged into another.                 *)
(*                                                                         *)
(* Deleting unlinks files, then purges: it deletes the mutation sets and   *)
(* chats that hang on the node, and sweeps over every file that may refer  *)
(* to it.  Merging writes a redirect on the merged tag and sweeps too.     *)
(* Readers follow redirects and do not see what leads nowhere.  A sweep    *)
(* reads a file to decide and writes it later, with no lock on it; saves   *)
(* and other requests come between.  So does a save: it checks what it     *)
(* refers to against the index, and writes later.                          *)
(*                                                                         *)
(* The index is taken to be that of the files (module IndexGate).          *)
(***************************************************************************)
EXTENDS Naturals, SequencesExt

CONSTANTS
    Tag, Entity, MutationSet, Chat, Scene, \* the nodes of the project, by kind
    Nil,        \* no node
    Pin,        \* the entity each mutation set is pinned to
    Subject,    \* the node each chat is about
    Order,      \* the order the index lists the nodes in
    Start,      \* what the nodes may refer to at first
    Thread,     \* requests that delete and merge
    MaxJobs,    \* bound: deletes and merges
    MaxFaults,  \* bound: requests that fail half way, files broken by hand
    Overlap,    \* whether a file is written between a sweep's read and write
    Relays,     \* whether a tag is deleted to which others redirect through a third
    TagRace,    \* whether a tag is deleted or merged while another one is
    LoseMerged, \* whether a tag that redirects to another may be deleted
    Revives     \* whether a save may write a scene that was deleted since its checks

Node == Tag \cup Entity \cup MutationSet \cup Chat \cup Scene

ASSUME ReferencesAssumption ==
    /\ LET kind == <<Tag, Entity, MutationSet, Chat, Scene>>
       IN  \A i, j \in DOMAIN kind : i # j => kind[i] \cap kind[j] = {}
    /\ Nil \notin Node
    /\ Order \in Seq(Node) /\ Range(Order) = Node
    /\ Pin \in [MutationSet -> Entity] /\ Subject \in [Chat -> Node \ Chat]
    /\ {MaxJobs, MaxFaults} \subseteq Nat
    /\ {Overlap, Relays, TagRace, LoseMerged, Revives} \subseteq BOOLEAN

\* Tags that are merged into others never lead back to where they start.
NoCycle(f) == \A C \in SUBSET Tag : C # {} => \E a \in C : f[a] \cap C = {}

\* Nothing refers to a chat, and a tag is merged into one tag at most.
ASSUME StartAssumption ==
    \A f \in Start :
        /\ f \in [Node -> SUBSET (Node \ Chat)]
        /\ \A a \in Tag : f[a] \subseteq Tag /\ \A r, s \in f[a] : r = s
        /\ NoCycle(f)

VARIABLES
    live,   \* nodes with a file in this project
    above,  \* nodes an ancestor layer holds
    bad,    \* nodes whose file cannot be parsed
    refs,   \* the nodes each file refers to; for a tag what it is merged into
    job,    \* what each thread is doing
    jobs,   \* jobs begun, for the bound
    faults, \* faults so far, for the bound
    cut,    \* whether a delete or merge did not run through
    saving, \* for each scene what a save that passed its checks has yet to write
    late    \* history: a scene and a node, gone by the time a save wrote a reference to it

vars == <<live, above, bad, refs, job, jobs, faults, cut, saving, late>>

\* A set of nodes, as the index lists it.
Place(n) == CHOOSE k \in DOMAIN Order : Order[k] = n
InOrder(S) ==
    [k \in 1..Cardinality(S) |->
        CHOOSE n \in S : Cardinality({m \in S : Place(m) < Place(n)}) = k - 1]

Idle == [stage |-> "idle", target |-> Nil, into |-> Nil, ids |-> {}, files |-> <<>>,
         todo |-> <<>>, at |-> Nil, cleaned |-> {}]

-----------------------------------------------------------------------------
\* What readers see.

\* The nodes the index knows.
ById == (live \ bad) \cup above

\* One hop of a redirect that leads somewhere.
Hop(n) ==
    IF n \in Tag \cap ById /\ refs[n] \cap ById # {} THEN CHOOSE m \in refs[n] : TRUE ELSE n

\* The end of a tag's redirects; on a cycle, or leading into one, itself.
Canonical(n) ==
    LET walk[k \in 0..Cardinality(Tag)] == IF k = 0 THEN n ELSE Hop(walk[k - 1])
        end == walk[Cardinality(Tag)]
    IN  IF Hop(end) = end THEN end ELSE n

\* The nodes that redirect to n, directly or not.
Redirects(n) ==
    LET within[k \in 0..Cardinality(Tag)] ==
            IF k = 0 THEN {n}
            ELSE LET near == within[k - 1]
                 IN  near \cup {a \in Tag \cap ById : refs[a] \cap near # {}}
    IN  within[Cardinality(Tag)] \ {n}

\* References that lead nowhere are left out.
Healed(rs) == {r \in rs : Canonical(r) \in ById}
Reading(x) == {Canonical(r) : r \in Healed(refs[x])}

Init ==
    /\ live = Node
    /\ above \in SUBSET Entity
    /\ bad = {}
    /\ refs \in Start
    /\ job = [t \in Thread |-> Idle]
    /\ jobs = 0 /\ faults = 0
    /\ cut = FALSE
    /\ saving = [x \in Scene |-> {}]
    /\ late = {}

-----------------------------------------------------------------------------
\* Editing.

\* What the author sees of x, with one taken out, one put in, or as it is.
Edits(x) ==
    LET shown == Healed(refs[x])
    IN  {shown} \cup {shown \ {r} : r \in shown}
                \cup {shown \cup {r} : r \in (Tag \cup Entity) \cap ById}

\* A save of a file as it was loaded; one based on anything else, or naming a
\* node the index does not know, is refused.  Merged tags are named by their
\* survivors, and what was not shown is gone.
CheckSave(x, rs) ==
    /\ x \in live \ bad /\ saving[x] = {}
    /\ saving' = [saving EXCEPT ![x] = {{Canonical(r) : r \in rs}}]
    /\ UNCHANGED <<live, above, bad, refs, job, jobs, faults, cut, late>>

\* The file is written as it was checked, whatever has become of it, and of
\* what it refers to, since then.
WriteSave(x) ==
    /\ ~Overlap => \A t \in Thread : job[t].at # x
    /\ ~Revives => x \in live
    /\ \E new \in saving[x] :
          /\ refs' = [refs EXCEPT ![x] = new]
          /\ late' = {p \in late : p[1] # x} \cup {<<x, r>> : r \in new \ (live \cup above)}
    /\ live' = live \cup {x}
    /\ bad' = bad \ {x}
    /\ saving' = [saving EXCEPT ![x] = {}]
    /\ UNCHANGED <<above, job, jobs, faults, cut>>

\* A save raises between the two, or the process goes down.
DropSave(x) ==
    /\ saving[x] # {}
    /\ saving' = [saving EXCEPT ![x] = {}]
    /\ UNCHANGED <<live, above, bad, refs, job, jobs, faults, cut, late>>

\* A file is broken by hand, and put right again.
Break(x) ==
    /\ faults < MaxFaults /\ x \in live \ bad
    /\ bad' = bad \cup {x} /\ faults' = faults + 1
    /\ UNCHANGED <<live, above, refs, job, jobs, cut, saving, late>>

Repair(x) ==
    /\ x \in bad
    /\ bad' = bad \ {x}
    /\ UNCHANGED <<live, above, refs, job, jobs, faults, cut, saving, late>>

-----------------------------------------------------------------------------
\* Deleting and merging.

TagAtWork == \E t \in Thread : job[t].target \in Tag

Take(t, j) ==
    /\ job[t] = Idle /\ jobs < MaxJobs
    /\ job' = [job EXCEPT ![t] = j]
    /\ jobs' = jobs + 1
    /\ UNCHANGED <<live, above, bad, refs, faults, cut, saving, late>>

\* A tag takes the tags that redirect to it along: first they go, in whatever
\* order a set of them is walked, and then the tag.
Along(n) == IF n \in Tag THEN Redirects(n) \cap live ELSE {}

StartDelete(t, n) ==
    /\ n \in live \ bad
    /\ n \in Tag => /\ ~TagRace => ~TagAtWork
                    /\ ~LoseMerged => refs[n] = {}
                    /\ ~Relays => \A a \in Along(n) : refs[a] = {n}
    /\ \E along \in SetToSeqs(Along(n)) :
          Take(t, [Idle EXCEPT !.stage = "unlink", !.target = n,
                               !.files = along \o <<n>>, !.ids = Along(n) \cup {n}])

\* The target is named by its survivor.
StartMerge(t, a, b) ==
    /\ a \in live \ bad /\ b \in ById
    /\ a \notin {b, Canonical(b)}
    /\ ~TagRace => ~TagAtWork
    /\ Take(t, [Idle EXCEPT !.stage = "redirect", !.target = a, !.into = Canonical(b)])

\* Faulty variant: the redirect is added to the one the tag has.
Redirect_Adds(t) ==
    /\ job[t].stage = "redirect"
    /\ refs' = [refs EXCEPT ![job[t].target] = @ \cup {job[t].into}]
    /\ job' = [job EXCEPT ![t].stage = "sweep", ![t].todo = InOrder(live \ bad)]
    /\ UNCHANGED <<live, above, bad, jobs, faults, cut, saving, late>>

\* The redirect first; then the files to visit.  A tag that is gone raises.
Redirect(t) ==
    LET a == job[t].target
    IN  /\ job[t].stage = "redirect"
        /\ refs' = IF a \in live THEN [refs EXCEPT ![a] = {job[t].into}] ELSE refs
        /\ job' = [job EXCEPT ![t] =
                IF a \in live THEN [@ EXCEPT !.stage = "sweep", !.todo = InOrder(live \ bad)]
                ELSE Idle]
        /\ cut' = (cut \/ a \notin live)
        /\ UNCHANGED <<live, above, bad, jobs, faults, saving, late>>

Unlink(t) ==
    /\ job[t].files # <<>>
    /\ live' = live \ {Head(job[t].files)}
    /\ bad' = bad \ {Head(job[t].files)}
    /\ job' = [job EXCEPT ![t].files = Tail(@)]
    /\ UNCHANGED <<above, refs, jobs, faults, cut, saving, late>>

\* Faulty variant: an id an ancestor still holds is purged.
SafeToPurge_Shadowed(ids) == IF bad # {} THEN {} ELSE ids

\* The ids whose references may go: those nothing holds any more, and none at
\* all while some file cannot be read.
SafeToPurge(ids) == IF bad # {} THEN {} ELSE ids \ ById

\* The sets pinned to what is gone go with it, then the chats about either, in
\* whatever order.
BeginPurge(t) ==
    /\ job[t].stage = "unlink" /\ job[t].files = <<>>
    /\ LET safe == SafeToPurge(job[t].ids)
           sets == {s \in MutationSet \cap live : Pin[s] \in safe}
           chats == {c \in Chat \cap live : Subject[c] \in safe \cup sets}
       IN  \E first \in SetToSeqs(sets), then \in SetToSeqs(chats) :
             job' = [job EXCEPT ![t] = IF safe = {} THEN Idle
                ELSE [@ EXCEPT !.stage = "sweep", !.ids = safe \cup sets,
                               !.files = first \o then,
                               !.todo = InOrder(live \ (sets \cup chats))]]
    /\ cut' = (cut \/ bad # {})
    /\ UNCHANGED <<live, above, bad, refs, jobs, faults, saving, late>>

\* Faulty variant: only the references to the node itself are taken out.
Swept_TargetOnly(j, rs) ==
    IF j.into = Nil THEN rs \ {j.target}
    ELSE {IF r = j.target THEN j.into ELSE r : r \in rs}

\* What a sweep leaves of the references of a file.
Swept(j, rs) ==
    IF j.into = Nil THEN rs \ j.ids
    ELSE {IF r = j.target THEN j.into ELSE r : r \in rs}

\* The next file the sweep does not leave alone.  The files before it are only
\* read, so they are passed over in the same step.
LeftAlone(j, n) == n \in live \ bad /\ Swept(j, refs[n]) = refs[n]

\* A file that is gone raises, and ends the sweep; one that cannot be parsed
\* is passed over.
Visit(t) ==
    LET k == SelectInSeq(job[t].todo, LAMBDA n : ~LeftAlone(job[t], n))
        n == job[t].todo[k]
    IN  /\ job[t].stage = "sweep" /\ job[t].files = <<>> /\ job[t].at = Nil
        /\ (k # 0 /\ ~Overlap) => \A u \in Thread : job[u].at # n
        /\ job' = [job EXCEPT ![t] =
                IF k = 0 \/ n \notin live THEN Idle
                ELSE [@ EXCEPT !.todo = SubSeq(job[t].todo, k + 1, Len(job[t].todo)),
                               !.at = IF n \in bad THEN Nil ELSE n,
                               !.cleaned = IF n \in bad THEN {} ELSE Swept(job[t], refs[n])]]
        /\ cut' = (cut \/ (k # 0 /\ n \notin live \ bad))
        /\ UNCHANGED <<live, above, bad, refs, jobs, faults, saving, late>>

\* The file is read again for its body, and written with the references the
\* sweep made of the first reading.
Rewrite(t) ==
    LET n == job[t].at
    IN  /\ n # Nil
        /\ refs' = IF n \in live \ bad THEN [refs EXCEPT ![n] = job[t].cleaned] ELSE refs
        /\ job' = [job EXCEPT ![t] = IF n \notin live THEN Idle ELSE [@ EXCEPT !.at = Nil, !.cleaned = {}]]
        /\ cut' = (cut \/ n \notin live \ bad)
        /\ UNCHANGED <<live, above, bad, jobs, faults, saving, late>>

\* A step raises, or the process goes down.
Fail(t) ==
    /\ job[t] # Idle /\ faults < MaxFaults
    /\ job' = [job EXCEPT ![t] = Idle]
    /\ faults' = faults + 1 /\ cut' = TRUE
    /\ UNCHANGED <<live, above, bad, refs, jobs, saving, late>>

Next ==
    \/ \E x \in Scene : Break(x) \/ Repair(x) \/ WriteSave(x) \/ DropSave(x) \/ \E rs \in Edits(x) : CheckSave(x, rs)
    \/ \E t \in Thread :
          \/ \E n \in Tag \cup Entity \cup MutationSet \cup Scene : StartDelete(t, n)
          \/ \E a, b \in Tag : StartMerge(t, a, b)
          \/ Visit(t) \/ Redirect(t) \/ Unlink(t) \/ BeginPurge(t) \/ Rewrite(t) \/ Fail(t)

Spec == Init /\ [][Next]_vars

-----------------------------------------------------------------------------
TypeOK ==
    /\ bad \subseteq live /\ live \subseteq Node /\ above \subseteq Entity
    /\ refs \in [Node -> SUBSET Node]
    /\ \A a \in Tag : Cardinality(refs[a]) <= 1
    /\ \A t \in Thread :
          /\ job[t].ids \cup Range(job[t].todo) \cup job[t].cleaned \subseteq Node
          /\ job[t].at # Nil => job[t].stage = "sweep" /\ job[t].files = <<>>
    /\ cut \in BOOLEAN
    /\ saving \in [Scene -> SUBSET SUBSET Node] /\ late \subseteq Scene \X Node

(***************************************************************************)
(* What a scene shows changes only by what somebody asked for.  Whatever   *)
(* step another request takes, each reference it showed is still shown, by *)
(* the name of its survivor of then, as long as that survivor is there and *)
(* the reference does not go with it; and nothing else is shown: a tag     *)
(* whose survivor is being deleted does not come back under its own name.  *)
(***************************************************************************)
Follows(x) ==
    LET removed == UNION {job[t].ids : t \in Thread}
    IN  /\ \A q \in Healed(refs[x]) :
              (Canonical(q) \in ById' /\ (Canonical(q) \in removed => q \in ById'))
                  => Canonical(q)' \in Reading(x)'
        /\ \A r \in Reading(x)' : \E q \in Healed(refs[x]) :
            Canonical(q)' = r /\ (Canonical(q) \in removed => Canonical(q) = r)

ReadingsFollow ==
    [][job' # job /\ <<live, bad, refs>>' # <<live, bad, refs>> =>
           \A x \in Scene : (x \in live \ bad /\ x \in (live \ bad)') => Follows(x)]_vars

(***************************************************************************)
(* When no delete or merge is under way and all of them ran through, no    *)
(* file refers to a node that is gone, but by a reference that was checked *)
(* before the node went and written after; no set is pinned to one, no     *)
(* chat is about one, and every redirect leads to a tag.                   *)
(***************************************************************************)
NothingLeftBehind ==
    (~cut /\ \A t \in Thread : job[t] = Idle) =>
        /\ \A n \in live \ bad : \A r \in refs[n] : r \in ById \cup bad \/ <<n, r>> \in late
        /\ \A s \in MutationSet \cap live : Pin[s] \in live \cup above
        /\ \A c \in Chat \cap live : Subject[c] \in live \cup above
        /\ \A a \in Tag \cap live : refs[a] # {} => Canonical(a) # a
=============================================================================
