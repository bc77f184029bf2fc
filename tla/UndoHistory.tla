---------------------------- MODULE UndoHistory -----------------------------
(***************************************************************************)
(* What an undo history promises a surface (ADR-0050): steps, each of one  *)
(* command or more, which are undone and redone whole.  Only a command     *)
(* that fails splits a step, and then exactly at the command that failed.  *)
(***************************************************************************)
EXTENDS Naturals, Sequences, FiniteSets, SequencesExt

CONSTANTS
    Command,      \* the commands
    Transaction,  \* the ids under which commands form one step
    Cap           \* commands kept, as far as whole steps allow

VARIABLES
    done,    \* the steps that can be undone, the newest last
    undone,  \* the steps that can be redone, the next one first
    open,    \* the transaction that the newest step still takes commands of
    split    \* the newest step done and the next one undone are one step

hvars == <<done, undone, open, split>>

NoTransaction == "none"
Id == Transaction \cup {NoTransaction}

Init ==
    /\ done = << >> /\ undone = << >>
    /\ open = NoTransaction /\ split = FALSE

\* The commands in some steps.
Size(steps) == Cardinality(UNION {{i} \X DOMAIN steps[i] : i \in DOMAIN steps})

\* The fewest old steps are dropped that bring the history under the cap,
\* and never the newest one.
Trimmed(steps) ==
    CHOOSE kept \in {SubSeq(steps, i, Len(steps)) : i \in 1..Len(steps)} :
        /\ Size(kept) <= Cap \/ Len(kept) = 1
        /\ \A i \in 1..Len(steps) :
             LET other == SubSeq(steps, i, Len(steps)) IN
             Len(other) > Len(kept) => Size(other) > Cap

Record(c, t) ==
    /\ LET joins == t # NoTransaction /\ t = open
           steps == IF joins THEN Front(done) \o << Append(Last(done), c) >>
                    ELSE Append(done, <<c>>)
       IN done' = Trimmed(steps)
    /\ undone' = << >> /\ open' = t /\ split' = FALSE

NonEmpty(step) == IF step = << >> THEN << >> ELSE <<step>>

\* The commands of a step after the first k are undone, the last one first.
Undo(k) ==
    /\ done # << >>
    /\ LET step == Last(done)
           rest == SubSeq(step, k + 1, Len(step))
       IN
       /\ k \in 0..Len(step)
       /\ done' = Front(done) \o NonEmpty(SubSeq(step, 1, k))
       /\ undone' = IF split THEN << rest \o Head(undone) >> \o Tail(undone)
                    ELSE NonEmpty(rest) \o undone
       /\ split' = (k > 0 /\ (split \/ k < Len(step)))
    /\ open' = NoTransaction

\* The first k commands of a step are redone.
Redo(k) ==
    /\ undone # << >>
    /\ LET step == Head(undone)
           first == SubSeq(step, 1, k)
       IN
       /\ k \in 0..Len(step)
       /\ undone' = NonEmpty(SubSeq(step, k + 1, Len(step))) \o Tail(undone)
       /\ done' = IF split THEN Front(done) \o << Last(done) \o first >>
                  ELSE done \o NonEmpty(first)
       /\ split' = (k < Len(step) /\ (split \/ k > 0))
    /\ open' = NoTransaction

\* A replay that begins ends the transaction.
Close == open' = NoTransaction /\ UNCHANGED <<done, undone, split>>

\* Another document.
Clear ==
    /\ done' = << >> /\ undone' = << >>
    /\ open' = NoTransaction /\ split' = FALSE

Next ==
    \/ \E c \in Command, t \in Id : Record(c, t)
    \/ \E k \in 0..Size(done) : Undo(k)
    \/ \E k \in 0..Size(undone) : Redo(k)
    \/ Close \/ Clear

Spec == Init /\ [][Next]_hvars
=============================================================================
