--------------------------- MODULE UndoCaretaker ----------------------------
(***************************************************************************)
(* The undo caretaker and the surface it serves: the log of commands with  *)
(* its cursor, a replay that awaits one closure after another and may fail *)
(* at any of them, gestures that change the document and report it in one  *)
(* turn, and operations that await the server before they report.  Nothing *)
(* serialises the surface: operations, gestures and a replay overlap as    *)
(* they please, but for operations that find a replay under way.           *)
(*                                                                         *)
(* The document is the sequence of the commands in force since it was      *)
(* loaded.  A command is a number, in the order in which they take effect; *)
(* `before` says what it found when it was first performed, which is what  *)
(* its closures are made for.                                              *)
(***************************************************************************)
EXTENDS Naturals, Sequences, FiniteSets, SequencesExt

CONSTANTS
    Transaction,  \* ids under which commands form one step
    Operation,    \* the operations that may be under way at a time
    Cap,          \* commands kept, as far as whole steps allow
    MaxCommands   \* bound: commands performed in all

ASSUME UndoCaretakerAssumption == Cap \in Nat /\ MaxCommands \in Nat

VARIABLES
    log,       \* commands with their step; those up to the cursor can be undone
    cursor,
    stepCount, \* steps begun so far
    openId,    \* the transaction that still takes commands, and its step
    openStep,
    replay,    \* the undo or redo under way, or Idle
    hung,      \* whether the closure it awaits never settles
    op,        \* for each operation, how far it is, or NoOp
    doc,       \* the commands in force in the document
    before,    \* history: for each command so far, the document it found
    astray     \* history: a command is not in the log, or not in its place

caretaker == <<log, cursor, stepCount, openId, openStep>>
vars == <<caretaker, replay, hung, op, doc, before, astray>>

NoTransaction == "none"
Idle == [kind |-> "none"]
NoOp == [phase |-> "none"]
Busy == replay # Idle
Command == 1..MaxCommands

StepOf(i) == log[i].step

\* The run of entries of one step around an index.
StepStart(entries, i) ==
    CHOOSE a \in 1..i : /\ \A j \in a..i : entries[j].step = entries[i].step
                        /\ a = 1 \/ entries[a - 1].step # entries[i].step
StepEnd(entries, i) ==
    CHOOSE b \in i..Len(entries) :
        /\ \A j \in i..b : entries[j].step = entries[i].step
        /\ b = Len(entries) \/ entries[b + 1].step # entries[i].step

\* Faulty variant: single commands are dropped.
Trimmed_Commands(entries) ==
    SubSeq(entries, IF Len(entries) > Cap THEN Len(entries) - Cap + 1 ELSE 1, Len(entries))

\* Whole steps are dropped from the old end, until the rest is within the
\* cap or one step.
Trimmed(entries) ==
    LET ends == {StepEnd(entries, i) : i \in 1..Len(entries)}
        cut(e) == SubSeq(entries, e + 1, Len(entries))
        enough == {e \in {0} \cup ends : /\ e < Len(entries)
                                         /\ Len(cut(e)) <= Cap \/ StepEnd(entries, e + 1) = Len(entries)}
    IN cut(CHOOSE e \in enough : \A f \in enough : e <= f)

\* Faulty variant: what could be redone stays.
Kept_Redo(entries, at) == entries

\* A new command forks history: what could be redone is gone.
Kept(entries, at) == SubSeq(entries, 1, at)

\* Faulty variant: the cursor moves up by one, whatever was dropped.
CursorAt_Next(entries) == cursor + 1

CursorAt(entries) == Len(entries)

Init ==
    /\ log = << >> /\ cursor = 0 /\ stepCount = 0
    /\ openId = NoTransaction /\ openStep = 0
    /\ replay = Idle /\ hung = FALSE
    /\ op = [o \in Operation |-> NoOp]
    /\ doc = << >> /\ before = << >> /\ astray = FALSE

\* record(), which throws while a replay is under way.
Report(c, t) ==
    LET joins == t # NoTransaction /\ t = openId
        step == IF joins THEN openStep ELSE stepCount + 1
        kept == Append(Kept(log, cursor), [command |-> c, step |-> step])
    IN
    IF Busy THEN UNCHANGED caretaker
    ELSE /\ log' = Trimmed(kept)
         /\ cursor' = CursorAt(log')
         /\ stepCount' = IF joins THEN stepCount ELSE step
         /\ openId' = t
         /\ openStep' = step

Perform(c) ==
    /\ doc' = Append(doc, c)
    /\ before' = Append(before, doc)

New == Len(before) + 1

\* The operations that have taken effect and have not been reported.
Unreported == {o \in Operation : op[o].phase = "done"}

----------------------------------------------------------------------------
(* The surface.                                                            *)

\* A gesture changes the document and reports it in the same turn: during a
\* replay in vain, and ahead of whatever took effect before it and still
\* waits for the server's word.
Gesture(t) ==
    /\ New \in Command
    /\ Perform(New)
    /\ Report(New, t)
    /\ astray' = (astray \/ Busy \/ Unreported # {})
    /\ UNCHANGED <<replay, hung, op>>

\* An operation of a surface behind the server first waits for a replay.
StartOperation(o) ==
    /\ New \in Command /\ op[o] = NoOp
    /\ op' = [op EXCEPT ![o] = [phase |-> IF Busy THEN "waiting" ELSE "running"]]
    /\ UNCHANGED <<caretaker, replay, hung, doc, before, astray>>

\* The server has done it, or it failed and nothing is reported.
Operate(o) ==
    /\ op[o].phase = "running"
    /\ \/ /\ New \in Command
          /\ op' = [op EXCEPT ![o] = [phase |-> "done", command |-> New]]
          /\ Perform(New)
          /\ astray' = (astray \/ Busy)
       \/ /\ op' = [op EXCEPT ![o] = NoOp]
          /\ UNCHANGED <<doc, before, astray>>
    /\ UNCHANGED <<caretaker, replay, hung>>

\* The state after it has been read, and it is reported; another that took
\* effect earlier may still be reading.
ReportOperation(o) ==
    /\ o \in Unreported
    /\ Report(op[o].command, NoTransaction)
    /\ op' = [op EXCEPT ![o] = NoOp]
    /\ astray' = (astray \/ \E p \in Unreported : op[p].command < op[o].command)
    /\ UNCHANGED <<replay, hung, doc, before>>

\* The state after it cannot be read, and it is never reported.
ReadFails(o) ==
    /\ o \in Unreported
    /\ op' = [op EXCEPT ![o] = NoOp]
    /\ astray' = TRUE
    /\ UNCHANGED <<caretaker, replay, hung, doc, before>>

\* Another document is loaded: a caretaker of its own, to which an operation
\* on the old one reports if it is still under way.
Reset ==
    /\ ~Busy /\ log # << >>
    /\ log' = << >> /\ cursor' = 0 /\ stepCount' = 0
    /\ openId' = NoTransaction /\ openStep' = 0
    /\ doc' = << >>
    /\ astray' = (\E o \in Operation : op[o] # NoOp)
    /\ UNCHANGED <<replay, hung, op, before>>

----------------------------------------------------------------------------
(* Replays.  A second one is turned away while one is under way.           *)

StartUndo ==
    /\ ~Busy /\ cursor > 0
    /\ replay' = [kind |-> "undo", at |-> cursor, last |-> StepStart(log, cursor)]
    /\ openId' = NoTransaction
    /\ astray' = (astray \/ Unreported # {})
    /\ UNCHANGED <<log, cursor, stepCount, openStep, hung, op, doc, before>>

StartRedo ==
    /\ ~Busy /\ cursor < Len(log)
    /\ replay' = [kind |-> "redo", at |-> cursor + 1, last |-> StepEnd(log, cursor + 1)]
    /\ openId' = NoTransaction
    /\ astray' = (astray \/ Unreported # {})
    /\ UNCHANGED <<log, cursor, stepCount, openStep, hung, op, doc, before>>

\* Faulty variant: a replay that fails leaves whoever waits for it waiting.
Released_OnSuccess(o, failed) == ~failed /\ op[o].phase = "waiting"

\* Whoever waits is let in when the replay ends, however it ends.
Released(o, failed) == op[o].phase = "waiting"

\* The replay is over, with the commands up to c in force.
Exit(c, failed) ==
    /\ cursor' = c
    /\ replay' = Idle
    /\ op' = [o \in Operation |-> IF Released(o, failed) THEN [phase |-> "running"] ELSE op[o]]

\* The document without a command.
Without(document, c) ==
    IF c \in Range(document)
    THEN RemoveAt(document, CHOOSE i \in DOMAIN document : document[i] = c)
    ELSE document

\* One closure has run.
ReplayOne ==
    /\ Busy /\ ~hung
    /\ LET c == log[replay.at].command IN
       \/ /\ replay.kind = "undo"
          /\ doc' = Without(doc, c)
          /\ \/ replay.at = replay.last /\ Exit(replay.at - 1, FALSE)
             \/ /\ replay.at > replay.last
                /\ replay' = [replay EXCEPT !.at = @ - 1]
                /\ UNCHANGED <<cursor, op>>
       \/ /\ replay.kind = "redo"
          /\ doc' = Append(doc, c)
          /\ \/ replay.at = replay.last /\ Exit(replay.at, FALSE)
             \/ /\ replay.at < replay.last
                /\ replay' = [replay EXCEPT !.at = @ + 1]
                /\ UNCHANGED <<cursor, op>>
    /\ UNCHANGED <<log, stepCount, openId, openStep, hung, before, astray>>

\* A closure throws, or declines.
ReplayFails ==
    /\ Busy /\ ~hung
    /\ Exit(IF replay.kind = "undo" THEN replay.at ELSE replay.at - 1, TRUE)
    /\ UNCHANGED <<log, stepCount, openId, openStep, hung, doc, before, astray>>

\* A closure that asks before it deletes is never answered: the author leaves
\* the dialog alone, or another one takes its place.
ReplayHangs ==
    /\ replay.kind = "undo" /\ ~hung
    /\ hung' = TRUE
    /\ UNCHANGED <<caretaker, replay, op, doc, before, astray>>

Next ==
    \/ \E t \in Transaction \cup {NoTransaction} : Gesture(t)
    \/ \E o \in Operation : \/ StartOperation(o) \/ Operate(o)
                            \/ ReportOperation(o) \/ ReadFails(o)
    \/ Reset
    \/ StartUndo \/ StartRedo \/ ReplayOne \/ ReplayFails \/ ReplayHangs

\* A closure that is not left hanging resolves or rejects.
Spec == Init /\ [][Next]_vars /\ WF_vars(ReplayOne \/ ReplayFails)

----------------------------------------------------------------------------
(* Properties.                                                             *)

\* TypeOK: the cursor stands within the log, and a replay within its step.
TypeOK ==
    /\ cursor \in 0..Len(log)
    /\ \A i \in DOMAIN log : log[i].command \in DOMAIN before /\ log[i].step \in 1..stepCount
    /\ Busy => replay.at \in DOMAIN log /\ replay.last \in DOMAIN log
    /\ hung => replay.kind = "undo"
    /\ \A o \in Operation : op[o].phase \in {"none", "waiting", "running", "done"}

\* The number of logged commands that are in force.
InForce == CASE replay.kind = "undo" -> replay.at
             [] replay.kind = "redo" -> replay.at - 1
             [] OTHER -> cursor

Commands(a, b) == [i \in 1..(b - a + 1) |-> log[a + i - 1].command]

\* Faithful: every closure of the log that can come to run next runs on the
\* document it was made for: what is in force ends with the commands before
\* the cursor, and each command after it was first performed on just what
\* redoing the ones in between gives.  (record, undo and redo of the
\* caretaker with failing closures, the fork after an undo, the cap, and
\* operations and gestures side by side.)  It may fail only once a command
\* has gone astray: it took effect or was reported during a replay or was
\* overtaken by one, was reported before an earlier one, or never.
Faithful ==
    ~astray /\ Unreported = {} =>
        /\ \E old \in 0..Len(doc) : doc = SubSeq(doc, 1, old) \o Commands(1, InForce)
        /\ \A i \in 1..InForce :
             before[log[i].command] = SubSeq(doc, 1, Len(doc) - InForce + i - 1)
        /\ \A i \in (InForce + 1)..Len(log) :
             before[log[i].command] = doc \o Commands(InForce + 1, i - 1)

\* OperationGetsIn: an operation that waits for a replay is let in, also
\* when the replay fails (whenIdle), unless a closure is left hanging.
OperationGetsIn ==
    \A o \in Operation : op[o].phase = "waiting" ~> op[o].phase # "waiting" \/ hung

\* The log between two places, as the steps in it.
Steps(a, b) ==
    LET starts == {i \in a..b : i = a \/ StepOf(i) # StepOf(i - 1)}
        count == Cardinality(starts)
        nth(n) == CHOOSE i \in starts : Cardinality({j \in starts : j < i}) = n - 1
    IN [n \in 1..count |-> Commands(nth(n), IF n = count THEN b ELSE nth(n + 1) - 1)]

\* WholeSteps: the caretaker is the history of whole steps.
History == INSTANCE UndoHistory
    WITH done <- Steps(1, cursor), undone <- Steps(cursor + 1, Len(log)),
         open <- openId,
         split <- cursor \in 1..(Len(log) - 1) /\ StepOf(cursor) = StepOf(cursor + 1)

WholeSteps == History!Spec
=============================================================================
