--------------------------- MODULE ActionHistory ---------------------------
(***************************************************************************)
(* The undo history: SActionHistory on top of Qt's QUndoStack.             *)
(*                                                                         *)
(* Every edit of the model is an action.  Applying one returns its         *)
(* inverse, captured from the state before; the stack keeps the pair.      *)
(* A drag submits a stream of edits, which merge into one command, and a   *)
(* recording submits several actions in one macro.                         *)
(*                                                                         *)
(* Submission is synchronous: the queue of SActionHistory is empty between *)
(* two calls, so an action of this module is one call, and what QUndoStack *)
(* does within it is modelled with it.                                     *)
(***************************************************************************)
EXTENDS Integers, Sequences, SequencesExt

CONSTANTS
    Track,       \* tracks, each in its arrangement
    Conductor,   \* those that carry no audio and refuse a volume
    Twin,        \* the track that the path of a track names in the master, of the
                 \* tracks that have one: itself, of a track of the master
    Value,       \* volumes
    Actions,     \* what is submitted, apart from a drag: sequences of verbs, those of
                 \* several verbs composite
    Frame,       \* positions of the locator
    MaxEdits,    \* bound: actions submitted, recordings begun, saves, drags
    MaxDepth     \* bound: nested recording scopes

ASSUME TrackAssumption == Conductor \subseteq Track
ASSUME TwinAssumption == DOMAIN Twin \subseteq Track /\ Twin \in [DOMAIN Twin -> Track]
ASSUME ValueAssumption == Value \subseteq Nat /\ Frame \subseteq Nat
ASSUME BoundAssumption == MaxEdits \in Nat /\ MaxDepth \in Nat

VARIABLES
    model,      \* the project, cell by cell
    file,       \* the project file
    locator,    \* the playhead
    stack,      \* commands; a macro is a sequence of several
    index,      \* commands up to here are done, those above undone
    clean,      \* cleanIndex; -1 if no state of the stack is the saved one
    scopes,     \* recordCommitDepth_
    open,       \* recordMacroOpen_
    drag,       \* the gesture token a control stamps its edits with, 0 without
    tokens,     \* tokens given out so far
    edits,      \* how often the user acted, up to MaxEdits
    rejected,   \* rejectedCount_
    trail,      \* history: the model after each prefix of the stack
    stray       \* history: cells whose writes the stack does not hold

undo == <<stack, index, clean, scopes, open>>
books == <<trail, stray>>
vars == <<model, file, locator, undo, drag, tokens, edits, rejected, books>>

Absent == -1
Modes == [trim |-> 0, read |-> 1]

\* What edits touch: the fader of a track, its automation mode, the points of its
\* volume lane, a project property, the references to media files.
Fader(t) == <<"fader", t, 0>>
Mode(t) == <<"mode", t, 0>>
Point(t, at) == <<"point", t, at>>
Property == <<"property">>
Media == <<"media">>

Undoable == {Fader(t) : t \in Track} \cup {Mode(t) : t \in Track}
                \cup {Point(t, at) : t \in Track, at \in Frame}
Cell == Undoable \cup {Property, Media}

NewProject == [c \in Cell |-> IF c[1] = "point" THEN Absent ELSE 0]

(***************************************************************************)
(* Verbs and actions                                                       *)
(***************************************************************************)
\* set-track-volume, set-automation-mode, set-automation-points over a window of one
\* frame, set-property.
Verb(op, t, at, v) == [op |-> op, track |-> t, at |-> at, value |-> v]
Volume(t, v) == Verb("volume", t, 0, v)
SetMode(t, mode) == Verb("mode", t, 0, mode)
SetPoint(t, at, v) == Verb("point", t, at, v)
SetProperty(v) == Verb("property", 0, 0, v)

\* A volume edit of a track whose lane is read becomes a point under the playhead.  The
\* point is applied without the root of the edit: it goes to the master, and if that has
\* no such track the edit is one of the fader after all.
Redirected(m, t) == m[Mode(t)] = Modes.read /\ t \in DOMAIN Twin

TargetOf(m, verb) ==
    CASE verb.op = "property" -> Property
      [] verb.op = "volume" ->
            IF Redirected(m, verb.track) THEN Point(Twin[verb.track], locator)
                                         ELSE Fader(verb.track)
      [] OTHER -> <<verb.op, verb.track, verb.at>>

\* The inverse is given the root of the action: of a point that went to the master it
\* names the same frame of the track addressed.
InverseOf(verb, cell, old) ==
    CASE cell[1] = "fader" -> <<Volume(verb.track, old)>>
      [] cell[1] = "mode"  -> <<SetMode(verb.track, old)>>
      [] cell[1] = "point" -> <<SetPoint(verb.track, cell[3], old)>>
      [] OTHER -> <<>>

Refused(verb) == verb.op = "volume" /\ verb.track \in Conductor

Edits == [op : {"volume", "mode", "point", "property"}, track : Track \cup {0},
          at : Frame \cup {0}, value : Int]

\* The four above.
Formed(verb) ==
    /\ verb.op # "property" => verb.track \in Track
    /\ verb.op = "mode" => verb.at = 0
    /\ verb.op = "point" => verb.at \in Frame

ASSUME ActionsAssumption ==
    \A verbs \in Actions :
        verbs \in Seq(Edits) /\ \A i \in DOMAIN verbs : Formed(verbs[i])

\* Progress of an action through its verbs; it stops at the first one refused.
Start(m) == [ok |-> TRUE, model |-> m, inverse |-> <<>>, undoable |-> TRUE, wrote |-> <<>>]

Step(run, verb) ==
    IF ~run.ok \/ Refused(verb) THEN [run EXCEPT !.ok = FALSE]
    ELSE LET cell == TargetOf(run.model, verb)
             inv  == InverseOf(verb, cell, run.model[cell])
         IN  [ok |-> TRUE, model |-> [run.model EXCEPT ![cell] = verb.value],
              inverse |-> inv \o run.inverse,
              undoable |-> run.undoable /\ inv # <<>>,
              wrote |-> Append(run.wrote, cell)]

Steps(m, verbs) ==
    LET after[n \in 0 .. Len(verbs)] ==
            IF n = 0 THEN Start(m) ELSE Step(after[n - 1], verbs[n])
    IN  after

Run(m, verbs) == Steps(m, verbs)[Len(verbs)]

\* A composite undoes what it did before a child was refused, the last first.
RolledBackInOrder(run) == Run(run.model, Reverse(run.inverse))

RolledBack(run) == Run(run.model, run.inverse)

\* Rolled back, it has written nothing, unless the inverse took another way.
Apply(m, verbs) ==
    LET run == Run(m, verbs)
        back == RolledBack(run)
    IN  IF run.ok THEN run
        ELSE [run EXCEPT !.model = back.model,
                         !.wrote = IF back.wrote = Reverse(run.wrote) THEN <<>>
                                   ELSE run.wrote \o back.wrote]

(***************************************************************************)
(* The stack                                                               *)
(***************************************************************************)
\* `merged` is history: the gestures whose edits went into the command.
Command(verbs, inverse, gesture) ==
    [forward |-> verbs, inverse |-> inverse, gesture |-> gesture, merged |-> {gesture}]
Entry(macro, cmds) == [macro |-> macro, cmds |-> cmds]

\* mergeWith: only edits of one fader in one gesture merge.
OneFader(cmd, new) ==
    /\ Len(cmd.forward) = 1 /\ Len(new.forward) = 1
    /\ cmd.forward[1].op = "volume" /\ new.forward[1].op = "volume"
    /\ cmd.forward[1].track = new.forward[1].track

MergesAcrossGestures(cmd, new) == OneFader(cmd, new)

Merges(cmd, new) == OneFader(cmd, new) /\ cmd.gesture = new.gesture

MergedTakingInverse(cmd, new) == [new EXCEPT !.merged = @ \cup cmd.merged]

\* The survivor takes the newer value and keeps its own inverse.
Merged(cmd, new) == [cmd EXCEPT !.forward = new.forward, !.merged = @ \cup new.merged]

\* QUndoStack::push and beginMacro drop what was undone, and the saved state with it.
Done == SubSeq(stack, 1, index)
Past == SubSeq(trail, 1, index + 1)
CleanBelow == IF clean > index THEN -1 ELSE clean

\* A command joins the last one of an open macro, or else its macro.
Joined(cmds, new) ==
    IF cmds # <<>> /\ Merges(Last(cmds), new)
    THEN Front(cmds) \o <<Merged(Last(cmds), new)>>
    ELSE Append(cmds, new)

\* Outside a macro it merges into the top, unless that is the saved state.
MergesIntoTop(new) ==
    /\ index > 0 /\ index # CleanBelow
    /\ ~stack[index].macro /\ Merges(stack[index].cmds[1], new)

\* A command whose inverse does not retrace its own writes leaves a trace.
Astray(m, wrote, inverse) ==
    LET undone == Run(m, inverse).wrote
    IN  IF undone = Reverse(wrote) THEN {} ELSE Range(wrote) \cup Range(undone)

(***************************************************************************)
(* Submitting                                                              *)
(***************************************************************************)
\* The first action in a recording scope opens the macro, whatever becomes of it.
Opens == scopes > 0 /\ ~open
MacroStack == IF Opens THEN Append(Done, Entry(TRUE, <<>>)) ELSE stack

PushInMacro(new, run) ==
    LET macro == Last(MacroStack)
        cmds == Joined(macro.cmds, new)
    IN  /\ stack' = Front(MacroStack) \o <<[macro EXCEPT !.cmds = cmds]>>
        /\ clean' = IF Opens THEN CleanBelow ELSE clean
        /\ trail' = Past
        /\ stray' = stray \cup Astray(run.model, run.wrote, Last(cmds).inverse)
        /\ UNCHANGED index

Push(new, run) ==
    IF MergesIntoTop(new)
    THEN LET cmd == Merged(stack[index].cmds[1], new)
         IN  /\ stack' = [Done EXCEPT ![index].cmds = <<cmd>>]
             /\ clean' = CleanBelow
             /\ trail' = [Past EXCEPT ![index + 1] = run.model]
             /\ stray' = stray \cup Astray(run.model, run.wrote, cmd.inverse)
             /\ UNCHANGED index
    ELSE /\ stack' = Append(Done, Entry(FALSE, <<new>>))
         /\ index' = index + 1
         /\ clean' = CleanBelow
         /\ trail' = Append(Past, run.model)
         /\ stray' = stray \cup Astray(run.model, run.wrote, new.inverse)

\* Not undoable or refused: the stack does not hear of it, but a macro is open.
NoPush(run) ==
    /\ stack' = MacroStack
    /\ clean' = IF Opens THEN CleanBelow ELSE clean
    /\ trail' = IF Opens THEN Past ELSE trail
    /\ stray' = stray \cup Range(run.wrote)
    /\ UNCHANGED index

Submit(verbs, gesture) ==
    LET run == Apply(model, verbs)
        new == Command(verbs, run.inverse, gesture)
    IN  /\ edits < MaxEdits
        /\ edits' = edits + 1
        /\ tokens' = IF gesture > tokens THEN gesture ELSE tokens
        /\ model' = run.model
        /\ rejected' = IF run.ok THEN rejected ELSE rejected + 1
        /\ open' = (open \/ Opens)
        /\ IF ~(run.ok /\ run.undoable) THEN NoPush(run)
           ELSE IF scopes > 0 THEN PushInMacro(new, run)
           ELSE Push(new, run)
        /\ UNCHANGED <<file, locator, scopes, drag>>

\* A control without a gesture, a dialog or a script: a token of its own.
SubmitEdit(verbs) == Submit(verbs, tokens + 1)

\* A fader that is being dragged.
SubmitDrag(t, v) == drag # 0 /\ scopes = 0 /\ Submit(<<Volume(t, v)>>, drag)

Press ==
    /\ drag = 0 /\ scopes = 0
    /\ edits < MaxEdits
    /\ edits' = edits + 1
    /\ tokens' = tokens + 1
    /\ drag' = tokens + 1
    /\ UNCHANGED <<model, file, locator, undo, rejected, books>>

Release ==
    /\ drag # 0
    /\ drag' = 0
    /\ UNCHANGED <<model, file, locator, undo, tokens, edits, rejected, books>>

RecordBegin ==
    /\ scopes < MaxDepth /\ edits < MaxEdits
    /\ scopes' = scopes + 1
    /\ edits' = edits + 1
    /\ UNCHANGED <<model, file, locator, stack, index, clean, open, drag, tokens, rejected,
                   books>>

\* The outermost scope ends the macro if one was opened.
RecordEnd ==
    /\ scopes > 0
    /\ scopes' = scopes - 1
    /\ IF scopes = 1 /\ open
       THEN /\ open' = FALSE
            /\ index' = index + 1
            /\ trail' = Append(Past, model)
       ELSE UNCHANGED <<open, index, trail>>
    /\ UNCHANGED <<model, file, locator, stack, clean, drag, tokens, edits, rejected, stray>>

(***************************************************************************)
(* Undo and redo, saving and closing                                       *)
(***************************************************************************)
\* A macro runs its commands one by one, undone from the last.
UndoneIn(m, cmds) ==
    LET after[n \in 0 .. Len(cmds)] ==
            IF n = 0 THEN m ELSE Apply(after[n - 1], Reverse(cmds)[n].inverse).model
    IN  after

Again(acc, cmd) ==
    LET run == Apply(acc.model, cmd.forward)
    IN  [model |-> run.model,
         stray |-> acc.stray \cup Astray(run.model, run.wrote, cmd.inverse)]

RedoneIn(start, cmds) ==
    LET after[n \in 0 .. Len(cmds)] == IF n = 0 THEN start ELSE Again(after[n - 1], cmds[n])
    IN  after

\* The inverse is applied and what it returns dropped; the pair stays as it is.
Undo ==
    /\ scopes = 0 /\ index > 0
    /\ LET cmds == stack[index].cmds IN model' = UndoneIn(model, cmds)[Len(cmds)]
    /\ index' = index - 1
    /\ UNCHANGED <<file, locator, stack, clean, scopes, open, drag, tokens, edits, rejected, books>>

\* The forward action runs again, under the playhead of now.
Redo ==
    /\ scopes = 0 /\ index < Len(stack)
    /\ LET cmds == stack[index + 1].cmds
           done == RedoneIn([model |-> model, stray |-> stray], cmds)[Len(cmds)]
       IN  model' = done.model /\ stray' = done.stray
    /\ index' = index + 1
    /\ UNCHANGED <<file, locator, stack, clean, scopes, open, drag, tokens, edits, rejected, trail>>

Save ==
    /\ scopes = 0 /\ edits < MaxEdits
    /\ edits' = edits + 1
    /\ file' = model
    /\ clean' = index
    /\ UNCHANGED <<model, locator, stack, index, scopes, open, drag, tokens, rejected, books>>

CollectSilently ==
    /\ scopes = 0
    /\ model[Media] = 0
    /\ model' = [model EXCEPT ![Media] = 1]
    /\ UNCHANGED <<file, locator, undo, drag, tokens, edits, rejected, books>>

\* External media are copied into the project, by no action: the stack is told.
Collect ==
    /\ scopes = 0
    /\ model[Media] = 0
    /\ model' = [model EXCEPT ![Media] = 1]
    /\ clean' = -1
    /\ UNCHANGED <<file, locator, stack, index, scopes, open, drag, tokens, edits, rejected, books>>

Close ==
    /\ scopes = 0
    /\ model' = NewProject /\ file' = NewProject
    /\ stack' = <<>> /\ index' = 0 /\ clean' = 0
    /\ trail' = <<NewProject>> /\ stray' = {}
    /\ UNCHANGED <<locator, scopes, open, drag, tokens, edits, rejected>>

Play ==
    /\ locator' \in Frame \ {locator}
    /\ UNCHANGED <<model, file, undo, drag, tokens, edits, rejected, books>>

(***************************************************************************)
(* The specification                                                       *)
(***************************************************************************)
Init ==
    /\ model = NewProject /\ file = NewProject
    /\ locator \in Frame
    /\ stack = <<>> /\ index = 0 /\ clean = 0 /\ scopes = 0 /\ open = FALSE
    /\ drag = 0 /\ tokens = 0 /\ edits = 0 /\ rejected = 0
    /\ trail = <<NewProject>> /\ stray = {}

SubmitAny ==
    \/ \E verbs \in Actions : SubmitEdit(verbs)
    \/ \E t \in Track, v \in Value : SubmitDrag(t, v)

Next ==
    \/ SubmitAny \/ Press \/ Release \/ RecordBegin \/ RecordEnd
    \/ Undo \/ Redo \/ Save \/ Collect \/ Close \/ Play

Spec == Init /\ [][Next]_vars

(***************************************************************************)
(* Properties                                                              *)
(***************************************************************************)
\* Undo and redo move along the states the model went through: after any mixture of
\* edits, undos and redos the model is the one this position of the stack stood for.
\* Excepted are the cells of an action that has no inverse, and of a volume edit that
\* became a point: its inverse covers the point it wrote first, while a drag under a
\* moving playhead, and a redo elsewhere, write others; and of a track outside the master
\* it covers a point of that track, while the one it wrote is the master's.
UndoRestores ==
    scopes = 0 => \A c \in Undoable \ stray : model[c] = trail[index + 1][c]

\* What the window calls saved is in the file: no undo, redo, merge, macro or collect
\* hides a change from the question at closing (but an action without an inverse does,
\* and undoing one that left a point in the master).
CleanMeansSaved ==
    scopes = 0 /\ index = clean => \A c \in Cell \ (stray \cup {Property}) : model[c] = file[c]

\* A drag of one fader is one step of undo and two drags are two; only a save in mid
\* drag divides it.
GestureIsOneStep ==
    [][scopes = 0 /\ scopes' = 0 /\ index > 0 /\ stack' # stack =>
          LET old == stack[index]
              new == Last(stack')
              continues == /\ ~old.macro /\ ~new.macro
                           /\ OneFader(old.cmds[1], new.cmds[1])
                           /\ old.cmds[1].gesture = new.cmds[1].gesture
          IN  /\ index' = index => old.cmds[1].merged = new.cmds[1].merged
              /\ index' > index /\ continues => clean = index]_vars

\* The points under the playhead that a redirected edit may mistake for one another.
Mistaken == {Point(t, locator) : t \in {u \in DOMAIN Twin : Twin[u] # u}}
                \cup {Point(Twin[t], locator) : t \in {u \in DOMAIN Twin : Twin[u] # u}}

\* A refused action changes nothing, also when it was refused in the middle, but for the
\* point that a redirected edit has left in the master.
RefusedChangesNothing ==
    [][rejected' > rejected =>
          /\ \A c \in Cell \ Mistaken : model'[c] = model[c]
          /\ index' = index]_vars

=============================================================================
