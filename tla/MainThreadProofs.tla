-------------------------- MODULE MainThreadProofs --------------------------
(***************************************************************************)
(* Theorems of the two modules of MCMainThread.  Those of                  *)
(* SpeakerLanesProofs are carried over to its instance of SpeakerLanes:    *)
(* that speaker is the module's, whatever the undo history beside it does. *)
(* Of the undo history itself: a gesture is one step of undo; undo and     *)
(* redo go along the states the history has been through; what is called   *)
(* saved is in the file; a refused action changes nothing.                 *)
(***************************************************************************)
EXTENDS MCMainThread, WellFoundedInduction, TLAPS

Lanes == INSTANCE SpeakerLanesProofs

\* The same module twice: each action of the one instance is that of the other.
LEMMA SameStep == Speaker!Next => Lanes!Next
<1>1. Speaker!User => Lanes!User
  BY DEF Speaker!PlayBegin, Lanes!PlayBegin, Speaker!StopBegin, Lanes!StopBegin,
         Speaker!LiveOpens, Lanes!LiveOpens, Speaker!LiveCloses, Lanes!LiveCloses,
         Speaker!Quit, Lanes!Quit, Speaker!Overlapping, Lanes!Overlapping,
         Speaker!MonitorCommitted, Lanes!MonitorCommitted, Speaker!DeviceOpened,
         Lanes!DeviceOpened, Speaker!DeviceClosed, Lanes!DeviceClosed, Speaker!Unlocked,
         Lanes!Unlocked, Speaker!flags, Lanes!flags, Speaker!User, Lanes!User
<1>2. Speaker!MainContinues => Lanes!MainContinues
  BY DEF Speaker!PlayOpens, Lanes!PlayOpens, Speaker!PlayRefused, Lanes!PlayRefused,
         Speaker!PlayRootless, Lanes!PlayRootless,
         Speaker!PlayEngine, Lanes!PlayEngine, Speaker!PlaySpawn, Lanes!PlaySpawn,
         Speaker!StopJoins, Lanes!StopJoins, Speaker!StopEnds, Lanes!StopEnds,
         Speaker!LiveRefused, Lanes!LiveRefused, Speaker!LiveStarts, Lanes!LiveStarts,
         Speaker!LiveStartFails, Lanes!LiveStartFails, Speaker!LiveClosesDevice,
         Lanes!LiveClosesDevice, Speaker!Overlapping, Lanes!Overlapping,
         Speaker!MonitorCommitted, Lanes!MonitorCommitted, Speaker!DeviceOpened,
         Lanes!DeviceOpened, Speaker!DeviceClosed, Lanes!DeviceClosed,
         Speaker!DeviceStarted, Lanes!DeviceStarted, Speaker!Unlocked, Lanes!Unlocked,
         Speaker!flags, Lanes!flags, Speaker!MainContinues, Lanes!MainContinues
<1>3. Speaker!MonitorStep => Lanes!MonitorStep
  BY DEF Speaker!MonitorPrimed, Lanes!MonitorPrimed, Speaker!MonitorYields,
         Lanes!MonitorYields, Speaker!MonitorStarts, Lanes!MonitorStarts,
         Speaker!MonitorStartFails, Lanes!MonitorStartFails, Speaker!MonitorLeaves,
         Lanes!MonitorLeaves, Speaker!MonitorClaims, Lanes!MonitorClaims,
         Speaker!MonitorAsks, Lanes!MonitorAsks, Speaker!MonitorCloses,
         Lanes!MonitorCloses, Speaker!MonitorClears, Lanes!MonitorClears,
         Speaker!MonitorEnds, Lanes!MonitorEnds, Speaker!DeviceStarted,
         Lanes!DeviceStarted, Speaker!Unlocked, Lanes!Unlocked, Speaker!flags,
         Lanes!flags, Speaker!MonitorStep, Lanes!MonitorStep
<1>4. Speaker!ReadaheadPrimes => Lanes!ReadaheadPrimes
  BY DEF Speaker!ReadaheadPrimes, Lanes!ReadaheadPrimes, Speaker!flags, Lanes!flags
<1>5. QED
  BY <1>1, <1>2, <1>3, <1>4 DEF Speaker!Next, Lanes!Next

LEMMA SpeakerRuns == SpecEither => []Lanes!Inv
<1>1. InitEither => Lanes!Inv
  <2>1. InitEither => Lanes!Init
    BY DEF InitEither, Speaker!Init, Lanes!Init
  <2>2. QED
    BY <2>1, Lanes!InitSound
<1>2. Lanes!Inv /\ [NextEither]_<<vars, speaker, focus>> => Lanes!Inv'
  <2>1. NextEither => Lanes!Next \/ UNCHANGED speaker
    BY SameStep DEF NextEither
  <2>2. UNCHANGED speaker => UNCHANGED Lanes!vars
    BY DEF speaker, Lanes!vars, Lanes!flags
  <2>3. [NextEither]_<<vars, speaker, focus>> => [Lanes!Next]_Lanes!vars
    BY <2>1, <2>2
  <2>4. QED
    BY <2>3, Lanes!NextSound
<1>3. QED
  BY <1>1, <1>2, PTL DEF SpecEither

-----------------------------------------------------------------------------
\* A live lane that is on has a running device: no Play, Stop or failed open or start
\* of the frozen lane takes it away, but for the race that `raced` records and for a
\* Play without a project under the lane.
THEOREM LiveKeepsDevice == SpecEither => []LiveHasDevice
<1>1. Lanes!Inv => LiveHasDevice
  BY DEF Lanes!Inv, Lanes!DeviceSound, LiveHasDevice, Speaker!LiveHasDevice,
         Speaker!TakenAway, Lanes!TakenAway
<1>2. QED
  BY <1>1, SpeakerRuns, PTL

\* While the output state says playing there is an engine and a running device, with
\* the same two exceptions: a Play that found no project while the live lane was off
\* leaves flags that make the next Play fail, and never one that claims to play.
THEOREM PlayingIsReal == SpecEither => []PlayingHasDevice
<1>1. Lanes!Inv => PlayingHasDevice
  BY DEF Lanes!Inv, Lanes!MonitorSound, Lanes!DeviceSound, PlayingHasDevice,
         Speaker!PlayingHasDevice, Speaker!TakenAway, Lanes!TakenAway
<1>2. QED
  BY <1>1, SpeakerRuns, PTL

\* The device is closed once neither lane is in use and no call is under way.
THEOREM UnusedIsReleased == SpecEither => []DeviceReleased
<1>1. Lanes!Inv => DeviceReleased
  BY DEF Lanes!Inv, Lanes!DeviceSound, DeviceReleased, Speaker!DeviceReleased
<1>2. QED
  BY <1>1, SpeakerRuns, PTL

\* deviceState_ and deviceRunning_ say what the backend is, outside of the moment in
\* which the monitor closes it; from a Play without a project to the next teardown
\* they say of a closed device that it is open, and nothing opens it meanwhile.
THEOREM FlagsAreTrue == SpecEither => []FlagsExact
<1>1. Lanes!Inv => FlagsExact
  BY DEF Lanes!Inv, Lanes!DeviceSound, FlagsExact, Speaker!FlagsExact
<1>2. QED
  BY <1>1, SpeakerRuns, PTL

-----------------------------------------------------------------------------
(***************************************************************************)
(* The undo history: a gesture is one step                                 *)
(***************************************************************************)
CommandSound(cmd) ==
    /\ DOMAIN cmd = {"forward", "inverse", "gesture", "merged"}
    /\ cmd.merged = {cmd.gesture}

EntrySound(entry) ==
    /\ DOMAIN entry = {"macro", "cmds"} /\ entry.macro \in BOOLEAN
    /\ ~entry.macro => \E cmd : entry.cmds = <<cmd>> /\ CommandSound(cmd)

\* A command outside a macro holds the edits of one gesture; an open macro is the last
\* entry, above the index.
HistoryInv ==
    /\ stack \in Seq({stack[i] : i \in 1 .. Len(stack)})
    /\ index \in 0 .. Len(stack) /\ scopes \in Nat /\ open \in BOOLEAN
    /\ open => scopes > 0 /\ index < Len(stack) /\ stack[Len(stack)].macro
    /\ \A i \in 1 .. Len(stack) : EntrySound(stack[i])

LEMMA OwnRange ==
    ASSUME NEW S, NEW s \in Seq(S)
    PROVE  s \in Seq({s[i] : i \in 1 .. Len(s)})
OBVIOUS

LEMMA CutOff ==
    ASSUME NEW S, NEW s \in Seq(S), NEW n \in 0 .. Len(s)
    PROVE  /\ SubSeq(s, 1, n) \in Seq(S) /\ Len(SubSeq(s, 1, n)) = n
           /\ \A i \in 1 .. n : SubSeq(s, 1, n)[i] = s[i]
OBVIOUS

\* The entries that are done, and one on top of them.
LEMMA OnTop ==
    ASSUME NEW S, NEW s \in Seq(S), NEW n \in 0 .. Len(s), NEW x
    PROVE  LET top == Append(SubSeq(s, 1, n), x)
           IN  /\ top \in Seq(S \cup {x}) /\ Len(top) = n + 1 /\ top[n + 1] = x
               /\ \A i \in 1 .. n : top[i] = s[i]
<1>1. /\ SubSeq(s, 1, n) \in Seq(S) /\ Len(SubSeq(s, 1, n)) = n
      /\ \A i \in 1 .. n : SubSeq(s, 1, n)[i] = s[i]
  BY CutOff
<1>2. SubSeq(s, 1, n) \in Seq(S \cup {x})
  BY <1>1
<1>3. QED
  BY <1>1, <1>2

\* The last entry replaced.
LEMMA LastReplaced ==
    ASSUME NEW S, NEW s \in Seq(S), Len(s) > 0, NEW x
    PROVE  LET top == SubSeq(s, 1, Len(s) - 1) \o <<x>>
           IN  /\ top \in Seq(S \cup {x}) /\ Len(top) = Len(s) /\ top[Len(s)] = x
               /\ \A i \in 1 .. Len(s) - 1 : top[i] = s[i]
<1>1. PICK n \in 0 .. Len(s) : n = Len(s) - 1
  <2>1. Len(s) \in Nat
    OBVIOUS
  <2>2. Len(s) - 1 \in 0 .. Len(s)
    BY <2>1
  <2>3. QED
    BY <2>2
<1>2. /\ SubSeq(s, 1, n) \in Seq(S) /\ Len(SubSeq(s, 1, n)) = n
      /\ \A i \in 1 .. n : SubSeq(s, 1, n)[i] = s[i]
  BY CutOff
<1>3. SubSeq(s, 1, n) \in Seq(S \cup {x}) /\ <<x>> \in Seq(S \cup {x})
  BY <1>2
<1>4. QED
  BY <1>1, <1>2, <1>3

\* What a step must say of the stack it leaves.
LEMMA StackLeft ==
    ASSUME NEW S, stack' \in Seq(S), index' \in 0 .. Len(stack'), scopes' \in Nat, open' \in BOOLEAN,
           open' => scopes' > 0 /\ index' < Len(stack') /\ stack'[Len(stack')].macro,
           \A i \in 1 .. Len(stack') : EntrySound(stack'[i])
    PROVE  HistoryInv'
<1>1. stack' \in Seq({stack'[i] : i \in 1 .. Len(stack')})
  BY OwnRange
<1>2. \A i \in 1 .. Len(stack') : EntrySound(stack[i])'
  BY DEF EntrySound, CommandSound
<1>3. QED
  BY <1>1, <1>2 DEF HistoryInv

LEMMA StackKept ==
    ASSUME HistoryInv, UNCHANGED stack, index' \in 0 .. Len(stack), scopes' \in Nat, open' \in BOOLEAN,
           open' => scopes' > 0 /\ index' < Len(stack) /\ stack[Len(stack)].macro
    PROVE  HistoryInv'
BY StackLeft DEF HistoryInv

\* Opening a macro leaves it on top of what is done.
LEMMA MacroOnTop ==
    ASSUME HistoryInv, scopes > 0
    PROVE  /\ \E S : MacroStack \in Seq(S)
           /\ index < Len(MacroStack) /\ Last(MacroStack).macro
           /\ \A i \in 1 .. Len(MacroStack) : EntrySound(MacroStack[i])
<1>1. PICK S : stack \in Seq(S)
  BY DEF HistoryInv
<1>2. index \in 0 .. Len(stack) /\ \A i \in 1 .. Len(stack) : EntrySound(stack[i])
  BY DEF HistoryInv
<1>3. CASE Opens
  <2>1. PICK macro : macro = Entry(TRUE, <<>>)
    OBVIOUS
  <2>2. EntrySound(macro) /\ macro.macro
    BY <2>1 DEF Entry, EntrySound
  <2>3. PICK top : top = Append(SubSeq(stack, 1, index), macro)
    OBVIOUS
  <2>4. /\ top \in Seq(S \cup {macro}) /\ Len(top) = index + 1 /\ top[index + 1] = macro
        /\ \A i \in 1 .. index : top[i] = stack[i]
    BY <1>1, <1>2, <2>3, OnTop
  <2>5. MacroStack = top
    BY <1>3, <2>1, <2>3 DEF MacroStack, Done
  <2>6. \A i \in 1 .. Len(top) : EntrySound(top[i])
    <3>1. TAKE i \in 1 .. Len(top)
    <3>2. CASE i = index + 1
      BY <2>2, <2>4, <3>2
    <3>3. CASE i # index + 1
      <4>1. i \in 1 .. index /\ i \in 1 .. Len(stack)
        BY <1>2, <2>4, <3>3
      <4>2. QED
        BY <1>2, <2>4, <4>1
    <3>4. QED
      BY <3>2, <3>3
  <2>7. index < Len(top)
    BY <1>2, <2>4
  <2>8. Last(top) = macro
    BY <2>4 DEF Last
  <2>9. QED
    BY <2>2, <2>4, <2>5, <2>6, <2>7, <2>8
<1>4. CASE ~Opens
  <2>1. open /\ MacroStack = stack
    BY <1>4 DEF Opens, MacroStack
  <2>2. index < Len(stack) /\ stack[Len(stack)].macro
    BY <2>1 DEF HistoryInv
  <2>3. QED
    BY <1>1, <1>2, <2>1, <2>2 DEF Last
<1>5. QED
  BY <1>3, <1>4

\* A command joins the top entry, or goes on top of what is done.
LEMMA PushLeaves ==
    ASSUME HistoryInv, scopes = 0, NEW new, NEW run, CommandSound(new), Push(new, run)
    PROVE  /\ \E S : stack' \in Seq(S)
           /\ \A i \in 1 .. Len(stack') : EntrySound(stack'[i])
           /\ Len(stack') = index' /\ index' \in Nat
           /\ \/ /\ index > 0 /\ index' = index /\ ~stack[index].macro
                 /\ ~stack'[index].macro
                 /\ stack'[index].cmds[1].merged = stack[index].cmds[1].merged
              \/ /\ index' = index + 1 /\ stack'[index + 1] = Entry(FALSE, <<new>>)
                 /\ ~MergesIntoTop(new)
<1>1. PICK S : stack \in Seq(S)
  BY DEF HistoryInv
<1>2. index \in 0 .. Len(stack) /\ \A i \in 1 .. Len(stack) : EntrySound(stack[i])
  BY DEF HistoryInv
<1>3. CASE MergesIntoTop(new)
  <2>1. index > 0 /\ ~stack[index].macro /\ Merges(stack[index].cmds[1], new)
    BY <1>3 DEF MergesIntoTop
  <2>2. index \in 1 .. Len(stack)
    BY <1>2, <2>1
  <2>3. PICK cmd : stack[index].cmds = <<cmd>> /\ CommandSound(cmd)
    BY <1>2, <2>1, <2>2 DEF EntrySound
  <2>4. stack[index].cmds[1] = cmd /\ cmd.gesture = new.gesture
    BY <2>1, <2>3 DEF Merges
  <2>5. PICK both : both = Merged(cmd, new)
    OBVIOUS
  <2>6. CommandSound(both) /\ both.merged = cmd.merged
    BY <2>3, <2>4, <2>5 DEF Merged, CommandSound
  <2>7. PICK entry : entry = [stack[index] EXCEPT !.cmds = <<both>>]
    OBVIOUS
  <2>8. DOMAIN stack[index] = {"macro", "cmds"}
    BY <1>2, <2>2 DEF EntrySound
  <2>9. /\ DOMAIN entry = {"macro", "cmds"} /\ entry.macro = stack[index].macro
        /\ entry.cmds = <<both>>
    BY <2>7, <2>8
  <2>10. EntrySound(entry) /\ ~entry.macro /\ entry.cmds[1].merged = stack[index].cmds[1].merged
    <3>1. ~entry.macro /\ entry.macro \in BOOLEAN
      BY <1>2, <2>1, <2>2, <2>9 DEF EntrySound
    <3>2. entry.cmds[1] = both
      BY <2>9
    <3>3. QED
      BY <2>4, <2>6, <2>9, <3>1, <3>2 DEF EntrySound
  <2>11. /\ Done \in Seq(S) /\ Len(Done) = index /\ \A i \in 1 .. index : Done[i] = stack[i]
    BY <1>1, <1>2 DEF Done
  <2>12. index' = index /\ stack' = [Done EXCEPT ![index] = entry]
    BY <1>3, <2>2, <2>4, <2>5, <2>7, <2>11 DEF Push
  <2>13. /\ stack' \in Seq(S \cup {entry}) /\ Len(stack') = index /\ stack'[index] = entry
         /\ \A i \in 1 .. index : i # index => stack'[i] = stack[i]
    <3>1. Done \in Seq(S \cup {entry})
      BY <2>11
    <3>2. QED
      BY <2>2, <2>11, <2>12, <3>1
  <2>14. \A i \in 1 .. Len(stack') : EntrySound(stack'[i])
    BY <1>2, <2>2, <2>10, <2>13
  <2>15. /\ Len(stack') = index' /\ index' \in Nat /\ index > 0 /\ index' = index
         /\ ~stack[index].macro /\ ~stack'[index].macro
         /\ stack'[index].cmds[1].merged = stack[index].cmds[1].merged
    BY <1>2, <2>1, <2>10, <2>12, <2>13
  <2>16. \E T : stack' \in Seq(T)
    BY <2>13
  <2>17. QED
    BY <2>14, <2>15, <2>16
<1>4. CASE ~MergesIntoTop(new)
  <2>1. PICK entry : entry = Entry(FALSE, <<new>>)
    OBVIOUS
  <2>2. EntrySound(entry)
    BY <2>1 DEF Entry, EntrySound
  <2>3. stack' = Append(SubSeq(stack, 1, index), entry) /\ index' = index + 1
    BY <1>4, <2>1 DEF Push, Done
  <2>4. /\ stack' \in Seq(S \cup {entry}) /\ Len(stack') = index + 1 /\ stack'[index + 1] = entry
        /\ \A i \in 1 .. index : stack'[i] = stack[i]
    BY <1>1, <1>2, <2>3, OnTop
  <2>5. \A i \in 1 .. Len(stack') : EntrySound(stack'[i])
    <3>1. TAKE i \in 1 .. Len(stack')
    <3>2. CASE i = index + 1
      BY <2>2, <2>4, <3>2
    <3>3. CASE i # index + 1
      <4>1. i \in 1 .. index /\ i \in 1 .. Len(stack)
        BY <1>2, <2>4, <3>3
      <4>2. QED
        BY <1>2, <2>4, <4>1
    <3>4. QED
      BY <3>2, <3>3
  <2>6. /\ Len(stack') = index' /\ index' \in Nat /\ index' = index + 1
        /\ stack'[index + 1] = Entry(FALSE, <<new>>)
    <3>1. index \in Nat /\ Len(stack) \in Nat
      BY <1>1, <1>2
    <3>2. index' = index + 1 /\ index' \in Nat /\ Len(stack') = index'
      BY <2>3, <2>4, <3>1
    <3>3. stack'[index + 1] = Entry(FALSE, <<new>>)
      BY <2>1, <2>4
    <3>4. QED
      BY <3>2, <3>3
  <2>7. \E T : stack' \in Seq(T)
    BY <2>4
  <2>8. QED
    BY <1>4, <2>5, <2>6, <2>7
<1>5. QED
  BY <1>3, <1>4

LEMMA SubmitKeeps ==
    ASSUME HistoryInv, NEW verbs, NEW gesture, Submit(verbs, gesture)
    PROVE  HistoryInv'
<1>1. PICK run : run = Apply(model, verbs)
  OBVIOUS
<1>2. PICK new : new = Command(verbs, run.inverse, gesture)
  OBVIOUS
<1>3. CommandSound(new)
  BY <1>2 DEF Command, CommandSound
<1>4. /\ scopes' = scopes /\ open' = (open \/ Opens)
      /\ IF ~(run.ok /\ run.undoable) THEN NoPush(run)
         ELSE IF scopes > 0 THEN PushInMacro(new, run) ELSE Push(new, run)
  BY <1>1, <1>2 DEF Submit
<1>5. scopes \in Nat /\ open \in BOOLEAN /\ index \in 0 .. Len(stack)
  BY DEF HistoryInv
<1>6. CASE scopes = 0
  <2>1. ~open /\ ~Opens
    BY <1>6 DEF HistoryInv, Opens
  <2>2. CASE NoPush(run)
    BY <1>4, <1>5, <2>1, <2>2, StackKept DEF NoPush, MacroStack
  <2>3. CASE Push(new, run)
    <3>1. PICK S : stack' \in Seq(S)
      BY <1>3, <1>6, <2>3, PushLeaves
    <3>2. /\ \A i \in 1 .. Len(stack') : EntrySound(stack'[i])
          /\ Len(stack') = index' /\ index' \in Nat
      BY <1>3, <1>6, <2>3, PushLeaves
    <3>3. index' \in 0 .. Len(stack')
      BY <3>2
    <3>4. QED
      BY <1>4, <1>5, <2>1, <3>1, <3>2, <3>3, StackLeft
  <2>4. QED
    BY <1>4, <1>6, <2>2, <2>3
<1>7. CASE scopes > 0
  <2>1. PICK S : MacroStack \in Seq(S)
    BY <1>7, MacroOnTop
  <2>2. /\ index < Len(MacroStack) /\ Last(MacroStack).macro
        /\ \A i \in 1 .. Len(MacroStack) : EntrySound(MacroStack[i])
    BY <1>7, MacroOnTop
  <2>3. open' \in BOOLEAN
    BY <1>4
  <2>4. CASE NoPush(run)
    <3>1. stack' = MacroStack /\ index' = index
      BY <2>4 DEF NoPush
    <3>2. QED
      BY <1>4, <1>5, <1>7, <2>1, <2>2, <2>3, <3>1, StackLeft DEF Last
  <2>5. CASE PushInMacro(new, run)
    <3>1. PICK macro : macro = Last(MacroStack)
      OBVIOUS
    <3>2. PICK cmds : cmds = Joined(macro.cmds, new)
      OBVIOUS
    <3>3. PICK entry : entry = [macro EXCEPT !.cmds = cmds]
      OBVIOUS
    <3>4. stack' = Front(MacroStack) \o <<entry>> /\ index' = index
      BY <2>5, <3>1, <3>2, <3>3 DEF PushInMacro
    <3>5. Len(MacroStack) \in Nat /\ Len(MacroStack) > 0
      BY <1>5, <2>1, <2>2
    <3>6. EntrySound(macro) /\ macro.macro
      BY <2>2, <3>1, <3>5 DEF Last
    <3>7. DOMAIN entry = {"macro", "cmds"} /\ entry.macro = macro.macro
      BY <3>3, <3>6 DEF EntrySound
    <3>8. EntrySound(entry) /\ entry.macro
      BY <3>6, <3>7 DEF EntrySound
    <3>9. /\ stack' \in Seq(S \cup {entry}) /\ Len(stack') = Len(MacroStack)
          /\ stack'[Len(MacroStack)] = entry
          /\ \A i \in 1 .. Len(MacroStack) - 1 : stack'[i] = MacroStack[i]
      BY <2>1, <3>4, <3>5, LastReplaced DEF Front
    <3>10. \A i \in 1 .. Len(stack') : EntrySound(stack'[i])
      BY <2>2, <3>5, <3>8, <3>9
    <3>11. /\ index' \in 0 .. Len(stack') /\ index' < Len(stack') /\ stack'[Len(stack')].macro
      BY <1>5, <2>2, <3>4, <3>5, <3>8, <3>9
    <3>12. QED
      BY <1>4, <1>5, <1>7, <2>3, <3>9, <3>10, <3>11, StackLeft
  <2>6. QED
    BY <1>4, <1>7, <2>4, <2>5
<1>8. QED
  BY <1>5, <1>6, <1>7

LEMMA HistoryKeeps ==
    ASSUME HistoryInv, [Next]_vars
    PROVE  HistoryInv'
<1>1. /\ index \in 0 .. Len(stack) /\ scopes \in Nat /\ open \in BOOLEAN /\ Len(stack) \in Nat
      /\ open => scopes > 0 /\ index < Len(stack) /\ stack[Len(stack)].macro
  BY DEF HistoryInv
<1>2. CASE SubmitAny
  BY <1>2, SubmitKeeps DEF SubmitAny, SubmitEdit, SubmitDrag
<1>3. CASE Press \/ Release \/ Save \/ Collect \/ Play \/ UNCHANGED vars
  BY <1>1, <1>3, StackKept DEF Press, Release, Save, Collect, Play, vars, undo
<1>4. CASE RecordBegin
  BY <1>1, <1>4, StackKept DEF RecordBegin
<1>5. CASE RecordEnd
  <2>1. stack' = stack /\ scopes > 0 /\ scopes' = scopes - 1
    BY <1>5 DEF RecordEnd
  <2>2. CASE scopes = 1 /\ open
    <3>1. open' = FALSE /\ index' = index + 1
      BY <1>5, <2>2 DEF RecordEnd
    <3>2. index' \in 0 .. Len(stack) /\ scopes' \in Nat
      BY <1>1, <2>1, <2>2, <3>1
    <3>3. QED
      BY <2>1, <3>1, <3>2, StackKept
  <2>3. CASE ~(scopes = 1 /\ open)
    <3>1. open' = open /\ index' = index
      BY <1>5, <2>3 DEF RecordEnd
    <3>2. open => scopes' > 0
      BY <1>1, <2>1, <2>3
    <3>3. QED
      BY <1>1, <2>1, <3>1, <3>2, StackKept
  <2>4. QED
    BY <2>2, <2>3
<1>6. CASE Undo
  BY <1>1, <1>6, StackKept DEF Undo
<1>7. CASE Redo
  BY <1>1, <1>7, StackKept DEF Redo
<1>8. CASE Close
  <2>1. stack' = <<>> /\ index' = 0 /\ scopes' = 0 /\ open' = open /\ ~open
    BY <1>1, <1>8 DEF Close
  <2>2. stack' \in Seq({}) /\ Len(stack') = 0
    BY <2>1
  <2>3. /\ index' \in 0 .. Len(stack') /\ scopes' \in Nat /\ open' = FALSE
        /\ \A i \in 1 .. Len(stack') : EntrySound(stack'[i])
    BY <1>1, <2>1, <2>2
  <2>4. QED
    BY <2>2, <2>3, StackLeft
<1>9. QED
  BY <1>2, <1>3, <1>4, <1>5, <1>6, <1>7, <1>8 DEF Next

LEMMA HistoryHolds == Spec => []HistoryInv
<1>1. Init => HistoryInv
  <2> SUFFICES ASSUME Init PROVE HistoryInv
    OBVIOUS
  <2>1. stack \in Seq({}) /\ Len(stack) = 0 /\ index = 0 /\ scopes = 0 /\ open = FALSE
    BY DEF Init
  <2>2. stack \in Seq({stack[i] : i \in 1 .. Len(stack)})
    BY <2>1, OwnRange
  <2>3. index \in 0 .. Len(stack) /\ scopes \in Nat /\ \A i \in 1 .. Len(stack) : EntrySound(stack[i])
    BY <2>1
  <2>4. QED
    BY <2>1, <2>2, <2>3 DEF HistoryInv
<1>2. QED
  BY <1>1, HistoryKeeps, PTL DEF Spec

\* A drag of one fader is one step of undo and two drags are two, whatever was undone,
\* redone, recorded or saved before; only a save in mid drag divides it.
THEOREM DragIsOneStep == Spec => GestureIsOneStep
<1> DEFINE Continues(old, new) ==
               /\ ~old.macro /\ ~new.macro /\ OneFader(old.cmds[1], new.cmds[1])
               /\ old.cmds[1].gesture = new.cmds[1].gesture
           OneStep ==
               scopes = 0 /\ scopes' = 0 /\ index > 0 /\ stack' # stack =>
                   /\ index' = index => stack[index].cmds[1].merged = Last(stack').cmds[1].merged
                   /\ index' > index /\ Continues(stack[index], Last(stack')) => clean = index
<1>1. HistoryInv /\ [Next]_vars => OneStep
  <2> SUFFICES ASSUME HistoryInv, [Next]_vars, scopes = 0, index > 0, stack' # stack
               PROVE  /\ index' = index => stack[index].cmds[1].merged = Last(stack').cmds[1].merged
                      /\ index' > index /\ Continues(stack[index], Last(stack')) => clean = index
    OBVIOUS
  <2> HIDE DEF Continues
  <2>1. index \in Nat /\ ~open /\ ~Opens
    BY DEF HistoryInv, Opens
  <2>2. CASE Close
    <3>1. index' = 0
      BY <2>2 DEF Close
    <3>2. QED
      BY <2>1, <3>1
  <2>3. CASE SubmitAny
    <3>1. PICK verbs, gesture : Submit(verbs, gesture)
      BY <2>3 DEF SubmitAny, SubmitEdit, SubmitDrag
    <3>2. PICK run : run = Apply(model, verbs)
      OBVIOUS
    <3>3. PICK new : new = Command(verbs, run.inverse, gesture)
      OBVIOUS
    <3>4. CommandSound(new)
      BY <3>3 DEF Command, CommandSound
    <3>5. Push(new, run)
      <4>1. IF ~(run.ok /\ run.undoable) THEN NoPush(run)
            ELSE IF scopes > 0 THEN PushInMacro(new, run) ELSE Push(new, run)
        BY <3>1, <3>2, <3>3 DEF Submit
      <4>2. ~NoPush(run)
        BY <2>1 DEF NoPush, MacroStack
      <4>3. QED
        BY <4>1, <4>2
    <3>6. /\ Len(stack') = index'
          /\ \/ /\ index' = index /\ stack'[index].cmds[1].merged = stack[index].cmds[1].merged
             \/ /\ index' = index + 1 /\ stack'[index + 1] = Entry(FALSE, <<new>>)
                /\ ~MergesIntoTop(new)
      BY <3>4, <3>5, PushLeaves
    <3>7. CASE index' = index
      <4>1. Last(stack') = stack'[index]
        BY <3>6, <3>7 DEF Last
      <4>2. ~(index' > index) /\ index' # index + 1
        BY <2>1, <3>7
      <4>3. stack'[index].cmds[1].merged = stack[index].cmds[1].merged
        BY <3>6, <4>2, Zenon
      <4>4. QED
        BY <4>1, <4>2, <4>3
    <3>8. CASE index' # index
      <4>1. /\ index' = index + 1 /\ stack'[index + 1] = Entry(FALSE, <<new>>)
            /\ ~MergesIntoTop(new)
        BY <3>6, <3>8
      <4>2. Last(stack').cmds = <<new>>
        BY <3>6, <4>1 DEF Last, Entry
      <4>3. Last(stack').cmds[1] = new
        BY <4>2
      <4>4. Continues(stack[index], Last(stack')) =>
                ~stack[index].macro /\ Merges(stack[index].cmds[1], new)
        BY <4>3 DEF Continues, Merges
      <4>5. Continues(stack[index], Last(stack')) => index = CleanBelow
        BY <4>1, <4>4 DEF MergesIntoTop
      <4>6. index = CleanBelow => clean = index
        BY <2>1 DEF CleanBelow
      <4>7. QED
        BY <3>8, <4>5, <4>6
    <3>9. QED
      BY <3>7, <3>8
  <2>4. CASE ~Close /\ ~SubmitAny
    <3>1. stack' = stack
      BY <2>4 DEF Next, Press, Release, RecordBegin, RecordEnd, Undo, Redo, Save, Collect, Play,
                  vars, undo
    <3>2. QED
      BY <3>1
  <2>5. QED
    BY <2>2, <2>3, <2>4
<1>2. [][Next]_vars /\ []HistoryInv => [][OneStep]_vars
  BY <1>1, PTL
<1>3. [OneStep]_vars <=>
          [scopes = 0 /\ scopes' = 0 /\ index > 0 /\ stack' # stack =>
              LET old == stack[index]
                  new == Last(stack')
                  continues == /\ ~old.macro /\ ~new.macro
                               /\ OneFader(old.cmds[1], new.cmds[1])
                               /\ old.cmds[1].gesture = new.cmds[1].gesture
              IN  /\ index' = index => old.cmds[1].merged = new.cmds[1].merged
                  /\ index' > index /\ continues => clean = index]_vars
  OBVIOUS
<1>4. QED
  BY <1>2, <1>3, HistoryHolds, PTL DEF Spec, GestureIsOneStep

-----------------------------------------------------------------------------
(***************************************************************************)
(* Induction up to a number, and sequences defined by it                   *)
(***************************************************************************)
LEMMA IsSeq ==
    ASSUME NEW S, NEW s \in Seq(S)
    PROVE  DOMAIN s = 1 .. Len(s) /\ Len(s) \in Nat /\ \A i \in 1 .. Len(s) : s[i] \in S
OBVIOUS

LEMMA LeastOf ==
    ASSUME NEW S, S \subseteq Nat, S # {}
    PROVE  \E x \in S : \A y \in S : x <= y
<1>1. IsWellFoundedOn(OpToRel(<, Nat), Nat)
  BY NatLessThanWellFounded
<1>2. \E x \in S : \A y \in S : ~ (<<y, x>> \in OpToRel(<, Nat))
  BY <1>1, WFMin
<1>3. PICK x \in S : \A y \in S : ~ (<<y, x>> \in OpToRel(<, Nat))
  BY <1>2
<1>4. ASSUME NEW y \in S PROVE x <= y
  <2>1. x \in Nat /\ y \in Nat
    BY <1>3, <1>4
  <2>2. ~ (y < x)
    BY <1>3, <1>4, <2>1 DEF OpToRel
  <2>3. QED
    BY <2>1, <2>2
<1>5. QED
  BY <1>3, <1>4

LEMMA UpTo ==
    ASSUME NEW n \in Nat, NEW S, 0 \in S, \A k \in 1 .. n : k - 1 \in S => k \in S
    PROVE  \A k \in 0 .. n : k \in S
<1>1. SUFFICES ASSUME NEW k \in 0 .. n, k \notin S PROVE FALSE
  OBVIOUS
<1>2. PICK T : T = {j \in 0 .. n : j \notin S}
  OBVIOUS
<1>3. T \subseteq Nat /\ T # {}
  BY <1>1, <1>2
<1>4. PICK x \in T : \A y \in T : x <= y
  BY <1>3, LeastOf
<1>5. x \in 0 .. n /\ x \notin S /\ x # 0
  BY <1>2, <1>4
<1>6. x \in 1 .. n /\ x - 1 \in 0 .. n /\ ~(x <= x - 1)
  BY <1>5
<1>7. x - 1 \notin T
  BY <1>4, <1>6
<1>8. x - 1 \in S
  BY <1>2, <1>6, <1>7
<1>9. QED
  BY <1>5, <1>6, <1>8

\* A function of 0 .. n given by its first value and by each value from the one before.
Follows(g, n, X, base, F) ==
    g \in [0 .. n -> X] /\ g[0] = base /\ \A i \in 1 .. n : g[i] = F[i][g[i - 1]]

LEMMA Recursion ==
    ASSUME NEW n \in Nat, NEW X, NEW base \in X, NEW F \in [1 .. n -> [X -> X]]
    PROVE  \E g : Follows(g, n, X, base, F)
<1>1. PICK S : S = {k \in 0 .. n : \E g \in [0 .. k -> X] :
                        g[0] = base /\ \A i \in 1 .. k : g[i] = F[i][g[i - 1]]}
  OBVIOUS
<1>2. 0 \in S
  <2>1. PICK g : g = [i \in 0 .. 0 |-> base]
    OBVIOUS
  <2>2. g \in [0 .. 0 -> X] /\ g[0] = base /\ \A i \in 1 .. 0 : g[i] = F[i][g[i - 1]]
    BY <2>1
  <2>3. 0 \in 0 .. n
    OBVIOUS
  <2>4. QED
    BY <1>1, <2>2, <2>3
<1>3. ASSUME NEW k \in 1 .. n, k - 1 \in S PROVE k \in S
  <2>1. PICK g \in [0 .. k - 1 -> X] :
            g[0] = base /\ \A i \in 1 .. k - 1 : g[i] = F[i][g[i - 1]]
    BY <1>1, <1>3
  <2>2. PICK h : h = [i \in 0 .. k |-> IF i = k THEN F[k][g[k - 1]] ELSE g[i]]
    OBVIOUS
  <2>3. k \in Nat /\ k - 1 \in 0 .. k - 1 /\ k # 0 /\ 0 \in 0 .. k /\ k \in 0 .. n
    BY <1>3
  <2>4. g[k - 1] \in X /\ F[k][g[k - 1]] \in X
    BY <1>3, <2>1, <2>3
  <2>5. h \in [0 .. k -> X]
    <3>1. \A i \in 0 .. k : i # k => i \in 0 .. k - 1
      BY <1>3
    <3>2. QED
      BY <2>1, <2>2, <2>4, <3>1
  <2>6. h[0] = base
    BY <2>1, <2>2, <2>3
  <2>7. ASSUME NEW i \in 1 .. k PROVE h[i] = F[i][h[i - 1]]
    <3>1. i - 1 \in 0 .. k /\ i - 1 # k /\ i \in 0 .. k
      BY <1>3, <2>7
    <3>2. h[i - 1] = g[i - 1]
      BY <2>2, <3>1
    <3>3. CASE i = k
      BY <2>2, <3>1, <3>2, <3>3
    <3>4. CASE i # k
      <4>1. i \in 1 .. k - 1
        BY <1>3, <2>7, <3>4
      <4>2. QED
        BY <2>1, <2>2, <3>1, <3>2, <3>4, <4>1
    <3>5. QED
      BY <3>3, <3>4
  <2>8. QED
    BY <1>1, <2>3, <2>5, <2>6, <2>7
<1>4. \A k \in 0 .. n : k \in S
  BY <1>2, <1>3, UpTo
<1>5. n \in S
  BY <1>4
<1>6. QED
  BY <1>1, <1>5 DEF Follows

-----------------------------------------------------------------------------
(***************************************************************************)
(* Verbs and what they write                                               *)
(***************************************************************************)
Models == [Cell -> Int]
Verbs == {verb \in Edits : Formed(verb)}
Runs == [ok : BOOLEAN, model : Models, inverse : Seq(Verbs), undoable : BOOLEAN, wrote : Seq(Cell)]

ModeCells == {Mode(t) : t \in Track}
SameModes(m1, m2) == \A c \in ModeCells : m1[c] = m2[c]

\* The cell that the inverse of a write names: of a point the same frame of the track
\* addressed, which a redirected edit need not have written.
NamedBy(verb, cell) == IF cell[1] = "point" THEN Point(verb.track, cell[3]) ELSE cell

\* A verb writes this cell wherever the modes are as in m.
Reaches(verb, cell, m) ==
    \/ /\ verb.op = "volume" /\ verb.track \in Track \ Conductor /\ ~Redirected(m, verb.track)
       /\ cell = Fader(verb.track)
    \/ verb.op = "mode" /\ verb.track \in Track /\ verb.at = 0 /\ cell = Mode(verb.track)
    \/ verb.op = "point" /\ verb.track \in Track /\ cell = Point(verb.track, verb.at)

\* Where a verb may lead, and from which of the cells its inverse may go astray.
Target(m, verb, cell) ==
    \/ verb.op = "property" /\ cell = Property
    \/ verb.op = "mode" /\ verb.track \in Track /\ cell = Mode(verb.track)
    \/ /\ verb.op = "point" /\ verb.track \in Track /\ verb.at \in Frame
       /\ cell = Point(verb.track, verb.at)
    \/ /\ verb.op = "volume" /\ verb.track \in Track /\ verb.track \in DOMAIN Twin
       /\ Twin[verb.track] \in Track /\ cell = Point(Twin[verb.track], locator)
    \/ /\ verb.op = "volume" /\ verb.track \in Track /\ ~Redirected(m, verb.track)
       /\ cell = Fader(verb.track)

LEMMA CellsApart ==
    /\ \A t \in Track : Fader(t) \notin ModeCells /\ Fader(t)[1] = "fader" /\ Fader(t)[2] = t
    /\ \A t \in Track : Mode(t)[1] = "mode" /\ Mode(t)[2] = t
    /\ \A t \in Track, at \in Frame : /\ Point(t, at) \notin ModeCells /\ Point(t, at)[1] = "point"
                                      /\ Point(t, at)[2] = t /\ Point(t, at)[3] = at
    /\ Property \notin Undoable /\ Media \notin Undoable /\ Property # Media
    /\ ModeCells \subseteq Undoable /\ Undoable \subseteq Cell /\ Property \in Cell /\ Media \in Cell
<1>1. \A t \in Track : Fader(t)[1] = "fader" /\ Fader(t)[2] = t
  BY DEF Fader
<1>2. \A t \in Track : Mode(t)[1] = "mode" /\ Mode(t)[2] = t
  BY DEF Mode
<1>3. \A t \in Track, at \in Frame : /\ Point(t, at)[1] = "point"
                                     /\ Point(t, at)[2] = t /\ Point(t, at)[3] = at
  BY DEF Point
<1>4. Property[1] = "property" /\ Media[1] = "media"
  BY DEF Property, Media
<1>5. \A c \in Undoable : c[1] \in {"fader", "mode", "point"}
  BY <1>1, <1>2, <1>3 DEF Undoable
<1>6. \A c \in ModeCells : c[1] = "mode"
  BY <1>2 DEF ModeCells
<1>7. Property \notin Undoable /\ Media \notin Undoable /\ Property # Media
  BY <1>4, <1>5
<1>8. ModeCells \subseteq Undoable /\ Undoable \subseteq Cell /\ Property \in Cell /\ Media \in Cell
  BY DEF ModeCells, Undoable, Cell
<1>9. /\ \A t \in Track : Fader(t) \notin ModeCells
      /\ \A t \in Track, at \in Frame : Point(t, at) \notin ModeCells
  BY <1>1, <1>3, <1>6
<1>10. QED
  BY <1>1, <1>2, <1>3, <1>7, <1>8, <1>9

LEMMA VerbFields ==
    ASSUME NEW verb \in Verbs
    PROVE  /\ verb.op \in {"volume", "mode", "point", "property"} /\ verb.value \in Int
           /\ verb.op # "property" => verb.track \in Track
           /\ verb.op = "mode" => verb.at = 0
           /\ verb.op = "point" => verb.at \in Frame
BY DEF Verbs, Edits, Formed

LEMMA TargetIs ==
    ASSUME NEW m \in Models, NEW verb \in Verbs
    PROVE  Target(m, verb, TargetOf(m, verb))
<1>1. CASE verb.op = "property"
  BY <1>1 DEF TargetOf, Target
<1>2. CASE verb.op = "mode"
  BY <1>2, VerbFields DEF TargetOf, Target, Mode
<1>3. CASE verb.op = "point"
  BY <1>3, VerbFields DEF TargetOf, Target, Point
<1>4. CASE verb.op = "volume"
  <2>1. verb.track \in Track
    BY <1>4, VerbFields
  <2>2. CASE Redirected(m, verb.track)
    <3>1. TargetOf(m, verb) = Point(Twin[verb.track], locator)
      BY <1>4, <2>2 DEF TargetOf
    <3>2. verb.track \in DOMAIN Twin /\ Twin[verb.track] \in Track
      BY <2>2, TwinAssumption DEF Redirected
    <3>3. QED
      BY <1>4, <2>1, <3>1, <3>2 DEF Target
  <2>3. CASE ~Redirected(m, verb.track)
    <3>1. TargetOf(m, verb) = Fader(verb.track)
      BY <1>4, <2>3 DEF TargetOf
    <3>2. QED
      BY <1>4, <2>1, <2>3, <3>1 DEF Target
  <2>4. QED
    BY <2>2, <2>3
<1>5. QED
  BY <1>1, <1>2, <1>3, <1>4, VerbFields

LEMMA Targets ==
    ASSUME NEW m \in Models, NEW verb \in Verbs, locator \in Frame
    PROVE  /\ TargetOf(m, verb) \in Cell /\ TargetOf(m, verb) # Media
           /\ verb.op # "property" => TargetOf(m, verb) \in Undoable
           /\ verb.op = "mode" => TargetOf(m, verb) = Mode(verb.track)
           /\ verb.op # "mode" => TargetOf(m, verb) \notin ModeCells
<1>1. PICK cell : cell = TargetOf(m, verb) /\ Target(m, verb, cell)
  BY TargetIs
<1>2. /\ \A t \in Track : Fader(t) \in Undoable /\ Mode(t) \in Undoable /\ Mode(t) \in ModeCells
      /\ \A t \in Track, at \in Frame : Point(t, at) \in Undoable
  BY DEF Undoable, ModeCells
<1>3. CASE verb.op = "property"
  BY <1>1, <1>3, CellsApart DEF Target
<1>4. CASE verb.op = "mode"
  BY <1>1, <1>2, <1>4, CellsApart DEF Target
<1>5. CASE verb.op = "point"
  BY <1>1, <1>2, <1>5, CellsApart DEF Target
<1>6. CASE verb.op = "volume"
  BY <1>1, <1>2, <1>6, CellsApart DEF Target
<1>7. QED
  BY <1>1, <1>3, <1>4, <1>5, <1>6, VerbFields

\* What the inverse of a write is: nothing for a property, and else one verb that puts the
\* old value into the cell it names.  Only two points can be taken for one another.
Backs(verb, cell, old, back) ==
    /\ back \in Verbs /\ InverseOf(verb, cell, old) = <<back>> /\ back.value = old
    /\ NamedBy(verb, cell) \in Undoable
    /\ NamedBy(verb, cell) = cell \/ (cell \notin ModeCells /\ NamedBy(verb, cell) \notin ModeCells)

LEMMA Inverses ==
    ASSUME NEW m \in Models, NEW verb \in Verbs, NEW cell \in Cell, Target(m, verb, cell),
           NEW old \in Int, locator \in Frame
    PROVE  /\ InverseOf(verb, cell, old) \in Seq(Verbs)
           /\ cell \notin Undoable => InverseOf(verb, cell, old) = <<>>
           /\ cell \in Undoable => \E back : Backs(verb, cell, old, back)
<1>1. ASSUME NEW t \in Track, verb.track = t, cell = Fader(t)
      PROVE  Backs(verb, cell, old, Volume(t, old))
  <2>1. InverseOf(verb, cell, old) = <<Volume(t, old)>> /\ NamedBy(verb, cell) = cell
    BY <1>1, CellsApart DEF InverseOf, NamedBy
  <2>2. Volume(t, old) \in Verbs /\ Volume(t, old).value = old
    BY DEF Volume, Verb, Verbs, Edits, Formed
  <2>3. QED
    BY <1>1, <2>1, <2>2 DEF Backs, Undoable
<1>2. ASSUME NEW t \in Track, verb.track = t, cell = Mode(t)
      PROVE  Backs(verb, cell, old, SetMode(t, old))
  <2>1. InverseOf(verb, cell, old) = <<SetMode(t, old)>> /\ NamedBy(verb, cell) = cell
    BY <1>2, CellsApart DEF InverseOf, NamedBy
  <2>2. SetMode(t, old) \in Verbs /\ SetMode(t, old).value = old
    BY DEF SetMode, Verb, Verbs, Edits, Formed
  <2>3. QED
    BY <1>2, <2>1, <2>2 DEF Backs, Undoable
<1>3. ASSUME NEW t \in Track, verb.track = t, NEW u \in Track, NEW at \in Frame, cell = Point(u, at)
      PROVE  Backs(verb, cell, old, SetPoint(t, at, old))
  <2>1. cell[1] = "point" /\ cell[3] = at /\ cell \notin ModeCells
    BY <1>3, CellsApart
  <2>2. InverseOf(verb, cell, old) = <<SetPoint(t, at, old)>> /\ NamedBy(verb, cell) = Point(t, at)
    BY <1>3, <2>1 DEF InverseOf, NamedBy
  <2>3. SetPoint(t, at, old) \in Verbs /\ SetPoint(t, at, old).value = old
    BY DEF SetPoint, Verb, Verbs, Edits, Formed
  <2>4. Point(t, at) \in Undoable /\ Point(t, at) \notin ModeCells
    BY CellsApart DEF Undoable
  <2>5. QED
    BY <2>1, <2>2, <2>3, <2>4 DEF Backs
<1>4. CASE verb.op = "property"
  <2>1. cell = Property
    BY <1>4 DEF Target
  <2>2. cell[1] \notin {"fader", "mode", "point"} /\ cell \notin Undoable
    BY <2>1, CellsApart DEF Property
  <2>3. InverseOf(verb, cell, old) = <<>>
    BY <2>2 DEF InverseOf
  <2>4. QED
    BY <2>2, <2>3
<1>5. CASE verb.op # "property"
  <2>1. \E back : Backs(verb, cell, old, back)
    BY <1>1, <1>2, <1>3, <1>5 DEF Target
  <2>2. PICK back : Backs(verb, cell, old, back)
    BY <2>1
  <2>3. back \in Verbs /\ InverseOf(verb, cell, old) = <<back>>
    BY <2>2 DEF Backs
  <2>4. cell \in Undoable
    BY <1>5, CellsApart DEF Target, Undoable
  <2>5. InverseOf(verb, cell, old) \in Seq(Verbs)
    BY <2>3
  <2>6. QED
    BY <2>1, <2>4, <2>5
<1>6. QED
  BY <1>4, <1>5

\* The inverse of a write reaches the cell it names, where the modes are as the write
\* left them.
LEMMA InverseReaches ==
    ASSUME NEW m \in Models, NEW verb \in Verbs, ~Refused(verb), NEW cell \in Cell,
           Target(m, verb, cell), NEW old \in Int, locator \in Frame,
           NEW back, Backs(verb, cell, old, back), NEW after \in Models,
           \A c \in Cell : c # cell => after[c] = m[c]
    PROVE  Reaches(back, NamedBy(verb, cell), after)
<1>1. InverseOf(verb, cell, old) = <<back>>
  BY DEF Backs
<1>2. CASE verb.op = "property"
  <2>1. cell[1] \notin {"fader", "mode", "point"}
    BY <1>2, CellsApart DEF Target, Property
  <2>2. InverseOf(verb, cell, old) = <<>>
    BY <2>1 DEF InverseOf
  <2>3. QED
    BY <1>1, <2>2
<1>3. ASSUME NEW t \in Track, verb.op = "volume", verb.track = t, cell = Fader(t), ~Redirected(m, t)
      PROVE  Reaches(back, NamedBy(verb, cell), after)
  <2>1. InverseOf(verb, cell, old) = <<Volume(t, old)>> /\ NamedBy(verb, cell) = cell
    BY <1>3, CellsApart DEF InverseOf, NamedBy
  <2>2. back = Volume(t, old)
    BY <1>1, <2>1
  <2>3. Mode(t) \in Cell /\ Mode(t) # cell
    BY <1>3, CellsApart DEF ModeCells
  <2>4. ~Redirected(after, t) /\ t \notin Conductor
    BY <1>3, <2>3 DEF Redirected, Refused
  <2>5. QED
    BY <1>3, <2>1, <2>2, <2>4 DEF Volume, Verb, Reaches
<1>4. ASSUME NEW t \in Track, verb.track = t, cell = Mode(t)
      PROVE  Reaches(back, NamedBy(verb, cell), after)
  <2>1. InverseOf(verb, cell, old) = <<SetMode(t, old)>> /\ NamedBy(verb, cell) = cell
    BY <1>4, CellsApart DEF InverseOf, NamedBy
  <2>2. back = SetMode(t, old)
    BY <1>1, <2>1
  <2>3. QED
    BY <1>4, <2>1, <2>2 DEF SetMode, Verb, Reaches
<1>5. ASSUME NEW t \in Track, verb.track = t, NEW u \in Track, NEW at \in Frame, cell = Point(u, at)
      PROVE  Reaches(back, NamedBy(verb, cell), after)
  <2>1. cell[1] = "point" /\ cell[3] = at
    BY <1>5, CellsApart
  <2>2. InverseOf(verb, cell, old) = <<SetPoint(t, at, old)>> /\ NamedBy(verb, cell) = Point(t, at)
    BY <1>5, <2>1 DEF InverseOf, NamedBy
  <2>3. back = SetPoint(t, at, old)
    BY <1>1, <2>2
  <2>4. QED
    BY <2>2, <2>3 DEF SetPoint, Verb, Reaches
<1>6. QED
  BY <1>2, <1>3, <1>4, <1>5 DEF Target

LEMMA WritesBack ==
    ASSUME NEW m, NEW after, SameModes(m, after), NEW verb, NEW cell, Reaches(verb, cell, after)
    PROVE  TargetOf(m, verb) = cell /\ ~Refused(verb)
<1>1. CASE verb.op = "volume"
  <2>1. verb.track \in Track /\ ~Redirected(after, verb.track) /\ cell = Fader(verb.track)
        /\ verb.track \notin Conductor
    BY <1>1 DEF Reaches
  <2>2. Mode(verb.track) \in ModeCells
    BY <2>1 DEF ModeCells
  <2>3. ~Redirected(m, verb.track)
    BY <2>1, <2>2 DEF Redirected, SameModes
  <2>4. QED
    BY <1>1, <2>1, <2>3 DEF TargetOf, Refused
<1>2. CASE verb.op = "mode"
  <2>1. cell = Mode(verb.track) /\ verb.at = 0 /\ verb.op # "volume"
    BY <1>2 DEF Reaches
  <2>2. QED
    BY <1>2, <2>1 DEF TargetOf, Refused, Mode
<1>3. CASE verb.op = "point"
  <2>1. cell = Point(verb.track, verb.at) /\ verb.op # "volume"
    BY <1>3 DEF Reaches
  <2>2. QED
    BY <1>3, <2>1 DEF TargetOf, Refused, Point
<1>4. QED
  BY <1>1, <1>2, <1>3 DEF Reaches

-----------------------------------------------------------------------------
(***************************************************************************)
(* A run, verb by verb                                                     *)
(***************************************************************************)
\* The two things a verb can do to a run.
Stops(run, next) ==
    /\ ~next.ok /\ next.model = run.model /\ next.inverse = run.inverse
    /\ next.undoable = run.undoable /\ next.wrote = run.wrote

Writes(run, next, verb, cell) ==
    /\ run.ok /\ next.ok /\ next.model = [run.model EXCEPT ![cell] = verb.value]
    /\ next.inverse = InverseOf(verb, cell, run.model[cell]) \o run.inverse
    /\ next.undoable = (run.undoable /\ InverseOf(verb, cell, run.model[cell]) # <<>>)
    /\ next.wrote = Append(run.wrote, cell)

LEMMA StepDoes ==
    ASSUME NEW run \in Runs, NEW verb \in Verbs, locator \in Frame
    PROVE  /\ Step(run, verb) \in Runs
           /\ ~run.ok \/ Refused(verb) => Stops(run, Step(run, verb))
           /\ run.ok /\ ~Refused(verb) =>
                  Writes(run, Step(run, verb), verb, TargetOf(run.model, verb))
<1>1. /\ run.ok \in BOOLEAN /\ run.model \in Models /\ run.inverse \in Seq(Verbs)
      /\ run.undoable \in BOOLEAN /\ run.wrote \in Seq(Cell)
  BY DEF Runs
<1>2. CASE ~run.ok \/ Refused(verb)
  <2>1. Step(run, verb) = [run EXCEPT !.ok = FALSE]
    BY <1>2 DEF Step
  <2>2. Step(run, verb) \in Runs
    BY <2>1 DEF Runs
  <2>3. Stops(run, Step(run, verb))
    BY <2>1 DEF Runs, Stops
  <2>4. QED
    BY <1>2, <2>2, <2>3
<1>3. CASE run.ok /\ ~Refused(verb)
  <2>1. PICK cell : cell = TargetOf(run.model, verb)
    OBVIOUS
  <2>2. PICK inv : inv = InverseOf(verb, cell, run.model[cell])
    OBVIOUS
  <2>3. Step(run, verb) = [ok |-> TRUE, model |-> [run.model EXCEPT ![cell] = verb.value],
                           inverse |-> inv \o run.inverse,
                           undoable |-> run.undoable /\ inv # <<>>,
                           wrote |-> Append(run.wrote, cell)]
    BY <1>3, <2>1, <2>2 DEF Step
  <2>4. cell \in Cell /\ verb.value \in Int /\ run.model[cell] \in Int
    BY <1>1, <2>1, Targets, VerbFields DEF Models
  <2>5. inv \in Seq(Verbs)
    <3>1. Target(run.model, verb, cell)
      BY <1>1, <2>1, TargetIs
    <3>2. QED
      BY <1>1, <2>2, <2>4, <3>1, Inverses
  <2>6. [run.model EXCEPT ![cell] = verb.value] \in Models
    BY <1>1, <2>4 DEF Models
  <2>7. inv \o run.inverse \in Seq(Verbs) /\ Append(run.wrote, cell) \in Seq(Cell)
    BY <1>1, <2>4, <2>5
  <2>8. (run.undoable /\ inv # <<>>) \in BOOLEAN
    OBVIOUS
  <2>9. Step(run, verb) \in Runs
    BY <2>3, <2>6, <2>7, <2>8 DEF Runs
  <2>10. Writes(run, Step(run, verb), verb, cell)
    <3>1. PICK next : next = Step(run, verb)
      OBVIOUS
    <3>2. /\ next.ok /\ next.model = [run.model EXCEPT ![cell] = verb.value]
          /\ next.inverse = inv \o run.inverse /\ next.wrote = Append(run.wrote, cell)
      BY <2>3, <3>1
    <3>3. next.undoable = (run.undoable /\ inv # <<>>)
      <4>1. PICK both : both = (run.undoable /\ inv # <<>>)
        OBVIOUS
      <4>2. next = [ok |-> TRUE, model |-> [run.model EXCEPT ![cell] = verb.value],
                    inverse |-> inv \o run.inverse, undoable |-> both,
                    wrote |-> Append(run.wrote, cell)]
        BY <2>3, <3>1, <4>1, ZenonT(30)
      <4>3. next.undoable = both
        BY <4>2
      <4>4. QED
        BY <4>1, <4>3, ZenonT(30)
    <3>4. QED
      BY <1>3, <2>2, <3>1, <3>2, <3>3, ZenonT(30) DEF Writes
  <2>11. QED
    BY <1>3, <2>1, <2>9, <2>10
<1>4. QED
  BY <1>1, <1>2, <1>3

LEMMA StepsAre ==
    ASSUME NEW m \in Models, NEW verbs \in Seq(Verbs), locator \in Frame
    PROVE  /\ Steps(m, verbs) \in [0 .. Len(verbs) -> Runs]
           /\ Steps(m, verbs)[0] = Start(m)
           /\ \A i \in 1 .. Len(verbs) : Steps(m, verbs)[i] = Step(Steps(m, verbs)[i - 1], verbs[i])
<1>1. PICK n \in Nat : n = Len(verbs)
  OBVIOUS
<1>2. Start(m) \in Runs
  BY DEF Start, Runs
<1>3. PICK F : F = [i \in 1 .. n |-> [run \in Runs |-> Step(run, verbs[i])]]
  OBVIOUS
<1>4. \A i \in 1 .. n : verbs[i] \in Verbs
  BY <1>1
<1>5. \A i \in 1 .. n, run \in Runs : Step(run, verbs[i]) \in Runs
  BY <1>4, StepDoes
<1>6. F \in [1 .. n -> [Runs -> Runs]] /\ \A i \in 1 .. n, run \in Runs : F[i][run] = Step(run, verbs[i])
  BY <1>3, <1>5
<1>7. PICK g \in [0 .. n -> Runs] : g[0] = Start(m) /\ \A i \in 1 .. n : g[i] = F[i][g[i - 1]]
  <2>1. F \in [1 .. n -> [Runs -> Runs]]
    BY <1>6
  <2>2. \E g : Follows(g, n, Runs, Start(m), F)
    BY <1>1, <1>2, <2>1, Recursion
  <2>3. QED
    BY <2>2 DEF Follows
<1>8. \A i \in 0 .. n : i # 0 => i \in 1 .. n /\ i - 1 \in 0 .. n
  OBVIOUS
<1>9. \A i \in 1 .. n : g[i] = Step(g[i - 1], verbs[i])
  <2>1. TAKE i \in 1 .. n
  <2>2. i - 1 \in 0 .. n
    OBVIOUS
  <2>3. g[i - 1] \in Runs
    BY <1>7, <2>2
  <2>4. QED
    BY <1>6, <1>7, <2>3
<1>10. g = [i \in 0 .. n |-> IF i = 0 THEN Start(m) ELSE Step(g[i - 1], verbs[i])]
  <2>1. \A i \in 0 .. n : g[i] = IF i = 0 THEN Start(m) ELSE Step(g[i - 1], verbs[i])
    BY <1>7, <1>8, <1>9
  <2>2. QED
    BY <1>7, <2>1
<1>11. Steps(m, verbs) = CHOOSE f : f = [i \in 0 .. n |-> IF i = 0 THEN Start(m)
                                                          ELSE Step(f[i - 1], verbs[i])]
  BY <1>1 DEF Steps
<1>12. PICK s : s = Steps(m, verbs)
  OBVIOUS
<1>13. s = [i \in 0 .. n |-> IF i = 0 THEN Start(m) ELSE Step(s[i - 1], verbs[i])]
  BY <1>10, <1>11, <1>12
<1>14. s[0] = Start(m) /\ DOMAIN s = 0 .. n
  BY <1>13
<1>15. \A i \in 1 .. n : s[i] = Step(s[i - 1], verbs[i])
  <2>1. TAKE i \in 1 .. n
  <2>2. i \in 0 .. n /\ i # 0
    OBVIOUS
  <2>3. QED
    BY <1>13, <2>2
<1>16. s \in [0 .. n -> Runs]
  <2>1. PICK S : S = {i \in 0 .. n : s[i] \in Runs}
    OBVIOUS
  <2>2. 0 \in S
    BY <1>2, <1>14, <2>1
  <2>3. \A i \in 1 .. n : i - 1 \in S => i \in S
    BY <1>5, <1>15, <2>1
  <2>4. \A i \in 0 .. n : i \in S
    BY <2>2, <2>3, UpTo
  <2>5. \A i \in 0 .. n : s[i] \in Runs
    BY <2>1, <2>4
  <2>6. s = [i \in 0 .. n |-> s[i]]
    BY <1>13
  <2>7. QED
    BY <2>5, <2>6
<1>17. QED
  BY <1>1, <1>12, <1>14, <1>15, <1>16

-----------------------------------------------------------------------------
(***************************************************************************)
(* What an inverse retraces                                                *)
(***************************************************************************)
\* The verb puts into one cell what a write changed in another; only two points differ.
Unwrites(verb, cell, named, before, after) ==
    /\ Reaches(verb, named, after) /\ verb.value = before[cell]
    /\ named = cell \/ (cell \notin ModeCells /\ named \notin ModeCells)
    /\ \A c \in Cell : c # cell => after[c] = before[c]

\* The models r were gone through by writing the cells q, and inv writes the cells p back.
Retraces(inv, q, p, r) ==
    /\ q \in Seq(Undoable) /\ p \in Seq(Undoable) /\ r \in [0 .. Len(q) -> Models]
    /\ inv \in Seq(Verbs) /\ Len(inv) = Len(q) /\ Len(p) = Len(q)
    /\ \A i \in 1 .. Len(q) : Unwrites(inv[Len(q) + 1 - i], q[i], p[i], r[i - 1], r[i])

\* Where the two differ it is among the cells S.
Within(S, q, p) == \A i \in 1 .. Len(q) : p[i] = q[i] \/ {p[i], q[i]} \subseteq S

\* After k verbs of the inverse.
GoneBack(S, run, m, q, p, r, k) ==
    /\ run.ok /\ Len(run.wrote) = k /\ \A i \in 1 .. k : run.wrote[i] = p[Len(q) + 1 - i]
    /\ SameModes(run.model, r[Len(q) - k])
    /\ \A c \in Cell \ S : IF \E i \in Len(q) + 1 - k .. Len(q) : q[i] = c
                           THEN run.model[c] = r[Len(q) - k][c] ELSE run.model[c] = m[c]

LEMMA OneBack ==
    ASSUME NEW S, NEW q, NEW p, NEW r, NEW inv, Retraces(inv, q, p, r), Within(S, q, p),
           NEW m \in Models, locator \in Frame,
           NEW k \in 1 .. Len(q), NEW run \in Runs, GoneBack(S, run, m, q, p, r, k - 1)
    PROVE  GoneBack(S, Step(run, inv[k]), m, q, p, r, k)
<1>1. PICK n \in Nat : n = Len(q)
  BY DEF Retraces
<1>2. PICK j \in 1 .. n : j = n + 1 - k
  BY <1>1
<1>3. /\ k = n + 1 - j /\ n - (k - 1) = j /\ n - k = j - 1 /\ k \in 1 .. n /\ j \in 0 .. n
      /\ j - 1 \in 0 .. n /\ n + 1 - (k - 1) = j + 1 /\ k - 1 \in Nat /\ k \in Nat
  BY <1>1, <1>2
<1>4. /\ q[j] \in Undoable /\ p[j] \in Undoable /\ r[j] \in Models /\ r[j - 1] \in Models
      /\ inv[k] \in Verbs
  <2>1. /\ q \in Seq(Undoable) /\ p \in Seq(Undoable) /\ r \in [0 .. n -> Models]
        /\ inv \in Seq(Verbs) /\ Len(inv) = n /\ Len(p) = n
    BY <1>1 DEF Retraces
  <2>2. q[j] \in Undoable /\ p[j] \in Undoable
    BY <1>1, <1>2, <2>1
  <2>3. inv[k] \in Verbs
    BY <1>3, <2>1
  <2>4. r[j] \in Models /\ r[j - 1] \in Models
    BY <1>3, <2>1
  <2>5. QED
    BY <2>2, <2>3, <2>4
<1>5. Unwrites(inv[k], q[j], p[j], r[j - 1], r[j])
  BY <1>1, <1>2, <1>3 DEF Retraces
<1>6. /\ run.ok /\ Len(run.wrote) = k - 1 /\ \A i \in 1 .. k - 1 : run.wrote[i] = p[n + 1 - i]
      /\ SameModes(run.model, r[j])
      /\ \A c \in Cell \ S : IF \E i \in j + 1 .. n : q[i] = c
                             THEN run.model[c] = r[j][c] ELSE run.model[c] = m[c]
  <2>1. PICK b : b = k - 1
    OBVIOUS
  <2>2. /\ run.ok /\ Len(run.wrote) = b /\ \A i \in 1 .. b : run.wrote[i] = p[n + 1 - i]
        /\ SameModes(run.model, r[n - b])
        /\ \A c \in Cell \ S : IF \E i \in n + 1 - b .. n : q[i] = c
                               THEN run.model[c] = r[n - b][c] ELSE run.model[c] = m[c]
    BY <1>1, <2>1 DEF GoneBack
  <2>3. n - b = j /\ n + 1 - b = j + 1
    BY <1>3, <2>1
  <2>4. QED
    BY <2>1, <2>2, <2>3
<1>7. PICK old \in Int : old = r[j - 1][q[j]]
  BY <1>4, CellsApart DEF Models
<1>9. run.model \in Models /\ run.wrote \in Seq(Cell)
  BY DEF Runs
<1>10. /\ Reaches(inv[k], p[j], r[j]) /\ inv[k].value = old
       /\ p[j] = q[j] \/ (q[j] \notin ModeCells /\ p[j] \notin ModeCells)
       /\ p[j] = q[j] \/ {p[j], q[j]} \subseteq S
  <2>1. Reaches(inv[k], p[j], r[j]) /\ inv[k].value = old
    BY <1>5, <1>7 DEF Unwrites
  <2>2. p[j] = q[j] \/ (q[j] \notin ModeCells /\ p[j] \notin ModeCells)
    BY <1>5 DEF Unwrites
  <2>3. p[j] = q[j] \/ {p[j], q[j]} \subseteq S
    BY <1>1 DEF Within
  <2>4. QED
    BY <2>1, <2>2, <2>3
<1>11. TargetOf(run.model, inv[k]) = p[j] /\ inv[k].value = old /\ ~Refused(inv[k])
  BY <1>6, <1>10, WritesBack
<1>12. PICK next : next = Step(run, inv[k])
  OBVIOUS
<1>13. Writes(run, next, inv[k], p[j])
  BY <1>4, <1>6, <1>11, <1>12, StepDoes
<1>14. next.ok /\ next.model = [run.model EXCEPT ![p[j]] = old] /\ next.wrote = Append(run.wrote, p[j])
  BY <1>11, <1>13 DEF Writes
<1>15. p[j] \in Cell /\ \A c \in Cell : next.model[c] = IF c = p[j] THEN old ELSE run.model[c]
  <2>1. p[j] \in Cell
    BY <1>4, CellsApart
  <2>2. DOMAIN run.model = Cell
    BY <1>9 DEF Models
  <2>3. QED
    BY <1>14, <2>1, <2>2
<1>16. Len(next.wrote) = k /\ \A i \in 1 .. k : next.wrote[i] = p[n + 1 - i]
  <2>1. Len(next.wrote) = k - 1 + 1 /\ next.wrote[k - 1 + 1] = p[j]
        /\ \A i \in 1 .. k - 1 : next.wrote[i] = run.wrote[i]
    BY <1>4, <1>6, <1>9, <1>14, CellsApart
  <2>2. k - 1 + 1 = k /\ p[j] = p[n + 1 - k]
    BY <1>2, <1>3
  <2>3. \A i \in 1 .. k : i \in 1 .. k - 1 \/ i = k
    BY <1>3
  <2>4. QED
    BY <1>6, <2>1, <2>2, <2>3
<1>17. \A c \in Cell : c # q[j] => r[j][c] = r[j - 1][c]
  BY <1>5 DEF Unwrites
<1>18. SameModes(next.model, r[j - 1])
  <2>1. SUFFICES ASSUME NEW c \in ModeCells PROVE next.model[c] = r[j - 1][c]
    BY DEF SameModes
  <2>2. c \in Cell /\ run.model[c] = r[j][c]
    BY <1>6, CellsApart DEF SameModes
  <2>3. c = p[j] <=> c = q[j]
    BY <1>10
  <2>4. QED
    BY <1>7, <1>15, <1>17, <2>2, <2>3
<1>19. ASSUME NEW c \in Cell \ S
       PROVE  IF \E i \in j .. n : q[i] = c THEN next.model[c] = r[j - 1][c]
                                            ELSE next.model[c] = m[c]
  <2>1. \A i \in j .. n : i = j \/ i \in j + 1 .. n
    BY <1>2
  <2>2. j \in j .. n /\ \A i \in j + 1 .. n : i \in j .. n
    BY <1>2
  <2>3. CASE c = q[j]
    <3>1. p[j] = q[j]
      BY <1>10, <2>3
    <3>2. QED
      BY <1>7, <1>15, <2>2, <2>3, <3>1
  <2>4. CASE c # q[j]
    <3>1. next.model[c] = run.model[c] /\ r[j][c] = r[j - 1][c]
      <4>1. c # p[j]
        BY <1>10, <2>4
      <4>2. QED
        BY <1>15, <1>17, <2>4, <4>1
    <3>2. (\E i \in j .. n : q[i] = c) <=> (\E i \in j + 1 .. n : q[i] = c)
      BY <2>1, <2>2, <2>4
    <3>3. QED
      BY <1>6, <3>1, <3>2
  <2>5. QED
    BY <2>3, <2>4
<1>20. n + 1 - k = j /\ n - k = j - 1
  BY <1>2, <1>3
<1>21. QED
  BY <1>1, <1>12, <1>14, <1>16, <1>18, <1>19, <1>20 DEF GoneBack

LEMMA Retraced ==
    ASSUME NEW S, NEW q, NEW p, NEW r, NEW inv, Retraces(inv, q, p, r), Within(S, q, p),
           NEW m \in Models, locator \in Frame, SameModes(m, r[Len(q)])
    PROVE  /\ Run(m, inv) \in Runs /\ Run(m, inv).ok /\ Run(m, inv).wrote = Reverse(p)
           /\ SameModes(Run(m, inv).model, r[0])
           /\ \A c \in Cell \ S : IF c \in Range(q) THEN Run(m, inv).model[c] = r[0][c]
                                                    ELSE Run(m, inv).model[c] = m[c]
<1>1. PICK n \in Nat : /\ n = Len(q) /\ n = Len(inv) /\ n = Len(p) /\ q \in Seq(Undoable)
                       /\ p \in Seq(Undoable) /\ inv \in Seq(Verbs)
  BY DEF Retraces
<1>2. PICK s : s = Steps(m, inv)
  OBVIOUS
<1>3. s \in [0 .. n -> Runs] /\ s[0] = Start(m) /\ \A i \in 1 .. n : s[i] = Step(s[i - 1], inv[i])
  BY <1>1, <1>2, StepsAre
<1>4. PICK K : K = {k \in 0 .. n : GoneBack(S, s[k], m, q, p, r, k)}
  OBVIOUS
<1>5. 0 \in K
  <2>1. s[0].ok /\ s[0].wrote = <<>> /\ s[0].model = m
    BY <1>3 DEF Start
  <2>2. Len(s[0].wrote) = 0
    BY <2>1
  <2>3. n - 0 = n /\ (\A i \in 1 .. 0 : FALSE) /\ \A i \in n + 1 - 0 .. n : FALSE
    BY <1>1
  <2>4. GoneBack(S, s[0], m, q, p, r, 0)
    BY <1>1, <2>1, <2>2, <2>3 DEF GoneBack
  <2>5. QED
    BY <1>4, <2>4
<1>6. ASSUME NEW k \in 1 .. n, k - 1 \in K PROVE k \in K
  <2>1. k - 1 \in 0 .. n /\ k \in 0 .. n /\ k \in 1 .. Len(q)
    BY <1>1, <1>6
  <2>2. s[k - 1] \in Runs /\ GoneBack(S, s[k - 1], m, q, p, r, k - 1)
    BY <1>3, <1>4, <1>6, <2>1
  <2>3. GoneBack(S, Step(s[k - 1], inv[k]), m, q, p, r, k)
    BY <2>1, <2>2, OneBack
  <2>4. QED
    BY <1>3, <1>4, <2>1, <2>3
<1>7. \A k \in 0 .. n : k \in K
  BY <1>5, <1>6, UpTo
<1>8. GoneBack(S, s[n], m, q, p, r, n) /\ s[n] \in Runs
  BY <1>3, <1>4, <1>7
<1>9. Run(m, inv) = s[n]
  BY <1>1, <1>2 DEF Run
<1>10. n - n = 0 /\ n + 1 - n = 1
  OBVIOUS
<1>11. Range(q) = {q[i] : i \in 1 .. n}
  <2>1. DOMAIN q = 1 .. n
    BY <1>1, IsSeq
  <2>2. QED
    BY <2>1 DEF Range
<1>12. \A c \in Cell \ S : IF c \in Range(q) THEN s[n].model[c] = r[0][c] ELSE s[n].model[c] = m[c]
  BY <1>1, <1>8, <1>10, <1>11 DEF GoneBack
<1>13. s[n].wrote = Reverse(p)
  <2>1. s[n].wrote \in Seq(Cell) /\ Len(s[n].wrote) = n
    BY <1>8 DEF Runs, GoneBack
  <2>2. Reverse(p) = [i \in 1 .. n |-> p[(n - i) + 1]]
    BY <1>1 DEF Reverse
  <2>3. \A i \in 1 .. n : s[n].wrote[i] = p[(n - i) + 1]
    <3>1. TAKE i \in 1 .. n
    <3>2. (n - i) + 1 = n + 1 - i
      OBVIOUS
    <3>3. QED
      BY <1>1, <1>8, <3>2 DEF GoneBack
  <2>4. s[n].wrote = [i \in 1 .. n |-> s[n].wrote[i]]
    BY <2>1
  <2>5. QED
    BY <2>2, <2>3, <2>4
<1>14. s[n].ok /\ SameModes(s[n].model, r[0])
  BY <1>1, <1>8, <1>10 DEF GoneBack
<1>15. QED
  BY <1>8, <1>9, <1>12, <1>13, <1>14

\* A run that has not been refused has written with every verb.
LEMMA RunSoFar ==
    ASSUME NEW m \in Models, NEW verbs \in Seq(Verbs), locator \in Frame,
           NEW s, s = Steps(m, verbs), NEW k \in 0 .. Len(verbs), s[k].ok
    PROVE  \A i \in 1 .. k : /\ s[i - 1] \in Runs /\ s[i] \in Runs /\ verbs[i] \in Verbs
                             /\ ~Refused(verbs[i])
                             /\ Writes(s[i - 1], s[i], verbs[i], TargetOf(s[i - 1].model, verbs[i]))
<1>1. PICK n \in Nat : n = Len(verbs)
  OBVIOUS
<1>2. s \in [0 .. n -> Runs] /\ s[0] = Start(m) /\ \A i \in 1 .. n : s[i] = Step(s[i - 1], verbs[i])
  BY <1>1, StepsAre
<1>3. \A i \in 1 .. n : verbs[i] \in Verbs /\ i - 1 \in 0 .. n /\ i \in 0 .. n
  BY <1>1
<1>4. PICK Wrote : Wrote = {i \in 1 .. n :
          /\ ~Refused(verbs[i])
          /\ Writes(s[i - 1], s[i], verbs[i], TargetOf(s[i - 1].model, verbs[i]))}
  OBVIOUS
<1>5. PICK S : S = {j \in 0 .. n : s[j].ok => 1 .. j \subseteq Wrote}
  OBVIOUS
<1>6. 0 \in S
  BY <1>5
<1>7. ASSUME NEW j \in 1 .. n, j - 1 \in S PROVE j \in S
  <2>1. SUFFICES ASSUME s[j].ok PROVE 1 .. j \subseteq Wrote
    BY <1>3, <1>5
  <2>2. s[j - 1] \in Runs /\ verbs[j] \in Verbs /\ s[j] = Step(s[j - 1], verbs[j])
    BY <1>2, <1>3
  <2>3. ~Stops(s[j - 1], s[j])
    BY <2>1 DEF Stops
  <2>4. /\ s[j - 1].ok /\ ~Refused(verbs[j])
        /\ Writes(s[j - 1], s[j], verbs[j], TargetOf(s[j - 1].model, verbs[j]))
    BY <2>2, <2>3, StepDoes
  <2>5. 1 .. j - 1 \subseteq Wrote
    BY <1>5, <1>7, <2>4
  <2>6. j \in Wrote
    BY <1>4, <2>4
  <2>7. \A i \in 1 .. j : i = j \/ i \in 1 .. j - 1
    OBVIOUS
  <2>8. QED
    BY <2>5, <2>6, <2>7
<1>8. \A j \in 0 .. n : j \in S
  BY <1>6, <1>7, UpTo
<1>9. 1 .. k \subseteq Wrote
  BY <1>1, <1>5, <1>8
<1>10. ASSUME NEW i \in 1 .. k
       PROVE  /\ s[i - 1] \in Runs /\ s[i] \in Runs /\ verbs[i] \in Verbs /\ ~Refused(verbs[i])
              /\ Writes(s[i - 1], s[i], verbs[i], TargetOf(s[i - 1].model, verbs[i]))
  <2>1. i \in Wrote /\ i \in 1 .. n
    BY <1>1, <1>9
  <2>2. s[i - 1] \in Runs /\ s[i] \in Runs /\ verbs[i] \in Verbs
    BY <1>2, <1>3, <2>1
  <2>3. QED
    BY <1>4, <2>1, <2>2
<1>11. QED
  BY <1>10

\* What a run of k verbs that all have inverses has gathered.
Traced(run, verbs, r, k) ==
    /\ run.undoable /\ Len(run.wrote) = k
    /\ \E p : /\ Retraces(run.inverse, run.wrote, p, r)
              /\ \A i \in 1 .. k : p[i] = NamedBy(verbs[i], run.wrote[i])
    /\ \A i \in 1 .. k : /\ run.wrote[i] = TargetOf(r[i - 1], verbs[i])
                         /\ r[i] = [r[i - 1] EXCEPT ![run.wrote[i]] = verbs[i].value]

LEMMA OneMore ==
    ASSUME NEW m \in Models, NEW verbs \in Seq(Verbs), locator \in Frame,
           NEW s, s = Steps(m, verbs), NEW k \in 1 .. Len(verbs), s[k].ok,
           verbs[k].op # "property", NEW r, r = [i \in 0 .. k |-> s[i].model],
           NEW r0, r0 = [i \in 0 .. k - 1 |-> s[i].model], Traced(s[k - 1], verbs, r0, k - 1)
    PROVE  Traced(s[k], verbs, r, k)
<1>1. /\ s[k - 1] \in Runs /\ s[k] \in Runs /\ verbs[k] \in Verbs /\ ~Refused(verbs[k])
      /\ Writes(s[k - 1], s[k], verbs[k], TargetOf(s[k - 1].model, verbs[k]))
  BY RunSoFar
<1>2. PICK cell : cell = TargetOf(s[k - 1].model, verbs[k])
  OBVIOUS
<1>3. PICK before, wrote, inverse : before = s[k - 1].model /\ wrote = s[k - 1].wrote /\ inverse = s[k - 1].inverse
  OBVIOUS
<1>4. before \in Models /\ wrote \in Seq(Cell) /\ inverse \in Seq(Verbs) /\ s[k].model \in Models
  BY <1>1, <1>3 DEF Runs
<1>5. /\ cell \in Undoable /\ cell \in Cell /\ Target(before, verbs[k], cell)
      /\ before[cell] \in Int
  <2>1. cell \in Undoable /\ cell \in Cell
    BY <1>1, <1>2, <1>3, <1>4, Targets
  <2>2. Target(before, verbs[k], cell)
    BY <1>1, <1>2, <1>3, <1>4, TargetIs
  <2>3. QED
    BY <1>4, <2>1, <2>2 DEF Models
<1>6. PICK verb \in Verbs : /\ Backs(verbs[k], cell, before[cell], verb)
                           /\ InverseOf(verbs[k], cell, before[cell]) = <<verb>>
  <2>1. \E back : Backs(verbs[k], cell, before[cell], back)
    BY <1>1, <1>4, <1>5, Inverses
  <2>2. QED
    BY <2>1 DEF Backs
<1> PICK named \in Undoable : named = NamedBy(verbs[k], cell)
  BY <1>6 DEF Backs
<1>7. /\ s[k].model = [before EXCEPT ![cell] = verbs[k].value] /\ s[k].wrote = Append(wrote, cell)
      /\ s[k].inverse = <<verb>> \o inverse
  BY <1>1, <1>2, <1>3, <1>6 DEF Writes
<1>8. s[k].undoable
  <2>1. s[k].undoable = (s[k - 1].undoable /\ InverseOf(verbs[k], cell, before[cell]) # <<>>)
    BY <1>1, <1>2, <1>3, ZenonT(30) DEF Writes
  <2>2. s[k - 1].undoable
    BY DEF Traced
  <2>3. <<verb>> # <<>>
    OBVIOUS
  <2>4. QED
    BY <1>6, <2>1, <2>2, <2>3
<1>9. PICK p0 :
      /\ Len(wrote) = k - 1 /\ Retraces(inverse, wrote, p0, r0)
      /\ \A i \in 1 .. k - 1 : p0[i] = NamedBy(verbs[i], wrote[i])
      /\ \A i \in 1 .. k - 1 : /\ wrote[i] = TargetOf(r0[i - 1], verbs[i])
                               /\ r0[i] = [r0[i - 1] EXCEPT ![wrote[i]] = verbs[i].value]
  BY <1>3 DEF Traced
<1>10. /\ wrote \in Seq(Undoable) /\ r0 \in [0 .. k - 1 -> Models] /\ Len(inverse) = k - 1
       /\ p0 \in Seq(Undoable) /\ Len(p0) = k - 1
       /\ \A i \in 1 .. k - 1 : Unwrites(inverse[k - i], wrote[i], p0[i], r0[i - 1], r0[i])
  <2>1. k - 1 \in Nat /\ \A i \in 1 .. k - 1 : k - 1 + 1 - i = k - i
    OBVIOUS
  <2>2. QED
    BY <1>9, <2>1 DEF Retraces
<1>11. /\ k \in Nat /\ k - 1 \in 0 .. k /\ k \in 0 .. k /\ k - 1 \in 0 .. k - 1
       /\ \A i \in 1 .. k : i = k \/ i \in 1 .. k - 1
       /\ \A i \in 1 .. k - 1 : /\ i - 1 \in 0 .. k - 1 /\ i \in 0 .. k - 1 /\ i - 1 \in 0 .. k
                                /\ i \in 0 .. k /\ i # k
       /\ \A i \in 0 .. k : i = k \/ i \in 0 .. k - 1
  OBVIOUS
<1>12. \A i \in 0 .. k - 1 : i \in 0 .. k /\ r[i] = r0[i]
  BY <1>11
<1>13. r[k] = s[k].model /\ r[k - 1] = before
  BY <1>3, <1>11
<1>14. r \in [0 .. k -> Models]
  <2>1. \A i \in 0 .. k : r[i] \in Models
    BY <1>4, <1>10, <1>11, <1>12, <1>13
  <2>2. r = [i \in 0 .. k |-> r[i]]
    OBVIOUS
  <2>3. QED
    BY <2>1, <2>2
<1>15. /\ s[k].wrote \in Seq(Undoable) /\ Len(s[k].wrote) = k /\ s[k].wrote[k] = cell
       /\ \A i \in 1 .. k - 1 : s[k].wrote[i] = wrote[i]
  <2>1. /\ Append(wrote, cell) \in Seq(Undoable) /\ Len(Append(wrote, cell)) = k - 1 + 1
        /\ Append(wrote, cell)[k - 1 + 1] = cell
        /\ \A i \in 1 .. k - 1 : Append(wrote, cell)[i] = wrote[i]
    BY <1>5, <1>9, <1>10
  <2>2. k - 1 + 1 = k
    OBVIOUS
  <2>3. QED
    BY <1>7, <2>1, <2>2
<1>16. /\ s[k].inverse \in Seq(Verbs) /\ Len(s[k].inverse) = k /\ s[k].inverse[1] = verb
       /\ \A i \in 1 .. k - 1 : s[k].inverse[k + 1 - i] = inverse[k - i]
  <2>1. /\ <<verb>> \o inverse \in Seq(Verbs) /\ Len(<<verb>> \o inverse) = 1 + (k - 1)
        /\ (<<verb>> \o inverse)[1] = verb
        /\ \A j \in 1 .. k - 1 : (<<verb>> \o inverse)[j + 1] = inverse[j]
    BY <1>4, <1>10
  <2>2. 1 + (k - 1) = k /\ \A i \in 1 .. k - 1 : k - i \in 1 .. k - 1 /\ k - i + 1 = k + 1 - i
    OBVIOUS
  <2>3. QED
    BY <1>7, <2>1, <2>2
<1> PICK p : p = Append(p0, named)
  OBVIOUS
<1>22. /\ p \in Seq(Undoable) /\ Len(p) = k /\ p[k] = named
       /\ \A i \in 1 .. k - 1 : p[i] = p0[i]
  <2>1. /\ Append(p0, named) \in Seq(Undoable) /\ Len(Append(p0, named)) = k - 1 + 1
        /\ Append(p0, named)[k - 1 + 1] = named
        /\ \A i \in 1 .. k - 1 : Append(p0, named)[i] = p0[i]
    BY <1>10
  <2>2. k - 1 + 1 = k
    OBVIOUS
  <2>3. QED
    BY <2>1, <2>2
<1>17. Unwrites(verb, cell, named, before, s[k].model)
  <2>1. \A c \in Cell : c # cell => s[k].model[c] = before[c]
    BY <1>4, <1>5, <1>7 DEF Models
  <2>2. Reaches(verb, named, s[k].model)
    BY <1>1, <1>4, <1>5, <1>6, <2>1, InverseReaches
  <2>3. /\ verb.value = before[cell]
        /\ named = cell \/ (cell \notin ModeCells /\ named \notin ModeCells)
    BY <1>6 DEF Backs
  <2>4. QED
    BY <2>1, <2>2, <2>3 DEF Unwrites
<1>18. \A i \in 1 .. k : Unwrites(s[k].inverse[k + 1 - i], s[k].wrote[i], p[i], r[i - 1], r[i])
  <2>1. TAKE i \in 1 .. k
  <2>2. CASE i = k
    <3>1. k + 1 - k = 1
      OBVIOUS
    <3>2. QED
      BY <1>13, <1>15, <1>16, <1>17, <1>22, <2>2, <3>1
  <2>3. CASE i # k
    <3>1. i \in 1 .. k - 1 /\ i - 1 \in 0 .. k - 1 /\ i \in 0 .. k - 1
      BY <1>11, <2>3
    <3>2. QED
      BY <1>10, <1>12, <1>15, <1>16, <1>22, <3>1
  <2>4. QED
    BY <2>2, <2>3
<1>19. Retraces(s[k].inverse, s[k].wrote, p, r)
  BY <1>14, <1>15, <1>16, <1>18, <1>22 DEF Retraces
<1>23. \A i \in 1 .. k : p[i] = NamedBy(verbs[i], s[k].wrote[i])
  BY <1>9, <1>11, <1>15, <1>22
<1>20. \A i \in 1 .. k : /\ s[k].wrote[i] = TargetOf(r[i - 1], verbs[i])
                         /\ r[i] = [r[i - 1] EXCEPT ![s[k].wrote[i]] = verbs[i].value]
  <2>1. TAKE i \in 1 .. k
  <2>2. CASE i = k
    <3>1. cell = TargetOf(before, verbs[k])
      BY <1>2, <1>3
    <3>2. s[k].wrote[k] = cell /\ r[k] = [before EXCEPT ![cell] = verbs[k].value] /\ r[k - 1] = before
      BY <1>7, <1>13, <1>15
    <3>3. /\ s[k].wrote[k] = TargetOf(r[k - 1], verbs[k])
          /\ r[k] = [r[k - 1] EXCEPT ![s[k].wrote[k]] = verbs[k].value]
      BY <3>1, <3>2, ZenonT(30)
    <3>4. QED
      BY <2>2, <3>3
  <2>3. CASE i # k
    <3>1. i \in 1 .. k - 1 /\ i - 1 \in 0 .. k - 1 /\ i \in 0 .. k - 1
      BY <1>11, <2>3
    <3>2. r[i] = r0[i] /\ r[i - 1] = r0[i - 1] /\ s[k].wrote[i] = wrote[i]
      BY <1>12, <1>15, <3>1
    <3>3. /\ wrote[i] = TargetOf(r0[i - 1], verbs[i])
          /\ r0[i] = [r0[i - 1] EXCEPT ![wrote[i]] = verbs[i].value]
      BY <1>9, <3>1
    <3>4. QED
      BY <3>2, <3>3, ZenonT(30)
  <2>4. QED
    BY <2>2, <2>3
<1>21. QED
  <2>1. PICK next : next = s[k]
    OBVIOUS
  <2>2. next.undoable
    BY <1>8, <2>1, Zenon
  <2>3. Retraces(next.inverse, next.wrote, p, r)
    BY <1>19, <2>1
  <2>7. \A i \in 1 .. k : p[i] = NamedBy(verbs[i], next.wrote[i])
    BY <1>23, <2>1
  <2>8. \E pp : /\ Retraces(next.inverse, next.wrote, pp, r)
                /\ \A i \in 1 .. k : pp[i] = NamedBy(verbs[i], next.wrote[i])
    BY <2>3, <2>7, Zenon
  <2>9. Len(next.wrote) = k
    BY <1>15, <2>1
  <2>4. \A i \in 1 .. k : /\ next.wrote[i] = TargetOf(r[i - 1], verbs[i])
                           /\ r[i] = [r[i - 1] EXCEPT ![next.wrote[i]] = verbs[i].value]
    BY <1>20, <2>1, Zenon
  <2>5. Traced(next, verbs, r, k)
    BY <2>2, <2>4, <2>8, <2>9, Zenon DEF Traced
  <2>6. QED
    BY <2>1, <2>5

LEMMA RunTraced ==
    ASSUME NEW m \in Models, NEW verbs \in Seq(Verbs), locator \in Frame,
           NEW s, s = Steps(m, verbs), NEW k \in 0 .. Len(verbs), s[k].ok,
           \A i \in 1 .. k : verbs[i].op # "property"
    PROVE  Traced(s[k], verbs, [i \in 0 .. k |-> s[i].model], k)
<1>1. PICK n \in Nat : n = Len(verbs)
  OBVIOUS
<1>2. s \in [0 .. n -> Runs] /\ s[0] = Start(m)
  BY <1>1, StepsAre
<1>3. PICK S : S = {j \in 0 .. n : j <= k => s[j].ok /\ Traced(s[j], verbs, [i \in 0 .. j |-> s[i].model], j)}
  OBVIOUS
<1>4. \A j \in 1 .. k : s[j].ok
  <2>1. TAKE j \in 1 .. k
  <2>2. Writes(s[j - 1], s[j], verbs[j], TargetOf(s[j - 1].model, verbs[j]))
    BY RunSoFar
  <2>3. QED
    BY <2>2 DEF Writes
<1>5. 0 \in S
  <2>1. s[0].ok /\ s[0].undoable /\ s[0].wrote = <<>> /\ s[0].inverse = <<>> /\ s[0].model = m
    BY <1>2 DEF Start
  <2>2. PICK r : r = [i \in 0 .. 0 |-> s[i].model]
    OBVIOUS
  <2>3. r \in [0 .. 0 -> Models]
    BY <2>1, <2>2
  <2>4. <<>> \in Seq(Undoable) /\ <<>> \in Seq(Verbs) /\ Len(<<>>) = 0 /\ \A i \in 1 .. 0 : FALSE
    OBVIOUS
  <2>5. Traced(s[0], verbs, r, 0)
    <3>1. Retraces(<<>>, <<>>, <<>>, r)
      BY <2>3, <2>4 DEF Retraces
    <3>2. QED
      BY <2>1, <2>4, <3>1 DEF Traced
  <2>6. QED
    BY <1>3, <2>1, <2>2, <2>5
<1>6. ASSUME NEW j \in 1 .. n, j - 1 \in S PROVE j \in S
  <2>1. SUFFICES ASSUME j <= k PROVE s[j].ok /\ Traced(s[j], verbs, [i \in 0 .. j |-> s[i].model], j)
    BY <1>3
  <2>2. j \in 1 .. k /\ j \in 1 .. Len(verbs)
    BY <1>1, <2>1
  <2>3. s[j].ok /\ verbs[j].op # "property"
    BY <1>4, <2>2
  <2>4. j - 1 <= k
    BY <2>2
  <2>5. Traced(s[j - 1], verbs, [i \in 0 .. j - 1 |-> s[i].model], j - 1)
    BY <1>3, <1>6, <2>4
  <2>6. PICK r, r0 : r = [i \in 0 .. j |-> s[i].model] /\ r0 = [i \in 0 .. j - 1 |-> s[i].model]
    OBVIOUS
  <2>7. Traced(s[j], verbs, r, j)
    BY <2>2, <2>3, <2>5, <2>6, OneMore
  <2>8. QED
    BY <2>3, <2>6, <2>7
<1>7. \A j \in 0 .. n : j \in S
  BY <1>5, <1>6, UpTo
<1>8. k \in S /\ k <= k
  BY <1>1, <1>7
<1>9. QED
  BY <1>3, <1>8

\* Between the ends of a retraced way only the written cells differ.
LEMMA EndsDiffer ==
    ASSUME NEW q, NEW p, NEW r, NEW inv, Retraces(inv, q, p, r)
    PROVE  \A c \in Cell : c \notin Range(q) => r[Len(q)][c] = r[0][c]
<1>1. PICK n \in Nat : n = Len(q) /\ q \in Seq(Undoable)
  BY DEF Retraces
<1>2. DOMAIN q = 1 .. n
  BY <1>1, IsSeq
<1>3. SUFFICES ASSUME NEW c \in Cell, c \notin Range(q) PROVE r[n][c] = r[0][c]
  BY <1>1
<1>4. \A i \in 1 .. n : q[i] # c
  BY <1>2, <1>3 DEF Range
<1>5. \A i \in 1 .. n : r[i][c] = r[i - 1][c]
  BY <1>1, <1>4 DEF Retraces, Unwrites
<1>6. PICK S : S = {i \in 0 .. n : r[i][c] = r[0][c]}
  OBVIOUS
<1>7. 0 \in S /\ \A i \in 1 .. n : i - 1 \in S => i \in S
  BY <1>5, <1>6
<1>8. \A i \in 0 .. n : i \in S
  BY <1>7, UpTo
<1>9. QED
  BY <1>6, <1>8

-----------------------------------------------------------------------------
(***************************************************************************)
(* Actions                                                                 *)
(***************************************************************************)
\* A child without an inverse poisons its composite: what stands beside it is not undone,
\* and not rolled back either, which the code calls the limit of its fix.  The theorems of
\* the undo are about actions where it stands beside no change of a mode and nothing refused.
PoisonAlone(verbs) ==
    (\E i \in DOMAIN verbs : verbs[i].op = "property")
        => \A i \in DOMAIN verbs : verbs[i].op # "mode" /\ ~Refused(verbs[i])

PoisonStandsAlone == \A verbs \in Actions : PoisonAlone(verbs)

LEMMA RangeGrows ==
    ASSUME NEW S, NEW s \in Seq(S), NEW x
    PROVE  Range(Append(s, x)) = Range(s) \cup {x}
<1>1. PICK n \in Nat : n = Len(s) /\ DOMAIN s = 1 .. n
  BY IsSeq
<1>2. PICK t : t = Append(s, x)
  OBVIOUS
<1>3. t \in Seq(S \cup {x}) /\ Len(t) = n + 1 /\ t[n + 1] = x /\ \A i \in 1 .. n : t[i] = s[i]
  BY <1>1, <1>2
<1>4. DOMAIN t = 1 .. n + 1
  BY <1>3, IsSeq
<1>5. \A i \in 1 .. n + 1 : i = n + 1 \/ i \in 1 .. n
  BY <1>1
<1>6. n + 1 \in 1 .. n + 1 /\ \A i \in 1 .. n : i \in 1 .. n + 1
  BY <1>1
<1>7. QED
  BY <1>1, <1>2, <1>3, <1>4, <1>5, <1>6 DEF Range

\* What a run has written says where its model may differ.
Confined(run, m, verbs) ==
    /\ \A c \in Cell : c \notin Range(run.wrote) => run.model[c] = m[c]
    /\ Media \notin Range(run.wrote)
    /\ (\A i \in 1 .. Len(verbs) : verbs[i].op # "mode") => Range(run.wrote) \cap ModeCells = {}

LEMMA RunConfined ==
    ASSUME NEW m \in Models, NEW verbs \in Seq(Verbs), locator \in Frame
    PROVE  Run(m, verbs) \in Runs /\ Confined(Run(m, verbs), m, verbs)
<1>1. PICK n \in Nat : n = Len(verbs)
  OBVIOUS
<1>2. PICK s : s = Steps(m, verbs)
  OBVIOUS
<1>3. s \in [0 .. n -> Runs] /\ s[0] = Start(m) /\ \A i \in 1 .. n : s[i] = Step(s[i - 1], verbs[i])
  BY <1>1, <1>2, StepsAre
<1>4. PICK S : S = {j \in 0 .. n : Confined(s[j], m, verbs)}
  OBVIOUS
<1>5. 0 \in S
  <2>1. s[0].wrote = <<>> /\ s[0].model = m
    BY <1>3 DEF Start
  <2>2. Range(<<>>) = {}
    BY DEF Range
  <2>3. Confined(s[0], m, verbs)
    BY <2>1, <2>2 DEF Confined
  <2>4. QED
    BY <1>4, <2>3
<1>6. ASSUME NEW j \in 1 .. n, j - 1 \in S PROVE j \in S
  <2>1. j - 1 \in 0 .. n /\ j \in 0 .. n
    OBVIOUS
  <2>2. PICK run, next : run = s[j - 1] /\ next = s[j]
    OBVIOUS
  <2>3. run \in Runs /\ next = Step(run, verbs[j]) /\ Confined(run, m, verbs) /\ verbs[j] \in Verbs
    BY <1>1, <1>3, <1>4, <1>6, <2>1, <2>2
  <2>4. CASE Stops(run, next)
    BY <1>4, <2>1, <2>2, <2>3, <2>4 DEF Stops, Confined
  <2>5. CASE ~Stops(run, next)
    <3>1. PICK cell : cell = TargetOf(run.model, verbs[j])
      OBVIOUS
    <3>2. Writes(run, next, verbs[j], cell)
      BY <2>3, <2>5, <3>1, StepDoes
    <3>3. run.model \in Models /\ run.wrote \in Seq(Cell)
      BY <2>3 DEF Runs
    <3>4. cell \in Cell /\ cell # Media /\ (verbs[j].op # "mode" => cell \notin ModeCells)
      BY <2>3, <3>1, <3>3, Targets
    <3>5. Range(next.wrote) = Range(run.wrote) \cup {cell}
      BY <3>2, <3>3, RangeGrows DEF Writes
    <3>6. \A c \in Cell : c # cell => next.model[c] = run.model[c]
      BY <3>2, <3>3 DEF Writes, Models
    <3>7. Confined(next, m, verbs)
      BY <1>1, <2>3, <3>4, <3>5, <3>6 DEF Confined
    <3>8. QED
      BY <1>4, <2>1, <2>2, <3>7
  <2>6. QED
    BY <2>4, <2>5
<1>7. \A j \in 0 .. n : j \in S
  BY <1>5, <1>6, UpTo
<1>8. Confined(s[n], m, verbs) /\ s[n] \in Runs
  BY <1>3, <1>4, <1>7
<1>9. QED
  BY <1>1, <1>2, <1>8 DEF Run

\* A run that was refused stands where the verb before left it.
LEMMA RefusedAt ==
    ASSUME NEW m \in Models, NEW verbs \in Seq(Verbs), locator \in Frame,
           NEW s, s = Steps(m, verbs), ~Run(m, verbs).ok
    PROVE  \E k \in 0 .. Len(verbs) :
               /\ k + 1 \in 1 .. Len(verbs) /\ Refused(verbs[k + 1]) /\ s[k].ok
               /\ Run(m, verbs).model = s[k].model /\ Run(m, verbs).inverse = s[k].inverse
               /\ Run(m, verbs).wrote = s[k].wrote
<1>1. PICK n \in Nat : n = Len(verbs)
  OBVIOUS
<1>2. s \in [0 .. n -> Runs] /\ s[0] = Start(m) /\ \A i \in 1 .. n : s[i] = Step(s[i - 1], verbs[i])
  BY <1>1, StepsAre
<1>3. PICK S : S = {j \in 0 .. n : ~s[j].ok => \E k \in 0 .. n :
                       /\ k + 1 \in 1 .. n /\ Refused(verbs[k + 1]) /\ s[k].ok
                       /\ s[j].model = s[k].model /\ s[j].inverse = s[k].inverse
                       /\ s[j].wrote = s[k].wrote}
  OBVIOUS
<1>4. 0 \in S
  <2>1. s[0].ok
    BY <1>2 DEF Start
  <2>2. QED
    BY <1>3, <2>1
<1>5. ASSUME NEW j \in 1 .. n, j - 1 \in S PROVE j \in S
  <2>1. j - 1 \in 0 .. n /\ j \in 0 .. n /\ j - 1 + 1 = j
    OBVIOUS
  <2>2. PICK i \in 0 .. n : i = j - 1
    BY <2>1
  <2>3. i + 1 = j
    BY <2>1, <2>2
  <2>4. s[i] \in Runs /\ s[j] = Step(s[i], verbs[j]) /\ verbs[j] \in Verbs
    BY <1>1, <1>2, <2>2
  <2>5. CASE s[j].ok
    BY <1>3, <2>1, <2>5
  <2>6. CASE ~s[j].ok /\ s[i].ok
    <3>1. Refused(verbs[j]) /\ Stops(s[i], s[j])
      <4>1. ~Writes(s[i], s[j], verbs[j], TargetOf(s[i].model, verbs[j]))
        BY <2>6 DEF Writes
      <4>2. QED
        BY <2>4, <2>6, <4>1, StepDoes
    <3>2. /\ s[j].model = s[i].model /\ s[j].inverse = s[i].inverse
          /\ s[j].wrote = s[i].wrote
      BY <3>1 DEF Stops
    <3>3. \E k \in 0 .. n : /\ k + 1 \in 1 .. n /\ Refused(verbs[k + 1]) /\ s[k].ok
                            /\ s[j].model = s[k].model /\ s[j].inverse = s[k].inverse
                            /\ s[j].wrote = s[k].wrote
      BY <2>3, <2>6, <3>1, <3>2
    <3>4. QED
      BY <1>3, <2>1, <3>3
  <2>7. CASE ~s[i].ok
    <3>1. Stops(s[i], s[j])
      BY <2>4, <2>7, StepDoes
    <3>2. /\ s[j].model = s[i].model /\ s[j].inverse = s[i].inverse
          /\ s[j].wrote = s[i].wrote
      BY <3>1 DEF Stops
    <3>3. PICK k \in 0 .. n : /\ k + 1 \in 1 .. n /\ Refused(verbs[k + 1]) /\ s[k].ok
                              /\ s[i].model = s[k].model /\ s[i].inverse = s[k].inverse
                              /\ s[i].wrote = s[k].wrote
      BY <1>3, <1>5, <2>2, <2>7
    <3>4. \E h \in 0 .. n : /\ h + 1 \in 1 .. n /\ Refused(verbs[h + 1]) /\ s[h].ok
                            /\ s[j].model = s[h].model /\ s[j].inverse = s[h].inverse
                            /\ s[j].wrote = s[h].wrote
      BY <3>2, <3>3
    <3>5. QED
      BY <1>3, <2>1, <3>4
  <2>8. QED
    BY <2>5, <2>6, <2>7
<1>6. \A j \in 0 .. n : j \in S
  BY <1>4, <1>5, UpTo
<1>7. n \in S /\ Run(m, verbs) = s[n]
  BY <1>1, <1>6 DEF Run
<1>8. PICK k \in 0 .. n : /\ k + 1 \in 1 .. n /\ Refused(verbs[k + 1]) /\ s[k].ok
                          /\ s[n].model = s[k].model /\ s[n].inverse = s[k].inverse
                          /\ s[n].wrote = s[k].wrote
  BY <1>3, <1>7
<1>9. QED
  BY <1>1, <1>7, <1>8

LEMMA ReverseFacts ==
    ASSUME NEW S, NEW s \in Seq(S), NEW t \in Seq(S), Len(s) = Len(t)
    PROVE  Range(Reverse(s)) = Range(s) /\ (Reverse(s) = Reverse(t) => s = t)
<1>1. PICK n \in Nat : n = Len(s) /\ n = Len(t)
  OBVIOUS
<1>2. DOMAIN s = 1 .. n /\ DOMAIN t = 1 .. n
  BY <1>1, IsSeq
<1>3. Reverse(s) = [i \in 1 .. n |-> s[(n - i) + 1]] /\ Reverse(t) = [i \in 1 .. n |-> t[(n - i) + 1]]
  BY <1>1 DEF Reverse
<1>4. \A i \in 1 .. n : (n - i) + 1 \in 1 .. n /\ (n - ((n - i) + 1)) + 1 = i
  OBVIOUS
<1>5. Range(Reverse(s)) = Range(s)
  <2>1. Range(Reverse(s)) = {s[(n - i) + 1] : i \in 1 .. n}
    <3>1. PICK back : back = Reverse(s)
      OBVIOUS
    <3>2. DOMAIN back = 1 .. n /\ \A i \in 1 .. n : back[i] = s[(n - i) + 1]
      BY <1>3, <3>1
    <3>3. Range(back) = {back[i] : i \in 1 .. n}
      BY <3>2 DEF Range
    <3>4. QED
      BY <3>1, <3>2, <3>3
  <2>2. Range(s) = {s[i] : i \in 1 .. n}
    BY <1>2 DEF Range
  <2>3. {s[i] : i \in 1 .. n} \subseteq {s[(n - i) + 1] : i \in 1 .. n}
    <3>1. SUFFICES ASSUME NEW i \in 1 .. n PROVE \E j \in 1 .. n : s[i] = s[(n - j) + 1]
      OBVIOUS
    <3>2. PICK j \in 1 .. n : (n - j) + 1 = i
      BY <1>4
    <3>3. QED
      BY <3>2
  <2>4. {s[(n - i) + 1] : i \in 1 .. n} \subseteq {s[i] : i \in 1 .. n}
    BY <1>4
  <2>5. QED
    BY <2>1, <2>2, <2>3, <2>4
<1>6. ASSUME Reverse(s) = Reverse(t) PROVE s = t
  <2>1. \A i \in 1 .. n : s[(n - i) + 1] = t[(n - i) + 1]
    BY <1>3, <1>6
  <2>2. \A i \in 1 .. n : s[i] = t[i]
    <3>1. TAKE i \in 1 .. n
    <3>2. PICK j \in 1 .. n : (n - j) + 1 = i
      BY <1>4
    <3>3. QED
      BY <2>1, <3>2
  <2>3. QED
    BY <1>2, <2>2
<1>7. QED
  BY <1>5, <1>6

LEMMA RangeOfBoth ==
    ASSUME NEW S, NEW s \in Seq(S), NEW t \in Seq(S)
    PROVE  Range(s \o t) = Range(s) \cup Range(t)
<1>1. PICK n \in Nat, k \in Nat : n = Len(s) /\ k = Len(t)
  OBVIOUS
<1>2. PICK st : st = s \o t
  OBVIOUS
<1>3. /\ st \in Seq(S) /\ Len(st) = n + k /\ \A i \in 1 .. n : st[i] = s[i]
      /\ \A i \in 1 .. k : st[n + i] = t[i]
  BY <1>1, <1>2
<1>4. DOMAIN s = 1 .. n /\ DOMAIN t = 1 .. k /\ DOMAIN st = 1 .. n + k
  BY <1>1, <1>3, IsSeq
<1>5. /\ \A i \in 1 .. n : i \in 1 .. n + k
      /\ \A i \in 1 .. k : n + i \in 1 .. n + k
      /\ \A i \in 1 .. n + k : i \in 1 .. n \/ (i - n \in 1 .. k /\ i = n + (i - n))
  OBVIOUS
<1>6. Range(s) \subseteq Range(st) /\ Range(t) \subseteq Range(st)
  BY <1>3, <1>4, <1>5 DEF Range
<1>7. Range(st) \subseteq Range(s) \cup Range(t)
  <2>1. SUFFICES ASSUME NEW i \in 1 .. n + k PROVE st[i] \in Range(s) \cup Range(t)
    BY <1>4 DEF Range
  <2>2. CASE i \in 1 .. n
    BY <1>3, <1>4, <2>2 DEF Range
  <2>3. CASE i \notin 1 .. n
    <3>1. PICK j \in 1 .. k : i = n + j
      BY <1>5, <2>3
    <3>2. QED
      BY <1>3, <1>4, <3>1 DEF Range
  <2>4. QED
    BY <2>2, <2>3
<1>8. QED
  BY <1>2, <1>6, <1>7

\* The cells a run has left to go astray hold every one its inverse takes for another.
LEMMA WithinAstray ==
    ASSUME NEW q \in Seq(Cell), NEW p \in Seq(Cell), Len(p) = Len(q), NEW S,
           Reverse(p) = Reverse(q) \/ Range(q) \cup Range(p) \subseteq S
    PROVE  Within(S, q, p)
<1>1. CASE Reverse(p) = Reverse(q)
  <2>1. p = q
    BY <1>1, ReverseFacts
  <2>2. QED
    BY <2>1 DEF Within
<1>2. CASE Range(q) \cup Range(p) \subseteq S
  <2>1. DOMAIN q = 1 .. Len(q) /\ DOMAIN p = 1 .. Len(q)
    BY IsSeq
  <2>2. \A i \in 1 .. Len(q) : q[i] \in Range(q) /\ p[i] \in Range(p)
    BY <2>1 DEF Range
  <2>3. QED
    BY <1>2, <2>2 DEF Within
<1>3. QED
  BY <1>1, <1>2

\* What an inverse takes for another is the point under the playhead of a track outside the
\* master, and the master's.
LEMMA WithinMistaken ==
    ASSUME NEW q, NEW p, NEW r, NEW verbs \in Seq(Verbs), NEW k \in 0 .. Len(verbs), Len(q) = k,
           r \in [0 .. k -> Models], locator \in Frame,
           \A i \in 1 .. k : q[i] = TargetOf(r[i - 1], verbs[i]) /\ p[i] = NamedBy(verbs[i], q[i])
    PROVE  Within(Mistaken, q, p)
<1> SUFFICES ASSUME NEW i \in 1 .. k PROVE p[i] = q[i] \/ {p[i], q[i]} \subseteq Mistaken
  BY DEF Within
<1>1. i - 1 \in 0 .. k /\ i \in 1 .. Len(verbs)
  OBVIOUS
<1>2. PICK m \in Models, verb \in Verbs : m = r[i - 1] /\ verb = verbs[i]
  BY <1>1
<1>3. PICK cell : cell = q[i] /\ cell = TargetOf(m, verb) /\ p[i] = NamedBy(verb, cell)
  BY <1>2
<1>4. Target(m, verb, cell)
  BY <1>3, TargetIs
<1>5. CASE verb.op = "property"
  <2>1. cell[1] # "point"
    BY <1>4, <1>5 DEF Target, Property
  <2>2. QED
    BY <1>3, <2>1 DEF NamedBy
<1>6. ASSUME NEW t \in Track, cell = Fader(t) \/ cell = Mode(t) PROVE p[i] = q[i]
  <2>1. cell[1] # "point"
    BY <1>6, CellsApart
  <2>2. QED
    BY <1>3, <2>1 DEF NamedBy
<1>7. ASSUME NEW t \in Track, NEW at \in Frame, verb.track = t, cell = Point(t, at) PROVE p[i] = q[i]
  <2>1. cell[1] = "point" /\ cell[3] = at
    BY <1>7, CellsApart
  <2>2. QED
    BY <1>3, <1>7, <2>1 DEF NamedBy
<1>8. ASSUME NEW t \in Track, verb.track = t, t \in DOMAIN Twin, Twin[t] \in Track,
             cell = Point(Twin[t], locator)
      PROVE  p[i] = q[i] \/ {p[i], q[i]} \subseteq Mistaken
  <2>1. cell[1] = "point" /\ cell[3] = locator
    BY <1>8, CellsApart
  <2>2. p[i] = Point(t, locator)
    BY <1>3, <1>8, <2>1 DEF NamedBy
  <2>3. CASE Twin[t] = t
    BY <1>3, <1>8, <2>2, <2>3
  <2>4. CASE Twin[t] # t
    BY <1>3, <1>8, <2>2, <2>4 DEF Mistaken
  <2>5. QED
    BY <2>3, <2>4
<1>9. QED
  BY <1>4, <1>5, <1>6, <1>7, <1>8 DEF Target

\* A composite refused in the middle has rolled back everything, whatever it wrote, but for
\* points it mistook; and those are among what it is said to have written.
RolledBackTo(run, m) ==
    /\ run.model \in Models /\ run.wrote \in Seq(Cell) /\ SameModes(run.model, m)
    /\ \A c \in Cell \ Mistaken : run.model[c] = m[c]
    /\ \A c \in Cell \ Range(run.wrote) : run.model[c] = m[c]

LEMMA RefusedRollsBack ==
    ASSUME NEW m \in Models, NEW verbs \in Seq(Verbs), locator \in Frame, PoisonAlone(verbs),
           ~Apply(m, verbs).ok
    PROVE  RolledBackTo(Apply(m, verbs), m)
<1>1. PICK run : run = Run(m, verbs)
  OBVIOUS
<1>2. run \in Runs /\ run.model \in Models /\ run.wrote \in Seq(Cell) /\ run.inverse \in Seq(Verbs)
  BY <1>1, RunConfined DEF Runs
<1>3. ~run.ok
  BY <1>1, <1>2 DEF Apply
<1>4. PICK back : back = Run(run.model, run.inverse) /\ back \in Runs
  BY <1>2, RunConfined
<1>5. PICK wrote : wrote = IF back.wrote = Reverse(run.wrote) THEN <<>> ELSE run.wrote \o back.wrote
  OBVIOUS
<1>6. Apply(m, verbs) = [run EXCEPT !.model = back.model, !.wrote = wrote]
  BY <1>1, <1>3, <1>4, <1>5 DEF Apply, RolledBack
<1>7. Apply(m, verbs).model = back.model /\ Apply(m, verbs).wrote = wrote
  BY <1>2, <1>6 DEF Runs
<1>8. PICK s : s = Steps(m, verbs)
  OBVIOUS
<1>9. PICK k \in 0 .. Len(verbs) :
          /\ k + 1 \in 1 .. Len(verbs) /\ Refused(verbs[k + 1]) /\ s[k].ok
          /\ run.model = s[k].model /\ run.inverse = s[k].inverse /\ run.wrote = s[k].wrote
  BY <1>1, <1>3, <1>8, RefusedAt
<1>10. DOMAIN verbs = 1 .. Len(verbs) /\ Len(verbs) \in Nat
  BY IsSeq
<1>11. \A i \in 1 .. k : verbs[i].op # "property"
  BY <1>9, <1>10 DEF PoisonAlone
<1>12. PICK r : r = [i \in 0 .. k |-> s[i].model]
  OBVIOUS
<1>13. Traced(s[k], verbs, r, k)
  BY <1>8, <1>9, <1>11, <1>12, RunTraced
<1>14. PICK q : q = run.wrote
  OBVIOUS
<1>15. PICK p : Retraces(run.inverse, q, p, r) /\ \A i \in 1 .. k : p[i] = NamedBy(verbs[i], q[i])
  BY <1>9, <1>13, <1>14 DEF Traced
<1>16. Len(q) = k /\ \A i \in 1 .. k : q[i] = TargetOf(r[i - 1], verbs[i])
  BY <1>9, <1>13, <1>14 DEF Traced
<1>17. /\ q \in Seq(Cell) /\ p \in Seq(Cell) /\ Len(p) = k /\ r \in [0 .. k -> Models]
  BY <1>15, <1>16, CellsApart DEF Retraces
<1>18. s \in [0 .. Len(verbs) -> Runs] /\ s[0] = Start(m)
  BY <1>8, StepsAre
<1>19. r[0] = m /\ r[k] = run.model
  <2>1. 0 \in 0 .. k /\ k \in 0 .. k
    BY <1>10
  <2>2. s[0].model = m
    BY <1>18 DEF Start
  <2>3. QED
    BY <1>9, <1>12, <2>1, <2>2
<1>20. SameModes(run.model, r[Len(q)])
  BY <1>16, <1>19 DEF SameModes
<1>21. \A c \in Cell : c \notin Range(q) => run.model[c] = m[c]
  BY <1>15, <1>16, <1>19, EndsDiffer
<1>22. ASSUME NEW S, Within(S, q, p) PROVE \A c \in Cell \ S : back.model[c] = m[c]
  <2>1. \A c \in Cell \ S : IF c \in Range(q) THEN Run(run.model, run.inverse).model[c] = r[0][c]
                             ELSE Run(run.model, run.inverse).model[c] = run.model[c]
    BY <1>2, <1>15, <1>20, <1>22, Retraced
  <2>2. QED
    BY <1>4, <1>19, <1>21, <2>1
<1>23. Within(Cell, q, p)
  <2>1. \A i \in 1 .. k : q[i] \in Cell /\ p[i] \in Cell
    BY <1>16, <1>17
  <2>2. QED
    BY <1>16, <2>1 DEF Within
<1>24. back.wrote = Reverse(p) /\ SameModes(back.model, m)
  BY <1>2, <1>4, <1>15, <1>19, <1>20, <1>23, Retraced
<1>25. Within(Mistaken, q, p)
  BY <1>15, <1>16, <1>17, WithinMistaken
<1>26. wrote \in Seq(Cell)
  BY <1>2, <1>4, <1>5 DEF Runs
<1>27. Within(Range(wrote), q, p)
  <2>1. CASE Reverse(p) = Reverse(q)
    BY <1>16, <1>17, <2>1, WithinAstray
  <2>2. CASE Reverse(p) # Reverse(q)
    <3>1. wrote = q \o Reverse(p)
      BY <1>5, <1>14, <1>24, <2>2
    <3>2. Reverse(p) \in Seq(Cell)
      BY <1>4, <1>24 DEF Runs
    <3>3. Range(wrote) = Range(q) \cup Range(Reverse(p))
      BY <1>17, <3>1, <3>2, RangeOfBoth
    <3>4. Range(Reverse(p)) = Range(p)
      BY <1>17, ReverseFacts
    <3>5. QED
      BY <1>16, <1>17, <3>3, <3>4, WithinAstray
  <2>3. QED
    BY <2>1, <2>2
<1>28. back.model \in Models
  BY <1>4 DEF Runs
<1>29. /\ \A c \in Cell \ Mistaken : back.model[c] = m[c]
       /\ \A c \in Cell \ Range(wrote) : back.model[c] = m[c]
  BY <1>22, <1>25, <1>27
<1>30. QED
  BY <1>7, <1>24, <1>26, <1>28, <1>29 DEF RolledBackTo

-----------------------------------------------------------------------------
(***************************************************************************)
(* Commands: what undoing and redoing one does                             *)
(***************************************************************************)
\* Two models are the same where no stray write may differ; in the modes always.
Agree(S, x, y) == \A c \in Undoable : c \in ModeCells \/ c \notin S => x[c] = y[c]

\* The forward verbs write the cells q and take r[0] to the last of r; the inverse writes
\* the cells p.
Spans(cmd, q, p, r) ==
    /\ Retraces(cmd.inverse, q, p, r) /\ cmd.forward \in Seq(Verbs) /\ Len(cmd.forward) = Len(q)
    /\ \A i \in 1 .. Len(q) :
           /\ cmd.forward[i].op # "property" /\ ~Refused(cmd.forward[i])
           /\ r[i] = [r[i - 1] EXCEPT ![q[i]] = cmd.forward[i].value]
           /\ cmd.forward[i].op = "mode" => q[i] = Mode(cmd.forward[i].track)
           /\ cmd.forward[i].op # "mode" => q[i] \notin ModeCells

\* A command leads from one model to another, but for stray writes.
Leads(S, cmd, b, a) ==
    \E q, p, r : /\ Spans(cmd, q, p, r) /\ Within(S, q, p)
                /\ Agree(S, b, r[0]) /\ Agree(S, r[Len(q)], a)

LEMMA AgreeFacts ==
    ASSUME NEW S, NEW T, S \subseteq T, NEW x, NEW y, NEW z
    PROVE  /\ Agree(S, x, x) /\ (Agree(S, x, y) => Agree(S, y, x))
           /\ (Agree(S, x, y) /\ Agree(S, y, z) => Agree(S, x, z))
           /\ (Agree(S, x, y) => Agree(T, x, y))
           /\ (Agree(S, x, y) => SameModes(x, y))
BY CellsApart DEF Agree, SameModes

\* Undoing a command leads back, whatever has gone astray.
LEMMA UndoCommand ==
    ASSUME NEW S, NEW cmd, NEW b, NEW a, Leads(S, cmd, b, a), NEW m \in Models, Agree(S, m, a),
           locator \in Frame
    PROVE  /\ Apply(m, cmd.inverse).model \in Models /\ Agree(S, Apply(m, cmd.inverse).model, b)
           /\ Apply(m, cmd.inverse).model[Media] = m[Media]
<1>1. PICK q, p, r : /\ Spans(cmd, q, p, r) /\ Within(S, q, p)
                     /\ Agree(S, b, r[0]) /\ Agree(S, r[Len(q)], a)
  BY DEF Leads
<1>2. PICK run : run = Run(m, cmd.inverse)
  OBVIOUS
<1>3. Retraces(cmd.inverse, q, p, r) /\ cmd.inverse \in Seq(Verbs)
  BY <1>1 DEF Spans, Retraces
<1>4. SameModes(m, r[Len(q)]) /\ Agree(S, m, r[Len(q)]) /\ Agree(S, r[0], b)
  BY <1>1, AgreeFacts
<1>5. /\ run \in Runs /\ run.ok /\ SameModes(run.model, r[0])
      /\ \A c \in Cell \ S : IF c \in Range(q) THEN run.model[c] = r[0][c] ELSE run.model[c] = m[c]
  BY <1>1, <1>2, <1>3, <1>4, Retraced
<1>6. Apply(m, cmd.inverse) = run
  BY <1>2, <1>5 DEF Apply
<1>7. \A c \in Cell : c \notin Range(q) => r[Len(q)][c] = r[0][c]
  BY <1>3, EndsDiffer
<1>8. Agree(S, run.model, r[0])
  <2>1. SUFFICES ASSUME NEW c \in Undoable, c \in ModeCells \/ c \notin S
                 PROVE  run.model[c] = r[0][c]
    BY DEF Agree
  <2>2. c \in Cell
    BY CellsApart
  <2>5. CASE c \in ModeCells
    BY <1>5, <2>5 DEF SameModes
  <2>3. m[c] = r[Len(q)][c]
    BY <1>4, <2>1 DEF Agree
  <2>4. QED
    BY <1>5, <1>7, <2>1, <2>2, <2>3, <2>5
<1>9. run.model[Media] = m[Media] /\ run.model \in Models
  <2>1. Media \in Cell /\ Media \notin Undoable
    BY CellsApart
  <2>2. Range(q) \subseteq Undoable
    BY <1>3, IsSeq DEF Retraces, Range
  <2>3. Within(Undoable, q, p)
    BY <1>3 DEF Retraces, Within
  <2>4. IF Media \in Range(q) THEN run.model[Media] = r[0][Media] ELSE run.model[Media] = m[Media]
    BY <1>2, <1>3, <1>4, <2>1, <2>3, Retraced
  <2>5. QED
    BY <1>5, <2>1, <2>2, <2>4 DEF Runs
<1>10. Agree(S, run.model, b)
  BY <1>4, <1>8, AgreeFacts
<1>11. QED
  BY <1>6, <1>9, <1>10

\* After k verbs of a command that is done again.
GoneAgain(S, run, q, r, k) ==
    /\ run.ok /\ Len(run.wrote) = k /\ SameModes(run.model, r[k])
    /\ (\A i \in 1 .. k : run.wrote[i] = q[i] \/ {run.wrote[i], q[i]} \subseteq S)
           => Agree(S, run.model, r[k])

LEMMA OneAgain ==
    ASSUME NEW S, NEW cmd, NEW q, NEW p, NEW r, Spans(cmd, q, p, r), locator \in Frame, NEW k \in 1 .. Len(q),
           NEW run \in Runs, GoneAgain(S, run, q, r, k - 1)
    PROVE  GoneAgain(S, Step(run, cmd.forward[k]), q, r, k)
<1>1. PICK n \in Nat : n = Len(q) /\ q \in Seq(Undoable) /\ r \in [0 .. n -> Models]
  <2>1. q \in Seq(Undoable) /\ r \in [0 .. Len(q) -> Models]
    BY DEF Spans, Retraces
  <2>2. Len(q) \in Nat
    BY <2>1
  <2>3. QED
    BY <2>1, <2>2
<1>2. PICK verb, next : verb = cmd.forward[k] /\ next = Step(run, verb)
  OBVIOUS
<1>3. /\ verb \in Verbs /\ ~Refused(verb) /\ r[k] = [r[k - 1] EXCEPT ![q[k]] = verb.value]
      /\ verb.op = "mode" => q[k] = Mode(verb.track)
      /\ verb.op # "mode" => q[k] \notin ModeCells
  <2>1. cmd.forward \in Seq(Verbs) /\ Len(cmd.forward) = n /\ k \in 1 .. n
    BY <1>1 DEF Spans
  <2>2. verb \in Verbs
    BY <1>2, <2>1
  <2>3. QED
    BY <1>2, <2>2 DEF Spans
<1>4. PICK cell : cell = TargetOf(run.model, verb)
  OBVIOUS
<1>5. run.ok /\ Len(run.wrote) = k - 1 /\ SameModes(run.model, r[k - 1])
  BY DEF GoneAgain
<1>6. run.model \in Models /\ run.wrote \in Seq(Cell)
  BY DEF Runs
<1>7. Writes(run, next, verb, cell)
  BY <1>2, <1>3, <1>4, <1>5, StepDoes
<1>8. /\ cell \in Cell /\ (verb.op = "mode" => cell = q[k])
      /\ (verb.op # "mode" => cell \notin ModeCells)
  BY <1>3, <1>4, <1>6, Targets
<1>9. \A c \in Cell : next.model[c] = IF c = cell THEN verb.value ELSE run.model[c]
  BY <1>6, <1>7, <1>8 DEF Writes, Models
<1>10. \A c \in Cell : r[k][c] = IF c = q[k] THEN verb.value ELSE r[k - 1][c]
  <2>1. k - 1 \in 0 .. n /\ k \in 1 .. n
    BY <1>1
  <2>2. r[k - 1] \in Models /\ q[k] \in Undoable
    BY <1>1, <2>1
  <2>3. q[k] \in Cell
    BY <2>2, CellsApart
  <2>4. QED
    BY <1>3, <2>2, <2>3 DEF Models
<1>11. ModeCells \subseteq Cell /\ Undoable \subseteq Cell
  BY CellsApart
<1>12. SameModes(next.model, r[k])
  <2>1. SUFFICES ASSUME NEW c \in ModeCells PROVE next.model[c] = r[k][c]
    BY DEF SameModes
  <2>2. run.model[c] = r[k - 1][c]
    BY <1>5 DEF SameModes
  <2>3. c = cell <=> c = q[k]
    BY <1>3, <1>8
  <2>4. QED
    BY <1>9, <1>10, <1>11, <2>2, <2>3
<1>13. /\ Len(next.wrote) = k /\ next.wrote[k] = cell
       /\ \A i \in 1 .. k - 1 : next.wrote[i] = run.wrote[i]
  <2>1. /\ Len(Append(run.wrote, cell)) = k - 1 + 1 /\ Append(run.wrote, cell)[k - 1 + 1] = cell
        /\ \A i \in 1 .. k - 1 : Append(run.wrote, cell)[i] = run.wrote[i]
    BY <1>5, <1>6, <1>8
  <2>2. k - 1 + 1 = k
    OBVIOUS
  <2>3. QED
    BY <1>7, <2>1, <2>2 DEF Writes
<1>14. ASSUME \A i \in 1 .. k : next.wrote[i] = q[i] \/ {next.wrote[i], q[i]} \subseteq S
       PROVE  Agree(S, next.model, r[k])
  <2>1. \A i \in 1 .. k - 1 : i \in 1 .. k
    OBVIOUS
  <2>2. \A i \in 1 .. k - 1 : run.wrote[i] = q[i] \/ {run.wrote[i], q[i]} \subseteq S
    BY <1>13, <1>14, <2>1
  <2>3. Agree(S, run.model, r[k - 1])
    BY <2>2 DEF GoneAgain
  <2>4. cell = q[k] \/ {cell, q[k]} \subseteq S
    <3>1. k \in 1 .. k
      OBVIOUS
    <3>2. QED
      BY <1>13, <1>14, <3>1
  <2>5. QED
    <3>1. SUFFICES ASSUME NEW c \in Undoable, c \in ModeCells \/ c \notin S
                   PROVE  next.model[c] = r[k][c]
      BY DEF Agree
    <3>2. c \in Cell /\ run.model[c] = r[k - 1][c]
      BY <1>11, <2>3, <3>1 DEF Agree
    <3>3. c = cell <=> c = q[k]
      BY <1>3, <1>8, <2>4, <3>1
    <3>4. QED
      BY <1>9, <1>10, <3>2, <3>3
<1>15. next.ok
  BY <1>7 DEF Writes
<1>16. QED
  BY <1>2, <1>12, <1>13, <1>14, <1>15 DEF GoneAgain

\* Doing a command again leads forward, but for what its trace says has gone astray.
Redone(S, cmd, m, a) ==
    LET run == Apply(m, cmd.forward)
    IN  /\ run.model \in Models /\ run.model[Media] = m[Media]
        /\ Agree(S \cup Astray(run.model, run.wrote, cmd.inverse), run.model, a)

LEMMA RedoCommand ==
    ASSUME NEW S, NEW cmd, NEW b, NEW a, Leads(S, cmd, b, a), NEW m \in Models, Agree(S, m, b),
           locator \in Frame
    PROVE  Redone(S, cmd, m, a)
<1> PICK run : run = Apply(m, cmd.forward)
  OBVIOUS
<1> PICK T : T = S \cup Astray(run.model, run.wrote, cmd.inverse)
  OBVIOUS
<1> SUFFICES run.model \in Models /\ Agree(T, run.model, a) /\ run.model[Media] = m[Media]
  BY DEF Redone
<1>1. PICK q, p, r : /\ Spans(cmd, q, p, r) /\ Within(S, q, p)
                     /\ Agree(S, b, r[0]) /\ Agree(S, r[Len(q)], a)
  BY DEF Leads
<1>2. PICK n \in Nat : n = Len(q) /\ q \in Seq(Undoable) /\ n = Len(p) /\ p \in Seq(Undoable)
  BY <1>1 DEF Spans, Retraces
<1>3. PICK f : f = cmd.forward /\ f \in Seq(Verbs) /\ Len(f) = n
  BY <1>1, <1>2 DEF Spans
<1>4. PICK s : s = Steps(m, f)
  OBVIOUS
<1>5. s \in [0 .. n -> Runs] /\ s[0] = Start(m) /\ \A i \in 1 .. n : s[i] = Step(s[i - 1], f[i])
  BY <1>3, <1>4, StepsAre
<1>6. PICK K : K = {k \in 0 .. n : GoneAgain(S, s[k], q, r, k)}
  OBVIOUS
<1>7. Agree(S, m, r[0]) /\ SameModes(m, r[0])
  BY <1>1, AgreeFacts
<1>8. 0 \in K
  <2>1. s[0].ok /\ s[0].wrote = <<>> /\ s[0].model = m
    BY <1>5 DEF Start
  <2>2. Len(s[0].wrote) = 0
    BY <2>1
  <2>3. QED
    BY <1>6, <1>7, <2>1, <2>2 DEF GoneAgain
<1>9. ASSUME NEW k \in 1 .. n, k - 1 \in K PROVE k \in K
  <2>1. k - 1 \in 0 .. n /\ k \in 0 .. n /\ k \in 1 .. Len(q)
    BY <1>2
  <2>2. s[k - 1] \in Runs /\ GoneAgain(S, s[k - 1], q, r, k - 1)
    BY <1>5, <1>6, <1>9, <2>1
  <2>3. GoneAgain(S, Step(s[k - 1], f[k]), q, r, k)
    BY <1>1, <1>3, <2>1, <2>2, OneAgain
  <2>4. QED
    BY <1>5, <1>6, <2>1, <2>3
<1>10. \A k \in 0 .. n : k \in K
  BY <1>8, <1>9, UpTo
<1>11. GoneAgain(S, s[n], q, r, n) /\ s[n] \in Runs
  BY <1>5, <1>6, <1>10
<1>12. Run(m, f) = s[n]
  BY <1>3, <1>4 DEF Run
<1>13. run = s[n]
  BY <1>3, <1>11, <1>12 DEF Apply, GoneAgain
<1>14. /\ run \in Runs /\ run.model \in Models /\ run.wrote \in Seq(Cell) /\ Len(run.wrote) = n
       /\ SameModes(run.model, r[n])
       /\ (\A i \in 1 .. n : run.wrote[i] = q[i] \/ {run.wrote[i], q[i]} \subseteq S)
              => Agree(S, run.model, r[n])
  BY <1>11, <1>13 DEF GoneAgain, Runs
<1>15. Confined(run, m, f)
  BY <1>3, <1>12, <1>13, RunConfined
<1>16. run.model[Media] = m[Media]
  BY <1>15, CellsApart DEF Confined
<1>17. Run(run.model, cmd.inverse).wrote = Reverse(p)
  <2>1. PICK now : now = run.model
    OBVIOUS
  <2>2. Retraces(cmd.inverse, q, p, r) /\ now \in Models /\ SameModes(now, r[Len(q)])
    BY <1>1, <1>2, <1>14, <2>1 DEF Spans
  <2>3. Run(now, cmd.inverse).wrote = Reverse(p)
    BY <1>1, <2>2, Retraced
  <2>4. QED
    BY <2>1, <2>3
<1>18. T = S \cup (IF Reverse(p) = Reverse(run.wrote) THEN {} ELSE Range(run.wrote) \cup Range(Reverse(p)))
  BY <1>17 DEF Astray
<1>19. q \in Seq(Cell) /\ p \in Seq(Cell)
  BY <1>2, CellsApart
<1>20. Range(Reverse(p)) = Range(p) /\ (Reverse(p) = Reverse(run.wrote) => p = run.wrote)
  BY <1>2, <1>14, <1>19, ReverseFacts
<1>21. S \subseteq T /\ Agree(T, r[n], a)
  BY <1>1, <1>2, <1>18, AgreeFacts
<1>22. CASE p = run.wrote
  <2>1. \A i \in 1 .. n : run.wrote[i] = q[i] \/ {run.wrote[i], q[i]} \subseteq S
    BY <1>1, <1>2, <1>22 DEF Within
  <2>2. Agree(S, run.model, r[n])
    BY <1>14, <2>1
  <2>3. Agree(T, run.model, r[n])
    BY <1>21, <2>2, AgreeFacts
  <2>4. Agree(T, run.model, a)
    BY <1>21, <2>3, AgreeFacts
  <2>5. QED
    BY <1>14, <1>16, <2>4
<1>23. CASE p # run.wrote
  <2>1. T = S \cup Range(run.wrote) \cup Range(p)
    BY <1>18, <1>20, <1>23
  <2>2. \A c \in Range(q) : c \in Range(p) \/ c \in S
    <3>1. DOMAIN q = 1 .. n /\ DOMAIN p = 1 .. n
      BY <1>2, IsSeq
    <3>2. SUFFICES ASSUME NEW i \in 1 .. n PROVE q[i] \in Range(p) \/ q[i] \in S
      BY <3>1 DEF Range
    <3>3. p[i] = q[i] \/ {p[i], q[i]} \subseteq S
      BY <1>1, <1>2 DEF Within
    <3>4. QED
      BY <3>1, <3>3 DEF Range
  <2>3. ASSUME NEW c \in Undoable, c \in ModeCells \/ c \notin T PROVE run.model[c] = r[n][c]
    <3>1. CASE c \in ModeCells
      BY <1>14, <3>1 DEF SameModes
    <3>2. CASE c \notin ModeCells
      <4>1. c \in Cell /\ c \notin S /\ c \notin Range(run.wrote) /\ c \notin Range(q)
        BY <2>1, <2>2, <2>3, <3>2, CellsApart
      <4>2. run.model[c] = m[c]
        BY <1>15, <4>1 DEF Confined
      <4>3. m[c] = r[0][c]
        BY <1>7, <4>1 DEF Agree
      <4>4. r[n][c] = r[0][c]
        <5>1. Retraces(cmd.inverse, q, p, r)
          BY <1>1 DEF Spans
        <5>2. \A d \in Cell : d \notin Range(q) => r[Len(q)][d] = r[0][d]
          BY <5>1, EndsDiffer
        <5>3. QED
          BY <1>2, <4>1, <5>2
      <4>5. QED
        BY <4>2, <4>3, <4>4
    <3>3. QED
      BY <3>1, <3>2
  <2>4. Agree(T, run.model, r[n])
    BY <2>3 DEF Agree
  <2>5. QED
    BY <1>14, <1>16, <1>21, <2>4, AgreeFacts
<1>24. QED
  BY <1>22, <1>23

LEMMA LeadsStill ==
    ASSUME NEW S, NEW T, S \subseteq T, NEW cmd, NEW b, NEW a, Leads(S, cmd, b, a),
           NEW b2, NEW a2, Agree(T, b2, b), Agree(T, a, a2)
    PROVE  Leads(T, cmd, b2, a2)
<1>1. PICK q, p, r : /\ Spans(cmd, q, p, r) /\ Within(S, q, p)
                     /\ Agree(S, b, r[0]) /\ Agree(S, r[Len(q)], a)
  BY DEF Leads
<1>2. Agree(T, b, r[0]) /\ Agree(T, r[Len(q)], a)
  BY <1>1, AgreeFacts
<1>3. Agree(T, b2, r[0]) /\ Agree(T, r[Len(q)], a2)
  BY <1>2, AgreeFacts
<1>4. Within(T, q, p)
  BY <1>1 DEF Within
<1>5. QED
  BY <1>1, <1>3, <1>4 DEF Leads

LEMMA AppliedRuns ==
    ASSUME NEW m \in Models, NEW verbs \in Seq(Verbs), locator \in Frame, Apply(m, verbs).ok
    PROVE  Apply(m, verbs) = Run(m, verbs) /\ Run(m, verbs).ok /\ Run(m, verbs) \in Runs
<1>1. PICK run : run = Run(m, verbs)
  OBVIOUS
<1>2. run \in Runs
  BY <1>1, RunConfined
<1>3. ASSUME ~run.ok PROVE FALSE
  <2>1. \E model2, wrote2 : Apply(m, verbs) = [run EXCEPT !.model = model2, !.wrote = wrote2]
    BY <1>1, <1>3 DEF Apply
  <2>2. Apply(m, verbs).ok = run.ok
    BY <1>2, <2>1 DEF Runs
  <2>3. QED
    BY <1>3, <2>2
<1>4. QED
  BY <1>1, <1>2, <1>3 DEF Apply

\* An undoable run has met no verb without an inverse.
LEMMA UndoableHasInverses ==
    ASSUME NEW m \in Models, NEW verbs \in Seq(Verbs), locator \in Frame,
           Run(m, verbs).ok, Run(m, verbs).undoable
    PROVE  \A i \in 1 .. Len(verbs) : verbs[i].op # "property"
<1>1. PICK n \in Nat : n = Len(verbs)
  OBVIOUS
<1>2. PICK s : s = Steps(m, verbs)
  OBVIOUS
<1>3. s \in [0 .. n -> Runs] /\ Run(m, verbs) = s[n] /\ n \in 0 .. n
  BY <1>1, <1>2, StepsAre DEF Run
<1>4. \A i \in 1 .. n : /\ s[i - 1] \in Runs /\ s[i] \in Runs /\ verbs[i] \in Verbs
                        /\ Writes(s[i - 1], s[i], verbs[i], TargetOf(s[i - 1].model, verbs[i]))
  BY <1>1, <1>2, <1>3, RunSoFar
<1>5. PICK K : K = {k \in 0 .. n : s[k].undoable => \A i \in 1 .. k : verbs[i].op # "property"}
  OBVIOUS
<1>6. 0 \in K
  BY <1>5
<1>7. ASSUME NEW k \in 1 .. n, k - 1 \in K PROVE k \in K
  <2>1. SUFFICES ASSUME s[k].undoable PROVE \A i \in 1 .. k : verbs[i].op # "property"
    BY <1>5
  <2>2. PICK cell : cell = TargetOf(s[k - 1].model, verbs[k])
    OBVIOUS
  <2>3. PICK old : old = s[k - 1].model[cell]
    OBVIOUS
  <2>4. s[k - 1].model \in Models
    BY <1>4 DEF Runs
  <2>5. cell \in Cell /\ old \in Int
    BY <1>4, <2>2, <2>3, <2>4, Targets DEF Models
  <2>6. s[k].undoable = (s[k - 1].undoable /\ InverseOf(verbs[k], cell, old) # <<>>)
    BY <1>4, <2>2, <2>3, ZenonT(30) DEF Writes
  <2>7. s[k - 1].undoable /\ InverseOf(verbs[k], cell, old) # <<>>
    BY <2>1, <2>6
  <2>8. cell \in Undoable
    <3>1. PICK before, verb : before = s[k - 1].model /\ verb = verbs[k]
      OBVIOUS
    <3>2. before \in Models /\ verb \in Verbs /\ Target(before, verb, cell)
      BY <1>4, <2>2, <2>4, <3>1, TargetIs
    <3>3. cell \notin Undoable => InverseOf(verb, cell, old) = <<>>
      BY <2>5, <3>2, Inverses
    <3>4. QED
      BY <2>7, <3>1, <3>3
  <2>9. verbs[k].op # "property"
    <3>1. verbs[k].op = "property" => cell = Property
      BY <2>2 DEF TargetOf
    <3>2. QED
      BY <2>8, <3>1, CellsApart
  <2>10. \A i \in 1 .. k - 1 : verbs[i].op # "property"
    BY <1>5, <1>7, <2>7
  <2>11. \A i \in 1 .. k : i = k \/ i \in 1 .. k - 1
    OBVIOUS
  <2>12. QED
    BY <2>9, <2>10, <2>11
<1>8. \A k \in 0 .. n : k \in K
  BY <1>6, <1>7, UpTo
<1>9. n \in K
  BY <1>3, <1>8
<1>10. QED
  BY <1>1, <1>3, <1>5, <1>9

\* An action that was applied, and its inverse, are a command that leads from the model
\* before to the model after.
LEMMA NewCommand ==
    ASSUME NEW m \in Models, NEW verbs \in Seq(Verbs), locator \in Frame,
           NEW run, run = Apply(m, verbs), run.ok, run.undoable,
           NEW cmd, cmd.forward = verbs, cmd.inverse = run.inverse, NEW S,
           Astray(run.model, run.wrote, cmd.inverse) \subseteq S
    PROVE  Leads(S, cmd, m, run.model)
<1>1. PICK n \in Nat : n = Len(verbs)
  OBVIOUS
<1>2. run = Run(m, verbs)
  BY AppliedRuns
<1>3. PICK s : s = Steps(m, verbs)
  OBVIOUS
<1>4. s \in [0 .. n -> Runs] /\ s[0] = Start(m) /\ run = s[n] /\ n \in 0 .. n
  BY <1>1, <1>2, <1>3, StepsAre DEF Run
<1>5. \A i \in 1 .. n : verbs[i].op # "property"
  BY <1>1, <1>2, UndoableHasInverses
<1>6. PICK r : r = [i \in 0 .. n |-> s[i].model]
  OBVIOUS
<1>7. Traced(run, verbs, r, n)
  BY <1>1, <1>3, <1>4, <1>5, <1>6, RunTraced
<1>8. \A i \in 1 .. n : s[i - 1] \in Runs /\ verbs[i] \in Verbs /\ ~Refused(verbs[i])
  BY <1>1, <1>3, <1>4, RunSoFar, SMTT(30)
<1>9. PICK q : q = run.wrote
  OBVIOUS
<1>10. /\ Len(q) = n
       /\ \A i \in 1 .. n : /\ q[i] = TargetOf(r[i - 1], verbs[i])
                            /\ r[i] = [r[i - 1] EXCEPT ![q[i]] = verbs[i].value]
  BY <1>7, <1>9 DEF Traced
<1>16. PICK p : Retraces(cmd.inverse, q, p, r)
  BY <1>7, <1>9 DEF Traced
<1>11. r[0] = m /\ r[n] = run.model /\ \A i \in 1 .. n : r[i - 1] \in Models
  <2>1. s[0].model = m
    BY <1>4 DEF Start
  <2>2. 0 \in 0 .. n /\ \A i \in 1 .. n : i - 1 \in 0 .. n
    OBVIOUS
  <2>3. \A i \in 0 .. n : s[i].model \in Models
    BY <1>4 DEF Runs
  <2>4. QED
    BY <1>4, <1>6, <2>1, <2>2, <2>3
<1>12. \A i \in 1 .. n : /\ verbs[i].op = "mode" => q[i] = Mode(verbs[i].track)
                         /\ verbs[i].op # "mode" => q[i] \notin ModeCells
  <2>1. TAKE i \in 1 .. n
  <2>2. r[i - 1] \in Models /\ verbs[i] \in Verbs /\ q[i] = TargetOf(r[i - 1], verbs[i])
    BY <1>8, <1>10, <1>11
  <2>3. /\ verbs[i].op = "mode" => TargetOf(r[i - 1], verbs[i]) = Mode(verbs[i].track)
        /\ verbs[i].op # "mode" => TargetOf(r[i - 1], verbs[i]) \notin ModeCells
    BY <2>2, Targets
  <2>4. QED
    BY <2>2, <2>3
<1>13. Spans(cmd, q, p, r)
  BY <1>1, <1>5, <1>8, <1>10, <1>12, <1>16 DEF Spans
<1>14. Agree(S, m, r[0]) /\ Agree(S, r[Len(q)], run.model)
  BY <1>10, <1>11 DEF Agree
<1>17. /\ q \in Seq(Cell) /\ p \in Seq(Cell) /\ Len(p) = Len(q)
       /\ \A i \in 1 .. Len(q) : {p[i], q[i]} \subseteq Cell
  BY <1>16, CellsApart DEF Retraces
<1>18. Run(run.model, cmd.inverse).wrote = Reverse(p)
  <2>1. Within(Cell, q, p)
    BY <1>17 DEF Within
  <2>2. PICK a : a = run.model
    OBVIOUS
  <2>3. a \in Models /\ SameModes(a, r[Len(q)])
    BY <1>4, <1>10, <1>11, <2>2 DEF Runs, SameModes
  <2>4. Run(a, cmd.inverse).wrote = Reverse(p)
    BY <1>16, <2>1, <2>3, Retraced
  <2>5. QED
    BY <2>2, <2>4
<1>19. Within(S, q, p)
  <2>1. Reverse(p) = Reverse(q) \/ Range(q) \cup Range(Reverse(p)) \subseteq S
    BY <1>9, <1>18 DEF Astray
  <2>2. Range(Reverse(p)) = Range(p)
    BY <1>17, ReverseFacts
  <2>3. QED
    BY <1>17, <2>1, <2>2, WithinAstray
<1>15. QED
  BY <1>13, <1>14, <1>19 DEF Leads

\* The edits of a drag merge: the older inverse, the newer verb.
LEMMA MergedCommand ==
    ASSUME NEW S, NEW old, NEW b, NEW a, Leads(S, old, b, a), NEW m \in Models, Agree(S, m, a),
           locator \in Frame, NEW verbs \in Seq(Verbs), NEW run, run = Apply(m, verbs), run.ok,
           Len(verbs) = 1, verbs[1].op = "volume", Len(old.forward) = 1,
           old.forward[1].op = "volume",
           NEW cmd, cmd.forward = verbs, cmd.inverse = old.inverse,
           NEW T, T = S \cup Astray(run.model, run.wrote, cmd.inverse)
    PROVE  Leads(T, cmd, b, run.model)
<1>1. PICK q, p, r : /\ Spans(old, q, p, r) /\ Within(S, q, p)
                     /\ Agree(S, b, r[0]) /\ Agree(S, r[Len(q)], a)
  BY DEF Leads
<1>2. Len(q) = 1 /\ q \in Seq(Undoable) /\ Len(p) = 1 /\ p \in Seq(Undoable)
  BY <1>1 DEF Spans, Retraces
<1>3. r \in [0 .. 1 -> Models] /\ Retraces(old.inverse, q, p, r)
  BY <1>1, <1>2 DEF Spans, Retraces
<1>4. PICK cell \in Undoable : cell = q[1] /\ cell \in Cell
  BY <1>2, CellsApart
<1>29. PICK named \in Undoable : named = p[1] /\ named \in Cell
  BY <1>2, CellsApart
<1>5. PICK back : back = old.inverse[1]
  OBVIOUS
<1>6. /\ Unwrites(back, cell, named, r[0], r[1]) /\ old.inverse \in Seq(Verbs) /\ Len(old.inverse) = 1
      /\ r[0] \in Models /\ r[1] \in Models
  <2>1. 1 + 1 - 1 = 1 /\ 1 - 1 = 0 /\ 1 \in 1 .. 1 /\ 0 \in 0 .. 1 /\ 1 \in 0 .. 1
    OBVIOUS
  <2>2. QED
    BY <1>2, <1>3, <1>4, <1>5, <1>29, <2>1 DEF Retraces
<1>7. Run(m, verbs) = run /\ run \in Runs
  BY AppliedRuns
<1>8. verbs[1] \in Verbs /\ verbs[1].value \in Int /\ ~(verbs[1].op = "mode") /\ verbs[1].op # "property"
  <2>1. verbs[1] \in Verbs
    OBVIOUS
  <2>2. QED
    BY <2>1, VerbFields
<1>9. PICK c1 : c1 = TargetOf(m, verbs[1])
  OBVIOUS
<1>10. /\ c1 \in Undoable /\ c1 \in Cell /\ c1 \notin ModeCells /\ ~Refused(verbs[1])
       /\ run.wrote = Append(<<>>, c1) /\ run.model = [m EXCEPT ![c1] = verbs[1].value]
  <2>1. PICK s : s = Steps(m, verbs)
    OBVIOUS
  <2>2. s[0] = Start(m) /\ run = s[1] /\ 1 \in 0 .. 1 /\ 1 \in 1 .. 1 /\ 1 - 1 = 0
    BY <1>7, <2>1, StepsAre DEF Run
  <2>3. ~Refused(verbs[1]) /\ Writes(s[0], s[1], verbs[1], TargetOf(s[0].model, verbs[1]))
    BY <2>1, <2>2, RunSoFar
  <2>4. s[0].model = m /\ s[0].wrote = <<>>
    BY <2>2 DEF Start
  <2>5. run.wrote = Append(<<>>, c1) /\ run.model = [m EXCEPT ![c1] = verbs[1].value]
    BY <1>9, <2>2, <2>3, <2>4 DEF Writes
  <2>6. c1 \in Undoable /\ c1 \in Cell /\ c1 \notin ModeCells
    BY <1>8, <1>9, Targets
  <2>7. QED
    BY <2>3, <2>5, <2>6
<1>11. cell \notin ModeCells
  <2>1. /\ old.forward[1].op = "mode" => q[1] = Mode(old.forward[1].track)
        /\ old.forward[1].op # "mode" => q[1] \notin ModeCells
        /\ r[1] = [r[0] EXCEPT ![q[1]] = old.forward[1].value]
    <3>1. 1 - 1 = 0 /\ 1 \in 1 .. 1
      OBVIOUS
    <3>2. QED
      BY <1>1, <1>2, <3>1 DEF Spans
  <2>2. QED
    BY <1>4, <2>1
<1>12. PICK v : v = verbs[1].value
  OBVIOUS
<1>13. PICK r1 : r1 = [r[0] EXCEPT ![cell] = v]
  OBVIOUS
<1>14. r1 \in Models /\ \A c \in Cell : r1[c] = IF c = cell THEN v ELSE r[0][c]
  BY <1>4, <1>6, <1>8, <1>12, <1>13 DEF Models
<1>15. PICK r2 : r2 = [i \in 0 .. 1 |-> IF i = 0 THEN r[0] ELSE r1]
  OBVIOUS
<1>16. r2 \in [0 .. 1 -> Models] /\ r2[0] = r[0] /\ r2[1] = r1
  BY <1>6, <1>14, <1>15
<1>17. Unwrites(back, cell, named, r[0], r1)
  <2>1. \A t \in Track : Mode(t) \in ModeCells /\ Mode(t) \in Cell
    BY CellsApart DEF ModeCells
  <2>2. \A t \in Track : r1[Mode(t)] = r[1][Mode(t)]
    BY <1>6, <1>11, <1>14, <2>1 DEF Unwrites
  <2>3. Reaches(back, named, r1)
    BY <1>6, <2>2 DEF Unwrites, Reaches, Redirected
  <2>4. QED
    BY <1>6, <1>14, <2>3 DEF Unwrites
<1>18. Retraces(cmd.inverse, q, p, r2)
  <2>1. \A i \in 1 .. 1 : i = 1 /\ 1 + 1 - i = 1 /\ i - 1 = 0
    OBVIOUS
  <2>2. \A i \in 1 .. 1 : Unwrites(cmd.inverse[1 + 1 - i], q[i], p[i], r2[i - 1], r2[i])
    BY <1>4, <1>5, <1>16, <1>17, <1>29, <2>1
  <2>3. QED
    BY <1>2, <1>6, <1>16, <2>2 DEF Retraces
<1>19. Spans(cmd, q, p, r2)
  <2>1. \A i \in 1 .. 1 : i = 1 /\ i - 1 = 0
    OBVIOUS
  <2>2. r2[1] = [r2[0] EXCEPT ![q[1]] = cmd.forward[1].value]
    BY <1>4, <1>12, <1>13, <1>16
  <2>3. QED
    BY <1>2, <1>4, <1>8, <1>10, <1>11, <1>18, <2>1, <2>2 DEF Spans
<1>20. Agree(S, m, r[1]) /\ SameModes(run.model, r[1])
  <2>1. Agree(S, m, r[1])
    <3>1. PICK last : last = r[1]
      OBVIOUS
    <3>2. Agree(S, last, a)
      BY <1>1, <1>2, <3>1
    <3>3. Agree(S, a, last)
      BY <3>2, AgreeFacts
    <3>4. Agree(S, m, last)
      BY <3>3, AgreeFacts
    <3>5. QED
      BY <3>1, <3>4
  <2>2. SameModes(m, r[1])
    BY <2>1, AgreeFacts
  <2>3. \A c \in ModeCells : run.model[c] = m[c]
    BY <1>10, CellsApart DEF Models
  <2>4. QED
    BY <2>1, <2>2, <2>3 DEF SameModes
<1>21. Run(run.model, cmd.inverse).wrote = Reverse(p)
  <2>1. PICK now : now = run.model
    OBVIOUS
  <2>2. now \in Models
    BY <1>7, <2>1 DEF Runs
  <2>3. SameModes(now, r[Len(q)]) /\ Retraces(cmd.inverse, q, p, r)
    BY <1>2, <1>3, <1>20, <2>1
  <2>4. Run(now, cmd.inverse).wrote = Reverse(p)
    BY <1>1, <2>2, <2>3, Retraced
  <2>5. QED
    BY <2>1, <2>4
<1>22. /\ run.wrote \in Seq(Undoable) /\ Len(run.wrote) = 1 /\ run.wrote[1] = c1
       /\ Range(run.wrote) = {c1} /\ Range(p) = {named}
  <2>1. run.wrote \in Seq(Undoable) /\ Len(run.wrote) = 1 /\ run.wrote[1] = c1
    BY <1>10
  <2>2. DOMAIN run.wrote = 1 .. 1 /\ DOMAIN p = 1 .. 1
    BY <1>2, <2>1, IsSeq
  <2>3. \A i \in 1 .. 1 : i = 1
    OBVIOUS
  <2>4. 1 \in 1 .. 1
    OBVIOUS
  <2>5. QED
    BY <1>29, <2>1, <2>2, <2>3, <2>4 DEF Range
<1>23. Range(Reverse(p)) = Range(p) /\ (Reverse(p) = Reverse(run.wrote) => p = run.wrote)
  BY <1>2, <1>22, ReverseFacts
<1>30. c1 = named \/ {c1, named} \subseteq T
  BY <1>21, <1>22, <1>23, <1>29 DEF Astray
<1>31. named = cell \/ {named, cell} \subseteq T
  <2>1. 1 \in 1 .. 1
    OBVIOUS
  <2>2. QED
    BY <1>1, <1>2, <1>4, <1>29, <2>1 DEF Within
<1>24. c1 = cell \/ {c1, cell} \subseteq T
  BY <1>30, <1>31
<1>25. S \subseteq T
  OBVIOUS
<1>26. Agree(T, r1, run.model)
  <2>1. SUFFICES ASSUME NEW c \in Undoable, c \in ModeCells \/ c \notin T PROVE r1[c] = run.model[c]
    BY DEF Agree
  <2>2. c \in Cell
    BY CellsApart
  <2>3. run.model[c] = IF c = c1 THEN v ELSE m[c]
    BY <1>10, <1>12, <2>2 DEF Models
  <2>4. c = c1 <=> c = cell
    BY <1>10, <1>11, <1>24, <2>1
  <2>5. CASE c = cell
    BY <1>14, <2>2, <2>3, <2>4, <2>5
  <2>6. CASE c # cell
    <3>1. r1[c] = r[1][c]
      BY <1>6, <1>14, <2>2, <2>6 DEF Unwrites
    <3>2. m[c] = r[1][c]
      BY <1>20, <2>1 DEF Agree
    <3>3. QED
      BY <2>3, <2>4, <2>6, <3>1, <3>2
  <2>7. QED
    BY <2>5, <2>6
<1>27. Agree(T, b, r2[0])
  <2>1. PICK first : first = r[0]
    OBVIOUS
  <2>2. Agree(S, b, first)
    BY <1>1, <2>1
  <2>3. Agree(T, b, first)
    BY <1>25, <2>2 DEF Agree
  <2>4. QED
    BY <1>16, <2>1, <2>3
<1>32. Within(T, q, p)
  BY <1>1, <1>25 DEF Within
<1>28. QED
  BY <1>2, <1>16, <1>19, <1>26, <1>27, <1>32 DEF Leads

-----------------------------------------------------------------------------
(***************************************************************************)
(* Entries of the stack: commands one after the other                      *)
(***************************************************************************)
Commands == [forward : Seq(Verbs), inverse : Seq(Verbs), gesture : Nat, merged : SUBSET Nat]

\* The models a sequence of commands leads through.
Through(S, cmds, via) ==
    /\ via \in [0 .. Len(cmds) -> Models]
    /\ \A i \in 1 .. Len(cmds) : Leads(S, cmds[i], via[i - 1], via[i])

Links(S, cmds, b, a) ==
    /\ cmds \in Seq(Commands)
    /\ \E via : Through(S, cmds, via) /\ Agree(S, b, via[0]) /\ Agree(S, via[Len(cmds)], a)

LEMMA LinksStill ==
    ASSUME NEW S, NEW T, S \subseteq T, NEW cmds, NEW b, NEW a, Links(S, cmds, b, a),
           NEW b2, NEW a2, Agree(T, b2, b), Agree(T, a, a2)
    PROVE  Links(T, cmds, b2, a2)
<1>1. PICK via : Through(S, cmds, via) /\ Agree(S, b, via[0]) /\ Agree(S, via[Len(cmds)], a)
  BY DEF Links
<1>2. Agree(T, b, via[0]) /\ Agree(T, via[Len(cmds)], a)
  BY <1>1, AgreeFacts
<1>3. Agree(T, b2, via[0]) /\ Agree(T, via[Len(cmds)], a2)
  BY <1>2, AgreeFacts
<1>4. \A i \in 1 .. Len(cmds) : Leads(T, cmds[i], via[i - 1], via[i])
  <2>1. TAKE i \in 1 .. Len(cmds)
  <2>2. Leads(S, cmds[i], via[i - 1], via[i])
    BY <1>1 DEF Through
  <2>3. Agree(T, via[i - 1], via[i - 1]) /\ Agree(T, via[i], via[i])
    BY AgreeFacts
  <2>4. QED
    BY <2>2, <2>3, LeadsStill
<1>5. Through(T, cmds, via)
  BY <1>1, <1>4 DEF Through
<1>6. QED
  BY <1>3, <1>5 DEF Links

LEMMA LinksNothing ==
    ASSUME NEW S, NEW b \in Models, NEW a, Agree(S, b, a)
    PROVE  Links(S, <<>>, b, a)
<1>1. PICK via : via = [i \in 0 .. 0 |-> b]
  OBVIOUS
<1>2. <<>> \in Seq(Commands) /\ Len(<<>>) = 0 /\ via[0] = b /\ via \in [0 .. 0 -> Models]
  BY <1>1
<1>3. Through(S, <<>>, via)
  BY <1>2 DEF Through
<1>4. Agree(S, b, via[0]) /\ Agree(S, via[Len(<<>>)], a)
  BY <1>2, AgreeFacts
<1>5. QED
  BY <1>2, <1>3, <1>4 DEF Links

LEMMA LinksMore ==
    ASSUME NEW S, NEW cmds, NEW b, NEW a, Links(S, cmds, b, a), NEW cmd \in Commands,
           NEW a2 \in Models, Leads(S, cmd, a, a2)
    PROVE  Links(S, cmds \o <<cmd>>, b, a2)
<1>1. PICK via : Through(S, cmds, via) /\ Agree(S, b, via[0]) /\ Agree(S, via[Len(cmds)], a)
  BY DEF Links
<1>2. PICK n \in Nat : n = Len(cmds) /\ cmds \in Seq(Commands)
  BY DEF Links
<1>3. PICK all : all = cmds \o <<cmd>>
  OBVIOUS
<1>4. /\ all \in Seq(Commands) /\ Len(all) = n + 1 /\ all[n + 1] = cmd
      /\ \A i \in 1 .. n : all[i] = cmds[i]
  BY <1>2, <1>3
<1>5. PICK via2 : via2 = [i \in 0 .. n + 1 |-> IF i = n + 1 THEN a2 ELSE via[i]]
  OBVIOUS
<1>6. \A i \in 0 .. n + 1 : i = n + 1 \/ i \in 0 .. n
  OBVIOUS
<1>7. \A i \in 0 .. n : i \in 0 .. n + 1 /\ i # n + 1
  OBVIOUS
<1>8. via \in [0 .. n -> Models]
  BY <1>1, <1>2 DEF Through
<1>9. via2 \in [0 .. n + 1 -> Models] /\ via2[n + 1] = a2 /\ \A i \in 0 .. n : via2[i] = via[i]
  BY <1>5, <1>6, <1>7, <1>8
<1>10. Leads(S, cmd, via[n], a2)
  <2>1. Agree(S, via[n], a) /\ Agree(S, a2, a2)
    BY <1>1, <1>2, AgreeFacts
  <2>2. QED
    BY <2>1, LeadsStill
<1>11. ASSUME NEW i \in 1 .. n + 1 PROVE Leads(S, all[i], via2[i - 1], via2[i])
  <2>1. CASE i = n + 1
    <3>1. i - 1 = n /\ n \in 0 .. n
      BY <2>1
    <3>2. QED
      BY <1>4, <1>9, <1>10, <2>1, <3>1
  <2>2. CASE i # n + 1
    <3>1. i \in 1 .. n /\ i \in 0 .. n /\ i - 1 \in 0 .. n
      BY <2>2
    <3>2. Leads(S, cmds[i], via[i - 1], via[i])
      BY <1>1, <1>2, <3>1 DEF Through
    <3>3. QED
      BY <1>4, <1>9, <3>1, <3>2
  <2>3. QED
    BY <2>1, <2>2
<1>12. Through(S, all, via2)
  BY <1>4, <1>9, <1>11 DEF Through
<1>13. Agree(S, b, via2[0]) /\ Agree(S, via2[Len(all)], a2)
  <2>1. 0 \in 0 .. n
    OBVIOUS
  <2>2. QED
    BY <1>1, <1>4, <1>9, <2>1, AgreeFacts
<1>14. QED
  BY <1>3, <1>4, <1>12, <1>13 DEF Links

LEMMA LinksLast ==
    ASSUME NEW S, NEW cmds, NEW b, NEW a, Links(S, cmds, b, a), cmds # <<>>
    PROVE  /\ Last(cmds) \in Commands
           /\ \E mid \in Models : Links(S, Front(cmds), b, mid) /\ Leads(S, Last(cmds), mid, a)
<1>1. PICK via : Through(S, cmds, via) /\ Agree(S, b, via[0]) /\ Agree(S, via[Len(cmds)], a)
  BY DEF Links
<1>2. PICK n \in Nat : n = Len(cmds) /\ cmds \in Seq(Commands)
  BY DEF Links
<1>3. PICK k \in Nat : n = k + 1
  <2>1. n # 0
    BY <1>2
  <2>2. n - 1 \in Nat /\ n = (n - 1) + 1
    BY <2>1
  <2>3. QED
    BY <2>2
<1>4. Last(cmds) = cmds[n] /\ n \in 1 .. n /\ n - 1 = k /\ k \in 0 .. n /\ n \in 0 .. n
  BY <1>2, <1>3 DEF Last
<1>5. Last(cmds) \in Commands
  BY <1>2, <1>4
<1>6. PICK front : front = Front(cmds)
  OBVIOUS
<1>7. /\ front \in Seq(Commands) /\ Len(front) = k /\ \A i \in 1 .. k : front[i] = cmds[i]
  <2>1. k \in 0 .. Len(cmds)
    BY <1>2, <1>3
  <2>2. front = SubSeq(cmds, 1, k)
    BY <1>2, <1>4, <1>6 DEF Front
  <2>3. QED
    BY <1>2, <2>1, <2>2
<1>8. via \in [0 .. n -> Models] /\ \A i \in 1 .. n : Leads(S, cmds[i], via[i - 1], via[i])
  BY <1>1, <1>2 DEF Through
<1>9. PICK via2 : via2 = [i \in 0 .. k |-> via[i]]
  OBVIOUS
<1>10. \A i \in 0 .. k : i \in 0 .. n
  BY <1>3
<1>11. via2 \in [0 .. k -> Models] /\ \A i \in 0 .. k : via2[i] = via[i]
  BY <1>8, <1>9, <1>10
<1>12. ASSUME NEW i \in 1 .. k PROVE Leads(S, front[i], via2[i - 1], via2[i])
  <2>1. i \in 1 .. n /\ i \in 0 .. k /\ i - 1 \in 0 .. k
    BY <1>3
  <2>2. QED
    BY <1>7, <1>8, <1>11, <2>1
<1>13. Through(S, front, via2)
  BY <1>7, <1>11, <1>12 DEF Through
<1>14. Links(S, front, b, via[k])
  <2>1. 0 \in 0 .. k /\ k \in 0 .. k
    OBVIOUS
  <2>2. Agree(S, b, via2[0]) /\ Agree(S, via2[Len(front)], via[k])
    BY <1>1, <1>7, <1>11, <2>1, AgreeFacts
  <2>3. QED
    BY <1>7, <1>13, <2>2 DEF Links
<1>15. Leads(S, Last(cmds), via[k], a)
  <2>1. Leads(S, Last(cmds), via[k], via[n])
    BY <1>4, <1>8
  <2>2. Agree(S, via[k], via[k]) /\ Agree(S, via[n], a)
    BY <1>1, <1>2, AgreeFacts
  <2>3. QED
    BY <2>1, <2>2, LeadsStill
<1>16. via[k] \in Models
  BY <1>4, <1>8
<1>17. QED
  BY <1>5, <1>6, <1>14, <1>15, <1>16

LEMMA LinksOne ==
    ASSUME NEW S, NEW cmd, NEW b \in Models, NEW a \in Models
    PROVE  /\ cmd \in Commands /\ Leads(S, cmd, b, a) => Links(S, <<cmd>>, b, a)
           /\ Links(S, <<cmd>>, b, a) => cmd \in Commands /\ Leads(S, cmd, b, a)
<1>1. ASSUME cmd \in Commands, Leads(S, cmd, b, a) PROVE Links(S, <<cmd>>, b, a)
  <2>1. Links(S, <<>>, b, b)
    BY LinksNothing, AgreeFacts
  <2>2. Links(S, <<>> \o <<cmd>>, b, a)
    BY <1>1, <2>1, LinksMore
  <2>3. <<>> \o <<cmd>> = <<cmd>>
    OBVIOUS
  <2>4. QED
    BY <2>2, <2>3
<1>2. ASSUME Links(S, <<cmd>>, b, a) PROVE cmd \in Commands /\ Leads(S, cmd, b, a)
  <2>1. PICK via : /\ Through(S, <<cmd>>, via) /\ Agree(S, b, via[0])
                   /\ Agree(S, via[Len(<<cmd>>)], a)
    BY <1>2 DEF Links
  <2>2. Len(<<cmd>>) = 1 /\ <<cmd>>[1] = cmd /\ 1 \in 1 .. 1 /\ 1 - 1 = 0
    OBVIOUS
  <2>3. Leads(S, cmd, via[0], via[1])
    BY <2>1, <2>2 DEF Through
  <2>4. Agree(S, b, via[0]) /\ Agree(S, via[1], a)
    BY <2>1, <2>2
  <2>5. Leads(S, cmd, b, a)
    BY <2>3, <2>4, LeadsStill
  <2>6. cmd \in Commands
    <3>1. <<cmd>> \in Seq(Commands)
      BY <1>2 DEF Links
    <3>2. QED
      BY <2>2, <3>1
  <2>7. QED
    BY <2>5, <2>6
<1>3. QED
  BY <1>1, <1>2

\* Whatever is applied leaves a model; media references are moved by no verb.
LEMMA Applied ==
    ASSUME NEW m \in Models, NEW verbs \in Seq(Verbs), locator \in Frame
    PROVE  /\ Apply(m, verbs).model \in Models /\ Apply(m, verbs).wrote \in Seq(Cell)
           /\ Apply(m, verbs).inverse \in Seq(Verbs)
<1>1. PICK run : run = Run(m, verbs)
  OBVIOUS
<1>2. run \in Runs
  BY <1>1, RunConfined
<1>3. run.model \in Models /\ run.wrote \in Seq(Cell) /\ run.inverse \in Seq(Verbs)
  BY <1>2 DEF Runs
<1>4. CASE run.ok
  BY <1>1, <1>3, <1>4 DEF Apply
<1>5. CASE ~run.ok
  <2>1. PICK back : back = RolledBack(run)
    OBVIOUS
  <2>2. back \in Runs
    BY <1>3, <2>1, RunConfined DEF RolledBack
  <2>6. PICK wrote : wrote = IF back.wrote = Reverse(run.wrote) THEN <<>> ELSE run.wrote \o back.wrote
    OBVIOUS
  <2>7. Apply(m, verbs) = [run EXCEPT !.model = back.model, !.wrote = wrote]
    BY <1>1, <1>5, <2>1, <2>6 DEF Apply
  <2>3. back.model \in Models /\ wrote \in Seq(Cell)
    BY <1>3, <2>2, <2>6 DEF Runs
  <2>4. /\ Apply(m, verbs).model = back.model /\ Apply(m, verbs).wrote = wrote
        /\ Apply(m, verbs).inverse = run.inverse
    BY <1>2, <2>7 DEF Runs
  <2>5. QED
    BY <1>3, <2>3, <2>4
<1>6. QED
  BY <1>4, <1>5

LEMMA AstrayCells ==
    ASSUME NEW m \in Models, NEW wrote \in Seq(Cell), NEW inverse \in Seq(Verbs), locator \in Frame
    PROVE  Astray(m, wrote, inverse) \subseteq Cell
<1>1. PICK undone : undone = Run(m, inverse).wrote
  OBVIOUS
<1>2. undone \in Seq(Cell)
  BY <1>1, RunConfined DEF Runs
<1>3. Range(wrote) \subseteq Cell /\ Range(undone) \subseteq Cell
  <2>1. DOMAIN wrote = 1 .. Len(wrote) /\ DOMAIN undone = 1 .. Len(undone)
    BY <1>2, IsSeq
  <2>2. (\A i \in 1 .. Len(wrote) : wrote[i] \in Cell) /\ \A i \in 1 .. Len(undone) : undone[i] \in Cell
    BY <1>2
  <2>3. QED
    BY <2>1, <2>2 DEF Range
<1>4. QED
  BY <1>1, <1>3 DEF Astray

LEMMA ReverseAt ==
    ASSUME NEW S, NEW s \in Seq(S), NEW n \in Nat, n = Len(s)
    PROVE  \A i \in 1 .. n : Reverse(s)[i] = s[(n - i) + 1] /\ (n - i) + 1 \in 1 .. n
<1>1. Reverse(s) = [i \in 1 .. n |-> s[(n - i) + 1]]
  BY DEF Reverse
<1>2. QED
  BY <1>1

LEMMA UndoneInIs ==
    ASSUME NEW m \in Models, NEW cmds \in Seq(Commands), locator \in Frame
    PROVE  /\ UndoneIn(m, cmds)[0] = m
           /\ \A i \in 1 .. Len(cmds) :
                  UndoneIn(m, cmds)[i] = Apply(UndoneIn(m, cmds)[i - 1], Reverse(cmds)[i].inverse).model
<1>1. PICK n \in Nat : n = Len(cmds)
  OBVIOUS
<1>2. PICK back : back = [i \in 1 .. n |-> Reverse(cmds)[i].inverse]
  OBVIOUS
<1>3. \A i \in 1 .. n : back[i] \in Seq(Verbs)
  <2>1. TAKE i \in 1 .. n
  <2>2. Reverse(cmds)[i] = cmds[(n - i) + 1] /\ (n - i) + 1 \in 1 .. n
    BY <1>1, ReverseAt
  <2>3. Reverse(cmds)[i] \in Commands
    BY <1>1, <2>2
  <2>4. QED
    BY <1>2, <2>3 DEF Commands
<1>4. PICK F : F = [i \in 1 .. n |-> [x \in Models |-> Apply(x, back[i]).model]]
  OBVIOUS
<1>5. \A i \in 1 .. n, x \in Models : Apply(x, back[i]).model \in Models
  BY <1>3, Applied
<1>6. /\ F \in [1 .. n -> [Models -> Models]]
      /\ \A i \in 1 .. n, x \in Models : F[i][x] = Apply(x, back[i]).model
  BY <1>4, <1>5
<1>7. PICK g \in [0 .. n -> Models] : g[0] = m /\ \A i \in 1 .. n : g[i] = F[i][g[i - 1]]
  <2>1. \E g : Follows(g, n, Models, m, F)
    BY <1>6, Recursion
  <2>2. QED
    BY <2>1 DEF Follows
<1>8. \A i \in 1 .. n : g[i] = Apply(g[i - 1], back[i]).model
  <2>1. TAKE i \in 1 .. n
  <2>2. i - 1 \in 0 .. n
    OBVIOUS
  <2>3. g[i - 1] \in Models
    BY <1>7, <2>2
  <2>4. QED
    BY <1>6, <1>7, <2>3
<1>9. g = [i \in 0 .. n |-> IF i = 0 THEN m ELSE Apply(g[i - 1], Reverse(cmds)[i].inverse).model]
  <2>1. \A i \in 0 .. n : i # 0 => i \in 1 .. n
    OBVIOUS
  <2>2. \A i \in 1 .. n : g[i] = Apply(g[i - 1], Reverse(cmds)[i].inverse).model
    BY <1>2, <1>8
  <2>3. \A i \in 0 .. n : g[i] = IF i = 0 THEN m ELSE Apply(g[i - 1], Reverse(cmds)[i].inverse).model
    BY <1>7, <2>1, <2>2
  <2>4. QED
    BY <1>7, <2>3
<1>10. UndoneIn(m, cmds) = CHOOSE f : f = [i \in 0 .. n |->
            IF i = 0 THEN m ELSE Apply(f[i - 1], Reverse(cmds)[i].inverse).model]
  BY <1>1 DEF UndoneIn
<1>11. PICK s : s = UndoneIn(m, cmds)
  OBVIOUS
<1>12. s = [i \in 0 .. n |-> IF i = 0 THEN m ELSE Apply(s[i - 1], Reverse(cmds)[i].inverse).model]
  BY <1>9, <1>10, <1>11
<1>13. s[0] = m
  BY <1>12
<1>14. \A i \in 1 .. n : s[i] = Apply(s[i - 1], Reverse(cmds)[i].inverse).model
  <2>1. TAKE i \in 1 .. n
  <2>2. i \in 0 .. n /\ i # 0
    OBVIOUS
  <2>3. QED
    BY <1>12, <2>2
<1>15. QED
  BY <1>1, <1>11, <1>13, <1>14

\* Undoing an entry, a macro from its last command, leads back to before it.
LEMMA UndoLinks ==
    ASSUME NEW S, NEW cmds, NEW b, NEW a, Links(S, cmds, b, a), NEW m \in Models, Agree(S, m, a),
           locator \in Frame, NEW u, u = UndoneIn(m, cmds)[Len(cmds)]
    PROVE  u \in Models /\ Agree(S, u, b) /\ u[Media] = m[Media]
<1>1. PICK via : Through(S, cmds, via) /\ Agree(S, b, via[0]) /\ Agree(S, via[Len(cmds)], a)
  BY DEF Links
<1>2. PICK n \in Nat : n = Len(cmds) /\ cmds \in Seq(Commands)
  BY DEF Links
<1>3. PICK s : s = UndoneIn(m, cmds)
  OBVIOUS
<1>4. s[0] = m /\ \A i \in 1 .. n : s[i] = Apply(s[i - 1], Reverse(cmds)[i].inverse).model
  BY <1>2, <1>3, UndoneInIs
<1>5. PICK K : K = {k \in 0 .. n : s[k] \in Models /\ Agree(S, s[k], via[n - k]) /\ s[k][Media] = m[Media]}
  OBVIOUS
<1>6. 0 \in K
  <2>1. Agree(S, m, via[n])
    BY <1>1, <1>2, AgreeFacts
  <2>2. n - 0 = n /\ 0 \in 0 .. n
    OBVIOUS
  <2>3. QED
    BY <1>4, <1>5, <2>1, <2>2
<1>7. ASSUME NEW k \in 1 .. n, k - 1 \in K PROVE k \in K
  <2>1. PICK j \in 1 .. n : j = (n - k) + 1
    OBVIOUS
  <2>2. n - (k - 1) = j /\ n - k = j - 1 /\ k \in 0 .. n
    BY <2>1
  <2>3. s[k - 1] \in Models /\ Agree(S, s[k - 1], via[j]) /\ s[k - 1][Media] = m[Media]
    BY <1>5, <1>7, <2>2
  <2>4. Leads(S, cmds[j], via[j - 1], via[j])
    BY <1>1, <1>2 DEF Through
  <2>5. Reverse(cmds)[k] = cmds[j]
    BY <1>2, <2>1, ReverseAt
  <2>6. s[k] = Apply(s[k - 1], cmds[j].inverse).model
    BY <1>4, <2>5
  <2>7. /\ s[k] \in Models /\ Agree(S, s[k], via[j - 1]) /\ s[k][Media] = s[k - 1][Media]
    BY <2>3, <2>4, <2>6, UndoCommand
  <2>8. QED
    BY <1>5, <2>2, <2>3, <2>7
<1>8. \A k \in 0 .. n : k \in K
  BY <1>6, <1>7, UpTo
<1>9. n \in K /\ n - n = 0
  BY <1>8
<1>10. u \in Models /\ Agree(S, u, via[0]) /\ u[Media] = m[Media]
  BY <1>2, <1>3, <1>5, <1>9
<1>11. QED
  BY <1>1, <1>10, AgreeFacts

\* What redoing has gathered: a model and the cells gone astray.
Gathered == [model : Models, stray : SUBSET Cell]

LEMMA AgainGathers ==
    ASSUME NEW acc \in Gathered, NEW cmd \in Commands, locator \in Frame
    PROVE  /\ Again(acc, cmd) \in Gathered
           /\ Again(acc, cmd).model = Apply(acc.model, cmd.forward).model
           /\ Again(acc, cmd).stray =
                  acc.stray \cup Astray(Apply(acc.model, cmd.forward).model,
                                        Apply(acc.model, cmd.forward).wrote, cmd.inverse)
<1>1. acc.model \in Models /\ acc.stray \subseteq Cell
  BY DEF Gathered
<1>2. cmd.forward \in Seq(Verbs) /\ cmd.inverse \in Seq(Verbs)
  BY DEF Commands
<1>3. PICK run : run = Apply(acc.model, cmd.forward)
  OBVIOUS
<1>4. run.model \in Models /\ run.wrote \in Seq(Cell)
  BY <1>1, <1>2, <1>3, Applied
<1>5. PICK more : more = Astray(run.model, run.wrote, cmd.inverse)
  OBVIOUS
<1>6. more \subseteq Cell
  BY <1>2, <1>4, <1>5, AstrayCells
<1>7. Again(acc, cmd) = [model |-> run.model, stray |-> acc.stray \cup more]
  BY <1>3, <1>5 DEF Again
<1>8. Again(acc, cmd).model = run.model /\ Again(acc, cmd).stray = acc.stray \cup more
  BY <1>7
<1>9. acc.stray \cup more \in SUBSET Cell
  BY <1>1, <1>6
<1>10. Again(acc, cmd) \in Gathered
  BY <1>4, <1>7, <1>9 DEF Gathered
<1>11. QED
  BY <1>3, <1>5, <1>8, <1>10

LEMMA RedoneInIs ==
    ASSUME NEW start \in Gathered, NEW cmds \in Seq(Commands), locator \in Frame
    PROVE  /\ RedoneIn(start, cmds)[0] = start
           /\ \A i \in 1 .. Len(cmds) : RedoneIn(start, cmds)[i] = Again(RedoneIn(start, cmds)[i - 1], cmds[i])
<1>1. PICK n \in Nat : n = Len(cmds)
  OBVIOUS
<1>2. \A i \in 1 .. n : cmds[i] \in Commands
  BY <1>1
<1>3. PICK F : F = [i \in 1 .. n |-> [x \in Gathered |-> Again(x, cmds[i])]]
  OBVIOUS
<1>4. \A i \in 1 .. n, x \in Gathered : Again(x, cmds[i]) \in Gathered
  BY <1>2, AgainGathers
<1>5. /\ F \in [1 .. n -> [Gathered -> Gathered]]
      /\ \A i \in 1 .. n, x \in Gathered : F[i][x] = Again(x, cmds[i])
  BY <1>3, <1>4
<1>6. PICK g \in [0 .. n -> Gathered] : g[0] = start /\ \A i \in 1 .. n : g[i] = F[i][g[i - 1]]
  <2>1. \E g : Follows(g, n, Gathered, start, F)
    BY <1>5, Recursion
  <2>2. QED
    BY <2>1 DEF Follows
<1>7. \A i \in 1 .. n : g[i] = Again(g[i - 1], cmds[i])
  <2>1. TAKE i \in 1 .. n
  <2>2. i - 1 \in 0 .. n
    OBVIOUS
  <2>3. g[i - 1] \in Gathered
    BY <1>6, <2>2
  <2>4. QED
    BY <1>5, <1>6, <2>3
<1>8. g = [i \in 0 .. n |-> IF i = 0 THEN start ELSE Again(g[i - 1], cmds[i])]
  <2>1. \A i \in 0 .. n : i # 0 => i \in 1 .. n
    OBVIOUS
  <2>2. \A i \in 0 .. n : g[i] = IF i = 0 THEN start ELSE Again(g[i - 1], cmds[i])
    BY <1>6, <1>7, <2>1
  <2>3. QED
    BY <1>6, <2>2
<1>9. RedoneIn(start, cmds) = CHOOSE f : f = [i \in 0 .. n |-> IF i = 0 THEN start ELSE Again(f[i - 1], cmds[i])]
  BY <1>1 DEF RedoneIn
<1>10. PICK s : s = RedoneIn(start, cmds)
  OBVIOUS
<1>11. s = [i \in 0 .. n |-> IF i = 0 THEN start ELSE Again(s[i - 1], cmds[i])]
  BY <1>8, <1>9, <1>10
<1>12. s[0] = start
  BY <1>11
<1>13. \A i \in 1 .. n : s[i] = Again(s[i - 1], cmds[i])
  <2>1. TAKE i \in 1 .. n
  <2>2. i \in 0 .. n /\ i # 0
    OBVIOUS
  <2>3. QED
    BY <1>11, <2>2
<1>14. QED
  BY <1>1, <1>10, <1>12, <1>13

\* Redoing an entry leads to after it, but for what its traces say has gone astray.
RedoneEntry(S, cmds, m, a) ==
    LET done == RedoneIn([model |-> m, stray |-> S], cmds)[Len(cmds)]
    IN  /\ done.model \in Models /\ done.stray \in SUBSET Cell /\ S \subseteq done.stray
        /\ Agree(done.stray, done.model, a) /\ done.model[Media] = m[Media]

LEMMA RedoLinks ==
    ASSUME NEW S \in SUBSET Cell, NEW cmds, NEW b, NEW a, Links(S, cmds, b, a), NEW m \in Models,
           Agree(S, m, b), locator \in Frame
    PROVE  RedoneEntry(S, cmds, m, a)
<1> PICK done : done = RedoneIn([model |-> m, stray |-> S], cmds)[Len(cmds)]
  OBVIOUS
<1> SUFFICES /\ done.model \in Models /\ done.stray \in SUBSET Cell /\ S \subseteq done.stray
             /\ Agree(done.stray, done.model, a) /\ done.model[Media] = m[Media]
  BY DEF RedoneEntry
<1>1. PICK via : Through(S, cmds, via) /\ Agree(S, b, via[0]) /\ Agree(S, via[Len(cmds)], a)
  BY DEF Links
<1>2. PICK n \in Nat : n = Len(cmds) /\ cmds \in Seq(Commands)
  BY DEF Links
<1>3. PICK start : start = [model |-> m, stray |-> S]
  OBVIOUS
<1>4. start \in Gathered /\ start.model = m /\ start.stray = S
  BY <1>3 DEF Gathered
<1>5. PICK s : s = RedoneIn(start, cmds)
  OBVIOUS
<1>6. s[0] = start /\ \A i \in 1 .. n : s[i] = Again(s[i - 1], cmds[i])
  BY <1>2, <1>4, <1>5, RedoneInIs
<1>7. PICK K : K = {k \in 0 .. n : /\ s[k] \in Gathered /\ S \subseteq s[k].stray
                                   /\ Agree(s[k].stray, s[k].model, via[k])
                                   /\ s[k].model[Media] = m[Media]}
  OBVIOUS
<1>8. 0 \in K
  <2>1. Agree(S, m, via[0])
    BY <1>1, AgreeFacts
  <2>2. QED
    BY <1>4, <1>6, <1>7, <2>1
<1>9. ASSUME NEW k \in 1 .. n, k - 1 \in K PROVE k \in K
  <2>1. PICK acc : acc = s[k - 1]
    OBVIOUS
  <2>2. /\ acc \in Gathered /\ S \subseteq acc.stray /\ Agree(acc.stray, acc.model, via[k - 1])
        /\ acc.model[Media] = m[Media]
    BY <1>7, <1>9, <2>1
  <2>3. acc.model \in Models /\ acc.stray \subseteq Cell
    BY <2>2 DEF Gathered
  <2>4. cmds[k] \in Commands /\ s[k] = Again(acc, cmds[k])
    BY <1>2, <1>6, <2>1
  <2>5. PICK run : run = Apply(acc.model, cmds[k].forward)
    OBVIOUS
  <2>6. /\ s[k] \in Gathered /\ s[k].model = run.model
        /\ s[k].stray = acc.stray \cup Astray(run.model, run.wrote, cmds[k].inverse)
    BY <2>2, <2>4, <2>5, AgainGathers
  <2>7. Leads(acc.stray, cmds[k], via[k - 1], via[k])
    <3>1. Leads(S, cmds[k], via[k - 1], via[k])
      BY <1>1, <1>2 DEF Through
    <3>2. Agree(acc.stray, via[k - 1], via[k - 1]) /\ Agree(acc.stray, via[k], via[k])
      BY AgreeFacts
    <3>3. QED
      BY <2>2, <3>1, <3>2, LeadsStill
  <2>8. /\ Agree(s[k].stray, run.model, via[k]) /\ run.model[Media] = acc.model[Media]
    <3>1. PICK cmd, x, S1, b1, a1 :
              cmd = cmds[k] /\ x = acc.model /\ S1 = acc.stray /\ b1 = via[k - 1] /\ a1 = via[k]
      OBVIOUS
    <3>2. x \in Models /\ Leads(S1, cmd, b1, a1) /\ Agree(S1, x, b1)
      BY <2>2, <2>3, <2>7, <3>1
    <3>3. Redone(S1, cmd, x, a1)
      BY <3>2, RedoCommand
    <3>4. run = Apply(x, cmd.forward)
      BY <2>5, <3>1
    <3>5. /\ Agree(S1 \cup Astray(run.model, run.wrote, cmd.inverse), run.model, a1)
          /\ run.model[Media] = x[Media]
      BY <3>3, <3>4 DEF Redone
    <3>6. QED
      BY <2>6, <3>1, <3>5
  <2>9. S \subseteq s[k].stray
    BY <2>2, <2>6
  <2>10. k \in 0 .. n
    OBVIOUS
  <2>11. QED
    BY <1>7, <2>2, <2>6, <2>8, <2>9, <2>10
<1>10. \A k \in 0 .. n : k \in K
  BY <1>8, <1>9, UpTo
<1>11. /\ done \in Gathered /\ S \subseteq done.stray /\ Agree(done.stray, done.model, via[n])
       /\ done.model[Media] = m[Media]
  BY <1>2, <1>3, <1>5, <1>7, <1>10
<1>12. Agree(done.stray, via[n], a)
  <2>1. Agree(S, via[n], a)
    BY <1>1, <1>2
  <2>2. PICK T : T = done.stray
    OBVIOUS
  <2>3. Agree(T, via[n], a)
    BY <1>11, <2>1, <2>2, AgreeFacts
  <2>4. QED
    BY <2>2, <2>3
<1>13. Agree(done.stray, done.model, a)
  BY <1>11, <1>12, AgreeFacts
<1>14. done.model \in Models /\ done.stray \in SUBSET Cell
  BY <1>11 DEF Gathered
<1>15. QED
  BY <1>11, <1>13, <1>14

LEMMA SubmittedVerbs ==
    ASSUME PoisonStandsAlone
    PROVE  /\ \A verbs \in Actions : verbs \in Seq(Verbs) /\ PoisonAlone(verbs)
           /\ \A t \in Track, v \in Value :
                 <<Volume(t, v)>> \in Seq(Verbs) /\ PoisonAlone(<<Volume(t, v)>>)
<1>1. ASSUME NEW verbs \in Actions PROVE verbs \in Seq(Verbs) /\ PoisonAlone(verbs)
  <2>1. verbs \in Seq(Edits) /\ \A i \in DOMAIN verbs : Formed(verbs[i])
    BY ActionsAssumption
  <2>2. DOMAIN verbs = 1 .. Len(verbs) /\ \A i \in 1 .. Len(verbs) : verbs[i] \in Edits
    BY <2>1, IsSeq
  <2>3. \A i \in 1 .. Len(verbs) : verbs[i] \in Verbs
    BY <2>1, <2>2 DEF Verbs
  <2>4. verbs \in Seq(Verbs)
    BY <2>1, <2>2, <2>3
  <2>5. PoisonAlone(verbs)
    BY DEF PoisonStandsAlone
  <2>6. QED
    BY <2>4, <2>5
<1>2. ASSUME NEW t \in Track, NEW v \in Value
      PROVE  <<Volume(t, v)>> \in Seq(Verbs) /\ PoisonAlone(<<Volume(t, v)>>)
  <2>1. v \in Int
    BY ValueAssumption
  <2>2. PICK verb : verb = Volume(t, v)
    OBVIOUS
  <2>3. verb \in Verbs /\ verb.op # "property"
    BY <2>1, <2>2 DEF Volume, Verb, Verbs, Edits, Formed
  <2>4. <<verb>> \in Seq(Verbs) /\ <<verb>>[1] = verb /\ Len(<<verb>>) = 1
    BY <2>3
  <2>5. DOMAIN <<verb>> = 1 .. 1
    BY <2>4, IsSeq
  <2>6. \A i \in 1 .. 1 : i = 1
    OBVIOUS
  <2>7. PoisonAlone(<<verb>>)
    BY <2>3, <2>4, <2>5, <2>6 DEF PoisonAlone
  <2>8. QED
    BY <2>2, <2>4, <2>7
<1>3. QED
  BY <1>1, <1>2

LEMMA MediaApart ==
    ASSUME locator \in Frame
    PROVE  Media \notin Mistaken
<1>1. \A t \in DOMAIN Twin : t \in Track /\ Twin[t] \in Track
  BY TwinAssumption
<1>2. Media \notin Undoable /\ \A t \in Track : Point(t, locator) \in Undoable
  BY CellsApart DEF Undoable
<1>3. QED
  BY <1>1, <1>2 DEF Mistaken

\* What the stack does not hear of changes no mode, and only what counts as stray.
LEMMA Unheard ==
    ASSUME NEW m \in Models, NEW verbs \in Seq(Verbs), PoisonAlone(verbs), locator \in Frame,
           NEW run, run = Apply(m, verbs), ~(run.ok /\ run.undoable),
           NEW S, NEW T, T = S \cup Range(run.wrote)
    PROVE  Agree(T, run.model, m) /\ run.model[Media] = m[Media]
<1>1. CASE ~run.ok
  <2>1. RolledBackTo(run, m)
    BY <1>1, RefusedRollsBack
  <2>2. Agree(T, run.model, m)
    BY <2>1, CellsApart DEF RolledBackTo, Agree, SameModes
  <2>3. run.model[Media] = m[Media]
    BY <2>1, MediaApart, CellsApart DEF RolledBackTo
  <2>4. QED
    BY <2>2, <2>3
<1>2. CASE run.ok
  <2>1. run = Run(m, verbs) /\ run \in Runs
    BY <1>2, AppliedRuns
  <2>2. ~run.undoable
    BY <1>2
  <2>3. PICK n \in Nat : n = Len(verbs)
    OBVIOUS
  <2>4. DOMAIN verbs = 1 .. n
    BY <2>3, IsSeq
  <2>5. \E i \in 1 .. n : verbs[i].op = "property"
    <3>1. SUFFICES ASSUME \A i \in 1 .. n : verbs[i].op # "property" PROVE FALSE
      OBVIOUS
    <3>2. PICK s : s = Steps(m, verbs)
      OBVIOUS
    <3>3. run = s[n] /\ n \in 0 .. Len(verbs)
      BY <2>1, <2>3, <3>2 DEF Run
    <3>4. Traced(s[n], verbs, [i \in 0 .. n |-> s[i].model], n)
      BY <1>2, <2>3, <3>1, <3>2, <3>3, RunTraced
    <3>5. QED
      BY <2>2, <3>3, <3>4 DEF Traced
  <2>6. \A i \in 1 .. n : verbs[i].op # "mode"
    BY <2>4, <2>5 DEF PoisonAlone
  <2>7. Confined(run, m, verbs)
    BY <2>1, RunConfined
  <2>8. /\ \A c \in Cell : c \notin Range(run.wrote) => run.model[c] = m[c]
        /\ Media \notin Range(run.wrote) /\ Range(run.wrote) \cap ModeCells = {}
    BY <2>3, <2>6, <2>7 DEF Confined
  <2>9. Agree(T, run.model, m)
    BY <2>8, CellsApart DEF Agree
  <2>10. QED
    BY <2>8, <2>9, CellsApart
<1>3. QED
  BY <1>1, <1>2

\* What it does hear of.
Ran(run, m, verbs) == run = Apply(m, verbs) /\ run.ok
Made(new, verbs, run, gesture) == new = Command(verbs, run.inverse, gesture)

Accepted(new, verbs, m, run) ==
    /\ new \in Commands /\ new.forward = verbs /\ new.inverse = run.inverse
    /\ run.model \in Models /\ run.wrote \in Seq(Cell) /\ run.model[Media] = m[Media]
    /\ \A S : Astray(run.model, run.wrote, new.inverse) \subseteq S => Leads(S, new, m, run.model)

LEMMA Heard ==
    ASSUME NEW m \in Models, NEW verbs \in Seq(Verbs), locator \in Frame,
           NEW run, Ran(run, m, verbs), run.undoable, NEW gesture \in Nat,
           NEW new, Made(new, verbs, run, gesture)
    PROVE  Accepted(new, verbs, m, run)
<1> run = Apply(m, verbs) /\ run.ok /\ new = Command(verbs, run.inverse, gesture)
  BY DEF Ran, Made
<1>1. /\ run.model \in Models /\ run.wrote \in Seq(Cell) /\ run.inverse \in Seq(Verbs)
  BY Applied
<1>2. new \in Commands /\ new.forward = verbs /\ new.inverse = run.inverse
  BY <1>1 DEF Command, Commands
<1>3. ASSUME NEW S, Astray(run.model, run.wrote, new.inverse) \subseteq S
      PROVE  Leads(S, new, m, run.model)
  BY <1>2, <1>3, NewCommand
<1>4. run.model[Media] = m[Media]
  BY AppliedRuns, RunConfined, CellsApart DEF Confined
<1>5. QED
  BY <1>1, <1>2, <1>3, <1>4 DEF Accepted

\* A command that merges into the one before takes its place.
LEMMA HeardMerged ==
    ASSUME NEW S, NEW old \in Commands, NEW b, NEW a, Leads(S, old, b, a),
           NEW m \in Models, Agree(S, m, a), NEW verbs \in Seq(Verbs), locator \in Frame,
           NEW run, Ran(run, m, verbs),
           NEW new \in Commands, new.forward = verbs, Merges(old, new),
           NEW T, T = S \cup Astray(run.model, run.wrote, Merged(old, new).inverse)
    PROVE  Merged(old, new) \in Commands /\ Leads(T, Merged(old, new), b, run.model)
<1> run = Apply(m, verbs) /\ run.ok
  BY DEF Ran
<1>1. PICK cmd : cmd = Merged(old, new)
  OBVIOUS
<1>2. cmd \in Commands /\ cmd.forward = verbs /\ cmd.inverse = old.inverse
  BY <1>1 DEF Merged, Commands
<1>3. /\ Len(verbs) = 1 /\ verbs[1].op = "volume" /\ Len(old.forward) = 1
      /\ old.forward[1].op = "volume"
  BY DEF Merges, OneFader
<1>4. T = S \cup Astray(run.model, run.wrote, cmd.inverse)
  BY <1>1
<1>5. Leads(T, cmd, b, run.model)
  BY <1>2, <1>3, <1>4, MergedCommand
<1>6. QED
  BY <1>1, <1>2, <1>5

-----------------------------------------------------------------------------
(***************************************************************************)
(* The history: each entry leads from the state before it to the next      *)
(***************************************************************************)
Typed ==
    /\ model \in Models /\ file \in Models /\ locator \in Frame /\ stray \in SUBSET Cell
    /\ tokens \in Nat /\ drag \in Nat /\ rejected \in Nat /\ clean \in Int /\ trail \in Seq(Models)

\* An open macro has no state after it yet.
Lengths == IF open THEN Len(trail) = index + 1 /\ Len(stack) = index + 1
                   ELSE Len(trail) = Len(stack) + 1

Chain(S, st, tr) == \A i \in 1 .. Len(tr) - 1 : Links(S, st[i].cmds, tr[i], tr[i + 1])

\* Where the model is: at the state of this index, or within the open macro above it.
Here == IF open THEN Links(stray, stack[index + 1].cmds, trail[index + 1], model)
                ELSE Agree(stray, model, trail[index + 1])

\* The file holds the state of the clean index.
Saved(S, tr, cl, m, f) ==
    cl >= 0 => cl + 1 <= Len(tr) /\ Agree(S, f, tr[cl + 1]) /\ f[Media] = m[Media]

UndoInv ==
    /\ Typed /\ Lengths /\ Chain(stray, stack, trail) /\ Here
    /\ Saved(stray, trail, clean, model, file)

LEMMA Numbers ==
    ASSUME HistoryInv, UndoInv
    PROVE  /\ index \in Nat /\ Len(stack) \in Nat /\ Len(trail) \in Nat /\ index <= Len(stack)
           /\ index + 1 \in 1 .. Len(trail) /\ trail[index + 1] \in Models
           /\ (\E X : stack \in Seq(X))
           /\ open => Len(trail) = index + 1 /\ Len(stack) = index + 1
           /\ ~open => Len(trail) = Len(stack) + 1
<1>1. index \in 0 .. Len(stack) /\ \E X : stack \in Seq(X)
  BY DEF HistoryInv
<1>2. Len(stack) \in Nat
  BY <1>1
<1>3. trail \in Seq(Models)
  BY DEF UndoInv, Typed
<1>4. Len(trail) \in Nat /\ \A i \in 1 .. Len(trail) : trail[i] \in Models
  BY <1>3
<1>5. /\ open => Len(trail) = index + 1 /\ Len(stack) = index + 1
      /\ ~open => Len(trail) = Len(stack) + 1
  BY DEF UndoInv, Lengths
<1>6. index \in Nat /\ index <= Len(stack) /\ index + 1 \in 1 .. Len(trail)
  BY <1>1, <1>2, <1>5
<1>7. QED
  BY <1>1, <1>2, <1>4, <1>5, <1>6

LEMMA PastIs ==
    ASSUME HistoryInv, UndoInv
    PROVE  /\ Past \in Seq(Models) /\ Len(Past) = index + 1
           /\ \A i \in 1 .. index + 1 : Past[i] = trail[i]
<1>1. index + 1 \in 0 .. Len(trail)
  BY Numbers
<1>2. trail \in Seq(Models)
  BY DEF UndoInv, Typed
<1>3. QED
  BY <1>1, <1>2, CutOff DEF Past

LEMMA CleanBelowIs ==
    ASSUME clean \in Int, index \in Nat
    PROVE  CleanBelow \in Int /\ (CleanBelow >= 0 => CleanBelow = clean /\ clean <= index)
BY DEF CleanBelow

\* Saved states are kept where the trail is.
LEMMA SavedStill ==
    ASSUME NEW S, NEW T, S \subseteq T, NEW tr, NEW tr2, NEW cl \in Int, NEW cl2 \in Int, NEW m, NEW m2,
           NEW f, Saved(S, tr, cl, m, f), m2[Media] = m[Media], NEW n \in Nat, n <= Len(tr2), Len(tr2) \in Nat,
           \A i \in 1 .. n : tr2[i] = tr[i], cl2 >= 0 => cl2 = cl /\ cl + 1 <= n
    PROVE  Saved(T, tr2, cl2, m2, f)
<1>1. SUFFICES ASSUME cl2 >= 0
               PROVE  cl2 + 1 <= Len(tr2) /\ Agree(T, f, tr2[cl2 + 1]) /\ f[Media] = m2[Media]
  BY DEF Saved
<1>2. cl2 = cl /\ cl + 1 \in 1 .. n /\ cl >= 0
  BY <1>1
<1>3. Agree(S, f, tr[cl + 1]) /\ f[Media] = m[Media]
  BY <1>2 DEF Saved
<1>4. Agree(T, f, tr[cl + 1])
  BY <1>3, AgreeFacts
<1>5. QED
  BY <1>2, <1>3, <1>4

\* Entries are kept where the stack and the trail are.
SameTo(n, st, tr, st2, tr2) ==
    /\ \A i \in 1 .. n : st2[i].cmds = st[i].cmds
    /\ \A i \in 1 .. n + 1 : tr2[i] = tr[i]

LEMMA ChainStill ==
    ASSUME NEW S, NEW T, S \subseteq T, NEW st, NEW tr, Chain(S, st, tr), NEW st2, NEW tr2,
           NEW n \in Nat, Len(tr) \in Nat, n + 1 <= Len(tr), SameTo(n, st, tr, st2, tr2)
    PROVE  \A i \in 1 .. n : Links(T, st2[i].cmds, tr2[i], tr2[i + 1])
<1>0. (\A i \in 1 .. n : st2[i].cmds = st[i].cmds) /\ \A i \in 1 .. n + 1 : tr2[i] = tr[i]
  BY DEF SameTo
<1>1. TAKE i \in 1 .. n
<1>2. i \in 1 .. Len(tr) - 1 /\ i \in 1 .. n + 1 /\ i + 1 \in 1 .. n + 1
  OBVIOUS
<1>3. Links(S, st[i].cmds, tr[i], tr[i + 1])
  BY <1>2 DEF Chain
<1>4. Links(T, st[i].cmds, tr[i], tr[i + 1])
  BY <1>3, LinksStill, AgreeFacts
<1>5. QED
  BY <1>0, <1>2, <1>4

LEMMA ChainOnTop ==
    ASSUME NEW S, NEW st, NEW tr, NEW n \in Nat, Len(tr) = n + 2,
           \A i \in 1 .. n : Links(S, st[i].cmds, tr[i], tr[i + 1]),
           Links(S, st[n + 1].cmds, tr[n + 1], tr[n + 2])
    PROVE  Chain(S, st, tr)
<1>1. SUFFICES ASSUME NEW i \in 1 .. n + 1 PROVE Links(S, st[i].cmds, tr[i], tr[i + 1])
  <2>1. Len(tr) - 1 = n + 1
    OBVIOUS
  <2>2. QED
    BY <2>1 DEF Chain
<1>2. CASE i = n + 1
  <2>1. i + 1 = n + 2
    BY <1>2
  <2>2. QED
    BY <1>2, <2>1
<1>3. CASE i # n + 1
  <2>1. i \in 1 .. n
    BY <1>3
  <2>2. QED
    BY <2>1
<1>4. QED
  BY <1>2, <1>3

LEMMA PushOnTop ==
    ASSUME HistoryInv, UndoInv, scopes = 0, NEW new \in Commands, NEW run, run.model \in Models,
           run.model[Media] = model[Media], Leads(stray', new, model, run.model),
           Push(new, run), ~MergesIntoTop(new), model' = run.model, UNCHANGED <<file, open>>
    PROVE  /\ trail' \in Seq(Models) /\ clean' \in Int /\ Lengths' /\ Chain(stray', stack', trail')
           /\ Here' /\ Saved(stray', trail', clean', model', file')
           /\ stray' = stray \cup Astray(run.model, run.wrote, new.inverse)
<1>1. PICK n \in Nat : n = index
  BY Numbers
<1>2. PICK e : e = Entry(FALSE, <<new>>)
  OBVIOUS
<1>3. /\ stack' = Append(Done, e) /\ index' = n + 1 /\ clean' = CleanBelow
      /\ trail' = Append(Past, run.model)
      /\ stray' = stray \cup Astray(run.model, run.wrote, new.inverse)
  BY <1>1, <1>2 DEF Push
<1>4. ~open /\ ~open'
  BY DEF HistoryInv
<1>5. PICK X : stack \in Seq(X)
  BY Numbers
<1>6. /\ Len(stack') = n + 1 /\ stack'[n + 1] = e /\ \A i \in 1 .. n : stack'[i] = stack[i]
  <2>1. n \in 0 .. Len(stack) /\ Done = SubSeq(stack, 1, n)
    BY <1>1, Numbers DEF Done
  <2>2. QED
    BY <1>3, <1>5, <2>1, OnTop
<1>7. /\ Past \in Seq(Models) /\ Len(Past) = n + 1 /\ \A i \in 1 .. n + 1 : Past[i] = trail[i]
  BY <1>1, PastIs
<1>8. /\ trail' \in Seq(Models) /\ Len(trail') = n + 2 /\ trail'[n + 2] = run.model
      /\ \A i \in 1 .. n + 1 : trail'[i] = trail[i]
  <2>1. /\ Append(Past, run.model) \in Seq(Models) /\ Len(Append(Past, run.model)) = (n + 1) + 1
        /\ Append(Past, run.model)[(n + 1) + 1] = run.model
        /\ \A i \in 1 .. n + 1 : Append(Past, run.model)[i] = Past[i]
    BY <1>7
  <2>2. (n + 1) + 1 = n + 2
    OBVIOUS
  <2>3. QED
    BY <1>3, <1>7, <2>1, <2>2
<1>9. PICK S, T, tr, tr2, st, st2 :
          /\ S = stray /\ T = stray' /\ tr = trail /\ tr2 = trail' /\ st = stack /\ st2 = stack'
  OBVIOUS
<1>10. S \subseteq T
  BY <1>3, <1>9
<1>11. Len(tr) \in Nat /\ n + 1 <= Len(tr)
  BY <1>1, <1>9, Numbers
<1>12. \A i \in 1 .. n : Links(T, st2[i].cmds, tr2[i], tr2[i + 1])
  <2>1. Chain(S, st, tr)
    BY <1>9 DEF UndoInv
  <2>2. SameTo(n, st, tr, st2, tr2)
    BY <1>6, <1>8, <1>9 DEF SameTo
  <2>3. QED
    BY <1>10, <1>11, <2>1, <2>2, ChainStill
<1>13. Links(T, st2[n + 1].cmds, tr2[n + 1], tr2[n + 2])
  <2>1. tr2[n + 1] = tr[n + 1] /\ tr2[n + 2] = run.model /\ tr[n + 1] \in Models
    <3>1. n + 1 \in 1 .. n + 1
      OBVIOUS
    <3>2. QED
      BY <1>1, <1>8, <1>9, <3>1, Numbers
  <2>2. st2[n + 1].cmds = <<new>>
    BY <1>2, <1>6, <1>9 DEF Entry
  <2>3. Agree(S, model, tr[n + 1])
    BY <1>1, <1>4, <1>9 DEF UndoInv, Here
  <2>4. Leads(T, new, tr[n + 1], run.model)
    <3>1. PICK b, m, a : b = tr[n + 1] /\ m = model /\ a = run.model
      OBVIOUS
    <3>2. Leads(T, new, m, a) /\ Agree(S, m, b)
      BY <1>9, <2>3, <3>1
    <3>3. Agree(T, b, m) /\ Agree(T, a, a)
      BY <1>10, <3>2, AgreeFacts
    <3>4. Leads(T, new, b, a)
      BY <3>2, <3>3, LeadsStill
    <3>5. QED
      BY <3>1, <3>4
  <2>5. Links(T, <<new>>, tr[n + 1], run.model)
    BY <2>1, <2>4, LinksOne
  <2>6. QED
    BY <2>1, <2>2, <2>5
<1>14. Chain(stray', stack', trail')
  BY <1>8, <1>9, <1>12, <1>13, ChainOnTop
<1>15. clean \in Int /\ clean' \in Int /\ (clean' >= 0 => clean' = clean /\ clean + 1 <= n + 1)
  <2>1. clean \in Int
    BY DEF UndoInv, Typed
  <2>2. QED
    BY <1>1, <1>3, <2>1, CleanBelowIs
<1>16. Saved(stray', trail', clean', model', file')
  <2>1. PICK cl, cl2, m, m2, f : cl = clean /\ cl2 = clean' /\ m = model /\ m2 = model' /\ f = file
    OBVIOUS
  <2>2. Saved(S, tr, cl, m, f)
    BY <1>9, <2>1 DEF UndoInv
  <2>3. n + 1 \in Nat /\ n + 1 <= Len(tr2) /\ Len(tr2) \in Nat /\ \A i \in 1 .. n + 1 : tr2[i] = tr[i]
    BY <1>8, <1>9
  <2>4. m2[Media] = m[Media] /\ cl \in Int /\ cl2 \in Int /\ (cl2 >= 0 => cl2 = cl /\ cl + 1 <= n + 1)
    BY <1>15, <2>1
  <2>5. Saved(T, tr2, cl2, m2, f)
    BY <1>10, <2>2, <2>3, <2>4, SavedStill
  <2>6. QED
    BY <1>9, <2>1, <2>5
<1>17. Lengths'
  BY <1>4, <1>6, <1>8 DEF Lengths
<1>18. Here'
  <2>1. index' + 1 = n + 2
    BY <1>3
  <2>2. trail'[index' + 1] = model'
    BY <1>8, <2>1
  <2>3. Agree(stray', model', trail'[index' + 1])
    BY <2>2, AgreeFacts
  <2>4. QED
    BY <1>4, <2>3 DEF Here
<1>19. QED
  BY <1>3, <1>8, <1>14, <1>15, <1>16, <1>17, <1>18

LEMMA PushIntoTop ==
    ASSUME HistoryInv, UndoInv, scopes = 0, NEW verbs \in Seq(Verbs), NEW new \in Commands,
           new.forward = verbs, NEW run, Ran(run, model, verbs),
           run.model \in Models, run.model[Media] = model[Media],
           Push(new, run), MergesIntoTop(new), model' = run.model, UNCHANGED <<file, open>>
    PROVE  /\ trail' \in Seq(Models) /\ clean' \in Int /\ Lengths' /\ Chain(stray', stack', trail')
           /\ Here' /\ Saved(stray', trail', clean', model', file')
           /\ \E cmd \in Commands : stray' = stray \cup Astray(run.model, run.wrote, cmd.inverse)
<1>1. index > 0 /\ index # CleanBelow /\ ~stack[index].macro /\ Merges(stack[index].cmds[1], new)
  BY DEF MergesIntoTop
<1>2. PICK n \in Nat : index = n + 1
  <2>1. index - 1 \in Nat /\ index = (index - 1) + 1
    BY <1>1, Numbers
  <2>2. QED
    BY <2>1
<1>3. n + 1 \in 1 .. Len(stack) /\ n + 2 <= Len(trail) /\ Len(trail) \in Nat /\ n + 1 <= Len(trail)
  BY <1>2, Numbers
<1>4. DOMAIN stack[n + 1] = {"macro", "cmds"} /\ \E cmd : stack[n + 1].cmds = <<cmd>>
  <2>1. EntrySound(stack[n + 1])
    BY <1>3 DEF HistoryInv
  <2>2. QED
    BY <1>1, <1>2, <2>1 DEF EntrySound
<1>5. PICK old : stack[n + 1].cmds = <<old>>
  BY <1>4
<1>6. stack[index].cmds[1] = old
  BY <1>2, <1>5
<1>7. PICK cmd : cmd = Merged(old, new)
  OBVIOUS
<1>8. PICK e : e = [stack[n + 1] EXCEPT !.cmds = <<cmd>>]
  OBVIOUS
<1>9. e.cmds = <<cmd>>
  BY <1>4, <1>8
<1>10. PICK X : stack \in Seq(X)
  BY Numbers
<1>11. /\ Done \in Seq(X) /\ Len(Done) = n + 1 /\ \A i \in 1 .. n + 1 : Done[i] = stack[i]
  <2>1. n + 1 \in 0 .. Len(stack)
    BY <1>3
  <2>2. QED
    BY <1>2, <1>10, <2>1, CutOff DEF Done
<1>12. /\ Past \in Seq(Models) /\ Len(Past) = n + 2 /\ \A i \in 1 .. n + 2 : Past[i] = trail[i]
  BY <1>2, PastIs
<1>13. /\ index' = index /\ clean' = CleanBelow /\ trail' = [Past EXCEPT ![n + 2] = run.model]
       /\ stray' = stray \cup Astray(run.model, run.wrote, cmd.inverse)
       /\ stack' = [Done EXCEPT ![n + 1] = e]
  <2>1. n + 1 \in 1 .. n + 1 /\ Done[n + 1] = stack[n + 1] /\ index + 1 = n + 2
    BY <1>2, <1>11
  <2>2. /\ index' = index /\ clean' = CleanBelow /\ trail' = [Past EXCEPT ![index + 1] = run.model]
        /\ stray' = stray \cup Astray(run.model, run.wrote, cmd.inverse)
        /\ stack' = [Done EXCEPT ![index].cmds = <<cmd>>]
    BY <1>6, <1>7 DEF Push
  <2>3. QED
    BY <1>2, <1>8, <2>1, <2>2
<1>14. /\ Len(stack') = n + 1 /\ stack'[n + 1] = e /\ \A i \in 1 .. n : stack'[i] = stack[i]
  <2>1. \A i \in 1 .. n : i \in 1 .. n + 1 /\ i # n + 1
    OBVIOUS
  <2>2. n + 1 \in 1 .. n + 1
    OBVIOUS
  <2>3. DOMAIN Done = 1 .. n + 1
    BY <1>11, IsSeq
  <2>4. Done \in Seq(X \cup {e})
    BY <1>11
  <2>5. stack' \in Seq(X \cup {e}) /\ Len(stack') = n + 1
    BY <1>11, <1>13, <2>2, <2>4
  <2>6. QED
    BY <1>11, <1>13, <2>1, <2>2, <2>3, <2>5
<1>15. /\ trail' \in Seq(Models) /\ Len(trail') = n + 2 /\ trail'[n + 2] = run.model
       /\ \A i \in 1 .. n + 1 : trail'[i] = trail[i]
  <2>1. \A i \in 1 .. n + 1 : i \in 1 .. n + 2 /\ i # n + 2
    OBVIOUS
  <2>2. n + 2 \in 1 .. n + 2
    OBVIOUS
  <2>3. DOMAIN Past = 1 .. n + 2
    BY <1>12, IsSeq
  <2>4. trail' \in Seq(Models) /\ Len(trail') = n + 2
    BY <1>12, <1>13, <2>2
  <2>5. QED
    BY <1>12, <1>13, <2>1, <2>2, <2>3, <2>4
<1>16. PICK S, T, tr, tr2, st, st2 :
          /\ S = stray /\ T = stray' /\ tr = trail /\ tr2 = trail' /\ st = stack /\ st2 = stack'
  OBVIOUS
<1>17. S \subseteq T /\ T = S \cup Astray(run.model, run.wrote, cmd.inverse)
  BY <1>13, <1>16
<1>18. ~open /\ ~open'
  BY DEF HistoryInv
<1>19. \A i \in 1 .. n : Links(T, st2[i].cmds, tr2[i], tr2[i + 1])
  <2>1. Chain(S, st, tr)
    BY <1>16 DEF UndoInv
  <2>2. SameTo(n, st, tr, st2, tr2)
    BY <1>14, <1>15, <1>16 DEF SameTo
  <2>3. Len(tr) \in Nat /\ n + 1 <= Len(tr)
    BY <1>3, <1>16
  <2>4. QED
    BY <1>17, <2>1, <2>2, <2>3, ChainStill
<1>20. tr[n + 1] \in Models /\ tr[n + 2] \in Models
  <2>1. trail \in Seq(Models)
    BY DEF UndoInv, Typed
  <2>2. n + 1 \in 1 .. Len(trail) /\ n + 2 \in 1 .. Len(trail)
    BY <1>3
  <2>3. QED
    BY <1>16, <2>1, <2>2
<1>21. old \in Commands /\ Leads(S, old, tr[n + 1], tr[n + 2])
  <2>1. n + 1 \in 1 .. Len(tr) - 1 /\ (n + 1) + 1 = n + 2
    BY <1>3, <1>16
  <2>2. Links(S, st[n + 1].cmds, tr[n + 1], tr[n + 2])
    BY <1>16, <2>1 DEF UndoInv, Chain
  <2>3. Links(S, <<old>>, tr[n + 1], tr[n + 2])
    BY <1>5, <1>16, <2>2
  <2>4. QED
    BY <1>20, <2>3, LinksOne
<1>22. Agree(S, model, tr[n + 2]) /\ model \in Models /\ locator \in Frame
  <2>1. index + 1 = n + 2
    BY <1>2
  <2>2. QED
    BY <1>16, <1>18, <2>1 DEF UndoInv, Here, Typed
<1>23. cmd \in Commands /\ Leads(T, cmd, tr[n + 1], run.model)
  <2>1. PICK b, a, m : b = tr[n + 1] /\ a = tr[n + 2] /\ m = model
    OBVIOUS
  <2>2. Leads(S, old, b, a) /\ m \in Models /\ Agree(S, m, a) /\ Ran(run, m, verbs)
    BY <1>21, <1>22, <2>1
  <2>3. Merges(old, new) /\ T = S \cup Astray(run.model, run.wrote, Merged(old, new).inverse)
    BY <1>1, <1>6, <1>7, <1>17
  <2>4. Merged(old, new) \in Commands /\ Leads(T, Merged(old, new), b, run.model)
    BY <1>21, <1>22, <2>2, <2>3, HeardMerged
  <2>5. QED
    BY <1>7, <2>1, <2>4
<1>24. Links(T, st2[n + 1].cmds, tr2[n + 1], tr2[n + 2])
  <2>1. Links(T, <<cmd>>, tr[n + 1], run.model)
    BY <1>20, <1>23, LinksOne
  <2>2. n + 1 \in 1 .. n + 1
    OBVIOUS
  <2>3. QED
    BY <1>9, <1>14, <1>15, <1>16, <2>1, <2>2
<1>25. Chain(stray', stack', trail')
  BY <1>15, <1>16, <1>19, <1>24, ChainOnTop
<1>26. clean \in Int /\ clean' \in Int /\ (clean' >= 0 => clean' = clean /\ clean + 1 <= n + 1)
  <2>1. clean \in Int /\ index \in Nat
    BY Numbers DEF UndoInv, Typed
  <2>2. CleanBelow \in Int /\ (CleanBelow >= 0 => CleanBelow = clean /\ clean <= index)
    BY <2>1, CleanBelowIs
  <2>3. QED
    BY <1>1, <1>2, <1>13, <2>1, <2>2
<1>27. Saved(stray', trail', clean', model', file')
  <2>1. PICK cl, cl2, m, m2, f : cl = clean /\ cl2 = clean' /\ m = model /\ m2 = model' /\ f = file
    OBVIOUS
  <2>2. Saved(S, tr, cl, m, f)
    BY <1>16, <2>1 DEF UndoInv
  <2>3. n + 1 \in Nat /\ n + 1 <= Len(tr2) /\ Len(tr2) \in Nat /\ \A i \in 1 .. n + 1 : tr2[i] = tr[i]
    BY <1>15, <1>16
  <2>4. m2[Media] = m[Media] /\ cl \in Int /\ cl2 \in Int /\ (cl2 >= 0 => cl2 = cl /\ cl + 1 <= n + 1)
    BY <1>26, <2>1
  <2>5. Saved(T, tr2, cl2, m2, f)
    BY <1>17, <2>2, <2>3, <2>4, SavedStill
  <2>6. QED
    BY <1>16, <2>1, <2>5
<1>28. Lengths'
  <2>1. n + 2 = (n + 1) + 1
    OBVIOUS
  <2>2. QED
    BY <1>14, <1>15, <1>18, <2>1 DEF Lengths
<1>29. Here'
  <2>1. index' + 1 = n + 2
    BY <1>2, <1>13
  <2>2. trail'[index' + 1] = model'
    BY <1>15, <2>1
  <2>3. Agree(stray', model', trail'[index' + 1])
    BY <2>2, AgreeFacts
  <2>4. QED
    BY <1>18, <2>3 DEF Here
<1>30. QED
  BY <1>13, <1>15, <1>23, <1>25, <1>26, <1>27, <1>28, <1>29

\* The macro that a submission finds open, or opens.
LEMMA MacroReady ==
    ASSUME HistoryInv, UndoInv, scopes > 0
    PROVE  /\ (\E X : MacroStack \in Seq(X)) /\ Len(MacroStack) = index + 1
           /\ \A i \in 1 .. index : MacroStack[i] = stack[i]
           /\ DOMAIN MacroStack[index + 1] = {"macro", "cmds"}
           /\ Links(stray, MacroStack[index + 1].cmds, trail[index + 1], model)
<1>1. PICK n \in Nat : n = index
  BY Numbers
<1>2. PICK X : stack \in Seq(X)
  BY Numbers
<1>3. CASE Opens
  <2>1. PICK e : e = Entry(TRUE, <<>>)
    OBVIOUS
  <2>2. MacroStack = Append(SubSeq(stack, 1, n), e)
    BY <1>1, <1>3, <2>1 DEF MacroStack, Done
  <2>3. n \in 0 .. Len(stack)
    BY <1>1, Numbers
  <2>4. /\ MacroStack \in Seq(X \cup {e}) /\ Len(MacroStack) = n + 1 /\ MacroStack[n + 1] = e
        /\ \A i \in 1 .. n : MacroStack[i] = stack[i]
    BY <1>2, <2>2, <2>3, OnTop
  <2>5. DOMAIN e = {"macro", "cmds"} /\ e.cmds = <<>>
    BY <2>1 DEF Entry
  <2>6. Agree(stray, model, trail[n + 1]) /\ trail[n + 1] \in Models
    BY <1>1, <1>3, Numbers DEF Opens, UndoInv, Here
  <2>7. Links(stray, <<>>, trail[n + 1], model)
    BY <2>6, LinksNothing, AgreeFacts
  <2>8. QED
    BY <1>1, <2>4, <2>5, <2>7
<1>4. CASE ~Opens
  <2>1. open /\ MacroStack = stack
    BY <1>4 DEF Opens, MacroStack
  <2>2. Len(stack) = n + 1
    BY <1>1, <2>1, Numbers
  <2>3. Links(stray, stack[n + 1].cmds, trail[n + 1], model)
    BY <1>1, <2>1 DEF UndoInv, Here
  <2>4. n + 1 \in 1 .. Len(stack)
    BY <2>2
  <2>5. EntrySound(stack[n + 1])
    BY <2>4 DEF HistoryInv
  <2>6. DOMAIN stack[n + 1] = {"macro", "cmds"}
    BY <2>5 DEF EntrySound
  <2>7. QED
    BY <1>1, <1>2, <2>1, <2>2, <2>3, <2>6
<1>5. QED
  BY <1>3, <1>4

\* What a submission must leave of the macro.
LEMMA InMacro ==
    ASSUME HistoryInv, UndoInv, scopes > 0, index' = index, open', stray \subseteq stray',
           Len(stack') = index + 1, \A i \in 1 .. index : stack'[i].cmds = stack[i].cmds,
           Links(stray', stack'[index + 1].cmds, trail[index + 1], model'),
           Len(trail') = index + 1, \A i \in 1 .. index + 1 : trail'[i] = trail[i],
           clean' = IF Opens THEN CleanBelow ELSE clean, model'[Media] = model[Media], file' = file
    PROVE  /\ clean' \in Int /\ Lengths' /\ Chain(stray', stack', trail')
           /\ Here' /\ Saved(stray', trail', clean', model', file')
<1>1. PICK n \in Nat : n = index
  BY Numbers
<1>2. PICK S, T, tr, tr2, st, st2 :
          /\ S = stray /\ T = stray' /\ tr = trail /\ tr2 = trail' /\ st = stack /\ st2 = stack'
  OBVIOUS
<1>3. Len(tr) \in Nat /\ n + 1 <= Len(tr)
  BY <1>1, <1>2, Numbers
<1>4. \A i \in 1 .. n : Links(T, st2[i].cmds, tr2[i], tr2[i + 1])
  <2>1. Chain(S, st, tr) /\ S \subseteq T
    BY <1>2 DEF UndoInv
  <2>2. SameTo(n, st, tr, st2, tr2)
    BY <1>1, <1>2 DEF SameTo
  <2>3. QED
    BY <1>3, <2>1, <2>2, ChainStill
<1>5. Chain(stray', stack', trail')
  <2>1. Len(tr2) - 1 = n
    BY <1>1, <1>2
  <2>2. QED
    BY <1>2, <1>4, <2>1 DEF Chain
<1>6. clean \in Int /\ clean' \in Int /\ (clean' >= 0 => clean' = clean /\ clean + 1 <= n + 1)
  <2>1. clean \in Int
    BY DEF UndoInv, Typed
  <2>2. CASE Opens
    BY <1>1, <2>1, <2>2, CleanBelowIs
  <2>3. CASE ~Opens
    <3>1. open
      BY <2>3 DEF Opens
    <3>2. Len(trail) = n + 1
      BY <1>1, <3>1, Numbers
    <3>3. clean >= 0 => clean + 1 <= Len(trail)
      BY DEF UndoInv, Saved
    <3>4. QED
      BY <2>1, <2>3, <3>2, <3>3
  <2>4. QED
    BY <2>2, <2>3
<1>7. Saved(stray', trail', clean', model', file')
  <2>1. PICK cl, cl2, m, m2, f : cl = clean /\ cl2 = clean' /\ m = model /\ m2 = model' /\ f = file
    OBVIOUS
  <2>2. Saved(S, tr, cl, m, f)
    BY <1>2, <2>1 DEF UndoInv
  <2>3. n + 1 \in Nat /\ n + 1 <= Len(tr2) /\ Len(tr2) \in Nat /\ \A i \in 1 .. n + 1 : tr2[i] = tr[i]
    BY <1>1, <1>2
  <2>4. m2[Media] = m[Media] /\ cl \in Int /\ cl2 \in Int /\ (cl2 >= 0 => cl2 = cl /\ cl + 1 <= n + 1)
    BY <1>6, <2>1
  <2>5. S \subseteq T
    BY <1>2
  <2>6. Saved(T, tr2, cl2, m2, f)
    BY <2>2, <2>3, <2>4, <2>5, SavedStill
  <2>7. QED
    BY <1>2, <2>1, <2>6
<1>8. Lengths'
  BY DEF Lengths
<1>9. Here'
  <2>1. n + 1 \in 1 .. n + 1
    OBVIOUS
  <2>2. trail'[n + 1] = trail[n + 1]
    BY <1>1, <2>1
  <2>3. Links(stray', stack'[index' + 1].cmds, trail'[index' + 1], model')
    BY <1>1, <2>2
  <2>4. QED
    BY <2>3 DEF Here
<1>10. QED
  BY <1>5, <1>6, <1>7, <1>8, <1>9

\* A step that leaves the stack may change the model where writes are stray.
LEMMA SameStack ==
    ASSUME HistoryInv, UndoInv, UNCHANGED <<stack, index, open, trail, clean, file>>, stray \subseteq stray',
           Agree(stray', model', model), model'[Media] = model[Media]
    PROVE  /\ Lengths' /\ Chain(stray', stack', trail')
           /\ Here' /\ Saved(stray', trail', clean', model', file')
<1>1. PICK S, T, tr, st, m, m2 :
          S = stray /\ T = stray' /\ tr = trail /\ st = stack /\ m = model /\ m2 = model'
  OBVIOUS
<1>2. S \subseteq T /\ Agree(T, m2, m) /\ Agree(T, m, m2)
  BY <1>1, AgreeFacts
<1>3. Lengths'
  BY DEF Lengths, UndoInv
<1>4. Chain(T, st, tr)
  <2>1. Chain(S, st, tr)
    BY <1>1 DEF UndoInv
  <2>2. SUFFICES ASSUME NEW i \in 1 .. Len(tr) - 1 PROVE Links(T, st[i].cmds, tr[i], tr[i + 1])
    BY DEF Chain
  <2>3. Links(S, st[i].cmds, tr[i], tr[i + 1])
    BY <2>1 DEF Chain
  <2>4. QED
    BY <1>2, <2>3, LinksStill, AgreeFacts
<1>5. Here'
  <2>1. CASE open
    <3>1. PICK cmds, b : cmds = stack[index + 1].cmds /\ b = trail[index + 1]
      OBVIOUS
    <3>2. Links(S, cmds, b, m)
      BY <1>1, <2>1, <3>1 DEF UndoInv, Here
    <3>3. Links(T, cmds, b, m2)
      BY <1>2, <3>2, LinksStill, AgreeFacts
    <3>4. QED
      BY <1>1, <2>1, <3>1, <3>3 DEF Here
  <2>2. CASE ~open
    <3>1. PICK b : b = trail[index + 1]
      OBVIOUS
    <3>2. Agree(S, m, b)
      BY <1>1, <2>2, <3>1 DEF UndoInv, Here
    <3>3. Agree(T, m, b)
      BY <1>2, <3>2, AgreeFacts
    <3>4. Agree(T, m2, b)
      BY <1>2, <3>3, AgreeFacts
    <3>5. QED
      BY <1>1, <2>2, <3>1, <3>4 DEF Here
  <2>3. QED
    BY <2>1, <2>2
<1>6. Saved(stray', trail', clean', model', file')
  <2>1. PICK cl, f : cl = clean /\ f = file
    OBVIOUS
  <2>2. Saved(S, tr, cl, m, f)
    BY <1>1, <2>1 DEF UndoInv
  <2>3. Saved(T, tr, cl, m2, f)
    <3>1. SUFFICES ASSUME cl >= 0
                   PROVE  cl + 1 <= Len(tr) /\ Agree(T, f, tr[cl + 1]) /\ f[Media] = m2[Media]
      BY DEF Saved
    <3>2. cl + 1 <= Len(tr) /\ Agree(S, f, tr[cl + 1]) /\ f[Media] = m[Media]
      BY <2>2, <3>1 DEF Saved
    <3>3. Agree(T, f, tr[cl + 1])
      BY <1>2, <3>2, AgreeFacts
    <3>4. QED
      BY <1>1, <3>2, <3>3
  <2>4. QED
    BY <1>1, <2>1, <2>3
<1>7. QED
  BY <1>1, <1>3, <1>4, <1>5, <1>6

LEMMA LastOne ==
    ASSUME NEW X, NEW s \in Seq(X), NEW x \in X
    PROVE  Last(s \o <<x>>) = x /\ Append(s, x) = s \o <<x>>
<1>1. PICK n \in Nat : n = Len(s)
  OBVIOUS
<1>2. Len(s \o <<x>>) = n + 1 /\ (s \o <<x>>)[n + 1] = x
  BY <1>1
<1>3. QED
  BY <1>2 DEF Last

\* A command joins those of a macro.
LEMMA JoinedLinks ==
    ASSUME NEW S, NEW cmds, NEW b, NEW m \in Models, Links(S, cmds, b, m), locator \in Frame,
           NEW verbs \in Seq(Verbs), NEW run, Ran(run, m, verbs), run.undoable,
           NEW gesture \in Nat, NEW new, Made(new, verbs, run, gesture),
           NEW T, T = S \cup Astray(run.model, run.wrote, Last(Joined(cmds, new)).inverse)
    PROVE  Links(T, Joined(cmds, new), b, run.model) /\ Last(Joined(cmds, new)).inverse \in Seq(Verbs)
<1>1. /\ new \in Commands /\ new.forward = verbs /\ new.inverse = run.inverse
      /\ run.model \in Models
      /\ \A U : Astray(run.model, run.wrote, new.inverse) \subseteq U => Leads(U, new, m, run.model)
  <2>1. Accepted(new, verbs, m, run)
    BY Heard
  <2>2. QED
    BY <2>1 DEF Accepted
<1>2. cmds \in Seq(Commands)
  BY DEF Links
<1>3. CASE cmds # <<>> /\ Merges(Last(cmds), new)
  <2>1. PICK old, front : old = Last(cmds) /\ front = Front(cmds)
    OBVIOUS
  <2>2. PICK mid \in Models : old \in Commands /\ Links(S, front, b, mid) /\ Leads(S, old, mid, m)
    BY <1>3, <2>1, LinksLast
  <2>3. PICK cmd : cmd = Merged(old, new)
    OBVIOUS
  <2>4. Joined(cmds, new) = front \o <<cmd>>
    BY <1>3, <2>1, <2>3 DEF Joined
  <2>5. cmd \in Commands
    BY <1>1, <2>2, <2>3 DEF Merged, Commands
  <2>6. Last(front \o <<cmd>>) = cmd
    BY <2>2, <2>5, LastOne DEF Links
  <2>7. T = S \cup Astray(run.model, run.wrote, Merged(old, new).inverse)
    BY <2>3, <2>4, <2>6
  <2>8. Merges(old, new) /\ Agree(S, m, m)
    BY <1>3, <2>1, AgreeFacts
  <2>9. Leads(T, Merged(old, new), mid, run.model)
    BY <1>1, <2>2, <2>7, <2>8, HeardMerged
  <2>10. Links(T, front, b, mid)
    <3>1. S \subseteq T
      BY <2>7
    <3>2. QED
      BY <2>2, <3>1, LinksStill, AgreeFacts
  <2>11. Links(T, front \o <<cmd>>, b, run.model)
    BY <1>1, <2>3, <2>5, <2>9, <2>10, LinksMore
  <2>12. cmd.inverse \in Seq(Verbs)
    BY <2>5 DEF Commands
  <2>13. QED
    BY <2>4, <2>6, <2>11, <2>12
<1>4. CASE ~(cmds # <<>> /\ Merges(Last(cmds), new))
  <2>1. Joined(cmds, new) = Append(cmds, new)
    BY <1>4 DEF Joined
  <2>2. Joined(cmds, new) = cmds \o <<new>> /\ Last(cmds \o <<new>>) = new
    BY <1>1, <1>2, <2>1, LastOne
  <2>3. S \subseteq T
    OBVIOUS
  <2>4. Links(T, cmds, b, m)
    BY <2>3, LinksStill, AgreeFacts
  <2>8. Leads(T, new, m, run.model)
    BY <1>1, <2>2
  <2>5. Links(T, cmds \o <<new>>, b, run.model)
    BY <1>1, <2>4, <2>8, LinksMore
  <2>6. new.inverse \in Seq(Verbs)
    BY <1>1 DEF Commands
  <2>7. QED
    BY <2>2, <2>5, <2>6
<1>5. QED
  BY <1>3, <1>4

LEMMA PushJoins ==
    ASSUME HistoryInv, UndoInv, scopes > 0, NEW verbs \in Seq(Verbs), NEW run, Ran(run, model, verbs),
           run.undoable, NEW gesture \in Nat, NEW new, Made(new, verbs, run, gesture),
           PushInMacro(new, run), model' = run.model, open', file' = file
    PROVE  /\ trail' \in Seq(Models) /\ clean' \in Int /\ Lengths' /\ Chain(stray', stack', trail')
           /\ Here' /\ Saved(stray', trail', clean', model', file')
           /\ \E inverse \in Seq(Verbs) : stray' = stray \cup Astray(run.model, run.wrote, inverse)
<1>1. PICK n \in Nat : n = index
  BY Numbers
<1>2. PICK X, ms : ms = MacroStack /\ ms \in Seq(X)
  BY MacroReady
<1>3. /\ Len(ms) = n + 1 /\ \A i \in 1 .. n : ms[i] = stack[i]
  BY <1>1, <1>2, MacroReady
<1>4. PICK macro : macro = ms[n + 1]
  OBVIOUS
<1>5. Last(ms) = macro
  BY <1>3, <1>4 DEF Last
<1>6. DOMAIN macro = {"macro", "cmds"} /\ Links(stray, macro.cmds, trail[n + 1], model)
  BY <1>1, <1>2, <1>4, MacroReady
<1>7. PICK cmds, e : cmds = Joined(macro.cmds, new) /\ e = [macro EXCEPT !.cmds = cmds]
  OBVIOUS
<1>8. e.cmds = cmds
  BY <1>6, <1>7
<1>9. /\ stack' = Front(ms) \o <<e>> /\ clean' = (IF Opens THEN CleanBelow ELSE clean)
      /\ trail' = Past /\ index' = index
      /\ stray' = stray \cup Astray(run.model, run.wrote, Last(cmds).inverse)
  BY <1>2, <1>5, <1>7 DEF PushInMacro
<1>10. /\ Len(stack') = n + 1 /\ stack'[n + 1] = e /\ \A i \in 1 .. n : stack'[i] = stack[i]
  <2>1. Front(ms) = SubSeq(ms, 1, Len(ms) - 1) /\ Len(ms) > 0
    BY <1>3 DEF Front
  <2>2. /\ Len(stack') = Len(ms) /\ stack'[Len(ms)] = e
        /\ \A i \in 1 .. Len(ms) - 1 : stack'[i] = ms[i]
    BY <1>2, <1>9, <2>1, LastReplaced
  <2>3. Len(ms) - 1 = n
    BY <1>3
  <2>4. QED
    BY <1>3, <2>2, <2>3
<1>11. model \in Models /\ locator \in Frame
  BY DEF UndoInv, Typed
<1>12. Links(stray', cmds, trail[n + 1], run.model) /\ Last(cmds).inverse \in Seq(Verbs)
  <2>1. PICK S, T, old, b, m : S = stray /\ T = stray' /\ old = macro.cmds /\ b = trail[n + 1] /\ m = model
    OBVIOUS
  <2>2. m \in Models /\ Links(S, old, b, m) /\ Ran(run, m, verbs)
    BY <1>6, <1>11, <2>1
  <2>3. T = S \cup Astray(run.model, run.wrote, Last(Joined(old, new)).inverse)
    BY <1>7, <1>9, <2>1
  <2>4. Links(T, Joined(old, new), b, run.model) /\ Last(Joined(old, new)).inverse \in Seq(Verbs)
    BY <1>11, <2>2, <2>3, JoinedLinks
  <2>5. QED
    BY <1>7, <2>1, <2>4
<1>13. Past \in Seq(Models) /\ Len(Past) = n + 1 /\ \A i \in 1 .. n + 1 : Past[i] = trail[i]
  BY <1>1, PastIs
<1>14. run.model[Media] = model[Media]
  BY <1>11, Heard DEF Accepted
<1>15. /\ clean' \in Int /\ Lengths' /\ Chain(stray', stack', trail')
       /\ Here' /\ Saved(stray', trail', clean', model', file')
  <2>1. stray \subseteq stray' /\ \A i \in 1 .. index : stack'[i].cmds = stack[i].cmds
    BY <1>1, <1>9, <1>10
  <2>2. Len(stack') = index + 1 /\ Links(stray', stack'[index + 1].cmds, trail[index + 1], model')
    BY <1>1, <1>8, <1>10, <1>12
  <2>3. Len(trail') = index + 1 /\ \A i \in 1 .. index + 1 : trail'[i] = trail[i]
    BY <1>1, <1>9, <1>13
  <2>4. model'[Media] = model[Media]
    BY <1>14
  <2>5. QED
    BY <1>9, <2>1, <2>2, <2>3, <2>4, InMacro
<1>16. QED
  BY <1>9, <1>12, <1>13, <1>15

LEMMA NotPushed ==
    ASSUME HistoryInv, UndoInv, NEW verbs \in Seq(Verbs), PoisonAlone(verbs), NEW run,
           run = Apply(model, verbs), ~(run.ok /\ run.undoable), NoPush(run), model' = run.model,
           open' = (open \/ Opens), file' = file
    PROVE  /\ trail' \in Seq(Models) /\ clean' \in Int /\ Lengths' /\ Chain(stray', stack', trail')
           /\ Here' /\ Saved(stray', trail', clean', model', file')
           /\ stray' = stray \cup Range(run.wrote)
<1>1. /\ stack' = MacroStack /\ clean' = (IF Opens THEN CleanBelow ELSE clean)
      /\ trail' = (IF Opens THEN Past ELSE trail) /\ index' = index
      /\ stray' = stray \cup Range(run.wrote)
  BY DEF NoPush
<1>2. model \in Models /\ locator \in Frame /\ trail \in Seq(Models) /\ clean \in Int
  BY DEF UndoInv, Typed
<1>3. Agree(stray', run.model, model) /\ run.model[Media] = model[Media]
  <2>1. PICK S, T, m : S = stray /\ T = stray' /\ m = model
    OBVIOUS
  <2>2. T = S \cup Range(run.wrote) /\ m \in Models /\ run = Apply(m, verbs)
    BY <1>1, <1>2, <2>1
  <2>3. Agree(T, run.model, m) /\ run.model[Media] = m[Media]
    BY <1>2, <2>2, Unheard
  <2>4. QED
    BY <2>1, <2>3
<1>4. scopes \in Nat
  BY DEF HistoryInv
<1>5. CASE scopes = 0
  <2>1. ~open /\ ~Opens
    BY <1>5 DEF HistoryInv, Opens
  <2>2. open = FALSE /\ open' = FALSE
    <3>1. open \in BOOLEAN
      BY DEF HistoryInv
    <3>2. QED
      BY <2>1, <3>1, Zenon
  <2>3. UNCHANGED <<stack, index, open, trail, clean, file>>
    BY <1>1, <2>1, <2>2 DEF MacroStack
  <2>4. /\ Lengths' /\ Chain(stray', stack', trail')
        /\ Here' /\ Saved(stray', trail', clean', model', file')
    BY <1>1, <1>3, <2>3, SameStack
  <2>5. QED
    BY <1>1, <1>2, <2>3, <2>4
<1>6. CASE scopes > 0
  <2>1. open'
    BY <1>6 DEF Opens
  <2>2. /\ Len(stack') = index + 1 /\ \A i \in 1 .. index : stack'[i] = stack[i]
        /\ Links(stray, stack'[index + 1].cmds, trail[index + 1], model)
    BY <1>1, <1>6, MacroReady
  <2>3. Links(stray', stack'[index + 1].cmds, trail[index + 1], model')
    <3>1. PICK S, T, cmds, b, m, m2 :
              /\ S = stray /\ T = stray' /\ cmds = stack'[index + 1].cmds /\ b = trail[index + 1]
              /\ m = model /\ m2 = model'
      OBVIOUS
    <3>2. Links(S, cmds, b, m) /\ S \subseteq T /\ Agree(T, m2, m)
      BY <1>1, <1>3, <2>2, <3>1
    <3>3. Agree(T, m, m2) /\ Agree(T, b, b)
      BY <3>2, AgreeFacts
    <3>4. Links(T, cmds, b, m2)
      BY <3>2, <3>3, LinksStill
    <3>5. QED
      BY <3>1, <3>4
  <2>4. trail' \in Seq(Models) /\ Len(trail') = index + 1 /\ \A i \in 1 .. index + 1 : trail'[i] = trail[i]
    <3>1. CASE Opens
      BY <1>1, <3>1, PastIs
    <3>2. CASE ~Opens
      <4>1. open
        BY <1>6, <3>2 DEF Opens
      <4>2. QED
        BY <1>1, <1>2, <3>2, <4>1, Numbers
    <3>3. QED
      BY <3>1, <3>2
  <2>5. /\ clean' \in Int /\ Lengths' /\ Chain(stray', stack', trail')
        /\ Here' /\ Saved(stray', trail', clean', model', file')
    <3>1. stray \subseteq stray' /\ model'[Media] = model[Media]
      BY <1>1, <1>3
    <3>2. \A i \in 1 .. index : stack'[i].cmds = stack[i].cmds
      BY <2>2
    <3>3. QED
      BY <1>1, <1>6, <2>1, <2>2, <2>3, <2>4, <3>1, <3>2, InMacro
  <2>6. QED
    BY <1>1, <2>4, <2>5
<1>7. QED
  BY <1>4, <1>5, <1>6

LEMMA SubmitUndo ==
    ASSUME HistoryInv, UndoInv, NEW verbs \in Seq(Verbs), PoisonAlone(verbs), NEW gesture \in Nat,
           Submit(verbs, gesture)
    PROVE  UndoInv'
<1>1. /\ model \in Models /\ file \in Models /\ locator \in Frame /\ stray \in SUBSET Cell
      /\ tokens \in Nat /\ drag \in Nat /\ rejected \in Nat /\ clean \in Int /\ trail \in Seq(Models)
  BY DEF UndoInv, Typed
<1>2. PICK run : run = Apply(model, verbs)
  OBVIOUS
<1>3. PICK new : new = Command(verbs, run.inverse, gesture)
  OBVIOUS
<1>4. /\ model' = run.model /\ open' = (open \/ Opens) /\ UNCHANGED <<file, locator, scopes, drag>>
      /\ IF ~(run.ok /\ run.undoable) THEN NoPush(run)
         ELSE IF scopes > 0 THEN PushInMacro(new, run) ELSE Push(new, run)
  BY <1>2, <1>3 DEF Submit
<1>5. tokens' \in Nat /\ rejected' \in Nat
  <2>1. tokens' = (IF gesture > tokens THEN gesture ELSE tokens) /\ (rejected' = rejected \/ rejected' = rejected + 1)
    BY DEF Submit
  <2>2. QED
    BY <1>1, <2>1
<1>6. run.model \in Models /\ run.wrote \in Seq(Cell)
  BY <1>1, <1>2, Applied
<1>7. Range(run.wrote) \subseteq Cell
  <2>1. DOMAIN run.wrote = 1 .. Len(run.wrote) /\ \A i \in 1 .. Len(run.wrote) : run.wrote[i] \in Cell
    BY <1>6, IsSeq
  <2>2. QED
    BY <2>1 DEF Range
<1>8. ASSUME NEW inverse \in Seq(Verbs), stray' = stray \cup Astray(run.model, run.wrote, inverse)
      PROVE  stray' \in SUBSET Cell
  <2>1. PICK more : more = Astray(run.model, run.wrote, inverse)
    OBVIOUS
  <2>2. more \subseteq Cell
    <3>1. PICK m, w : m = run.model /\ w = run.wrote
      OBVIOUS
    <3>2. Astray(m, w, inverse) \subseteq Cell
      BY <1>1, <1>6, <3>1, AstrayCells
    <3>3. QED
      BY <2>1, <3>1, <3>2
  <2>3. QED
    BY <1>1, <1>8, <2>1, <2>2
<1>9. SUFFICES /\ trail' \in Seq(Models) /\ clean' \in Int /\ Lengths' /\ Chain(stray', stack', trail')
               /\ Here' /\ Saved(stray', trail', clean', model', file') /\ stray' \in SUBSET Cell
  BY <1>1, <1>4, <1>5, <1>6 DEF UndoInv, Typed
<1>10. scopes \in Nat /\ open \in BOOLEAN
  BY DEF HistoryInv
<1>11. CASE ~(run.ok /\ run.undoable)
  <2>1. NoPush(run)
    BY <1>4, <1>11
  <2>2. /\ trail' \in Seq(Models) /\ clean' \in Int /\ Lengths' /\ Chain(stray', stack', trail')
        /\ Here' /\ Saved(stray', trail', clean', model', file')
        /\ stray' = stray \cup Range(run.wrote)
    BY <1>2, <1>4, <1>11, <2>1, NotPushed
  <2>3. QED
    BY <1>1, <1>7, <2>2
<1>12. CASE run.ok /\ run.undoable
  <2>1. Ran(run, model, verbs) /\ Made(new, verbs, run, gesture) /\ run.undoable
    BY <1>2, <1>3, <1>12 DEF Ran, Made
  <2>2. Accepted(new, verbs, model, run)
    BY <1>1, <2>1, Heard
  <2>3. /\ new \in Commands /\ new.forward = verbs /\ new.inverse = run.inverse
        /\ run.model[Media] = model[Media]
        /\ \A S : Astray(run.model, run.wrote, new.inverse) \subseteq S
                   => Leads(S, new, model, run.model)
    BY <2>2 DEF Accepted
  <2>4. \A cmd \in Commands : cmd.inverse \in Seq(Verbs)
    BY DEF Commands
  <2>5. CASE scopes > 0
    <3>1. PushInMacro(new, run) /\ open' /\ file' = file
      BY <1>4, <1>12, <2>5 DEF Opens
    <3>2. /\ trail' \in Seq(Models) /\ clean' \in Int /\ Lengths' /\ Chain(stray', stack', trail')
          /\ Here' /\ Saved(stray', trail', clean', model', file')
          /\ \E inverse \in Seq(Verbs) : stray' = stray \cup Astray(run.model, run.wrote, inverse)
      BY <1>4, <2>1, <2>5, <3>1, PushJoins
    <3>3. QED
      BY <1>8, <3>2
  <2>6. CASE ~(scopes > 0)
    <3>1. Push(new, run) /\ scopes = 0
      BY <1>4, <1>10, <1>12, <2>6
    <3>2. open' = open /\ file' = file
      <4>1. open = FALSE /\ ~Opens
        BY <1>10, <3>1 DEF HistoryInv, Opens
      <4>2. QED
        BY <1>4, <4>1
    <3>3. CASE MergesIntoTop(new)
      <4>1. /\ trail' \in Seq(Models) /\ clean' \in Int /\ Lengths' /\ Chain(stray', stack', trail')
            /\ Here' /\ Saved(stray', trail', clean', model', file')
            /\ \E cmd \in Commands : stray' = stray \cup Astray(run.model, run.wrote, cmd.inverse)
        <5>1. run.ok /\ run.model \in Models /\ UNCHANGED <<file, open>>
          BY <1>6, <1>12, <3>2
        <5>2. QED
          BY <1>2, <1>4, <2>1, <2>3, <3>1, <3>3, <5>1, PushIntoTop
      <4>2. QED
        BY <1>8, <2>4, <4>1
    <3>4. CASE ~MergesIntoTop(new)
      <4>1. /\ trail' \in Seq(Models) /\ clean' \in Int /\ Lengths' /\ Chain(stray', stack', trail')
            /\ Here' /\ Saved(stray', trail', clean', model', file')
            /\ stray' = stray \cup Astray(run.model, run.wrote, new.inverse)
        <5>1. Astray(run.model, run.wrote, new.inverse) \subseteq stray'
          BY <3>1, <3>4 DEF Push
        <5>2. Leads(stray', new, model, run.model)
          BY <2>3, <5>1
        <5>3. QED
          BY <1>4, <1>6, <2>3, <3>1, <3>2, <3>4, <5>2, PushOnTop
      <4>2. QED
        BY <1>8, <2>3, <2>4, <4>1
    <3>5. QED
      BY <3>3, <3>4
  <2>7. QED
    BY <2>5, <2>6
<1>13. QED
  BY <1>11, <1>12

LEMMA SubmitAnyUndo ==
    ASSUME PoisonStandsAlone, HistoryInv, UndoInv, SubmitAny
    PROVE  UndoInv'
<1>1. tokens \in Nat /\ drag \in Nat /\ tokens + 1 \in Nat
  BY DEF UndoInv, Typed
<1>2. ASSUME NEW verbs \in Actions, SubmitEdit(verbs) PROVE UndoInv'
  <2>1. verbs \in Seq(Verbs) /\ PoisonAlone(verbs)
    BY SubmittedVerbs
  <2>2. PICK gesture \in Nat : gesture = tokens + 1
    BY <1>1
  <2>3. Submit(verbs, gesture)
    BY <1>2, <2>2 DEF SubmitEdit
  <2>4. QED
    BY <2>1, <2>3, SubmitUndo
<1>3. ASSUME NEW t \in Track, NEW v \in Value, SubmitDrag(t, v) PROVE UndoInv'
  <2>1. PICK verbs : verbs = <<Volume(t, v)>>
    OBVIOUS
  <2>2. verbs \in Seq(Verbs) /\ PoisonAlone(verbs)
    BY <2>1, SubmittedVerbs
  <2>3. PICK gesture \in Nat : gesture = drag
    BY <1>1
  <2>4. Submit(verbs, gesture)
    BY <1>3, <2>1, <2>3 DEF SubmitDrag
  <2>5. QED
    BY <2>2, <2>4, SubmitUndo
<1>4. QED
  BY <1>2, <1>3 DEF SubmitAny

\* Steps of the controls and of the playhead, and the beginning of a recording.
LEMMA QuietUndo ==
    ASSUME HistoryInv, UndoInv, Press \/ Release \/ RecordBegin \/ Play \/ UNCHANGED vars
    PROVE  UndoInv'
<1>1. /\ model \in Models /\ file \in Models /\ locator \in Frame /\ stray \in SUBSET Cell
      /\ tokens \in Nat /\ drag \in Nat /\ rejected \in Nat /\ clean \in Int /\ trail \in Seq(Models)
  BY DEF UndoInv, Typed
<1>2. UNCHANGED <<stack, index, open, trail, clean, file, stray, model, rejected>>
  BY DEF Press, Release, RecordBegin, Play, vars, undo, books
<1>3. tokens' \in Nat /\ drag' \in Nat /\ locator' \in Frame
  <2>1. CASE Press
    BY <1>1, <2>1 DEF Press
  <2>2. CASE Release \/ RecordBegin \/ Play \/ UNCHANGED vars
    BY <1>1, <2>2 DEF Release, RecordBegin, Play, vars
  <2>3. QED
    BY <2>1, <2>2
<1>4. /\ Lengths' /\ Chain(stray', stack', trail')
      /\ Here' /\ Saved(stray', trail', clean', model', file')
  BY <1>2, SameStack, AgreeFacts
<1>5. QED
  BY <1>1, <1>2, <1>3, <1>4 DEF UndoInv, Typed

LEMMA CollectUndo ==
    ASSUME HistoryInv, UndoInv, Collect
    PROVE  UndoInv'
<1>1. /\ model \in Models /\ file \in Models /\ locator \in Frame /\ stray \in SUBSET Cell
      /\ tokens \in Nat /\ drag \in Nat /\ rejected \in Nat /\ trail \in Seq(Models)
  BY DEF UndoInv, Typed
<1>2. /\ model' = [model EXCEPT ![Media] = 1] /\ clean' = -1
      /\ UNCHANGED <<stack, index, open, trail, file, stray, tokens, drag, locator, rejected>>
  BY DEF Collect, books
<1>3. model' \in Models /\ clean' \in Int
  BY <1>1, <1>2, CellsApart DEF Models
<1>4. Agree(stray, model', model)
  BY <1>1, <1>2, CellsApart DEF Models, Agree
<1>5. Saved(stray', trail', clean', model', file')
  BY <1>2 DEF Saved
<1>6. Lengths' /\ Chain(stray', stack', trail')
  BY <1>2 DEF UndoInv, Lengths, Chain
<1>7. Here'
  <2>1. PICK S, m, m2 : S = stray /\ m = model /\ m2 = model'
    OBVIOUS
  <2>2. Agree(S, m2, m) /\ Agree(S, m, m2)
    BY <1>4, <2>1, AgreeFacts
  <2>3. CASE open
    <3>1. PICK cmds, b : cmds = stack[index + 1].cmds /\ b = trail[index + 1]
      OBVIOUS
    <3>2. Links(S, cmds, b, m)
      BY <2>1, <2>3, <3>1 DEF UndoInv, Here
    <3>3. Links(S, cmds, b, m2)
      BY <2>2, <3>2, LinksStill, AgreeFacts
    <3>4. QED
      BY <1>2, <2>1, <2>3, <3>1, <3>3 DEF Here
  <2>4. CASE ~open
    <3>1. PICK b : b = trail[index + 1]
      OBVIOUS
    <3>2. Agree(S, m, b)
      BY <2>1, <2>4, <3>1 DEF UndoInv, Here
    <3>3. Agree(S, m2, b)
      BY <2>2, <3>2, AgreeFacts
    <3>4. QED
      BY <1>2, <2>1, <2>4, <3>1, <3>3 DEF Here
  <2>5. QED
    BY <2>3, <2>4
<1>8. QED
  BY <1>1, <1>2, <1>3, <1>5, <1>6, <1>7 DEF UndoInv, Typed

\* The macro of a recording becomes an entry like the others.
LEMMA RecordEndUndo ==
    ASSUME HistoryInv, UndoInv, RecordEnd
    PROVE  UndoInv'
<1>1. /\ model \in Models /\ file \in Models /\ locator \in Frame /\ stray \in SUBSET Cell
      /\ tokens \in Nat /\ drag \in Nat /\ rejected \in Nat /\ clean \in Int /\ trail \in Seq(Models)
  BY DEF UndoInv, Typed
<1>2. UNCHANGED <<model, file, locator, stack, clean, drag, tokens, rejected, stray>>
  BY DEF RecordEnd
<1>3. CASE ~(scopes = 1 /\ open)
  <2>1. UNCHANGED <<open, index, trail>>
    BY <1>3 DEF RecordEnd
  <2>2. /\ Lengths' /\ Chain(stray', stack', trail')
        /\ Here' /\ Saved(stray', trail', clean', model', file')
    BY <1>2, <2>1, SameStack, AgreeFacts
  <2>3. QED
    BY <1>1, <1>2, <2>1, <2>2 DEF UndoInv, Typed
<1>4. CASE scopes = 1 /\ open
  <2>1. PICK n \in Nat : n = index
    BY Numbers
  <2>2. open' = FALSE /\ index' = n + 1 /\ trail' = Append(Past, model)
    BY <1>4, <2>1 DEF RecordEnd
  <2>3. Len(trail) = n + 1 /\ Len(stack) = n + 1
    BY <1>4, <2>1, Numbers
  <2>4. Past \in Seq(Models) /\ Len(Past) = n + 1 /\ \A i \in 1 .. n + 1 : Past[i] = trail[i]
    BY <2>1, PastIs
  <2>5. /\ trail' \in Seq(Models) /\ Len(trail') = n + 2 /\ trail'[n + 2] = model
        /\ \A i \in 1 .. n + 1 : trail'[i] = trail[i]
    <3>1. /\ Append(Past, model) \in Seq(Models) /\ Len(Append(Past, model)) = (n + 1) + 1
          /\ Append(Past, model)[(n + 1) + 1] = model
          /\ \A i \in 1 .. n + 1 : Append(Past, model)[i] = Past[i]
      BY <1>1, <2>4
    <3>2. (n + 1) + 1 = n + 2
      OBVIOUS
    <3>3. QED
      BY <2>2, <2>4, <3>1, <3>2
  <2>6. PICK S, tr, tr2, st : S = stray /\ tr = trail /\ tr2 = trail' /\ st = stack
    OBVIOUS
  <2>7. \A i \in 1 .. n : Links(S, st[i].cmds, tr2[i], tr2[i + 1])
    <3>1. Chain(S, st, tr)
      BY <2>6 DEF UndoInv
    <3>2. Len(tr) \in Nat /\ n + 1 <= Len(tr) /\ SameTo(n, st, tr, st, tr2)
      BY <2>3, <2>5, <2>6 DEF SameTo
    <3>3. QED
      BY <3>1, <3>2, ChainStill
  <2>8. Links(S, st[n + 1].cmds, tr2[n + 1], tr2[n + 2])
    <3>1. Links(S, st[n + 1].cmds, tr[n + 1], model)
      BY <1>4, <2>1, <2>6 DEF UndoInv, Here
    <3>2. n + 1 \in 1 .. n + 1
      OBVIOUS
    <3>3. QED
      BY <2>5, <2>6, <3>1, <3>2
  <2>9. Chain(stray', stack', trail')
    <3>1. Len(tr2) = n + 2
      BY <2>5, <2>6
    <3>2. Chain(S, st, tr2)
      BY <2>7, <2>8, <3>1, ChainOnTop
    <3>3. QED
      BY <1>2, <2>6, <3>2
  <2>10. Saved(stray', trail', clean', model', file')
    <3>1. PICK cl, m, f : cl = clean /\ m = model /\ f = file
      OBVIOUS
    <3>2. Saved(S, tr, cl, m, f)
      BY <2>6, <3>1 DEF UndoInv
    <3>3. cl >= 0 => cl = cl /\ cl + 1 <= n + 1
      BY <2>3, <2>6, <3>2 DEF Saved
    <3>4. n + 1 \in Nat /\ n + 1 <= Len(tr2) /\ Len(tr2) \in Nat /\ \A i \in 1 .. n + 1 : tr2[i] = tr[i]
      BY <2>5, <2>6
    <3>5. cl \in Int /\ S \subseteq S /\ m[Media] = m[Media]
      BY <1>1, <3>1
    <3>6. Saved(S, tr2, cl, m, f)
      BY <3>2, <3>3, <3>4, <3>5, SavedStill
    <3>7. QED
      BY <1>2, <2>6, <3>1, <3>6
  <2>11. Lengths'
    <3>1. n + 2 = (n + 1) + 1
      OBVIOUS
    <3>2. QED
      BY <1>2, <2>2, <2>3, <2>5, <3>1 DEF Lengths
  <2>12. Here'
    <3>1. index' + 1 = n + 2
      BY <2>2
    <3>2. trail'[index' + 1] = model'
      BY <1>2, <2>5, <3>1
    <3>3. Agree(stray', model', trail'[index' + 1])
      BY <3>2, AgreeFacts
    <3>4. QED
      BY <2>2, <3>3 DEF Here
  <2>13. QED
    BY <1>1, <1>2, <2>5, <2>9, <2>10, <2>11, <2>12 DEF UndoInv, Typed
<1>5. QED
  BY <1>3, <1>4

\* With no recording the model is at a state of the trail.
LEMMA AtState ==
    ASSUME HistoryInv, UndoInv, scopes = 0
    PROVE  open = FALSE /\ Agree(stray, model, trail[index + 1]) /\ Len(trail) = Len(stack) + 1
<1>1. open = FALSE
  BY DEF HistoryInv
<1>2. QED
  BY <1>1 DEF UndoInv, Here, Lengths

LEMMA UndoUndo ==
    ASSUME HistoryInv, UndoInv, Undo
    PROVE  UndoInv'
<1>1. /\ model \in Models /\ file \in Models /\ locator \in Frame /\ stray \in SUBSET Cell
      /\ tokens \in Nat /\ drag \in Nat /\ rejected \in Nat /\ clean \in Int /\ trail \in Seq(Models)
  BY DEF UndoInv, Typed
<1>2. /\ scopes = 0 /\ index > 0 /\ index' = index - 1
      /\ UNCHANGED <<file, locator, stack, clean, open, drag, tokens, rejected, trail, stray>>
  BY DEF Undo, books
<1>3. open = FALSE /\ Agree(stray, model, trail[index + 1]) /\ Len(trail) = Len(stack) + 1
  BY <1>2, AtState
<1>4. PICK cmds : cmds = stack[index].cmds
  OBVIOUS
<1>5. model' = UndoneIn(model, cmds)[Len(cmds)]
  BY <1>4 DEF Undo
<1>6. index \in 1 .. Len(trail) - 1
  BY <1>2, <1>3, Numbers
<1>7. PICK S, b, a, m, u : /\ S = stray /\ b = trail[index] /\ a = trail[index + 1] /\ m = model
                           /\ u = model'
  OBVIOUS
<1>8. Links(S, cmds, b, a)
  BY <1>4, <1>6, <1>7 DEF UndoInv, Chain
<1>9. Agree(S, m, a) /\ m \in Models /\ u = UndoneIn(m, cmds)[Len(cmds)]
  BY <1>1, <1>3, <1>5, <1>7
<1>10. u \in Models /\ Agree(S, u, b) /\ u[Media] = m[Media]
  BY <1>1, <1>8, <1>9, UndoLinks
<1>11. Here'
  <2>1. index' + 1 = index
    BY <1>2, Numbers
  <2>2. Agree(stray', model', trail'[index' + 1])
    BY <1>2, <1>7, <1>10, <2>1
  <2>3. QED
    BY <1>2, <1>3, <2>2 DEF Here
<1>12. Lengths' /\ Chain(stray', stack', trail')
  <2>1. Chain(stray', stack', trail')
    BY <1>2 DEF UndoInv, Chain
  <2>2. QED
    BY <1>2, <1>3, <2>1 DEF Lengths
<1>13. Saved(stray', trail', clean', model', file')
  BY <1>2, <1>7, <1>10 DEF UndoInv, Saved
<1>14. QED
  BY <1>1, <1>2, <1>7, <1>10, <1>11, <1>12, <1>13 DEF UndoInv, Typed

LEMMA RedoUndo ==
    ASSUME HistoryInv, UndoInv, Redo
    PROVE  UndoInv'
<1>1. /\ model \in Models /\ file \in Models /\ locator \in Frame /\ stray \in SUBSET Cell
      /\ tokens \in Nat /\ drag \in Nat /\ rejected \in Nat /\ clean \in Int /\ trail \in Seq(Models)
  BY DEF UndoInv, Typed
<1>2. /\ scopes = 0 /\ index < Len(stack) /\ index' = index + 1
      /\ UNCHANGED <<file, locator, stack, clean, open, drag, tokens, rejected, trail>>
  BY DEF Redo
<1>3. open = FALSE /\ Agree(stray, model, trail[index + 1]) /\ Len(trail) = Len(stack) + 1
  BY <1>2, AtState
<1>4. PICK cmds, done : /\ cmds = stack[index + 1].cmds
                        /\ done = RedoneIn([model |-> model, stray |-> stray], cmds)[Len(cmds)]
  OBVIOUS
<1>5. model' = done.model /\ stray' = done.stray
  BY <1>4 DEF Redo
<1>6. index \in Nat /\ index + 1 \in 1 .. Len(trail) - 1 /\ (index + 1) + 1 = index + 2
  BY <1>2, <1>3, Numbers
<1>7. PICK S, b, a, m : S = stray /\ b = trail[index + 1] /\ a = trail[index + 2] /\ m = model
  OBVIOUS
<1>8. Links(S, cmds, b, a)
  BY <1>4, <1>6, <1>7 DEF UndoInv, Chain
<1>9. /\ Agree(S, m, b) /\ m \in Models /\ S \in SUBSET Cell
      /\ done = RedoneIn([model |-> m, stray |-> S], cmds)[Len(cmds)]
  BY <1>1, <1>3, <1>4, <1>7
<1>10. /\ done.model \in Models /\ done.stray \in SUBSET Cell /\ S \subseteq done.stray
       /\ Agree(done.stray, done.model, a) /\ done.model[Media] = m[Media]
  <2>1. RedoneEntry(S, cmds, m, a)
    BY <1>1, <1>8, <1>9, RedoLinks
  <2>2. QED
    BY <1>9, <2>1 DEF RedoneEntry
<1>11. Here'
  <2>1. index' + 1 = index + 2
    BY <1>2, <1>6
  <2>2. Agree(stray', model', trail'[index' + 1])
    BY <1>2, <1>5, <1>7, <1>10, <2>1
  <2>3. QED
    BY <1>2, <1>3, <2>2 DEF Here
<1>12. PICK T, st, tr : T = stray' /\ st = stack /\ tr = trail
  OBVIOUS
<1>13. Chain(stray', stack', trail')
  <2>1. SUFFICES ASSUME NEW i \in 1 .. Len(tr) - 1 PROVE Links(T, st[i].cmds, tr[i], tr[i + 1])
    BY <1>2, <1>12 DEF Chain
  <2>2. Links(S, st[i].cmds, tr[i], tr[i + 1])
    BY <1>7, <1>12 DEF UndoInv, Chain
  <2>3. S \subseteq T
    BY <1>5, <1>10, <1>12
  <2>4. QED
    BY <2>2, <2>3, LinksStill, AgreeFacts
<1>14. Lengths'
  BY <1>2, <1>3 DEF Lengths
<1>15. Saved(stray', trail', clean', model', file')
  <2>1. PICK cl, f, m2 : cl = clean /\ f = file /\ m2 = model'
    OBVIOUS
  <2>2. Saved(S, tr, cl, m, f)
    BY <1>7, <1>12, <2>1 DEF UndoInv
  <2>3. S \subseteq T /\ m2[Media] = m[Media]
    BY <1>5, <1>10, <1>12, <2>1
  <2>4. Saved(T, tr, cl, m2, f)
    <3>1. SUFFICES ASSUME cl >= 0
                   PROVE  cl + 1 <= Len(tr) /\ Agree(T, f, tr[cl + 1]) /\ f[Media] = m2[Media]
      BY DEF Saved
    <3>2. cl + 1 <= Len(tr) /\ Agree(S, f, tr[cl + 1]) /\ f[Media] = m[Media]
      BY <2>2, <3>1 DEF Saved
    <3>3. Agree(T, f, tr[cl + 1])
      BY <2>3, <3>2, AgreeFacts
    <3>4. QED
      BY <2>3, <3>2, <3>3
  <2>5. QED
    BY <1>2, <1>12, <2>1, <2>4
<1>16. QED
  BY <1>1, <1>2, <1>5, <1>10, <1>11, <1>13, <1>14, <1>15 DEF UndoInv, Typed

LEMMA SaveUndo ==
    ASSUME HistoryInv, UndoInv, Save
    PROVE  UndoInv'
<1>1. /\ model \in Models /\ locator \in Frame /\ stray \in SUBSET Cell
      /\ tokens \in Nat /\ drag \in Nat /\ rejected \in Nat /\ trail \in Seq(Models)
  BY DEF UndoInv, Typed
<1>2. /\ scopes = 0 /\ file' = model /\ clean' = index
      /\ UNCHANGED <<model, locator, stack, index, open, drag, tokens, rejected, trail, stray>>
  BY DEF Save, books
<1>3. open = FALSE /\ Agree(stray, model, trail[index + 1]) /\ Len(trail) = Len(stack) + 1
  BY <1>2, AtState
<1>4. index \in Nat /\ index + 1 <= Len(trail)
  BY Numbers
<1>5. Saved(stray', trail', clean', model', file')
  BY <1>2, <1>3, <1>4 DEF Saved
<1>6. Lengths' /\ Chain(stray', stack', trail') /\ Here'
  BY <1>2 DEF UndoInv, Lengths, Chain, Here
<1>7. file' \in Models /\ clean' \in Int
  BY <1>1, <1>2, <1>4
<1>8. QED
  BY <1>1, <1>2, <1>5, <1>6, <1>7 DEF UndoInv, Typed

\* A project of which nothing has been edited.
LEMMA NewIsModel == NewProject \in Models
<1>1. \A c \in Cell : (IF c[1] = "point" THEN Absent ELSE 0) \in Int
  BY DEF Absent
<1>2. QED
  BY <1>1 DEF NewProject, Models

LEMMA CloseUndo ==
    ASSUME HistoryInv, UndoInv, Close
    PROVE  UndoInv'
<1>1. /\ locator \in Frame /\ tokens \in Nat /\ drag \in Nat /\ rejected \in Nat
  BY DEF UndoInv, Typed
<1>2. /\ scopes = 0 /\ model' = NewProject /\ file' = NewProject
      /\ stack' = <<>> /\ index' = 0 /\ clean' = 0
      /\ trail' = <<NewProject>> /\ stray' = {}
      /\ UNCHANGED <<locator, open, drag, tokens, rejected>>
  BY DEF Close
<1>3. open = FALSE
  BY <1>2, AtState
<1>4. NewProject \in Models
  BY NewIsModel
<1>5. /\ trail' \in Seq(Models) /\ Len(trail') = 1 /\ trail'[1] = NewProject /\ Len(stack') = 0
  BY <1>2, <1>4
<1>6. Lengths'
  BY <1>2, <1>3, <1>5 DEF Lengths
<1>7. Chain(stray', stack', trail')
  BY <1>5 DEF Chain
<1>8. Agree(stray', NewProject, NewProject)
  BY AgreeFacts
<1>9. Here'
  <2>1. index' + 1 = 1
    BY <1>2
  <2>2. QED
    BY <1>2, <1>3, <1>5, <1>8, <2>1 DEF Here
<1>10. Saved(stray', trail', clean', model', file')
  <2>1. clean' + 1 = 1
    BY <1>2
  <2>2. QED
    BY <1>2, <1>5, <1>8, <2>1 DEF Saved
<1>11. QED
  BY <1>1, <1>2, <1>4, <1>5, <1>6, <1>7, <1>9, <1>10 DEF UndoInv, Typed

LEMMA UndoKeeps ==
    ASSUME PoisonStandsAlone, HistoryInv, UndoInv, [Next]_vars
    PROVE  UndoInv'
<1>1. CASE SubmitAny
  BY <1>1, SubmitAnyUndo
<1>2. CASE Press \/ Release \/ RecordBegin \/ Play \/ UNCHANGED vars
  BY <1>2, QuietUndo
<1>3. CASE RecordEnd
  BY <1>3, RecordEndUndo
<1>4. CASE Undo
  BY <1>4, UndoUndo
<1>5. CASE Redo
  BY <1>5, RedoUndo
<1>6. CASE Save
  BY <1>6, SaveUndo
<1>7. CASE Collect
  BY <1>7, CollectUndo
<1>8. CASE Close
  BY <1>8, CloseUndo
<1>9. QED
  BY <1>1, <1>2, <1>3, <1>4, <1>5, <1>6, <1>7, <1>8 DEF Next

LEMMA UndoStarts ==
    ASSUME Init
    PROVE  UndoInv
<1>1. /\ model = NewProject /\ file = NewProject /\ locator \in Frame
      /\ stack = <<>> /\ index = 0 /\ clean = 0 /\ open = FALSE /\ drag = 0 /\ tokens = 0
      /\ rejected = 0 /\ trail = <<NewProject>> /\ stray = {}
  BY DEF Init
<1>2. NewProject \in Models
  BY NewIsModel
<1>3. trail \in Seq(Models) /\ Len(trail) = 1 /\ trail[1] = NewProject /\ Len(stack) = 0
  BY <1>1, <1>2
<1>4. Lengths
  BY <1>1, <1>3 DEF Lengths
<1>5. Chain(stray, stack, trail)
  BY <1>3 DEF Chain
<1>6. Agree(stray, NewProject, NewProject)
  BY AgreeFacts
<1>7. index + 1 = 1 /\ clean + 1 = 1
  BY <1>1
<1>8. Here /\ Saved(stray, trail, clean, model, file)
  BY <1>1, <1>3, <1>6, <1>7 DEF Here, Saved
<1>9. QED
  BY <1>1, <1>2, <1>3, <1>4, <1>5, <1>8 DEF UndoInv, Typed

\* A condition on the constants.
LEMMA PoisonStays == PoisonStandsAlone => []PoisonStandsAlone
<1>1. PoisonStandsAlone => PoisonStandsAlone'
  BY DEF PoisonStandsAlone, PoisonAlone, Refused
<1>2. QED
  BY <1>1, PTL

\* The stack holds, at every moment, a way from each state of the history to the next:
\* undoing an entry leads back along it and redoing it forward, but for stray writes,
\* such as the point that a volume edit in an arrangement puts into the master.
THEOREM UndoInductive == PoisonStandsAlone /\ Spec => [](HistoryInv /\ UndoInv)
<1>1. PoisonStandsAlone /\ HistoryInv /\ UndoInv /\ [Next]_vars => UndoInv'
  BY UndoKeeps
<1>2. QED
  BY <1>1, UndoStarts, HistoryHolds, PoisonStays, PTL DEF Spec

-----------------------------------------------------------------------------
\* After any mixture of edits, undos, redos, drags and recordings the model is the one
\* this position of the stack stood for, but for stray writes.
THEOREM UndoGoesBack == PoisonStandsAlone /\ Spec => []UndoRestores
<1>1. HistoryInv /\ UndoInv => UndoRestores
  <2> SUFFICES ASSUME HistoryInv, UndoInv, scopes = 0, NEW c \in Undoable \ stray
               PROVE  model[c] = trail[index + 1][c]
    BY DEF UndoRestores
  <2>1. Agree(stray, model, trail[index + 1])
    BY AtState
  <2>2. QED
    BY <2>1 DEF Agree
<1>2. QED
  BY <1>1, UndoInductive, PTL

\* What the window calls saved is in the file, whatever was undone, merged or collected,
\* but for stray writes.
THEOREM CleanIsInFile == PoisonStandsAlone /\ Spec => []CleanMeansSaved
<1>1. HistoryInv /\ UndoInv => CleanMeansSaved
  <2> SUFFICES ASSUME HistoryInv, UndoInv, scopes = 0, index = clean,
                      NEW c \in Cell \ (stray \cup {Property})
               PROVE  model[c] = file[c]
    BY DEF CleanMeansSaved
  <2>1. Agree(stray, model, trail[index + 1]) /\ clean >= 0
    BY AtState, Numbers
  <2>2. Agree(stray, file, trail[clean + 1]) /\ file[Media] = model[Media]
    BY <2>1 DEF UndoInv, Saved
  <2>3. CASE c \in Undoable
    BY <2>1, <2>2, <2>3 DEF Agree
  <2>4. CASE c \notin Undoable
    <3>1. c = Media
      BY <2>4 DEF Cell
    <3>2. QED
      BY <2>2, <3>1
  <2>5. QED
    BY <2>3, <2>4
<1>2. QED
  BY <1>1, UndoInductive, PTL

\* A refused action changes nothing, also when it was refused in the middle, but for the
\* point that a redirected edit has left in the master.
THEOREM RefusalIsClean == PoisonStandsAlone /\ Spec => RefusedChangesNothing
<1>1. PoisonStandsAlone /\ HistoryInv /\ UndoInv /\ [Next]_vars
          => (rejected' > rejected =>
                 (\A c \in Cell \ Mistaken : model'[c] = model[c]) /\ index' = index)
  <2> SUFFICES ASSUME PoisonStandsAlone, HistoryInv, UndoInv, [Next]_vars, rejected' > rejected
               PROVE  (\A c \in Cell \ Mistaken : model'[c] = model[c]) /\ index' = index
    OBVIOUS
  <2>1. /\ rejected \in Nat /\ model \in Models /\ locator \in Frame
    BY DEF UndoInv, Typed
  <2>2. rejected' # rejected
    BY <2>1
  <2>3. SubmitAny
    BY <2>2 DEF Next, Press, Release, RecordBegin, RecordEnd, Undo, Redo, Save, Collect, Close, Play,
                vars
  <2>4. PICK verbs, gesture : verbs \in Seq(Verbs) /\ PoisonAlone(verbs) /\ Submit(verbs, gesture)
    BY <2>3, SubmittedVerbs DEF SubmitAny, SubmitEdit, SubmitDrag
  <2>5. PICK run : run = Apply(model, verbs)
    OBVIOUS
  <2>6. ~run.ok /\ model' = run.model
    BY <2>2, <2>4, <2>5 DEF Submit
  <2>7. RolledBackTo(run, model)
    BY <2>1, <2>4, <2>5, <2>6, RefusedRollsBack
  <2>8. NoPush(run)
    BY <2>4, <2>5, <2>6 DEF Submit
  <2>9. QED
    BY <2>6, <2>7, <2>8 DEF NoPush, RolledBackTo
<1>2. QED
  BY <1>1, UndoInductive, PoisonStays, PTL DEF Spec, RefusedChangesNothing

\* A behaviour of the run is one of the history, with the speaker beside it.
COROLLARY HistoryRuns == SpecEither => Spec
<1>1. InitEither => Init
  BY DEF InitEither
<1>2. [NextEither]_<<vars, speaker, focus>> => [Next]_vars
  BY DEF NextEither
<1>3. QED
  BY <1>1, <1>2, PTL DEF SpecEither, Spec

=============================================================================
