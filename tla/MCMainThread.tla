---------------------------- MODULE MCMainThread ----------------------------
(***************************************************************************)
(* Instances for TLC of two modules whose calls all come from the main     *)
(* thread and that share no state: ActionHistory, with a track whose       *)
(* volume is edited and automated, one at the same place of an arrangement *)
(* of which the master has a track and one where it has none, and the      *)
(* conductor, which makes a composite fail half-way; and SpeakerLanes.  A  *)
(* behaviour is one of either, so the states of the two add up and are not *)
(* multiplied.                                                             *)
(***************************************************************************)
EXTENDS ActionHistory

CONSTANTS track, twin, lone, conductor

VARIABLES output, live, device, running, backend, engine, main, monitor, wanted, lock, raced,
          rootless

VARIABLE focus

speaker == <<output, live, device, running, backend, engine, main, monitor, wanted, lock,
             raced, rootless>>

Speaker == INSTANCE SpeakerLanes

\* The master's track, and the one at its path in an arrangement.
SmallTwins == [t \in {track, twin, conductor} |-> IF t = twin THEN track ELSE t]

SmallActions ==
    {<<Volume(track, 1)>>, <<SetMode(track, Modes.read)>>, <<SetProperty(1)>>,
     <<Volume(track, 1), SetMode(track, Modes.read), Volume(conductor, 1)>>,
     <<Volume(track, 1), SetProperty(1)>>,
     <<SetMode(twin, Modes.read), Volume(twin, 1)>>,
     <<SetMode(twin, Modes.read), Volume(twin, 1), Volume(conductor, 1)>>,
     <<SetMode(lone, Modes.read), Volume(lone, 1)>>}

\* Bound: what went through the arrangement sees one edit less.
Arranged ==
    \/ \E t \in {twin, lone} : model[Fader(t)] # 0 \/ model[Mode(t)] # 0
    \/ \E at \in Frame : Point(twin, at) \in stray

InitEither == Init /\ Speaker!Init /\ focus \in {"history", "speaker"}

NextEither ==
    /\ UNCHANGED focus
    /\ \/ focus = "history" /\ Next /\ (Arranged' => edits' < MaxEdits) /\ UNCHANGED speaker
       \/ focus = "speaker" /\ Speaker!Next /\ UNCHANGED vars

SpecEither ==
    /\ InitEither /\ [][NextEither]_<<vars, speaker, focus>>
    /\ WF_speaker(Speaker!MainContinues) /\ SF_speaker(Speaker!MonitorStep)

\* No Play, Stop or failed start of the frozen lane takes the device from a live lane
\* that is on, but for the race and the rootless Play that are recorded.
LiveHasDevice == Speaker!LiveHasDevice

\* Playing is claimed only of an engine that a running device pulls, with the same two
\* exceptions.
PlayingHasDevice == Speaker!PlayingHasDevice

\* When neither lane is in use the device is closed.
DeviceReleased == Speaker!DeviceReleased

\* What the flags say of the device is true of it, or false in the one way a rootless
\* Play leaves.
FlagsExact == Speaker!FlagsExact

\* Play comes to play or to stop, and every call returns.
Settles == Speaker!Settles

=============================================================================
