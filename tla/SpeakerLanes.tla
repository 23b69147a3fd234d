---------------------------- MODULE SpeakerLanes ----------------------------
(***************************************************************************)
(* One output device, two lanes: twSpeaker plays the arrangement (the      *)
(* frozen lane) and monitors inputs (the live lane) through one backend.   *)
(*                                                                         *)
(* The main thread makes every call.  Play leaves a monitor thread behind  *)
(* that waits for the readahead and then starts the device; when that      *)
(* fails, or takes too long, the monitor takes the frozen lane down by     *)
(* itself.  So two threads close the device, and either lane may be using  *)
(* it.  mutex() guards the state machine; backend calls are outside of it, *)
(* but for those of openLive.                                              *)
(*                                                                         *)
(* An action is a critical section, or the code between two of them.       *)
(* taskMutex_ is only ever taken by the main thread.  A call that finds    *)
(* nothing to do returns and is not an action.                             *)
(***************************************************************************)

VARIABLES
    output,     \* outputState_
    live,       \* liveLane_
    device,     \* deviceState_ is OPEN
    running,    \* deviceRunning_
    backend,    \* what the device really is: "closed", "open", "running"
    engine,     \* audioEngine_: "none", or how far its readahead is
    main,       \* where the main thread is
    monitor,    \* where the monitor thread is, "done" until it is joined
    wanted,     \* bufferingTaskRunning_
    lock,       \* who holds mutex(): "main" or nobody
    raced,      \* the live lane was switched when the monitor, taking the frozen lane
                \* down, had asked about it already; until the device is next closed
    rootless    \* a Play without a project closed the device by itself, past the flags
                \* and past the live lane; until a teardown clears the flags

flags == <<device, running, backend, rootless>>
vars == <<output, live, flags, engine, main, monitor, wanted, lock, raced>>

Init ==
    /\ output = "stopped" /\ live = FALSE
    /\ device = FALSE /\ running = FALSE /\ backend = "closed"
    /\ engine = "none"
    /\ main = "free" /\ monitor = "none" /\ wanted = FALSE /\ lock = "nobody"
    /\ raced = FALSE /\ rootless = FALSE

Unlocked == lock = "nobody"

(***************************************************************************)
(* The device                                                              *)
(***************************************************************************)
\* ensureDeviceOpen of a closed device.
DeviceOpened == device' = TRUE /\ backend' = "open" /\ UNCHANGED <<running, rootless>>

DeviceClosedHalf ==
    backend' = "closed" /\ device' = FALSE /\ rootless' = FALSE /\ UNCHANGED running

\* closeDeviceNoLock.
DeviceClosed == backend' = "closed" /\ running' = FALSE /\ device' = FALSE /\ rootless' = FALSE

\* startOutput of the backend: a device that is not open does not start.
DeviceStarted ==
    /\ backend # "closed" /\ backend' = "running" /\ running' = TRUE
    /\ UNCHANGED <<device, rootless>>

(***************************************************************************)
(* Play                                                                    *)
(***************************************************************************)
PlayBegin ==
    /\ main = "free" /\ Unlocked
    /\ output = "stopped"
    /\ output' = "opening"
    /\ main' = "play open"
    /\ UNCHANGED <<live, flags, engine, monitor, wanted, lock, raced>>

\* A device the live lane has open is not opened again.
PlayOpens ==
    /\ main = "play open"
    /\ IF device THEN UNCHANGED flags ELSE DeviceOpened
    /\ main' = "play engine"
    /\ UNCHANGED <<output, live, engine, monitor, wanted, lock, raced>>

PlayRefused ==
    /\ main = "play open" /\ Unlocked
    /\ ~device
    /\ output' = "stopped"
    /\ main' = "free"
    /\ UNCHANGED <<live, flags, engine, monitor, wanted, lock, raced>>

\* There is no project, or it has no root: rootComponent() is null.  The backend is
\* closed, whoever had opened it and whether or not the live lane is on, and neither
\* flag is cleared.
PlayRootless ==
    /\ main = "play engine" /\ Unlocked
    /\ backend' = "closed"
    /\ rootless' = TRUE
    /\ output' = "stopped"
    /\ main' = "free"
    /\ UNCHANGED <<live, device, running, engine, monitor, wanted, lock, raced>>

\* A new engine, whose readahead starts at once.
PlayEngine ==
    /\ main = "play engine" /\ Unlocked
    /\ engine' = "priming"
    /\ output' = "buffering"
    /\ main' = "play spawn"
    /\ UNCHANGED <<live, flags, monitor, wanted, lock, raced>>

\* The monitor of an earlier Play has ended and is joined.
PlaySpawn ==
    /\ main = "play spawn"
    /\ monitor \in {"none", "done"}
    /\ wanted' = TRUE
    /\ monitor' = "poll"
    /\ main' = "free"
    /\ UNCHANGED <<output, live, flags, engine, lock, raced>>

\* The readahead has covered what a start needs.
ReadaheadPrimes ==
    /\ engine = "priming"
    /\ engine' = "primed"
    /\ UNCHANGED <<output, live, flags, main, monitor, wanted, lock, raced>>

(***************************************************************************)
(* The monitor thread                                                      *)
(***************************************************************************)
MonitorPrimed ==
    /\ monitor = "poll" /\ engine = "primed"
    /\ monitor' = "start"
    /\ UNCHANGED <<output, live, flags, engine, main, wanted, lock, raced>>

\* stopOutput has taken over, before the device was started or before the claim.
MonitorYields ==
    /\ monitor \in {"start", "claim"} /\ Unlocked
    /\ output # "buffering"
    /\ monitor' = "done"
    /\ UNCHANGED <<output, live, flags, engine, main, wanted, lock, raced>>

\* A device the live lane has running is not started again.
MonitorStarts ==
    /\ monitor = "start" /\ Unlocked
    /\ output = "buffering"
    /\ IF running THEN UNCHANGED flags ELSE DeviceStarted
    /\ output' = "playing"
    /\ monitor' = "done"
    /\ UNCHANGED <<live, engine, main, wanted, lock, raced>>

MonitorStartFails ==
    /\ monitor = "start" /\ Unlocked
    /\ output = "buffering"
    /\ ~running
    /\ output' = "stopping"
    /\ monitor' = "ask"
    /\ UNCHANGED <<live, flags, engine, main, wanted, lock, raced>>

\* Told to stop, or ten seconds have passed.
MonitorLeaves ==
    /\ monitor = "poll"
    /\ ~wanted \/ engine = "priming"
    /\ monitor' = "claim"
    /\ UNCHANGED <<output, live, flags, engine, main, wanted, lock, raced>>

MonitorClaims ==
    /\ monitor = "claim" /\ Unlocked
    /\ output = "buffering"
    /\ output' = "stopping"
    /\ monitor' = "ask"
    /\ UNCHANGED <<live, flags, engine, main, wanted, lock, raced>>

\* The teardown, without a lock: the device is closed unless the live lane is on.
MonitorAsks ==
    /\ monitor = "ask"
    /\ monitor' = IF live THEN "release" ELSE "close"
    /\ UNCHANGED <<output, live, flags, engine, main, wanted, lock, raced>>

MonitorCloses ==
    /\ monitor = "close"
    /\ backend' = "closed"
    /\ monitor' = "clear"
    /\ UNCHANGED <<output, live, device, running, rootless, engine, main, wanted, lock, raced>>

MonitorClears ==
    /\ monitor = "clear"
    /\ device' = FALSE /\ running' = FALSE /\ rootless' = FALSE
    /\ monitor' = "release"
    /\ UNCHANGED <<output, live, backend, engine, main, wanted, lock, raced>>

MonitorEndsSilently ==
    /\ monitor = "release" /\ Unlocked
    /\ engine' = "none"
    /\ monitor' = "done"
    /\ UNCHANGED <<output, live, flags, main, wanted, lock, raced>>

MonitorEnds ==
    /\ monitor = "release" /\ Unlocked
    /\ engine' = "none"
    /\ output' = "stopped"
    /\ monitor' = "done"
    /\ UNCHANGED <<live, flags, main, wanted, lock, raced>>

(***************************************************************************)
(* Stop                                                                    *)
(***************************************************************************)
\* Also while the monitor is taking the lane down by itself.
StopBegin ==
    /\ main = "free" /\ Unlocked
    /\ output # "stopped"
    /\ output' = "stopping"
    /\ wanted' = FALSE
    /\ main' = "stop join"
    /\ UNCHANGED <<live, flags, engine, monitor, lock, raced>>

StopJoins ==
    /\ main = "stop join"
    /\ monitor \in {"none", "done"}
    /\ monitor' = "none"
    /\ main' = "stop device"
    /\ UNCHANGED <<output, live, flags, engine, wanted, lock, raced>>

StopEndsClosing ==
    /\ main = "stop device" /\ Unlocked
    /\ DeviceClosed
    /\ engine' = "none"
    /\ output' = "stopped"
    /\ main' = "free"
    /\ raced' = (raced /\ live)
    /\ UNCHANGED <<live, monitor, wanted, lock>>

\* While the live lane is on, this stops the lane and not the device.
StopEnds ==
    /\ main = "stop device" /\ Unlocked
    /\ IF live THEN UNCHANGED flags ELSE DeviceClosed
    /\ engine' = "none"
    /\ output' = "stopped"
    /\ main' = "free"
    /\ raced' = (raced /\ live)
    /\ UNCHANGED <<live, monitor, wanted, lock>>

(***************************************************************************)
(* The live lane                                                           *)
(***************************************************************************)
\* The monitor has asked whether the live lane is on, and acts on the answer.
MonitorCommitted == monitor \in {"close", "clear", "release"}
Overlapping == raced' = (raced \/ MonitorCommitted)

\* openLive holds mutex() throughout.  It opens the device, unless it is open ...
LiveOpens ==
    /\ main = "free" /\ Unlocked
    /\ ~live
    /\ IF device THEN UNCHANGED flags ELSE DeviceOpened
    /\ main' = IF device THEN "live shared" ELSE "live fresh"
    /\ lock' = "main"
    /\ Overlapping
    /\ UNCHANGED <<output, live, engine, monitor, wanted>>

LiveRefusedKeeping ==
    /\ main \in {"live shared", "live fresh"}
    /\ main' = "free"
    /\ lock' = "nobody"
    /\ Overlapping
    /\ UNCHANGED <<output, live, flags, engine, monitor, wanted>>

\* ... refuses a device at another rate than the project's ...
LiveRefused ==
    /\ main \in {"live shared", "live fresh"}
    /\ IF main = "live fresh" /\ output = "stopped" THEN DeviceClosed ELSE UNCHANGED flags
    /\ main' = "free"
    /\ lock' = "nobody"
    /\ Overlapping
    /\ UNCHANGED <<output, live, engine, monitor, wanted>>

\* ... and starts it, unless it is running.
LiveStarts ==
    /\ main \in {"live shared", "live fresh"}
    /\ IF running THEN UNCHANGED flags ELSE DeviceStarted
    /\ live' = TRUE
    /\ main' = "free"
    /\ lock' = "nobody"
    /\ Overlapping
    /\ UNCHANGED <<output, engine, monitor, wanted>>

\* The device is closed whoever had opened it.
LiveStartFails ==
    /\ main \in {"live shared", "live fresh"}
    /\ ~running
    /\ DeviceClosed
    /\ main' = "free"
    /\ lock' = "nobody"
    /\ Overlapping
    /\ UNCHANGED <<output, live, engine, monitor, wanted>>

LiveClosesUnlessPlaying ==
    /\ main = "free" /\ Unlocked
    /\ live
    /\ live' = FALSE
    /\ main' = IF output # "playing" THEN "live close" ELSE "free"
    /\ Overlapping
    /\ UNCHANGED <<output, flags, engine, monitor, wanted, lock>>

\* closeLive decides under the lock and closes the device outside of it.
LiveCloses ==
    /\ main = "free" /\ Unlocked
    /\ live
    /\ live' = FALSE
    /\ main' = IF output = "stopped" THEN "live close" ELSE "free"
    /\ Overlapping
    /\ UNCHANGED <<output, flags, engine, monitor, wanted, lock>>

LiveClosesDevice ==
    /\ main = "live close"
    /\ DeviceClosed
    /\ main' = "free"
    /\ raced' = FALSE
    /\ UNCHANGED <<output, live, engine, monitor, wanted, lock>>

(***************************************************************************)
(* The specification                                                       *)
(***************************************************************************)
\* The window closes: transport and live lane are stopped first, if they are on.
Quit ==
    /\ main = "free"
    /\ output = "stopped" /\ ~live
    /\ DeviceClosed
    /\ main' = "quit"
    /\ UNCHANGED <<output, live, engine, monitor, wanted, lock, raced>>

User == PlayBegin \/ StopBegin \/ LiveOpens \/ LiveCloses \/ Quit

MainContinues ==
    \/ PlayOpens \/ PlayRefused \/ PlayRootless \/ PlayEngine \/ PlaySpawn
    \/ StopJoins \/ StopEnds
    \/ LiveRefused \/ LiveStarts \/ LiveStartFails \/ LiveClosesDevice

MonitorStep ==
    \/ MonitorPrimed \/ MonitorYields \/ MonitorStarts \/ MonitorStartFails
    \/ MonitorLeaves \/ MonitorClaims
    \/ MonitorAsks \/ MonitorCloses \/ MonitorClears \/ MonitorEnds

Next == User \/ MainContinues \/ MonitorStep \/ ReadaheadPrimes

Spec == Init /\ [][Next]_vars

\* A call goes on to its return.  The monitor polls, has a deadline, and gets a lock
\* that the main thread keeps giving back (strongly: the user may go on arming).
FairSpec == Spec /\ WF_vars(MainContinues) /\ SF_vars(MonitorStep)

(***************************************************************************)
(* Properties                                                              *)
(***************************************************************************)
\* The device was closed under a live lane, by a Play that found no project, and the
\* flags still say it runs.
TakenAway == rootless /\ running

\* A monitored input is heard: no Play, Stop or failed open or start of the other lane
\* takes the device from a live lane that is on, but in the two ways that `raced` and
\* TakenAway record.  A rootless Play beside a lane that is off is not one of them.
LiveHasDevice == live => backend = "running" \/ raced \/ TakenAway

\* Playing is claimed only of an engine that a running device pulls, with the same two
\* exceptions.  After a rootless Play beside a lane that is off, Play fails and does
\* not claim to play.
PlayingHasDevice ==
    output = "playing" => engine # "none" /\ (backend = "running" \/ raced \/ TakenAway)

\* When neither lane is in use the device is closed, for other programs to use.
DeviceReleased ==
    main \in {"free", "quit"} /\ output = "stopped" /\ ~live => backend = "closed" \/ raced

\* The flags by which either lane decides not to open or start the device are true of
\* it, but for the moment in which the monitor closes it.  After a Play without a
\* project they are false in one way only, whatever is called next, until a teardown:
\* the device counts as open and is closed, so no Play and no arming opens it again.
FlagsExact ==
    monitor # "clear" /\ ~raced =>
        IF rootless THEN device /\ backend = "closed"
                    ELSE /\ device <=> backend # "closed"
                         /\ running <=> backend = "running"

\* Whatever fails, Play comes to play or to stop, and every call returns: a join of
\* the monitor never waits for a lock the joining thread holds.
Settles ==
    /\ output \in {"opening", "buffering", "stopping"} ~> output \in {"playing", "stopped"}
    /\ main # "free" ~> main \in {"free", "quit"}

=============================================================================
