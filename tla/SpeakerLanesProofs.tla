-------------------------- MODULE SpeakerLanesProofs --------------------------
(***************************************************************************)
(* The speaker's lanes and device: what the flags, the lanes and the stage *)
(* of each thread say of each other at every moment.                       *)
(*                                                                         *)
(* The argument: the monitor takes the lane down only while the output     *)
(* state is "stopping", in which Play refuses and Stop waits for it; so of *)
(* the main thread's calls only openLive and closeLive can overlap its     *)
(* teardown, and `raced` records that they did.                            *)
(***************************************************************************)
EXTENDS SpeakerLanes, TLAPS

\* What each variable of the module may be.
Outputs == {"stopped", "opening", "buffering", "playing", "stopping"}
Backends == {"closed", "open", "running"}
Readaheads == {"none", "priming", "primed"}
MainStages == {"free", "play open", "play engine", "play spawn", "stop join", "stop device",
               "live shared", "live fresh", "live close", "quit"}
Busy == {"ask", "close", "clear", "release"}
MonitorStages == {"none", "poll", "start", "claim", "done"} \cup Busy
Holders == {"main", "nobody"}

\* Every variable keeps its type.
TypeOK ==
    /\ output \in Outputs
    /\ live \in BOOLEAN /\ device \in BOOLEAN /\ running \in BOOLEAN
    /\ backend \in Backends
    /\ engine \in Readaheads
    /\ main \in MainStages
    /\ monitor \in MonitorStages
    /\ wanted \in BOOLEAN
    /\ lock \in Holders
    /\ raced \in BOOLEAN /\ rootless \in BOOLEAN

\* Where a call of the main thread is tells the output state, and holds the lock only
\* inside openLive.
MainSound ==
    /\ lock = "main" <=> main \in {"live shared", "live fresh"}
    /\ main \in {"play open", "play engine"} => output = "opening"
    /\ main = "play spawn" => output = "buffering" /\ engine # "none"
    /\ main \in {"stop join", "stop device"} => output \in {"stopping", "stopped"}
    /\ main = "stop device" => monitor = "none"
    /\ main \in {"live shared", "live fresh"} => ~live
    /\ main \in {"live close", "quit"} => output = "stopped" /\ ~live
    /\ output = "opening" => main \in {"play open", "play engine"}

\* A monitor that polls is wanted by a Play, one that tears down has set "stopping",
\* and Play never leaves two of them.
MonitorSound ==
    /\ main \in {"play open", "play engine", "play spawn"} => monitor \in {"none", "done"}
    /\ monitor \in {"poll", "start", "claim"} => output \in {"buffering", "stopping"} /\ engine # "none"
    /\ monitor \in Busy => output = "stopping"
    /\ output \in {"buffering", "playing"} => engine # "none"

\* The flags are true of the device or what a rootless Play leaves of them, either lane
\* in use has it running, and nobody is about to close it under the live lane.
DeviceSound ==
    ~raced =>
      /\ rootless => device /\ backend = "closed"
      /\ main = "play engine" => device
      /\ monitor # "clear" /\ ~rootless => (device <=> backend # "closed")
      /\ monitor # "clear" /\ ~rootless => (running <=> backend = "running")
      /\ monitor = "clear" => backend = "closed"
      /\ monitor \in {"close", "clear"} => ~live
      /\ live \/ output = "playing" => backend = "running" \/ TakenAway
      /\ main \in {"free", "quit"} /\ output = "stopped" /\ ~live => backend = "closed"
      /\ main = "live shared" => output # "stopped" \/ rootless
      /\ monitor = "release" /\ ~live => backend = "closed"

Inv == TypeOK /\ MainSound /\ MonitorSound /\ DeviceSound

USE DEF Unlocked, Busy, flags, TakenAway

-----------------------------------------------------------------------------
LEMMA UserSound ==
    ASSUME Inv, User
    PROVE  Inv'
<1>1. CASE PlayBegin
  <2>1. TypeOK'
    BY <1>1 DEF Inv, TypeOK, Outputs, MainStages, PlayBegin
  <2>2. MainSound' /\ MonitorSound'
    BY <1>1 DEF Inv, TypeOK, MonitorStages, MainSound, MonitorSound, PlayBegin
  <2>3. DeviceSound'
    BY <1>1 DEF Inv, TypeOK, Backends, MainSound, MonitorSound, DeviceSound, PlayBegin
  <2>4. QED
    BY <2>1, <2>2, <2>3 DEF Inv
<1>2. CASE StopBegin
  <2>1. TypeOK'
    BY <1>2 DEF Inv, TypeOK, Outputs, MainStages, StopBegin
  <2>2. MainSound' /\ MonitorSound'
    BY <1>2 DEF Inv, MainSound, MonitorSound, StopBegin
  <2>3. DeviceSound'
    BY <1>2 DEF Inv, TypeOK, Backends, MainSound, MonitorSound, DeviceSound, StopBegin
  <2>4. QED
    BY <2>1, <2>2, <2>3 DEF Inv
<1>3. CASE LiveOpens
  <2>1. TypeOK'
    BY <1>3 DEF Inv, TypeOK, MainStages, Backends, Holders, LiveOpens, DeviceOpened, Overlapping, MonitorCommitted
  <2>2. MainSound' /\ MonitorSound'
    BY <1>3 DEF Inv, MainSound, MonitorSound, LiveOpens, DeviceOpened, Overlapping, MonitorCommitted
  <2>3. DeviceSound'
    BY <1>3 DEF Inv, TypeOK, Backends, MainSound, MonitorSound, DeviceSound, LiveOpens, DeviceOpened, Overlapping, MonitorCommitted
  <2>4. QED
    BY <2>1, <2>2, <2>3 DEF Inv
<1>4. CASE LiveCloses
  <2>1. TypeOK'
    BY <1>4 DEF Inv, TypeOK, MainStages, LiveCloses, Overlapping, MonitorCommitted
  <2>2. MainSound' /\ MonitorSound'
    BY <1>4 DEF Inv, MainSound, MonitorSound, LiveCloses, Overlapping, MonitorCommitted
  <2>3. DeviceSound'
    BY <1>4 DEF Inv, TypeOK, Backends, MainSound, MonitorSound, DeviceSound, LiveCloses, Overlapping, MonitorCommitted
  <2>4. QED
    BY <2>1, <2>2, <2>3 DEF Inv
<1>5. CASE Quit
  <2>1. TypeOK'
    BY <1>5 DEF Inv, TypeOK, MainStages, Backends, Quit, DeviceClosed
  <2>2. MainSound' /\ MonitorSound'
    BY <1>5 DEF Inv, MainSound, MonitorSound, Quit, DeviceClosed
  <2>3. DeviceSound'
    BY <1>5 DEF Inv, TypeOK, Backends, MainSound, MonitorSound, DeviceSound, Quit, DeviceClosed
  <2>4. QED
    BY <2>1, <2>2, <2>3 DEF Inv
<1>6. QED
  BY <1>1, <1>2, <1>3, <1>4, <1>5 DEF User

LEMMA MainContinuesSound ==
    ASSUME Inv, MainContinues
    PROVE  Inv'
<1>1. CASE PlayOpens
  <2>1. TypeOK'
    BY <1>1 DEF Inv, TypeOK, MainStages, Backends, PlayOpens, DeviceOpened
  <2>2. MainSound' /\ MonitorSound'
    BY <1>1 DEF Inv, MainSound, MonitorSound, PlayOpens, DeviceOpened
  <2>3. DeviceSound'
    BY <1>1 DEF Inv, TypeOK, Backends, MainSound, MonitorSound, DeviceSound, PlayOpens, DeviceOpened
  <2>4. QED
    BY <2>1, <2>2, <2>3 DEF Inv
<1>2. CASE PlayRefused
  <2>1. TypeOK'
    BY <1>2 DEF Inv, TypeOK, Outputs, MainStages, PlayRefused
  <2>2. MainSound' /\ MonitorSound'
    BY <1>2 DEF Inv, MainSound, MonitorSound, PlayRefused
  <2>3. DeviceSound'
    BY <1>2 DEF Inv, TypeOK, Backends, MainSound, MonitorSound, DeviceSound, PlayRefused
  <2>4. QED
    BY <2>1, <2>2, <2>3 DEF Inv
<1>3. CASE PlayEngine
  <2>1. TypeOK'
    BY <1>3 DEF Inv, TypeOK, Readaheads, Outputs, MainStages, PlayEngine
  <2>2. MainSound' /\ MonitorSound'
    BY <1>3 DEF Inv, MainSound, MonitorSound, PlayEngine
  <2>3. DeviceSound'
    BY <1>3 DEF Inv, TypeOK, Backends, MainSound, MonitorSound, DeviceSound, PlayEngine
  <2>4. QED
    BY <2>1, <2>2, <2>3 DEF Inv
<1>4. CASE PlaySpawn
  <2>1. TypeOK'
    BY <1>4 DEF Inv, TypeOK, MonitorStages, MainStages, PlaySpawn
  <2>2. MainSound' /\ MonitorSound'
    BY <1>4 DEF Inv, MainSound, MonitorSound, PlaySpawn
  <2>3. DeviceSound'
    BY <1>4 DEF Inv, TypeOK, Backends, MainSound, MonitorSound, DeviceSound, PlaySpawn
  <2>4. QED
    BY <2>1, <2>2, <2>3 DEF Inv
<1>5. CASE StopJoins
  <2>1. TypeOK'
    BY <1>5 DEF Inv, TypeOK, MonitorStages, MainStages, StopJoins
  <2>2. MainSound' /\ MonitorSound'
    BY <1>5 DEF Inv, MainSound, MonitorSound, StopJoins
  <2>3. DeviceSound'
    BY <1>5 DEF Inv, TypeOK, Backends, MainSound, MonitorSound, DeviceSound, StopJoins
  <2>4. QED
    BY <2>1, <2>2, <2>3 DEF Inv
<1>6. CASE StopEnds
  <2>1. TypeOK'
    BY <1>6 DEF Inv, TypeOK, Backends, Readaheads, Outputs, MainStages, StopEnds, DeviceClosed
  <2>2. MainSound' /\ MonitorSound'
    BY <1>6 DEF Inv, MainSound, MonitorSound, StopEnds, DeviceClosed
  <2>3. DeviceSound'
    BY <1>6 DEF Inv, TypeOK, Backends, MainSound, MonitorSound, DeviceSound, StopEnds, DeviceClosed
  <2>4. QED
    BY <2>1, <2>2, <2>3 DEF Inv
<1>7. CASE LiveRefused
  <2>1. TypeOK'
    BY <1>7 DEF Inv, TypeOK, MainStages, Backends, Holders, LiveRefused, DeviceClosed, Overlapping, MonitorCommitted
  <2>2. MainSound' /\ MonitorSound'
    BY <1>7 DEF Inv, MainSound, MonitorSound, LiveRefused, DeviceClosed, Overlapping, MonitorCommitted
  <2>3. DeviceSound'
    BY <1>7 DEF Inv, TypeOK, Backends, MainSound, MonitorSound, DeviceSound, LiveRefused, DeviceClosed, Overlapping, MonitorCommitted
  <2>4. QED
    BY <2>1, <2>2, <2>3 DEF Inv
<1>8. CASE LiveStarts
  <2>1. TypeOK'
    BY <1>8 DEF Inv, TypeOK, MainStages, Backends, Holders, LiveStarts, DeviceStarted, Overlapping, MonitorCommitted
  <2>2. MainSound' /\ MonitorSound'
    BY <1>8 DEF Inv, MainSound, MonitorSound, LiveStarts, DeviceStarted, Overlapping, MonitorCommitted
  <2>3. DeviceSound'
    BY <1>8 DEF Inv, TypeOK, Backends, MainSound, MonitorSound, DeviceSound, LiveStarts, DeviceStarted, Overlapping, MonitorCommitted
  <2>4. QED
    BY <2>1, <2>2, <2>3 DEF Inv
<1>9. CASE LiveStartFails
  <2>1. TypeOK'
    BY <1>9 DEF Inv, TypeOK, MainStages, Backends, Holders, LiveStartFails, DeviceClosed, Overlapping, MonitorCommitted
  <2>2. MainSound' /\ MonitorSound'
    BY <1>9 DEF Inv, MainSound, MonitorSound, LiveStartFails, DeviceClosed, Overlapping, MonitorCommitted
  <2>3. DeviceSound'
    BY <1>9 DEF Inv, TypeOK, Backends, MainSound, MonitorSound, DeviceSound, LiveStartFails, DeviceClosed, Overlapping, MonitorCommitted
  <2>4. QED
    BY <2>1, <2>2, <2>3 DEF Inv
<1>10. CASE LiveClosesDevice
  <2>1. TypeOK'
    BY <1>10 DEF Inv, TypeOK, MainStages, Backends, LiveClosesDevice, DeviceClosed
  <2>2. MainSound' /\ MonitorSound'
    BY <1>10 DEF Inv, MainSound, MonitorSound, LiveClosesDevice, DeviceClosed
  <2>3. DeviceSound'
    BY <1>10 DEF Inv, TypeOK, Backends, MainSound, MonitorSound, DeviceSound, LiveClosesDevice, DeviceClosed
  <2>4. QED
    BY <2>1, <2>2, <2>3 DEF Inv
<1>11. CASE PlayRootless
  <2>1. TypeOK'
    BY <1>11 DEF Inv, TypeOK, Outputs, Backends, MainStages, PlayRootless
  <2>2. MainSound' /\ MonitorSound'
    BY <1>11 DEF Inv, MainSound, MonitorSound, PlayRootless
  <2>3. DeviceSound'
    BY <1>11 DEF Inv, TypeOK, Backends, MainSound, MonitorSound, DeviceSound, PlayRootless
  <2>4. QED
    BY <2>1, <2>2, <2>3 DEF Inv
<1>12. QED
  BY <1>1, <1>2, <1>3, <1>4, <1>5, <1>6, <1>7, <1>8, <1>9, <1>10, <1>11 DEF MainContinues

LEMMA MonitorStepSound ==
    ASSUME Inv, MonitorStep
    PROVE  Inv'
<1>1. CASE MonitorPrimed
  <2>1. TypeOK'
    BY <1>1 DEF Inv, TypeOK, MonitorStages, MonitorPrimed
  <2>2. MainSound' /\ MonitorSound'
    BY <1>1 DEF Inv, MainSound, MonitorSound, MonitorPrimed
  <2>3. DeviceSound'
    BY <1>1 DEF Inv, TypeOK, Backends, MainSound, MonitorSound, DeviceSound, MonitorPrimed
  <2>4. QED
    BY <2>1, <2>2, <2>3 DEF Inv
<1>2. CASE MonitorYields
  <2>1. TypeOK'
    BY <1>2 DEF Inv, TypeOK, MonitorStages, MonitorYields
  <2>2. MainSound' /\ MonitorSound'
    BY <1>2 DEF Inv, MainSound, MonitorSound, MonitorYields
  <2>3. DeviceSound'
    BY <1>2 DEF Inv, TypeOK, Backends, MainSound, MonitorSound, DeviceSound, MonitorYields
  <2>4. QED
    BY <2>1, <2>2, <2>3 DEF Inv
<1>3. CASE MonitorStarts
  <2>1. TypeOK'
    BY <1>3 DEF Inv, TypeOK, Backends, Outputs, MonitorStages, MonitorStarts, DeviceStarted
  <2>2. MainSound' /\ MonitorSound'
    BY <1>3 DEF Inv, MainSound, MonitorSound, MonitorStarts, DeviceStarted
  <2>3. DeviceSound'
    BY <1>3 DEF Inv, TypeOK, Backends, MainSound, MonitorSound, DeviceSound, MonitorStarts, DeviceStarted
  <2>4. QED
    BY <2>1, <2>2, <2>3 DEF Inv
<1>4. CASE MonitorStartFails
  <2>1. TypeOK'
    BY <1>4 DEF Inv, TypeOK, Outputs, MonitorStages, MonitorStartFails
  <2>2. MainSound' /\ MonitorSound'
    BY <1>4 DEF Inv, MainSound, MonitorSound, MonitorStartFails
  <2>3. DeviceSound'
    BY <1>4 DEF Inv, TypeOK, Backends, MainSound, MonitorSound, DeviceSound, MonitorStartFails
  <2>4. QED
    BY <2>1, <2>2, <2>3 DEF Inv
<1>5. CASE MonitorLeaves
  <2>1. TypeOK'
    BY <1>5 DEF Inv, TypeOK, MonitorStages, MonitorLeaves
  <2>2. MainSound' /\ MonitorSound'
    BY <1>5 DEF Inv, MainSound, MonitorSound, MonitorLeaves
  <2>3. DeviceSound'
    BY <1>5 DEF Inv, TypeOK, Backends, MainSound, MonitorSound, DeviceSound, MonitorLeaves
  <2>4. QED
    BY <2>1, <2>2, <2>3 DEF Inv
<1>6. CASE MonitorClaims
  <2>1. TypeOK'
    BY <1>6 DEF Inv, TypeOK, Outputs, MonitorStages, MonitorClaims
  <2>2. MainSound' /\ MonitorSound'
    BY <1>6 DEF Inv, MainSound, MonitorSound, MonitorClaims
  <2>3. DeviceSound'
    BY <1>6 DEF Inv, TypeOK, Backends, MainSound, MonitorSound, DeviceSound, MonitorClaims
  <2>4. QED
    BY <2>1, <2>2, <2>3 DEF Inv
<1>7. CASE MonitorAsks
  <2>1. TypeOK'
    BY <1>7 DEF Inv, TypeOK, MonitorStages, MonitorAsks
  <2>2. MainSound' /\ MonitorSound'
    BY <1>7 DEF Inv, MainSound, MonitorSound, MonitorAsks
  <2>3. DeviceSound'
    BY <1>7 DEF Inv, TypeOK, Backends, MainSound, MonitorSound, DeviceSound, MonitorAsks
  <2>4. QED
    BY <2>1, <2>2, <2>3 DEF Inv
<1>8. CASE MonitorCloses
  <2>1. TypeOK'
    BY <1>8 DEF Inv, TypeOK, Backends, MonitorStages, MonitorCloses
  <2>2. MainSound' /\ MonitorSound'
    BY <1>8 DEF Inv, MainSound, MonitorSound, MonitorCloses
  <2>3. DeviceSound'
    BY <1>8 DEF Inv, TypeOK, Backends, MainSound, MonitorSound, DeviceSound, MonitorCloses
  <2>4. QED
    BY <2>1, <2>2, <2>3 DEF Inv
<1>9. CASE MonitorClears
  <2>1. TypeOK'
    BY <1>9 DEF Inv, TypeOK, MonitorStages, MonitorClears
  <2>2. MainSound' /\ MonitorSound'
    BY <1>9 DEF Inv, MainSound, MonitorSound, MonitorClears
  <2>3. DeviceSound'
    BY <1>9 DEF Inv, TypeOK, Backends, MainSound, MonitorSound, DeviceSound, MonitorClears
  <2>4. QED
    BY <2>1, <2>2, <2>3 DEF Inv
<1>10. CASE MonitorEnds
  <2>1. TypeOK'
    BY <1>10 DEF Inv, TypeOK, Readaheads, Outputs, MonitorStages, MonitorEnds
  <2>2. MainSound' /\ MonitorSound'
    BY <1>10 DEF Inv, MainSound, MonitorSound, MonitorEnds
  <2>3. DeviceSound'
    BY <1>10 DEF Inv, TypeOK, Backends, MainSound, MonitorSound, DeviceSound, MonitorEnds
  <2>4. QED
    BY <2>1, <2>2, <2>3 DEF Inv
<1>11. QED
  BY <1>1, <1>2, <1>3, <1>4, <1>5, <1>6, <1>7, <1>8, <1>9, <1>10 DEF MonitorStep

LEMMA ReadaheadSound ==
    ASSUME Inv, ReadaheadPrimes
    PROVE  Inv'
<1>1. TypeOK'
  BY DEF Inv, TypeOK, Readaheads, ReadaheadPrimes
<1>2. MainSound' /\ MonitorSound' /\ DeviceSound'
  BY DEF Inv, MainSound, MonitorSound, DeviceSound, ReadaheadPrimes
<1>3. QED
  BY <1>1, <1>2 DEF Inv

LEMMA InitSound == Init => Inv
BY DEF Init, Inv, TypeOK, Outputs, Backends, Readaheads, MainStages, MonitorStages, Holders,
       MainSound, MonitorSound, DeviceSound

LEMMA NextSound == Inv /\ [Next]_vars => Inv'
<1> SUFFICES ASSUME Inv, [Next]_vars PROVE Inv'
  OBVIOUS
<1>1. CASE User \/ MainContinues \/ MonitorStep \/ ReadaheadPrimes
  BY <1>1, UserSound, MainContinuesSound, MonitorStepSound, ReadaheadSound
<1>2. CASE UNCHANGED vars
  <2>1. TypeOK'
    BY <1>2 DEF vars, Inv, TypeOK
  <2>2. MainSound' /\ MonitorSound' /\ DeviceSound'
    BY <1>2 DEF vars, Inv, MainSound, MonitorSound, DeviceSound
  <2>3. QED
    BY <2>1, <2>2 DEF Inv
<1>3. QED
  BY <1>1, <1>2 DEF Next

-----------------------------------------------------------------------------
\* The two threads keep the invariant, whatever fails and however they interleave.
THEOREM LanesInductive == Spec => []Inv
BY InitSound, NextSound, PTL DEF Spec

===============================================================================
