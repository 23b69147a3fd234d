# Smaragd: formal models of its page engine and its main thread

Smaragd (repository `qbx`, sources under `src/smaragd/`) is a digital audio
workstation in C++ and Qt. Its engine, `tw303a`, renders audio in *pages* of 65536
frames: every component of the signal graph caches the pages it has rendered,
edits make them stale, and a pool of worker threads renders the ones a consumer
demands. The application around it edits the model through an undo history and plays
through one output device. This directory holds TLA+ specifications of the parts where
several threads meet or a long sequence of calls must come out right, TLC
configurations that check them on small instances, and TLAPS proofs.

    tlc -config scheduler_safety.cfg MCGraphScheduler      (any run of the table below)
    tlapm GraphSchedulerProofs.tla                         (and the other ...Proofs modules)

`PROJECT.json` lists the components (of one that is not modelled only the principal
source files), the runs, the mutants (a plausible bug for every checked
property, each of which the run detects), the hazards, and for every definition the
source lines it stands for.

## 1. Inventory

Paths are relative to `src/smaragd/`. Each directory has a `CONTRACT.md`.

| Component | State it keeps | Operations | What makes it correct |
|---|---|---|---|
| **Page graph scheduler** `tw303a/schedule` | node map, ready queue, nodes with counters, demand handles, worker pool | `requestGraphPages`, `expandNode_`, worker claim, `completeGraphNode`, `retireComponentNodes`, `wait`, `shutdown` | a node runs once, on settled inputs, pages of a component in order; every handle is settled exactly once; `wait` returns; a retired component is out of flight |
| **Page cache and publication** `tw303a/graph`, `processGraphNode` in `tw303a/schedule` | per component: pages with epoch stamps, the content epoch, the in-flight map; per reader: the page it holds | `freezePage`, `requestPage`, `acquirePage`, `bumpContentEpoch`, `invalidatePagesInRange`, prune, verify-at-publish with one retry | a page that reads current is the audio of the model as it is now; edits are not lost; re-rendering comes to rest |
| **MIDI output scheduler** `tw303a/devices` | ring of the pump, immediate ring, private list of the sender, four atomic flags | `enqueue`, `sendImmediate`, `flush`, `panic`, `start`, `stop`, the sender's pass | each message is sent once or dropped on purpose; order at one instant; nothing flushed escapes; no lost wake-up; `panic` has sent its bytes when it returns |
| **Capture revalidation lane** `tw303a/schedule`, `tw303a/pages`, `main/model` | job queue, pins, page pool, current and next page of an object | `scheduleRevalidation`, `processJob`, promotion, `retireObject`, `pause`, `pauseBackground`, `shutdown`; the deletions of `SObject` | no job outlives its object; a pinned object is collected later, not never; a render has the graph to itself; every clip comes to show its preview |
| Audio engine `tw303a/playback/audio_engine` | demand window, seek request, loop bounds, epoch of the demanded pages | `seek`, `setFrozenDemandRoot`, read-ahead, loop wrap | what is played is the position asked for last, of the current content |
| **Speaker** `tw303a/playback/twspeaker` | the output state of the frozen and of the live lane, one device, the monitor thread | `startOutput`, `stopOutput`, `openLive`, `closeLive`, the monitor, every failure to open or start; the render callback | the device is open while a lane needs it, and a failure of one lane leaves the other |
| Live pump and mix ring `tw303a/playback/twlive*` | ring of blocks by run and position, the published plan | pump, callback, plan hand-over | no block of an old run is heard; a plan is taken over at a block boundary |
| Recording `tw303a/record`, `twgrowingcapturesource` | capture ring, growing source and its frontier, WAV writer, session state | start, bridge pump, segment end, `stop` | every captured frame is in the file; a reader never passes the frontier |
| Render session `tw303a/render` | position, result, running flag | worker loop, cancel, completion | the file has every page, or the result says it failed |
| MIDI input fan-out and rings `tw303a/devices` | single-producer single-consumer rings, sink slots | push, pop, register, release, thru | no event is duplicated or torn; an overrun is counted |
| Signal components `tw303a/{sources,dsp,mix,sampler,metering}` | DSP state | `calcOutputTo` | numeric |
| Plugin hosting `tw303a/plugins` | plugin instances, slots, taps | prepare, process, scan | one thread in a plugin at a time |
| Events and time `tw303a/{events,core}` | immutable sequences, tempo map, fractions | merge, convert | conversions are exact and monotone |
| Analysis, sidecar files `tw303a/{analysis,sidecar}` | files, LRU store | read, write, evict | derived data can always be rebuilt |
| Body model, sinks `tw303a/{body,sinks}` | none shared | closed forms, file writing | numeric |
| Object model `main/model` | tree of `SObject` and `SLink`, aspect pages | property changes, the invalidation walk | an edit bumps everything that hears it, what is upstream first (not kept for aux taps and sends: section 4) |
| Clips and captures `main/objects/*` | clips, links to components | edits, `IRevalidatable` | the graph and the model agree |
| **Actions and undo** `main/actions`, `main/selection`, actions of `main/objects` | the undo stack, its clean index, macros, the control under a drag | submit, merge, composites with rollback, recording macros, undo, redo, save, collect | undo restores the model; a gesture is one step; a refused action changes nothing; "saved" means saved |
| Project files, media `main/{persistence,media,mediabrowser}` | files | load, save, fetch | a load after a save is the same model |
| App services `main/shell` | sessions, MIDI pump, recorder, live monitor | transport, arming, panic on stop | a track is in one lane at a time |
| User interface `main/{timeline,mixerui,pluginui,samplerui,eventui,servicesui,theme,testkit}` | widgets | painting, input | none beyond the above |

**How they interact.** The main thread edits the model (`actions`, `model`), and each
edit ends in calls of `bumpContentEpoch` or `invalidatePagesInRange` on the components
downstream. The audio engine's read-ahead thread, the speaker's warm-up and the
render session's thread are the consumers: they call `requestGraphPages`, and
`requestPage` for the page itself or when there is no scheduler. The scheduler's pool runs the nodes, which call `freezePage`
on components, which may pull their inputs by themselves. The speaker's callback reads
finished pages only. The MIDI pump (a timer on the main thread) feeds the MIDI output
scheduler, whose own thread feeds the device; the MIDI input thread feeds it too
(thru). Before the live lane takes over a track, `retireComponentNodes` removes it
from the frozen lane. The same pool of workers runs the revalidation jobs of the
clips, which read the object graph the main thread owns: pins, `retireObject` and the
two kinds of pause keep them apart from deletion, from a failed load and from an
offline render.

**What is hard.** Counters handed between requesters, workers and retirements
(`capture_revalidator.cc:490-560, 733-766, 350-404`); a shutdown at any point of that;
content epochs read before a render and compared after it, with edits landing one
component at a time, not always the upstream one first (`twcomponent.cc:940-1045`, `strack.cpp:1230-1251`); the scheduler's own invalidations,
which look like edits to other nodes; lock-free rings with flags beside them
(`midi_out_scheduler.cc`); time-outs that leave a request standing; jobs that borrow raw
pointers to objects the main thread may destroy (`capture_revalidator.cc:760-800`); two
threads that close one device for two users (`twspeaker.cc:115-126, 480-535, 685-740`); inverses captured
from a state that merges and later edits move on from. `PROJECT.json` has them all under `hazards`, each at its line.

## 2. What is modelled

### GraphScheduler (with PageDemand, MCGraphScheduler, MCGraphSchedulerChain)

The graph lane of `capture_revalidator.cc`. An action is one critical section of
`queueLock_`, or of a demand's own mutex.

| In the module | In the code |
|---|---|
| `key, state, pendingDeps, deps, predecessor, dependents, demands` | the fields of `PageNode` |
| `graphNodes`, `graphReady` | the dedup map, the ready queue |
| `expander, roots, rootNodes, stack` | who holds `expansionMutex_`; the loop of `requestGraphPages` and the recursion of `expandNode_` |
| `demand`, `retire`, `shutdown`, `worker` | `GraphDemand`; the `retireComponentNodes` call under way; `shutdown_` and the join; the pool threads |
| `RequestRefused/Admitted`, `ExpandBegin`, `ExpandTooDeep/Found/Plan/Insert`, `Attach`, `WaitReturn` | `requestGraphPages`, `expandNode_` (one action per burst of the lock), `wait` |
| `Claim`, `Complete`, `Notify`, `Exit` | the worker's loop, `completeGraphNode` |
| `RetireBegin`, `RetireDrained`, `RetireOrphan`, `RetireReturn` | the four steps of `retireComponentNodes` |
| `ShutdownBegin`, `ShutdownReturn` | `shutdown` |

An edge of the dependency graph is a *slot* of its reader: slot 0 the predecessor page
of the same component, slot *i* the *i*-th planned input. The code pushes one entry to
`dependents` for each, so an input planned twice is counted and released twice; the
chain instance has such a plan. What `planPage` answers is a constant, a *set* of plans
for each page, because an edit between two calls changes the answer. The rendering
itself lies between `Claim` and `Complete`; `PagePublish` looks inside.

The ready queue is a set, not a sequence: the code orders it by priority, but a
priority only changes which node is claimed first, and no property may depend on it.
`ShutdownRaces` says whether `shutdown` may overlap a `requestGraphPages` call. The
class does not exclude it; that a project stops its consumers before it shuts the
revalidator down is a discipline of the application. Both cases are checked.

`PageDemand` is what a handle promises its consumer: a set of owed root pages that
only shrinks, each page delivered or declared lost once, and a `wait` that returns when
none is left or after an abort. `RefinesPageDemand` states that the scheduler
implements it; the owed pages are mapped to the nodes that still carry the demand,
in the node, in a retirement's list or in the hands of a worker about to notify.

### PagePublish (with MCPagePublish)

How a page becomes *current*: the epoch-stamped cache of `twcomponent.cc`, the reader of
`twstreaminglatch.cc`, and `processGraphNode`. The graph is a chain of caching
components; components that do not cache (track mixes, plugin chains) are transparent
and left out. A page's audio is the tuple of versions of the settings it was computed
from, component by component, so that "stale audio" is a comparison.

| In the module | In the code |
|---|---|
| `epoch`, `cache` (present, valid, stamp, shows) | `contentEpoch_`, `outputPages_` and the page's `contentEpoch` |
| `cursor` | `cursorMutex_`, held through a freeze |
| `hint` | the page a streaming latch holds, with the producer's epoch as it read it |
| `inflight` | the dedup map of `requestPage` |
| `EditBegin`, `EditBump` | a change of one component and its walk to the root, one bump per step, in one of the orders of the constant `Walks` (`sobject.cpp`, `strack.cpp`, `sstdmixer.cpp`); a bump is a range or a whole invalidation |
| `Prune` | `releaseOldPagesGlobally`, also under a render |
| `FreezeEnter … FreezeStamp`, `Pull…` | `freezePage` and `acquirePage` |
| `Request…` | `requestPage`: fast path, attach, claim, render, erase, deliver |
| `Demand`, `Plan`, `NodeFreeze`, `VerifyInput`, `Retry…`, `Self…`, `Complete` | a node from its plan to its completion, with the one retry and the re-stale |

`settled`, `late`, `quiet` and `slipped` are history kept for the properties: the model as of the last
finished edit, the components bumped before something upstream of them in the same walk (until they are
bumped again with nothing upstream to come), for each node of a demand whether no edit was under way since it was planned or last
observed its epoch, and the pages an edit hit in the middle of a retry. One flag for a whole demand would
not do: in a chain of three, a node's retry clears it although the node after it was planned
before the edit.

The order of the bumps matters, and `Walks` gives for each component the orders in which an edit of
it may be bumped. The containment walk goes from the deepest object to the root
(`sobject.cpp:1098-1112`). Two things are bumped after what reads them: a track's aux tap, which is an input of
the track's chain (`strack.cpp:1008`) and comes last of its components (`strack.cpp:1230-1233, 1250-1251`),
and the bus and the lane of a send, which `invalidateRoutingDependents` bumps when the walk has been through
to the root (`sobject.cpp:1150-1161, 1250-1257`, `sstdmixer.cpp:879-902`). `sobject.cpp:1094-1096` calls
the order "harmless either way". It is harmless for what is bumped afterwards once more, and
not for the rest: section 4, `late`. The runs use the deepest-first walk with that of a send (`SendsLast`), or every
order of the components (`AnyOrder`); the proofs hold for any orders.

### MidiOutScheduler

`midi_out_scheduler.cc` whole: three threads (the pump on the main thread, the MIDI input
thread, the sender) that share two rings and some atomics. An action is one access of an
atomic another thread uses, with the private work around it. `ring`, `imm`, `pending`
are the two rings and the sender's list; `idle`, `discard`, `stopping`, `running` the
flags; `woken` stands for "`wakeSeq_` has moved since the sender's snapshot". `sent`, `gone`,
`horizon`, `promised` are history. Message bytes, time-stamp conversion and the
backend's own clock are abstract: a message is its number, its due time and who
produced it. `stamped` is a backend that takes time-stamps and gets messages ahead of time.
`Sorted` is the list after the stable sort by due time, stated as the one rearrangement
that is in order and keeps ties.

### RevalidationLane (with MCRevalidationLane)

The background lane of the same pool: jobs that recompute what a clip shows of itself.
An action is one critical section of a worker, or one call of the main thread up
to the point where it waits.

| In the module | In the code |
|---|---|
| `object` (life, refs, pins, pending, posted, failed) | `SObject` with `refCount_`, its pins, `deletePending_`, a posted `DeferredDelete` |
| `current`, `next`, `valid` | `currentPage_`, `nextPage_`; the valid aspects of a page of `CapturePagePool` |
| `queue`, `bulk`, `worker` | `revalidationQueue_`; how many analysis jobs and ready nodes compete for the workers; a worker's place in `workerLoop_` and `processJob` |
| `main`, `gate`, `rendering` | the call the main thread waits in; `paused_`, `backgroundPaused_`, `shutdown_`; a render session |
| `ClaimJob/Analysis/Node`, `Check…`, `Compute…`, `Publish`, `Unpin`, `Finish`, `Exit` | `workerLoop_`, `processJob` |
| `Invalidate`, `InvalidateSchedules`, `DependencyChanged`, `Expose`, `Paint` | the edits of a clip and the view that asks for a preview |
| `AddRef`, `RemoveRef`, `DirectDelete`, `DeferredDelete`, `RetireReturn` | the ways an object dies, with `retireObject` at the top of the destructor |
| `RenderBegin/Start/Done`, `LoadFails`, `PauseReturn`, `Shutdown…` | `pauseBackground`, `pause`, `shutdown` |

What a computation does is left out: it makes an aspect valid or fails. Edits come from
the main thread only; a job of the Metadata aspect always travels with Playback and
is part of it. A pointer that counts a page is whoever can reach it (`Held`), and a
page nobody reaches is back in the pool, cleared. `strayed` and `crossed` are history;
section 4 says what they are for.

### ActionHistory

`SActionHistory` over Qt's `QUndoStack` (external: modelled from how the sources use
it). Submission is synchronous, so one action is one call with everything it does,
the merge, the rollback of a composite that fails half-way, and the history it
notifies included. The model of the project is a function from cells (fader, mode,
automation point, property, media) to numbers; four kinds of verbs stand for the many, chosen
for what their inverses do: `set-track-volume` (whose target depends on the automation
mode, the playhead and the arrangement the track is in, and which merges), `set-automation-mode`, `set-automation-points`,
`set-property` (null inverse). `trail` is the model after each prefix of the stack,
`stray` the cells whose writes the stack does not hold; both are history.

`Twin` says where in the master the path of a track leads. A volume edit of a lane that reads its
automation becomes a point, applied without the root of the edit (`ssettrackvolumeaction.cpp:34-36`), so it is resolved
against the master (`splacements.h:175`): for a track of the master this is the track itself, for one in
an arrangement another track or none, and with none the edit is one of the fader after all (:69-77). The inverse
is then given the root of the action (`saction.h:162-166`) and names the arrangement's lane. `TargetOf` and
`InverseOf` are the two sides of this.

### SpeakerLanes

`twspeaker.cc`: the main thread, which makes every call, and the monitor thread that
Play leaves behind, which waits for the read-ahead, starts the device, and takes the lane
down when that fails. `output`, `live`, `device`, `running` are the fields under `mutex()`;
`backend` is what the device really is, `engine` how far the read-ahead is. An action
is a critical section or the code between two. The backend (external) may refuse to open or
start, and `rootComponent()` may be null (no project, or one without a root), after the device was opened or found
open: `PlayRootless` (`twspeaker.cc:115-126`). The Play of the main window guards against that
(`smainwindow.cpp:1742`), `SApplication::setPlaybackRunning` and the recorder do not, and the class does not
presume it. `raced` and `rootless` are history: see section 4.

`MCMainThread` checks the two modules in one run. They share no state and `focus` chooses
one at the start, so their states add up.

## 3. The runs

| Run | Instance | What it shows |
|---|---|---|
| `scheduler_safety` | 2 components and a plan too deep, 2 pages, 2 demands of both pages, 2 workers, 1 retirement at a time (of the source, or of both), shutdown at any time; 507 947 states | `TypeOK`, `InputsSettled`, `CounterExact`, `OnePlace`, `InPageOrder`, `RetireExclusive`, `OutstandingExact`, `SettledIsFinal`, the inductive invariant `SafetyInv` of the proofs, and `RefinesPageDemand` |
| `scheduler_liveness` | a chain of 3 components with changing plans, a doubled input and a plan the depth guard cuts (`deep`); 2 demands, 1 worker; no shutdown overlapping a request; 92 032 states | `WaitReturns`: every `wait` returns |
| `scheduler_shutdown_race` | the same with 1 demand, shutdown overlapping it | **violated**: `WaitReturns`, finding 1 |
| `page_cache` | 3 components, 1 page, 2 pulling threads, 2 edits, bumped from the deepest up or as a send, pruning; 3 994 266 states | `TypeOK`, `CurrentIsFresh`, `RequestFresh` |
| `page_publish` | 2 components, 2 pages, 1 worker, 2 edits, bumped in either order; 3 058 537 states | `PublishedIsFresh`, `RepublishNeedsEdit`, `Converges` |
| `page_lost_edit` | as `page_publish`, from the deepest up only | **violated**: `EditsAreNeverLost`, finding 2 |
| `page_restaled` | 2 components, 2 pages, 2 workers, 1 edit | **violated**: `RepublishNeedsEdit`, finding 3 |
| `midi_out_safety` | rings of 2 slots, 3 messages, panic of 2, 2 due times, time-outs; 2 517 183 states | `TypeOK`, `Accounted`, `NoLostWakeup`, `SameInstantInOrder`, `NothingEscapes` |
| `midi_out_liveness` | 2 messages, both kinds of backend, no time-outs; 103 565 states | `CallsReturn`, `EverythingLeaves` |
| `midi_out_panic` | as above | **violated**: `PanicDelivers`, finding 4 |
| `revalidation` | 2 workers and one of five projects: a clip with a pool that can or cannot be exhausted, two clips that share a pool; up to 2 calls besides painting; 304 466 states | `TypeOK`, `PinsExact`, `NoDangling`, `OwnsTheGraph`, `Converges`, `Collected`, `CallsReturn` |
| `main_thread` | 4 edits over a track, its twin in an arrangement, a track only an arrangement has and a conductor, drags, macros two deep, composites that fail half-way, playhead of 2 frames; and the speaker, without bounds; 417 666 states | `UndoRestores`, `CleanMeansSaved`, `GestureIsOneStep`, `RefusedChangesNothing`; `LiveHasDevice`, `PlayingHasDevice`, `DeviceReleased`, `FlagsExact`, `Settles` |

**Bounds, and why they are enough.** `MaxNodes` is the number of nodes ever created: 8
lets each of the four pages of the safety instance be rendered twice, so a page is
demanded again after it completed or was retired; 10 lets the chain be expanded twice and more, and 5 once. Two demands and two workers are the
least at which a node is shared, two nodes run at once, and a retirement drops one
demand's node while the other demand's runs. Both instances have a component `deep` under the source. `MaxExpandDepth` is 1 in the safety instance, so that
the guard always cuts it, and 2 in the chain instances, where it cuts it when the mix reads the source
through the chain and not when it reads it directly: a node of one plan is found without its
input by another. In `PagePublish` two edits are needed for the lost edit (one
makes the input stale, the other lands inside the retry) and three components for an
edit in mid walk with components on both sides. `Walks` is `SendsLast` in `page_cache` (from the deepest up, or the edited component again after the
root and what it feeds), `AnyOrder` in `page_publish`. The two violated runs have `DeepestFirst`, so that
what they show is not owed to a late bump. `MaxEpoch` limits how often pages are
demanded again; in `page_publish` it is above what that instance reaches, so it cuts
nothing there, and `page_cache`, which has no workers, does not use it. In
`page_restaled` it does cut: the re-stales of two demands can go on for ever, which is
what the run is about. The MIDI rings of two slots hold one message, so "full" is one
push away; three messages overflow ring, list and cap. A `Projects` entry of
`RevalidationLane` bounds the calls of the environment, not of the lane: two calls are
an edit and a deletion, or an edit under a render, and painting, the event loop and
closing the project cost nothing. A clip with that many jobs is not painted again,
which cuts only the copies of a job the code queues without limit. Four edits are a drag
of two, a mode change and a save, with any undos and redos between; a behaviour that has been through the arrangement sees one edit less
(`Arranged`): an edit of the lane's mode, a volume edit and another action, with undos and redos. The speaker's
states are finite and nothing bounds them.

**Deadlock** is checked except in the `page_*` runs with workers, in `revalidation` and in
`main_thread`. In the first the system
comes to rest by design: with both pages current and no edit left, nothing is demanded.
The last two end when the project is closed and when the window is.
In the other runs a caller may always call again (a retirement also after a
shutdown, a stop or a flush also on an idle sender, a request for a page at any time),
so a deadlock there would be threads waiting for each other.

**Fairness.** Each thread that can take a step eventually takes one (weak fairness
for each worker, requester, pulling thread and sender, and for the continuation of a
call already made): the code's threads are ordinary OS threads that block only on
the locks and condition variables the actions' guards stand for. Nobody has to
*start* anything: requests, edits, retirements, flushes and shutdowns have no fairness. There
is strong fairness on the polls of `flush` and `panic`, which look at the sender's flags once a
millisecond, for up to `kDrainWaitMs` (`midi_out_scheduler.cc`), while an idle
sender sleeps at least five: a poll meets the idle sender sooner or later. Without
it the poll could always look at the wrong moment. The monitor thread of the speaker
has strong fairness too, because the main thread takes and gives back `mutex()` as often as
the user arms an input; a mutex that starves it for ever is not what the code assumes.
In `revalidation` the event loop turns (a posted paint or deletion is delivered) and a
render ends.

Symmetry is used for interchangeable threads, handles and pages in the runs that check
no leads-to property.

## 4. Findings

1. **`requestGraphPages` against `shutdown`** (`capture_revalidator.cc:429`). The call tests
   `shutdown_` once, before any lock; a shutdown between that test and the attachment
   of the demand aborts everyone but this demand, and its `wait` never returns,
   although the header says it returns on shutdown.
2. **An edit inside a retry is lost** (`capture_revalidator.cc:635-671`). The retry asks for
   the fresh input first and observes its own epoch later; an edit bumped through both
   components in between is in neither. The page is stamped current with the audio
   from before the edit, and stays so until the next one. `PublishedIsFresh` shows that
   this window is the only one: pages without an edit in it (`slipped`) are fresh.
3. **A re-stale is read back as an edit** (`capture_revalidator.cc:720`). The node re-stales its
   own page by the operation that moves its component's epoch, which other nodes of that
   component compare with. With two demands in flight, a node planned after the last
   edit re-stales a correct page; the comments call the scheme terminating. With
   one demand at a time it is: `page_publish` checks `RepublishNeedsEdit` and `Converges`.
4. **`panic` may return early** (`midi_out_scheduler.cc:440`). It reads `idle_` and then the
   ring's ends; the pass of the sender in between takes the ring into its list. The
   call returns with its bytes unsent. The bytes do leave later
   (`EverythingLeaves`), so the harm is for a caller that relies on the return.

Properties that hold but for an exception name the exception in the formula, by a
history variable. Each is a place where the code is weaker than its comments, a known divergence
that the property does not catch because it is excepted:

- **A bump that comes late** (`late`; `strack.cpp:1230-1233, 1250-1251`, `sstdmixer.cpp:879-902`). A
  component that is bumped before something upstream of it, an aux tap or a send, and rendered between the two
  bumps, reads current with audio from before the edit until the next edit. `sobject.cpp:1094-1096` calls the order
  harmless either way. `CurrentIsFresh`, `RequestFresh` and `PublishedIsFresh` except such components, and only
  them; `InOrderWalks` proves that there are none while walks go from the deepest component up.

- **Exhausted pool and retirement** (`strayed`; `capture_revalidator.cc:783`). A worker that gets no page
  queues its job again, also the job of an object whose queue `retireObject` has just
  swept; `capture_revalidator.h:274-278` promises that none is queued afterwards. `NoDangling` excepts that object. The re-queue
  itself spins: with every page in use the worker takes the same job again at once.
- **Two jobs of one object** (`crossed`; `capture_revalidator.cc:778`). Jobs are not merged, so a
  second one finds the `nextPage_` of the first and renders into it; an invalidation in flight drops
  it. Either may then publish a page without the preview (or none), against
  `sobject.h:834, 1337`, and the repaint schedules the job once more. `Converges` excepts those clips. Every publication also replaces
  the page and with it what other aspects had made valid.
- **Volume edits that become points** (`stray`; `ssettrackvolumeaction.cpp:101`). On a lane that
  reads its automation the edit is a point at the playhead. The inverse covers the first point; a
  drag under a moving playhead merges and writes more of them, and a redo writes wherever
  the playhead then is. `saction.h:34` and `docs/ACTIONS.md:140` promise the state before.
- **Volume edits in an arrangement** (`stray`; `ssettrackvolumeaction.cpp:34-36`). On a lane that reads its
  automation the point goes to the track at the same place of the *master*, and the inverse, given the root of the
  action by `saction.h:162-166`, to the arrangement's track: undo leaves the master's point and writes over
  the arrangement's. `UndoRestores` and `CleanMeansSaved` except both cells. A composite refused after
  such an edit rolls back the same way, so that a refused action has changed the model (`Mistaken` in
  `RefusedChangesNothing`). If the master has no such track the edit is one of the fader and undone as one.
- **Actions without an inverse** (`Property`). `set-property`, and a composite with such a
  part, leave the stack clean although the model differs from the file. Beside a change of mode
  or a refused child they break undo and rollback of the rest (`PoisonStandsAlone`, section 5).
- **A macro whose first action is refused** leaves an empty step of undo behind
  (`sapplication.h:277`); no property says otherwise.
- **The monitor's last check** (`raced`; `twspeaker.cc:492, 530`). The monitor asks whether the live lane is
  on in one critical section and closes the device in a later one: a live lane switched
  on between loses the device, which :488-490 means to exclude; one switched off between
  leaves it open. In the same window `startOutput` returns true though nothing plays. All four properties of the device except it.
- **Play without a root component** (`rootless`; `twspeaker.cc:115-126`). `closeDevice()` is called without asking
  `liveActive()`, and `deviceState_` and `deviceRunning_` are not cleared. A live lane that is on loses its device, and with
  both flags set (`TakenAway`) a later Play takes the device for running and claims to play. Beside a lane that
  is off the damage is less and is checked: `deviceState_` alone is left, and the next Play or arming finds a device that
  cannot start and fails, until a teardown clears the flag.
  A failed start of `openLive` (:714) closes a device the frozen lane may be using, against :690.
- After a time-out of the priming the monitor thread is not joined by a later `stopOutput`,
  which returns early; a `~twSpeaker` then would destroy a joinable thread. The model ends at
  the closing of the window, before the destructor.

## 5. What is proved

### GraphSchedulerProofs

For every graph, set of plans, requests, retirements,
demands, workers and node bound, from nothing but the module's assumptions on its
constants, the following hold.

| Theorem | Statement |
|---|---|
| `Inductive` | `Spec => []IndInv` |
| `TypeCorrect` | `Spec => []TypeOK`; `pendingDeps` never goes below zero |
| `CountersCorrect` | `Spec => [](CounterExact /\ InputsSettled)` |
| `NodesInOnePlace` | `Spec => []OnePlace` |
| `PagesInOrder` | `Spec => []InPageOrder` |
| `RetirementExcludes` | `Spec => []RetireExclusive` |
| `AllInductive` | `Spec => []SafetyInv`, where `SafetyInv == IndInv /\ DemandInv` |
| `InputsAreSettled` | `Spec => []InputsSettled` |
| `OutstandingCorrect` | `Spec => []OutstandingExact` |
| `SettledStaysSettled` | `Spec => SettledIsFinal`, an action property |
| `ImplementsPageDemand` | `Spec => RefinesPageDemand`: `Spec` implies the specification of `PageDemand` under the mapping |

`CounterExact` alone is not inductive: to know that a completion lowers a counter by
the right number one must know that the `dependents` lists are exactly the edges to live
inputs (`EdgesExact`); that an insertion counts exactly the live ones among
inputs obtained in *earlier* bursts of the lock, that none of them was dropped meanwhile
(`ExpansionSound`, which holds because `expansionMutex_` keeps retirements out); that a node
is never its own ancestor (`Births`: an input is older than its reader); and that a settled
node is in no queue or hand (`OnePlace`, `MapSound`). Page order needs the link of a node to the
page before it (`PredecessorLinked`), and the retirement barrier that nothing but running
nodes survived its first step (`RetireQuiet`). `IndInv` is the conjunction; TLC checks it in
`scheduler_safety` as a part of `SafetyInv`, TLAPS proves that it is inductive.

The argument is laid out as the actions are. `Settling(S, st)` names what completion and
retirement share, the release of the edges of a set of nodes, and the lemmas
`Settling…` prove once what it preserves. `AsideSound` covers the actions that touch handles
and workers only. Each remaining action has a lemma of its own (`ClaimStep`,
`CompleteStep`, `RetireBeginStep`, `ExpandInsertStep`, …), and `NextSound` joins them.

The last five theorems are about the handles, on top of the nodes; a shutdown may overlap anything.
A page is owed to a handle as long as somebody still carries the handle for it: the node, a
retirement that dropped the node, or a worker about to notify. `HandsApart` says that it
is carried by one of them only, and for one page by one node only, so that a notification takes
exactly one page off; `HandlesExact` says that the counter is the number of pages so carried (unless the handle was
aborted), that nothing is carried for a handle before it is issued, and that a released one was through with
waiting; `ExpanderExpands` that who holds `expansionMutex_` has not issued its handle yet. `DemandInv` is the
conjunction. From it each step of the scheduler is a step of `PageDemand` (a call of `requestGraphPages` prepares and issues, `Notify` delivers, `RetireOrphan` loses,
`ShutdownBegin` aborts, `WaitReturn` releases) or a stutter.

### MidiOutSchedulerProofs

For every capacity of the rings and of the list, every number of messages, due
times and panic messages, and either kind of backend:

| Theorem | Statement |
|---|---|
| `TypeCorrect` | `Spec => []TypeOK`: rings and list stay within their bounds |
| `NothingLostOrDoubled` | `Spec => []Accounted` |
| `NoWakeupIsLost` | `Spec => []NoLostWakeup` |
| `InstantsKeepTheirOrder` | `Spec => []SameInstantInOrder` |
| `FlushedStaysUnsent` | `Spec => NothingEscapes`, an action property |

The invariant `IInv` is the conjunction of six parts. `Types` and `Control` say what
a pass of the sender, a flush, a panic, a stop and a start exclude of each other. `Woken`
is the hand-shake of the sleeping sender. `Order` is what makes the order of the wire
inductive: the numbers in the ring ascend and are above those in the list and on the
wire, and in the sorted list equal due times ascend. `Cut` says which messages lie behind the
horizon of a flush at each point of the pass that honours it. `Books` is `Accounted` with the
messages in hand. The 30 actions reduce to nine *movements* (a message enters a ring, a
ring is taken into the list, the list is sorted, a prefix is sent, everything is
dropped, …); a lemma for each says what it does to the four parts, and the
action lemmas name the movement they are.

### RevalidationLaneProofs

For every set of objects, workers and pages and every bound on jobs:

| Theorem | Statement |
|---|---|
| `LaneInductive` | `Spec => []LaneInv` |
| `TypeCorrect` | `Spec => []TypeOK`: no pin count goes below zero |
| `PinsCorrect` | `Spec => []PinsExact` |
| `CollectedWithoutJobs` | the event loop collects an object only when no job of it is queued or worked on |
| `JobsDieWithTheirObject` | `Spec => []NoDangling` |
| `GraphIsOwned` | `Spec => []OwnsTheGraph` |

`NoDangling` is not inductive: that no job of a *destroyed* object is about follows from
`SweptQueue`, that the queue holds none of an object from the sweep of `retireObject` on
(while a worker may still have one in hand), and from `NoWorkerOnDead`, which uses that
the main thread returns from the retirement only when no worker has. `JobsHeld` (a
worker between claim and finish has a job), `CallsInOrder` (at most one call, and which
objects can be dying in it), `RenderAlone` and `PausedAlone` are the other parts.

The pins are counted without a theory of bags. The queue is a function from jobs to numbers,
and its copies are the pairs of a job and a number up to its count; a
pin belongs to such a copy or to a worker that has not unpinned yet, and the count of an object is
the cardinality of the set of its holders. Each action then adds or removes one holder,
or moves one (a claim turns a copy into a worker, an exhausted pool the other way round).
`PinsHeld` says that the pins of any object are at least its holders, and exactly as many
while it is alive and the lane is not shut down: `shutdown` drops the queue and
leaves the pins of what it dropped.
`NoJobAssumption` (the value for "no job" is none) is the only assumption added.

### PagePublishProofs

For a chain of any height, any pages, ranges of an edit, number of edits and number of
threads that call `requestPage()`, with pages pruned while they are rendered. The
assumption `PullersOnly` (no worker runs planned nodes) is part of each statement: with
planned renders `CurrentIsFresh` does not hold between a node's freeze and its verification,
and `PublishedIsFresh`, of `PageWorkerProofs`, is what is said instead.

| Theorem | Statement |
|---|---|
| `FreshInductive` | `PullersOnly /\ Spec => []IInv` |
| `PagesAreWellFormed` | `PullersOnly /\ Spec => []TypeOK` |
| `CurrentPagesAreFresh` | `PullersOnly /\ Spec => []CurrentIsFresh` |
| `InOrderWalks` | `DeepestFirstOnly /\ Spec => [](late = {})` |

`CurrentIsFresh` speaks of pages in the cache, and is not inductive: what enters the cache
was put together earlier, from a setting and an input page read at different times. The
invariant follows every call on every thread's stack. A frame is *live* when it
carries the present epoch of its component, no edit is still to reach its page and none reached it late (`Stable`). Liveness is
only ever lost (an epoch moves, or an edit begins), so a frame whose stamp will read
current has been live since it read its epoch; and since that was the first thing it did,
all it has read since is fresh. `FrameFresh` says so of a live frame and of every frame it
waits for, because a caller read its producer's epoch before the call began
(`FrameOK`). `HintFresh` is the same for the page a reader keeps. That a page which is stable
is so upstream too (`StableUpstream`) does not rest on the order of the bumps, which is arbitrary here: what a walk
leaves out of order is in `late` and claims nothing. That the exception is empty for a walk from the
deepest component up is a theorem of its own, `InOrderWalks`, with `BumpsInOrder` as the part about `EditBump`; under
`DeepestFirstOnly`, the properties of this module and of the next two hold without it.

Steps inside `freezePage` share one lemma, `FreezeKeeps`: the component's mutex leaves
every other thread's calls and pages alone (`Alone`), so only the thread's own calls remain
(`OwnCalls`). `TopStepKeeps` covers the steps that replace the innermost frame,
`PullProducerKeeps` the call, `Returning` with `OutermostReturns` and `InnermostReturns` the
return from a hit or a stamp.

### PageRequestProofs

| Theorem | Statement |
|---|---|
| `PromisesInductive` | `PullersOnly /\ Spec => []RInv` |
| `RequestsAreFresh` | `PullersOnly /\ Spec => []RequestFresh` |
| `RepublishingNeedsEdit` | `OneWorker /\ Spec => []RepublishNeedsEdit` |

`RequestFresh` compares an answer with a moment in the past, and the answer may have been rendered
for somebody else. `PagePublishProofs` has nothing to offer here: its frames are fresh as long as
they are live, and an answer may be given when an edit has made the page stale again. What
holds instead is a *promise*: `Owed(c, e, p, floor)` says that whatever will be served of page `p` of
component `c` at an epoch of `e` or later (a cached page, a frame in a render or the one it waits
for, a hint, an answer in hand) shows, for each component behind it, at least the version in
`floor`. `NowOwed` says that at any moment the present epoch owes the settled model, which holds when
an edit is complete because nothing can carry the new epoch yet but what was begun after
the bump (of what a bump has reached late, `settled` keeps the older version until it is bumped again); from then on a promise is kept by every step, edits included, since versions only
grow and a frame entered later reads later. A request takes the promise of its moment
along (`RequestOwed`), and `Reliance` ties a waiting request to the render it waits for
(`WaitSound`, `OwnerSound`: one that was claimed for the same epoch or a later one). `RInv` is `IInv`
with the three.

`RepublishingNeedsEdit` is about workers. `OneWorker` is needed, finding 3 is what two do.
`RestInv` says that a node marked quiet has observed the present epoch of its component,
unless it is on its way to observe it again (between the drop and the second rendering), and that
a node about to re-stale is not quiet. The pullers, the height of the chain and the number of pages
are arbitrary.

### PageWorkerProofs

The other half of `PagePublish`: any number of workers that run planned nodes, a chain of
any height, any edits, pages pruned under their renders, and no puller (`WorkersOnly`).

| Theorem | Statement |
|---|---|
| `WorkKeeps` | `WorkInv /\ [Next]_vars => WorkInv'` |
| `WorkInductive` | `WorkersOnly /\ Spec => []WorkInv` |
| `PublishedPagesAreFresh` | `WorkersOnly /\ Spec => []PublishedIsFresh` |

Here nothing is fresh by having been read in the right order: a node renders from the input it
was given, and only the verification afterwards tells whether that was still good. What makes
the argument possible is that a page is demanded by one worker at a time (`OnePage`, with
`OwnClaims` for the in-flight maps): whatever is claimed of a page rests on that worker.

- A bound input is fresh as long as its component's epoch has not moved since the plan
  (`InputKept`), which is what the verification compares. What a retry binds is fresh as long
  as no edit is still to reach the node: one that reaches it inside the retry makes the page
  `slipped` (finding 2), and one that reaches it later moves the epoch the retry observed (`SelfKept`),
  which the last test sees.
- As above, nothing is claimed where a bump came late: `Stable` is a condition of every claim.
- A page is in doubt (`InDoubt`) while its node has neither verified it nor dropped it. `PageClaim`
  says that a page that reads current, not in doubt, not slipped and with no bump to come is
  fresh; `PublishedIsFresh` is its part for a page whose node has completed.
- A call on a worker's stack is held to freshness on a *warrant* (`Warrant`): its frame is live and
  the input of its node still kept, or the retry waits for it (`Awaited`) and no edit is
  to reach the node. `HintClaim` says the same of the page a latch keeps.

The hypothesis is not a convenience. With a puller beside a worker the property is false: between a node's
freeze and its verification (`capture_revalidator.cc:569`) the page is in the cache and
reads current, and what a puller of the component above renders from it in that moment stays when the
verification drops the page. TLC shows it with one of each and three components. TLC also checked `WorkInv` before it was proved, whole with one worker and
in part with two, for walks from the deepest component up.

### SpeakerLanesProofs, MainThreadProofs

| Theorem | Statement |
|---|---|
| `LanesInductive` | `Spec => []Inv`, in `SpeakerLanesProofs` |
| `LiveKeepsDevice` | `SpecEither => []LiveHasDevice` |
| `PlayingIsReal` | `SpecEither => []PlayingHasDevice` |
| `UnusedIsReleased` | `SpecEither => []DeviceReleased` |
| `FlagsAreTrue` | `SpecEither => []FlagsExact` |
| `DragIsOneStep` | `Spec => GestureIsOneStep`, an action property of `ActionHistory` |
| `UndoInductive` | `PoisonStandsAlone /\ Spec => [](HistoryInv /\ UndoInv)` |
| `UndoGoesBack` | `PoisonStandsAlone /\ Spec => []UndoRestores` |
| `CleanIsInFile` | `PoisonStandsAlone /\ Spec => []CleanMeansSaved` |
| `RefusalIsClean` | `PoisonStandsAlone /\ Spec => RefusedChangesNothing`, an action property |
| `HistoryRuns` | `SpecEither => Spec`: the behaviours of the run are among those the four above are about |

`Inv` of the speaker says for each stage of the monitor and of the main thread what the output
state, the flags and the device are then: `MonitorSound` which output state goes with which stage of the
monitor, and that Play never leaves two of them, `DeviceSound` that the device is what the lanes in use
need, except once `raced` is set, and what the flags say of a closed device from a rootless Play to the next
teardown. `MainThreadProofs` carries the theorems over to the specification that is
checked: each action of its instance of `SpeakerLanes` is that of the module.

`GestureIsOneStep` needs to know of the stack that a command outside a macro holds the edits of one
gesture, namely its own, and that an open macro lies on top of what is done
(`HistoryInv`), through every truncation by a new edit after some undos and every
macro that is opened, filled or left empty.

`UndoRestores` and `CleanMeansSaved` compare the model with a state of the past, for actions
of any length, any number of tracks and edits, and a playhead that may be anywhere. `UndoInv` has, besides types
(`Typed`, `Lengths`), three parts, all of them up to the cells in `stray`, among which a mode never is:

- `Chain`: every entry of the stack *links* the state of `trail` before it to the one after it. Its
  commands pass through states in between: the forward action of each writes some cells in
  one order, and its inverse the same cells in the opposite order, with the values of before; a point that
  went to the master is taken back from another lane, and both are in `stray` (`Links`, `Retraces`, `Within`).
- `Here`: the model is the state of `trail` at `index`, or, while a macro is open, the one its
  commands so far lead to.
- `Saved`: the file is the state of `trail` at `clean`, and has the media the model has.

That an inverse retraces is not obvious, because where a volume edit lands depends on the automation
mode and the playhead of the time: an edit that became a point at an old playhead
must not be undone as one of the fader, nor under the new playhead. `Retraced` and `RunTraced` show that
an inverse names the cell that was written, or one point instead of another, and finds, when its turn
comes, the mode that was in force then (no mode is ever written astray), since the mode changes of a composite are undone in the opposite order too. From
it follow `RefusedRollsBack` (the rollback of a composite refused half-way ends where it began, but for `Mistaken`),
`UndoCommand`, `RedoCommand` (a redo under another playhead links the same states, and
where it strays it says so) and `MergedCommand` (the survivor of a merge, with the older inverse and the newer
action). `UndoLinks` and `RedoLinks` lift them to macros, `PushOnTop`, `PushIntoTop`, `PushJoins` and `InMacro` to
the ways an edit can reach the stack.

A run of verbs is a recursive function on `0 .. Len(verbs)`. The library's induction rule takes an
operator, but an induction over a *set* is within reach: a set that has 0 and with each number below
the bound the next one has all of them (`UpTo`), and `Recursion` gives the values of a
recursive function step by step.

`PoisonStandsAlone` is a limit of the code, not of the proof. A composite one of whose children has no inverse is
applied as a whole and has none itself; `scompositeaction.cpp:71-81` calls that "the honest limit of the
conservative fix". If such a child stands beside a change of mode, the change is not on the stack, and
undoing an earlier volume edit then writes a point of the lane; beside a child that is refused, the rollback
leaves out what has no inverse. The condition excludes these two and nothing else: such an
action alone, or beside volumes and points, is covered. The actions of `main_thread` meet it.

### Only model-checked

- The liveness properties (`WaitReturns`, `CallsReturn`, `EverythingLeaves`, `Converges`, `Collected`,
  `Settles`): the proof system has no support for fairness.
- Pages rendered by workers and pulled by others at once: the theorems are about the one or the
  other, as the runs are, and `PublishedIsFresh` is false of both together (see `PageWorkerProofs`).
  `RepublishNeedsEdit` is proved for one worker and is false for two (finding 3).
- That a sorted list exists (`Sorted` of the MIDI sender is defined by choice among rearrangements; the
  proofs use what it satisfies).

## 6. What is not modelled

- `GraphScheduler` is modelled as if the pool served the graph lane only, and `RevalidationLane`
  sees nodes and analysis jobs as numbers. `Claim` may be delayed as
  long as one likes, which covers workers busy elsewhere; there is no run of both.
- Invalidation of a clip by a thread other than the main one, live recordings, and what
  the computation of a preview reads (peaks, captures, windows).
- The verbs beyond the four kinds; the merging and cancelling inside the action
  queue (`sactionqueue.cpp:60`), which a synchronous submission never reaches.
- The speaker's render callback, its probe, its seek and loop calls, and the closure of the live master.
- Pages rendered by workers and pulled by others *at the same time*: `PagePublish` has both
  kinds of thread, the runs use one kind each, because together they exceed what can be
  checked in minutes. The window this leaves is listed as a hazard.
- Plugin chains with latency and time-shifted inputs: a component reads the same
  position of its input.
- Out-of-memory and exceptions in a render.
- The audio engine's seeks, loops and demands, recording, the render session, the live pump and its ring, and the MIDI input
  fan-out: each has a protocol worth a model, and their hazards are listed in `PROJECT.json`.
- Everything else `not_modelled` in `PROJECT.json`, with its reason: signal arithmetic, file
  formats and widgets have no protocol a model checker would add something to.

## 7. Plan

What remains, most important first.

1. **Composition of pulls and publication**: a smaller `PagePublish` instance with one
   puller and one worker, for the window between a node's freeze and its verification.
2. **AudioEngine**: seeks, loop wrap and re-demands against an abstract transport, on top of
   `PageDemand`; then the speaker's callback as its consumer.
3. **CaptureBridge** and the growing source: frontier, segment end, stop, with "every frame
   captured is in the file" as the abstract specification; **RenderSession** on top of
   `PageDemand`; the single-producer single-consumer rings as a module the others instantiate.
4. **Live lane**: ring entries by run and position, plan hand-over at a block boundary,
   `retireComponentNodes` as the barrier (its promise is `RetirementExcludes`).
5. The worker pool with all three lanes in one instance, for the priorities between them.
6. Pure algorithms against reference definitions: rational time, event merge.

Every safety invariant and action property of the passing runs has its theorem. The next ones belong to the
modules above, and to a property that does hold of workers and pullers together: what a puller
may be served while a node's page is in doubt.
