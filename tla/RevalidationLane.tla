-------------------------- MODULE RevalidationLane --------------------------
(***************************************************************************)
(* The background lane of the CaptureRevalidator: jobs that recompute what *)
(* an object shows of itself into a page of the CapturePagePool.           *)
(*                                                                         *)
(* The queue borrows raw pointers, so three mechanisms keep a worker away  *)
(* from a destroyed object: a pin per job defers a deletion by reference   *)
(* count, retireObject() at the top of the destructor covers a direct      *)
(* delete, and shutdown() precedes the end of the project.  pause() and    *)
(* pauseBackground() give the object graph to a failed load or a render.   *)
(*                                                                         *)
(* An object shows currentPage_; a worker fills nextPage_ and swaps them.  *)
(* A page returns to the pool with the last pointer to it.                 *)
(*                                                                         *)
(* An action is one critical section of a worker or one call of the main   *)
(* thread up to the point where it waits.  Graph nodes and analysis jobs   *)
(* share the workers; what they do is in GraphScheduler or outside.        *)
(***************************************************************************)
EXTENDS Integers, FiniteSets, Bags

CONSTANTS
    Object,     \* IRevalidatable objects: the clips of a project
    Worker,
    Page,
    None,
    Projects    \* bounds: the clips of a project, the pages of its pool, how often the
                \* environment acts, apart from painting and closing, and the jobs of
                \* an object from which on it is not painted

ASSUME NoneAssumption  == None \notin Object \cup Page
ASSUME ProjectsAssumption ==
    Projects \subseteq [clips : SUBSET Object, pool : SUBSET Page, calls : Nat, jobs : Nat]

\* Playback stands for Playback and Metadata, which always travel together here.
Aspects == {"preview", "playback"}

VARIABLES
    object,     \* life, refs, pins, deletePending_, a posted DeferredDelete; did the
                \* last preparation of its preview fail
    current,    \* currentPage_
    next,       \* nextPage_
    valid,      \* the validAspects of the pool's pages
    queue,      \* revalidationQueue_, a bag of jobs
    bulk,       \* analysisQueue_ and graphReady_, as numbers of jobs
    worker,     \* what each worker is doing
    main,       \* the call the main thread is in
    gate,       \* paused_, backgroundPaused_, shutdown_
    rendering,  \* an offline render holds the background lane
    repaint,    \* objects the view will draw again
    budget,     \* the project's calls that are left, and its jobs
    strayed,    \* objects re-queued while they were being retired
    crossed     \* objects a job of which published another page than its own

objects == <<object, current, next, valid>>
vars == <<objects, queue, bulk, worker, main, gate, rendering, repaint, budget,
          strayed, crossed>>

Job == [obj : Object, aspects : (SUBSET Aspects) \ {{}}, prio : {0, 1, 10}]

ASSUME NoJobAssumption == None \notin Job

Idle == [pc |-> "wait", job |-> None, page |-> None, done |-> {}]
Free == [call |-> "free", obj |-> None]

Clip(life) == [life |-> life, refs |-> 1, pins |-> 0, pending |-> FALSE, posted |-> FALSE,
               failed |-> FALSE]

Init ==
    /\ \E project \in Projects :
           /\ object = [o \in Object |-> Clip(IF o \in project.clips THEN "alive" ELSE "gone")]
           /\ valid = [p \in project.pool |-> {}]
           /\ repaint = project.clips
           /\ budget = [calls |-> project.calls, jobs |-> project.jobs]
    /\ current = [o \in Object |-> None]
    /\ next = [o \in Object |-> None]
    /\ queue = EmptyBag
    /\ bulk = [analysis |-> 0, graph |-> 0]
    /\ worker = [w \in Worker |-> Idle]
    /\ main = Free
    /\ gate = [paused |-> FALSE, background |-> FALSE, shutdown |-> FALSE]
    /\ rendering = FALSE
    /\ strayed = {}
    /\ crossed = {}

(***************************************************************************)
(* Pages                                                                   *)
(***************************************************************************)
\* A page is out of the pool while an object or a worker points to it.
Held(cur, nxt, wk) ==
    ({cur[o] : o \in Object} \cup {nxt[o] : o \in Object} \cup {wk[w].page : w \in Worker}) \ {None}

\* releasePage: whoever drops the last pointer clears the page's aspects.
Released(pg, held) == [p \in DOMAIN pg |-> IF p \in held THEN pg[p] ELSE {}]

(***************************************************************************)
(* Scheduling a job                                                        *)
(***************************************************************************)
ScheduledUnpinned(obj, o) == obj

\* scheduleRevalidation: after a shutdown the job is refused, and not pinned.
Scheduled(obj, o) == IF gate.shutdown THEN obj ELSE [obj EXCEPT ![o].pins = @ + 1]
Queued(job) == IF gate.shutdown THEN queue ELSE queue (+) SetToBag({job})

PriorityOf(aspects) == IF "preview" \in aspects THEN 1 ELSE 10

JobOf(o, aspects) == [obj |-> o, aspects |-> aspects, prio |-> PriorityOf(aspects)]

SubmitAnalysis ==
    /\ budget.calls > 0
    /\ ~gate.shutdown
    /\ budget' = [budget EXCEPT !.calls = @ - 1]
    /\ bulk' = [bulk EXCEPT !.analysis = @ + 1]
    /\ UNCHANGED <<objects, queue, worker, main, gate, rendering, repaint, strayed, crossed>>

\* A node of a page demand becomes ready.
SubmitNode ==
    /\ budget.calls > 0
    /\ ~gate.shutdown
    /\ budget' = [budget EXCEPT !.calls = @ - 1]
    /\ bulk' = [bulk EXCEPT !.graph = @ + 1]
    /\ UNCHANGED <<objects, queue, worker, main, gate, rendering, repaint, strayed, crossed>>

(***************************************************************************)
(* The main thread: edits and painting                                     *)
(***************************************************************************)
\* invalidateCapture, part 1: both pages are dropped, and the job that computes them
\* again is only scheduled in part 2.
Invalidate(o) ==
    /\ main = Free
    /\ object[o].life = "alive"
    /\ budget.calls > 0
    /\ budget' = [budget EXCEPT !.calls = @ - 1]
    /\ current' = [current EXCEPT ![o] = None]
    /\ next' = [next EXCEPT ![o] = None]
    /\ valid' = Released(valid, Held(current', next', worker))
    /\ main' = [call |-> "invalidating", obj |-> o]
    /\ UNCHANGED <<object, queue, bulk, worker, gate, rendering, repaint, strayed, crossed>>

\* invalidateAspects: currentPage_ goes, a nextPage_ in the making stays.
InvalidateAspects(o, aspects) ==
    LET job == JobOf(o, aspects)
    IN  /\ current' = [current EXCEPT ![o] = None]
        /\ object' = Scheduled(object, o)
        /\ queue' = Queued(job)
        /\ valid' = Released(valid, Held(current', next, worker))

InvalidateSchedules ==
    /\ main.call = "invalidating"
    /\ InvalidateAspects(main.obj, Aspects)
    /\ main' = Free
    /\ UNCHANGED <<next, bulk, worker, gate, rendering, repaint, budget, strayed, crossed>>

\* An object this one depends on changed what it plays.
DependencyChanged(o) ==
    /\ main = Free
    /\ object[o].life = "alive"
    /\ budget.calls > 0
    /\ budget' = [budget EXCEPT !.calls = @ - 1]
    /\ InvalidateAspects(o, {"playback"})
    /\ UNCHANGED <<next, bulk, worker, main, gate, rendering, repaint, strayed, crossed>>

\* getPreview draws the clip, and schedules a job if the page lacks the preview.
ShowsPreview(o) == current[o] # None /\ "preview" \in valid[current[o]]

Paint(o) ==
    /\ main = Free
    /\ o \in repaint
    /\ object[o].life = "alive" /\ object[o].pins < budget.jobs
    /\ repaint' = repaint \ {o}
    /\ IF ShowsPreview(o)
       THEN UNCHANGED <<object, queue>>
       ELSE object' = Scheduled(object, o) /\ queue' = Queued(JobOf(o, {"preview"}))
    /\ UNCHANGED <<current, next, valid, bulk, worker, main, gate, rendering, budget, strayed, crossed>>

\* The user scrolls the clip into view.
Expose(o) ==
    /\ budget.calls > 0
    /\ o \notin repaint /\ object[o].life = "alive"
    /\ budget' = [budget EXCEPT !.calls = @ - 1]
    /\ repaint' = repaint \cup {o}
    /\ UNCHANGED <<objects, queue, bulk, worker, main, gate, rendering, strayed, crossed>>

(***************************************************************************)
(* Workers                                                                 *)
(***************************************************************************)
At(w, pc) == worker[w].pc = pc
Doing(w, o) == worker[w].job # None /\ worker[w].job.obj = o

NoPriority == -1
Priority(queued, p) == IF queued THEN p ELSE NoPriority

Waiting == IF gate.background THEN {} ELSE BagToSet(queue)
RevalPriority == LET prios == {j.prio : j \in Waiting} \cup {NoPriority}
                 IN  CHOOSE p \in prios : \A q \in prios : q <= p
AnalysisPriorityUnmasked == Priority(bulk.analysis > 0, 4)

AnalysisPriority == Priority(~gate.background /\ bulk.analysis > 0, 4)
GraphPriority == Priority(bulk.graph > 0, 9)

Awake(w) == At(w, "wait") /\ ~gate.shutdown /\ ~gate.paused

\* The most urgent of the three lanes; a tie goes to the revalidation lane.
ClaimJob(w) ==
    /\ Awake(w)
    /\ RevalPriority # NoPriority
    /\ RevalPriority >= AnalysisPriority /\ RevalPriority >= GraphPriority
    /\ \E j \in Waiting :
           /\ j.prio = RevalPriority
           /\ queue' = queue (-) SetToBag({j})
           /\ worker' = [worker EXCEPT ![w] = [Idle EXCEPT !.pc = "check", !.job = j]]
    /\ UNCHANGED <<objects, bulk, main, gate, rendering, repaint, budget, strayed, crossed>>

ClaimAnalysis(w) ==
    /\ Awake(w)
    /\ AnalysisPriority # NoPriority
    /\ AnalysisPriority > RevalPriority /\ AnalysisPriority >= GraphPriority
    /\ bulk' = [bulk EXCEPT !.analysis = @ - 1]
    /\ worker' = [worker EXCEPT ![w].pc = "analysis"]
    /\ UNCHANGED <<objects, queue, main, gate, rendering, repaint, budget, strayed, crossed>>

ClaimNode(w) ==
    /\ Awake(w)
    /\ GraphPriority # NoPriority
    /\ GraphPriority > RevalPriority /\ GraphPriority > AnalysisPriority
    /\ bulk' = [bulk EXCEPT !.graph = @ - 1]
    /\ worker' = [worker EXCEPT ![w].pc = "graph"]
    /\ UNCHANGED <<objects, queue, main, gate, rendering, repaint, budget, strayed, crossed>>

\* A job of a destroyed object has no defined outcome: it goes no further.
Alive(w) == object[worker[w].job.obj].life # "gone"

Needed(o, aspects) == current[o] # None => ~(aspects \subseteq valid[current[o]])

CheckSuperfluousLeaking(w) ==
    /\ At(w, "check") /\ Alive(w)
    /\ ~Needed(worker[w].job.obj, worker[w].job.aspects)
    /\ worker' = [worker EXCEPT ![w].pc = "finish"]
    /\ UNCHANGED <<objects, queue, bulk, main, gate, rendering, repaint, budget, strayed, crossed>>

\* Critical section 1: the job may have become superfluous.
CheckSuperfluous(w) ==
    /\ At(w, "check") /\ Alive(w)
    /\ ~Needed(worker[w].job.obj, worker[w].job.aspects)
    /\ worker' = [worker EXCEPT ![w].pc = "unpin"]
    /\ UNCHANGED <<objects, queue, bulk, main, gate, rendering, repaint, budget, strayed, crossed>>

InPool == DOMAIN valid \ Held(current, next, worker)

\* It works on nextPage_, of an earlier job or fresh from the pool.
CheckTakesPage(w) ==
    /\ At(w, "check") /\ Alive(w)
    /\ LET o == worker[w].job.obj
       IN  /\ Needed(o, worker[w].job.aspects)
           /\ \E p \in IF next[o] # None THEN {next[o]} ELSE InPool :
                  /\ next' = [next EXCEPT ![o] = p]
                  /\ worker' = [worker EXCEPT ![w].pc = "compute", ![w].page = p]
    /\ UNCHANGED <<object, current, valid, queue, bulk, main, gate, rendering, repaint,
                   budget, strayed, crossed>>

\* The pool is exhausted: the job is scheduled again, at the lowest priority.
CheckRequeues(w) ==
    /\ At(w, "check") /\ Alive(w)
    /\ LET job == worker[w].job
       IN  /\ Needed(job.obj, job.aspects)
           /\ next[job.obj] = None /\ InPool = {}
           /\ object' = Scheduled(object, job.obj)
           /\ queue' = Queued([job EXCEPT !.prio = 0])
           /\ strayed' = IF object[job.obj].life = "dying" /\ ~gate.shutdown
                         THEN strayed \cup {job.obj} ELSE strayed
    /\ worker' = [worker EXCEPT ![w].pc = "unpin"]
    /\ UNCHANGED <<current, next, valid, bulk, main, gate, rendering, repaint, budget, crossed>>

\* dispatchRecomputation, without a lock: the preview may not be available yet.
ComputeFails(w) ==
    /\ At(w, "compute") /\ Alive(w)
    /\ LET job == worker[w].job
       IN  /\ "preview" \in job.aspects
           /\ budget.calls > 0
           /\ object' = [object EXCEPT ![job.obj].failed = TRUE]
           /\ budget' = [budget EXCEPT !.calls = @ - 1]
           /\ worker' = [worker EXCEPT ![w].done = job.aspects \ {"preview"},
                             ![w].pc = IF job.aspects = {"preview"} THEN "unpin" ELSE "publish"]
    /\ UNCHANGED <<current, next, valid, queue, bulk, main, gate, rendering, repaint, strayed, crossed>>

Compute(w) ==
    /\ At(w, "compute") /\ Alive(w)
    /\ LET job == worker[w].job
           p   == worker[w].page
       IN  /\ worker' = [worker EXCEPT ![w].done = job.aspects, ![w].pc = "publish"]
           /\ IF "preview" \in job.aspects
              THEN /\ valid' = [valid EXCEPT ![p] = @ \cup {"preview"}]
                   /\ object' = [object EXCEPT ![job.obj].failed = FALSE]
              ELSE UNCHANGED <<valid, object>>
    /\ UNCHANGED <<current, next, queue, bulk, main, gate, rendering, repaint, budget, strayed, crossed>>

\* Critical section 2.  Whatever nextPage_ is by now becomes the current page: it is
\* null if another job of the object has swapped first, or if the object was
\* invalidated meanwhile.
Publish(w) ==
    /\ At(w, "publish") /\ Alive(w)
    /\ LET o == worker[w].job.obj
       IN  /\ current' = [current EXCEPT ![o] = next[o]]
           /\ next' = [next EXCEPT ![o] = None]
           /\ valid' = Released([valid EXCEPT ![worker[w].page] = @ \cup worker[w].done],
                               Held(current', next', worker))
    /\ crossed' = IF next[worker[w].job.obj] = worker[w].page THEN crossed
                  ELSE crossed \cup {worker[w].job.obj}
    /\ worker' = [worker EXCEPT ![w].pc = "unpin"]
    /\ UNCHANGED <<object, queue, bulk, main, gate, rendering, repaint, budget, strayed>>

\* revalRemoveRef: the last pin re-arms a deletion that arrived meanwhile.
UnpinnedSilently(o) == [object EXCEPT ![o].pins = @ - 1]

Unpinned(o) == [object EXCEPT ![o].pins = @ - 1,
                              ![o].posted = @ \/ (object[o].pins = 1 /\ object[o].pending)]

UnpinWithoutRepaint(w) ==
    /\ At(w, "unpin") /\ Alive(w)
    /\ object' = Unpinned(worker[w].job.obj)
    /\ worker' = [worker EXCEPT ![w].pc = "finish", ![w].page = None]
    /\ valid' = Released(valid, Held(current, next, worker'))
    /\ UNCHANGED <<current, next, queue, bulk, main, gate, rendering, repaint, budget, strayed, crossed>>

\* revalCompleted asks for a repaint, the pin goes, and with the return the page.
Unpin(w) ==
    /\ At(w, "unpin") /\ Alive(w)
    /\ object' = Unpinned(worker[w].job.obj)
    /\ repaint' = IF worker[w].done # {} THEN {o \in Object : object[o].life = "alive"}
                                         ELSE repaint
    /\ worker' = [worker EXCEPT ![w].pc = "finish", ![w].page = None]
    /\ valid' = Released(valid, Held(current, next, worker'))
    /\ UNCHANGED <<current, next, queue, bulk, main, gate, rendering, budget, strayed, crossed>>

\* Back under queueLock_: the job is no longer active, a drain may go on.
Finish(w) ==
    /\ worker[w].pc \in {"finish", "analysis", "graph"}
    /\ worker' = [worker EXCEPT ![w] = Idle]
    /\ UNCHANGED <<objects, queue, bulk, main, gate, rendering, repaint, budget, strayed, crossed>>

ExitUnlessPaused(w) ==
    /\ At(w, "wait")
    /\ gate.shutdown /\ ~gate.paused
    /\ worker' = [worker EXCEPT ![w].pc = "exited"]
    /\ UNCHANGED <<objects, queue, bulk, main, gate, rendering, repaint, budget, strayed, crossed>>

Exit(w) ==
    /\ At(w, "wait")
    /\ gate.shutdown
    /\ worker' = [worker EXCEPT ![w].pc = "exited"]
    /\ UNCHANGED <<objects, queue, bulk, main, gate, rendering, repaint, budget, strayed, crossed>>

(***************************************************************************)
(* The life of an object                                                   *)
(***************************************************************************)
\* The last link goes: deleteLater().  An undo may bring the object back.
RemoveRef(o) ==
    /\ main = Free
    /\ object[o].life = "alive" /\ object[o].refs = 1
    /\ budget.calls > 0
    /\ budget' = [budget EXCEPT !.calls = @ - 1]
    /\ object' = [object EXCEPT ![o].refs = 0, ![o].pending = TRUE, ![o].posted = TRUE]
    /\ UNCHANGED <<current, next, valid, queue, bulk, worker, main, gate, rendering, repaint,
                   strayed, crossed>>

AddRef(o) ==
    /\ main = Free
    /\ object[o].life = "alive" /\ object[o].refs = 0
    /\ budget.calls > 0
    /\ budget' = [budget EXCEPT !.calls = @ - 1]
    /\ object' = [object EXCEPT ![o].refs = 1, ![o].pending = FALSE]
    /\ UNCHANGED <<current, next, valid, queue, bulk, worker, main, gate, rendering, repaint,
                   strayed, crossed>>

SweptNothing(o) == queue

\* retireObject, part 1: the object's jobs leave the queue, their pins are moot.
SweptOf(o) == [j \in {k \in DOMAIN queue : k.obj # o} |-> queue[j]]

Destroy(o) ==
    /\ object' = [object EXCEPT ![o].life = "dying", ![o].posted = FALSE]
    /\ queue' = SweptOf(o)
    /\ main' = [call |-> "retiring", obj |-> o]

\* event(): a deletion by reference count, unless it is stale or must wait.
Swallowed(o) == object[o].refs > 0 \/ object[o].pins > 0

DeferredDelete(o) ==
    /\ main = Free
    /\ object[o].life = "alive" /\ object[o].posted
    /\ IF Swallowed(o)
       THEN object' = [object EXCEPT ![o].posted = FALSE] /\ UNCHANGED <<queue, main>>
       ELSE Destroy(o)
    /\ UNCHANGED <<current, next, valid, bulk, worker, gate, rendering, repaint, budget, strayed, crossed>>

\* An explicit delete, or Qt's teardown of a parent, asks nobody.
DirectDelete(o) ==
    /\ main = Free
    /\ object[o].life = "alive"
    /\ budget.calls > 0
    /\ budget' = [budget EXCEPT !.calls = @ - 1]
    /\ Destroy(o)
    /\ UNCHANGED <<current, next, valid, bulk, worker, gate, rendering, repaint, strayed, crossed>>

\* retireObject, part 2: no worker has a job of the object any more.
RetireReturn ==
    /\ main.call = "retiring"
    /\ \A w \in Worker : ~Doing(w, main.obj)
    /\ object' = [object EXCEPT ![main.obj].life = "gone"]
    /\ current' = [current EXCEPT ![main.obj] = None]
    /\ next' = [next EXCEPT ![main.obj] = None]
    /\ valid' = Released(valid, Held(current', next', worker))
    /\ main' = Free
    /\ UNCHANGED <<queue, bulk, worker, gate, rendering, repaint, budget, strayed, crossed>>

(***************************************************************************)
(* Pausing and shutting down                                               *)
(***************************************************************************)
Background(w) == worker[w].job # None \/ At(w, "analysis")
Active(w) == ~At(w, "wait") /\ ~At(w, "exited")

\* startRender: pauseBackground, and the session starts or fails to.
RenderBegin ==
    /\ main = Free
    /\ ~rendering
    /\ budget.calls > 0
    /\ budget' = [budget EXCEPT !.calls = @ - 1]
    /\ gate' = [gate EXCEPT !.background = TRUE]
    /\ main' = [Free EXCEPT !.call = "quiescing"]
    /\ UNCHANGED <<objects, queue, bulk, worker, rendering, repaint, strayed, crossed>>

RenderStart(started) ==
    /\ main.call = "quiescing"
    /\ \A w \in Worker : ~Background(w)
    /\ rendering' = started
    /\ gate' = [gate EXCEPT !.background = started]
    /\ main' = Free
    /\ UNCHANGED <<objects, queue, bulk, worker, repaint, budget, strayed, crossed>>

\* onComplete, on the session's thread.
RenderDone ==
    /\ rendering
    /\ rendering' = FALSE
    /\ gate' = [gate EXCEPT !.background = FALSE]
    /\ UNCHANGED <<objects, queue, bulk, worker, main, repaint, budget, strayed, crossed>>

\* A load that failed pauses the project it has half built, for good.
LoadFails ==
    /\ main = Free
    /\ ~gate.paused
    /\ budget.calls > 0
    /\ budget' = [budget EXCEPT !.calls = @ - 1]
    /\ gate' = [gate EXCEPT !.paused = TRUE]
    /\ main' = [Free EXCEPT !.call = "pausing"]
    /\ UNCHANGED <<objects, queue, bulk, worker, rendering, repaint, strayed, crossed>>

PauseReturn ==
    /\ main.call = "pausing"
    /\ \A w \in Worker : ~Active(w)
    /\ main' = Free
    /\ UNCHANGED <<objects, queue, bulk, worker, gate, rendering, repaint, budget, strayed, crossed>>

\* ~SProject: shutdown() first, then the objects.
ShutdownBegin ==
    /\ main = Free
    /\ gate' = [gate EXCEPT !.shutdown = TRUE]
    /\ queue' = EmptyBag
    /\ bulk' = [analysis |-> 0, graph |-> 0]
    /\ main' = [Free EXCEPT !.call = "joining"]
    /\ UNCHANGED <<objects, worker, rendering, repaint, budget, strayed, crossed>>

ShutdownReturn ==
    /\ main.call = "joining"
    /\ \A w \in Worker : At(w, "exited")
    /\ object' = [o \in Object |-> [object[o] EXCEPT !.life = "gone"]]
    /\ current' = [o \in Object |-> None]
    /\ next' = [o \in Object |-> None]
    /\ valid' = Released(valid, {})
    /\ main' = [Free EXCEPT !.call = "closed"]
    /\ UNCHANGED <<queue, bulk, worker, gate, rendering, repaint, budget, strayed, crossed>>

(***************************************************************************)
(* The specification                                                       *)
(***************************************************************************)
Edit(o) ==
    \/ Invalidate(o) \/ DependencyChanged(o) \/ Expose(o)
    \/ RemoveRef(o) \/ AddRef(o) \/ DirectDelete(o)

User == (\E o \in Object : Edit(o)) \/ RenderBegin \/ LoadFails \/ ShutdownBegin

EventLoop == \E o \in Object : Paint(o) \/ DeferredDelete(o)

MainReturns ==
    \/ InvalidateSchedules \/ RetireReturn
    \/ \E started \in BOOLEAN : RenderStart(started)
    \/ PauseReturn \/ ShutdownReturn

Others == SubmitAnalysis \/ SubmitNode \/ RenderDone

Process(w) ==
    \/ CheckSuperfluous(w) \/ CheckTakesPage(w) \/ CheckRequeues(w)
    \/ ComputeFails(w) \/ Compute(w) \/ Publish(w) \/ Unpin(w) \/ Finish(w)

WorkerStep(w) ==
    \/ ClaimJob(w) \/ ClaimAnalysis(w) \/ ClaimNode(w)
    \/ Process(w) \/ Exit(w)

Next == User \/ EventLoop \/ MainReturns \/ Others \/ \E w \in Worker : WorkerStep(w)

Spec == Init /\ [][Next]_vars

\* Workers run, a wait of the main thread ends once it may, its event loop turns, and a
\* render ends; the user need do nothing.
FairSpec ==
    /\ Spec
    /\ \A w \in Worker : WF_vars(WorkerStep(w))
    /\ \A o \in Object : WF_vars(Paint(o)) /\ WF_vars(DeferredDelete(o))
    /\ WF_vars(MainReturns) /\ WF_vars(RenderDone)

(***************************************************************************)
(* Properties                                                              *)
(***************************************************************************)
TypeOK ==
    /\ object \in [Object -> [life : {"alive", "dying", "gone"}, refs : {0, 1}, pins : Nat,
                              pending : BOOLEAN, posted : BOOLEAN, failed : BOOLEAN]]
    /\ current \in [Object -> Page \cup {None}]
    /\ next \in [Object -> Page \cup {None}]
    /\ valid \in [DOMAIN valid -> SUBSET Aspects]
    /\ IsABag(queue) /\ DOMAIN queue \subseteq Job
    /\ bulk \in [analysis : Nat, graph : Nat]
    /\ worker \in [Worker -> [pc : {"wait", "check", "compute", "publish", "unpin", "finish",
                                    "analysis", "graph", "exited"},
                              job : Job \cup {None}, page : Page \cup {None},
                              done : SUBSET Aspects]]
    /\ main.call \in {"free", "invalidating", "retiring", "quiescing", "pausing", "joining",
                      "closed"}
    /\ gate \in [paused : BOOLEAN, background : BOOLEAN, shutdown : BOOLEAN]
    /\ rendering \in BOOLEAN /\ repaint \subseteq Object
    /\ strayed \subseteq Object /\ crossed \subseteq Object

\* The jobs queued for an object, each copy with its number, and the workers on one.
QueuedFor(o) == UNION {{j} \X (1 .. queue[j]) : j \in {k \in DOMAIN queue : k.obj = o}}
WorkingOn(o) == {w \in Worker : Doing(w, o) /\ ~At(w, "finish")}

\* A job holds one pin from its scheduling to the end of its processing, on every way
\* through it: a pin too many and the object is never collected, one too few and it is
\* collected under a worker.  (retireObject and shutdown drop jobs without unpinning.)
PinsExact ==
    \A o \in Object : object[o].life = "alive" /\ ~gate.shutdown =>
        object[o].pins = Cardinality(QueuedFor(o)) + Cardinality(WorkingOn(o))

\* No job of a destroyed object is queued or worked on, however it was destroyed; an
\* object that an exhausted pool re-queued during its retirement is excepted.
NoDangling ==
    \A o \in Object : object[o].life = "gone" /\ o \notin strayed =>
        /\ \A j \in DOMAIN queue : j.obj # o
        /\ \A w \in Worker : ~Doing(w, o)

\* A render shares the object graph with no background job, and a failed load with no
\* job at all, from the return of the pause on.
OwnsTheGraph ==
    /\ rendering => \A w \in Worker : ~Background(w)
    /\ gate.paused /\ main.call # "pausing" => \A w \in Worker : ~Active(w)

Unsettled(o) == object[o].life # "alive" \/ object[o].failed \/ gate.paused \/ gate.shutdown

Exhausted == InPool = {}

\* When the user rests, every clip comes to show its preview and keeps showing it: a
\* job that found its page superseded, an invalidation under a render, a repaint that
\* schedules the next job, all this ends.  Excepted is a clip whose source is not
\* available, a project that is closing, an exhausted pool, which re-queues without
\* end, and a clip two jobs of which have swapped each other's pages (crossed): each may
\* publish a page without a preview, and its repaint schedules a job again.
Converges == <>[](\A o \in Object : ShowsPreview(o) \/ Unsettled(o) \/ o \in crossed \/ Exhausted)

\* An object nothing refers to is destroyed in the end, or referred to again: the
\* deletion that was swallowed while it was pinned comes back.
Collected ==
    \A o \in Object : object[o].refs = 0 ~>
        \/ object[o].refs = 1 \/ object[o].life = "gone"
        \/ gate.paused \/ gate.shutdown \/ strayed # {} \/ Exhausted

\* Every call the main thread waits in returns, shutdown also when the lanes are paused;
\* unless a worker is lost to a destroyed object.
CallsReturn == main.call # "free" ~> main.call \in {"free", "closed"} \/ strayed # {}

=============================================================================
