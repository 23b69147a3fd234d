----------------------- MODULE RevalidationLaneProofs -----------------------
(***************************************************************************)
(* The safety promises of the background lane, for every set of clips,     *)
(* pages and workers and without a bound on calls: no job outlives its     *)
(* object, a render or a failed load has the object graph to itself, and   *)
(* an object is pinned exactly once for every job of it.                   *)
(*                                                                         *)
(* LaneInv is the inductive invariant of the first two.  Its heart is      *)
(* SweptQueue: from retireObject's sweep on, and not only from the end of  *)
(* the destructor, no job of the object is queued, which is why waiting    *)
(* for the workers is enough.  PinsHeld, beside it, accounts for the pins. *)
(***************************************************************************)
EXTENDS RevalidationLane, FiniteSetTheorems, TLAPS

-----------------------------------------------------------------------------
(***************************************************************************)
(* The bag of jobs                                                         *)
(***************************************************************************)
LEMMA AddedJob ==
    ASSUME NEW B, NEW x
    PROVE  DOMAIN (B (+) SetToBag({x})) = DOMAIN B \cup {x}
BY DEF (+), SetToBag

LEMMA RemovedJob ==
    ASSUME NEW B, NEW x
    PROVE  DOMAIN (B (-) SetToBag({x})) \subseteq DOMAIN B
BY DEF (-), SetToBag

\* Scheduling a job queues that job at most, and never after a shutdown.
LEMMA QueuedJob ==
    ASSUME NEW j
    PROVE  /\ DOMAIN Queued(j) \subseteq DOMAIN queue \cup {j}
           /\ gate.shutdown => Queued(j) = queue
BY AddedJob DEF Queued

LEMMA WaitingJobs == Waiting \subseteq DOMAIN queue
BY DEF Waiting, BagToSet

-----------------------------------------------------------------------------
(***************************************************************************)
(* The inductive invariant                                                 *)
(***************************************************************************)
Clips == [life : {"alive", "dying", "gone"}, refs : {0, 1}, pins : Int,
          pending : BOOLEAN, posted : BOOLEAN, failed : BOOLEAN]

Workers == [pc : {"wait", "check", "compute", "publish", "unpin", "finish",
                  "analysis", "graph", "exited"},
            job : Job \cup {None}, page : Page \cup {None}, done : SUBSET Aspects]

\* What the steps need to know of the types.  (That a pin counter is never negative
\* follows from what it counts, PinsHeld below.)
Types ==
    /\ object \in [Object -> Clips]
    /\ next \in [Object -> Page \cup {None}]
    /\ DOMAIN valid \subseteq Page
    /\ DOMAIN queue \subseteq Job
    /\ worker \in [Worker -> Workers]
    /\ main \in [call : {"free", "invalidating", "retiring", "quiescing", "pausing",
                         "joining", "closed"}, obj : Object \cup {None}]
    /\ gate \in [paused : BOOLEAN, background : BOOLEAN, shutdown : BOOLEAN]
    /\ rendering \in BOOLEAN

\* A worker has a job exactly while it processes one.
JobsHeld ==
    \A w \in Worker :
        IF worker[w].pc \in {"wait", "exited", "analysis", "graph"}
        THEN worker[w].job = None
        ELSE worker[w].job \in Job

CallsInOrder ==
    /\ main.call = "invalidating" => main.obj \in Object /\ object[main.obj].life = "alive"
    /\ main.call = "retiring" => main.obj \in Object /\ object[main.obj].life = "dying"
    /\ main.call \in {"joining", "closed"} => gate.shutdown
    /\ gate.shutdown => DOMAIN queue = {}

\* The sweep is final: a dying object has no job in the queue.
SweptQueue ==
    \A o \in Object : object[o].life \in {"dying", "gone"} /\ o \notin strayed =>
        \A j \in DOMAIN queue : j.obj # o

NoWorkerOnDead ==
    \A o \in Object : object[o].life = "gone" /\ o \notin strayed =>
        \A w \in Worker : ~Doing(w, o)

RenderAlone == rendering => gate.background /\ \A w \in Worker : ~Background(w)

PausedAlone == gate.paused /\ main.call # "pausing" => \A w \in Worker : ~Active(w)

LaneInv == Types /\ JobsHeld /\ CallsInOrder /\ SweptQueue /\ NoWorkerOnDead
             /\ RenderAlone /\ PausedAlone

-----------------------------------------------------------------------------
LEMMA InitKeeps == Init => LaneInv
<1> SUFFICES ASSUME Init PROVE LaneInv
  OBVIOUS
<1>1. PICK project \in Projects :
           /\ object = [o \in Object |-> Clip(IF o \in project.clips THEN "alive" ELSE "gone")]
           /\ valid = [p \in project.pool |-> {}]
  BY DEF Init
<1>2. project.pool \subseteq Page
  BY ProjectsAssumption
<1>3. DOMAIN queue = {}
  BY DEF Init, EmptyBag, SetToBag
<1>4. \A w \in Worker : worker[w] = Idle
  BY DEF Init
<1>5. Types
  <2>1. object \in [Object -> Clips]
    BY <1>1 DEF Clip, Clips
  <2>2. worker \in [Worker -> Workers]
    BY <1>4 DEF Init, Idle, Workers, Job
  <2>3. DOMAIN valid \subseteq Page /\ DOMAIN queue \subseteq Job
    BY <1>1, <1>2, <1>3
  <2>4. QED
    BY <2>1, <2>2, <2>3 DEF Types, Init, Free
<1>6. JobsHeld /\ NoWorkerOnDead /\ RenderAlone /\ PausedAlone
  BY <1>4 DEF Init, JobsHeld, NoWorkerOnDead, RenderAlone, PausedAlone, Idle, Free, Doing,
              Background, Active, At
<1>7. CallsInOrder /\ SweptQueue
  BY <1>3 DEF Init, CallsInOrder, SweptQueue, Free
<1>8. QED
  BY <1>5, <1>6, <1>7 DEF LaneInv

-----------------------------------------------------------------------------
(***************************************************************************)
(* Workers.  A step of a worker on a job touches no other worker, and its  *)
(* object is alive or dying.                                               *)
(***************************************************************************)
\* What most steps of a worker have in common.
Working(w, pc) ==
    /\ w \in Worker
    /\ At(w, "check") \/ At(w, "compute") \/ At(w, "publish") \/ At(w, "unpin")
    /\ pc \in {"check", "compute", "publish", "unpin", "finish"}
    /\ worker' \in [Worker -> Workers]
    /\ worker'[w].job = worker[w].job /\ worker'[w].pc = pc
    /\ \A v \in Worker \ {w} : worker'[v] = worker[v]
    /\ UNCHANGED <<main, gate, rendering>>

LEMMA WorkingKeeps ==
    ASSUME LaneInv, NEW w, NEW pc, Working(w, pc),
           object' \in [Object -> Clips],
           \A o \in Object : object'[o].life = object[o].life,
           next' \in [Object -> Page \cup {None}],
           DOMAIN valid' \subseteq Page,
           DOMAIN queue' \subseteq Job,
           gate.shutdown => queue' = queue,
           strayed \subseteq strayed',
           \A j \in DOMAIN queue' : j \in DOMAIN queue
               \/ \A o \in Object : object[o].life = "alive" \/ o \in strayed' \/ j.obj # o
    PROVE  LaneInv'
<1>1. Types'
  BY DEF LaneInv, Types, Working
<1>2. JobsHeld'
  BY DEF LaneInv, JobsHeld, Working, At
<1>3. \A v \in Worker : worker'[v].job = worker[v].job
  BY DEF Working
<1>4. CallsInOrder'
  BY DEF LaneInv, CallsInOrder, Working, Types
<1>9. SweptQueue'
  BY DEF LaneInv, SweptQueue
<1>5. NoWorkerOnDead'
  BY <1>3 DEF LaneInv, NoWorkerOnDead, Working, Doing
<1>6. RenderAlone'
  BY <1>3 DEF LaneInv, RenderAlone, Working, Background, At
<1>7. PausedAlone'
  BY <1>3 DEF LaneInv, PausedAlone, Working, Active, At
<1>8. QED
  BY <1>1, <1>2, <1>4, <1>5, <1>6, <1>7, <1>9 DEF LaneInv


\* A clip changes without dying.
LEMMA ClipChanges ==
    ASSUME LaneInv, NEW o \in Object, NEW clip \in Clips, clip.life = object[o].life,
           object' = [object EXCEPT ![o] = clip]
    PROVE  object' \in [Object -> Clips] /\ \A c \in Object : object'[c].life = object[c].life
BY DEF LaneInv, Types

\* The job a worker processes is a job, of an object that is not destroyed.
LEMMA JobAtHand ==
    ASSUME LaneInv, NEW w \in Worker,
           At(w, "check") \/ At(w, "compute") \/ At(w, "publish") \/ At(w, "unpin")
    PROVE  worker[w].job \in Job /\ worker[w].job.obj \in Object
           /\ worker[w].job.aspects \subseteq Aspects
<1>1. worker[w].job \in Job
  BY DEF LaneInv, JobsHeld, At
<1>2. QED
  BY <1>1 DEF Job

LEMMA CheckKeeps ==
    ASSUME LaneInv, NEW w \in Worker,
           CheckSuperfluous(w) \/ CheckTakesPage(w) \/ CheckRequeues(w)
    PROVE  LaneInv'
<1>1. worker[w].job \in Job /\ worker[w].job.obj \in Object /\ At(w, "check")
  BY JobAtHand DEF CheckSuperfluous, CheckTakesPage, CheckRequeues
<1>2. CASE CheckSuperfluous(w)
  <2>1. Working(w, "unpin")
    BY <1>1, <1>2 DEF Working, CheckSuperfluous, LaneInv, Types, Workers
  <2>2. UNCHANGED <<object, next, valid, queue, strayed>>
    BY <1>2 DEF CheckSuperfluous, objects
  <2>3. object' \in [Object -> Clips] /\ next' \in [Object -> Page \cup {None}]
        /\ DOMAIN valid' \subseteq Page /\ DOMAIN queue' \subseteq Job
    BY <2>2 DEF LaneInv, Types
  <2>4. QED
    BY <2>1, <2>2, <2>3, WorkingKeeps
<1>3. CASE CheckTakesPage(w)
  <2>1. PICK p \in IF next[worker[w].job.obj] # None THEN {next[worker[w].job.obj]} ELSE InPool :
             /\ next' = [next EXCEPT ![worker[w].job.obj] = p]
             /\ worker' = [worker EXCEPT ![w].pc = "compute", ![w].page = p]
    BY <1>3 DEF CheckTakesPage
  <2>2. p \in Page \cup {None}
    BY <1>1 DEF LaneInv, Types, InPool
  <2>3. Working(w, "compute")
    <3>1. worker \in [Worker -> Workers] /\ UNCHANGED <<main, gate, rendering>>
      BY <1>3 DEF CheckTakesPage, LaneInv, Types
    <3>2. QED
      BY <1>1, <2>1, <2>2, <3>1 DEF Working, Workers
  <2>4. next' \in [Object -> Page \cup {None}]
    BY <1>1, <2>1, <2>2 DEF LaneInv, Types
  <2>5. QED
    BY <1>3, <2>3, <2>4, WorkingKeeps DEF CheckTakesPage, LaneInv, Types
<1>4. CASE CheckRequeues(w)
  <2> DEFINE job == worker[w].job
             again == [job EXCEPT !.prio = 0]
  <2>1. Working(w, "unpin")
    BY <1>1, <1>4 DEF Working, CheckRequeues, LaneInv, Types, Workers
  <2>2. again \in Job /\ again.obj = job.obj
    BY <1>1 DEF Job
  <2>3. object' \in [Object -> Clips] /\ \A o \in Object : object'[o].life = object[o].life
    BY <1>1, <1>4 DEF CheckRequeues, Scheduled, LaneInv, Types, Clips
  <2>4. DOMAIN queue' \subseteq DOMAIN queue \cup {again} /\ (gate.shutdown => queue' = queue)
    BY <1>4, QueuedJob DEF CheckRequeues
  <2>5. object[job.obj].life = "alive" \/ job.obj \in strayed' \/ gate.shutdown
    BY <1>1, <1>4 DEF CheckRequeues, Alive, LaneInv, Types, Clips
  <2>6. strayed \subseteq strayed'
    BY <1>4 DEF CheckRequeues
  <2>7. \A j \in DOMAIN queue' : j \in DOMAIN queue
            \/ \A o \in Object : object[o].life = "alive" \/ o \in strayed' \/ j.obj # o
    BY <2>2, <2>4, <2>5
  <2>8. UNCHANGED <<next, valid>> /\ DOMAIN queue' \subseteq Job
    BY <1>4, <2>2, <2>4 DEF CheckRequeues, LaneInv, Types
  <2>9. QED
    BY <2>1, <2>3, <2>4, <2>6, <2>7, <2>8, WorkingKeeps DEF LaneInv, Types
<1>5. QED
  BY <1>2, <1>3, <1>4

LEMMA ComputeKeeps ==
    ASSUME LaneInv, NEW w \in Worker, ComputeFails(w) \/ Compute(w)
    PROVE  LaneInv'
<1>1. /\ worker[w].job \in Job /\ worker[w].job.obj \in Object
      /\ worker[w].job.aspects \subseteq Aspects /\ At(w, "compute")
  BY JobAtHand DEF ComputeFails, Compute
<1>2. Working(w, "publish") \/ Working(w, "unpin")
  <2>1. PICK done \in SUBSET Aspects, pc \in {"publish", "unpin"} :
             worker' = [worker EXCEPT ![w].done = done, ![w].pc = pc]
    <3>1. CASE ComputeFails(w)
      <4>1. worker[w].job.aspects \ {"preview"} \in SUBSET Aspects
        BY <1>1
      <4>2. QED
        BY <3>1, <4>1 DEF ComputeFails
    <3>2. CASE Compute(w)
      BY <1>1, <3>2 DEF Compute
    <3>3. QED
      BY <3>1, <3>2
  <2>2. worker \in [Worker -> Workers]
    BY DEF LaneInv, Types
  <2>3. UNCHANGED <<main, gate, rendering>>
    BY DEF ComputeFails, Compute
  <2>4. [worker[w] EXCEPT !.done = done, !.pc = pc] \in Workers
    BY <2>2 DEF Workers
  <2>5. worker' \in [Worker -> Workers] /\ worker'[w].job = worker[w].job /\ worker'[w].pc = pc
    BY <2>1, <2>2, <2>4 DEF Workers
  <2>6. QED
    BY <1>1, <2>1, <2>3, <2>5 DEF Working
<1>3. object' \in [Object -> Clips] /\ \A o \in Object : object'[o].life = object[o].life
  <2> DEFINE o == worker[w].job.obj
  <2>1. object \in [Object -> Clips]
    BY DEF LaneInv, Types
  <2>2. CASE object' = object
    BY <2>1, <2>2
  <2>3. ASSUME NEW b \in BOOLEAN, object' = [object EXCEPT ![o].failed = b]
        PROVE  object' \in [Object -> Clips]
               /\ \A c \in Object : object'[c].life = object[c].life
    <3>1. [object[o] EXCEPT !.failed = b] \in Clips
          /\ [object[o] EXCEPT !.failed = b].life = object[o].life
      BY <1>1, <2>1 DEF Clips
    <3>2. QED
      BY <1>1, <2>3, <3>1, ClipChanges
  <2>4. object' = object \/ \E b \in BOOLEAN : object' = [object EXCEPT ![o].failed = b]
    BY DEF ComputeFails, Compute
  <2>5. QED
    BY <2>2, <2>3, <2>4
<1>4. UNCHANGED <<next, queue, strayed>> /\ DOMAIN valid' = DOMAIN valid
  BY DEF ComputeFails, Compute
<1>5. QED
  BY <1>2, <1>3, <1>4, WorkingKeeps DEF LaneInv, Types

LEMMA PublishKeeps ==
    ASSUME LaneInv, NEW w \in Worker, Publish(w)
    PROVE  LaneInv'
<1>1. worker[w].job.obj \in Object /\ At(w, "publish")
  BY JobAtHand DEF Publish
<1>2. Working(w, "unpin")
  BY <1>1 DEF Working, Publish, LaneInv, Types, Workers
<1>3. next' \in [Object -> Page \cup {None}] /\ DOMAIN valid' = DOMAIN valid
  BY <1>1 DEF Publish, Released, LaneInv, Types
<1>4. QED
  BY <1>2, <1>3, WorkingKeeps DEF Publish, LaneInv, Types

LEMMA UnpinKeeps ==
    ASSUME LaneInv, NEW w \in Worker, Unpin(w)
    PROVE  LaneInv'
<1>1. worker[w].job.obj \in Object /\ At(w, "unpin")
  BY JobAtHand DEF Unpin
<1>2. Working(w, "finish")
  BY <1>1 DEF Working, Unpin, LaneInv, Types, Workers
<1>3. object' \in [Object -> Clips] /\ \A o \in Object : object'[o].life = object[o].life
  <2>1. object \in [Object -> Clips]
    BY DEF LaneInv, Types
  <2>2. object' = Unpinned(worker[w].job.obj)
    BY DEF Unpin
  <2> DEFINE c    == worker[w].job.obj
             clip == [object[c] EXCEPT !.pins = @ - 1,
                                       !.posted = @ \/ (object[c].pins = 1 /\ object[c].pending)]
  <2>3. object[c] \in Clips
    BY <1>1, <2>1
  <2>4. clip \in Clips /\ clip.life = object[c].life
    <3>1. object[c].pins - 1 \in Int /\ object[c].pending \in BOOLEAN /\ object[c].posted \in BOOLEAN
      BY <2>3 DEF Clips
    <3>2. \A n \in Int, b \in BOOLEAN :
             /\ [object[c] EXCEPT !.pins = n, !.posted = b] \in Clips
             /\ [object[c] EXCEPT !.pins = n, !.posted = b].life = object[c].life
      BY <2>3 DEF Clips
    <3>3. (object[c].posted \/ (object[c].pins = 1 /\ object[c].pending)) \in BOOLEAN
      BY <3>1
    <3>4. QED
      BY <3>1, <3>2, <3>3
  <2>5. object' = [object EXCEPT ![c] = clip]
    BY <1>1, <2>1, <2>2 DEF Unpinned
  <2> HIDE DEF clip, c
  <2>6. QED
    BY <2>1, <2>4, <2>5
<1>4. DOMAIN valid' = DOMAIN valid
  BY DEF Unpin, Released
<1>5. QED
  BY <1>2, <1>3, <1>4, WorkingKeeps DEF Unpin, LaneInv, Types

\* A worker takes a job only of the queue, which holds none of a swept object, and only
\* while neither a pause nor a render is on.
LEMMA ClaimKeeps ==
    ASSUME LaneInv, NEW w \in Worker, ClaimJob(w) \/ ClaimAnalysis(w) \/ ClaimNode(w)
    PROVE  LaneInv'
<1>1. Awake(w) /\ UNCHANGED <<objects, main, gate, rendering, strayed>>
  BY DEF ClaimJob, ClaimAnalysis, ClaimNode
<1>2. DOMAIN queue' \subseteq DOMAIN queue
  BY RemovedJob DEF ClaimJob, ClaimAnalysis, ClaimNode
<1>3. /\ worker' \in [Worker -> Workers]
      /\ \A v \in Worker \ {w} : worker'[v] = worker[v]
      /\ \/ /\ worker'[w].pc = "check" /\ worker'[w].job \in DOMAIN queue
            /\ ~gate.background
         \/ worker'[w].pc = "analysis" /\ worker'[w].job = None /\ ~gate.background
         \/ worker'[w].pc = "graph" /\ worker'[w].job = None
  <2>1. CASE ClaimJob(w)
    <3>1. PICK j \in Waiting :
               worker' = [worker EXCEPT ![w] = [Idle EXCEPT !.pc = "check", !.job = j]]
      BY <2>1 DEF ClaimJob
    <3>2. j \in DOMAIN queue /\ j \in Job /\ ~gate.background
      BY <3>1, WaitingJobs DEF Waiting, LaneInv, Types
    <3>3. [Idle EXCEPT !.pc = "check", !.job = j] \in Workers
      BY <3>2 DEF Idle, Workers
    <3>4. [Idle EXCEPT !.pc = "check", !.job = j].pc = "check"
          /\ [Idle EXCEPT !.pc = "check", !.job = j].job = j
      BY DEF Idle
    <3>5. QED
      BY <3>1, <3>2, <3>3, <3>4 DEF LaneInv, Types
  <2>2. CASE ClaimAnalysis(w)
    <3>1. ~gate.background
      BY <2>2 DEF ClaimAnalysis, AnalysisPriority, Priority
    <3>2. worker[w].job = None
      BY <1>1 DEF Awake, At, LaneInv, JobsHeld
    <3>3. QED
      BY <2>2, <3>1, <3>2 DEF ClaimAnalysis, LaneInv, Types, Workers
  <2>3. CASE ClaimNode(w)
    <3>1. worker[w].job = None
      BY <1>1 DEF Awake, At, LaneInv, JobsHeld
    <3>2. QED
      BY <2>3, <3>1 DEF ClaimNode, LaneInv, Types, Workers
  <2>4. QED
    BY <2>1, <2>2, <2>3
<1>4. Types'
  BY <1>1, <1>2, <1>3 DEF LaneInv, Types, objects
<1>5. JobsHeld'
  BY <1>3 DEF LaneInv, JobsHeld, Types
<1>6. CallsInOrder' /\ SweptQueue'
  BY <1>1, <1>2 DEF LaneInv, CallsInOrder, SweptQueue, objects
<1>7. NoWorkerOnDead'
  <2>1. SUFFICES ASSUME NEW o \in Object, object[o].life = "gone", o \notin strayed,
                        NEW v \in Worker
                 PROVE  ~Doing(v, o)'
    BY <1>1 DEF NoWorkerOnDead, objects
  <2>2. ~Doing(v, o) /\ \A j \in DOMAIN queue : j.obj # o
    BY <2>1 DEF LaneInv, NoWorkerOnDead, SweptQueue
  <2>3. QED
    BY <1>3, <2>2 DEF Doing
<1>8. RenderAlone'
  BY <1>1, <1>3 DEF LaneInv, RenderAlone, Background, At
<1>9. PausedAlone'
  BY <1>1 DEF LaneInv, PausedAlone, Awake
<1>10. QED
  BY <1>4, <1>5, <1>6, <1>7, <1>8, <1>9 DEF LaneInv

LEMMA LeavingKeeps ==
    ASSUME LaneInv, NEW w \in Worker, Finish(w) \/ Exit(w)
    PROVE  LaneInv'
<1>1. UNCHANGED <<objects, queue, main, gate, rendering, strayed>>
  BY DEF Finish, Exit
<1>2. /\ worker' \in [Worker -> Workers]
      /\ \A v \in Worker \ {w} : worker'[v] = worker[v]
      /\ worker'[w].job = None /\ worker'[w].pc \in {"wait", "exited"}
  <2>1. CASE Finish(w)
    <3>1. Idle \in Workers /\ Idle.job = None /\ Idle.pc = "wait"
      BY DEF Idle, Workers
    <3>2. QED
      BY <2>1, <3>1 DEF Finish, LaneInv, Types
  <2>2. CASE Exit(w)
    <3>1. worker[w].job = None
      BY <2>2 DEF Exit, At, LaneInv, JobsHeld
    <3>2. QED
      BY <2>2, <3>1 DEF Exit, LaneInv, Types, Workers
  <2>3. QED
    BY <2>1, <2>2
<1>3. Types' /\ JobsHeld'
  BY <1>1, <1>2 DEF LaneInv, Types, JobsHeld, objects
<1>4. CallsInOrder' /\ SweptQueue'
  BY <1>1 DEF LaneInv, CallsInOrder, SweptQueue, objects
<1>5. NoWorkerOnDead'
  BY <1>1, <1>2 DEF LaneInv, NoWorkerOnDead, Doing, objects
<1>6. RenderAlone' /\ PausedAlone'
  BY <1>1, <1>2 DEF LaneInv, RenderAlone, PausedAlone, Background, Active, At
<1>7. QED
  BY <1>3, <1>4, <1>5, <1>6 DEF LaneInv

-----------------------------------------------------------------------------
(***************************************************************************)
(* The main thread.  Its steps leave the workers alone.                    *)
(***************************************************************************)
\* An edit schedules at most a job of an object that is alive.
LEMMA ScheduleKeeps ==
    ASSUME LaneInv, NEW o \in Object, object[o].life = "alive", NEW j \in Job, j.obj = o,
           object' = Scheduled(object, o), queue' = Queued(j),
           next' = next, DOMAIN valid' = DOMAIN valid,
           main' = main \/ main' = Free,
           main.call \in {"free", "invalidating"},
           UNCHANGED <<worker, gate, rendering, strayed>>
    PROVE  LaneInv'
<1>1. object' \in [Object -> Clips] /\ \A c \in Object : object'[c].life = object[c].life
  BY DEF Scheduled, LaneInv, Types, Clips
<1>2. DOMAIN queue' \subseteq DOMAIN queue \cup {j} /\ (gate.shutdown => queue' = queue)
  BY QueuedJob
<1>3. Types'
  BY <1>1, <1>2 DEF LaneInv, Types, Free
<1>4. JobsHeld' /\ NoWorkerOnDead' /\ RenderAlone' /\ PausedAlone'
  BY <1>1 DEF LaneInv, JobsHeld, NoWorkerOnDead, RenderAlone, PausedAlone, Doing, Background,
              Active, At, Free
<1>5. CallsInOrder'
  BY <1>1, <1>2 DEF LaneInv, CallsInOrder, Free
<1>6. SweptQueue'
  BY <1>1, <1>2 DEF LaneInv, SweptQueue
<1>7. QED
  BY <1>3, <1>4, <1>5, <1>6 DEF LaneInv

LEMMA AspectsAreJobs ==
    ASSUME NEW o \in Object, NEW a \in (SUBSET Aspects) \ {{}}
    PROVE  JobOf(o, a) \in Job /\ JobOf(o, a).obj = o
BY DEF JobOf, Job, PriorityOf

LEMMA EditKeeps ==
    ASSUME LaneInv, NEW o \in Object,
           Invalidate(o) \/ DependencyChanged(o) \/ Expose(o) \/ Paint(o) \/ InvalidateSchedules
    PROVE  LaneInv'
<1>1. CASE Invalidate(o)
  <2>1. UNCHANGED <<object, queue, worker, gate, rendering, strayed>>
        /\ main' = [call |-> "invalidating", obj |-> o] /\ main = Free
        /\ object[o].life = "alive"
    BY <1>1 DEF Invalidate
  <2>2. next' \in [Object -> Page \cup {None}] /\ DOMAIN valid' = DOMAIN valid
    BY <1>1 DEF Invalidate, Released, LaneInv, Types
  <2>3. Types' /\ JobsHeld' /\ CallsInOrder' /\ SweptQueue'
    BY <2>1, <2>2 DEF LaneInv, Types, JobsHeld, CallsInOrder, SweptQueue
  <2>4. NoWorkerOnDead' /\ RenderAlone' /\ PausedAlone'
    BY <2>1 DEF LaneInv, NoWorkerOnDead, RenderAlone, PausedAlone, Doing, Background, Active,
                At, Free
  <2>5. QED
    BY <2>3, <2>4 DEF LaneInv
<1>2. CASE DependencyChanged(o)
  <2>1. JobOf(o, {"playback"}) \in Job /\ JobOf(o, {"playback"}).obj = o
    <3>1. {"playback"} \in (SUBSET Aspects) \ {{}}
      BY DEF Aspects
    <3>2. QED
      BY <3>1, AspectsAreJobs
  <2>2. DOMAIN valid' = DOMAIN valid
    BY <1>2 DEF DependencyChanged, InvalidateAspects, Released
  <2>3. QED
    BY <1>2, <2>1, <2>2, ScheduleKeeps DEF DependencyChanged, InvalidateAspects, Free
<1>3. CASE InvalidateSchedules
  <2>1. main.obj \in Object /\ object[main.obj].life = "alive"
    BY <1>3 DEF InvalidateSchedules, LaneInv, CallsInOrder
  <2>2. JobOf(main.obj, Aspects) \in Job /\ JobOf(main.obj, Aspects).obj = main.obj
    <3>1. Aspects \in (SUBSET Aspects) \ {{}}
      BY DEF Aspects
    <3>2. QED
      BY <2>1, <3>1, AspectsAreJobs
  <2>3. DOMAIN valid' = DOMAIN valid
    BY <1>3 DEF InvalidateSchedules, InvalidateAspects, Released
  <2>4. QED
    BY <1>3, <2>1, <2>2, <2>3, ScheduleKeeps DEF InvalidateSchedules, InvalidateAspects
<1>4. ASSUME UNCHANGED <<objects, queue, worker, main, gate, rendering, strayed>>
      PROVE  LaneInv'
  BY <1>4 DEF LaneInv, Types, JobsHeld, CallsInOrder, SweptQueue, NoWorkerOnDead, RenderAlone,
              PausedAlone, Doing, Background, Active, At, objects
<1>5. CASE Expose(o)
  BY <1>4, <1>5 DEF Expose
<1>6. CASE Paint(o)
  <2>1. CASE ShowsPreview(o)
    BY <1>4, <1>6, <2>1 DEF Paint, objects
  <2>2. CASE ~ShowsPreview(o)
    <3>1. JobOf(o, {"preview"}) \in Job /\ JobOf(o, {"preview"}).obj = o
      <4>1. {"preview"} \in (SUBSET Aspects) \ {{}}
        BY DEF Aspects
      <4>2. QED
        BY <4>1, AspectsAreJobs
    <3>2. QED
      BY <1>6, <2>2, <3>1, ScheduleKeeps DEF Paint, Free
  <2>3. QED
    BY <2>1, <2>2
<1>7. QED
  BY <1>1, <1>2, <1>3, <1>5, <1>6

\* The sweep: what was queued of the object leaves, what was queued of others stays.
LEMMA DestroyKeeps ==
    ASSUME LaneInv, NEW o \in Object, object[o].life = "alive", main = Free, Destroy(o),
           UNCHANGED <<next, valid, worker, gate, rendering, strayed>>
    PROVE  LaneInv'
<1>1. DOMAIN queue' = {k \in DOMAIN queue : k.obj # o}
  BY DEF Destroy, SweptOf
<1>2. /\ object' \in [Object -> Clips]
      /\ object'[o].life = "dying"
      /\ \A c \in Object \ {o} : object'[c].life = object[c].life
  <2>1. object \in [Object -> Clips]
    BY DEF LaneInv, Types
  <2>2. object' = [object EXCEPT ![o].life = "dying", ![o].posted = FALSE]
    BY DEF Destroy
  <2>3. [object[o] EXCEPT !.life = "dying", !.posted = FALSE] \in Clips
    BY <2>1 DEF Clips
  <2>4. object' = [object EXCEPT ![o] = [object[o] EXCEPT !.life = "dying", !.posted = FALSE]]
    BY <2>1, <2>2
  <2>5. [object[o] EXCEPT !.life = "dying", !.posted = FALSE].life = "dying"
    BY <2>1 DEF Clips
  <2> HIDE DEF Clips
  <2>6. QED
    BY <2>1, <2>3, <2>4, <2>5
<1>3. main' = [call |-> "retiring", obj |-> o]
  BY DEF Destroy
<1>4. Types' /\ JobsHeld' /\ CallsInOrder'
  BY <1>1, <1>2, <1>3 DEF LaneInv, Types, JobsHeld, CallsInOrder
<1>5. SweptQueue'
  BY <1>1, <1>2 DEF LaneInv, SweptQueue
<1>6. NoWorkerOnDead' /\ RenderAlone' /\ PausedAlone'
  BY <1>2, <1>3 DEF LaneInv, NoWorkerOnDead, RenderAlone, PausedAlone, Doing, Background, Active,
                    At, Free
<1>7. QED
  BY <1>4, <1>5, <1>6 DEF LaneInv

\* A step that leaves the life of every clip as it is.
LEMMA RefsKeep ==
    ASSUME LaneInv, object' \in [Object -> Clips],
           \A c \in Object : object'[c].life = object[c].life,
           UNCHANGED <<next, valid, queue, worker, main, gate, rendering, strayed>>
    PROVE  LaneInv'
BY DEF LaneInv, Types, JobsHeld, CallsInOrder, SweptQueue, NoWorkerOnDead, RenderAlone,
       PausedAlone, Doing, Background, Active, At

LEMMA LifeKeeps ==
    ASSUME LaneInv, NEW o \in Object,
           RemoveRef(o) \/ AddRef(o) \/ DirectDelete(o) \/ DeferredDelete(o)
    PROVE  LaneInv'
<1>1. CASE RemoveRef(o)
  <2> DEFINE clip == [object[o] EXCEPT !.refs = 0, !.pending = TRUE, !.posted = TRUE]
  <2>1. object \in [Object -> Clips]
    BY DEF LaneInv, Types
  <2>2. clip \in Clips /\ clip.life = object[o].life
    BY <2>1 DEF Clips
  <2>3. object' = [object EXCEPT ![o] = clip]
    BY <1>1, <2>1 DEF RemoveRef
  <2>4. object' \in [Object -> Clips] /\ \A c \in Object : object'[c].life = object[c].life
    BY <2>2, <2>3, ClipChanges
  <2>5. QED
    BY <1>1, <2>4, RefsKeep DEF RemoveRef
<1>2. CASE AddRef(o)
  <2> DEFINE clip == [object[o] EXCEPT !.refs = 1, !.pending = FALSE]
  <2>1. object \in [Object -> Clips]
    BY DEF LaneInv, Types
  <2>2. clip \in Clips /\ clip.life = object[o].life
    BY <2>1 DEF Clips
  <2>3. object' = [object EXCEPT ![o] = clip]
    BY <1>2, <2>1 DEF AddRef
  <2>4. object' \in [Object -> Clips] /\ \A c \in Object : object'[c].life = object[c].life
    BY <2>2, <2>3, ClipChanges
  <2>5. QED
    BY <1>2, <2>4, RefsKeep DEF AddRef
<1>3. CASE DirectDelete(o)
  BY <1>3, DestroyKeeps DEF DirectDelete
<1>4. CASE DeferredDelete(o)
  <2>1. CASE Swallowed(o)
    <3> DEFINE clip == [object[o] EXCEPT !.posted = FALSE]
    <3>1. object \in [Object -> Clips]
      BY DEF LaneInv, Types
    <3>2. clip \in Clips /\ clip.life = object[o].life
      BY <3>1 DEF Clips
    <3>3. object' = [object EXCEPT ![o] = clip]
      BY <1>4, <2>1, <3>1 DEF DeferredDelete
    <3>4. object' \in [Object -> Clips] /\ \A c \in Object : object'[c].life = object[c].life
      BY <3>2, <3>3, ClipChanges
    <3>5. QED
      BY <1>4, <2>1, <3>4, RefsKeep DEF DeferredDelete
  <2>2. CASE ~Swallowed(o)
    BY <1>4, <2>2, DestroyKeeps DEF DeferredDelete
  <2>3. QED
    BY <2>1, <2>2
<1>5. QED
  BY <1>1, <1>2, <1>3, <1>4

\* The destructor goes on when no worker has a job of the object; since the sweep none
\* can have been queued.
LEMMA RetireKeeps ==
    ASSUME LaneInv, RetireReturn
    PROVE  LaneInv'
<1>1. main.obj \in Object /\ object[main.obj].life = "dying"
  BY DEF RetireReturn, LaneInv, CallsInOrder
<1>2. /\ object' \in [Object -> Clips]
      /\ object'[main.obj].life = "gone"
      /\ \A c \in Object \ {main.obj} : object'[c].life = object[c].life
  BY <1>1 DEF RetireReturn, LaneInv, Types, Clips
<1>3. next' \in [Object -> Page \cup {None}] /\ DOMAIN valid' = DOMAIN valid
  BY <1>1 DEF RetireReturn, Released, LaneInv, Types
<1>4. UNCHANGED <<queue, worker, gate, rendering, strayed>> /\ main' = Free
  BY DEF RetireReturn
<1>5. Types' /\ JobsHeld' /\ CallsInOrder'
  BY <1>2, <1>3, <1>4 DEF LaneInv, Types, JobsHeld, CallsInOrder, Free
<1>6. SweptQueue'
  BY <1>1, <1>2, <1>4 DEF LaneInv, SweptQueue
<1>7. NoWorkerOnDead'
  BY <1>2, <1>4 DEF LaneInv, NoWorkerOnDead, RetireReturn, Doing
<1>8. RenderAlone' /\ PausedAlone'
  BY <1>4 DEF LaneInv, RenderAlone, PausedAlone, RetireReturn, Background, Active, At, Free
<1>9. QED
  BY <1>5, <1>6, <1>7, <1>8 DEF LaneInv

-----------------------------------------------------------------------------
(***************************************************************************)
(* Rendering, pausing and shutting down                                    *)
(***************************************************************************)
LEMMA GateKeeps ==
    ASSUME LaneInv,
           RenderBegin \/ (\E started \in BOOLEAN : RenderStart(started)) \/ RenderDone
               \/ LoadFails \/ PauseReturn
    PROVE  LaneInv'
<1>1. UNCHANGED <<objects, queue, worker, strayed>> /\ gate'.shutdown = gate.shutdown
      /\ gate' \in [paused : BOOLEAN, background : BOOLEAN, shutdown : BOOLEAN]
  BY DEF RenderBegin, RenderStart, RenderDone, LoadFails, PauseReturn, LaneInv, Types
<1>2. rendering' \in BOOLEAN
      /\ main' \in [call : {"free", "invalidating", "retiring", "quiescing", "pausing",
                            "joining", "closed"}, obj : Object \cup {None}]
      /\ (main' = main \/ main'.call \in {"free", "quiescing", "pausing"})
  <2>1. main' = main \/ main' = Free \/ \E call \in {"quiescing", "pausing"} :
            main' = [Free EXCEPT !.call = call]
    BY DEF RenderBegin, RenderStart, RenderDone, LoadFails, PauseReturn
  <2>2. rendering' \in BOOLEAN
    BY DEF RenderBegin, RenderStart, RenderDone, LoadFails, PauseReturn, LaneInv, Types
  <2>3. QED
    BY <2>1, <2>2 DEF LaneInv, Types, Free
<1>3. Types'
  BY <1>1, <1>2 DEF LaneInv, Types, objects
<1>4. JobsHeld' /\ SweptQueue' /\ NoWorkerOnDead'
  BY <1>1 DEF LaneInv, JobsHeld, SweptQueue, NoWorkerOnDead, Doing, objects
<1>5. CallsInOrder'
  BY <1>1, <1>2 DEF LaneInv, CallsInOrder, objects
<1>6. RenderAlone'
  <2>1. CASE RenderBegin
    BY <1>1, <2>1 DEF RenderBegin, LaneInv, RenderAlone, Types
  <2>2. CASE \E started \in BOOLEAN : RenderStart(started)
    BY <1>1, <2>2 DEF RenderStart, LaneInv, RenderAlone, Types, Background, At
  <2>3. CASE RenderDone
    BY <2>3 DEF RenderDone, RenderAlone
  <2>4. CASE LoadFails \/ PauseReturn
    BY <1>1, <2>4 DEF LoadFails, PauseReturn, LaneInv, RenderAlone, Types, Background, At
  <2>5. QED
    BY <2>1, <2>2, <2>3, <2>4
<1>7. PausedAlone'
  <2>1. CASE RenderBegin \/ (\E started \in BOOLEAN : RenderStart(started)) \/ RenderDone
    BY <1>1, <2>1 DEF RenderBegin, RenderStart, RenderDone, LaneInv, PausedAlone, Types, Free,
                      Active, At
  <2>2. CASE LoadFails
    BY <2>2 DEF LoadFails, PausedAlone, Free
  <2>3. CASE PauseReturn
    BY <1>1, <2>3 DEF PauseReturn, PausedAlone, Active, At
  <2>4. QED
    BY <2>1, <2>2, <2>3
<1>8. QED
  BY <1>3, <1>4, <1>5, <1>6, <1>7 DEF LaneInv

\* After shutdown() has joined the workers and dropped the jobs, nothing is left that
\* could touch the objects the project then destroys.
LEMMA ShutdownKeeps ==
    ASSUME LaneInv, ShutdownBegin \/ ShutdownReturn
    PROVE  LaneInv'
<1>1. CASE ShutdownBegin
  <2>1. DOMAIN queue' = {}
    BY <1>1 DEF ShutdownBegin, EmptyBag, SetToBag
  <2>2. UNCHANGED <<objects, worker, rendering, strayed>> /\ main = Free
        /\ main' = [Free EXCEPT !.call = "joining"]
        /\ gate' = [gate EXCEPT !.shutdown = TRUE]
    BY <1>1 DEF ShutdownBegin
  <2>3. Types' /\ JobsHeld' /\ CallsInOrder'
    BY <2>1, <2>2 DEF LaneInv, Types, JobsHeld, CallsInOrder, Free, objects
  <2>4. SweptQueue' /\ NoWorkerOnDead'
    BY <2>1, <2>2 DEF LaneInv, SweptQueue, NoWorkerOnDead, Doing, objects
  <2>5. RenderAlone' /\ PausedAlone'
    BY <2>2 DEF LaneInv, Types, RenderAlone, PausedAlone, Background, Active, At, Free
  <2>6. QED
    BY <2>3, <2>4, <2>5 DEF LaneInv
<1>2. CASE ShutdownReturn
  <2>1. DOMAIN queue = {} /\ gate.shutdown
    BY <1>2 DEF ShutdownReturn, LaneInv, CallsInOrder
  <2>2. UNCHANGED <<queue, worker, gate, rendering, strayed>>
        /\ main' = [Free EXCEPT !.call = "closed"]
    BY <1>2 DEF ShutdownReturn
  <2>3. object' \in [Object -> Clips] /\ next' \in [Object -> Page \cup {None}]
        /\ DOMAIN valid' = DOMAIN valid
    <3>1. object \in [Object -> Clips]
      BY DEF LaneInv, Types
    <3>2. object' = [o \in Object |-> [object[o] EXCEPT !.life = "gone"]]
      BY <1>2 DEF ShutdownReturn
    <3>3. object' \in [Object -> Clips]
      BY <3>1, <3>2 DEF Clips
    <3>4. QED
      BY <1>2, <3>3 DEF ShutdownReturn, Released
  <2>4. \A w \in Worker : worker[w].job = None /\ worker[w].pc = "exited"
    BY <1>2 DEF ShutdownReturn, At, LaneInv, JobsHeld
  <2>5. Types' /\ JobsHeld' /\ CallsInOrder' /\ SweptQueue'
    BY <2>1, <2>2, <2>3 DEF LaneInv, Types, JobsHeld, CallsInOrder, SweptQueue, Free
  <2>6. NoWorkerOnDead' /\ RenderAlone' /\ PausedAlone'
    BY <2>2, <2>4 DEF LaneInv, NoWorkerOnDead, RenderAlone, PausedAlone, Doing, Background,
                      Active, At
  <2>7. QED
    BY <2>5, <2>6 DEF LaneInv
<1>3. QED
  BY <1>1, <1>2

LEMMA IdleKeeps ==
    ASSUME LaneInv, UNCHANGED <<objects, queue, worker, main, gate, rendering, strayed>>
    PROVE  LaneInv'
BY DEF LaneInv, Types, JobsHeld, CallsInOrder, SweptQueue, NoWorkerOnDead, RenderAlone,
       PausedAlone, Doing, Background, Active, At, objects

-----------------------------------------------------------------------------
LEMMA NextKeeps == LaneInv /\ [Next]_vars => LaneInv'
<1> SUFFICES ASSUME LaneInv, [Next]_vars PROVE LaneInv'
  OBVIOUS
<1>1. CASE User
  BY <1>1, EditKeeps, LifeKeeps, GateKeeps, ShutdownKeeps DEF User, Edit
<1>2. CASE EventLoop
  BY <1>2, EditKeeps, LifeKeeps DEF EventLoop
<1>3. CASE MainReturns
  <2>1. CASE InvalidateSchedules
    <3>1. main.obj \in Object
      BY <2>1 DEF InvalidateSchedules, LaneInv, CallsInOrder
    <3>2. QED
      BY <2>1, <3>1, EditKeeps
  <2>2. QED
    BY <1>3, <2>1, RetireKeeps, GateKeeps, ShutdownKeeps DEF MainReturns
<1>4. CASE Others
  <2>1. CASE SubmitAnalysis \/ SubmitNode
    BY <2>1, IdleKeeps DEF SubmitAnalysis, SubmitNode
  <2>2. QED
    BY <1>4, <2>1, GateKeeps DEF Others
<1>5. ASSUME NEW w \in Worker, WorkerStep(w) PROVE LaneInv'
  BY <1>5, ClaimKeeps, CheckKeeps, ComputeKeeps, PublishKeeps, UnpinKeeps, LeavingKeeps
     DEF WorkerStep, Process
<1>6. CASE UNCHANGED vars
  BY <1>6, IdleKeeps DEF vars
<1>7. QED
  BY <1>1, <1>2, <1>3, <1>4, <1>5, <1>6 DEF Next

THEOREM LaneInductive == Spec => []LaneInv
<1>1. QED
  BY InitKeeps, NextKeeps, PTL DEF Spec

-----------------------------------------------------------------------------
(***************************************************************************)
(* Pins.  An object has at least a pin for each of its queued jobs and for *)
(* each worker on one, and while it is alive and the lane is not shut down *)
(* no other: what retireObject and shutdown drop leaves its pin behind.    *)
(***************************************************************************)
PinsCover(o) ==
    /\ IsFiniteSet(QueuedFor(o)) /\ IsFiniteSet(WorkingOn(o))
    /\ object[o].pins >= Cardinality(QueuedFor(o)) + Cardinality(WorkingOn(o))
    /\ object[o].life = "alive" /\ ~gate.shutdown =>
           object[o].pins = Cardinality(QueuedFor(o)) + Cardinality(WorkingOn(o))

PinsHeld == IsABag(queue) /\ \A o \in Object : PinsCover(o)

\* No step brings an object or the lane back.
StaysDown(o) ==
    object'[o].life = "alive" /\ ~gate'.shutdown => object[o].life = "alive" /\ ~gate.shutdown

LEMMA QueuedCopy ==
    ASSUME NEW o, NEW x
    PROVE  x \in QueuedFor(o) <=>
               \E j \in DOMAIN queue : j.obj = o /\ \E n \in 1 .. queue[j] : x = <<j, n>>
BY DEF QueuedFor

LEMMA PinsKept ==
    ASSUME NEW o \in Object, PinsCover(o), StaysDown(o), object'[o].pins = object[o].pins,
           QueuedFor(o)' = QueuedFor(o), WorkingOn(o)' = WorkingOn(o)
    PROVE  PinsCover(o)'
BY DEF PinsCover, StaysDown

LEMMA PinTaken ==
    ASSUME NEW o \in Object, PinsCover(o), StaysDown(o), object[o].pins \in Int,
           object'[o].pins = object[o].pins + 1,
           NEW x, x \notin QueuedFor(o), QueuedFor(o)' = QueuedFor(o) \cup {x},
           WorkingOn(o)' = WorkingOn(o)
    PROVE  PinsCover(o)'
<1>1. IsFiniteSet(QueuedFor(o)) /\ IsFiniteSet(WorkingOn(o))
  BY DEF PinsCover
<1>2. IsFiniteSet(QueuedFor(o)') /\ Cardinality(QueuedFor(o)') = Cardinality(QueuedFor(o)) + 1
  BY <1>1, FS_AddElement
<1>3. Cardinality(QueuedFor(o)) \in Nat /\ Cardinality(WorkingOn(o)) \in Nat
  BY <1>1, FS_CardinalityType
<1>4. QED
  BY <1>2, <1>3 DEF PinsCover, StaysDown

LEMMA PinPassed ==
    ASSUME NEW o \in Object, PinsCover(o), StaysDown(o), object[o].pins \in Int,
           object'[o].pins = object[o].pins,
           NEW x, x \in QueuedFor(o), QueuedFor(o)' = QueuedFor(o) \ {x},
           NEW w, w \notin WorkingOn(o), WorkingOn(o)' = WorkingOn(o) \cup {w}
    PROVE  PinsCover(o)'
<1>1. IsFiniteSet(QueuedFor(o)) /\ IsFiniteSet(WorkingOn(o))
  BY DEF PinsCover
<1>2. IsFiniteSet(QueuedFor(o)') /\ Cardinality(QueuedFor(o)') = Cardinality(QueuedFor(o)) - 1
  BY <1>1, FS_RemoveElement
<1>3. IsFiniteSet(WorkingOn(o)') /\ Cardinality(WorkingOn(o)') = Cardinality(WorkingOn(o)) + 1
  BY <1>1, FS_AddElement
<1>4. Cardinality(QueuedFor(o)) \in Nat /\ Cardinality(WorkingOn(o)) \in Nat
  BY <1>1, FS_CardinalityType
<1>5. QED
  BY <1>2, <1>3, <1>4 DEF PinsCover, StaysDown

LEMMA PinReturned ==
    ASSUME NEW o \in Object, PinsCover(o), StaysDown(o), object[o].pins \in Int,
           object'[o].pins = object[o].pins - 1,
           QueuedFor(o)' = QueuedFor(o),
           NEW w, w \in WorkingOn(o), WorkingOn(o)' = WorkingOn(o) \ {w}
    PROVE  PinsCover(o)'
<1>1. IsFiniteSet(QueuedFor(o)) /\ IsFiniteSet(WorkingOn(o))
  BY DEF PinsCover
<1>2. IsFiniteSet(WorkingOn(o)') /\ Cardinality(WorkingOn(o)') = Cardinality(WorkingOn(o)) - 1
  BY <1>1, FS_RemoveElement
<1>3. Cardinality(QueuedFor(o)) \in Nat /\ Cardinality(WorkingOn(o)) \in Nat
  BY <1>1, FS_CardinalityType
<1>4. QED
  BY <1>2, <1>3 DEF PinsCover, StaysDown

LEMMA PinsForgotten ==
    ASSUME NEW o \in Object, PinsCover(o), object[o].pins \in Int,
           object'[o].life # "alive" \/ gate'.shutdown, object'[o].pins = object[o].pins,
           QueuedFor(o)' = {}, WorkingOn(o)' = WorkingOn(o)
    PROVE  PinsCover(o)'
<1>1. IsFiniteSet(QueuedFor(o)) /\ IsFiniteSet(WorkingOn(o))
  BY DEF PinsCover
<1>2. IsFiniteSet({}) /\ Cardinality({}) = 0
  BY FS_EmptySet
<1>3. Cardinality(QueuedFor(o)) \in Nat /\ Cardinality(WorkingOn(o)) \in Nat
  BY <1>1, FS_CardinalityType
<1>4. QED
  BY <1>2, <1>3 DEF PinsCover

-----------------------------------------------------------------------------
\* One copy more in the queue, or one less.
LEMMA CopyAdded ==
    ASSUME IsABag(queue), NEW j, queue' = queue (+) SetToBag({j}), NEW o
    PROVE  /\ IsABag(queue')
           /\ j.obj # o => QueuedFor(o)' = QueuedFor(o)
           /\ j.obj = o => \E x : x \notin QueuedFor(o) /\ QueuedFor(o)' = QueuedFor(o) \cup {x}
<1> DEFINE n == IF j \in DOMAIN queue THEN queue[j] + 1 ELSE 1
<1>1. n \in Nat /\ n > 0 /\ \A k \in DOMAIN queue : queue[k] \in Nat /\ queue[k] > 0
  BY DEF IsABag
<1>2. /\ DOMAIN queue' = DOMAIN queue \cup {j}
      /\ queue'[j] = n
      /\ \A k \in DOMAIN queue \ {j} : queue'[k] = queue[k]
  BY <1>1 DEF (+), SetToBag
<1>3. IsABag(queue')
  <2>1. queue' = [k \in DOMAIN queue' |-> queue'[k]]
    BY DEF (+), SetToBag
  <2>2. \A k \in DOMAIN queue' : queue'[k] \in {m \in Nat : m > 0}
    BY <1>2, <1>1
  <2>3. QED
    BY <2>1, <2>2 DEF IsABag
<1>4. ASSUME j.obj # o PROVE QueuedFor(o)' = QueuedFor(o)
  <2>1. ASSUME NEW x PROVE x \in QueuedFor(o)' <=> x \in QueuedFor(o)
    BY <1>2, <1>4 DEF QueuedFor
  <2>2. QED
    BY <2>1
<1>5. ASSUME j.obj = o
      PROVE  \E x : x \notin QueuedFor(o) /\ QueuedFor(o)' = QueuedFor(o) \cup {x}
  <2>1. <<j, n>> \notin QueuedFor(o)
    <3>1. \A k \in DOMAIN queue : \A m \in 1 .. queue[k] : <<j, n>> # <<k, m>>
      BY <1>1
    <3>2. QED
      BY <3>1, QueuedCopy
  <2>2. 1 .. n = (IF j \in DOMAIN queue THEN 1 .. queue[j] ELSE {}) \cup {n}
    BY <1>1
  <2> HIDE DEF n
  <2>3. ASSUME NEW x PROVE x \in QueuedFor(o)' <=> x \in QueuedFor(o) \cup {<<j, n>>}
    <3>1. x \in QueuedFor(o)' <=> \E k \in DOMAIN queue' : k.obj = o /\ \E m \in 1 .. queue'[k] : x = <<k, m>>
      BY DEF QueuedFor
    <3>2. x \in QueuedFor(o) <=> \E k \in DOMAIN queue : k.obj = o /\ \E m \in 1 .. queue[k] : x = <<k, m>>
      BY DEF QueuedFor
    <3>3. CASE j \in DOMAIN queue
      BY <1>2, <1>5, <2>2, <3>1, <3>2, <3>3
    <3>4. CASE j \notin DOMAIN queue
      BY <1>2, <1>5, <2>2, <3>1, <3>2, <3>4
    <3>5. QED
      BY <3>3, <3>4
  <2>4. QueuedFor(o)' = QueuedFor(o) \cup {<<j, n>>}
    BY <2>3
  <2>5. QED
    BY <2>1, <2>4
<1>6. QED
  BY <1>3, <1>4, <1>5

LEMMA CopyRemoved ==
    ASSUME IsABag(queue), NEW j \in DOMAIN queue, queue' = queue (-) SetToBag({j}), NEW o
    PROVE  /\ IsABag(queue')
           /\ j.obj # o => QueuedFor(o)' = QueuedFor(o)
           /\ j.obj = o => \E x : x \in QueuedFor(o) /\ QueuedFor(o)' = QueuedFor(o) \ {x}
<1> DEFINE n == queue[j]
<1>1. n \in Nat /\ n > 0 /\ \A k \in DOMAIN queue : queue[k] \in Nat /\ queue[k] > 0
  BY DEF IsABag
<1>2. /\ DOMAIN queue' = IF n = 1 THEN DOMAIN queue \ {j} ELSE DOMAIN queue
      /\ n # 1 => queue'[j] = n - 1
      /\ \A k \in DOMAIN queue \ {j} : queue'[k] = queue[k]
  <2> DEFINE B == [e \in DOMAIN queue |-> IF e \in DOMAIN SetToBag({j})
                                         THEN queue[e] - SetToBag({j})[e] ELSE queue[e]]
  <2>1. /\ DOMAIN B = DOMAIN queue /\ B[j] = n - 1
        /\ \A k \in DOMAIN queue \ {j} : B[k] = queue[k]
    BY DEF SetToBag
  <2>2. queue' = [e \in {d \in DOMAIN B : B[d] > 0} |-> B[e]]
    BY DEF (-)
  <2> HIDE DEF B
  <2>3. \A k \in DOMAIN queue : B[k] > 0 <=> ~(k = j /\ n = 1)
    BY <1>1, <2>1
  <2>4. QED
    BY <2>1, <2>2, <2>3
<1>3. IsABag(queue')
  <2>1. queue' = [k \in DOMAIN queue' |-> queue'[k]]
    BY DEF (-), SetToBag
  <2>2. \A k \in DOMAIN queue' : queue'[k] \in {m \in Nat : m > 0}
    BY <1>1, <1>2
  <2>3. QED
    BY <2>1, <2>2 DEF IsABag
<1>4. ASSUME j.obj # o PROVE QueuedFor(o)' = QueuedFor(o)
  <2>1. ASSUME NEW x PROVE x \in QueuedFor(o)' <=> x \in QueuedFor(o)
    BY <1>2, <1>4 DEF QueuedFor
  <2>2. QED
    BY <2>1
<1>5. ASSUME j.obj = o
      PROVE  \E x : x \in QueuedFor(o) /\ QueuedFor(o)' = QueuedFor(o) \ {x}
  <2>1. <<j, n>> \in QueuedFor(o)
    <3>1. n \in 1 .. queue[j]
      BY <1>1
    <3>2. QED
      BY <1>5, <3>1, QueuedCopy
  <2>2. 1 .. n = (IF n # 1 THEN 1 .. n - 1 ELSE {}) \cup {n} /\ n \notin 1 .. n - 1
    BY <1>1
  <2>3. queue[j] = n
    OBVIOUS
  <2> HIDE DEF n
  <2>4. ASSUME NEW x PROVE x \in QueuedFor(o)' <=> x \in QueuedFor(o) \ {<<j, n>>}
    <3>1. x \in QueuedFor(o)' <=> \E k \in DOMAIN queue' : k.obj = o /\ \E m \in 1 .. queue'[k] : x = <<k, m>>
      BY DEF QueuedFor
    <3>2. x \in QueuedFor(o) <=> \E k \in DOMAIN queue : k.obj = o /\ \E m \in 1 .. queue[k] : x = <<k, m>>
      BY DEF QueuedFor
    <3>3. CASE n # 1
      <4>1. \A m : m \in 1 .. n <=> m \in 1 .. n - 1 \/ m = n
        BY <2>2, <3>3
      <4>2. x \in QueuedFor(o)' <=>
                \/ \E k \in DOMAIN queue \ {j} : k.obj = o /\ \E m \in 1 .. queue[k] : x = <<k, m>>
                \/ \E m \in 1 .. n - 1 : x = <<j, m>>
        BY <1>2, <1>5, <3>1, <3>3
      <4>3. x \in QueuedFor(o) <=>
                \/ \E k \in DOMAIN queue \ {j} : k.obj = o /\ \E m \in 1 .. queue[k] : x = <<k, m>>
                \/ \E m \in 1 .. n : x = <<j, m>>
        BY <1>5, <2>3, <3>2
      <4>4. \A k, m : x = <<k, m>> => (x = <<j, n>> <=> k = j /\ m = n)
        OBVIOUS
      <4>5. n \notin 1 .. n - 1
        BY <2>2
      <4>6. QED
        BY <4>1, <4>2, <4>3, <4>4, <4>5
    <3>4. CASE n = 1
      BY <1>2, <1>5, <2>2, <2>3, <3>1, <3>2, <3>4
    <3>5. QED
      BY <3>3, <3>4
  <2>5. QueuedFor(o)' = QueuedFor(o) \ {<<j, n>>}
    BY <2>4
  <2>6. QED
    BY <2>1, <2>5
<1>6. QED
  BY <1>3, <1>4, <1>5

-----------------------------------------------------------------------------
\* A step that schedules, takes and finishes nothing.
LEMMA PinsUntouched ==
    ASSUME PinsHeld, queue' = queue,
           \A o \in Object : /\ object'[o].pins = object[o].pins /\ StaysDown(o)
                             /\ WorkingOn(o)' = WorkingOn(o)
    PROVE  PinsHeld'
<1>1. \A o \in Object : QueuedFor(o)' = QueuedFor(o)
  BY DEF QueuedFor
<1>2. \A o \in Object : PinsCover(o)'
  BY <1>1, PinsKept DEF PinsHeld
<1>3. QED
  BY <1>2 DEF PinsHeld

\* Scheduling takes one pin for the one job, or none if the job is refused.
LEMMA PinsScheduled ==
    ASSUME LaneInv, PinsHeld, NEW o \in Object, NEW j, j.obj = o,
           object' = Scheduled(object, o), queue' = Queued(j), gate' = gate,
           \A c \in Object : WorkingOn(c)' = WorkingOn(c)
    PROVE  PinsHeld'
<1>1. object \in [Object -> Clips] /\ object[o].pins \in Int /\ IsABag(queue)
  BY DEF LaneInv, Types, Clips, PinsHeld
<1>2. CASE gate.shutdown
  <2>1. object' = object /\ queue' = queue
    BY <1>2 DEF Scheduled, Queued
  <2>2. QED
    BY <2>1, PinsUntouched DEF StaysDown
<1>3. CASE ~gate.shutdown
  <2>1. /\ object'[o].pins = object[o].pins + 1
        /\ \A c \in Object : object'[c].life = object[c].life
        /\ \A c \in Object \ {o} : object'[c].pins = object[c].pins
    BY <1>1, <1>3 DEF Scheduled, Clips
  <2>2. queue' = queue (+) SetToBag({j})
    BY <1>3 DEF Queued
  <2>3. \A c \in Object : StaysDown(c)
    BY <2>1 DEF StaysDown
  <2>4. PinsCover(o)'
    <3>1. \E x : x \notin QueuedFor(o) /\ QueuedFor(o)' = QueuedFor(o) \cup {x}
      BY <1>1, <2>2, CopyAdded
    <3>2. QED
      BY <1>1, <2>1, <2>3, <3>1, PinTaken DEF PinsHeld
  <2>5. ASSUME NEW c \in Object \ {o} PROVE PinsCover(c)'
    <3>1. QueuedFor(c)' = QueuedFor(c)
      BY <1>1, <2>2, <2>5, CopyAdded
    <3>2. QED
      BY <2>1, <2>3, <3>1, PinsKept DEF PinsHeld
  <2>6. IsABag(queue)'
    BY <1>1, <2>2, CopyAdded
  <2>7. QED
    BY <2>4, <2>5, <2>6 DEF PinsHeld
<1>4. QED
  BY <1>2, <1>3

\* retireObject() sweeps the object's jobs, shutdown() all of them.
LEMMA PinsSwept ==
    ASSUME LaneInv, PinsHeld, NEW O \in SUBSET Object,
           queue' = [j \in {k \in DOMAIN queue : k.obj \notin O} |-> queue[j]],
           \A o \in Object : /\ object'[o].pins = object[o].pins /\ StaysDown(o)
                             /\ WorkingOn(o)' = WorkingOn(o),
           \A o \in O : object'[o].life # "alive" \/ gate'.shutdown
    PROVE  PinsHeld'
<1>1. IsABag(queue)'
  BY DEF PinsHeld, IsABag
<1>2. ASSUME NEW o \in O PROVE PinsCover(o)'
  <2>1. QueuedFor(o)' = {}
    BY DEF QueuedFor
  <2>2. object[o].pins \in Int
    BY DEF LaneInv, Types, Clips
  <2>3. QED
    BY <2>1, <2>2, PinsForgotten DEF PinsHeld
<1>3. ASSUME NEW o \in Object \ O PROVE PinsCover(o)'
  <2>1. QueuedFor(o)' = QueuedFor(o)
    BY <1>3 DEF QueuedFor
  <2>2. QED
    BY <2>1, PinsKept DEF PinsHeld
<1>4. QED
  BY <1>1, <1>2, <1>3 DEF PinsHeld

-----------------------------------------------------------------------------
LEMMA InitPins == Init => PinsHeld
<1> SUFFICES ASSUME Init PROVE PinsHeld
  OBVIOUS
<1>1. DOMAIN queue = {} /\ IsABag(queue)
  BY DEF Init, EmptyBag, SetToBag, IsABag
<1>2. \A o \in Object : QueuedFor(o) = {}
  BY <1>1 DEF QueuedFor
<1>3. \A o \in Object : WorkingOn(o) = {}
  BY DEF Init, WorkingOn, Doing, Idle
<1>4. \A o \in Object : object[o].pins = 0
  BY DEF Init, Clip
<1>5. IsFiniteSet({}) /\ Cardinality({}) = 0
  BY FS_EmptySet
<1>6. ASSUME NEW o \in Object PROVE PinsCover(o)
  <2>1. /\ Cardinality(QueuedFor(o)) = 0 /\ Cardinality(WorkingOn(o)) = 0
        /\ IsFiniteSet(QueuedFor(o)) /\ IsFiniteSet(WorkingOn(o))
    BY <1>2, <1>3, <1>5
  <2>2. QED
    BY <1>4, <2>1 DEF PinsCover
<1>7. QED
  BY <1>1, <1>6 DEF PinsHeld

LEMMA ClaimPins ==
    ASSUME LaneInv, PinsHeld, NEW w \in Worker, ClaimJob(w) \/ ClaimAnalysis(w) \/ ClaimNode(w)
    PROVE  PinsHeld'
<1>1. worker \in [Worker -> Workers] /\ worker[w].job = None /\ worker[w].pc = "wait"
      /\ IsABag(queue) /\ UNCHANGED <<object, gate>>
  BY DEF ClaimJob, ClaimAnalysis, ClaimNode, Awake, At, LaneInv, Types, JobsHeld, PinsHeld, objects
<1>2. \A o \in Object : StaysDown(o) /\ object'[o].pins = object[o].pins /\ w \notin WorkingOn(o)
  BY <1>1 DEF StaysDown, WorkingOn, Doing
<1>3. CASE ClaimJob(w)
  <2>1. PICK j \in Waiting : /\ queue' = queue (-) SetToBag({j})
                             /\ worker' = [worker EXCEPT ![w] = [Idle EXCEPT !.pc = "check", !.job = j]]
    BY <1>3 DEF ClaimJob
  <2>2. j \in DOMAIN queue /\ j \in Job /\ j # None
    <3>1. j \in DOMAIN queue /\ j \in Job
      BY WaitingJobs DEF LaneInv, Types
    <3>2. QED
      BY <3>1, NoJobAssumption
  <2>3. worker'[w].job = j /\ worker'[w].pc = "check" /\ \A v \in Worker \ {w} : worker'[v] = worker[v]
    BY <1>1, <2>1 DEF Idle
  <2>4. PinsCover(j.obj)'
    <3>1. j.obj \in Object
      BY <2>2 DEF Job
    <3>2. \E x : x \in QueuedFor(j.obj) /\ QueuedFor(j.obj)' = QueuedFor(j.obj) \ {x}
      BY <1>1, <2>1, <2>2, CopyRemoved
    <3>3. WorkingOn(j.obj)' = WorkingOn(j.obj) \cup {w}
      BY <2>2, <2>3 DEF WorkingOn, Doing, At
    <3>4. object[j.obj].pins \in Int
      BY <3>1 DEF LaneInv, Types, Clips
    <3>5. QED
      BY <1>2, <3>1, <3>2, <3>3, <3>4, PinPassed DEF PinsHeld
  <2>5. ASSUME NEW o \in Object \ {j.obj} PROVE PinsCover(o)'
    <3>1. QueuedFor(o)' = QueuedFor(o)
      BY <1>1, <2>1, <2>2, <2>5, CopyRemoved
    <3>2. WorkingOn(o)' = WorkingOn(o)
      BY <1>2, <2>3, <2>5 DEF WorkingOn, Doing, At
    <3>3. QED
      BY <1>2, <3>1, <3>2, PinsKept DEF PinsHeld
  <2>6. IsABag(queue)'
    BY <1>1, <2>1, <2>2, CopyRemoved
  <2>7. QED
    BY <2>4, <2>5, <2>6 DEF PinsHeld
<1>4. CASE ClaimAnalysis(w) \/ ClaimNode(w)
  <2>1. queue' = queue /\ worker'[w].job = None /\ \A v \in Worker \ {w} : worker'[v] = worker[v]
    BY <1>1, <1>4 DEF ClaimAnalysis, ClaimNode, Workers
  <2>2. \A o \in Object : WorkingOn(o)' = WorkingOn(o)
    BY <1>1, <2>1 DEF WorkingOn, Doing, At
  <2>3. QED
    BY <1>2, <2>1, <2>2, PinsUntouched
<1>5. QED
  BY <1>3, <1>4

\* A worker that goes on with its job, short of its end.
LEMMA WorkGoesOn ==
    ASSUME NEW w \in Worker, worker'[w].job = worker[w].job,
           worker[w].pc # "finish", worker'[w].pc # "finish",
           \A v \in Worker \ {w} : worker'[v] = worker[v]
    PROVE  \A o \in Object : WorkingOn(o)' = WorkingOn(o)
<1>1. ASSUME NEW o \in Object, NEW v \in Worker
      PROVE  (Doing(v, o) /\ ~At(v, "finish"))' <=> (Doing(v, o) /\ ~At(v, "finish"))
  <2>1. CASE v = w
    BY <2>1 DEF Doing, At
  <2>2. CASE v # w
    BY <2>2 DEF Doing, At
  <2>3. QED
    BY <2>1, <2>2
<1>2. QED
  BY <1>1 DEF WorkingOn

LEMMA CheckPins ==
    ASSUME LaneInv, PinsHeld, NEW w \in Worker,
           CheckSuperfluous(w) \/ CheckTakesPage(w) \/ CheckRequeues(w)
    PROVE  PinsHeld'
<1>1. worker[w].job \in Job /\ worker[w].job.obj \in Object /\ worker[w].pc = "check"
      /\ worker \in [Worker -> Workers]
  BY JobAtHand DEF CheckSuperfluous, CheckTakesPage, CheckRequeues, At, LaneInv, Types
<1>2. /\ worker'[w].job = worker[w].job /\ worker'[w].pc \in {"compute", "unpin"}
      /\ \A v \in Worker \ {w} : worker'[v] = worker[v]
  <2>1. CASE CheckSuperfluous(w) \/ CheckRequeues(w)
    BY <1>1, <2>1 DEF CheckSuperfluous, CheckRequeues, Workers
  <2>2. CASE CheckTakesPage(w)
    <3>1. PICK p : worker' = [worker EXCEPT ![w].pc = "compute", ![w].page = p]
      BY <2>2 DEF CheckTakesPage
    <3>2. QED
      BY <1>1, <3>1 DEF Workers
  <2>3. QED
    BY <2>1, <2>2
<1>3. \A o \in Object : WorkingOn(o)' = WorkingOn(o)
  BY <1>1, <1>2, WorkGoesOn
<1>4. CASE CheckSuperfluous(w) \/ CheckTakesPage(w)
  BY <1>3, <1>4, PinsUntouched DEF CheckSuperfluous, CheckTakesPage, objects, StaysDown
<1>5. CASE CheckRequeues(w)
  <2>1. [worker[w].job EXCEPT !.prio = 0].obj = worker[w].job.obj
    BY <1>1 DEF Job
  <2>2. QED
    BY <1>1, <1>3, <1>5, <2>1, PinsScheduled DEF CheckRequeues
<1>6. QED
  BY <1>4, <1>5

LEMMA ComputePins ==
    ASSUME LaneInv, PinsHeld, NEW w \in Worker,
           ComputeFails(w) \/ Compute(w) \/ Publish(w)
    PROVE  PinsHeld'
<1>1. /\ worker[w].job.obj \in Object /\ worker[w].pc \in {"compute", "publish"}
      /\ worker \in [Worker -> Workers] /\ object \in [Object -> Clips]
  BY JobAtHand DEF ComputeFails, Compute, Publish, At, LaneInv, Types
<1>2. /\ worker'[w].job = worker[w].job /\ worker'[w].pc \in {"publish", "unpin"}
      /\ \A v \in Worker \ {w} : worker'[v] = worker[v]
  <2>1. CASE ComputeFails(w) \/ Compute(w)
    <3>1. \E done \in {worker[w].job.aspects, worker[w].job.aspects \ {"preview"}}, pc \in {"publish", "unpin"} :
               worker' = [worker EXCEPT ![w].done = done, ![w].pc = pc]
      BY <2>1 DEF ComputeFails, Compute
    <3>2. QED
      BY <1>1, <3>1 DEF Workers
  <2>2. CASE Publish(w)
    BY <1>1, <2>2 DEF Publish, Workers
  <2>3. QED
    BY <2>1, <2>2
<1>3. \A o \in Object : WorkingOn(o)' = WorkingOn(o)
  BY <1>1, <1>2, WorkGoesOn
<1>4. \A o \in Object : object'[o].pins = object[o].pins /\ object'[o].life = object[o].life
  <2>1. object' = object \/ \E b \in BOOLEAN : object' = [object EXCEPT ![worker[w].job.obj].failed = b]
    BY DEF ComputeFails, Compute, Publish
  <2>2. ASSUME NEW b \in BOOLEAN, object' = [object EXCEPT ![worker[w].job.obj].failed = b]
        PROVE  \A o \in Object : object'[o].pins = object[o].pins /\ object'[o].life = object[o].life
    BY <1>1, <2>2 DEF Clips
  <2>3. QED
    BY <2>1, <2>2
<1>5. QED
  BY <1>3, <1>4, PinsUntouched DEF ComputeFails, Compute, Publish, StaysDown

\* The worker gives back the pin of its job, and that one only.
LEMMA UnpinPins ==
    ASSUME LaneInv, PinsHeld, NEW w \in Worker, Unpin(w)
    PROVE  PinsHeld'
<1> PICK job \in Job : job = worker[w].job
  BY JobAtHand DEF Unpin
<1>1. job \in Job /\ job.obj \in Object /\ job # None /\ worker[w].pc = "unpin"
  BY NoJobAssumption DEF Unpin, At, Job
<1>2. worker \in [Worker -> Workers] /\ object \in [Object -> Clips]
  BY DEF LaneInv, Types
<1>3. /\ worker'[w].job = job /\ worker'[w].pc = "finish"
      /\ \A v \in Worker \ {w} : worker'[v] = worker[v]
      /\ UNCHANGED <<queue, gate>>
  BY <1>1, <1>2 DEF Unpin, Workers
<1>4. /\ object'[job.obj].pins = object[job.obj].pins - 1
      /\ \A o \in Object : object'[o].life = object[o].life
      /\ \A o \in Object \ {job.obj} : object'[o].pins = object[o].pins
  <2>1. object' = Unpinned(job.obj)
    BY DEF Unpin
  <2>2. \A b : /\ [object[job.obj] EXCEPT !.pins = @ - 1, !.posted = b].pins = object[job.obj].pins - 1
               /\ [object[job.obj] EXCEPT !.pins = @ - 1, !.posted = b].life = object[job.obj].life
    BY <1>1, <1>2 DEF Clips
  <2>3. object' = [object EXCEPT ![job.obj] =
                       [object[job.obj] EXCEPT !.pins = @ - 1,
                            !.posted = @ \/ (object[job.obj].pins = 1 /\ object[job.obj].pending)]]
    BY <1>1, <1>2, <2>1 DEF Unpinned
  <2>4. QED
    BY <1>1, <1>2, <2>2, <2>3
<1>5. \A o \in Object : StaysDown(o) /\ QueuedFor(o)' = QueuedFor(o)
  BY <1>3, <1>4 DEF StaysDown, QueuedFor
<1>6. PinsCover(job.obj)'
  <2>1. w \in WorkingOn(job.obj) /\ WorkingOn(job.obj)' = WorkingOn(job.obj) \ {w}
    BY <1>1, <1>3 DEF WorkingOn, Doing, At
  <2>2. object[job.obj].pins \in Int
    BY <1>1, <1>2 DEF Clips
  <2>3. QED
    BY <1>1, <1>4, <1>5, <2>1, <2>2, PinReturned DEF PinsHeld
<1>7. ASSUME NEW o \in Object \ {job.obj} PROVE PinsCover(o)'
  <2>1. WorkingOn(o)' = WorkingOn(o)
    BY <1>1, <1>3, <1>7 DEF WorkingOn, Doing, At
  <2>2. QED
    BY <1>4, <1>5, <2>1, PinsKept DEF PinsHeld
<1>8. QED
  BY <1>3, <1>6, <1>7 DEF PinsHeld

LEMMA LeavingPins ==
    ASSUME LaneInv, PinsHeld, NEW w \in Worker, Finish(w) \/ Exit(w)
    PROVE  PinsHeld'
<1>1. worker \in [Worker -> Workers]
      /\ (worker[w].pc = "finish" \/ worker[w].job = None)
  BY DEF Finish, Exit, At, LaneInv, Types, JobsHeld
<1>2. worker'[w].job = None /\ \A v \in Worker \ {w} : worker'[v] = worker[v]
  <2>1. CASE Finish(w)
    BY <1>1, <2>1 DEF Finish, Idle
  <2>2. CASE Exit(w)
    <3>1. worker[w].job = None
      BY <2>2 DEF Exit, At, LaneInv, JobsHeld
    <3>2. QED
      BY <1>1, <2>2, <3>1 DEF Exit, Workers
  <2>3. QED
    BY <2>1, <2>2
<1>3. \A o \in Object : WorkingOn(o)' = WorkingOn(o)
  BY <1>1, <1>2 DEF WorkingOn, Doing, At
<1>4. QED
  BY <1>3, PinsUntouched DEF Finish, Exit, objects, StaysDown

\* The steps of the main thread: no worker moves.
LEMMA OthersWork ==
    ASSUME worker' = worker
    PROVE  \A o \in Object : WorkingOn(o)' = WorkingOn(o)
BY DEF WorkingOn, Doing, At

LEMMA EditPins ==
    ASSUME LaneInv, PinsHeld, NEW o \in Object,
           Invalidate(o) \/ DependencyChanged(o) \/ Expose(o) \/ Paint(o) \/ InvalidateSchedules
    PROVE  PinsHeld'
<1>1. worker' = worker /\ gate' = gate
  BY DEF Invalidate, DependencyChanged, Expose, Paint, InvalidateSchedules
<1>2. \A c \in Object : WorkingOn(c)' = WorkingOn(c)
  BY <1>1, OthersWork
<1>3. CASE object' = object /\ queue' = queue
  BY <1>1, <1>2, <1>3, PinsUntouched DEF StaysDown
<1>4. ASSUME NEW c \in Object, NEW aspects, object' = Scheduled(object, c),
             queue' = Queued(JobOf(c, aspects))
      PROVE  PinsHeld'
  <2>1. JobOf(c, aspects).obj = c
    BY DEF JobOf
  <2>2. QED
    BY <1>1, <1>2, <1>4, <2>1, PinsScheduled
<1>5. CASE Invalidate(o) \/ Expose(o)
  BY <1>3, <1>5 DEF Invalidate, Expose, objects
<1>6. CASE DependencyChanged(o)
  BY <1>4, <1>6 DEF DependencyChanged, InvalidateAspects
<1>7. CASE InvalidateSchedules
  <2>1. main.obj \in Object
    BY <1>7 DEF InvalidateSchedules, LaneInv, CallsInOrder
  <2>2. QED
    BY <1>4, <1>7, <2>1 DEF InvalidateSchedules, InvalidateAspects
<1>8. CASE Paint(o)
  BY <1>3, <1>4, <1>8 DEF Paint
<1>9. QED
  BY <1>5, <1>6, <1>7, <1>8

LEMMA DestroyPins ==
    ASSUME LaneInv, PinsHeld, NEW o \in Object, Destroy(o), UNCHANGED <<worker, gate>>
    PROVE  PinsHeld'
<1>1. object \in [Object -> Clips]
  BY DEF LaneInv, Types
<1>2. /\ object'[o].life = "dying" /\ object'[o].pins = object[o].pins
      /\ \A c \in Object \ {o} : object'[c] = object[c]
  BY <1>1 DEF Destroy, Clips
<1>3. queue' = [j \in {k \in DOMAIN queue : k.obj \notin {o}} |-> queue[j]]
  BY DEF Destroy, SweptOf
<1>4. \A c \in Object : /\ object'[c].pins = object[c].pins /\ StaysDown(c)
                        /\ WorkingOn(c)' = WorkingOn(c)
  BY <1>2, OthersWork DEF StaysDown
<1>5. {o} \in SUBSET Object /\ \A c \in {o} : object'[c].life # "alive"
  BY <1>2
<1>6. QED
  BY <1>3, <1>4, <1>5, PinsSwept

LEMMA LifePins ==
    ASSUME LaneInv, PinsHeld, NEW o \in Object,
           RemoveRef(o) \/ AddRef(o) \/ DirectDelete(o) \/ DeferredDelete(o)
    PROVE  PinsHeld'
<1>1. object \in [Object -> Clips] /\ worker' = worker /\ gate' = gate
  BY DEF RemoveRef, AddRef, DirectDelete, DeferredDelete, LaneInv, Types
<1>2. CASE Destroy(o)
  BY <1>1, <1>2, DestroyPins
<1>3. CASE RemoveRef(o) \/ AddRef(o) \/ (DeferredDelete(o) /\ Swallowed(o))
  <2>1. queue' = queue
    BY <1>3 DEF RemoveRef, AddRef, DeferredDelete
  <2>2. \A c \in Object : object'[c].pins = object[c].pins /\ object'[c].life = object[c].life
    BY <1>1, <1>3 DEF RemoveRef, AddRef, DeferredDelete, Clips
  <2>3. QED
    BY <1>1, <2>1, <2>2, OthersWork, PinsUntouched DEF StaysDown
<1>4. QED
  BY <1>2, <1>3 DEF DirectDelete, DeferredDelete

LEMMA ReturnPins ==
    ASSUME LaneInv, PinsHeld, RetireReturn \/ ShutdownReturn
    PROVE  PinsHeld'
<1>1. \A c \in Object : /\ object'[c].pins = object[c].pins
                        /\ object'[c].life = object[c].life \/ object'[c].life = "gone"
  <2>1. object \in [Object -> Clips]
    BY DEF LaneInv, Types
  <2>2. CASE RetireReturn
    BY <2>1, <2>2 DEF RetireReturn, LaneInv, CallsInOrder, Clips
  <2>3. CASE ShutdownReturn
    BY <2>1, <2>3 DEF ShutdownReturn, Clips
  <2>4. QED
    BY <2>2, <2>3
<1>2. UNCHANGED <<queue, worker, gate>>
  BY DEF RetireReturn, ShutdownReturn
<1>3. QED
  BY <1>1, <1>2, OthersWork, PinsUntouched DEF StaysDown

LEMMA GatePins ==
    ASSUME LaneInv, PinsHeld, UNCHANGED <<object, queue, worker>>, gate'.shutdown = gate.shutdown
    PROVE  PinsHeld'
BY OthersWork, PinsUntouched DEF StaysDown

LEMMA ShutdownPins ==
    ASSUME LaneInv, PinsHeld, ShutdownBegin
    PROVE  PinsHeld'
<1>1. UNCHANGED <<object, worker>> /\ gate'.shutdown
  BY DEF ShutdownBegin, objects, LaneInv, Types
<1>2. queue' = [j \in {k \in DOMAIN queue : k.obj \notin Object} |-> queue[j]]
  <2>1. {k \in DOMAIN queue : k.obj \notin Object} = {}
    BY DEF LaneInv, Types, Job
  <2>2. QED
    BY <2>1 DEF ShutdownBegin, EmptyBag, SetToBag
<1>3. QED
  BY <1>1, <1>2, OthersWork, PinsSwept DEF StaysDown

LEMMA PinsPreserved == LaneInv /\ PinsHeld /\ [Next]_vars => PinsHeld'
<1> SUFFICES ASSUME LaneInv, PinsHeld, [Next]_vars PROVE PinsHeld'
  OBVIOUS
<1>1. CASE RenderBegin \/ (\E started \in BOOLEAN : RenderStart(started)) \/ RenderDone
               \/ LoadFails \/ PauseReturn \/ SubmitAnalysis \/ SubmitNode \/ UNCHANGED vars
  <2>1. UNCHANGED <<object, queue, worker>>
    BY <1>1 DEF RenderBegin, RenderStart, RenderDone, LoadFails, PauseReturn, SubmitAnalysis,
                SubmitNode, vars, objects
  <2>2. gate'.shutdown = gate.shutdown
    BY <1>1 DEF RenderBegin, RenderStart, RenderDone, LoadFails, PauseReturn, SubmitAnalysis,
                SubmitNode, vars, LaneInv, Types
  <2>3. QED
    BY <2>1, <2>2, GatePins
<1>2. CASE User \/ EventLoop
  BY <1>1, <1>2, EditPins, LifePins, ShutdownPins DEF User, Edit, EventLoop
<1>3. CASE MainReturns \/ Others
  <2>1. CASE InvalidateSchedules
    <3>1. main.obj \in Object
      BY <2>1 DEF InvalidateSchedules, LaneInv, CallsInOrder
    <3>2. QED
      BY <2>1, <3>1, EditPins
  <2>2. QED
    BY <1>1, <1>3, <2>1, ReturnPins DEF MainReturns, Others
<1>4. ASSUME NEW w \in Worker, WorkerStep(w) PROVE PinsHeld'
  BY <1>4, ClaimPins, CheckPins, ComputePins, UnpinPins, LeavingPins DEF WorkerStep, Process
<1>5. QED
  BY <1>1, <1>2, <1>3, <1>4 DEF Next

-----------------------------------------------------------------------------
(***************************************************************************)
(* The rest of the types                                                   *)
(***************************************************************************)
RestTypes ==
    /\ current \in [Object -> Page \cup {None}]
    /\ valid \in [DOMAIN valid -> SUBSET Aspects]
    /\ bulk \in [analysis : Nat, graph : Nat]
    /\ repaint \subseteq Object /\ strayed \subseteq Object /\ crossed \subseteq Object

LEMMA ReleasedAspects ==
    ASSUME NEW pg, pg \in [DOMAIN pg -> SUBSET Aspects], NEW held
    PROVE  Released(pg, held) \in [DOMAIN Released(pg, held) -> SUBSET Aspects]
BY DEF Released

LEMMA RestPreserved == LaneInv /\ RestTypes /\ [Next]_vars => RestTypes'
<1> SUFFICES ASSUME LaneInv, RestTypes, [Next]_vars PROVE RestTypes'
  OBVIOUS
<1> USE DEF RestTypes
<1>1. CASE UNCHANGED <<current, valid, bulk, repaint, strayed, crossed>>
  BY <1>1
<1>2. ASSUME NEW o \in Object, Edit(o) PROVE RestTypes'
  <2>1. CASE Invalidate(o)
    <3>1. UNCHANGED <<bulk, repaint, strayed, crossed>> /\ current' \in [Object -> Page \cup {None}]
      BY <2>1 DEF Invalidate
    <3>2. valid' = Released(valid, Held(current', next', worker))
      BY <2>1 DEF Invalidate
    <3>3. valid' \in [DOMAIN valid' -> SUBSET Aspects]
      BY <3>2, ReleasedAspects
    <3>4. QED
      BY <3>1, <3>3
  <2>2. CASE DependencyChanged(o)
    <3>1. UNCHANGED <<bulk, repaint, strayed, crossed>> /\ current' \in [Object -> Page \cup {None}]
      BY <2>2 DEF DependencyChanged, InvalidateAspects
    <3>2. valid' = Released(valid, Held(current', next, worker))
      BY <2>2 DEF DependencyChanged, InvalidateAspects
    <3>3. valid' \in [DOMAIN valid' -> SUBSET Aspects]
      BY <3>2, ReleasedAspects
    <3>4. QED
      BY <3>1, <3>3
  <2>3. CASE Expose(o)
    BY <2>3 DEF Expose, objects
  <2>4. CASE RemoveRef(o) \/ AddRef(o) \/ DirectDelete(o)
    BY <1>1, <2>4 DEF RemoveRef, AddRef, DirectDelete
  <2>5. QED
    BY <1>2, <2>1, <2>2, <2>3, <2>4 DEF Edit
<1>3. CASE RenderBegin \/ LoadFails \/ RenderDone \/ PauseReturn
               \/ \E started \in BOOLEAN : RenderStart(started)
  BY <1>1, <1>3 DEF RenderBegin, LoadFails, RenderDone, PauseReturn, RenderStart, objects
<1>4. CASE ShutdownBegin \/ SubmitAnalysis \/ SubmitNode
  BY <1>4 DEF ShutdownBegin, SubmitAnalysis, SubmitNode, objects
<1>5. ASSUME NEW o \in Object, Paint(o) \/ DeferredDelete(o) PROVE RestTypes'
  BY <1>5 DEF Paint, DeferredDelete
<1>6. CASE InvalidateSchedules
  <2>1. UNCHANGED <<bulk, repaint, strayed, crossed>> /\ current' \in [Object -> Page \cup {None}]
    BY <1>6 DEF InvalidateSchedules, InvalidateAspects
  <2>2. valid' = Released(valid, Held(current', next, worker))
    BY <1>6 DEF InvalidateSchedules, InvalidateAspects
  <2>3. valid' \in [DOMAIN valid' -> SUBSET Aspects]
    BY <2>2, ReleasedAspects
  <2>4. QED
    BY <2>1, <2>3
<1>7. CASE RetireReturn \/ ShutdownReturn
  <2>1. UNCHANGED <<bulk, repaint, strayed, crossed>> /\ current' \in [Object -> Page \cup {None}]
    BY <1>7 DEF RetireReturn, ShutdownReturn
  <2>2. \E held : valid' = Released(valid, held)
    BY <1>7 DEF RetireReturn, ShutdownReturn
  <2>3. valid' \in [DOMAIN valid' -> SUBSET Aspects]
    BY <2>2, ReleasedAspects
  <2>4. QED
    BY <2>1, <2>3
<1>8. ASSUME NEW w \in Worker, WorkerStep(w) PROVE RestTypes'
  <2>1. CASE ClaimJob(w) \/ CheckSuperfluous(w) \/ CheckTakesPage(w) \/ ComputeFails(w)
                 \/ Finish(w) \/ Exit(w)
    BY <1>1, <2>1 DEF ClaimJob, CheckSuperfluous, CheckTakesPage, ComputeFails, Finish, Exit, objects
  <2>2. CASE ClaimAnalysis(w) \/ ClaimNode(w)
    BY <2>2 DEF ClaimAnalysis, ClaimNode, AnalysisPriority, GraphPriority, Priority, NoPriority, objects
  <2>3. CASE CheckRequeues(w)
    <3>1. worker[w].job.obj \in Object
      BY <2>3, JobAtHand DEF CheckRequeues
    <3>2. QED
      BY <2>3, <3>1 DEF CheckRequeues
  <2>4. CASE Compute(w)
    <3>1. {"preview"} \in SUBSET Aspects
      BY DEF Aspects
    <3>2. QED
      BY <2>4, <3>1 DEF Compute
  <2>5. CASE Publish(w)
    <3>1. worker[w].job.obj \in Object /\ worker[w].done \in SUBSET Aspects
          /\ next \in [Object -> Page \cup {None}]
      BY <2>5, JobAtHand DEF Publish, LaneInv, Types, Workers
    <3>2. UNCHANGED <<bulk, repaint, strayed>> /\ current' \in [Object -> Page \cup {None}]
          /\ crossed' \subseteq Object
      BY <2>5, <3>1 DEF Publish
    <3>3. PICK pg : /\ pg = [valid EXCEPT ![worker[w].page] = @ \cup worker[w].done]
                    /\ valid' = Released(pg, Held(current', next', worker))
      BY <2>5 DEF Publish
    <3>4. pg \in [DOMAIN pg -> SUBSET Aspects]
      BY <3>1, <3>3
    <3>5. valid' \in [DOMAIN valid' -> SUBSET Aspects]
      BY <3>3, <3>4, ReleasedAspects
    <3>6. QED
      BY <3>2, <3>5
  <2>6. CASE Unpin(w)
    <3>1. valid' \in [DOMAIN valid' -> SUBSET Aspects]
      BY <2>6, ReleasedAspects DEF Unpin
    <3>2. QED
      BY <2>6, <3>1 DEF Unpin
  <2>7. QED
    BY <1>8, <2>1, <2>2, <2>3, <2>4, <2>5, <2>6 DEF WorkerStep, Process
<1>9. CASE UNCHANGED vars
  BY <1>1, <1>9 DEF vars, objects
<1>10. QED
  BY <1>2, <1>3, <1>4, <1>5, <1>6, <1>7, <1>8, <1>9 DEF Next, User, EventLoop, MainReturns, Others

LEMMA InitRest == Init => RestTypes
<1> SUFFICES ASSUME Init PROVE RestTypes
  OBVIOUS
<1>1. PICK project \in Projects : /\ valid = [p \in project.pool |-> {}]
                                  /\ repaint = project.clips
  BY DEF Init
<1>2. project.clips \subseteq Object
  BY ProjectsAssumption
<1>3. QED
  BY <1>1, <1>2 DEF Init, RestTypes

-----------------------------------------------------------------------------
(***************************************************************************)
(* The theorems                                                            *)
(***************************************************************************)
\* However an object is destroyed (by its reference count, by a direct delete or with
\* its project), no job of it is queued or worked on afterwards.  The exception is the
\* object an exhausted pool re-queued while it was being retired.
THEOREM JobsDieWithTheirObject == Spec => []NoDangling
<1>1. LaneInv => NoDangling
  BY DEF LaneInv, SweptQueue, NoWorkerOnDead, NoDangling
<1>2. QED
  BY <1>1, LaneInductive, PTL

\* From the return of pauseBackground() on a render shares the object graph with no
\* background job, and from the return of pause() on a failed load with no job at all.
THEOREM GraphIsOwned == Spec => []OwnsTheGraph
<1>1. LaneInv => OwnsTheGraph
  BY DEF LaneInv, RenderAlone, PausedAlone, OwnsTheGraph
<1>2. QED
  BY <1>1, LaneInductive, PTL

\* Every variable keeps its type.  A pin counter is never negative, however its object
\* is scheduled, retired and shut down: it covers the jobs that are left.
THEOREM TypeCorrect == Spec => []TypeOK
<1>1. ASSUME LaneInv, PinsHeld, RestTypes PROVE TypeOK
  <2>1. ASSUME NEW o \in Object PROVE object[o].pins \in Nat
    <3>1. object[o].pins \in Int
      BY <1>1 DEF LaneInv, Types, Clips
    <3>2. /\ IsFiniteSet(QueuedFor(o)) /\ IsFiniteSet(WorkingOn(o))
          /\ object[o].pins >= Cardinality(QueuedFor(o)) + Cardinality(WorkingOn(o))
      BY <1>1 DEF PinsHeld, PinsCover
    <3>3. Cardinality(QueuedFor(o)) \in Nat /\ Cardinality(WorkingOn(o)) \in Nat
      BY <3>2, FS_CardinalityType
    <3>4. QED
      BY <3>1, <3>2, <3>3
  <2>2. object \in [Object -> [life : {"alive", "dying", "gone"}, refs : {0, 1}, pins : Nat,
                               pending : BOOLEAN, posted : BOOLEAN, failed : BOOLEAN]]
    BY <1>1, <2>1 DEF LaneInv, Types, Clips
  <2>3. main.call \in {"free", "invalidating", "retiring", "quiescing", "pausing", "joining",
                       "closed"}
    BY <1>1 DEF LaneInv, Types
  <2>4. QED
    BY <1>1, <2>2, <2>3 DEF TypeOK, LaneInv, Types, Workers, PinsHeld, RestTypes
<1>2. QED
  BY <1>1, InitKeeps, NextKeeps, InitPins, PinsPreserved, InitRest, RestPreserved, PTL DEF Spec

\* The pins of a live object are its jobs: one for each that is queued, however often the
\* same one is queued, and one for each worker on one, on every way through a job.
THEOREM PinsCorrect == Spec => []PinsExact
<1>1. PinsHeld => PinsExact
  BY DEF PinsHeld, PinsCover, PinsExact
<1>2. QED
  BY <1>1, LaneInductive, NextKeeps, InitPins, PinsPreserved, PTL DEF Spec

\* What the pins are for: the event loop collects an object by its reference count only
\* when no job of it is queued and no worker is at one, but for a worker that has
\* already returned its pin.
THEOREM CollectedWithoutJobs ==
    Spec => [][\A o \in Object : DeferredDelete(o) /\ object'[o].life # object[o].life =>
                   QueuedFor(o) = {} /\ WorkingOn(o) = {}]_vars
<1>1. ASSUME LaneInv, PinsHeld, NEW o \in Object, DeferredDelete(o),
             object'[o].life # object[o].life
      PROVE  QueuedFor(o) = {} /\ WorkingOn(o) = {}
  <2>1. object \in [Object -> Clips] /\ object[o].pins \in Int
    BY <1>1 DEF LaneInv, Types, Clips
  <2>2. ~Swallowed(o)
    BY <1>1, <2>1 DEF DeferredDelete, Clips
  <2>3. ~(object[o].pins > 0)
    BY <2>2 DEF Swallowed
  <2>4. /\ IsFiniteSet(QueuedFor(o)) /\ IsFiniteSet(WorkingOn(o))
        /\ object[o].pins >= Cardinality(QueuedFor(o)) + Cardinality(WorkingOn(o))
    BY <1>1 DEF PinsHeld, PinsCover
  <2>5. Cardinality(QueuedFor(o)) \in Nat /\ Cardinality(WorkingOn(o)) \in Nat
    BY <2>4, FS_CardinalityType
  <2>6. Cardinality(QueuedFor(o)) = 0 /\ Cardinality(WorkingOn(o)) = 0
    BY <2>1, <2>3, <2>4, <2>5
  <2>7. QED
    BY <2>4, <2>6, FS_EmptySet
<1>2. LaneInv /\ PinsHeld /\ [Next]_vars =>
          [\A o \in Object : DeferredDelete(o) /\ object'[o].life # object[o].life =>
               QueuedFor(o) = {} /\ WorkingOn(o) = {}]_vars
  BY <1>1
<1>3. QED
  BY <1>2, InitKeeps, NextKeeps, InitPins, PinsPreserved, PTL DEF Spec

=============================================================================
