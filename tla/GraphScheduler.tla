--------------------------- MODULE GraphScheduler ---------------------------
(***************************************************************************)
(* The page scheduler of tw/schedule/capture_revalidator.cc: a consumer    *)
(* DEMANDS a run of root pages, the demand is expanded into one NODE per   *)
(* (component, page) with a counter of unsettled inputs, and a pool of     *)
(* workers executes the nodes whose counter reached zero.                  *)
(*                                                                         *)
(* Three kinds of thread interleave here: requesters (expandNode_ takes    *)
(* queueLock_ in short bursts only, so workers run between two bursts of   *)
(* one expansion), workers, and the main thread, which retires components  *)
(* and shuts the pool down.  An action is one critical section of          *)
(* queueLock_ or of a demand's own mutex.  Rendering itself is abstract:   *)
(* it lies between Claim and Complete (module PagePublish looks inside).   *)
(***************************************************************************)
EXTENDS Integers, Sequences, FiniteSets

CONSTANTS
    Component,       \* the twComponents of the graph
    MaxPage,         \* pages of a component are numbered 0..MaxPage
    Plans,           \* what planPage may answer for a page: sequences of pages
    Requests,        \* the page runs requestGraphPages is called with
    Retirements,     \* the component sets retireComponentNodes is called with
    MaxExpandDepth,  \* kMaxExpandDepth
    Demand,          \* one handle per requestGraphPages call
    NoDemand,
    Worker,
    MaxNodes,        \* bound: PageNodes ever created
    ShutdownRaces    \* may shutdown() overlap a requestGraphPages call?

Key  == Component \X (0 .. MaxPage)
Node == 1 .. MaxNodes
None == 0            \* a null shared_ptr<PageNode>

ASSUME NodesAssumption  == MaxNodes \in Nat
ASSUME PageAssumption   == MaxPage \in Nat
ASSUME DepthAssumption  == MaxExpandDepth \in Nat
ASSUME PlansAssumption  == Plans \in [Key -> SUBSET Seq(Key)]
ASSUME RequestsAssumption == Requests \subseteq Seq(Key)
ASSUME RetirementsAssumption == Retirements \subseteq SUBSET Component
ASSUME DemandAssumption == NoDemand \notin Demand
ASSUME RacesAssumption  == ShutdownRaces \in BOOLEAN

VARIABLES
    \* the fields of a PageNode
    key, state, pendingDeps, deps, predecessor, dependents, demands,
    born,            \* PageNodes created so far; Node ids are in creation order
    graphNodes,      \* the dedup map, Key -> Node or None
    graphReady,      \* nodes queued for execution
    expander,        \* the demand whose expansion holds expansionMutex_
    roots,           \* its root pages still to expand
    rootNodes,       \* and the nodes obtained for those already expanded
    stack,           \* the recursion of expandNode_, innermost call first
    demand,          \* the GraphDemand handles
    worker,          \* what each pool thread is doing
    retire,          \* the retireComponentNodes call in progress
    shutdown         \* "no", "joining" (shutdown_ set), "joined"

nodeVars   == <<key, state, pendingDeps, deps, predecessor, dependents, demands, born>>
queueVars  == <<graphNodes, graphReady>>
expandVars == <<expander, roots, rootNodes, stack>>
vars == <<nodeVars, queueVars, expandVars, demand, worker, retire, shutdown>>

(***************************************************************************)
(* Nodes and their edges                                                   *)
(***************************************************************************)
Live == {"Waiting", "Ready", "Running"}

\* Slot 0 of a node is its predecessor edge, slot i > 0 its i-th planned input.
Slots(n) == 0 .. Len(deps[n])
Input(n, i) == IF i = 0 THEN predecessor[n] ELSE deps[n][i]

InMap(n) == n \in Node /\ n <= born /\ graphNodes[key[n]] = n

PredecessorForgotten(k) == None
PredecessorOf(k) == IF k[2] > 0 THEN graphNodes[<<k[1], k[2] - 1>>] ELSE None

\* The slots of node m whose edge is released when the nodes of S settle.
ReleasedWholesale(m, S) == {i \in Slots(m) : \E c \in S : \E j \in Slots(m) : <<m, j>> \in dependents[c]}

Released(m, S) == {i \in Slots(m) : \E c \in S : <<m, i>> \in dependents[c]}

\* The loop over `dependents` shared by completion and retirement, with `st` the
\* states once the nodes of S are settled: every released edge of a node still
\* Waiting is subtracted, and a counter that reaches zero makes the node Ready.
PromotedAnyState(st, S) ==
    {m \in Node : /\ Released(m, S) # {}
                  /\ pendingDeps[m] = Cardinality(Released(m, S))}

Promoted(st, S) ==
    {m \in Node : /\ st[m] = "Waiting"
                  /\ Released(m, S) # {}
                  /\ pendingDeps[m] = Cardinality(Released(m, S))}

Settle(st, S) ==
    /\ state' = [m \in Node |-> IF m \in Promoted(st, S) THEN "Ready" ELSE st[m]]
    /\ pendingDeps' = [m \in Node |->
            IF st[m] = "Waiting" THEN pendingDeps[m] - Cardinality(Released(m, S))
                                 ELSE pendingDeps[m]]
    /\ dependents' = [c \in Node |-> IF c \in S THEN {} ELSE dependents[c]]
    /\ demands' = [c \in Node |-> IF c \in S THEN {} ELSE demands[c]]

(***************************************************************************)
(* Initial state                                                           *)
(***************************************************************************)
NewHandle == [phase |-> "idle", outstanding |-> 0, notProduced |-> 0, aborted |-> FALSE]
IdleWorker == [pc |-> "idle", node |-> None, toNotify |-> {}]
NoRetire == [phase |-> "none", comps |-> {}, orphaned |-> {}]

Init ==
    /\ key = [n \in Node |-> <<>>]
    /\ state = [n \in Node |-> "Unborn"]
    /\ pendingDeps = [n \in Node |-> 0]
    /\ deps = [n \in Node |-> <<>>]
    /\ predecessor = [n \in Node |-> None]
    /\ dependents = [n \in Node |-> {}]
    /\ demands = [n \in Node |-> {}]
    /\ born = 0
    /\ graphNodes = [k \in Key |-> None]
    /\ graphReady = {}
    /\ expander = NoDemand
    /\ roots = <<>>
    /\ rootNodes = <<>>
    /\ stack = <<>>
    /\ demand = [d \in Demand |-> NewHandle]
    /\ worker = [w \in Worker |-> IdleWorker]
    /\ retire = NoRetire
    /\ shutdown = "no"

(***************************************************************************)
(* requestGraphPages                                                       *)
(***************************************************************************)
SetPhase(d, ph) == demand' = [demand EXCEPT ![d].phase = ph]

\* shutdown_ is read before any lock is taken; a refused request gets a handle
\* that is already done.
RequestRefused(d) ==
    /\ demand[d].phase = "idle"
    /\ shutdown # "no"
    /\ SetPhase(d, "issued")
    /\ UNCHANGED <<nodeVars, queueVars, expandVars, worker, retire, shutdown>>

RequestAdmitted(d) ==
    /\ demand[d].phase = "idle"
    /\ shutdown = "no"
    /\ SetPhase(d, "admitted")
    /\ UNCHANGED <<nodeVars, queueVars, expandVars, worker, retire, shutdown>>

\* expansionMutex_ excludes other expansions and retirements, not shutdown().
ExpandBegin(d, run) ==
    /\ demand[d].phase = "admitted"
    /\ expander = NoDemand
    /\ retire.phase = "none"
    /\ SetPhase(d, "expanding")
    /\ expander' = d
    /\ roots' = run
    /\ rootNodes' = <<>>
    /\ stack' = <<>>
    /\ UNCHANGED <<nodeVars, queueVars, worker, retire, shutdown>>

\* The pages the innermost running call still has to expand.
Todo == IF stack = <<>> THEN roots ELSE Head(stack).todo

\* An expandNode_ call returns `ns` (a node, or nothing) to its caller, the frame
\* on top of `st` or, when there is none, requestGraphPages itself.
HandBack(st, ns) ==
    \/ /\ st = <<>>
       /\ stack' = <<>>
       /\ roots' = Tail(roots)
       /\ rootNodes' = rootNodes \o ns
    \/ /\ st # <<>>
       /\ stack' = <<[Head(st) EXCEPT !.todo = Tail(@), !.kids = @ \o ns]>> \o Tail(st)
       /\ UNCHANGED <<roots, rootNodes>>

\* The depth guard: the page is not planned at all.
ExpandTooDeep ==
    /\ expander # NoDemand
    /\ Todo # <<>>
    /\ Len(stack) > MaxExpandDepth
    /\ HandBack(stack, <<>>)
    /\ UNCHANGED <<nodeVars, queueVars, expander, demand, worker, retire, shutdown>>

\* Dedup: a node of that page is in flight, in whatever state.
ExpandFound ==
    /\ expander # NoDemand
    /\ Todo # <<>>
    /\ Len(stack) <= MaxExpandDepth
    /\ graphNodes[Head(Todo)] # None
    /\ HandBack(stack, <<graphNodes[Head(Todo)]>>)
    /\ UNCHANGED <<nodeVars, queueVars, expander, demand, worker, retire, shutdown>>

\* planPage, outside queueLock_, then the recursion into the planned inputs.
ExpandPlan ==
    /\ expander # NoDemand
    /\ Todo # <<>>
    /\ Len(stack) <= MaxExpandDepth
    /\ graphNodes[Head(Todo)] = None
    /\ \E plan \in Plans[Head(Todo)] :
          stack' = <<[key |-> Head(Todo), todo |-> plan, kids |-> <<>>]>> \o stack
    /\ UNCHANGED <<nodeVars, queueVars, expander, roots, rootNodes,
                   demand, worker, retire, shutdown>>

\* The second burst: the node enters the map, one counted edge per input that is
\* not Done, and one for the same component's previous page when it is in flight.
\* (Its "paranoia" branch, the key being taken meanwhile, needs a second expander.)
OpenSlotsInputsOnly(kids, pred) == {i \in 1 .. Len(kids) : state[kids[i]] # "Done"}

OpenSlotsAnyState(kids, pred) == 1 .. Len(kids) \cup (IF pred # None THEN {0} ELSE {})

OpenSlots(kids, pred) ==
    {i \in 1 .. Len(kids) : state[kids[i]] # "Done"}
        \cup (IF pred # None /\ state[pred] # "Done" THEN {0} ELSE {})

ExpandInsert ==
    /\ expander # NoDemand
    /\ stack # <<>>
    /\ Head(stack).todo = <<>>
    /\ graphNodes[Head(stack).key] = None
    /\ born < MaxNodes
    /\ LET n    == born + 1
           k    == Head(stack).key
           kids == Head(stack).kids
           pred == PredecessorOf(k)
           open == OpenSlots(kids, pred)
           from(i) == IF i = 0 THEN pred ELSE kids[i]
       IN  /\ born' = n
           /\ key' = [key EXCEPT ![n] = k]
           /\ deps' = [deps EXCEPT ![n] = kids]
           /\ predecessor' = [predecessor EXCEPT ![n] = pred]
           /\ pendingDeps' = [pendingDeps EXCEPT ![n] = Cardinality(open)]
           /\ dependents' = [c \in Node |->
                   dependents[c] \cup {<<n, i>> : i \in {j \in open : from(j) = c}}]
           /\ state' = [state EXCEPT ![n] = IF open = {} THEN "Ready" ELSE "Waiting"]
           /\ graphReady' = IF open = {} THEN graphReady \cup {n} ELSE graphReady
           /\ graphNodes' = [graphNodes EXCEPT ![k] = n]
           /\ HandBack(Tail(stack), <<n>>)
    /\ UNCHANGED <<demands, expander, demand, worker, retire, shutdown>>

\* The demand is hung on every root not Done yet, and the handle is returned.
Attach ==
    /\ expander # NoDemand
    /\ stack = <<>>
    /\ roots = <<>>
    /\ LET pending == {n \in Node : /\ \E i \in DOMAIN rootNodes : rootNodes[i] = n
                                    /\ state[n] # "Done"}
       IN  /\ demands' = [n \in Node |-> IF n \in pending THEN demands[n] \cup {expander}
                                                          ELSE demands[n]]
           /\ demand' = [demand EXCEPT ![expander] =
                   [@ EXCEPT !.phase = "issued", !.outstanding = Cardinality(pending)]]
    /\ expander' = NoDemand
    /\ rootNodes' = <<>>
    /\ UNCHANGED <<key, state, pendingDeps, deps, predecessor, dependents, born,
                   queueVars, roots, stack, worker, retire, shutdown>>

\* GraphDemand::wait returns to its consumer.
WaitReturnEarly(d) ==
    /\ demand[d].phase = "issued"
    /\ demand[d].outstanding <= 1 \/ demand[d].aborted
    /\ SetPhase(d, "released")
    /\ UNCHANGED <<nodeVars, queueVars, expandVars, worker, retire, shutdown>>

WaitReturn(d) ==
    /\ demand[d].phase = "issued"
    /\ demand[d].outstanding = 0 \/ demand[d].aborted
    /\ SetPhase(d, "released")
    /\ UNCHANGED <<nodeVars, queueVars, expandVars, worker, retire, shutdown>>

(***************************************************************************)
(* The workers                                                             *)
(***************************************************************************)
\* workerLoop dequeues a graph node and claims it in the same critical section.
Claim(w, n) ==
    /\ worker[w].pc = "idle"
    /\ shutdown = "no"
    /\ n \in graphReady
    /\ graphReady' = graphReady \ {n}
    /\ state' = [state EXCEPT ![n] = "Running"]
    /\ worker' = [worker EXCEPT ![w] = [pc |-> "running", node |-> n, toNotify |-> {}]]
    /\ UNCHANGED <<key, pendingDeps, deps, predecessor, dependents, demands, born,
                   graphNodes, expandVars, demand, retire, shutdown>>

\* A worker with demands left to notify, or back in the pool.
HandsOverNothing(n, ds) == IdleWorker

HandsOver(n, ds) ==
    IF ds = {} THEN IdleWorker ELSE [pc |-> "notifying", node |-> n, toNotify |-> ds]

\* completeGraphNode, the part under queueLock_.
Complete(w) ==
    /\ worker[w].pc = "running"
    /\ LET n  == worker[w].node
           st == [state EXCEPT ![n] = "Done"]
       IN  /\ Settle(st, {n})
           /\ graphReady' = graphReady \cup Promoted(st, {n})
           /\ graphNodes' = [graphNodes EXCEPT ![key[n]] = None]
           /\ worker' = [worker EXCEPT ![w] = HandsOver(n, demands[n])]
    /\ UNCHANGED <<key, deps, predecessor, born, expandVars, demand, retire, shutdown>>

\* ... and the part under each demand's own mutex.
Notify(w, d) ==
    /\ worker[w].pc = "notifying"
    /\ d \in worker[w].toNotify
    /\ demand' = [demand EXCEPT ![d].outstanding = @ - 1]
    /\ worker' = [worker EXCEPT ![w] = HandsOver(@.node, @.toNotify \ {d})]
    /\ UNCHANGED <<nodeVars, queueVars, expandVars, retire, shutdown>>

Exit(w) ==
    /\ worker[w].pc = "idle"
    /\ shutdown # "no"
    /\ worker' = [worker EXCEPT ![w].pc = "exited"]
    /\ UNCHANGED <<nodeVars, queueVars, expandVars, demand, retire, shutdown>>

(***************************************************************************)
(* The main thread: retireComponentNodes and shutdown                      *)
(***************************************************************************)
\* Steps 1 and 2, one critical section: drop what has not started, erase it from
\* the map and the ready queue, release its dependents, collect its demands.
RetireBegin(comps) ==
    /\ retire.phase = "none"
    /\ expander = NoDemand
    /\ shutdown # "joining"
    /\ LET dropped == {n \in Node : /\ InMap(n)
                                    /\ key[n][1] \in comps
                                    /\ state[n] \notin {"Running", "Done"}}
           st == [n \in Node |-> IF n \in dropped THEN "Dropped" ELSE state[n]]
       IN  /\ Settle(st, dropped)
           /\ graphNodes' = [k \in Key |->
                   IF graphNodes[k] \in dropped THEN None ELSE graphNodes[k]]
           /\ graphReady' = (graphReady \ dropped) \cup Promoted(st, dropped)
           /\ retire' = [phase |-> "drain", comps |-> comps,
                         orphaned |-> UNION {{n} \X demands[n] : n \in dropped}]
    /\ UNCHANGED <<key, deps, predecessor, born, expandVars, demand, worker, shutdown>>

\* Step 3, the wait on idleCv_ for the running nodes of these components.
RetireDrainedAtOnce ==
    /\ retire.phase = "drain"
    /\ retire' = [retire EXCEPT !.phase = "notify"]
    /\ UNCHANGED <<nodeVars, queueVars, expandVars, demand, worker, shutdown>>

RetireDrained ==
    /\ retire.phase = "drain"
    /\ \A n \in Node : InMap(n) /\ key[n][1] \in retire.comps => state[n] # "Running"
    /\ retire' = [retire EXCEPT !.phase = "notify"]
    /\ UNCHANGED <<nodeVars, queueVars, expandVars, demand, worker, shutdown>>

\* Step 4: each orphaned demand counts one root page as not produced.
RetireOrphan(n, d) ==
    /\ retire.phase = "notify"
    /\ <<n, d>> \in retire.orphaned
    /\ retire' = [retire EXCEPT !.orphaned = @ \ {<<n, d>>}]
    /\ demand' = [demand EXCEPT ![d].outstanding = @ - 1, ![d].notProduced = @ + 1]
    /\ UNCHANGED <<nodeVars, queueVars, expandVars, worker, shutdown>>

RetireReturn ==
    /\ retire.phase = "notify"
    /\ retire.orphaned = {}
    /\ retire' = NoRetire
    /\ UNCHANGED <<nodeVars, queueVars, expandVars, demand, worker, shutdown>>

\* shutdown() under queueLock_: every demand of a mapped node is aborted, the map
\* and the ready queue are cleared, then the workers are joined.
ShutdownBegin ==
    /\ shutdown = "no"
    /\ retire.phase = "none"
    /\ ShutdownRaces \/ \A d \in Demand : demand[d].phase \notin {"admitted", "expanding"}
    /\ shutdown' = "joining"
    /\ demand' = [d \in Demand |->
            IF \E n \in Node : InMap(n) /\ d \in demands[n]
            THEN [demand[d] EXCEPT !.aborted = TRUE] ELSE demand[d]]
    /\ demands' = [n \in Node |-> IF InMap(n) THEN {} ELSE demands[n]]
    /\ graphNodes' = [k \in Key |-> None]
    /\ graphReady' = {}
    /\ UNCHANGED <<key, state, pendingDeps, deps, predecessor, dependents, born,
                   expandVars, worker, retire>>

ShutdownReturn ==
    /\ shutdown = "joining"
    /\ \A w \in Worker : worker[w].pc = "exited"
    /\ shutdown' = "joined"
    /\ UNCHANGED <<nodeVars, queueVars, expandVars, demand, worker, retire>>

(***************************************************************************)
(* The specification                                                       *)
(***************************************************************************)
Expand(d) == expander = d /\ (ExpandTooDeep \/ ExpandFound \/ ExpandPlan \/ ExpandInsert \/ Attach)

Requester(d) ==
    \/ RequestRefused(d)
    \/ RequestAdmitted(d)
    \/ \E run \in Requests : ExpandBegin(d, run)
    \/ Expand(d)
    \/ WaitReturn(d)

WorkerStep(w) ==
    \/ \E n \in Node : Claim(w, n)
    \/ Complete(w)
    \/ \E d \in Demand : Notify(w, d)
    \/ Exit(w)

RetireContinue ==
    \/ RetireDrained
    \/ \E n \in Node, d \in Demand : RetireOrphan(n, d)
    \/ RetireReturn

MainThread ==
    \/ \E comps \in Retirements : RetireBegin(comps)
    \/ RetireContinue
    \/ ShutdownBegin
    \/ ShutdownReturn

Next ==
    \/ \E d \in Demand : Requester(d)
    \/ \E w \in Worker : WorkerStep(w)
    \/ MainThread

Spec == Init /\ [][Next]_vars

\* Threads run: a worker finishes what it can do, an expansion and a retirement
\* under way go on, and a waiter whose predicate holds wakes.  Nobody has to call
\* requestGraphPages, retireComponentNodes or shutdown.
Fairness ==
    /\ \A w \in Worker : WF_vars(WorkerStep(w))
    /\ \A d \in Demand : WF_vars(Expand(d)) /\ WF_vars(WaitReturn(d))
    /\ WF_vars(RetireContinue)
    /\ WF_vars(ShutdownReturn)

FairSpec == Spec /\ Fairness

(***************************************************************************)
(* What the scheduler guarantees                                           *)
(***************************************************************************)
NodeState == {"Unborn", "Dropped", "Done"} \cup Live
Phase == {"idle", "admitted", "expanding", "issued", "released"}
Frame(Kid) == [key : Key, todo : Seq(Key), kids : Seq(Kid)]

TypeOK ==
    /\ key \in [Node -> Key \cup {<<>>}]
    /\ state \in [Node -> NodeState]
    /\ pendingDeps \in [Node -> Nat]
    /\ deps \in [Node -> Seq(Node)]
    /\ predecessor \in [Node -> Node \cup {None}]
    /\ dependents \in [Node -> SUBSET (Node \X Nat)]
    /\ demands \in [Node -> SUBSET Demand]
    /\ born \in 0 .. MaxNodes
    /\ graphNodes \in [Key -> Node \cup {None}]
    /\ graphReady \subseteq Node
    /\ expander \in Demand \cup {NoDemand}
    /\ roots \in Seq(Key)
    /\ rootNodes \in Seq(Node)
    /\ stack \in Seq(Frame(Node))
    /\ demand \in [Demand -> [phase : Phase, outstanding : Int,
                              notProduced : Nat, aborted : BOOLEAN]]
    /\ worker \in [Worker -> [pc : {"idle", "running", "notifying", "exited"},
                              node : Node \cup {None}, toNotify : SUBSET Demand]]
    /\ retire \in [phase : {"none", "drain", "notify"}, comps : SUBSET Component,
                   orphaned : SUBSET (Node \X Demand)]
    /\ shutdown \in {"no", "joining", "joined"}

Settled == {"Done", "Dropped"}

\* A node runs only on settled inputs.  processGraphNode reads the `result` of
\* every dep and of the predecessor without a lock, on the strength of the
\* counters alone: an input still live would be a race on that field.
InputsSettled ==
    \A n \in Node : state[n] \in {"Ready", "Running", "Done"} =>
        \A i \in Slots(n) : Input(n, i) # None => state[Input(n, i)] \in Settled

\* The counter of a waiting node is exactly the number of its inputs that are
\* still live, and is never zero: no completion or retirement is counted twice,
\* and none that should have woken the node was missed.
LiveInputs(n) == {i \in Slots(n) : Input(n, i) # None /\ state[Input(n, i)] \in Live}
CounterExact ==
    \A n \in Node : state[n] = "Waiting" =>
        pendingDeps[n] > 0 /\ pendingDeps[n] = Cardinality(LiveInputs(n))

\* Every node in flight is where its state says: queued exactly when Ready, held
\* by exactly one worker when Running, and the only node in flight for its page.
Runs(w, n) == worker[w].pc = "running" /\ worker[w].node = n

OnePlace ==
    /\ \A n \in graphReady : state[n] = "Ready"
    /\ \A w \in Worker : worker[w].pc = "running" => worker[w].node # None
    /\ \A n \in Node : state[n] = "Running" <=> \E w \in Worker : Runs(w, n)
    /\ \A n \in Node, w1, w2 \in Worker : Runs(w1, n) /\ Runs(w2, n) => w1 = w2
    /\ shutdown = "no" => \A n \in Node : /\ state[n] = "Ready" => n \in graphReady
                                          /\ state[n] \in Live => InMap(n)

\* "in-position-order execution": while a page of a component is in flight, a node
\* created later for the component's next page does not run.
InPageOrder ==
    \A n, m \in Node :
        (state[n] = "Running" /\ m < n /\ state[m] \in Live) =>
            ~(key[m][1] = key[n][1] /\ key[m][2] + 1 = key[n][2])

\* Once retireComponentNodes has drained, nothing of the retired components is
\* queued, waiting or running, until it returns and lets requests in again.
RetireExclusive ==
    retire.phase = "notify" /\ shutdown = "no" =>
        \A n \in Node : state[n] \in Live => key[n][1] \notin retire.comps

\* The root pages a demand still waits for: hung on a live node, collected by a
\* retirement, or in the hands of a worker about to notify.
Owing(d) ==
    {n \in Node : \/ d \in demands[n]
                  \/ <<n, d>> \in retire.orphaned
                  \/ \E w \in Worker : worker[w].node = n /\ d \in worker[w].toNotify}

\* A demand's counter is exact through every hand-over, so wait() can neither
\* return with a page missing nor miss its last page.
OutstandingExact ==
    \A d \in Demand : (demand[d].phase = "issued" /\ ~demand[d].aborted) =>
        demand[d].outstanding = Cardinality(Owing(d))

\* What is settled stays settled: a dropped node never executes, a done one never
\* runs a second time, and the predicate of a finished wait() never turns false
\* again (done() may be polled after it).
WaitOver(d) == demand[d].outstanding = 0 \/ demand[d].aborted

SettledIsFinal ==
    [][/\ \A n \in Node : state[n] \in Settled => state'[n] = state[n]
       /\ \A d \in Demand : demand[d].phase = "released" =>
             demand'[d].phase = "released" /\ WaitOver(d)']_vars

\* wait(): "Block until every demanded root page is frozen, or the revalidator
\* shuts down (abort)".  Every wait() returns.
WaitReturns == \A d \in Demand : demand[d].phase = "issued" ~> demand[d].phase = "released"

-----------------------------------------------------------------------------
(***************************************************************************)
(* The inductive invariant                                                 *)
(***************************************************************************)
\* Nodes are created in order, and after the inputs they were given.
Births ==
    \A n \in Node :
        /\ n > born <=> state[n] = "Unborn"
        /\ n <= born => key[n] \in Key
        /\ n > born => dependents[n] = {} /\ deps[n] = <<>> /\ predecessor[n] = None
        /\ \A i \in Slots(n) : Input(n, i) < n

\* The `dependents` vectors hold exactly the edges whose input is still live.
EdgesExact ==
    /\ \A c \in Node : \A e \in dependents[c] :
            e[2] \in Slots(e[1]) /\ Input(e[1], e[2]) = c /\ state[c] \in Live
    /\ \A m \in Node : \A i \in LiveInputs(m) : <<m, i>> \in dependents[Input(m, i)]

\* The map holds live nodes under their own page.
MapSound ==
    \A k \in Key : graphNodes[k] # None =>
        /\ graphNodes[k] <= born
        /\ key[graphNodes[k]] = k
        /\ state[graphNodes[k]] \in Live

\* expansionMutex_: no retirement meets an expansion, so that what a running
\* expansion has in hand is never dropped under it.  Every suspended call waits for
\* the first page of its list.
InHand == {n \in Node : n <= born /\ state[n] # "Dropped"}

ExpansionSound ==
    /\ retire.phase # "none" => expander = NoDemand
    /\ expander = NoDemand => stack = <<>> /\ rootNodes = <<>>
    /\ stack # <<>> => roots # <<>>
    /\ \A j \in 2 .. Len(stack) : stack[j].todo # <<>>
    /\ stack \in Seq(Frame(InHand))
    /\ rootNodes \in Seq(InHand)

\* A node knows the node of its component's previous page that was in flight when
\* it was created, if it may ever run.
PredecessorLinked ==
    \A n, m \in Node :
        (/\ shutdown = "no" \/ state[n] = "Running"
         /\ m < n /\ n <= born
         /\ state[m] \in Live
         /\ key[m][1] = key[n][1] /\ key[m][2] + 1 = key[n][2]) => predecessor[n] = m

\* From the moment a retirement has dropped its nodes, only running ones remain.
RetireQuiet ==
    (retire.phase # "none" /\ shutdown = "no") =>
        \A n \in Node : (state[n] \in Live /\ key[n][1] \in retire.comps) =>
            state[n] = "Running" /\ retire.phase = "drain"

IndInv ==
    /\ TypeOK
    /\ Births
    /\ EdgesExact
    /\ CounterExact
    /\ InputsSettled
    /\ MapSound
    /\ ExpansionSound
    /\ OnePlace
    /\ PredecessorLinked
    /\ RetireQuiet

\* A page owed to a demand is in one pair of hands: a live node's, a retirement's
\* that dropped the node, or those of the one worker that completed it.
HandsApart ==
    /\ \A n \in Node : demands[n] # {} => state[n] \in Live
    /\ \A p \in retire.orphaned : state[p[1]] = "Dropped"
    /\ retire.phase = "none" => retire.orphaned = {}
    /\ \A w \in Worker : worker[w].toNotify # {} =>
            /\ worker[w].pc = "notifying"
            /\ worker[w].node \in Node
            /\ state[worker[w].node] = "Done"
    /\ \A w, v \in Worker :
            (/\ worker[w].toNotify # {} /\ worker[v].toNotify # {}
             /\ worker[w].node = worker[v].node) => w = v

\* A handle counts what it is owed, is owed nothing before it is issued, and is not
\* released before its wait is over.
HandlesExact ==
    \A d \in Demand :
        /\ demand[d].phase \notin {"issued", "released"} => Owing(d) = {}
        /\ ~demand[d].aborted => demand[d].outstanding = Cardinality(Owing(d))
        /\ demand[d].phase = "released" => WaitOver(d)

\* The demand that holds expansionMutex_ has no handle to hang on a page yet.
ExpanderExpands == expander # NoDemand => demand[expander].phase = "expanding"

DemandInv == HandsApart /\ HandlesExact /\ ExpanderExpands

SafetyInv == IndInv /\ DemandInv

-----------------------------------------------------------------------------
\* The handles alone: each demand is a set of owed pages that only shrinks.
Handles == INSTANCE PageDemand
    WITH Page <- Node,
         status <- [d \in Demand |-> demand[d].phase],
         left <- [d \in Demand |-> Owing(d)],
         lost <- [d \in Demand |-> demand[d].notProduced],
         aborted <- {d \in Demand : demand[d].aborted}
RefinesPageDemand == Handles!Spec

=============================================================================
