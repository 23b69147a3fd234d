------------------------ MODULE GraphSchedulerProofs ------------------------
(***************************************************************************)
(* The scheduler's counters, order and exclusion, for every graph, every   *)
(* plan, any number of demands, workers and nodes.  IndInv is the inductive*)
(* invariant of the nodes; the part all others rest on is EdgesExact, which*)
(* makes the loop over `dependents` subtract exactly the inputs that       *)
(* settle.  The second half is about the handles, and the refinement.      *)
(***************************************************************************)
EXTENDS GraphScheduler, FiniteSetTheorems, SequenceTheorems, TLAPS

-----------------------------------------------------------------------------
(***************************************************************************)
(* The slots of a node                                                     *)
(***************************************************************************)
\* A node has finitely many inputs, so counting the live ones makes sense.
LEMMA LiveInputsFinite ==
    ASSUME TypeOK, NEW m \in Node
    PROVE  IsFiniteSet(Slots(m)) /\ IsFiniteSet(LiveInputs(m))
<1>1. Len(deps[m]) \in Nat
  BY DEF TypeOK
<1>2. IsFiniteSet(Slots(m))
  BY <1>1, FS_Interval DEF Slots
<1>3. LiveInputs(m) \in SUBSET Slots(m)
  BY DEF LiveInputs
<1>4. QED
  BY <1>2, <1>3, FS_Subset

LEMMA InputsAreNodes ==
    ASSUME TypeOK, NEW m \in Node, NEW i \in Slots(m)
    PROVE  Input(m, i) \in Node \cup {None}
<1>1. CASE i = 0
  BY <1>1 DEF Input, TypeOK
<1>2. CASE i # 0
  <2>1. i \in 1 .. Len(deps[m]) /\ deps[m] \in Seq(Node)
    BY <1>2 DEF Slots, TypeOK
  <2>2. deps[m][i] \in Node
    BY <2>1, ElementOfSeq
  <2>3. QED
    BY <1>2, <2>2 DEF Input
<1>3. QED
  BY <1>1, <1>2

\* The loop over `dependents` visits exactly the live inputs that settle.
LEMMA ReleasedAreLive ==
    ASSUME TypeOK, EdgesExact, NEW S \in SUBSET Node, NEW m \in Node
    PROVE  Released(m, S) = {i \in LiveInputs(m) : Input(m, i) \in S}
<1>1. ASSUME NEW i \in Released(m, S)
      PROVE  i \in LiveInputs(m) /\ Input(m, i) \in S
  <2>1. PICK c \in S : <<m, i>> \in dependents[c]
    BY <1>1 DEF Released
  <2>2. i \in Slots(m) /\ Input(m, i) = c /\ state[c] \in Live
    BY <2>1 DEF EdgesExact
  <2>3. c # None
    BY DEF Node, None
  <2>4. QED
    BY <2>2, <2>3 DEF LiveInputs
<1>2. ASSUME NEW i \in LiveInputs(m), Input(m, i) \in S
      PROVE  i \in Released(m, S)
  BY <1>2 DEF EdgesExact, Released, LiveInputs
<1>3. QED
  BY <1>1, <1>2

-----------------------------------------------------------------------------
(***************************************************************************)
(* Settling a set of nodes: completeGraphNode and steps 1-2 of             *)
(* retireComponentNodes                                                    *)
(***************************************************************************)
Settling(S, st) ==
    /\ S \in SUBSET Node
    /\ st \in [Node -> NodeState]
    /\ \A n \in Node \ S : st[n] = state[n]
    /\ \A n \in S : state[n] \in Live /\ st[n] \in Settled
    /\ \A n \in S : st[n] = "Done" => state[n] = "Running"
    /\ Settle(st, S)
    /\ deps' = deps
    /\ predecessor' = predecessor

\* Outside S, a node stays as it is or goes from Waiting to Ready.
LEMMA SettlingStates ==
    ASSUME TypeOK, NEW S, NEW st, Settling(S, st)
    PROVE  /\ \A n \in S : state'[n] = st[n] /\ n \notin Promoted(st, S)
           /\ \A n \in Node \ S : n \notin Promoted(st, S) => state'[n] = state[n]
           /\ \A n \in Promoted(st, S) :
                 n \in Node \ S /\ state[n] = "Waiting" /\ state'[n] = "Ready"
<1>1. \A n \in S : n \notin Promoted(st, S)
  BY DEF Settling, Promoted, Settled
<1>2. QED
  BY <1>1 DEF Settling, Settle, Promoted

\* Settling takes the nodes of S, and nothing else, out of flight.
LEMMA SettlingLive ==
    ASSUME TypeOK, NEW S, NEW st, Settling(S, st)
    PROVE  /\ \A n \in Node : state'[n] \in Live <=> state[n] \in Live /\ n \notin S
           /\ \A n \in Node : state[n] \in Settled => state'[n] = state[n]
           /\ \A n \in S : state'[n] \in Settled
           /\ \A n \in Node : state'[n] = "Unborn" <=> state[n] = "Unborn"
<1>1. S \subseteq Node
  BY DEF Settling
<1>2. \A n \in S : state'[n] \in Settled /\ state[n] \in Live
  BY SettlingStates DEF Settling
<1>3. QED
  BY <1>1, <1>2, SettlingStates DEF Live, Settled

LEMMA SettlingInputs ==
    ASSUME TypeOK, EdgesExact, NEW S, NEW st, Settling(S, st), NEW m \in Node
    PROVE  /\ Slots(m)' = Slots(m)
           /\ \A i \in Slots(m) : Input(m, i)' = Input(m, i) /\ Input(m, i) \in Node \cup {None}
           /\ LiveInputs(m)' = LiveInputs(m) \ Released(m, S)
           /\ Released(m, S) \subseteq LiveInputs(m)
<1>0. S \in SUBSET Node /\ deps' = deps /\ predecessor' = predecessor
  BY DEF Settling
<1>1. Slots(m)' = Slots(m) /\ \A i \in Slots(m) : Input(m, i)' = Input(m, i)
  BY <1>0 DEF Slots, Input
<1>2. \A i \in Slots(m) : Input(m, i) \in Node \cup {None}
  BY InputsAreNodes
<1>3. Released(m, S) = {i \in LiveInputs(m) : Input(m, i) \in S}
  BY <1>0, ReleasedAreLive
<1>4. LiveInputs(m)' = LiveInputs(m) \ Released(m, S)
  BY <1>1, <1>2, <1>3, SettlingLive DEF LiveInputs
<1>5. QED
  BY <1>1, <1>2, <1>3, <1>4

\* The counters stay exact: what is subtracted from a waiting node is the number of
\* its live inputs that settle, and the node is queued when none is left.
LEMMA SettlingCounters ==
    ASSUME TypeOK, EdgesExact, CounterExact, NEW S, NEW st, Settling(S, st)
    PROVE  /\ CounterExact'
           /\ pendingDeps' \in [Node -> Nat]
           /\ \A m \in Promoted(st, S) : LiveInputs(m)' = {}
<1> DEFINE Rel(m) == Released(m, S)
<1>1. ASSUME NEW m \in Node
      PROVE  /\ IsFiniteSet(LiveInputs(m))
             /\ Cardinality(LiveInputs(m)) \in Nat
             /\ IsFiniteSet(LiveInputs(m)')
             /\ Cardinality(LiveInputs(m)') \in Nat
             /\ Cardinality(LiveInputs(m)') = Cardinality(LiveInputs(m)) - Cardinality(Rel(m))
             /\ Cardinality(Rel(m)) \in Nat
             /\ Cardinality(Rel(m)) = 0 <=> Rel(m) = {}
  <2>1. IsFiniteSet(LiveInputs(m))
    BY LiveInputsFinite
  <2>2. Rel(m) \in SUBSET LiveInputs(m) /\ LiveInputs(m)' = LiveInputs(m) \ Rel(m)
    BY SettlingInputs
  <2>3. IsFiniteSet(Rel(m))
    BY <2>1, <2>2, FS_Subset
  <2>4. LiveInputs(m) \cap Rel(m) = Rel(m)
    BY <2>2
  <2>5. IsFiniteSet(LiveInputs(m) \ Rel(m))
        /\ Cardinality(LiveInputs(m) \ Rel(m)) = Cardinality(LiveInputs(m)) - Cardinality(Rel(m))
    BY <2>1, <2>4, FS_Difference
  <2>6. QED
    BY <2>1, <2>2, <2>3, <2>5, FS_CardinalityType, FS_EmptySet
<1>2. ASSUME NEW m \in Node, st[m] = "Waiting"
      PROVE  /\ state[m] = "Waiting"
             /\ pendingDeps[m] = Cardinality(LiveInputs(m))
             /\ pendingDeps[m] > 0
             /\ pendingDeps'[m] = Cardinality(LiveInputs(m)')
  <2>1. m \notin S /\ state[m] = "Waiting"
    BY <1>2 DEF Settling, Settled
  <2>2. pendingDeps[m] = Cardinality(LiveInputs(m)) /\ pendingDeps[m] > 0
    BY <2>1 DEF CounterExact
  <2>3. pendingDeps'[m] = pendingDeps[m] - Cardinality(Rel(m))
    BY <1>2 DEF Settling, Settle
  <2>4. QED
    BY <1>1, <2>1, <2>2, <2>3
<1>3. ASSUME NEW m \in Promoted(st, S)
      PROVE  LiveInputs(m)' = {}
  <2>1. m \in Node /\ st[m] = "Waiting" /\ pendingDeps[m] = Cardinality(Rel(m))
    BY <1>3 DEF Promoted
  <2>2. Cardinality(LiveInputs(m)') = 0
    BY <2>1, <1>1, <1>2
  <2>3. QED
    BY <2>1, <2>2, <1>1, FS_EmptySet
<1>4. ASSUME NEW m \in Node, state'[m] = "Waiting"
      PROVE  pendingDeps'[m] > 0 /\ pendingDeps'[m] = Cardinality(LiveInputs(m)')
  <2>1. st[m] = "Waiting" /\ m \notin Promoted(st, S)
    BY <1>4 DEF Settling, Settle
  <2>2. Rel(m) = {} \/ pendingDeps[m] # Cardinality(Rel(m))
    BY <2>1 DEF Promoted
  <2>3. QED
    BY <1>1, <1>2, <2>1, <2>2
<1>5. pendingDeps' \in [Node -> Nat]
  <2>1. ASSUME NEW m \in Node
        PROVE  pendingDeps'[m] \in Nat
    BY <1>1, <1>2 DEF Settling, Settle, TypeOK
  <2>2. QED
    BY <2>1 DEF Settling, Settle
<1>6. QED
  BY <1>3, <1>4, <1>5 DEF CounterExact

\* The edges that remain are those of the inputs that remain live.
LEMMA SettlingEdges ==
    ASSUME TypeOK, EdgesExact, NEW S, NEW st, Settling(S, st)
    PROVE  /\ EdgesExact'
           /\ dependents' \in [Node -> SUBSET (Node \X Nat)]
<1>0. /\ S \in SUBSET Node
      /\ dependents' = [c \in Node |-> IF c \in S THEN {} ELSE dependents[c]]
  BY DEF Settling, Settle
<1>1. ASSUME NEW c \in Node, NEW e \in dependents'[c]
      PROVE  e[2] \in Slots(e[1])' /\ Input(e[1], e[2])' = c /\ state'[c] \in Live
  <2>1. c \notin S /\ e \in dependents[c]
    BY <1>0
  <2>2. e[1] \in Node /\ e[2] \in Slots(e[1]) /\ Input(e[1], e[2]) = c /\ state[c] \in Live
    BY <2>1 DEF EdgesExact, TypeOK
  <2>3. state'[c] \in Live
    BY <2>1, <2>2, SettlingLive
  <2>4. QED
    BY <2>2, <2>3, SettlingInputs
<1>2. ASSUME NEW m \in Node, NEW i \in LiveInputs(m)'
      PROVE  <<m, i>> \in dependents'[Input(m, i)']
  <2>1. i \in LiveInputs(m) \ Released(m, S)
    BY SettlingInputs
  <2>2. <<m, i>> \in dependents[Input(m, i)]
    BY <2>1 DEF EdgesExact
  <2>3. i \in Slots(m) /\ Input(m, i) \in Node /\ Input(m, i)' = Input(m, i)
    BY <2>1, SettlingInputs DEF LiveInputs
  <2>4. Input(m, i) \notin S
    BY <2>1, <2>2, <2>3 DEF Released
  <2>5. QED
    BY <1>0, <2>2, <2>3, <2>4
<1>3. QED
  BY <1>0, <1>1, <1>2 DEF EdgesExact, TypeOK

\* A node made Ready has only settled inputs, and settled inputs stay settled.
LEMMA SettlingKeepsInputsSettled ==
    ASSUME TypeOK, Births, EdgesExact, CounterExact, InputsSettled,
           NEW S, NEW st, Settling(S, st)
    PROVE  InputsSettled'
<1>0. state' \in [Node -> NodeState]
  BY DEF Settling, Settle, NodeState, Live
<1>1. ASSUME NEW n \in Node, state'[n] \in {"Ready", "Running", "Done"},
             NEW i \in Slots(n), Input(n, i) # None
      PROVE  state'[Input(n, i)] \in Settled
  <2>0. Input(n, i) \in Node
    BY <1>1, SettlingInputs
  <2>1. CASE n \in Promoted(st, S)
    <3>1. i \notin LiveInputs(n)'
      BY <2>1, SettlingCounters
    <3>2. state'[Input(n, i)] \notin Live
      BY <1>1, <3>1, SettlingInputs DEF LiveInputs
    <3>3. state[n] = "Waiting"
      BY <2>1, SettlingStates
    <3>4. n <= born /\ Input(n, i) < n
      BY <3>3, NodesAssumption DEF Births, Node, TypeOK
    <3>5. state[Input(n, i)] # "Unborn"
      BY <2>0, <3>4, NodesAssumption DEF Births, Node, TypeOK
    <3>6. state'[Input(n, i)] \in NodeState /\ state'[Input(n, i)] # "Unborn"
      BY <1>0, <2>0, <3>5, SettlingLive
    <3>7. QED
      BY <3>2, <3>6 DEF NodeState, Settled
  <2>2. CASE n \notin Promoted(st, S)
    <3>1. state[n] \in {"Ready", "Running", "Done"}
      BY <1>1, <2>2, SettlingStates DEF Settling, Settled
    <3>2. state[Input(n, i)] \in Settled
      BY <1>1, <3>1 DEF InputsSettled
    <3>3. QED
      BY <2>0, <3>2, SettlingLive
  <2>3. QED
    BY <2>1, <2>2
<1>2. QED
  BY <1>1, SettlingInputs DEF InputsSettled

\* The conjuncts of IndInv that settling concerns, together.
LEMMA SettlingSound ==
    ASSUME TypeOK, Births, EdgesExact, CounterExact, InputsSettled,
           NEW S, NEW st, Settling(S, st), key' = key, born' = born
    PROVE  /\ state' \in [Node -> NodeState]
           /\ pendingDeps' \in [Node -> Nat]
           /\ dependents' \in [Node -> SUBSET (Node \X Nat)]
           /\ demands' \in [Node -> SUBSET Demand]
           /\ Births'
           /\ EdgesExact'
           /\ CounterExact'
           /\ InputsSettled'
<1>1. state' \in [Node -> NodeState]
  BY DEF Settling, Settle, NodeState, Live
<1>2. demands' \in [Node -> SUBSET Demand]
  BY DEF Settling, Settle, TypeOK
<1>3. Births'
  <2>1. ASSUME NEW n \in Node
        PROVE  /\ n > born <=> state'[n] = "Unborn"
               /\ n <= born => key[n] \in Key
               /\ n > born => dependents'[n] = {} /\ deps'[n] = <<>> /\ predecessor'[n] = None
               /\ \A i \in Slots(n)' : Input(n, i)' < n
    BY SettlingLive, SettlingInputs DEF Births, Settling, Settle
  <2>2. QED
    BY <2>1 DEF Births
<1>4. QED
  BY <1>1, <1>2, <1>3, SettlingCounters, SettlingEdges, SettlingKeepsInputsSettled

-----------------------------------------------------------------------------
(***************************************************************************)
(* Steps that leave the nodes alone                                        *)
(***************************************************************************)
LEMMA NodesUntouched ==
    ASSUME IndInv, UNCHANGED <<key, state, pendingDeps, deps, predecessor, dependents, born>>
    PROVE  Births' /\ EdgesExact' /\ CounterExact' /\ InputsSettled'
<1>1. \A n \in Node : Slots(n)' = Slots(n) /\ \A i \in Slots(n) : Input(n, i)' = Input(n, i)
  BY DEF Slots, Input
<1>2. \A n \in Node : LiveInputs(n)' = LiveInputs(n)
  BY <1>1 DEF LiveInputs
<1>3. Births'
  BY <1>1 DEF IndInv, Births
<1>4. EdgesExact'
  <2>1. \A c \in Node : \A e \in dependents[c] : e[1] \in Node
    BY DEF IndInv, TypeOK
  <2>2. \A m \in Node : \A i \in LiveInputs(m) : i \in Slots(m)
    BY DEF LiveInputs
  <2>3. QED
    BY <1>1, <1>2, <2>1, <2>2 DEF IndInv, EdgesExact
<1>5. CounterExact'
  BY <1>2 DEF IndInv, CounterExact
<1>6. InputsSettled'
  BY <1>1 DEF IndInv, InputsSettled
<1>7. QED
  BY <1>3, <1>4, <1>5, <1>6

\* A step of the handles, of the pool or of the callers that touches no node, no
\* queue and no expansion.
Aside ==
    /\ UNCHANGED <<nodeVars, queueVars, expandVars>>
    /\ shutdown' = "no" <=> shutdown = "no"
    /\ \A w \in Worker, n \in Node : Runs(w, n)' <=> Runs(w, n)
    /\ \A w \in Worker : worker'[w].pc = "running" => worker'[w].node # None

LEMMA AsideSound ==
    ASSUME IndInv, Aside, TypeOK', ExpansionSound', RetireQuiet'
    PROVE  IndInv'
<1>1. Births' /\ EdgesExact' /\ CounterExact' /\ InputsSettled'
  BY NodesUntouched DEF Aside, nodeVars
<1>2. MapSound'
  BY DEF IndInv, MapSound, Aside, nodeVars, queueVars
<1>3. OnePlace'
  BY DEF IndInv, OnePlace, Aside, nodeVars, queueVars, InMap
<1>4. PredecessorLinked'
  BY DEF IndInv, PredecessorLinked, Aside, nodeVars
<1>5. QED
  BY <1>1, <1>2, <1>3, <1>4 DEF IndInv

LEMMA HandleType ==
    IndInv => demand \in [Demand -> [phase : Phase, outstanding : Int,
                                     notProduced : Nat, aborted : BOOLEAN]]
BY DEF IndInv, TypeOK

\* The consumer's side of a handle: refused, admitted, waited for.
LEMMA HandleStep ==
    ASSUME IndInv, NEW d \in Demand,
           RequestRefused(d) \/ RequestAdmitted(d) \/ WaitReturn(d)
    PROVE  IndInv'
<1>0. /\ UNCHANGED <<nodeVars, queueVars, expandVars, worker, retire>>
      /\ shutdown' = shutdown
      /\ \E ph \in Phase : SetPhase(d, ph)
  BY DEF RequestRefused, RequestAdmitted, WaitReturn, Phase
<1>1. TypeOK'
  <2>1. demand' \in [Demand -> [phase : Phase, outstanding : Int,
                                notProduced : Nat, aborted : BOOLEAN]]
    BY <1>0, HandleType DEF SetPhase
  <2>2. QED
    BY <1>0, <2>1 DEF IndInv, TypeOK, nodeVars, queueVars, expandVars
<1>2. ExpansionSound' /\ RetireQuiet'
  BY <1>0 DEF IndInv, ExpansionSound, InHand, RetireQuiet, nodeVars, queueVars, expandVars
<1>3. Aside
  BY <1>0 DEF Aside, Runs, IndInv, OnePlace
<1>4. QED
  BY <1>0, <1>1, <1>2, <1>3, AsideSound

\* A worker notifies a demand, or leaves the pool.
LEMMA NotifyStep ==
    ASSUME IndInv, NEW w \in Worker, NEW d \in Demand, Notify(w, d)
    PROVE  IndInv'
<1>0. /\ UNCHANGED <<nodeVars, queueVars, expandVars, retire>>
      /\ shutdown' = shutdown
      /\ worker[w].pc = "notifying"
      /\ worker' = [worker EXCEPT ![w] = HandsOver(worker[w].node, worker[w].toNotify \ {d})]
      /\ demand' = [demand EXCEPT ![d].outstanding = @ - 1]
  BY DEF Notify
<1>1. HandsOver(worker[w].node, worker[w].toNotify \ {d}).pc # "running"
  BY DEF HandsOver, IdleWorker
<1>2. TypeOK'
  <2>1. worker' \in [Worker -> [pc : {"idle", "running", "notifying", "exited"},
                                node : Node \cup {None}, toNotify : SUBSET Demand]]
    BY <1>0 DEF IndInv, TypeOK, HandsOver, IdleWorker
  <2>2. demand' \in [Demand -> [phase : Phase, outstanding : Int,
                                notProduced : Nat, aborted : BOOLEAN]]
    BY <1>0, HandleType
  <2>3. QED
    BY <1>0, <2>1, <2>2 DEF IndInv, TypeOK, nodeVars, queueVars, expandVars
<1>3. ExpansionSound' /\ RetireQuiet'
  BY <1>0 DEF IndInv, ExpansionSound, InHand, RetireQuiet, nodeVars, queueVars, expandVars
<1>4. Aside
  <2>1. \A v \in Worker : worker'[v] = IF v = w THEN HandsOver(worker[w].node, worker[w].toNotify \ {d})
                                                ELSE worker[v]
    BY <1>0 DEF IndInv, TypeOK
  <2>2. \A v \in Worker, n \in Node : Runs(v, n)' <=> Runs(v, n)
    BY <1>0, <1>1, <2>1 DEF Runs
  <2>3. \A v \in Worker : worker'[v].pc = "running" => worker'[v].node # None
    BY <1>1, <2>1 DEF IndInv, OnePlace
  <2>4. QED
    BY <1>0, <2>2, <2>3 DEF Aside
<1>5. QED
  BY <1>0, <1>1, <1>2, <1>3, <1>4, AsideSound

LEMMA ExitStep ==
    ASSUME IndInv, NEW w \in Worker, Exit(w)
    PROVE  IndInv'
<1>0. /\ UNCHANGED <<nodeVars, queueVars, expandVars, demand, retire>>
      /\ shutdown' = shutdown
      /\ worker[w].pc = "idle"
      /\ worker' = [worker EXCEPT ![w].pc = "exited"]
  BY DEF Exit
<1>1. TypeOK'
  <2>1. worker' \in [Worker -> [pc : {"idle", "running", "notifying", "exited"},
                               node : Node \cup {None}, toNotify : SUBSET Demand]]
    <3>1. worker \in [Worker -> [pc : {"idle", "running", "notifying", "exited"},
                                 node : Node \cup {None}, toNotify : SUBSET Demand]]
      BY DEF IndInv, TypeOK
    <3>2. QED
      BY <1>0, <3>1
  <2>2. QED
    BY <1>0, <2>1 DEF IndInv, TypeOK, nodeVars, queueVars, expandVars
<1>2. ExpansionSound' /\ RetireQuiet'
  BY <1>0 DEF IndInv, ExpansionSound, InHand, RetireQuiet, nodeVars, queueVars, expandVars
<1>3. Aside
  BY <1>0 DEF Aside, Runs, IndInv, TypeOK, OnePlace
<1>4. QED
  BY <1>0, <1>1, <1>2, <1>3, AsideSound

\* The later steps of a retirement.
LEMMA RetireDrainedStep ==
    ASSUME IndInv, RetireDrained
    PROVE  IndInv'
<1>0. /\ UNCHANGED <<nodeVars, queueVars, expandVars, demand, worker>>
      /\ shutdown' = shutdown
      /\ retire.phase = "drain"
      /\ retire' = [retire EXCEPT !.phase = "notify"]
      /\ \A n \in Node : InMap(n) /\ key[n][1] \in retire.comps => state[n] # "Running"
  BY DEF RetireDrained
<1>1. TypeOK'
  BY <1>0 DEF IndInv, TypeOK, nodeVars, queueVars, expandVars
<1>2. retire'.phase = "notify" /\ retire'.comps = retire.comps
  BY <1>0 DEF IndInv, TypeOK
<1>3. ExpansionSound'
  BY <1>0, <1>2 DEF IndInv, ExpansionSound, InHand, nodeVars, queueVars, expandVars
<1>4. RetireQuiet'
  <2>1. ASSUME NEW n \in Node, shutdown = "no", state[n] \in Live, key[n][1] \in retire.comps
        PROVE  FALSE
    <3>1. state[n] = "Running"
      BY <1>0, <2>1 DEF IndInv, RetireQuiet
    <3>2. InMap(n)
      BY <2>1 DEF IndInv, OnePlace
    <3>3. QED
      BY <1>0, <2>1, <3>1, <3>2
  <2>2. QED
    BY <1>0, <1>2, <2>1 DEF RetireQuiet, nodeVars
<1>5. Aside
  BY <1>0 DEF Aside, Runs, IndInv, OnePlace
<1>6. QED
  BY <1>0, <1>1, <1>2, <1>3, <1>4, <1>5, AsideSound

LEMMA RetireOrphanStep ==
    ASSUME IndInv, NEW n \in Node, NEW d \in Demand, RetireOrphan(n, d)
    PROVE  IndInv'
<1>0. /\ UNCHANGED <<nodeVars, queueVars, expandVars, worker>>
      /\ shutdown' = shutdown
      /\ retire' = [retire EXCEPT !.orphaned = @ \ {<<n, d>>}]
      /\ demand' = [demand EXCEPT ![d].outstanding = @ - 1, ![d].notProduced = @ + 1]
  BY DEF RetireOrphan
<1>1. TypeOK'
  <2>1. demand' \in [Demand -> [phase : Phase, outstanding : Int,
                                notProduced : Nat, aborted : BOOLEAN]]
    BY <1>0, HandleType
  <2>2. retire' \in [phase : {"none", "drain", "notify"}, comps : SUBSET Component,
                     orphaned : SUBSET (Node \X Demand)]
    BY <1>0 DEF IndInv, TypeOK
  <2>3. QED
    BY <1>0, <2>1, <2>2 DEF IndInv, TypeOK, nodeVars, queueVars, expandVars
<1>2. retire'.phase = retire.phase /\ retire'.comps = retire.comps
  BY <1>0 DEF IndInv, TypeOK
<1>3. ExpansionSound' /\ RetireQuiet'
  BY <1>0, <1>2 DEF IndInv, ExpansionSound, InHand, RetireQuiet, nodeVars, queueVars, expandVars
<1>4. Aside
  BY <1>0 DEF Aside, Runs, IndInv, OnePlace
<1>5. QED
  BY <1>0, <1>1, <1>2, <1>3, <1>4, AsideSound

LEMMA RetireReturnStep ==
    ASSUME IndInv, RetireReturn
    PROVE  IndInv'
<1>0. /\ UNCHANGED <<nodeVars, queueVars, expandVars, demand, worker>>
      /\ shutdown' = shutdown
      /\ retire' = NoRetire
  BY DEF RetireReturn
<1>1. TypeOK'
  BY <1>0 DEF IndInv, TypeOK, NoRetire, nodeVars, queueVars, expandVars
<1>2. ExpansionSound' /\ RetireQuiet'
  BY <1>0 DEF IndInv, ExpansionSound, InHand, RetireQuiet, NoRetire, nodeVars, queueVars, expandVars
<1>3. Aside
  BY <1>0 DEF Aside, Runs, IndInv, OnePlace
<1>4. QED
  BY <1>0, <1>1, <1>2, <1>3, AsideSound

LEMMA ShutdownReturnStep ==
    ASSUME IndInv, ShutdownReturn
    PROVE  IndInv'
<1>0. /\ UNCHANGED <<nodeVars, queueVars, expandVars, demand, worker, retire>>
      /\ shutdown = "joining" /\ shutdown' = "joined"
  BY DEF ShutdownReturn
<1>1. TypeOK'
  BY <1>0 DEF IndInv, TypeOK, nodeVars, queueVars, expandVars
<1>2. ExpansionSound' /\ RetireQuiet'
  BY <1>0 DEF IndInv, ExpansionSound, InHand, RetireQuiet, nodeVars, queueVars, expandVars
<1>3. Aside
  BY <1>0 DEF Aside, Runs, IndInv, OnePlace
<1>4. QED
  BY <1>0, <1>1, <1>2, <1>3, AsideSound

-----------------------------------------------------------------------------
(***************************************************************************)
(* shutdown, and the pool: claim and completion                            *)
(***************************************************************************)
LEMMA ShutdownBeginStep ==
    ASSUME IndInv, ShutdownBegin
    PROVE  IndInv'
<1>0. /\ UNCHANGED <<key, state, pendingDeps, deps, predecessor, dependents, born>>
      /\ UNCHANGED <<expandVars, worker, retire>>
      /\ retire.phase = "none"
      /\ shutdown' = "joining"
      /\ graphReady' = {}
      /\ graphNodes' = [k \in Key |-> None]
      /\ demands' = [n \in Node |-> IF InMap(n) THEN {} ELSE demands[n]]
      /\ demand' = [d \in Demand |-> IF \E n \in Node : InMap(n) /\ d \in demands[n]
                                     THEN [demand[d] EXCEPT !.aborted = TRUE] ELSE demand[d]]
  BY DEF ShutdownBegin
<1>1. TypeOK'
  <2>1. demand' \in [Demand -> [phase : Phase, outstanding : Int,
                                notProduced : Nat, aborted : BOOLEAN]]
    BY <1>0, HandleType
  <2>2. demands' \in [Node -> SUBSET Demand]
    BY <1>0 DEF IndInv, TypeOK
  <2>3. QED
    BY <1>0, <2>1, <2>2 DEF IndInv, TypeOK, expandVars
<1>2. Births' /\ EdgesExact' /\ CounterExact' /\ InputsSettled'
  BY <1>0, NodesUntouched
<1>3. MapSound'
  BY <1>0 DEF MapSound
<1>4. ExpansionSound'
  BY <1>0 DEF IndInv, ExpansionSound, InHand, expandVars
<1>5. OnePlace'
  BY <1>0 DEF IndInv, OnePlace, Runs
<1>6. PredecessorLinked'
  BY <1>0 DEF IndInv, PredecessorLinked
<1>7. RetireQuiet'
  BY <1>0 DEF RetireQuiet
<1>8. QED
  BY <1>1, <1>2, <1>3, <1>4, <1>5, <1>6, <1>7 DEF IndInv

LEMMA ClaimStep ==
    ASSUME IndInv, NEW w \in Worker, NEW n \in Node, Claim(w, n)
    PROVE  IndInv'
<1>0. /\ UNCHANGED <<key, pendingDeps, deps, predecessor, dependents, demands, born>>
      /\ UNCHANGED <<graphNodes, expandVars, demand, retire>>
      /\ shutdown' = shutdown /\ shutdown = "no"
      /\ worker[w].pc = "idle"
      /\ n \in graphReady
      /\ graphReady' = graphReady \ {n}
      /\ state' = [state EXCEPT ![n] = "Running"]
      /\ worker' = [worker EXCEPT ![w] = [pc |-> "running", node |-> n, toNotify |-> {}]]
  BY DEF Claim
<1>1. state[n] = "Ready"
  BY <1>0 DEF IndInv, OnePlace
<1>2. /\ state' \in [Node -> NodeState]
      /\ \A m \in Node : state'[m] = IF m = n THEN "Running" ELSE state[m]
  BY <1>0 DEF IndInv, TypeOK, NodeState, Live
<1>3. /\ worker' \in [Worker -> [pc : {"idle", "running", "notifying", "exited"},
                                 node : Node \cup {None}, toNotify : SUBSET Demand]]
      /\ \A v \in Worker : v # w => worker'[v] = worker[v]
      /\ worker'[w].pc = "running" /\ worker'[w].node = n
  BY <1>0 DEF IndInv, TypeOK
<1>4. TypeOK'
  BY <1>0, <1>2, <1>3 DEF IndInv, TypeOK, expandVars
<1>5. /\ \A m \in Node : state'[m] \in Live <=> state[m] \in Live
      /\ \A m \in Node : state'[m] = "Unborn" <=> state[m] = "Unborn"
      /\ \A m \in Node : state'[m] \in Settled <=> state[m] \in Settled
      /\ \A m \in Node : state'[m] = "Waiting" <=> state[m] = "Waiting"
  BY <1>1, <1>2 DEF Live, Settled
<1>6. \A m \in Node : Slots(m)' = Slots(m) /\ \A i \in Slots(m) : Input(m, i)' = Input(m, i)
  BY <1>0 DEF Slots, Input
<1>7. \A m \in Node : \A i \in Slots(m) : Input(m, i) \in Node \cup {None}
  BY InputsAreNodes DEF IndInv
<1>8. \A m \in Node : LiveInputs(m)' = LiveInputs(m)
  BY <1>5, <1>6, <1>7 DEF LiveInputs
<1>9. Births'
  BY <1>0, <1>5, <1>6 DEF IndInv, Births
<1>10. EdgesExact'
  <2>1. \A c \in Node : \A e \in dependents[c] : e[1] \in Node
    BY DEF IndInv, TypeOK
  <2>2. \A m \in Node : \A i \in LiveInputs(m) : i \in Slots(m)
    BY DEF LiveInputs
  <2>3. QED
    BY <1>0, <1>5, <1>6, <1>8, <2>1, <2>2 DEF IndInv, EdgesExact
<1>11. CounterExact'
  BY <1>0, <1>5, <1>8 DEF IndInv, CounterExact
<1>12. InputsSettled'
  BY <1>1, <1>2, <1>5, <1>6, <1>7 DEF IndInv, InputsSettled
<1>13. MapSound'
  BY <1>0, <1>5 DEF IndInv, MapSound, TypeOK
<1>14. ExpansionSound'
  <2>1. InHand' = InHand
    BY <1>0, <1>1, <1>2 DEF InHand
  <2>2. QED
    BY <1>0, <2>1 DEF IndInv, ExpansionSound, expandVars
<1>15. OnePlace'
  <2>1. \A v \in Worker, m \in Node : Runs(v, m)' <=> IF v = w THEN m = n ELSE Runs(v, m)
    BY <1>0, <1>3 DEF Runs
  <2>2. ~ \E v \in Worker : Runs(v, n)
    BY <1>1 DEF IndInv, OnePlace
  <2>3. ~ \E m \in Node : Runs(w, m)
    BY <1>0 DEF Runs
  <2>4. n # None
    BY DEF Node, None
  <2>5. \A v \in Worker : worker'[v].pc = "running" => worker'[v].node # None
    BY <1>3, <2>4 DEF IndInv, OnePlace
  <2>6. \A m \in graphReady' : state'[m] = "Ready"
    BY <1>0, <1>2 DEF IndInv, OnePlace, TypeOK
  <2>7. \A m \in Node : state'[m] = "Running" <=> \E v \in Worker : Runs(v, m)'
    BY <1>2, <2>1, <2>2, <2>3 DEF IndInv, OnePlace
  <2>8. \A m \in Node, w1, w2 \in Worker : Runs(w1, m)' /\ Runs(w2, m)' => w1 = w2
    BY <2>1, <2>2 DEF IndInv, OnePlace
  <2>9. \A m \in Node : /\ state'[m] = "Ready" => m \in graphReady'
                        /\ state'[m] \in Live => InMap(m)'
    BY <1>0, <1>2, <1>5 DEF IndInv, OnePlace, InMap
  <2>10. QED
    BY <2>5, <2>6, <2>7, <2>8, <2>9 DEF OnePlace
<1>16. PredecessorLinked'
  BY <1>0, <1>5 DEF IndInv, PredecessorLinked
<1>17. RetireQuiet'
  BY <1>0, <1>1, <1>2, <1>5 DEF IndInv, RetireQuiet
<1>18. QED
  BY <1>4, <1>9, <1>10, <1>11, <1>12, <1>13, <1>14, <1>15, <1>16, <1>17 DEF IndInv

\* A completion settles one node.
LEMMA CompleteStep ==
    ASSUME IndInv, NEW w \in Worker, Complete(w)
    PROVE  IndInv'
<1> DEFINE n  == worker[w].node
           st == [state EXCEPT ![n] = "Done"]
           S  == {n}
<1>0. /\ UNCHANGED <<key, deps, predecessor, born, expandVars, demand, retire>>
      /\ shutdown' = shutdown
      /\ worker[w].pc = "running"
      /\ Settle(st, S)
      /\ graphReady' = graphReady \cup Promoted(st, S)
      /\ graphNodes' = [graphNodes EXCEPT ![key[n]] = None]
      /\ worker' = [worker EXCEPT ![w] = HandsOver(n, demands[n])]
  BY DEF Complete
<1>1. n \in Node /\ Runs(w, n) /\ state[n] = "Running"
  BY <1>0 DEF IndInv, OnePlace, TypeOK, Runs
<1>2. Settling(S, st)
  <2>1. st \in [Node -> NodeState] /\ \A m \in Node : st[m] = IF m = n THEN "Done" ELSE state[m]
    BY <1>1 DEF IndInv, TypeOK, NodeState
  <2>2. QED
    BY <1>0, <1>1, <2>1 DEF Settling, Live, Settled
<1>3. /\ state' \in [Node -> NodeState]
      /\ pendingDeps' \in [Node -> Nat]
      /\ dependents' \in [Node -> SUBSET (Node \X Nat)]
      /\ demands' \in [Node -> SUBSET Demand]
      /\ Births' /\ EdgesExact' /\ CounterExact' /\ InputsSettled'
  BY <1>0, <1>2, SettlingSound DEF IndInv
<1>4. /\ state'[n] = "Done"
      /\ \A m \in Node : m # n /\ m \notin Promoted(st, S) => state'[m] = state[m]
      /\ \A m \in Promoted(st, S) : /\ m \in Node /\ m # n
                                    /\ state[m] = "Waiting" /\ state'[m] = "Ready"
      /\ \A m \in Node : state'[m] \in Live <=> state[m] \in Live /\ m # n
  <2>1. st[n] = "Done"
    BY <1>1 DEF IndInv, TypeOK
  <2>2. n \in Node /\ S = {n}
    BY <1>1
  <2> HIDE DEF n, st, S
  <2>3. QED
    BY <1>2, <2>1, <2>2, SettlingStates, SettlingLive DEF IndInv
<1>5. /\ worker' \in [Worker -> [pc : {"idle", "running", "notifying", "exited"},
                                 node : Node \cup {None}, toNotify : SUBSET Demand]]
      /\ \A v \in Worker : v # w => worker'[v] = worker[v]
      /\ worker'[w].pc # "running"
  <2>1. HandsOver(n, demands[n]) \in [pc : {"idle", "running", "notifying", "exited"},
                                      node : Node \cup {None}, toNotify : SUBSET Demand]
        /\ HandsOver(n, demands[n]).pc # "running"
    BY <1>1 DEF HandsOver, IdleWorker, IndInv, TypeOK
  <2>2. QED
    BY <1>0, <2>1 DEF IndInv, TypeOK
<1>6. TypeOK'
  <2>1. graphNodes' \in [Key -> Node \cup {None}]
    BY <1>0 DEF IndInv, TypeOK
  <2>2. graphReady' \subseteq Node
    BY <1>0, <1>4 DEF IndInv, TypeOK
  <2>3. QED
    BY <1>0, <1>3, <1>5, <2>1, <2>2 DEF IndInv, TypeOK, expandVars
<1>7. key[n] \in Key /\ \A k \in Key : graphNodes'[k] = IF k = key[n] THEN None ELSE graphNodes[k]
  <2>1. key[n] \in Key
    BY <1>1, NodesAssumption DEF IndInv, Births, TypeOK, Node
  <2>2. QED
    BY <1>0, <2>1 DEF IndInv, TypeOK
<1>8. MapSound'
  <2>1. ASSUME NEW k \in Key, graphNodes'[k] # None
        PROVE  /\ graphNodes'[k] <= born
               /\ key[graphNodes'[k]] = k
               /\ state'[graphNodes'[k]] \in Live
    <3>1. k # key[n] /\ graphNodes'[k] = graphNodes[k] /\ graphNodes[k] \in Node
      BY <1>7, <2>1 DEF IndInv, TypeOK
    <3>2. graphNodes[k] <= born /\ key[graphNodes[k]] = k /\ state[graphNodes[k]] \in Live
      BY <2>1, <3>1 DEF IndInv, MapSound
    <3>3. QED
      BY <1>4, <3>1, <3>2
  <2>2. QED
    BY <1>0, <2>1 DEF MapSound
<1>9. ExpansionSound'
  <2>1. InHand' = InHand
    BY <1>0, <1>1, <1>4 DEF InHand
  <2>2. QED
    BY <1>0, <2>1 DEF IndInv, ExpansionSound, expandVars
<1>10. OnePlace'
  <2>1. \A v \in Worker, m \in Node : Runs(v, m)' <=> v # w /\ Runs(v, m)
    BY <1>5 DEF Runs
  <2>2. \A v \in Worker : Runs(v, n) => v = w
    BY <1>1 DEF IndInv, OnePlace
  <2>3. \A m \in Node : Runs(w, m) => m = n
    BY DEF Runs
  <2>4. \A v \in Worker : worker'[v].pc = "running" => worker'[v].node # None
    BY <1>5 DEF IndInv, OnePlace
  <2>5. \A m \in graphReady' : state'[m] = "Ready"
    <3>1. ASSUME NEW m \in graphReady
          PROVE  state'[m] = "Ready"
      <4>1. m \in Node /\ state[m] = "Ready" /\ m # n
        BY <1>1 DEF IndInv, OnePlace, TypeOK
      <4>2. QED
        BY <1>4, <4>1
    <3>2. QED
      BY <1>0, <1>4, <3>1
  <2>6. ASSUME NEW m \in Node
        PROVE  state'[m] = "Running" <=> \E v \in Worker : Runs(v, m)'
    <3>1. state'[m] = "Running" <=> state[m] = "Running" /\ m # n
      BY <1>4
    <3>2. (\E v \in Worker : Runs(v, m)') <=> (\E v \in Worker : Runs(v, m)) /\ m # n
      BY <1>1, <2>1, <2>2, <2>3
    <3>3. QED
      BY <3>1, <3>2 DEF IndInv, OnePlace
  <2>7. \A m \in Node, w1, w2 \in Worker : Runs(w1, m)' /\ Runs(w2, m)' => w1 = w2
    BY <2>1 DEF IndInv, OnePlace
  <2>8. ASSUME shutdown = "no", NEW m \in Node
        PROVE  /\ state'[m] = "Ready" => m \in graphReady'
               /\ state'[m] \in Live => InMap(m)'
    <3>1. state'[m] = "Ready" => m \in graphReady'
      BY <1>0, <1>4, <2>8 DEF IndInv, OnePlace
    <3>2. ASSUME state'[m] \in Live
          PROVE  InMap(m)'
      <4>1. m # n /\ InMap(m) /\ InMap(n)
        BY <1>1, <1>4, <2>8, <3>2 DEF IndInv, OnePlace, Live
      <4>2. key[m] # key[n] /\ key[m] \in Key
        BY <4>1 DEF InMap, IndInv, Births
      <4>3. QED
        BY <1>0, <1>7, <4>1, <4>2 DEF InMap
    <3>3. QED
      BY <3>1, <3>2
  <2>9. QED
    BY <1>0, <2>4, <2>5, <2>6, <2>7, <2>8 DEF OnePlace
<1>11. PredecessorLinked'
  BY <1>0, <1>4 DEF IndInv, PredecessorLinked
<1>12. RetireQuiet'
  <2>1. retire' = retire /\ shutdown' = shutdown /\ key' = key
    BY <1>0
  <2> HIDE DEF n, st, S
  <2>2. ASSUME retire.phase # "none", shutdown = "no",
               NEW m \in Node, state'[m] \in Live, key[m][1] \in retire.comps
        PROVE  state'[m] = "Running" /\ retire.phase = "drain"
    <3>1. state[m] \in Live /\ m # n
      BY <1>4, <2>2
    <3>2. state[m] = "Running" /\ retire.phase = "drain"
      BY <2>2, <3>1 DEF IndInv, RetireQuiet
    <3>3. QED
      BY <1>4, <3>1, <3>2
  <2>3. QED
    BY <2>1, <2>2 DEF RetireQuiet
<1>13. QED
  BY <1>3, <1>6, <1>8, <1>9, <1>10, <1>11, <1>12 DEF IndInv

\* The first critical section of a retirement settles every node it drops.
LEMMA RetireBeginStep ==
    ASSUME IndInv, NEW comps \in SUBSET Component, RetireBegin(comps)
    PROVE  IndInv'
<1> DEFINE dropped == {n \in Node : /\ InMap(n)
                                    /\ key[n][1] \in comps
                                    /\ state[n] \notin {"Running", "Done"}}
           st == [n \in Node |-> IF n \in dropped THEN "Dropped" ELSE state[n]]
<1>0. /\ UNCHANGED <<key, deps, predecessor, born, expandVars, demand, worker>>
      /\ shutdown' = shutdown
      /\ retire.phase = "none" /\ expander = NoDemand
      /\ Settle(st, dropped)
      /\ graphReady' = (graphReady \ dropped) \cup Promoted(st, dropped)
      /\ graphNodes' = [k \in Key |-> IF graphNodes[k] \in dropped THEN None ELSE graphNodes[k]]
      /\ retire' = [phase |-> "drain", comps |-> comps,
                    orphaned |-> UNION {{n} \X demands[n] : n \in dropped}]
  BY DEF RetireBegin
<1>1. \A n \in dropped : n \in Node /\ state[n] \in {"Waiting", "Ready"}
  <2>1. ASSUME NEW n \in dropped
        PROVE  state[n] \in Live
    <3>1. n \in Node /\ n <= born /\ graphNodes[key[n]] = n
      BY DEF InMap
    <3>2. key[n] \in Key /\ n # None
      BY <3>1 DEF IndInv, Births, Node, None
    <3>3. QED
      BY <3>1, <3>2 DEF IndInv, MapSound
  <2>2. QED
    BY <2>1 DEF Live
<1>2. Settling(dropped, st)
  BY <1>0, <1>1 DEF Settling, Live, Settled, IndInv, TypeOK, NodeState
<1>3. /\ state' \in [Node -> NodeState]
      /\ pendingDeps' \in [Node -> Nat]
      /\ dependents' \in [Node -> SUBSET (Node \X Nat)]
      /\ demands' \in [Node -> SUBSET Demand]
      /\ Births' /\ EdgesExact' /\ CounterExact' /\ InputsSettled'
  BY <1>0, <1>2, SettlingSound DEF IndInv
<1>4. /\ \A n \in dropped : state'[n] = "Dropped"
      /\ \A m \in Node : m \notin dropped /\ m \notin Promoted(st, dropped) => state'[m] = state[m]
      /\ \A m \in Promoted(st, dropped) : /\ m \in Node /\ m \notin dropped
                                          /\ state[m] = "Waiting" /\ state'[m] = "Ready"
      /\ \A m \in Node : state'[m] \in Live <=> state[m] \in Live /\ m \notin dropped
  <2>1. \A n \in dropped : st[n] = "Dropped"
    OBVIOUS
  <2>2. dropped \subseteq Node
    OBVIOUS
  <2> HIDE DEF dropped, st
  <2>3. QED
    BY <1>2, <2>1, <2>2, SettlingStates, SettlingLive DEF IndInv
<1>5. TypeOK'
  <2>1. graphNodes' \in [Key -> Node \cup {None}]
    BY <1>0 DEF IndInv, TypeOK
  <2>2. graphReady' \subseteq Node
    BY <1>0, <1>4 DEF IndInv, TypeOK
  <2>3. retire' \in [phase : {"none", "drain", "notify"}, comps : SUBSET Component,
                     orphaned : SUBSET (Node \X Demand)]
    BY <1>0 DEF IndInv, TypeOK
  <2>4. QED
    BY <1>0, <1>3, <2>1, <2>2, <2>3 DEF IndInv, TypeOK, expandVars
<1>6. MapSound'
  <2>1. ASSUME NEW k \in Key, graphNodes'[k] # None
        PROVE  /\ graphNodes'[k] <= born
               /\ key[graphNodes'[k]] = k
               /\ state'[graphNodes'[k]] \in Live
    <3>1. graphNodes'[k] = graphNodes[k] /\ graphNodes[k] \notin dropped /\ graphNodes[k] \in Node
      BY <1>0, <2>1 DEF IndInv, TypeOK
    <3>2. graphNodes[k] <= born /\ key[graphNodes[k]] = k /\ state[graphNodes[k]] \in Live
      BY <2>1, <3>1 DEF IndInv, MapSound
    <3>3. QED
      BY <1>4, <3>1, <3>2
  <2>2. QED
    BY <1>0, <2>1 DEF MapSound
<1>7. ExpansionSound'
  <2>1. stack = <<>> /\ rootNodes = <<>>
    BY <1>0 DEF IndInv, ExpansionSound
  <2>2. stack' = <<>> /\ rootNodes' = <<>> /\ expander' = NoDemand
    BY <1>0, <2>1 DEF expandVars
  <2>3. QED
    BY <2>2, EmptySeq DEF ExpansionSound
<1>8. OnePlace'
  <2>1. \A v \in Worker, m \in Node : Runs(v, m)' <=> Runs(v, m)
    BY <1>0 DEF Runs
  <2>2. \A v \in Worker : worker'[v].pc = "running" => worker'[v].node # None
    BY <1>0 DEF IndInv, OnePlace
  <2>3. \A m \in graphReady' : state'[m] = "Ready"
    <3>1. \A m \in graphReady : m \in Node /\ state[m] = "Ready"
      BY DEF IndInv, TypeOK, OnePlace
    <3>2. graphReady' = (graphReady \ dropped) \cup Promoted(st, dropped)
      BY <1>0
    <3> HIDE DEF dropped, st
    <3>3. QED
      BY <1>4, <3>1, <3>2
  <2>4. \A m \in Node : state'[m] = "Running" <=> state[m] = "Running"
    BY <1>1, <1>4
  <2>5. \A m \in Node : state'[m] = "Running" <=> \E v \in Worker : Runs(v, m)'
    BY <2>1, <2>4 DEF IndInv, OnePlace
  <2>6. \A m \in Node, w1, w2 \in Worker : Runs(w1, m)' /\ Runs(w2, m)' => w1 = w2
    BY <2>1 DEF IndInv, OnePlace
  <2>7. ASSUME shutdown = "no", NEW m \in Node
        PROVE  /\ state'[m] = "Ready" => m \in graphReady'
               /\ state'[m] \in Live => InMap(m)'
    <3>1. state'[m] = "Ready" => m \in graphReady'
      BY <1>0, <1>4, <2>7 DEF IndInv, OnePlace
    <3>2. ASSUME state'[m] \in Live
          PROVE  InMap(m)'
      <4>1. m \notin dropped /\ InMap(m)
        BY <1>4, <2>7, <3>2 DEF IndInv, OnePlace
      <4>2. key[m] \in Key
        BY <4>1 DEF InMap, IndInv, Births
      <4>3. QED
        BY <1>0, <4>1, <4>2 DEF InMap
    <3>3. QED
      BY <3>1, <3>2
  <2>8. QED
    BY <1>0, <2>2, <2>3, <2>5, <2>6, <2>7 DEF OnePlace
<1>9. PredecessorLinked'
  <2>1. \A m \in Node : state'[m] = "Running" <=> state[m] = "Running"
    BY <1>1, <1>4
  <2>2. QED
    BY <1>0, <1>4, <2>1 DEF IndInv, PredecessorLinked
<1>10. RetireQuiet'
  <2>1. ASSUME shutdown = "no", NEW m \in Node, state'[m] \in Live, key[m][1] \in comps
        PROVE  state'[m] = "Running"
    <3>1. m \notin dropped /\ state[m] \in Live
      BY <1>4, <2>1
    <3>2. InMap(m)
      BY <2>1, <3>1 DEF IndInv, OnePlace
    <3>3. state[m] = "Running"
      BY <2>1, <3>1, <3>2 DEF Live
    <3>4. QED
      BY <1>4, <3>1, <3>3
  <2>2. QED
    BY <1>0, <2>1 DEF RetireQuiet
<1>11. QED
  BY <1>3, <1>5, <1>6, <1>7, <1>8, <1>9, <1>10 DEF IndInv

-----------------------------------------------------------------------------
(***************************************************************************)
(* The expansion                                                           *)
(***************************************************************************)
\* A call that returns leaves well-formed frames behind, whatever set the nodes in
\* its hands are drawn from.
LEMMA HandBackSound ==
    ASSUME NEW G, NEW st \in Seq(Frame(G)), NEW ns \in Seq(G),
           roots \in Seq(Key), roots # <<>>, rootNodes \in Seq(G),
           \A j \in 1 .. Len(st) : st[j].todo # <<>>,
           HandBack(st, ns)
    PROVE  /\ roots' \in Seq(Key)
           /\ rootNodes' \in Seq(G)
           /\ stack' \in Seq(Frame(G))
           /\ stack' # <<>> => roots' # <<>>
           /\ \A j \in 2 .. Len(stack') : stack'[j].todo # <<>>
<1>1. CASE st = <<>>
  <2>1. stack' = <<>> /\ roots' = Tail(roots) /\ rootNodes' = rootNodes \o ns
    BY <1>1 DEF HandBack
  <2>2. Tail(roots) \in Seq(Key)
    BY HeadTailProperties
  <2>3. rootNodes \o ns \in Seq(G)
    BY ConcatProperties
  <2>4. stack' \in Seq(Frame(G)) /\ Len(stack') = 0
    BY <2>1, EmptySeq
  <2>5. QED
    BY <2>1, <2>2, <2>3, <2>4
<1>2. CASE st # <<>>
  <2> DEFINE f == [Head(st) EXCEPT !.todo = Tail(@), !.kids = @ \o ns]
  <2>1. stack' = <<f>> \o Tail(st) /\ roots' = roots /\ rootNodes' = rootNodes
    BY <1>2 DEF HandBack
  <2>2. /\ Head(st) \in Frame(G) /\ Head(st) = st[1] /\ Len(st) \in Nat /\ Len(st) # 0
        /\ Tail(st) \in Seq(Frame(G))
        /\ Len(Tail(st)) = Len(st) - 1
        /\ \A i \in 1 .. Len(Tail(st)) : Tail(st)[i] = st[i + 1]
    BY <1>2, HeadTailProperties, LenProperties, EmptySeq
  <2>3. Head(st).todo # <<>>
    BY <2>2
  <2>4. Tail(Head(st).todo) \in Seq(Key)
    BY <2>2, <2>3, HeadTailProperties DEF Frame
  <2>5. Head(st).kids \o ns \in Seq(G)
    BY <2>2, ConcatProperties DEF Frame
  <2>6. f \in Frame(G)
    BY <2>2, <2>4, <2>5 DEF Frame
  <2> HIDE DEF f
  <2>7. <<f>> \in Seq(Frame(G)) /\ Len(<<f>>) = 1
    BY <2>6
  <2>8. /\ stack' \in Seq(Frame(G))
        /\ Len(stack') = Len(st)
        /\ \A j \in 2 .. Len(stack') : stack'[j] = Tail(st)[j - 1]
    BY <2>1, <2>2, <2>7, ConcatProperties
  <2>9. ASSUME NEW j \in 2 .. Len(stack')
        PROVE  stack'[j].todo # <<>>
    <3>1. stack'[j] = st[j] /\ j \in 1 .. Len(st)
      BY <2>2, <2>8
    <3>2. QED
      BY <3>1
  <2>10. QED
    BY <2>1, <2>8, <2>9
<1>3. QED
  BY <1>1, <1>2

\* A node found in the map may be handed to a caller.
LEMMA MappedInHand ==
    ASSUME IndInv, NEW k \in Key, graphNodes[k] # None
    PROVE  graphNodes[k] \in InHand /\ state[graphNodes[k]] \in Live
<1>1. graphNodes[k] \in Node
  BY DEF IndInv, TypeOK
<1>2. graphNodes[k] <= born /\ state[graphNodes[k]] \in Live
  BY DEF IndInv, MapSound
<1>3. QED
  BY <1>1, <1>2 DEF InHand, Live

LEMMA InHandAreNodes ==
    /\ \A s \in Seq(InHand) : s \in Seq(Node)
    /\ \A s \in Seq(Frame(InHand)) : s \in Seq(Frame(Node))
<1>1. InHand \subseteq Node
  BY DEF InHand
<1>2. \A s \in Seq(InHand) : s \in Seq(Node)
  BY <1>1, SeqMonotonic
<1>3. Frame(InHand) \subseteq Frame(Node)
  BY <1>2 DEF Frame
<1>4. QED
  BY <1>2, <1>3, SeqMonotonic

\* What an expansion finds when a call is on top of its stack.
LEMMA StackTop ==
    ASSUME TypeOK, ExpansionSound, NEW G, stack \in Seq(Frame(G)), stack # <<>>
    PROVE  /\ Head(stack) \in Frame(G)
           /\ Tail(stack) \in Seq(Frame(G))
           /\ \A j \in 1 .. Len(Tail(stack)) : Tail(stack)[j].todo # <<>>
           /\ roots # <<>>
<1>1. /\ Head(stack) \in Frame(G)
      /\ Tail(stack) \in Seq(Frame(G))
      /\ Len(Tail(stack)) = Len(stack) - 1
      /\ \A i \in 1 .. Len(Tail(stack)) : Tail(stack)[i] = stack[i + 1]
      /\ Len(stack) \in Nat
  BY HeadTailProperties, LenProperties
<1>2. ASSUME NEW j \in 1 .. Len(Tail(stack))
      PROVE  Tail(stack)[j].todo # <<>>
  BY <1>1 DEF ExpansionSound
<1>3. QED
  BY <1>1, <1>2 DEF ExpansionSound

\* With pages left to expand, every frame of the stack is well formed.
LEMMA TodoLeft ==
    ASSUME TypeOK, ExpansionSound, Todo # <<>>
    PROVE  /\ roots # <<>>
           /\ \A j \in 1 .. Len(stack) : stack[j].todo # <<>>
           /\ Todo \in Seq(Key)
           /\ Head(Todo) \in Key
<1>1. CASE stack = <<>>
  <2>1. Todo = roots /\ Len(stack) = 0
    BY <1>1 DEF Todo
  <2>2. roots \in Seq(Key) /\ roots # <<>>
    BY <2>1 DEF TypeOK
  <2>3. Head(roots) \in Key
    BY <2>2, HeadTailProperties
  <2>4. QED
    BY <2>1, <2>2, <2>3
<1>2. CASE stack # <<>>
  <2>1. Todo = Head(stack).todo
    BY <1>2 DEF Todo
  <2>2. Head(stack) = stack[1] /\ Head(stack) \in Frame(Node) /\ Len(stack) \in Nat
    BY <1>2, HeadTailProperties, LenProperties DEF TypeOK
  <2>3. Todo \in Seq(Key)
    BY <2>1, <2>2 DEF Frame
  <2>4. \A j \in 1 .. Len(stack) : j = 1 \/ j \in 2 .. Len(stack)
    BY <2>2
  <2>5. \A j \in 1 .. Len(stack) : stack[j].todo # <<>>
    BY <2>1, <2>2, <2>4 DEF ExpansionSound
  <2>6. Head(Todo) \in Key
    BY <2>3, HeadTailProperties
  <2>7. QED
    BY <1>2, <2>3, <2>5, <2>6 DEF ExpansionSound
<1>3. QED
  BY <1>1, <1>2

\* A step of the expansion proper: only the recursion changes.
LEMMA RecursionSound ==
    ASSUME IndInv, TypeOK', ExpansionSound',
           UNCHANGED <<nodeVars, queueVars, worker, retire, shutdown>>
    PROVE  IndInv'
<1>1. Births' /\ EdgesExact' /\ CounterExact' /\ InputsSettled'
  BY NodesUntouched DEF nodeVars
<1>2. MapSound' /\ OnePlace' /\ PredecessorLinked' /\ RetireQuiet'
  BY DEF IndInv, MapSound, OnePlace, PredecessorLinked, RetireQuiet, Runs, InMap, nodeVars, queueVars
<1>3. QED
  BY <1>1, <1>2 DEF IndInv

LEMMA ExpandBeginStep ==
    ASSUME IndInv, NEW d \in Demand, NEW run \in Requests, ExpandBegin(d, run)
    PROVE  IndInv'
<1>0. /\ UNCHANGED <<nodeVars, queueVars, worker, retire, shutdown>>
      /\ retire.phase = "none"
      /\ SetPhase(d, "expanding")
      /\ expander' = d /\ roots' = run /\ rootNodes' = <<>> /\ stack' = <<>>
      /\ expander' # NoDemand
  BY DemandAssumption DEF ExpandBegin
<1>1. TypeOK'
  <2>1. demand' \in [Demand -> [phase : Phase, outstanding : Int,
                                notProduced : Nat, aborted : BOOLEAN]]
    BY <1>0, HandleType DEF SetPhase, Phase
  <2>2. run \in Seq(Key)
    BY RequestsAssumption
  <2>3. rootNodes' \in Seq(Node) /\ stack' \in Seq(Frame(Node))
    BY <1>0, EmptySeq
  <2>4. QED
    BY <1>0, <2>1, <2>2, <2>3 DEF IndInv, TypeOK, nodeVars, queueVars
<1>2. ExpansionSound'
  <2>1. rootNodes' \in Seq(InHand') /\ stack' \in Seq(Frame(InHand'))
    BY <1>0, EmptySeq
  <2>2. Len(stack') = 0
    BY <1>0
  <2>3. QED
    BY <1>0, <2>1, <2>2 DEF ExpansionSound, Frame
<1>3. QED
  BY <1>0, <1>1, <1>2, RecursionSound

\* A call that returns without a node, or with one already in the map.
LEMMA ExpandReturnStep ==
    ASSUME IndInv, ExpandTooDeep \/ ExpandFound
    PROVE  IndInv'
<1>0. /\ UNCHANGED <<nodeVars, queueVars, expander, demand, worker, retire, shutdown>>
      /\ expander # NoDemand
      /\ Todo # <<>>
      /\ \E ns \in {<<>>, <<graphNodes[Head(Todo)]>>} :
            /\ ns # <<>> => graphNodes[Head(Todo)] # None
            /\ HandBack(stack, ns)
  BY DEF ExpandTooDeep, ExpandFound
<1>1. PICK ns \in {<<>>, <<graphNodes[Head(Todo)]>>} :
            /\ ns # <<>> => graphNodes[Head(Todo)] # None
            /\ HandBack(stack, ns)
  BY <1>0
<1>2. /\ roots # <<>> /\ Head(Todo) \in Key
      /\ \A j \in 1 .. Len(stack) : stack[j].todo # <<>>
  BY <1>0, TodoLeft DEF IndInv
<1>3. ns \in Seq(InHand)
  <2>1. CASE ns = <<>>
    BY <2>1
  <2>2. CASE ns = <<graphNodes[Head(Todo)]>>
    <3>1. graphNodes[Head(Todo)] # None
      BY <1>1, <2>2
    <3>2. graphNodes[Head(Todo)] \in InHand
      BY <1>2, <3>1, MappedInHand
    <3>3. QED
      BY <2>2, <3>2
  <2>3. QED
    BY <2>1, <2>2
<1>4. stack \in Seq(Frame(InHand)) /\ rootNodes \in Seq(InHand) /\ roots \in Seq(Key)
  BY DEF IndInv, ExpansionSound, TypeOK
<1>5. /\ roots' \in Seq(Key)
      /\ rootNodes' \in Seq(InHand)
      /\ stack' \in Seq(Frame(InHand))
      /\ stack' # <<>> => roots' # <<>>
      /\ \A j \in 2 .. Len(stack') : stack'[j].todo # <<>>
  BY <1>1, <1>2, <1>3, <1>4, HandBackSound
<1>6. rootNodes' \in Seq(Node) /\ stack' \in Seq(Frame(Node))
  BY <1>5, InHandAreNodes
<1>7. TypeOK'
  BY <1>0, <1>5, <1>6 DEF IndInv, TypeOK, nodeVars, queueVars
<1>8. ExpansionSound'
  BY <1>0, <1>5 DEF IndInv, ExpansionSound, InHand, nodeVars
<1>9. QED
  BY <1>0, <1>7, <1>8, RecursionSound

\* A planned page opens a new call on top of the stack.
LEMMA ExpandPlanStep ==
    ASSUME IndInv, ExpandPlan
    PROVE  IndInv'
<1>0. /\ UNCHANGED <<nodeVars, queueVars, expander, roots, rootNodes, demand, worker, retire, shutdown>>
      /\ expander # NoDemand
      /\ Todo # <<>>
      /\ \E plan \in Plans[Head(Todo)] :
            stack' = <<[key |-> Head(Todo), todo |-> plan, kids |-> <<>>]>> \o stack
  BY DEF ExpandPlan
<1>1. /\ roots # <<>> /\ Head(Todo) \in Key
      /\ \A j \in 1 .. Len(stack) : stack[j].todo # <<>>
  BY <1>0, TodoLeft DEF IndInv
<1>2. PICK plan \in Plans[Head(Todo)] :
            stack' = <<[key |-> Head(Todo), todo |-> plan, kids |-> <<>>]>> \o stack
  BY <1>0
<1> DEFINE f == [key |-> Head(Todo), todo |-> plan, kids |-> <<>>]
<1>3. plan \in Seq(Key)
  BY <1>1, <1>2, PlansAssumption
<1>4. f \in Frame(InHand)
  BY <1>1, <1>3, EmptySeq DEF Frame
<1>5. stack \in Seq(Frame(InHand)) /\ rootNodes \in Seq(InHand)
  BY DEF IndInv, ExpansionSound
<1>6. <<f>> \in Seq(Frame(InHand)) /\ Len(<<f>>) = 1
  BY <1>4
<1> HIDE DEF f
<1>7. /\ stack' \in Seq(Frame(InHand))
      /\ Len(stack') = Len(stack) + 1 /\ Len(stack) \in Nat
      /\ \A j \in 2 .. Len(stack') : stack'[j] = stack[j - 1]
  BY <1>2, <1>5, <1>6, ConcatProperties, LenProperties DEF f
<1>8. ASSUME NEW j \in 2 .. Len(stack')
      PROVE  stack'[j].todo # <<>>
  <2>1. j - 1 \in 1 .. Len(stack)
    BY <1>7
  <2>2. QED
    BY <1>1, <1>7, <2>1
<1>9. stack' \in Seq(Frame(Node))
  BY <1>7, InHandAreNodes
<1>10. TypeOK'
  BY <1>0, <1>9 DEF IndInv, TypeOK, nodeVars, queueVars
<1>11. ExpansionSound'
  BY <1>0, <1>1, <1>5, <1>7, <1>8 DEF IndInv, ExpansionSound, InHand, nodeVars
<1>12. QED
  BY <1>0, <1>10, <1>11, RecursionSound

\* The handle is returned: the expansion ends with nothing in hand.
LEMMA AttachStep ==
    ASSUME IndInv, Attach
    PROVE  IndInv'
<1> DEFINE pending == {n \in Node : /\ \E i \in DOMAIN rootNodes : rootNodes[i] = n
                                    /\ state[n] # "Done"}
<1>0. /\ UNCHANGED <<key, state, pendingDeps, deps, predecessor, dependents, born>>
      /\ UNCHANGED <<queueVars, roots, stack, worker, retire, shutdown>>
      /\ expander # NoDemand /\ stack = <<>>
      /\ expander' = NoDemand /\ rootNodes' = <<>>
      /\ demands' = [n \in Node |-> IF n \in pending THEN demands[n] \cup {expander}
                                                     ELSE demands[n]]
      /\ demand' = [demand EXCEPT ![expander] =
                   [@ EXCEPT !.phase = "issued", !.outstanding = Cardinality(pending)]]
  BY DEF Attach
<1>1. expander \in Demand
  BY <1>0 DEF IndInv, TypeOK
<1>2. Cardinality(pending) \in Nat
  <2>1. IsFiniteSet(Node)
    BY FS_Interval, NodesAssumption DEF Node
  <2>2. IsFiniteSet(pending)
    BY <2>1, FS_Subset
  <2>3. QED
    BY <2>2, FS_CardinalityType
<1>3. TypeOK'
  <2>1. demand' \in [Demand -> [phase : Phase, outstanding : Int,
                                notProduced : Nat, aborted : BOOLEAN]]
    <3> HIDE DEF pending
    <3>1. demand[expander] \in [phase : Phase, outstanding : Int, notProduced : Nat, aborted : BOOLEAN]
      BY <1>1, HandleType
    <3>2. Cardinality(pending) \in Int
      BY <1>2
    <3>3. [demand[expander] EXCEPT !.phase = "issued", !.outstanding = Cardinality(pending)]
             \in [phase : Phase, outstanding : Int, notProduced : Nat, aborted : BOOLEAN]
      BY <3>1, <3>2 DEF Phase
    <3>4. QED
      BY <1>0, <1>1, <3>3, HandleType
  <2>2. demands' \in [Node -> SUBSET Demand]
    BY <1>0, <1>1 DEF IndInv, TypeOK
  <2>3. rootNodes' \in Seq(Node)
    BY <1>0, EmptySeq
  <2>4. QED
    BY <1>0, <2>1, <2>2, <2>3 DEF IndInv, TypeOK, queueVars
<1>4. Births' /\ EdgesExact' /\ CounterExact' /\ InputsSettled'
  BY <1>0, NodesUntouched
<1>5. ExpansionSound'
  <2>1. stack' = <<>> /\ Len(stack') = 0 /\ stack' \in Seq(Frame(InHand')) /\ rootNodes' \in Seq(InHand')
    BY <1>0, EmptySeq
  <2>2. QED
    BY <1>0, <2>1 DEF ExpansionSound
<1>6. MapSound' /\ OnePlace' /\ PredecessorLinked' /\ RetireQuiet'
  BY <1>0 DEF IndInv, MapSound, OnePlace, PredecessorLinked, RetireQuiet, Runs, InMap, queueVars
<1>7. QED
  BY <1>3, <1>4, <1>5, <1>6 DEF IndInv

\* The second burst of expandNode_: a new node, counted against exactly its live
\* inputs, and linked to the page of its component that is in flight before it.
LEMMA ExpandInsertStep ==
    ASSUME IndInv, ExpandInsert
    PROVE  IndInv'
<1>a. PICK n \in Node : n = born + 1
  <2>1. born \in 0 .. MaxNodes /\ born < MaxNodes
    BY DEF ExpandInsert, IndInv, TypeOK
  <2>2. QED
    BY <2>1, NodesAssumption DEF Node
<1> DEFINE k       == Head(stack).key
           kids    == Head(stack).kids
           pred    == PredecessorOf(k)
           open    == OpenSlots(kids, pred)
           from(i) == IF i = 0 THEN pred ELSE kids[i]
<1>0. /\ UNCHANGED <<demands, expander, demand, worker, retire, shutdown>>
      /\ expander # NoDemand
      /\ stack # <<>>
      /\ graphNodes[k] = None
      /\ born < MaxNodes
      /\ born' = n
      /\ key' = [key EXCEPT ![n] = k]
      /\ deps' = [deps EXCEPT ![n] = kids]
      /\ predecessor' = [predecessor EXCEPT ![n] = pred]
      /\ pendingDeps' = [pendingDeps EXCEPT ![n] = Cardinality(open)]
      /\ dependents' = [c \in Node |-> dependents[c] \cup {<<n, i>> : i \in {j \in open : from(j) = c}}]
      /\ state' = [state EXCEPT ![n] = IF open = {} THEN "Ready" ELSE "Waiting"]
      /\ graphReady' = IF open = {} THEN graphReady \cup {n} ELSE graphReady
      /\ graphNodes' = [graphNodes EXCEPT ![k] = n]
      /\ HandBack(Tail(stack), <<n>>)
  BY <1>a DEF ExpandInsert
<1>1. n \in Node /\ n \in Nat /\ n # None /\ born \in Nat
  BY <1>0, <1>a, NodesAssumption DEF IndInv, TypeOK, Node, None
<1>2. state[n] = "Unborn" /\ dependents[n] = {} /\ deps[n] = <<>> /\ predecessor[n] = None
  BY <1>1, <1>a DEF IndInv, Births
<1>3. /\ Head(stack) \in Frame(InHand)
      /\ Tail(stack) \in Seq(Frame(InHand))
      /\ \A j \in 1 .. Len(Tail(stack)) : Tail(stack)[j].todo # <<>>
      /\ roots # <<>>
  BY <1>0, StackTop DEF IndInv, ExpansionSound
<1>4. k \in Key /\ kids \in Seq(InHand) /\ kids \in Seq(Node) /\ Len(kids) \in Nat
  <2>1. k \in Key /\ kids \in Seq(InHand)
    BY <1>3 DEF Frame
  <2>2. QED
    BY <2>1, InHandAreNodes, LenProperties
<1>5. \A i \in 1 .. Len(kids) : kids[i] \in Node /\ kids[i] <= born /\ state[kids[i]] # "Dropped"
  BY <1>4, ElementOfSeq DEF InHand
<1>6. pred # None => pred \in Node /\ pred <= born /\ state[pred] \in Live
  <2>1. CASE k[2] > 0
    <3>1. <<k[1], k[2] - 1>> \in Key
      BY <1>4, <2>1, PageAssumption DEF Key
    <3>2. QED
      BY <2>1, <3>1, MappedInHand DEF PredecessorOf, InHand
  <2>2. CASE ~(k[2] > 0)
    BY <2>2 DEF PredecessorOf
  <2>3. QED
    BY <2>1, <2>2
<1>7. /\ open \subseteq 0 .. Len(kids)
      /\ \A i \in 0 .. Len(kids) : i \in open <=> from(i) # None /\ state[from(i)] \in Live
      /\ \A i \in 0 .. Len(kids) : from(i) # None => from(i) \in Node /\ from(i) <= born
  <2>1. open \subseteq 0 .. Len(kids)
    BY <1>4 DEF OpenSlots
  <2>2. ASSUME NEW i \in 0 .. Len(kids)
        PROVE  /\ i \in open <=> from(i) # None /\ state[from(i)] \in Live
               /\ from(i) # None => from(i) \in Node /\ from(i) <= born
    <3>1. CASE i = 0
      <4>1. from(i) = pred
        BY <3>1
      <4>2. i \in open <=> pred # None /\ state[pred] # "Done"
        BY <1>4, <3>1 DEF OpenSlots
      <4>3. QED
        BY <1>6, <4>1, <4>2 DEF Live
    <3>2. CASE i # 0
      <4>1. i \in 1 .. Len(kids) /\ from(i) = kids[i]
        BY <1>4, <3>2
      <4>2. i \in open <=> state[kids[i]] # "Done"
        BY <4>1 DEF OpenSlots
      <4>3. kids[i] # None /\ state[kids[i]] # "Unborn"
        BY <1>1, <1>5, <4>1 DEF IndInv, Births, Node, None
      <4>4. state[kids[i]] \in NodeState /\ state[kids[i]] # "Dropped" /\ kids[i] \in Node /\ kids[i] <= born
        BY <1>5, <4>1 DEF IndInv, TypeOK
      <4>5. QED
        BY <4>1, <4>2, <4>3, <4>4 DEF NodeState, Live
    <3>3. QED
      BY <3>1, <3>2
  <2>3. QED
    BY <2>1, <2>2
<1>8. IsFiniteSet(open) /\ Cardinality(open) \in Nat /\ (Cardinality(open) = 0 <=> open = {})
  <2>1. IsFiniteSet(0 .. Len(kids))
    BY <1>4, FS_Interval
  <2>2. IsFiniteSet(open)
    BY <1>7, <2>1, FS_Subset
  <2>3. QED
    BY <2>2, FS_CardinalityType, FS_EmptySet
<1> HIDE DEF k, kids, pred, open
<1>9. /\ key'[n] = k /\ deps'[n] = kids /\ predecessor'[n] = pred
      /\ pendingDeps'[n] = Cardinality(open)
      /\ state'[n] = (IF open = {} THEN "Ready" ELSE "Waiting")
      /\ \A m \in Node \ {n} : /\ key'[m] = key[m]
                               /\ deps'[m] = deps[m]
                               /\ predecessor'[m] = predecessor[m]
                               /\ pendingDeps'[m] = pendingDeps[m]
                               /\ state'[m] = state[m]
  BY <1>0, <1>1 DEF IndInv, TypeOK
<1>10. /\ state' \in [Node -> NodeState]
       /\ pendingDeps' \in [Node -> Nat]
       /\ dependents' \in [Node -> SUBSET (Node \X Nat)]
       /\ graphNodes' \in [Key -> Node \cup {None}]
       /\ graphReady' \subseteq Node
       /\ key' \in [Node -> Key \cup {<<>>}]
       /\ deps' \in [Node -> Seq(Node)]
       /\ predecessor' \in [Node -> Node \cup {None}]
       /\ born' \in 0 .. MaxNodes
  <2>1. state' \in [Node -> NodeState]
    BY <1>0, <1>1 DEF IndInv, TypeOK, NodeState, Live
  <2>2. pendingDeps' \in [Node -> Nat]
    BY <1>0, <1>8 DEF IndInv, TypeOK
  <2>3. dependents' \in [Node -> SUBSET (Node \X Nat)]
    <3>1. \A j \in open : j \in Nat
      BY <1>4, <1>7
    <3>2. \A c \in Node : {<<n, i>> : i \in {j \in open : from(j) = c}} \subseteq Node \X Nat
      BY <1>1, <3>1
    <3>3. \A c \in Node : dependents[c] \subseteq Node \X Nat
      BY DEF IndInv, TypeOK
    <3>4. QED
      BY <1>0, <3>2, <3>3
  <2>4. /\ graphNodes' \in [Key -> Node \cup {None}]
        /\ graphReady' \subseteq Node
        /\ key' \in [Node -> Key \cup {<<>>}]
    BY <1>0, <1>1, <1>4 DEF IndInv, TypeOK
  <2>5. /\ deps' \in [Node -> Seq(Node)]
        /\ predecessor' \in [Node -> Node \cup {None}]
    BY <1>0, <1>1, <1>4, <1>6 DEF IndInv, TypeOK
  <2>6. born' \in 0 .. MaxNodes
    BY <1>a, <1>0, <1>1, NodesAssumption
  <2>7. QED
    BY <2>1, <2>2, <2>3, <2>4, <2>5, <2>6
<1>11. \A m \in Node \ {n} :
          /\ Slots(m)' = Slots(m)
          /\ \A i \in Slots(m) : /\ Input(m, i)' = Input(m, i)
                                 /\ Input(m, i) \in Node \cup {None}
                                 /\ Input(m, i) # n
  <2>1. ASSUME NEW m \in Node \ {n}
        PROVE  /\ Slots(m)' = Slots(m)
               /\ \A i \in Slots(m) : Input(m, i)' = Input(m, i)
    BY <1>9 DEF Slots, Input
  <2>2. ASSUME NEW m \in Node \ {n}, NEW i \in Slots(m)
        PROVE  Input(m, i) \in Node \cup {None} /\ Input(m, i) # n
    <3>1. Input(m, i) \in Node \cup {None}
      BY InputsAreNodes DEF IndInv
    <3>2. CASE m <= born
      <4>1. Input(m, i) < m
        BY DEF IndInv, Births
      <4>2. QED
        BY <1>a, <1>1, <3>1, <3>2, <4>1 DEF Node, None
    <3>3. CASE ~(m <= born)
      <4>1. deps[m] = <<>> /\ predecessor[m] = None
        BY <1>1, <3>3 DEF IndInv, Births, Node
      <4>2. i = 0
        BY <4>1 DEF Slots
      <4>3. QED
        BY <1>1, <3>1, <4>1, <4>2 DEF Input
    <3>4. QED
      BY <3>1, <3>2, <3>3
  <2>3. QED
    BY <2>1, <2>2
<1>12. /\ Slots(n)' = 0 .. Len(kids)
       /\ \A i \in 0 .. Len(kids) : Input(n, i)' = from(i)
  BY <1>9 DEF Slots, Input
<1>13. \A c \in Node : c <= born => c # n /\ state'[c] = state[c]
  BY <1>a, <1>1, <1>9 DEF Node
<1>14. LiveInputs(n)' = open
  BY <1>7, <1>12, <1>13 DEF LiveInputs
<1>15. \A m \in Node \ {n} : LiveInputs(m)' = LiveInputs(m)
  <2>1. ASSUME NEW m \in Node \ {n}
        PROVE  LiveInputs(m)' = LiveInputs(m)
    <3>1. \A i \in Slots(m) : Input(m, i) # None => state'[Input(m, i)] = state[Input(m, i)]
      BY <1>9, <1>11
    <3>2. QED
      BY <1>11, <3>1 DEF LiveInputs
  <2>2. QED
    BY <2>1
<1>16. \A i \in open : i \in Nat /\ from(i) \in Node /\ state[from(i)] \in Live /\ from(i) <= born
  BY <1>4, <1>7
<1>17. Births'
  <2>1. ASSUME NEW m \in Node
        PROVE  /\ m > born' <=> state'[m] = "Unborn"
               /\ m <= born' => key'[m] \in Key
               /\ m > born' => dependents'[m] = {} /\ deps'[m] = <<>> /\ predecessor'[m] = None
               /\ \A i \in Slots(m)' : Input(m, i)' < m
    <3>1. CASE m = n
      <4>1. \A i \in 0 .. Len(kids) : from(i) < n
        BY <1>a, <1>1, <1>7 DEF Node, None
      <4>2. QED
        BY <1>0, <1>1, <1>4, <1>9, <1>12, <3>1, <4>1
    <3>2. CASE m # n
      <4>1. (m > born' <=> m > born) /\ (m <= born' <=> m <= born)
        BY <1>a, <1>0, <1>1, <3>2 DEF Node
      <4>2. ASSUME m > born
            PROVE  dependents'[m] = {}
        <5>1. \A j \in open : from(j) # m
          BY <1>1, <1>16, <4>2 DEF Node
        <5>2. dependents[m] = {}
          BY <4>2 DEF IndInv, Births
        <5>3. QED
          BY <1>0, <5>1, <5>2
      <4>3. QED
        BY <1>9, <1>11, <3>2, <4>1, <4>2 DEF IndInv, Births
    <3>3. QED
      BY <3>1, <3>2
  <2>2. QED
    BY <2>1 DEF Births
<1>18. EdgesExact'
  <2>1. ASSUME NEW c \in Node, NEW e \in dependents'[c]
        PROVE  e[2] \in Slots(e[1])' /\ Input(e[1], e[2])' = c /\ state'[c] \in Live
    <3>1. CASE e \in dependents[c]
      <4>1. e[1] \in Node /\ e[2] \in Slots(e[1]) /\ Input(e[1], e[2]) = c /\ state[c] \in Live
        BY <3>1 DEF IndInv, EdgesExact, TypeOK
      <4>2. c # n
        BY <1>2, <4>1 DEF Live
      <4>3. e[1] # n
        <5>1. SUFFICES ASSUME e[1] = n PROVE FALSE
          OBVIOUS
        <5>2. e[2] = 0 /\ Input(n, 0) = None
          BY <1>2, <4>1, <5>1 DEF Slots, Input
        <5>3. QED
          BY <4>1, <5>1, <5>2 DEF Node, None
      <4>4. QED
        BY <1>9, <1>11, <4>1, <4>2, <4>3
    <3>2. CASE e \notin dependents[c]
      <4>1. PICK i \in open : e = <<n, i>> /\ from(i) = c
        BY <1>0, <3>2
      <4>2. i \in 0 .. Len(kids) /\ state[c] \in Live /\ c <= born
        BY <1>7, <1>16, <4>1
      <4>3. QED
        BY <1>12, <1>13, <4>1, <4>2
    <3>3. QED
      BY <3>1, <3>2
  <2>2. ASSUME NEW m \in Node, NEW i \in LiveInputs(m)'
        PROVE  <<m, i>> \in dependents'[Input(m, i)']
    <3>1. CASE m = n
      <4>1. i \in open /\ Input(m, i)' = from(i) /\ from(i) \in Node
        BY <1>7, <1>12, <1>14, <1>16, <3>1
      <4>2. <<n, i>> \in {<<n, l>> : l \in {j \in open : from(j) = from(i)}}
        BY <4>1
      <4>3. QED
        BY <1>0, <3>1, <4>1, <4>2
    <3>2. CASE m # n
      <4>1. i \in LiveInputs(m) /\ i \in Slots(m) /\ Input(m, i)' = Input(m, i) /\ Input(m, i) \in Node
        BY <1>11, <1>15, <3>2 DEF LiveInputs
      <4>2. <<m, i>> \in dependents[Input(m, i)]
        BY <4>1 DEF IndInv, EdgesExact
      <4>3. QED
        BY <1>0, <4>1, <4>2
    <3>3. QED
      BY <3>1, <3>2
  <2>3. QED
    BY <2>1, <2>2 DEF EdgesExact
<1>19. CounterExact'
  <2>1. ASSUME NEW m \in Node, state'[m] = "Waiting"
        PROVE  pendingDeps'[m] > 0 /\ pendingDeps'[m] = Cardinality(LiveInputs(m)')
    <3>1. CASE m = n
      BY <1>8, <1>9, <1>14, <2>1, <3>1
    <3>2. CASE m # n
      BY <1>9, <1>15, <2>1, <3>2 DEF IndInv, CounterExact
    <3>3. QED
      BY <3>1, <3>2
  <2>2. QED
    BY <2>1 DEF CounterExact
<1>20. InputsSettled'
  <2>1. ASSUME NEW m \in Node, state'[m] \in {"Ready", "Running", "Done"},
               NEW i \in Slots(m)', Input(m, i)' # None
        PROVE  state'[Input(m, i)'] \in Settled
    <3>1. CASE m = n
      <4>1. open = {} /\ i \in 0 .. Len(kids) /\ Input(m, i)' = from(i)
        BY <1>9, <1>12, <2>1, <3>1
      <4>2. from(i) # None /\ from(i) \in Node /\ from(i) <= born /\ state[from(i)] \notin Live
        BY <1>7, <2>1, <4>1
      <4>3. state[from(i)] # "Unborn" /\ state[from(i)] \in NodeState
        BY <1>1, <4>2 DEF IndInv, Births, TypeOK, Node
      <4>4. state'[from(i)] = state[from(i)]
        BY <1>13, <4>2
      <4>5. QED
        BY <4>1, <4>2, <4>3, <4>4 DEF NodeState, Settled
    <3>2. CASE m # n
      <4>1. /\ state[m] \in {"Ready", "Running", "Done"}
            /\ i \in Slots(m) /\ Input(m, i)' = Input(m, i)
            /\ Input(m, i) # None /\ Input(m, i) \in Node /\ Input(m, i) # n
        BY <1>9, <1>11, <2>1, <3>2
      <4>2. state[Input(m, i)] \in Settled
        BY <4>1 DEF IndInv, InputsSettled
      <4>3. QED
        BY <1>9, <4>1, <4>2
    <3>3. QED
      BY <3>1, <3>2
  <2>2. QED
    BY <2>1 DEF InputsSettled
<1>21. state'[n] \in Live /\ state'[n] # "Running" /\ state'[n] # "Dropped"
  BY <1>9 DEF Live
<1>22. MapSound'
  <2>1. ASSUME NEW j \in Key, graphNodes'[j] # None
        PROVE  /\ graphNodes'[j] <= born'
               /\ key'[graphNodes'[j]] = j
               /\ state'[graphNodes'[j]] \in Live
    <3>1. CASE j = k
      <4>1. graphNodes'[j] = n
        BY <1>0, <3>1 DEF IndInv, TypeOK
      <4>2. QED
        BY <1>0, <1>1, <1>9, <1>21, <3>1, <4>1
    <3>2. CASE j # k
      <4>1. graphNodes'[j] = graphNodes[j] /\ graphNodes[j] \in Node
        BY <1>0, <2>1, <3>2 DEF IndInv, TypeOK
      <4>2. graphNodes[j] <= born /\ key[graphNodes[j]] = j /\ state[graphNodes[j]] \in Live
        BY <2>1, <4>1 DEF IndInv, MapSound
      <4>3. graphNodes[j] # n /\ graphNodes[j] <= born'
        BY <1>a, <1>0, <1>1, <4>1, <4>2 DEF Node
      <4>4. QED
        BY <1>9, <4>1, <4>2, <4>3
    <3>3. QED
      BY <3>1, <3>2
  <2>2. QED
    BY <2>1 DEF MapSound
<1>23. /\ roots' \in Seq(Key)
       /\ rootNodes' \in Seq(InHand')
       /\ stack' \in Seq(Frame(InHand'))
       /\ stack' # <<>> => roots' # <<>>
       /\ \A j \in 2 .. Len(stack') : stack'[j].todo # <<>>
  <2>1. InHand \subseteq InHand' /\ n \in InHand'
    BY <1>a, <1>0, <1>1, <1>13, <1>21 DEF InHand, Node
  <2>2. Frame(InHand) \subseteq Frame(InHand')
    BY <2>1, SeqMonotonic DEF Frame
  <2>3. Tail(stack) \in Seq(Frame(InHand')) /\ rootNodes \in Seq(InHand') /\ <<n>> \in Seq(InHand')
    BY <1>3, <2>1, <2>2, SeqMonotonic DEF IndInv, ExpansionSound
  <2>4. roots \in Seq(Key)
    BY DEF IndInv, TypeOK
  <2>5. QED
    BY <1>0, <1>3, <2>3, <2>4, HandBackSound
<1>24. TypeOK'
  <2>1. InHand' \subseteq Node
    BY DEF InHand, Node
  <2>2. Frame(InHand') \subseteq Frame(Node)
    BY <2>1, SeqMonotonic DEF Frame
  <2>3. rootNodes' \in Seq(Node) /\ stack' \in Seq(Frame(Node))
    BY <1>23, <2>1, <2>2, SeqMonotonic
  <2>4. QED
    BY <1>0, <1>10, <1>23, <2>3 DEF IndInv, TypeOK
<1>25. ExpansionSound'
  BY <1>0, <1>23 DEF IndInv, ExpansionSound
<1>26. OnePlace'
  <2>1. \A v \in Worker, m \in Node : Runs(v, m)' <=> Runs(v, m)
    BY <1>0 DEF Runs
  <2>2. \A v \in Worker : worker'[v].pc = "running" => worker'[v].node # None
    BY <1>0 DEF IndInv, OnePlace
  <2>3. \A m \in graphReady' : state'[m] = "Ready"
    <3>1. \A m \in graphReady : state'[m] = "Ready"
      BY <1>2, <1>9 DEF IndInv, OnePlace, TypeOK
    <3>2. QED
      BY <1>0, <1>9, <3>1
  <2>4. \A m \in Node : state'[m] = "Running" <=> state[m] = "Running"
    BY <1>2, <1>9, <1>21
  <2>5. \A m \in Node : state'[m] = "Running" <=> \E v \in Worker : Runs(v, m)'
    BY <2>1, <2>4 DEF IndInv, OnePlace
  <2>6. \A m \in Node, w1, w2 \in Worker : Runs(w1, m)' /\ Runs(w2, m)' => w1 = w2
    BY <2>1 DEF IndInv, OnePlace
  <2>7. ASSUME shutdown = "no", NEW m \in Node
        PROVE  /\ state'[m] = "Ready" => m \in graphReady'
               /\ state'[m] \in Live => InMap(m)'
    <3>1. CASE m = n
      <4>1. graphNodes'[k] = n
        BY <1>0, <1>4 DEF IndInv, TypeOK
      <4>2. InMap(n)'
        BY <1>0, <1>1, <1>9, <4>1 DEF InMap
      <4>3. QED
        BY <1>0, <1>9, <3>1, <4>2
    <3>2. CASE m # n
      <4>1. state'[m] = state[m] /\ key'[m] = key[m]
        BY <1>9, <3>2
      <4>2. state[m] = "Ready" => m \in graphReady'
        BY <1>0, <2>7 DEF IndInv, OnePlace
      <4>3. ASSUME state[m] \in Live
            PROVE  InMap(m)'
        <5>1. m <= born /\ graphNodes[key[m]] = m /\ key[m] \in Key
          BY <2>7, <4>3 DEF IndInv, OnePlace, InMap, Births
        <5>2. key[m] # k
          BY <1>0, <5>1 DEF Node, None
        <5>3. QED
          BY <1>a, <1>0, <1>1, <4>1, <5>1, <5>2 DEF InMap, Node, IndInv, TypeOK
      <4>4. QED
        BY <4>1, <4>2, <4>3
    <3>3. QED
      BY <3>1, <3>2
  <2>8. QED
    BY <1>0, <2>2, <2>3, <2>5, <2>6, <2>7 DEF OnePlace
<1>27. PredecessorLinked'
  <2>1. ASSUME NEW x \in Node, NEW m \in Node,
               shutdown = "no" \/ state'[x] = "Running",
               m < x, x <= born', state'[m] \in Live,
               key'[m][1] = key'[x][1], key'[m][2] + 1 = key'[x][2]
        PROVE  predecessor'[x] = m
    <3>0. m # n /\ m <= born
      BY <1>a, <1>0, <1>1, <2>1 DEF Node
    <3>1. CASE x = n
      <4>1. shutdown = "no" /\ state[m] \in Live /\ key'[m] = key[m] /\ key'[x] = k
        BY <1>9, <1>21, <2>1, <3>0, <3>1
      <4>2. graphNodes[key[m]] = m /\ key[m] \in Key
        BY <3>0, <4>1 DEF IndInv, OnePlace, InMap, Births
      <4>3. key[m] = <<k[1], k[2] - 1>> /\ k[2] > 0
        BY <1>4, <2>1, <4>1, <4>2, PageAssumption DEF Key
      <4>4. pred = m
        BY <4>2, <4>3 DEF PredecessorOf, pred
      <4>5. QED
        BY <1>9, <3>1, <4>4
    <3>2. CASE x # n
      <4>1. x <= born
        BY <1>a, <1>0, <1>1, <2>1, <3>2 DEF Node
      <4>2. QED
        BY <1>9, <2>1, <3>0, <3>2, <4>1 DEF IndInv, PredecessorLinked
    <3>3. QED
      BY <3>1, <3>2
  <2>2. QED
    BY <1>0, <2>1 DEF PredecessorLinked
<1>28. RetireQuiet'
  BY <1>0 DEF IndInv, ExpansionSound, RetireQuiet
<1>29. QED
  BY <1>17, <1>18, <1>19, <1>20, <1>22, <1>24, <1>25, <1>26, <1>27, <1>28 DEF IndInv

-----------------------------------------------------------------------------
(***************************************************************************)
(* The theorems                                                            *)
(***************************************************************************)
LEMMA InitSound == Init => IndInv
<1> SUFFICES ASSUME Init PROVE IndInv
  OBVIOUS
<1>1. TypeOK
  <2>1. <<>> \in Seq(Key) /\ <<>> \in Seq(Node) /\ <<>> \in Seq(Frame(Node))
    BY EmptySeq
  <2>2. 0 \in 0 .. MaxNodes
    BY NodesAssumption
  <2>3. demand \in [Demand -> [phase : Phase, outstanding : Int,
                               notProduced : Nat, aborted : BOOLEAN]]
    BY DEF Init, NewHandle, Phase
  <2>4. worker \in [Worker -> [pc : {"idle", "running", "notifying", "exited"},
                               node : Node \cup {None}, toNotify : SUBSET Demand]]
    BY DEF Init, IdleWorker
  <2>5. retire \in [phase : {"none", "drain", "notify"}, comps : SUBSET Component,
                    orphaned : SUBSET (Node \X Demand)]
    BY DEF Init, NoRetire
  <2>6. QED
    BY <2>1, <2>2, <2>3, <2>4, <2>5 DEF Init, TypeOK, NodeState
<1>2. \A n \in Node : n > 0 /\ n \in Nat /\ n # None
  BY NodesAssumption DEF Node, None
<1>3. \A n \in Node : Slots(n) = {0} /\ Input(n, 0) = None
  BY DEF Init, Slots, Input
<1>4. \A n \in Node : LiveInputs(n) = {}
  BY <1>3 DEF LiveInputs
<1>5. Births
  BY <1>2, <1>3 DEF Init, Births, None
<1>6. EdgesExact /\ CounterExact /\ InputsSettled
  BY <1>4 DEF Init, EdgesExact, CounterExact, InputsSettled
<1>7. MapSound
  BY DEF Init, MapSound
<1>8. ExpansionSound
  <2>1. Len(stack) = 0 /\ stack \in Seq(Frame(InHand)) /\ rootNodes \in Seq(InHand)
    BY EmptySeq DEF Init
  <2>2. QED
    BY <2>1 DEF Init, ExpansionSound, NoRetire
<1>9. OnePlace
  BY DEF Init, OnePlace, Runs, IdleWorker, Live
<1>10. PredecessorLinked /\ RetireQuiet
  BY DEF Init, PredecessorLinked, RetireQuiet, Live, NoRetire
<1>11. QED
  BY <1>1, <1>5, <1>6, <1>7, <1>8, <1>9, <1>10 DEF IndInv

LEMMA StutterSound == IndInv /\ UNCHANGED vars => IndInv'
<1> SUFFICES ASSUME IndInv, UNCHANGED vars PROVE IndInv'
  OBVIOUS
<1>1. TypeOK' /\ ExpansionSound'
  BY DEF IndInv, TypeOK, ExpansionSound, InHand, vars, nodeVars, queueVars, expandVars
<1>2. UNCHANGED <<nodeVars, queueVars, worker, retire, shutdown>>
  BY DEF vars
<1>3. QED
  BY <1>1, <1>2, RecursionSound

LEMMA NextSound == IndInv /\ [Next]_vars => IndInv'
<1> SUFFICES ASSUME IndInv, [Next]_vars PROVE IndInv'
  OBVIOUS
<1>1. ASSUME NEW d \in Demand, Requester(d)
      PROVE  IndInv'
  <2>1. CASE RequestRefused(d) \/ RequestAdmitted(d) \/ WaitReturn(d)
    BY <2>1, HandleStep
  <2>2. CASE \E run \in Requests : ExpandBegin(d, run)
    BY <2>2, ExpandBeginStep
  <2>3. CASE Expand(d)
    BY <2>3, ExpandReturnStep, ExpandPlanStep, ExpandInsertStep, AttachStep DEF Expand
  <2>4. QED
    BY <1>1, <2>1, <2>2, <2>3 DEF Requester
<1>2. ASSUME NEW w \in Worker, WorkerStep(w)
      PROVE  IndInv'
  BY <1>2, ClaimStep, CompleteStep, NotifyStep, ExitStep DEF WorkerStep
<1>3. ASSUME MainThread
      PROVE  IndInv'
  <2>1. CASE \E comps \in Retirements : RetireBegin(comps)
    BY <2>1, RetireBeginStep, RetirementsAssumption
  <2>2. CASE RetireContinue
    BY <2>2, RetireDrainedStep, RetireOrphanStep, RetireReturnStep DEF RetireContinue
  <2>3. QED
    BY <1>3, <2>1, <2>2, ShutdownBeginStep, ShutdownReturnStep DEF MainThread
<1>4. CASE UNCHANGED vars
  BY <1>4, StutterSound
<1>5. QED
  BY <1>1, <1>2, <1>3, <1>4 DEF Next

\* Every reachable state of the scheduler satisfies the inductive invariant.
THEOREM Inductive == Spec => []IndInv
BY InitSound, NextSound, PTL DEF Spec

\* Every field keeps its type; in particular pendingDeps, a plain int that each
\* finished input decrements (graphNodeComplete), never goes below zero.
THEOREM TypeCorrect == Spec => []TypeOK
<1>1. IndInv => TypeOK
  BY DEF IndInv
<1>2. QED
  BY <1>1, Inductive, PTL

\* The counter of every waiting node is the number of its live inputs, and a node
\* that runs has none: what processGraphNode reads of its inputs is settled.
THEOREM CountersCorrect == Spec => [](CounterExact /\ InputsSettled)
<1>1. IndInv => CounterExact /\ InputsSettled
  BY DEF IndInv
<1>2. QED
  BY <1>1, Inductive, PTL

\* A node in flight is in exactly one place, and at most one worker runs it.
THEOREM NodesInOnePlace == Spec => []OnePlace
<1>1. IndInv => OnePlace
  BY DEF IndInv
<1>2. QED
  BY <1>1, Inductive, PTL

\* Pages of one component run in position order, whichever demands asked for them.
THEOREM PagesInOrder == Spec => []InPageOrder
<1>1. IndInv => InPageOrder
  <2> SUFFICES ASSUME IndInv, NEW n \in Node, NEW m \in Node,
                      state[n] = "Running", m < n, state[m] \in Live,
                      key[m][1] = key[n][1], key[m][2] + 1 = key[n][2]
               PROVE  FALSE
    BY DEF InPageOrder
  <2>1. n <= born
    BY NodesAssumption DEF IndInv, Births, TypeOK, Node
  <2>2. predecessor[n] = m
    BY <2>1 DEF IndInv, PredecessorLinked
  <2>3. Len(deps[n]) \in Nat
    BY LenProperties DEF IndInv, TypeOK
  <2>4. 0 \in Slots(n) /\ Input(n, 0) = m /\ m # None
    BY <2>2, <2>3 DEF Slots, Input, Node, None
  <2>5. state[m] \in Settled
    BY <2>4 DEF IndInv, InputsSettled
  <2>6. QED
    BY <2>5 DEF Settled, Live
<1>2. QED
  BY <1>1, Inductive, PTL

\* Once a retirement has drained, no node of its components is queued, waiting or
\* running, however the demands and workers interleave with it.
THEOREM RetirementExcludes == Spec => []RetireExclusive
<1>1. IndInv => RetireExclusive
  BY DEF IndInv, RetireQuiet, RetireExclusive
<1>2. QED
  BY <1>1, Inductive, PTL

-----------------------------------------------------------------------------
(***************************************************************************)
(* The handles: a demand's counter is exact through every hand-over, a     *)
(* finished wait stays finished, and the scheduler implements PageDemand.  *)
(* All of it rests on IndInv and on HandsApart: no page is owed to one     *)
(* demand through two pairs of hands.                                      *)
(***************************************************************************)
-----------------------------------------------------------------------------
(***************************************************************************)
(* What a step may do to the handles                                       *)
(***************************************************************************)
\* Of the handles alone: a step of PageDemand, or none.
HandlesMove == [Handles!Next]_Handles!vars

\* A released handle stays released.
ReleasedStays == \A d \in Demand : demand[d].phase = "released" => demand'[d].phase = "released"

\* A settled node stays as it is.
SettledStays == \A n \in Node : state[n] \in Settled => state'[n] = state[n]

StepSound == DemandInv' /\ HandlesMove /\ ReleasedStays /\ SettledStays

\* ... and no node leaves flight with a demand on it.
StatesKept ==
    /\ SettledStays
    /\ \A n \in Node : demands[n] # {} => state'[n] \in Live

\* Nothing changes hands.
HandsKept ==
    /\ demands' = demands
    /\ retire'.orphaned = retire.orphaned
    /\ retire'.phase = "none" => retire'.orphaned = {}
    /\ \A w \in Worker :
          /\ worker'[w].toNotify = worker[w].toNotify
          /\ worker[w].toNotify # {} => /\ worker'[w].pc = worker[w].pc
                                        /\ worker'[w].node = worker[w].node

LEMMA OwingFinite ==
    ASSUME NEW d
    PROVE  /\ Owing(d) \in SUBSET Node
           /\ IsFiniteSet(Owing(d))
           /\ Cardinality(Owing(d)) \in Nat
           /\ Cardinality(Owing(d)) = 0 <=> Owing(d) = {}
<1>1. Owing(d) \in SUBSET Node
  BY DEF Owing
<1>2. IsFiniteSet(Node)
  BY NodesAssumption, FS_Interval DEF Node
<1>3. IsFiniteSet(Owing(d))
  BY <1>1, <1>2, FS_Subset
<1>4. QED
  BY <1>1, <1>3, FS_CardinalityType, FS_EmptySet

LEMMA HandsKeptSound ==
    ASSUME TypeOK, HandsApart, StatesKept, HandsKept
    PROVE  HandsApart' /\ \A d \in Demand : Owing(d)' = Owing(d)
<1>1. \A d \in Demand : Owing(d)' = Owing(d)
  <2>1. ASSUME NEW d \in Demand, NEW n \in Node, NEW w \in Worker
        PROVE  (worker'[w].node = n /\ d \in worker'[w].toNotify)
                 <=> (worker[w].node = n /\ d \in worker[w].toNotify)
    BY DEF HandsKept
  <2>2. \A n \in Node : demands'[n] = demands[n]
    BY DEF HandsKept
  <2>3. QED
    BY <2>1, <2>2 DEF Owing, HandsKept
<1>2. \A n \in Node : demands'[n] # {} => state'[n] \in Live
  BY DEF HandsKept, StatesKept, SettledStays
<1>3. \A p \in retire'.orphaned : state'[p[1]] = "Dropped"
  BY DEF HandsKept, StatesKept, SettledStays, HandsApart, TypeOK, Settled
<1>4. \A w \in Worker : worker'[w].toNotify # {} =>
            /\ worker'[w].pc = "notifying"
            /\ worker'[w].node \in Node
            /\ state'[worker'[w].node] = "Done"
  BY DEF HandsKept, StatesKept, SettledStays, HandsApart, Settled
<1>5. \A w, v \in Worker :
            (/\ worker'[w].toNotify # {} /\ worker'[v].toNotify # {}
             /\ worker'[w].node = worker'[v].node) => w = v
  BY DEF HandsKept, HandsApart
<1>6. QED
  BY <1>1, <1>2, <1>3, <1>4, <1>5 DEF HandsKept, HandsApart

\* A step that moves no page and no handle.
LEMMA HandlesUntouched ==
    ASSUME TypeOK, DemandInv, StatesKept, HandsKept, demand' = demand, expander' = expander
    PROVE  StepSound
<1>1. HandsApart' /\ \A d \in Demand : Owing(d)' = Owing(d)
  BY HandsKeptSound DEF DemandInv
<1>2. HandlesExact'
  BY <1>1 DEF DemandInv, HandlesExact, WaitOver
<1>3. UNCHANGED Handles!vars
  BY <1>1 DEF Handles!vars
<1>4. ExpanderExpands'
  BY DEF DemandInv, ExpanderExpands
<1>5. QED
  BY <1>1, <1>2, <1>3, <1>4 DEF StepSound, DemandInv, HandlesMove, ReleasedStays, StatesKept, SettledStays

LEMMA StatesUntouched ==
    ASSUME DemandInv, state' = state
    PROVE  StatesKept
BY DEF DemandInv, HandsApart, StatesKept, SettledStays

-----------------------------------------------------------------------------
(***************************************************************************)
(* Steps that move no page and no handle                                   *)
(***************************************************************************)
LEMMA RecursionKeepsHandles ==
    ASSUME IndInv, DemandInv, ExpandTooDeep \/ ExpandFound \/ ExpandPlan
    PROVE  StepSound
<1>1. UNCHANGED <<nodeVars, expander, demand, worker, retire>>
  BY DEF ExpandTooDeep, ExpandFound, ExpandPlan, HandBack
<1>2. StatesKept /\ HandsKept /\ TypeOK
  BY <1>1, StatesUntouched DEF nodeVars, HandsKept, DemandInv, HandsApart, IndInv
<1>3. QED
  BY <1>1, <1>2, HandlesUntouched

\* A new node is owed to nobody yet.
LEMMA ExpandInsertKeepsHandles ==
    ASSUME IndInv, DemandInv, ExpandInsert
    PROVE  StepSound
<1>1. /\ UNCHANGED <<demands, expander, demand, worker, retire>>
      /\ born < MaxNodes /\ born \in 0 .. MaxNodes
      /\ \E st : state' = [state EXCEPT ![born + 1] = st]
  BY DEF ExpandInsert, IndInv, TypeOK
<1>2. state[born + 1] = "Unborn" /\ born + 1 \in Node
  BY <1>1, NodesAssumption DEF IndInv, Births, Node
<1>3. \A n \in Node : state[n] # "Unborn" => state'[n] = state[n]
  BY <1>1, <1>2 DEF IndInv, TypeOK
<1>4. StatesKept
  BY <1>3 DEF StatesKept, SettledStays, DemandInv, HandsApart, Live, Settled
<1>5. HandsKept
  BY <1>1 DEF HandsKept, DemandInv, HandsApart
<1>6. QED
  BY <1>1, <1>4, <1>5, HandlesUntouched DEF IndInv

LEMMA ClaimKeepsHandles ==
    ASSUME IndInv, DemandInv, NEW w \in Worker, NEW n \in Node, Claim(w, n)
    PROVE  StepSound
<1>1. /\ UNCHANGED <<demands, expander, demand, retire>>
      /\ worker[w].pc = "idle" /\ n \in graphReady
      /\ state' = [state EXCEPT ![n] = "Running"]
      /\ worker' = [worker EXCEPT ![w] = [pc |-> "running", node |-> n, toNotify |-> {}]]
  BY DEF Claim, expandVars
<1>2. state[n] = "Ready"
  BY <1>1 DEF IndInv, OnePlace
<1>3. state' \in [Node -> NodeState] /\ \A m \in Node \ {n} : state'[m] = state[m]
  BY <1>1 DEF IndInv, TypeOK, NodeState, Live
<1>4. state'[n] = "Running"
  BY <1>1 DEF IndInv, TypeOK
<1>5. StatesKept
  BY <1>2, <1>3, <1>4 DEF StatesKept, SettledStays, DemandInv, HandsApart, Live, Settled
<1>6. worker[w].toNotify = {}
  BY <1>1 DEF DemandInv, HandsApart
<1>7. HandsKept
  BY <1>1, <1>6 DEF HandsKept, DemandInv, HandsApart, IndInv, TypeOK
<1>8. QED
  BY <1>1, <1>5, <1>7, HandlesUntouched DEF IndInv

LEMMA ExitKeepsHandles ==
    ASSUME IndInv, DemandInv, NEW w \in Worker, Exit(w)
    PROVE  StepSound
<1>1. /\ UNCHANGED <<nodeVars, expander, demand, retire>>
      /\ worker[w].pc = "idle"
      /\ worker' = [worker EXCEPT ![w].pc = "exited"]
  BY DEF Exit, expandVars
<1>2. worker[w].toNotify = {}
  BY <1>1 DEF DemandInv, HandsApart
<1>3. HandsKept
  BY <1>1, <1>2 DEF HandsKept, DemandInv, HandsApart, IndInv, TypeOK, nodeVars
<1>4. QED
  BY <1>1, <1>3, StatesUntouched, HandlesUntouched DEF IndInv, nodeVars

LEMMA MainThreadKeepsHandles ==
    ASSUME IndInv, DemandInv, RetireDrained \/ RetireReturn \/ ShutdownReturn
    PROVE  StepSound
<1>1. UNCHANGED <<nodeVars, expander, demand, worker>>
        /\ retire'.orphaned = retire.orphaned
        /\ (retire'.phase = "none" => retire'.orphaned = {})
  <2>1. CASE RetireDrained
    BY <2>1 DEF RetireDrained, expandVars, IndInv, TypeOK
  <2>2. CASE RetireReturn
    BY <2>2 DEF RetireReturn, expandVars, NoRetire
  <2>3. CASE ShutdownReturn
    BY <2>3 DEF ShutdownReturn, expandVars, DemandInv, HandsApart
  <2>4. QED
    BY <2>1, <2>2, <2>3
<1>2. HandsKept
  BY <1>1 DEF HandsKept, nodeVars
<1>3. QED
  BY <1>1, <1>2, StatesUntouched, HandlesUntouched DEF IndInv, nodeVars

LEMMA StutterKeepsHandles ==
    ASSUME IndInv, DemandInv, UNCHANGED vars
    PROVE  StepSound
<1>1. StatesKept /\ HandsKept
  BY StatesUntouched DEF vars, nodeVars, HandsKept, DemandInv, HandsApart
<1>2. QED
  BY <1>1, HandlesUntouched DEF IndInv, vars, expandVars

-----------------------------------------------------------------------------
(***************************************************************************)
(* The consumer's steps                                                    *)
(***************************************************************************)
LEMMA PhaseType ==
    ASSUME TypeOK, NEW d \in Demand, NEW ph, SetPhase(d, ph)
    PROVE  /\ demand'[d].phase = ph
           /\ \A e \in Demand : e # d => demand'[e] = demand[e]
           /\ \A e \in Demand : /\ demand'[e].outstanding = demand[e].outstanding
                                /\ demand'[e].notProduced = demand[e].notProduced
                                /\ demand'[e].aborted = demand[e].aborted
BY DEF SetPhase, TypeOK

\* A handle moves on, and no page changes hands.
LEMMA PhaseStep ==
    ASSUME IndInv, DemandInv, NEW d \in Demand, NEW ph \in Phase, SetPhase(d, ph),
           UNCHANGED <<nodeVars, worker, retire>>
    PROVE  /\ HandsApart' /\ SettledStays
           /\ \A e \in Demand : Owing(e)' = Owing(e)
           /\ \A e \in Demand : e # d => demand'[e].phase = demand[e].phase
           /\ demand'[d].phase = ph
           /\ \A e \in Demand : /\ demand'[e].outstanding = demand[e].outstanding
                                /\ demand'[e].notProduced = demand[e].notProduced
                                /\ demand'[e].aborted = demand[e].aborted
<1>1. HandsKept
  BY DEF HandsKept, DemandInv, HandsApart, nodeVars
<1>2. HandsApart' /\ \A e \in Demand : Owing(e)' = Owing(e)
  BY <1>1, StatesUntouched, HandsKeptSound DEF IndInv, nodeVars, DemandInv
<1>3. QED
  BY <1>2, PhaseType DEF IndInv, nodeVars, SettledStays

LEMMA PrepareStep ==
    ASSUME IndInv, DemandInv, NEW d \in Demand,
           RequestAdmitted(d) \/ \E run \in Requests : ExpandBegin(d, run)
    PROVE  StepSound
<1>1. PICK ph \in {"admitted", "expanding"} :
        /\ SetPhase(d, ph)
        /\ UNCHANGED <<nodeVars, worker, retire>>
        /\ \/ demand[d].phase = "idle" /\ ph = "admitted"
           \/ demand[d].phase = "admitted" /\ ph = "expanding"
        /\ expander' = IF ph = "expanding" THEN d ELSE expander
  BY DEF RequestAdmitted, ExpandBegin, expandVars
<1>2. /\ HandsApart' /\ SettledStays
      /\ \A e \in Demand : Owing(e)' = Owing(e)
      /\ \A e \in Demand : e # d => demand'[e].phase = demand[e].phase
      /\ demand'[d].phase = ph
      /\ \A e \in Demand : /\ demand'[e].outstanding = demand[e].outstanding
                           /\ demand'[e].notProduced = demand[e].notProduced
                           /\ demand'[e].aborted = demand[e].aborted
  BY <1>1, PhaseStep DEF Phase
<1>3. HandlesExact'
  BY <1>1, <1>2 DEF DemandInv, HandlesExact, WaitOver
<1>4. ReleasedStays
  BY <1>1, <1>2 DEF ReleasedStays
<1>5. Handles!Prepare(d)
  BY <1>1, <1>2 DEF Handles!Prepare
<1>6. ExpanderExpands'
  BY <1>1, <1>2 DEF IndInv, TypeOK, DemandInv, ExpanderExpands
<1>7. QED
  BY <1>2, <1>3, <1>4, <1>5, <1>6 DEF StepSound, DemandInv, HandlesMove, Handles!Next

\* A request that comes after shutdown() gets a handle that owes nothing.
LEMMA RefusedStep ==
    ASSUME IndInv, DemandInv, NEW d \in Demand, RequestRefused(d)
    PROVE  StepSound
<1>1. /\ SetPhase(d, "issued") /\ UNCHANGED <<nodeVars, expander, worker, retire>>
      /\ demand[d].phase = "idle"
  BY DEF RequestRefused, expandVars
<1>2. /\ HandsApart' /\ SettledStays
      /\ \A e \in Demand : Owing(e)' = Owing(e)
      /\ \A e \in Demand : e # d => demand'[e].phase = demand[e].phase
      /\ demand'[d].phase = "issued"
      /\ \A e \in Demand : /\ demand'[e].outstanding = demand[e].outstanding
                           /\ demand'[e].notProduced = demand[e].notProduced
                           /\ demand'[e].aborted = demand[e].aborted
  BY <1>1, PhaseStep DEF Phase
<1>3. HandlesExact'
  BY <1>1, <1>2 DEF DemandInv, HandlesExact, WaitOver
<1>4. ReleasedStays
  BY <1>1, <1>2 DEF ReleasedStays
<1>5. Owing(d) \in SUBSET Node
  BY OwingFinite
<1>6. Handles!Issue(d)
  BY <1>1, <1>2, <1>5 DEF Handles!Issue
<1>7. ExpanderExpands'
  BY <1>1, <1>2 DEF IndInv, TypeOK, DemandInv, ExpanderExpands
<1>8. QED
  BY <1>2, <1>3, <1>4, <1>6, <1>7 DEF StepSound, DemandInv, HandlesMove, Handles!Next

\* wait() returns: nothing is owed any more, or shutdown() has given up on it.
LEMMA WaitReturnStep ==
    ASSUME IndInv, DemandInv, NEW d \in Demand, WaitReturn(d)
    PROVE  StepSound
<1>1. /\ SetPhase(d, "released") /\ UNCHANGED <<nodeVars, expander, worker, retire>>
      /\ demand[d].phase = "issued"
      /\ demand[d].outstanding = 0 \/ demand[d].aborted
  BY DEF WaitReturn, expandVars
<1>2. /\ HandsApart' /\ SettledStays
      /\ \A e \in Demand : Owing(e)' = Owing(e)
      /\ \A e \in Demand : e # d => demand'[e].phase = demand[e].phase
      /\ demand'[d].phase = "released"
      /\ \A e \in Demand : /\ demand'[e].outstanding = demand[e].outstanding
                           /\ demand'[e].notProduced = demand[e].notProduced
                           /\ demand'[e].aborted = demand[e].aborted
  BY <1>1, PhaseStep DEF Phase
<1>3. HandlesExact'
  BY <1>1, <1>2 DEF DemandInv, HandlesExact, WaitOver
<1>4. ReleasedStays
  BY <1>1, <1>2 DEF ReleasedStays
<1>5. Owing(d) = {} \/ demand[d].aborted
  BY <1>1, OwingFinite DEF DemandInv, HandlesExact
<1>6. Handles!Release(d)
  BY <1>1, <1>2, <1>5 DEF Handles!Release
<1>7. ExpanderExpands'
  BY <1>1, <1>2 DEF IndInv, TypeOK, DemandInv, ExpanderExpands
<1>8. QED
  BY <1>2, <1>3, <1>4, <1>6, <1>7 DEF StepSound, DemandInv, HandlesMove, Handles!Next

-----------------------------------------------------------------------------
(***************************************************************************)
(* Steps by which a page changes hands, and is still owed                  *)
(***************************************************************************)
\* The handles do not notice: what is owed to each demand is what was.
LEMMA OwingUnchanged ==
    ASSUME DemandInv, HandsApart', SettledStays, demand' = demand, expander' = expander,
           \A d \in Demand : Owing(d)' = Owing(d)
    PROVE  StepSound
<1>1. HandlesExact'
  BY DEF DemandInv, HandlesExact, WaitOver
<1>2. UNCHANGED Handles!vars
  BY DEF Handles!vars
<1>3. ExpanderExpands'
  BY DEF DemandInv, ExpanderExpands
<1>4. QED
  BY <1>1, <1>2, <1>3 DEF StepSound, DemandInv, HandlesMove, ReleasedStays

\* completeGraphNode: from the node into the hands of the worker that ran it.
LEMMA CompleteHandsOver ==
    ASSUME IndInv, DemandInv, NEW w \in Worker, Complete(w)
    PROVE  StepSound
<1> DEFINE n  == worker[w].node
           st == [state EXCEPT ![n] = "Done"]
           S  == {n}
           own == HandsOver(n, demands[n])
<1>0. /\ UNCHANGED <<key, deps, predecessor, born, expander, demand, retire>>
      /\ worker[w].pc = "running"
      /\ Settle(st, S)
      /\ worker' = [worker EXCEPT ![w] = own]
  BY DEF Complete, expandVars
<1>1. n \in Node /\ state[n] = "Running"
  BY <1>0 DEF IndInv, OnePlace, TypeOK, Runs
<1>2. Settling(S, st)
  <2>1. st \in [Node -> NodeState] /\ \A m \in Node : st[m] = IF m = n THEN "Done" ELSE state[m]
    BY <1>1 DEF IndInv, TypeOK, NodeState
  <2>2. QED
    BY <1>0, <1>1, <2>1 DEF Settling, Live, Settled
<1>3. /\ state'[n] = "Done"
      /\ \A m \in Node : state'[m] \in Live <=> state[m] \in Live /\ m # n
      /\ \A m \in Node : state[m] \in Settled => state'[m] = state[m]
  <2>1. st[n] = "Done"
    BY <1>1 DEF IndInv, TypeOK
  <2>2. n \in Node /\ S = {n}
    BY <1>1
  <2> HIDE DEF n, st, S
  <2>3. QED
    BY <1>2, <2>1, <2>2, SettlingStates, SettlingLive DEF IndInv
<1>4. \A m \in Node : demands'[m] = IF m = n THEN {} ELSE demands[m]
  BY <1>0 DEF Settle
<1>5. /\ worker'[w].toNotify = demands[n] /\ worker[w].toNotify = {}
      /\ demands[n] # {} => worker'[w].pc = "notifying" /\ worker'[w].node = n
      /\ \A v \in Worker : v # w => worker'[v] = worker[v]
  <2>1. worker[w].toNotify = {}
    BY <1>0 DEF DemandInv, HandsApart
  <2>2. worker'[w] = own /\ \A v \in Worker : v # w => worker'[v] = worker[v]
    BY <1>0 DEF IndInv, TypeOK
  <2>3. own.toNotify = demands[n]
        /\ (demands[n] # {} => own.pc = "notifying" /\ own.node = n)
    BY DEF HandsOver, IdleWorker
  <2>4. QED
    BY <2>1, <2>2, <2>3
<1>6. /\ \A v \in Worker : worker[v].toNotify # {} => worker[v].node # n /\ v # w
      /\ \A p \in retire.orphaned : p[1] # n
  BY <1>1, <1>5 DEF DemandInv, HandsApart
<1> HIDE DEF n, st, S, own
<1>7. HandsApart'
  <2>1. \A m \in Node : demands'[m] # {} => state'[m] \in Live
    BY <1>3, <1>4 DEF DemandInv, HandsApart
  <2>2. \A p \in retire'.orphaned : state'[p[1]] = "Dropped"
    BY <1>0, <1>3 DEF DemandInv, HandsApart, IndInv, TypeOK, Settled
  <2>3. \A v \in Worker : worker'[v].toNotify # {} =>
            worker'[v].pc = "notifying" /\ worker'[v].node \in Node /\ state'[worker'[v].node] = "Done"
    BY <1>1, <1>3, <1>5 DEF DemandInv, HandsApart, Settled
  <2>4. \A u, v \in Worker :
            (worker'[u].toNotify # {} /\ worker'[v].toNotify # {} /\ worker'[u].node = worker'[v].node)
               => u = v
    BY <1>5, <1>6 DEF DemandInv, HandsApart
  <2>5. QED
    BY <1>0, <2>1, <2>2, <2>3, <2>4 DEF DemandInv, HandsApart
<1>8. ASSUME NEW d \in Demand PROVE Owing(d)' = Owing(d)
  <2>1. ASSUME NEW m \in Node, m # n
        PROVE  m \in Owing(d)' <=> m \in Owing(d)
    <3>1. \A v \in Worker : (worker'[v].node = m /\ d \in worker'[v].toNotify)
                              <=> (worker[v].node = m /\ d \in worker[v].toNotify)
      BY <1>5, <2>1
    <3>2. QED
      BY <1>0, <1>4, <2>1, <3>1 DEF Owing
  <2>2. n \in Owing(d) <=> d \in demands[n]
    BY <1>1, <1>6 DEF Owing
  <2>3. n \in Owing(d)' <=> d \in demands[n]
    <3>1. \A v \in Worker : (worker'[v].node = n /\ d \in worker'[v].toNotify)
                              <=> (v = w /\ d \in demands[n])
      BY <1>5, <1>6
    <3>2. <<n, d>> \notin retire'.orphaned /\ d \notin demands'[n]
      BY <1>0, <1>1, <1>4, <1>6
    <3>3. QED
      BY <1>1, <3>1, <3>2 DEF Owing
  <2>4. Owing(d) \subseteq Node /\ Owing(d)' \subseteq Node
    BY DEF Owing
  <2>5. QED
    BY <2>1, <2>2, <2>3, <2>4
<1>9. QED
  BY <1>0, <1>3, <1>7, <1>8, OwingUnchanged DEF SettledStays

\* Steps 1-2 of retireComponentNodes: from the dropped nodes into the orphan list.
LEMMA RetireBeginHandsOver ==
    ASSUME IndInv, DemandInv, NEW comps \in SUBSET Component, RetireBegin(comps)
    PROVE  StepSound
<1> DEFINE dropped == {n \in Node : /\ InMap(n)
                                    /\ key[n][1] \in comps
                                    /\ state[n] \notin {"Running", "Done"}}
           st == [n \in Node |-> IF n \in dropped THEN "Dropped" ELSE state[n]]
<1>0. /\ UNCHANGED <<key, deps, predecessor, born, expander, demand, worker>>
      /\ retire.phase = "none"
      /\ Settle(st, dropped)
      /\ retire' = [phase |-> "drain", comps |-> comps,
                    orphaned |-> UNION {{n} \X demands[n] : n \in dropped}]
  BY DEF RetireBegin, expandVars
<1>1. \A n \in dropped : n \in Node /\ state[n] \in {"Waiting", "Ready"}
  <2>1. ASSUME NEW n \in dropped
        PROVE  state[n] \in Live
    <3>1. n \in Node /\ n <= born /\ graphNodes[key[n]] = n
      BY DEF InMap
    <3>2. key[n] \in Key /\ n # None
      BY <3>1 DEF IndInv, Births, Node, None
    <3>3. QED
      BY <3>1, <3>2 DEF IndInv, MapSound
  <2>2. QED
    BY <2>1 DEF Live
<1>2. Settling(dropped, st)
  BY <1>0, <1>1 DEF Settling, Live, Settled, IndInv, TypeOK, NodeState
<1>3. /\ \A n \in dropped : state'[n] = "Dropped"
      /\ \A m \in Node : state'[m] \in Live <=> state[m] \in Live /\ m \notin dropped
      /\ \A m \in Node : state[m] \in Settled => state'[m] = state[m]
  <2>1. \A n \in dropped : st[n] = "Dropped"
    OBVIOUS
  <2>2. dropped \subseteq Node
    OBVIOUS
  <2> HIDE DEF dropped, st
  <2>3. QED
    BY <1>2, <2>1, <2>2, SettlingStates, SettlingLive DEF IndInv
<1>4. /\ \A m \in Node : demands'[m] = IF m \in dropped THEN {} ELSE demands[m]
      /\ dropped \subseteq Node
  BY <1>0 DEF Settle
<1>5. /\ retire'.phase = "drain"
      /\ \A p \in retire'.orphaned : p[1] \in dropped
      /\ \A n \in Node, d \in Demand : <<n, d>> \in retire'.orphaned <=> n \in dropped /\ d \in demands[n]
      /\ retire.orphaned = {}
  <2>1. retire.orphaned = {}
    BY <1>0 DEF DemandInv, HandsApart
  <2> HIDE DEF dropped
  <2>2. \A n \in Node, d \in Demand :
           <<n, d>> \in UNION {{m} \X demands[m] : m \in dropped} <=> n \in dropped /\ d \in demands[n]
    OBVIOUS
  <2>3. \A p \in UNION {{m} \X demands[m] : m \in dropped} : p[1] \in dropped
    OBVIOUS
  <2>4. QED
    BY <1>0, <2>1, <2>2, <2>3
<1>6. \A v \in Worker : worker[v].toNotify # {} => worker[v].node \notin dropped
  BY <1>1 DEF DemandInv, HandsApart
<1> HIDE DEF dropped, st
<1>7. HandsApart'
  <2>1. \A m \in Node : demands'[m] # {} => state'[m] \in Live
    BY <1>3, <1>4 DEF DemandInv, HandsApart
  <2>2. \A p \in retire'.orphaned : state'[p[1]] = "Dropped"
    BY <1>3, <1>5
  <2>3. \A v \in Worker : worker'[v].toNotify # {} =>
            worker'[v].pc = "notifying" /\ worker'[v].node \in Node /\ state'[worker'[v].node] = "Done"
    BY <1>0, <1>3 DEF DemandInv, HandsApart, Settled
  <2>4. QED
    BY <1>0, <1>5, <2>1, <2>2, <2>3 DEF DemandInv, HandsApart
<1>8. ASSUME NEW d \in Demand PROVE Owing(d)' = Owing(d)
  BY <1>0, <1>4, <1>5 DEF Owing
<1>9. QED
  BY <1>0, <1>3, <1>7, <1>8, OwingUnchanged DEF SettledStays

-----------------------------------------------------------------------------
(***************************************************************************)
(* Steps by which a page is no longer owed                                 *)
(***************************************************************************)
\* Of one demand, one page is delivered or declared lost, and counted once.
LEMMA OnePageLess ==
    ASSUME IndInv, DemandInv, HandsApart', SettledStays, expander' = expander,
           NEW d \in Demand, NEW n \in Owing(d),
           Owing(d)' = Owing(d) \ {n},
           \A e \in Demand : e # d => Owing(e)' = Owing(e),
           NEW more \in {0, 1},
           \A e \in Demand : e # d => demand'[e] = demand[e],
           demand'[d].phase = demand[d].phase,
           demand'[d].aborted = demand[d].aborted,
           demand'[d].outstanding = demand[d].outstanding - 1,
           demand'[d].notProduced = demand[d].notProduced + more
    PROVE  StepSound
<1>1. \A e \in Demand : /\ demand'[e].phase = demand[e].phase
                        /\ demand'[e].aborted = demand[e].aborted
                        /\ e # d => demand'[e] = demand[e]
  OBVIOUS
<1>2. demand[d].notProduced \in Nat
  BY DEF IndInv, TypeOK
<1>3. /\ Cardinality(Owing(d)') = Cardinality(Owing(d)) - 1
      /\ Cardinality(Owing(d)) \in Nat
      /\ Cardinality(Owing(d)) > 0
  <2>1. IsFiniteSet(Owing(d)) /\ Cardinality(Owing(d)) \in Nat /\ Cardinality(Owing(d)) # 0
    BY OwingFinite
  <2>2. Cardinality(Owing(d) \ {n}) = Cardinality(Owing(d)) - 1
    BY <2>1, FS_RemoveElement
  <2>3. QED
    BY <2>1, <2>2
<1>4. HandlesExact'
  <2>1. ASSUME NEW e \in Demand
        PROVE  /\ demand'[e].phase \notin {"issued", "released"} => Owing(e)' = {}
               /\ ~demand'[e].aborted => demand'[e].outstanding = Cardinality(Owing(e)')
               /\ demand'[e].phase = "released" => WaitOver(e)'
    <3>1. CASE e # d
      BY <1>1, <3>1 DEF DemandInv, HandlesExact, WaitOver
    <3>2. CASE e = d
      <4>1. demand[d].phase \in {"issued", "released"}
        BY DEF DemandInv, HandlesExact
      <4>2. ~demand[d].aborted => demand[d].outstanding = Cardinality(Owing(d))
        BY DEF DemandInv, HandlesExact
      <4>3. demand[d].phase = "released" => demand[d].aborted
        BY <1>3, <4>2 DEF DemandInv, HandlesExact, WaitOver
      <4>4. QED
        BY <1>1, <1>3, <3>2, <4>1, <4>2, <4>3 DEF WaitOver
    <3>3. QED
      BY <3>1, <3>2
  <2>2. QED
    BY <2>1 DEF HandlesExact
<1>5. ReleasedStays
  BY <1>1 DEF ReleasedStays
<1>6. ExpanderExpands'
  <2>1. expander \in Demand \cup {NoDemand}
    BY DEF IndInv, TypeOK
  <2>2. QED
    BY <1>1, <2>1 DEF DemandInv, ExpanderExpands
<1>7. CASE more = 0
  <2>0. demand'[d].notProduced = demand[d].notProduced
    BY <1>2, <1>7
  <2>1. \A e \in Demand : demand'[e].notProduced = demand[e].notProduced
    BY <1>1, <2>0
  <2>2. Handles!Deliver(d)
    BY <1>1, <2>1 DEF Handles!Deliver
  <2>3. QED
    BY <1>4, <1>5, <1>6, <2>2 DEF StepSound, DemandInv, HandlesMove, Handles!Next
<1>8. CASE more = 1
  <2>1. [e \in Demand |-> demand'[e].notProduced]
          = [[e \in Demand |-> demand[e].notProduced] EXCEPT ![d] = @ + 1]
    BY <1>1, <1>8
  <2>. DEFINE owed == [e \in Demand |-> Owing(e)]
              owed2 == [e \in Demand |-> Owing(e)']
  <2>3. owed2 = [owed EXCEPT ![d] = @ \ {n}]
    OBVIOUS
  <2>4. Handles!Lose(d)
    BY <1>1, <2>1, <2>3 DEF Handles!Lose
  <2>5. QED
    BY <1>4, <1>5, <1>6, <2>4 DEF StepSound, DemandInv, HandlesMove, Handles!Next
<1>9. QED
  BY <1>7, <1>8

\* The second half of completeGraphNode, under the demand's own mutex.
LEMMA NotifyPays ==
    ASSUME IndInv, DemandInv, NEW w \in Worker, NEW d \in Demand, Notify(w, d)
    PROVE  StepSound
<1> DEFINE n == worker[w].node
           rest == worker[w].toNotify \ {d}
<1>0. /\ UNCHANGED <<nodeVars, expander, retire>>
      /\ d \in worker[w].toNotify
      /\ worker' = [worker EXCEPT ![w] = HandsOver(n, rest)]
      /\ demand' = [demand EXCEPT ![d].outstanding = @ - 1]
  BY DEF Notify, expandVars
<1>1. /\ n \in Node /\ state[n] = "Done"
      /\ demands[n] = {}
      /\ <<n, d>> \notin retire.orphaned
      /\ \A v \in Worker : (worker[v].toNotify # {} /\ worker[v].node = n) => v = w
  BY <1>0 DEF DemandInv, HandsApart, Live
<1>2. /\ worker'[w].toNotify = rest
      /\ rest # {} => worker'[w].pc = "notifying" /\ worker'[w].node = n
      /\ \A v \in Worker : v # w => worker'[v] = worker[v]
  <2>1. worker'[w] = HandsOver(n, rest) /\ \A v \in Worker : v # w => worker'[v] = worker[v]
    BY <1>0 DEF IndInv, TypeOK
  <2>2. HandsOver(n, rest).toNotify = rest
        /\ (rest # {} => HandsOver(n, rest).pc = "notifying" /\ HandsOver(n, rest).node = n)
    BY DEF HandsOver, IdleWorker
  <2>3. QED
    BY <2>1, <2>2
<1>3. rest \subseteq worker[w].toNotify /\ rest = worker[w].toNotify \ {d}
  OBVIOUS
<1>4. worker[w].toNotify # {} /\ worker[w].node = n
  BY <1>0
<1>5. n \in Owing(d)
  BY <1>0, <1>1 DEF Owing
<1> HIDE DEF n, rest
<1>6. HandsApart'
  <2>1. \A v \in Worker : worker'[v].toNotify # {} =>
            /\ worker[v].toNotify # {}
            /\ worker'[v].node = worker[v].node
            /\ worker'[v].pc = "notifying"
    BY <1>2, <1>3, <1>4 DEF DemandInv, HandsApart
  <2>2. \A v \in Worker : worker'[v].toNotify # {} =>
            worker'[v].pc = "notifying" /\ worker'[v].node \in Node /\ state'[worker'[v].node] = "Done"
    BY <1>0, <2>1 DEF DemandInv, HandsApart, nodeVars
  <2>3. \A u, v \in Worker :
            (worker'[u].toNotify # {} /\ worker'[v].toNotify # {} /\ worker'[u].node = worker'[v].node)
               => u = v
    BY <2>1 DEF DemandInv, HandsApart
  <2>4. QED
    BY <1>0, <2>2, <2>3 DEF DemandInv, HandsApart, nodeVars
<1>7. ASSUME NEW e \in Demand PROVE Owing(e)' = IF e = d THEN Owing(d) \ {n} ELSE Owing(e)
  <2>1. ASSUME NEW m \in Node, NEW v \in Worker
        PROVE  (worker'[v].node = m /\ e \in worker'[v].toNotify)
                 <=> (worker[v].node = m /\ e \in worker[v].toNotify /\ ~(v = w /\ e = d))
    BY <1>2, <1>3, <1>4
  <2>2. ASSUME NEW m \in Node
        PROVE  m \in Owing(e)' <=> m \in Owing(e) /\ ~(e = d /\ m = n)
    <3>1. demands' = demands /\ retire' = retire
      BY <1>0 DEF nodeVars
    <3>2. CASE e # d \/ m # n
      BY <2>1, <3>1, <3>2, <1>4 DEF Owing
    <3>3. CASE e = d /\ m = n
      <4>1. \A v \in Worker : ~(worker'[v].node = n /\ d \in worker'[v].toNotify)
        BY <1>1, <2>1, <3>3
      <4>2. QED
        BY <1>1, <3>1, <3>3, <4>1 DEF Owing
    <3>4. QED
      BY <3>2, <3>3
  <2>3. Owing(e) \subseteq Node /\ Owing(e)' \subseteq Node /\ Owing(d) \subseteq Node
    BY DEF Owing
  <2>4. QED
    BY <2>2, <2>3
<1>8. /\ \A e \in Demand : e # d => demand'[e] = demand[e]
      /\ demand'[d].phase = demand[d].phase
      /\ demand'[d].aborted = demand[d].aborted
      /\ demand'[d].outstanding = demand[d].outstanding - 1
      /\ demand'[d].notProduced = demand[d].notProduced + 0
  BY <1>0 DEF IndInv, TypeOK
<1>9. QED
  BY <1>0, <1>5, <1>6, <1>7, <1>8, OnePageLess DEF SettledStays, nodeVars

\* Step 4 of retireComponentNodes: a page that will never be produced.
LEMMA RetireOrphanPays ==
    ASSUME IndInv, DemandInv, NEW n \in Node, NEW d \in Demand, RetireOrphan(n, d)
    PROVE  StepSound
<1>0. /\ UNCHANGED <<nodeVars, expander, worker>>
      /\ <<n, d>> \in retire.orphaned
      /\ retire.phase = "notify"
      /\ retire' = [retire EXCEPT !.orphaned = @ \ {<<n, d>>}]
      /\ demand' = [demand EXCEPT ![d].outstanding = @ - 1, ![d].notProduced = @ + 1]
  BY DEF RetireOrphan, expandVars
<1>1. retire'.orphaned = retire.orphaned \ {<<n, d>>} /\ retire'.phase = "notify"
  BY <1>0 DEF IndInv, TypeOK
<1>2. /\ state[n] = "Dropped"
      /\ demands[n] = {}
      /\ \A v \in Worker : worker[v].toNotify # {} => worker[v].node # n
  BY <1>0 DEF DemandInv, HandsApart, Live
<1>3. HandsApart'
  BY <1>0, <1>1 DEF DemandInv, HandsApart, nodeVars
<1>4. n \in Owing(d)
  BY <1>0 DEF Owing
<1>5. ASSUME NEW e \in Demand PROVE Owing(e)' = IF e = d THEN Owing(d) \ {n} ELSE Owing(e)
  <2>1. demands' = demands /\ worker' = worker
    BY <1>0 DEF nodeVars
  <2>2. ASSUME NEW m \in Node
        PROVE  m \in Owing(e)' <=> m \in Owing(e) /\ ~(e = d /\ m = n)
    BY <1>1, <1>2, <2>1 DEF Owing
  <2>3. Owing(e) \subseteq Node /\ Owing(e)' \subseteq Node /\ Owing(d) \subseteq Node
    BY DEF Owing
  <2>4. QED
    BY <2>2, <2>3
<1>6. /\ \A e \in Demand : e # d => demand'[e] = demand[e]
      /\ demand'[d].phase = demand[d].phase
      /\ demand'[d].aborted = demand[d].aborted
      /\ demand'[d].outstanding = demand[d].outstanding - 1
      /\ demand'[d].notProduced = demand[d].notProduced + 1
  BY <1>0 DEF IndInv, TypeOK
<1>7. QED
  BY <1>0, <1>3, <1>4, <1>5, <1>6, OnePageLess DEF SettledStays, nodeVars

-----------------------------------------------------------------------------
(***************************************************************************)
(* The handle is issued, and shutdown() gives up on handles                *)
(***************************************************************************)
\* requestGraphPages hangs the demand on its roots; nothing was owed before.
LEMMA AttachIssues ==
    ASSUME IndInv, DemandInv, Attach
    PROVE  StepSound
<1> DEFINE pending == {n \in Node : /\ \E i \in DOMAIN rootNodes : rootNodes[i] = n
                                    /\ state[n] # "Done"}
<1>0. /\ UNCHANGED <<key, state, born, worker, retire>>
      /\ expander # NoDemand
      /\ expander' = NoDemand
      /\ demands' = [n \in Node |-> IF n \in pending THEN demands[n] \cup {expander}
                                                     ELSE demands[n]]
      /\ demand' = [demand EXCEPT ![expander] =
                   [@ EXCEPT !.phase = "issued", !.outstanding = Cardinality(pending)]]
  BY DEF Attach
<1>1. PICK d \in Demand : d = expander
  BY <1>0 DEF IndInv, TypeOK
<1>2. demand[d].phase = "expanding" /\ Owing(d) = {}
  BY <1>0, <1>1 DEF DemandInv, ExpanderExpands, HandlesExact
<1>3. \A n \in pending : n \in Node /\ state[n] \in Live
  <2>1. ASSUME NEW n \in pending
        PROVE  n \in Node /\ state[n] \in Live
    <3>1. PICK i \in DOMAIN rootNodes : rootNodes[i] = n
      OBVIOUS
    <3>2. rootNodes \in Seq(InHand)
      BY DEF IndInv, ExpansionSound
    <3>3. n \in InHand
      BY <3>1, <3>2, ElementOfSeq, LenProperties
    <3>4. n \in Node /\ n <= born /\ state[n] # "Dropped" /\ state[n] # "Done"
      BY <3>3 DEF InHand
    <3>5. state[n] # "Unborn" /\ state[n] \in NodeState
      BY <3>4, NodesAssumption DEF IndInv, Births, TypeOK, Node
    <3>6. QED
      BY <3>4, <3>5 DEF NodeState
  <2>2. QED
    BY <2>1
<1>4. /\ \A n \in Node : demands'[n] = IF n \in pending THEN demands[n] \cup {d} ELSE demands[n]
      /\ pending \subseteq Node
  BY <1>0, <1>1
<1>5. /\ \A e \in Demand : e # d => demand'[e] = demand[e]
      /\ demand'[d].phase = "issued"
      /\ demand'[d].outstanding = Cardinality(pending)
      /\ demand'[d].notProduced = demand[d].notProduced
      /\ demand'[d].aborted = demand[d].aborted
  <2> HIDE DEF pending
  <2>1. QED
    BY <1>0, <1>1 DEF IndInv, TypeOK
<1> HIDE DEF pending
<1>6. HandsApart'
  BY <1>0, <1>3, <1>4 DEF DemandInv, HandsApart
<1>7. ASSUME NEW e \in Demand PROVE Owing(e)' = IF e = d THEN pending ELSE Owing(e)
  <2>1. ASSUME NEW m \in Node
        PROVE  m \in Owing(e)' <=> m \in Owing(e) \/ (e = d /\ m \in pending)
    BY <1>0, <1>4 DEF Owing
  <2>2. Owing(e) \subseteq Node /\ Owing(e)' \subseteq Node
    BY DEF Owing
  <2>3. QED
    BY <1>2, <1>4, <2>1, <2>2
<1>8. HandlesExact'
  <2>1. ASSUME NEW e \in Demand
        PROVE  /\ demand'[e].phase \notin {"issued", "released"} => Owing(e)' = {}
               /\ ~demand'[e].aborted => demand'[e].outstanding = Cardinality(Owing(e)')
               /\ demand'[e].phase = "released" => WaitOver(e)'
    BY <1>5, <1>7 DEF DemandInv, HandlesExact, WaitOver
  <2>2. QED
    BY <2>1 DEF HandlesExact
<1>9. ReleasedStays
  BY <1>2, <1>5 DEF ReleasedStays
<1>10. ExpanderExpands'
  BY <1>0 DEF ExpanderExpands
<1>11. Handles!Issue(d)
  <2>1. [e \in Demand |-> Owing(e)'] = [[e \in Demand |-> Owing(e)] EXCEPT ![d] = pending]
    BY <1>7
  <2>2. [e \in Demand |-> demand'[e].phase]
          = [[e \in Demand |-> demand[e].phase] EXCEPT ![d] = "issued"]
    BY <1>5
  <2>3. \A e \in Demand : /\ demand'[e].notProduced = demand[e].notProduced
                          /\ demand'[e].aborted = demand[e].aborted
    BY <1>5
  <2>4. QED
    BY <1>2, <1>4, <2>1, <2>2, <2>3 DEF Handles!Issue
<1>12. QED
  BY <1>0, <1>6, <1>8, <1>9, <1>10, <1>11
  DEF StepSound, DemandInv, HandlesMove, Handles!Next, SettledStays

\* shutdown() aborts the demands of mapped nodes and forgets what they were owed.
LEMMA ShutdownAborts ==
    ASSUME IndInv, DemandInv, ShutdownBegin
    PROVE  StepSound
<1>a. PICK ds \in SUBSET Demand :
          ds = {d \in Demand : \E n \in Node : InMap(n) /\ d \in demands[n]}
  OBVIOUS
<1>0. /\ UNCHANGED <<state, expander, worker, retire>>
      /\ demand' = [d \in Demand |-> IF \E n \in Node : InMap(n) /\ d \in demands[n]
                                     THEN [demand[d] EXCEPT !.aborted = TRUE] ELSE demand[d]]
      /\ demands' = [n \in Node |-> IF InMap(n) THEN {} ELSE demands[n]]
  BY DEF ShutdownBegin, expandVars
<1>1. /\ \A n \in Node : demands'[n] = IF InMap(n) THEN {} ELSE demands[n]
      /\ \A d \in Demand : d \in ds <=> \E n \in Node : InMap(n) /\ d \in demands[n]
      /\ ds \subseteq Demand
  BY <1>0, <1>a
<1>2. \A d \in Demand : /\ demand'[d].phase = demand[d].phase
                        /\ demand'[d].outstanding = demand[d].outstanding
                        /\ demand'[d].notProduced = demand[d].notProduced
                        /\ demand'[d].aborted <=> (demand[d].aborted \/ d \in ds)
  <2>1. ASSUME NEW d \in Demand
        PROVE  demand'[d] = IF d \in ds THEN [demand[d] EXCEPT !.aborted = TRUE] ELSE demand[d]
    BY <1>0, <1>1
  <2>2. \A d \in Demand : demand[d] \in [phase : Phase, outstanding : Int,
                                         notProduced : Nat, aborted : BOOLEAN]
    BY DEF IndInv, TypeOK
  <2>3. QED
    BY <2>1, <2>2
<1>3. HandsApart'
  BY <1>0, <1>1 DEF DemandInv, HandsApart
<1>4. ASSUME NEW d \in Demand
      PROVE  /\ Owing(d)' \in SUBSET Owing(d)
             /\ d \notin ds => Owing(d)' = Owing(d)
             /\ d \in ds => Owing(d) # {}
  <2>1. ASSUME NEW m \in Node
        PROVE  /\ m \in Owing(d)' => m \in Owing(d)
               /\ d \notin ds => (m \in Owing(d)' <=> m \in Owing(d))
    BY <1>0, <1>1 DEF Owing
  <2>2. Owing(d) \subseteq Node /\ Owing(d)' \subseteq Node
    BY DEF Owing
  <2>3. d \in ds => Owing(d) # {}
    BY <1>1 DEF Owing
  <2>4. QED
    BY <2>1, <2>2, <2>3
<1>5. HandlesExact'
  <2>1. ASSUME NEW d \in Demand
        PROVE  /\ demand'[d].phase \notin {"issued", "released"} => Owing(d)' = {}
               /\ ~demand'[d].aborted => demand'[d].outstanding = Cardinality(Owing(d)')
               /\ demand'[d].phase = "released" => WaitOver(d)'
    BY <1>2, <1>4 DEF DemandInv, HandlesExact, WaitOver
  <2>2. QED
    BY <2>1 DEF HandlesExact
<1>6. ReleasedStays
  BY <1>2 DEF ReleasedStays
<1>7. ExpanderExpands'
  <2>1. expander \in Demand \cup {NoDemand}
    BY DEF IndInv, TypeOK
  <2>2. QED
    BY <1>0, <1>2, <2>1 DEF DemandInv, ExpanderExpands
<1>8. Handles!Abort(ds)
  <2>1. {d \in Demand : demand'[d].aborted} = {d \in Demand : demand[d].aborted} \cup ds
    BY <1>1, <1>2
  <2>2. [d \in Demand |-> Owing(d)'] \in [Demand -> SUBSET Node]
    BY OwingFinite, <1>4
  <2>3. [d \in Demand |-> demand'[d].phase] = [d \in Demand |-> demand[d].phase]
          /\ [d \in Demand |-> demand'[d].notProduced] = [d \in Demand |-> demand[d].notProduced]
    BY <1>2
  <2>4. \A d \in Demand : Owing(d)' \subseteq Owing(d) /\ (Owing(d)' # Owing(d) => d \in ds)
    BY <1>4
  <2>5. \A d \in ds : Owing(d) # {}
    BY <1>1, <1>4
  <2>6. QED
    BY <1>1, <2>1, <2>2, <2>3, <2>4, <2>5 DEF Handles!Abort
<1>9. HandlesMove
  <2>1. ds \in SUBSET Demand
    BY <1>1
  <2>2. QED
    BY <1>8, <2>1 DEF HandlesMove, Handles!Next
<1>10. QED
  BY <1>0, <1>3, <1>5, <1>6, <1>7, <1>9 DEF StepSound, DemandInv, SettledStays

-----------------------------------------------------------------------------
(***************************************************************************)
(* The theorems                                                            *)
(***************************************************************************)
LEMMA NothingOwedInitially == Init => DemandInv /\ Handles!Init
<1> SUFFICES ASSUME Init PROVE DemandInv /\ Handles!Init
  OBVIOUS
<1>1. \A d \in Demand : Owing(d) = {}
  BY DEF Init, Owing, IdleWorker, NoRetire
<1>2. \A d \in Demand : /\ demand[d].phase = "idle" /\ demand[d].outstanding = 0
                        /\ demand[d].notProduced = 0 /\ demand[d].aborted = FALSE
  BY DEF Init, NewHandle
<1>3. HandsApart /\ ExpanderExpands
  BY DEF Init, HandsApart, ExpanderExpands, IdleWorker, NoRetire
<1>4. HandlesExact
  BY <1>1, <1>2, FS_EmptySet DEF HandlesExact, WaitOver
<1>5. Handles!Init
  BY <1>1, <1>2 DEF Handles!Init
<1>6. QED
  BY <1>3, <1>4, <1>5 DEF DemandInv

LEMMA EveryStepSound == IndInv /\ DemandInv /\ [Next]_vars => StepSound
<1> SUFFICES ASSUME IndInv, DemandInv, [Next]_vars PROVE StepSound
  OBVIOUS
<1>1. ASSUME NEW d \in Demand, Requester(d)
      PROVE  StepSound
  <2>1. CASE Expand(d)
    BY <2>1, RecursionKeepsHandles, ExpandInsertKeepsHandles, AttachIssues DEF Expand
  <2>2. CASE ~Expand(d)
    BY <1>1, <2>2, RefusedStep, PrepareStep, WaitReturnStep DEF Requester
  <2>3. QED
    BY <2>1, <2>2
<1>2. ASSUME NEW w \in Worker, WorkerStep(w)
      PROVE  StepSound
  BY <1>2, ClaimKeepsHandles, CompleteHandsOver, NotifyPays, ExitKeepsHandles DEF WorkerStep
<1>3. ASSUME MainThread
      PROVE  StepSound
  <2>1. CASE \E comps \in Retirements : RetireBegin(comps)
    BY <2>1, RetireBeginHandsOver, RetirementsAssumption
  <2>2. CASE RetireContinue
    BY <2>2, MainThreadKeepsHandles, RetireOrphanPays DEF RetireContinue
  <2>3. QED
    BY <1>3, <2>1, <2>2, ShutdownAborts, MainThreadKeepsHandles DEF MainThread
<1>4. CASE UNCHANGED vars
  BY <1>4, StutterKeepsHandles
<1>5. QED
  BY <1>1, <1>2, <1>3, <1>4 DEF Next

\* Every reachable state satisfies the two inductive invariants together.
THEOREM AllInductive == Spec => []SafetyInv
<1>1. Init => DemandInv
  BY NothingOwedInitially
<1>2. IndInv /\ DemandInv /\ [Next]_vars => DemandInv'
  BY EveryStepSound DEF StepSound
<1>3. IndInv /\ DemandInv => SafetyInv
  BY DEF SafetyInv
<1>4. QED
  BY <1>1, <1>2, <1>3, Inductive, PTL DEF Spec

\* processGraphNode reads the results of its inputs without a lock; none of them is
\* still to be written.
THEOREM InputsAreSettled == Spec => []InputsSettled
<1>1. IndInv => InputsSettled
  BY DEF IndInv
<1>2. QED
  BY <1>1, Inductive, PTL

\* A handle that was issued and not aborted waits for exactly the pages it is owed,
\* through completions, retirements and the hand-overs between them.
THEOREM OutstandingCorrect == Spec => []OutstandingExact
<1>1. SafetyInv => OutstandingExact
  BY DEF SafetyInv, DemandInv, HandlesExact, OutstandingExact
<1>2. QED
  BY <1>1, AllInductive, PTL

\* A node that is Done or Dropped never executes again, and a wait() that has
\* returned is over for good.
THEOREM SettledStaysSettled == Spec => SettledIsFinal
<1>1. SafetyInv /\ [Next]_vars =>
        [/\ \A n \in Node : state[n] \in Settled => state'[n] = state[n]
         /\ \A d \in Demand : demand[d].phase = "released" =>
               demand'[d].phase = "released" /\ WaitOver(d)']_vars
  <2> SUFFICES ASSUME SafetyInv, [Next]_vars
               PROVE  /\ \A n \in Node : state[n] \in Settled => state'[n] = state[n]
                      /\ \A d \in Demand : demand[d].phase = "released" =>
                            demand'[d].phase = "released" /\ WaitOver(d)'
    OBVIOUS
  <2>1. StepSound
    BY EveryStepSound DEF SafetyInv
  <2>2. \A d \in Demand : demand'[d].phase = "released" => WaitOver(d)'
    BY <2>1 DEF StepSound, DemandInv, HandlesExact
  <2>3. QED
    BY <2>1, <2>2 DEF StepSound, SettledStays, ReleasedStays
<1>2. QED
  BY <1>1, AllInductive, PTL DEF Spec, SettledIsFinal

\* The scheduler keeps what a GraphDemand promises: each demanded page is delivered
\* or declared lost, once, and wait() returns when none is left or after an abort.
THEOREM ImplementsPageDemand == Spec => RefinesPageDemand
<1>1. Init => Handles!Init
  BY NothingOwedInitially
<1>2. SafetyInv /\ [Next]_vars => [Handles!Next]_Handles!vars
  BY EveryStepSound DEF SafetyInv, StepSound, HandlesMove
<1>3. QED
  BY <1>1, <1>2, AllInductive, PTL DEF Spec, RefinesPageDemand, Handles!Spec

=============================================================================
