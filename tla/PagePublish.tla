---------------------------- MODULE PagePublish ----------------------------
(***************************************************************************)
(* How a rendered page becomes CURRENT.  Every twComponent caches its      *)
(* pages and stamps each with its own content epoch, read before the       *)
(* render; an edit changes one component and then bumps the epoch of       *)
(* everything downstream of it, one component after the other, not always  *)
(* from the deepest up.  A page whose stamp has reached the component's    *)
(* epoch is served as it is.                                               *)
(*                                                                         *)
(* The graph is a chain: component 1 is a source, component c reads the    *)
(* same page of component c - 1.  Two kinds of thread fill the caches:     *)
(*                                                                         *)
(*   Puller   calls requestPage on the root, which renders what is missing *)
(*            on its own stack (twcomponent.cc, twstreaminglatch.cc)       *)
(*   Worker   runs the nodes of a demand, source first, with the input     *)
(*            page bound, and verifies at publication (processGraphNode    *)
(*            of capture_revalidator.cc; GraphScheduler has the order)     *)
(*                                                                         *)
(* The audio of a page is the versions of the settings it was computed     *)
(* from.  An action is one critical section or one access of an atomic.    *)
(***************************************************************************)
EXTENDS Integers, Sequences, FiniteSets

CONSTANTS
    Page,       \* page positions
    Height,     \* components 1..Height, Height is the root
    Puller, Worker,
    Nobody,
    Ranges,     \* the page sets an edit may touch
    Walks,      \* the orders in which the edit of a component may bump the others
    MaxEdits,   \* bound: edits ever made
    MaxEpoch,   \* bound: no demand starts once the root's epoch is there
    Prunable    \* the pages a render session may leave behind and prune

ASSUME HeightAssumption == Height \in Nat \ {0}
ASSUME RangesAssumption == Ranges \subseteq SUBSET Page
ASSUME BoundAssumption  == MaxEdits \in Nat /\ MaxEpoch \in Nat
ASSUME NobodyAssumption == Nobody \notin Puller \cup Worker \cup Page
ASSUME PrunableAssumption == Prunable \subseteq Page

Comp   == 1 .. Height

ASSUME WalksAssumption ==
    \A c \in Comp : \A walk \in Walks[c] : walk \in Seq(Comp) /\ \E i \in DOMAIN walk : walk[i] = c

Thread == Puller \cup Worker
Shows(n) == [1 .. n -> 0 .. MaxEdits]      \* the audio of a page of component n

VARIABLES
    model,      \* each component's own setting, per page: the number of the edit
    edit,       \* the edit whose path is being bumped
    settled,    \* history: the model as of the last edit whose path is complete, page by
                \* page, and had left nothing late
    late,       \* history: pages whose component was bumped before one upstream of it
    edits,      \* edits made so far
    epoch,      \* contentEpoch_
    cache,      \* outputPages_
    cursor,     \* who holds cursorMutex_
    hint,       \* the page a reader holds, and its producer's epoch as observed
    inflight,   \* the requestPage dedup map
    thread,     \* what each thread is doing
    stack,      \* its freezePage calls, innermost first
    slipped     \* pages with an edit that landed inside a retry (see Slips)

editing == <<model, edit, settled, late, edits>>
caching == <<epoch, cache>>
vars == <<editing, caching, cursor, hint, inflight, thread, stack, slipped>>

NoPage      == [present |-> FALSE, valid |-> FALSE, stamp |-> 0, shows |-> <<>>]
Placeholder == [NoPage EXCEPT !.present = TRUE]
Frozen(stamp, shows) == [present |-> TRUE, valid |-> TRUE, stamp |-> stamp, shows |-> shows]

NoEntry == [epoch |-> 0, owner |-> Nobody]
NoEdit  == [path |-> <<>>, range |-> {}, whole |-> FALSE]

Call(c) == [comp |-> c, at |-> "enter", epoch |-> 0, prod |-> 0, own |-> 0, input |-> <<>>]

\* pc, the page it works on, the component (of its node, of its request), the
\* request's epoch, the entry waited for, the page in hand, the bound input and the
\* epochs its nodes observed.  For the properties: the model a puller may rely on,
\* and the nodes since whose plan, or retry, no edit was under way.
Idle == [pc |-> "idle", page |-> Nobody, node |-> 0, comp |-> 0, epoch |-> 0,
         waits |-> Nobody, got |-> <<>>, bound |-> <<>>,
         observed |-> [c \in Comp |-> 0], since |-> <<>>, quiet |-> [c \in Comp |-> FALSE]]

Init ==
    /\ model = [c \in Comp |-> [p \in Page |-> 0]]
    /\ settled = model
    /\ late = {}
    /\ edit = NoEdit
    /\ edits = 0
    /\ epoch = [c \in Comp |-> 1]
    /\ cache = [c \in Comp |-> [p \in Page |-> NoPage]]
    /\ cursor = [c \in Comp |-> Nobody]
    /\ hint = [c \in Comp |-> [page |-> Nobody, shows |-> <<>>, observed |-> 0]]
    /\ inflight = [c \in Comp |-> [p \in Page |-> NoEntry]]
    /\ thread = [t \in Thread |-> Idle]
    /\ stack = [t \in Thread |-> <<>>]
    /\ slipped = {}

(***************************************************************************)
(* Invalidation                                                            *)
(***************************************************************************)
\* invalidatePagesInRange: the epoch advances, and cached pages outside the range
\* that were current are re-blessed; a page already stale is not.
RangeInvalidatedReblessingAll(c, range) ==
    /\ epoch' = [epoch EXCEPT ![c] = @ + 1]
    /\ cache' = [cache EXCEPT ![c] = [p \in Page |->
            IF @[p].valid /\ p \notin range THEN [@[p] EXCEPT !.stamp = epoch[c] + 1]
                                            ELSE @[p]]]

RangeInvalidatedWithoutBump(c, range) ==
    /\ UNCHANGED epoch
    /\ cache' = [cache EXCEPT ![c] = [p \in Page |->
            IF @[p].valid /\ p \notin range /\ @[p].stamp = epoch[c]
            THEN [@[p] EXCEPT !.stamp = epoch[c] + 1] ELSE @[p]]]

RangeInvalidated(c, range) ==
    /\ epoch' = [epoch EXCEPT ![c] = @ + 1]
    /\ cache' = [cache EXCEPT ![c] = [p \in Page |->
            IF @[p].valid /\ p \notin range /\ @[p].stamp = epoch[c]
            THEN [@[p] EXCEPT !.stamp = epoch[c] + 1] ELSE @[p]]]

\* bumpContentEpoch: every page of the component goes stale.
Bumped(c) == epoch' = [epoch EXCEPT ![c] = @ + 1] /\ UNCHANGED cache

(***************************************************************************)
(* The main thread: an edit                                                *)
(***************************************************************************)
\* The walk up the containment from the edited component to the root.  A track bumps
\* its aux tap after the chain that reads it, and the lanes a track sends to come after
\* the root: Walks has those orders.
Path(c) == [i \in 1 .. Height - c + 1 |-> c + i - 1]

Disturbed == [t \in Thread |-> [thread[t] EXCEPT !.quiet = Idle.quiet]]

EditBegin(c, range, whole, walk) ==
    /\ edit = NoEdit
    /\ edits < MaxEdits
    /\ edits' = edits + 1
    /\ thread' = Disturbed
    /\ model' = [model EXCEPT ![c] = [p \in Page |-> IF p \in range THEN edits + 1 ELSE @[p]]]
    /\ edit' = [path |-> walk, range |-> range, whole |-> whole]
    /\ UNCHANGED <<settled, late, caching, cursor, hint, inflight, stack, slipped>>

\* The retry of a node: from the detection of a stale input to the epoch the retry
\* observes for itself.  An edit bumped in between is not noticed any more.
Retrying == {"fast", "claim", "wait", "rendering", "erase", "deliver",
             "bind", "check", "drop", "observe"}
Slips(c, range) ==
    {p \in range : \E t \in Worker : /\ thread[t].node = c /\ thread[t].page = p
                                     /\ thread[t].pc \in Retrying}

EditBumps(c) == IF edit.whole THEN Bumped(c) ELSE RangeInvalidated(c, edit.range)

Touched == IF edit.whole THEN Page ELSE edit.range

\* What is downstream and not bumped again may hold audio from before this bump.
Overtaken(c, rest) ==
    (late \ ({c} \X Touched))
        \cup ({d \in c + 1 .. Height : \A i \in DOMAIN rest : rest[i] # d} \X Touched)

Settling(overtaken) ==
    [c \in Comp |-> [p \in Page |->
        IF \E d \in Comp : <<d, p>> \in overtaken THEN settled[c][p] ELSE model[c][p]]]

EditBump ==
    /\ edit # NoEdit
    /\ LET c == Head(edit.path)
           rest == Tail(edit.path)
           overtaken == Overtaken(c, rest)
       IN  /\ EditBumps(c)
           /\ late' = overtaken
           /\ slipped' = slipped \cup Slips(c, Touched)
           /\ edit' = IF rest = <<>> THEN NoEdit ELSE [edit EXCEPT !.path = rest]
           /\ settled' = IF rest = <<>> THEN Settling(overtaken) ELSE settled
    /\ UNCHANGED <<model, edits, cursor, hint, inflight, thread, stack>>

\* releaseOldPagesGlobally: a page behind the render position leaves the map,
\* also one that is just being rendered.
Prune(c, p) ==
    /\ p \in Prunable
    /\ cache[c][p].present
    /\ cache' = [cache EXCEPT ![c][p] = NoPage]
    /\ UNCHANGED <<editing, epoch, cursor, hint, inflight, thread, stack, slipped>>

(***************************************************************************)
(* freezePage                                                              *)
(***************************************************************************)
Top(t) == Head(stack[t])
Set(t, frame) == stack' = [stack EXCEPT ![t] = <<frame>> \o Tail(@)]

\* Where a thread goes on when its outermost freezePage returns.
AfterFreeze == [rendering |-> "erase", freezing |-> "verify", refreezing |-> "self"]

\* The innermost call returns a page; a calling render keeps it as its hint.
Return(t, shows) ==
    \/ /\ Len(stack[t]) = 1
       /\ stack' = [stack EXCEPT ![t] = <<>>]
       /\ thread' = [thread EXCEPT ![t].pc = AfterFreeze[@], ![t].got = shows]
       /\ UNCHANGED hint
    \/ /\ Len(stack[t]) > 1
       /\ LET caller == stack[t][2]
          IN  /\ stack' = [stack EXCEPT ![t] =
                     <<[caller EXCEPT !.at = "stamp", !.input = shows]>> \o SubSeq(@, 3, Len(@))]
              /\ hint' = [hint EXCEPT ![caller.comp] =
                     [page |-> thread[t].page, shows |-> shows, observed |-> caller.prod]]
       /\ UNCHANGED thread

In(t, at) == stack[t] # <<>> /\ Top(t).at = at

FreezeEnterUnserialized(t) ==
    /\ In(t, "enter")
    /\ cursor[Top(t).comp] = Nobody
    /\ Set(t, [Top(t) EXCEPT !.at = "lookup", !.epoch = epoch[Top(t).comp]])
    /\ UNCHANGED <<editing, caching, cursor, hint, inflight, thread, slipped>>

\* Sources are serial-cursor components and everything else has an input, so every
\* freeze of the chain holds its component's cursorMutex_.
FreezeEnter(t) ==
    /\ In(t, "enter")
    /\ cursor[Top(t).comp] = Nobody
    /\ cursor' = [cursor EXCEPT ![Top(t).comp] = t]
    /\ Set(t, [Top(t) EXCEPT !.at = "lookup", !.epoch = epoch[Top(t).comp]])
    /\ UNCHANGED <<editing, caching, hint, inflight, thread, slipped>>

CurrentStrictly(page, e) == page.valid /\ page.stamp > e

Current(page, e) == page.valid /\ page.stamp >= e

FreezeHit(t) ==
    /\ In(t, "lookup")
    /\ LET f    == Top(t)
           page == cache[f.comp][thread[t].page]
       IN  /\ Current(page, f.epoch)
           /\ cursor' = [cursor EXCEPT ![f.comp] = Nobody]
           /\ Return(t, page.shows)
    /\ UNCHANGED <<editing, caching, inflight, slipped>>

\* A placeholder replaces what was there and the render starts.  It may read the
\* component's own setting at any time from here on: the oldest is the worst.
FreezeMiss(t) ==
    /\ In(t, "lookup")
    /\ LET f == Top(t)
           p == thread[t].page
       IN  /\ ~Current(cache[f.comp][p], f.epoch)
           /\ cache' = [cache EXCEPT ![f.comp][p] = Placeholder]
           /\ Set(t, [f EXCEPT !.own = model[f.comp][p],
                               !.at = IF f.comp = 1 THEN "stamp" ELSE "pull"])
    /\ UNCHANGED <<editing, epoch, cursor, hint, inflight, thread, slipped>>

\* acquirePage: the page the reader holds, if the producer's epoch has not moved
\* since it was observed; a bound page; or the producer's own freezePage.
Holds(c, p) == hint[c].page = p /\ hint[c].observed = epoch[c - 1]

PullHeld(t) ==
    /\ In(t, "pull")
    /\ Holds(Top(t).comp, thread[t].page)
    /\ Set(t, [Top(t) EXCEPT !.at = "stamp", !.input = hint[Top(t).comp].shows])
    /\ UNCHANGED <<editing, caching, cursor, hint, inflight, thread, slipped>>

PullBound(t) ==
    /\ In(t, "pull")
    /\ ~Holds(Top(t).comp, thread[t].page)
    /\ thread[t].bound # <<>>
    /\ Set(t, [Top(t) EXCEPT !.at = "stamp", !.input = thread[t].bound])
    /\ hint' = [hint EXCEPT ![Top(t).comp] =
            [page |-> thread[t].page, shows |-> thread[t].bound, observed |-> 0]]
    /\ UNCHANGED <<editing, caching, cursor, inflight, thread, slipped>>

PullProducer(t) ==
    /\ In(t, "pull")
    /\ ~Holds(Top(t).comp, thread[t].page)
    /\ thread[t].bound = <<>>
    /\ LET c == Top(t).comp
       IN  stack' = [stack EXCEPT ![t] =
               <<Call(c - 1), [Top(t) EXCEPT !.at = "pulling", !.prod = epoch[c - 1]]>> \o Tail(@)]
    /\ UNCHANGED <<editing, caching, cursor, hint, inflight, thread, slipped>>

\* "Stamp with the epoch read BEFORE rendering"
FreezeStamp(t) ==
    /\ In(t, "stamp")
    /\ LET f     == Top(t)
           p     == thread[t].page
           shows == Append(f.input, f.own)
       IN  /\ cache' = IF cache[f.comp][p].present
                       THEN [cache EXCEPT ![f.comp][p] = Frozen(f.epoch, shows)]
                       ELSE cache
           /\ cursor' = [cursor EXCEPT ![f.comp] = Nobody]
           /\ Return(t, shows)
    /\ UNCHANGED <<editing, epoch, inflight, slipped>>

(***************************************************************************)
(* requestPage                                                             *)
(***************************************************************************)
At(t, pc) == thread[t].pc = pc /\ stack[t] = <<>>
Goto(t, pc) == thread' = [thread EXCEPT ![t].pc = pc]

\* Where a thread goes on when its requestPage returns.
AfterRequest(t) == IF t \in Puller THEN "answer" ELSE "bind"

\* A consumer without a scheduler asks for a page of the root.
Request(t, p) ==
    /\ t \in Puller
    /\ At(t, "idle")
    /\ thread' = [thread EXCEPT ![t] = [@ EXCEPT !.pc = "fast", !.page = p, !.comp = Height,
                        !.epoch = epoch[Height],
                        !.since = [c \in Comp |-> settled[c][p]]]]
    /\ UNCHANGED <<editing, caching, cursor, hint, inflight, stack, slipped>>

RequestFast(t) ==
    /\ At(t, "fast")
    /\ LET page == cache[thread[t].comp][thread[t].page]
       IN  thread' = IF Current(page, thread[t].epoch)
                     THEN [thread EXCEPT ![t].pc = AfterRequest(t), ![t].got = page.shows]
                     ELSE [thread EXCEPT ![t].pc = "claim"]
    /\ UNCHANGED <<editing, caching, cursor, hint, inflight, stack, slipped>>

\* Attach to a render in flight for an epoch that is new enough, or claim it.
AttachableAny(entry, e) == entry.owner # Nobody

Attachable(entry, e) == entry.owner # Nobody /\ entry.epoch >= e

RequestAttach(t) ==
    /\ At(t, "claim")
    /\ LET entry == inflight[thread[t].comp][thread[t].page]
       IN  /\ Attachable(entry, thread[t].epoch)
           /\ thread' = [thread EXCEPT ![t].pc = "wait", ![t].waits = entry.owner]
    /\ UNCHANGED <<editing, caching, cursor, hint, inflight, stack, slipped>>

RequestClaim(t) ==
    /\ At(t, "claim")
    /\ ~Attachable(inflight[thread[t].comp][thread[t].page], thread[t].epoch)
    /\ inflight' = [inflight EXCEPT ![thread[t].comp][thread[t].page] =
            [epoch |-> thread[t].epoch, owner |-> t]]
    /\ stack' = [stack EXCEPT ![t] = <<Call(thread[t].comp)>>]
    /\ Goto(t, "rendering")
    /\ UNCHANGED <<editing, caching, cursor, hint, slipped>>

\* "only clear if still ours"
RequestErase(t) ==
    /\ At(t, "erase")
    /\ inflight' = IF inflight[thread[t].comp][thread[t].page].owner = t
                   THEN [inflight EXCEPT ![thread[t].comp][thread[t].page] = NoEntry]
                   ELSE inflight
    /\ Goto(t, "deliver")
    /\ UNCHANGED <<editing, caching, cursor, hint, stack, slipped>>

RequestDeliver(t) ==
    /\ At(t, "deliver")
    /\ thread' = [u \in Thread |->
            CASE u = t -> [thread[u] EXCEPT !.pc = AfterRequest(u)]
              [] thread[u].pc = "wait" /\ thread[u].waits = t ->
                     [thread[u] EXCEPT !.pc = AfterRequest(u), !.waits = Nobody,
                                       !.got = thread[t].got]
              [] OTHER -> thread[u]]
    /\ UNCHANGED <<editing, caching, cursor, hint, inflight, stack, slipped>>

Answer(t) ==
    /\ At(t, "answer")
    /\ thread' = [thread EXCEPT ![t] = Idle]
    /\ UNCHANGED <<editing, caching, cursor, hint, inflight, stack, slipped>>

(***************************************************************************)
(* processGraphNode                                                        *)
(***************************************************************************)
\* A page that does not read current is demanded, planned from the root down.
Demand(t, p) ==
    /\ t \in Worker
    /\ At(t, "idle")
    /\ epoch[Height] < MaxEpoch
    /\ ~Current(cache[Height][p], epoch[Height])
    /\ \A u \in Worker : thread[u].page # p
    /\ thread' = [thread EXCEPT ![t] = [@ EXCEPT !.pc = "plan", !.page = p, !.node = Height]]
    /\ UNCHANGED <<editing, caching, cursor, hint, inflight, stack, slipped>>

Plan(t) ==
    /\ At(t, "plan")
    /\ LET c == thread[t].node
       IN  thread' = [thread EXCEPT ![t] = [@ EXCEPT !.observed[c] = epoch[c],
                            !.quiet[c] = (edit = NoEdit),
                            !.node = IF c > 1 THEN c - 1 ELSE 1,
                            !.pc = IF c > 1 THEN "plan" ELSE "freeze"]]
    /\ UNCHANGED <<editing, caching, cursor, hint, inflight, stack, slipped>>

\* freezePageWithInputs, the result of the input's node bound (none for a source).
NodeFreeze(t) ==
    /\ At(t, "freeze")
    /\ thread' = [thread EXCEPT ![t] = [@ EXCEPT !.pc = "freezing", !.bound = thread[t].got]]
    /\ stack' = [stack EXCEPT ![t] = <<Call(thread[t].node)>>]
    /\ UNCHANGED <<editing, caching, cursor, hint, inflight, slipped>>

\* Verify at publication, part 1: did the input go stale under the render?
InputStale(t) ==
    LET c == thread[t].node IN c > 1 /\ thread[t].observed[c - 1] < epoch[c - 1]

VerifyInput(t) ==
    /\ At(t, "verify")
    /\ thread' = IF InputStale(t)
                 THEN [thread EXCEPT ![t] = [@ EXCEPT !.pc = "fast", !.bound = <<>>,
                            !.comp = thread[t].node - 1, !.epoch = epoch[thread[t].node - 1]]]
                 ELSE [thread EXCEPT ![t].pc = "self"]
    /\ UNCHANGED <<editing, caching, cursor, hint, inflight, stack, slipped>>

\* The one retry: bind the input afresh, drop what attempt 1 published, if
\* anything, observe the epoch again, and render.
RetryBind(t) ==
    /\ At(t, "bind")
    /\ thread' = [thread EXCEPT ![t] = [@ EXCEPT !.pc = "check", !.bound = thread[t].got]]
    /\ UNCHANGED <<editing, caching, cursor, hint, inflight, stack, slipped>>

RetryCheck(t) ==
    /\ At(t, "check")
    /\ Goto(t, IF cache[thread[t].node][thread[t].page].valid THEN "drop" ELSE "observe")
    /\ UNCHANGED <<editing, caching, cursor, hint, inflight, stack, slipped>>

RetryDrop(t) ==
    /\ At(t, "drop")
    /\ RangeInvalidated(thread[t].node, {thread[t].page})
    /\ Goto(t, "observe")
    /\ UNCHANGED <<editing, cursor, hint, inflight, stack, slipped>>

RetryFreezeWithoutObserving(t) ==
    /\ At(t, "observe")
    /\ thread' = [thread EXCEPT ![t].pc = "refreezing",
                                       ![t].quiet[thread[t].node] = (edit = NoEdit)]
    /\ stack' = [stack EXCEPT ![t] = <<Call(thread[t].node)>>]
    /\ UNCHANGED <<editing, caching, cursor, hint, inflight, slipped>>

RetryFreeze(t) ==
    /\ At(t, "observe")
    /\ LET c == thread[t].node
       IN  /\ thread' = [thread EXCEPT ![t] = [@ EXCEPT !.observed[c] = epoch[c],
                                  !.pc = "refreezing", !.quiet[c] = (edit = NoEdit)]]
           /\ stack' = [stack EXCEPT ![t] = <<Call(c)>>]
    /\ UNCHANGED <<editing, caching, cursor, hint, inflight, slipped>>

\* Part 2: the node's own component changed since it was planned.  The page is
\* published all the same, and re-staled if it would read current.
SelfTest(t) ==
    /\ At(t, "self")
    /\ Goto(t, IF thread[t].observed[thread[t].node] < epoch[thread[t].node]
               THEN "probe" ELSE "complete")
    /\ UNCHANGED <<editing, caching, cursor, hint, inflight, stack, slipped>>

SelfProbe(t) ==
    /\ At(t, "probe")
    /\ Goto(t, IF Current(cache[thread[t].node][thread[t].page], epoch[thread[t].node])
               THEN "restale" ELSE "complete")
    /\ UNCHANGED <<editing, caching, cursor, hint, inflight, stack, slipped>>

SelfRestale(t) ==
    /\ At(t, "restale")
    /\ RangeInvalidated(thread[t].node, {thread[t].page})
    /\ Goto(t, "complete")
    /\ UNCHANGED <<editing, cursor, hint, inflight, stack, slipped>>

\* completeGraphNode: the page is the node's result, and the next node may run.
Complete(t) ==
    /\ At(t, "complete")
    /\ thread' = [thread EXCEPT ![t] =
            IF @.node < Height THEN [@ EXCEPT !.pc = "freeze", !.node = thread[t].node + 1]
                               ELSE Idle]
    /\ UNCHANGED <<editing, caching, cursor, hint, inflight, stack, slipped>>

(***************************************************************************)
(* The specification                                                       *)
(***************************************************************************)
Freeze(t) ==
    \/ FreezeEnter(t) \/ FreezeHit(t) \/ FreezeMiss(t)
    \/ PullHeld(t) \/ PullBound(t) \/ PullProducer(t)
    \/ FreezeStamp(t)

ServeRequest(t) ==
    \/ RequestFast(t) \/ RequestAttach(t) \/ RequestClaim(t)
    \/ RequestErase(t) \/ RequestDeliver(t)

Pull(t) == (\E p \in Page : Request(t, p)) \/ Answer(t)

RunNode(t) ==
    \/ \E p \in Page : Demand(t, p)
    \/ Plan(t) \/ NodeFreeze(t) \/ VerifyInput(t)
    \/ RetryBind(t) \/ RetryCheck(t) \/ RetryDrop(t) \/ RetryFreeze(t)
    \/ SelfTest(t) \/ SelfProbe(t) \/ SelfRestale(t)
    \/ Complete(t)

ThreadStep(t) == Freeze(t) \/ ServeRequest(t) \/ Pull(t) \/ RunNode(t)

MainThread ==
    \/ \E c \in Comp, range \in Ranges, whole \in BOOLEAN : \E walk \in Walks[c] :
           EditBegin(c, range, whole, walk)
    \/ EditBump
    \/ \E c \in Comp, p \in Page : Prune(c, p)

Next == MainThread \/ \E t \in Thread : ThreadStep(t)

Spec == Init /\ [][Next]_vars

\* Threads run and an edit begun is bumped through; nobody has to edit or prune.
FairSpec == Spec /\ WF_vars(EditBump) /\ \A t \in Thread : WF_vars(ThreadStep(t))

(***************************************************************************)
(* Properties                                                              *)
(***************************************************************************)
Pc == {"idle", "fast", "claim", "wait", "rendering", "erase", "deliver", "answer",
       "plan", "freeze", "freezing", "verify", "bind", "check", "drop", "observe",
       "refreezing", "self", "probe", "restale", "complete"}

\* A frozen page carries a stamp its component has really had and the audio of one
\* setting of each component behind it, and a thread that is past the entry of a
\* freezePage holds that component's cursorMutex_.
TypeOK ==
    /\ model \in [Comp -> [Page -> 0 .. MaxEdits]]
    /\ settled \in [Comp -> [Page -> 0 .. MaxEdits]]
    /\ edits \in 0 .. MaxEdits
    /\ late \subseteq Comp \X Page
    /\ \/ edit = NoEdit
       \/ /\ edit.path # <<>> /\ edit.path \in Seq(Comp)
          /\ edit.range \in Ranges /\ edit.whole \in BOOLEAN
    /\ epoch \in [Comp -> Nat]
    /\ \A c \in Comp, p \in Page :
           /\ cache[c][p] \in {NoPage, Placeholder} \cup
                  {Frozen(stamp, shows) : stamp \in 1 .. epoch[c], shows \in Shows(c)}
           /\ inflight[c][p] \in {NoEntry} \cup [epoch : 1 .. epoch[c], owner : Thread]
    /\ cursor \in [Comp -> Thread \cup {Nobody}]
    /\ \A c \in Comp : hint[c].page \in Page => hint[c].shows \in Shows(c - 1)
    /\ \A t \in Thread :
           /\ thread[t].pc \in Pc
           /\ \A i \in DOMAIN stack[t] :
                  cursor[stack[t][i].comp] = t <=> stack[t][i].at # "enter"
    /\ slipped \subseteq Page

Fresh(c, p) == [i \in 1 .. c |-> model[i][p]]
ReadsCurrent(c, p) == cache[c][p].valid /\ cache[c][p].stamp = epoch[c]

\* No bump of c is still to come.
Reached(c) == \A i \in DOMAIN edit.path : edit.path[i] # c

\* None of c or upstream is to come, and each component has been bumped after those
\* upstream of it.
InOrder(c, p) == \A d \in 1 .. c : Reached(d) /\ <<d, p>> \notin late

\* A page that reads current is the page of the model as it is now: whatever a
\* render read before an edit, it was stamped with an epoch from before the bump,
\* no reader served it from its hint afterwards, and no range invalidation of
\* another page blessed it again.  Excepted are pages of components that a walk bumped
\* before something upstream of them: rendered between the two bumps, they stay.
CurrentIsFresh ==
    \A c \in Comp, p \in Page :
        InOrder(c, p) /\ ReadsCurrent(c, p) => cache[c][p].shows = Fresh(c, p)

\* A request is answered with audio no older than the edits that were complete
\* when it was made, also when the answer was rendered for another thread's request.
\* An edit whose walk has bumped something upstream late is not complete.
RequestFresh ==
    \A t \in Puller : thread[t].pc = "answer" =>
        \A c \in Comp : thread[t].got[c] >= thread[t].since[c]

\* A node that has begun to freeze and has not completed.
Unverified(c, p) ==
    \E t \in Worker : /\ thread[t].node = c /\ thread[t].page = p
                      /\ thread[t].pc \notin {"idle", "plan", "freeze"}

\* Once the node that rendered it has completed, a page that reads current is fresh:
\* audio bound from before an edit is either rendered again or marked stale.  Pages
\* bumped out of order are excepted again, and those with an edit inside a retry, see
\* EditsAreNeverLost.
PublishedIsFresh ==
    \A c \in Comp, p \in Page :
        InOrder(c, p) /\ ReadsCurrent(c, p) /\ ~Unverified(c, p) /\ p \notin slipped
            => cache[c][p].shows = Fresh(c, p)

\* The same without the second exception: what processGraphNode says of its retry.
EditsAreNeverLost ==
    \A c \in Comp, p \in Page :
        InOrder(c, p) /\ ReadsCurrent(c, p) /\ ~Unverified(c, p)
            => cache[c][p].shows = Fresh(c, p)

\* A node re-stales the page it has just published only if an edit was under way
\* since its plan, or since its retry observed the epoch again: the scheduler does
\* not take an invalidation of its own for an edit, which would never come to rest.
RepublishNeedsEdit ==
    \A t \in Worker : thread[t].pc = "restale" => ~thread[t].quiet[thread[t].node]

\* When the edits stop, every page of the root comes to read current and stays so.
Converges == <>[](\A p \in Page : ReadsCurrent(Height, p))

=============================================================================
