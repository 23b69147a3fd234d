-------------------------- MODULE PageWorkerProofs --------------------------
(***************************************************************************)
(* A published page that reads current is fresh (PublishedIsFresh): for a  *)
(* chain of any height, any number of workers, any edits, pages pruned     *)
(* under their renders, and no puller (WorkersOnly).  With a puller beside *)
(* them it fails: a puller reads a page between its freeze and the         *)
(* verification.                                                           *)
(*                                                                         *)
(* The argument: pages are demanded once, so a page has at most one worker *)
(* and everything about it rests on that worker alone.  An input bound     *)
(* from a node below is fresh as long as that node's epoch has not moved   *)
(* since it was planned (InputKept), which is what the verification tests; *)
(* what a retry has in hand is fresh as long as no edit is still to reach  *)
(* the node, because one that reaches it inside the retry slips and one    *)
(* that reaches it later moves the epoch the retry observed (SelfKept).  A *)
(* page is in DOUBT while its node has neither verified it nor dropped it. *)
(* Where a bump came late (InOrder) nothing is claimed of a page.          *)
(***************************************************************************)
EXTENDS PagePublishProofs

WorkersOnly == Puller = {}

-----------------------------------------------------------------------------
(***************************************************************************)
(* The inductive invariant                                                 *)
(***************************************************************************)
Audio   == Seq(Version)
Epochs  == [Comp -> Nat]
Asking  == {"fast", "claim", "rendering", "erase", "deliver", "bind"}
Binding == {"freezing", "check", "drop", "observe", "refreezing"}
Having  == {"erase", "deliver", "bind", "verify", "self", "probe", "restale", "complete"}
WorkPc  == {"idle", "plan", "freeze"} \cup Asking \cup Binding \cup Having
WorkState == [pc : WorkPc, page : Page \cup {Nobody}, node : 0 .. Height, comp : 0 .. Height,
              epoch : Nat, waits : Thread \cup {Nobody}, got : Audio, bound : Audio,
              observed : Epochs, since : {<<>>}, quiet : Quiet]
Claim == [epoch : Nat, owner : Thread \cup {Nobody}]

WorkTypes ==
    /\ model \in [Comp -> [Page -> Version]] /\ edits \in Version /\ EditShape
    /\ late \subseteq Comp \X Page
    /\ epoch \in [Comp -> Nat \ {0}]
    /\ cache \in [Comp -> [Page -> Cached]] /\ hint \in [Comp -> Hinted]
    /\ inflight \in [Comp -> [Page -> Claim]]
    /\ thread \in [Thread -> WorkState] /\ stack \in [Thread -> Seq(Frame)]

CacheShape ==
    \A c \in Comp, p \in Page : cache[c][p].valid =>
        cache[c][p].stamp <= epoch[c] /\ cache[c][p].shows # <<>>

HintShape ==
    \A c \in Comp : hint[c].page \in Page => c > 1 /\ hint[c].observed <= epoch[c - 1]

\* A page has one worker, and its claims are that worker's.
OnePage ==
    \A t, u \in Thread : t # u /\ thread[t].page = thread[u].page => thread[t].page = Nobody

OwnClaims ==
    \A c \in Comp, p \in Page, t \in Thread : inflight[c][p].owner = t =>
        thread[t].page = p /\ thread[t].comp = c /\ thread[t].pc \in {"rendering", "erase"}

\* What a worker is doing, and with what.
WorkShape(t) ==
    /\ IF thread[t].pc = "idle" THEN thread[t].page = Nobody
                                ELSE thread[t].page \in Page /\ thread[t].node \in Comp
    /\ stack[t] # <<>> => thread[t].pc \in {"rendering", "freezing", "refreezing"}
    /\ thread[t].pc \in Asking =>
           /\ thread[t].node > 1 /\ thread[t].comp = thread[t].node - 1
           /\ thread[t].bound = <<>> /\ thread[t].epoch <= epoch[thread[t].comp]
    /\ thread[t].pc \in Binding /\ thread[t].node > 1 => thread[t].bound # <<>>
    /\ thread[t].pc \in Having \/ (thread[t].pc = "freeze" /\ thread[t].node > 1)
           => thread[t].got # <<>>
    /\ \A c \in Comp : thread[t].observed[c] <= epoch[c]

\* The component its outermost call is for.
Target(t) == IF thread[t].pc = "rendering" THEN thread[t].node - 1 ELSE thread[t].node

CallShape(t, i) ==
    /\ stack[t][i].comp + (Len(stack[t]) - i) = Target(t)
    /\ stack[t][i].at = "pulling" <=> i > 1
    /\ stack[t][i].at = "pull" => stack[t][i].comp > 1
    /\ stack[t][i].at # "stamp" => stack[t][i].input = <<>>
    /\ stack[t][i].epoch <= epoch[stack[t][i].comp]
    /\ i > 1 => /\ stack[t][i].prod <= epoch[stack[t][i].comp - 1]
                /\ stack[t][i - 1].at # "enter" => stack[t][i].prod <= stack[t][i - 1].epoch
    /\ thread[t].pc # "rendering" =>
           /\ Len(stack[t]) = 1
           /\ stack[t][i].at # "enter" => thread[t].observed[stack[t][i].comp] <= stack[t][i].epoch

\* The epochs a node observed have not moved: its input's, and its own.
InputKept(t) ==
    thread[t].node > 1 => thread[t].observed[thread[t].node - 1] = epoch[thread[t].node - 1]
SelfKept(t) == thread[t].observed[thread[t].node] = epoch[thread[t].node]

\* Audio that is fresh for the node's input, and for the node.
Supplies(t, shows)  == thread[t].node > 1 => shows = Fresh(thread[t].node - 1, thread[t].page)
Publishes(t, shows) == shows = Fresh(thread[t].node, thread[t].page)
NodeStable(t)  == Stable(thread[t].node, thread[t].page)
InputStable(t) == thread[t].node > 1 => Stable(thread[t].node - 1, thread[t].page)

\* What the page of the input's cache would be served as.
Serving(t) ==
    Current(cache[thread[t].node - 1][thread[t].page], thread[t].epoch)
        => Supplies(t, cache[thread[t].node - 1][thread[t].page].shows)

\* What a node has in hand, under what it is to be tested for before it is published.
NodeFresh(t) ==
    /\ thread[t].pc = "freeze" /\ InputKept(t) /\ InputStable(t) => Supplies(t, thread[t].got)
    /\ thread[t].pc = "freezing" /\ InputKept(t) /\ InputStable(t) => Supplies(t, thread[t].bound)
    /\ thread[t].pc = "verify" /\ InputKept(t) /\ SelfKept(t) /\ NodeStable(t)
           => Publishes(t, thread[t].got)
    /\ thread[t].pc = "fast" /\ NodeStable(t) => Serving(t)
    /\ thread[t].pc \in {"erase", "deliver", "bind"} /\ NodeStable(t) => Supplies(t, thread[t].got)
    /\ thread[t].pc \in {"check", "drop", "observe"} /\ NodeStable(t) => Supplies(t, thread[t].bound)
    /\ thread[t].pc = "refreezing" /\ SelfKept(t) /\ NodeStable(t) => Supplies(t, thread[t].bound)
    /\ thread[t].pc \in {"self", "probe", "restale", "complete"} /\ SelfKept(t) /\ NodeStable(t)
           => Publishes(t, thread[t].got)

\* What a call holds is fresh if the call, or one that waits for it, is live and its node
\* can still be published, or if it is a retry's and no edit is still to reach the node.
Vouched(t) == /\ thread[t].pc = "freezing" => InputKept(t)
              /\ thread[t].pc = "refreezing" => SelfKept(t)
Awaited(t) == thread[t].pc = "rendering" /\ NodeStable(t)
Warrant(t, i) == (LiveFrom(t, i) /\ Vouched(t)) \/ Awaited(t)

CallsFresh(t) ==
    \A i \in DOMAIN stack[t] : Warrant(t, i) => Holding(stack[t][i], thread[t].page)

WorkOK(t) ==
    /\ WorkShape(t) /\ \A i \in DOMAIN stack[t] : CallShape(t, i)
    /\ thread[t].page \notin slipped => NodeFresh(t) /\ CallsFresh(t)

\* A page its node has rendered and neither verified nor dropped.
InDoubt(t) ==
    \/ thread[t].pc = "verify" /\ ~InputKept(t)
    \/ thread[t].pc \in Asking \cup {"check", "drop", "probe", "restale"}
    \/ thread[t].pc = "self" /\ ~SelfKept(t)
Doubted(t, c, p) == thread[t].node = c /\ thread[t].page = p /\ InDoubt(t)

PageClaim(c, p) ==
    (/\ p \notin slipped /\ Stable(c, p) /\ ReadsCurrent(c, p)
     /\ \A t \in Thread : ~Doubted(t, c, p)) => cache[c][p].shows = Fresh(c, p)

HintClaim(c) ==
    (/\ hint[c].page \in Page /\ hint[c].page \notin slipped
     /\ hint[c].observed = epoch[c - 1] /\ Stable(c - 1, hint[c].page))
        => hint[c].shows = Fresh(c - 1, hint[c].page)

WorkClaims ==
    /\ \A c \in Comp, p \in Page : PageClaim(c, p)
    /\ \A c \in Comp : HintClaim(c)
    /\ \A t \in Thread : WorkOK(t)

WorkInv ==
    WorkersOnly /\ WorkTypes /\ CacheShape /\ HintShape /\ OnePage /\ OwnClaims /\ WorkClaims

-----------------------------------------------------------------------------
(***************************************************************************)
(* The initial state, and the workers a step leaves alone                  *)
(***************************************************************************)
LEMMA WorkStarts ==
    ASSUME WorkersOnly, Init
    PROVE  WorkInv
<1>1. <<>> \in Audio /\ <<>> \in Seq(Frame) /\ 0 \in Version /\ 0 \in 0 .. Height
  BY EmptySeq, BoundAssumption, HeightAssumption DEF Version, Audio
<1>2. /\ model \in [Comp -> [Page -> Version]] /\ edits \in Version /\ EditShape
      /\ late \subseteq Comp \X Page /\ epoch \in [Comp -> Nat \ {0}]
  BY <1>1 DEF Init, EditShape
<1>3. cache \in [Comp -> [Page -> Cached]]
  BY <1>1 DEF Init, Cached, NoPage, Audio
<1>4. hint \in [Comp -> Hinted]
  BY <1>1 DEF Init, Hinted, Audio
<1>5. inflight \in [Comp -> [Page -> Claim]]
  BY DEF Init, NoEntry, Claim
<1>6. Idle \in WorkState
  BY <1>1 DEF Idle, WorkState, WorkPc, Quiet, Epochs
<1>7. WorkTypes
  BY <1>1, <1>2, <1>3, <1>4, <1>5, <1>6 DEF Init, WorkTypes
<1>8. \A t \in Thread : /\ stack[t] = <<>> /\ DOMAIN stack[t] = {} /\ thread[t].pc = "idle"
                        /\ thread[t].page = Nobody /\ \A c \in Comp : thread[t].observed[c] = 0
  BY DEF Init, Idle
<1>9. \A c \in Comp, p \in Page : ~cache[c][p].valid /\ inflight[c][p].owner = Nobody
  BY DEF Init, NoPage, NoEntry
<1>10. \A c \in Comp : hint[c].page \notin Page
  BY NobodyAssumption DEF Init
<1>11. \A t \in Thread : t # Nobody
  BY NobodyAssumption DEF Thread
<1>12. CacheShape /\ HintShape /\ OnePage /\ OwnClaims
  BY <1>8, <1>9, <1>10, <1>11 DEF CacheShape, HintShape, OnePage, OwnClaims
<1>13. ASSUME NEW t \in Thread PROVE WorkOK(t)
  <2>1. \A c \in Comp : thread[t].observed[c] <= epoch[c]
    BY <1>8 DEF Init
  <2>2. WorkShape(t)
    BY <1>8, <2>1 DEF WorkShape, Asking, Binding, Having
  <2>3. NodeFresh(t) /\ CallsFresh(t)
    BY <1>8 DEF NodeFresh, CallsFresh
  <2>4. QED
    BY <1>8, <2>2, <2>3 DEF WorkOK
<1>14. \A c \in Comp, p \in Page : PageClaim(c, p)
  BY <1>9 DEF PageClaim, ReadsCurrent
<1>15. \A c \in Comp : HintClaim(c)
  BY <1>10 DEF HintClaim
<1>16. QED
  BY <1>7, <1>12, <1>13, <1>14, <1>15 DEF WorkInv, WorkClaims

\* A worker that a step leaves alone, with the pages of its position.
LEMMA OtherKeeps ==
    ASSUME WorkInv, NEW u \in Thread, thread'[u] = thread[u], stack'[u] = stack[u],
           UNCHANGED <<model, edit, late, epoch, slipped>>,
           \A c \in Comp : thread[u].page \in Page =>
               cache'[c][thread[u].page] = cache[c][thread[u].page]
    PROVE  WorkOK(u)' /\ (InDoubt(u)' <=> InDoubt(u))
<1>1. WorkOK(u) /\ WorkTypes
  BY DEF WorkInv, WorkClaims
<1>2. WorkShape(u)'
  BY <1>1 DEF WorkOK, WorkShape
<1>3. ASSUME NEW i \in DOMAIN stack[u] PROVE CallShape(u, i)'
  BY <1>1 DEF WorkOK, CallShape, Target
<1>4. /\ InputKept(u)' <=> InputKept(u)
      /\ SelfKept(u)' <=> SelfKept(u)
      /\ NodeStable(u)' <=> NodeStable(u)
      /\ InputStable(u)' <=> InputStable(u)
      /\ Supplies(u, thread[u].got)' <=> Supplies(u, thread[u].got)
      /\ Supplies(u, thread[u].bound)' <=> Supplies(u, thread[u].bound)
      /\ Publishes(u, thread[u].got)' <=> Publishes(u, thread[u].got)
  BY DEF InputKept, SelfKept, NodeStable, InputStable, Stable, Reached, Touched, Supplies, Publishes, Fresh
<1>5. thread[u].pc = "fast" => (Serving(u)' <=> Serving(u))
  <2>1. SUFFICES ASSUME thread[u].pc = "fast" PROVE Serving(u)' <=> Serving(u)
    OBVIOUS
  <2>2. thread[u].page \in Page /\ thread[u].node \in Comp /\ thread[u].node > 1
    BY <1>1, <2>1 DEF WorkOK, WorkShape, Asking
  <2>3. thread[u].node - 1 \in Comp
    BY <2>2, HeightAssumption DEF Comp
  <2>4. cache'[thread[u].node - 1][thread[u].page] = cache[thread[u].node - 1][thread[u].page]
    BY <2>2, <2>3
  <2>5. QED
    BY <2>4 DEF Serving, Supplies, Fresh
<1>6. NodeFresh(u) => NodeFresh(u)'
  BY <1>4, <1>5 DEF NodeFresh
<1>7. CallsFresh(u) => CallsFresh(u)'
  <2>1. ASSUME CallsFresh(u), NEW i \in DOMAIN stack[u], Warrant(u, i)'
        PROVE  Holding(stack[u][i], thread[u].page)'
    <3>1. Warrant(u, i)
      BY <1>4, <2>1 DEF Warrant, LiveFrom, Live, Vouched, Awaited, Stable, Reached, Touched
    <3>2. Holding(stack[u][i], thread[u].page)
      BY <2>1, <3>1 DEF CallsFresh
    <3>3. thread[u].page \in Page /\ stack[u][i].comp \in Comp
      <4>1. stack[u] # <<>> /\ stack[u] \in Seq(Frame)
        BY <1>1, <2>1 DEF WorkTypes
      <4>2. stack[u][i] \in Frame
        BY <4>1, <2>1, ElementOfSeq
      <4>3. thread[u].page \in Page
        BY <1>1, <4>1 DEF WorkOK, WorkShape
      <4>4. QED
        BY <4>2, <4>3 DEF Frame
    <3>4. cache'[stack[u][i].comp][thread[u].page] = cache[stack[u][i].comp][thread[u].page]
      BY <3>3
    <3>5. QED
      BY <3>2, <3>4 DEF Holding, Fresh
  <2>2. QED
    BY <2>1 DEF CallsFresh
<1>8. InDoubt(u)' <=> InDoubt(u)
  BY <1>4 DEF InDoubt
<1>9. QED
  BY <1>1, <1>2, <1>3, <1>6, <1>7, <1>8 DEF WorkOK

\* A step of one worker: the audio stays what it is, and what is left to show is about
\* that worker, the pages of its position, and the hints.
OwnStep(t, p) ==
    /\ UNCHANGED <<model, edits, edit, late, epoch, slipped>>
    /\ \A u \in Thread : u # t => thread'[u] = thread[u] /\ stack'[u] = stack[u]
    /\ thread[t].page \in {p, Nobody} /\ thread'[t].page \in {p, Nobody}
    /\ \A u \in Thread : u # t => thread[u].page # p
    /\ \A c \in Comp, q \in Page : q # p => cache'[c][q] = cache[c][q]

LEMMA OwnStepKeeps ==
    ASSUME WorkInv, NEW t \in Thread, NEW p \in Page, OwnStep(t, p),
           WorkTypes', CacheShape', HintShape', OwnClaims', WorkOK(t)',
           \A c \in Comp : PageClaim(c, p)', \A c \in Comp : HintClaim(c)'
    PROVE  WorkInv'
<1>1. /\ WorkersOnly /\ OnePage /\ WorkTypes /\ UNCHANGED <<model, edits, edit, late, epoch, slipped>>
      /\ \A u \in Thread : u # t => thread'[u] = thread[u] /\ stack'[u] = stack[u]
      /\ thread[t].page \in {p, Nobody} /\ thread'[t].page \in {p, Nobody}
      /\ \A u \in Thread : u # t => thread[u].page # p
      /\ \A c \in Comp, q \in Page : q # p => cache'[c][q] = cache[c][q]
      /\ Nobody \notin Page
  BY NobodyAssumption DEF WorkInv, OwnStep
<1>2. OnePage'
  BY <1>1 DEF OnePage
<1>3. ASSUME NEW u \in Thread, u # t PROVE WorkOK(u)' /\ (InDoubt(u)' <=> InDoubt(u))
  BY <1>1, <1>3, OtherKeeps
<1>4. ASSUME NEW c \in Comp, NEW q \in Page, q # p PROVE PageClaim(c, q)'
  <2>1. PageClaim(c, q) /\ cache'[c][q] = cache[c][q]
    BY <1>1, <1>4 DEF WorkInv, WorkClaims
  <2>2. \A u \in Thread : Doubted(u, c, q) => Doubted(u, c, q)'
    BY <1>1, <1>3, <1>4 DEF Doubted
  <2>3. QED
    BY <1>1, <2>1, <2>2 DEF PageClaim, Stable, Reached, Touched, ReadsCurrent, Fresh
<1>5. WorkClaims'
  BY <1>3, <1>4 DEF WorkClaims
<1>6. QED
  BY <1>1, <1>2, <1>5 DEF WorkInv, WorkersOnly

-----------------------------------------------------------------------------
(***************************************************************************)
(* A worker in freezePage                                                  *)
(***************************************************************************)
LEMMA AtWork ==
    ASSUME WorkInv, NEW t \in Thread, thread[t].pc # "idle"
    PROVE  /\ thread[t] \in WorkState /\ WorkShape(t) /\ thread[t].page \in Page /\ thread[t].page # Nobody
           /\ thread[t].node \in Comp /\ thread[t].node \in Nat \ {0} /\ thread[t].node <= Height
           /\ \A u \in Thread : u # t => thread[u].page # thread[t].page
           /\ \A d \in Comp : epoch[d] \in Nat \ {0} /\ thread[t].observed[d] \in Nat
                              /\ thread[t].observed[d] <= epoch[d]
           /\ thread[t].node > 1 => thread[t].node - 1 \in Comp
           /\ Height \in Nat
<1>1. WorkTypes /\ OnePage /\ WorkShape(t) /\ thread[t] \in WorkState
  BY DEF WorkInv, WorkClaims, WorkOK, WorkTypes
<1>2. thread[t].page \in Page /\ thread[t].node \in Comp /\ thread[t].page # Nobody
  BY <1>1, NobodyAssumption DEF WorkShape
<1>3. thread[t].observed \in Epochs
  BY <1>1 DEF WorkState
<1>4. \A d \in Comp : epoch[d] \in Nat \ {0} /\ thread[t].observed[d] \in Nat
                      /\ thread[t].observed[d] <= epoch[d]
  BY <1>1, <1>3 DEF WorkTypes, Epochs, WorkShape
<1>5. /\ thread[t].node \in Nat \ {0} /\ thread[t].node <= Height /\ Height \in Nat
      /\ thread[t].node > 1 => thread[t].node - 1 \in Comp
  BY <1>2, HeightAssumption DEF Comp
<1>6. \A u \in Thread : u # t => thread[u].page # thread[t].page
  BY <1>1, <1>2 DEF OnePage
<1>7. QED
  BY <1>1, <1>2, <1>4, <1>5, <1>6

LEMMA WorkTop ==
    ASSUME WorkInv, NEW t \in Thread, stack[t] # <<>>
    PROVE  /\ stack[t] \in Seq(Frame) /\ Len(stack[t]) \in Nat \ {0}
           /\ DOMAIN stack[t] = 1 .. Len(stack[t]) /\ 1 \in DOMAIN stack[t]
           /\ Top(t) = stack[t][1] /\ Top(t) \in Frame
           /\ Top(t).comp \in Comp /\ Top(t).comp \in Nat \ {0} /\ Top(t).epoch \in Nat
           /\ Top(t).own \in Version /\ Top(t).input \in Audio /\ Top(t).at # "pulling"
           /\ thread[t].pc \in {"rendering", "freezing", "refreezing"}
           /\ thread[t] \in WorkState /\ thread[t].page \in Page /\ thread[t].node \in Comp
           /\ Target(t) \in Comp /\ Top(t).comp + (Len(stack[t]) - 1) = Target(t)
           /\ Top(t).comp <= Target(t)
           /\ thread[t].pc = "rendering" => Top(t).comp < thread[t].node /\ thread[t].bound = <<>>
           /\ thread[t].pc # "rendering" =>
                  /\ Top(t).comp = thread[t].node /\ Len(stack[t]) = 1
                  /\ thread[t].node > 1 => thread[t].bound # <<>>
           /\ \A i \in DOMAIN stack[t] :
                  /\ CallShape(t, i) /\ stack[t][i] \in Frame /\ i \in Nat \ {0}
                  /\ stack[t][i].comp \in Comp /\ stack[t][i].comp = Top(t).comp + (i - 1)
                  /\ stack[t][i].comp <= thread[t].node
                  /\ (i > 1 => stack[t][i].at = "pulling" /\ stack[t][i].comp # Top(t).comp)
<1>1. /\ stack[t] \in Seq(Frame) /\ thread[t].pc \in {"rendering", "freezing", "refreezing"}
      /\ \A i \in DOMAIN stack[t] : CallShape(t, i)
  BY DEF WorkInv, WorkClaims, WorkOK, WorkTypes, WorkShape
<1>2. /\ Len(stack[t]) \in Nat \ {0} /\ DOMAIN stack[t] = 1 .. Len(stack[t])
      /\ Top(t) = stack[t][1] /\ Top(t) \in Frame /\ 1 \in DOMAIN stack[t]
  <2>1. /\ Len(stack[t]) \in Nat \ {0} /\ DOMAIN stack[t] = 1 .. Len(stack[t])
        /\ Head(stack[t]) = stack[t][1] /\ stack[t][1] \in Frame
    BY <1>1, TailOf
  <2>2. QED
    BY <2>1 DEF Top
<1>3. /\ Top(t).comp \in Comp /\ Top(t).epoch \in Nat
      /\ Top(t).own \in Version /\ Top(t).input \in Audio
  BY <1>2 DEF Frame, Audio
<1>4. Top(t).comp \in Nat \ {0}
  BY <1>3, HeightAssumption DEF Comp
<1>5. /\ thread[t] \in WorkState /\ WorkShape(t) /\ thread[t].page \in Page
      /\ thread[t].node \in Comp /\ thread[t].node \in Nat \ {0}
      /\ thread[t].node > 1 => thread[t].node - 1 \in Comp
  BY <1>1, AtWork
<1>6. thread[t].pc = "rendering" => thread[t].node > 1 /\ thread[t].bound = <<>>
  BY <1>5 DEF WorkShape, Asking
<1>7. thread[t].pc # "rendering" => (thread[t].node > 1 => thread[t].bound # <<>>)
  BY <1>1, <1>5 DEF WorkShape, Binding
<1>8. /\ Top(t).comp + (Len(stack[t]) - 1) = Target(t) /\ Top(t).at # "pulling"
      /\ thread[t].pc # "rendering" => Len(stack[t]) = 1
  BY <1>1, <1>2 DEF CallShape
<1>9. Target(t) \in Comp /\ Target(t) \in Nat /\ Target(t) <= thread[t].node
      /\ (thread[t].pc = "rendering" => Target(t) = thread[t].node - 1)
      /\ (thread[t].pc # "rendering" => Target(t) = thread[t].node)
  BY <1>5, <1>6 DEF Target
<1>10. Top(t).comp <= Target(t)
  BY <1>2, <1>4, <1>8, <1>9
<1>11. thread[t].pc = "rendering" => Top(t).comp < thread[t].node
  BY <1>4, <1>5, <1>9, <1>10
<1>12. thread[t].pc # "rendering" => Top(t).comp = thread[t].node
  <2>1. \A a \in Nat : a + (1 - 1) = a
    OBVIOUS
  <2>2. thread[t].pc # "rendering" => Top(t).comp + (1 - 1) = thread[t].node
    BY <1>8, <1>9
  <2>3. QED
    BY <1>4, <2>1, <2>2
<1>13. ASSUME NEW i \in DOMAIN stack[t]
       PROVE  /\ CallShape(t, i) /\ stack[t][i] \in Frame /\ i \in Nat \ {0}
              /\ stack[t][i].comp \in Comp /\ stack[t][i].comp = Top(t).comp + (i - 1)
              /\ stack[t][i].comp <= thread[t].node
              /\ (i > 1 => stack[t][i].at = "pulling" /\ stack[t][i].comp # Top(t).comp)
  <2>1. CallShape(t, i) /\ stack[t][i] \in Frame /\ i \in Nat \ {0} /\ i <= Len(stack[t])
    BY <1>1, <1>2, ElementOfSeq
  <2>2. stack[t][i].comp \in Comp /\ stack[t][i].comp \in Nat
    BY <2>1, HeightAssumption DEF Frame, Comp
  <2>3. stack[t][i].comp + (Len(stack[t]) - i) = Target(t) /\ (i > 1 => stack[t][i].at = "pulling")
    BY <2>1 DEF CallShape
  <2>4. stack[t][i].comp = Top(t).comp + (i - 1)
    <3>1. \A a, b, n, m \in Nat : a + (n - m) = b + (n - 1) => a = b + (m - 1)
      OBVIOUS
    <3>2. stack[t][i].comp + (Len(stack[t]) - i) = Top(t).comp + (Len(stack[t]) - 1)
      BY <1>8, <2>3
    <3>3. stack[t][i].comp \in Nat /\ Top(t).comp \in Nat /\ Len(stack[t]) \in Nat /\ i \in Nat
      BY <1>2, <1>4, <2>1, <2>2
    <3>4. QED
      BY <3>1, <3>2, <3>3
  <2>5. stack[t][i].comp <= thread[t].node
    BY <1>2, <1>5, <1>9, <2>1, <2>2, <2>3
  <2>6. i > 1 => stack[t][i].comp # Top(t).comp
    BY <1>4, <2>1, <2>4
  <2>7. QED
    BY <2>1, <2>2, <2>3, <2>4, <2>5, <2>6
<1>14. QED
  BY <1>1, <1>2, <1>3, <1>4, <1>5, <1>6, <1>7, <1>8, <1>9, <1>10, <1>11, <1>12, <1>13

\* No edit is still to reach what is warranted.
LEMMA WarrantStable ==
    ASSUME WorkInv, NEW t \in Thread, NEW i \in DOMAIN stack[t], Warrant(t, i)
    PROVE  Stable(stack[t][i].comp, thread[t].page)
<1>1. stack[t] # <<>> /\ EditShape
  BY DEF WorkInv, WorkTypes
<1>2. /\ stack[t][i].comp \in Comp /\ stack[t][i].comp <= thread[t].node /\ thread[t].node \in Comp
      /\ stack[t][i].comp = Top(t).comp + (i - 1) /\ i \in Nat /\ Top(t).comp \in Nat
      /\ \A j \in DOMAIN stack[t] : /\ stack[t][j].comp \in Comp /\ j \in Nat
                                    /\ stack[t][j].comp = Top(t).comp + (j - 1)
  BY <1>1, WorkTop
<1>3. CASE Awaited(t)
  BY <1>1, <1>2, <1>3, StableUpstream DEF Awaited, NodeStable
<1>4. CASE LiveFrom(t, i)
  <2>1. PICK j \in DOMAIN stack[t] : i <= j /\ Stable(stack[t][j].comp, thread[t].page)
    BY <1>4 DEF LiveFrom, Live
  <2>2. stack[t][i].comp <= stack[t][j].comp /\ stack[t][j].comp \in Comp
    BY <1>2, <2>1
  <2>3. QED
    BY <1>1, <1>2, <2>1, <2>2, StableUpstream
<1>5. QED
  BY <1>3, <1>4 DEF Warrant

\* A page that reads current and is not in doubt is fresh: its only worker says so.
LEMMA Undoubted ==
    ASSUME WorkInv, NEW t \in Thread, NEW c \in Comp, NEW p \in Page, p = thread[t].page,
           p \notin slipped, Stable(c, p), cache[c][p].valid, cache[c][p].stamp >= epoch[c],
           ~(c = thread[t].node /\ InDoubt(t))
    PROVE  cache[c][p].shows = Fresh(c, p)
<1>1. PageClaim(c, p) /\ CacheShape /\ OnePage /\ WorkTypes /\ p # Nobody
  BY NobodyAssumption DEF WorkInv, WorkClaims
<1>2. cache[c][p] \in Cached /\ epoch[c] \in Nat
  BY <1>1 DEF WorkTypes
<1>3. cache[c][p].stamp \in Nat /\ cache[c][p].stamp <= epoch[c]
  BY <1>1, <1>2 DEF Cached, CacheShape
<1>4. ReadsCurrent(c, p)
  BY <1>2, <1>3 DEF ReadsCurrent
<1>5. \A u \in Thread : ~Doubted(u, c, p)
  BY <1>1 DEF Doubted, OnePage
<1>6. QED
  BY <1>1, <1>4, <1>5 DEF PageClaim

\* A page put aside: not valid, and the others what they were.
LEMMA PagePutAside ==
    ASSUME cache \in [Comp -> [Page -> Cached]], NEW c \in Comp, NEW p \in Page,
           NEW page \in {NoPage, Placeholder}, cache' = [cache EXCEPT ![c][p] = page]
    PROVE  /\ cache' \in [Comp -> [Page -> Cached]] /\ ~cache'[c][p].valid
           /\ \A d \in Comp, q \in Page : d # c \/ q # p => cache'[d][q] = cache[d][q]
           /\ \A d \in Comp, q \in Page : cache'[d][q].valid => cache'[d][q] = cache[d][q]
<1>1. page \in Cached /\ ~page.valid
  <2>1. <<>> \in Seq(Version)
    BY EmptySeq
  <2>2. NoPage \in Cached /\ ~NoPage.valid
    BY <2>1 DEF NoPage, Cached
  <2>3. Placeholder \in Cached /\ ~Placeholder.valid
    BY <2>2 DEF Placeholder, Cached
  <2>4. QED
    BY <2>2, <2>3
<1> DEFINE row == [cache[c] EXCEPT ![p] = page]
<1>2. row \in [Page -> Cached] /\ row[p] = page /\ \A q \in Page : q # p => row[q] = cache[c][q]
  BY <1>1
<1>3. cache' = [cache EXCEPT ![c] = row]
  OBVIOUS
<1> HIDE DEF row
<1>4. /\ cache' \in [Comp -> [Page -> Cached]]
      /\ cache'[c] = row
      /\ \A d \in Comp : d # c => cache'[d] = cache[d]
  BY <1>2, <1>3
<1>5. cache'[c][p] = page /\ \A d \in Comp, q \in Page : d # c \/ q # p => cache'[d][q] = cache[d][q]
  BY <1>2, <1>4
<1>6. \A d \in Comp, q \in Page : cache'[d][q].valid => cache'[d][q] = cache[d][q]
  BY <1>1, <1>5
<1>7. QED
  BY <1>1, <1>4, <1>5, <1>6

\* The innermost call goes on, as g; those that wait for it stay.
LEMMA TopGoesOn ==
    ASSUME WorkInv, NEW t \in Thread, stack[t] # <<>>, NEW g \in Frame, Set(t, g)
    PROVE  /\ stack' \in [Thread -> Seq(Frame)] /\ \A u \in Thread : u # t => stack'[u] = stack[u]
           /\ DOMAIN stack'[t] = DOMAIN stack[t] /\ Len(stack'[t]) = Len(stack[t]) /\ stack'[t] # <<>>
           /\ stack'[t][1] = g
           /\ \A i \in DOMAIN stack[t] : i # 1 => stack'[t][i] = stack[t][i]
<1>1. stack[t] \in Seq(Frame) /\ stack \in [Thread -> Seq(Frame)]
  BY DEF WorkInv, WorkTypes
<1>2. /\ <<g>> \o Tail(stack[t]) \in Seq(Frame)
      /\ DOMAIN (<<g>> \o Tail(stack[t])) = DOMAIN stack[t]
      /\ (<<g>> \o Tail(stack[t]))[1] = g
      /\ \A i \in DOMAIN stack[t] : i # 1 => (<<g>> \o Tail(stack[t]))[i] = stack[t][i]
  BY <1>1, TopReplaced
<1> DEFINE u == <<g>> \o Tail(stack[t])
<1>3. stack' = [stack EXCEPT ![t] = u] /\ stack \in [Thread -> Seq(Frame)]
  BY <1>1 DEF Set
<1>4. Len(u) = Len(stack[t]) /\ u # <<>>
  <2>1. Len(<<g>>) = 1 /\ <<g>> \in Seq(Frame)
    OBVIOUS
  <2>2. /\ Tail(stack[t]) \in Seq(Frame) /\ Len(Tail(stack[t])) = Len(stack[t]) - 1
        /\ Len(stack[t]) \in Nat \ {0}
    BY <1>1, TailOf
  <2>3. Len(u) = 1 + (Len(stack[t]) - 1)
    BY <2>1, <2>2, ConcatProperties
  <2>4. Len(u) = Len(stack[t])
    BY <2>2, <2>3
  <2>5. Len(<<>>) = 0
    OBVIOUS
  <2>6. QED
    BY <2>2, <2>4, <2>5
<1> HIDE DEF u
<1>5. /\ stack' \in [Thread -> Seq(Frame)]
      /\ stack'[t] = u
      /\ \A v \in Thread : v # t => stack'[v] = stack[v]
  BY <1>1, <1>2, <1>3 DEF u
<1>6. QED
  BY <1>2, <1>4, <1>5 DEF u

LEMMA WorkTopMoves ==
    ASSUME WorkInv, NEW t \in Thread, stack[t] # <<>>, NEW g \in Frame, Set(t, g),
           NEW p \in Page, p = thread[t].page,
           UNCHANGED <<editing, epoch, inflight, thread, slipped>>,
           g.comp = Top(t).comp, g.at \in {"lookup", "pull", "stamp"}, g.epoch <= epoch[g.comp],
           Top(t).at = "enter" => g.epoch = epoch[g.comp],
           Top(t).at # "enter" => g.epoch = Top(t).epoch,
           g.at = "pull" => g.comp > 1,
           g.at # "stamp" => g.input = <<>>,
           hint' \in [Comp -> Hinted], HintShape', \A c \in Comp : HintClaim(c)',
           \/ cache' = cache
           \/ cache' = [cache EXCEPT ![g.comp][p] = Placeholder],
           p \notin slipped /\ Stable(g.comp, p) /\ (Top(t).at # "enter" => Warrant(t, 1))
               => Holding(g, p)'
    PROVE  WorkInv'
<1>1. /\ WorkTypes /\ CacheShape /\ OwnClaims /\ WorkShape(t) /\ WorkOK(t)
      /\ UNCHANGED <<model, settled, edit, late, edits, epoch, inflight, thread, slipped>>
  BY DEF WorkInv, WorkClaims, WorkOK, editing
<1>2. /\ 1 \in DOMAIN stack[t] /\ Top(t) = stack[t][1] /\ Top(t) \in Frame
      /\ g.comp \in Comp /\ g.comp \in Nat \ {0} /\ thread[t] \in WorkState
      /\ thread[t].pc \in {"rendering", "freezing", "refreezing"}
      /\ thread[t].pc # "rendering" => g.comp = thread[t].node
      /\ \A i \in DOMAIN stack[t] :
             /\ CallShape(t, i) /\ stack[t][i] \in Frame /\ i \in Nat \ {0}
             /\ stack[t][i].comp \in Comp /\ stack[t][i].comp = g.comp + (i - 1)
             /\ (i > 1 => stack[t][i].at = "pulling" /\ stack[t][i].comp # g.comp)
      /\ thread[t].pc # "idle" /\ \A u \in Thread : u # t => thread[u].page # p
  <2>1. g.comp = Top(t).comp
    OBVIOUS
  <2>2. /\ 1 \in DOMAIN stack[t] /\ Top(t) = stack[t][1] /\ Top(t) \in Frame
        /\ Top(t).comp \in Comp /\ Top(t).comp \in Nat \ {0} /\ thread[t] \in WorkState
        /\ thread[t].pc \in {"rendering", "freezing", "refreezing"}
        /\ thread[t].pc # "rendering" => Top(t).comp = thread[t].node
        /\ \A i \in DOMAIN stack[t] :
               /\ CallShape(t, i) /\ stack[t][i] \in Frame /\ i \in Nat \ {0}
               /\ stack[t][i].comp \in Comp /\ stack[t][i].comp = Top(t).comp + (i - 1)
               /\ (i > 1 => stack[t][i].at = "pulling" /\ stack[t][i].comp # Top(t).comp)
    <3>1. \A i \in DOMAIN stack[t] :
              /\ CallShape(t, i) /\ stack[t][i] \in Frame /\ i \in Nat \ {0}
              /\ stack[t][i].comp \in Comp /\ stack[t][i].comp = Top(t).comp + (i - 1)
              /\ stack[t][i].comp <= thread[t].node
              /\ (i > 1 => stack[t][i].at = "pulling" /\ stack[t][i].comp # Top(t).comp)
      BY WorkTop
    <3>2. /\ 1 \in DOMAIN stack[t] /\ Top(t) = stack[t][1] /\ Top(t) \in Frame
          /\ Top(t).comp \in Comp /\ Top(t).comp \in Nat \ {0} /\ thread[t] \in WorkState
          /\ thread[t].pc \in {"rendering", "freezing", "refreezing"}
          /\ thread[t].pc # "rendering" => Top(t).comp = thread[t].node
      BY WorkTop
    <3>3. QED
      BY <3>1, <3>2
  <2>3. thread[t].pc # "idle"
    BY <2>2
  <2>4. \A u \in Thread : u # t => thread[u].page # p
    BY <2>3, AtWork
  <2>5. QED
    BY <2>1, <2>2, <2>3, <2>4
<1>3. /\ stack' \in [Thread -> Seq(Frame)] /\ \A u \in Thread : u # t => stack'[u] = stack[u]
      /\ DOMAIN stack'[t] = DOMAIN stack[t] /\ Len(stack'[t]) = Len(stack[t]) /\ stack'[t] # <<>>
      /\ stack'[t][1] = g
      /\ \A i \in DOMAIN stack[t] : i # 1 => stack'[t][i] = stack[t][i]
  BY TopGoesOn
<1>4. /\ cache' \in [Comp -> [Page -> Cached]]
      /\ \A d \in Comp, q \in Page : q # p => cache'[d][q] = cache[d][q]
      /\ \A d \in Comp, q \in Page : cache'[d][q].valid => cache'[d][q] = cache[d][q]
  <2>1. cache \in [Comp -> [Page -> Cached]]
    BY <1>1 DEF WorkTypes
  <2>2. QED
    BY <1>2, <2>1, PagePutAside
<1>5. WorkTypes'
  BY <1>1, <1>3, <1>4 DEF WorkTypes, EditShape
<1>6. CacheShape' /\ OwnClaims'
  BY <1>1, <1>4 DEF CacheShape, OwnClaims
<1>7. /\ \A i \in DOMAIN stack[t] : stack'[t][i].comp = stack[t][i].comp
      /\ InputKept(t)' <=> InputKept(t)
      /\ SelfKept(t)' <=> SelfKept(t)
      /\ NodeStable(t)' <=> NodeStable(t)
      /\ InputStable(t)' <=> InputStable(t)
      /\ Vouched(t)' <=> Vouched(t)
      /\ Awaited(t)' <=> Awaited(t)
      /\ InDoubt(t)' <=> InDoubt(t)
      /\ Target(t)' = Target(t)
  <2>1. \A i \in DOMAIN stack[t] : stack'[t][i].comp = stack[t][i].comp
    BY <1>2, <1>3
  <2>2. /\ InputKept(t)' <=> InputKept(t)
        /\ SelfKept(t)' <=> SelfKept(t)
        /\ NodeStable(t)' <=> NodeStable(t)
        /\ InputStable(t)' <=> InputStable(t)
    BY <1>1 DEF InputKept, SelfKept, NodeStable, InputStable, Stable, Reached, Touched
  <2>3. /\ Vouched(t)' <=> Vouched(t)
        /\ Awaited(t)' <=> Awaited(t)
        /\ InDoubt(t)' <=> InDoubt(t)
        /\ Target(t)' = Target(t)
    BY <1>1, <2>2 DEF Vouched, Awaited, InDoubt, Target
  <2>4. QED
    BY <2>1, <2>2, <2>3
<1>8. WorkShape(t)'
  BY <1>1, <1>2 DEF WorkShape
<1>9. ASSUME NEW i \in DOMAIN stack[t] PROVE CallShape(t, i)'
  <2>1. CallShape(t, i) /\ stack[t][i] \in Frame /\ i \in Nat \ {0} /\ stack[t][i].comp \in Comp
        /\ stack[t][i].comp = g.comp + (i - 1) /\ CallShape(t, 1)
    BY <1>2
  <2>2. CASE i = 1
    <3>1. ~(1 > 1) /\ g.at # "pulling"
      OBVIOUS
    <3>2. thread[t].pc # "rendering" =>
              /\ Len(stack[t]) = 1
              /\ thread[t].observed[g.comp] <= g.epoch
      <4>1. thread[t].observed[g.comp] <= epoch[g.comp]
        BY <1>1, <1>2 DEF WorkShape
      <4>2. thread[t].pc # "rendering" /\ Top(t).at # "enter"
                => thread[t].observed[g.comp] <= Top(t).epoch
        BY <1>2, <2>1 DEF CallShape
      <4>3. thread[t].pc # "rendering" => Len(stack[t]) = 1
        BY <2>1 DEF CallShape
      <4>4. QED
        BY <4>1, <4>2, <4>3
    <3>3. g.comp + (Len(stack[t]) - 1) = Target(t)
      BY <1>2, <2>1 DEF CallShape
    <3>4. QED
      BY <1>1, <1>3, <1>7, <2>2, <3>1, <3>2, <3>3 DEF CallShape
  <2>3. CASE i # 1
    <3>1. i > 1 /\ stack'[t][i] = stack[t][i]
      BY <1>3, <2>1, <2>3
    <3>2. stack'[t][i - 1].at # "enter" => stack[t][i].prod <= stack'[t][i - 1].epoch
      <4>1. i - 1 \in DOMAIN stack[t]
        <5>1. DOMAIN stack[t] = 1 .. Len(stack[t]) /\ Len(stack[t]) \in Nat
          BY WorkTop
        <5>2. QED
          BY <2>1, <3>1, <5>1
      <4>2. CASE i - 1 = 1
        <5>1. stack[t][i].comp - 1 = g.comp
          <6>1. \A a, b \in Nat : a = b + (2 - 1) => a - 1 = b
            OBVIOUS
          <6>2. i = 2 /\ stack[t][i].comp \in Nat
            BY <1>2, <2>1, <4>2, HeightAssumption DEF Comp
          <6>3. QED
            BY <1>2, <2>1, <6>1, <6>2
        <5>2. stack[t][i].prod <= epoch[g.comp]
          BY <2>1, <3>1, <5>1 DEF CallShape
        <5>3. CASE Top(t).at = "enter"
          BY <1>3, <4>2, <5>2, <5>3
        <5>4. CASE Top(t).at # "enter"
          <6>1. stack'[t][i - 1] = g /\ stack[t][i - 1] = Top(t) /\ g.epoch = Top(t).epoch
            BY <1>2, <1>3, <4>2, <5>4
          <6>2. stack[t][i].prod <= stack[t][i - 1].epoch
            BY <2>1, <3>1, <5>4, <6>1 DEF CallShape
          <6>3. QED
            BY <6>1, <6>2
        <5>5. QED
          BY <5>3, <5>4
      <4>3. CASE i - 1 # 1
        BY <1>3, <2>1, <3>1, <4>1, <4>3 DEF CallShape
      <4>4. QED
        BY <4>2, <4>3
    <3>3. QED
      BY <1>1, <1>3, <1>7, <2>1, <3>1, <3>2 DEF CallShape
  <2>4. QED
    BY <2>2, <2>3
<1>10. ASSUME p \notin slipped PROVE NodeFresh(t)'
  <2>1. NodeFresh(t)
    BY <1>1, <1>10 DEF WorkOK
  <2>2. /\ Supplies(t, thread[t].bound)' <=> Supplies(t, thread[t].bound)
    BY <1>1 DEF Supplies, Fresh
  <2>3. QED
    BY <1>1, <1>2, <1>7, <2>1, <2>2 DEF NodeFresh
<1>11. ASSUME p \notin slipped, NEW i \in DOMAIN stack[t], Warrant(t, i)'
       PROVE  Holding(stack[t][i], thread[t].page)'
  <2>1. Stable(stack[t][i].comp, p)
    <3>1. CASE Awaited(t)
      <4>1. Warrant(t, i)
        BY <3>1 DEF Warrant
      <4>2. QED
        BY <4>1, WarrantStable
    <3>2. CASE LiveFrom(t, i)'
      <4>1. PICK j \in DOMAIN stack[t] : i <= j /\ Stable(stack'[t][j].comp, p)
        BY <1>1, <1>3, <3>2 DEF LiveFrom, Live, Stable, Reached, Touched
      <4>2. /\ stack'[t][j].comp \in Comp /\ stack'[t][j].comp = g.comp + (j - 1)
            /\ stack[t][i].comp \in Comp /\ stack[t][i].comp = g.comp + (i - 1)
            /\ i \in Nat /\ j \in Nat
        BY <1>2, <1>7
      <4>3. stack[t][i].comp <= stack'[t][j].comp
        BY <1>2, <4>1, <4>2
      <4>4. EditShape
        BY <1>1 DEF WorkTypes
      <4>5. QED
        BY <4>1, <4>2, <4>3, <4>4, StableUpstream
    <3>3. QED
      BY <1>7, <1>11, <3>1, <3>2 DEF Warrant
  <2>2. Top(t).at # "enter" \/ i # 1 => Warrant(t, i)
    <3>1. SUFFICES ASSUME Top(t).at # "enter" \/ i # 1, LiveFrom(t, i)'
                   PROVE  LiveFrom(t, i)
      BY <1>7, <1>11 DEF Warrant
    <3>2. PICK j \in DOMAIN stack[t] : i <= j /\ Live(stack[t][j], thread[t].page)'
      BY <1>3, <3>1 DEF LiveFrom
    <3>3. Live(stack[t][j], thread[t].page)
      <4>1. CASE j # 1
        BY <1>1, <1>3, <3>2, <4>1 DEF Live, Stable, Reached, Touched
      <4>2. CASE j = 1
        <5>1. i = 1
          <6>1. i \in Nat \ {0} /\ j \in Nat
            BY <1>2
          <6>2. QED
            BY <3>2, <4>2, <6>1
        <5>2. QED
          BY <1>1, <1>2, <1>3, <3>1, <3>2, <4>2, <5>1 DEF Live, Stable, Reached, Touched
      <4>3. QED
        BY <4>1, <4>2
    <3>4. QED
      BY <3>2, <3>3 DEF LiveFrom
  <2>3. CASE i = 1
    <3>1. Holding(g, p)'
      BY <1>2, <1>11, <2>1, <2>2, <2>3
    <3>2. stack'[t][i] = g /\ thread'[t].page = p
      BY <1>1, <1>3, <2>3
    <3>3. QED
      BY <3>1, <3>2 DEF Holding, Fresh
  <2>4. CASE i # 1
    <3>1. /\ stack'[t][i] = stack[t][i] /\ stack[t][i].at = "pulling"
      <4>1. i \in Nat \ {0} /\ i > 1
        BY <1>2, <2>4
      <4>2. QED
        BY <1>2, <1>3, <2>4, <4>1
    <3>2. Holding(stack[t][i], p)
      BY <1>1, <1>11, <2>2, <2>4 DEF WorkOK, CallsFresh
    <3>3. QED
      BY <1>1, <3>1, <3>2 DEF Holding, Fresh
  <2>5. QED
    BY <2>3, <2>4
<1>12. WorkOK(t)'
  BY <1>1, <1>3, <1>8, <1>9, <1>10, <1>11 DEF WorkOK, CallsFresh
<1>13. ASSUME NEW c \in Comp PROVE PageClaim(c, p)'
  <2>1. PageClaim(c, p)
    BY DEF WorkInv, WorkClaims
  <2>2. Doubted(t, c, p) => Doubted(t, c, p)'
    BY <1>1, <1>7 DEF Doubted
  <2>3. \A u \in Thread : u # t => thread[u].page # p
    BY <1>2, AtWork
  <2>4. cache'[c][p].valid => cache'[c][p] = cache[c][p]
    BY <1>4
  <2>5. \A u \in Thread : Doubted(u, c, p) => u = t
    BY <2>3 DEF Doubted
  <2>6. QED
    BY <1>1, <2>1, <2>2, <2>4, <2>5 DEF PageClaim, Stable, Reached, Touched, ReadsCurrent, Fresh
<1>14. OwnStep(t, p)
  <2>1. thread' = thread /\ thread[t].page = p
    BY <1>1
  <2>2. QED
    BY <1>1, <1>2, <1>3, <1>4, <2>1 DEF OwnStep
<1>15. QED
  BY <1>5, <1>6, <1>12, <1>13, <1>14, OwnStepKeeps


LEMMA HintsStay ==
    ASSUME WorkInv, UNCHANGED <<model, edit, late, epoch, hint, slipped>>
    PROVE  hint' \in [Comp -> Hinted] /\ HintShape' /\ \A c \in Comp : HintClaim(c)'
<1>1. hint \in [Comp -> Hinted] /\ HintShape /\ \A c \in Comp : HintClaim(c)
  BY DEF WorkInv, WorkTypes, WorkClaims
<1>2. QED
  BY <1>1 DEF HintShape, HintClaim, Stable, Reached, Touched, Fresh

\* A render reads the epoch and then the cache: what is current for that epoch is fresh,
\* as the node whose input it renders is above it, and a node that freezes is not in doubt.
LEMMA FreezeEnterWorks ==
    ASSUME WorkInv, NEW t \in Thread, FreezeEnter(t)
    PROVE  WorkInv'
<1>1. PICK f, p : f = Top(t) /\ p = thread[t].page
  OBVIOUS
<1>2. /\ stack[t] # <<>> /\ f.at = "enter"
      /\ Set(t, [f EXCEPT !.at = "lookup", !.epoch = epoch[f.comp]])
      /\ UNCHANGED <<editing, epoch, cache, hint, inflight, thread, slipped>>
  BY <1>1 DEF FreezeEnter, In, caching
<1>3. /\ f \in Frame /\ f.comp \in Comp /\ p \in Page /\ CallShape(t, 1) /\ f = stack[t][1]
      /\ thread[t].pc \in {"rendering", "freezing", "refreezing"}
      /\ (thread[t].pc = "rendering" => f.comp < thread[t].node)
      /\ f.comp \in Nat /\ thread[t].node \in Nat
  <2>1. thread[t].node \in Comp /\ Comp \subseteq Nat
    BY <1>2, WorkTop, HeightAssumption DEF Comp
  <2>2. QED
    BY <1>1, <1>2, <2>1, WorkTop
<1>4. epoch[f.comp] \in Nat /\ f.input = <<>> /\ UNCHANGED <<model, edit, late, epoch, hint, slipped>>
  BY <1>2, <1>3 DEF CallShape, WorkInv, WorkTypes, editing
<1>5. PICK g \in Frame : /\ g = [f EXCEPT !.at = "lookup", !.epoch = epoch[f.comp]]
                         /\ g.comp = f.comp /\ g.at = "lookup" /\ g.epoch = epoch[f.comp]
                         /\ g.input = <<>>
  <2>1. [f EXCEPT !.at = "lookup", !.epoch = epoch[f.comp]] \in Frame
    BY <1>3, <1>4 DEF Frame
  <2>2. QED
    BY <1>3, <1>4, <2>1 DEF Frame
<1>6. ASSUME p \notin slipped, Stable(g.comp, p) PROVE Holding(g, p)'
  <2>1. ASSUME Current(cache[g.comp][p], g.epoch) PROVE cache[g.comp][p].shows = Fresh(g.comp, p)
    <3>1. ~(g.comp = thread[t].node /\ InDoubt(t))
      BY <1>3, <1>5 DEF InDoubt, Asking
    <3>2. cache[g.comp][p].valid /\ cache[g.comp][p].stamp >= epoch[g.comp] /\ g.comp \in Comp
      BY <1>3, <1>5, <2>1 DEF Current
    <3>3. QED
      BY <1>1, <1>3, <1>6, <3>1, <3>2, Undoubted
  <2>2. cache' = cache /\ Fresh(g.comp, p)' = Fresh(g.comp, p)
    BY <1>2 DEF editing, Fresh
  <2>3. QED
    BY <1>5, <2>1, <2>2 DEF Holding
<1>7. hint' \in [Comp -> Hinted] /\ HintShape' /\ \A c \in Comp : HintClaim(c)'
  BY <1>4, HintsStay
<1>8. /\ Set(t, g) /\ g.comp = Top(t).comp /\ g.epoch = epoch[g.comp] /\ g.epoch <= epoch[g.comp]
      /\ Top(t).at = "enter" /\ cache' = cache
  BY <1>1, <1>2, <1>4, <1>5
<1>9. QED
  <2>1. /\ stack[t] # <<>> /\ p \in Page /\ p = thread[t].page
        /\ UNCHANGED <<editing, epoch, inflight, thread, slipped>>
    BY <1>1, <1>2, <1>3
  <2>2. /\ g.comp = Top(t).comp /\ g.at \in {"lookup", "pull", "stamp"} /\ g.epoch <= epoch[g.comp]
        /\ (Top(t).at = "enter" => g.epoch = epoch[g.comp])
        /\ (Top(t).at # "enter" => g.epoch = Top(t).epoch)
        /\ (g.at = "pull" => g.comp > 1) /\ (g.at # "stamp" => g.input = <<>>)
    BY <1>5, <1>8
  <2>3. p \notin slipped /\ Stable(g.comp, p) /\ (Top(t).at # "enter" => Warrant(t, 1))
            => Holding(g, p)'
    BY <1>6
  <2>4. cache' = cache \/ cache' = [cache EXCEPT ![g.comp][p] = Placeholder]
    BY <1>8
  <2>5. QED
    BY <2>1, <2>2, <2>3, <2>4, <1>7, <1>8, WorkTopMoves

\* A miss: the setting is read after the epoch.
LEMMA FreezeMissWorks ==
    ASSUME WorkInv, NEW t \in Thread, FreezeMiss(t)
    PROVE  WorkInv'
<1>1. PICK f, p : f = Top(t) /\ p = thread[t].page
  OBVIOUS
<1>2. /\ stack[t] # <<>> /\ f.at = "lookup"
      /\ Set(t, [f EXCEPT !.own = model[f.comp][p], !.at = IF f.comp = 1 THEN "stamp" ELSE "pull"])
      /\ cache' = [cache EXCEPT ![f.comp][p] = Placeholder]
      /\ UNCHANGED <<editing, epoch, hint, inflight, thread, slipped>>
  BY <1>1 DEF FreezeMiss, In
<1>3. /\ f \in Frame /\ f.comp \in Comp /\ f.comp \in Nat \ {0} /\ p \in Page
      /\ f.input = <<>> /\ f.epoch <= epoch[f.comp]
  <2>1. /\ f \in Frame /\ f.comp \in Comp /\ f.comp \in Nat \ {0} /\ p \in Page
        /\ CallShape(t, 1) /\ f = stack[t][1]
    BY <1>1, <1>2, WorkTop
  <2>2. QED
    BY <1>2, <2>1 DEF CallShape
<1>4. model[f.comp][p] \in Version /\ UNCHANGED <<model, edit, late, epoch, hint, slipped>>
  BY <1>2, <1>3 DEF WorkInv, WorkTypes, editing
<1>5. PICK g \in Frame :
          /\ g = [f EXCEPT !.own = model[f.comp][p], !.at = IF f.comp = 1 THEN "stamp" ELSE "pull"]
          /\ g.comp = f.comp /\ g.at \in {"pull", "stamp"} /\ g.epoch = f.epoch
          /\ g.input = <<>> /\ g.own = model[f.comp][p] /\ (g.at = "stamp" <=> f.comp = 1)
  <2>1. PICK at \in {"pull", "stamp"} :
            at = (IF f.comp = 1 THEN "stamp" ELSE "pull") /\ (at = "stamp" <=> f.comp = 1)
    OBVIOUS
  <2> DEFINE h == [f EXCEPT !.own = model[f.comp][p], !.at = at]
  <2>2. h \in Frame /\ h.comp = f.comp /\ h.at = at /\ h.epoch = f.epoch /\ h.input = <<>>
        /\ h.own = model[f.comp][p]
    BY <1>3, <1>4 DEF Frame
  <2>3. h = [f EXCEPT !.own = model[f.comp][p], !.at = IF f.comp = 1 THEN "stamp" ELSE "pull"]
    BY <2>1
  <2> HIDE DEF h
  <2>4. QED
    BY <2>1, <2>2, <2>3
<1>6. Holding(g, p)'
  <2>1. Fresh(0, p)' = <<>>
    <3>1. Fresh(0, p)' = Fresh(0, p)
      BY <1>4 DEF Fresh
    <3>2. QED
      BY <3>1, NothingUpstream
  <2>2. g.at = "stamp" => g.comp - 1 = 0
    BY <1>5
  <2>3. QED
    BY <1>4, <1>5, <2>1, <2>2 DEF Holding
<1>7. hint' \in [Comp -> Hinted] /\ HintShape' /\ \A c \in Comp : HintClaim(c)'
  BY <1>4, HintsStay
<1>8. /\ Set(t, g) /\ g.comp = Top(t).comp /\ g.epoch = Top(t).epoch /\ g.epoch <= epoch[g.comp]
      /\ Top(t).at # "enter" /\ (g.at = "pull" => g.comp > 1)
      /\ cache' = [cache EXCEPT ![g.comp][p] = Placeholder]
      /\ g.at \in {"lookup", "pull", "stamp"} /\ g.input = <<>>
  BY <1>1, <1>2, <1>3, <1>5
<1>9. QED
  <2>1. /\ stack[t] # <<>> /\ p \in Page /\ p = thread[t].page
        /\ UNCHANGED <<editing, epoch, inflight, thread, slipped>>
    BY <1>1, <1>2, <1>3
  <2>2. /\ g.comp = Top(t).comp /\ g.at \in {"lookup", "pull", "stamp"} /\ g.epoch <= epoch[g.comp]
        /\ (Top(t).at = "enter" => g.epoch = epoch[g.comp])
        /\ (Top(t).at # "enter" => g.epoch = Top(t).epoch)
        /\ (g.at = "pull" => g.comp > 1) /\ (g.at # "stamp" => g.input = <<>>)
    BY <1>8
  <2>3. p \notin slipped /\ Stable(g.comp, p) /\ (Top(t).at # "enter" => Warrant(t, 1))
            => Holding(g, p)'
    BY <1>6
  <2>4. cache' = cache \/ cache' = [cache EXCEPT ![g.comp][p] = Placeholder]
    BY <1>8
  <2>5. QED
    BY <2>1, <2>2, <2>3, <2>4, <1>7, <1>8, WorkTopMoves

\* Where a render is when it asks for its input.
LEMMA AtPull ==
    ASSUME WorkInv, NEW t \in Thread, In(t, "pull")
    PROVE  /\ stack[t] # <<>> /\ Top(t) = stack[t][1] /\ 1 \in DOMAIN stack[t]
           /\ Top(t) \in Frame /\ Top(t).at = "pull" /\ Top(t).input = <<>>
           /\ Top(t).comp \in Comp /\ Top(t).comp - 1 \in Comp /\ Top(t).comp \in Nat /\ Top(t).comp > 1
           /\ Top(t).epoch \in Nat /\ Top(t).epoch <= epoch[Top(t).comp]
           /\ thread[t].page \in Page /\ CallShape(t, 1)
           /\ epoch[Top(t).comp - 1] \in Nat \ {0}
<1>1. /\ stack[t] # <<>> /\ Top(t) = stack[t][1] /\ 1 \in DOMAIN stack[t]
      /\ Top(t) \in Frame /\ Top(t).at = "pull" /\ Top(t).comp \in Comp /\ Top(t).epoch \in Nat
      /\ thread[t].page \in Page /\ CallShape(t, 1)
  BY WorkTop DEF In
<1>2. Top(t).comp > 1 /\ Top(t).input = <<>> /\ Top(t).epoch <= epoch[Top(t).comp]
  BY <1>1 DEF CallShape
<1>3. Top(t).comp - 1 \in Comp /\ Top(t).comp \in Nat
  BY <1>1, <1>2, HeightAssumption DEF Comp
<1>4. epoch[Top(t).comp - 1] \in Nat \ {0}
  BY <1>3 DEF WorkInv, WorkTypes
<1>5. QED
  BY <1>1, <1>2, <1>3, <1>4

\* What a warranted call at its pull has of its own.
LEMMA OwnAtPull ==
    ASSUME WorkInv, NEW t \in Thread, In(t, "pull"), thread[t].page \notin slipped, Warrant(t, 1)
    PROVE  /\ Top(t).own = model[Top(t).comp][thread[t].page]
           /\ Stable(Top(t).comp, thread[t].page) /\ Stable(Top(t).comp - 1, thread[t].page)
<1>1. /\ Top(t) = stack[t][1] /\ 1 \in DOMAIN stack[t] /\ Top(t).at = "pull"
      /\ Top(t).comp \in Comp /\ Top(t).comp - 1 \in Comp /\ Top(t).comp - 1 <= Top(t).comp
  BY AtPull
<1>2. CallsFresh(t) /\ EditShape
  BY DEF WorkInv, WorkTypes, WorkClaims, WorkOK
<1>3. Top(t).own = model[Top(t).comp][thread[t].page]
  BY <1>1, <1>2 DEF CallsFresh, Holding
<1>4. Stable(Top(t).comp, thread[t].page)
  BY <1>1, WarrantStable
<1>5. QED
  BY <1>1, <1>2, <1>3, <1>4, StableUpstream

\* The reader's hint serves only what is fresh: nothing is in doubt below a node that
\* renders, or binds the input itself.
LEMMA PullHeldWorks ==
    ASSUME WorkInv, NEW t \in Thread, PullHeld(t)
    PROVE  WorkInv'
<1>1. PICK f, p : f = Top(t) /\ p = thread[t].page
  OBVIOUS
<1>2. /\ In(t, "pull") /\ Holds(f.comp, p)
      /\ Set(t, [f EXCEPT !.at = "stamp", !.input = hint[f.comp].shows])
      /\ UNCHANGED <<editing, epoch, cache, hint, inflight, thread, slipped>>
  BY <1>1 DEF PullHeld, caching
<1>3. /\ f \in Frame /\ f.comp \in Comp /\ f.at = "pull" /\ f.epoch <= epoch[f.comp]
      /\ p \in Page /\ stack[t] # <<>>
  BY <1>1, <1>2, AtPull
<1>4. /\ hint[f.comp] \in Hinted /\ hint[f.comp].page = p /\ hint[f.comp].observed = epoch[f.comp - 1]
      /\ HintClaim(f.comp) /\ UNCHANGED <<model, edit, late, epoch, hint, slipped>>
  BY <1>2, <1>3 DEF Holds, WorkInv, WorkTypes, WorkClaims, editing
<1>5. PICK g \in Frame : /\ g = [f EXCEPT !.at = "stamp", !.input = hint[f.comp].shows]
                         /\ g.comp = f.comp /\ g.at = "stamp" /\ g.epoch = f.epoch
                         /\ g.input = hint[f.comp].shows /\ g.own = f.own
  <2>1. hint[f.comp].shows \in Seq(Version)
    BY <1>4 DEF Hinted
  <2>2. [f EXCEPT !.at = "stamp", !.input = hint[f.comp].shows] \in Frame
    BY <1>3, <2>1 DEF Frame
  <2>3. QED
    BY <1>3, <2>1, <2>2 DEF Frame
<1>6. ASSUME p \notin slipped, Warrant(t, 1) PROVE Holding(g, p)'
  <2>1. f.own = model[f.comp][p] /\ Stable(f.comp - 1, p)
    BY <1>1, <1>2, <1>6, OwnAtPull
  <2>2. hint[f.comp].shows = Fresh(f.comp - 1, p)
    BY <1>3, <1>4, <1>6, <2>1 DEF HintClaim
  <2>3. Fresh(g.comp - 1, p)' = Fresh(g.comp - 1, p)
    BY <1>4 DEF Fresh
  <2>4. QED
    BY <1>4, <1>5, <2>1, <2>2, <2>3 DEF Holding
<1>7. hint' \in [Comp -> Hinted] /\ HintShape' /\ \A c \in Comp : HintClaim(c)'
  BY <1>4, HintsStay
<1>8. /\ Set(t, g) /\ g.comp = Top(t).comp /\ g.epoch = Top(t).epoch /\ g.epoch <= epoch[g.comp]
      /\ Top(t).at # "enter" /\ cache' = cache
  BY <1>1, <1>2, <1>3, <1>5
<1>9. QED
  <2>1. /\ stack[t] # <<>> /\ p \in Page /\ p = thread[t].page
        /\ UNCHANGED <<editing, epoch, inflight, thread, slipped>>
    BY <1>1, <1>2, <1>3
  <2>2. /\ g.comp = Top(t).comp /\ g.at \in {"lookup", "pull", "stamp"} /\ g.epoch <= epoch[g.comp]
        /\ (Top(t).at = "enter" => g.epoch = epoch[g.comp])
        /\ (Top(t).at # "enter" => g.epoch = Top(t).epoch)
        /\ (g.at = "pull" => g.comp > 1) /\ (g.at # "stamp" => g.input = <<>>)
    BY <1>5, <1>8
  <2>3. p \notin slipped /\ Stable(g.comp, p) /\ (Top(t).at # "enter" => Warrant(t, 1))
            => Holding(g, p)'
    BY <1>6, <1>8
  <2>4. cache' = cache \/ cache' = [cache EXCEPT ![g.comp][p] = Placeholder]
    BY <1>8
  <2>5. QED
    BY <2>1, <2>2, <2>3, <2>4, <1>7, <1>8, WorkTopMoves

\* The bound page is what the node was planned, or its retry was bound, with.
LEMMA PullBoundWorks ==
    ASSUME WorkInv, NEW t \in Thread, PullBound(t)
    PROVE  WorkInv'
<1>1. PICK f, p : f = Top(t) /\ p = thread[t].page
  OBVIOUS
<1>2. PICK shows : shows = thread[t].bound
  OBVIOUS
<1>3. PICK h : h = [page |-> p, shows |-> shows, observed |-> 0]
  OBVIOUS
<1>4. /\ In(t, "pull") /\ shows # <<>>
      /\ Set(t, [f EXCEPT !.at = "stamp", !.input = shows])
      /\ hint' = [hint EXCEPT ![f.comp] = h]
      /\ UNCHANGED <<editing, epoch, cache, inflight, thread, slipped>>
  BY <1>1, <1>2, <1>3 DEF PullBound, caching
<1>5. /\ f \in Frame /\ f.comp \in Comp /\ f.at = "pull" /\ f.epoch <= epoch[f.comp]
      /\ f.comp > 1 /\ f.comp \in Nat /\ f.comp - 1 \in Comp
      /\ p \in Page /\ stack[t] # <<>> /\ epoch[f.comp - 1] \in Nat \ {0}
  BY <1>1, <1>4, AtPull
<1>6. /\ thread[t].pc \in {"freezing", "refreezing"} /\ f.comp = thread[t].node
      /\ thread[t] \in WorkState
  BY <1>1, <1>2, <1>4, <1>5, WorkTop
<1>7. shows \in Seq(Version) /\ hint \in [Comp -> Hinted] /\ HintShape
      /\ UNCHANGED <<model, edit, late, epoch, slipped>>
  BY <1>2, <1>4, <1>6 DEF WorkState, Audio, WorkInv, WorkTypes, editing
<1>8. PICK g \in Frame : /\ g = [f EXCEPT !.at = "stamp", !.input = shows]
                         /\ g.comp = f.comp /\ g.at = "stamp" /\ g.epoch = f.epoch
                         /\ g.input = shows /\ g.own = f.own
  <2>1. [f EXCEPT !.at = "stamp", !.input = shows] \in Frame
    BY <1>5, <1>7 DEF Frame
  <2>2. QED
    BY <1>5, <1>7, <2>1 DEF Frame
<1>9. ASSUME p \notin slipped, Warrant(t, 1) PROVE Holding(g, p)'
  <2>1. f.own = model[f.comp][p] /\ Stable(f.comp, p) /\ Stable(f.comp - 1, p)
    BY <1>1, <1>4, <1>9, OwnAtPull
  <2>2. NodeFresh(t)
    BY <1>1, <1>9 DEF WorkInv, WorkClaims, WorkOK
  <2>3. Vouched(t)
    BY <1>6, <1>9 DEF Warrant, Awaited
  <2>4. NodeStable(t) /\ InputStable(t)
    BY <1>1, <1>6, <2>1 DEF NodeStable, InputStable
  <2>5. Supplies(t, shows)
    BY <1>2, <1>6, <2>2, <2>3, <2>4 DEF NodeFresh, Vouched
  <2>6. shows = Fresh(f.comp - 1, p)
    BY <1>1, <1>5, <1>6, <2>5 DEF Supplies
  <2>7. Fresh(g.comp - 1, p)' = Fresh(g.comp - 1, p)
    BY <1>7 DEF Fresh
  <2>8. QED
    BY <1>7, <1>8, <2>1, <2>6, <2>7 DEF Holding
<1>10. h \in Hinted /\ h.page = p /\ h.observed = 0
  BY <1>3, <1>5, <1>7 DEF Hinted
<1>11. /\ hint' \in [Comp -> Hinted] /\ hint'[f.comp] = h
       /\ \A c \in Comp : c # f.comp => hint'[c] = hint[c]
  BY <1>4, <1>5, <1>7, <1>10
<1>12. ASSUME NEW c \in Comp PROVE HintClaim(c)'
  <2>1. CASE c = f.comp
    <3>1. hint'[c].observed # epoch'[c - 1]
      BY <1>5, <1>7, <1>10, <1>11, <2>1
    <3>2. QED
      BY <3>1 DEF HintClaim
  <2>2. CASE c # f.comp
    <3>1. HintClaim(c) /\ hint'[c] = hint[c]
      BY <1>11, <2>2 DEF WorkInv, WorkClaims
    <3>2. QED
      BY <1>7, <3>1 DEF HintClaim, Stable, Reached, Touched, Fresh
  <2>3. QED
    BY <2>1, <2>2
<1>13. HintShape'
  <2>1. ASSUME NEW c \in Comp, hint'[c].page \in Page PROVE c > 1 /\ hint'[c].observed <= epoch[c - 1]
    BY <1>5, <1>7, <1>10, <1>11, <2>1 DEF HintShape
  <2>2. QED
    BY <1>7, <2>1 DEF HintShape
<1>14. /\ Set(t, g) /\ g.comp = Top(t).comp /\ g.epoch = Top(t).epoch /\ g.epoch <= epoch[g.comp]
       /\ Top(t).at # "enter" /\ cache' = cache
  BY <1>1, <1>4, <1>5, <1>8
<1>15. QED
  <2>1. /\ stack[t] # <<>> /\ p \in Page /\ p = thread[t].page
        /\ UNCHANGED <<editing, epoch, inflight, thread, slipped>>
    BY <1>1, <1>4, <1>5
  <2>2. /\ g.comp = Top(t).comp /\ g.at \in {"lookup", "pull", "stamp"} /\ g.epoch <= epoch[g.comp]
        /\ (Top(t).at = "enter" => g.epoch = epoch[g.comp])
        /\ (Top(t).at # "enter" => g.epoch = Top(t).epoch)
        /\ (g.at = "pull" => g.comp > 1) /\ (g.at # "stamp" => g.input = <<>>)
    BY <1>8, <1>14
  <2>3. p \notin slipped /\ Stable(g.comp, p) /\ (Top(t).at # "enter" => Warrant(t, 1))
            => Holding(g, p)'
    BY <1>9, <1>14
  <2>4. cache' = cache \/ cache' = [cache EXCEPT ![g.comp][p] = Placeholder]
    BY <1>14
  <2>5. QED
    BY <2>1, <2>2, <2>3, <2>4, <1>11, <1>12, <1>13, <1>14, WorkTopMoves

\* A render that has no input bound, as f, goes on as g and calls its producer d, as h.
Asks(t, d, f, g, h) ==
    /\ f = Top(t) /\ f = stack[t][1] /\ f.at = "pull" /\ f.epoch <= epoch[f.comp]
    /\ d \in Nat \ {0} /\ f.comp = d + 1 /\ epoch[d] \in Nat \ {0}
    /\ h.comp = d /\ h.at = "enter" /\ h.epoch = 0 /\ h.input = <<>>
    /\ g.comp = f.comp /\ g.at = "pulling" /\ g.epoch = f.epoch
    /\ g.prod = epoch[d] /\ g.own = f.own /\ g.input = <<>>
    /\ thread[t].pc = "rendering" /\ CallShape(t, 1)
    /\ stack[t] # <<>> /\ Len(stack[t]) \in Nat \ {0} /\ DOMAIN stack[t] = 1 .. Len(stack[t])
    /\ stack' \in [Thread -> Seq(Frame)] /\ \A u \in Thread : u # t => stack'[u] = stack[u]
    /\ DOMAIN stack'[t] = 1 .. Len(stack[t]) + 1 /\ Len(stack'[t]) = Len(stack[t]) + 1
    /\ stack'[t][1] = h /\ stack'[t][2] = g
    /\ \A i \in 3 .. Len(stack[t]) + 1 : stack'[t][i] = stack[t][i - 1]
    /\ UNCHANGED <<model, settled, edit, late, edits, epoch, cache, hint, inflight, thread, slipped>>

LEMMA ProducerAsked ==
    ASSUME WorkInv, NEW t \in Thread, PullProducer(t)
    PROVE  \E d \in Comp, f \in Frame, g \in Frame, h \in Frame : Asks(t, d, f, g, h)
<1>1. PICK f, s : f = Top(t) /\ s = stack[t]
  OBVIOUS
<1>2. /\ In(t, "pull") /\ thread[t].bound = <<>>
      /\ stack' = [stack EXCEPT ![t] =
             <<Call(f.comp - 1), [f EXCEPT !.at = "pulling", !.prod = epoch[f.comp - 1]]>> \o Tail(s)]
      /\ UNCHANGED <<model, settled, edit, late, edits, epoch, cache, hint, inflight, thread, slipped>>
  BY <1>1 DEF PullProducer, editing, caching
<1>3. /\ f \in Frame /\ f.at = "pull" /\ f.input = <<>> /\ f.epoch <= epoch[f.comp] /\ f = s[1]
      /\ f.comp \in Comp /\ f.comp \in Nat /\ f.comp > 1 /\ f.comp - 1 \in Comp
      /\ epoch[f.comp - 1] \in Nat \ {0} /\ CallShape(t, 1) /\ s # <<>>
  BY <1>1, <1>2, AtPull
<1>4. /\ s \in Seq(Frame) /\ Len(s) \in Nat \ {0} /\ DOMAIN s = 1 .. Len(s)
      /\ thread[t].pc = "rendering"
  <2>1. /\ s \in Seq(Frame) /\ Len(s) \in Nat \ {0} /\ DOMAIN s = 1 .. Len(s)
    BY <1>1, <1>3, WorkTop
  <2>2. thread[t].pc # "rendering" => f.comp = thread[t].node /\ (thread[t].node > 1 => thread[t].bound # <<>>)
    BY <1>1, <1>3, WorkTop
  <2>3. QED
    BY <1>2, <1>3, <2>1, <2>2
<1>5. PICK d \in Comp : d = f.comp - 1 /\ d \in Nat \ {0} /\ f.comp = d + 1 /\ epoch[d] \in Nat \ {0}
  BY <1>3
<1>6. PICK h \in Frame : /\ h = Call(d)
                         /\ h.comp = d /\ h.at = "enter" /\ h.epoch = 0 /\ h.input = <<>>
  <2>1. 0 \in Version /\ <<>> \in Seq(Version)
    BY BoundAssumption, EmptySeq DEF Version
  <2>2. Call(d) \in Frame
    BY <1>5, <2>1 DEF Call, Frame
  <2>3. QED
    BY <2>2 DEF Call
<1>7. PICK g \in Frame : /\ g = [f EXCEPT !.at = "pulling", !.prod = epoch[d]]
                         /\ g.comp = f.comp /\ g.at = "pulling" /\ g.epoch = f.epoch
                         /\ g.prod = epoch[d] /\ g.own = f.own /\ g.input = <<>>
  <2>1. [f EXCEPT !.at = "pulling", !.prod = epoch[d]] \in Frame
    BY <1>3, <1>5 DEF Frame
  <2>2. QED
    BY <1>3, <1>5, <2>1 DEF Frame
<1>8. /\ stack' \in [Thread -> Seq(Frame)] /\ \A u \in Thread : u # t => stack'[u] = stack[u]
      /\ DOMAIN stack'[t] = 1 .. Len(s) + 1 /\ stack'[t][1] = h /\ stack'[t][2] = g
      /\ \A i \in 3 .. Len(s) + 1 : stack'[t][i] = s[i - 1]
  <2> DEFINE v == <<h, g>> \o Tail(s)
  <2>1. /\ v \in Seq(Frame) /\ DOMAIN v = 1 .. Len(s) + 1 /\ v[1] = h /\ v[2] = g
        /\ \A i \in 3 .. Len(s) + 1 : v[i] = s[i - 1]
    BY <1>3, <1>4, CallPushed
  <2>2. stack' = [stack EXCEPT ![t] = v] /\ stack \in [Thread -> Seq(Frame)]
    BY <1>2, <1>5, <1>6, <1>7 DEF WorkInv, WorkTypes
  <2> HIDE DEF v
  <2>3. QED
    BY <2>1, <2>2
<1>9. Len(stack'[t]) = Len(s) + 1
  <2>1. stack'[t] \in Seq(Frame) /\ Len(s) + 1 \in Nat
    BY <1>4, <1>8
  <2>2. DOMAIN stack'[t] = 1 .. Len(stack'[t]) /\ Len(stack'[t]) \in Nat
    BY <2>1, LenProperties
  <2>3. QED
    BY <1>8, <2>1, <2>2
<1>10. f = Top(t) /\ s = stack[t]
  BY <1>1
<1>11. /\ stack' \in [Thread -> Seq(Frame)] /\ \A u \in Thread : u # t => stack'[u] = stack[u]
       /\ DOMAIN stack'[t] = 1 .. Len(stack[t]) + 1 /\ stack'[t][1] = h /\ stack'[t][2] = g
       /\ \A i \in 3 .. Len(stack[t]) + 1 : stack'[t][i] = stack[t][i - 1]
       /\ Len(stack'[t]) = Len(stack[t]) + 1
       /\ stack[t] # <<>> /\ Len(stack[t]) \in Nat \ {0} /\ DOMAIN stack[t] = 1 .. Len(stack[t])
  BY <1>3, <1>4, <1>8, <1>9, <1>10
<1>12. /\ f = Top(t) /\ f.at = "pull" /\ f.epoch <= epoch[f.comp]
       /\ d \in Nat \ {0} /\ f.comp = d + 1 /\ epoch[d] \in Nat \ {0}
       /\ thread[t].pc = "rendering" /\ CallShape(t, 1) /\ f = stack[t][1]
  BY <1>3, <1>4, <1>5, <1>10
<1>13. f \in Frame
  BY <1>3
<1>14. Asks(t, d, f, g, h)
  BY <1>2, <1>6, <1>7, <1>11, <1>12 DEF Asks
<1>15. QED
  BY <1>6, <1>7, <1>13, <1>14

\* The producer's epoch is read before its call begins; the callers keep what they hold.
LEMMA PullProducerWorks ==
    ASSUME WorkInv, NEW t \in Thread, PullProducer(t)
    PROVE  WorkInv'
<1>1. PICK s, p : s = stack[t] /\ p = thread[t].page
  OBVIOUS
<1>0. PICK d \in Comp, f \in Frame, g \in Frame, h \in Frame : Asks(t, d, f, g, h)
  BY ProducerAsked
<1>2. /\ f = Top(t) /\ f.at = "pull" /\ f.epoch <= epoch[f.comp]
      /\ d \in Nat \ {0} /\ f.comp = d + 1 /\ epoch[d] \in Nat \ {0}
      /\ h.comp = d /\ h.at = "enter" /\ h.epoch = 0 /\ h.input = <<>>
      /\ g.comp = f.comp /\ g.at = "pulling" /\ g.epoch = f.epoch
      /\ g.prod = epoch[d] /\ g.own = f.own /\ g.input = <<>>
      /\ thread[t].pc = "rendering" /\ CallShape(t, 1) /\ f = s[1]
      /\ s # <<>> /\ Len(s) \in Nat \ {0} /\ DOMAIN s = 1 .. Len(s)
      /\ stack' \in [Thread -> Seq(Frame)]
      /\ \A u \in Thread : u # t => stack'[u] = stack[u]
      /\ DOMAIN stack'[t] = 1 .. Len(s) + 1 /\ stack'[t][1] = h /\ stack'[t][2] = g
      /\ \A i \in 3 .. Len(s) + 1 : stack'[t][i] = s[i - 1]
      /\ Len(stack'[t]) = Len(s) + 1
      /\ UNCHANGED <<model, settled, edit, late, edits, epoch, cache, hint, inflight, thread, slipped>>
  <2>1. /\ f = stack[t][1]
        /\ stack[t] # <<>> /\ Len(stack[t]) \in Nat \ {0} /\ DOMAIN stack[t] = 1 .. Len(stack[t])
        /\ DOMAIN stack'[t] = 1 .. Len(stack[t]) + 1 /\ Len(stack'[t]) = Len(stack[t]) + 1
        /\ \A i \in 3 .. Len(stack[t]) + 1 : stack'[t][i] = stack[t][i - 1]
    BY <1>0 DEF Asks
  <2>2. /\ f = s[1]
        /\ s # <<>> /\ Len(s) \in Nat \ {0} /\ DOMAIN s = 1 .. Len(s)
        /\ DOMAIN stack'[t] = 1 .. Len(s) + 1 /\ Len(stack'[t]) = Len(s) + 1
        /\ \A i \in 3 .. Len(s) + 1 : stack'[t][i] = s[i - 1]
    BY <1>1, <2>1
  <2>3. QED
    BY <1>0, <2>2 DEF Asks
<1>3. /\ WorkTypes /\ CacheShape /\ OwnClaims /\ WorkOK(t) /\ p \in Page /\ thread[t].page = p
      /\ \A u \in Thread : u # t => thread[u].page # p
  BY <1>1, <1>2, AtWork DEF WorkInv, WorkClaims
<1>4. \A i \in DOMAIN s : /\ CallShape(t, i) /\ s[i] \in Frame /\ i \in Nat \ {0} /\ s[i].comp \in Comp
                          /\ s[i].comp = f.comp + (i - 1) /\ (i > 1 => s[i].at = "pulling")
  BY <1>1, <1>2, WorkTop, SMTT(30)
<1>5. /\ 1 \in DOMAIN s /\ \A i \in 1 .. Len(s) + 1 : i = 1 \/ i = 2 \/ i \in 3 .. Len(s) + 1
      /\ \A i \in 3 .. Len(s) + 1 : i - 1 \in DOMAIN s /\ i - 1 > 1 /\ i > 1 /\ i \in Nat /\ i # 1 /\ i # 2
      /\ \A j \in DOMAIN s : j + 1 \in 1 .. Len(s) + 1
      /\ f.comp \in Nat /\ f.comp - 1 = d
  <2>1. PICK n \in Nat \ {0} : n = Len(s)
    BY <1>2
  <2>2. DOMAIN s = 1 .. n /\ d \in Nat /\ f.comp = d + 1
    BY <1>2, <2>1
  <2>3. /\ 1 \in 1 .. n /\ \A i \in 1 .. n + 1 : i = 1 \/ i = 2 \/ i \in 3 .. n + 1
        /\ \A i \in 3 .. n + 1 : i - 1 \in 1 .. n /\ i - 1 > 1 /\ i > 1 /\ i \in Nat /\ i # 1 /\ i # 2
        /\ \A j \in 1 .. n : j + 1 \in 1 .. n + 1
    OBVIOUS
  <2>4. QED
    BY <2>1, <2>2, <2>3
<1>6. WorkTypes' /\ CacheShape' /\ OwnClaims'
  BY <1>2, <1>3 DEF WorkTypes, EditShape, CacheShape, OwnClaims
<1>7. Target(t)' = Target(t) /\ thread' = thread /\ epoch' = epoch /\ Target(t) \in Nat
  BY <1>1, <1>2, WorkTop, HeightAssumption DEF Target, Comp
<1>8. f.comp + (Len(s) - 1) = Target(t)
  BY <1>1, <1>2 DEF CallShape
<1>9. ASSUME NEW i \in 1 .. Len(s) + 1 PROVE CallShape(t, i)'
  <2>1. CASE i = 1
    <3>1. ~(1 > 1) /\ h.comp + ((Len(s) + 1) - 1) = Target(t) /\ h.epoch <= epoch[h.comp]
      BY <1>2, <1>5, <1>7, <1>8
    <3>2. QED
      BY <1>2, <1>7, <2>1, <3>1 DEF CallShape
  <2>2. CASE i = 2
    <3>1. 2 > 1 /\ g.comp + ((Len(s) + 1) - 2) = Target(t) /\ g.prod <= epoch[g.comp - 1] /\ 2 - 1 = 1
      BY <1>2, <1>5, <1>7, <1>8
    <3>2. g.epoch <= epoch[g.comp] /\ stack'[t][2] = g /\ stack'[t][2 - 1] = h
      BY <1>2, <3>1
    <3>3. QED
      BY <1>2, <1>7, <2>2, <3>1, <3>2 DEF CallShape
  <2>3. CASE i \in 3 .. Len(s) + 1
    <3>1. /\ i - 1 \in DOMAIN s /\ i > 1 /\ i \in Nat /\ stack'[t][i] = s[i - 1] /\ CallShape(t, i - 1)
          /\ s[i - 1].at = "pulling" /\ i - 1 > 1 /\ s[i - 1].comp \in Comp
      BY <1>4, <1>2, <1>5, <2>3
    <3>2. s[i - 1].comp + ((Len(s) + 1) - i) = Target(t)
      <4>1. s[i - 1].comp + (Len(s) - (i - 1)) = Target(t)
        BY <1>1, <3>1 DEF CallShape
      <4>2. Len(s) - (i - 1) = (Len(s) + 1) - i
        BY <1>2, <3>1
      <4>3. QED
        BY <4>1, <4>2
    <3>3. stack'[t][i - 1].at # "enter" => s[i - 1].prod <= stack'[t][i - 1].epoch
      <4>1. s[(i - 1) - 1].at # "enter" => s[i - 1].prod <= s[(i - 1) - 1].epoch
        BY <1>1, <3>1 DEF CallShape
      <4>2. CASE i = 3
        <5>1. (i - 1) - 1 = 1 /\ i - 1 = 2
          BY <4>2
        <5>2. s[(i - 1) - 1] = f /\ stack'[t][i - 1] = g
          BY <1>2, <5>1
        <5>3. f.at # "enter" /\ g.epoch = f.epoch
          BY <1>2
        <5>4. QED
          BY <4>1, <5>2, <5>3
      <4>3. CASE i # 3
        <5>1. i - 1 \in 3 .. Len(s) + 1
          BY <1>2, <2>3, <4>3
        <5>2. QED
          BY <1>2, <4>1, <5>1
      <4>4. QED
        BY <4>2, <4>3
    <3>4. /\ s[i - 1].epoch <= epoch[s[i - 1].comp]
          /\ s[i - 1].prod <= epoch[s[i - 1].comp - 1] /\ s[i - 1].input = <<>>
      BY <1>1, <3>1 DEF CallShape
    <3>5. QED
      BY <1>2, <1>7, <3>1, <3>2, <3>3, <3>4 DEF CallShape
  <2>4. QED
    BY <1>5, <2>1, <2>2, <2>3
<1>10. ASSUME NEW j \in 2 .. Len(s) + 1, Live(stack[t][j], thread[t].page)'
       PROVE  j - 1 \in DOMAIN s /\ Live(s[j - 1], p)
  <2>1. CASE j = 2
    <3>1. stack'[t][j] = g /\ thread'[t].page = p /\ j - 1 = 1
      BY <1>1, <1>2, <2>1
    <3>2. QED
      BY <1>2, <1>5, <1>10, <3>1 DEF Live, Stable, Reached, Touched
  <2>2. CASE j # 2
    <3>1. j \in 3 .. Len(s) + 1
      BY <1>2, <2>2
    <3>2. stack'[t][j] = s[j - 1] /\ thread'[t].page = p /\ j - 1 \in DOMAIN s
      BY <1>1, <1>2, <1>5, <3>1
    <3>3. QED
      BY <1>2, <1>10, <3>2 DEF Live, Stable, Reached, Touched
  <2>3. QED
    BY <2>1, <2>2
<1>11. ASSUME NEW i \in 2 .. Len(s) + 1, Warrant(t, i)' PROVE i - 1 \in DOMAIN s /\ Warrant(t, i - 1)
  <2>1. /\ Vouched(t)' <=> Vouched(t)
        /\ Awaited(t)' <=> Awaited(t)
    BY <1>2 DEF Vouched, Awaited, InputKept, SelfKept, NodeStable, Stable, Reached, Touched
  <2>2. i - 1 \in DOMAIN s /\ i \in Nat
    BY <1>2
  <2>3. ASSUME LiveFrom(t, i)' PROVE LiveFrom(t, i - 1)
    <3>1. PICK j \in 1 .. Len(s) + 1 : i <= j /\ Live(stack[t][j], thread[t].page)'
      BY <1>2, <2>3 DEF LiveFrom
    <3>2. j \in 2 .. Len(s) + 1 /\ i - 1 <= j - 1
      BY <1>2, <2>2, <3>1
    <3>3. j - 1 \in DOMAIN s /\ Live(s[j - 1], p)
      BY <1>10, <3>1, <3>2
    <3>4. QED
      BY <1>1, <3>2, <3>3 DEF LiveFrom
  <2>4. QED
    BY <1>11, <2>1, <2>2, <2>3 DEF Warrant
<1>12. ASSUME p \notin slipped, NEW i \in 1 .. Len(s) + 1, Warrant(t, i)'
       PROVE  Holding(stack[t][i], thread[t].page)'
  <2>1. CASE i = 1
    BY <1>2, <2>1 DEF Holding
  <2>2. CASE i # 1
    <3>1. i \in 2 .. Len(s) + 1
      BY <1>2, <2>2
    <3>2. Holding(s[i - 1], p)
      BY <1>1, <1>3, <1>11, <1>12, <3>1 DEF WorkOK, CallsFresh
    <3>3. CASE i = 2
      <4>1. f.own = model[f.comp][p]
        BY <1>2, <3>2, <3>3 DEF Holding
      <4>2. stack'[t][i] = g /\ thread'[t].page = p
        BY <1>2, <1>3, <3>3
      <4>3. QED
        BY <1>2, <4>1, <4>2 DEF Holding
    <3>4. CASE i # 2
      <4>1. i \in 3 .. Len(s) + 1
        BY <1>2, <3>1, <3>4
      <4>2. stack'[t][i] = s[i - 1] /\ thread'[t].page = p
        BY <1>2, <1>3, <4>1
      <4>3. QED
        BY <1>2, <3>2, <4>2 DEF Holding, Fresh
    <3>5. QED
      BY <3>3, <3>4
  <2>3. QED
    BY <2>1, <2>2
<1>13. NodeFresh(t) => NodeFresh(t)'
  BY <1>2 DEF NodeFresh, InputKept, SelfKept, NodeStable, InputStable, Stable, Reached, Touched, Supplies,
              Publishes, Fresh, Serving
<1>14. WorkShape(t)'
  BY <1>2, <1>3 DEF WorkOK, WorkShape
<1>15. WorkOK(t)'
  <2>1. p \notin slipped => CallsFresh(t)'
    BY <1>1, <1>2, <1>12 DEF CallsFresh
  <2>2. \A i \in DOMAIN stack'[t] : CallShape(t, i)'
    BY <1>2, <1>9
  <2>3. thread'[t].page = p /\ slipped' = slipped /\ (p \notin slipped => NodeFresh(t))
    BY <1>2, <1>3 DEF WorkOK
  <2>4. QED
    BY <1>13, <1>14, <2>1, <2>2, <2>3 DEF WorkOK
<1>16. ASSUME NEW c \in Comp PROVE PageClaim(c, p)'
  <2>1. PageClaim(c, p)
    BY <1>3 DEF WorkInv, WorkClaims
  <2>2. QED
    BY <1>2, <2>1 DEF PageClaim, Doubted, InDoubt, InputKept, SelfKept, Stable, Reached, Touched,
                      ReadsCurrent, Fresh
<1>17. hint' \in [Comp -> Hinted] /\ HintShape' /\ \A c \in Comp : HintClaim(c)'
  BY <1>2, HintsStay
<1>18. OwnStep(t, p)
  <2>1. thread'[t] = thread[t] /\ thread[t].page = p /\ thread' = thread
    BY <1>2, <1>3
  <2>2. QED
    BY <1>2, <1>3, <2>1 DEF OwnStep
<1>19. QED
  BY <1>3, <1>6, <1>15, <1>16, <1>17, <1>18, OwnStepKeeps

\* The innermost call returns shows, and may stamp its page with the epoch it read.
Gives(t, c, p, shows) ==
    /\ stack[t] # <<>> /\ c = Top(t).comp /\ p = thread[t].page
    /\ Top(t).at \in {"lookup", "stamp"} /\ shows \in Audio /\ shows # <<>>
    /\ p \notin slipped /\ Warrant(t, 1) => shows = Fresh(c, p)
    /\ UNCHANGED <<model, settled, edit, late, edits, epoch, inflight, slipped>>
    /\ cache' = cache \/ cache' = [cache EXCEPT ![c][p] = Frozen(Top(t).epoch, shows)]

\* The node keeps its doubts, and comes to doubt what its input or its own epoch left.
Doubts(t) ==
    /\ InDoubt(t) => InDoubt(t)'
    /\ ~Vouched(t) => InDoubt(t)'

OnlyPage(p) == \A c \in Comp, q \in Page : q # p => cache'[c][q] = cache[c][q]

\* The page of the call: stamped current it is warranted, unless its node comes to doubt it.
LEMMA GivenPage ==
    ASSUME WorkInv, NEW t \in Thread, NEW c, NEW p, NEW shows, Gives(t, c, p, shows),
           thread'[t].page = p, thread'[t].node = thread[t].node,
           Doubts(t)
    PROVE  /\ cache' \in [Comp -> [Page -> Cached]] /\ CacheShape' /\ OnlyPage(p)
           /\ \A d \in Comp : PageClaim(d, p)'
<1>1. PICK f : f = Top(t)
  OBVIOUS
<1>2. /\ stack[t] # <<>> /\ c = f.comp /\ p = thread[t].page /\ f.at \in {"lookup", "stamp"}
      /\ shows \in Audio /\ shows # <<>>
      /\ p \notin slipped /\ Warrant(t, 1) => shows = Fresh(c, p)
      /\ UNCHANGED <<model, settled, edit, late, edits, epoch, inflight, slipped>>
      /\ cache' = cache \/ cache' = [cache EXCEPT ![c][p] = Frozen(f.epoch, shows)]
  BY <1>1 DEF Gives
<1>3. /\ f = stack[t][1] /\ 1 \in DOMAIN stack[t] /\ c \in Comp /\ c \in Nat /\ p \in Page
      /\ f.epoch \in Nat /\ CallShape(t, 1)
      /\ thread[t].pc \in {"rendering", "freezing", "refreezing"}
      /\ (thread[t].pc = "rendering" => c < thread[t].node)
      /\ (thread[t].pc # "rendering" => c = thread[t].node)
      /\ thread[t].node \in Comp
  BY <1>1, <1>2, WorkTop, ZenonT(60)
<1>4. /\ cache \in [Comp -> [Page -> Cached]] /\ CacheShape /\ WorkTypes
      /\ epoch[c] \in Nat /\ f.epoch <= epoch[c] /\ thread[t].node \in Nat
  <2>1. cache \in [Comp -> [Page -> Cached]] /\ CacheShape /\ WorkTypes /\ epoch[c] \in Nat
    BY <1>3 DEF WorkInv, WorkTypes
  <2>2. f.epoch <= epoch[c]
    BY <1>2, <1>3 DEF CallShape
  <2>3. thread[t].node \in Nat
    BY <1>3, HeightAssumption DEF Comp
  <2>4. QED
    BY <2>1, <2>2, <2>3
<1>5. PICK page : page = Frozen(f.epoch, shows)
  OBVIOUS
<1>6. page \in Cached /\ page.stamp = f.epoch /\ page.shows = shows
  BY <1>2, <1>3, <1>5 DEF Frozen, Cached, Audio
<1>7. /\ cache' \in [Comp -> [Page -> Cached]]
      /\ \A d \in Comp, q \in Page : d # c \/ q # p => cache'[d][q] = cache[d][q]
      /\ cache' # cache => cache'[c][p] = page
  <2>1. CASE cache' = cache
    BY <1>4, <2>1
  <2>2. CASE cache' = [cache EXCEPT ![c][p] = page]
    <3> DEFINE row == [cache[c] EXCEPT ![p] = page]
    <3>1. row \in [Page -> Cached] /\ row[p] = page /\ \A q \in Page : q # p => row[q] = cache[c][q]
      BY <1>3, <1>4, <1>6
    <3>2. cache' = [cache EXCEPT ![c] = row]
      BY <2>2
    <3> HIDE DEF row
    <3>3. /\ cache' \in [Comp -> [Page -> Cached]]
          /\ cache'[c] = row
          /\ \A d \in Comp : d # c => cache'[d] = cache[d]
      BY <1>3, <1>4, <3>1, <3>2
    <3>4. QED
      BY <3>1, <3>3
  <2>3. QED
    BY <1>2, <1>5, <2>1, <2>2
<1>8. CacheShape'
  <2>1. ASSUME NEW d \in Comp, NEW q \in Page, cache'[d][q].valid
        PROVE  cache'[d][q].stamp <= epoch[d] /\ cache'[d][q].shows # <<>>
    BY <1>2, <1>4, <1>6, <1>7, <2>1 DEF CacheShape
  <2>2. QED
    BY <1>2, <2>1 DEF CacheShape
<1>9. ASSUME NEW d \in Comp PROVE PageClaim(d, p)'
  <2>1. SUFFICES ASSUME p \notin slipped, Stable(d, p), ReadsCurrent(d, p)', ~Doubted(t, d, p)'
                 PROVE  cache'[d][p].shows = Fresh(d, p)
    BY <1>2 DEF PageClaim, Stable, Reached, Touched, Fresh
  <2>2. CASE cache'[d][p] = cache[d][p]
    <3>1. /\ cache[d][p].valid /\ cache[d][p].stamp = epoch[d] /\ epoch[d] \in Nat
      BY <1>2, <1>4, <2>1, <2>2 DEF ReadsCurrent, WorkTypes
    <3>2. ~(d = thread[t].node /\ InDoubt(t))
      BY <2>1 DEF Doubted, Doubts
    <3>3. QED
      BY <1>2, <1>3, <2>1, <2>2, <3>1, <3>2, Undoubted
  <2>3. CASE cache'[d][p] # cache[d][p]
    <3>1. d = c /\ cache'[d][p] = page
      BY <1>3, <1>7, <2>3
    <3>2. f.epoch = epoch[c] /\ Live(f, p)
      BY <1>2, <1>6, <2>1, <3>1 DEF ReadsCurrent, Live
    <3>3. LiveFrom(t, 1)
      BY <1>2, <1>3, <3>2 DEF LiveFrom
    <3>4. Vouched(t)
      <4>1. CASE thread[t].pc = "rendering"
        BY <4>1 DEF Vouched
      <4>2. CASE thread[t].pc # "rendering"
        BY <1>3, <2>1, <3>1, <4>2 DEF Doubted, Doubts
      <4>3. QED
        BY <4>1, <4>2
    <3>5. QED
      BY <1>2, <1>6, <2>1, <3>1, <3>3, <3>4 DEF Warrant
  <2>4. QED
    BY <2>2, <2>3
<1>10. QED
  BY <1>7, <1>8, <1>9 DEF OnlyPage

\* The outermost call returns to the request, or to the node.
LEMMA ReturnsToNode ==
    ASSUME WorkInv, NEW t \in Thread, NEW c, NEW p, NEW shows, Gives(t, c, p, shows),
           Len(stack[t]) = 1, Return(t, shows)
    PROVE  WorkInv'
<1>1. PICK f, old : f = Top(t) /\ old = thread[t]
  OBVIOUS
<1>2. /\ stack[t] # <<>> /\ c = f.comp /\ p = old.page /\ f.at \in {"lookup", "stamp"}
      /\ shows \in Audio /\ shows # <<>>
      /\ p \notin slipped /\ Warrant(t, 1) => shows = Fresh(c, p)
      /\ UNCHANGED <<model, settled, edit, late, edits, epoch, inflight, slipped>>
  BY <1>1 DEF Gives
<1>3. /\ stack' = [stack EXCEPT ![t] = <<>>] /\ hint' = hint
      /\ thread' = [thread EXCEPT ![t].pc = AfterFreeze[thread[t].pc], ![t].got = shows]
  BY DEF Return
<1>4. /\ f = stack[t][1] /\ 1 \in DOMAIN stack[t] /\ c \in Comp /\ c \in Nat /\ p \in Page
      /\ f.epoch \in Nat /\ CallShape(t, 1) /\ old \in WorkState
      /\ old.pc \in {"rendering", "freezing", "refreezing"}
      /\ (old.pc # "rendering" => c = old.node)
      /\ old.node \in Comp /\ c + (Len(stack[t]) - 1) = Target(t)
  BY <1>1, <1>2, WorkTop
<1>5. /\ WorkTypes /\ WorkShape(t) /\ OwnClaims /\ old.page # Nobody
      /\ \A u \in Thread : u # t => thread[u].page # p
      /\ \A d \in Comp : epoch[d] \in Nat
      /\ old.node > 1 => old.node - 1 \in Comp
      /\ f.epoch <= epoch[c]
      /\ old.pc # "rendering" => old.observed[c] <= f.epoch
  <2>1. f.epoch <= epoch[c] /\ (old.pc # "rendering" => old.observed[c] <= f.epoch)
    BY <1>1, <1>2, <1>4 DEF CallShape
  <2>2. thread[t].pc # "idle"
    BY <1>1, <1>4
  <2>3. QED
    BY <1>1, <1>2, <2>1, <2>2, AtWork DEF WorkInv
<1>6. old.pc = "rendering" => c = old.node - 1 /\ old.node > 1
  <2>1. old.pc = "rendering" => c = old.node - 1
    BY <1>1, <1>4 DEF Target
  <2>2. old.pc = "rendering" => old.node > 1
    BY <1>1, <1>5 DEF WorkShape, Asking
  <2>3. QED
    BY <2>1, <2>2
<1>7. PICK pc \in {"erase", "verify", "self"} :
          /\ pc = AfterFreeze[old.pc]
          /\ old.pc = "rendering" <=> pc = "erase"
          /\ old.pc = "freezing" <=> pc = "verify"
          /\ old.pc = "refreezing" <=> pc = "self"
  BY <1>4 DEF AfterFreeze
<1>8. PICK next \in WorkState :
          /\ thread' = [thread EXCEPT ![t] = next]
          /\ next.pc = pc /\ next.page = p /\ next.node = old.node /\ next.comp = old.comp
          /\ next.epoch = old.epoch /\ next.got = shows /\ next.bound = old.bound
          /\ next.observed = old.observed
  <2> DEFINE n == [old EXCEPT !.pc = pc, !.got = shows]
  <2>1. n \in WorkState
    BY <1>2, <1>4 DEF WorkState, WorkPc, Asking, Having
  <2>2. /\ n.pc = pc /\ n.page = p /\ n.node = old.node /\ n.comp = old.comp
        /\ n.epoch = old.epoch /\ n.got = shows /\ n.bound = old.bound
        /\ n.observed = old.observed
    BY <1>2, <1>4 DEF WorkState
  <2>3. thread' = [thread EXCEPT ![t] = n]
    BY <1>1, <1>3, <1>7
  <2> HIDE DEF n
  <2>4. QED
    BY <2>1, <2>2, <2>3
<1>9. /\ thread' \in [Thread -> WorkState] /\ thread'[t] = next
      /\ \A u \in Thread : u # t => thread'[u] = thread[u]
      /\ stack' \in [Thread -> Seq(Frame)] /\ stack'[t] = <<>> /\ DOMAIN stack'[t] = {}
      /\ \A u \in Thread : u # t => stack'[u] = stack[u]
  <2>1. <<>> \in Seq(Frame) /\ DOMAIN <<>> = {}
    BY EmptySeq
  <2>2. thread \in [Thread -> WorkState] /\ stack \in [Thread -> Seq(Frame)]
    BY <1>5 DEF WorkTypes
  <2>3. QED
    BY <1>3, <1>8, <2>1, <2>2
<1>10. /\ InputKept(t)' <=> InputKept(t)
       /\ SelfKept(t)' <=> SelfKept(t)
       /\ NodeStable(t)' <=> NodeStable(t)
  BY <1>1, <1>2, <1>8, <1>9 DEF InputKept, SelfKept, NodeStable, Stable, Reached, Touched
<1>11. Doubts(t)
  BY <1>1, <1>4, <1>7, <1>8, <1>9, <1>10 DEF Doubts, InDoubt, Vouched, Asking
<1>12. /\ cache' \in [Comp -> [Page -> Cached]] /\ CacheShape' /\ OnlyPage(p)
       /\ \A d \in Comp : PageClaim(d, p)'
  <2>1. thread'[t].page = p /\ thread'[t].node = thread[t].node
    BY <1>1, <1>8, <1>9
  <2>2. QED
    BY <1>11, <2>1, GivenPage
<1>13. WorkTypes'
  BY <1>2, <1>3, <1>5, <1>9, <1>12 DEF WorkTypes, EditShape
<1>14. OwnClaims'
  <2>1. ASSUME NEW d \in Comp, NEW q \in Page, NEW u \in Thread, inflight[d][q].owner = u
        PROVE  thread'[u].page = q /\ thread'[u].comp = d /\ thread'[u].pc \in {"rendering", "erase"}
    <3>1. thread[u].page = q /\ thread[u].comp = d /\ thread[u].pc \in {"rendering", "erase"}
      BY <1>5, <2>1 DEF OwnClaims
    <3>2. QED
      BY <1>1, <1>2, <1>4, <1>7, <1>8, <1>9, <3>1
  <2>2. QED
    BY <1>2, <2>1 DEF OwnClaims
<1>15. WorkShape(t)'
  <2>1. /\ pc # "idle" /\ next.page \in Page /\ next.node \in Comp /\ next.got # <<>>
        /\ pc \notin Binding /\ pc # "freeze"
    BY <1>2, <1>4, <1>8 DEF Binding
  <2>2. pc \in Asking => /\ next.node > 1 /\ next.comp = next.node - 1
                         /\ next.bound = <<>> /\ next.epoch <= epoch[next.comp]
    BY <1>1, <1>5, <1>7, <1>8 DEF WorkShape, Asking
  <2>3. \A d \in Comp : next.observed[d] <= epoch[d]
    BY <1>1, <1>5, <1>8 DEF WorkShape
  <2>4. QED
    BY <1>2, <1>8, <1>9, <2>1, <2>2, <2>3 DEF WorkShape
<1>16. ASSUME p \notin slipped PROVE NodeFresh(t)'
  <2>1. ASSUME SelfKept(t), NodeStable(t), pc # "erase" PROVE Live(f, p) /\ LiveFrom(t, 1)
    <3>1. old.observed[c] = epoch[c] /\ old.observed[c] <= f.epoch /\ c = old.node
      BY <1>1, <1>4, <1>5, <1>7, <2>1 DEF SelfKept
    <3>2. f.epoch = epoch[c]
      BY <1>4, <1>5, <3>1
    <3>3. Live(f, p)
      BY <1>1, <1>2, <2>1, <3>1, <3>2 DEF Live, NodeStable
    <3>4. QED
      BY <1>1, <1>2, <1>4, <3>3 DEF LiveFrom
  <2>2. ASSUME pc = "verify", InputKept(t), SelfKept(t), NodeStable(t) PROVE Publishes(t, thread[t].got)'
    <3>1. Warrant(t, 1)
      BY <1>1, <1>7, <2>1, <2>2 DEF Warrant, Vouched
    <3>2. shows = Fresh(old.node, p)
      BY <1>2, <1>4, <1>7, <1>16, <2>2, <3>1
    <3>3. QED
      BY <1>2, <1>8, <1>9, <3>2 DEF Publishes, Fresh
  <2>3. ASSUME pc = "self", SelfKept(t), NodeStable(t) PROVE Publishes(t, thread[t].got)'
    <3>1. Warrant(t, 1)
      BY <1>1, <1>7, <2>1, <2>3 DEF Warrant, Vouched
    <3>2. shows = Fresh(old.node, p)
      BY <1>2, <1>4, <1>7, <1>16, <2>3, <3>1
    <3>3. QED
      BY <1>2, <1>8, <1>9, <3>2 DEF Publishes, Fresh
  <2>4. ASSUME pc = "erase", NodeStable(t) PROVE Supplies(t, thread[t].got)'
    <3>1. Warrant(t, 1)
      BY <1>1, <1>7, <2>4 DEF Warrant, Awaited
    <3>2. shows = Fresh(old.node - 1, p)
      BY <1>2, <1>6, <1>7, <1>16, <2>4, <3>1
    <3>3. QED
      BY <1>2, <1>8, <1>9, <3>2 DEF Supplies, Fresh
  <2>5. thread'[t].pc = pc /\ pc \in {"erase", "verify", "self"}
    BY <1>8, <1>9
  <2>6. QED
    BY <1>10, <2>2, <2>3, <2>4, <2>5 DEF NodeFresh
<1>17. WorkOK(t)'
  <2>1. thread'[t].page = p /\ slipped' = slipped /\ CallsFresh(t)'
    BY <1>2, <1>8, <1>9 DEF CallsFresh
  <2>2. QED
    BY <1>9, <1>15, <1>16, <2>1 DEF WorkOK
<1>18. hint' \in [Comp -> Hinted] /\ HintShape' /\ \A d \in Comp : HintClaim(d)'
  BY <1>2, <1>3, HintsStay
<1>19. OwnStep(t, p)
  <2>1. thread[t].page = p /\ thread'[t].page = p
    BY <1>1, <1>2, <1>8, <1>9
  <2>2. QED
    BY <1>2, <1>5, <1>9, <1>12, <2>1 DEF OwnStep, OnlyPage
<1>20. QED
  BY <1>4, <1>12, <1>13, <1>14, <1>17, <1>18, <1>19, OwnStepKeeps

\* An inner call returns to the call f that waits for it: that goes on as g, with hint h.
Resumes(t, c, p, shows, f, g, h) ==
    /\ f = stack[t][2] /\ f.at = "pulling" /\ f.comp \in Comp
    /\ f.comp = c + 1 /\ f.comp - 1 = c /\ f.comp > 1 /\ f.epoch <= epoch[f.comp]
    /\ f.prod \in Nat /\ f.prod <= Top(t).epoch /\ Top(t).epoch <= epoch[c] /\ epoch[c] \in Nat
    /\ Top(t) = stack[t][1] /\ Top(t).epoch \in Nat /\ c \in Comp /\ c \in Nat
    /\ g.comp = f.comp /\ g.at = "stamp" /\ g.epoch = f.epoch /\ g.own = f.own /\ g.input = shows
    /\ h.page = p /\ h.shows = shows /\ h.observed = f.prod
    /\ thread[t].pc = "rendering" /\ p \in Page /\ p = thread[t].page
    /\ Len(stack[t]) \in Nat \ {0} /\ DOMAIN stack[t] = 1 .. Len(stack[t]) /\ Len(stack[t]) > 1
    /\ \A i \in DOMAIN stack[t] :
           /\ CallShape(t, i) /\ stack[t][i].comp \in Comp
           /\ (i > 1 => stack[t][i].at = "pulling" /\ stack[t][i].comp # c)
    /\ stack' \in [Thread -> Seq(Frame)] /\ \A u \in Thread : u # t => stack'[u] = stack[u]
    /\ DOMAIN stack'[t] = 1 .. Len(stack[t]) - 1 /\ Len(stack'[t]) = Len(stack[t]) - 1
    /\ stack'[t][1] = g /\ \A i \in 2 .. Len(stack[t]) - 1 : stack'[t][i] = stack[t][i + 1]
    /\ hint' \in [Comp -> Hinted] /\ hint'[f.comp] = h /\ \A d \in Comp : d # f.comp => hint'[d] = hint[d]
    /\ thread' = thread

LEMMA CallerResumes ==
    ASSUME WorkInv, NEW t \in Thread, NEW c, NEW p, NEW shows, Gives(t, c, p, shows),
           Len(stack[t]) # 1, Return(t, shows)
    PROVE  \E f \in Frame, g \in Frame, h \in Hinted : Resumes(t, c, p, shows, f, g, h)
<1>1. PICK s, f : s = stack[t] /\ f = stack[t][2]
  OBVIOUS
<1>2. /\ stack' = [stack EXCEPT ![t] = <<[f EXCEPT !.at = "stamp", !.input = shows]>> \o SubSeq(s, 3, Len(s))]
      /\ hint' = [hint EXCEPT ![f.comp] = [page |-> p, shows |-> shows, observed |-> f.prod]]
      /\ thread' = thread /\ Len(s) > 1
      /\ stack[t] # <<>> /\ c = Top(t).comp /\ p = thread[t].page
      /\ Top(t).at \in {"lookup", "stamp"} /\ shows \in Seq(Version)
  BY <1>1 DEF Return, Gives, Audio
<1>3. /\ s \in Seq(Frame) /\ Len(s) \in Nat \ {0} /\ DOMAIN s = 1 .. Len(s) /\ 1 \in DOMAIN s
      /\ s[1] = Top(t) /\ c \in Comp /\ c \in Nat \ {0} /\ Top(t).epoch \in Nat
      /\ thread[t].pc \in {"rendering", "freezing", "refreezing"} /\ p \in Page
      /\ (thread[t].pc # "rendering" => Len(s) = 1)
      /\ \A i \in DOMAIN s : /\ CallShape(t, i) /\ s[i] \in Frame /\ i \in Nat \ {0} /\ s[i].comp \in Comp
                             /\ s[i].comp = c + (i - 1)
                             /\ (i > 1 => s[i].at = "pulling" /\ s[i].comp # c)
  BY <1>1, <1>2, WorkTop
<1>4. thread[t].pc = "rendering" /\ 2 \in DOMAIN s /\ epoch[c] \in Nat
  <2>1. thread[t].pc = "rendering" /\ 2 \in DOMAIN s
    BY <1>2, <1>3
  <2>2. QED
    BY <1>3, <2>1 DEF WorkInv, WorkTypes
<1>5. /\ f \in Frame /\ f.comp \in Comp /\ f.comp = c + 1 /\ f.comp - 1 = c /\ f.comp > 1
      /\ f.at = "pulling" /\ f.epoch <= epoch[f.comp]
      /\ f.prod \in Nat /\ f.prod <= Top(t).epoch /\ Top(t).epoch <= epoch[c]
  <2>0. 1 \in DOMAIN s /\ 2 \in DOMAIN s /\ 2 > 1 /\ f = s[2]
    BY <1>1, <1>3, <1>4
  <2>1. CallShape(t, 2) /\ f \in Frame /\ f.comp \in Comp /\ f.comp = c + (2 - 1) /\ CallShape(t, 1)
        /\ f.at = "pulling"
    BY <1>3, <2>0
  <2>2. f.comp = c + 1 /\ f.comp - 1 = c /\ f.comp > 1
    BY <1>3, <2>1
  <2>3. f.prod \in Nat
    BY <2>1 DEF Frame
  <2>4. f.epoch <= epoch[f.comp] /\ f.prod <= stack[t][2 - 1].epoch
    <3>1. /\ stack[t][2].epoch <= epoch[stack[t][2].comp]
          /\ (stack[t][2 - 1].at # "enter" => stack[t][2].prod <= stack[t][2 - 1].epoch)
      BY <2>1 DEF CallShape
    <3>2. stack[t][2] = f /\ stack[t][2 - 1] = Top(t) /\ Top(t).at # "enter"
      BY <1>1, <1>2, <1>3
    <3>3. QED
      BY <3>1, <3>2
  <2>5. Top(t).epoch <= epoch[c]
    BY <1>1, <1>2, <1>3, <2>1 DEF CallShape
  <2>6. 2 - 1 = 1
    OBVIOUS
  <2>7. QED
    BY <1>1, <1>3, <2>1, <2>2, <2>3, <2>4, <2>5, <2>6
<1>6. PICK g \in Frame : /\ g = [f EXCEPT !.at = "stamp", !.input = shows]
                         /\ g.comp = f.comp /\ g.at = "stamp" /\ g.epoch = f.epoch
                         /\ g.own = f.own /\ g.input = shows
  <2>1. [f EXCEPT !.at = "stamp", !.input = shows] \in Frame
    BY <1>2, <1>5 DEF Frame
  <2>2. QED
    BY <1>5, <2>1 DEF Frame
<1>7. /\ stack' \in [Thread -> Seq(Frame)] /\ \A u \in Thread : u # t => stack'[u] = stack[u]
      /\ DOMAIN stack'[t] = 1 .. Len(s) - 1 /\ stack'[t][1] = g
      /\ \A i \in 2 .. Len(s) - 1 : stack'[t][i] = s[i + 1]
  <2> DEFINE v == <<g>> \o SubSeq(s, 3, Len(s))
  <2>1. /\ v \in Seq(Frame) /\ DOMAIN v = 1 .. Len(s) - 1 /\ v[1] = g
        /\ \A i \in 2 .. Len(s) - 1 : v[i] = s[i + 1]
    BY <1>2, <1>3, CallPopped
  <2>2. stack' = [stack EXCEPT ![t] = v] /\ stack \in [Thread -> Seq(Frame)]
    BY <1>2, <1>6 DEF WorkInv, WorkTypes
  <2> HIDE DEF v
  <2>3. QED
    BY <2>1, <2>2
<1>8. Len(stack'[t]) = Len(s) - 1
  <2>1. stack'[t] \in Seq(Frame) /\ Len(s) - 1 \in Nat
    BY <1>3, <1>7
  <2>2. DOMAIN stack'[t] = 1 .. Len(stack'[t]) /\ Len(stack'[t]) \in Nat
    BY <2>1, LenProperties
  <2>3. QED
    BY <1>7, <2>1, <2>2
<1>9. PICK h \in Hinted :
           /\ h = [page |-> p, shows |-> shows, observed |-> f.prod]
           /\ h.page = p /\ h.shows = shows /\ h.observed = f.prod
  <2> DEFINE r == [page |-> p, shows |-> shows, observed |-> f.prod]
  <2>1. r \in Hinted
    BY <1>2, <1>3, <1>5 DEF Hinted
  <2>2. r.page = p /\ r.shows = shows /\ r.observed = f.prod
    OBVIOUS
  <2>3. r = [page |-> p, shows |-> shows, observed |-> f.prod]
    OBVIOUS
  <2> HIDE DEF r
  <2>4. QED
    BY <2>1, <2>2, <2>3
<1>10. /\ hint' \in [Comp -> Hinted]
       /\ hint'[f.comp] = h /\ \A d \in Comp : d # f.comp => hint'[d] = hint[d]
  <2>1. hint' = [hint EXCEPT ![f.comp] = h] /\ hint \in [Comp -> Hinted]
    BY <1>2, <1>9 DEF WorkInv, WorkTypes
  <2>2. QED
    BY <1>5, <1>9, <2>1
<1>11. Resumes(t, c, p, shows, f, g, h)
  BY <1>1, <1>2, <1>3, <1>4, <1>5, <1>6, <1>7, <1>8, <1>9, <1>10, ZenonT(60) DEF Resumes
<1>12. f \in Frame
  BY <1>5
<1>13. QED
  BY <1>6, <1>9, <1>11, <1>12

\* The page goes to the caller and to its hint: observed no later than the call read its
\* epoch, a hint that holds is of a call that is live.
LEMMA ReturnsToCaller ==
    ASSUME WorkInv, NEW t \in Thread, NEW c, NEW p, NEW shows, Gives(t, c, p, shows),
           Len(stack[t]) # 1, Return(t, shows)
    PROVE  WorkInv'
<1>1. PICK s, top : s = stack[t] /\ top = Top(t)
  OBVIOUS
<1>2. PICK f \in Frame, g \in Frame, h \in Hinted : Resumes(t, c, p, shows, f, g, h)
  BY CallerResumes
<1>3. /\ c = top.comp /\ p = thread[t].page /\ top.at \in {"lookup", "stamp"}
      /\ p \notin slipped /\ Warrant(t, 1) => shows = Fresh(c, p)
      /\ UNCHANGED <<model, settled, edit, late, edits, epoch, inflight, slipped>>
  BY <1>1 DEF Gives
<1>4. /\ f = s[2] /\ f.at = "pulling" /\ f.comp \in Comp
      /\ f.comp = c + 1 /\ f.comp - 1 = c /\ f.comp > 1 /\ f.epoch <= epoch[f.comp]
      /\ f.prod \in Nat /\ f.prod <= top.epoch /\ top.epoch <= epoch[c] /\ epoch[c] \in Nat
      /\ top = s[1] /\ top.epoch \in Nat /\ c \in Comp /\ c \in Nat
      /\ g.comp = f.comp /\ g.at = "stamp" /\ g.epoch = f.epoch /\ g.own = f.own /\ g.input = shows
      /\ h.page = p /\ h.shows = shows /\ h.observed = f.prod
      /\ thread[t].pc = "rendering" /\ p \in Page
      /\ Len(s) \in Nat \ {0} /\ DOMAIN s = 1 .. Len(s) /\ Len(s) > 1
      /\ \A i \in DOMAIN s : /\ CallShape(t, i) /\ s[i].comp \in Comp
                             /\ (i > 1 => s[i].at = "pulling" /\ s[i].comp # c)
  BY <1>1, <1>2 DEF Resumes
<1>5. /\ stack' \in [Thread -> Seq(Frame)] /\ \A u \in Thread : u # t => stack'[u] = stack[u]
      /\ DOMAIN stack'[t] = 1 .. Len(s) - 1 /\ Len(stack'[t]) = Len(s) - 1
      /\ stack'[t][1] = g /\ \A i \in 2 .. Len(s) - 1 : stack'[t][i] = s[i + 1]
      /\ hint' \in [Comp -> Hinted] /\ hint'[f.comp] = h /\ \A d \in Comp : d # f.comp => hint'[d] = hint[d]
      /\ thread' = thread
  BY <1>1, <1>2 DEF Resumes
<1>6. /\ WorkTypes /\ HintShape /\ OwnClaims /\ WorkOK(t)
      /\ \A u \in Thread : u # t => thread[u].page # p
  <2>1. thread[t].pc # "idle"
    BY <1>4
  <2>2. QED
    BY <1>3, <2>1, AtWork DEF WorkInv, WorkClaims
<1>7. /\ Vouched(t)' <=> Vouched(t)
      /\ Awaited(t)' <=> Awaited(t)
      /\ InDoubt(t)' <=> InDoubt(t)
      /\ Target(t)' = Target(t)
      /\ Vouched(t)
  BY <1>3, <1>4, <1>5 DEF Vouched, Awaited, InDoubt, Target, InputKept, SelfKept, NodeStable, Stable, Reached, Touched
<1>8. /\ cache' \in [Comp -> [Page -> Cached]] /\ CacheShape' /\ OnlyPage(p)
      /\ \A d \in Comp : PageClaim(d, p)'
  <2>1. Doubts(t) /\ thread'[t].page = p /\ thread'[t].node = thread[t].node
    BY <1>3, <1>5, <1>7 DEF Doubts
  <2>2. QED
    BY <2>1, GivenPage
<1>9. WorkTypes'
  BY <1>3, <1>5, <1>6, <1>8 DEF WorkTypes, EditShape
<1>10. OwnClaims'
  BY <1>3, <1>5, <1>6 DEF OwnClaims
<1>11. HintShape'
  <2>1. ASSUME NEW d \in Comp, hint'[d].page \in Page PROVE d > 1 /\ hint'[d].observed <= epoch[d - 1]
    <3>1. CASE d = f.comp
      <4>1. \A a, b, e \in Nat : a <= b /\ b <= e => a <= e
        OBVIOUS
      <4>2. f.prod <= epoch[c]
        BY <1>4, <4>1
      <4>3. QED
        BY <1>4, <1>5, <3>1, <4>2
    <3>2. CASE d # f.comp
      BY <1>5, <1>6, <2>1, <3>2 DEF HintShape
    <3>3. QED
      BY <3>1, <3>2
  <2>2. QED
    BY <1>3, <2>1 DEF HintShape
<1>12. ASSUME NEW d \in Comp PROVE HintClaim(d)'
  <2>1. CASE d = f.comp
    <3>1. ASSUME p \notin slipped, f.prod = epoch[c], Stable(c, p) PROVE shows = Fresh(c, p)
      <4>1. top.epoch = epoch[c]
        BY <1>4, <3>1
      <4>2. Live(top, p) /\ 1 \in DOMAIN s
        BY <1>3, <1>4, <3>1, <4>1 DEF Live
      <4>3. LiveFrom(t, 1)
        BY <1>1, <1>3, <1>4, <4>2 DEF LiveFrom
      <4>4. QED
        BY <1>3, <1>7, <3>1, <4>3 DEF Warrant
    <3>2. hint'[d] = h /\ d - 1 = c
      BY <1>4, <1>5, <2>1
    <3>3. QED
      BY <1>3, <1>4, <3>1, <3>2 DEF HintClaim, Stable, Reached, Touched, Fresh
  <2>2. CASE d # f.comp
    <3>1. HintClaim(d) /\ hint'[d] = hint[d]
      BY <1>5, <2>2 DEF WorkInv, WorkClaims
    <3>2. QED
      BY <1>3, <3>1 DEF HintClaim, Stable, Reached, Touched, Fresh
  <2>3. QED
    BY <2>1, <2>2
<1>13. /\ \A i \in 1 .. Len(s) - 1 : i = 1 \/ i \in 2 .. Len(s) - 1
       /\ \A i \in 1 .. Len(s) - 1 : i + 1 \in DOMAIN s /\ i + 1 > 1 /\ i \in Nat
       /\ 1 \in DOMAIN s /\ 2 \in DOMAIN s
  BY <1>4
<1>14. ASSUME NEW i \in 1 .. Len(s) - 1
       PROVE  /\ stack'[t][i].comp = s[i + 1].comp /\ stack'[t][i].epoch = s[i + 1].epoch
              /\ stack'[t][i].at # "enter" /\ s[i + 1].at = "pulling" /\ s[i + 1].comp # c
  <2>1. CASE i = 1
    <3>1. i + 1 = 2
      BY <2>1
    <3>2. QED
      BY <1>4, <1>5, <1>13, <2>1, <3>1
  <2>2. CASE i \in 2 .. Len(s) - 1
    <3>1. stack'[t][i] = s[i + 1] /\ s[i + 1].at = "pulling" /\ s[i + 1].comp # c
      BY <1>4, <1>5, <1>13, <2>2
    <3>2. QED
      BY <3>1
  <2>3. QED
    BY <1>13, <2>1, <2>2
<1>15. ASSUME NEW i \in 1 .. Len(s) - 1 PROVE CallShape(t, i)'
  <2>1. CallShape(t, i + 1) /\ i \in Nat /\ i + 1 \in DOMAIN s
    BY <1>4, <1>13
  <2>2. stack'[t][i].comp + ((Len(s) - 1) - i) = Target(t)
    <3>1. s[i + 1].comp + (Len(s) - (i + 1)) = Target(t)
      BY <1>1, <2>1 DEF CallShape
    <3>2. (Len(s) - 1) - i = Len(s) - (i + 1)
      BY <1>4, <2>1
    <3>3. QED
      BY <1>14, <3>1, <3>2
  <2>3. stack'[t][i].epoch <= epoch[stack'[t][i].comp]
    BY <1>1, <1>14, <2>1 DEF CallShape
  <2>4. CASE i = 1
    <3>0. ~(1 > 1)
      OBVIOUS
    <3>1. stack'[t][1] = g /\ g.at = "stamp"
      BY <1>4, <1>5
    <3>2. thread'[t].pc = "rendering"
      BY <1>4, <1>5
    <3>3. g.comp + ((Len(s) - 1) - 1) = Target(t) /\ g.epoch <= epoch[g.comp]
      BY <1>5, <2>2, <2>3, <2>4
    <3>4. QED
      BY <1>3, <1>5, <1>7, <2>4, <3>0, <3>1, <3>2, <3>3 DEF CallShape
  <2>5. CASE i # 1
    <3>1. i \in 2 .. Len(s) - 1 /\ i > 1 /\ stack'[t][i] = s[i + 1]
      BY <1>5, <1>13, <2>5, <2>1
    <3>2. s[i + 1].prod <= epoch[s[i + 1].comp - 1] /\ s[i + 1].input = <<>>
      BY <1>1, <1>13, <1>14, <2>1 DEF CallShape
    <3>3. s[i + 1].prod <= stack'[t][i - 1].epoch
      <4>1. (i + 1) - 1 = i /\ (i - 1) + 1 = i /\ i - 1 \in 1 .. Len(s) - 1 /\ i \in DOMAIN s /\ i > 1
        BY <1>4, <2>1, <3>1
      <4>2. s[i + 1].prod <= s[i].epoch
        <5>1. s[i].at = "pulling"
          BY <1>4, <4>1
        <5>2. s[(i + 1) - 1].at # "enter" => s[i + 1].prod <= s[(i + 1) - 1].epoch
          BY <1>1, <1>13, <2>1 DEF CallShape
        <5>3. QED
          BY <4>1, <5>1, <5>2
      <4>3. stack'[t][i - 1].epoch = s[i].epoch
        BY <1>14, <4>1
      <4>4. QED
        BY <4>2, <4>3
    <3>4. QED
      BY <1>3, <1>4, <1>5, <1>7, <1>14, <2>2, <2>3, <3>1, <3>2, <3>3, ZenonT(60) DEF CallShape
  <2>6. QED
    BY <2>4, <2>5
<1>16. ASSUME NEW i \in 1 .. Len(s) - 1, Warrant(t, i)' PROVE Warrant(t, i + 1) /\ Warrant(t, 1)
  <2>1. ASSUME LiveFrom(t, i)' PROVE LiveFrom(t, i + 1) /\ LiveFrom(t, 1)
    <3>1. PICK j \in 1 .. Len(s) - 1 : i <= j /\ Live(stack[t][j], thread[t].page)'
      BY <1>5, <2>1 DEF LiveFrom
    <3>2. j + 1 \in DOMAIN s /\ i + 1 <= j + 1 /\ 1 <= j + 1
      BY <1>4, <3>1
    <3>3. Live(s[j + 1], thread[t].page)
      BY <1>3, <1>5, <1>14, <3>1 DEF Live, Stable, Reached, Touched
    <3>4. QED
      BY <1>1, <3>2, <3>3 DEF LiveFrom
  <2>2. QED
    BY <1>7, <1>16, <2>1 DEF Warrant
<1>17. ASSUME p \notin slipped, NEW i \in 1 .. Len(s) - 1, Warrant(t, i)'
       PROVE  Holding(stack[t][i], thread[t].page)'
  <2>1. Holding(s[i + 1], p) /\ shows = Fresh(c, p)
    BY <1>1, <1>3, <1>6, <1>13, <1>16, <1>17 DEF WorkOK, CallsFresh
  <2>2. CASE i = 1
    <3>1. s[i + 1] = f
      BY <1>4, <2>2
    <3>2. f.own = model[f.comp][p]
      BY <1>4, <2>1, <3>1 DEF Holding
    <3>3. stack'[t][i] = g /\ thread'[t].page = p
      BY <1>3, <1>5, <2>2
    <3>4. Fresh(c, p)' = Fresh(c, p) /\ model' = model
      BY <1>3 DEF Fresh
    <3>5. QED
      BY <1>4, <2>1, <3>2, <3>3, <3>4 DEF Holding
  <2>3. CASE i \in 2 .. Len(s) - 1
    <3>1. stack'[t][i] = s[i + 1] /\ thread'[t].page = p /\ s[i + 1].at = "pulling"
      BY <1>3, <1>5, <1>14, <2>3
    <3>2. QED
      BY <1>3, <2>1, <3>1 DEF Holding
  <2>4. QED
    BY <1>13, <2>2, <2>3
<1>18. WorkOK(t)'
  <2>1. \A i \in DOMAIN stack'[t] : CallShape(t, i)'
    BY <1>5, <1>15
  <2>2. p \notin slipped => CallsFresh(t)'
    BY <1>3, <1>5, <1>17 DEF CallsFresh
  <2>3. NodeFresh(t) => NodeFresh(t)'
    <3>1. thread'[t].pc = "rendering"
      BY <1>4, <1>5
    <3>2. QED
      BY <3>1 DEF NodeFresh
  <2>4. WorkShape(t)'
    BY <1>3, <1>4, <1>5, <1>6 DEF WorkOK, WorkShape
  <2>5. thread'[t].page = p /\ slipped' = slipped /\ (p \notin slipped => NodeFresh(t))
    BY <1>3, <1>5, <1>6 DEF WorkOK
  <2>6. QED
    BY <2>1, <2>2, <2>3, <2>4, <2>5 DEF WorkOK
<1>19. OwnStep(t, p)
  <2>1. thread'[t] = thread[t] /\ thread[t].page = p /\ thread' = thread
    BY <1>3, <1>5
  <2>2. QED
    BY <1>3, <1>5, <1>6, <1>8, <2>1 DEF OwnStep, OnlyPage
<1>20. QED
  BY <1>4, <1>5, <1>8, <1>9, <1>10, <1>11, <1>12, <1>18, <1>19, OwnStepKeeps

LEMMA FreezeHitWorks ==
    ASSUME WorkInv, NEW t \in Thread, FreezeHit(t)
    PROVE  WorkInv'
<1>1. PICK f, c, p, shows : f = Top(t) /\ c = f.comp /\ p = thread[t].page /\ shows = cache[c][p].shows
  OBVIOUS
<1>2. /\ stack[t] # <<>> /\ f.at = "lookup" /\ Current(cache[c][p], f.epoch) /\ Return(t, shows)
      /\ UNCHANGED <<model, settled, edit, late, edits, epoch, inflight, slipped>>
  BY <1>1 DEF FreezeHit, In, editing, caching
<1>3. f = stack[t][1] /\ 1 \in DOMAIN stack[t] /\ c \in Comp /\ p \in Page
  BY <1>1, <1>2, WorkTop
<1>4. cache' = cache
  BY <1>1 DEF FreezeHit, caching
<1>5. shows \in Audio /\ shows # <<>>
  <2>1. cache[c][p] \in Cached /\ CacheShape /\ cache[c][p].valid
    BY <1>2, <1>3 DEF WorkInv, WorkTypes, Current
  <2>2. QED
    BY <1>1, <1>3, <2>1 DEF Cached, Audio, CacheShape
<1>6. ASSUME p \notin slipped, Warrant(t, 1) PROVE shows = Fresh(c, p)
  <2>1. Holding(f, p)
    BY <1>1, <1>3, <1>6 DEF WorkInv, WorkClaims, WorkOK, CallsFresh
  <2>2. QED
    BY <1>1, <1>2, <2>1 DEF Holding
<1>7. Gives(t, c, p, shows)
  BY <1>1, <1>2, <1>4, <1>5, <1>6 DEF Gives
<1>8. QED
  BY <1>2, <1>7, ReturnsToNode, ReturnsToCaller

LEMMA FreezeStampWorks ==
    ASSUME WorkInv, NEW t \in Thread, FreezeStamp(t)
    PROVE  WorkInv'
<1>1. PICK f, c, p, shows : /\ f = Top(t) /\ c = f.comp /\ p = thread[t].page
                            /\ shows = Append(f.input, f.own)
  OBVIOUS
<1>2. /\ stack[t] # <<>> /\ f.at = "stamp" /\ Return(t, shows)
      /\ cache' = IF cache[c][p].present THEN [cache EXCEPT ![c][p] = Frozen(f.epoch, shows)] ELSE cache
      /\ UNCHANGED <<model, settled, edit, late, edits, epoch, inflight, slipped>>
  BY <1>1 DEF FreezeStamp, In, editing
<1>3. /\ f = stack[t][1] /\ 1 \in DOMAIN stack[t] /\ c \in Comp /\ p \in Page
      /\ f.own \in Version /\ f.input \in Seq(Version)
  BY <1>1, <1>2, WorkTop DEF Audio
<1>4. cache' = cache \/ cache' = [cache EXCEPT ![c][p] = Frozen(f.epoch, shows)]
  BY <1>2
<1>5. shows \in Audio /\ shows # <<>>
  <2>1. shows \in Seq(Version) /\ Len(shows) = Len(f.input) + 1 /\ Len(f.input) \in Nat
    BY <1>1, <1>3, AppendProperties, LenProperties
  <2>2. Len(<<>>) = 0
    OBVIOUS
  <2>3. QED
    BY <2>1, <2>2 DEF Audio
<1>6. ASSUME p \notin slipped, Warrant(t, 1) PROVE shows = Fresh(c, p)
  <2>1. Holding(f, p) /\ model \in [Comp -> [Page -> Version]]
    BY <1>1, <1>3, <1>6 DEF WorkInv, WorkTypes, WorkClaims, WorkOK, CallsFresh
  <2>2. f.own = model[c][p] /\ f.input = Fresh(c - 1, p)
    BY <1>1, <1>2, <2>1 DEF Holding
  <2>3. QED
    BY <1>1, <1>3, <2>1, <2>2, FreshAppends
<1>7. Gives(t, c, p, shows)
  BY <1>1, <1>2, <1>4, <1>5, <1>6 DEF Gives
<1>8. QED
  BY <1>2, <1>7, ReturnsToNode, ReturnsToCaller

-----------------------------------------------------------------------------
(***************************************************************************)
(* A worker between its calls: the request of a retry, and its nodes       *)
(***************************************************************************)
\* A node gives up a doubt only over a page that does not read current.
Settles(t, p) ==
    \A c \in Comp : Doubted(t, c, p) => Doubted(t, c, p)' \/ ~ReadsCurrent(c, p)

\* Thread t goes on as next; the caches, the hints and the edits stay.
Moves(t, p, next) ==
    /\ thread' = [thread EXCEPT ![t] = next] /\ stack[t] = <<>>
    /\ thread[t].page \in {p, Nobody} /\ next.page \in {p, Nobody}
    /\ \A u \in Thread : u # t => thread[u].page # p
    /\ UNCHANGED <<editing, epoch, cache, hint, slipped>>

\* With no call of its own, or with one just begun.
Calls(t) ==
    \/ stack' = stack
    \/ \E c \in Comp : /\ stack' = [stack EXCEPT ![t] = <<Call(c)>>] /\ c = Target(t)'

LEMMA NodeMoves ==
    ASSUME WorkInv, NEW t \in Thread, NEW p \in Page, NEW next \in WorkState, Moves(t, p, next), Calls(t),
           inflight' \in [Comp -> [Page -> Claim]], OwnClaims', Settles(t, p),
           WorkShape(t)', p \notin slipped => NodeFresh(t)'
    PROVE  WorkInv'
<1>1. /\ thread' = [thread EXCEPT ![t] = next] /\ stack[t] = <<>>
      /\ thread[t].page \in {p, Nobody} /\ next.page \in {p, Nobody}
      /\ \A u \in Thread : u # t => thread[u].page # p
      /\ UNCHANGED <<model, settled, edit, late, edits, epoch, cache, hint, slipped>>
  BY DEF Moves, editing
<1>2. /\ WorkTypes /\ CacheShape /\ HintShape /\ thread \in [Thread -> WorkState]
      /\ stack \in [Thread -> Seq(Frame)] /\ epoch \in [Comp -> Nat \ {0}]
  BY DEF WorkInv, WorkTypes
<1>3. /\ thread' \in [Thread -> WorkState] /\ thread'[t] = next
      /\ \A u \in Thread : u # t => thread'[u] = thread[u]
  BY <1>1, <1>2
<1>4. /\ stack' \in [Thread -> Seq(Frame)] /\ \A u \in Thread : u # t => stack'[u] = stack[u]
      /\ \A i \in DOMAIN stack'[t] : CallShape(t, i)' /\ stack'[t][i].at = "enter"
  <2>1. CASE stack' = stack
    <3>1. DOMAIN <<>> = {}
      OBVIOUS
    <3>2. QED
      BY <1>1, <1>2, <2>1, <3>1
  <2>2. ASSUME NEW c \in Comp, stack' = [stack EXCEPT ![t] = <<Call(c)>>], c = Target(t)'
        PROVE  /\ stack' \in [Thread -> Seq(Frame)] /\ \A u \in Thread : u # t => stack'[u] = stack[u]
               /\ \A i \in DOMAIN stack'[t] : CallShape(t, i)' /\ stack'[t][i].at = "enter"
    <3>1. 0 \in Version /\ <<>> \in Seq(Version)
      BY BoundAssumption, EmptySeq DEF Version
    <3>2. PICK h \in Frame :
          /\ h = Call(c)
          /\ h.comp = c
          /\ h.at = "enter"
          /\ h.epoch = 0
          /\ h.input = <<>>
      <4>1. Call(c) \in Frame
        BY <3>1 DEF Call, Frame
      <4>2. QED
        BY <4>1 DEF Call
    <3>3. <<h>> \in Seq(Frame) /\ DOMAIN <<h>> = {1} /\ Len(<<h>>) = 1 /\ <<h>>[1] = h
      OBVIOUS
    <3>4. /\ stack' \in [Thread -> Seq(Frame)] /\ \A u \in Thread : u # t => stack'[u] = stack[u]
          /\ stack'[t] = <<h>>
      BY <1>2, <2>2, <3>2, <3>3
    <3>5. c \in Nat /\ ~(1 > 1) /\ epoch[c] \in Nat
      BY <1>2, HeightAssumption DEF Comp
    <3>6. CallShape(t, 1)'
      <4>1. stack'[t][1] = h /\ Len(stack'[t]) = 1
        BY <3>3, <3>4
      <4>2. c + (1 - 1) = c /\ 0 <= epoch[c]
        BY <3>5
      <4>3. QED
        BY <1>1, <2>2, <3>2, <3>5, <4>1, <4>2 DEF CallShape
    <3>7. QED
      BY <3>2, <3>3, <3>4, <3>6
  <2>3. QED
    BY <2>1, <2>2 DEF Calls
<1>5. WorkTypes'
  BY <1>1, <1>2, <1>3, <1>4 DEF WorkTypes, EditShape
<1>6. CacheShape'
  BY <1>1, <1>2 DEF CacheShape
<1>7. CallsFresh(t)'
  BY <1>4 DEF CallsFresh, Holding
<1>8. WorkOK(t)'
  <2>1. thread'[t].page \in Page /\ slipped' = slipped => thread'[t].page = p
    BY <1>1, <1>3, NobodyAssumption
  <2>2. thread'[t].page \notin Page => NodeFresh(t)'
    <3>1. thread'[t].page \notin Page => thread'[t].pc = "idle"
      BY DEF WorkShape
    <3>2. QED
      BY <3>1 DEF NodeFresh
  <2>3. QED
    BY <1>1, <1>4, <1>7, <2>1, <2>2 DEF WorkOK
<1>9. ASSUME NEW c \in Comp PROVE PageClaim(c, p)'
  <2>1. PageClaim(c, p)
    BY DEF WorkInv, WorkClaims
  <2>2. Doubted(t, c, p) => Doubted(t, c, p)' \/ ~ReadsCurrent(c, p)
    BY DEF Settles
  <2>3. \A u \in Thread : Doubted(u, c, p) => u = t
    BY <1>1 DEF Doubted
  <2>4. QED
    BY <1>1, <2>1, <2>2, <2>3 DEF PageClaim, Stable, Reached, Touched, ReadsCurrent, Fresh
<1>10. hint' \in [Comp -> Hinted] /\ HintShape' /\ \A d \in Comp : HintClaim(d)'
  BY <1>1, HintsStay
<1>11. OwnStep(t, p)
  BY <1>1, <1>3, <1>4 DEF OwnStep
<1>12. QED
  BY <1>5, <1>6, <1>8, <1>9, <1>10, <1>11, OwnStepKeeps

Elsewhere(t) == \A u \in Thread : u # t => thread'[u] = thread[u]

\* The claims of the others stay, and who holds none can go on.
LEMMA ClaimsStay ==
    ASSUME WorkInv, NEW t \in Thread, thread[t].pc \notin {"rendering", "erase"},
           inflight' = inflight, Elsewhere(t)
    PROVE  inflight' \in [Comp -> [Page -> Claim]] /\ OwnClaims'
<1>1. OwnClaims /\ inflight \in [Comp -> [Page -> Claim]]
  BY DEF WorkInv, WorkTypes
<1>2. ASSUME NEW c \in Comp, NEW p \in Page, NEW u \in Thread, inflight[c][p].owner = u
      PROVE  thread'[u].page = p /\ thread'[u].comp = c /\ thread'[u].pc \in {"rendering", "erase"}
  <2>1. thread[u].page = p /\ thread[u].comp = c /\ thread[u].pc \in {"rendering", "erase"}
    BY <1>1, <1>2 DEF OwnClaims
  <2>2. QED
    BY <2>1 DEF Elsewhere
<1>3. OwnClaims'
  BY <1>2 DEF OwnClaims
<1>4. QED
  BY <1>1, <1>3

\* What there is to say of any such step.
LEMMA WorkerGoesOn ==
    ASSUME WorkInv, NEW t \in Thread, NEW old, old = thread[t], old.pc # "idle", stack[t] = <<>>,
           NEW p, p = old.page,
           NEW next \in WorkState, thread' = [thread EXCEPT ![t] = next], next.page \in {p, Nobody},
           UNCHANGED <<editing, epoch, cache, hint, slipped>>
    PROVE  /\ Moves(t, p, next) /\ p \in Page /\ thread'[t] = next /\ Elsewhere(t)
           /\ UNCHANGED <<model, edit, late, epoch, cache, slipped>>
           /\ p \notin slipped => NodeFresh(t)
<1>1. /\ p \in Page /\ thread \in [Thread -> WorkState]
      /\ \A u \in Thread : u # t => thread[u].page # p
  BY AtWork DEF WorkInv, WorkTypes
<1>2. thread'[t] = next /\ Elsewhere(t)
  BY <1>1 DEF Elsewhere
<1>3. Moves(t, p, next)
  BY <1>1 DEF Moves
<1>4. p \notin slipped => NodeFresh(t)
  BY DEF WorkInv, WorkClaims, WorkOK
<1>5. QED
  BY <1>1, <1>2, <1>3, <1>4 DEF editing

\* The shape of a worker that goes on as next.
ShapeOf(next) ==
    /\ next.pc # "idle" /\ next.page \in Page /\ next.node \in Comp
    /\ next.pc \in Asking => /\ next.node > 1 /\ next.comp = next.node - 1
                             /\ next.bound = <<>> /\ next.epoch <= epoch[next.comp]
    /\ next.pc \in Binding /\ next.node > 1 => next.bound # <<>>
    /\ next.pc \in Having \/ (next.pc = "freeze" /\ next.node > 1) => next.got # <<>>
    /\ \A c \in Comp : next.observed[c] <= epoch[c]

LEMMA NextShape ==
    ASSUME NEW t, NEW next, thread'[t] = next, epoch' = epoch, ShapeOf(next),
           stack'[t] # <<>> => next.pc \in {"rendering", "freezing", "refreezing"}
    PROVE  WorkShape(t)'
BY DEF WorkShape, ShapeOf

\* What is worked on, at a step outside the calls.
LEMMA AtStep ==
    ASSUME WorkInv, NEW t \in Thread, NEW old, old = thread[t], old.pc # "idle"
    PROVE  /\ old \in WorkState /\ WorkShape(t) /\ old.page \in Page /\ old.page # Nobody
           /\ old.node \in Comp /\ old.node \in Nat \ {0} /\ old.node <= Height /\ Height \in Nat
           /\ old.node > 1 => old.node - 1 \in Comp /\ old.node - 1 \in Nat \ {0}
           /\ \A d \in Comp : epoch[d] \in Nat \ {0} /\ old.observed[d] \in Nat /\ old.observed[d] <= epoch[d]
           /\ old.pc \in Asking => /\ old.node > 1 /\ old.comp = old.node - 1
                                   /\ old.bound = <<>> /\ old.epoch <= epoch[old.comp]
           /\ old.pc \in Binding /\ old.node > 1 => old.bound # <<>>
           /\ old.pc \in Having \/ (old.pc = "freeze" /\ old.node > 1) => old.got # <<>>
           /\ t \notin Puller
<1>1. /\ old \in WorkState /\ WorkShape(t) /\ old.page \in Page /\ old.page # Nobody
      /\ old.node \in Comp /\ old.node \in Nat \ {0} /\ old.node <= Height /\ Height \in Nat
      /\ old.node > 1 => old.node - 1 \in Comp
      /\ \A d \in Comp : epoch[d] \in Nat \ {0} /\ old.observed[d] \in Nat /\ old.observed[d] <= epoch[d]
  BY AtWork
<1>2. old.node > 1 => old.node - 1 \in Nat \ {0}
  BY <1>1
<1>3. t \notin Puller
  BY DEF WorkInv, WorkersOnly
<1>4. /\ old.pc \in Asking => /\ old.node > 1 /\ old.comp = old.node - 1
                              /\ old.bound = <<>> /\ old.epoch <= epoch[old.comp]
      /\ old.pc \in Binding /\ old.node > 1 => old.bound # <<>>
      /\ old.pc \in Having \/ (old.pc = "freeze" /\ old.node > 1) => old.got # <<>>
  BY <1>1 DEF WorkShape
<1>5. QED
  BY <1>1, <1>2, <1>3, <1>4

LEMMA RequestFastWorks ==
    ASSUME WorkInv, NEW t \in Thread, RequestFast(t)
    PROVE  WorkInv'
<1>1. PICK old, p, page, found : /\ old = thread[t] /\ p = old.page /\ page = cache[old.comp][p]
                                 /\ found = Current(page, old.epoch)
  OBVIOUS
<1>2. /\ old.pc = "fast" /\ stack[t] = <<>>
      /\ thread' = IF found THEN [thread EXCEPT ![t].pc = AfterRequest(t), ![t].got = page.shows]
                            ELSE [thread EXCEPT ![t].pc = "claim"]
      /\ UNCHANGED <<editing, epoch, cache, hint, inflight, stack, slipped>>
  BY <1>1 DEF RequestFast, At, caching
<1>3. /\ old \in WorkState /\ WorkShape(t) /\ p \in Page /\ old.node \in Comp /\ old.node - 1 \in Comp
      /\ old.node > 1 /\ old.comp = old.node - 1 /\ old.bound = <<>> /\ old.epoch <= epoch[old.comp]
      /\ t \notin Puller /\ \A d \in Comp : old.observed[d] <= epoch[d]
  BY <1>1, <1>2, AtStep DEF Asking
<1>4. /\ page \in Cached /\ CacheShape
  BY <1>1, <1>3 DEF WorkInv, WorkTypes
<1>5. page.shows \in Audio /\ (found => page.shows # <<>>)
  BY <1>1, <1>3, <1>4 DEF Cached, Audio, CacheShape, Current
<1>6. PICK next \in WorkState :
          /\ thread' = [thread EXCEPT ![t] = next]
          /\ found => next.pc = "bind" /\ next.got = page.shows
          /\ ~found => next.pc = "claim"
          /\ next.page = p /\ next.node = old.node /\ next.comp = old.comp /\ next.epoch = old.epoch
          /\ next.bound = <<>> /\ next.observed = old.observed
  <2>1. CASE found
    <3> DEFINE n == [old EXCEPT !.pc = "bind", !.got = page.shows]
    <3>1. n \in WorkState
      BY <1>3, <1>5 DEF WorkState, WorkPc, Asking
    <3>2. /\ n.pc = "bind" /\ n.got = page.shows /\ n.page = p /\ n.node = old.node
          /\ n.comp = old.comp /\ n.epoch = old.epoch /\ n.bound = <<>> /\ n.observed = old.observed
      BY <1>1, <1>3 DEF WorkState
    <3>3. thread' = [thread EXCEPT ![t] = n]
      BY <1>1, <1>2, <1>3, <2>1 DEF AfterRequest
    <3> HIDE DEF n
    <3>4. QED
      BY <2>1, <3>1, <3>2, <3>3
  <2>2. CASE ~found
    <3> DEFINE n == [old EXCEPT !.pc = "claim"]
    <3>1. n \in WorkState
      BY <1>3 DEF WorkState, WorkPc, Asking
    <3>2. /\ n.pc = "claim" /\ n.page = p /\ n.node = old.node
          /\ n.comp = old.comp /\ n.epoch = old.epoch /\ n.bound = <<>> /\ n.observed = old.observed
      BY <1>1, <1>3 DEF WorkState
    <3>3. thread' = [thread EXCEPT ![t] = n]
      BY <1>1, <1>2, <2>2
    <3> HIDE DEF n
    <3>4. QED
      BY <2>2, <3>1, <3>2, <3>3
  <2>3. QED
    BY <1>1, <2>1, <2>2
<1>7. /\ Moves(t, p, next) /\ thread'[t] = next /\ Elsewhere(t)
      /\ UNCHANGED <<model, edit, late, epoch, cache, slipped>> /\ (p \notin slipped => NodeFresh(t))
  <2>1. /\ old = thread[t] /\ old.pc # "idle" /\ stack[t] = <<>> /\ p = old.page
        /\ thread' = [thread EXCEPT ![t] = next] /\ next.page \in {p, Nobody}
        /\ UNCHANGED <<editing, epoch, cache, hint, slipped>>
    BY <1>1, <1>2, <1>6
  <2>2. QED
    BY <2>1, WorkerGoesOn
<1>8. next.pc \in {"bind", "claim"} /\ (next.pc = "bind" => found)
  BY <1>1, <1>6
<1>9. ShapeOf(next)
  BY <1>3, <1>5, <1>6, <1>8 DEF ShapeOf, Binding, Having
<1>10. ASSUME p \notin slipped PROVE NodeFresh(t)'
  <2>1. ASSUME found, NodeStable(t)' PROVE Supplies(t, thread[t].got)'
    <3>1. NodeStable(t)
      BY <1>1, <1>6, <1>7, <2>1 DEF NodeStable, Stable, Reached, Touched
    <3>2. Serving(t)
      BY <1>1, <1>2, <1>7, <1>10, <3>1 DEF NodeFresh
    <3>3. page.shows = Fresh(old.node - 1, p)
      BY <1>1, <1>3, <2>1, <3>2 DEF Serving, Supplies
    <3>4. thread'[t].got = page.shows /\ thread'[t].node = old.node /\ thread'[t].page = p
      BY <1>6, <1>7, <2>1
    <3>5. QED
      BY <1>7, <3>3, <3>4 DEF Supplies, Fresh
  <2>2. QED
    BY <1>7, <1>8, <2>1 DEF NodeFresh
<1>11. Settles(t, p)
  BY <1>6, <1>7, <1>8, <1>1 DEF Settles, Doubted, InDoubt, Asking
<1>12. inflight' \in [Comp -> [Page -> Claim]] /\ OwnClaims'
  BY <1>1, <1>2, <1>7, ClaimsStay
<1>13. WorkShape(t)' /\ Calls(t)
  BY <1>2, <1>7, <1>9, NextShape DEF Calls
<1>14. QED
  BY <1>3, <1>7, <1>10, <1>11, <1>12, <1>13, NodeMoves

\* Nobody attaches: the claim of a page is its worker's.
LEMMA NobodyAttaches ==
    ASSUME WorkInv, NEW t \in Thread, RequestAttach(t)
    PROVE  FALSE
<1>1. PICK old, p, entry : old = thread[t] /\ p = old.page /\ entry = inflight[old.comp][p]
  OBVIOUS
<1>2. old.pc = "claim" /\ Attachable(entry, old.epoch)
  BY <1>1 DEF RequestAttach, At
<1>3. /\ p \in Page /\ old.comp \in Comp /\ p # Nobody
  BY <1>1, <1>2, AtStep DEF Asking
<1>4. entry \in Claim /\ OwnClaims /\ OnePage
  BY <1>1, <1>3 DEF WorkInv, WorkTypes
<1>5. PICK u \in Thread : entry.owner = u
  BY <1>2, <1>4 DEF Attachable, Claim
<1>6. thread[u].page = p /\ thread[u].pc \in {"rendering", "erase"}
  BY <1>1, <1>3, <1>4, <1>5 DEF OwnClaims
<1>7. u = t
  BY <1>1, <1>3, <1>4, <1>6 DEF OnePage
<1>8. QED
  BY <1>1, <1>2, <1>6, <1>7

\* The epoch of a component, observed.
LEMMA Observes ==
    ASSUME NEW old \in WorkState, NEW c \in Comp, \A d \in Comp : old.observed[d] <= epoch[d] /\ epoch[d] \in Nat,
           NEW quiet, quiet = [old.quiet EXCEPT ![c] = (edit = NoEdit)],
           NEW observed, observed = [old.observed EXCEPT ![c] = epoch[c]]
    PROVE  observed \in Epochs /\ quiet \in Quiet /\ \A d \in Comp : observed[d] <= epoch[d]
<1>1. old.observed \in [Comp -> Nat] /\ old.quiet \in [Comp -> BOOLEAN]
  BY DEF WorkState, Epochs, Quiet
<1>2. quiet \in Quiet
  BY <1>1, ZenonT(30) DEF Quiet
<1>3. epoch[c] \in Nat /\ epoch[c] <= epoch[c]
  OBVIOUS
<1>4. observed \in Epochs /\ \A d \in Comp : observed[d] <= epoch[d]
  BY <1>1, <1>3 DEF Epochs
<1>5. QED
  BY <1>2, <1>4

\* A node binds the result of the one below.
LEMMA NodeFreezeWorks ==
    ASSUME WorkInv, NEW t \in Thread, NodeFreeze(t)
    PROVE  WorkInv'
<1>1. PICK old, p : old = thread[t] /\ p = old.page
  OBVIOUS
<1>2. /\ old.pc = "freeze" /\ stack[t] = <<>> /\ stack' = [stack EXCEPT ![t] = <<Call(old.node)>>]
      /\ thread' = [thread EXCEPT ![t] = [old EXCEPT !.pc = "freezing", !.bound = old.got]]
      /\ UNCHANGED <<editing, epoch, cache, hint, inflight, slipped>>
  BY <1>1 DEF NodeFreeze, At, Goto, caching
<1>3. /\ old \in WorkState /\ p \in Page /\ old.node \in Comp /\ old.node \in Nat \ {0}
      /\ \A d \in Comp : old.observed[d] <= epoch[d] /\ epoch[d] \in Nat
      /\ old.node > 1 => old.got # <<>>
  BY <1>1, <1>2, AtStep DEF Asking, Binding, Having
<1>4. PICK next \in WorkState :
          /\ thread' = [thread EXCEPT ![t] = next]
          /\ next.pc = "freezing" /\ next.page = p /\ next.node = old.node
          /\ next.comp = old.comp /\ next.epoch = old.epoch /\ next.bound = old.got
          /\ next.got = old.got /\ next.observed = old.observed
  <2> DEFINE n == [old EXCEPT !.pc = "freezing", !.bound = old.got]
  <2>1. n \in WorkState
    BY <1>2, <1>3 DEF WorkState, WorkPc, Asking, Binding, Having
  <2>2. /\ n.pc = "freezing" /\ n.page = p /\ n.node = old.node
        /\ n.comp = old.comp /\ n.epoch = old.epoch /\ n.bound = old.got
        /\ n.got = old.got /\ n.observed = old.observed
    BY <1>1, <1>3 DEF WorkState
  <2>3. thread' = [thread EXCEPT ![t] = n]
    BY <1>2
  <2> HIDE DEF n
  <2>4. QED
    BY <2>1, <2>2, <2>3
<1>5. /\ Moves(t, p, next) /\ thread'[t] = next /\ Elsewhere(t)
      /\ UNCHANGED <<model, edit, late, epoch, cache, slipped>> /\ (p \notin slipped => NodeFresh(t))
  <2>1. /\ old = thread[t] /\ old.pc # "idle" /\ stack[t] = <<>> /\ p = old.page
        /\ thread' = [thread EXCEPT ![t] = next] /\ next.page \in {p, Nobody}
        /\ UNCHANGED <<editing, epoch, cache, hint, slipped>>
    BY <1>1, <1>2, <1>4
  <2>2. QED
    BY <2>1, WorkerGoesOn
<1>6. ShapeOf(next)
  BY <1>3, <1>4 DEF ShapeOf, Asking, Binding, Having
<1>7. WorkShape(t)'
  BY <1>2, <1>4, <1>5, <1>6, NextShape
<1>8. ASSUME p \notin slipped PROVE NodeFresh(t)'
  <2>1. ASSUME InputKept(t)', InputStable(t)' PROVE Supplies(t, thread[t].bound)'
    <3>1. InputKept(t) /\ InputStable(t)
      BY <1>1, <1>4, <1>5, <2>1 DEF InputKept, InputStable, Stable, Reached, Touched
    <3>2. Supplies(t, old.got)
      BY <1>1, <1>2, <1>5, <1>8, <3>1 DEF NodeFresh
    <3>3. /\ thread'[t].bound = old.got /\ thread'[t].node = old.node /\ thread'[t].page = p
          /\ thread[t].node = old.node /\ thread[t].page = p
      BY <1>1, <1>4, <1>5
    <3>4. QED
      BY <1>5, <3>2, <3>3 DEF Supplies, Fresh
  <2>2. QED
    BY <1>4, <1>5, <2>1 DEF NodeFresh
<1>9. Settles(t, p)
  BY <1>1, <1>2, <1>4, <1>5 DEF Settles, Doubted, InDoubt, Asking
<1>10. inflight' \in [Comp -> [Page -> Claim]] /\ OwnClaims'
  BY <1>1, <1>2, <1>5, ClaimsStay
<1>11. QED
  BY <1>2, <1>3, <1>4, <1>5, <1>7, <1>8, <1>9, <1>10, NodeMoves DEF Calls, Target

LEMMA RetryBindWorks ==
    ASSUME WorkInv, NEW t \in Thread, RetryBind(t)
    PROVE  WorkInv'
<1>1. PICK old, p : old = thread[t] /\ p = old.page
  OBVIOUS
<1>2. /\ old.pc = "bind" /\ stack[t] = <<>> /\ stack' = stack
      /\ thread' = [thread EXCEPT ![t] = [old EXCEPT !.pc = "check", !.bound = old.got]]
      /\ UNCHANGED <<editing, epoch, cache, hint, inflight, slipped>>
  BY <1>1 DEF RetryBind, At, Goto, caching
<1>3. /\ old \in WorkState /\ p \in Page /\ old.node \in Comp /\ old.node \in Nat \ {0}
      /\ \A d \in Comp : old.observed[d] <= epoch[d] /\ epoch[d] \in Nat
      /\ old.got # <<>>
  BY <1>1, <1>2, AtStep DEF Asking, Binding, Having
<1>4. PICK next \in WorkState :
          /\ thread' = [thread EXCEPT ![t] = next]
          /\ next.pc = "check" /\ next.page = p /\ next.node = old.node
          /\ next.comp = old.comp /\ next.epoch = old.epoch /\ next.bound = old.got
          /\ next.got = old.got /\ next.observed = old.observed
  <2> DEFINE n == [old EXCEPT !.pc = "check", !.bound = old.got]
  <2>1. n \in WorkState
    BY <1>2, <1>3 DEF WorkState, WorkPc, Asking, Binding, Having
  <2>2. /\ n.pc = "check" /\ n.page = p /\ n.node = old.node
        /\ n.comp = old.comp /\ n.epoch = old.epoch /\ n.bound = old.got
        /\ n.got = old.got /\ n.observed = old.observed
    BY <1>1, <1>3 DEF WorkState
  <2>3. thread' = [thread EXCEPT ![t] = n]
    BY <1>2
  <2> HIDE DEF n
  <2>4. QED
    BY <2>1, <2>2, <2>3
<1>5. /\ Moves(t, p, next) /\ thread'[t] = next /\ Elsewhere(t)
      /\ UNCHANGED <<model, edit, late, epoch, cache, slipped>> /\ (p \notin slipped => NodeFresh(t))
  <2>1. /\ old = thread[t] /\ old.pc # "idle" /\ stack[t] = <<>> /\ p = old.page
        /\ thread' = [thread EXCEPT ![t] = next] /\ next.page \in {p, Nobody}
        /\ UNCHANGED <<editing, epoch, cache, hint, slipped>>
    BY <1>1, <1>2, <1>4
  <2>2. QED
    BY <2>1, WorkerGoesOn
<1>6. ShapeOf(next)
  BY <1>3, <1>4 DEF ShapeOf, Asking, Binding, Having
<1>7. WorkShape(t)'
  BY <1>2, <1>4, <1>5, <1>6, NextShape
<1>8. ASSUME p \notin slipped PROVE NodeFresh(t)'
  <2>1. ASSUME NodeStable(t)' PROVE Supplies(t, thread[t].bound)'
    <3>1. NodeStable(t)
      BY <1>1, <1>4, <1>5, <2>1 DEF NodeStable, Stable, Reached, Touched
    <3>2. Supplies(t, old.got)
      BY <1>1, <1>2, <1>5, <1>8, <3>1 DEF NodeFresh
    <3>3. /\ thread'[t].bound = old.got /\ thread'[t].node = old.node /\ thread'[t].page = p
          /\ thread[t].node = old.node /\ thread[t].page = p
      BY <1>1, <1>4, <1>5
    <3>4. QED
      BY <1>5, <3>2, <3>3 DEF Supplies, Fresh
  <2>2. QED
    BY <1>4, <1>5, <2>1 DEF NodeFresh
<1>9. Settles(t, p)
  BY <1>1, <1>2, <1>4, <1>5 DEF Settles, Doubted, InDoubt, Asking
<1>10. inflight' \in [Comp -> [Page -> Claim]] /\ OwnClaims'
  BY <1>1, <1>2, <1>5, ClaimsStay
<1>11. QED
  BY <1>2, <1>3, <1>4, <1>5, <1>7, <1>8, <1>9, <1>10, NodeMoves DEF Calls

\* What is not there is not dropped, and does not read current either.
LEMMA RetryCheckWorks ==
    ASSUME WorkInv, NEW t \in Thread, RetryCheck(t)
    PROVE  WorkInv'
<1>1. PICK old, p, valid, pc :
      /\ old = thread[t]
      /\ p = old.page
      /\ valid = cache[old.node][p].valid
      /\ pc = (IF valid THEN "drop" ELSE "observe")
  OBVIOUS
<1>2. /\ old.pc = "check" /\ stack[t] = <<>> /\ stack' = stack
      /\ thread' = [thread EXCEPT ![t] = [old EXCEPT !.pc = pc]]
      /\ UNCHANGED <<editing, epoch, cache, hint, inflight, slipped>>
      /\ pc \in {"drop", "observe"} /\ (valid => pc = "drop")
  BY <1>1 DEF RetryCheck, At, Goto, caching
<1>3. /\ old \in WorkState /\ p \in Page /\ old.node \in Comp /\ old.node \in Nat \ {0}
      /\ \A d \in Comp : old.observed[d] <= epoch[d] /\ epoch[d] \in Nat
      /\ old.node > 1 => old.bound # <<>>
  BY <1>1, <1>2, AtStep DEF Asking, Binding, Having
<1>4. PICK next \in WorkState :
          /\ thread' = [thread EXCEPT ![t] = next]
          /\ next.pc = pc /\ next.page = p /\ next.node = old.node
          /\ next.comp = old.comp /\ next.epoch = old.epoch /\ next.bound = old.bound
          /\ next.got = old.got /\ next.observed = old.observed
  <2> DEFINE n == [old EXCEPT !.pc = pc]
  <2>1. n \in WorkState
    BY <1>2, <1>3 DEF WorkState, WorkPc, Asking, Binding, Having
  <2>2. /\ n.pc = pc /\ n.page = p /\ n.node = old.node
        /\ n.comp = old.comp /\ n.epoch = old.epoch /\ n.bound = old.bound
        /\ n.got = old.got /\ n.observed = old.observed
    BY <1>1, <1>3 DEF WorkState
  <2>3. thread' = [thread EXCEPT ![t] = n]
    BY <1>2
  <2> HIDE DEF n
  <2>4. QED
    BY <2>1, <2>2, <2>3
<1>5. /\ Moves(t, p, next) /\ thread'[t] = next /\ Elsewhere(t)
      /\ UNCHANGED <<model, edit, late, epoch, cache, slipped>> /\ (p \notin slipped => NodeFresh(t))
  <2>1. /\ old = thread[t] /\ old.pc # "idle" /\ stack[t] = <<>> /\ p = old.page
        /\ thread' = [thread EXCEPT ![t] = next] /\ next.page \in {p, Nobody}
        /\ UNCHANGED <<editing, epoch, cache, hint, slipped>>
    BY <1>1, <1>2, <1>4
  <2>2. QED
    BY <2>1, WorkerGoesOn
<1>6. ShapeOf(next)
  BY <1>2, <1>3, <1>4 DEF ShapeOf, Asking, Binding, Having
<1>7. WorkShape(t)'
  BY <1>2, <1>4, <1>5, <1>6, NextShape
<1>8. ASSUME p \notin slipped PROVE NodeFresh(t)'
  <2>1. ASSUME NodeStable(t)' PROVE Supplies(t, thread[t].bound)'
    <3>1. NodeStable(t)
      BY <1>1, <1>4, <1>5, <2>1 DEF NodeStable, Stable, Reached, Touched
    <3>2. Supplies(t, old.bound)
      BY <1>1, <1>2, <1>5, <1>8, <3>1 DEF NodeFresh
    <3>3. /\ thread'[t].bound = old.bound /\ thread'[t].node = old.node /\ thread'[t].page = p
          /\ thread[t].node = old.node /\ thread[t].page = p
      BY <1>1, <1>4, <1>5
    <3>4. QED
      BY <1>5, <3>2, <3>3 DEF Supplies, Fresh
  <2>2. QED
    BY <1>2, <1>4, <1>5, <2>1 DEF NodeFresh
<1>9. Settles(t, p)
  <2>1. CASE valid
    BY <1>1, <1>2, <1>4, <1>5, <2>1 DEF Settles, Doubted, InDoubt, Asking
  <2>2. CASE ~valid
    BY <1>1, <2>2 DEF Settles, Doubted, ReadsCurrent
  <2>3. QED
    BY <1>1, <2>1, <2>2
<1>10. inflight' \in [Comp -> [Page -> Claim]] /\ OwnClaims'
  BY <1>1, <1>2, <1>5, ClaimsStay
<1>11. QED
  BY <1>2, <1>3, <1>4, <1>5, <1>7, <1>8, <1>9, <1>10, NodeMoves DEF Calls

\* The retry observes its own epoch again: what reaches it from now on is noticed.
LEMMA RetryFreezeWorks ==
    ASSUME WorkInv, NEW t \in Thread, RetryFreeze(t)
    PROVE  WorkInv'
<1>1. PICK old, p, quiet, observed :
      /\ old = thread[t]
      /\ p = old.page
      /\ quiet = [old.quiet EXCEPT ![old.node] = (edit = NoEdit)]
      /\ observed = [old.observed EXCEPT ![old.node] = epoch[old.node]]
  OBVIOUS
<1>2. /\ old.pc = "observe" /\ stack[t] = <<>> /\ stack' = [stack EXCEPT ![t] = <<Call(old.node)>>]
      /\ thread' = [thread EXCEPT ![t] = [old EXCEPT !.observed = observed, !.pc = "refreezing", !.quiet = quiet]]
      /\ UNCHANGED <<editing, epoch, cache, hint, inflight, slipped>>
  BY <1>1 DEF RetryFreeze, At, Goto, caching
<1>3. /\ old \in WorkState /\ p \in Page /\ old.node \in Comp /\ old.node \in Nat \ {0}
      /\ \A d \in Comp : old.observed[d] <= epoch[d] /\ epoch[d] \in Nat
      /\ old.node > 1 => old.bound # <<>>
      /\ observed \in Epochs /\ quiet \in Quiet /\ \A d \in Comp : observed[d] <= epoch[d]
  <2>1. /\ old \in WorkState /\ p \in Page /\ old.node \in Comp /\ old.node \in Nat \ {0}
        /\ \A d \in Comp : old.observed[d] <= epoch[d] /\ epoch[d] \in Nat
        /\ old.node > 1 => old.bound # <<>>
    BY <1>1, <1>2, AtStep DEF Binding
  <2>2. observed \in Epochs /\ quiet \in Quiet /\ \A d \in Comp : observed[d] <= epoch[d]
    BY <1>1, <2>1, Observes
  <2>3. QED
    BY <2>1, <2>2
<1>4. PICK next \in WorkState :
          /\ thread' = [thread EXCEPT ![t] = next]
          /\ next.pc = "refreezing" /\ next.page = p /\ next.node = old.node
          /\ next.comp = old.comp /\ next.epoch = old.epoch /\ next.bound = old.bound
          /\ next.got = old.got /\ next.observed = observed
  <2> DEFINE n == [old EXCEPT !.observed = observed, !.pc = "refreezing", !.quiet = quiet]
  <2>1. n \in WorkState
    BY <1>2, <1>3 DEF WorkState, WorkPc, Asking, Binding, Having
  <2>2. /\ n.pc = "refreezing" /\ n.page = p /\ n.node = old.node
        /\ n.comp = old.comp /\ n.epoch = old.epoch /\ n.bound = old.bound
        /\ n.got = old.got /\ n.observed = observed
    BY <1>1, <1>3 DEF WorkState
  <2>3. thread' = [thread EXCEPT ![t] = n]
    BY <1>2
  <2> HIDE DEF n
  <2>4. QED
    BY <2>1, <2>2, <2>3
<1>5. /\ Moves(t, p, next) /\ thread'[t] = next /\ Elsewhere(t)
      /\ UNCHANGED <<model, edit, late, epoch, cache, slipped>> /\ (p \notin slipped => NodeFresh(t))
  <2>1. /\ old = thread[t] /\ old.pc # "idle" /\ stack[t] = <<>> /\ p = old.page
        /\ thread' = [thread EXCEPT ![t] = next] /\ next.page \in {p, Nobody}
        /\ UNCHANGED <<editing, epoch, cache, hint, slipped>>
    BY <1>1, <1>2, <1>4
  <2>2. QED
    BY <2>1, WorkerGoesOn
<1>6. ShapeOf(next)
  BY <1>3, <1>4 DEF ShapeOf, Asking, Binding, Having
<1>7. WorkShape(t)'
  BY <1>2, <1>4, <1>5, <1>6, NextShape
<1>8. ASSUME p \notin slipped PROVE NodeFresh(t)'
  <2>1. ASSUME NodeStable(t)' PROVE Supplies(t, thread[t].bound)'
    <3>1. NodeStable(t)
      BY <1>1, <1>4, <1>5, <2>1 DEF NodeStable, Stable, Reached, Touched
    <3>2. Supplies(t, old.bound)
      BY <1>1, <1>2, <1>5, <1>8, <3>1 DEF NodeFresh
    <3>3. /\ thread'[t].bound = old.bound /\ thread'[t].node = old.node /\ thread'[t].page = p
          /\ thread[t].node = old.node /\ thread[t].page = p
      BY <1>1, <1>4, <1>5
    <3>4. QED
      BY <1>5, <3>2, <3>3 DEF Supplies, Fresh
  <2>2. QED
    BY <1>4, <1>5, <2>1 DEF NodeFresh
<1>9. Settles(t, p)
  BY <1>1, <1>2, <1>4, <1>5 DEF Settles, Doubted, InDoubt, Asking
<1>10. inflight' \in [Comp -> [Page -> Claim]] /\ OwnClaims'
  BY <1>1, <1>2, <1>5, ClaimsStay
<1>11. QED
  BY <1>2, <1>3, <1>4, <1>5, <1>7, <1>8, <1>9, <1>10, NodeMoves DEF Calls, Target

LEMMA SelfTestWorks ==
    ASSUME WorkInv, NEW t \in Thread, SelfTest(t)
    PROVE  WorkInv'
<1>1. PICK old, p, moved, pc :
      /\ old = thread[t]
      /\ p = old.page
      /\ moved = (old.observed[old.node] < epoch[old.node])
      /\ pc = (IF moved THEN "probe" ELSE "complete")
  OBVIOUS
<1>2. /\ old.pc = "self" /\ stack[t] = <<>> /\ stack' = stack
      /\ thread' = [thread EXCEPT ![t] = [old EXCEPT !.pc = pc]]
      /\ UNCHANGED <<editing, epoch, cache, hint, inflight, slipped>>
      /\ pc \in {"probe", "complete"} /\ (moved => pc = "probe")
  BY <1>1 DEF SelfTest, At, Goto, caching
<1>3. /\ old \in WorkState /\ p \in Page /\ old.node \in Comp /\ old.node \in Nat \ {0}
      /\ \A d \in Comp : old.observed[d] <= epoch[d] /\ epoch[d] \in Nat
      /\ old.got # <<>> /\ old.observed[old.node] \in Nat
  BY <1>1, <1>2, AtStep DEF Asking, Binding, Having
<1>4. PICK next \in WorkState :
          /\ thread' = [thread EXCEPT ![t] = next]
          /\ next.pc = pc /\ next.page = p /\ next.node = old.node
          /\ next.comp = old.comp /\ next.epoch = old.epoch /\ next.bound = old.bound
          /\ next.got = old.got /\ next.observed = old.observed
  <2> DEFINE n == [old EXCEPT !.pc = pc]
  <2>1. n \in WorkState
    BY <1>2, <1>3 DEF WorkState, WorkPc, Asking, Binding, Having
  <2>2. /\ n.pc = pc /\ n.page = p /\ n.node = old.node
        /\ n.comp = old.comp /\ n.epoch = old.epoch /\ n.bound = old.bound
        /\ n.got = old.got /\ n.observed = old.observed
    BY <1>1, <1>3 DEF WorkState
  <2>3. thread' = [thread EXCEPT ![t] = n]
    BY <1>2
  <2> HIDE DEF n
  <2>4. QED
    BY <2>1, <2>2, <2>3
<1>5. /\ Moves(t, p, next) /\ thread'[t] = next /\ Elsewhere(t)
      /\ UNCHANGED <<model, edit, late, epoch, cache, slipped>> /\ (p \notin slipped => NodeFresh(t))
  <2>1. /\ old = thread[t] /\ old.pc # "idle" /\ stack[t] = <<>> /\ p = old.page
        /\ thread' = [thread EXCEPT ![t] = next] /\ next.page \in {p, Nobody}
        /\ UNCHANGED <<editing, epoch, cache, hint, slipped>>
    BY <1>1, <1>2, <1>4
  <2>2. QED
    BY <2>1, WorkerGoesOn
<1>6. ShapeOf(next)
  BY <1>2, <1>3, <1>4 DEF ShapeOf, Asking, Binding, Having
<1>7. WorkShape(t)'
  BY <1>2, <1>4, <1>5, <1>6, NextShape
<1>8. ASSUME p \notin slipped PROVE NodeFresh(t)'
  <2>1. ASSUME SelfKept(t)', NodeStable(t)' PROVE Publishes(t, thread[t].got)'
    <3>1. SelfKept(t) /\ NodeStable(t)
      BY <1>1, <1>4, <1>5, <2>1 DEF SelfKept, NodeStable, Stable, Reached, Touched
    <3>2. Publishes(t, old.got)
      BY <1>1, <1>2, <1>5, <1>8, <3>1 DEF NodeFresh
    <3>3. QED
      BY <1>1, <1>4, <1>5, <3>2, ZenonT(60) DEF Publishes, Fresh
  <2>2. QED
    BY <1>2, <1>4, <1>5, <2>1 DEF NodeFresh
<1>9. Settles(t, p)
  <2>1. CASE moved
    BY <1>1, <1>2, <1>4, <1>5, <2>1 DEF Settles, Doubted, InDoubt
  <2>2. CASE ~moved
    <3>0. /\ old.observed[old.node] \in Nat /\ epoch[old.node] \in Nat
          /\ old.observed[old.node] <= epoch[old.node] /\ ~(old.observed[old.node] < epoch[old.node])
      BY <1>1, <1>3, <2>2
    <3>1. old.observed[old.node] = epoch[old.node]
      BY <3>0
    <3>2. ~InDoubt(t)
      BY <1>1, <1>2, <3>1 DEF InDoubt, SelfKept, Asking
    <3>3. QED
      BY <3>2 DEF Settles, Doubted
  <2>3. QED
    BY <1>1, <2>1, <2>2
<1>10. inflight' \in [Comp -> [Page -> Claim]] /\ OwnClaims'
  BY <1>1, <1>2, <1>5, ClaimsStay
<1>11. QED
  BY <1>2, <1>3, <1>4, <1>5, <1>7, <1>8, <1>9, <1>10, NodeMoves DEF Calls

\* A page left as it is does not read current.
LEMMA SelfProbeWorks ==
    ASSUME WorkInv, NEW t \in Thread, SelfProbe(t)
    PROVE  WorkInv'
<1>1. PICK old, p, current, pc :
      /\ old = thread[t]
      /\ p = old.page
      /\ current = Current(cache[old.node][p], epoch[old.node])
      /\ pc = (IF current THEN "restale" ELSE "complete")
  OBVIOUS
<1>2. /\ old.pc = "probe" /\ stack[t] = <<>> /\ stack' = stack
      /\ thread' = [thread EXCEPT ![t] = [old EXCEPT !.pc = pc]]
      /\ UNCHANGED <<editing, epoch, cache, hint, inflight, slipped>>
      /\ pc \in {"restale", "complete"} /\ (current => pc = "restale")
  BY <1>1 DEF SelfProbe, At, Goto, caching
<1>3. /\ old \in WorkState /\ p \in Page /\ old.node \in Comp /\ old.node \in Nat \ {0}
      /\ \A d \in Comp : old.observed[d] <= epoch[d] /\ epoch[d] \in Nat
      /\ old.got # <<>>
  BY <1>1, <1>2, AtStep DEF Asking, Binding, Having
<1>4. PICK next \in WorkState :
          /\ thread' = [thread EXCEPT ![t] = next]
          /\ next.pc = pc /\ next.page = p /\ next.node = old.node
          /\ next.comp = old.comp /\ next.epoch = old.epoch /\ next.bound = old.bound
          /\ next.got = old.got /\ next.observed = old.observed
  <2> DEFINE n == [old EXCEPT !.pc = pc]
  <2>1. n \in WorkState
    BY <1>2, <1>3 DEF WorkState, WorkPc, Asking, Binding, Having
  <2>2. /\ n.pc = pc /\ n.page = p /\ n.node = old.node
        /\ n.comp = old.comp /\ n.epoch = old.epoch /\ n.bound = old.bound
        /\ n.got = old.got /\ n.observed = old.observed
    BY <1>1, <1>3 DEF WorkState
  <2>3. thread' = [thread EXCEPT ![t] = n]
    BY <1>2
  <2> HIDE DEF n
  <2>4. QED
    BY <2>1, <2>2, <2>3
<1>5. /\ Moves(t, p, next) /\ thread'[t] = next /\ Elsewhere(t)
      /\ UNCHANGED <<model, edit, late, epoch, cache, slipped>> /\ (p \notin slipped => NodeFresh(t))
  <2>1. /\ old = thread[t] /\ old.pc # "idle" /\ stack[t] = <<>> /\ p = old.page
        /\ thread' = [thread EXCEPT ![t] = next] /\ next.page \in {p, Nobody}
        /\ UNCHANGED <<editing, epoch, cache, hint, slipped>>
    BY <1>1, <1>2, <1>4
  <2>2. QED
    BY <2>1, WorkerGoesOn
<1>6. ShapeOf(next)
  BY <1>2, <1>3, <1>4 DEF ShapeOf, Asking, Binding, Having
<1>7. WorkShape(t)'
  BY <1>2, <1>4, <1>5, <1>6, NextShape
<1>8. ASSUME p \notin slipped PROVE NodeFresh(t)'
  <2>1. ASSUME SelfKept(t)', NodeStable(t)' PROVE Publishes(t, thread[t].got)'
    <3>1. SelfKept(t) /\ NodeStable(t)
      BY <1>1, <1>4, <1>5, <2>1 DEF SelfKept, NodeStable, Stable, Reached, Touched
    <3>2. Publishes(t, old.got)
      BY <1>1, <1>2, <1>5, <1>8, <3>1 DEF NodeFresh
    <3>3. QED
      BY <1>1, <1>4, <1>5, <3>2, ZenonT(60) DEF Publishes, Fresh
  <2>2. QED
    BY <1>2, <1>4, <1>5, <2>1 DEF NodeFresh
<1>9. Settles(t, p)
  <2>1. CASE current
    BY <1>1, <1>2, <1>4, <1>5, <2>1 DEF Settles, Doubted, InDoubt
  <2>2. CASE ~current
    <3>0. epoch[old.node] \in Nat /\ ~Current(cache[old.node][p], epoch[old.node])
      BY <1>1, <1>3, <2>2
    <3>1. ~ReadsCurrent(old.node, p)
      BY <3>0 DEF ReadsCurrent, Current
    <3>2. QED
      BY <1>1, <3>1 DEF Settles, Doubted
  <2>3. QED
    BY <1>1, <2>1, <2>2
<1>10. inflight' \in [Comp -> [Page -> Claim]] /\ OwnClaims'
  BY <1>1, <1>2, <1>5, ClaimsStay
<1>11. QED
  BY <1>2, <1>3, <1>4, <1>5, <1>7, <1>8, <1>9, <1>10, NodeMoves DEF Calls

LEMMA RequestClaimWorks ==
    ASSUME WorkInv, NEW t \in Thread, RequestClaim(t)
    PROVE  WorkInv'
<1>1. PICK old, p : old = thread[t] /\ p = old.page
  OBVIOUS
<1>2. /\ old.pc = "claim" /\ stack[t] = <<>> /\ stack' = [stack EXCEPT ![t] = <<Call(old.comp)>>]
      /\ thread' = [thread EXCEPT ![t] = [old EXCEPT !.pc = "rendering"]]
      /\ UNCHANGED <<editing, epoch, cache, hint, slipped>>
      /\ inflight' = [inflight EXCEPT ![old.comp][p] = [epoch |-> old.epoch, owner |-> t]]
  BY <1>1 DEF RequestClaim, At, Goto, caching
<1>3. /\ old \in WorkState /\ p \in Page /\ old.node \in Comp /\ old.node \in Nat \ {0}
      /\ \A d \in Comp : old.observed[d] <= epoch[d] /\ epoch[d] \in Nat
      /\ old.node > 1 /\ old.comp = old.node - 1 /\ old.comp \in Comp
      /\ old.bound = <<>> /\ old.epoch <= epoch[old.comp]
  BY <1>1, <1>2, AtStep DEF Asking, Binding, Having
<1>4. PICK next \in WorkState :
          /\ thread' = [thread EXCEPT ![t] = next]
          /\ next.pc = "rendering" /\ next.page = p /\ next.node = old.node
          /\ next.comp = old.comp /\ next.epoch = old.epoch /\ next.bound = old.bound
          /\ next.got = old.got /\ next.observed = old.observed
  <2> DEFINE n == [old EXCEPT !.pc = "rendering"]
  <2>1. n \in WorkState
    BY <1>2, <1>3 DEF WorkState, WorkPc, Asking, Binding, Having
  <2>2. /\ n.pc = "rendering" /\ n.page = p /\ n.node = old.node
        /\ n.comp = old.comp /\ n.epoch = old.epoch /\ n.bound = old.bound
        /\ n.got = old.got /\ n.observed = old.observed
    BY <1>1, <1>3 DEF WorkState
  <2>3. thread' = [thread EXCEPT ![t] = n]
    BY <1>2
  <2> HIDE DEF n
  <2>4. QED
    BY <2>1, <2>2, <2>3
<1>5. /\ Moves(t, p, next) /\ thread'[t] = next /\ Elsewhere(t)
      /\ UNCHANGED <<model, edit, late, epoch, cache, slipped>> /\ (p \notin slipped => NodeFresh(t))
  <2>1. /\ old = thread[t] /\ old.pc # "idle" /\ stack[t] = <<>> /\ p = old.page
        /\ thread' = [thread EXCEPT ![t] = next] /\ next.page \in {p, Nobody}
        /\ UNCHANGED <<editing, epoch, cache, hint, slipped>>
    BY <1>1, <1>2, <1>4
  <2>2. QED
    BY <2>1, WorkerGoesOn
<1>6. ShapeOf(next)
  BY <1>3, <1>4 DEF ShapeOf, Asking, Binding, Having
<1>7. WorkShape(t)'
  BY <1>2, <1>4, <1>5, <1>6, NextShape
<1>8. ASSUME p \notin slipped PROVE NodeFresh(t)'
  BY <1>4, <1>5 DEF NodeFresh
<1>9. Settles(t, p)
  BY <1>1, <1>2, <1>4, <1>5 DEF Settles, Doubted, InDoubt, Asking
<1>10. inflight' \in [Comp -> [Page -> Claim]] /\ OwnClaims'
  <2>1. PICK claim \in Claim : claim = [epoch |-> old.epoch, owner |-> t] /\ claim.owner = t
    <3>1. old.epoch \in Nat
      BY <1>3 DEF WorkState
    <3>2. /\ [epoch |-> old.epoch, owner |-> t] \in Claim
          /\ [epoch |-> old.epoch, owner |-> t].owner = t
      BY <3>1 DEF Claim
    <3>3. QED
      BY <3>2
  <2>2. /\ OwnClaims /\ inflight \in [Comp -> [Page -> Claim]]
        /\ inflight' = [inflight EXCEPT ![old.comp][p] = claim]
    BY <1>2, <2>1 DEF WorkInv, WorkTypes
  <2>3. /\ inflight' \in [Comp -> [Page -> Claim]] /\ inflight'[old.comp][p] = claim
        /\ \A c \in Comp, q \in Page : inflight'[c][q] = inflight[c][q] \/ (c = old.comp /\ q = p)
    BY <1>3, <2>2
  <2>4. ASSUME NEW c \in Comp, NEW q \in Page, NEW u \in Thread, inflight'[c][q].owner = u
        PROVE  thread'[u].page = q /\ thread'[u].comp = c /\ thread'[u].pc \in {"rendering", "erase"}
    <3>1. CASE inflight'[c][q] = inflight[c][q]
      <4>1. thread[u].page = q /\ thread[u].comp = c /\ thread[u].pc \in {"rendering", "erase"}
        BY <2>2, <2>4, <3>1 DEF OwnClaims
      <4>2. u # t
        BY <1>1, <1>2, <4>1
      <4>3. QED
        BY <1>5, <4>1, <4>2 DEF Elsewhere
    <3>2. CASE c = old.comp /\ q = p
      BY <1>4, <1>5, <2>1, <2>3, <2>4, <3>2
    <3>3. QED
      BY <2>3, <3>1, <3>2
  <2>5. QED
    BY <2>3, <2>4 DEF OwnClaims
<1>11. Calls(t)
  <2>1. old.comp = Target(t)'
    BY <1>3, <1>4, <1>5 DEF Target
  <2>2. QED
    BY <1>2, <1>3, <2>1 DEF Calls
<1>12. QED
  BY <1>3, <1>4, <1>5, <1>7, <1>8, <1>9, <1>10, <1>11, NodeMoves

LEMMA RequestEraseWorks ==
    ASSUME WorkInv, NEW t \in Thread, RequestErase(t)
    PROVE  WorkInv'
<1>1. PICK old, p : old = thread[t] /\ p = old.page
  OBVIOUS
<1>2. /\ old.pc = "erase" /\ stack[t] = <<>> /\ stack' = stack
      /\ thread' = [thread EXCEPT ![t] = [old EXCEPT !.pc = "deliver"]]
      /\ UNCHANGED <<editing, epoch, cache, hint, slipped>>
      /\ inflight' = IF inflight[old.comp][p].owner = t
                     THEN [inflight EXCEPT ![old.comp][p] = NoEntry] ELSE inflight
  BY <1>1 DEF RequestErase, At, Goto, caching
<1>3. /\ old \in WorkState /\ p \in Page /\ old.node \in Comp /\ old.node \in Nat \ {0}
      /\ \A d \in Comp : old.observed[d] <= epoch[d] /\ epoch[d] \in Nat
      /\ old.node > 1 /\ old.comp = old.node - 1 /\ old.comp \in Comp /\ old.got # <<>>
      /\ old.bound = <<>> /\ old.epoch <= epoch[old.comp]
  BY <1>1, <1>2, AtStep DEF Asking, Binding, Having
<1>4. PICK next \in WorkState :
          /\ thread' = [thread EXCEPT ![t] = next]
          /\ next.pc = "deliver" /\ next.page = p /\ next.node = old.node
          /\ next.comp = old.comp /\ next.epoch = old.epoch /\ next.bound = old.bound
          /\ next.got = old.got /\ next.observed = old.observed
  <2> DEFINE n == [old EXCEPT !.pc = "deliver"]
  <2>1. n \in WorkState
    BY <1>2, <1>3 DEF WorkState, WorkPc, Asking, Binding, Having
  <2>2. /\ n.pc = "deliver" /\ n.page = p /\ n.node = old.node
        /\ n.comp = old.comp /\ n.epoch = old.epoch /\ n.bound = old.bound
        /\ n.got = old.got /\ n.observed = old.observed
    BY <1>1, <1>3 DEF WorkState
  <2>3. thread' = [thread EXCEPT ![t] = n]
    BY <1>2
  <2> HIDE DEF n
  <2>4. QED
    BY <2>1, <2>2, <2>3
<1>5. /\ Moves(t, p, next) /\ thread'[t] = next /\ Elsewhere(t)
      /\ UNCHANGED <<model, edit, late, epoch, cache, slipped>> /\ (p \notin slipped => NodeFresh(t))
  <2>1. /\ old = thread[t] /\ old.pc # "idle" /\ stack[t] = <<>> /\ p = old.page
        /\ thread' = [thread EXCEPT ![t] = next] /\ next.page \in {p, Nobody}
        /\ UNCHANGED <<editing, epoch, cache, hint, slipped>>
    BY <1>1, <1>2, <1>4
  <2>2. QED
    BY <2>1, WorkerGoesOn
<1>6. ShapeOf(next)
  BY <1>3, <1>4 DEF ShapeOf, Asking, Binding, Having
<1>7. WorkShape(t)'
  BY <1>2, <1>4, <1>5, <1>6, NextShape
<1>8. ASSUME p \notin slipped PROVE NodeFresh(t)'
  <2>1. ASSUME NodeStable(t)' PROVE Supplies(t, thread[t].got)'
    <3>1. NodeStable(t)
      BY <1>1, <1>4, <1>5, <2>1 DEF NodeStable, Stable, Reached, Touched
    <3>2. Supplies(t, old.got)
      BY <1>1, <1>2, <1>5, <1>8, <3>1 DEF NodeFresh
    <3>3. /\ thread'[t].got = old.got /\ thread'[t].node = old.node /\ thread'[t].page = p
          /\ thread[t].node = old.node /\ thread[t].page = p
      BY <1>1, <1>4, <1>5
    <3>4. QED
      BY <1>5, <3>2, <3>3 DEF Supplies, Fresh
  <2>2. QED
    BY <1>4, <1>5, <2>1 DEF NodeFresh
<1>9. Settles(t, p)
  BY <1>1, <1>2, <1>4, <1>5 DEF Settles, Doubted, InDoubt, Asking
<1>10. inflight' \in [Comp -> [Page -> Claim]] /\ OwnClaims'
  <2>1. PICK claim \in Claim : claim = NoEntry /\ claim.owner = Nobody
    <3>1. NoEntry \in Claim /\ NoEntry.owner = Nobody
      BY DEF Claim, NoEntry
    <3>2. QED
      BY <3>1
  <2>2. /\ OwnClaims /\ inflight \in [Comp -> [Page -> Claim]] /\ t # Nobody
        /\ inflight' = IF inflight[old.comp][p].owner = t
                       THEN [inflight EXCEPT ![old.comp][p] = claim] ELSE inflight
    BY <1>2, <2>1, NobodyAssumption DEF WorkInv, WorkTypes, Thread
  <2>3. /\ inflight' \in [Comp -> [Page -> Claim]] /\ inflight'[old.comp][p].owner # t
        /\ \A c \in Comp, q \in Page : inflight'[c][q] = inflight[c][q] \/ inflight'[c][q] = claim
    BY <1>3, <2>1, <2>2
  <2>4. ASSUME NEW c \in Comp, NEW q \in Page, NEW u \in Thread, inflight'[c][q].owner = u
        PROVE  thread'[u].page = q /\ thread'[u].comp = c /\ thread'[u].pc \in {"rendering", "erase"}
    <3>1. inflight'[c][q] = inflight[c][q]
      BY <2>1, <2>3, <2>4, NobodyAssumption DEF Thread
    <3>2. thread[u].page = q /\ thread[u].comp = c /\ thread[u].pc \in {"rendering", "erase"}
      BY <2>2, <2>4, <3>1 DEF OwnClaims
    <3>3. u # t
      BY <1>1, <2>3, <2>4, <3>2
    <3>4. QED
      BY <1>5, <3>2, <3>3 DEF Elsewhere
  <2>5. QED
    BY <2>3, <2>4 DEF OwnClaims
<1>11. QED
  BY <1>2, <1>3, <1>4, <1>5, <1>7, <1>8, <1>9, <1>10, NodeMoves DEF Calls

\* There is nobody to wake.
LEMMA RequestDeliverWorks ==
    ASSUME WorkInv, NEW t \in Thread, RequestDeliver(t)
    PROVE  WorkInv'
<1>1. PICK old, p : old = thread[t] /\ p = old.page
  OBVIOUS
<1>2. /\ old.pc = "deliver" /\ stack[t] = <<>> /\ stack' = stack
      /\ thread' = [thread EXCEPT ![t] = [old EXCEPT !.pc = "bind"]]
      /\ UNCHANGED <<editing, epoch, cache, hint, inflight, slipped>>
  <2>1. /\ old.pc = "deliver" /\ stack[t] = <<>> /\ stack' = stack
        /\ UNCHANGED <<editing, epoch, cache, hint, inflight, slipped>>
    BY <1>1 DEF RequestDeliver, At, caching
  <2>2. t \notin Puller /\ thread \in [Thread -> WorkState]
    BY DEF WorkInv, WorkersOnly, WorkTypes
  <2>3. thread' = [u \in Thread |-> IF u = t THEN [old EXCEPT !.pc = "bind"] ELSE thread[u]]
    <3>1. \A u \in Thread : thread[u].pc # "wait"
      BY <2>2 DEF WorkState, WorkPc, Asking, Binding, Having
    <3>2. QED
      BY <1>1, <2>2, <3>1 DEF RequestDeliver, AfterRequest
  <2>4. thread' = [thread EXCEPT ![t] = [old EXCEPT !.pc = "bind"]]
    BY <2>2, <2>3
  <2>5. QED
    BY <2>1, <2>4
<1>3. /\ old \in WorkState /\ p \in Page /\ old.node \in Comp /\ old.node \in Nat \ {0}
      /\ \A d \in Comp : old.observed[d] <= epoch[d] /\ epoch[d] \in Nat
      /\ old.node > 1 /\ old.comp = old.node - 1 /\ old.comp \in Comp /\ old.got # <<>>
      /\ old.bound = <<>> /\ old.epoch <= epoch[old.comp]
  BY <1>1, <1>2, AtStep DEF Asking, Binding, Having
<1>4. PICK next \in WorkState :
          /\ thread' = [thread EXCEPT ![t] = next]
          /\ next.pc = "bind" /\ next.page = p /\ next.node = old.node
          /\ next.comp = old.comp /\ next.epoch = old.epoch /\ next.bound = old.bound
          /\ next.got = old.got /\ next.observed = old.observed
  <2> DEFINE n == [old EXCEPT !.pc = "bind"]
  <2>1. n \in WorkState
    BY <1>2, <1>3 DEF WorkState, WorkPc, Asking, Binding, Having
  <2>2. /\ n.pc = "bind" /\ n.page = p /\ n.node = old.node
        /\ n.comp = old.comp /\ n.epoch = old.epoch /\ n.bound = old.bound
        /\ n.got = old.got /\ n.observed = old.observed
    BY <1>1, <1>3 DEF WorkState
  <2>3. thread' = [thread EXCEPT ![t] = n]
    BY <1>2
  <2> HIDE DEF n
  <2>4. QED
    BY <2>1, <2>2, <2>3
<1>5. /\ Moves(t, p, next) /\ thread'[t] = next /\ Elsewhere(t)
      /\ UNCHANGED <<model, edit, late, epoch, cache, slipped>> /\ (p \notin slipped => NodeFresh(t))
  <2>1. /\ old = thread[t] /\ old.pc # "idle" /\ stack[t] = <<>> /\ p = old.page
        /\ thread' = [thread EXCEPT ![t] = next] /\ next.page \in {p, Nobody}
        /\ UNCHANGED <<editing, epoch, cache, hint, slipped>>
    BY <1>1, <1>2, <1>4
  <2>2. QED
    BY <2>1, WorkerGoesOn
<1>6. ShapeOf(next)
  BY <1>3, <1>4 DEF ShapeOf, Asking, Binding, Having
<1>7. WorkShape(t)'
  BY <1>2, <1>4, <1>5, <1>6, NextShape
<1>8. ASSUME p \notin slipped PROVE NodeFresh(t)'
  <2>1. ASSUME NodeStable(t)' PROVE Supplies(t, thread[t].got)'
    <3>1. NodeStable(t)
      BY <1>1, <1>4, <1>5, <2>1 DEF NodeStable, Stable, Reached, Touched
    <3>2. Supplies(t, old.got)
      BY <1>1, <1>2, <1>5, <1>8, <3>1 DEF NodeFresh
    <3>3. /\ thread'[t].got = old.got /\ thread'[t].node = old.node /\ thread'[t].page = p
          /\ thread[t].node = old.node /\ thread[t].page = p
      BY <1>1, <1>4, <1>5
    <3>4. QED
      BY <1>5, <3>2, <3>3 DEF Supplies, Fresh
  <2>2. QED
    BY <1>4, <1>5, <2>1 DEF NodeFresh
<1>9. Settles(t, p)
  BY <1>1, <1>2, <1>4, <1>5 DEF Settles, Doubted, InDoubt, Asking
<1>10. inflight' \in [Comp -> [Page -> Claim]] /\ OwnClaims'
  BY <1>1, <1>2, <1>5, ClaimsStay
<1>11. QED
  BY <1>2, <1>3, <1>4, <1>5, <1>7, <1>8, <1>9, <1>10, NodeMoves DEF Calls

\* A node is planned: it observes its epoch, and the next one down is.
LEMMA PlanWorks ==
    ASSUME WorkInv, NEW t \in Thread, Plan(t)
    PROVE  WorkInv'
<1>1. PICK old, p, quiet, observed, node, pc :
      /\ old = thread[t]
      /\ p = old.page
      /\ quiet = [old.quiet EXCEPT ![old.node] = (edit = NoEdit)]
      /\ observed = [old.observed EXCEPT ![old.node] = epoch[old.node]]
      /\ node = (IF old.node > 1 THEN old.node - 1 ELSE 1)
      /\ pc = (IF old.node > 1 THEN "plan" ELSE "freeze")
  OBVIOUS
<1>2. /\ old.pc = "plan" /\ stack[t] = <<>> /\ stack' = stack
      /\ thread' = [thread EXCEPT ![t] = [old EXCEPT !.observed = observed, !.quiet = quiet, !.node = node, !.pc = pc]]
      /\ UNCHANGED <<editing, epoch, cache, hint, inflight, slipped>>
      /\ pc \in {"plan", "freeze"} /\ (pc = "freeze" => node = 1)
  BY <1>1 DEF Plan, At, Goto, caching
<1>3. /\ old \in WorkState /\ p \in Page /\ old.node \in Comp /\ old.node \in Nat \ {0}
      /\ \A d \in Comp : old.observed[d] <= epoch[d] /\ epoch[d] \in Nat
      /\ observed \in Epochs /\ quiet \in Quiet /\ \A d \in Comp : observed[d] <= epoch[d]
      /\ node \in Comp /\ node \in 0 .. Height /\ (pc = "freeze" => ~(node > 1))
  <2>1. /\ old \in WorkState /\ p \in Page /\ old.node \in Comp /\ old.node \in Nat \ {0}
        /\ \A d \in Comp : old.observed[d] <= epoch[d] /\ epoch[d] \in Nat
        /\ old.node > 1 => old.node - 1 \in Comp
    BY <1>1, <1>2, AtStep
  <2>2. observed \in Epochs /\ quiet \in Quiet /\ \A d \in Comp : observed[d] <= epoch[d]
    BY <1>1, <2>1, Observes
  <2>3. node \in Comp
    BY <1>1, <2>1, HeightAssumption DEF Comp
  <2>4. node \in 0 .. Height
    BY <2>3, HeightAssumption DEF Comp
  <2>5. ~(1 > 1)
    OBVIOUS
  <2>6. QED
    BY <1>2, <2>1, <2>2, <2>3, <2>4, <2>5
<1>4. PICK next \in WorkState :
          /\ thread' = [thread EXCEPT ![t] = next]
          /\ next.pc = pc /\ next.page = p /\ next.node = node
          /\ next.comp = old.comp /\ next.epoch = old.epoch /\ next.bound = old.bound
          /\ next.got = old.got /\ next.observed = observed
  <2> DEFINE n == [old EXCEPT !.observed = observed, !.quiet = quiet, !.node = node, !.pc = pc]
  <2>1. n \in WorkState
    BY <1>2, <1>3 DEF WorkState, WorkPc, Asking, Binding, Having
  <2>2. /\ n.pc = pc /\ n.page = p /\ n.node = node
        /\ n.comp = old.comp /\ n.epoch = old.epoch /\ n.bound = old.bound
        /\ n.got = old.got /\ n.observed = observed
    BY <1>1, <1>3 DEF WorkState
  <2>3. thread' = [thread EXCEPT ![t] = n]
    BY <1>2
  <2> HIDE DEF n
  <2>4. QED
    BY <2>1, <2>2, <2>3
<1>5. /\ Moves(t, p, next) /\ thread'[t] = next /\ Elsewhere(t)
      /\ UNCHANGED <<model, edit, late, epoch, cache, slipped>> /\ (p \notin slipped => NodeFresh(t))
  <2>1. /\ old = thread[t] /\ old.pc # "idle" /\ stack[t] = <<>> /\ p = old.page
        /\ thread' = [thread EXCEPT ![t] = next] /\ next.page \in {p, Nobody}
        /\ UNCHANGED <<editing, epoch, cache, hint, slipped>>
    BY <1>1, <1>2, <1>4
  <2>2. QED
    BY <2>1, WorkerGoesOn
<1>6. ShapeOf(next)
  BY <1>2, <1>3, <1>4 DEF ShapeOf, Asking, Binding, Having
<1>7. WorkShape(t)'
  BY <1>2, <1>4, <1>5, <1>6, NextShape
<1>8. ASSUME p \notin slipped PROVE NodeFresh(t)'
  <2>1. pc = "freeze" => thread'[t].pc = "freeze" /\ thread'[t].node = 1 /\ ~(1 > 1)
    BY <1>2, <1>4, <1>5
  <2>2. Supplies(t, thread[t].got)' \/ pc # "freeze"
    BY <2>1 DEF Supplies
  <2>3. QED
    BY <1>2, <1>4, <1>5, <2>2 DEF NodeFresh
<1>9. Settles(t, p)
  BY <1>1, <1>2, <1>4, <1>5 DEF Settles, Doubted, InDoubt, Asking
<1>10. inflight' \in [Comp -> [Page -> Claim]] /\ OwnClaims'
  BY <1>1, <1>2, <1>5, ClaimsStay
<1>11. QED
  BY <1>2, <1>3, <1>4, <1>5, <1>7, <1>8, <1>9, <1>10, NodeMoves DEF Calls

\* The input went stale under the render: a retry.  What it is served is fresh, since
\* a page's worker is past the verification of the nodes below.
LEMMA VerifyStaleWorks ==
    ASSUME WorkInv, NEW t \in Thread, VerifyInput(t), InputStale(t)
    PROVE  WorkInv'
<1>1. PICK old, p, comp, e :
      /\ old = thread[t]
      /\ p = old.page
      /\ comp = old.node - 1
      /\ e = epoch[old.node - 1]
  OBVIOUS
<1>2. /\ old.pc = "verify" /\ stack[t] = <<>> /\ stack' = stack
      /\ thread' = [thread EXCEPT ![t] = [old EXCEPT !.pc = "fast", !.bound = <<>>, !.comp = comp, !.epoch = e]]
      /\ UNCHANGED <<editing, epoch, cache, hint, inflight, slipped>>
  BY <1>1 DEF VerifyInput, At, Goto, caching
<1>3. /\ old \in WorkState /\ p \in Page /\ old.node \in Comp /\ old.node \in Nat \ {0}
      /\ \A d \in Comp : old.observed[d] <= epoch[d] /\ epoch[d] \in Nat
      /\ old.node > 1 /\ comp = old.node - 1 /\ comp \in Comp /\ comp \in 0 .. Height
      /\ old.got # <<>> /\ e \in Nat /\ e = epoch[comp] /\ e <= epoch[comp] /\ <<>> \in Audio
  <2>1. /\ old \in WorkState /\ p \in Page /\ old.node \in Comp /\ old.node \in Nat \ {0}
        /\ \A d \in Comp : old.observed[d] <= epoch[d] /\ epoch[d] \in Nat
        /\ old.node > 1 => old.node - 1 \in Comp
        /\ old.got # <<>>
    BY <1>1, <1>2, AtStep DEF Having
  <2>2. old.node > 1 /\ comp = old.node - 1
    BY <1>1 DEF InputStale
  <2>3. comp \in Comp /\ e = epoch[comp] /\ e \in Nat
    BY <1>1, <2>1, <2>2
  <2>4. comp \in 0 .. Height /\ e <= epoch[comp]
    BY <2>3, HeightAssumption DEF Comp
  <2>5. <<>> \in Audio
    BY EmptySeq DEF Audio
  <2>6. QED
    BY <2>1, <2>2, <2>3, <2>4, <2>5
<1>4. PICK next \in WorkState :
          /\ thread' = [thread EXCEPT ![t] = next]
          /\ next.pc = "fast" /\ next.page = p /\ next.node = old.node
          /\ next.comp = comp /\ next.epoch = e /\ next.bound = <<>>
          /\ next.got = old.got /\ next.observed = old.observed
  <2> DEFINE n == [old EXCEPT !.pc = "fast", !.bound = <<>>, !.comp = comp, !.epoch = e]
  <2>1. n \in WorkState
    BY <1>2, <1>3 DEF WorkState, WorkPc, Asking, Binding, Having
  <2>2. /\ n.pc = "fast" /\ n.page = p /\ n.node = old.node
        /\ n.comp = comp /\ n.epoch = e /\ n.bound = <<>>
        /\ n.got = old.got /\ n.observed = old.observed
    BY <1>1, <1>3 DEF WorkState
  <2>3. thread' = [thread EXCEPT ![t] = n]
    BY <1>2
  <2> HIDE DEF n
  <2>4. QED
    BY <2>1, <2>2, <2>3
<1>5. /\ Moves(t, p, next) /\ thread'[t] = next /\ Elsewhere(t)
      /\ UNCHANGED <<model, edit, late, epoch, cache, slipped>> /\ (p \notin slipped => NodeFresh(t))
  <2>1. /\ old = thread[t] /\ old.pc # "idle" /\ stack[t] = <<>> /\ p = old.page
        /\ thread' = [thread EXCEPT ![t] = next] /\ next.page \in {p, Nobody}
        /\ UNCHANGED <<editing, epoch, cache, hint, slipped>>
    BY <1>1, <1>2, <1>4
  <2>2. QED
    BY <2>1, WorkerGoesOn
<1>6. ShapeOf(next)
  BY <1>3, <1>4 DEF ShapeOf, Asking, Binding, Having
<1>7. WorkShape(t)'
  BY <1>2, <1>4, <1>5, <1>6, NextShape
<1>8. ASSUME p \notin slipped PROVE NodeFresh(t)'
  <2>1. ASSUME NodeStable(t)' PROVE Serving(t)'
    <3>1. ASSUME Current(cache'[comp][p], e) PROVE cache'[comp][p].shows = Fresh(comp, p)'
      <4>1. Stable(comp, p)
        <5>1. Stable(old.node, p)
          BY <1>4, <1>5, <2>1 DEF NodeStable, Stable, Reached, Touched
        <5>2. EditShape /\ comp <= old.node
          BY <1>3 DEF WorkInv, WorkTypes
        <5>3. QED
          BY <1>3, <5>1, <5>2, StableUpstream
      <4>2. cache[comp][p].valid /\ cache[comp][p].stamp >= epoch[comp] /\ comp # old.node
        BY <1>3, <1>5, <3>1 DEF Current
      <4>3. cache[comp][p].shows = Fresh(comp, p)
        BY <1>1, <1>3, <1>8, <4>1, <4>2, Undoubted
      <4>4. QED
        BY <1>5, <4>3 DEF Fresh
    <3>2. /\ thread'[t].node - 1 = comp /\ thread'[t].page = p /\ thread'[t].epoch = e
      BY <1>3, <1>4, <1>5
    <3>3. QED
      BY <3>1, <3>2 DEF Serving, Supplies, Fresh
  <2>2. QED
    BY <1>4, <1>5, <2>1 DEF NodeFresh
<1>9. Settles(t, p)
  BY <1>1, <1>2, <1>4, <1>5 DEF Settles, Doubted, InDoubt, Asking
<1>10. inflight' \in [Comp -> [Page -> Claim]] /\ OwnClaims'
  BY <1>1, <1>2, <1>5, ClaimsStay
<1>11. QED
  BY <1>2, <1>3, <1>4, <1>5, <1>7, <1>8, <1>9, <1>10, NodeMoves DEF Calls

\* It did not: what the node rendered was rendered from a fresh input.
LEMMA VerifyKeptWorks ==
    ASSUME WorkInv, NEW t \in Thread, VerifyInput(t), ~InputStale(t)
    PROVE  WorkInv'
<1>1. PICK old, p : old = thread[t] /\ p = old.page
  OBVIOUS
<1>2. /\ old.pc = "verify" /\ stack[t] = <<>> /\ stack' = stack
      /\ thread' = [thread EXCEPT ![t] = [old EXCEPT !.pc = "self"]]
      /\ UNCHANGED <<editing, epoch, cache, hint, inflight, slipped>>
  BY <1>1 DEF VerifyInput, At, Goto, caching
<1>3. /\ old \in WorkState /\ p \in Page /\ old.node \in Comp /\ old.node \in Nat \ {0}
      /\ \A d \in Comp : old.observed[d] <= epoch[d] /\ epoch[d] \in Nat
      /\ old.got # <<>> /\ InputKept(t)
  <2>1. /\ old \in WorkState /\ p \in Page /\ old.node \in Comp /\ old.node \in Nat \ {0}
        /\ \A d \in Comp : /\ old.observed[d] <= epoch[d] /\ epoch[d] \in Nat
                          /\ old.observed[d] \in Nat
        /\ old.node > 1 => old.node - 1 \in Comp
        /\ old.got # <<>>
    BY <1>1, <1>2, AtStep DEF Having
  <2>2. ASSUME old.node > 1 PROVE old.observed[old.node - 1] = epoch[old.node - 1]
    <3>1. /\ old.observed[old.node - 1] <= epoch[old.node - 1] /\ epoch[old.node - 1] \in Nat
          /\ old.observed[old.node - 1] \in Nat /\ ~(old.observed[old.node - 1] < epoch[old.node - 1])
      BY <1>1, <2>1, <2>2 DEF InputStale
    <3>2. QED
      BY <3>1
  <2>3. InputKept(t)
    BY <1>1, <2>2 DEF InputKept
  <2>4. QED
    BY <2>1, <2>3
<1>4. PICK next \in WorkState :
          /\ thread' = [thread EXCEPT ![t] = next]
          /\ next.pc = "self" /\ next.page = p /\ next.node = old.node
          /\ next.comp = old.comp /\ next.epoch = old.epoch /\ next.bound = old.bound
          /\ next.got = old.got /\ next.observed = old.observed
  <2> DEFINE n == [old EXCEPT !.pc = "self"]
  <2>1. n \in WorkState
    BY <1>2, <1>3 DEF WorkState, WorkPc, Asking, Binding, Having
  <2>2. /\ n.pc = "self" /\ n.page = p /\ n.node = old.node
        /\ n.comp = old.comp /\ n.epoch = old.epoch /\ n.bound = old.bound
        /\ n.got = old.got /\ n.observed = old.observed
    BY <1>1, <1>3 DEF WorkState
  <2>3. thread' = [thread EXCEPT ![t] = n]
    BY <1>2
  <2> HIDE DEF n
  <2>4. QED
    BY <2>1, <2>2, <2>3
<1>5. /\ Moves(t, p, next) /\ thread'[t] = next /\ Elsewhere(t)
      /\ UNCHANGED <<model, edit, late, epoch, cache, slipped>> /\ (p \notin slipped => NodeFresh(t))
  <2>1. /\ old = thread[t] /\ old.pc # "idle" /\ stack[t] = <<>> /\ p = old.page
        /\ thread' = [thread EXCEPT ![t] = next] /\ next.page \in {p, Nobody}
        /\ UNCHANGED <<editing, epoch, cache, hint, slipped>>
    BY <1>1, <1>2, <1>4
  <2>2. QED
    BY <2>1, WorkerGoesOn
<1>6. ShapeOf(next)
  BY <1>3, <1>4 DEF ShapeOf, Asking, Binding, Having
<1>7. WorkShape(t)'
  BY <1>2, <1>4, <1>5, <1>6, NextShape
<1>8. ASSUME p \notin slipped PROVE NodeFresh(t)'
  <2>1. ASSUME SelfKept(t)', NodeStable(t)' PROVE Publishes(t, thread[t].got)'
    <3>1. SelfKept(t) /\ NodeStable(t)
      BY <1>1, <1>4, <1>5, <2>1 DEF SelfKept, NodeStable, Stable, Reached, Touched
    <3>2. Publishes(t, old.got)
      BY <1>1, <1>2, <1>3, <1>5, <1>8, <3>1 DEF NodeFresh
    <3>3. QED
      BY <1>1, <1>4, <1>5, <3>2, ZenonT(60) DEF Publishes, Fresh
  <2>2. QED
    BY <1>4, <1>5, <2>1 DEF NodeFresh
<1>9. Settles(t, p)
  BY <1>1, <1>2, <1>3 DEF Settles, Doubted, InDoubt, Asking
<1>10. inflight' \in [Comp -> [Page -> Claim]] /\ OwnClaims'
  BY <1>1, <1>2, <1>5, ClaimsStay
<1>11. QED
  BY <1>2, <1>3, <1>4, <1>5, <1>7, <1>8, <1>9, <1>10, NodeMoves DEF Calls

\* The page is the node's result, and the next node's input.
LEMMA CompleteNodeWorks ==
    ASSUME WorkInv, NEW t \in Thread, Complete(t), thread[t].node < Height
    PROVE  WorkInv'
<1>1. PICK old, p, node : old = thread[t] /\ p = old.page /\ node = old.node + 1
  OBVIOUS
<1>2. /\ old.pc = "complete" /\ stack[t] = <<>> /\ stack' = stack
      /\ thread' = [thread EXCEPT ![t] = [old EXCEPT !.pc = "freeze", !.node = node]]
      /\ UNCHANGED <<editing, epoch, cache, hint, inflight, slipped>>
  BY <1>1 DEF Complete, At, Goto, caching
<1>3. /\ old \in WorkState /\ p \in Page /\ old.node \in Comp /\ old.node \in Nat \ {0}
      /\ \A d \in Comp : old.observed[d] <= epoch[d] /\ epoch[d] \in Nat
      /\ old.got # <<>> /\ node \in Comp /\ node \in 0 .. Height /\ node > 1 /\ node - 1 = old.node
  <2>1. /\ old \in WorkState /\ p \in Page /\ old.node \in Comp /\ old.node \in Nat \ {0}
        /\ \A d \in Comp : old.observed[d] <= epoch[d] /\ epoch[d] \in Nat
        /\ old.got # <<>>
    BY <1>1, <1>2, AtStep DEF Having
  <2>2. node \in Comp /\ node \in 0 .. Height /\ node > 1 /\ node - 1 = old.node
    BY <1>1, <2>1, HeightAssumption DEF Comp
  <2>3. QED
    BY <2>1, <2>2
<1>4. PICK next \in WorkState :
          /\ thread' = [thread EXCEPT ![t] = next]
          /\ next.pc = "freeze" /\ next.page = p /\ next.node = node
          /\ next.comp = old.comp /\ next.epoch = old.epoch /\ next.bound = old.bound
          /\ next.got = old.got /\ next.observed = old.observed
  <2> DEFINE n == [old EXCEPT !.pc = "freeze", !.node = node]
  <2>1. n \in WorkState
    BY <1>2, <1>3 DEF WorkState, WorkPc, Asking, Binding, Having
  <2>2. /\ n.pc = "freeze" /\ n.page = p /\ n.node = node
        /\ n.comp = old.comp /\ n.epoch = old.epoch /\ n.bound = old.bound
        /\ n.got = old.got /\ n.observed = old.observed
    BY <1>1, <1>3 DEF WorkState
  <2>3. thread' = [thread EXCEPT ![t] = n]
    BY <1>2
  <2> HIDE DEF n
  <2>4. QED
    BY <2>1, <2>2, <2>3
<1>5. /\ Moves(t, p, next) /\ thread'[t] = next /\ Elsewhere(t)
      /\ UNCHANGED <<model, edit, late, epoch, cache, slipped>> /\ (p \notin slipped => NodeFresh(t))
  <2>1. /\ old = thread[t] /\ old.pc # "idle" /\ stack[t] = <<>> /\ p = old.page
        /\ thread' = [thread EXCEPT ![t] = next] /\ next.page \in {p, Nobody}
        /\ UNCHANGED <<editing, epoch, cache, hint, slipped>>
    BY <1>1, <1>2, <1>4
  <2>2. QED
    BY <2>1, WorkerGoesOn
<1>6. ShapeOf(next)
  BY <1>3, <1>4 DEF ShapeOf, Asking, Binding, Having
<1>7. WorkShape(t)'
  BY <1>2, <1>4, <1>5, <1>6, NextShape
<1>8. ASSUME p \notin slipped PROVE NodeFresh(t)'
  <2>1. ASSUME InputKept(t)', InputStable(t)' PROVE Supplies(t, thread[t].got)'
    <3>1. /\ thread'[t].node = node /\ thread'[t].page = p /\ thread'[t].got = old.got
          /\ thread'[t].observed = old.observed /\ node > 1 /\ node - 1 = old.node
      BY <1>3, <1>4, <1>5
    <3>2. SelfKept(t) /\ NodeStable(t)
      BY <1>1, <1>5, <2>1, <3>1 DEF InputKept, InputStable, SelfKept, NodeStable, Stable, Reached, Touched
    <3>3. old.got = Fresh(old.node, p)
      BY <1>1, <1>2, <1>5, <1>8, <3>2 DEF NodeFresh, Publishes
    <3>4. QED
      BY <1>5, <3>1, <3>3 DEF Supplies, Fresh
  <2>2. QED
    BY <1>4, <1>5, <2>1 DEF NodeFresh
<1>9. Settles(t, p)
  BY <1>1, <1>2, <1>4, <1>5 DEF Settles, Doubted, InDoubt, Asking
<1>10. inflight' \in [Comp -> [Page -> Claim]] /\ OwnClaims'
  BY <1>1, <1>2, <1>5, ClaimsStay
<1>11. QED
  BY <1>2, <1>3, <1>4, <1>5, <1>7, <1>8, <1>9, <1>10, NodeMoves DEF Calls

\* The page of the root is complete, and its worker idle.
LEMMA CompletePageWorks ==
    ASSUME WorkInv, NEW t \in Thread, Complete(t), ~(thread[t].node < Height)
    PROVE  WorkInv'
<1>1. PICK old, p : old = thread[t] /\ p = old.page
  OBVIOUS
<1>2. /\ old.pc = "complete" /\ stack[t] = <<>> /\ stack' = stack
      /\ thread' = [thread EXCEPT ![t] = Idle]
      /\ UNCHANGED <<editing, epoch, cache, hint, inflight, slipped>>
  BY <1>1 DEF Complete, At, caching
<1>3. old \in WorkState /\ p \in Page
  BY <1>1, <1>2, AtStep
<1>4. PICK next \in WorkState : /\ thread' = [thread EXCEPT ![t] = next]
                                /\ next.pc = "idle" /\ next.page = Nobody
                                /\ \A d \in Comp : next.observed[d] = 0
  <2>1. <<>> \in Audio /\ 0 \in 0 .. Height
    BY EmptySeq, HeightAssumption DEF Audio
  <2>2. Idle \in WorkState
    BY <2>1 DEF Idle, WorkState, WorkPc, Quiet, Epochs
  <2>3. Idle.pc = "idle" /\ Idle.page = Nobody /\ \A d \in Comp : Idle.observed[d] = 0
    BY DEF Idle
  <2> HIDE DEF Idle
  <2>4. QED
    BY <1>2, <2>2, <2>3
<1>5. /\ Moves(t, p, next) /\ thread'[t] = next /\ Elsewhere(t)
      /\ UNCHANGED <<model, edit, late, epoch, cache, slipped>> /\ (p \notin slipped => NodeFresh(t))
  <2>1. /\ old = thread[t] /\ old.pc # "idle" /\ stack[t] = <<>> /\ p = old.page
        /\ thread' = [thread EXCEPT ![t] = next] /\ next.page \in {p, Nobody}
        /\ UNCHANGED <<editing, epoch, cache, hint, slipped>>
    BY <1>1, <1>2, <1>4
  <2>2. QED
    BY <2>1, WorkerGoesOn
<1>6. WorkShape(t)'
  <2>1. \A d \in Comp : 0 <= epoch[d]
    BY DEF WorkInv, WorkTypes
  <2>2. QED
    BY <1>2, <1>4, <1>5, <2>1 DEF WorkShape, Asking, Binding, Having
<1>7. NodeFresh(t)'
  BY <1>4, <1>5 DEF NodeFresh
<1>8. Settles(t, p)
  BY <1>1, <1>2 DEF Settles, Doubted, InDoubt, Asking
<1>9. inflight' \in [Comp -> [Page -> Claim]] /\ OwnClaims'
  BY <1>1, <1>2, <1>5, ClaimsStay
<1>10. QED
  BY <1>2, <1>3, <1>4, <1>5, <1>6, <1>7, <1>8, <1>9, NodeMoves DEF Calls

\* Only a page without a worker is demanded.
LEMMA DemandWorks ==
    ASSUME WorkInv, NEW t \in Thread, NEW p \in Page, Demand(t, p)
    PROVE  WorkInv'
<1>1. PICK old : old = thread[t]
  OBVIOUS
<1>2. /\ old.pc = "idle" /\ stack[t] = <<>> /\ stack' = stack /\ t \in Worker
      /\ thread' = [thread EXCEPT ![t] = [old EXCEPT !.pc = "plan", !.page = p, !.node = Height]]
      /\ \A u \in Worker : thread[u].page # p
      /\ UNCHANGED <<editing, epoch, cache, hint, inflight, slipped>>
  BY <1>1 DEF Demand, At, caching
<1>3. /\ old \in WorkState /\ old.page = Nobody /\ Height \in Comp /\ Height \in 0 .. Height
      /\ thread \in [Thread -> WorkState]
      /\ \A d \in Comp : old.observed[d] <= epoch[d]
      /\ \A u \in Thread : u # t => thread[u].page # p
  <2>1. /\ WorkShape(t) /\ thread \in [Thread -> WorkState] /\ Thread = Worker
    BY DEF WorkInv, WorkClaims, WorkOK, WorkTypes, WorkersOnly, Thread
  <2>2. Height \in Comp /\ Height \in 0 .. Height
    BY HeightAssumption DEF Comp
  <2>3. QED
    BY <1>1, <1>2, <2>1, <2>2 DEF WorkShape
<1>4. PICK next \in WorkState :
          /\ thread' = [thread EXCEPT ![t] = next]
          /\ next.pc = "plan" /\ next.page = p /\ next.node = Height /\ next.observed = old.observed
  <2> DEFINE n == [old EXCEPT !.pc = "plan", !.page = p, !.node = Height]
  <2>1. n \in WorkState
    BY <1>3 DEF WorkState, WorkPc
  <2>2. n.pc = "plan" /\ n.page = p /\ n.node = Height /\ n.observed = old.observed
    BY <1>3 DEF WorkState
  <2>3. thread' = [thread EXCEPT ![t] = n]
    BY <1>2
  <2> HIDE DEF n
  <2>4. QED
    BY <2>1, <2>2, <2>3
<1>5. Moves(t, p, next) /\ thread'[t] = next /\ Elsewhere(t) /\ epoch' = epoch
  BY <1>1, <1>2, <1>3, <1>4 DEF Moves, Elsewhere
<1>6. ShapeOf(next)
  BY <1>3, <1>4 DEF ShapeOf, Asking, Binding, Having
<1>7. WorkShape(t)'
  BY <1>2, <1>4, <1>5, <1>6, NextShape
<1>8. NodeFresh(t)'
  BY <1>4, <1>5 DEF NodeFresh
<1>9. Settles(t, p)
  BY <1>1, <1>2 DEF Settles, Doubted, InDoubt, Asking
<1>10. inflight' \in [Comp -> [Page -> Claim]] /\ OwnClaims'
  BY <1>1, <1>2, <1>5, ClaimsStay
<1>11. QED
  BY <1>2, <1>4, <1>5, <1>7, <1>8, <1>9, <1>10, NodeMoves DEF Calls

-----------------------------------------------------------------------------
(***************************************************************************)
(* An epoch advances: of an edit's bump, or of a worker's own              *)
(***************************************************************************)
Advanced(k, range) ==
    /\ epoch' \in [Comp -> Nat \ {0}] /\ epoch'[k] = epoch[k] + 1
    /\ \A c \in Comp : epoch[c] <= epoch'[c] /\ (c # k => epoch'[c] = epoch[c])
    /\ cache' \in [Comp -> [Page -> Cached]]
    /\ \A c \in Comp, p \in Page :
           /\ cache'[c][p].valid = cache[c][p].valid /\ cache'[c][p].shows = cache[c][p].shows
           /\ \/ cache'[c][p].stamp = cache[c][p].stamp
              \/ /\ c = k /\ p \notin range /\ cache[c][p].stamp = epoch[c]
                 /\ cache'[c][p].stamp = epoch[c] + 1

LEMMA RangeAdvances ==
    ASSUME cache \in [Comp -> [Page -> Cached]], epoch \in [Comp -> Nat \ {0}],
           NEW k \in Comp, NEW range, RangeInvalidated(k, range) \/ Bumped(k)
    PROVE  Advanced(k, range)
<1> DEFINE row == [p \in Page |-> IF cache[k][p].valid /\ p \notin range /\ cache[k][p].stamp = epoch[k]
                                 THEN [cache[k][p] EXCEPT !.stamp = epoch[k] + 1] ELSE cache[k][p]]
<1>1. epoch' = [epoch EXCEPT ![k] = @ + 1] /\ (cache' = cache \/ cache' = [cache EXCEPT ![k] = row])
  BY DEF RangeInvalidated, Bumped
<1>2. ASSUME NEW p \in Page
      PROVE  /\ row[p] \in Cached /\ row[p].valid = cache[k][p].valid /\ row[p].shows = cache[k][p].shows
             /\ \/ row[p].stamp = cache[k][p].stamp
                \/ /\ p \notin range /\ cache[k][p].stamp = epoch[k]
                   /\ row[p].stamp = epoch[k] + 1
  <2>1. cache[k][p] \in Cached /\ epoch[k] + 1 \in Nat
    OBVIOUS
  <2>2. PICK page, next : page = cache[k][p] /\ next = [page EXCEPT !.stamp = epoch[k] + 1]
    OBVIOUS
  <2>3. /\ next \in Cached
        /\ next.valid = page.valid
        /\ next.shows = page.shows
        /\ next.stamp = epoch[k] + 1
    BY <2>1, <2>2 DEF Cached
  <2>4. \/ row[p] = page
        \/ p \notin range /\ page.stamp = epoch[k] /\ row[p] = next
    BY <2>2
  <2> HIDE DEF row
  <2>5. QED
    BY <2>1, <2>2, <2>3, <2>4
<1>3. row \in [Page -> Cached]
  BY <1>2
<1> HIDE DEF row
<1>4. /\ cache' \in [Comp -> [Page -> Cached]]
      /\ \A c \in Comp : cache'[c] = cache[c] \/ (c = k /\ cache'[c] = row)
  BY <1>1, <1>3
<1>5. \A c \in Comp, p \in Page :
          /\ cache'[c][p].valid = cache[c][p].valid /\ cache'[c][p].shows = cache[c][p].shows
          /\ \/ cache'[c][p].stamp = cache[c][p].stamp
             \/ /\ c = k /\ p \notin range /\ cache[c][p].stamp = epoch[c]
                /\ cache'[c][p].stamp = epoch[c] + 1
  BY <1>2, <1>4
<1>6. /\ epoch' \in [Comp -> Nat \ {0}] /\ epoch'[k] = epoch[k] + 1
      /\ \A c \in Comp : epoch[c] <= epoch'[c] /\ (c # k => epoch'[c] = epoch[c])
  BY <1>1
<1>7. QED
  BY <1>4, <1>5, <1>6 DEF Advanced

\* What is stable afterwards was before, or is what the bump is of.
Bumps(k, range) ==
    /\ Advanced(k, range) /\ UNCHANGED <<model, hint, stack>>
    /\ slipped \subseteq slipped'
    /\ \A c \in Comp, p \in Page : Stable(c, p)' => Stable(c, p) \/ (c = k /\ p \in range)

\* A worker inside a retry is not passed unnoticed.
Noticed(u) == /\ thread'[u].node = thread[u].node /\ thread'[u].page = thread[u].page
              /\ thread'[u].observed = thread[u].observed
              /\ thread[u].pc \in Retrying /\ thread[u].page \notin slipped' /\ NodeStable(u)'
                     => NodeStable(u)

\* An observation that still holds is of another component.
LEMMA AdvanceSeen ==
    ASSUME WorkInv, NEW k \in Comp, NEW range, Bumps(k, range), NEW u \in Thread,
           thread[u].pc # "idle", Noticed(u)
    PROVE  /\ SelfKept(u)' => SelfKept(u) /\ thread[u].node # k
           /\ InputKept(u)' => InputKept(u) /\ (thread[u].node > 1 => thread[u].node - 1 # k)
           /\ SelfKept(u)' /\ NodeStable(u)' => NodeStable(u)
           /\ InputKept(u)' /\ InputStable(u)' => InputStable(u)
<1>1. PICK n, p, o : n = thread[u].node /\ p = thread[u].page /\ o = thread[u].observed
  OBVIOUS
<1>2. /\ n \in Comp /\ p \in Page /\ (n > 1 => n - 1 \in Comp)
      /\ \A d \in Comp : epoch[d] \in Nat \ {0} /\ o[d] \in Nat /\ o[d] <= epoch[d]
  BY <1>1, AtWork
<1>3. thread'[u].node = n /\ thread'[u].page = p /\ thread'[u].observed = o
  BY <1>1 DEF Noticed
<1>4. /\ epoch'[k] = epoch[k] + 1 /\ \A c \in Comp : c # k => epoch'[c] = epoch[c]
      /\ \A c \in Comp, q \in Page : c # k => (Stable(c, q)' => Stable(c, q))
  BY DEF Bumps, Advanced
<1>5. o[k] # epoch'[k]
  <2>1. o[k] <= epoch[k] /\ o[k] \in Nat /\ epoch[k] \in Nat
    BY <1>2
  <2>2. QED
    BY <1>4, <2>1
<1>6. SelfKept(u)' => SelfKept(u) /\ n # k
  BY <1>1, <1>2, <1>3, <1>4, <1>5 DEF SelfKept
<1>7. InputKept(u)' => InputKept(u) /\ (n > 1 => n - 1 # k)
  BY <1>1, <1>2, <1>3, <1>4, <1>5 DEF InputKept
<1>8. n # k /\ NodeStable(u)' => NodeStable(u)
  BY <1>1, <1>2, <1>3, <1>4 DEF NodeStable
<1>9. (n > 1 => n - 1 # k) /\ InputStable(u)' => InputStable(u)
  BY <1>1, <1>2, <1>3, <1>4 DEF InputStable
<1>10. QED
  BY <1>1, <1>6, <1>7, <1>8, <1>9

\* Doubt only grows.
LEMMA AdvanceDoubts ==
    ASSUME WorkInv, NEW k \in Comp, NEW range, Bumps(k, range), NEW u \in Thread,
           thread'[u] = thread[u], InDoubt(u)
    PROVE  InDoubt(u)'
<1>1. thread[u].pc # "idle" /\ thread[u].pc \in Retrying => thread[u].pc # "verify"
  BY DEF InDoubt, Asking, Retrying
<1>2. thread[u].pc \in {"verify", "self"} => Noticed(u)
  BY DEF Noticed, Retrying
<1>3. thread[u].pc \in {"verify", "self"} =>
          (SelfKept(u)' => SelfKept(u)) /\ (InputKept(u)' => InputKept(u))
  BY <1>1, <1>2, AdvanceSeen
<1>4. QED
  BY <1>3 DEF InDoubt


\* A page served for an epoch from before the advance was served before it.
LEMMA ServedBefore ==
    ASSUME WorkInv, NEW k \in Comp, NEW range, Bumps(k, range), NEW c \in Comp, NEW p \in Page,
           NEW e \in Nat, e <= epoch[c], Current(cache'[c][p], e)
    PROVE  Current(cache[c][p], e) /\ cache'[c][p].shows = cache[c][p].shows
<1>1. /\ cache'[c][p].valid = cache[c][p].valid /\ cache'[c][p].shows = cache[c][p].shows
      /\ cache'[c][p].stamp = cache[c][p].stamp \/ cache[c][p].stamp = epoch[c]
  BY DEF Bumps, Advanced
<1>2. QED
  BY <1>1 DEF Current

\* A call that is warranted afterwards was before.
LEMMA AdvanceWarrants ==
    ASSUME WorkInv, NEW k \in Comp, NEW range, Bumps(k, range), NEW u \in Thread,
           thread'[u] = thread[u], Noticed(u), NEW i \in DOMAIN stack[u],
           thread[u].page \notin slipped', Warrant(u, i)'
    PROVE  Warrant(u, i)
<1>1. PICK p : p = thread[u].page /\ thread'[u].page = p
  OBVIOUS
<1>2. stack[u] # <<>> /\ stack' = stack
  <2>1. DOMAIN <<>> = {}
    OBVIOUS
  <2>2. QED
    BY <2>1 DEF Bumps
<1>3. /\ thread[u].pc \in {"rendering", "freezing", "refreezing"} /\ p \in Page
      /\ \A j \in DOMAIN stack[u] : CallShape(u, j) /\ stack[u][j].comp \in Comp /\ stack[u][j] \in Frame
  BY <1>1, <1>2, WorkTop
<1>4. Vouched(u)' => Vouched(u)
  BY <1>3, AdvanceSeen DEF Vouched
<1>5. Awaited(u)' => Awaited(u)
  BY DEF Awaited, Noticed, Retrying
<1>6. LiveFrom(u, i)' => LiveFrom(u, i)
  <2>1. ASSUME NEW j \in DOMAIN stack[u], Live(stack[u][j], p)' PROVE Live(stack[u][j], p)
    <3>1. PICK f : f = stack[u][j] /\ stack'[u][j] = f
      BY <1>2
    <3>2. /\ f.comp \in Comp /\ f.epoch <= epoch[f.comp] /\ f.epoch \in Nat
      BY <1>3, <3>1 DEF CallShape, Frame
    <3>3. f.at # "enter" /\ f.epoch = epoch'[f.comp] /\ Stable(f.comp, p)'
      BY <2>1, <3>1 DEF Live
    <3>4. /\ epoch[k] \in Nat
          /\ epoch'[k] = epoch[k] + 1
          /\ \A c \in Comp : c # k => epoch'[c] = epoch[c]
          /\ \A c \in Comp : c # k => (Stable(c, p)' => Stable(c, p))
      BY <1>3 DEF Bumps, Advanced, WorkInv, WorkTypes
    <3>5. f.comp # k
      BY <3>2, <3>3, <3>4
    <3>6. QED
      BY <3>1, <3>2, <3>3, <3>4, <3>5 DEF Live
  <2>2. QED
    BY <1>1, <1>2, <2>1 DEF LiveFrom
<1>7. QED
  BY <1>4, <1>5, <1>6 DEF Warrant

LEMMA AdvanceHoldings ==
    ASSUME WorkInv, NEW k \in Comp, NEW range, Bumps(k, range), NEW u \in Thread,
           thread'[u] = thread[u], NEW i \in DOMAIN stack[u], Holding(stack[u][i], thread[u].page)
    PROVE  Holding(stack[u][i], thread[u].page)'
<1>1. PICK p, f : p = thread[u].page /\ thread'[u].page = p /\ f = stack[u][i] /\ stack'[u][i] = f
  BY DEF Bumps
<1>2. p \in Page /\ f.comp \in Comp /\ f.epoch \in Nat /\ f.epoch <= epoch[f.comp] /\ stack[u] # <<>>
  <2>1. DOMAIN <<>> = {}
    OBVIOUS
  <2>2. QED
    BY <1>1, <2>1, WorkTop DEF CallShape, Frame
<1>3. model' = model
  BY DEF Bumps
<1>4. Current(cache'[f.comp][p], f.epoch) =>
          Current(cache[f.comp][p], f.epoch) /\ cache'[f.comp][p].shows = cache[f.comp][p].shows
  BY <1>2, ServedBefore
<1>5. QED
  BY <1>1, <1>3, <1>4 DEF Holding, Fresh

LEMMA AdvanceKeeps ==
    ASSUME WorkInv, NEW k \in Comp, NEW range, Bumps(k, range), NEW u \in Thread,
           thread'[u] = thread[u], Noticed(u)
    PROVE  WorkOK(u)'
<1>1. /\ WorkOK(u)
      /\ WorkTypes
      /\ WorkShape(u)
      /\ thread[u] \in WorkState
      /\ stack' = stack
      /\ model' = model
      /\ \A c \in Comp : epoch[c] \in Nat /\ epoch'[c] \in Nat /\ epoch[c] <= epoch'[c]
      /\ slipped \subseteq slipped'
  BY DEF WorkInv, WorkClaims, WorkOK, WorkTypes, Bumps, Advanced
<1>2. WorkShape(u)'
  <2>1. \A d \in Comp : thread[u].observed[d] <= epoch'[d]
    <3>1. \A d \in Comp : thread[u].observed[d] \in Nat /\ thread[u].observed[d] <= epoch[d]
      BY <1>1 DEF WorkShape, WorkState, Epochs
    <3>2. QED
      BY <1>1, <3>1
  <2>2. thread[u].pc \in Asking => thread[u].epoch <= epoch'[thread[u].comp]
    <3>1. SUFFICES ASSUME thread[u].pc \in Asking PROVE thread[u].epoch <= epoch'[thread[u].comp]
      OBVIOUS
    <3>2. PICK e, c : e = thread[u].epoch /\ c = thread[u].comp
      OBVIOUS
    <3>3. thread[u].node \in Comp /\ thread[u].node > 1 /\ c = thread[u].node - 1
          /\ e <= epoch[c] /\ e \in Nat
      BY <1>1, <3>1, <3>2 DEF WorkShape, WorkState, Asking
    <3>4. c \in Comp
      BY <3>3, HeightAssumption DEF Comp
    <3>5. e <= epoch'[c]
      BY <1>1, <3>3, <3>4
    <3>6. QED
      BY <3>2, <3>5
  <2>3. QED
    BY <1>1, <2>1, <2>2 DEF WorkShape
<1>3. ASSUME NEW i \in DOMAIN stack[u] PROVE CallShape(u, i)'
  <2>1. PICK f : f = stack[u][i] /\ stack'[u][i] = f
    BY <1>1
  <2>2. CallShape(u, i) /\ f \in Frame /\ f.comp \in Comp /\ (i > 1 => f.comp - 1 \in Comp)
    <3>1. DOMAIN <<>> = {}
      OBVIOUS
    <3>2. /\ CallShape(u, i) /\ f \in Frame /\ f.comp \in Comp /\ i \in Nat
          /\ f.comp = Top(u).comp + (i - 1) /\ Top(u).comp \in Nat \ {0}
      BY <2>1, <3>1, WorkTop
    <3>3. i > 1 => f.comp - 1 \in Comp
      BY <3>2, HeightAssumption DEF Comp
    <3>4. QED
      BY <3>2, <3>3
  <2>3. f.epoch \in Nat /\ f.prod \in Nat
    BY <2>2 DEF Frame
  <2>4. f.epoch <= epoch'[f.comp]
    <3>1. f.epoch <= epoch[f.comp]
      BY <2>1, <2>2 DEF CallShape
    <3>2. QED
      BY <1>1, <2>2, <2>3, <3>1
  <2>5. i > 1 => f.prod <= epoch'[f.comp - 1]
    <3>1. i > 1 => f.prod <= epoch[f.comp - 1]
      BY <2>1, <2>2 DEF CallShape
    <3>2. QED
      BY <1>1, <2>2, <2>3, <3>1
  <2>6. QED
    BY <1>1, <2>1, <2>2, <2>4, <2>5 DEF CallShape, Target
<1>4. ASSUME thread[u].page \notin slipped', thread[u].pc # "idle" PROVE NodeFresh(u)'
  <2>1. NodeFresh(u)
    BY <1>1, <1>4 DEF WorkOK
  <2>2. /\ Supplies(u, thread[u].got)' <=> Supplies(u, thread[u].got)
        /\ Supplies(u, thread[u].bound)' <=> Supplies(u, thread[u].bound)
        /\ Publishes(u, thread[u].got)' <=> Publishes(u, thread[u].got)
    BY <1>1 DEF Supplies, Publishes, Fresh
  <2>3. /\ SelfKept(u)' => SelfKept(u) /\ (InputKept(u)' => InputKept(u))
        /\ SelfKept(u)' /\ NodeStable(u)' => NodeStable(u)
        /\ InputKept(u)' /\ InputStable(u)' => InputKept(u) /\ InputStable(u)
    BY <1>4, AdvanceSeen
  <2>4. thread[u].pc \in Retrying /\ NodeStable(u)' => NodeStable(u)
    BY <1>4 DEF Noticed
  <2>5. thread[u].pc = "fast" /\ Serving(u) => Serving(u)'
    <3>1. SUFFICES ASSUME thread[u].pc = "fast", Serving(u) PROVE Serving(u)'
      OBVIOUS
    <3>2. PICK c, p, e : c = thread[u].node - 1 /\ p = thread[u].page /\ e = thread[u].epoch
      OBVIOUS
    <3>3. c \in Comp /\ p \in Page /\ e \in Nat /\ e <= epoch[c]
      BY <1>1, <3>1, <3>2, AtStep DEF Asking, WorkState
    <3>4. Current(cache'[c][p], e) => Current(cache[c][p], e) /\ cache'[c][p].shows = cache[c][p].shows
      BY <3>3, ServedBefore
    <3>5. QED
      BY <1>1, <3>1, <3>2, <3>4 DEF Serving, Supplies, Fresh
  <2>6. QED
    BY <2>1, <2>2, <2>3, <2>4, <2>5 DEF NodeFresh, Retrying
<1>5. thread[u].pc = "idle" => NodeFresh(u)'
  BY DEF NodeFresh
<1>6. ASSUME thread[u].page \notin slipped' PROVE CallsFresh(u)'
  <2>1. CallsFresh(u)
    BY <1>1, <1>6 DEF WorkOK
  <2>2. ASSUME NEW i \in DOMAIN stack[u], Warrant(u, i)' PROVE Holding(stack[u][i], thread[u].page)'
    <3>1. Warrant(u, i)
      BY <1>6, <2>2, AdvanceWarrants
    <3>2. Holding(stack[u][i], thread[u].page)
      BY <2>1, <3>1 DEF CallsFresh
    <3>3. QED
      BY <3>2, AdvanceHoldings
  <2>3. QED
    BY <1>1, <2>2 DEF CallsFresh
<1>7. QED
  BY <1>1, <1>2, <1>3, <1>4, <1>5, <1>6 DEF WorkOK


\* A page loses its doubt only with what it reads current by.
DoubtsStay(k, range) ==
    \A u \in Thread, c \in Comp, p \in Page :
        Doubted(u, c, p) => Doubted(u, c, p)' \/ (c = k /\ p \in range)

LEMMA AdvanceClaims ==
    ASSUME WorkInv, NEW k \in Comp, NEW range, Bumps(k, range), DoubtsStay(k, range)
    PROVE  /\ CacheShape' /\ HintShape'
           /\ \A c \in Comp, p \in Page : PageClaim(c, p)'
           /\ \A c \in Comp : HintClaim(c)'
<1>1. /\ WorkTypes /\ CacheShape /\ HintShape /\ cache \in [Comp -> [Page -> Cached]]
      /\ epoch \in [Comp -> Nat \ {0}] /\ hint \in [Comp -> Hinted]
      /\ \A c \in Comp, p \in Page : PageClaim(c, p)
      /\ \A c \in Comp : HintClaim(c)
  BY DEF WorkInv, WorkClaims, WorkTypes
<1>2. /\ UNCHANGED <<model, hint, stack>> /\ slipped \subseteq slipped'
      /\ \A c \in Comp, p \in Page : Stable(c, p)' => Stable(c, p) \/ (c = k /\ p \in range)
      /\ epoch' \in [Comp -> Nat \ {0}] /\ epoch'[k] = epoch[k] + 1
      /\ \A c \in Comp : epoch[c] <= epoch'[c] /\ (c # k => epoch'[c] = epoch[c])
  BY DEF Bumps, Advanced
<1>3. ASSUME NEW c \in Comp, NEW p \in Page
      PROVE  /\ cache[c][p].stamp \in Nat /\ cache'[c][p].valid = cache[c][p].valid
             /\ cache'[c][p].shows = cache[c][p].shows
             /\ \/ cache'[c][p].stamp = cache[c][p].stamp
                \/ /\ c = k /\ p \notin range /\ cache[c][p].stamp = epoch[c]
                   /\ cache'[c][p].stamp = epoch[c] + 1
  <2>1. cache[c][p] \in Cached
    BY <1>1
  <2>2. cache[c][p].stamp \in Nat
    BY <2>1 DEF Cached
  <2>3. QED
    BY <2>2 DEF Bumps, Advanced
<1>4. CacheShape'
  <2>1. ASSUME NEW c \in Comp, NEW p \in Page, cache'[c][p].valid
        PROVE  cache'[c][p].stamp <= epoch'[c] /\ cache'[c][p].shows # <<>>
    <3>1. cache[c][p].stamp <= epoch[c] /\ cache'[c][p].shows # <<>> /\ cache[c][p].stamp \in Nat
      BY <1>1, <1>3, <2>1 DEF CacheShape
    <3>2. /\ epoch[c] \in Nat
          /\ epoch'[c] \in Nat
          /\ epoch[c] <= epoch'[c]
          /\ (c = k => epoch'[c] = epoch[c] + 1)
      BY <1>1, <1>2
    <3>3. \/ cache'[c][p].stamp = cache[c][p].stamp
          \/ c = k /\ cache'[c][p].stamp = epoch[c] + 1
      BY <1>3
    <3>4. QED
      BY <3>1, <3>2, <3>3
  <2>2. QED
    BY <2>1 DEF CacheShape
<1>5. ASSUME NEW c \in Comp, hint[c].page \in Page
      PROVE  /\ c > 1 /\ c - 1 \in Comp /\ hint[c].observed \in Nat /\ hint[c].observed <= epoch[c - 1]
             /\ epoch[c - 1] \in Nat /\ epoch'[c - 1] \in Nat /\ epoch[c - 1] <= epoch'[c - 1]
  <2>1. c > 1 /\ hint[c].observed <= epoch[c - 1] /\ hint[c] \in Hinted
    BY <1>1, <1>5 DEF HintShape
  <2>2. c - 1 \in Comp
    BY <2>1, HeightAssumption DEF Comp
  <2>3. hint[c].observed \in Nat
    BY <2>1 DEF Hinted
  <2>4. QED
    BY <1>1, <1>2, <2>1, <2>2, <2>3
<1>6. HintShape'
  <2>1. ASSUME NEW c \in Comp, hint[c].page \in Page PROVE c > 1 /\ hint[c].observed <= epoch'[c - 1]
    BY <1>5, <2>1
  <2>2. QED
    BY <1>2, <2>1 DEF HintShape
<1>7. ASSUME NEW c \in Comp, NEW p \in Page PROVE PageClaim(c, p)'
  <2>1. SUFFICES ASSUME p \notin slipped', Stable(c, p)', ReadsCurrent(c, p)',
                        \A u \in Thread : ~Doubted(u, c, p)'
                 PROVE  cache'[c][p].shows = Fresh(c, p)'
    BY DEF PageClaim
  <2>2. cache'[c][p].valid /\ cache'[c][p].stamp = epoch'[c]
    BY <2>1 DEF ReadsCurrent
  <2>3. cache[c][p].stamp <= epoch[c] /\ epoch[c] \in Nat
    BY <1>1, <1>3, <2>2 DEF CacheShape
  <2>4. ~(c = k /\ p \in range) /\ cache[c][p].stamp = epoch[c]
    BY <1>2, <1>3, <2>2, <2>3
  <2>5. ReadsCurrent(c, p) /\ p \notin slipped /\ Stable(c, p) /\ \A u \in Thread : ~Doubted(u, c, p)
    <3>1. ReadsCurrent(c, p)
      BY <1>3, <2>2, <2>4 DEF ReadsCurrent
    <3>2. QED
      BY <1>2, <2>1, <2>4, <3>1 DEF DoubtsStay
  <2>6. cache[c][p].shows = Fresh(c, p)
    BY <1>1, <2>5 DEF PageClaim
  <2>7. QED
    BY <1>2, <1>3, <2>6 DEF Fresh
<1>8. ASSUME NEW c \in Comp PROVE HintClaim(c)'
  <2>1. PICK h : h = hint[c] /\ hint'[c] = h
    BY <1>2
  <2>2. SUFFICES ASSUME h.page \in Page, h.page \notin slipped', h.observed = epoch'[c - 1],
                        Stable(c - 1, h.page)'
                 PROVE  h.shows = Fresh(c - 1, h.page)'
    BY <2>1 DEF HintClaim
  <2>3. c - 1 \in Comp /\ h.observed \in Nat /\ h.observed <= epoch[c - 1] /\ epoch[c - 1] \in Nat
    BY <1>5, <2>1, <2>2
  <2>4. c - 1 # k /\ epoch'[c - 1] = epoch[c - 1]
    BY <1>2, <2>2, <2>3
  <2>5. h.shows = Fresh(c - 1, h.page)
    BY <1>1, <1>2, <2>1, <2>2, <2>3, <2>4 DEF HintClaim
  <2>6. QED
    BY <1>2, <2>5 DEF Fresh
<1>9. QED
  BY <1>4, <1>6, <1>7, <1>8

\* What a bump of the edit does.
EditAdvanced(k, range) ==
    /\ Bumps(k, range) /\ slipped' = slipped \cup Slips(k, range)
    /\ EditShape' /\ late' \subseteq Comp \X Page
    /\ \A c \in Comp, p \in Page : Stable(c, p)' /\ ~Stable(c, p) => c = k /\ p \in range
    /\ UNCHANGED <<edits, inflight, thread, model, stack>>

LEMMA EditAdvances ==
    ASSUME WorkInv, EditBump
    PROVE  \E k \in Comp, range \in SUBSET Page : EditAdvanced(k, range)
<1>1. /\ WorkTypes /\ EditShape /\ late \subseteq Comp \X Page
      /\ cache \in [Comp -> [Page -> Cached]] /\ epoch \in [Comp -> Nat \ {0}]
  BY DEF WorkInv, WorkTypes
<1>2. PICK k, range : k = Head(edit.path) /\ range = Touched
  OBVIOUS
<1>3. k \in Comp /\ range \in SUBSET Page /\ EditShape' /\ late' \subseteq Comp \X Page
  BY <1>1, <1>2, BumpedOne
<1>4. /\ slipped' = slipped \cup Slips(k, range)
      /\ UNCHANGED <<model, edits, hint, inflight, thread, stack>>
  BY <1>2 DEF EditBump
<1>5. RangeInvalidated(k, range) \/ Bumped(k)
  BY <1>2 DEF EditBump, EditBumps, Touched
<1>6. Advanced(k, range)
  BY <1>1, <1>3, <1>5, RangeAdvances
<1>7. \A c \in Comp, p \in Page : Stable(c, p)' => Stable(c, p) \/ (c = k /\ p \in range)
  BY <1>1, <1>2, BumpedStable
<1>8. Bumps(k, range)
  BY <1>4, <1>6, <1>7 DEF Bumps
<1>9. EditAdvanced(k, range)
  BY <1>3, <1>4, <1>7, <1>8 DEF EditAdvanced
<1>10. QED
  BY <1>3, <1>9

\* A bump that reaches a node inside its retry slips; what the node holds is not
\* fresh any more, and nothing is claimed of it.
LEMMA EditBumpWorks ==
    ASSUME WorkInv, EditBump
    PROVE  WorkInv'
<1>0. PICK k \in Comp, range \in SUBSET Page : EditAdvanced(k, range)
  BY EditAdvances
<1>1. /\ Bumps(k, range) /\ slipped' = slipped \cup Slips(k, range)
      /\ EditShape' /\ late' \subseteq Comp \X Page
      /\ \A c \in Comp, p \in Page : Stable(c, p)' /\ ~Stable(c, p) => c = k /\ p \in range
      /\ UNCHANGED <<edits, inflight, thread, model, stack>>
  BY <1>0 DEF EditAdvanced
<1>2. /\ WorkersOnly /\ WorkTypes /\ OnePage /\ OwnClaims
      /\ \A u \in Thread : WorkShape(u) /\ u \in Worker
  BY DEF WorkInv, WorkClaims, WorkOK, WorkersOnly, Thread
<1>3. ASSUME NEW u \in Thread PROVE Noticed(u)
  <2>1. thread' = thread
    BY <1>1
  <2>2. ASSUME thread[u].pc \in Retrying, thread[u].page \notin slipped', NodeStable(u)' PROVE NodeStable(u)
    <3>1. PICK c, p : c = thread[u].node /\ p = thread[u].page
      OBVIOUS
    <3>2. c \in Comp /\ p \in Page
      BY <1>2, <2>2, <3>1 DEF WorkShape, Retrying
    <3>3. Stable(c, p)'
      BY <2>1, <2>2, <3>1 DEF NodeStable
    <3>4. ~(c = k /\ p \in range)
      BY <1>1, <1>2, <2>2, <3>1 DEF Slips
    <3>5. QED
      BY <1>1, <3>1, <3>2, <3>3, <3>4 DEF NodeStable
  <2>3. QED
    BY <2>1, <2>2 DEF Noticed
<1>4. \A u \in Thread : WorkOK(u)'
  BY <1>1, <1>3, AdvanceKeeps
<1>5. DoubtsStay(k, range)
  <2>1. \A u \in Thread : InDoubt(u) => InDoubt(u)'
    BY <1>1, AdvanceDoubts
  <2>2. QED
    BY <1>1, <2>1 DEF DoubtsStay, Doubted
<1>6. /\ CacheShape' /\ HintShape' /\ \A c \in Comp, p \in Page : PageClaim(c, p)'
      /\ \A c \in Comp : HintClaim(c)'
  BY <1>1, <1>5, AdvanceClaims
<1>7. WorkTypes'
  BY <1>1, <1>2 DEF WorkTypes, Bumps, Advanced
<1>8. OnePage' /\ OwnClaims' /\ WorkersOnly'
  BY <1>1, <1>2 DEF OnePage, OwnClaims, WorkersOnly
<1>9. QED
  BY <1>4, <1>6, <1>7, <1>8 DEF WorkInv, WorkClaims

\* A node invalidates its own page: what it holds stays, and its page does not read
\* current.  A node that has re-staled its page has not kept its own epoch.
LEMMA OwnBumpWorks ==
    ASSUME WorkInv, NEW t \in Thread, NEW next,
           \/ thread[t].pc = "drop" /\ next = "observe"
           \/ thread[t].pc = "restale" /\ next = "complete",
           stack[t] = <<>>, RangeInvalidated(thread[t].node, {thread[t].page}), Goto(t, next),
           UNCHANGED <<editing, hint, inflight, stack, slipped>>
    PROVE  WorkInv'
<1>1. PICK old, k, p : old = thread[t] /\ k = old.node /\ p = old.page
  OBVIOUS
<1>2. /\ old \in WorkState /\ p \in Page /\ k \in Comp /\ \A d \in Comp : old.observed[d] <= epoch[d]
      /\ old.pc \in {"drop", "restale"} /\ WorkOK(t)
      /\ \A u \in Thread : u # t => thread[u].page # p
      /\ old.pc = "drop" => (k > 1 => old.bound # <<>>)
      /\ old.pc = "restale" => old.got # <<>>
  <2>1. old.pc \in {"drop", "restale"} /\ WorkOK(t)
    BY <1>1 DEF WorkInv, WorkClaims
  <2>2. /\ old \in WorkState /\ p \in Page /\ k \in Comp /\ \A d \in Comp : old.observed[d] <= epoch[d]
        /\ \A u \in Thread : u # t => thread[u].page # p
    BY <1>1, <2>1, AtWork
  <2>3. /\ old.pc = "drop" => (k > 1 => old.bound # <<>>)
        /\ old.pc = "restale" => old.got # <<>>
    BY <1>1, <2>1 DEF WorkOK, WorkShape, Binding, Having
  <2>4. QED
    BY <2>1, <2>2, <2>3
<1>3. /\ WorkersOnly /\ WorkTypes /\ OnePage /\ OwnClaims /\ thread \in [Thread -> WorkState]
      /\ cache \in [Comp -> [Page -> Cached]] /\ epoch \in [Comp -> Nat \ {0}] /\ EditShape
  BY DEF WorkInv, WorkTypes
<1>4. UNCHANGED <<model, edit, late, edits, hint, inflight, stack, slipped>>
  BY DEF editing
<1>5. PICK new \in WorkState :
          /\ thread' = [thread EXCEPT ![t] = new]
          /\ new.pc = next /\ new.page = p /\ new.node = k /\ new.observed = old.observed
          /\ new.bound = old.bound /\ new.got = old.got
  <2> DEFINE n == [old EXCEPT !.pc = next]
  <2>1. n \in WorkState
    BY <1>1, <1>2 DEF WorkState, WorkPc, Binding, Having
  <2>2. /\ n.pc = next /\ n.page = p /\ n.node = k /\ n.observed = old.observed
        /\ n.bound = old.bound /\ n.got = old.got
    BY <1>1, <1>2 DEF WorkState
  <2>3. thread' = [thread EXCEPT ![t] = n]
    BY <1>1 DEF Goto
  <2> HIDE DEF n
  <2>4. QED
    BY <2>1, <2>2, <2>3
<1>6. /\ thread' \in [Thread -> WorkState] /\ thread'[t] = new
      /\ \A u \in Thread : u # t => thread'[u] = thread[u]
  BY <1>3, <1>5
<1>7. \A c \in Comp, q \in Page : Stable(c, q)' <=> Stable(c, q)
  BY <1>4 DEF Stable, Reached, Touched
<1>8. Bumps(k, {p})
  <2>1. Advanced(k, {p})
    BY <1>1, <1>2, <1>3, RangeAdvances
  <2>2. QED
    BY <1>4, <1>7, <2>1 DEF Bumps
<1>9. /\ epoch'[k] = epoch[k] + 1
      /\ \A d \in Comp : epoch[d] <= epoch'[d] /\ epoch[d] \in Nat /\ epoch'[d] \in Nat
      /\ epoch' \in [Comp -> Nat \ {0}] /\ cache' \in [Comp -> [Page -> Cached]]
  BY <1>3, <1>8 DEF Bumps, Advanced
<1>10. ASSUME NEW u \in Thread, u # t PROVE Noticed(u) /\ thread'[u] = thread[u]
  <2>1. thread'[u] = thread[u] /\ WorkShape(u)
    BY <1>6, <1>10 DEF WorkInv, WorkClaims, WorkOK
  <2>2. thread[u].pc \in Retrying => thread[u].node \in Comp /\ thread[u].page \in Page
    BY <2>1 DEF WorkShape, Retrying
  <2>3. NodeStable(u)' <=> NodeStable(u)
    BY <1>4, <2>1 DEF NodeStable, Stable, Reached, Touched
  <2>4. QED
    BY <2>1, <2>3 DEF Noticed
<1>11. \A u \in Thread : u # t => WorkOK(u)'
  BY <1>2, <1>8, <1>10, AdvanceKeeps
<1>12. WorkOK(t)'
  <2>1. \A d \in Comp : new.observed[d] <= epoch'[d]
    <3>1. \A d \in Comp : old.observed[d] \in Nat
      BY <1>2 DEF WorkState, Epochs
    <3>2. QED
      BY <1>2, <1>5, <1>9, <3>1
  <2>2. new.pc \in {"observe", "complete"} /\ stack'[t] = <<>>
    BY <1>4, <1>5
  <2>3. WorkShape(t)'
    BY <1>1, <1>2, <1>5, <1>6, <2>1, <2>2 DEF WorkShape, Asking, Binding, Having
  <2>4. CallsFresh(t)' /\ \A i \in DOMAIN stack'[t] : CallShape(t, i)'
    <3>1. DOMAIN <<>> = {}
      OBVIOUS
    <3>2. QED
      BY <2>2, <3>1 DEF CallsFresh
  <2>5. ASSUME p \notin slipped PROVE NodeFresh(t)'
    <3>1. CASE new.pc = "observe"
      <4>1. ASSUME NodeStable(t)' PROVE Supplies(t, thread[t].bound)'
        <5>1. NodeStable(t) /\ old.pc = "drop"
          BY <1>1, <1>4, <1>5, <1>6, <3>1, <4>1 DEF NodeStable, Stable, Reached, Touched
        <5>2. Supplies(t, old.bound)
          BY <1>1, <1>2, <2>5, <5>1 DEF WorkOK, NodeFresh
        <5>3. /\ thread'[t].bound = old.bound /\ thread'[t].node = k /\ thread'[t].page = p
              /\ thread[t].node = k /\ thread[t].page = p
          BY <1>1, <1>5, <1>6
        <5>4. QED
          BY <1>4, <5>2, <5>3 DEF Supplies, Fresh
      <4>2. QED
        BY <1>6, <3>1, <4>1 DEF NodeFresh
    <3>2. CASE new.pc = "complete"
      <4>1. ~SelfKept(t)'
        <5>1. old.observed[k] <= epoch[k] /\ old.observed[k] \in Nat /\ epoch[k] \in Nat
          BY <1>2, <1>9 DEF WorkState, Epochs
        <5>2. old.observed[k] # epoch'[k]
          BY <1>9, <5>1
        <5>3. QED
          BY <1>5, <1>6, <5>2 DEF SelfKept
      <4>2. QED
        BY <1>6, <3>2, <4>1 DEF NodeFresh
    <3>3. QED
      BY <2>2, <3>1, <3>2
  <2>6. QED
    BY <1>4, <1>5, <1>6, <2>3, <2>4, <2>5 DEF WorkOK
<1>13. DoubtsStay(k, {p})
  <2>1. ASSUME NEW u \in Thread, NEW c \in Comp, NEW q \in Page, Doubted(u, c, q), u # t
        PROVE  Doubted(u, c, q)'
    BY <1>2, <1>8, <1>10, <2>1, AdvanceDoubts DEF Doubted
  <2>2. ASSUME NEW c \in Comp, NEW q \in Page, Doubted(t, c, q) PROVE c = k /\ q \in {p}
    BY <1>1, <2>2 DEF Doubted
  <2>3. QED
    BY <2>1, <2>2 DEF DoubtsStay
<1>14. /\ CacheShape' /\ HintShape' /\ \A c \in Comp, q \in Page : PageClaim(c, q)'
       /\ \A c \in Comp : HintClaim(c)'
  BY <1>2, <1>8, <1>13, AdvanceClaims
<1>15. WorkTypes'
  BY <1>3, <1>4, <1>6, <1>9 DEF WorkTypes, EditShape
<1>16. OnePage'
  BY <1>1, <1>3, <1>5, <1>6 DEF OnePage
<1>17. OwnClaims'
  <2>1. ASSUME NEW c \in Comp, NEW q \in Page, NEW u \in Thread, inflight'[c][q].owner = u
        PROVE  thread'[u].page = q /\ thread'[u].comp = c /\ thread'[u].pc \in {"rendering", "erase"}
    <3>1. thread[u].page = q /\ thread[u].comp = c /\ thread[u].pc \in {"rendering", "erase"}
      BY <1>3, <1>4, <2>1 DEF OwnClaims
    <3>2. u # t
      BY <1>1, <1>2, <3>1
    <3>3. QED
      BY <1>6, <3>1, <3>2
  <2>2. QED
    BY <2>1 DEF OwnClaims
<1>18. QED
  BY <1>3, <1>11, <1>12, <1>14, <1>15, <1>16, <1>17 DEF WorkInv, WorkClaims, WorkersOnly

LEMMA RetryDropWorks ==
    ASSUME WorkInv, NEW t \in Thread, RetryDrop(t)
    PROVE  WorkInv'
BY OwnBumpWorks DEF RetryDrop, At

LEMMA SelfRestaleWorks ==
    ASSUME WorkInv, NEW t \in Thread, SelfRestale(t)
    PROVE  WorkInv'
BY OwnBumpWorks DEF SelfRestale, At


-----------------------------------------------------------------------------
(***************************************************************************)
(* An edit begins, and a page is pruned                                    *)
(***************************************************************************)
\* What an edit leaves a worker: all but the record of quiet.
SameWork(u) ==
    /\ thread'[u].pc = thread[u].pc /\ thread'[u].page = thread[u].page
    /\ thread'[u].node = thread[u].node /\ thread'[u].comp = thread[u].comp
    /\ thread'[u].epoch = thread[u].epoch /\ thread'[u].got = thread[u].got
    /\ thread'[u].bound = thread[u].bound /\ thread'[u].observed = thread[u].observed

\* What an edit of k and range does not touch.
Apart(k, range, c, p) == c < k \/ p \notin range

LEMMA EditDisturbs ==
    ASSUME WorkInv, NEW k \in Comp, NEW range \in Ranges, NEW whole \in BOOLEAN,
           NEW walk \in Walks[k], EditBegin(k, range, whole, walk)
    PROVE  /\ model' \in [Comp -> [Page -> Version]] /\ edits' \in Version /\ EditShape'
           /\ UNCHANGED <<late, epoch, cache, hint, inflight, stack, slipped>>
           /\ thread' \in [Thread -> WorkState] /\ \A u \in Thread : SameWork(u)
           /\ \A c \in Comp, p \in Page : Stable(c, p)' => Stable(c, p)
           /\ \A c \in Comp, p \in Page : Stable(c, p)' => Apart(k, range, c, p)
           /\ \A c \in Comp, p \in Page : Apart(k, range, c, p) =>
                  /\ Fresh(c, p)' = Fresh(c, p) /\ Fresh(c - 1, p)' = Fresh(c - 1, p)
                  /\ model'[c][p] = model[c][p]
<1>1. /\ model \in [Comp -> [Page -> Version]] /\ edits \in Version /\ thread \in [Thread -> WorkState]
  BY DEF WorkInv, WorkTypes
<1>2. /\ edit = NoEdit /\ edits' = edits + 1 /\ thread' = Disturbed
      /\ edit' = [path |-> walk, range |-> range, whole |-> whole]
      /\ UNCHANGED <<late, epoch, cache, hint, inflight, stack, slipped>>
  BY DEF EditBegin, caching
<1>3. /\ model' \in [Comp -> [Page -> Version]] /\ edits' \in Version
      /\ \A d \in Comp, p \in Page : d # k \/ p \notin range => model'[d][p] = model[d][p]
  BY <1>1, <1>2, ModelEdited
<1>4. EditShape'
  <2>1. walk \in Seq(Comp) \ {<<>>}
    BY WalksAssumption, EmptySeq
  <2>2. QED
    BY <1>2, <2>1 DEF EditShape
<1>5. ASSUME NEW u \in Thread PROVE thread'[u] \in WorkState /\ SameWork(u)
  <2> PICK none \in Quiet : none = Idle.quiet
    BY DEF Idle, Quiet
  <2> DEFINE next == [thread[u] EXCEPT !.quiet = none]
  <2>1. thread[u] \in WorkState
    BY <1>1
  <2>2. /\ next \in WorkState /\ next.pc = thread[u].pc /\ next.page = thread[u].page
        /\ next.node = thread[u].node /\ next.comp = thread[u].comp
        /\ next.epoch = thread[u].epoch /\ next.got = thread[u].got
        /\ next.bound = thread[u].bound /\ next.observed = thread[u].observed
    BY <2>1, ZenonT(30) DEF WorkState
  <2>3. thread'[u] = next
    BY <1>2 DEF Disturbed
  <2> HIDE DEF next
  <2>4. QED
    BY <2>2, <2>3 DEF SameWork
<1>6. thread' \in [Thread -> WorkState]
  <2>1. thread' = [u \in Thread |-> thread'[u]]
    BY <1>2 DEF Disturbed
  <2>2. QED
    BY <1>5, <2>1
<1>7. \A c \in Comp, p \in Page : Stable(c, p)' => Stable(c, p)
  BY <1>2 DEF Stable, Touched, NoEdit
<1>8. ASSUME NEW c \in Comp, NEW p \in Page, Stable(c, p)' PROVE Apart(k, range, c, p)
  <2>1. PICK i \in DOMAIN walk : walk[i] = k
    BY WalksAssumption
  <2>2. ~Reached(k)'
    BY <1>2, <2>1 DEF Reached
  <2>3. p \in range => p \in Touched'
    BY <1>2 DEF Touched
  <2>4. ~(c < k) => k \in 1 .. c
    BY HeightAssumption DEF Comp
  <2>5. QED
    BY <1>8, <2>2, <2>3, <2>4 DEF Stable, Apart
<1>9. ASSUME NEW c \in Comp, NEW p \in Page, Apart(k, range, c, p)
      PROVE  /\ Fresh(c, p)' = Fresh(c, p) /\ Fresh(c - 1, p)' = Fresh(c - 1, p)
             /\ model'[c][p] = model[c][p]
  <2>1. /\ c \in Nat /\ k \in Nat /\ c <= Height /\ Height \in Nat
        /\ \A i \in 1 .. c : i \in Comp /\ (c < k => i # k)
    BY HeightAssumption DEF Comp
  <2>2. \A i \in 1 .. c : model'[i][p] = model[i][p]
    BY <1>3, <1>9, <2>1 DEF Apart
  <2>3. \A i \in 1 .. c - 1 : i \in 1 .. c
    BY <2>1
  <2>4. c \in 1 .. c
    BY <2>1 DEF Comp
  <2>5. QED
    BY <2>2, <2>3, <2>4 DEF Fresh
<1>10. QED
  BY <1>2, <1>3, <1>4, <1>5, <1>6, <1>7, <1>8, <1>9

\* What a worker holds rests on what the edit does not touch, or is excepted.
LEMMA EditSpares ==
    ASSUME WorkInv, NEW k \in Comp, NEW range \in Ranges, NEW whole \in BOOLEAN,
           NEW walk \in Walks[k], EditBegin(k, range, whole, walk), NEW u \in Thread
    PROVE  WorkOK(u)' /\ (InDoubt(u)' <=> InDoubt(u))
<1>1. /\ UNCHANGED <<late, epoch, cache, hint, inflight, stack, slipped>> /\ SameWork(u)
      /\ \A c \in Comp, p \in Page : Stable(c, p)' => Stable(c, p)
      /\ \A c \in Comp, p \in Page : Stable(c, p)' => Apart(k, range, c, p)
      /\ \A c \in Comp, p \in Page : Apart(k, range, c, p) =>
             /\ Fresh(c, p)' = Fresh(c, p) /\ Fresh(c - 1, p)' = Fresh(c - 1, p)
             /\ model'[c][p] = model[c][p]
  BY EditDisturbs
<1>2. WorkOK(u) /\ WorkShape(u) /\ \A i \in DOMAIN stack[u] : CallShape(u, i)
  BY DEF WorkInv, WorkClaims, WorkOK
<1>3. WorkShape(u)'
  BY <1>1, <1>2 DEF WorkShape, SameWork
<1>4. ASSUME NEW i \in DOMAIN stack[u] PROVE CallShape(u, i)'
  BY <1>1, <1>2 DEF CallShape, Target, SameWork
<1>5. /\ InputKept(u)' <=> InputKept(u)
      /\ SelfKept(u)' <=> SelfKept(u)
  BY <1>1 DEF InputKept, SelfKept, SameWork
<1>6. InDoubt(u)' <=> InDoubt(u)
  BY <1>1, <1>5 DEF InDoubt, SameWork
<1>7. PICK n, p : n = thread[u].node /\ p = thread[u].page /\ thread'[u].node = n /\ thread'[u].page = p
  BY <1>1 DEF SameWork
<1>8. thread[u].pc # "idle" => n \in Comp /\ n \in Nat /\ k \in Nat /\ p \in Page /\ (n > 1 => n - 1 \in Comp)
  BY <1>7, AtWork, HeightAssumption DEF Comp
<1>9. ASSUME p \notin slipped, thread[u].pc # "idle" PROVE NodeFresh(u)'
  <2>1. NodeFresh(u)
    BY <1>2, <1>7, <1>9 DEF WorkOK
  <2>2. /\ NodeStable(u)' => NodeStable(u)
        /\ InputStable(u)' => InputStable(u)
    BY <1>1, <1>7, <1>8, <1>9 DEF NodeStable, InputStable
  <2>3. NodeStable(u)' => Apart(k, range, n, p) /\ Fresh(n, p)' = Fresh(n, p) /\ Fresh(n - 1, p)' = Fresh(n - 1, p)
    BY <1>1, <1>7, <1>8, <1>9 DEF NodeStable
  <2>4. InputStable(u)' /\ n > 1 => Fresh(n - 1, p)' = Fresh(n - 1, p)
    BY <1>1, <1>7, <1>8, <1>9 DEF InputStable
  <2>5. /\ thread'[u].got = thread[u].got
        /\ thread'[u].bound = thread[u].bound
        /\ thread'[u].pc = thread[u].pc
        /\ thread'[u].epoch = thread[u].epoch
    BY <1>1 DEF SameWork
  <2>6. /\ NodeStable(u)' \/ InputStable(u)' =>
               /\ Supplies(u, thread[u].got) => Supplies(u, thread[u].got)'
               /\ Supplies(u, thread[u].bound) => Supplies(u, thread[u].bound)'
        /\ NodeStable(u)' => (Publishes(u, thread[u].got) => Publishes(u, thread[u].got)')
    BY <1>7, <2>3, <2>4, <2>5 DEF Supplies, Publishes
  <2>7. NodeStable(u)' => (Serving(u) => Serving(u)')
    BY <1>1, <1>7, <2>3, <2>5 DEF Serving, Supplies
  <2>8. QED
    BY <1>5, <2>1, <2>2, <2>5, <2>6, <2>7 DEF NodeFresh
<1>10. thread[u].pc = "idle" => NodeFresh(u)'
  BY <1>1 DEF NodeFresh, SameWork
<1>11. ASSUME p \notin slipped, NEW i \in DOMAIN stack[u], Warrant(u, i)'
       PROVE  Holding(stack[u][i], thread[u].page)'
  <2>1. stack[u] # <<>> /\ stack' = stack
    <3>1. DOMAIN <<>> = {}
      OBVIOUS
    <3>2. QED
      BY <1>1, <3>1
  <2>2. /\ p \in Page /\ i \in Nat /\ Top(u).comp \in Nat /\ thread[u].pc = thread'[u].pc
        /\ \A j \in DOMAIN stack[u] : /\ stack[u][j].comp \in Comp /\ j \in Nat
                                      /\ stack[u][j].comp = Top(u).comp + (j - 1)
                                      /\ stack[u][j].comp <= n
        /\ n \in Comp
    BY <1>1, <1>7, <2>1, WorkTop DEF SameWork
  <2>3. \A c \in Comp : c \in Int
    BY HeightAssumption DEF Comp
  <2>4. PICK f : f = stack[u][i] /\ stack'[u][i] = f
    BY <2>1
  <2>5. Warrant(u, i) /\ Apart(k, range, f.comp, p)
    <3>1. CASE Awaited(u)'
      <4>1. NodeStable(u)' /\ thread[u].pc = "rendering"
        BY <1>1, <3>1 DEF Awaited, SameWork
      <4>2. Apart(k, range, n, p)
        BY <1>1, <1>7, <2>2, <4>1 DEF NodeStable
      <4>3. NodeStable(u)
        BY <1>1, <1>7, <2>2, <4>1 DEF NodeStable
      <4>4. QED
        BY <2>2, <2>3, <2>4, <4>1, <4>2, <4>3 DEF Warrant, Awaited, Apart
    <3>2. CASE LiveFrom(u, i)' /\ Vouched(u)'
      <4>1. PICK j \in DOMAIN stack[u] : i <= j /\ Live(stack[u][j], p)'
        BY <1>7, <2>1, <3>2 DEF LiveFrom
      <4>2. Apart(k, range, stack[u][j].comp, p)
        BY <1>1, <2>1, <2>2, <4>1 DEF Live
      <4>3. Live(stack[u][j], p)
        BY <1>1, <2>1, <2>2, <4>1 DEF Live
      <4>4. Vouched(u)
        BY <1>1, <1>5, <3>2 DEF Vouched, SameWork
      <4>5. stack[u][i].comp <= stack[u][j].comp
        BY <2>2, <4>1
      <4>6. QED
        BY <1>7, <2>2, <2>3, <2>4, <4>1, <4>2, <4>3, <4>4, <4>5 DEF Warrant, LiveFrom, Apart
    <3>3. QED
      BY <1>11, <3>1, <3>2 DEF Warrant
  <2>6. Holding(f, p)
    BY <1>2, <1>7, <1>11, <2>4, <2>5 DEF WorkOK, CallsFresh
  <2>7. f.comp \in Comp
    BY <2>2, <2>4
  <2>8. /\ Fresh(f.comp, p)' = Fresh(f.comp, p) /\ Fresh(f.comp - 1, p)' = Fresh(f.comp - 1, p)
        /\ model'[f.comp][p] = model[f.comp][p] /\ cache' = cache
    BY <1>1, <2>2, <2>5, <2>7
  <2>9. QED
    BY <1>7, <2>4, <2>6, <2>8 DEF Holding
<1>12. QED
  <2>1. p \notin slipped => CallsFresh(u)'
    BY <1>1, <1>11 DEF CallsFresh
  <2>2. QED
    BY <1>1, <1>3, <1>4, <1>6, <1>7, <1>9, <1>10, <2>1 DEF WorkOK


LEMMA EditBeginWorks ==
    ASSUME WorkInv, NEW k \in Comp, NEW range \in Ranges, NEW whole \in BOOLEAN,
           NEW walk \in Walks[k], EditBegin(k, range, whole, walk)
    PROVE  WorkInv'
<1>1. /\ model' \in [Comp -> [Page -> Version]] /\ edits' \in Version /\ EditShape'
      /\ UNCHANGED <<late, epoch, cache, hint, inflight, stack, slipped>>
      /\ thread' \in [Thread -> WorkState] /\ \A u \in Thread : SameWork(u)
      /\ \A c \in Comp, p \in Page : Stable(c, p)' => Stable(c, p)
      /\ \A c \in Comp, p \in Page : Stable(c, p)' => Apart(k, range, c, p)
      /\ \A c \in Comp, p \in Page : Apart(k, range, c, p) => Fresh(c, p)' = Fresh(c, p)
  BY EditDisturbs
<1>2. /\ WorkersOnly /\ WorkTypes /\ CacheShape /\ HintShape /\ OnePage /\ OwnClaims
      /\ \A c \in Comp, p \in Page : PageClaim(c, p)
      /\ \A c \in Comp : HintClaim(c)
  BY DEF WorkInv, WorkClaims
<1>3. \A u \in Thread : WorkOK(u)' /\ (InDoubt(u)' <=> InDoubt(u))
  BY EditSpares
<1>4. WorkTypes' /\ CacheShape' /\ HintShape'
  BY <1>1, <1>2 DEF WorkTypes, CacheShape, HintShape
<1>5. OnePage' /\ OwnClaims'
  BY <1>1, <1>2 DEF OnePage, OwnClaims, SameWork
<1>6. ASSUME NEW c \in Comp, NEW p \in Page PROVE PageClaim(c, p)'
  <2>1. \A u \in Thread : Doubted(u, c, p) => Doubted(u, c, p)'
    BY <1>1, <1>3 DEF Doubted, SameWork
  <2>2. QED
    BY <1>1, <1>2, <2>1 DEF PageClaim, ReadsCurrent
<1>7. ASSUME NEW c \in Comp PROVE HintClaim(c)'
  <2>1. PICK h : h = hint[c] /\ hint'[c] = h
    BY <1>1
  <2>2. h.page \in Page => c - 1 \in Comp
    BY <1>2, <2>1, HeightAssumption DEF HintShape, Comp
  <2>3. HintClaim(c)
    BY <1>2
  <2>4. QED
    BY <1>1, <2>1, <2>2, <2>3 DEF HintClaim
<1>8. QED
  BY <1>2, <1>3, <1>4, <1>5, <1>6, <1>7 DEF WorkInv, WorkClaims, WorkersOnly

\* A page pruned is read by nobody any more.
LEMMA PruneWorks ==
    ASSUME WorkInv, NEW k \in Comp, NEW gone \in Page, Prune(k, gone)
    PROVE  WorkInv'
<1>1. /\ WorkersOnly /\ WorkTypes /\ CacheShape /\ HintShape /\ OnePage /\ OwnClaims
      /\ cache \in [Comp -> [Page -> Cached]]
      /\ \A c \in Comp, p \in Page : PageClaim(c, p)
      /\ \A c \in Comp : HintClaim(c)
      /\ \A u \in Thread : WorkOK(u)
  BY DEF WorkInv, WorkClaims, WorkTypes
<1>2. /\ UNCHANGED <<model, edit, late, edits, epoch, hint, inflight, thread, stack, slipped>>
      /\ cache' = [cache EXCEPT ![k][gone] = NoPage] /\ NoPage \in {NoPage, Placeholder}
  BY DEF Prune, editing
<1>3. /\ cache' \in [Comp -> [Page -> Cached]]
      /\ \A c \in Comp, p \in Page : cache'[c][p].valid => cache'[c][p] = cache[c][p]
  BY <1>1, <1>2, PagePutAside
<1>4. WorkTypes' /\ CacheShape' /\ HintShape' /\ OnePage' /\ OwnClaims'
  BY <1>1, <1>2, <1>3 DEF WorkTypes, CacheShape, HintShape, OnePage, OwnClaims, EditShape
<1>5. ASSUME NEW u \in Thread PROVE InDoubt(u)' <=> InDoubt(u)
  BY <1>2 DEF InDoubt, InputKept, SelfKept
<1>6. ASSUME NEW c \in Comp, NEW p \in Page PROVE PageClaim(c, p)'
  <2>1. \A u \in Thread : Doubted(u, c, p) => Doubted(u, c, p)'
    BY <1>2, <1>5 DEF Doubted
  <2>2. PageClaim(c, p) /\ (cache'[c][p].valid => cache'[c][p] = cache[c][p])
    BY <1>1, <1>3
  <2>3. QED
    BY <1>2, <2>1, <2>2 DEF PageClaim, ReadsCurrent, Stable, Reached, Touched, Fresh
<1>7. ASSUME NEW c \in Comp PROVE HintClaim(c)'
  <2>1. PICK h : h = hint[c] /\ hint'[c] = h /\ HintClaim(c)
    BY <1>1, <1>2
  <2>2. Stable(c - 1, h.page)' => Stable(c - 1, h.page)
    BY <1>2 DEF Stable, Reached, Touched
  <2>3. QED
    BY <1>2, <2>1, <2>2 DEF HintClaim, Fresh
<1>8. ASSUME NEW u \in Thread PROVE WorkOK(u)'
  <2>1. WorkShape(u)' /\ \A i \in DOMAIN stack[u] : CallShape(u, i)'
    BY <1>1, <1>2 DEF WorkOK, WorkShape, CallShape, Target
  <2>2. /\ InputKept(u)' <=> InputKept(u)
        /\ SelfKept(u)' <=> SelfKept(u)
        /\ NodeStable(u)' <=> NodeStable(u)
        /\ InputStable(u)' <=> InputStable(u)
        /\ Supplies(u, thread[u].got)' <=> Supplies(u, thread[u].got)
        /\ Supplies(u, thread[u].bound)' <=> Supplies(u, thread[u].bound)
        /\ Publishes(u, thread[u].got)' <=> Publishes(u, thread[u].got)
    BY <1>2 DEF InputKept, SelfKept, NodeStable, InputStable, Stable, Reached, Touched, Supplies, Publishes, Fresh
  <2>3. thread[u].pc = "fast" /\ Serving(u) => Serving(u)'
    <3>1. SUFFICES ASSUME thread[u].pc = "fast", Serving(u) PROVE Serving(u)'
      OBVIOUS
    <3>2. thread[u].node - 1 \in Comp /\ thread[u].page \in Page
      BY <3>1, AtStep DEF Asking
    <3>3. LET c == thread[u].node - 1
              p == thread[u].page
          IN  cache'[c][p].valid => cache'[c][p] = cache[c][p]
      BY <1>3, <3>2
    <3>4. QED
      BY <1>2, <3>1, <3>3 DEF Serving, Supplies, Current, Fresh
  <2>4. NodeFresh(u) => NodeFresh(u)'
    BY <1>2, <2>2, <2>3 DEF NodeFresh
  <2>5. CallsFresh(u) => CallsFresh(u)'
    <3>1. ASSUME CallsFresh(u), NEW i \in DOMAIN stack[u], Warrant(u, i)'
          PROVE  Holding(stack[u][i], thread[u].page)'
      <4>1. Warrant(u, i)
        BY <1>2, <2>2, <3>1 DEF Warrant, LiveFrom, Live, Vouched, Awaited, Stable, Reached, Touched
      <4>2. PICK f, p : f = stack[u][i] /\ p = thread[u].page /\ stack'[u][i] = f /\ thread'[u].page = p
        BY <1>2
      <4>3. Holding(f, p)
        BY <3>1, <4>1, <4>2 DEF CallsFresh
      <4>4. f.comp \in Comp /\ p \in Page
        <5>1. stack[u] # <<>>
          <6>1. DOMAIN <<>> = {}
            OBVIOUS
          <6>2. QED
            BY <3>1, <6>1
        <5>2. QED
          BY <3>1, <4>2, <5>1, WorkTop
      <4>5. cache'[f.comp][p].valid => cache'[f.comp][p] = cache[f.comp][p]
        BY <1>3, <4>4
      <4>6. QED
        BY <1>2, <4>2, <4>3, <4>5, ZenonT(60) DEF Holding, Current, Fresh
    <3>2. QED
      BY <1>2, <3>1 DEF CallsFresh
  <2>6. QED
    BY <1>1, <1>2, <2>1, <2>4, <2>5 DEF WorkOK
<1>9. QED
  BY <1>1, <1>4, <1>6, <1>7, <1>8 DEF WorkInv, WorkClaims, WorkersOnly

-----------------------------------------------------------------------------
(***************************************************************************)
(* The theorems                                                            *)
(***************************************************************************)
LEMMA WorkStutters ==
    ASSUME WorkInv, UNCHANGED vars
    PROVE  WorkInv'
<1>1. UNCHANGED <<model, edit, late, edits, epoch, cache, hint, inflight, thread, stack, slipped>>
  BY DEF vars, editing, caching
<1>2. /\ WorkTypes' /\ CacheShape' /\ HintShape' /\ OnePage' /\ OwnClaims' /\ WorkersOnly'
  BY <1>1 DEF WorkInv, WorkTypes, CacheShape, HintShape, OnePage, OwnClaims, WorkersOnly, EditShape
<1>3. \A u \in Thread : WorkOK(u)' /\ (InDoubt(u)' <=> InDoubt(u))
  BY <1>1, OtherKeeps
<1>4. ASSUME NEW c \in Comp, NEW p \in Page PROVE PageClaim(c, p)'
  <2>1. \A u \in Thread : Doubted(u, c, p) => Doubted(u, c, p)'
    BY <1>1, <1>3 DEF Doubted
  <2>2. PageClaim(c, p)
    BY DEF WorkInv, WorkClaims
  <2>3. QED
    BY <1>1, <2>1, <2>2 DEF PageClaim, ReadsCurrent, Stable, Reached, Touched, Fresh
<1>5. ASSUME NEW c \in Comp PROVE HintClaim(c)'
  <2>1. HintClaim(c)
    BY DEF WorkInv, WorkClaims
  <2>2. QED
    BY <1>1, <2>1 DEF HintClaim, Stable, Reached, Touched, Fresh
<1>6. QED
  BY <1>2, <1>3, <1>4, <1>5 DEF WorkInv, WorkClaims

LEMMA WorkerStepKeeps ==
    ASSUME WorkInv, NEW t \in Thread, ThreadStep(t)
    PROVE  WorkInv'
<1>1. ASSUME Freeze(t) PROVE WorkInv'
  BY <1>1, FreezeEnterWorks, FreezeHitWorks, FreezeMissWorks, PullHeldWorks, PullBoundWorks,
     PullProducerWorks, FreezeStampWorks DEF Freeze
<1>2. ASSUME ServeRequest(t) PROVE WorkInv'
  BY <1>2, RequestFastWorks, NobodyAttaches, RequestClaimWorks, RequestEraseWorks, RequestDeliverWorks
     DEF ServeRequest
<1>3. ASSUME Pull(t) PROVE WorkInv'
  <2>1. \A p \in Page : ~Request(t, p)
    BY DEF Request, WorkInv, WorkersOnly
  <2>2. ~Answer(t)
    BY DEF Answer, At, WorkInv, WorkTypes, WorkState, WorkPc, Asking, Binding, Having
  <2>3. QED
    BY <1>3, <2>1, <2>2 DEF Pull
<1>4. ASSUME RunNode(t) PROVE WorkInv'
  <2>1. ASSUME VerifyInput(t) PROVE WorkInv'
    BY <2>1, VerifyStaleWorks, VerifyKeptWorks
  <2>2. ASSUME Complete(t) PROVE WorkInv'
    BY <2>2, CompleteNodeWorks, CompletePageWorks
  <2>3. QED
    BY <1>4, <2>1, <2>2, DemandWorks, PlanWorks, NodeFreezeWorks, RetryBindWorks, RetryCheckWorks,
       RetryDropWorks, RetryFreezeWorks, SelfTestWorks, SelfProbeWorks, SelfRestaleWorks DEF RunNode
<1>5. QED
  BY <1>1, <1>2, <1>3, <1>4 DEF ThreadStep

\* Under workers alone, what the pages of a chain, the readers' hints, the calls and the
\* nodes under way claim of the audio they hold stays true from step to step.
THEOREM WorkKeeps == WorkInv /\ [Next]_vars => WorkInv'
<1>1. SUFFICES ASSUME WorkInv, [Next]_vars PROVE WorkInv'
  OBVIOUS
<1>2. ASSUME MainThread PROVE WorkInv'
  BY <1>1, <1>2, EditBeginWorks, EditBumpWorks, PruneWorks DEF MainThread
<1>3. ASSUME NEW t \in Thread, ThreadStep(t) PROVE WorkInv'
  BY <1>1, <1>3, WorkerStepKeeps
<1>4. QED
  BY <1>1, <1>2, <1>3, WorkStutters DEF Next

\* What the invariant says of a page that reads current.
LEMMA WorkPublishes ==
    ASSUME WorkInv
    PROVE  PublishedIsFresh
<1>1. SUFFICES ASSUME NEW c \in Comp, NEW p \in Page, InOrder(c, p), ReadsCurrent(c, p),
                      ~Unverified(c, p), p \notin slipped
               PROVE  cache[c][p].shows = Fresh(c, p)
  BY DEF PublishedIsFresh
<1>2. PageClaim(c, p) /\ Thread = Worker
  BY DEF WorkInv, WorkClaims, WorkersOnly, Thread
<1>3. \A t \in Thread : ~Doubted(t, c, p)
  BY <1>1, <1>2 DEF Unverified, Doubted, InDoubt, Asking
<1>4. Stable(c, p)
  BY <1>1 DEF Stable, InOrder
<1>5. QED
  BY <1>1, <1>2, <1>3, <1>4 DEF PageClaim

\* All of it holds in every state that workers alone reach.
THEOREM WorkInductive == WorkersOnly /\ Spec => []WorkInv
<1>1. WorkersOnly /\ Init => WorkInv
  BY WorkStarts
<1>2. WorkInv /\ [Next]_vars => WorkInv'
  BY WorkKeeps
<1>3. QED
  BY <1>1, <1>2, PTL DEF Spec

\* Once its node has completed, a page that reads current is the page of the model as it
\* is now, but for what a late bump or an edit inside a retry has spoilt: of a chain of
\* any height under any number of workers and edits, bumped in any order, with pages
\* pruned under their renders, as long as nobody but the workers pulls.
THEOREM PublishedPagesAreFresh == WorkersOnly /\ Spec => []PublishedIsFresh
<1>1. WorkInv => PublishedIsFresh
  BY WorkPublishes
<1>2. QED
  BY <1>1, WorkInductive, PTL

==============================================================================
