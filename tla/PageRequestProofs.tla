-------------------------- MODULE PageRequestProofs --------------------------
(***************************************************************************)
(* A request is answered with audio no older than the edits that were      *)
(* complete when it was made, for a chain of any height and any number of  *)
(* pulling threads (RequestFresh); and a node's second rendering of a page *)
(* is not taken for an edit (RepublishNeedsEdit, one worker).              *)
(*                                                                         *)
(* The argument for a request: at the moment it is made, everything that   *)
(* could ever be handed out as a page of the component at its present      *)
(* epoch, or a later one, is at least as new as the edits complete by then *)
(* (NowOwed).  That covers pages in the cache, hints, answers on their way *)
(* and every call of a render under way.  Each of these comes from a page  *)
(* of the same kind, or from the model, which only gets newer; so it stays *)
(* true of the same epoch and the same edits for good (Owed), whichever    *)
(* thread's render the request is answered with, and however late.  A bump *)
(* that completes an edit, or that ends the last exception of an earlier   *)
(* one, makes a new promise, with a new epoch: what has reached that epoch *)
(* is fresh (PagePublishProofs).  A page with a component bumped late is   *)
(* promised nothing new (InTime).                                          *)
(***************************************************************************)
EXTENDS PagePublishProofs

-----------------------------------------------------------------------------
(***************************************************************************)
(* What a request is owed                                                  *)
(***************************************************************************)
\* Audio of the first n components, no older than the floor.
AtLeast(shows, n, floor) == \A d \in 1 .. n : shows[d] >= floor[d]

\* What a call holds, and what it would be served, is no older than the floor.
Carries(f, p, floor) ==
    /\ f.at \in {"pull", "pulling", "stamp"} => f.own >= floor[f.comp]
    /\ f.at = "stamp" => AtLeast(f.input, f.comp - 1, floor)
    /\ f.at = "lookup" /\ Current(cache[f.comp][p], f.epoch) =>
           AtLeast(cache[f.comp][p].shows, f.comp, floor)

\* A call that renders component c, with e or a later epoch, or one such a call waits for.
Due(f, c, e) == f.comp = c /\ f.at # "enter" /\ f.epoch >= e

DueFrom(t, i, c, e) == \E j \in DOMAIN stack[t] : i <= j /\ Due(stack[t][j], c, e)

CacheOwed(c, e, p, floor) ==
    Current(cache[c][p], e) => AtLeast(cache[c][p].shows, c, floor)

RenderOwed(c, e, p, floor) ==
    \A t \in Thread : thread[t].page = p =>
        \A i \in DOMAIN stack[t] : DueFrom(t, i, c, e) => Carries(stack[t][i], p, floor)

Rendered(t) == thread[t].pc \in {"erase", "deliver", "answer"}

AnswerOwed(c, e, p, floor) ==
    \A t \in Thread :
        (/\ thread[t].page = p /\ thread[t].comp = c /\ thread[t].epoch >= e
         /\ Rendered(t)) => AtLeast(thread[t].got, c, floor)

\* What the component downstream holds as c's page.
HintOwed(c, e, p, floor) ==
    \A d \in Comp : (d = c + 1 /\ hint[d].page = p /\ hint[d].observed >= e)
        => AtLeast(hint[d].shows, c, floor)

\* Whatever passes for a page p of component c at epoch e, or a later one.
Owed(c, e, p, floor) ==
    /\ CacheOwed(c, e, p, floor) /\ RenderOwed(c, e, p, floor)
    /\ AnswerOwed(c, e, p, floor) /\ HintOwed(c, e, p, floor)

SettledAt(p) == [d \in Comp |-> settled[d][p]]

NowOwed == \A c \in Comp, p \in Page : Owed(c, epoch[c], p, SettledAt(p))

RequestOwed ==
    \A t \in Thread : thread[t].pc # "idle" =>
        Owed(Height, thread[t].epoch, thread[t].page, thread[t].since)

\* A puller asks for the root, and relies on edits that were complete when it asked.
RequestSound ==
    \A t \in Thread : thread[t].pc # "idle" =>
        /\ thread[t].comp = Height /\ thread[t].since \in [Comp -> Version]
        /\ \A d \in Comp : thread[t].since[d] <= settled[d][thread[t].page]

\* A complete edit is in the model, and no version is newer than the edits made.
SettledSound ==
    \A d \in Comp, p \in Page : settled[d][p] <= model[d][p] /\ model[d][p] <= edits

\* The outermost call renders the request, at its epoch or a later one.
RootSound ==
    \A t \in Thread : \A i \in DOMAIN stack[t] : i = Len(stack[t]) =>
        /\ stack[t][i].comp = thread[t].comp
        /\ stack[t][i].at # "enter" => stack[t][i].epoch >= thread[t].epoch

\* Who waits for another thread's render waits for a request at least as new as its own,
\* and an entry says truly whose render it stands for.
Serves(u, t) ==
    /\ thread[u].page = thread[t].page /\ thread[u].comp = thread[t].comp
    /\ thread[u].epoch >= thread[t].epoch /\ thread[u].pc \in {"rendering", "erase", "deliver"}

WaitSound ==
    \A t \in Thread : thread[t].pc = "wait" => \E u \in Thread : u = thread[t].waits /\ Serves(u, t)

OwnerSound ==
    \A c \in Comp, p \in Page, u \in Thread : inflight[c][p].owner = u =>
        /\ thread[u].page = p /\ thread[u].comp = c /\ thread[u].epoch = inflight[c][p].epoch
        /\ thread[u].pc \in {"rendering", "erase"}

\* Nothing but the edit under way and the bumps that came late is missing in what is settled.
InTime(p) == \A d \in Comp : <<d, p>> \notin late

SettledFully ==
    \A p \in Page : p \notin Touched /\ InTime(p) => \A d \in Comp : settled[d][p] = model[d][p]

Reliance == RequestSound /\ SettledSound /\ RootSound /\ WaitSound /\ OwnerSound

RInv == IInv /\ Reliance /\ SettledFully /\ NowOwed /\ RequestOwed

-----------------------------------------------------------------------------
(***************************************************************************)
(* Promises                                                                *)
(***************************************************************************)
\* A promise that has been made: of an epoch the component has had, and of edits complete.
Promised(c, e, p, floor) ==
    /\ c \in Comp /\ e \in Nat /\ e <= epoch[c] /\ p \in Page /\ floor \in [Comp -> Version]
    /\ \A d \in Comp : floor[d] <= settled[d][p]
    /\ Owed(c, e, p, floor)

\* Steps keep the promises made: what every action has to show.
Keeps == \A c, e, p, floor : Promised(c, e, p, floor) => Owed(c, e, p, floor)'

\* Audio as new as one floor is as new as any lower one.
LEMMA LowerFloor ==
    ASSUME NEW n \in Nat, n <= Height, NEW shows \in Seq(Version), Len(shows) = n,
           NEW high \in [Comp -> Version], NEW low \in [Comp -> Version],
           \A d \in Comp : low[d] <= high[d], AtLeast(shows, n, high)
    PROVE  AtLeast(shows, n, low)
<1>1. ASSUME NEW d \in 1 .. n PROVE shows[d] >= low[d]
  <2>1. d \in Comp
    BY HeightAssumption DEF Comp
  <2>2. shows[d] \in Version
    BY ElementOfSeq, LenProperties
  <2>3. /\ shows[d] \in Int /\ high[d] \in Int /\ low[d] \in Int
        /\ shows[d] >= high[d] /\ low[d] <= high[d]
    BY <2>1, <2>2 DEF AtLeast, Version
  <2>4. QED
    BY <2>3
<1>2. QED
  BY <1>1 DEF AtLeast

\* What is settled now is the floor of a promise made now, and no promise has a higher one.
LEMMA SettledNow ==
    ASSUME RInv, NEW c \in Comp, NEW p \in Page
    PROVE  /\ SettledAt(p) \in [Comp -> Version] /\ epoch[c] \in Nat \ {0}
           /\ Owed(c, epoch[c], p, SettledAt(p))
           /\ \A floor : (\A d \in Comp : floor[d] <= settled[d][p]) =>
                  \A d \in Comp : floor[d] <= SettledAt(p)[d]
<1>1. settled \in [Comp -> [Page -> Version]] /\ epoch \in [Comp -> Nat \ {0}]
  BY DEF RInv, IInv, Sound, Types
<1>2. SettledAt(p) \in [Comp -> Version] /\ \A d \in Comp : SettledAt(p)[d] = settled[d][p]
  BY <1>1 DEF SettledAt
<1>3. QED
  BY <1>1, <1>2 DEF RInv, NowOwed

\* A page that reads current is as new as every promise asks.
LEMMA CurrentCarries ==
    ASSUME RInv, NEW c \in Comp, NEW p \in Page, NEW floor \in [Comp -> Version],
           \A d \in Comp : floor[d] <= settled[d][p], Current(cache[c][p], epoch[c])
    PROVE  AtLeast(cache[c][p].shows, c, floor)
<1>1. /\ SettledAt(p) \in [Comp -> Version] /\ Owed(c, epoch[c], p, SettledAt(p))
      /\ \A d \in Comp : floor[d] <= SettledAt(p)[d]
  BY SettledNow
<1>2. AtLeast(cache[c][p].shows, c, SettledAt(p))
  BY <1>1 DEF Owed, CacheOwed
<1>3. cache[c][p].shows \in Seq(Version) /\ Len(cache[c][p].shows) = c
  BY DEF RInv, IInv, Sound, Types, Cached, CacheSound, Current
<1>4. c \in Nat /\ c <= Height
  BY HeightAssumption DEF Comp
<1>5. QED
  BY <1>1, <1>2, <1>3, <1>4, LowerFloor

\* So is a hint that a reader may use.
LEMMA HintCarries ==
    ASSUME RInv, NEW c \in Comp, NEW p \in Page, NEW floor \in [Comp -> Version], c - 1 \in Comp,
           \A d \in Comp : floor[d] <= settled[d][p], Holds(c, p)
    PROVE  AtLeast(hint[c].shows, c - 1, floor)
<1>1. PICK b \in Comp : b = c - 1 /\ c = b + 1 /\ b \in Nat /\ b <= Height
  BY HeightAssumption DEF Comp
<1>2. /\ SettledAt(p) \in [Comp -> Version] /\ Owed(b, epoch[b], p, SettledAt(p))
      /\ \A d \in Comp : floor[d] <= SettledAt(p)[d]
  BY SettledNow
<1>3. hint[c].page = p /\ hint[c].observed = epoch[b] /\ epoch[b] \in Nat
  BY <1>1 DEF Holds, RInv, IInv, Sound, Types
<1>4. AtLeast(hint[c].shows, b, SettledAt(p))
  <2>1. epoch[b] >= epoch[b]
    BY <1>3
  <2>2. QED
    BY <1>1, <1>2, <1>3, <2>1 DEF Owed, HintOwed
<1>5. hint[c].shows \in Seq(Version) /\ Len(hint[c].shows) = b
  BY <1>1, <1>3 DEF RInv, IInv, Sound, Types, Hinted, HintSound
<1>6. QED
  BY <1>1, <1>2, <1>4, <1>5, LowerFloor

-----------------------------------------------------------------------------
(***************************************************************************)
(* freezePage                                                              *)
(***************************************************************************)
\* A step of one thread in freezePage leaves the renders of others what they hold.
LEMMA RendersKept ==
    ASSUME IInv, NEW t \in Thread, stack[t] # <<>>, Alone(t), thread'[t].page = thread[t].page,
           NEW c, NEW e, NEW p, NEW floor, RenderOwed(c, e, p, floor),
           thread[t].page = p => \A i \in DOMAIN stack'[t] :
               DueFrom(t, i, c, e)' => Carries(stack[t][i], p, floor)'
    PROVE  RenderOwed(c, e, p, floor)'
<1>1. ASSUME NEW u \in Thread, u # t, thread[u].page = p, NEW i \in DOMAIN stack[u],
             DueFrom(u, i, c, e)'
      PROVE  Carries(stack[u][i], p, floor)'
  <2>1. stack'[u] = stack[u]
    BY <1>1 DEF Alone
  <2>2. DueFrom(u, i, c, e)
    BY <1>1, <2>1 DEF DueFrom, Due
  <2>3. Carries(stack[u][i], p, floor)
    BY <1>1, <2>2 DEF RenderOwed
  <2>4. stack[u][i].at = "lookup" => cache'[stack[u][i].comp] = cache[stack[u][i].comp]
    <3>1. stack[u] # <<>>
      BY <1>1
    <3>2. FrameOK(u, i) /\ stack[u][i].comp \in Comp
      BY <1>1, <3>1, TopFrame DEF Frame
    <3>3. stack[u][i].at = "lookup" => cursor[stack[u][i].comp] = u
      BY <3>2 DEF FrameOK
    <3>4. QED
      BY <1>1, <3>2, <3>3 DEF Alone
  <2>5. QED
    BY <2>1, <2>3, <2>4 DEF Carries
<1>2. \A u \in Thread : u # t => stack'[u] = stack[u] /\ thread'[u] = thread[u]
  BY DEF Alone
<1>3. QED
  BY <1>1, <1>2 DEF RenderOwed

\* A promise rests on pages, hints and answers besides: steps that touch none of them.
LEMMA AnswersKept ==
    ASSUME NEW c, NEW e, NEW p, NEW floor, AnswerOwed(c, e, p, floor),
           \A u \in Thread : Rendered(u)' =>
               /\ Rendered(u) /\ thread'[u].page = thread[u].page /\ thread'[u].comp = thread[u].comp
               /\ thread'[u].epoch = thread[u].epoch /\ thread'[u].got = thread[u].got
    PROVE  AnswerOwed(c, e, p, floor)'
BY DEF AnswerOwed

LEMMA HintsKept ==
    ASSUME NEW c, NEW e, NEW p, NEW floor, HintOwed(c, e, p, floor), hint' = hint
    PROVE  HintOwed(c, e, p, floor)'
BY DEF HintOwed

\* Entering, missing, and reading the hint: the innermost call is another, the rest holds
\* what it held.
LEMMA AdvanceShape ==
    ASSUME IInv, NEW t \in Thread, NEW g \in Frame, NEW p \in Page, Advances(t, g, p)
    PROVE  /\ stack[t] # <<>> /\ Alone(t) /\ thread' = thread /\ hint' = hint /\ settled' = settled
           /\ DOMAIN stack'[t] = DOMAIN stack[t] /\ stack'[t][1] = g /\ 1 \in DOMAIN stack[t]
           /\ stack'[t] \in Seq(Frame) /\ Top(t) = stack[t][1]
           /\ g.comp \in Comp /\ epoch[g.comp] \in Nat \ {0}
           /\ \A i \in DOMAIN stack[t] : i # 1 =>
                  stack'[t][i] = stack[t][i] /\ stack[t][i].at = "pulling" /\ i > 1
           /\ \A d \in Comp, q \in Page, x \in Nat : Current(cache'[d][q], x) =>
                  Current(cache[d][q], x) /\ cache'[d][q] = cache[d][q]
<1>1. /\ stack[t] # <<>> /\ Set(t, g) /\ p = thread[t].page /\ g.comp = Top(t).comp
      /\ UNCHANGED <<editing, epoch, hint, inflight, thread, slipped>>
      /\ cursor[g.comp] \in {t, Nobody} /\ cursor' = [cursor EXCEPT ![g.comp] = t]
      /\ \/ cache' = cache
         \/ cursor[g.comp] = t /\ cache' = [cache EXCEPT ![g.comp][p] = Placeholder]
  BY DEF Advances
<1>2. /\ stack' \in [Thread -> Seq(Frame)] /\ \A u \in Thread : u # t => stack'[u] = stack[u]
      /\ DOMAIN stack'[t] = DOMAIN stack[t] /\ stack'[t][1] = g
      /\ \A i \in DOMAIN stack[t] : i # 1 => stack'[t][i] = stack[t][i]
  BY <1>1, TopSwapped
<1>3. /\ 1 \in DOMAIN stack[t] /\ Top(t) = stack[t][1] /\ g.comp \in Comp /\ epoch[g.comp] \in Nat \ {0}
      /\ \A i \in DOMAIN stack[t] : /\ i \in Nat \ {0} /\ (i > 1 => stack[t][i].at = "pulling")
  BY <1>1, TopFrame
<1>4. /\ cursor \in [Comp -> Thread \cup {Nobody}] /\ cache \in [Comp -> [Page -> Cached]]
      /\ \A u \in Thread : u # Nobody
  BY OnlyPullers DEF IInv, Sound, Types
<1>5. \A d \in Comp, u \in Thread : u # t => (cursor'[d] = u <=> cursor[d] = u)
  BY <1>1, <1>3, <1>4
<1>6. \A d \in Comp : cursor[d] # t => cache'[d] = cache[d]
  BY <1>1, <1>3, <1>4
<1>7. ASSUME NEW d \in Comp, NEW q \in Page, cache'[d][q] # cache[d][q] PROVE ~cache'[d][q].valid
  <2>1. cache' = [cache EXCEPT ![g.comp][p] = Placeholder]
    BY <1>1, <1>7
  <2>2. cache'[d][q] = Placeholder
    BY <1>3, <1>4, <1>7, <2>1
  <2>3. ~Placeholder.valid
    BY DEF Placeholder, NoPage
  <2>4. QED
    BY <2>2, <2>3
<1>8. Alone(t)
  BY <1>1, <1>2, <1>5, <1>6 DEF Alone
<1>9. \A i \in DOMAIN stack[t] : i # 1 => i > 1
  BY <1>3
<1>10. QED
  BY <1>1, <1>2, <1>3, <1>7, <1>8, <1>9 DEF Current, editing

LEMMA AdvanceKeepsPromise ==
    ASSUME IInv, NEW t \in Thread, NEW g \in Frame, NEW q \in Page, Advances(t, g, q),
           NEW c, NEW e, NEW p, NEW floor, Promised(c, e, p, floor),
           q = p /\ (Top(t).at # "enter" => DueFrom(t, 1, c, e)) => Carries(g, p, floor)'
    PROVE  Owed(c, e, p, floor)'
<1>1. /\ stack[t] # <<>> /\ Alone(t) /\ thread' = thread /\ hint' = hint
      /\ DOMAIN stack'[t] = DOMAIN stack[t] /\ stack'[t][1] = g /\ 1 \in DOMAIN stack[t]
      /\ Top(t) = stack[t][1]
      /\ \A i \in DOMAIN stack[t] : i # 1 =>
             stack'[t][i] = stack[t][i] /\ stack[t][i].at = "pulling" /\ i > 1
      /\ \A d \in Comp, r \in Page, x \in Nat : Current(cache'[d][r], x) =>
             Current(cache[d][r], x) /\ cache'[d][r] = cache[d][r]
  BY AdvanceShape
<1>2. /\ q = thread[t].page /\ g.comp = Top(t).comp
      /\ (Top(t).at # "enter" => g.epoch = Top(t).epoch)
  BY DEF Advances
<1>3. CacheOwed(c, e, p, floor)'
  BY <1>1 DEF Promised, Owed, CacheOwed
<1>4. HintOwed(c, e, p, floor)'
  BY <1>1, HintsKept DEF Promised, Owed
<1>5. AnswerOwed(c, e, p, floor)'
  BY <1>1, AnswersKept DEF Promised, Owed, Rendered
<1>6. ASSUME q = p, NEW i \in DOMAIN stack'[t], DueFrom(t, i, c, e)'
      PROVE  Carries(stack[t][i], p, floor)'
  <2>1. PICK j \in DOMAIN stack[t] : i <= j /\ Due(stack'[t][j], c, e)
    BY <1>1, <1>6 DEF DueFrom, Due
  <2>2. CASE i = 1
    <3>1. Top(t).at # "enter" => Due(stack[t][j], c, e)
      BY <1>1, <1>2, <2>1 DEF Due
    <3>2. Top(t).at # "enter" => DueFrom(t, 1, c, e)
      BY <2>1, <2>2, <3>1 DEF DueFrom
    <3>3. QED
      BY <1>1, <1>6, <2>2, <3>2
  <2>3. CASE i # 1
    <3>1. i > 1 /\ j # 1
      <4>1. i > 1 /\ i \in Nat /\ j \in Nat
        BY <1>1, <2>3, TopFrame
      <4>2. QED
        BY <2>1, <4>1
    <3>2. DueFrom(t, i, c, e)
      BY <1>1, <2>1, <3>1 DEF DueFrom
    <3>3. Carries(stack[t][i], p, floor)
      BY <1>1, <1>2, <1>6, <3>2 DEF Promised, Owed, RenderOwed
    <3>4. QED
      BY <1>1, <2>3, <3>3 DEF Carries
  <2>4. QED
    BY <2>2, <2>3
<1>7. RenderOwed(c, e, p, floor)'
  BY <1>1, <1>2, <1>6, RendersKept DEF Promised, Owed
<1>8. QED
  BY <1>3, <1>4, <1>5, <1>7 DEF Owed

LEMMA EnterKeepsPromises ==
    ASSUME RInv, NEW t \in Thread, FreezeEnter(t)
    PROVE  Keeps
<1>1. IInv
  BY DEF RInv
<1>2. PICK g \in Frame, q \in Page :
          Advances(t, g, q) /\ g.at = "lookup" /\ Top(t).at = "enter" /\ cache' = cache
  BY <1>1, EnterAdvances
<1>3. ASSUME NEW c, NEW e, NEW p, NEW floor, Promised(c, e, p, floor)
      PROVE  Owed(c, e, p, floor)'
  <2>1. ASSUME q = p PROVE Carries(g, p, floor)'
    <3>1. g.comp \in Comp /\ g.epoch = epoch[g.comp]
      BY <1>1, <1>2, AdvanceShape DEF Advances
    <3>2. Current(cache[g.comp][p], g.epoch) => AtLeast(cache[g.comp][p].shows, g.comp, floor)
      BY <1>3, <3>1, CurrentCarries DEF Promised
    <3>3. QED
      BY <1>2, <3>2 DEF Carries
  <2>2. QED
    BY <1>1, <1>2, <1>3, <2>1, AdvanceKeepsPromise
<1>4. QED
  BY <1>3 DEF Keeps

\* The model a render reads is at least what is settled.
LEMMA MissKeepsPromises ==
    ASSUME RInv, NEW t \in Thread, FreezeMiss(t)
    PROVE  Keeps
<1>1. IInv /\ SettledSound
  BY DEF RInv, Reliance
<1>2. PICK g \in Frame, q \in Page :
          /\ Advances(t, g, q) /\ Top(t).at = "lookup"
          /\ g.at \in {"pull", "stamp"} /\ (g.at = "stamp" <=> g.comp = 1)
          /\ g.input = <<>> /\ g.own = model[g.comp][q]
  BY <1>1, MissAdvances
<1>3. ASSUME NEW c, NEW e, NEW p, NEW floor, Promised(c, e, p, floor)
      PROVE  Owed(c, e, p, floor)'
  <2>1. ASSUME q = p PROVE Carries(g, p, floor)'
    <3>1. g.comp \in Comp
      BY <1>1, <1>2, AdvanceShape
    <3>2. /\ model[g.comp][p] \in Int /\ settled[g.comp][p] \in Int /\ floor[g.comp] \in Int
          /\ settled[g.comp][p] <= model[g.comp][p] /\ floor[g.comp] <= settled[g.comp][p]
      BY <1>1, <1>3, <3>1 DEF IInv, Sound, Types, Version, Promised, SettledSound
    <3>3. g.own >= floor[g.comp]
      BY <1>2, <2>1, <3>2
    <3>4. g.at = "stamp" => AtLeast(g.input, g.comp - 1, floor)
      <4>1. \A d \in 1 .. 1 - 1 : FALSE
        OBVIOUS
      <4>2. QED
        BY <1>2, <4>1 DEF AtLeast
    <3>5. QED
      BY <1>2, <3>3, <3>4 DEF Carries
  <2>2. QED
    BY <1>1, <1>2, <1>3, <2>1, AdvanceKeepsPromise
<1>4. QED
  BY <1>3 DEF Keeps

LEMMA HeldKeepsPromises ==
    ASSUME RInv, NEW t \in Thread, PullHeld(t)
    PROVE  Keeps
<1>1. IInv
  BY DEF RInv
<1>2. PICK g \in Frame, q \in Page :
          /\ Advances(t, g, q) /\ Top(t).at = "pull"
          /\ Holds(g.comp, q) /\ g.comp - 1 \in Comp
          /\ g.at = "stamp" /\ g.own = Top(t).own /\ g.input = hint[g.comp].shows
  BY <1>1, HeldAdvances
<1>3. ASSUME NEW c, NEW e, NEW p, NEW floor, Promised(c, e, p, floor)
      PROVE  Owed(c, e, p, floor)'
  <2>1. ASSUME q = p, DueFrom(t, 1, c, e) PROVE Carries(g, p, floor)'
    <3>1. /\ g.comp \in Comp /\ g.comp = Top(t).comp /\ Top(t) = stack[t][1] /\ 1 \in DOMAIN stack[t]
          /\ q = thread[t].page
      <4>1. Advances(t, g, q)
        BY <1>2
      <4>2. g.comp \in Comp /\ Top(t) = stack[t][1] /\ 1 \in DOMAIN stack[t]
        BY <1>1, <4>1, AdvanceShape
      <4>3. g.comp = Top(t).comp /\ q = thread[t].page
        BY <4>1 DEF Advances
      <4>4. QED
        BY <4>2, <4>3
    <3>2. Carries(Top(t), p, floor)
      BY <1>3, <2>1, <3>1 DEF Promised, Owed, RenderOwed
    <3>3. g.own >= floor[g.comp]
      BY <1>2, <3>1, <3>2 DEF Carries
    <3>4. AtLeast(g.input, g.comp - 1, floor)
      BY <1>2, <1>3, <2>1, <3>1, HintCarries DEF Promised
    <3>5. QED
      BY <1>2, <3>3, <3>4 DEF Carries
  <2>2. QED
    BY <1>1, <1>2, <1>3, <2>1, AdvanceKeepsPromise
<1>4. QED
  BY <1>3 DEF Keeps

\* A call is pushed: it carries nothing yet, and its caller what it carried.
LEMMA ProducerKeepsPromises ==
    ASSUME RInv, NEW t \in Thread, PullProducer(t)
    PROVE  Keeps
<1>1. IInv
  BY DEF RInv
<1>2. PICK s : s = stack[t]
  OBVIOUS
<1>3. PICK d \in Comp, f \in Frame, g \in Frame, h \in Frame :
          /\ f = Top(t) /\ f.at = "pull" /\ h.at = "enter"
          /\ g.comp = f.comp /\ g.at = "pulling" /\ g.epoch = f.epoch /\ g.own = f.own
          /\ DOMAIN stack'[t] = 1 .. Len(s) + 1 /\ stack'[t][1] = h /\ stack'[t][2] = g
          /\ \A i \in 3 .. Len(s) + 1 : stack'[t][i] = s[i - 1]
          /\ UNCHANGED <<cache, hint, thread>> /\ Alone(t)
  BY <1>1, <1>2, ProducerCalled
<1>4. /\ s # <<>> /\ Len(s) \in Nat \ {0} /\ DOMAIN s = 1 .. Len(s) /\ 1 \in DOMAIN s /\ f = s[1]
      /\ \A i \in DOMAIN s : i > 1 => s[i].at = "pulling"
  <2>1. stack[t] # <<>>
    BY DEF PullProducer, In
  <2>2. QED
    BY <1>1, <1>2, <1>3, <2>1, TopFrame
<1>5. ASSUME NEW c, NEW e, NEW p, NEW floor, Promised(c, e, p, floor)
      PROVE  Owed(c, e, p, floor)'
  <2>1. CacheOwed(c, e, p, floor)'
    BY <1>3, <1>5 DEF Promised, Owed, CacheOwed
  <2>2. HintOwed(c, e, p, floor)'
    BY <1>3, <1>5, HintsKept DEF Promised, Owed
  <2>3. AnswerOwed(c, e, p, floor)'
    BY <1>3, <1>5, AnswersKept DEF Promised, Owed, Rendered
  <2>4. ASSUME thread[t].page = p, NEW i \in DOMAIN stack'[t], DueFrom(t, i, c, e)'
        PROVE  Carries(stack[t][i], p, floor)'
    <3>1. PICK j \in DOMAIN stack'[t] : i <= j /\ Due(stack'[t][j], c, e)
      BY <2>4 DEF DueFrom, Due
    <3>2. CASE i = 1
      BY <1>3, <3>2 DEF Carries
    <3>3. CASE i # 1
      <4>1. /\ i \in Nat /\ j \in Nat /\ i > 1 /\ j > 1 /\ i - 1 <= j - 1
            /\ i - 1 \in DOMAIN s /\ j - 1 \in DOMAIN s
            /\ (i # 2 => i \in 3 .. Len(s) + 1) /\ (j # 2 => j \in 3 .. Len(s) + 1) /\ 2 - 1 = 1
        BY <1>3, <1>4, <3>1, <3>3
      <4>2. Due(s[j - 1], c, e)
        <5>1. CASE j = 2
          BY <1>3, <1>4, <3>1, <4>1, <5>1 DEF Due
        <5>2. CASE j # 2
          BY <1>3, <3>1, <4>1, <5>2
        <5>3. QED
          BY <5>1, <5>2
      <4>3. Carries(s[i - 1], p, floor)
        <5>1. DueFrom(t, i - 1, c, e)
          BY <1>2, <4>1, <4>2 DEF DueFrom
        <5>2. QED
          BY <1>2, <1>5, <2>4, <4>1, <5>1 DEF Promised, Owed, RenderOwed
      <4>4. CASE i = 2
        BY <1>3, <1>4, <4>1, <4>3, <4>4 DEF Carries
      <4>5. CASE i # 2
        <5>1. stack'[t][i] = s[i - 1]
          BY <1>3, <4>1, <4>5
        <5>2. QED
          BY <1>3, <4>3, <5>1 DEF Carries
      <4>6. QED
        BY <4>4, <4>5
    <3>4. QED
      BY <3>2, <3>3
  <2>5. RenderOwed(c, e, p, floor)'
    BY <1>1, <1>2, <1>3, <1>4, <1>5, <2>4, RendersKept DEF Promised, Owed
  <2>6. QED
    BY <2>1, <2>2, <2>3, <2>5 DEF Owed
<1>6. QED
  BY <1>5 DEF Keeps

\* A call returns its page to the request or to the render that waits for it, which keeps
\* it as its hint: whichever promise is about it asks no more than the call carried.
LEMMA ReturnKeepsPromise ==
    ASSUME IInv, RootSound, NEW t \in Thread, NEW b, NEW q, NEW shows,
           Returning(t, b, q, shows), Return(t, shows),
           NEW c, NEW e, NEW p, NEW floor, Promised(c, e, p, floor),
           CacheOwed(c, e, p, floor)',
           q = p /\ DueFrom(t, 1, c, e) => AtLeast(shows, b, floor)
    PROVE  Owed(c, e, p, floor)'
<1>1. PICK s : s = stack[t]
  OBVIOUS
<1>2. /\ s # <<>> /\ Len(s) \in Nat \ {0} /\ DOMAIN s = 1 .. Len(s) /\ 1 \in DOMAIN s
      /\ s[1] = Top(t) /\ s[1].comp = b /\ s[1].at # "enter" /\ q = thread[t].page
      /\ \A i \in DOMAIN s : i > 1 => s[i].at = "pulling"
      /\ thread[t].epoch \in Nat /\ s[1].epoch \in Nat /\ thread[t].pc = "rendering"
  <2>1. stack[t] # <<>> /\ b = Top(t).comp /\ q = thread[t].page /\ Top(t).at # "enter"
    BY DEF Returning
  <2>2. thread[t].epoch \in Nat
    BY <2>1, TopFrame DEF PullState
  <2>3. /\ Len(s) \in Nat \ {0} /\ DOMAIN s = 1 .. Len(s) /\ 1 \in DOMAIN s
        /\ s[1] = Top(t) /\ Top(t).epoch \in Nat /\ thread[t].pc = "rendering"
        /\ \A i \in DOMAIN s : i > 1 => s[i].at = "pulling"
    BY <1>1, <2>1, TopFrame
  <2>4. QED
    BY <1>1, <2>1, <2>2, <2>3
<1>3. c \in Comp /\ e \in Nat
  BY DEF Promised
<1>4. CASE Len(s) = 1
  <2>1. /\ hint' = hint /\ Alone(t) /\ stack'[t] = <<>>
        /\ thread'[t].page = thread[t].page /\ thread'[t].comp = thread[t].comp
        /\ thread'[t].epoch = thread[t].epoch /\ thread'[t].got = shows
    BY <1>1, <1>4, ReturnsToRequest
  <2>2. RenderOwed(c, e, p, floor)'
    <3>1. DOMAIN <<>> = {}
      OBVIOUS
    <3>2. QED
      BY <1>1, <1>2, <2>1, <3>1, RendersKept DEF Promised, Owed
  <2>3. ASSUME thread[t].page = p, thread[t].comp = c, thread[t].epoch >= e
        PROVE  AtLeast(shows, c, floor)
    <3>1. b = c /\ s[1].epoch >= thread[t].epoch
      BY <1>1, <1>2, <1>4, <2>3 DEF RootSound
    <3>2. s[1].epoch >= e
      BY <1>2, <1>3, <2>3, <3>1
    <3>3. DueFrom(t, 1, c, e)
      <4>1. 1 <= 1
        OBVIOUS
      <4>2. QED
        BY <1>1, <1>2, <3>1, <3>2, <4>1 DEF DueFrom, Due
    <3>4. QED
      BY <1>2, <2>3, <3>1, <3>3
  <2>4. AnswerOwed(c, e, p, floor)'
    <3>1. ASSUME NEW u \in Thread, u # t, thread'[u].page = p, thread'[u].comp = c,
                 thread'[u].epoch >= e, Rendered(u)'
          PROVE  AtLeast(thread'[u].got, c, floor)
      <4>1. thread'[u] = thread[u]
        BY <2>1, <3>1 DEF Alone
      <4>2. QED
        BY <3>1, <4>1 DEF Promised, Owed, AnswerOwed, Rendered
    <3>2. QED
      BY <2>1, <2>3, <3>1 DEF AnswerOwed
  <2>5. HintOwed(c, e, p, floor)'
    BY <2>1, HintsKept DEF Promised, Owed
  <2>6. QED
    BY <2>2, <2>4, <2>5 DEF Owed
<1>5. CASE Len(s) > 1
  <2>1. PICK f \in Frame, g \in Frame, h \in Hinted :
            /\ f = s[2] /\ f.at = "pulling" /\ f.comp = b + 1 /\ f.comp - 1 = b
            /\ f.prod \in Nat /\ f.prod <= s[1].epoch
            /\ g.comp = f.comp /\ g.at = "stamp" /\ g.epoch = f.epoch
            /\ g.own = f.own /\ g.input = shows
            /\ DOMAIN stack'[t] = 1 .. Len(s) - 1 /\ stack'[t][1] = g
            /\ \A i \in 2 .. Len(s) - 1 : stack'[t][i] = s[i + 1]
            /\ h.page = q /\ h.shows = shows /\ h.observed = f.prod
            /\ hint'[f.comp] = h /\ \A d \in Comp : d # f.comp => hint'[d] = hint[d]
            /\ thread' = thread /\ Alone(t)
    BY <1>1, <1>5, ReturnsToRender
  <2>2. ASSUME thread[t].page = p, NEW i \in DOMAIN stack'[t], DueFrom(t, i, c, e)'
        PROVE  Carries(stack[t][i], p, floor)'
    <3>1. PICK j \in DOMAIN stack'[t] : i <= j /\ Due(stack'[t][j], c, e)
      BY <2>2 DEF DueFrom, Due
    <3>2. /\ i \in Nat /\ j \in Nat /\ i + 1 <= j + 1 /\ i + 1 \in DOMAIN s /\ j + 1 \in DOMAIN s
          /\ 1 <= j + 1 /\ i + 1 > 1 /\ 1 + 1 = 2
          /\ (i # 1 => i \in 2 .. Len(s) - 1) /\ (j # 1 => j \in 2 .. Len(s) - 1)
      <4>1. Len(s) \in Nat /\ DOMAIN s = 1 .. Len(s)
        BY <1>2
      <4>2. i \in 1 .. Len(s) - 1 /\ j \in 1 .. Len(s) - 1 /\ i <= j
        BY <2>1, <3>1
      <4>3. QED
        BY <4>1, <4>2
    <3>3. Due(s[j + 1], c, e)
      <4>1. CASE j = 1
        BY <2>1, <3>1, <3>2, <4>1 DEF Due
      <4>2. CASE j # 1
        BY <2>1, <3>1, <3>2, <4>2
      <4>3. QED
        BY <4>1, <4>2
    <3>4. DueFrom(t, i + 1, c, e) /\ DueFrom(t, 1, c, e)
      BY <1>1, <3>2, <3>3 DEF DueFrom
    <3>5. Carries(s[i + 1], p, floor) /\ AtLeast(shows, b, floor)
      BY <1>1, <1>2, <2>2, <3>2, <3>4 DEF Promised, Owed, RenderOwed
    <3>6. CASE i = 1
      BY <2>1, <3>2, <3>5, <3>6 DEF Carries
    <3>7. CASE i # 1
      <4>1. stack'[t][i] = s[i + 1] /\ s[i + 1].at = "pulling"
        BY <1>2, <2>1, <3>2, <3>7
      <4>2. QED
        BY <3>5, <4>1 DEF Carries
    <3>8. QED
      BY <3>6, <3>7
  <2>3. RenderOwed(c, e, p, floor)'
    BY <1>1, <1>2, <2>1, <2>2, RendersKept DEF Promised, Owed
  <2>4. AnswerOwed(c, e, p, floor)'
    BY <2>1, AnswersKept DEF Promised, Owed, Rendered
  <2>5. ASSUME NEW d \in Comp, d = c + 1, hint'[d].page = p, hint'[d].observed >= e
        PROVE  AtLeast(hint'[d].shows, c, floor)
    <3>1. CASE d = f.comp
      <4>1. b = c /\ q = p /\ f.prod >= e
        <5>1. c \in Nat
          BY <1>3, HeightAssumption DEF Comp
        <5>2. f.comp - 1 = c
          BY <2>5, <3>1, <5>1
        <5>3. QED
          BY <2>1, <2>5, <3>1, <5>2
      <4>2. s[1].epoch >= e
        BY <1>2, <1>3, <2>1, <4>1
      <4>3. DueFrom(t, 1, c, e)
        <5>1. 1 <= 1
          OBVIOUS
        <5>2. QED
          BY <1>1, <1>2, <4>1, <4>2, <5>1 DEF DueFrom, Due
      <4>4. QED
        BY <2>1, <3>1, <4>1, <4>3
    <3>2. CASE d # f.comp
      BY <2>1, <2>5, <3>2 DEF Promised, Owed, HintOwed
    <3>3. QED
      BY <3>1, <3>2
  <2>6. HintOwed(c, e, p, floor)'
    BY <2>5 DEF HintOwed
  <2>7. QED
    BY <2>3, <2>4, <2>6 DEF Owed
<1>6. QED
  <2>1. \A n \in Nat \ {0} : n = 1 \/ n > 1
    OBVIOUS
  <2>2. QED
    BY <1>2, <1>4, <1>5, <2>1

LEMMA HitKeepsPromises ==
    ASSUME RInv, NEW t \in Thread, FreezeHit(t)
    PROVE  Keeps
<1>1. IInv /\ RootSound
  BY DEF RInv, Reliance
<1>2. PICK b, q, shows :
          /\ b = Top(t).comp /\ q = thread[t].page /\ shows = cache[b][q].shows
          /\ Returning(t, b, q, shows) /\ Return(t, shows)
  BY <1>1, HitReturns
<1>3. /\ cache' = cache /\ Current(cache[b][q], Top(t).epoch) /\ Top(t).at = "lookup"
      /\ stack[t] # <<>>
  BY <1>2 DEF FreezeHit, In, caching
<1>4. ASSUME NEW c, NEW e, NEW p, NEW floor, Promised(c, e, p, floor)
      PROVE  Owed(c, e, p, floor)'
  <2>1. CacheOwed(c, e, p, floor)'
    BY <1>3, <1>4 DEF Promised, Owed, CacheOwed
  <2>2. ASSUME q = p, DueFrom(t, 1, c, e) PROVE AtLeast(shows, b, floor)
    <3>1. Top(t) = stack[t][1] /\ 1 \in DOMAIN stack[t]
      BY <1>1, <1>3, TopFrame
    <3>2. Carries(Top(t), p, floor)
      BY <1>2, <1>4, <2>2, <3>1 DEF Promised, Owed, RenderOwed
    <3>3. QED
      BY <1>2, <1>3, <2>2, <3>2 DEF Carries
  <2>3. QED
    BY <1>1, <1>2, <1>4, <2>1, <2>2, ReturnKeepsPromise
<1>5. QED
  BY <1>4 DEF Keeps

LEMMA StampKeepsPromises ==
    ASSUME RInv, NEW t \in Thread, FreezeStamp(t)
    PROVE  Keeps
<1>1. IInv /\ RootSound
  BY DEF RInv, Reliance
<1>2. PICK b, q, shows :
          /\ b = Top(t).comp /\ q = thread[t].page /\ shows = Append(Top(t).input, Top(t).own)
          /\ Returning(t, b, q, shows) /\ Return(t, shows)
  BY <1>1, StampReturns
<1>3. /\ cache' = (IF cache[b][q].present
                   THEN [cache EXCEPT ![b][q] = Frozen(Top(t).epoch, shows)] ELSE cache)
      /\ Top(t).at = "stamp" /\ stack[t] # <<>>
  BY <1>2 DEF FreezeStamp, In
<1>4. /\ Top(t) = stack[t][1] /\ 1 \in DOMAIN stack[t] /\ b \in Comp /\ b \in Nat \ {0} /\ q \in Page
      /\ Top(t).input \in Seq(Version) /\ Top(t).own \in Version /\ Top(t).epoch \in Nat
      /\ Len(Top(t).input) = b - 1
  BY <1>1, <1>2, <1>3, TopFrame DEF FrameOK
<1>5. cache \in [Comp -> [Page -> Cached]]
  BY <1>1 DEF IInv, Sound, Types
<1>6. ASSUME NEW c, NEW e, NEW p, NEW floor, Promised(c, e, p, floor)
      PROVE  Owed(c, e, p, floor)'
  <2>1. ASSUME q = p, DueFrom(t, 1, c, e) PROVE AtLeast(shows, b, floor)
    <3>1. Carries(Top(t), p, floor)
      BY <1>2, <1>4, <1>6, <2>1 DEF Promised, Owed, RenderOwed
    <3>2. Top(t).own >= floor[b] /\ AtLeast(Top(t).input, b - 1, floor)
      BY <1>2, <1>3, <3>1 DEF Carries
    <3>3. ASSUME NEW d \in 1 .. b PROVE shows[d] >= floor[d]
      <4>1. CASE d = b
        <5>1. shows[b] = Top(t).own
          <6>1. shows[(b - 1) + 1] = Top(t).own
            BY <1>2, <1>4, AppendProperties
          <6>2. (b - 1) + 1 = b
            BY <1>4
          <6>3. QED
            BY <6>1, <6>2
        <5>2. QED
          BY <3>2, <4>1, <5>1
      <4>2. CASE d # b
        <5>1. d \in 1 .. b - 1
          BY <1>4, <4>2
        <5>2. shows[d] = Top(t).input[d]
          BY <1>2, <1>4, <5>1, AppendProperties
        <5>3. QED
          BY <3>2, <5>1, <5>2 DEF AtLeast
      <4>3. QED
        BY <4>1, <4>2
    <3>4. QED
      BY <3>3 DEF AtLeast
  <2>2. CacheOwed(c, e, p, floor)'
    <3>1. c \in Comp /\ p \in Page /\ CacheOwed(c, e, p, floor)
      BY <1>6 DEF Promised, Owed
    <3>2. CASE c = b /\ p = q /\ cache[b][q].present
      <4>1. cache'[c][p] = Frozen(Top(t).epoch, shows)
        BY <1>3, <1>4, <1>5, <3>2
      <4>2. ASSUME Current(cache'[c][p], e) PROVE AtLeast(cache'[c][p].shows, c, floor)
        <5>1. Top(t).epoch >= e /\ cache'[c][p].shows = shows
          BY <4>1, <4>2 DEF Current, Frozen
        <5>2. DueFrom(t, 1, c, e)
          <6>1. 1 <= 1
            OBVIOUS
          <6>2. QED
            BY <1>2, <1>3, <1>4, <3>2, <5>1, <6>1 DEF DueFrom, Due
        <5>3. QED
          BY <2>1, <3>2, <5>1, <5>2
      <4>3. QED
        BY <4>2 DEF CacheOwed, Current
    <3>3. CASE ~(c = b /\ p = q /\ cache[b][q].present)
      <4>1. cache'[c][p] = cache[c][p]
        BY <1>3, <1>4, <1>5, <3>1, <3>3
      <4>2. QED
        BY <3>1, <4>1 DEF CacheOwed
    <3>4. QED
      BY <3>2, <3>3
  <2>3. QED
    BY <1>1, <1>2, <1>6, <2>1, <2>2, ReturnKeepsPromise
<1>7. QED
  BY <1>6 DEF Keeps

-----------------------------------------------------------------------------
(***************************************************************************)
(* requestPage, edits and pruning                                          *)
(***************************************************************************)
\* An answer is a page of the cache that is current for the request, or one that was an
\* answer to a request at least as new.
Answered(u) ==
    \/ /\ Current(cache[thread'[u].comp][thread'[u].page], thread'[u].epoch)
       /\ thread'[u].got = cache[thread'[u].comp][thread'[u].page].shows
       /\ thread'[u].comp \in Comp
    \/ \E v \in Thread : /\ Rendered(v) /\ thread'[u].got = thread[v].got
                         /\ thread'[u].page = thread[v].page /\ thread'[u].comp = thread[v].comp
                         /\ thread'[u].epoch <= thread[v].epoch

LEMMA RequestsKeepPromises ==
    ASSUME IInv, IInv', UNCHANGED <<cache, hint>>,
           \A u \in Thread : stack[u] # <<>> =>
               stack'[u] = stack[u] /\ thread'[u].page = thread[u].page,
           \A u \in Thread : stack[u] = <<>> => \A i \in DOMAIN stack'[u] : stack'[u][i].at = "enter",
           \A u \in Thread : Rendered(u)' => Answered(u)
    PROVE  Keeps
<1>1. thread \in [Thread -> PullState] /\ thread' \in [Thread -> PullState]
      /\ cache \in [Comp -> [Page -> Cached]]
  BY DEF IInv, Sound, Types
<1>2. \A u \in Thread : thread[u].epoch \in Nat /\ thread'[u].epoch \in Nat
  BY <1>1 DEF PullState
<1>3. ASSUME NEW c, NEW e, NEW p, NEW floor, Promised(c, e, p, floor)
      PROVE  Owed(c, e, p, floor)'
  <2>1. CacheOwed(c, e, p, floor)'
    BY <1>3 DEF Promised, Owed, CacheOwed
  <2>2. HintOwed(c, e, p, floor)'
    BY <1>3, HintsKept DEF Promised, Owed
  <2>3. ASSUME NEW u \in Thread, thread'[u].page = p, NEW i \in DOMAIN stack'[u], DueFrom(u, i, c, e)'
        PROVE  Carries(stack[u][i], p, floor)'
    <3>1. CASE stack[u] = <<>>
      <4>1. PICK j \in DOMAIN stack'[u] : stack'[u][j].at # "enter"
        BY <2>3 DEF DueFrom, Due
      <4>2. QED
        BY <3>1, <4>1
    <3>2. CASE stack[u] # <<>>
      <4>1. stack'[u] = stack[u] /\ thread[u].page = p
        BY <2>3, <3>2
      <4>2. DueFrom(u, i, c, e)
        BY <2>3, <4>1 DEF DueFrom, Due
      <4>3. Carries(stack[u][i], p, floor)
        BY <1>3, <2>3, <4>1, <4>2 DEF Promised, Owed, RenderOwed
      <4>4. QED
        BY <4>1, <4>3 DEF Carries
    <3>3. QED
      BY <3>1, <3>2
  <2>4. RenderOwed(c, e, p, floor)'
    BY <2>3 DEF RenderOwed
  <2>5. ASSUME NEW u \in Thread, thread'[u].page = p, thread'[u].comp = c, thread'[u].epoch >= e,
               Rendered(u)'
        PROVE  AtLeast(thread'[u].got, c, floor)
    <3>1. Answered(u) /\ e \in Nat /\ c \in Comp /\ p \in Page
      BY <1>3, <2>5 DEF Promised
    <3>2. CASE /\ Current(cache[c][p], thread'[u].epoch)
               /\ thread'[u].got = cache[c][p].shows
      <4>1. cache[c][p].stamp \in Nat
        BY <1>1, <3>1 DEF Cached
      <4>2. Current(cache[c][p], e)
        BY <1>2, <2>5, <3>1, <3>2, <4>1 DEF Current
      <4>3. QED
        BY <1>3, <3>2, <4>2 DEF Promised, Owed, CacheOwed
    <3>3. ASSUME NEW v \in Thread, Rendered(v), thread'[u].got = thread[v].got,
                 thread'[u].page = thread[v].page, thread'[u].comp = thread[v].comp,
                 thread'[u].epoch <= thread[v].epoch
          PROVE  AtLeast(thread'[u].got, c, floor)
      <4>1. thread[v].epoch >= e
        BY <1>2, <2>5, <3>1, <3>3
      <4>2. QED
        BY <1>3, <2>5, <3>3, <4>1 DEF Promised, Owed, AnswerOwed
    <3>4. QED
      BY <2>5, <3>1, <3>2, <3>3 DEF Answered
  <2>6. AnswerOwed(c, e, p, floor)'
    BY <2>5 DEF AnswerOwed
  <2>7. QED
    BY <2>1, <2>2, <2>4, <2>6 DEF Owed
<1>4. QED
  BY <1>3 DEF Keeps

\* What a step of one thread owes to those that rely on it.
Working(t) == thread[t].pc \in {"rendering", "erase", "deliver"}

SameRequest(t) ==
    /\ thread'[t].page = thread[t].page /\ thread'[t].comp = thread[t].comp
    /\ thread'[t].epoch = thread[t].epoch /\ thread'[t].since = thread[t].since

\* A request made in this step is about the present; any other is the one it was.
Asked(u) ==
    /\ UNCHANGED <<epoch, settled>> /\ thread'[u].page \in Page
    /\ thread'[u].epoch = epoch[Height] /\ thread'[u].since = SettledAt(thread'[u].page)

Continues ==
    \A u \in Thread : thread'[u].pc # "idle" => Asked(u) \/ (SameRequest(u) /\ thread[u].pc # "idle")

LEMMA OwnStepRelies ==
    ASSUME IInv, Reliance, NEW t \in Thread, UNCHANGED <<model, settled, edits>>,
           \A u \in Thread : u # t => thread'[u] = thread[u] /\ stack'[u] = stack[u],
           \/ SameRequest(t) /\ thread[t].pc # "idle"
           \/ thread'[t].pc = "idle"
           \/ /\ Asked(t)
              /\ thread'[t].comp = Height /\ thread'[t].since \in [Comp -> Version]
              /\ \A d \in Comp : thread'[t].since[d] <= settled[d][thread'[t].page],
           Working(t) => Working(t)' /\ SameRequest(t),
           thread'[t].pc = "wait" => \E u \in Thread : u = thread'[t].waits /\ Serves(u, t)',
           OwnerSound',
           \A i \in DOMAIN stack'[t] : i = Len(stack'[t]) =>
               /\ stack'[t][i].comp = thread'[t].comp
               /\ stack'[t][i].at # "enter" => stack'[t][i].epoch >= thread'[t].epoch
    PROVE  Reliance' /\ Continues
<1>1. RequestSound /\ SettledSound /\ RootSound /\ WaitSound
  BY DEF Reliance
<1>2. RequestSound'
  <2>1. ASSUME NEW u \in Thread, u # t, thread'[u].pc # "idle"
        PROVE  /\ thread'[u].comp = Height /\ thread'[u].since \in [Comp -> Version]
               /\ \A d \in Comp : thread'[u].since[d] <= settled[d][thread'[u].page]
    BY <1>1, <2>1 DEF RequestSound
  <2>2. ASSUME thread'[t].pc # "idle"
        PROVE  /\ thread'[t].comp = Height /\ thread'[t].since \in [Comp -> Version]
               /\ \A d \in Comp : thread'[t].since[d] <= settled[d][thread'[t].page]
    BY <1>1, <2>2 DEF RequestSound, SameRequest
  <2>3. QED
    BY <2>1, <2>2 DEF RequestSound
<1>3. SettledSound'
  BY <1>1 DEF SettledSound
<1>4. RootSound'
  BY <1>1 DEF RootSound
<1>5. WaitSound'
  <2>1. ASSUME NEW u \in Thread, u # t, thread'[u].pc = "wait"
        PROVE  \E v \in Thread : v = thread'[u].waits /\ Serves(v, u)'
    <3>1. thread'[u] = thread[u]
      BY <2>1
    <3>2. PICK v \in Thread : v = thread[u].waits /\ Serves(v, u)
      BY <1>1, <2>1, <3>1 DEF WaitSound
    <3>3. CASE v = t
      <4>1. Working(t)' /\ SameRequest(t)
        BY <3>2, <3>3 DEF Serves, Working
      <4>2. Serves(v, u)'
        BY <3>1, <3>2, <3>3, <4>1 DEF Serves, SameRequest, Working
      <4>3. QED
        BY <3>1, <3>2, <4>2
    <3>4. CASE v # t
      <4>1. Serves(v, u)'
        BY <3>1, <3>2, <3>4 DEF Serves
      <4>2. QED
        BY <3>1, <3>2, <4>1
    <3>5. QED
      BY <3>3, <3>4
  <2>2. QED
    BY <2>1 DEF WaitSound
<1>6. Continues
  <2>1. ASSUME NEW u \in Thread, u # t, thread'[u].pc # "idle"
        PROVE  SameRequest(u) /\ thread[u].pc # "idle"
    BY <2>1 DEF SameRequest
  <2>2. QED
    BY <2>1 DEF Continues
<1>7. QED
  BY <1>2, <1>3, <1>4, <1>5, <1>6 DEF Reliance

\* Entries stay true while their owner is at work on the same request.
LEMMA OwnersKept ==
    ASSUME OwnerSound, NEW t \in Thread, inflight' = inflight,
           \A u \in Thread : u # t => thread'[u] = thread[u],
           thread[t].pc \in {"rendering", "erase"} =>
               thread'[t].pc \in {"rendering", "erase"} /\ SameRequest(t)
    PROVE  OwnerSound'
<1>1. ASSUME NEW c \in Comp, NEW p \in Page, NEW u \in Thread, inflight[c][p].owner = u
      PROVE  /\ thread'[u].page = p /\ thread'[u].comp = c /\ thread'[u].epoch = inflight[c][p].epoch
             /\ thread'[u].pc \in {"rendering", "erase"}
  <2>1. /\ thread[u].page = p /\ thread[u].comp = c /\ thread[u].epoch = inflight[c][p].epoch
        /\ thread[u].pc \in {"rendering", "erase"}
    BY <1>1 DEF OwnerSound
  <2>2. CASE u = t
    BY <2>1, <2>2 DEF SameRequest
  <2>3. CASE u # t
    BY <2>1, <2>3
  <2>4. QED
    BY <2>2, <2>3
<1>2. QED
  BY <1>1 DEF OwnerSound

-----------------------------------------------------------------------------
(***************************************************************************)
(* requestPage, step by step                                               *)
(***************************************************************************)
\* A render that stays done, of the same request, is answered as it was.
LEMMA SameAnswer ==
    ASSUME IInv, NEW u \in Thread, Rendered(u), thread'[u].got = thread[u].got,
           thread'[u].page = thread[u].page, thread'[u].comp = thread[u].comp,
           thread'[u].epoch = thread[u].epoch
    PROVE  Answered(u)
<1>1. thread[u].epoch \in Nat
  BY OnlyPullers DEF PullState
<1>2. thread'[u].epoch <= thread[u].epoch
  BY <1>1
<1>3. QED
  BY <1>2 DEF Answered

\* Steps of one thread outside of freezePage that answer nothing, and that nobody relies on.
LEMMA QuietStep ==
    ASSUME RInv, IInv', NEW t \in Thread, UNCHANGED <<editing, cache, hint, inflight, stack>>,
           stack[t] = <<>>, ~Working(t), thread'[t].pc \in {"idle", "fast", "claim", "wait", "answer"},
           \A u \in Thread : u # t => thread'[u] = thread[u],
           Rendered(t)' => Answered(t),
           \/ SameRequest(t) /\ thread[t].pc # "idle"
           \/ thread'[t].pc = "idle"
           \/ /\ Asked(t)
              /\ thread'[t].comp = Height /\ thread'[t].since \in [Comp -> Version]
              /\ \A d \in Comp : thread'[t].since[d] <= settled[d][thread'[t].page],
           thread'[t].pc = "wait" => \E u \in Thread : u = thread'[t].waits /\ Serves(u, t)'
    PROVE  Keeps /\ Reliance' /\ Continues
<1>1. IInv /\ Reliance
  BY DEF RInv
<1>2. UNCHANGED <<model, settled, edits>>
  BY DEF editing
<1>3. OwnerSound'
  BY <1>1, OwnersKept DEF Reliance, Working
<1>4. DOMAIN stack'[t] = {}
  OBVIOUS
<1>5. Reliance' /\ Continues
  BY <1>1, <1>2, <1>3, <1>4, OwnStepRelies
<1>6. ASSUME NEW u \in Thread, Rendered(u)' PROVE Answered(u)
  <2>1. CASE u = t
    BY <1>6, <2>1
  <2>2. CASE u # t
    BY <1>1, <1>6, <2>2, SameAnswer DEF Rendered
  <2>3. QED
    BY <2>1, <2>2
<1>7. \A u \in Thread : stack[u] # <<>> => stack'[u] = stack[u] /\ thread'[u].page = thread[u].page
  OBVIOUS
<1>8. \A u \in Thread : stack[u] = <<>> => \A i \in DOMAIN stack'[u] : stack'[u][i].at = "enter"
  OBVIOUS
<1>9. Keeps
  BY <1>1, <1>6, <1>7, <1>8, RequestsKeepPromises
<1>10. QED
  BY <1>5, <1>9

LEMMA AskKeepsPromises ==
    ASSUME RInv, IInv', NEW t \in Thread, NEW p \in Page, Request(t, p)
    PROVE  Keeps /\ Reliance' /\ Continues
<1>1. IInv /\ Height \in Comp
  BY HeightAssumption DEF RInv, Comp
<1>2. /\ thread' = [thread EXCEPT ![t] = [@ EXCEPT !.pc = "fast", !.page = p, !.comp = Height,
                        !.epoch = epoch[Height], !.since = SettledAt(p)]]
      /\ stack[t] = <<>> /\ thread[t].pc = "idle"
      /\ UNCHANGED <<editing, epoch, cache, hint, inflight, stack>>
  BY DEF Request, At, SettledAt, caching
<1>3. thread \in [Thread -> PullState] /\ thread[t] \in PullState
  BY <1>1 DEF IInv, Sound, Types
<1>4. \A u \in Thread : u # t => thread'[u] = thread[u]
  BY <1>2, <1>3
<1>5. /\ thread'[t].pc = "fast" /\ thread'[t].page = p /\ thread'[t].comp = Height
      /\ thread'[t].epoch = epoch[Height] /\ thread'[t].since = SettledAt(p)
  BY <1>2, <1>3 DEF PullState
<1>6. /\ SettledAt(p) \in [Comp -> Version]
      /\ \A d \in Comp : SettledAt(p)[d] <= settled[d][p]
  <2>1. settled \in [Comp -> [Page -> Version]]
    BY <1>1 DEF IInv, Sound, Types
  <2>2. \A d \in Comp : settled[d][p] \in Version /\ settled[d][p] \in Int
    BY <2>1 DEF Version
  <2>3. QED
    BY <1>1, <2>2, SettledNow DEF SettledAt
<1>7. ~Working(t) /\ ~Rendered(t)' /\ thread'[t].pc \in {"idle", "fast", "claim", "wait", "answer"}
  BY <1>2, <1>5 DEF Working, Rendered
<1>8. Asked(t)
  BY <1>2, <1>5 DEF Asked, editing
<1>9. QED
  BY <1>2, <1>4, <1>5, <1>6, <1>7, <1>8, QuietStep

LEMMA FastKeepsPromises ==
    ASSUME RInv, IInv', NEW t \in Thread, RequestFast(t)
    PROVE  Keeps /\ Reliance' /\ Continues
<1> DEFINE c == thread[t].comp
           page == cache[c][thread[t].page]
<1>1. IInv /\ thread \in [Thread -> PullState] /\ thread[t] \in PullState /\ AfterRequest(t) = "answer"
  BY OnlyPullers DEF RInv, IInv, Sound, Types, AfterRequest
<1>2. /\ stack[t] = <<>> /\ thread[t].pc = "fast" /\ UNCHANGED <<editing, cache, hint, inflight, stack>>
      /\ thread' = IF Current(page, thread[t].epoch)
                   THEN [thread EXCEPT ![t].pc = "answer", ![t].got = page.shows]
                   ELSE [thread EXCEPT ![t].pc = "claim"]
  BY <1>1 DEF RequestFast, At, caching
<1>3. c \in Comp
  BY <1>1, <1>2 DEF IInv, Sound, ThreadSound
<1> HIDE DEF page
<1>4. \A u \in Thread : u # t => thread'[u] = thread[u]
  BY <1>1, <1>2
<1>5. /\ SameRequest(t)
      /\ \/ thread'[t].pc = "answer" /\ thread'[t].got = page.shows /\ Current(page, thread[t].epoch)
         \/ thread'[t].pc = "claim"
  <2>1. CASE Current(page, thread[t].epoch)
    <3>1. thread'[t] = [thread[t] EXCEPT !.pc = "answer", !.got = page.shows]
      BY <1>1, <1>2, <2>1
    <3>2. QED
      BY <1>1, <2>1, <3>1, ZenonT(30) DEF SameRequest, PullState
  <2>2. CASE ~Current(page, thread[t].epoch)
    <3>1. thread'[t] = [thread[t] EXCEPT !.pc = "claim"]
      BY <1>1, <1>2, <2>2
    <3>2. QED
      BY <1>1, <3>1, ZenonT(30) DEF SameRequest, PullState
  <2>3. QED
    BY <2>1, <2>2
<1>6. Rendered(t)' => Answered(t)
  BY <1>3, <1>5 DEF Rendered, Answered, SameRequest, page
<1>7. ~Working(t) /\ thread'[t].pc \in {"idle", "fast", "claim", "wait", "answer"} /\ thread[t].pc # "idle"
      /\ thread'[t].pc # "wait"
  BY <1>2, <1>5 DEF Working
<1>8. QED
  BY <1>2, <1>4, <1>5, <1>6, <1>7, QuietStep

LEMMA AttachKeepsPromises ==
    ASSUME RInv, IInv', NEW t \in Thread, RequestAttach(t)
    PROVE  Keeps /\ Reliance' /\ Continues
<1> DEFINE c == thread[t].comp
           p == thread[t].page
           entry == inflight[c][p]
<1>1. IInv /\ thread \in [Thread -> PullState] /\ thread[t] \in PullState /\ OwnerSound
  BY OnlyPullers DEF RInv, IInv, Sound, Types, Reliance
<1>2. /\ stack[t] = <<>> /\ thread[t].pc = "claim" /\ UNCHANGED <<editing, cache, hint, inflight, stack>>
      /\ thread' = [thread EXCEPT ![t].pc = "wait", ![t].waits = entry.owner]
      /\ entry.owner # Nobody /\ entry.epoch >= thread[t].epoch
  BY DEF RequestAttach, Attachable, At, caching
<1>3. c \in Comp /\ p \in Page /\ InflightSound
  BY <1>1, <1>2 DEF IInv, Sound, ThreadSound
<1>4. entry.owner \in Thread
  BY <1>2, <1>3 DEF InflightSound, NoEntry
<1> HIDE DEF entry
<1>5. \A u \in Thread : u # t => thread'[u] = thread[u]
  BY <1>1, <1>2
<1>6. SameRequest(t) /\ thread'[t].pc = "wait" /\ thread'[t].waits = entry.owner
  <2>1. thread'[t] = [thread[t] EXCEPT !.pc = "wait", !.waits = entry.owner]
    BY <1>1, <1>2
  <2>2. QED
    BY <1>1, <2>1, ZenonT(30) DEF SameRequest, PullState
<1>7. \E u \in Thread : u = thread'[t].waits /\ Serves(u, t)'
  <2>1. PICK v \in Thread : v = entry.owner
    BY <1>4
  <2>2. /\ thread[v].page = p /\ thread[v].comp = c /\ thread[v].epoch = entry.epoch
        /\ thread[v].pc \in {"rendering", "erase"}
    <3>1. inflight[c][p].owner = v /\ entry = inflight[c][p]
      BY <2>1 DEF entry
    <3>2. QED
      BY <1>1, <1>3, <3>1 DEF OwnerSound
  <2>3. v # t
    BY <1>2, <2>2
  <2>4. Serves(v, t)'
    BY <1>2, <1>5, <1>6, <2>2, <2>3 DEF Serves, SameRequest
  <2>5. QED
    BY <1>6, <2>1, <2>4
<1>8. ~Working(t) /\ thread'[t].pc \in {"idle", "fast", "claim", "wait", "answer"} /\ thread[t].pc # "idle"
      /\ ~Rendered(t)'
  BY <1>2, <1>6 DEF Working, Rendered
<1>9. QED
  BY <1>2, <1>5, <1>6, <1>7, <1>8, QuietStep

LEMMA TakeKeepsPromises ==
    ASSUME RInv, IInv', NEW t \in Thread, Answer(t)
    PROVE  Keeps /\ Reliance' /\ Continues
<1>1. thread \in [Thread -> PullState]
  BY DEF RInv, IInv, Sound, Types
<1>2. /\ stack[t] = <<>> /\ thread[t].pc = "answer" /\ UNCHANGED <<editing, cache, hint, inflight, stack>>
      /\ thread' = [thread EXCEPT ![t] = Idle]
  BY DEF Answer, At, caching
<1>3. thread'[t].pc = "idle" /\ \A u \in Thread : u # t => thread'[u] = thread[u]
  BY <1>1, <1>2 DEF Idle
<1>4. ~Working(t) /\ ~Rendered(t)' /\ thread'[t].pc \in {"idle", "fast", "claim", "wait", "answer"}
      /\ thread'[t].pc # "wait"
  BY <1>2, <1>3 DEF Working, Rendered
<1>5. QED
  BY <1>2, <1>3, <1>4, QuietStep

LEMMA ClaimKeepsPromises ==
    ASSUME RInv, IInv', NEW t \in Thread, RequestClaim(t)
    PROVE  Keeps /\ Reliance' /\ Continues
<1> DEFINE c == thread[t].comp
           p == thread[t].page
           entry == [epoch |-> thread[t].epoch, owner |-> t]
<1>1. /\ IInv /\ Reliance /\ OwnerSound /\ thread \in [Thread -> PullState] /\ thread[t] \in PullState
      /\ inflight \in [Comp -> [Page -> [epoch : Nat, owner : Thread \cup {Nobody}]]]
      /\ stack \in [Thread -> Seq(Frame)]
  BY OnlyPullers DEF RInv, IInv, Sound, Types, Reliance
<1>2. /\ stack[t] = <<>> /\ thread[t].pc = "claim" /\ UNCHANGED <<model, settled, edits, cache, hint>>
      /\ thread' = [thread EXCEPT ![t].pc = "rendering"]
      /\ inflight' = [inflight EXCEPT ![c][p] = entry]
      /\ stack' = [stack EXCEPT ![t] = <<Call(c)>>]
  BY DEF RequestClaim, At, Goto, editing, caching
<1>3. c \in Comp /\ p \in Page
  BY <1>1, <1>2 DEF IInv, Sound, ThreadSound
<1>4. /\ \A u \in Thread : u # t => thread'[u] = thread[u] /\ stack'[u] = stack[u]
      /\ stack'[t] = <<Call(c)>>
  BY <1>1, <1>2
<1>5. SameRequest(t) /\ thread'[t].pc = "rendering"
  <2>1. thread'[t] = [thread[t] EXCEPT !.pc = "rendering"]
    BY <1>1, <1>2
  <2>2. QED
    BY <1>1, <2>1, ZenonT(30) DEF SameRequest, PullState
<1>6. /\ DOMAIN stack'[t] = {1} /\ Len(stack'[t]) = 1
      /\ stack'[t][1].comp = c /\ stack'[t][1].at = "enter"
  BY <1>4 DEF Call
<1>7. ASSUME NEW d \in Comp, NEW q \in Page
      PROVE  IF d = c /\ q = p THEN inflight'[d][q] = entry ELSE inflight'[d][q] = inflight[d][q]
  <2> HIDE DEF entry, c, p
  <2>1. QED
    BY <1>1, <1>2, <1>3
<1>8. OwnerSound'
  <2>1. ASSUME NEW d \in Comp, NEW q \in Page, NEW u \in Thread, inflight'[d][q].owner = u
        PROVE  /\ thread'[u].page = q /\ thread'[u].comp = d
               /\ thread'[u].epoch = inflight'[d][q].epoch /\ thread'[u].pc \in {"rendering", "erase"}
    <3>1. CASE d = c /\ q = p
      BY <1>5, <1>7, <2>1, <3>1 DEF SameRequest
    <3>2. CASE ~(d = c /\ q = p)
      <4>1. /\ inflight'[d][q] = inflight[d][q] /\ thread[u].pc \in {"rendering", "erase"}
            /\ thread[u].page = q /\ thread[u].comp = d /\ thread[u].epoch = inflight[d][q].epoch
        BY <1>1, <1>7, <2>1, <3>2 DEF OwnerSound
      <4>2. u # t
        BY <1>2, <4>1
      <4>3. QED
        BY <1>4, <4>1, <4>2
    <3>3. QED
      BY <3>1, <3>2
  <2>2. QED
    BY <2>1 DEF OwnerSound
<1>9. Reliance' /\ Continues
  <2>1. ~Working(t) /\ thread[t].pc # "idle" /\ thread'[t].pc # "wait"
    BY <1>2, <1>5 DEF Working
  <2>2. \A i \in DOMAIN stack'[t] : /\ stack'[t][i].comp = thread'[t].comp
                                    /\ stack'[t][i].at = "enter"
    BY <1>5, <1>6 DEF SameRequest
  <2>3. QED
    BY <1>1, <1>2, <1>4, <1>5, <1>8, <2>1, <2>2, OwnStepRelies
<1>10. ASSUME NEW u \in Thread, Rendered(u)' PROVE Answered(u)
  <2>1. u # t
    BY <1>5, <1>10 DEF Rendered
  <2>2. QED
    BY <1>1, <1>4, <1>10, <2>1, SameAnswer DEF Rendered
<1>11. Keeps
  <2>1. \A u \in Thread : stack[u] # <<>> => stack'[u] = stack[u] /\ thread'[u].page = thread[u].page
    BY <1>2, <1>4
  <2>2. \A u \in Thread : stack[u] = <<>> => \A i \in DOMAIN stack'[u] : stack'[u][i].at = "enter"
    <3>1. \A u \in Thread : u # t => stack'[u] = stack[u]
      BY <1>4
    <3>2. \A i \in DOMAIN stack'[t] : stack'[t][i].at = "enter"
      BY <1>6
    <3>3. QED
      BY <3>1, <3>2
  <2>3. QED
    BY <1>1, <1>2, <1>10, <2>1, <2>2, RequestsKeepPromises
<1>12. QED
  BY <1>9, <1>11

LEMMA EraseKeepsPromises ==
    ASSUME RInv, IInv', NEW t \in Thread, RequestErase(t)
    PROVE  Keeps /\ Reliance' /\ Continues
<1> DEFINE c == thread[t].comp
           p == thread[t].page
<1>1. /\ IInv /\ Reliance /\ OwnerSound /\ thread \in [Thread -> PullState] /\ thread[t] \in PullState
      /\ inflight \in [Comp -> [Page -> [epoch : Nat, owner : Thread \cup {Nobody}]]]
  BY OnlyPullers DEF RInv, IInv, Sound, Types, Reliance
<1>2. /\ stack[t] = <<>> /\ thread[t].pc = "erase"
      /\ UNCHANGED <<model, settled, edits, cache, hint, stack>>
      /\ thread' = [thread EXCEPT ![t].pc = "deliver"]
      /\ inflight' = IF inflight[c][p].owner = t THEN [inflight EXCEPT ![c][p] = NoEntry] ELSE inflight
  BY DEF RequestErase, At, Goto, editing, caching
<1>3. c \in Comp /\ p \in Page
  BY <1>1, <1>2 DEF IInv, Sound, ThreadSound
<1>4. \A u \in Thread : u # t => thread'[u] = thread[u] /\ stack'[u] = stack[u]
  BY <1>1, <1>2
<1>5. SameRequest(t) /\ thread'[t].pc = "deliver" /\ thread'[t].got = thread[t].got
  <2>1. thread'[t] = [thread[t] EXCEPT !.pc = "deliver"]
    BY <1>1, <1>2
  <2>2. QED
    BY <1>1, <2>1, ZenonT(30) DEF SameRequest, PullState
<1>6. ASSUME NEW d \in Comp, NEW q \in Page, inflight'[d][q].owner \in Thread
      PROVE  /\ inflight'[d][q] = inflight[d][q]
             /\ ~(d = c /\ q = p /\ inflight[c][p].owner = t)
  <2>1. NoEntry.owner \notin Thread
    BY OnlyPullers, <1>1 DEF NoEntry
  <2>2. CASE inflight[c][p].owner = t
    <3> HIDE DEF c, p
    <3>1. QED
      BY <1>1, <1>2, <1>3, <1>6, <2>1, <2>2
  <2>3. CASE inflight[c][p].owner # t
    BY <1>2, <2>3
  <2>4. QED
    BY <2>2, <2>3
<1>7. OwnerSound'
  <2>1. ASSUME NEW d \in Comp, NEW q \in Page, NEW u \in Thread, inflight'[d][q].owner = u
        PROVE  /\ thread'[u].page = q /\ thread'[u].comp = d
               /\ thread'[u].epoch = inflight'[d][q].epoch /\ thread'[u].pc \in {"rendering", "erase"}
    <3>1. inflight'[d][q] = inflight[d][q] /\ ~(d = c /\ q = p /\ inflight[c][p].owner = t)
      BY <1>6, <2>1
    <3>2. /\ thread[u].pc \in {"rendering", "erase"}
          /\ thread[u].page = q /\ thread[u].comp = d /\ thread[u].epoch = inflight[d][q].epoch
      BY <1>1, <2>1, <3>1 DEF OwnerSound
    <3>3. u # t
      BY <2>1, <3>1, <3>2
    <3>4. QED
      BY <1>4, <3>1, <3>2, <3>3
  <2>2. QED
    BY <2>1 DEF OwnerSound
<1>8. Reliance' /\ Continues
  <2>1. Working(t)' /\ thread[t].pc # "idle" /\ thread'[t].pc # "wait"
    BY <1>2, <1>5 DEF Working
  <2>2. DOMAIN stack'[t] = {}
    BY <1>2
  <2>3. QED
    BY <1>1, <1>2, <1>4, <1>5, <1>7, <2>1, <2>2, OwnStepRelies
<1>9. ASSUME NEW u \in Thread, Rendered(u)' PROVE Answered(u)
  <2>1. CASE u = t
    <3>1. Rendered(t)
      BY <1>2 DEF Rendered
    <3>2. QED
      BY <1>1, <1>5, <2>1, <3>1, SameAnswer DEF SameRequest
  <2>2. CASE u # t
    BY <1>1, <1>4, <1>9, <2>2, SameAnswer DEF Rendered
  <2>3. QED
    BY <2>1, <2>2
<1>10. Keeps
  <2>1. \A u \in Thread : stack[u] # <<>> => stack'[u] = stack[u] /\ thread'[u].page = thread[u].page
    BY <1>2, <1>4
  <2>2. \A u \in Thread : stack[u] = <<>> => \A i \in DOMAIN stack'[u] : stack'[u][i].at = "enter"
    BY <1>2
  <2>3. QED
    BY <1>1, <1>2, <1>9, <2>1, <2>2, RequestsKeepPromises
<1>11. QED
  BY <1>8, <1>10

\* Those who wait take the answer to the request they wait for, which is as new as their own.
LEMMA DeliverKeepsPromises ==
    ASSUME RInv, IInv', NEW t \in Thread, RequestDeliver(t)
    PROVE  Keeps /\ Reliance' /\ Continues
<1>1. /\ IInv /\ Reliance /\ thread \in [Thread -> PullState] /\ ThreadSound
      /\ RequestSound /\ SettledSound /\ RootSound /\ WaitSound /\ OwnerSound
  BY DEF RInv, IInv, Sound, Types, Reliance
<1>2. /\ stack[t] = <<>> /\ thread[t].pc = "deliver"
      /\ UNCHANGED <<model, settled, edits, cache, hint, inflight, stack>>
  BY DEF RequestDeliver, At, editing, caching
<1>3. ASSUME NEW u \in Thread
      PROVE  /\ SameRequest(u)
             /\ \/ thread'[u] = thread[u] /\ u # t /\ ~(thread[u].pc = "wait" /\ thread[u].waits = t)
                \/ u = t /\ thread'[u].pc = "answer" /\ thread'[u].got = thread[t].got
                \/ /\ thread[u].pc = "wait" /\ thread[u].waits = t /\ thread'[u].pc = "answer"
                   /\ thread'[u].got = thread[t].got
  <2>1. AfterRequest(u) = "answer" /\ thread[u] \in PullState
    BY <1>1, OnlyPullers DEF AfterRequest
  <2>2. thread'[u] = CASE u = t -> [thread[u] EXCEPT !.pc = "answer"]
            [] thread[u].pc = "wait" /\ thread[u].waits = t ->
                   [thread[u] EXCEPT !.pc = "answer", !.waits = Nobody, !.got = thread[t].got]
            [] OTHER -> thread[u]
    BY <2>1 DEF RequestDeliver
  <2>3. CASE u = t
    <3>1. ~(thread[u].pc = "wait" /\ thread[u].waits = t)
      BY <1>2, <2>3
    <3>2. thread'[u] = [thread[u] EXCEPT !.pc = "answer"]
      BY <2>2, <2>3, <3>1
    <3>3. QED
      BY <2>1, <2>3, <3>2, ZenonT(30) DEF SameRequest, PullState
  <2>4. CASE u # t /\ thread[u].pc = "wait" /\ thread[u].waits = t
    <3>1. thread'[u] = [thread[u] EXCEPT !.pc = "answer", !.waits = Nobody, !.got = thread[t].got]
      BY <2>2, <2>4
    <3>2. QED
      BY <2>1, <2>4, <3>1, ZenonT(30) DEF SameRequest, PullState
  <2>5. CASE u # t /\ ~(thread[u].pc = "wait" /\ thread[u].waits = t)
    <3>1. thread'[u] = thread[u]
      BY <2>2, <2>5
    <3>2. QED
      BY <2>5, <3>1 DEF SameRequest
  <2>6. QED
    BY <2>3, <2>4, <2>5
<1>4. \A u \in Thread : Working(u) /\ u # t => thread'[u] = thread[u]
  BY <1>3 DEF Working
<1>5. RequestSound'
  <2>1. ASSUME NEW u \in Thread, thread'[u].pc # "idle" PROVE SameRequest(u) /\ thread[u].pc # "idle"
    BY <1>2, <1>3, <2>1
  <2>2. QED
    BY <1>1, <1>2, <2>1 DEF RequestSound, SameRequest
<1>6. SettledSound' /\ RootSound'
  BY <1>1, <1>2, <1>3 DEF SettledSound, RootSound, SameRequest
<1>7. WaitSound'
  <2>1. ASSUME NEW u \in Thread, thread'[u].pc = "wait"
        PROVE  \E v \in Thread : v = thread'[u].waits /\ Serves(v, u)'
    <3>1. thread'[u] = thread[u] /\ thread[u].waits # t
      BY <1>3, <2>1
    <3>2. PICK v \in Thread : v = thread[u].waits /\ Serves(v, u)
      BY <1>1, <2>1, <3>1 DEF WaitSound
    <3>3. thread'[v] = thread[v]
      BY <1>4, <3>1, <3>2 DEF Serves, Working
    <3>4. Serves(v, u)'
      BY <3>1, <3>2, <3>3 DEF Serves
    <3>5. QED
      BY <3>1, <3>2, <3>4
  <2>2. QED
    BY <2>1 DEF WaitSound
<1>8. OwnerSound'
  <2>1. ASSUME NEW d \in Comp, NEW q \in Page, NEW u \in Thread, inflight[d][q].owner = u
        PROVE  /\ thread'[u].page = q /\ thread'[u].comp = d
               /\ thread'[u].epoch = inflight[d][q].epoch /\ thread'[u].pc \in {"rendering", "erase"}
    <3>1. /\ thread[u].pc \in {"rendering", "erase"}
          /\ thread[u].page = q /\ thread[u].comp = d /\ thread[u].epoch = inflight[d][q].epoch
      BY <1>1, <2>1 DEF OwnerSound
    <3>2. thread'[u] = thread[u]
      BY <1>2, <1>4, <3>1 DEF Working
    <3>3. QED
      BY <3>1, <3>2
  <2>2. QED
    BY <1>2, <2>1 DEF OwnerSound
<1>9. ASSUME NEW u \in Thread, Rendered(u)' PROVE Answered(u)
  <2>1. thread[t].epoch \in Nat /\ Rendered(t)
    BY <1>1, <1>2 DEF PullState, Rendered
  <2>2. CASE thread'[u] = thread[u]
    BY <1>1, <1>9, <2>2, SameAnswer DEF Rendered
  <2>3. CASE u = t /\ thread'[u].got = thread[t].got
    BY <1>1, <1>3, <2>1, <2>3, SameAnswer DEF SameRequest
  <2>4. CASE thread[u].pc = "wait" /\ thread[u].waits = t /\ thread'[u].got = thread[t].got
    <3>1. Serves(t, u)
      BY <1>1, <2>4 DEF WaitSound
    <3>2. thread[u].epoch \in Nat /\ SameRequest(u)
      BY <1>1, <1>3 DEF PullState
    <3>3. QED
      BY <2>1, <2>4, <3>1, <3>2 DEF Answered, Serves, SameRequest
  <2>5. QED
    BY <1>3, <2>2, <2>3, <2>4
<1>10. Keeps
  <2>1. \A u \in Thread : stack[u] # <<>> => stack'[u] = stack[u] /\ thread'[u].page = thread[u].page
    BY <1>2, <1>3 DEF SameRequest
  <2>2. \A u \in Thread : stack[u] = <<>> => \A i \in DOMAIN stack'[u] : stack'[u][i].at = "enter"
    BY <1>2
  <2>3. QED
    BY <1>1, <1>2, <1>9, <2>1, <2>2, RequestsKeepPromises
<1>11. Continues
  <2>1. ASSUME NEW u \in Thread, thread'[u].pc # "idle" PROVE SameRequest(u) /\ thread[u].pc # "idle"
    BY <1>2, <1>3, <2>1
  <2>2. QED
    BY <2>1 DEF Continues
<1>12. QED
  BY <1>5, <1>6, <1>7, <1>8, <1>10, <1>11 DEF Reliance

-----------------------------------------------------------------------------
(***************************************************************************)
(* A render stays the render of its request                                *)
(***************************************************************************)
LEMMA SameLength ==
    ASSUME NEW S, NEW s \in Seq(S), NEW n \in Nat, DOMAIN s = 1 .. n
    PROVE  Len(s) = n
<1>1. Len(s) \in Nat /\ 1 .. Len(s) = 1 .. n
  BY LenProperties
<1>2. Len(s) \in 1 .. Len(s) \/ Len(s) = 0
  BY <1>1
<1>3. n \in 1 .. n \/ n = 0
  OBVIOUS
<1>4. (Len(s) <= n \/ Len(s) = 0) /\ (n <= Len(s) \/ n = 0)
  BY <1>1, <1>2, <1>3
<1>5. QED
  BY <1>1, <1>4

LEMMA FreezeRelies ==
    ASSUME RInv, NEW t \in Thread, stack[t] # <<>>, Alone(t), SameRequest(t),
           thread'[t].pc \in {"rendering", "erase"},
           \A i \in DOMAIN stack'[t] : i = Len(stack'[t]) =>
               /\ stack'[t][i].comp = thread[t].comp
               /\ stack'[t][i].at # "enter" => stack'[t][i].epoch >= thread[t].epoch
    PROVE  Reliance' /\ Continues
<1>1. IInv /\ Reliance /\ OwnerSound
  BY DEF RInv, Reliance
<1>2. thread[t].pc = "rendering"
  BY <1>1, TopFrame
<1>3. /\ UNCHANGED <<model, settled, edits>> /\ inflight' = inflight
      /\ \A u \in Thread : u # t => thread'[u] = thread[u] /\ stack'[u] = stack[u]
  BY DEF Alone, editing
<1>4. OwnerSound'
  BY <1>1, <1>3, OwnersKept
<1>5. Working(t)' /\ thread'[t].pc # "wait"
  BY DEF Working
<1>6. \A i \in DOMAIN stack'[t] : i = Len(stack'[t]) =>
          /\ stack'[t][i].comp = thread'[t].comp
          /\ stack'[t][i].at # "enter" => stack'[t][i].epoch >= thread'[t].epoch
  BY DEF SameRequest
<1>7. QED
  BY <1>1, <1>2, <1>3, <1>4, <1>5, <1>6, OwnStepRelies

LEMMA AdvanceRelies ==
    ASSUME RInv, NEW t \in Thread, NEW g \in Frame, NEW p \in Page, Advances(t, g, p)
    PROVE  Reliance' /\ Continues
<1>1. IInv /\ RootSound
  BY DEF RInv, Reliance
<1>2. /\ stack[t] # <<>> /\ Alone(t) /\ thread' = thread
      /\ DOMAIN stack'[t] = DOMAIN stack[t] /\ stack'[t][1] = g /\ 1 \in DOMAIN stack[t]
      /\ stack'[t] \in Seq(Frame) /\ Top(t) = stack[t][1]
      /\ \A i \in DOMAIN stack[t] : i # 1 => stack'[t][i] = stack[t][i]
  BY <1>1, AdvanceShape
<1>3. /\ Len(stack[t]) \in Nat \ {0} /\ DOMAIN stack[t] = 1 .. Len(stack[t])
      /\ thread[t].pc = "rendering" /\ thread[t].epoch \in 1 .. epoch[thread[t].comp]
      /\ epoch[Top(t).comp] \in Nat
  BY <1>1, <1>2, TopFrame
<1>4. Len(stack'[t]) = Len(stack[t])
  BY <1>2, <1>3, SameLength
<1>5. /\ g.comp = Top(t).comp /\ (Top(t).at = "enter" => g.epoch = epoch[g.comp])
      /\ (Top(t).at # "enter" => g.epoch = Top(t).epoch)
  BY DEF Advances
<1>6. ASSUME NEW i \in DOMAIN stack'[t], i = Len(stack'[t])
      PROVE  /\ stack'[t][i].comp = thread[t].comp
             /\ stack'[t][i].at # "enter" => stack'[t][i].epoch >= thread[t].epoch
  <2>1. /\ i \in DOMAIN stack[t] /\ i = Len(stack[t]) /\ stack[t][i].comp = thread[t].comp
        /\ stack[t][i].at # "enter" => stack[t][i].epoch >= thread[t].epoch
    BY <1>1, <1>2, <1>4, <1>6 DEF RootSound
  <2>2. CASE i = 1
    <3>1. /\ stack'[t][i] = g /\ g.comp = thread[t].comp
          /\ (Top(t).at = "enter" => g.epoch = epoch[thread[t].comp])
          /\ (Top(t).at # "enter" => g.epoch >= thread[t].epoch)
      BY <1>2, <1>5, <2>1, <2>2
    <3>2. epoch[thread[t].comp] >= thread[t].epoch
      BY <1>2, <1>3, <2>1, <2>2
    <3>3. QED
      BY <3>1, <3>2
  <2>3. CASE i # 1
    BY <1>2, <2>1, <2>3
  <2>4. QED
    BY <2>2, <2>3
<1>7. SameRequest(t) /\ thread'[t].pc \in {"rendering", "erase"}
  BY <1>2, <1>3 DEF SameRequest
<1>8. QED
  BY <1>2, <1>6, <1>7, FreezeRelies

LEMMA ProducerRelies ==
    ASSUME RInv, NEW t \in Thread, PullProducer(t)
    PROVE  Reliance' /\ Continues
<1>1. IInv /\ RootSound
  BY DEF RInv, Reliance
<1>2. PICK s : s = stack[t]
  OBVIOUS
<1>3. PICK d \in Comp, f \in Frame, g \in Frame, h \in Frame :
          /\ f = Top(t) /\ f.at = "pull" /\ h.at = "enter"
          /\ g.comp = f.comp /\ g.at = "pulling" /\ g.epoch = f.epoch
          /\ stack' \in [Thread -> Seq(Frame)]
          /\ DOMAIN stack'[t] = 1 .. Len(s) + 1 /\ stack'[t][1] = h /\ stack'[t][2] = g
          /\ \A i \in 3 .. Len(s) + 1 : stack'[t][i] = s[i - 1]
          /\ thread' = thread /\ Alone(t)
  BY <1>1, <1>2, ProducerCalled
<1>4. stack[t] # <<>>
  BY DEF PullProducer, In
<1>5. /\ Len(s) \in Nat \ {0} /\ DOMAIN s = 1 .. Len(s) /\ f = s[1] /\ thread[t].pc = "rendering"
  BY <1>1, <1>2, <1>3, <1>4, TopFrame
<1>6. Len(stack'[t]) = Len(s) + 1
  <2>1. stack'[t] \in Seq(Frame) /\ Len(s) + 1 \in Nat
    BY <1>3, <1>5
  <2>2. QED
    BY <1>3, <2>1, SameLength
<1>7. ASSUME NEW i \in DOMAIN stack'[t], i = Len(stack'[t])
      PROVE  /\ stack'[t][i].comp = thread[t].comp
             /\ stack'[t][i].at # "enter" => stack'[t][i].epoch >= thread[t].epoch
  <2>1. /\ Len(s) \in DOMAIN s /\ s[Len(s)].comp = thread[t].comp
        /\ s[Len(s)].at # "enter" => s[Len(s)].epoch >= thread[t].epoch
    BY <1>1, <1>2, <1>5 DEF RootSound
  <2>2. CASE Len(s) = 1
    <3>1. i = 2
      BY <1>6, <1>7, <2>2
    <3>2. QED
      BY <1>3, <1>5, <2>1, <2>2, <3>1
  <2>3. CASE Len(s) # 1
    <3>1. i \in 3 .. Len(s) + 1 /\ i - 1 = Len(s)
      BY <1>5, <1>6, <1>7, <2>3
    <3>2. QED
      BY <1>3, <2>1, <3>1
  <2>4. QED
    BY <2>2, <2>3
<1>8. SameRequest(t) /\ thread'[t].pc \in {"rendering", "erase"}
  BY <1>3, <1>5 DEF SameRequest
<1>9. QED
  BY <1>3, <1>4, <1>7, <1>8, FreezeRelies

LEMMA ReturnRelies ==
    ASSUME RInv, NEW t \in Thread, NEW b, NEW q, NEW shows,
           Returning(t, b, q, shows), Return(t, shows)
    PROVE  Reliance' /\ Continues
<1>1. IInv /\ RootSound
  BY DEF RInv, Reliance
<1>2. PICK s : s = stack[t]
  OBVIOUS
<1>3. stack[t] # <<>>
  BY DEF Returning
<1>4. /\ Len(s) \in Nat \ {0} /\ DOMAIN s = 1 .. Len(s) /\ thread[t].pc = "rendering"
  BY <1>1, <1>2, <1>3, TopFrame
<1>5. CASE Len(s) = 1
  <2>1. /\ Alone(t) /\ stack'[t] = <<>> /\ thread'[t].pc = "erase"
        /\ thread'[t].page = thread[t].page /\ thread'[t].comp = thread[t].comp
        /\ thread'[t].epoch = thread[t].epoch /\ thread'[t].since = thread[t].since
    BY <1>1, <1>2, <1>5, ReturnsToRequest
  <2>2. DOMAIN stack'[t] = {}
    BY <2>1
  <2>3. SameRequest(t)
    BY <2>1 DEF SameRequest
  <2>4. QED
    BY <1>3, <2>1, <2>2, <2>3, FreezeRelies
<1>6. CASE Len(s) > 1
  <2>1. PICK f \in Frame, g \in Frame, h \in Hinted :
            /\ f = s[2] /\ f.at = "pulling"
            /\ g.comp = f.comp /\ g.at = "stamp" /\ g.epoch = f.epoch
            /\ stack' \in [Thread -> Seq(Frame)]
            /\ DOMAIN stack'[t] = 1 .. Len(s) - 1 /\ stack'[t][1] = g
            /\ \A i \in 2 .. Len(s) - 1 : stack'[t][i] = s[i + 1]
            /\ thread' = thread /\ Alone(t)
    BY <1>1, <1>2, <1>6, ReturnsToRender
  <2>2. Len(stack'[t]) = Len(s) - 1
    <3>1. stack'[t] \in Seq(Frame) /\ Len(s) - 1 \in Nat
      BY <1>4, <2>1
    <3>2. QED
      BY <2>1, <3>1, SameLength
  <2>3. ASSUME NEW i \in DOMAIN stack'[t], i = Len(stack'[t])
        PROVE  /\ stack'[t][i].comp = thread[t].comp
               /\ stack'[t][i].at # "enter" => stack'[t][i].epoch >= thread[t].epoch
    <3>1. /\ Len(s) \in DOMAIN s /\ s[Len(s)].comp = thread[t].comp
          /\ s[Len(s)].at # "enter" => s[Len(s)].epoch >= thread[t].epoch
      BY <1>1, <1>2, <1>4 DEF RootSound
    <3>2. CASE Len(s) = 2
      <4>1. i = 1
        BY <2>2, <2>3, <3>2
      <4>2. QED
        BY <2>1, <3>1, <3>2, <4>1
    <3>3. CASE Len(s) # 2
      <4>1. i \in 2 .. Len(s) - 1 /\ i + 1 = Len(s)
        <5>1. i = Len(s) - 1
          BY <2>2, <2>3
        <5>2. Len(s) \in Nat /\ Len(s) > 2
          BY <1>4, <1>6, <3>3
        <5>3. QED
          BY <5>1, <5>2
      <4>2. QED
        BY <2>1, <3>1, <4>1
    <3>4. QED
      BY <3>2, <3>3
  <2>4. SameRequest(t) /\ thread'[t].pc \in {"rendering", "erase"}
    BY <1>4, <2>1 DEF SameRequest
  <2>5. QED
    BY <1>3, <2>1, <2>3, <2>4, FreezeRelies
<1>7. QED
  BY <1>4, <1>5, <1>6

\* Every step of freezePage keeps the promises, for the request it was made for.
LEMMA FreezeKeepsPromises ==
    ASSUME RInv, NEW t \in Thread, Freeze(t)
    PROVE  Keeps /\ Reliance' /\ Continues
<1>1. IInv /\ ~PullBound(t)
  BY OnlyPullers DEF RInv
<1>2. CASE FreezeEnter(t)
  <2>1. PICK g \in Frame, p \in Page : Advances(t, g, p)
    BY <1>1, <1>2, EnterAdvances
  <2>2. QED
    BY <1>2, <2>1, EnterKeepsPromises, AdvanceRelies
<1>3. CASE FreezeMiss(t)
  <2>1. PICK g \in Frame, p \in Page : Advances(t, g, p)
    BY <1>1, <1>3, MissAdvances
  <2>2. QED
    BY <1>3, <2>1, MissKeepsPromises, AdvanceRelies
<1>4. CASE PullHeld(t)
  <2>1. PICK g \in Frame, p \in Page : Advances(t, g, p)
    BY <1>1, <1>4, HeldAdvances
  <2>2. QED
    BY <1>4, <2>1, HeldKeepsPromises, AdvanceRelies
<1>5. CASE PullProducer(t)
  BY <1>5, ProducerKeepsPromises, ProducerRelies
<1>6. CASE FreezeHit(t)
  <2>1. PICK b, q, shows : Returning(t, b, q, shows) /\ Return(t, shows)
    BY <1>1, <1>6, HitReturns
  <2>2. QED
    BY <1>6, <2>1, HitKeepsPromises, ReturnRelies
<1>7. CASE FreezeStamp(t)
  <2>1. PICK b, q, shows : Returning(t, b, q, shows) /\ Return(t, shows)
    BY <1>1, <1>7, StampReturns
  <2>2. QED
    BY <1>7, <2>1, StampKeepsPromises, ReturnRelies
<1>8. QED
  BY <1>1, <1>2, <1>3, <1>4, <1>5, <1>6, <1>7 DEF Freeze

-----------------------------------------------------------------------------
(***************************************************************************)
(* Edits and pruning                                                       *)
(***************************************************************************)
\* The main thread disturbs no request.
Undisturbed ==
    /\ UNCHANGED <<stack, hint, inflight>>
    /\ \A u \in Thread :
           /\ thread'[u].pc = thread[u].pc /\ thread'[u].page = thread[u].page
           /\ thread'[u].comp = thread[u].comp /\ thread'[u].epoch = thread[u].epoch
           /\ thread'[u].since = thread[u].since /\ thread'[u].waits = thread[u].waits
           /\ thread'[u].got = thread[u].got

\* It leaves pages that read current for an epoch of before, at most, and as they were.
LEMMA MainKeepsPromises ==
    ASSUME RInv, Undisturbed,
           \A d \in Comp, q \in Page, x \in Nat : x <= epoch[d] /\ Current(cache'[d][q], x) =>
               Current(cache[d][q], x) /\ cache'[d][q].shows = cache[d][q].shows
    PROVE  Keeps
<1>1. IInv
  BY DEF RInv
<1>2. /\ stack' = stack /\ hint' = hint
      /\ \A u \in Thread :
           /\ thread'[u].pc = thread[u].pc /\ thread'[u].page = thread[u].page
           /\ thread'[u].comp = thread[u].comp /\ thread'[u].epoch = thread[u].epoch
           /\ thread'[u].got = thread[u].got
  BY DEF Undisturbed
<1>3. ASSUME NEW c, NEW e, NEW p, NEW floor, Promised(c, e, p, floor)
      PROVE  Owed(c, e, p, floor)'
  <2>1. CacheOwed(c, e, p, floor)'
    BY <1>3 DEF Promised, Owed, CacheOwed
  <2>2. HintOwed(c, e, p, floor)'
    BY <1>2, <1>3, HintsKept DEF Promised, Owed
  <2>3. AnswerOwed(c, e, p, floor)'
    BY <1>2, <1>3, AnswersKept DEF Promised, Owed, Rendered
  <2>4. ASSUME NEW u \in Thread, thread[u].page = p, NEW i \in DOMAIN stack[u],
               DueFrom(u, i, c, e)'
        PROVE  Carries(stack[u][i], p, floor)'
    <3>1. DueFrom(u, i, c, e)
      BY <1>2, <2>4 DEF DueFrom
    <3>2. Carries(stack[u][i], p, floor)
      BY <1>3, <2>4, <3>1 DEF Promised, Owed, RenderOwed
    <3>3. /\ stack[u][i].comp \in Comp /\ stack[u][i].epoch \in Nat
          /\ stack[u][i].epoch <= epoch[stack[u][i].comp]
      <4>1. stack[u] # <<>>
        BY <2>4
      <4>2. FrameOK(u, i) /\ stack[u][i] \in Frame
        BY <1>1, <2>4, <4>1, TopFrame
      <4>3. QED
        BY <4>2 DEF FrameOK, Frame
    <3>4. QED
      BY <1>2, <1>3, <3>2, <3>3 DEF Carries, Promised
  <2>5. RenderOwed(c, e, p, floor)'
    BY <1>2, <2>4 DEF RenderOwed
  <2>6. QED
    BY <2>1, <2>2, <2>3, <2>5 DEF Owed
<1>4. QED
  BY <1>3 DEF Keeps

LEMMA MainRelies ==
    ASSUME RInv, Undisturbed, SettledSound',
           \A d \in Comp, q \in Page : settled'[d][q] = settled[d][q] \/ settled'[d][q] = model[d][q]
    PROVE  Reliance' /\ Continues
<1>1. IInv /\ RequestSound /\ SettledSound /\ RootSound /\ WaitSound /\ OwnerSound
  BY DEF RInv, Reliance
<1>2. /\ stack' = stack /\ inflight' = inflight
      /\ \A u \in Thread :
           /\ thread'[u].pc = thread[u].pc /\ thread'[u].page = thread[u].page
           /\ thread'[u].comp = thread[u].comp /\ thread'[u].epoch = thread[u].epoch
           /\ thread'[u].since = thread[u].since /\ thread'[u].waits = thread[u].waits
  BY DEF Undisturbed
<1>3. RequestSound'
  <2>1. ASSUME NEW u \in Thread, thread'[u].pc # "idle", NEW d \in Comp
        PROVE  thread'[u].since[d] <= settled'[d][thread'[u].page]
    <3>1. /\ thread[u].page \in Page /\ thread[u].since \in [Comp -> Version]
          /\ thread[u].since[d] <= settled[d][thread[u].page]
      BY <1>1, <1>2, <2>1 DEF RequestSound, IInv, Sound, ThreadSound
    <3>2. /\ settled[d][thread[u].page] <= model[d][thread[u].page]
          /\ thread[u].since[d] \in Int /\ settled[d][thread[u].page] \in Int
          /\ model[d][thread[u].page] \in Int
      BY <1>1, <3>1 DEF SettledSound, IInv, Sound, Types, Version
    <3>3. thread[u].since[d] <= model[d][thread[u].page]
      BY <3>1, <3>2
    <3>4. QED
      BY <1>2, <3>1, <3>3
  <2>2. QED
    BY <1>1, <1>2, <2>1 DEF RequestSound
<1>4. RootSound'
  BY <1>1, <1>2 DEF RootSound
<1>5. WaitSound'
  <2>1. ASSUME NEW u \in Thread, thread'[u].pc = "wait"
        PROVE  \E v \in Thread : v = thread'[u].waits /\ Serves(v, u)'
    <3>1. PICK v \in Thread : v = thread[u].waits /\ Serves(v, u)
      BY <1>1, <1>2, <2>1 DEF WaitSound
    <3>2. Serves(v, u)'
      BY <1>2, <3>1 DEF Serves
    <3>3. QED
      BY <1>2, <3>1, <3>2
  <2>2. QED
    BY <2>1 DEF WaitSound
<1>6. OwnerSound'
  BY <1>1, <1>2 DEF OwnerSound
<1>7. Continues
  BY <1>2 DEF Continues, SameRequest
<1>8. QED
  BY <1>3, <1>4, <1>5, <1>6, <1>7 DEF Reliance

LEMMA PruneKeepsPromises ==
    ASSUME RInv, NEW b \in Comp, NEW q \in Page, Prune(b, q)
    PROVE  Keeps /\ Reliance' /\ Continues
<1>1. IInv /\ SettledSound
  BY DEF RInv, Reliance
<1>2. /\ cache' = [cache EXCEPT ![b][q] = NoPage]
      /\ UNCHANGED <<model, settled, late, edit, edits, epoch, hint, inflight, thread, stack>>
  BY DEF Prune, editing
<1>3. \A d \in Comp, r \in Page : cache'[d][r].valid => cache'[d][r] = cache[d][r]
  BY <1>1, <1>2, PageDropped
<1>4. \A d \in Comp, r \in Page, x \in Nat : x <= epoch[d] /\ Current(cache'[d][r], x) =>
          Current(cache[d][r], x) /\ cache'[d][r].shows = cache[d][r].shows
  BY <1>3 DEF Current
<1>5. Undisturbed
  BY <1>2 DEF Undisturbed
<1>6. SettledSound'
  BY <1>1, <1>2 DEF SettledSound
<1>7. QED
  BY <1>2, <1>4, <1>5, <1>6, MainKeepsPromises, MainRelies

\* A setting gets newer; what is settled does not change before the bumps are done.
LEMMA EditBeginKeepsPromises ==
    ASSUME RInv, NEW k \in Comp, NEW range \in Ranges, NEW whole \in BOOLEAN,
           NEW walk \in Walks[k], EditBegin(k, range, whole, walk)
    PROVE  Keeps /\ Reliance' /\ Continues
<1>1. IInv /\ SettledSound
  BY DEF RInv, Reliance
<1>2. /\ edits' = edits + 1
      /\ UNCHANGED <<settled, epoch, cache, hint, inflight, stack>>
  BY DEF EditBegin, caching
<1>3. Undisturbed
  BY <1>1, <1>2, EditBegun DEF Undisturbed
<1>4. SettledSound'
  <2>1. ASSUME NEW d \in Comp, NEW p \in Page
        PROVE  settled[d][p] <= model'[d][p] /\ model'[d][p] <= edits + 1
    <3>1. /\ settled[d][p] \in Int /\ model[d][p] \in Int /\ edits \in Int
          /\ settled[d][p] <= model[d][p] /\ model[d][p] <= edits
      BY <1>1 DEF IInv, Sound, Types, Version, SettledSound
    <3>2. model'[d][p] = model[d][p] \/ model'[d][p] = edits + 1
      BY <1>1, EditBegun
    <3>3. QED
      BY <3>1, <3>2
  <2>2. QED
    BY <1>2, <2>1 DEF SettledSound
<1>5. QED
  BY <1>2, <1>3, <1>4, MainKeepsPromises, MainRelies

\* Only pages that were current are re-blessed, so none reads current for an epoch of before
\* that did not already.
LEMMA EditBumpKeepsPromises ==
    ASSUME RInv, EditBump
    PROVE  Keeps /\ Reliance' /\ Continues
<1>1. IInv /\ SettledSound
  BY DEF RInv, Reliance
<1>2. PICK k \in Comp :
          /\ UNCHANGED <<model, edits, hint, inflight, thread, stack>>
          /\ \A c \in Comp, p \in Page : cache'[c][p].valid = cache[c][p].valid
                 /\ cache'[c][p].shows = cache[c][p].shows
                 /\ \/ cache'[c][p].stamp = cache[c][p].stamp
                    \/ c = k /\ cache[k][p].stamp = epoch[k]
  BY <1>1, EditBumped
<1>3. \A d \in Comp, r \in Page, x \in Nat : x <= epoch[d] /\ Current(cache'[d][r], x) =>
          Current(cache[d][r], x) /\ cache'[d][r].shows = cache[d][r].shows
  <2>1. epoch \in [Comp -> Nat \ {0}]
    BY <1>1 DEF IInv, Sound, Types
  <2>2. QED
    BY <1>2, <2>1 DEF Current
<1>4. Undisturbed
  BY <1>2 DEF Undisturbed
<1>5. \A d \in Comp, q \in Page : settled'[d][q] = settled[d][q] \/ settled'[d][q] = model[d][q]
  BY DEF EditBump, Settling
<1>6. SettledSound'
  <2>1. ASSUME NEW d \in Comp, NEW q \in Page
        PROVE  settled'[d][q] <= model[d][q] /\ model[d][q] <= edits
    <3>1. /\ settled[d][q] <= model[d][q] /\ model[d][q] <= edits /\ model[d][q] \in Int
      BY <1>1 DEF IInv, Sound, Types, Version, SettledSound
    <3>2. model[d][q] <= model[d][q]
      BY <3>1
    <3>3. QED
      BY <1>5, <3>1, <3>2
  <2>2. QED
    BY <1>2, <2>1 DEF SettledSound
<1>7. QED
  BY <1>3, <1>4, <1>5, <1>6, MainKeepsPromises, MainRelies

LEMMA NextKeepsPromises ==
    ASSUME RInv, [Next]_vars
    PROVE  IInv' /\ Keeps /\ Reliance' /\ Continues
<1>1. IInv /\ IInv' /\ Reliance
  BY NextKeeps DEF RInv
<1>2. CASE MainThread
  BY <1>1, <1>2, EditBeginKeepsPromises, EditBumpKeepsPromises, PruneKeepsPromises DEF MainThread
<1>3. ASSUME NEW t \in Thread, ThreadStep(t) PROVE Keeps /\ Reliance' /\ Continues
  <2>1. ~RunNode(t)
    BY <1>1, OnlyPullers
  <2>2. CASE Freeze(t)
    BY <2>2, FreezeKeepsPromises
  <2>3. CASE ServeRequest(t)
    BY <1>1, <2>3, FastKeepsPromises, AttachKeepsPromises, ClaimKeepsPromises, EraseKeepsPromises,
       DeliverKeepsPromises DEF ServeRequest
  <2>4. CASE Pull(t)
    BY <1>1, <2>4, AskKeepsPromises, TakeKeepsPromises DEF Pull
  <2>5. QED
    BY <1>3, <2>1, <2>2, <2>3, <2>4 DEF ThreadStep
<1>4. CASE UNCHANGED vars
  <2>1. UNCHANGED <<model, settled, edits, epoch, cache, hint, inflight, thread, stack>>
    BY <1>4 DEF vars, editing, caching
  <2>2. SettledSound'
    BY <1>1, <2>1 DEF Reliance, SettledSound
  <2>3. Undisturbed
    BY <2>1 DEF Undisturbed
  <2>4. Keeps
    BY <2>1, <2>3, MainKeepsPromises DEF Current
  <2>5. QED
    BY <1>1, <2>1, <2>2, <2>3, <2>4, MainRelies
<1>5. QED
  BY <1>1, <1>2, <1>3, <1>4 DEF Next

-----------------------------------------------------------------------------
(***************************************************************************)
(* Promises for the present                                                *)
(***************************************************************************)
\* What is owed at an epoch is owed at every later one, where less passes for a page.
LaterOwed ==
    \A c \in Comp, e \in Nat, x \in Nat, p \in Page : \A floor :
        e <= x /\ Owed(c, e, p, floor) => Owed(c, x, p, floor)

LEMMA OwedLater == IInv => LaterOwed
<1> SUFFICES ASSUME IInv, NEW c \in Comp, NEW e \in Nat, NEW x \in Nat, NEW p \in Page, NEW floor,
                    e <= x, Owed(c, e, p, floor)
             PROVE  Owed(c, x, p, floor)
  BY DEF LaterOwed
<1>1. /\ cache \in [Comp -> [Page -> Cached]] /\ hint \in [Comp -> Hinted]
      /\ thread \in [Thread -> PullState] /\ stack \in [Thread -> Seq(Frame)]
  BY DEF IInv, Sound, Types
<1>2. CacheOwed(c, x, p, floor)
  <2>1. cache[c][p].stamp \in Nat
    BY <1>1 DEF Cached
  <2>2. Current(cache[c][p], x) => Current(cache[c][p], e)
    BY <2>1 DEF Current
  <2>3. QED
    BY <2>2 DEF Owed, CacheOwed
<1>3. RenderOwed(c, x, p, floor)
  <2>1. ASSUME NEW t \in Thread, thread[t].page = p, NEW i \in DOMAIN stack[t], DueFrom(t, i, c, x)
        PROVE  Carries(stack[t][i], p, floor)
    <3>1. PICK j \in DOMAIN stack[t] : i <= j /\ Due(stack[t][j], c, x)
      BY <2>1 DEF DueFrom
    <3>2. stack[t][j].epoch \in Nat
      <4>1. stack[t] # <<>>
        BY <3>1
      <4>2. stack[t][j] \in Frame
        BY <3>1, <4>1, TopFrame
      <4>3. QED
        BY <4>2 DEF Frame
    <3>3. DueFrom(t, i, c, e)
      BY <3>1, <3>2 DEF DueFrom, Due
    <3>4. QED
      BY <2>1, <3>3 DEF Owed, RenderOwed
  <2>2. QED
    BY <2>1 DEF RenderOwed
<1>4. AnswerOwed(c, x, p, floor)
  <2>1. \A t \in Thread : thread[t].epoch \in Nat
    BY <1>1 DEF PullState
  <2>2. QED
    BY <2>1 DEF Owed, AnswerOwed
<1>5. HintOwed(c, x, p, floor)
  <2>1. \A d \in Comp : hint[d].observed \in Nat
    BY <1>1 DEF Hinted
  <2>2. QED
    BY <2>1 DEF Owed, HintOwed
<1>6. QED
  BY <1>2, <1>3, <1>4, <1>5 DEF Owed

\* What is fresh is as new as the model.
LEMMA FreshIsNewest ==
    ASSUME NEW n \in Int, n <= Height, NEW p \in Page, model \in [Comp -> [Page -> Version]],
           \A d \in Comp : settled[d][p] = model[d][p]
    PROVE  AtLeast(Fresh(n, p), n, SettledAt(p))
<1>1. ASSUME NEW d \in 1 .. n PROVE Fresh(n, p)[d] >= SettledAt(p)[d]
  <2>1. d \in Comp
    BY HeightAssumption DEF Comp
  <2>2. Fresh(n, p)[d] = model[d][p] /\ SettledAt(p)[d] = model[d][p] /\ model[d][p] \in Int
    BY <2>1 DEF Fresh, SettledAt, Version
  <2>3. QED
    BY <2>2
<1>2. QED
  BY <1>1 DEF AtLeast

\* No request has reached the root's epoch yet.
Fallow == \A t \in Thread : thread[t].pc # "idle" =>
              thread[t].comp = Height /\ thread[t].epoch < epoch[Height]

\* No edit is under way, and none has left the page late.
Finished(p) == edit = NoEdit /\ InTime(p) /\ \A d \in Comp : settled[d][p] = model[d][p]

\* What has a component's epoch is fresh then, and so a promise can be made: in the
\* beginning, and when the last bump of an edit is done.
FinishedPromise ==
    \A c \in Comp, p \in Page : Finished(p) => Owed(c, epoch[c], p, SettledAt(p))

LEMMA FinishedOwed == IInv /\ Fallow => FinishedPromise
<1> SUFFICES ASSUME IInv, Fallow, NEW c \in Comp, NEW p \in Page, Finished(p)
             PROVE  Owed(c, epoch[c], p, SettledAt(p))
  BY DEF FinishedPromise
<1>1. /\ model \in [Comp -> [Page -> Version]] /\ epoch \in [Comp -> Nat \ {0}]
      /\ cache \in [Comp -> [Page -> Cached]] /\ hint \in [Comp -> Hinted]
      /\ thread \in [Thread -> PullState] /\ stack \in [Thread -> Seq(Frame)]
      /\ CacheSound /\ HintSound /\ CacheFresh /\ HintFresh /\ FrameFresh
  BY DEF IInv, Sound, Types
<1>2. /\ c \in Int /\ c <= Height /\ epoch[c] \in Nat
      /\ AtLeast(Fresh(c, p), c, SettledAt(p)) /\ \A b \in Comp : Stable(b, p)
      /\ \A d \in Comp : settled[d][p] = model[d][p]
  <2>1. c \in Int /\ c <= Height
    BY HeightAssumption DEF Comp
  <2>2. \A b \in Comp : Stable(b, p)
    <3>1. \A b \in Comp : \A d \in 1 .. b : d \in Comp
      BY HeightAssumption DEF Comp
    <3>2. QED
      BY <3>1 DEF Finished, InTime, Stable, Touched, NoEdit
  <2>3. \A d \in Comp : settled[d][p] = model[d][p]
    BY DEF Finished
  <2>4. QED
    BY <1>1, <2>1, <2>2, <2>3, FreshIsNewest
<1>3. CacheOwed(c, epoch[c], p, SettledAt(p))
  <2>1. ASSUME Current(cache[c][p], epoch[c]) PROVE cache[c][p].shows = Fresh(c, p)
    <3>1. cache[c][p].valid /\ cache[c][p].stamp = epoch[c]
      BY <1>1, <1>2, <2>1 DEF Current, CacheSound, Cached
    <3>2. QED
      BY <1>1, <1>2, <3>1 DEF CacheFresh, ReadsCurrent
  <2>2. QED
    BY <1>2, <2>1 DEF CacheOwed
<1>4. RenderOwed(c, epoch[c], p, SettledAt(p))
  <2>1. ASSUME NEW t \in Thread, thread[t].page = p, NEW i \in DOMAIN stack[t],
               DueFrom(t, i, c, epoch[c])
        PROVE  Carries(stack[t][i], p, SettledAt(p))
    <3>1. PICK j \in DOMAIN stack[t] : i <= j /\ Due(stack[t][j], c, epoch[c])
      BY <2>1 DEF DueFrom
    <3>2. /\ stack[t][j].epoch <= epoch[c] /\ stack[t][j].epoch >= epoch[c] /\ stack[t][j].comp = c
          /\ stack[t][j].at # "enter" /\ stack[t][j].epoch \in Nat
      <4>1. stack[t] # <<>>
        BY <3>1
      <4>2. FrameOK(t, j) /\ stack[t][j] \in Frame
        BY <3>1, <4>1, TopFrame
      <4>3. QED
        BY <3>1, <4>2 DEF Due, FrameOK, Frame
    <3>3. Live(stack[t][j], p)
      BY <1>2, <3>2 DEF Live
    <3>4. Holding(stack[t][i], p)
      BY <1>1, <2>1, <3>1, <3>3 DEF FrameFresh, LiveFrom
    <3>5. PICK b \in Comp : b = stack[t][i].comp
      BY <2>1, TopFrame DEF Frame
    <3>6. /\ AtLeast(Fresh(b, p), b, SettledAt(p)) /\ AtLeast(Fresh(b - 1, p), b - 1, SettledAt(p))
          /\ model[b][p] >= SettledAt(p)[b]
      <4>1. b \in Int /\ b <= Height /\ b - 1 \in Int /\ b - 1 <= Height
        BY HeightAssumption DEF Comp
      <4>2. model[b][p] \in Int /\ SettledAt(p)[b] = model[b][p]
        BY <1>1, <1>2 DEF SettledAt, Version
      <4>3. model[b][p] >= SettledAt(p)[b]
        BY <4>2
      <4>4. QED
        BY <1>1, <1>2, <4>1, <4>3, FreshIsNewest
    <3>7. QED
      BY <3>4, <3>5, <3>6 DEF Holding, Carries
  <2>2. QED
    BY <2>1 DEF RenderOwed
<1>5. AnswerOwed(c, epoch[c], p, SettledAt(p))
  <2>1. ASSUME NEW t \in Thread, thread[t].comp = c, thread[t].epoch >= epoch[c], Rendered(t)
        PROVE  FALSE
    <3>1. thread[t].epoch \in Nat
      BY <1>1 DEF PullState
    <3>2. thread[t].pc # "idle"
      BY <2>1 DEF Rendered
    <3>3. QED
      BY <1>2, <2>1, <3>1, <3>2 DEF Fallow
  <2>2. QED
    BY <2>1 DEF AnswerOwed
<1>6. HintOwed(c, epoch[c], p, SettledAt(p))
  <2>1. ASSUME NEW d \in Comp, d = c + 1, hint[d].page = p, hint[d].observed >= epoch[c]
        PROVE  hint[d].shows = Fresh(c, p)
    <3>1. d - 1 = c
      BY <1>2, <2>1
    <3>2. hint[d].observed = epoch[d - 1]
      BY <1>1, <1>2, <2>1, <3>1 DEF HintSound, Hinted
    <3>3. QED
      BY <1>1, <1>2, <2>1, <3>1, <3>2 DEF HintFresh
  <2>2. QED
    BY <1>2, <2>1 DEF HintOwed
<1>7. QED
  BY <1>3, <1>4, <1>5, <1>6 DEF Owed

\* A promise made in the present is of the present's epoch and of what is settled.
LEMMA PresentPromised ==
    ASSUME RInv, NEW c \in Comp, NEW p \in Page
    PROVE  Promised(c, epoch[c], p, SettledAt(p))
<1>1. /\ SettledAt(p) \in [Comp -> Version] /\ epoch[c] \in Nat
      /\ Owed(c, epoch[c], p, SettledAt(p))
  BY SettledNow
<1>2. \A d \in Comp : SettledAt(p)[d] <= settled[d][p]
  <2>1. \A d \in Comp : SettledAt(p)[d] \in Int /\ SettledAt(p)[d] = settled[d][p]
    BY <1>1 DEF SettledAt, Version
  <2>2. QED
    BY <2>1
<1>3. epoch[c] <= epoch[c]
  BY <1>1
<1>4. QED
  BY <1>1, <1>2, <1>3 DEF Promised

LEMMA NowStaysOwed ==
    ASSUME RInv, IInv', Keeps, NEW c \in Comp, NEW p \in Page,
           SettledAt(p)' = SettledAt(p), epoch'[c] >= epoch[c]
    PROVE  Owed(c, epoch[c], p, SettledAt(p))'
<1>1. PICK e \in Nat : e = epoch[c]
  BY DEF RInv, IInv, Sound, Types
<1>2. PICK floor : floor = SettledAt(p)
  OBVIOUS
<1>3. Owed(c, e, p, floor)'
  BY <1>1, <1>2, PresentPromised DEF Keeps
<1>4. PICK x \in Nat : x = epoch'[c]
  BY DEF IInv, Sound, Types
<1>5. Owed(c, x, p, floor)'
  <2>1. IInv' => LaterOwed'
    BY OwedLater, PTL
  <2>2. e <= x
    BY <1>1, <1>4
  <2>3. QED
    BY <1>3, <2>1, <2>2 DEF LaterOwed
<1>6. floor = SettledAt(p)'
  BY <1>2
<1>7. QED
  BY <1>4, <1>5, <1>6

\* Epochs do not go back.  What is settled of a page changes with the last bump of an
\* edit of that page, and if nothing of it is late, that is the bump of the root.
LEMMA BumpSettles ==
    ASSUME IInv, SettledFully, EditBump, NEW p \in Page
    PROVE  \/ SettledAt(p)' = SettledAt(p)
           \/ Finished(p)' /\ epoch'[Height] = epoch[Height] + 1
<1>1. PICK k \in Comp : /\ k = Head(edit.path) /\ model' = model /\ epoch'[k] = epoch[k] + 1
  BY EditBumped
<1>2. PICK rest : rest = Tail(edit.path)
  OBVIOUS
<1>3. /\ late' = Overtaken(k, rest)
      /\ edit' = IF rest = <<>> THEN NoEdit ELSE [edit EXCEPT !.path = rest]
      /\ settled' = IF rest = <<>> THEN Settling(late') ELSE settled
  BY <1>1, <1>2 DEF EditBump
<1>4. CASE rest # <<>>
  BY <1>3, <1>4 DEF SettledAt
<1>5. CASE rest = <<>> /\ ~InTime(p)'
  <2>1. PICK e \in Comp : <<e, p>> \in late'
    BY <1>5 DEF InTime
  <2>2. \A d \in Comp : settled'[d][p] = settled[d][p]
    BY <1>3, <1>5, <2>1 DEF Settling
  <2>3. QED
    BY <2>2 DEF SettledAt
<1>6. CASE rest = <<>> /\ InTime(p)'
  <2>1. \A d \in Comp : settled'[d][p] = model[d][p]
    BY <1>3, <1>6 DEF Settling, InTime
  <2>2. CASE p \in Touched
    <3>1. k = Height
      <4>1. ASSUME k # Height PROVE FALSE
        <5>1. Height \in k + 1 .. Height /\ Height \in Comp
          BY <4>1, HeightAssumption DEF Comp
        <5>2. DOMAIN rest = {}
          BY <1>6, EmptySeq
        <5>3. <<Height, p>> \in late'
          BY <1>3, <2>2, <5>1, <5>2 DEF Overtaken
        <5>4. QED
          BY <1>6, <5>1, <5>3 DEF InTime
      <4>2. QED
        BY <4>1
    <3>2. edit' = NoEdit
      BY <1>3, <1>6
    <3>3. Finished(p)'
      BY <1>1, <1>6, <2>1, <3>2 DEF Finished
    <3>4. QED
      BY <1>1, <3>1, <3>3
  <2>3. CASE p \notin Touched
    <3>1. InTime(p)
      BY <1>3, <1>6, <2>3 DEF InTime, Overtaken
    <3>2. \A d \in Comp : settled[d][p] = model[d][p]
      BY <2>3, <3>1 DEF SettledFully
    <3>3. QED
      BY <2>1, <3>2 DEF SettledAt
  <2>4. QED
    BY <2>2, <2>3
<1>7. QED
  BY <1>4, <1>5, <1>6

LEMMA BumpSettlesFully ==
    ASSUME SettledFully, EditBump
    PROVE  SettledFully'
<1>1. PICK k, rest : k = Head(edit.path) /\ rest = Tail(edit.path)
  OBVIOUS
<1>2. /\ model' = model /\ late' = Overtaken(k, rest)
      /\ edit' = IF rest = <<>> THEN NoEdit ELSE [edit EXCEPT !.path = rest]
      /\ settled' = IF rest = <<>> THEN Settling(late') ELSE settled
  BY <1>1 DEF EditBump
<1>3. CASE rest = <<>>
  BY <1>2, <1>3 DEF SettledFully, Settling, InTime
<1>4. CASE rest # <<>>
  <2>1. Touched' = Touched
    <3>1. edit'.range = edit.range /\ edit'.whole = edit.whole
      BY <1>2, <1>4
    <3>2. QED
      BY <3>1 DEF Touched
  <2>2. \A p \in Page : p \notin Touched /\ InTime(p)' => InTime(p)
    BY <1>2 DEF InTime, Overtaken
  <2>3. QED
    BY <1>2, <1>4, <2>1, <2>2 DEF SettledFully
<1>5. QED
  BY <1>3, <1>4

LEMMA EditBeginSettlesFully ==
    ASSUME IInv, SettledFully, NEW k \in Comp, NEW range \in Ranges, NEW whole \in BOOLEAN,
           NEW walk \in Walks[k], EditBegin(k, range, whole, walk)
    PROVE  SettledFully'
<1>1. /\ edit = NoEdit /\ edit' = [path |-> walk, range |-> range, whole |-> whole]
      /\ UNCHANGED <<settled, late>>
  BY DEF EditBegin
<1>2. \A d \in Comp, p \in Page : p \notin range => model'[d][p] = model[d][p]
  BY EditBegun
<1>3. \A p \in Page : p \in range => p \in Touched'
  BY <1>1 DEF Touched
<1>4. Touched = {}
  BY <1>1 DEF Touched, NoEdit
<1>5. QED
  BY <1>1, <1>2, <1>3, <1>4 DEF SettledFully, InTime

LEMMA StepSettles ==
    ASSUME IInv, SettledFully, [Next]_vars
    PROVE  /\ SettledFully' /\ \A c \in Comp : epoch'[c] >= epoch[c]
           /\ \A p \in Page :
                  \/ SettledAt(p)' = SettledAt(p)
                  \/ Finished(p)' /\ EditBump /\ epoch'[Height] = epoch[Height] + 1
<1>1. \A c \in Comp : epoch[c] \in Nat /\ epoch[c] >= epoch[c]
  BY DEF IInv, Sound, Types
<1>2. CASE UNCHANGED <<editing, epoch>>
  <2>1. UNCHANGED <<model, edit, settled, late>>
    BY <1>2 DEF editing
  <2>2. SettledFully'
    BY <2>1 DEF SettledFully, InTime, Touched
  <2>3. QED
    BY <1>1, <1>2, <2>1, <2>2 DEF SettledAt
<1>3. CASE EditBump
  <2>1. \A c \in Comp : epoch[c] <= epoch'[c] /\ epoch'[c] \in Nat
    BY <1>3, EditBumped
  <2>2. \A c \in Comp : epoch'[c] >= epoch[c]
    BY <1>1, <2>1
  <2>3. QED
    BY <1>3, <2>2, BumpSettles, BumpSettlesFully
<1>4. CASE \E c \in Comp, range \in Ranges, whole \in BOOLEAN : \E walk \in Walks[c] :
               EditBegin(c, range, whole, walk)
  <2>1. UNCHANGED <<settled, epoch>>
    BY <1>4 DEF EditBegin, caching
  <2>2. SettledFully'
    BY <1>4, EditBeginSettlesFully
  <2>3. QED
    BY <1>1, <2>1, <2>2 DEF SettledAt
<1>5. CASE \E c \in Comp, p \in Page : Prune(c, p)
  BY <1>2, <1>5 DEF Prune
<1>6. ASSUME NEW t \in Thread, ThreadStep(t) PROVE UNCHANGED <<editing, epoch>>
  <2>1. ~RunNode(t) /\ ~PullBound(t)
    BY OnlyPullers
  <2>2. CASE Freeze(t)
    BY <2>1, <2>2 DEF Freeze, FreezeEnter, FreezeHit, FreezeMiss, PullHeld, PullProducer, FreezeStamp,
                      caching
  <2>3. CASE ServeRequest(t)
    BY <2>3 DEF ServeRequest, RequestFast, RequestAttach, RequestClaim, RequestErase, RequestDeliver,
                caching
  <2>4. CASE Pull(t)
    BY <2>4 DEF Pull, Request, Answer, caching
  <2>5. QED
    BY <1>6, <2>1, <2>2, <2>3, <2>4 DEF ThreadStep
<1>7. CASE UNCHANGED vars
  BY <1>2, <1>7 DEF vars, caching
<1>8. QED
  BY <1>2, <1>3, <1>4, <1>5, <1>6, <1>7 DEF Next, MainThread

LEMMA NowKept ==
    ASSUME RInv, [Next]_vars
    PROVE  NowOwed' /\ SettledFully'
<1>1. IInv /\ IInv' /\ Keeps /\ Reliance /\ SettledFully
  BY NextKeepsPromises DEF RInv
<1>2. /\ SettledFully' /\ \A c \in Comp : epoch'[c] >= epoch[c]
      /\ \A p \in Page :
             \/ SettledAt(p)' = SettledAt(p)
             \/ Finished(p)' /\ EditBump /\ epoch'[Height] = epoch[Height] + 1
  BY <1>1, StepSettles
<1>3. ASSUME NEW c \in Comp, NEW p \in Page, SettledAt(p)' = SettledAt(p)
      PROVE  Owed(c, epoch[c], p, SettledAt(p))'
  BY <1>1, <1>2, <1>3, NowStaysOwed
<1>4. ASSUME EditBump, epoch'[Height] = epoch[Height] + 1
      PROVE  FinishedPromise'
  <2>1. Fallow'
    <3>1. ASSUME NEW t \in Thread, thread[t].pc # "idle"
          PROVE  thread[t].comp = Height /\ thread[t].epoch < epoch[Height] + 1
      <4>1. thread[t].comp = Height /\ thread[t].epoch \in 1 .. epoch[thread[t].comp]
        BY <1>1, <3>1 DEF Reliance, RequestSound, IInv, Sound, ThreadSound
      <4>2. epoch[Height] \in Nat
        BY <1>1, HeightAssumption DEF IInv, Sound, Types, Comp
      <4>3. QED
        BY <4>1, <4>2
    <3>2. thread' = thread
      BY <1>4 DEF EditBump
    <3>3. QED
      BY <1>4, <3>1, <3>2 DEF Fallow
  <2>2. (IInv /\ Fallow)' => FinishedPromise'
    BY FinishedOwed, PTL
  <2>3. QED
    BY <1>1, <2>1, <2>2
<1>5. ASSUME NEW c \in Comp, NEW p \in Page
      PROVE  Owed(c, epoch[c], p, SettledAt(p))'
  <2>1. CASE SettledAt(p)' = SettledAt(p)
    BY <1>3, <2>1
  <2>2. CASE Finished(p)' /\ EditBump /\ epoch'[Height] = epoch[Height] + 1
    BY <1>4, <2>2 DEF FinishedPromise
  <2>3. QED
    BY <1>2, <2>1, <2>2
<1>6. QED
  BY <1>2, <1>5 DEF NowOwed

LEMMA RequestKept ==
    ASSUME RInv, [Next]_vars
    PROVE  RequestOwed'
<1>1. IInv /\ IInv' /\ Keeps /\ Continues /\ Reliance /\ RequestOwed /\ Height \in Comp
  BY NextKeepsPromises, HeightAssumption DEF RInv, Comp
<1>2. ASSUME NEW t \in Thread, thread'[t].pc # "idle"
      PROVE  Owed(Height, thread[t].epoch, thread[t].page, thread[t].since)'
  <2>1. \E e, p, floor : /\ Promised(Height, e, p, floor) /\ thread'[t].epoch = e
                         /\ thread'[t].page = p /\ thread'[t].since = floor
    <3>1. CASE Asked(t)
      <4>1. PICK p \in Page : p = thread'[t].page
        BY <3>1 DEF Asked
      <4>2. Promised(Height, epoch[Height], p, SettledAt(p))
        BY <1>1, PresentPromised
      <4>3. QED
        BY <3>1, <4>1, <4>2 DEF Asked
    <3>2. CASE SameRequest(t) /\ thread[t].pc # "idle"
      <4>1. /\ thread[t].page \in Page /\ thread[t].comp = Height
            /\ thread[t].epoch \in 1 .. epoch[thread[t].comp]
            /\ thread[t].since \in [Comp -> Version]
            /\ \A d \in Comp : thread[t].since[d] <= settled[d][thread[t].page]
        BY <1>1, <3>2 DEF Reliance, RequestSound, IInv, Sound, ThreadSound
      <4>2. epoch[Height] \in Nat
        BY <1>1 DEF IInv, Sound, Types
      <4>3. thread[t].epoch \in Nat /\ thread[t].epoch <= epoch[Height]
        BY <4>1, <4>2
      <4>4. Promised(Height, thread[t].epoch, thread[t].page, thread[t].since)
        BY <1>1, <3>2, <4>1, <4>3 DEF Promised, RequestOwed
      <4>5. QED
        BY <3>2, <4>4 DEF SameRequest
    <3>3. QED
      BY <1>1, <1>2, <3>1, <3>2 DEF Continues
  <2>2. PICK e, p, floor : /\ Promised(Height, e, p, floor) /\ thread'[t].epoch = e
                           /\ thread'[t].page = p /\ thread'[t].since = floor
    BY <2>1
  <2>3. Owed(Height, e, p, floor)'
    BY <1>1, <2>2 DEF Keeps
  <2>4. QED
    BY <2>2, <2>3
<1>3. QED
  BY <1>2 DEF RequestOwed

-----------------------------------------------------------------------------
(***************************************************************************)
(* The theorems                                                            *)
(***************************************************************************)
LEMMA InitRelies ==
    ASSUME PullersOnly, Init
    PROVE  RInv
<1>1. IInv
  BY InitSound
<1>2. /\ settled = model /\ edit = NoEdit /\ late = {}
      /\ \A t \in Thread : thread[t].pc = "idle" /\ stack[t] = <<>>
      /\ \A c \in Comp, p \in Page : inflight[c][p].owner = Nobody /\ model[c][p] = 0
      /\ edits = 0
  BY DEF Init, Idle, NoEntry
<1>3. RequestSound /\ WaitSound /\ RequestOwed /\ Fallow
  BY <1>2 DEF RequestSound, WaitSound, RequestOwed, Fallow
<1>4. SettledSound
  BY <1>2 DEF SettledSound
<1>5. RootSound
  BY <1>2 DEF RootSound
<1>6. OwnerSound
  <2>1. \A u \in Thread : u # Nobody
    BY <1>1, OnlyPullers
  <2>2. QED
    BY <1>2, <2>1 DEF OwnerSound
<1>7. NowOwed
  <2>1. \A p \in Page : Finished(p)
    BY <1>2 DEF Finished, InTime
  <2>2. QED
    BY <1>1, <1>3, <2>1, FinishedOwed DEF FinishedPromise, NowOwed
<1>8. SettledFully
  BY <1>2 DEF SettledFully
<1>9. QED
  BY <1>1, <1>3, <1>4, <1>5, <1>6, <1>7, <1>8 DEF RInv, Reliance

\* Every promise made is kept, by whichever thread and however late.
THEOREM PromisesInductive == PullersOnly /\ Spec => []RInv
<1>1. PullersOnly /\ Init => RInv
  BY InitRelies
<1>2. RInv /\ [Next]_vars => RInv'
  <2> SUFFICES ASSUME RInv, [Next]_vars PROVE RInv'
    OBVIOUS
  <2>1. IInv' /\ Reliance' /\ SettledFully' /\ NowOwed' /\ RequestOwed'
    BY NextKeepsPromises, NowKept, RequestKept
  <2>2. QED
    BY <2>1 DEF RInv
<1>3. QED
  BY <1>1, <1>2, PTL DEF Spec

\* A request is answered with audio no older than the edits that were complete when it was
\* made, also when the answer was rendered for another thread's request, or when a later
\* edit was half through its bumps: any number of threads, a chain of any height.  An
\* edit whose bump of a component came late promises that component nothing.
THEOREM RequestsAreFresh == PullersOnly /\ Spec => []RequestFresh
<1>1. RInv => RequestFresh
  <2> SUFFICES ASSUME RInv, NEW t \in Puller, thread[t].pc = "answer", NEW c \in Comp
               PROVE  thread[t].got[c] >= thread[t].since[c]
    BY DEF RequestFresh
  <2>1. t \in Thread /\ thread[t].epoch \in Nat /\ Height \in Nat
    BY HeightAssumption DEF RInv, IInv, Sound, Types, PullState, Thread
  <2>2. thread[t].comp = Height /\ Owed(Height, thread[t].epoch, thread[t].page, thread[t].since)
    BY <2>1 DEF RInv, RequestOwed, Reliance, RequestSound
  <2>3. AtLeast(thread[t].got, Height, thread[t].since)
    <3>1. thread[t].epoch >= thread[t].epoch
      BY <2>1
    <3>2. QED
      BY <2>1, <2>2, <3>1 DEF Owed, AnswerOwed, Rendered
  <2>4. QED
    BY <2>3 DEF AtLeast, Comp
<1>2. QED
  BY <1>1, PromisesInductive, PTL

-----------------------------------------------------------------------------
(***************************************************************************)
(* A node's second rendering is not taken for an edit                      *)
(***************************************************************************)
OneWorker == \A t, u \in Worker : t = u

Fields == {"pc", "page", "node", "comp", "epoch", "waits", "got", "bound", "observed", "since", "quiet"}

\* What a thread is doing fits its calls, and its kind; in processGraphNode it has a node.
Fit(t, r, s) ==
    /\ DOMAIN r = Fields /\ DOMAIN r.observed = Comp /\ r.quiet \in [Comp -> BOOLEAN]
    /\ t \notin Worker => r.pc \in PullPc
    /\ s # <<>> => r.pc \in {"rendering", "freezing", "refreezing"}
    /\ (t \notin Puller /\ r.pc # "idle") \/ r.pc \notin PullPc => r.node \in Comp

\* Since a quiet node observed the epoch nobody moved it, except the node itself, which
\* observes it again before it renders again.
QuietTrue(r) ==
    \A c \in Comp : r.quiet[c] =>
        /\ edit = NoEdit
        /\ r.observed[c] = epoch[c] \/ (r.pc = "observe" /\ r.node = c)

Stirred(r) == r.pc \in {"probe", "restale"} => ~r.quiet[r.node]

RestInv ==
    /\ OneWorker /\ epoch \in [Comp -> Nat] /\ DOMAIN thread = Thread /\ DOMAIN stack = Thread
    /\ \A t \in Thread : /\ Fit(t, thread[t], stack[t])
                         /\ t \in Worker => QuietTrue(thread[t]) /\ Stirred(thread[t])

\* The fields that stay when a thread goes on to another pc.
Onward(t, next, pc) ==
    /\ DOMAIN next = Fields /\ next.pc = pc /\ next.node = thread[t].node
    /\ next.observed = thread[t].observed /\ next.quiet = thread[t].quiet

Puts(t, next) ==
    DOMAIN thread' = Thread /\ thread'[t] = next /\ \A u \in Thread : u # t => thread'[u] = thread[u]

LEMMA AllMove ==
    ASSUME RestInv, UNCHANGED <<edit, epoch>>, DOMAIN thread' = Thread, DOMAIN stack' = Thread,
           \A u \in Thread : /\ Fit(u, thread'[u], stack'[u])
                             /\ u \in Worker => QuietTrue(thread'[u]) /\ Stirred(thread'[u])
    PROVE  RestInv'
<1>1. ASSUME NEW u \in Thread PROVE QuietTrue(thread'[u]) => QuietTrue(thread[u])'
  BY DEF QuietTrue
<1>2. ASSUME NEW u \in Thread
      PROVE  (Fit(u, thread'[u], stack'[u]) => Fit(u, thread[u], stack[u])')
             /\ (Stirred(thread'[u]) => Stirred(thread[u])')
  BY DEF Fit, Stirred
<1>3. QED
  BY <1>1, <1>2 DEF RestInv

LEMMA OneMoves ==
    ASSUME RestInv, NEW t \in Thread, NEW next, Puts(t, next),
           UNCHANGED <<edit, epoch>>, DOMAIN stack' = Thread,
           \A u \in Thread : u # t => stack'[u] = stack[u],
           Fit(t, next, stack'[t]), t \in Worker => QuietTrue(next) /\ Stirred(next)
    PROVE  RestInv'
<1>1. /\ DOMAIN thread' = Thread /\ thread'[t] = next
      /\ \A u \in Thread : u # t => thread'[u] = thread[u]
  BY DEF Puts
<1>2. ASSUME NEW u \in Thread
      PROVE  /\ Fit(u, thread'[u], stack'[u])
             /\ u \in Worker => QuietTrue(thread'[u]) /\ Stirred(thread'[u])
  BY <1>1 DEF RestInv
<1>3. QED
  BY <1>1, <1>2, AllMove

\* Going on to a pc that claims nothing.
Claimless(t, pc) ==
    /\ thread[t].pc # "observe" /\ pc \notin {"probe", "restale"}
    /\ t \notin Worker => pc \in PullPc
    /\ \/ thread[t].pc # "idle" /\ (pc \notin PullPc => t \notin Puller \/ thread[t].pc \notin PullPc)
       \/ t \in Puller /\ pc \in PullPc

LEMMA OnwardFits ==
    ASSUME RestInv, NEW t \in Thread, NEW next, NEW pc, NEW s, Onward(t, next, pc), Claimless(t, pc),
           s # <<>> => pc \in {"rendering", "freezing", "refreezing"}
    PROVE  Fit(t, next, s) /\ (t \in Worker => QuietTrue(next) /\ Stirred(next))
<1>1. Fit(t, thread[t], stack[t]) /\ (t \in Worker => QuietTrue(thread[t]))
  BY DEF RestInv
<1>2. Fit(t, next, s)
  BY <1>1 DEF Fit, Onward, Claimless
<1>3. t \in Worker => QuietTrue(next) /\ Stirred(next)
  BY <1>1 DEF QuietTrue, Stirred, Onward, Claimless
<1>4. QED
  BY <1>2, <1>3

LEMMA GoesOn ==
    ASSUME RestInv, NEW t \in Thread, NEW next, NEW pc, Puts(t, next),
           Onward(t, next, pc), UNCHANGED <<edit, epoch>>, DOMAIN stack' = Thread,
           \A u \in Thread : u # t => stack'[u] = stack[u], Claimless(t, pc),
           stack'[t] # <<>> => pc \in {"rendering", "freezing", "refreezing"}
    PROVE  RestInv'
BY OnwardFits, OneMoves

LEMMA RestFreeze ==
    ASSUME RestInv, NEW t \in Thread, Freeze(t)
    PROVE  RestInv'
<1>1. /\ stack[t] # <<>> /\ UNCHANGED <<edit, epoch>> /\ DOMAIN stack' = Thread
      /\ \A u \in Thread : u # t => stack'[u] = stack[u]
      /\ \/ thread' = thread
         \/ \E shows : /\ stack'[t] = <<>>
                       /\ thread' = [thread EXCEPT ![t].pc = AfterFreeze[@], ![t].got = shows]
  BY DEF RestInv, Freeze, FreezeEnter, FreezeHit, FreezeMiss, PullHeld, PullBound, PullProducer,
         FreezeStamp, Return, Set, In, editing, caching
<1>2. Fit(t, thread[t], stack[t]) /\ thread[t].pc \in {"rendering", "freezing", "refreezing"}
      /\ DOMAIN thread = Thread
  BY <1>1 DEF RestInv, Fit
<1>3. CASE thread' = thread
  <2>1. Puts(t, thread[t])
    BY <1>2, <1>3 DEF Puts
  <2>2. Onward(t, thread[t], thread[t].pc)
    BY <1>2 DEF Onward, Fit
  <2>3. Claimless(t, thread[t].pc)
    BY <1>2 DEF Claimless, Fit
  <2>4. QED
    BY <1>1, <1>2, <2>1, <2>2, <2>3, GoesOn
<1>4. CASE \E shows : /\ stack'[t] = <<>>
                      /\ thread' = [thread EXCEPT ![t].pc = AfterFreeze[@], ![t].got = shows]
  <2>1. PICK shows : /\ stack'[t] = <<>>
                     /\ thread' = [thread EXCEPT ![t].pc = AfterFreeze[@], ![t].got = shows]
    BY <1>4
  <2>2. PICK pc : pc = AfterFreeze[thread[t].pc]
    OBVIOUS
  <2>3. /\ pc \in {"erase", "verify", "self"}
        /\ thread[t].pc = "rendering" <=> pc = "erase"
    BY <1>2, <2>2 DEF AfterFreeze
  <2>4. PICK next : next = [thread[t] EXCEPT !.pc = pc, !.got = shows]
    OBVIOUS
  <2>5. Puts(t, next)
    BY <1>2, <2>1, <2>2, <2>4 DEF Puts
  <2>6. Onward(t, next, pc)
    BY <1>2, <2>4 DEF Onward, Fit, Fields
  <2>7. Claimless(t, pc)
    BY <1>2, <2>3 DEF Claimless, Fit, PullPc
  <2>8. QED
    BY <1>1, <2>1, <2>5, <2>6, <2>7, GoesOn
<1>5. QED
  BY <1>1, <1>3, <1>4

LEMMA RestRequest ==
    ASSUME RestInv, NEW t \in Thread, ServeRequest(t) \/ Pull(t)
    PROVE  RestInv'
<1>1. /\ UNCHANGED <<edit, epoch>> /\ DOMAIN stack' = Thread
      /\ \A u \in Thread : u # t => stack'[u] = stack[u]
      /\ stack[t] = <<>> /\ (~RequestClaim(t) => stack'[t] = <<>>)
  BY DEF RestInv, ServeRequest, Pull, Request, RequestFast, RequestAttach, RequestClaim, RequestErase,
         RequestDeliver, Answer, At, editing, caching
<1>2. /\ DOMAIN thread = Thread /\ \A u \in Thread : Fit(u, thread[u], stack[u])
      /\ \A u \in Thread : DOMAIN thread[u] = Fields
  BY DEF RestInv, Fit
<1>3. \A u \in Thread : IF u \in Puller THEN AfterRequest(u) = "answer"
                                        ELSE AfterRequest(u) = "bind" /\ u \in Worker
  BY DEF AfterRequest, Thread
<1>4. ASSUME NEW next, NEW pc, ~RequestDeliver(t), thread' = [thread EXCEPT ![t] = next],
             Onward(t, next, pc), Claimless(t, pc), pc # "rendering" => ~RequestClaim(t)
      PROVE  RestInv'
  <2>1. Puts(t, next)
    BY <1>2, <1>4 DEF Puts
  <2>2. stack'[t] # <<>> => pc \in {"rendering", "freezing", "refreezing"}
    BY <1>1, <1>4
  <2>3. QED
    BY <1>1, <1>4, <2>1, <2>2, GoesOn
<1>5. CASE \E p \in Page : Request(t, p)
  <2>1. PICK p \in Page : Request(t, p)
    BY <1>5
  <2>2. PICK next : next = [thread[t] EXCEPT !.pc = "fast", !.page = p, !.comp = Height,
                        !.epoch = epoch[Height], !.since = [c \in Comp |-> settled[c][p]]]
    OBVIOUS
  <2>3. thread' = [thread EXCEPT ![t] = next] /\ thread[t].pc = "idle" /\ t \in Puller
    BY <1>2, <2>1, <2>2 DEF Request, At
  <2>4. Onward(t, next, "fast") /\ Claimless(t, "fast")
    BY <1>2, <2>2, <2>3 DEF Onward, Claimless, Fields, PullPc
  <2>5. ~RequestDeliver(t) /\ ~RequestClaim(t)
    BY <2>3 DEF RequestDeliver, RequestClaim, At
  <2>6. QED
    BY <1>4, <2>3, <2>4, <2>5
<1>6. CASE RequestFast(t)
  <2>1. PICK shows : shows = cache[thread[t].comp][thread[t].page].shows
    OBVIOUS
  <2>2. /\ thread[t].pc = "fast"
        /\ \/ thread' = [thread EXCEPT ![t].pc = AfterRequest(t), ![t].got = shows]
           \/ thread' = [thread EXCEPT ![t].pc = "claim"]
    BY <1>6, <2>1 DEF RequestFast, At
  <2>3. \E next : \E pc \in {AfterRequest(t), "claim"} :
            thread' = [thread EXCEPT ![t] = next] /\ Onward(t, next, pc)
    <3>1. CASE thread' = [thread EXCEPT ![t].pc = AfterRequest(t), ![t].got = shows]
      <4>1. PICK next : next = [thread[t] EXCEPT !.pc = AfterRequest(t), !.got = shows]
        OBVIOUS
      <4>2. thread' = [thread EXCEPT ![t] = next] /\ Onward(t, next, AfterRequest(t))
        BY <1>2, <3>1, <4>1 DEF Onward, Fields
      <4>3. QED
        BY <4>2
    <3>2. CASE thread' = [thread EXCEPT ![t].pc = "claim"]
      <4>1. PICK next : next = [thread[t] EXCEPT !.pc = "claim"]
        OBVIOUS
      <4>2. thread' = [thread EXCEPT ![t] = next] /\ Onward(t, next, "claim")
        BY <1>2, <3>2, <4>1 DEF Onward, Fields
      <4>3. QED
        BY <4>2
    <3>3. QED
      BY <2>2, <3>1, <3>2
  <2>4. PICK next, pc : /\ pc \in {AfterRequest(t), "claim"}
                        /\ thread' = [thread EXCEPT ![t] = next] /\ Onward(t, next, pc)
    BY <2>3
  <2>5. Claimless(t, pc) /\ ~RequestDeliver(t) /\ ~RequestClaim(t)
    BY <1>3, <2>2, <2>4 DEF Claimless, RequestDeliver, RequestClaim, At, PullPc
  <2>6. QED
    BY <1>4, <2>4, <2>5
<1>7. CASE RequestAttach(t) \/ RequestClaim(t) \/ RequestErase(t)
  <2>1. PICK owner : owner = inflight[thread[t].comp][thread[t].page].owner
    OBVIOUS
  <2>2. \E pc \in {"wait", "rendering", "deliver"} :
            /\ \/ thread' = [thread EXCEPT ![t].pc = pc]
               \/ thread' = [thread EXCEPT ![t].pc = pc, ![t].waits = owner]
            /\ pc # "rendering" => ~RequestClaim(t)
    <3>1. CASE RequestAttach(t)
      BY <2>1, <3>1 DEF RequestAttach, RequestClaim
    <3>2. CASE RequestClaim(t)
      BY <3>2 DEF RequestClaim, Goto
    <3>3. CASE RequestErase(t)
      BY <3>3 DEF RequestErase, RequestClaim, Goto, At
    <3>4. QED
      BY <1>7, <3>1, <3>2, <3>3
  <2>3. PICK pc \in {"wait", "rendering", "deliver"} :
            /\ \/ thread' = [thread EXCEPT ![t].pc = pc]
               \/ thread' = [thread EXCEPT ![t].pc = pc, ![t].waits = owner]
            /\ pc # "rendering" => ~RequestClaim(t)
    BY <2>2
  <2>4. \E next : thread' = [thread EXCEPT ![t] = next] /\ Onward(t, next, pc)
    <3>1. CASE thread' = [thread EXCEPT ![t].pc = pc]
      <4>1. PICK next : next = [thread[t] EXCEPT !.pc = pc]
        OBVIOUS
      <4>2. thread' = [thread EXCEPT ![t] = next] /\ Onward(t, next, pc)
        BY <1>2, <3>1, <4>1 DEF Onward, Fields
      <4>3. QED
        BY <4>2
    <3>2. CASE thread' = [thread EXCEPT ![t].pc = pc, ![t].waits = owner]
      <4>1. PICK next : next = [thread[t] EXCEPT !.pc = pc, !.waits = owner]
        OBVIOUS
      <4>2. thread' = [thread EXCEPT ![t] = next] /\ Onward(t, next, pc)
        BY <1>2, <3>2, <4>1 DEF Onward, Fields
      <4>3. QED
        BY <4>2
    <3>3. QED
      BY <2>3, <3>1, <3>2
  <2>5. thread[t].pc \in {"claim", "erase"} /\ ~RequestDeliver(t)
    BY <1>7 DEF RequestAttach, RequestClaim, RequestErase, RequestDeliver, At
  <2>6. Claimless(t, pc)
    BY <2>3, <2>5 DEF Claimless, PullPc
  <2>7. QED
    BY <1>4, <2>3, <2>4, <2>5, <2>6
<1>8. CASE Answer(t)
  <2>1. thread' = [thread EXCEPT ![t] = Idle]
    BY <1>8 DEF Answer
  <2>2. Puts(t, Idle)
    BY <1>2, <2>1 DEF Puts
  <2>3. ~RequestClaim(t)
    BY <1>8 DEF Answer, RequestClaim, At
  <2>4. Fit(t, Idle, <<>>) /\ QuietTrue(Idle) /\ Stirred(Idle)
    BY DEF Fit, QuietTrue, Stirred, Idle, Fields, PullPc
  <2>5. QED
    BY <1>1, <2>2, <2>3, <2>4, OneMoves
<1>9. CASE RequestDeliver(t)
  <2>1. /\ thread[t].pc = "deliver" /\ stack[t] = <<>> /\ stack' = stack /\ DOMAIN thread' = Thread
    BY <1>9 DEF RequestDeliver, At
  <2>2. ASSUME NEW u \in Thread
        PROVE  /\ Fit(u, thread'[u], stack'[u])
               /\ u \in Worker => QuietTrue(thread'[u]) /\ Stirred(thread'[u])
    <3>1. thread'[u] = CASE u = t -> [thread[u] EXCEPT !.pc = AfterRequest(u)]
              [] thread[u].pc = "wait" /\ thread[u].waits = t ->
                     [thread[u] EXCEPT !.pc = AfterRequest(u), !.waits = Nobody, !.got = thread[t].got]
              [] OTHER -> thread[u]
      BY <1>9 DEF RequestDeliver
    <3>2. CASE thread'[u] = thread[u]
      BY <2>1, <3>2 DEF RestInv
    <3>3. CASE thread'[u] # thread[u]
      <4>1. /\ thread[u].pc \in {"deliver", "wait"}
            /\ \/ thread'[u] = [thread[u] EXCEPT !.pc = AfterRequest(u)]
               \/ thread'[u] = [thread[u] EXCEPT !.pc = AfterRequest(u), !.waits = Nobody,
                                                 !.got = thread[t].got]
        BY <2>1, <3>1, <3>3
      <4>2. Onward(u, thread'[u], AfterRequest(u))
        BY <1>2, <4>1 DEF Onward, Fields
      <4>3. stack'[u] = <<>>
        BY <1>2, <2>1, <4>1 DEF Fit
      <4>4. Claimless(u, AfterRequest(u))
        BY <1>3, <4>1 DEF Claimless, PullPc
      <4>5. QED
        BY <4>2, <4>3, <4>4, OnwardFits
    <3>4. QED
      BY <3>2, <3>3
  <2>3. QED
    BY <1>1, <2>1, <2>2, AllMove
<1>10. QED
  BY <1>5, <1>6, <1>7, <1>8, <1>9 DEF ServeRequest, Pull

LEMMA RestPlan ==
    ASSUME RestInv, NEW t \in Thread, Plan(t)
    PROVE  RestInv'
<1>1. /\ thread[t].pc = "plan" /\ UNCHANGED <<edit, epoch, stack>> /\ stack[t] = <<>>
      /\ DOMAIN thread = Thread /\ DOMAIN stack = Thread
      /\ Fit(t, thread[t], <<>>) /\ QuietTrue(thread[t]) /\ t \in Worker
  BY DEF RestInv, Plan, At, editing, caching, Fit, PullPc
<1>2. PICK d : d = thread[t].node
  OBVIOUS
<1>3. PICK node : node = IF d > 1 THEN d - 1 ELSE 1
  OBVIOUS
<1>4. PICK pc : pc = IF d > 1 THEN "plan" ELSE "freeze"
  OBVIOUS
<1>5. PICK calm : calm = (edit = NoEdit)
  OBVIOUS
<1>6. PICK observed : observed = [thread[t].observed EXCEPT ![d] = epoch[d]]
  OBVIOUS
<1>7. PICK quiet : quiet = [thread[t].quiet EXCEPT ![d] = calm]
  OBVIOUS
<1>8. PICK next : next = [thread[t] EXCEPT !.observed = observed, !.quiet = quiet, !.node = node, !.pc = pc]
  OBVIOUS
<1>9. /\ d \in Comp /\ DOMAIN thread[t] = Fields
      /\ DOMAIN thread[t].observed = Comp /\ thread[t].quiet \in [Comp -> BOOLEAN]
  BY <1>1, <1>2 DEF Fit, PullPc
<1>10. Puts(t, next)
  <2>1. thread' = [thread EXCEPT ![t] = next]
    BY <1>1, <1>2, <1>3, <1>4, <1>5, <1>6, <1>7, <1>8, <1>9 DEF Plan, Fields
  <2>2. QED
    BY <1>1, <2>1 DEF Puts
<1>11. /\ DOMAIN next = Fields /\ next.observed = observed /\ next.quiet = quiet /\ next.node = node
       /\ next.pc = pc
  BY <1>8, <1>9 DEF Fields
<1>12. node \in Comp /\ pc \in {"plan", "freeze"}
  BY <1>3, <1>4, <1>9, HeightAssumption DEF Comp
<1>13. /\ DOMAIN observed = Comp /\ quiet \in [Comp -> BOOLEAN]
       /\ \A e \in Comp : quiet[e] => IF e = d THEN calm ELSE thread[t].quiet[e]
       /\ \A e \in Comp : observed[e] = IF e = d THEN epoch[d] ELSE thread[t].observed[e]
  <2>1. calm \in BOOLEAN
    BY <1>5
  <2>2. quiet \in [Comp -> BOOLEAN]
    BY <1>7, <1>9, <2>1
  <2>3. \A e \in Comp : quiet[e] => IF e = d THEN calm ELSE thread[t].quiet[e]
    BY <1>7, <1>9, ZenonT(30)
  <2>4. DOMAIN observed = Comp /\ \A e \in Comp : observed[e] = IF e = d THEN epoch[d] ELSE thread[t].observed[e]
    BY <1>6, <1>9
  <2>5. QED
    BY <2>2, <2>3, <2>4
<1>14. Fit(t, next, <<>>)
  BY <1>1, <1>11, <1>12, <1>13 DEF Fit, PullPc
<1>15. QuietTrue(next)
  <2> SUFFICES ASSUME NEW e \in Comp, quiet[e]
               PROVE  edit = NoEdit /\ observed[e] = epoch[e]
    BY <1>11 DEF QuietTrue
  <2>1. CASE e = d
    BY <1>5, <1>13, <2>1
  <2>2. CASE e # d
    <3>1. thread[t].quiet[e] /\ observed[e] = thread[t].observed[e]
      BY <1>13, <2>2
    <3>2. QED
      BY <1>1, <3>1 DEF QuietTrue
  <2>3. QED
    BY <2>1, <2>2
<1>16. Stirred(next)
  BY <1>11, <1>12 DEF Stirred
<1>17. QED
  BY <1>1, <1>10, <1>14, <1>15, <1>16, OneMoves

LEMMA RestObserve ==
    ASSUME RestInv, NEW t \in Thread, RetryFreeze(t)
    PROVE  RestInv'
<1>1. /\ thread[t].pc = "observe" /\ UNCHANGED <<edit, epoch>> /\ DOMAIN stack' = Thread
      /\ \A u \in Thread : u # t => stack'[u] = stack[u]
      /\ DOMAIN thread = Thread
      /\ Fit(t, thread[t], <<>>) /\ QuietTrue(thread[t]) /\ t \in Worker
  BY DEF RestInv, RetryFreeze, At, editing, caching, Fit, PullPc
<1>2. PICK d : d = thread[t].node
  OBVIOUS
<1>3. PICK calm : calm = (edit = NoEdit)
  OBVIOUS
<1>4. PICK observed : observed = [thread[t].observed EXCEPT ![d] = epoch[d]]
  OBVIOUS
<1>5. PICK quiet : quiet = [thread[t].quiet EXCEPT ![d] = calm]
  OBVIOUS
<1>6. PICK next : next = [thread[t] EXCEPT !.observed = observed, !.pc = "refreezing", !.quiet = quiet]
  OBVIOUS
<1>7. /\ d \in Comp /\ DOMAIN thread[t] = Fields
      /\ DOMAIN thread[t].observed = Comp /\ thread[t].quiet \in [Comp -> BOOLEAN]
  BY <1>1, <1>2 DEF Fit, PullPc
<1>8. Puts(t, next)
  <2>1. thread' = [thread EXCEPT ![t] = next]
    BY <1>1, <1>2, <1>3, <1>4, <1>5, <1>6, <1>7 DEF RetryFreeze, Fields
  <2>2. QED
    BY <1>1, <2>1 DEF Puts
<1>9. /\ DOMAIN next = Fields /\ next.observed = observed /\ next.quiet = quiet /\ next.node = d
      /\ next.pc = "refreezing"
  BY <1>2, <1>6, <1>7 DEF Fields
<1>10. /\ DOMAIN observed = Comp /\ quiet \in [Comp -> BOOLEAN]
       /\ \A e \in Comp : quiet[e] => IF e = d THEN calm ELSE thread[t].quiet[e]
       /\ \A e \in Comp : observed[e] = IF e = d THEN epoch[d] ELSE thread[t].observed[e]
  <2>1. calm \in BOOLEAN
    BY <1>3
  <2>2. quiet \in [Comp -> BOOLEAN]
    BY <1>5, <1>7, <2>1
  <2>3. \A e \in Comp : quiet[e] => IF e = d THEN calm ELSE thread[t].quiet[e]
    BY <1>5, <1>7, ZenonT(30)
  <2>4. DOMAIN observed = Comp /\ \A e \in Comp : observed[e] = IF e = d THEN epoch[d] ELSE thread[t].observed[e]
    BY <1>4, <1>7
  <2>5. QED
    BY <2>2, <2>3, <2>4
<1>11. Fit(t, next, stack'[t])
  BY <1>1, <1>7, <1>9, <1>10 DEF Fit, PullPc
<1>12. QuietTrue(next)
  <2> SUFFICES ASSUME NEW e \in Comp, quiet[e]
               PROVE  edit = NoEdit /\ observed[e] = epoch[e]
    BY <1>9 DEF QuietTrue
  <2>1. CASE e = d
    BY <1>3, <1>10, <2>1
  <2>2. CASE e # d
    <3>1. thread[t].quiet[e] /\ observed[e] = thread[t].observed[e]
      BY <1>10, <2>2
    <3>2. QED
      BY <1>1, <1>2, <2>2, <3>1 DEF QuietTrue
  <2>3. QED
    BY <2>1, <2>2
<1>13. Stirred(next)
  BY <1>9 DEF Stirred
<1>14. QED
  BY <1>1, <1>8, <1>11, <1>12, <1>13, OneMoves

\* The node's own bump: it observes again before it renders again, or it had seen an edit.
LEMMA RestBump ==
    ASSUME RestInv, NEW t \in Thread, RetryDrop(t) \/ SelfRestale(t)
    PROVE  RestInv'
<1>1. PICK pc : pc = IF RetryDrop(t) THEN "observe" ELSE "complete"
  OBVIOUS
<1>2. PICK d : d = thread[t].node
  OBVIOUS
<1>3. /\ edit' = edit /\ stack' = stack /\ stack[t] = <<>>
      /\ thread[t].pc \in {"drop", "restale"} /\ (pc # "observe" => thread[t].pc = "restale")
      /\ thread' = [thread EXCEPT ![t].pc = pc] /\ epoch' = [epoch EXCEPT ![d] = @ + 1]
  BY <1>1, <1>2 DEF RetryDrop, SelfRestale, Goto, At, RangeInvalidated, editing
<1>4. /\ DOMAIN thread = Thread /\ DOMAIN stack = Thread /\ epoch \in [Comp -> Nat]
      /\ Fit(t, thread[t], <<>>)
      /\ t \in Worker => QuietTrue(thread[t]) /\ Stirred(thread[t])
  BY <1>3 DEF RestInv
<1>5. t \in Worker /\ d \in Comp /\ DOMAIN thread[t] = Fields
  BY <1>2, <1>3, <1>4 DEF Fit, PullPc
<1>6. /\ DOMAIN thread' = Thread /\ \A u \in Thread : u # t => thread'[u] = thread[u]
      /\ thread'[t] = [thread[t] EXCEPT !.pc = pc]
  BY <1>3, <1>4
<1>7. /\ DOMAIN thread'[t] = Fields /\ thread'[t].pc = pc /\ thread'[t].node = d
      /\ thread'[t].observed = thread[t].observed /\ thread'[t].quiet = thread[t].quiet
  BY <1>2, <1>5, <1>6 DEF Fields
<1>8. epoch' \in [Comp -> Nat] /\ \A e \in Comp : e # d => epoch'[e] = epoch[e]
  BY <1>3, <1>4, <1>5
<1>9. pc \in {"observe", "complete"}
  BY <1>1
<1>10. ASSUME NEW u \in Thread PROVE Fit(u, thread[u], stack[u])'
  <2>1. CASE u # t
    <3>1. Fit(u, thread'[u], stack'[u])
      BY <1>3, <1>6, <2>1 DEF RestInv
    <3>2. QED
      BY <3>1 DEF Fit
  <2>2. CASE u = t
    <3>1. Fit(t, thread'[t], stack'[t])
      BY <1>3, <1>4, <1>5, <1>7, <1>9 DEF Fit
    <3>2. QED
      BY <2>2, <3>1 DEF Fit
  <2>3. QED
    BY <2>1, <2>2
<1>11. ASSUME NEW e \in Comp, thread'[t].quiet[e]
       PROVE  /\ edit' = NoEdit
              /\ thread'[t].observed[e] = epoch'[e] \/ (thread'[t].pc = "observe" /\ thread'[t].node = e)
  <2>1. thread[t].quiet[e]
    BY <1>7, <1>11
  <2>2. edit = NoEdit /\ thread[t].observed[e] = epoch[e]
    BY <1>3, <1>4, <1>5, <2>1 DEF QuietTrue
  <2>3. CASE e # d
    BY <1>3, <1>7, <1>8, <2>2, <2>3
  <2>4. CASE e = d
    <3>1. pc = "observe"
      BY <1>2, <1>3, <1>4, <1>5, <2>1, <2>4 DEF Stirred
    <3>2. QED
      BY <1>3, <1>7, <2>2, <2>4, <3>1
  <2>5. QED
    BY <2>3, <2>4
<1>12. ASSUME NEW u \in Worker PROVE QuietTrue(thread[u])' /\ Stirred(thread[u])'
  <2>1. u = t
    BY <1>5 DEF RestInv, OneWorker
  <2>2. QuietTrue(thread[u])'
    BY <1>11, <2>1 DEF QuietTrue
  <2>3. Stirred(thread[u])'
    BY <1>7, <1>9, <2>1 DEF Stirred
  <2>4. QED
    BY <2>2, <2>3
<1>13. QED
  BY <1>3, <1>4, <1>6, <1>8, <1>10, <1>12 DEF RestInv

LEMMA RestNode ==
    ASSUME RestInv, NEW t \in Thread, RunNode(t)
    PROVE  RestInv'
<1>1. /\ DOMAIN thread = Thread /\ DOMAIN stack = Thread /\ Fit(t, thread[t], stack[t])
      /\ t \in Worker => QuietTrue(thread[t]) /\ Stirred(thread[t])
  BY DEF RestInv
<1>2. CASE \E p \in Page : Demand(t, p)
  <2>1. PICK p \in Page : Demand(t, p)
    BY <1>2
  <2>2. PICK next : next = [thread[t] EXCEPT !.pc = "plan", !.page = p, !.node = Height]
    OBVIOUS
  <2>3. /\ thread' = [thread EXCEPT ![t] = next] /\ t \in Worker /\ thread[t].pc = "idle"
        /\ stack' = stack /\ UNCHANGED <<edit, epoch>> /\ stack[t] = <<>>
    BY <1>1, <2>1, <2>2 DEF Demand, At, editing, caching
  <2>4. Puts(t, next)
    BY <1>1, <2>3 DEF Puts
  <2>5. /\ DOMAIN next = Fields /\ next.pc = "plan" /\ next.node = Height
        /\ next.observed = thread[t].observed /\ next.quiet = thread[t].quiet
    BY <1>1, <2>2 DEF Fit, Fields
  <2>6. Height \in Comp
    BY HeightAssumption DEF Comp
  <2>7. Fit(t, next, <<>>) /\ Stirred(next)
    BY <1>1, <2>3, <2>5, <2>6 DEF Fit, Stirred
  <2>8. QuietTrue(next)
    BY <1>1, <2>3, <2>5 DEF QuietTrue
  <2>9. QED
    BY <1>1, <2>3, <2>4, <2>7, <2>8, OneMoves
<1>3. CASE NodeFreeze(t) \/ VerifyInput(t) \/ RetryBind(t) \/ RetryCheck(t) \/ SelfTest(t) \/ SelfProbe(t)
  <2>1. /\ thread[t].pc \in {"freeze", "verify", "bind", "check", "self", "probe"}
        /\ UNCHANGED <<edit, epoch>> /\ DOMAIN stack' = Thread /\ stack[t] = <<>>
        /\ \A u \in Thread : u # t => stack'[u] = stack[u]
        /\ ~NodeFreeze(t) => stack'[t] = <<>>
    BY <1>1, <1>3 DEF NodeFreeze, VerifyInput, RetryBind, RetryCheck, SelfTest, SelfProbe, At, editing, caching
  <2>2. t \in Worker /\ thread[t].node \in Comp /\ DOMAIN thread[t] = Fields
    BY <1>1, <2>1 DEF Fit, PullPc
  <2>3. \E next, pc : /\ thread' = [thread EXCEPT ![t] = next] /\ Onward(t, next, pc)
                      /\ \/ pc \in {"freezing", "fast", "self", "check", "drop", "observe", "complete"}
                         \/ /\ pc \in {"probe", "restale"} /\ stack'[t] = <<>>
                            /\ ~thread[t].quiet[thread[t].node]
                      /\ pc # "freezing" => ~NodeFreeze(t)
    <3>1. CASE NodeFreeze(t)
      <4>1. PICK next : next = [thread[t] EXCEPT !.pc = "freezing", !.bound = thread[t].got]
        OBVIOUS
      <4>2. thread' = [thread EXCEPT ![t] = next] /\ Onward(t, next, "freezing")
        BY <1>1, <2>2, <3>1, <4>1 DEF NodeFreeze, Onward, Fields
      <4>3. QED
        BY <4>2
    <3>2. CASE VerifyInput(t) /\ InputStale(t)
      <4>1. PICK next : next = [thread[t] EXCEPT !.pc = "fast", !.bound = <<>>,
                            !.comp = thread[t].node - 1, !.epoch = epoch[thread[t].node - 1]]
        OBVIOUS
      <4>2. thread' = [thread EXCEPT ![t] = next] /\ Onward(t, next, "fast")
        BY <1>1, <2>2, <3>2, <4>1 DEF VerifyInput, Onward, Fields
      <4>3. ~NodeFreeze(t)
        BY <3>2 DEF VerifyInput, NodeFreeze, At
      <4>4. QED
        BY <4>2, <4>3
    <3>3. CASE RetryBind(t)
      <4>1. PICK next : next = [thread[t] EXCEPT !.pc = "check", !.bound = thread[t].got]
        OBVIOUS
      <4>2. thread' = [thread EXCEPT ![t] = next] /\ Onward(t, next, "check")
        BY <1>1, <2>2, <3>3, <4>1 DEF RetryBind, Onward, Fields
      <4>3. ~NodeFreeze(t)
        BY <3>3 DEF RetryBind, NodeFreeze, At
      <4>4. QED
        BY <4>2, <4>3
    <3>4. CASE (VerifyInput(t) /\ ~InputStale(t)) \/ RetryCheck(t) \/ SelfTest(t) \/ SelfProbe(t)
      <4>1. /\ thread[t].pc \in {"verify", "check", "self", "probe"}
            /\ \E pc \in {"self", "drop", "observe", "complete", "probe", "restale"} :
                   /\ thread' = [thread EXCEPT ![t].pc = pc]
                   /\ pc = "probe" => thread[t].observed[thread[t].node] < epoch[thread[t].node]
                                      /\ thread[t].pc = "self"
                   /\ pc = "restale" => thread[t].pc = "probe"
        <5>1. CASE VerifyInput(t) /\ ~InputStale(t)
          BY <5>1 DEF VerifyInput, At
        <5>2. CASE RetryCheck(t)
          BY <5>2 DEF RetryCheck, At, Goto
        <5>3. CASE SelfTest(t)
          BY <5>3 DEF SelfTest, At, Goto
        <5>4. CASE SelfProbe(t)
          BY <5>4 DEF SelfProbe, At, Goto
        <5>5. QED
          BY <3>4, <5>1, <5>2, <5>3, <5>4
      <4>2. PICK pc \in {"self", "drop", "observe", "complete", "probe", "restale"} :
                   /\ thread' = [thread EXCEPT ![t].pc = pc]
                   /\ pc = "probe" => thread[t].observed[thread[t].node] < epoch[thread[t].node]
                                      /\ thread[t].pc = "self"
                   /\ pc = "restale" => thread[t].pc = "probe"
        BY <4>1
      <4>3. PICK next : next = [thread[t] EXCEPT !.pc = pc]
        OBVIOUS
      <4>4. thread' = [thread EXCEPT ![t] = next] /\ Onward(t, next, pc)
        BY <1>1, <2>2, <4>2, <4>3 DEF Onward, Fields
      <4>5. ~NodeFreeze(t)
        BY <4>1 DEF NodeFreeze, At
      <4>6. pc = "probe" => ~thread[t].quiet[thread[t].node]
        <5>1. SUFFICES ASSUME pc = "probe", thread[t].quiet[thread[t].node]
                       PROVE  FALSE
          OBVIOUS
        <5>2. thread[t].observed[thread[t].node] = epoch[thread[t].node]
          BY <1>1, <2>2, <4>2, <5>1 DEF QuietTrue
        <5>3. epoch[thread[t].node] \in Nat
          BY <2>2 DEF RestInv
        <5>4. QED
          BY <4>2, <5>1, <5>2, <5>3
      <4>7. pc = "restale" => ~thread[t].quiet[thread[t].node]
        BY <1>1, <2>2, <4>2 DEF Stirred
      <4>8. QED
        BY <2>1, <4>4, <4>5, <4>6, <4>7
    <3>5. QED
      BY <1>3, <3>1, <3>2, <3>3, <3>4
  <2>4. PICK next, pc : /\ thread' = [thread EXCEPT ![t] = next] /\ Onward(t, next, pc)
                        /\ \/ pc \in {"freezing", "fast", "self", "check", "drop", "observe", "complete"}
                           \/ /\ pc \in {"probe", "restale"} /\ stack'[t] = <<>>
                              /\ ~thread[t].quiet[thread[t].node]
                        /\ pc # "freezing" => ~NodeFreeze(t)
    BY <2>3
  <2>5. Puts(t, next)
    BY <1>1, <2>4 DEF Puts
  <2>6. CASE pc \notin {"probe", "restale"}
    <3>1. Claimless(t, pc)
      BY <2>1, <2>2, <2>6 DEF Claimless, PullPc
    <3>2. stack'[t] # <<>> => pc \in {"rendering", "freezing", "refreezing"}
      BY <2>1, <2>4
    <3>3. QED
      BY <2>1, <2>4, <2>5, <3>1, <3>2, GoesOn
  <2>7. CASE pc \in {"probe", "restale"}
    <3>1. stack'[t] = <<>> /\ ~thread[t].quiet[thread[t].node]
      BY <2>4, <2>7
    <3>2. Fit(t, next, stack'[t])
      BY <1>1, <2>2, <2>4, <2>7, <3>1 DEF Fit, Onward, PullPc
    <3>3. QuietTrue(next)
      BY <1>1, <2>1, <2>2, <2>4 DEF QuietTrue, Onward
    <3>4. Stirred(next)
      BY <2>4, <3>1 DEF Stirred, Onward
    <3>5. QED
      BY <2>1, <2>5, <3>2, <3>3, <3>4, OneMoves
  <2>8. QED
    BY <2>6, <2>7
<1>4. CASE Complete(t)
  <2>1. /\ thread[t].pc = "complete" /\ stack' = stack /\ stack[t] = <<>> /\ UNCHANGED <<edit, epoch>>
    BY <1>4 DEF Complete, At, editing, caching
  <2>2. t \in Worker /\ thread[t].node \in Comp /\ DOMAIN thread[t] = Fields
    BY <1>1, <2>1 DEF Fit, PullPc
  <2>3. CASE thread[t].node < Height
    <3>1. PICK node : node = thread[t].node + 1
      OBVIOUS
    <3>2. PICK next : next = [thread[t] EXCEPT !.pc = "freeze", !.node = node]
      OBVIOUS
    <3>3. thread' = [thread EXCEPT ![t] = next]
      <4>1. next = [thread[t] EXCEPT !.pc = "freeze", !.node = thread[t].node + 1]
        BY <3>1, <3>2
      <4>2. QED
        BY <1>1, <1>4, <2>3, <4>1 DEF Complete
    <3>4. Puts(t, next)
      BY <1>1, <3>3 DEF Puts
    <3>5. /\ DOMAIN next = Fields /\ next.pc = "freeze" /\ next.node = node
          /\ next.observed = thread[t].observed /\ next.quiet = thread[t].quiet
      BY <2>2, <3>2 DEF Fields
    <3>6. node \in Comp
      BY <2>2, <2>3, <3>1, HeightAssumption DEF Comp
    <3>7. Fit(t, next, <<>>) /\ Stirred(next)
      BY <1>1, <2>2, <3>5, <3>6 DEF Fit, Stirred
    <3>8. QuietTrue(next)
      BY <1>1, <2>1, <2>2, <3>5 DEF QuietTrue
    <3>9. QED
      BY <1>1, <2>1, <3>4, <3>7, <3>8, OneMoves
  <2>4. CASE ~(thread[t].node < Height)
    <3>1. thread' = [thread EXCEPT ![t] = Idle]
      BY <1>1, <1>4, <2>4 DEF Complete
    <3>2. Puts(t, Idle)
      BY <1>1, <3>1 DEF Puts
    <3>3. Fit(t, Idle, <<>>) /\ QuietTrue(Idle) /\ Stirred(Idle)
      BY DEF Fit, QuietTrue, Stirred, Idle, Fields, PullPc
    <3>4. QED
      BY <1>1, <2>1, <3>2, <3>3, OneMoves
  <2>5. QED
    BY <2>3, <2>4
<1>5. QED
  BY <1>2, <1>3, <1>4, RestPlan, RestObserve, RestBump DEF RunNode

LEMMA RestMain ==
    ASSUME RestInv, MainThread
    PROVE  RestInv'
<1>1. /\ epoch \in [Comp -> Nat] /\ DOMAIN thread = Thread /\ DOMAIN stack = Thread /\ OneWorker
      /\ \A u \in Thread : Fit(u, thread[u], stack[u])
      /\ \A u \in Worker : QuietTrue(thread[u]) /\ Stirred(thread[u])
  BY DEF RestInv, Thread
<1>2. CASE \E c \in Comp, range \in Ranges, whole \in BOOLEAN : \E walk \in Walks[c] :
               EditBegin(c, range, whole, walk)
  <2>1. PICK calm : calm = Idle.quiet
    OBVIOUS
  <2>2. calm \in [Comp -> BOOLEAN] /\ \A c \in Comp : ~calm[c]
    BY <2>1 DEF Idle
  <2>3. /\ thread' = [t \in Thread |-> [thread[t] EXCEPT !.quiet = calm]]
        /\ stack' = stack /\ epoch' = epoch
    BY <1>2, <2>1 DEF EditBegin, Disturbed, caching
  <2>4. ASSUME NEW u \in Thread
        PROVE  /\ DOMAIN thread'[u] = Fields /\ thread'[u].pc = thread[u].pc
               /\ thread'[u].node = thread[u].node /\ thread'[u].quiet = calm
               /\ thread'[u].observed = thread[u].observed
    <3>1. thread'[u] = [thread[u] EXCEPT !.quiet = calm] /\ DOMAIN thread[u] = Fields
      BY <1>1, <2>3 DEF Fit
    <3>2. QED
      BY <3>1 DEF Fields
  <2>5. ASSUME NEW u \in Thread
        PROVE  Fit(u, thread[u], stack[u])'
    <3>1. Fit(u, thread'[u], stack'[u])
      BY <1>1, <2>2, <2>3, <2>4 DEF Fit
    <3>2. QED
      BY <3>1 DEF Fit
  <2>6. ASSUME NEW u \in Worker
        PROVE  QuietTrue(thread[u])' /\ Stirred(thread[u])'
    <3>1. u \in Thread
      BY DEF Thread
    <3>2. QuietTrue(thread[u])'
      BY <2>2, <2>4, <3>1 DEF QuietTrue
    <3>3. Stirred(thread[u])'
      <4>1. thread'[u].pc \in {"probe", "restale"} => thread'[u].node \in Comp
        BY <1>1, <2>4, <3>1 DEF Fit, PullPc
      <4>2. QED
        BY <2>2, <2>4, <3>1, <4>1 DEF Stirred
    <3>4. QED
      BY <3>2, <3>3
  <2>7. QED
    BY <1>1, <2>3, <2>5, <2>6 DEF RestInv
<1>3. CASE EditBump
  <2>1. edit # NoEdit /\ thread' = thread /\ stack' = stack
    BY <1>3 DEF EditBump
  <2>2. epoch' \in [Comp -> Nat]
    <3>1. PICK c : epoch' = [epoch EXCEPT ![c] = @ + 1]
      BY <1>3 DEF EditBump, EditBumps, Bumped, RangeInvalidated
    <3>2. CASE c \in Comp
      BY <1>1, <3>1, <3>2
    <3>3. CASE c \notin Comp
      <4>1. epoch' = epoch
        BY <1>1, <3>1, <3>3
      <4>2. QED
        BY <1>1, <4>1
    <3>4. QED
      BY <3>2, <3>3
  <2>3. ASSUME NEW u \in Worker, NEW c \in Comp
        PROVE  ~thread[u].quiet[c]
    BY <1>1, <2>1 DEF QuietTrue
  <2>4. ASSUME NEW u \in Thread
        PROVE  Fit(u, thread[u], stack[u])'
    BY <1>1, <2>1 DEF Fit
  <2>5. ASSUME NEW u \in Worker
        PROVE  QuietTrue(thread[u])' /\ Stirred(thread[u])'
    <3>1. QuietTrue(thread[u])'
      BY <2>1, <2>3 DEF QuietTrue
    <3>2. Stirred(thread[u])'
      BY <1>1, <2>1 DEF Stirred
    <3>3. QED
      BY <3>1, <3>2
  <2>6. QED
    BY <1>1, <2>1, <2>2, <2>4, <2>5 DEF RestInv
<1>4. CASE \E c \in Comp, p \in Page : Prune(c, p)
  <2>1. UNCHANGED <<edit, epoch, thread, stack>>
    BY <1>4 DEF Prune, editing
  <2>2. QED
    BY <1>1, <2>1, AllMove DEF Thread
<1>5. QED
  BY <1>2, <1>3, <1>4 DEF MainThread

LEMMA RestInit == ASSUME Init, OneWorker PROVE RestInv
<1>1. DOMAIN Idle = Fields /\ DOMAIN Idle.observed = Comp
      /\ Idle.quiet \in [Comp -> BOOLEAN] /\ Idle.pc = "idle" /\ \A c \in Comp : ~Idle.quiet[c]
  BY DEF Idle, Fields
<1>2. /\ \A t \in Thread : thread[t] = Idle /\ stack[t] = <<>>
      /\ DOMAIN thread = Thread /\ DOMAIN stack = Thread /\ epoch \in [Comp -> Nat]
  BY DEF Init
<1>3. ASSUME NEW t \in Thread
      PROVE  Fit(t, Idle, <<>>) /\ QuietTrue(Idle) /\ Stirred(Idle)
  BY <1>1 DEF Fit, QuietTrue, Stirred, PullPc
<1>4. QED
  BY <1>2, <1>3 DEF RestInv

\* A worker re-stales the page it has just published only for an edit: its own bumps are
\* observed again before they can be mistaken for one, so the demand comes to rest.  For
\* one worker, any number of pullers and a chain of any height.
THEOREM RepublishingNeedsEdit == OneWorker /\ Spec => []RepublishNeedsEdit
<1>1. OneWorker /\ Init => RestInv
  BY RestInit
<1>2. RestInv /\ [Next]_vars => RestInv'
  <2> SUFFICES ASSUME RestInv, [Next]_vars
               PROVE  RestInv'
    OBVIOUS
  <2>1. CASE MainThread
    BY <2>1, RestMain
  <2>2. CASE \E t \in Thread : ThreadStep(t)
    BY <2>2, RestFreeze, RestRequest, RestNode DEF ThreadStep
  <2>3. CASE UNCHANGED vars
    <3>1. UNCHANGED <<edit, epoch, thread, stack>>
      BY <2>3 DEF vars, editing, caching
    <3>2. /\ DOMAIN thread = Thread /\ DOMAIN stack = Thread
          /\ \A u \in Thread : /\ Fit(u, thread[u], stack[u])
                               /\ u \in Worker => QuietTrue(thread[u]) /\ Stirred(thread[u])
      BY DEF RestInv
    <3>3. QED
      BY <3>1, <3>2, AllMove
  <2>4. QED
    BY <2>1, <2>2, <2>3 DEF Next
<1>3. RestInv => RepublishNeedsEdit
  BY DEF RestInv, RepublishNeedsEdit, Stirred, Thread
<1>4. QED
  BY <1>1, <1>2, <1>3, PTL DEF Spec

==============================================================================
