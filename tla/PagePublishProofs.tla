-------------------------- MODULE PagePublishProofs --------------------------
(***************************************************************************)
(* A page that reads current is the page of the model as it is now: for a  *)
(* chain of any height, any pages, any edits and any number of pulling     *)
(* threads, with pages pruned under their renders (PullersOnly: no planned *)
(* renders; with them a weaker statement holds, PublishedIsFresh).         *)
(*                                                                         *)
(* The argument: a render reads its component's epoch before anything      *)
(* else, so what it reads later can be too new for its stamp but not too   *)
(* old, as long as the epoch has not moved.  A page is STABLE where no     *)
(* edit is still to bump its component or one upstream, and none of these  *)
(* was bumped before one upstream of it.  A frame whose epoch has not      *)
(* moved and whose page is stable is LIVE, and everything a live render    *)
(* holds, or any render on whose result it waits, is fresh.  A frame that  *)
(* is not live stays so until the bump that makes its page stable again,   *)
(* which moves its epoch: its stamp will not be current.                   *)
(***************************************************************************)
EXTENDS PagePublish, SequenceTheorems, TLAPS

PullersOnly == Worker = {}

-----------------------------------------------------------------------------
(***************************************************************************)
(* The inductive invariant                                                 *)
(***************************************************************************)
Version == 0 .. MaxEdits
Quiet   == [Comp -> BOOLEAN]
PullPc  == {"idle", "fast", "claim", "wait", "rendering", "erase", "deliver", "answer"}
Frame   == [comp : Comp, at : {"enter", "lookup", "pull", "pulling", "stamp"},
            epoch : Nat, prod : Nat, own : Version, input : Seq(Version)]
Cached  == [present : BOOLEAN, valid : BOOLEAN, stamp : Nat, shows : Seq(Version)]
Hinted  == [page : Page \cup {Nobody}, shows : Seq(Version), observed : Nat]
PullState == [pc : PullPc, page : Page \cup {Nobody}, node : {0}, comp : 0 .. Height,
              epoch : Nat, waits : Thread \cup {Nobody}, got : Seq(Version), bound : {<<>>},
              observed : {[c \in Comp |-> 0]}, since : {<<>>} \cup [Comp -> Version],
              quiet : Quiet]

EditShape ==
    \/ edit = NoEdit
    \/ \E walk \in Seq(Comp) \ {<<>>}, range \in Ranges, whole \in BOOLEAN :
           edit = [path |-> walk, range |-> range, whole |-> whole]

Types ==
    /\ model \in [Comp -> [Page -> Version]]
    /\ settled \in [Comp -> [Page -> Version]]
    /\ edits \in Version
    /\ late \subseteq Comp \X Page
    /\ \/ edit = NoEdit
       \/ \E walk \in Seq(Comp) \ {<<>>}, range \in Ranges, whole \in BOOLEAN :
              edit = [path |-> walk, range |-> range, whole |-> whole]
    /\ epoch \in [Comp -> Nat \ {0}]
    /\ cache \in [Comp -> [Page -> Cached]]
    /\ cursor \in [Comp -> Thread \cup {Nobody}]
    /\ hint \in [Comp -> Hinted]
    /\ inflight \in [Comp -> [Page -> [epoch : Nat, owner : Thread \cup {Nobody}]]]
    /\ thread \in [Thread -> PullState]
    /\ stack \in [Thread -> Seq(Frame)]
    /\ slipped = {}

\* Stamps the component has had, and audio of as many components as stand behind it.
CacheSound ==
    \A c \in Comp, p \in Page :
        IF cache[c][p].valid
        THEN cache[c][p].present /\ cache[c][p].stamp \in 1 .. epoch[c] /\ Len(cache[c][p].shows) = c
        ELSE cache[c][p].stamp = 0 /\ cache[c][p].shows = <<>>

HintSound ==
    \A c \in Comp : hint[c].page \in Page =>
        c > 1 /\ Len(hint[c].shows) = c - 1 /\ hint[c].observed <= epoch[c - 1]

InflightSound ==
    \A c \in Comp, p \in Page :
        \/ inflight[c][p] = NoEntry
        \/ inflight[c][p].epoch \in 1 .. epoch[c] /\ inflight[c][p].owner \in Thread

ThreadSound ==
    \A t \in Thread :
        /\ thread[t].pc # "idle" => /\ thread[t].page \in Page /\ thread[t].comp \in Comp
                                    /\ thread[t].epoch \in 1 .. epoch[thread[t].comp]
        /\ stack[t] # <<>> => thread[t].pc = "rendering"

\* The calls of a thread: each waits for the one before it, for the component below its
\* own, and read the producer's epoch before that call began.
FrameOK(t, i) ==
    /\ stack[t][i].comp = stack[t][1].comp + (i - 1)
    /\ stack[t][i].at = "pulling" <=> i > 1
    /\ stack[t][i].epoch <= epoch[stack[t][i].comp]
    /\ stack[t][i].at # "enter" => stack[t][i].epoch >= 1
    /\ i > 1 => /\ stack[t][i].prod <= epoch[stack[t][i].comp - 1]
                /\ stack[t][i - 1].at # "enter" => stack[t][i].prod <= stack[t][i - 1].epoch
    /\ stack[t][i].at = "pull" => stack[t][i].comp > 1
    /\ stack[t][i].at = "stamp" => Len(stack[t][i].input) = stack[t][i].comp - 1
    /\ stack[t][i].at # "stamp" => stack[t][i].input = <<>>
    /\ stack[t][i].at # "enter" <=> cursor[stack[t][i].comp] = t

StackSound == \A t \in Thread : \A i \in DOMAIN stack[t] : FrameOK(t, i)

CursorSound ==
    \A t \in Thread, c \in Comp : cursor[c] = t =>
        \E i \in DOMAIN stack[t] : stack[t][i].comp = c /\ stack[t][i].at # "enter"

\* No edit under way is still to reach page p of component c or upstream of it, and
\* none has left the page late.
Stable(c, p) ==
    /\ p \in Touched => \A d \in 1 .. c : Reached(d)
    /\ \A d \in 1 .. c : <<d, p>> \notin late

CacheFresh ==
    \A c \in Comp, p \in Page :
        Stable(c, p) /\ ReadsCurrent(c, p) => cache[c][p].shows = Fresh(c, p)

HintFresh ==
    \A c \in Comp :
        (/\ hint[c].page \in Page /\ hint[c].observed = epoch[c - 1]
         /\ Stable(c - 1, hint[c].page)) => hint[c].shows = Fresh(c - 1, hint[c].page)

Live(f, p) == f.at # "enter" /\ f.epoch = epoch[f.comp] /\ Stable(f.comp, p)

LiveFrom(t, i) == \E j \in DOMAIN stack[t] : i <= j /\ Live(stack[t][j], thread[t].page)

\* What a frame holds, and what it would be served, is fresh.
Holding(f, p) ==
    /\ f.at \in {"pull", "pulling", "stamp"} => f.own = model[f.comp][p]
    /\ f.at = "stamp" => f.input = Fresh(f.comp - 1, p)
    /\ f.at = "lookup" /\ Current(cache[f.comp][p], f.epoch) => cache[f.comp][p].shows = Fresh(f.comp, p)

FrameFresh ==
    \A t \in Thread : \A i \in DOMAIN stack[t] :
        LiveFrom(t, i) => Holding(stack[t][i], thread[t].page)

Sound == Types /\ CacheSound /\ HintSound /\ InflightSound /\ ThreadSound /\ StackSound /\ CursorSound

IInv == PullersOnly /\ Sound /\ CacheFresh /\ HintFresh /\ FrameFresh

-----------------------------------------------------------------------------
(***************************************************************************)
(* Sequences of frames                                                     *)
(***************************************************************************)
LEMMA TailOf ==
    ASSUME NEW S, NEW s \in Seq(S), s # <<>>
    PROVE  /\ Len(s) \in Nat \ {0} /\ DOMAIN s = 1 .. Len(s) /\ Head(s) = s[1] /\ s[1] \in S
           /\ Tail(s) \in Seq(S) /\ Len(Tail(s)) = Len(s) - 1
           /\ \A i \in 1 .. Len(s) - 1 : Tail(s)[i] = s[i + 1]
<1>1. Len(s) \in Nat \ {0} /\ DOMAIN s = 1 .. Len(s)
  BY EmptySeq, LenProperties
<1>2. Head(s) = s[1] /\ s[1] \in S /\ Tail(s) \in Seq(S) /\ Len(Tail(s)) = Len(s) - 1
      /\ \A i \in 1 .. Len(Tail(s)) : Tail(s)[i] = s[i + 1]
  BY <1>1, HeadTailProperties, ElementOfSeq
<1>3. QED
  BY <1>1, <1>2

\* The innermost call replaced.
LEMMA TopReplaced ==
    ASSUME NEW S, NEW s \in Seq(S), s # <<>>, NEW f \in S
    PROVE  /\ <<f>> \o Tail(s) \in Seq(S) /\ DOMAIN (<<f>> \o Tail(s)) = DOMAIN s
           /\ (<<f>> \o Tail(s))[1] = f
           /\ \A i \in DOMAIN s : i # 1 => (<<f>> \o Tail(s))[i] = s[i]
<1> DEFINE u == <<f>> \o Tail(s)
<1>1. Len(s) \in Nat \ {0} /\ DOMAIN s = 1 .. Len(s)
      /\ Tail(s) \in Seq(S) /\ Len(Tail(s)) = Len(s) - 1
      /\ \A i \in 1 .. Len(s) - 1 : Tail(s)[i] = s[i + 1]
  BY TailOf
<1>2. <<f>> \in Seq(S) /\ Len(<<f>>) = 1 /\ <<f>>[1] = f
  OBVIOUS
<1>3. /\ u \in Seq(S) /\ Len(u) = Len(s)
      /\ \A i \in 1 .. Len(s) : u[i] = IF i <= 1 THEN <<f>>[i] ELSE Tail(s)[i - 1]
  BY <1>1, <1>2, ConcatProperties
<1>4. DOMAIN u = 1 .. Len(s)
  BY <1>3, LenProperties
<1>5. u[1] = f
  BY <1>1, <1>2, <1>3
<1>6. ASSUME NEW i \in 1 .. Len(s), i # 1 PROVE u[i] = s[i]
  <2>1. i - 1 \in 1 .. Len(s) - 1 /\ (i - 1) + 1 = i /\ ~(i <= 1)
    BY <1>1, <1>6
  <2>2. QED
    BY <1>1, <1>3, <2>1
<1>7. QED
  BY <1>1, <1>3, <1>4, <1>5, <1>6

\* A call made: the caller is replaced, and a new innermost call lies on it.
LEMMA CallPushed ==
    ASSUME NEW S, NEW s \in Seq(S), s # <<>>, NEW f \in S, NEW g \in S
    PROVE  /\ <<f, g>> \o Tail(s) \in Seq(S)
           /\ DOMAIN (<<f, g>> \o Tail(s)) = 1 .. Len(s) + 1
           /\ (<<f, g>> \o Tail(s))[1] = f /\ (<<f, g>> \o Tail(s))[2] = g
           /\ \A i \in 3 .. Len(s) + 1 : (<<f, g>> \o Tail(s))[i] = s[i - 1]
<1> DEFINE u == <<f, g>> \o Tail(s)
<1>1. Len(s) \in Nat \ {0} /\ DOMAIN s = 1 .. Len(s)
      /\ Tail(s) \in Seq(S) /\ Len(Tail(s)) = Len(s) - 1
      /\ \A i \in 1 .. Len(s) - 1 : Tail(s)[i] = s[i + 1]
  BY TailOf
<1>2. <<f, g>> \in Seq(S) /\ Len(<<f, g>>) = 2 /\ <<f, g>>[1] = f /\ <<f, g>>[2] = g
  OBVIOUS
<1>3. /\ u \in Seq(S) /\ Len(u) = Len(s) + 1
      /\ \A i \in 1 .. Len(s) + 1 : u[i] = IF i <= 2 THEN <<f, g>>[i] ELSE Tail(s)[i - 2]
  BY <1>1, <1>2, ConcatProperties
<1>4. DOMAIN u = 1 .. Len(s) + 1
  BY <1>3, LenProperties
<1>5. u[1] = f /\ u[2] = g
  BY <1>1, <1>2, <1>3
<1>6. ASSUME NEW i \in 3 .. Len(s) + 1 PROVE u[i] = s[i - 1]
  <2>1. i - 2 \in 1 .. Len(s) - 1 /\ (i - 2) + 1 = i - 1 /\ ~(i <= 2)
    BY <1>1, <1>6
  <2>2. QED
    BY <1>1, <1>3, <2>1
<1>7. QED
  BY <1>1, <1>3, <1>4, <1>5, <1>6

\* A call returned: it is gone, and the caller replaced.
LEMMA CallPopped ==
    ASSUME NEW S, NEW s \in Seq(S), Len(s) > 1, NEW f \in S
    PROVE  /\ <<f>> \o SubSeq(s, 3, Len(s)) \in Seq(S)
           /\ DOMAIN (<<f>> \o SubSeq(s, 3, Len(s))) = 1 .. Len(s) - 1
           /\ (<<f>> \o SubSeq(s, 3, Len(s)))[1] = f
           /\ \A i \in 2 .. Len(s) - 1 : (<<f>> \o SubSeq(s, 3, Len(s)))[i] = s[i + 1]
<1> DEFINE r == SubSeq(s, 3, Len(s))
           u == <<f>> \o r
<1>1. Len(s) \in Nat /\ \A i \in 1 .. Len(s) : s[i] \in S
  BY LenProperties, ElementOfSeq
<1>2. r \in Seq(S) /\ Len(r) = Len(s) - 2 /\ \A i \in 1 .. Len(s) - 2 : r[i] = s[i + 2]
  <2>1. \A i \in 3 .. Len(s) : s[i] \in S
    BY <1>1
  <2>2. r \in Seq(S) /\ Len(r) = (IF 3 <= Len(s) THEN Len(s) - 3 + 1 ELSE 0)
        /\ \A i \in 1 .. Len(s) - 3 + 1 : r[i] = s[3 + i - 1]
    BY <1>1, <2>1, SubSeqProperties
  <2>3. \A i \in 1 .. Len(s) - 2 : i \in 1 .. Len(s) - 3 + 1 /\ 3 + i - 1 = i + 2
    BY <1>1
  <2> HIDE DEF r
  <2>4. Len(r) = Len(s) - 2
    <3>1. Len(s) \in Nat /\ (3 <= Len(s) \/ Len(s) = 2)
      <4>1. \A n \in Nat : n > 1 => 3 <= n \/ n = 2
        OBVIOUS
      <4>2. QED
        BY <1>1, <4>1
    <3>2. 3 <= Len(s) => Len(r) = Len(s) - 3 + 1
      BY <2>2
    <3>3. Len(s) = 2 => Len(r) = 0
      BY <2>2
    <3>4. QED
      BY <3>1, <3>2, <3>3
  <2>5. QED
    BY <2>2, <2>3, <2>4
<1> HIDE DEF r
<1>3. <<f>> \in Seq(S) /\ Len(<<f>>) = 1 /\ <<f>>[1] = f
  OBVIOUS
<1>4. /\ u \in Seq(S) /\ Len(u) = Len(s) - 1
      /\ \A i \in 1 .. Len(s) - 1 : u[i] = IF i <= 1 THEN <<f>>[i] ELSE r[i - 1]
  <2>1. /\ u \in Seq(S) /\ Len(u) = 1 + Len(r)
        /\ \A i \in 1 .. 1 + Len(r) : u[i] = IF i <= 1 THEN <<f>>[i] ELSE r[i - 1]
    BY <1>2, <1>3, ConcatProperties
  <2>2. 1 + Len(r) = Len(s) - 1
    BY <1>1, <1>2
  <2>3. QED
    BY <2>1, <2>2
<1>5. DOMAIN u = 1 .. Len(s) - 1
  BY <1>4, LenProperties
<1>6. u[1] = f
  BY <1>1, <1>3, <1>4
<1>7. ASSUME NEW i \in 2 .. Len(s) - 1 PROVE u[i] = s[i + 1]
  <2>1. i - 1 \in 1 .. Len(s) - 2 /\ (i - 1) + 2 = i + 1 /\ ~(i <= 1) /\ i \in 1 .. Len(s) - 1
    BY <1>1, <1>7
  <2>2. u[i] = r[i - 1] /\ r[i - 1] = s[(i - 1) + 2]
    BY <1>2, <1>4, <2>1
  <2>3. QED
    BY <2>1, <2>2
<1>8. QED
  BY <1>4, <1>5, <1>6, <1>7 DEF r

-----------------------------------------------------------------------------
(***************************************************************************)
(* Paths and audio                                                         *)
(***************************************************************************)
\* The path of an edit is the components from some k on: those below it are reached.
LEMMA PathFrom ==
    ASSUME NEW k \in Comp
    PROVE  /\ Path(k) # <<>> /\ Head(Path(k)) = k /\ Len(Path(k)) = Height - k + 1
           /\ DOMAIN Path(k) = 1 .. Height - k + 1
           /\ \A i \in 1 .. Height - k + 1 : Path(k)[i] = k + i - 1
           /\ k < Height => Tail(Path(k)) = Path(k + 1)
<1>1. Height \in Nat \ {0} /\ k \in Nat \ {0} /\ k <= Height
  BY HeightAssumption DEF Comp
<1>2. DOMAIN Path(k) = 1 .. Height - k + 1
      /\ \A i \in 1 .. Height - k + 1 : Path(k)[i] = k + i - 1
  BY DEF Path
<1>3. Path(k) \in Seq(Nat) /\ Len(Path(k)) = Height - k + 1
  <2>1. Height - k + 1 \in Nat /\ \A i \in 1 .. Height - k + 1 : k + i - 1 \in Nat
    BY <1>1
  <2>2. QED
    BY <2>1, IsASeq DEF Path
<1>4. Path(k) # <<>> /\ Head(Path(k)) = k
  <2>1. Path(k) # <<>>
    BY <1>1, <1>3
  <2>2. Head(Path(k)) = Path(k)[1]
    BY <1>3, <2>1, TailOf
  <2>3. QED
    BY <1>1, <1>2, <2>1, <2>2
<1>5. ASSUME k < Height PROVE Tail(Path(k)) = Path(k + 1)
  <2>1. /\ Tail(Path(k)) \in Seq(Nat) /\ Len(Tail(Path(k))) = Height - k
        /\ \A i \in 1 .. Height - k : Tail(Path(k))[i] = Path(k)[i + 1]
    <3>1. /\ Tail(Path(k)) \in Seq(Nat) /\ Len(Tail(Path(k))) = Len(Path(k)) - 1
          /\ \A i \in 1 .. Len(Path(k)) - 1 : Tail(Path(k))[i] = Path(k)[i + 1]
      BY <1>3, <1>4, TailOf
    <3>2. Len(Path(k)) - 1 = Height - k
      BY <1>1, <1>3
    <3>3. QED
      BY <3>1, <3>2
  <2>2. \A i \in 1 .. Height - k : Tail(Path(k))[i] = k + i
    <3>1. \A i \in 1 .. Height - k : i + 1 \in 1 .. Height - k + 1 /\ k + (i + 1) - 1 = k + i
      BY <1>1
    <3>2. QED
      BY <1>2, <2>1, <3>1
  <2>3. Height - (k + 1) + 1 = Height - k /\ \A i \in 1 .. Height - k : k + 1 + i - 1 = k + i
    BY <1>1
  <2>4. Path(k + 1) = [i \in 1 .. Height - k |-> k + i]
    BY <2>3 DEF Path
  <2>5. Tail(Path(k)) = [i \in 1 .. Height - k |-> Tail(Path(k))[i]]
    BY <2>1, LenProperties
  <2>6. QED
    BY <2>2, <2>4, <2>5
<1>6. QED
  BY <1>2, <1>3, <1>4, <1>5

\* What no edit is to reach any more, none is to reach upstream of it either.
LEMMA StableUpstream ==
    ASSUME NEW c \in Comp, NEW d \in Comp, d <= c, NEW p, Stable(c, p)
    PROVE  Stable(d, p)
<1>1. c \in Int /\ d \in Int /\ \A e \in 1 .. d : e \in 1 .. c
  BY HeightAssumption DEF Comp
<1>2. QED
  BY <1>1 DEF Stable

LEMMA FreshAppends ==
    ASSUME model \in [Comp -> [Page -> Version]], NEW c \in Comp, NEW p \in Page
    PROVE  /\ Fresh(c, p) \in Seq(Version) /\ Len(Fresh(c, p)) = c
           /\ Append(Fresh(c - 1, p), model[c][p]) = Fresh(c, p)
<1>1. Height \in Nat \ {0} /\ c \in Nat \ {0} /\ c <= Height /\ c - 1 \in Nat
  BY HeightAssumption DEF Comp
<1>2. \A i \in 1 .. c : i \in Comp /\ model[i][p] \in Version
  BY <1>1 DEF Comp
<1>3. Fresh(c, p) \in Seq(Version) /\ Len(Fresh(c, p)) = c
  BY <1>1, <1>2, IsASeq DEF Fresh
<1>4. Fresh(c - 1, p) \in Seq(Version) /\ Len(Fresh(c - 1, p)) = c - 1
  <2>1. \A i \in 1 .. c - 1 : model[i][p] \in Version
    BY <1>1, <1>2
  <2>2. QED
    BY <1>1, <2>1, IsASeq DEF Fresh
<1> DEFINE u == Append(Fresh(c - 1, p), model[c][p])
<1>5. /\ u \in Seq(Version) /\ Len(u) = c
      /\ \A i \in 1 .. c - 1 : u[i] = Fresh(c - 1, p)[i]
      /\ u[c] = model[c][p]
  <2>1. model[c][p] \in Version
    BY <1>1, <1>2
  <2>2. /\ u \in Seq(Version) /\ Len(u) = (c - 1) + 1
        /\ \A i \in 1 .. c - 1 : u[i] = Fresh(c - 1, p)[i]
        /\ u[(c - 1) + 1] = model[c][p]
    BY <1>4, <2>1, AppendProperties
  <2>3. (c - 1) + 1 = c
    BY <1>1
  <2>4. QED
    BY <2>2, <2>3
<1>6. ASSUME NEW i \in 1 .. c PROVE u[i] = Fresh(c, p)[i]
  <2>1. Fresh(c, p)[i] = model[i][p]
    BY DEF Fresh
  <2>2. CASE i = c
    BY <1>5, <2>1, <2>2
  <2>3. CASE i # c
    <3>1. i \in 1 .. c - 1
      BY <1>1, <2>3
    <3>2. Fresh(c - 1, p)[i] = model[i][p]
      BY <3>1 DEF Fresh
    <3>3. QED
      BY <1>5, <2>1, <3>1, <3>2
  <2>4. QED
    BY <2>2, <2>3
<1> HIDE DEF u
<1>7. u = Fresh(c, p)
  BY <1>3, <1>5, <1>6, SeqEqual
<1>8. QED
  BY <1>3, <1>7 DEF u

LEMMA FreshExtends ==
    ASSUME Types, NEW c \in Comp, NEW p \in Page
    PROVE  /\ Fresh(c, p) \in Seq(Version) /\ Len(Fresh(c, p)) = c
           /\ Append(Fresh(c - 1, p), model[c][p]) = Fresh(c, p)
BY FreshAppends DEF Types

LEMMA NothingUpstream ==
    ASSUME NEW p
    PROVE  Fresh(0, p) = <<>>
<1>1. Fresh(0, p) \in Seq({0}) /\ Len(Fresh(0, p)) = 0
  BY IsASeq DEF Fresh
<1>2. QED
  BY <1>1, EmptySeq

-----------------------------------------------------------------------------
(***************************************************************************)
(* The initial state, and steps that touch no page and no call             *)
(***************************************************************************)
LEMMA InitSound ==
    ASSUME PullersOnly, Init
    PROVE  IInv
<1>1. <<>> \in Seq(Version) /\ <<>> \in Seq(Frame)
  BY EmptySeq
<1>2. 0 \in Version
  BY BoundAssumption DEF Version
<1>3. /\ model \in [Comp -> [Page -> Version]] /\ settled \in [Comp -> [Page -> Version]]
      /\ edits \in Version /\ edit = NoEdit /\ late = {} /\ epoch \in [Comp -> Nat \ {0}]
      /\ slipped = {}
      /\ cursor \in [Comp -> Thread \cup {Nobody}]
  BY <1>2 DEF Init
<1>4. cache \in [Comp -> [Page -> Cached]]
  BY <1>1 DEF Init, Cached, NoPage
<1>5. hint \in [Comp -> Hinted]
  BY <1>1 DEF Init, Hinted
<1>6. inflight \in [Comp -> [Page -> [epoch : Nat, owner : Thread \cup {Nobody}]]]
  BY DEF Init, NoEntry
<1>7. Idle \in PullState
  <2>1. 0 \in 0 .. Height
    BY HeightAssumption
  <2>2. QED
    BY <1>1, <2>1 DEF Idle, PullState, PullPc, Quiet
<1>8. thread \in [Thread -> PullState] /\ stack \in [Thread -> Seq(Frame)]
  BY <1>1, <1>7 DEF Init
<1>9. Types
  BY <1>3, <1>4, <1>5, <1>6, <1>8 DEF Types
<1>10. \A t \in Thread : stack[t] = <<>> /\ DOMAIN stack[t] = {} /\ thread[t].pc = "idle"
  BY DEF Init, Idle
<1>11. \A c \in Comp, p \in Page : cache[c][p] = NoPage /\ inflight[c][p] = NoEntry
  BY DEF Init
<1>12. \A c \in Comp : hint[c].page \notin Page
  BY NobodyAssumption DEF Init
<1>13. \A c \in Comp, t \in Thread : cursor[c] # t
  BY NobodyAssumption DEF Init, Thread
<1>14. CacheSound /\ HintSound /\ InflightSound /\ CacheFresh /\ HintFresh
  BY <1>11, <1>12 DEF CacheSound, HintSound, InflightSound, CacheFresh, HintFresh, ReadsCurrent, NoPage
<1>15. ThreadSound /\ StackSound /\ CursorSound /\ FrameFresh
  BY <1>10, <1>13 DEF ThreadSound, StackSound, CursorSound, FrameFresh
<1>16. QED
  BY <1>9, <1>14, <1>15 DEF IInv, Sound

\* What the audio rests on: steps that leave it alone keep everything said of it.
LEMMA AudioUntouched ==
    ASSUME IInv, UNCHANGED <<model, edit, late, epoch, cache, cursor, hint, stack>>,
           \A t \in Thread : stack[t] # <<>> => thread'[t].page = thread[t].page
    PROVE  /\ CacheSound' /\ HintSound' /\ StackSound' /\ CursorSound'
           /\ CacheFresh' /\ HintFresh' /\ FrameFresh'
<1>1. CacheSound' /\ HintSound' /\ CursorSound' /\ CacheFresh' /\ HintFresh'
  BY DEF IInv, Sound, CacheSound, HintSound, CursorSound, CacheFresh, HintFresh, Stable, Reached, Touched,
         ReadsCurrent, Fresh
<1>2. StackSound'
  BY DEF IInv, Sound, StackSound, FrameOK
<1>3. ASSUME NEW t \in Thread, NEW i \in DOMAIN stack[t], LiveFrom(t, i)'
      PROVE  Holding(stack[t][i], thread[t].page)'
  <2>1. thread'[t].page = thread[t].page
    <3>1. stack[t] # <<>>
      BY <1>3, EmptySeq
    <3>2. QED
      BY <3>1
  <2>2. LiveFrom(t, i)
    BY <1>3, <2>1 DEF LiveFrom, Live, Stable, Reached, Touched
  <2>3. Holding(stack[t][i], thread[t].page)
    BY <2>2 DEF IInv, FrameFresh
  <2>4. QED
    BY <2>1, <2>3 DEF Holding, Fresh
<1>4. FrameFresh'
  BY <1>3 DEF FrameFresh
<1>5. QED
  BY <1>1, <1>2, <1>4

\* Without planned renders every thread is a puller, and binds no input.
LEMMA OnlyPullers ==
    ASSUME IInv, NEW t \in Thread
    PROVE  /\ t \in Puller /\ t # Nobody
           /\ thread[t] \in PullState /\ thread[t].bound = <<>> /\ stack[t] \in Seq(Frame)
           /\ ~RunNode(t) /\ ~PullBound(t)
<1>1. t \in Puller /\ t \notin Worker /\ t # Nobody
  BY NobodyAssumption DEF IInv, PullersOnly, Thread
<1>2. thread[t] \in PullState /\ thread[t].bound = <<>> /\ stack[t] \in Seq(Frame)
  BY DEF IInv, Sound, Types, PullState
<1>3. thread[t].pc \in PullPc
  BY <1>2 DEF PullState
<1>4. \A p \in Page : ~Demand(t, p)
  BY <1>1 DEF Demand
<1>5. /\ ~Plan(t) /\ ~NodeFreeze(t) /\ ~VerifyInput(t) /\ ~RetryBind(t) /\ ~RetryCheck(t)
      /\ ~RetryDrop(t) /\ ~RetryFreeze(t) /\ ~SelfTest(t) /\ ~SelfProbe(t) /\ ~SelfRestale(t)
      /\ ~Complete(t)
  BY <1>3 DEF PullPc, At, Plan, NodeFreeze, VerifyInput, RetryBind, RetryCheck, RetryDrop,
              RetryFreeze, SelfTest, SelfProbe, SelfRestale, Complete
<1>6. QED
  BY <1>1, <1>2, <1>4, <1>5 DEF RunNode, PullBound

\* The fields of threads that change are those of threads outside of any freezePage.
LEMMA ThreadsOnly ==
    ASSUME IInv, UNCHANGED <<editing, caching, cursor, hint, inflight, stack, slipped>>,
           thread' \in [Thread -> PullState],
           \A t \in Thread : \/ thread'[t] = thread[t]
                             \/ /\ stack[t] = <<>>
                                /\ thread'[t].pc # "idle" =>
                                       /\ thread'[t].page \in Page /\ thread'[t].comp \in Comp
                                       /\ thread'[t].epoch \in 1 .. epoch[thread'[t].comp]
    PROVE  IInv'
<1>1. Types'
  BY DEF IInv, Sound, Types, editing, caching
<1>2. InflightSound'
  BY DEF IInv, Sound, InflightSound, caching
<1>3. ThreadSound'
  BY DEF IInv, Sound, ThreadSound, caching
<1>4. \A t \in Thread : stack[t] # <<>> => thread'[t].page = thread[t].page
  OBVIOUS
<1>5. UNCHANGED <<model, edit, late, epoch, cache, cursor, hint, stack>>
  BY DEF editing, caching
<1>6. QED
  BY <1>1, <1>2, <1>3, <1>4, <1>5, AudioUntouched DEF IInv, Sound

LEMMA RequestKeeps ==
    ASSUME IInv, NEW t \in Thread,
           \/ \E p \in Page : Request(t, p)
           \/ RequestFast(t) \/ RequestAttach(t) \/ RequestDeliver(t) \/ Answer(t)
    PROVE  IInv'
<1>1. t \in Puller /\ AfterRequest(t) = "answer"
  BY OnlyPullers DEF AfterRequest
<1>2. Types /\ ThreadSound /\ InflightSound /\ thread \in [Thread -> PullState]
  BY DEF IInv, Sound, Types
<1>3. CASE \E p \in Page : Request(t, p)
  <2>1. PICK p \in Page : Request(t, p)
    BY <1>3
  <2>2. Height \in Comp /\ Height \in 0 .. Height /\ epoch[Height] \in Nat \ {0}
    BY <1>2, HeightAssumption DEF Types, Comp
  <2> DEFINE since == [c \in Comp |-> settled[c][p]]
             next  == [thread[t] EXCEPT !.pc = "fast", !.page = p, !.comp = Height,
                                        !.epoch = epoch[Height], !.since = since]
  <2>3. since \in [Comp -> Version] /\ thread[t] \in PullState
    BY <1>2 DEF Types
  <2>4. thread' = [thread EXCEPT ![t] = next] /\ stack[t] = <<>>
        /\ UNCHANGED <<editing, caching, cursor, hint, inflight, stack, slipped>>
    BY <2>1 DEF Request, At
  <2> HIDE DEF since
  <2>5. next \in PullState /\ next.page \in Page /\ next.comp \in Comp
        /\ next.epoch \in 1 .. epoch[next.comp]
    <3>1. epoch[Height] \in Nat /\ epoch[Height] \in 1 .. epoch[Height]
      BY <2>2
    <3>2. QED
      BY <2>2, <2>3, <3>1 DEF PullState, PullPc
  <2> HIDE DEF next
  <2>6. thread' \in [Thread -> PullState] /\ thread'[t] = next
        /\ \A u \in Thread : u # t => thread'[u] = thread[u]
    BY <1>2, <2>4, <2>5
  <2>7. QED
    BY <2>4, <2>5, <2>6, ThreadsOnly
<1>4. CASE RequestFast(t) \/ RequestAttach(t) \/ Answer(t)
  <2>1. /\ UNCHANGED <<editing, caching, cursor, hint, inflight, stack, slipped>>
        /\ stack[t] = <<>> /\ thread[t].pc # "idle"
    BY <1>4 DEF RequestFast, RequestAttach, Answer, At
  <2>2. /\ thread[t].page \in Page /\ thread[t].comp \in Comp
        /\ thread[t].epoch \in 1 .. epoch[thread[t].comp]
    BY <1>2, <2>1 DEF ThreadSound
  <2>3. PICK next : /\ thread' = [thread EXCEPT ![t] = next]
                    /\ next \in PullState
                    /\ next.pc # "idle" => /\ next.page = thread[t].page
                                           /\ next.comp = thread[t].comp
                                           /\ next.epoch = thread[t].epoch
    <3>1. CASE RequestFast(t)
      <4>1. cache[thread[t].comp][thread[t].page].shows \in Seq(Version)
        BY <1>2, <2>2 DEF Types, Cached
      <4>2. CASE thread' = [thread EXCEPT ![t].pc = AfterRequest(t),
                            ![t].got = cache[thread[t].comp][thread[t].page].shows]
        <5> DEFINE next == [thread[t] EXCEPT !.pc = "answer",
                            !.got = cache[thread[t].comp][thread[t].page].shows]
        <5>1. thread' = [thread EXCEPT ![t] = next]
          BY <1>1, <1>2, <4>2
        <5>2. next \in PullState /\ next.page = thread[t].page /\ next.comp = thread[t].comp
              /\ next.epoch = thread[t].epoch
          BY <1>2, <4>1, ZenonT(30) DEF PullState, PullPc
        <5> HIDE DEF next
        <5>3. QED
          BY <5>1, <5>2
      <4>3. CASE thread' = [thread EXCEPT ![t].pc = "claim"]
        <5> DEFINE next == [thread[t] EXCEPT !.pc = "claim"]
        <5>1. thread' = [thread EXCEPT ![t] = next]
          BY <1>2, <4>3
        <5>2. next \in PullState /\ next.page = thread[t].page /\ next.comp = thread[t].comp
              /\ next.epoch = thread[t].epoch
          BY <1>2, SMTT(20) DEF PullState, PullPc
        <5> HIDE DEF next
        <5>3. QED
          BY <5>1, <5>2
      <4>4. QED
        BY <3>1, <4>2, <4>3 DEF RequestFast
    <3>2. CASE RequestAttach(t)
      <4> DEFINE owner == inflight[thread[t].comp][thread[t].page].owner
                 next  == [thread[t] EXCEPT !.pc = "wait", !.waits = owner]
      <4>1. owner \in Thread \cup {Nobody}
        BY <1>2, <2>2 DEF Types
      <4>2. thread' = [thread EXCEPT ![t] = next]
        BY <1>2, <3>2 DEF RequestAttach
      <4> HIDE DEF owner
      <4>3. next \in PullState /\ next.page = thread[t].page /\ next.comp = thread[t].comp
            /\ next.epoch = thread[t].epoch
        BY <1>2, <4>1, ZenonT(30) DEF PullState, PullPc
      <4> HIDE DEF next
      <4>4. QED
        BY <4>2, <4>3
    <3>3. CASE Answer(t)
      <4>1. Idle \in PullState /\ Idle.pc = "idle"
        <5>1. 0 \in 0 .. Height /\ <<>> \in Seq(Version)
          BY HeightAssumption, EmptySeq
        <5>2. QED
          BY <5>1 DEF Idle, PullState, PullPc, Quiet
      <4>2. QED
        BY <3>3, <4>1 DEF Answer
    <3>4. QED
      BY <1>4, <3>1, <3>2, <3>3
  <2>4. thread' \in [Thread -> PullState] /\ thread'[t] = next
        /\ \A u \in Thread : u # t => thread'[u] = thread[u]
    BY <1>2, <2>3
  <2>5. QED
    BY <2>1, <2>2, <2>3, <2>4, ThreadsOnly
<1>5. CASE RequestDeliver(t)
  <2>1. /\ UNCHANGED <<editing, caching, cursor, hint, inflight, stack, slipped>>
        /\ stack[t] = <<>> /\ thread[t].pc = "deliver"
    BY <1>5 DEF RequestDeliver, At
  <2>2. \A u \in Thread : AfterRequest(u) = "answer"
    BY OnlyPullers DEF AfterRequest
  <2>3. ASSUME NEW u \in Thread
        PROVE  /\ thread'[u] \in PullState
               /\ \/ thread'[u] = thread[u]
                  \/ /\ stack[u] = <<>> /\ thread[u].pc # "idle"
                     /\ thread'[u].page = thread[u].page /\ thread'[u].comp = thread[u].comp
                     /\ thread'[u].epoch = thread[u].epoch
    <3>1. thread'[u] = CASE u = t -> [thread[u] EXCEPT !.pc = "answer"]
              [] thread[u].pc = "wait" /\ thread[u].waits = t ->
                     [thread[u] EXCEPT !.pc = "answer", !.waits = Nobody,
                                       !.got = thread[t].got]
              [] OTHER -> thread[u]
      BY <1>5, <2>2 DEF RequestDeliver
    <3>2. thread[u].pc = "wait" => stack[u] = <<>>
      BY <1>2 DEF ThreadSound
    <3>3. thread[u] \in PullState /\ thread[t].got \in Seq(Version)
      BY <1>2 DEF PullState
    <3>4. CASE u = t
      <4>1. thread[u].pc = "deliver" /\ stack[u] = <<>>
        BY <2>1, <3>4
      <4>2. thread'[u] = [thread[u] EXCEPT !.pc = "answer"]
        BY <3>1, <3>4, <4>1
      <4>3. QED
        BY <3>3, <4>1, <4>2 DEF PullState, PullPc
    <3>5. CASE u # t /\ thread[u].pc = "wait" /\ thread[u].waits = t
      <4>1. thread'[u] = [thread[u] EXCEPT !.pc = "answer", !.waits = Nobody,
                                           !.got = thread[t].got]
        BY <3>1, <3>5
      <4>2. thread[u].pc = "wait" /\ stack[u] = <<>>
        BY <3>2, <3>5
      <4>3. QED
        BY <3>3, <4>1, <4>2 DEF PullState, PullPc
    <3>6. CASE u # t /\ ~(thread[u].pc = "wait" /\ thread[u].waits = t)
      BY <3>1, <3>3, <3>6
    <3>7. QED
      BY <3>4, <3>5, <3>6
  <2>4. thread' \in [Thread -> PullState]
    BY <1>5, <2>3 DEF RequestDeliver
  <2>5. \A u \in Thread : thread[u].pc # "idle" => /\ thread[u].page \in Page
            /\ thread[u].comp \in Comp /\ thread[u].epoch \in 1 .. epoch[thread[u].comp]
    BY <1>2 DEF ThreadSound
  <2>6. QED
    BY <2>1, <2>3, <2>4, <2>5, ThreadsOnly
<1>6. QED
  BY <1>3, <1>4, <1>5

LEMMA EraseKeeps ==
    ASSUME IInv, NEW t \in Thread, RequestErase(t)
    PROVE  IInv'
<1>1. Types /\ ThreadSound /\ InflightSound /\ thread \in [Thread -> PullState]
  BY DEF IInv, Sound, Types
<1>2. /\ UNCHANGED <<editing, caching, cursor, hint, stack, slipped>>
      /\ stack[t] = <<>> /\ thread[t].pc = "erase" /\ thread' = [thread EXCEPT ![t].pc = "deliver"]
  BY DEF RequestErase, At, Goto
<1>3. inflight' \in [Comp -> [Page -> [epoch : Nat, owner : Thread \cup {Nobody}]]]
      /\ \A c \in Comp, p \in Page : inflight'[c][p] = inflight[c][p] \/ inflight'[c][p] = NoEntry
  <2>1. thread[t].page \in Page /\ thread[t].comp \in Comp
    BY <1>1, <1>2 DEF ThreadSound
  <2>2. NoEntry \in [epoch : Nat, owner : Thread \cup {Nobody}]
    BY DEF NoEntry
  <2>3. \/ inflight' = inflight
        \/ inflight' = [inflight EXCEPT ![thread[t].comp][thread[t].page] = NoEntry]
    BY DEF RequestErase
  <2> DEFINE Entry == [epoch : Nat, owner : Thread \cup {Nobody}]
             row == [inflight[thread[t].comp] EXCEPT ![thread[t].page] = NoEntry]
  <2>4. inflight \in [Comp -> [Page -> Entry]]
    BY <1>1 DEF Types
  <2> HIDE DEF Entry
  <2>5. row \in [Page -> Entry]
        /\ \A p \in Page : row[p] = inflight[thread[t].comp][p] \/ row[p] = NoEntry
    BY <2>1, <2>2, <2>4 DEF Entry
  <2>6. inflight' = inflight \/ inflight' = [inflight EXCEPT ![thread[t].comp] = row]
    BY <2>3
  <2> HIDE DEF row
  <2>7. QED
    BY <2>1, <2>4, <2>5, <2>6 DEF Entry
<1>4. thread' \in [Thread -> PullState]
      /\ \A u \in Thread : /\ thread'[u].page = thread[u].page /\ thread'[u].comp = thread[u].comp
                           /\ thread'[u].epoch = thread[u].epoch
                           /\ u # t => thread'[u] = thread[u]
                           /\ u = t => thread'[u].pc = "deliver"
  BY <1>1, <1>2 DEF PullState, PullPc
<1>5. Types'
  BY <1>1, <1>2, <1>3, <1>4 DEF Types, editing, caching
<1>6. InflightSound'
  BY <1>1, <1>2, <1>3 DEF InflightSound, caching
<1>7. ThreadSound'
  BY <1>1, <1>2, <1>4 DEF ThreadSound, caching
<1>8. UNCHANGED <<model, edit, late, epoch, cache, cursor, hint, stack>>
  BY <1>2 DEF editing, caching
<1>9. QED
  BY <1>4, <1>5, <1>6, <1>7, <1>8, AudioUntouched DEF IInv, Sound

LEMMA ClaimKeeps ==
    ASSUME IInv, NEW t \in Thread, RequestClaim(t)
    PROVE  IInv'
<1> DEFINE c == thread[t].comp
           p == thread[t].page
           entry == [epoch |-> thread[t].epoch, owner |-> t]
<1>1. /\ Types /\ CacheSound /\ HintSound /\ InflightSound /\ ThreadSound /\ StackSound /\ CursorSound
      /\ CacheFresh /\ HintFresh /\ FrameFresh /\ PullersOnly
      /\ thread \in [Thread -> PullState]
  BY DEF IInv, Sound, Types
<1>2. /\ UNCHANGED <<model, settled, late, edit, edits, epoch, cache, cursor, hint, slipped>>
      /\ stack[t] = <<>> /\ thread[t].pc = "claim"
      /\ thread' = [thread EXCEPT ![t].pc = "rendering"]
      /\ inflight' = [inflight EXCEPT ![c][p] = entry]
      /\ stack' = [stack EXCEPT ![t] = <<Call(c)>>]
  BY DEF RequestClaim, At, Goto, editing, caching
<1>3. c \in Comp /\ p \in Page /\ thread[t].epoch \in 1 .. epoch[c]
  BY <1>1, <1>2 DEF ThreadSound
<1>4. inflight' \in [Comp -> [Page -> [epoch : Nat, owner : Thread \cup {Nobody}]]]
      /\ \A d \in Comp, q \in Page : inflight'[d][q] = inflight[d][q] \/ (d = c /\ inflight'[d][q] = entry)
  <2> DEFINE Entry == [epoch : Nat, owner : Thread \cup {Nobody}]
             row == [inflight[c] EXCEPT ![p] = entry]
  <2>1. inflight \in [Comp -> [Page -> Entry]]
    BY <1>1 DEF Types
  <2>2. entry \in Entry
    BY <1>1, <1>3 DEF Types
  <2>3. inflight' = [inflight EXCEPT ![c] = row]
    BY <1>2
  <2> HIDE DEF Entry, entry, c, p
  <2>4. row \in [Page -> Entry] /\ \A q \in Page : row[q] = inflight[c][q] \/ row[q] = entry
    BY <1>3, <2>1, <2>2
  <2> HIDE DEF row
  <2>5. inflight' \in [Comp -> [Page -> Entry]]
    BY <1>3, <2>1, <2>3, <2>4
  <2>6. \A d \in Comp, q \in Page : inflight'[d][q] = inflight[d][q] \/ (d = c /\ inflight'[d][q] = entry)
    BY <1>3, <2>1, <2>3, <2>4
  <2>7. QED
    BY <2>5, <2>6 DEF Entry
<1>5. thread' \in [Thread -> PullState]
      /\ \A u \in Thread : /\ thread'[u].page = thread[u].page /\ thread'[u].comp = thread[u].comp
                           /\ thread'[u].epoch = thread[u].epoch
                           /\ u # t => thread'[u] = thread[u]
                           /\ u = t => thread'[u].pc = "rendering"
  <2> DEFINE next == [thread[t] EXCEPT !.pc = "rendering"]
  <2>1. thread[t] \in PullState
    BY <1>1
  <2>2. /\ next \in PullState /\ next.page = thread[t].page /\ next.comp = thread[t].comp
        /\ next.epoch = thread[t].epoch /\ next.pc = "rendering"
    BY <2>1, ZenonT(30) DEF PullState, PullPc
  <2>3. thread' = [thread EXCEPT ![t] = next]
    BY <1>1, <1>2
  <2> HIDE DEF next
  <2>4. QED
    BY <1>1, <2>2, <2>3
<1>6. Call(c) \in Frame /\ Call(c).at = "enter" /\ Call(c).comp = c
      /\ Call(c).epoch = 0 /\ Call(c).input = <<>>
  <2>1. 0 \in Version /\ <<>> \in Seq(Version)
    BY BoundAssumption, EmptySeq DEF Version
  <2>2. QED
    BY <1>3, <2>1 DEF Call, Frame
<1>7. /\ stack' \in [Thread -> Seq(Frame)]
      /\ \A u \in Thread : u # t => stack'[u] = stack[u]
      /\ DOMAIN stack'[t] = {1} /\ stack'[t][1] = Call(c) /\ stack'[t] # <<>>
  <2> HIDE DEF c
  <2>1. <<Call(c)>> \in Seq(Frame) /\ DOMAIN <<Call(c)>> = {1} /\ <<Call(c)>>[1] = Call(c)
        /\ <<Call(c)>> # <<>>
    BY <1>6
  <2>2. stack'[t] = <<Call(c)>>
    BY <1>1, <1>2 DEF Types
  <2>3. QED
    BY <1>1, <1>2, <2>1, <2>2 DEF Types
<1>8. \A d \in Comp : cursor[d] # t
  <2>1. DOMAIN stack[t] = {}
    BY <1>2
  <2>2. QED
    BY <1>1, <2>1 DEF CursorSound
<1> HIDE DEF c, p, entry
<1>9. Types'
  BY <1>1, <1>2, <1>4, <1>5, <1>7 DEF Types
<1>10. CacheSound' /\ HintSound' /\ CacheFresh' /\ HintFresh'
  BY <1>1, <1>2 DEF CacheSound, HintSound, CacheFresh, HintFresh, Stable, Reached, Touched, ReadsCurrent, Fresh
<1>11. InflightSound'
  <2>1. entry.epoch \in 1 .. epoch[c] /\ entry.owner \in Thread
    BY <1>3 DEF entry
  <2>2. QED
    BY <1>1, <1>2, <1>4, <2>1 DEF InflightSound
<1>12. ThreadSound'
  BY <1>1, <1>2, <1>5, <1>7 DEF ThreadSound
<1>13. StackSound'
  <2>1. ASSUME NEW u \in Thread, u # t, NEW i \in DOMAIN stack[u] PROVE FrameOK(u, i)'
    BY <1>1, <1>2, <1>7, <2>1 DEF StackSound, FrameOK
  <2>2. FrameOK(t, 1)'
    <3>1. epoch[c] \in Nat /\ c \in Int
      BY <1>1, <1>3, HeightAssumption DEF Types, Comp
    <3>2. QED
      BY <1>2, <1>3, <1>6, <1>7, <1>8, <3>1 DEF FrameOK
  <2>3. QED
    BY <1>7, <2>1, <2>2 DEF StackSound
<1>14. CursorSound'
  BY <1>1, <1>2, <1>7, <1>8 DEF CursorSound
<1>15. FrameFresh'
  <2>1. ASSUME NEW u \in Thread, u # t, NEW i \in DOMAIN stack[u], LiveFrom(u, i)'
        PROVE  Holding(stack[u][i], thread[u].page)'
    <3>1. LiveFrom(u, i)
      BY <1>2, <1>5, <1>7, <2>1 DEF LiveFrom, Live, Stable, Reached, Touched
    <3>2. Holding(stack[u][i], thread[u].page)
      BY <1>1, <2>1, <3>1 DEF FrameFresh
    <3>3. QED
      BY <1>2, <1>5, <1>7, <2>1, <3>2 DEF Holding, Fresh
  <2>2. Holding(stack[t][1], thread[t].page)'
    BY <1>6, <1>7 DEF Holding
  <2>3. QED
    BY <1>7, <2>1, <2>2 DEF FrameFresh
<1>16. QED
  BY <1>1, <1>9, <1>10, <1>11, <1>12, <1>13, <1>14, <1>15 DEF IInv, Sound

-----------------------------------------------------------------------------
(***************************************************************************)
(* The main thread                                                         *)
(***************************************************************************)
\* An edit changes one component's setting, and what is quiet about threads.
LEMMA ModelEdited ==
    ASSUME model \in [Comp -> [Page -> Version]], edits \in Version,
           NEW k \in Comp, NEW range \in Ranges, NEW whole \in BOOLEAN,
           NEW walk \in Walks[k], EditBegin(k, range, whole, walk)
    PROVE  /\ model' \in [Comp -> [Page -> Version]] /\ edits + 1 \in Version
           /\ \A d \in Comp, p \in Page : d # k \/ p \notin range => model'[d][p] = model[d][p]
           /\ \A d \in Comp, p \in Page : model'[d][p] = model[d][p] \/ model'[d][p] = edits + 1
<1>1. /\ edits < MaxEdits
      /\ model' = [model EXCEPT ![k] = [p \in Page |-> IF p \in range THEN edits + 1 ELSE @[p]]]
  BY DEF EditBegin
<1>2. edits + 1 \in Version
  BY <1>1, BoundAssumption DEF Version
<1>3. /\ model' \in [Comp -> [Page -> Version]]
      /\ \A d \in Comp, p \in Page : d # k \/ p \notin range => model'[d][p] = model[d][p]
      /\ \A d \in Comp, p \in Page : model'[d][p] = model[d][p] \/ model'[d][p] = edits + 1
  <2> DEFINE row == [p \in Page |-> IF p \in range THEN edits + 1 ELSE model[k][p]]
  <2>1. /\ row \in [Page -> Version] /\ \A p \in Page : p \notin range => row[p] = model[k][p]
        /\ \A p \in Page : row[p] = model[k][p] \/ row[p] = edits + 1
    BY <1>2
  <2>2. model' = [model EXCEPT ![k] = row]
    BY <1>1
  <2> HIDE DEF row
  <2>3. model' \in [Comp -> [Page -> Version]] /\ model'[k] = row
        /\ \A d \in Comp : d # k => model'[d] = model[d]
    BY <2>1, <2>2
  <2>4. ASSUME NEW d \in Comp, NEW p \in Page
        PROVE  /\ d # k \/ p \notin range => model'[d][p] = model[d][p]
               /\ model'[d][p] = model[d][p] \/ model'[d][p] = edits + 1
    <3>1. CASE d = k
      BY <2>1, <2>3, <3>1
    <3>2. CASE d # k
      BY <2>3, <3>2
    <3>3. QED
      BY <3>1, <3>2
  <2>5. QED
    BY <2>3, <2>4
<1>4. QED
  BY <1>2, <1>3

LEMMA EditBegun ==
    ASSUME IInv, NEW k \in Comp, NEW range \in Ranges, NEW whole \in BOOLEAN,
           NEW walk \in Walks[k], EditBegin(k, range, whole, walk)
    PROVE  /\ model' \in [Comp -> [Page -> Version]] /\ edits + 1 \in Version
           /\ \A d \in Comp, p \in Page : d # k \/ p \notin range => model'[d][p] = model[d][p]
           /\ \A d \in Comp, p \in Page : model'[d][p] = model[d][p] \/ model'[d][p] = edits + 1
           /\ thread' \in [Thread -> PullState]
           /\ \A t \in Thread :
                  /\ thread'[t].page = thread[t].page /\ thread'[t].comp = thread[t].comp
                  /\ thread'[t].epoch = thread[t].epoch /\ thread'[t].pc = thread[t].pc
                  /\ thread'[t].since = thread[t].since /\ thread'[t].waits = thread[t].waits
                  /\ thread'[t].got = thread[t].got
<1>1. /\ model \in [Comp -> [Page -> Version]] /\ thread \in [Thread -> PullState] /\ edits \in Version
  BY DEF IInv, Sound, Types
<1>2. /\ edit = NoEdit /\ edits < MaxEdits /\ edits' = edits + 1
      /\ thread' = Disturbed
      /\ model' = [model EXCEPT ![k] = [p \in Page |-> IF p \in range THEN edits + 1 ELSE @[p]]]
      /\ edit' = [path |-> walk, range |-> range, whole |-> whole]
      /\ UNCHANGED <<settled, late, epoch, cache, cursor, hint, inflight, stack, slipped>>
  BY DEF EditBegin, caching
<1>3. /\ model' \in [Comp -> [Page -> Version]] /\ edits + 1 \in Version
      /\ \A d \in Comp, p \in Page : d # k \/ p \notin range => model'[d][p] = model[d][p]
      /\ \A d \in Comp, p \in Page : model'[d][p] = model[d][p] \/ model'[d][p] = edits + 1
  BY <1>1, ModelEdited
<1>4. thread' \in [Thread -> PullState]
      /\ \A t \in Thread : /\ thread'[t].page = thread[t].page /\ thread'[t].comp = thread[t].comp
                           /\ thread'[t].epoch = thread[t].epoch /\ thread'[t].pc = thread[t].pc
                           /\ thread'[t].since = thread[t].since /\ thread'[t].waits = thread[t].waits
                           /\ thread'[t].got = thread[t].got
  <2>1. ASSUME NEW t \in Thread
        PROVE  /\ thread'[t] \in PullState
               /\ thread'[t].page = thread[t].page /\ thread'[t].comp = thread[t].comp
               /\ thread'[t].epoch = thread[t].epoch /\ thread'[t].pc = thread[t].pc
               /\ thread'[t].since = thread[t].since /\ thread'[t].waits = thread[t].waits
               /\ thread'[t].got = thread[t].got
    <3> PICK none \in Quiet : none = Idle.quiet
      BY DEF Idle, Quiet
    <3> DEFINE next == [thread[t] EXCEPT !.quiet = none]
    <3>1. thread[t] \in PullState
      BY <1>1
    <3>2. /\ next \in PullState /\ next.page = thread[t].page /\ next.comp = thread[t].comp
          /\ next.epoch = thread[t].epoch /\ next.pc = thread[t].pc
          /\ next.since = thread[t].since /\ next.waits = thread[t].waits
          /\ next.got = thread[t].got
      BY <3>1, ZenonT(30) DEF PullState
    <3>3. thread'[t] = next
      BY <1>2 DEF Disturbed
    <3> HIDE DEF next
    <3>4. QED
      BY <3>2, <3>3
  <2>2. thread' = [t \in Thread |-> thread'[t]]
    BY <1>2 DEF Disturbed
  <2>3. QED
    BY <2>1, <2>2
<1>5. QED
  BY <1>3, <1>4

\* An edit changes its component before any epoch moves; what it is still to reach is
\* excepted, what it is not to reach does not rest on what it changed.
LEMMA EditBeginKeeps ==
    ASSUME IInv, NEW k \in Comp, NEW range \in Ranges, NEW whole \in BOOLEAN,
           NEW walk \in Walks[k], EditBegin(k, range, whole, walk)
    PROVE  IInv'
<1>1. /\ Types /\ CacheSound /\ HintSound /\ InflightSound /\ ThreadSound /\ StackSound /\ CursorSound
      /\ CacheFresh /\ HintFresh /\ FrameFresh /\ PullersOnly
      /\ model \in [Comp -> [Page -> Version]] /\ thread \in [Thread -> PullState]
  BY DEF IInv, Sound, Types
<1>2. /\ edit = NoEdit /\ edits < MaxEdits /\ edits' = edits + 1
      /\ thread' = Disturbed
      /\ model' = [model EXCEPT ![k] = [p \in Page |-> IF p \in range THEN edits + 1 ELSE @[p]]]
      /\ edit' = [path |-> walk, range |-> range, whole |-> whole]
      /\ UNCHANGED <<settled, late, epoch, cache, cursor, hint, inflight, stack, slipped>>
  BY DEF EditBegin, caching
<1>3. edits + 1 \in Version
  BY EditBegun
<1>4. /\ model' \in [Comp -> [Page -> Version]]
      /\ \A d \in Comp, p \in Page : d # k \/ p \notin range => model'[d][p] = model[d][p]
  BY EditBegun
<1>5. thread' \in [Thread -> PullState]
      /\ \A t \in Thread : /\ thread'[t].page = thread[t].page /\ thread'[t].comp = thread[t].comp
                           /\ thread'[t].epoch = thread[t].epoch /\ thread'[t].pc = thread[t].pc
  BY EditBegun
<1>6. \A c \in Comp, p \in Page : Stable(c, p)' => c < k \/ p \notin range
  <2>1. PICK i \in DOMAIN walk : walk[i] = k
    BY WalksAssumption
  <2>2. ~Reached(k)'
    BY <1>2, <2>1 DEF Reached
  <2>3. \A p \in Page : p \in range => p \in Touched'
    BY <1>2 DEF Touched
  <2>4. \A c \in Comp : ~(c < k) => k \in 1 .. c
    BY HeightAssumption DEF Comp
  <2>5. QED
    BY <2>2, <2>3, <2>4 DEF Stable
<1>7. \A c \in Comp, p \in Page : Stable(c, p)' => Stable(c, p)
  BY <1>2 DEF Stable, Touched, NoEdit
<1>8. ASSUME NEW c \in Int, c <= Height, NEW p \in Page, c < k \/ p \notin range
      PROVE  Fresh(c, p)' = Fresh(c, p)
  <2>1. \A i \in 1 .. c : i \in Comp /\ (i # k \/ p \notin range)
    BY <1>8, HeightAssumption DEF Comp
  <2>2. QED
    BY <1>4, <2>1 DEF Fresh
<1>9. Types'
  <2>1. walk \in Seq(Comp) \ {<<>>}
    BY WalksAssumption, EmptySeq
  <2>2. EditShape'
    BY <1>2, <2>1 DEF EditShape
  <2>3. QED
    BY <1>1, <1>2, <1>3, <1>4, <1>5, <2>2 DEF Types, EditShape
<1>10. CacheSound' /\ HintSound' /\ InflightSound' /\ ThreadSound' /\ CursorSound'
  BY <1>1, <1>2, <1>5 DEF CacheSound, HintSound, InflightSound, ThreadSound, CursorSound
<1>11. StackSound'
  BY <1>1, <1>2 DEF StackSound, FrameOK
<1>12. CacheFresh'
  <2>1. \A c \in Comp : c \in Int /\ c <= Height
    BY HeightAssumption DEF Comp
  <2>2. ASSUME NEW c \in Comp, NEW p \in Page, Stable(c, p)', ReadsCurrent(c, p)'
        PROVE  cache'[c][p].shows = Fresh(c, p)'
    <3>1. cache[c][p].shows = Fresh(c, p)
      BY <1>1, <1>2, <1>7, <2>2 DEF CacheFresh, ReadsCurrent
    <3>2. QED
      BY <1>2, <1>6, <1>8, <2>1, <2>2, <3>1
  <2>3. QED
    BY <2>2 DEF CacheFresh
<1>13. HintFresh'
  <2>1. ASSUME NEW c \in Comp, hint[c].page \in Page, hint[c].observed = epoch[c - 1],
               Stable(c - 1, hint[c].page)'
        PROVE  hint[c].shows = Fresh(c - 1, hint[c].page)'
    <3>1. c - 1 \in Comp /\ c - 1 \in Int /\ c - 1 <= Height
      BY <1>1, <2>1, HeightAssumption DEF HintSound, Comp
    <3>2. hint[c].shows = Fresh(c - 1, hint[c].page)
      <4>1. Stable(c - 1, hint[c].page)
        BY <1>2, <2>1 DEF Stable, Touched, NoEdit
      <4>2. QED
        BY <1>1, <2>1, <3>1, <4>1 DEF HintFresh
    <3>3. Fresh(c - 1, hint[c].page)' = Fresh(c - 1, hint[c].page)
      BY <1>2, <1>6, <1>8, <2>1, <3>1
    <3>4. QED
      BY <3>2, <3>3
  <2>2. QED
    BY <1>2, <2>1 DEF HintFresh
<1>14. FrameFresh'
  <2>1. ASSUME NEW t \in Thread, NEW i \in DOMAIN stack[t], LiveFrom(t, i)'
        PROVE  Holding(stack[t][i], thread[t].page)'
    <3> DEFINE f == stack[t][i]
               p == thread[t].page
    <3>1. PICK j \in DOMAIN stack[t] : i <= j /\ Live(stack[t][j], p)'
      BY <1>2, <1>5, <2>1 DEF LiveFrom
    <3>2. /\ f \in Frame /\ stack[t][j] \in Frame /\ i \in Int /\ j \in Int
          /\ f.comp <= stack[t][j].comp /\ p \in Page
      <4>1. stack[t] \in Seq(Frame) /\ stack[t] # <<>>
        BY <1>1, <2>1 DEF Types
      <4>2. DOMAIN stack[t] = 1 .. Len(stack[t]) /\ stack[t][1] \in Frame
        BY <4>1, TailOf
      <4>3. f \in Frame /\ stack[t][j] \in Frame
        BY <4>1, <4>2, ElementOfSeq
      <4>4. f.comp = stack[t][1].comp + (i - 1) /\ stack[t][j].comp = stack[t][1].comp + (j - 1)
        BY <1>1 DEF StackSound, FrameOK
      <4>5. stack[t][1].comp \in Int /\ i \in Int /\ j \in Int
        BY <4>2, HeightAssumption DEF Frame, Comp
      <4>6. p \in Page
        BY <1>1, <4>1 DEF ThreadSound
      <4>7. QED
        BY <3>1, <4>3, <4>4, <4>5, <4>6
    <3>3. /\ f.comp \in Comp /\ f.comp \in Int /\ stack[t][j].comp \in Comp
          /\ stack[t][j].comp \in Int /\ stack[t][j].comp <= Height /\ k \in Int
      BY <3>2, HeightAssumption DEF Frame, Comp
    <3>4. Live(stack[t][j], p)
      BY <1>2, <1>5, <3>1, <3>2, <3>3 DEF Live, Stable, Touched, NoEdit
    <3>5. Holding(f, p)
      BY <1>1, <3>1, <3>4 DEF LiveFrom, FrameFresh
    <3>6. f.comp < k \/ p \notin range
      <4>1. stack[t][j].comp < k \/ p \notin range
        BY <1>2, <1>5, <1>6, <3>1, <3>2, <3>3 DEF Live
      <4>2. QED
        BY <3>2, <3>3, <4>1
    <3>7. /\ Fresh(f.comp, p)' = Fresh(f.comp, p) /\ Fresh(f.comp - 1, p)' = Fresh(f.comp - 1, p)
          /\ model'[f.comp][p] = model[f.comp][p]
      <4>1. f.comp - 1 \in Int /\ f.comp - 1 <= Height /\ f.comp <= Height
            /\ (f.comp < k => f.comp - 1 < k /\ f.comp # k)
        BY <3>2, <3>3, HeightAssumption
      <4>2. model'[f.comp][p] = model[f.comp][p]
        BY <1>4, <3>2, <3>3, <3>6, <4>1
      <4>3. stack' = stack /\ thread'[t].page = p
        BY <1>2, <1>5
      <4>4. QED
        BY <1>8, <3>2, <3>3, <3>6, <4>1, <4>2, <4>3
    <3>8. QED
      BY <1>2, <1>5, <3>5, <3>7 DEF Holding
  <2>2. QED
    BY <1>2, <2>1 DEF FrameFresh
<1>15. QED
  BY <1>1, <1>9, <1>10, <1>11, <1>12, <1>13, <1>14 DEF IInv, Sound

\* A bump takes the next component off the walk.  What nothing is to reach after it,
\* nothing was to reach before, but of the component itself.
LEMMA BumpedOne ==
    ASSUME EditShape, late \subseteq Comp \X Page, EditBump
    PROVE  /\ Head(edit.path) \in Comp /\ edit.range \in Ranges /\ Touched \subseteq Page
           /\ edit.range \cap Page \subseteq Touched
           /\ EditShape' /\ late' \subseteq Comp \X Page
<1>1. PICK walk \in Seq(Comp) \ {<<>>}, range \in Ranges, whole \in BOOLEAN :
          edit = [path |-> walk, range |-> range, whole |-> whole]
  BY DEF EditShape, EditBump
<1>2. walk[1] \in Comp /\ Head(walk) = walk[1] /\ Tail(walk) \in Seq(Comp)
  BY TailOf
<1>3. edit.path = walk /\ edit.range = range /\ edit.whole = whole
  BY <1>1
<1>4. Touched \subseteq Page /\ edit.range \cap Page \subseteq Touched
  BY <1>3, RangesAssumption DEF Touched
<1>5. \/ edit' = NoEdit
      \/ Tail(walk) # <<>> /\ edit' = [edit EXCEPT !.path = Tail(walk)]
  BY <1>3 DEF EditBump
<1>6. EditShape'
  <2>1. CASE edit' = NoEdit
    BY <2>1 DEF EditShape
  <2>2. CASE Tail(walk) # <<>> /\ edit' = [edit EXCEPT !.path = Tail(walk)]
    <3>1. edit' = [path |-> Tail(walk), range |-> range, whole |-> whole]
      BY <1>1, <2>2
    <3>2. Tail(walk) \in Seq(Comp) \ {<<>>}
      BY <1>2, <2>2
    <3>3. QED
      BY <3>1, <3>2 DEF EditShape
  <2>3. QED
    BY <1>5, <2>1, <2>2
<1>7. late' = Overtaken(walk[1], Tail(walk))
  BY <1>2, <1>3 DEF EditBump
<1>8. late' \subseteq Comp \X Page
  <2>1. walk[1] + 1 .. Height \subseteq Comp
    BY <1>2, HeightAssumption DEF Comp
  <2>2. QED
    BY <1>4, <1>7, <2>1 DEF Overtaken
<1>9. QED
  BY <1>2, <1>3, <1>4, <1>6, <1>8

LEMMA BumpedStable ==
    ASSUME EditShape, EditBump, NEW c \in Comp, NEW p \in Page, Stable(c, p)'
    PROVE  Stable(c, p) \/ (c = Head(edit.path) /\ p \in Touched)
<1>1. PICK walk \in Seq(Comp) \ {<<>>}, range \in Ranges, whole \in BOOLEAN :
          edit = [path |-> walk, range |-> range, whole |-> whole]
  BY DEF EditShape, EditBump
<1> DEFINE k == walk[1]
           rest == Tail(walk)
<1>2. /\ k \in Comp /\ Head(walk) = k /\ rest \in Seq(Comp)
      /\ Len(walk) \in Nat \ {0} /\ DOMAIN walk = 1 .. Len(walk) /\ Len(rest) = Len(walk) - 1
      /\ \A i \in 1 .. Len(walk) - 1 : rest[i] = walk[i + 1]
  BY TailOf
<1>3. DOMAIN rest = 1 .. Len(walk) - 1
  BY <1>2, LenProperties
<1>4. edit.path = walk /\ edit.range = range /\ edit.whole = whole
  BY <1>1
<1>5. late' = Overtaken(k, rest)
  BY <1>2, <1>4 DEF EditBump
<1>6. IF rest = <<>> THEN edit' = NoEdit
      ELSE edit'.path = rest /\ edit'.range = range /\ edit'.whole = whole
  BY <1>1, <1>4 DEF EditBump
<1>7. ASSUME p \notin Touched PROVE Stable(c, p)
  BY <1>5, <1>7 DEF Stable, Overtaken
<1>8. ASSUME p \in Touched, c # k PROVE Stable(c, p)
  <2>1. \A d \in 1 .. c : \A i \in DOMAIN rest : rest[i] # d
    <3>1. CASE rest = <<>>
      BY <1>2, <1>3, <3>1, EmptySeq
    <3>2. CASE rest # <<>>
      <4>1. p \in Touched'
        BY <1>4, <1>6, <1>8, <3>2 DEF Touched
      <4>2. \A d \in 1 .. c : Reached(d)'
        BY <4>1 DEF Stable
      <4>3. QED
        BY <1>6, <3>2, <4>2 DEF Reached
    <3>3. QED
      BY <3>1, <3>2
  <2>2. c \in Nat /\ k \in Nat /\ c <= Height /\ c \in 1 .. c
    BY <1>2, HeightAssumption DEF Comp
  <2>3. \A d \in 1 .. c : <<d, p>> \notin late'
    BY DEF Stable
  <2>4. c < k
    <3>1. ASSUME ~(c < k) PROVE FALSE
      <4>1. c \in k + 1 .. Height
        BY <1>8, <2>2, <3>1, HeightAssumption
      <4>2. <<c, p>> \in late'
        BY <1>5, <1>8, <2>1, <2>2, <4>1 DEF Overtaken
      <4>3. QED
        BY <2>2, <2>3, <4>2
    <3>2. QED
      BY <3>1
  <2>5. ASSUME NEW d \in 1 .. c PROVE Reached(d) /\ <<d, p>> \notin late
    <3>1. d # k
      BY <2>2, <2>4
    <3>2. ASSUME NEW i \in DOMAIN walk PROVE walk[i] # d
      <4>1. CASE i = 1
        BY <3>1, <4>1
      <4>2. CASE i # 1
        <5>1. i - 1 \in 1 .. Len(walk) - 1 /\ (i - 1) + 1 = i
          BY <1>2, <4>2
        <5>2. rest[i - 1] = walk[i] /\ i - 1 \in DOMAIN rest
          BY <1>2, <1>3, <5>1
        <5>3. QED
          BY <2>1, <5>2
      <4>3. QED
        BY <4>1, <4>2
    <3>3. Reached(d)
      BY <1>4, <3>2 DEF Reached
    <3>4. <<d, p>> \notin late
      BY <1>5, <2>3, <3>1 DEF Overtaken
    <3>5. QED
      BY <3>3, <3>4
  <2>6. QED
    BY <2>5 DEF Stable
<1>9. QED
  BY <1>2, <1>4, <1>7, <1>8

\* What a bump does: to one component, the next on the walk.
LEMMA EditBumped ==
    ASSUME IInv, EditBump
    PROVE  \E k \in Comp :
           /\ k = Head(edit.path) /\ EditShape' /\ late' \subseteq Comp \X Page
           /\ settled' \in [Comp -> [Page -> Version]]
           /\ slipped' = {}
           /\ UNCHANGED <<model, edits, cursor, hint, inflight, thread, stack>>
           /\ epoch' = [epoch EXCEPT ![k] = @ + 1]
           /\ cache' \in [Comp -> [Page -> Cached]]
           /\ \A c \in Comp : c # k => cache'[c] = cache[c]
           /\ \A p \in Page : \/ cache'[k][p] = cache[k][p]
                              \/ /\ cache[k][p].valid /\ p \notin Touched /\ cache[k][p].stamp = epoch[k]
                                 /\ cache'[k][p] = [cache[k][p] EXCEPT !.stamp = epoch[k] + 1]
           /\ epoch' \in [Comp -> Nat \ {0}] /\ epoch'[k] = epoch[k] + 1
           /\ \A c \in Comp : epoch[c] <= epoch'[c] /\ (c # k => epoch'[c] = epoch[c])
           /\ \A c \in Comp, p \in Page : cache'[c][p].valid = cache[c][p].valid
                  /\ cache'[c][p].present = cache[c][p].present /\ cache'[c][p].shows = cache[c][p].shows
                  /\ \/ cache'[c][p].stamp = cache[c][p].stamp
                     \/ /\ c = k /\ cache[k][p].valid /\ p \notin Touched /\ cache[k][p].stamp = epoch[k]
                        /\ cache'[c][p].stamp = epoch[k] + 1
           /\ \A c \in Comp, p \in Page :
                  Stable(c, p)' => Stable(c, p) \/ (c = k /\ p \in Touched)
<1>1. /\ Types /\ PullersOnly
      /\ cache \in [Comp -> [Page -> Cached]] /\ epoch \in [Comp -> Nat \ {0}]
  BY DEF IInv, Sound, Types
<1>2. /\ Head(edit.path) \in Comp /\ Touched \subseteq Page /\ edit.range \cap Page \subseteq Touched
      /\ EditShape' /\ late' \subseteq Comp \X Page
  BY <1>1, BumpedOne DEF Types, EditShape
<1>3. PICK k \in Comp : k = Head(edit.path)
  BY <1>2
<1>4. /\ settled' \in [Comp -> [Page -> Version]]
      /\ slipped' = {}
      /\ UNCHANGED <<model, edits, cursor, hint, inflight, thread, stack>>
  <2>1. \A over : Settling(over) \in [Comp -> [Page -> Version]]
    BY <1>1 DEF Settling, Types
  <2>2. Slips(k, Touched) = {}
    BY <1>1 DEF Slips, PullersOnly
  <2>3. settled' \in [Comp -> [Page -> Version]]
    BY <1>1, <2>1 DEF EditBump, Types
  <2>4. QED
    BY <1>1, <1>3, <2>2, <2>3 DEF EditBump, Types
<1>5. /\ epoch' = [epoch EXCEPT ![k] = @ + 1]
      /\ cache' \in [Comp -> [Page -> Cached]]
      /\ \A c \in Comp : c # k => cache'[c] = cache[c]
      /\ \A p \in Page : \/ cache'[k][p] = cache[k][p]
                         \/ /\ cache[k][p].valid /\ p \notin Touched /\ cache[k][p].stamp = epoch[k]
                            /\ cache'[k][p] = [cache[k][p] EXCEPT !.stamp = epoch[k] + 1]
  <2>1. CASE edit.whole
    BY <1>1, <1>3, <2>1 DEF EditBump, EditBumps, Bumped
  <2>2. CASE ~edit.whole
    <3> DEFINE row == [p \in Page |->
                 IF cache[k][p].valid /\ p \notin edit.range /\ cache[k][p].stamp = epoch[k]
                 THEN [cache[k][p] EXCEPT !.stamp = epoch[k] + 1] ELSE cache[k][p]]
    <3>1. epoch' = [epoch EXCEPT ![k] = @ + 1] /\ cache' = [cache EXCEPT ![k] = row]
      BY <1>1, <1>3, <2>2 DEF EditBump, EditBumps, RangeInvalidated
    <3>2. epoch[k] + 1 \in Nat
      BY <1>1
    <3>3. row \in [Page -> Cached]
      <4>1. ASSUME NEW p \in Page
            PROVE  cache[k][p] \in Cached /\ [cache[k][p] EXCEPT !.stamp = epoch[k] + 1] \in Cached
        <5>1. cache[k][p] \in Cached
          BY <1>1
        <5>2. QED
          BY <3>2, <5>1 DEF Cached
      <4>2. QED
        BY <4>1
    <3>4. \A p \in Page : \/ row[p] = cache[k][p]
                          \/ /\ cache[k][p].valid /\ p \notin Touched /\ cache[k][p].stamp = epoch[k]
                             /\ row[p] = [cache[k][p] EXCEPT !.stamp = epoch[k] + 1]
      BY <2>2 DEF Touched
    <3> HIDE DEF row
    <3>5. QED
      BY <1>1, <3>1, <3>3, <3>4
  <2>3. QED
    BY <2>1, <2>2
<1>6. epoch' \in [Comp -> Nat \ {0}] /\ epoch'[k] = epoch[k] + 1
      /\ \A c \in Comp : epoch[c] <= epoch'[c] /\ (c # k => epoch'[c] = epoch[c])
  BY <1>1, <1>5
<1>7. \A c \in Comp, p \in Page : cache'[c][p].valid = cache[c][p].valid
          /\ cache'[c][p].present = cache[c][p].present /\ cache'[c][p].shows = cache[c][p].shows
          /\ \/ cache'[c][p].stamp = cache[c][p].stamp
             \/ /\ c = k /\ cache[k][p].valid /\ p \notin Touched /\ cache[k][p].stamp = epoch[k]
                /\ cache'[c][p].stamp = epoch[k] + 1
  <2>1. ASSUME NEW p \in Page, cache'[k][p] = [cache[k][p] EXCEPT !.stamp = epoch[k] + 1]
        PROVE  /\ cache'[k][p].valid = cache[k][p].valid /\ cache'[k][p].present = cache[k][p].present
               /\ cache'[k][p].shows = cache[k][p].shows /\ cache'[k][p].stamp = epoch[k] + 1
    <3>1. cache[k][p] \in Cached
      BY <1>1
    <3>2. QED
      BY <2>1, <3>1 DEF Cached
  <2>2. \A c \in Comp, p \in Page : c # k => cache'[c][p] = cache[c][p]
    BY <1>5
  <2>3. \A p \in Page : \/ cache'[k][p] = cache[k][p]
                        \/ /\ cache[k][p].valid /\ p \notin Touched /\ cache[k][p].stamp = epoch[k]
                           /\ cache'[k][p].valid = cache[k][p].valid
                           /\ cache'[k][p].present = cache[k][p].present
                           /\ cache'[k][p].shows = cache[k][p].shows
                           /\ cache'[k][p].stamp = epoch[k] + 1
    BY <1>5, <2>1
  <2>4. QED
    BY <2>2, <2>3
<1>8. \A c \in Comp, p \in Page : Stable(c, p)' => Stable(c, p) \/ (c = k /\ p \in Touched)
  BY <1>1, <1>3, BumpedStable DEF Types, EditShape
<1>9. QED
  BY <1>2, <1>3, <1>4, <1>5, <1>6, <1>7, <1>8

\* A bump: what was read before it carries an epoch that is not current any more, and
\* only pages that were current, of a position the edit does not reach, are re-blessed.
LEMMA EditBumpKeeps ==
    ASSUME IInv, EditBump
    PROVE  IInv'
<1>1. /\ Types /\ CacheSound /\ HintSound /\ InflightSound /\ ThreadSound /\ StackSound /\ CursorSound
      /\ CacheFresh /\ HintFresh /\ FrameFresh /\ PullersOnly
      /\ cache \in [Comp -> [Page -> Cached]] /\ epoch \in [Comp -> Nat \ {0}]
  BY DEF IInv, Sound, Types
<1>2. PICK k \in Comp :
           /\ k = Head(edit.path) /\ EditShape' /\ late' \subseteq Comp \X Page
           /\ settled' \in [Comp -> [Page -> Version]]
           /\ slipped' = {}
           /\ UNCHANGED <<model, edits, cursor, hint, inflight, thread, stack>>
           /\ epoch' = [epoch EXCEPT ![k] = @ + 1]
           /\ cache' \in [Comp -> [Page -> Cached]]
           /\ \A c \in Comp : c # k => cache'[c] = cache[c]
           /\ \A p \in Page : \/ cache'[k][p] = cache[k][p]
                              \/ /\ cache[k][p].valid /\ p \notin Touched /\ cache[k][p].stamp = epoch[k]
                                 /\ cache'[k][p] = [cache[k][p] EXCEPT !.stamp = epoch[k] + 1]
           /\ epoch' \in [Comp -> Nat \ {0}] /\ epoch'[k] = epoch[k] + 1
           /\ \A c \in Comp : epoch[c] <= epoch'[c] /\ (c # k => epoch'[c] = epoch[c])
           /\ \A c \in Comp, p \in Page : cache'[c][p].valid = cache[c][p].valid
                  /\ cache'[c][p].present = cache[c][p].present /\ cache'[c][p].shows = cache[c][p].shows
                  /\ \/ cache'[c][p].stamp = cache[c][p].stamp
                     \/ /\ c = k /\ cache[k][p].valid /\ p \notin Touched /\ cache[k][p].stamp = epoch[k]
                        /\ cache'[c][p].stamp = epoch[k] + 1
           /\ \A c \in Comp, p \in Page :
                  Stable(c, p)' => Stable(c, p) \/ (c = k /\ p \in Touched)
  BY EditBumped
<1>4. /\ EditShape' /\ late' \subseteq Comp \X Page
      /\ settled' \in [Comp -> [Page -> Version]]
      /\ slipped' = {}
      /\ UNCHANGED <<model, edits, cursor, hint, inflight, thread, stack>>
  BY <1>2
<1>5. /\ epoch' = [epoch EXCEPT ![k] = @ + 1]
      /\ cache' \in [Comp -> [Page -> Cached]]
      /\ \A c \in Comp : c # k => cache'[c] = cache[c]
      /\ \A p \in Page : \/ cache'[k][p] = cache[k][p]
                         \/ /\ cache[k][p].valid /\ p \notin Touched /\ cache[k][p].stamp = epoch[k]
                            /\ cache'[k][p] = [cache[k][p] EXCEPT !.stamp = epoch[k] + 1]
  BY <1>2
<1>6. epoch' \in [Comp -> Nat \ {0}] /\ epoch'[k] = epoch[k] + 1
      /\ \A c \in Comp : epoch[c] <= epoch'[c] /\ (c # k => epoch'[c] = epoch[c])
  BY <1>2
<1>7. \A c \in Comp, p \in Page : cache'[c][p].valid = cache[c][p].valid
          /\ cache'[c][p].present = cache[c][p].present /\ cache'[c][p].shows = cache[c][p].shows
          /\ \/ cache'[c][p].stamp = cache[c][p].stamp
             \/ /\ c = k /\ cache[k][p].valid /\ p \notin Touched /\ cache[k][p].stamp = epoch[k]
                /\ cache'[c][p].stamp = epoch[k] + 1
  BY <1>2
<1>8. \A c \in Comp, p \in Page : Stable(c, p)' => Stable(c, p) \/ (c = k /\ p \in Touched)
  BY <1>2
<1>9. Types'
  BY <1>1, <1>4, <1>5, <1>6 DEF Types, EditShape
<1>10. CacheSound' /\ HintSound' /\ InflightSound' /\ ThreadSound' /\ StackSound' /\ CursorSound'
  <2>1. CacheSound'
    <3>1. ASSUME NEW c \in Comp, NEW p \in Page
          PROVE IF cache'[c][p].valid
                THEN cache'[c][p].present /\ cache'[c][p].stamp \in 1 .. epoch'[c] /\ Len(cache'[c][p].shows) = c
                ELSE cache'[c][p].stamp = 0 /\ cache'[c][p].shows = <<>>
      <4>1. IF cache[c][p].valid
            THEN cache[c][p].present /\ cache[c][p].stamp \in 1 .. epoch[c] /\ Len(cache[c][p].shows) = c
            ELSE cache[c][p].stamp = 0 /\ cache[c][p].shows = <<>>
        BY <1>1 DEF CacheSound
      <4>2. epoch[c] \in Nat \ {0} /\ epoch'[c] \in Nat /\ epoch[c] <= epoch'[c]
            /\ (c = k => epoch'[c] = epoch[c] + 1)
        BY <1>1, <1>6
      <4>3. QED
        BY <1>7, <4>1, <4>2
    <3>2. QED
      BY <3>1 DEF CacheSound
  <2>2. HintSound'
    <3>1. ASSUME NEW c \in Comp, hint[c].page \in Page
          PROVE  c > 1 /\ Len(hint[c].shows) = c - 1 /\ hint[c].observed <= epoch'[c - 1]
      <4>1. c > 1 /\ Len(hint[c].shows) = c - 1 /\ hint[c].observed <= epoch[c - 1]
        BY <1>1, <3>1 DEF HintSound
      <4>2. c - 1 \in Comp
        BY <4>1, HeightAssumption DEF Comp
      <4>3. hint[c].observed \in Nat /\ epoch[c - 1] \in Nat /\ epoch'[c - 1] \in Nat
            /\ epoch[c - 1] <= epoch'[c - 1]
        BY <1>1, <1>6, <4>2 DEF Types, Hinted
      <4>4. QED
        BY <4>1, <4>3
    <3>2. QED
      BY <1>4, <3>1 DEF HintSound
  <2>3. \A c \in Comp : epoch[c] \in Nat /\ epoch'[c] \in Nat /\ epoch[c] <= epoch'[c]
    BY <1>1, <1>6
  <2>4. InflightSound'
    <3>1. \A c \in Comp, p \in Page : inflight[c][p].epoch \in Nat
      BY <1>1 DEF Types
    <3>2. QED
      BY <1>1, <1>4, <2>3, <3>1 DEF InflightSound
  <2>5. ThreadSound'
    <3>1. \A t \in Thread : thread[t].epoch \in Nat
      BY <1>1 DEF Types, PullState
    <3>2. QED
      BY <1>1, <1>4, <2>3, <3>1 DEF ThreadSound
  <2>6. StackSound'
    <3>1. ASSUME NEW t \in Thread, NEW i \in DOMAIN stack[t] PROVE FrameOK(t, i)'
      <4>1. FrameOK(t, i)
        BY <1>1 DEF StackSound
      <4>2. stack[t] \in Seq(Frame) /\ stack[t][i] \in Frame /\ i \in Int
        BY <1>1, ElementOfSeq DEF Types
      <4>3. stack[t][i].comp \in Comp /\ stack[t][i].epoch \in Nat /\ stack[t][i].prod \in Nat
        BY <4>2 DEF Frame
      <4>4. i > 1 => stack[t][i].comp - 1 \in Comp
        <5>1. 1 \in DOMAIN stack[t] /\ stack[t][1] \in Frame
          BY <1>1, TailOf DEF Types
        <5>2. stack[t][i].comp = stack[t][1].comp + (i - 1) /\ stack[t][1].comp \in Comp
          BY <4>1, <5>1 DEF FrameOK, Frame
        <5>3. QED
          BY <4>2, <4>3, <5>2, HeightAssumption DEF Comp
      <4>5. stack[t][i].epoch <= epoch'[stack[t][i].comp]
        BY <2>3, <4>1, <4>3 DEF FrameOK
      <4>6. i > 1 => stack[t][i].prod <= epoch'[stack[t][i].comp - 1]
        BY <2>3, <4>1, <4>3, <4>4 DEF FrameOK
      <4>7. QED
        BY <1>4, <4>1, <4>5, <4>6 DEF FrameOK
    <3>2. QED
      BY <1>4, <3>1 DEF StackSound
  <2>7. CursorSound'
    BY <1>1, <1>4 DEF CursorSound
  <2>8. QED
    BY <2>1, <2>2, <2>4, <2>5, <2>6, <2>7
<1>11. \A c, p : Fresh(c, p)' = Fresh(c, p)
  BY <1>4 DEF Fresh
<1>12. CacheFresh'
  <2>1. ASSUME NEW c \in Comp, NEW p \in Page, Stable(c, p)', ReadsCurrent(c, p)'
        PROVE  cache'[c][p].shows = Fresh(c, p)
    <3>1. Stable(c, p) /\ ReadsCurrent(c, p)
      <4>1. CASE c # k
        BY <1>5, <1>6, <1>8, <2>1, <4>1 DEF ReadsCurrent
      <4>2. CASE c = k
        <5>1. cache[c][p].valid /\ cache[c][p].stamp <= epoch[c] /\ cache[c][p].stamp \in Nat
          BY <1>1, <1>7, <2>1 DEF ReadsCurrent, CacheSound, Types
        <5>2. cache'[c][p].stamp = epoch[c] + 1 /\ epoch[c] \in Nat
          BY <1>1, <1>6, <2>1, <4>2 DEF ReadsCurrent
        <5>3. p \notin Touched /\ cache[c][p].stamp = epoch[c]
          BY <1>7, <4>2, <5>1, <5>2
        <5>4. QED
          BY <1>8, <2>1, <5>1, <5>3 DEF ReadsCurrent
      <4>3. QED
        BY <4>1, <4>2
    <3>2. QED
      BY <1>1, <1>7, <3>1 DEF CacheFresh
  <2>2. QED
    BY <1>11, <2>1 DEF CacheFresh
<1>13. HintFresh'
  <2>1. ASSUME NEW c \in Comp, hint[c].page \in Page, hint[c].observed = epoch'[c - 1],
               Stable(c - 1, hint[c].page)'
        PROVE  hint[c].shows = Fresh(c - 1, hint[c].page)
    <3>1. c - 1 \in Comp /\ hint[c].observed <= epoch[c - 1] /\ hint[c].observed \in Nat
      <4>1. c > 1 /\ hint[c].observed <= epoch[c - 1]
        BY <1>1, <2>1 DEF HintSound
      <4>2. hint[c].observed \in Nat
        BY <1>1 DEF Types, Hinted
      <4>3. QED
        BY <4>1, <4>2, HeightAssumption DEF Comp
    <3>2. c - 1 # k
      BY <1>1, <1>6, <2>1, <3>1
    <3>3. Stable(c - 1, hint[c].page) /\ hint[c].observed = epoch[c - 1]
      BY <1>4, <1>6, <1>8, <2>1, <3>1, <3>2
    <3>4. QED
      BY <1>1, <2>1, <3>3 DEF HintFresh
  <2>2. QED
    BY <1>4, <1>11, <2>1 DEF HintFresh
<1>14. FrameFresh'
  <2>1. ASSUME NEW t \in Thread, NEW i \in DOMAIN stack[t], LiveFrom(t, i)'
        PROVE  Holding(stack[t][i], thread[t].page)'
    <3> DEFINE f == stack[t][i]
               p == thread[t].page
    <3>1. /\ stack[t] \in Seq(Frame) /\ p \in Page
          /\ \A j \in DOMAIN stack[t] : stack[t][j] \in Frame
      <4>1. stack[t] \in Seq(Frame) /\ stack[t] # <<>>
        BY <1>1, <2>1 DEF Types
      <4>2. QED
        BY <1>1, <4>1, ElementOfSeq DEF ThreadSound
    <3>2. PICK j \in DOMAIN stack[t] : i <= j /\ Live(stack[t][j], p)'
      BY <1>4, <2>1 DEF LiveFrom
    <3>3. LiveFrom(t, i)
      <4>1. stack[t][j].comp \in Comp /\ stack[t][j].epoch \in Nat
        BY <3>1 DEF Frame
      <4>2. stack[t][j].epoch <= epoch[stack[t][j].comp]
        BY <1>1 DEF StackSound, FrameOK
      <4>3. stack[t][j].at # "enter" /\ stack[t][j].epoch = epoch'[stack[t][j].comp]
        BY <1>4, <3>2 DEF Live
      <4>4. stack[t][j].comp # k
        BY <1>1, <1>6, <4>1, <4>2, <4>3
      <4>5. stack[t][j].epoch = epoch[stack[t][j].comp] /\ Stable(stack[t][j].comp, p)
        BY <1>4, <1>6, <1>8, <3>1, <3>2, <4>1, <4>3, <4>4 DEF Live
      <4>6. QED
        BY <3>2, <4>3, <4>5 DEF LiveFrom, Live
    <3>4. Holding(f, p)
      BY <1>1, <3>3 DEF FrameFresh
    <3>5. f.at = "lookup" /\ Current(cache'[f.comp][p], f.epoch) => Current(cache[f.comp][p], f.epoch)
      <4>1. f.comp \in Comp /\ f.epoch \in Nat /\ f.epoch <= epoch[f.comp] /\ epoch[f.comp] \in Nat
        BY <1>1, <3>1 DEF Frame, StackSound, FrameOK
      <4>2. cache[f.comp][p].stamp \in Nat
        BY <1>1, <3>1, <4>1 DEF Cached
      <4> HIDE DEF f, p
      <4>3. QED
        BY <1>7, <3>1, <4>1, <4>2 DEF Current
    <3>6. f.comp \in Comp
      BY <3>1 DEF Frame
    <3>7. f.at = "lookup" /\ Current(cache'[f.comp][p], f.epoch) => cache'[f.comp][p].shows = Fresh(f.comp, p)
      BY <1>7, <3>1, <3>4, <3>5, <3>6 DEF Holding
    <3>8. QED
      BY <1>4, <3>4, <3>7 DEF Holding, Fresh
  <2>2. QED
    BY <1>4, <2>1 DEF FrameFresh
<1>15. QED
  BY <1>1, <1>9, <1>10, <1>12, <1>13, <1>14 DEF IInv, Sound

\* A page that leaves the map, or gives way to a placeholder, reads current no more.
LEMMA PageDropped ==
    ASSUME IInv, NEW c \in Comp, NEW p \in Page, NEW page \in {NoPage, Placeholder},
           cache' = [cache EXCEPT ![c][p] = page],
           UNCHANGED <<model, edit, late, epoch>>
    PROVE  /\ cache' \in [Comp -> [Page -> Cached]] /\ CacheSound' /\ CacheFresh'
           /\ \A d \in Comp : d # c => cache'[d] = cache[d]
           /\ \A d \in Comp, q \in Page : cache'[d][q].valid => cache'[d][q] = cache[d][q]
<1>1. cache \in [Comp -> [Page -> Cached]] /\ CacheSound /\ CacheFresh
  BY DEF IInv, Sound, Types
<1>2. page \in Cached /\ ~page.valid /\ page.stamp = 0 /\ page.shows = <<>>
  <2>1. <<>> \in Seq(Version)
    BY EmptySeq
  <2>2. NoPage \in Cached /\ ~NoPage.valid /\ NoPage.stamp = 0 /\ NoPage.shows = <<>>
    BY <2>1 DEF NoPage, Cached
  <2>3. Placeholder \in Cached /\ ~Placeholder.valid /\ Placeholder.stamp = 0 /\ Placeholder.shows = <<>>
    BY <2>2 DEF Placeholder, Cached
  <2>4. QED
    BY <2>2, <2>3
<1> DEFINE row == [cache[c] EXCEPT ![p] = page]
<1>3. row \in [Page -> Cached] /\ \A q \in Page : row[q] = cache[c][q] \/ row[q] = page
  BY <1>1, <1>2
<1>4. cache' = [cache EXCEPT ![c] = row]
  OBVIOUS
<1> HIDE DEF row
<1>5. cache' \in [Comp -> [Page -> Cached]] /\ cache'[c] = row /\ \A d \in Comp : d # c => cache'[d] = cache[d]
  BY <1>1, <1>3, <1>4
<1>6. ASSUME NEW d \in Comp, NEW q \in Page
      PROVE  cache'[d][q] = cache[d][q] \/ cache'[d][q] = page
  BY <1>3, <1>5
<1>7. CacheSound'
  BY <1>1, <1>2, <1>6 DEF CacheSound
<1>8. \A d \in Comp, q \in Page : cache'[d][q].valid => cache'[d][q] = cache[d][q]
  BY <1>2, <1>6
<1>9. CacheFresh'
  <2>1. ASSUME NEW d \in Comp, NEW q \in Page, Stable(d, q)', ReadsCurrent(d, q)'
        PROVE  cache'[d][q].shows = Fresh(d, q)'
    <3>1. cache'[d][q] = cache[d][q]
      BY <1>8, <2>1 DEF ReadsCurrent
    <3>2. Stable(d, q) /\ ReadsCurrent(d, q)
      BY <2>1, <3>1 DEF Stable, Reached, Touched, ReadsCurrent
    <3>3. QED
      BY <1>1, <3>1, <3>2 DEF CacheFresh, Fresh
  <2>2. QED
    BY <2>1 DEF CacheFresh
<1>10. QED
  BY <1>5, <1>7, <1>8, <1>9

LEMMA PruneKeeps ==
    ASSUME IInv, NEW c \in Comp, NEW p \in Page, Prune(c, p)
    PROVE  IInv'
<1>1. /\ Types /\ CacheSound /\ HintSound /\ InflightSound /\ ThreadSound /\ StackSound /\ CursorSound
      /\ CacheFresh /\ HintFresh /\ FrameFresh /\ PullersOnly
  BY DEF IInv, Sound
<1>2. /\ cache' = [cache EXCEPT ![c][p] = NoPage]
      /\ UNCHANGED <<model, settled, late, edit, edits, epoch, cursor, hint, inflight, thread, stack, slipped>>
  BY DEF Prune, editing
<1>3. /\ cache' \in [Comp -> [Page -> Cached]] /\ CacheSound' /\ CacheFresh'
      /\ \A d \in Comp, q \in Page : cache'[d][q].valid => cache'[d][q] = cache[d][q]
  BY <1>2, PageDropped
<1>4. Types'
  BY <1>1, <1>2, <1>3 DEF Types
<1>5. HintSound' /\ InflightSound' /\ ThreadSound' /\ CursorSound' /\ HintFresh'
  BY <1>1, <1>2 DEF HintSound, InflightSound, ThreadSound, CursorSound, HintFresh, Stable, Reached, Touched, Fresh
<1>6. StackSound'
  BY <1>1, <1>2 DEF StackSound, FrameOK
<1>7. FrameFresh'
  <2>1. ASSUME NEW t \in Thread, NEW i \in DOMAIN stack[t], LiveFrom(t, i)'
        PROVE  Holding(stack[t][i], thread[t].page)'
    <3>1. LiveFrom(t, i)
      BY <1>2, <2>1 DEF LiveFrom, Live, Stable, Reached, Touched
    <3>2. Holding(stack[t][i], thread[t].page)
      BY <1>1, <3>1 DEF FrameFresh
    <3>3. stack[t][i].comp \in Comp /\ thread[t].page \in Page
      <4>1. stack[t] \in Seq(Frame) /\ stack[t] # <<>>
        BY <1>1, <2>1 DEF Types
      <4>2. stack[t][i] \in Frame /\ thread[t].page \in Page
        BY <1>1, <4>1, ElementOfSeq DEF ThreadSound
      <4>3. QED
        BY <4>2 DEF Frame
    <3>4. Current(cache'[stack[t][i].comp][thread[t].page], stack[t][i].epoch) =>
              cache'[stack[t][i].comp][thread[t].page] = cache[stack[t][i].comp][thread[t].page]
      BY <1>3, <3>3 DEF Current
    <3>5. QED
      BY <1>2, <3>2, <3>4 DEF Holding, Fresh
  <2>2. QED
    BY <1>2, <2>1 DEF FrameFresh
<1>8. QED
  BY <1>1, <1>3, <1>4, <1>5, <1>6, <1>7 DEF IInv, Sound

-----------------------------------------------------------------------------
(***************************************************************************)
(* freezePage                                                              *)
(***************************************************************************)
\* The innermost call of a thread, and those that wait for it.
LEMMA TopFrame ==
    ASSUME IInv, NEW t \in Thread, stack[t] # <<>>
    PROVE  /\ stack[t] \in Seq(Frame) /\ Len(stack[t]) \in Nat \ {0}
           /\ DOMAIN stack[t] = 1 .. Len(stack[t]) /\ 1 \in DOMAIN stack[t]
           /\ Top(t) = stack[t][1] /\ Top(t) \in Frame
           /\ Top(t).comp \in Comp /\ Top(t).comp \in Nat \ {0} /\ Top(t).epoch \in Nat
           /\ Top(t).own \in Version /\ Top(t).input \in Seq(Version) /\ Top(t).at # "pulling"
           /\ FrameOK(t, 1)
           /\ thread[t] \in PullState /\ thread[t].page \in Page /\ thread[t].pc = "rendering"
           /\ thread[t].comp \in Comp /\ thread[t].epoch \in 1 .. epoch[thread[t].comp]
           /\ epoch[Top(t).comp] \in Nat \ {0}
           /\ \A i \in DOMAIN stack[t] :
                  /\ FrameOK(t, i) /\ stack[t][i] \in Frame /\ i \in Nat \ {0}
                  /\ stack[t][i].comp = Top(t).comp + (i - 1)
                  /\ (i > 1 => stack[t][i].at = "pulling" /\ stack[t][i].comp # Top(t).comp
                               /\ cursor[stack[t][i].comp] = t)
<1>1. Types /\ ThreadSound /\ StackSound /\ stack[t] \in Seq(Frame)
  BY DEF IInv, Sound, Types
<1>2. /\ Len(stack[t]) \in Nat \ {0} /\ DOMAIN stack[t] = 1 .. Len(stack[t])
      /\ Top(t) = stack[t][1] /\ Top(t) \in Frame /\ 1 \in DOMAIN stack[t]
  <2>1. /\ Len(stack[t]) \in Nat \ {0} /\ DOMAIN stack[t] = 1 .. Len(stack[t])
        /\ Head(stack[t]) = stack[t][1] /\ stack[t][1] \in Frame
    BY <1>1, TailOf
  <2>2. QED
    BY <2>1 DEF Top
<1>3. /\ Top(t).comp \in Comp /\ Top(t).epoch \in Nat
      /\ Top(t).own \in Version /\ Top(t).input \in Seq(Version)
  BY <1>2 DEF Frame
<1>4. Top(t).comp \in Nat \ {0}
  BY <1>3, HeightAssumption DEF Comp
<1>5. /\ thread[t] \in PullState /\ thread[t].page \in Page /\ thread[t].pc = "rendering"
      /\ thread[t].comp \in Comp /\ thread[t].epoch \in 1 .. epoch[thread[t].comp]
  BY <1>1 DEF Types, ThreadSound
<1>6. epoch[Top(t).comp] \in Nat \ {0}
  BY <1>1, <1>3 DEF Types
<1>7. ASSUME NEW i \in DOMAIN stack[t]
      PROVE  /\ FrameOK(t, i) /\ stack[t][i] \in Frame /\ i \in Nat \ {0}
             /\ stack[t][i].comp = Top(t).comp + (i - 1)
             /\ (i > 1 => stack[t][i].at = "pulling" /\ stack[t][i].comp # Top(t).comp
                          /\ cursor[stack[t][i].comp] = t)
  <2>1. FrameOK(t, i)
    BY <1>1 DEF StackSound
  <2>2. stack[t][i] \in Frame /\ i \in Nat \ {0}
    BY <1>1, <1>2, ElementOfSeq
  <2>3. stack[t][i].comp = Top(t).comp + (i - 1)
    BY <1>2, <2>1 DEF FrameOK
  <2>4. i > 1 => stack[t][i].at = "pulling" /\ cursor[stack[t][i].comp] = t
    BY <2>1 DEF FrameOK
  <2>5. QED
    BY <1>4, <2>1, <2>2, <2>3, <2>4
<1>8. FrameOK(t, 1) /\ Top(t).at # "pulling"
  <2>1. FrameOK(t, 1)
    BY <1>2, <1>7
  <2>2. ~(1 > 1)
    OBVIOUS
  <2>3. QED
    BY <1>2, <2>1, <2>2 DEF FrameOK
<1>9. QED
  BY <1>1, <1>2, <1>3, <1>4, <1>5, <1>6, <1>7, <1>8

LEMMA InHand ==
    ASSUME IInv, NEW t \in Thread, NEW i \in DOMAIN stack[t], LiveFrom(t, i)
    PROVE  Holding(stack[t][i], thread[t].page)
BY DEF IInv, FrameFresh

LEMMA LiveHere ==
    ASSUME NEW t, NEW i \in DOMAIN stack[t], NEW j \in DOMAIN stack[t], i <= j,
           Live(stack[t][j], thread[t].page)
    PROVE  LiveFrom(t, i)
BY DEF LiveFrom

\* A step of one thread in freezePage leaves the others their calls, the mutexes they
\* hold, and the pages of the components whose mutexes they hold.
Alone(t) ==
    /\ UNCHANGED <<editing, epoch, inflight, slipped>>
    /\ \A u \in Thread : u # t => stack'[u] = stack[u] /\ thread'[u] = thread[u]
    /\ \A c \in Comp, u \in Thread : u # t => (cursor'[c] = u <=> cursor[c] = u)
    /\ \A c \in Comp : cursor[c] # t => cache'[c] = cache[c]

\* What is left to show of such a step.
OwnCalls(t) ==
    /\ thread'[t].page = thread[t].page /\ thread'[t].comp = thread[t].comp
    /\ thread'[t].epoch = thread[t].epoch
    /\ stack'[t] # <<>> => thread'[t].pc = "rendering"
    /\ \A i \in DOMAIN stack'[t] :
           FrameOK(t, i)' /\ (LiveFrom(t, i)' => Holding(stack[t][i], thread[t].page)')
    /\ \A c \in Comp : cursor'[c] = t =>
           \E i \in DOMAIN stack'[t] : stack'[t][i].comp = c /\ stack'[t][i].at # "enter"

LEMMA FreezeKeeps ==
    ASSUME IInv, NEW t \in Thread, stack[t] # <<>>, Alone(t), OwnCalls(t),
           Types', CacheSound', HintSound', CacheFresh', HintFresh'
    PROVE  IInv'
<1>1. /\ Types /\ InflightSound /\ ThreadSound /\ StackSound /\ CursorSound /\ FrameFresh /\ PullersOnly
  BY DEF IInv, Sound
<1>2. UNCHANGED <<model, edit, late, epoch, inflight>>
  BY DEF Alone, editing
<1>3. InflightSound'
  BY <1>1, <1>2 DEF InflightSound
<1>4. ThreadSound'
  <2>1. ASSUME NEW u \in Thread
        PROVE  /\ thread'[u].pc # "idle" => /\ thread'[u].page \in Page /\ thread'[u].comp \in Comp
                                            /\ thread'[u].epoch \in 1 .. epoch[thread'[u].comp]
               /\ stack'[u] # <<>> => thread'[u].pc = "rendering"
    <3>1. CASE u # t
      BY <1>1, <3>1 DEF Alone, ThreadSound
    <3>2. CASE u = t
      BY <3>2, TopFrame DEF OwnCalls
    <3>3. QED
      BY <3>1, <3>2
  <2>2. QED
    BY <1>2, <2>1 DEF ThreadSound
<1>5. StackSound'
  <2>1. ASSUME NEW u \in Thread, u # t, NEW i \in DOMAIN stack[u] PROVE FrameOK(u, i)'
    <3>1. FrameOK(u, i) /\ stack[u][i].comp \in Comp
      <4>1. stack[u] # <<>>
        BY <2>1
      <4>2. QED
        BY <2>1, <4>1, TopFrame DEF Frame
    <3>2. cursor'[stack[u][i].comp] = u <=> cursor[stack[u][i].comp] = u
      BY <2>1, <3>1 DEF Alone
    <3>3. stack'[u] = stack[u]
      BY <2>1 DEF Alone
    <3>4. QED
      BY <1>2, <3>1, <3>2, <3>3 DEF FrameOK
  <2>2. \A u \in Thread : u # t => stack'[u] = stack[u]
    BY DEF Alone
  <2>3. QED
    BY <2>1, <2>2 DEF StackSound, OwnCalls
<1>6. CursorSound'
  BY <1>1 DEF CursorSound, Alone, OwnCalls
<1>7. FrameFresh'
  <2>1. ASSUME NEW u \in Thread, u # t, NEW i \in DOMAIN stack[u], LiveFrom(u, i)'
        PROVE  Holding(stack[u][i], thread[u].page)'
    <3>1. stack'[u] = stack[u] /\ thread'[u] = thread[u]
      BY <2>1 DEF Alone
    <3>2. LiveFrom(u, i)
      BY <1>2, <2>1, <3>1 DEF LiveFrom, Live, Stable, Reached, Touched
    <3>3. Holding(stack[u][i], thread[u].page)
      BY <1>1, <3>2 DEF FrameFresh
    <3>4. FrameOK(u, i) /\ stack[u][i].comp \in Comp
      <4>1. stack[u] # <<>>
        BY <2>1
      <4>2. QED
        BY <2>1, <4>1, TopFrame DEF Frame
    <3>5. stack[u][i].at = "lookup" => cache'[stack[u][i].comp] = cache[stack[u][i].comp]
      <4>1. stack[u][i].at = "lookup" => cursor[stack[u][i].comp] = u
        BY <3>4 DEF FrameOK
      <4>2. QED
        BY <2>1, <3>4, <4>1 DEF Alone
    <3>6. QED
      BY <1>2, <3>1, <3>3, <3>5 DEF Holding, Fresh
  <2>2. \A u \in Thread : u # t => stack'[u] = stack[u]
    BY DEF Alone
  <2>3. QED
    BY <2>1, <2>2 DEF FrameFresh, OwnCalls
<1>8. QED
  BY <1>1, <1>3, <1>4, <1>5, <1>6, <1>7 DEF IInv, Sound

LEMMA TopSwapped ==
    ASSUME IInv, NEW t \in Thread, stack[t] # <<>>, NEW g \in Frame, Set(t, g)
    PROVE  /\ stack' \in [Thread -> Seq(Frame)] /\ \A u \in Thread : u # t => stack'[u] = stack[u]
           /\ DOMAIN stack'[t] = DOMAIN stack[t] /\ stack'[t][1] = g
           /\ \A i \in DOMAIN stack[t] : i # 1 => stack'[t][i] = stack[t][i]
<1>1. stack[t] \in Seq(Frame) /\ stack \in [Thread -> Seq(Frame)]
  BY DEF IInv, Sound, Types
<1>2. /\ <<g>> \o Tail(stack[t]) \in Seq(Frame)
      /\ DOMAIN (<<g>> \o Tail(stack[t])) = DOMAIN stack[t]
      /\ (<<g>> \o Tail(stack[t]))[1] = g
      /\ \A i \in DOMAIN stack[t] : i # 1 => (<<g>> \o Tail(stack[t]))[i] = stack[t][i]
  BY <1>1, TopReplaced
<1> DEFINE u == <<g>> \o Tail(stack[t])
<1>3. stack' = [stack EXCEPT ![t] = u] /\ stack \in [Thread -> Seq(Frame)]
  BY <1>1 DEF Set
<1> HIDE DEF u
<1>4. stack' \in [Thread -> Seq(Frame)] /\ stack'[t] = u /\ \A v \in Thread : v # t => stack'[v] = stack[v]
  BY <1>1, <1>2, <1>3 DEF u
<1>5. QED
  BY <1>2, <1>4 DEF u

\* Steps that replace the innermost call by g and leave the calls that wait for it.
LEMMA TopStepKeeps ==
    ASSUME IInv, NEW t \in Thread, stack[t] # <<>>, NEW g \in Frame, Set(t, g),
           NEW p \in Page, p = thread[t].page,
           UNCHANGED <<editing, epoch, hint, inflight, thread, slipped>>,
           g.comp = Top(t).comp, g.at \in {"lookup", "pull", "stamp"},
           g.epoch \in 1 .. epoch[g.comp],
           Top(t).at = "enter" => g.epoch = epoch[g.comp],
           Top(t).at # "enter" => g.epoch = Top(t).epoch,
           g.at = "pull" => g.comp > 1,
           g.at = "stamp" => Len(g.input) = g.comp - 1,
           g.at # "stamp" => g.input = <<>>,
           cursor[g.comp] \in {t, Nobody}, cursor' = [cursor EXCEPT ![g.comp] = t],
           \/ cache' = cache
           \/ /\ cursor[g.comp] = t
              /\ cache' = [cache EXCEPT ![g.comp][p] = Placeholder],
           Stable(g.comp, p) /\ (Top(t).at # "enter" => LiveFrom(t, 1)) => Holding(g, p)'
    PROVE  IInv'
<1>1. /\ Types /\ CacheSound /\ HintSound /\ CacheFresh /\ HintFresh /\ FrameFresh /\ CursorSound
      /\ PullersOnly /\ UNCHANGED <<model, settled, late, edit, edits, epoch, hint, inflight, thread, slipped>>
  BY DEF IInv, Sound, editing
<1>2. /\ stack[t] \in Seq(Frame) /\ 1 \in DOMAIN stack[t] /\ Top(t) = stack[t][1]
      /\ g.comp \in Comp /\ g.comp \in Nat \ {0} /\ thread[t].page \in Page
      /\ epoch[g.comp] \in Nat /\ g.epoch \in Nat /\ thread[t].pc = "rendering"
      /\ FrameOK(t, 1)
  BY TopFrame
<1>3. \A i \in DOMAIN stack[t] :
          /\ FrameOK(t, i) /\ stack[t][i] \in Frame /\ i \in Nat \ {0}
          /\ stack[t][i].comp = g.comp + (i - 1)
          /\ (i > 1 => stack[t][i].at = "pulling" /\ stack[t][i].comp # g.comp
                       /\ cursor[stack[t][i].comp] = t)
  BY TopFrame
<1>4. /\ stack' \in [Thread -> Seq(Frame)] /\ \A u \in Thread : u # t => stack'[u] = stack[u]
      /\ DOMAIN stack'[t] = DOMAIN stack[t] /\ stack'[t][1] = g
      /\ \A i \in DOMAIN stack[t] : i # 1 => stack'[t][i] = stack[t][i]
  BY TopSwapped
<1>5. /\ cursor' \in [Comp -> Thread \cup {Nobody}]
      /\ cursor'[g.comp] = t /\ \A c \in Comp : c # g.comp => cursor'[c] = cursor[c]
      /\ \A c \in Comp, u \in Thread : u # t => (cursor'[c] = u <=> cursor[c] = u)
  <2>1. cursor \in [Comp -> Thread \cup {Nobody}] /\ \A u \in Thread : u # Nobody
    BY <1>1, OnlyPullers DEF Types
  <2>2. QED
    BY <1>2, <2>1
<1>6. /\ cache' \in [Comp -> [Page -> Cached]] /\ CacheSound' /\ CacheFresh'
      /\ \A c \in Comp : cursor[c] # t => cache'[c] = cache[c]
  <2>1. CASE cache' = cache
    <3>1. cache \in [Comp -> [Page -> Cached]]
      BY <1>1 DEF Types
    <3>2. CacheSound'
      BY <1>1, <2>1 DEF CacheSound
    <3>3. CacheFresh'
      BY <1>1, <2>1 DEF CacheFresh, Stable, Reached, Touched, ReadsCurrent, Fresh
    <3>4. QED
      BY <2>1, <3>1, <3>2, <3>3
  <2>2. CASE /\ cursor[g.comp] = t
             /\ cache' = [cache EXCEPT ![g.comp][p] = Placeholder]
    <3>1. UNCHANGED <<model, edit, late, epoch>>
      BY <1>1
    <3>2. QED
      BY <1>2, <2>2, <3>1, PageDropped
  <2>3. QED
    BY <2>1, <2>2
<1>7. Types'
  <2>1. /\ UNCHANGED <<model, settled, late, edit, edits, epoch, hint, inflight, thread, slipped>>
        /\ cache' \in [Comp -> [Page -> Cached]] /\ cursor' \in [Comp -> Thread \cup {Nobody}]
        /\ stack' \in [Thread -> Seq(Frame)]
    BY <1>1, <1>4, <1>5, <1>6
  <2>2. Types
    BY <1>1
  <2>3. QED
    BY <2>1, <2>2, SMTT(30) DEF Types
<1>8. HintSound' /\ HintFresh'
  BY <1>1 DEF HintSound, HintFresh, Stable, Reached, Touched, Fresh
<1>9. Alone(t)
  BY <1>1, <1>4, <1>5, <1>6 DEF Alone, editing
<1>10. ASSUME NEW i \in DOMAIN stack[t]
       PROVE  FrameOK(t, i)' /\ (LiveFrom(t, i)' => Holding(stack[t][i], thread[t].page)')
  <2>1. CASE i = 1
    <3>1. FrameOK(t, 1)'
      <4>1. ~(1 > 1) /\ g.comp = g.comp + (1 - 1) /\ g.epoch <= epoch[g.comp] /\ g.epoch >= 1
        BY <1>2
      <4>2. QED
        BY <1>1, <1>4, <1>5, <4>1 DEF FrameOK
    <3>2. ASSUME LiveFrom(t, 1)'
          PROVE  Stable(g.comp, thread[t].page) /\ (Top(t).at # "enter" => LiveFrom(t, 1))
      <4>1. PICK j \in DOMAIN stack[t] : Live(stack[t][j], thread[t].page)'
        BY <1>4, <3>2 DEF LiveFrom
      <4>2. stack'[t][j].comp = g.comp + (j - 1) /\ j \in Nat \ {0} /\ stack'[t][j].comp \in Comp
        <5>1. stack[t][j] \in Frame /\ j \in Nat \ {0} /\ stack[t][j].comp = g.comp + (j - 1)
          BY <1>3
        <5>2. stack[t][j].comp \in Comp
          BY <5>1 DEF Frame
        <5>3. stack'[t][j].comp = stack[t][j].comp
          BY <1>2, <1>4, <5>1
        <5>4. QED
          BY <5>1, <5>2, <5>3
      <4>3. Stable(stack'[t][j].comp, thread[t].page)
        BY <1>1, <4>1 DEF Live, Stable, Reached, Touched
      <4>4. g.comp <= stack'[t][j].comp
        BY <1>2, <4>2
      <4>5. Stable(g.comp, thread[t].page)
        BY <1>1, <1>2, <4>2, <4>3, <4>4, StableUpstream
      <4>6. ASSUME Top(t).at # "enter" PROVE Live(stack[t][j], thread[t].page)
        <5>1. CASE j = 1
          BY <1>1, <1>2, <1>4, <4>1, <4>3, <4>6, <5>1 DEF Live
        <5>2. CASE j # 1
          BY <1>1, <1>4, <4>1, <4>3, <5>2 DEF Live
        <5>3. QED
          BY <5>1, <5>2
      <4>7. QED
        BY <4>2, <4>5, <4>6 DEF LiveFrom
    <3>3. QED
      BY <1>1, <1>4, <2>1, <3>1, <3>2 DEF Holding, Fresh
  <2>2. CASE i # 1
    <3>1. /\ i > 1 /\ stack'[t][i] = stack[t][i] /\ FrameOK(t, i) /\ i - 1 \in DOMAIN stack[t]
          /\ stack[t][i].at = "pulling" /\ stack[t][i].comp # g.comp /\ stack[t][i].comp \in Comp
      <4>1. stack[t][i] \in Frame /\ i \in Nat \ {0} /\ i > 1
        BY <1>3, <2>2
      <4>2. DOMAIN stack[t] = 1 .. Len(stack[t]) /\ Len(stack[t]) \in Nat
        BY TopFrame
      <4>3. i - 1 \in DOMAIN stack[t]
        BY <4>1, <4>2
      <4>4. QED
        BY <1>3, <1>4, <2>2, <4>1, <4>3 DEF Frame
    <3>2. stack[t][i].prod <= stack'[t][i - 1].epoch
      <4>1. CASE i - 1 = 1
        <5>1. stack[t][i].prod \in Nat /\ stack[t][i].prod <= epoch[g.comp]
          <6>1. stack[t][i].comp = g.comp + (i - 1) /\ stack[t][i] \in Frame
            BY <1>3
          <6>2. stack[t][i].comp - 1 = g.comp
            BY <1>2, <4>1, <6>1
          <6>3. stack[t][i].prod \in Nat
            BY <6>1 DEF Frame
          <6>4. stack[t][i].prod <= epoch[stack[t][i].comp - 1]
            BY <3>1 DEF FrameOK
          <6>5. QED
            BY <6>2, <6>3, <6>4
        <5>2. CASE Top(t).at = "enter"
          BY <1>2, <1>4, <4>1, <5>1, <5>2
        <5>3. CASE Top(t).at # "enter"
          BY <1>2, <1>4, <3>1, <4>1, <5>3 DEF FrameOK
        <5>4. QED
          BY <5>2, <5>3
      <4>2. CASE i - 1 # 1
        <5>1. i - 1 > 1
          <6>1. i \in Nat \ {0}
            BY <1>3
          <6>2. QED
            BY <3>1, <4>2, <6>1
        <5>2. stack'[t][i - 1] = stack[t][i - 1] /\ stack[t][i - 1].at = "pulling"
          BY <1>3, <1>4, <3>1, <4>2, <5>1
        <5>3. QED
          BY <3>1, <5>2 DEF FrameOK
      <4>3. QED
        BY <4>1, <4>2
    <3>3. FrameOK(t, i)'
      <4>1. /\ stack[t][i].comp = g.comp + (i - 1)
            /\ cursor'[stack[t][i].comp] = t
        BY <1>3, <1>5, <3>1
      <4>2. QED
        BY <1>1, <1>4, <3>1, <3>2, <4>1 DEF FrameOK
    <3>4. LiveFrom(t, i)' => Holding(stack[t][i], thread[t].page)'
      <4>1. ASSUME LiveFrom(t, i)' PROVE LiveFrom(t, i)
        <5>1. PICK j \in DOMAIN stack'[t] : i <= j /\ Live(stack[t][j], thread[t].page)'
          BY <4>1 DEF LiveFrom
        <5>2. j \in DOMAIN stack[t] /\ j # 1 /\ stack'[t][j] = stack[t][j]
          <6>1. j \in DOMAIN stack[t] /\ i \in Nat \ {0} /\ j \in Nat \ {0}
            BY <1>3, <1>4, <5>1
          <6>2. j # 1
            BY <3>1, <5>1, <6>1
          <6>3. QED
            BY <1>4, <6>1, <6>2
        <5>3. Live(stack[t][j], thread[t].page)
          BY <1>1, <5>1, <5>2 DEF Live, Stable, Reached, Touched
        <5>4. QED
          BY <5>1, <5>2, <5>3 DEF LiveFrom
      <4>2. LiveFrom(t, i) => Holding(stack[t][i], thread[t].page)
        BY <1>1 DEF FrameFresh
      <4>3. QED
        BY <1>1, <3>1, <4>1, <4>2 DEF Holding, Fresh
    <3>5. QED
      BY <3>3, <3>4
  <2>3. QED
    BY <2>1, <2>2
<1>11. ASSUME NEW c \in Comp, cursor'[c] = t
       PROVE  \E i \in DOMAIN stack'[t] : stack'[t][i].comp = c /\ stack'[t][i].at # "enter"
  <2>1. CASE c = g.comp
    BY <1>2, <1>4, <2>1
  <2>2. CASE c # g.comp
    <3>1. PICK i \in DOMAIN stack[t] : stack[t][i].comp = c /\ stack[t][i].at # "enter"
      BY <1>1, <1>5, <1>11, <2>2 DEF CursorSound
    <3>2. i # 1
      BY <1>2, <2>2, <3>1
    <3>3. QED
      BY <1>4, <3>1, <3>2
  <2>3. QED
    BY <2>1, <2>2
<1>12. OwnCalls(t)
  <2>1. /\ thread'[t].page = thread[t].page /\ thread'[t].comp = thread[t].comp
        /\ thread'[t].epoch = thread[t].epoch /\ thread'[t].pc = "rendering"
    BY <1>1, <1>2
  <2>2. QED
    BY <1>4, <1>10, <1>11, <2>1 DEF OwnCalls
<1>13. QED
  BY <1>6, <1>7, <1>8, <1>9, <1>12, FreezeKeeps

\* A step in freezePage: the innermost call becomes g, and the calls that wait for it
\* are left alone.
Advances(t, g, p) ==
    /\ stack[t] # <<>> /\ Set(t, g) /\ p = thread[t].page
    /\ UNCHANGED <<editing, epoch, hint, inflight, thread, slipped>>
    /\ g.comp = Top(t).comp /\ g.at \in {"lookup", "pull", "stamp"}
    /\ g.epoch \in 1 .. epoch[g.comp]
    /\ Top(t).at = "enter" => g.epoch = epoch[g.comp]
    /\ Top(t).at # "enter" => g.epoch = Top(t).epoch
    /\ g.at = "pull" => g.comp > 1
    /\ g.at = "stamp" => Len(g.input) = g.comp - 1
    /\ g.at # "stamp" => g.input = <<>>
    /\ cursor[g.comp] \in {t, Nobody} /\ cursor' = [cursor EXCEPT ![g.comp] = t]
    /\ \/ cache' = cache
       \/ cursor[g.comp] = t /\ cache' = [cache EXCEPT ![g.comp][p] = Placeholder]

LEMMA EnterAdvances ==
    ASSUME IInv, NEW t \in Thread, FreezeEnter(t)
    PROVE  \E g \in Frame, p \in Page :
               Advances(t, g, p) /\ g.at = "lookup" /\ Top(t).at = "enter" /\ cache' = cache
<1>1. /\ stack[t] # <<>> /\ Top(t).at = "enter" /\ cursor[Top(t).comp] = Nobody
      /\ cursor' = [cursor EXCEPT ![Top(t).comp] = t]
      /\ Set(t, [Top(t) EXCEPT !.at = "lookup", !.epoch = epoch[Top(t).comp]])
      /\ UNCHANGED <<editing, epoch, cache, hint, inflight, thread, slipped>>
  BY DEF FreezeEnter, In, caching
<1>2. PICK f \in Frame, p \in Page : f = Top(t) /\ p = thread[t].page
  BY <1>1, TopFrame
<1>3. f.comp \in Comp /\ epoch[f.comp] \in Nat \ {0} /\ f.input = <<>>
  <2>1. f.comp \in Comp /\ epoch[f.comp] \in Nat \ {0} /\ FrameOK(t, 1) /\ f = stack[t][1]
    BY <1>1, <1>2, TopFrame
  <2>2. QED
    BY <1>1, <1>2, <2>1 DEF FrameOK
<1>4. PICK g \in Frame : /\ g = [f EXCEPT !.at = "lookup", !.epoch = epoch[f.comp]]
                         /\ g.comp = f.comp /\ g.at = "lookup" /\ g.epoch = epoch[f.comp]
                         /\ g.input = <<>>
  <2>1. [f EXCEPT !.at = "lookup", !.epoch = epoch[f.comp]] \in Frame
    BY <1>3 DEF Frame
  <2>2. QED
    BY <1>2, <1>3, <2>1 DEF Frame
<1>5. /\ g.epoch \in 1 .. epoch[g.comp] /\ cursor' = [cursor EXCEPT ![g.comp] = t] /\ Set(t, g)
      /\ g.comp = Top(t).comp /\ cursor[g.comp] = Nobody
  BY <1>1, <1>2, <1>3, <1>4
<1>6. Advances(t, g, p)
  BY <1>1, <1>2, <1>4, <1>5 DEF Advances
<1>7. QED
  BY <1>1, <1>4, <1>6

\* A render reads the epoch with the mutex in hand, and the cache after it: what is
\* current for that epoch, and no edit is still to reach, is fresh.
LEMMA FreezeEnterKeeps ==
    ASSUME IInv, NEW t \in Thread, FreezeEnter(t)
    PROVE  IInv'
<1>1. PICK g \in Frame, p \in Page :
          Advances(t, g, p) /\ g.at = "lookup" /\ Top(t).at = "enter" /\ cache' = cache
  BY EnterAdvances
<1>2. g.comp \in Comp /\ epoch[g.comp] \in Nat \ {0} /\ g.epoch = epoch[g.comp]
      /\ UNCHANGED <<editing, epoch>>
  BY <1>1, TopFrame DEF Advances
<1>3. ASSUME Stable(g.comp, p) PROVE Holding(g, p)'
  <2>1. ASSUME Current(cache[g.comp][p], g.epoch) PROVE cache[g.comp][p].shows = Fresh(g.comp, p)
    <3>1. cache[g.comp][p].stamp <= epoch[g.comp] /\ cache[g.comp][p].stamp \in Nat
      BY <1>2, <2>1 DEF IInv, Sound, CacheSound, Current
    <3>2. ReadsCurrent(g.comp, p)
      BY <1>2, <2>1, <3>1 DEF Current, ReadsCurrent
    <3>3. QED
      BY <1>2, <1>3, <3>2 DEF IInv, CacheFresh
  <2>2. cache' = cache /\ Fresh(g.comp, p)' = Fresh(g.comp, p)
    BY <1>1, <1>2 DEF editing, Fresh
  <2>3. QED
    BY <1>1, <2>1, <2>2 DEF Holding
<1>4. QED
  BY <1>1, <1>3, TopStepKeeps DEF Advances

LEMMA MissAdvances ==
    ASSUME IInv, NEW t \in Thread, FreezeMiss(t)
    PROVE  \E g \in Frame, p \in Page :
               /\ Advances(t, g, p) /\ Top(t).at = "lookup"
               /\ cache' = [cache EXCEPT ![g.comp][p] = Placeholder]
               /\ g.at \in {"pull", "stamp"} /\ (g.at = "stamp" <=> g.comp = 1)
               /\ g.input = <<>> /\ g.own = model[g.comp][p]
<1>1. PICK f, p : f = Top(t) /\ p = thread[t].page
  OBVIOUS
<1>2. /\ stack[t] # <<>> /\ f.at = "lookup"
      /\ Set(t, [f EXCEPT !.own = model[f.comp][p], !.at = IF f.comp = 1 THEN "stamp" ELSE "pull"])
      /\ cache' = [cache EXCEPT ![f.comp][p] = Placeholder]
      /\ UNCHANGED <<editing, epoch, cursor, hint, inflight, thread, slipped>>
  BY <1>1 DEF FreezeMiss, In
<1>3. /\ f \in Frame /\ f.comp \in Comp /\ f.comp \in Nat \ {0} /\ p \in Page
      /\ f.input = <<>> /\ cursor[f.comp] = t
      /\ f.epoch \in Nat /\ f.epoch >= 1 /\ f.epoch <= epoch[f.comp] /\ epoch[f.comp] \in Nat
  <2>1. /\ f \in Frame /\ f.comp \in Comp /\ f.comp \in Nat \ {0} /\ p \in Page
        /\ f.epoch \in Nat /\ epoch[f.comp] \in Nat /\ FrameOK(t, 1) /\ f = stack[t][1]
    BY <1>1, <1>2, TopFrame
  <2>2. /\ f.input = <<>> /\ cursor[f.comp] = t /\ f.epoch >= 1 /\ f.epoch <= epoch[f.comp]
    BY <1>2, <2>1 DEF FrameOK
  <2>3. QED
    BY <2>1, <2>2
<1>4. model[f.comp][p] \in Version /\ cursor \in [Comp -> Thread \cup {Nobody}]
  BY <1>3 DEF IInv, Sound, Types
<1>5. PICK g \in Frame :
          /\ g = [f EXCEPT !.own = model[f.comp][p], !.at = IF f.comp = 1 THEN "stamp" ELSE "pull"]
          /\ g.comp = f.comp /\ g.at \in {"pull", "stamp"} /\ g.epoch = f.epoch
          /\ g.input = <<>> /\ g.own = model[f.comp][p] /\ (g.at = "stamp" <=> f.comp = 1)
  <2>1. PICK at \in {"pull", "stamp"} :
            at = (IF f.comp = 1 THEN "stamp" ELSE "pull") /\ (at = "stamp" <=> f.comp = 1)
    OBVIOUS
  <2> DEFINE h == [f EXCEPT !.own = model[f.comp][p], !.at = at]
  <2>2. h \in Frame /\ h.comp = f.comp /\ h.at = at /\ h.epoch = f.epoch /\ h.input = <<>>
        /\ h.own = model[f.comp][p]
    BY <1>3, <1>4 DEF Frame
  <2>3. h = [f EXCEPT !.own = model[f.comp][p], !.at = IF f.comp = 1 THEN "stamp" ELSE "pull"]
    BY <2>1
  <2> HIDE DEF h
  <2>4. QED
    BY <2>1, <2>2, <2>3
<1>6. /\ g.epoch \in 1 .. epoch[g.comp] /\ (g.at = "pull" => g.comp > 1) /\ cursor[g.comp] = t
  BY <1>3, <1>5
<1>7. g.at = "stamp" => Len(g.input) = g.comp - 1
  <2>1. Len(<<>>) = 0 /\ 1 - 1 = 0
    OBVIOUS
  <2>2. QED
    BY <1>5, <2>1
<1>8. cursor' = [cursor EXCEPT ![g.comp] = t]
  BY <1>2, <1>3, <1>4, <1>5
<1>9. Set(t, g) /\ cache' = [cache EXCEPT ![g.comp][p] = Placeholder]
       /\ g.at \in {"lookup", "pull", "stamp"} /\ g.input = <<>> /\ Top(t).at # "enter"
       /\ g.comp = Top(t).comp /\ g.epoch = Top(t).epoch
  BY <1>1, <1>2, <1>5
<1>10. /\ p = thread[t].page /\ stack[t] # <<>> /\ ~(Top(t).at = "enter")
       /\ UNCHANGED <<editing, epoch, hint, inflight, thread, slipped>>
       /\ g.epoch \in 1 .. epoch[g.comp] /\ cursor[g.comp] \in {t, Nobody}
  BY <1>1, <1>2, <1>6, <1>9
<1>11. Advances(t, g, p)
  BY <1>3, <1>6, <1>7, <1>8, <1>9, <1>10 DEF Advances
<1>12. p \in Page /\ Top(t).at = "lookup" /\ (g.at = "stamp" <=> g.comp = 1)
  BY <1>1, <1>2, <1>3, <1>5
<1>13. QED
  BY <1>5, <1>9, <1>11, <1>12

\* A miss: the setting is read after the epoch.
LEMMA FreezeMissKeeps ==
    ASSUME IInv, NEW t \in Thread, FreezeMiss(t)
    PROVE  IInv'
<1>1. PICK g \in Frame, p \in Page :
          /\ Advances(t, g, p) /\ Top(t).at = "lookup"
          /\ cache' = [cache EXCEPT ![g.comp][p] = Placeholder]
          /\ g.at \in {"pull", "stamp"} /\ (g.at = "stamp" <=> g.comp = 1)
          /\ g.input = <<>> /\ g.own = model[g.comp][p]
  BY MissAdvances
<1>2. Holding(g, p)'
  <2>1. model' = model
    BY <1>1 DEF Advances, editing
  <2>2. Fresh(0, p)' = <<>>
    <3>1. Fresh(0, p)' = Fresh(0, p)
      BY <2>1 DEF Fresh
    <3>2. QED
      BY <3>1, NothingUpstream
  <2>3. g.at = "stamp" => g.comp - 1 = 0
    BY <1>1
  <2>4. QED
    BY <1>1, <2>1, <2>2, <2>3 DEF Holding
<1>3. QED
  BY <1>1, <1>2, TopStepKeeps DEF Advances

LEMMA HeldAdvances ==
    ASSUME IInv, NEW t \in Thread, PullHeld(t)
    PROVE  \E g \in Frame, p \in Page :
               /\ Advances(t, g, p) /\ Top(t).at = "pull" /\ cache' = cache
               /\ Holds(g.comp, p) /\ g.comp - 1 \in Comp
               /\ g.at = "stamp" /\ g.own = Top(t).own /\ g.input = hint[g.comp].shows
<1>1. PICK f, p : f = Top(t) /\ p = thread[t].page
  OBVIOUS
<1>2. /\ stack[t] # <<>> /\ f.at = "pull" /\ Holds(f.comp, p)
      /\ Set(t, [f EXCEPT !.at = "stamp", !.input = hint[f.comp].shows])
      /\ UNCHANGED <<editing, epoch, cache, cursor, hint, inflight, thread, slipped>>
  BY <1>1 DEF PullHeld, In, caching
<1>3. /\ f \in Frame /\ f.comp \in Comp /\ f.comp \in Nat \ {0} /\ p \in Page
      /\ f = stack[t][1] /\ cursor[f.comp] = t /\ f.comp > 1
      /\ f.epoch \in Nat /\ f.epoch >= 1 /\ f.epoch <= epoch[f.comp] /\ epoch[f.comp] \in Nat
      /\ 1 \in DOMAIN stack[t]
  BY <1>1, <1>2, TopFrame DEF FrameOK
<1>4. /\ hint[f.comp].page = p /\ hint[f.comp].observed = epoch[f.comp - 1]
      /\ hint[f.comp].shows \in Seq(Version) /\ Len(hint[f.comp].shows) = f.comp - 1
      /\ cursor \in [Comp -> Thread \cup {Nobody}]
  BY <1>2, <1>3 DEF Holds, IInv, Sound, Types, Hinted, HintSound
<1>5. PICK g \in Frame : /\ g = [f EXCEPT !.at = "stamp", !.input = hint[f.comp].shows]
                         /\ g.comp = f.comp /\ g.at = "stamp" /\ g.epoch = f.epoch
                         /\ g.input = hint[f.comp].shows /\ g.own = f.own
  <2>1. [f EXCEPT !.at = "stamp", !.input = hint[f.comp].shows] \in Frame
    BY <1>3, <1>4 DEF Frame
  <2>2. QED
    BY <1>3, <1>4, <2>1 DEF Frame
<1>6. g.epoch \in 1 .. epoch[g.comp] /\ cursor[g.comp] = t /\ Len(g.input) = g.comp - 1
  BY <1>3, <1>4, <1>5
<1>7. cursor' = [cursor EXCEPT ![g.comp] = t]
  BY <1>2, <1>3, <1>4, <1>5
<1>8. Set(t, g) /\ g.comp = Top(t).comp /\ g.epoch = Top(t).epoch /\ Top(t).at # "enter"
  BY <1>1, <1>2, <1>5
<1>9. /\ p = thread[t].page /\ stack[t] # <<>> /\ ~(Top(t).at = "enter") /\ cache' = cache
       /\ UNCHANGED <<editing, epoch, hint, inflight, thread, slipped>>
       /\ g.at \in {"lookup", "pull", "stamp"} /\ g.at # "pull" /\ cursor[g.comp] \in {t, Nobody}
  BY <1>1, <1>2, <1>5, <1>6, <1>8
<1>10. g.comp - 1 \in Comp
  BY <1>3, <1>5, HeightAssumption DEF Comp
<1>11. Advances(t, g, p)
  BY <1>3, <1>5, <1>6, <1>7, <1>8, <1>9 DEF Advances
<1>12. QED
  BY <1>1, <1>2, <1>3, <1>5, <1>9, <1>10, <1>11

\* The reader's hint serves a live render only what is fresh.
LEMMA PullHeldKeeps ==
    ASSUME IInv, NEW t \in Thread, PullHeld(t)
    PROVE  IInv'
<1>1. PICK g \in Frame, p \in Page :
          /\ Advances(t, g, p) /\ Top(t).at = "pull" /\ cache' = cache
          /\ Holds(g.comp, p) /\ g.comp - 1 \in Comp
          /\ g.at = "stamp" /\ g.own = Top(t).own /\ g.input = hint[g.comp].shows
  BY HeldAdvances
<1>2. /\ 1 \in DOMAIN stack[t] /\ Top(t) = stack[t][1] /\ p = thread[t].page
      /\ g.comp = Top(t).comp /\ g.comp \in Comp /\ g.comp \in Nat
  BY <1>1, TopFrame DEF Advances
<1>3. ASSUME Stable(g.comp, p), LiveFrom(t, 1) PROVE Holding(g, p)'
  <2>1. g.own = model[g.comp][p]
    <3>1. Holding(Top(t), p)
      BY <1>2, <1>3, InHand
    <3>2. QED
      BY <1>1, <1>2, <3>1 DEF Holding
  <2>2. Stable(g.comp - 1, p)
    <3>1. g.comp - 1 <= g.comp
      BY <1>2
    <3>2. QED
      BY <1>1, <1>2, <1>3, <3>1, StableUpstream DEF IInv, Sound
  <2>3. hint[g.comp].shows = Fresh(g.comp - 1, p)
    BY <1>1, <1>2, <2>2 DEF IInv, HintFresh, Holds
  <2>4. model' = model
    BY <1>1 DEF Advances, editing
  <2>5. Fresh(g.comp - 1, p)' = Fresh(g.comp - 1, p)
    BY <2>4 DEF Fresh
  <2>6. QED
    BY <1>1, <2>1, <2>3, <2>4, <2>5 DEF Holding
<1>4. QED
  BY <1>1, <1>3, TopStepKeeps DEF Advances

LEMMA ProducerCalled ==
    ASSUME IInv, NEW t \in Thread, PullProducer(t)
    PROVE  \E d \in Comp, f \in Frame, g \in Frame, h \in Frame :
               /\ f = Top(t) /\ f.at = "pull" /\ cursor[f.comp] = t /\ f.input = <<>>
               /\ f.epoch >= 1 /\ f.epoch <= epoch[f.comp]
               /\ d \in Nat \ {0} /\ f.comp = d + 1 /\ epoch[d] \in Nat \ {0}
               /\ h.comp = d /\ h.at = "enter" /\ h.epoch = 0 /\ h.input = <<>>
               /\ g.comp = f.comp /\ g.at = "pulling" /\ g.epoch = f.epoch
               /\ g.prod = epoch[d] /\ g.own = f.own /\ g.input = <<>>
               /\ stack' \in [Thread -> Seq(Frame)]
               /\ DOMAIN stack'[t] = 1 .. Len(stack[t]) + 1 /\ stack'[t][1] = h /\ stack'[t][2] = g
               /\ \A i \in 3 .. Len(stack[t]) + 1 : stack'[t][i] = stack[t][i - 1]
               /\ UNCHANGED <<model, settled, late, edit, edits, epoch, cache, cursor, hint, inflight,
                              thread, slipped>>
               /\ Alone(t)
<1>1. PICK f, p, s : f = Top(t) /\ p = thread[t].page /\ s = stack[t]
  OBVIOUS
<1>2. /\ s # <<>> /\ f.at = "pull"
      /\ stack' = [stack EXCEPT ![t] =
            <<Call(f.comp - 1), [f EXCEPT !.at = "pulling", !.prod = epoch[f.comp - 1]]>> \o Tail(s)]
      /\ UNCHANGED <<model, settled, late, edit, edits, epoch, cache, cursor, hint, inflight, thread, slipped>>
  BY <1>1 DEF PullProducer, In, editing, caching
<1>3. /\ f \in Frame /\ f.comp \in Comp /\ f.comp \in Nat \ {0} /\ f.comp > 1 /\ p \in Page
      /\ f = s[1] /\ cursor[f.comp] = t /\ f.input = <<>>
      /\ f.epoch \in Nat /\ f.epoch >= 1 /\ f.epoch <= epoch[f.comp]
      /\ s \in Seq(Frame) /\ Len(s) \in Nat \ {0} /\ DOMAIN s = 1 .. Len(s) /\ 1 \in DOMAIN s
  <2>1. /\ s \in Seq(Frame) /\ Len(s) \in Nat \ {0} /\ DOMAIN s = 1 .. Len(s) /\ 1 \in DOMAIN s
        /\ f = s[1] /\ f \in Frame /\ f.comp \in Comp /\ f.comp \in Nat \ {0} /\ f.epoch \in Nat
        /\ p \in Page
    BY <1>1, <1>2, TopFrame
  <2>2. FrameOK(t, 1) /\ f = stack[t][1]
    BY <1>1, <1>2, TopFrame
  <2>3. cursor[f.comp] = t /\ f.input = <<>> /\ f.epoch >= 1 /\ f.epoch <= epoch[f.comp] /\ f.comp > 1
    BY <1>2, <2>2 DEF FrameOK
  <2>4. QED
    BY <2>1, <2>3
<1>4. \A i \in DOMAIN s :
          /\ FrameOK(t, i) /\ s[i] \in Frame /\ i \in Nat \ {0} /\ s[i].comp = f.comp + (i - 1)
          /\ (i > 1 => s[i].at = "pulling" /\ cursor[s[i].comp] = t)
  BY <1>1, <1>2, TopFrame
<1>5. PICK d \in Comp : d = f.comp - 1 /\ d \in Nat \ {0} /\ f.comp = d + 1 /\ epoch[d] \in Nat \ {0}
  <2>1. f.comp - 1 \in Comp /\ f.comp - 1 \in Nat \ {0} /\ f.comp = (f.comp - 1) + 1
    BY <1>3, HeightAssumption DEF Comp
  <2>2. epoch[f.comp - 1] \in Nat \ {0}
    BY <2>1 DEF IInv, Sound, Types
  <2>3. QED
    BY <2>1, <2>2
<1>6. PICK h \in Frame : /\ h = Call(d)
                         /\ h.comp = d /\ h.at = "enter" /\ h.epoch = 0 /\ h.input = <<>>
  <2>1. 0 \in Version /\ <<>> \in Seq(Version)
    BY BoundAssumption, EmptySeq DEF Version
  <2>2. Call(d) \in Frame
    BY <1>5, <2>1 DEF Call, Frame
  <2>3. QED
    BY <2>2 DEF Call
<1>7. PICK g \in Frame : /\ g = [f EXCEPT !.at = "pulling", !.prod = epoch[d]]
                         /\ g.comp = f.comp /\ g.at = "pulling" /\ g.epoch = f.epoch
                         /\ g.prod = epoch[d] /\ g.own = f.own /\ g.input = <<>>
  <2>1. [f EXCEPT !.at = "pulling", !.prod = epoch[d]] \in Frame
    BY <1>3, <1>5 DEF Frame
  <2>2. QED
    BY <1>3, <1>5, <2>1 DEF Frame
<1>8. /\ stack' \in [Thread -> Seq(Frame)] /\ \A u \in Thread : u # t => stack'[u] = stack[u]
      /\ DOMAIN stack'[t] = 1 .. Len(s) + 1 /\ stack'[t][1] = h /\ stack'[t][2] = g
      /\ \A i \in 3 .. Len(s) + 1 : stack'[t][i] = s[i - 1]
  <2> DEFINE v == <<h, g>> \o Tail(s)
  <2>1. /\ v \in Seq(Frame) /\ DOMAIN v = 1 .. Len(s) + 1 /\ v[1] = h /\ v[2] = g
        /\ \A i \in 3 .. Len(s) + 1 : v[i] = s[i - 1]
    BY <1>2, <1>3, CallPushed
  <2>2. stack' = [stack EXCEPT ![t] = v] /\ stack \in [Thread -> Seq(Frame)]
    BY <1>2, <1>5, <1>6, <1>7 DEF IInv, Sound, Types
  <2> HIDE DEF v
  <2>3. QED
    BY <2>1, <2>2
<1>9. Alone(t)
  BY <1>2, <1>8 DEF Alone, editing
<1>10. /\ f \in Frame /\ f = Top(t) /\ f.at = "pull" /\ cursor[f.comp] = t /\ f.input = <<>>
       /\ f.epoch >= 1 /\ f.epoch <= epoch[f.comp]
       /\ d \in Nat \ {0} /\ f.comp = d + 1 /\ epoch[d] \in Nat \ {0}
  BY <1>1, <1>2, <1>3, <1>5
<1>11. /\ DOMAIN stack'[t] = 1 .. Len(stack[t]) + 1 /\ stack'[t][1] = h /\ stack'[t][2] = g
       /\ stack' \in [Thread -> Seq(Frame)]
       /\ \A i \in 3 .. Len(stack[t]) + 1 : stack'[t][i] = stack[t][i - 1]
  BY <1>1, <1>8
<1>12. UNCHANGED <<model, settled, late, edit, edits, epoch, cache, cursor, hint, inflight, thread, slipped>>
  BY <1>2
<1> USE <1>10
<1> WITNESS d \in Comp, f \in Frame, g \in Frame, h \in Frame
<1>13. QED
  BY <1>6, <1>7, <1>9, <1>10, <1>11, <1>12

\* A call of the producer: its epoch is read before the call begins, and the callers
\* keep what they hold.
LEMMA PullProducerKeeps ==
    ASSUME IInv, NEW t \in Thread, PullProducer(t)
    PROVE  IInv'
<1>1. PICK p, s : p = thread[t].page /\ s = stack[t]
  OBVIOUS
<1>2. PICK d \in Comp, f \in Frame, g \in Frame, h \in Frame :
          /\ f = Top(t) /\ f.at = "pull" /\ cursor[f.comp] = t /\ f.input = <<>>
          /\ f.epoch >= 1 /\ f.epoch <= epoch[f.comp]
          /\ d \in Nat \ {0} /\ f.comp = d + 1 /\ epoch[d] \in Nat \ {0}
          /\ h.comp = d /\ h.at = "enter" /\ h.epoch = 0 /\ h.input = <<>>
          /\ g.comp = f.comp /\ g.at = "pulling" /\ g.epoch = f.epoch
          /\ g.prod = epoch[d] /\ g.own = f.own /\ g.input = <<>>
          /\ stack' \in [Thread -> Seq(Frame)]
          /\ DOMAIN stack'[t] = 1 .. Len(s) + 1 /\ stack'[t][1] = h /\ stack'[t][2] = g
          /\ \A i \in 3 .. Len(s) + 1 : stack'[t][i] = s[i - 1]
          /\ UNCHANGED <<model, settled, late, edit, edits, epoch, cache, cursor, hint, inflight,
                         thread, slipped>>
          /\ Alone(t)
  BY <1>1, ProducerCalled
<1>3. /\ f.comp \in Comp /\ f.comp \in Nat \ {0} /\ f.comp > 1 /\ f.comp - 1 = d /\ p \in Page
      /\ f = s[1] /\ f.epoch \in Nat /\ s # <<>>
      /\ s \in Seq(Frame) /\ Len(s) \in Nat \ {0} /\ DOMAIN s = 1 .. Len(s) /\ 1 \in DOMAIN s
  <2>1. stack[t] # <<>>
    BY DEF PullProducer, In
  <2>2. /\ s \in Seq(Frame) /\ Len(s) \in Nat \ {0} /\ DOMAIN s = 1 .. Len(s) /\ 1 \in DOMAIN s
        /\ Top(t) = s[1] /\ Top(t).comp \in Comp /\ Top(t).comp \in Nat \ {0} /\ Top(t).epoch \in Nat
        /\ p \in Page
    BY <1>1, <2>1, TopFrame
  <2>3. f.comp > 1 /\ f.comp - 1 = d
    BY <1>2
  <2>4. QED
    BY <1>1, <1>2, <2>1, <2>2, <2>3
<1>4. \A i \in DOMAIN s :
          /\ FrameOK(t, i) /\ s[i] \in Frame /\ i \in Nat \ {0} /\ s[i].comp = f.comp + (i - 1)
          /\ (i > 1 => s[i].at = "pulling" /\ cursor[s[i].comp] = t)
  <2>1. \A i \in DOMAIN stack[t] :
            /\ FrameOK(t, i) /\ stack[t][i] \in Frame /\ i \in Nat \ {0}
            /\ stack[t][i].comp = Top(t).comp + (i - 1)
            /\ (i > 1 => stack[t][i].at = "pulling" /\ stack[t][i].comp # Top(t).comp
                         /\ cursor[stack[t][i].comp] = t)
    BY <1>1, <1>3, TopFrame
  <2>2. f = Top(t)
    BY <1>2
  <2>3. QED
    BY <1>1, <2>1, <2>2
<1>5. cursor[d] # t
  <2>1. SUFFICES ASSUME cursor[d] = t PROVE FALSE
    OBVIOUS
  <2>2. PICK i \in DOMAIN s : s[i].comp = d
    BY <1>1, <2>1 DEF IInv, Sound, CursorSound
  <2>3. d = f.comp + (i - 1) /\ i \in Nat \ {0}
    BY <1>4, <2>2
  <2>4. QED
    BY <1>2, <1>3, <2>3
<1>6. /\ 1 \in 1 .. Len(s) + 1 /\ 2 \in 1 .. Len(s) + 1
      /\ \A i \in 1 .. Len(s) + 1 : i = 1 \/ i = 2 \/ i \in 3 .. Len(s) + 1
      /\ \A i \in 3 .. Len(s) + 1 : i - 1 \in DOMAIN s /\ i - 1 > 1 /\ i > 1 /\ i \in Nat /\ i # 1 /\ i # 2
      /\ \A j \in DOMAIN s : j + 1 \in 1 .. Len(s) + 1
  BY <1>2, <1>3
<1>7. ASSUME NEW i \in 1 .. Len(s) + 1 PROVE FrameOK(t, i)'
  <2>1. CASE i = 1
    <3>1. ~(1 > 1) /\ h.comp = h.comp + (1 - 1) /\ h.epoch <= epoch[h.comp]
      BY <1>2
    <3>2. QED
      BY <1>2, <1>5, <2>1, <3>1 DEF FrameOK
  <2>2. CASE i = 2
    <3>1. 2 > 1 /\ g.comp = h.comp + (2 - 1) /\ g.prod <= epoch[g.comp - 1] /\ 2 - 1 = 1
      BY <1>2, <1>3
    <3>2. g.epoch <= epoch[g.comp] /\ g.epoch >= 1 /\ cursor[g.comp] = t
      BY <1>2, <1>3
    <3>3. stack'[t][2] = g /\ stack'[t][2 - 1] = h
      BY <1>2, <3>1
    <3>4. QED
      BY <1>2, <2>2, <3>1, <3>2, <3>3 DEF FrameOK
  <2>3. CASE i \in 3 .. Len(s) + 1
    <3>1. /\ i - 1 \in DOMAIN s /\ i > 1 /\ stack'[t][i] = s[i - 1] /\ FrameOK(t, i - 1)
          /\ s[i - 1].at = "pulling" /\ cursor[s[i - 1].comp] = t /\ i - 1 > 1
          /\ s[i - 1].comp = f.comp + ((i - 1) - 1)
      BY <1>4, <1>2, <1>6, <2>3
    <3>2. s[i - 1].comp = h.comp + (i - 1)
      <4>1. f.comp + ((i - 1) - 1) = d + (i - 1)
        <5>1. i \in Nat
          BY <1>6, <2>3
        <5>2. \A m \in Nat : (m + 1) + ((i - 1) - 1) = m + (i - 1)
          BY <5>1
        <5>3. QED
          BY <1>2, <5>2
      <4>2. QED
        BY <1>2, <3>1, <4>1
    <3>3. stack'[t][i - 1].at # "enter" => s[i - 1].prod <= stack'[t][i - 1].epoch
      <4>1. s[(i - 1) - 1].at # "enter" => s[i - 1].prod <= s[(i - 1) - 1].epoch
        BY <1>1, <3>1 DEF FrameOK
      <4>2. CASE i = 3
        <5>1. (i - 1) - 1 = 1 /\ i - 1 = 2
          BY <4>2
        <5>2. s[(i - 1) - 1] = f /\ stack'[t][i - 1] = g
          BY <1>2, <1>3, <5>1
        <5>3. f.at # "enter" /\ g.epoch = f.epoch
          BY <1>2
        <5>4. QED
          BY <4>1, <5>2, <5>3
      <4>3. CASE i # 3
        <5>1. i - 1 \in 3 .. Len(s) + 1
          BY <1>2, <1>3, <2>3, <4>3
        <5>2. QED
          BY <1>2, <4>1, <5>1
      <4>4. QED
        BY <4>2, <4>3
    <3>4. /\ s[i - 1].epoch <= epoch[s[i - 1].comp] /\ s[i - 1].epoch >= 1
          /\ s[i - 1].prod <= epoch[s[i - 1].comp - 1] /\ s[i - 1].input = <<>>
      BY <1>1, <3>1 DEF FrameOK
    <3>5. epoch' = epoch /\ cursor' = cursor /\ stack'[t][1].comp = h.comp
      BY <1>2
    <3>6. QED
      BY <3>1, <3>2, <3>3, <3>4, <3>5 DEF FrameOK
  <2>4. QED
    BY <1>6, <2>1, <2>2, <2>3
<1>8. ASSUME NEW j \in 2 .. Len(s) + 1, Live(stack[t][j], thread[t].page)'
       PROVE  j - 1 \in DOMAIN s /\ Live(s[j - 1], p)
  <2>2. CASE j = 2
    <3>1. stack'[t][j] = g /\ thread'[t].page = p /\ j - 1 = 1
      BY <1>1, <1>2, <2>2
    <3>2. g.epoch = epoch[g.comp] /\ Stable(g.comp, p)
      BY <1>2, <1>8, <3>1 DEF Live, Stable, Reached, Touched
    <3>3. Live(f, p)
      BY <1>2, <3>2 DEF Live
    <3>4. QED
      BY <1>2, <1>3, <3>1, <3>3
  <2>3. CASE j # 2
    <3>1. j \in 3 .. Len(s) + 1
      BY <1>2, <1>3, <2>3
    <3>2. stack'[t][j] = s[j - 1] /\ j - 1 \in DOMAIN s
      BY <1>2, <1>6, <3>1
    <3>3. QED
      BY <1>1, <1>2, <1>8, <3>2 DEF Live, Stable, Reached, Touched
  <2>4. QED
    BY <2>2, <2>3
<1>9. ASSUME NEW i \in 1 .. Len(s) + 1, LiveFrom(t, i)' PROVE Holding(stack[t][i], thread[t].page)'
  <2>1. PICK j \in 1 .. Len(s) + 1 : i <= j /\ Live(stack[t][j], thread[t].page)'
    BY <1>2, <1>9 DEF LiveFrom
  <2>2. CASE i = 1
    BY <1>2, <2>2 DEF Holding
  <2>3. CASE i # 1
    <3>1. i \in 2 .. Len(s) + 1 /\ j \in 2 .. Len(s) + 1
      BY <1>2, <1>3, <2>1, <2>3
    <3>2. j - 1 \in DOMAIN s /\ Live(s[j - 1], p) /\ i - 1 <= j - 1
      BY <1>2, <1>3, <1>8, <2>1, <3>1
    <3>3. i - 1 \in DOMAIN s
      BY <1>2, <1>3, <3>1
    <3>4. Holding(s[i - 1], p)
      BY <1>1, <3>2, <3>3 DEF IInv, FrameFresh, LiveFrom
    <3>5. CASE i = 2
      <4>1. 2 - 1 = 1
        OBVIOUS
      <4>2. QED
        BY <1>1, <1>2, <1>3, <3>4, <3>5, <4>1 DEF Holding
    <3>6. CASE i # 2
      <4>1. i \in 3 .. Len(s) + 1
        BY <1>6, <2>3, <3>6
      <4>2. stack'[t][i] = s[i - 1]
        BY <1>2, <4>1
      <4>3. s[i - 1].at = "pulling" /\ model' = model /\ thread'[t].page = p
        BY <1>1, <1>2, <1>4, <1>6, <4>1
      <4>4. QED
        BY <3>4, <4>2, <4>3 DEF Holding
    <3>7. QED
      BY <3>5, <3>6
  <2>4. QED
    BY <2>2, <2>3
<1>10. ASSUME NEW c \in Comp, cursor'[c] = t
       PROVE  \E i \in DOMAIN stack'[t] : stack'[t][i].comp = c /\ stack'[t][i].at # "enter"
  <2>1. PICK j \in DOMAIN s : s[j].comp = c /\ s[j].at # "enter"
    <3>1. CursorSound /\ cursor[c] = t
      BY <1>2, <1>10 DEF IInv, Sound
    <3>2. QED
      BY <1>1, <3>1 DEF CursorSound
  <2>2. CASE j = 1
    <3>1. stack'[t][2].comp = c /\ stack'[t][2].at # "enter"
      BY <1>2, <1>3, <2>1, <2>2
    <3>2. QED
      BY <1>2, <1>6, <3>1
  <2>3. CASE j # 1
    <3>1. j + 1 \in 3 .. Len(s) + 1 /\ (j + 1) - 1 = j
      BY <1>2, <1>3, <2>3
    <3>2. stack'[t][j + 1] = s[j]
      BY <1>2, <3>1
    <3>3. QED
      BY <1>2, <1>6, <2>1, <3>2
  <2>4. QED
    BY <2>2, <2>3
<1>11. OwnCalls(t)
  <2>1. thread'[t].page = thread[t].page /\ thread'[t].comp = thread[t].comp
        /\ thread'[t].epoch = thread[t].epoch /\ thread'[t].pc = "rendering"
    BY <1>1, <1>2, <1>3, TopFrame
  <2>2. QED
    BY <1>2, <1>7, <1>9, <1>10, <2>1 DEF OwnCalls
<1>12. Types' /\ CacheSound' /\ HintSound' /\ CacheFresh' /\ HintFresh'
  <2>1. Types'
    BY <1>2 DEF IInv, Sound, Types
  <2>2. CacheSound' /\ HintSound' /\ CacheFresh' /\ HintFresh'
    <3>1. CacheSound /\ HintSound /\ CacheFresh /\ HintFresh
      BY DEF IInv, Sound
    <3>2. UNCHANGED <<model, late, edit, epoch, cache, hint>>
      BY <1>2
    <3>3. CacheSound' /\ HintSound'
      BY <3>1, <3>2 DEF CacheSound, HintSound
    <3>4. CacheFresh' /\ HintFresh'
      BY <3>1, <3>2 DEF CacheFresh, HintFresh, Stable, Reached, Touched, ReadsCurrent, Fresh
    <3>5. QED
      BY <3>3, <3>4
  <2>3. QED
    BY <2>1, <2>2
<1>13. QED
  BY <1>1, <1>2, <1>3, <1>11, <1>12, FreezeKeeps

\* A freezePage returns a page: the mutex is free again and the page, fresh if the
\* call was live, goes to the request or to the render that waits for it.
Returning(t, c, p, shows) ==
    /\ stack[t] # <<>> /\ c = Top(t).comp /\ p = thread[t].page /\ Top(t).at # "enter"
    /\ shows \in Seq(Version) /\ Len(shows) = c
    /\ LiveFrom(t, 1) => shows = Fresh(c, p)
    /\ cursor' = [cursor EXCEPT ![c] = Nobody]
    /\ UNCHANGED <<editing, epoch, inflight, slipped>>
    /\ cache' \in [Comp -> [Page -> Cached]] /\ CacheSound' /\ CacheFresh'
    /\ \A d \in Comp : d # c => cache'[d] = cache[d]

LEMMA Returns ==
    ASSUME IInv, NEW t \in Thread, NEW c, NEW p, NEW shows, Returning(t, c, p, shows)
    PROVE  /\ c \in Comp /\ c \in Nat \ {0} /\ p \in Page /\ cursor[c] = t
           /\ cursor' \in [Comp -> Thread \cup {Nobody}]
           /\ cursor'[c] = Nobody /\ t # Nobody /\ \A d \in Comp : d # c => cursor'[d] = cursor[d]
           /\ \A d \in Comp, u \in Thread : u # t => (cursor'[d] = u <=> cursor[d] = u)
           /\ \A d \in Comp : cursor[d] # t => cache'[d] = cache[d]
           /\ \A q : \A d : Stable(d, q)' <=> Stable(d, q)
           /\ UNCHANGED <<model, settled, late, edit, edits, epoch, inflight, slipped>>
<1>1. /\ c \in Comp /\ c \in Nat \ {0} /\ p \in Page /\ FrameOK(t, 1) /\ Top(t) = stack[t][1]
  BY TopFrame DEF Returning
<1>2. cursor[c] = t
  BY <1>1 DEF Returning, FrameOK
<1>3. cursor \in [Comp -> Thread \cup {Nobody}] /\ \A u \in Thread : u # Nobody
  BY OnlyPullers DEF IInv, Sound, Types
<1>4. /\ cursor' \in [Comp -> Thread \cup {Nobody}]
      /\ cursor'[c] = Nobody /\ t # Nobody /\ \A d \in Comp : d # c => cursor'[d] = cursor[d]
      /\ \A d \in Comp, u \in Thread : u # t => (cursor'[d] = u <=> cursor[d] = u)
  BY <1>1, <1>2, <1>3 DEF Returning
<1>5. \A d \in Comp : cursor[d] # t => cache'[d] = cache[d]
  BY <1>2 DEF Returning
<1>6. UNCHANGED <<model, settled, late, edit, edits, epoch, inflight, slipped>>
  BY DEF Returning, editing
<1>7. \A q : \A d : Stable(d, q)' <=> Stable(d, q)
  BY <1>6 DEF Stable, Reached, Touched
<1>8. QED
  BY <1>1, <1>2, <1>4, <1>5, <1>6, <1>7

\* To the request ...
LEMMA ReturnsToRequest ==
    ASSUME IInv, NEW t \in Thread, NEW c, NEW p, NEW shows, Returning(t, c, p, shows),
           Len(stack[t]) = 1, Return(t, shows)
    PROVE  /\ hint' = hint /\ Alone(t)
           /\ stack' \in [Thread -> Seq(Frame)] /\ stack'[t] = <<>>
           /\ thread' \in [Thread -> PullState]
           /\ thread'[t].page = thread[t].page /\ thread'[t].comp = thread[t].comp
           /\ thread'[t].epoch = thread[t].epoch /\ thread'[t].since = thread[t].since
           /\ thread'[t].pc = "erase" /\ thread'[t].got = shows
<1>1. /\ stack' = [stack EXCEPT ![t] = <<>>] /\ hint' = hint
      /\ thread' = [thread EXCEPT ![t].pc = AfterFreeze[@], ![t].got = shows]
  <2>1. ~(Len(stack[t]) > 1)
    OBVIOUS
  <2>2. QED
    BY <2>1 DEF Return
<1>2. Types /\ HintSound /\ HintFresh /\ CursorSound
  BY DEF IInv, Sound
<1>3. /\ stack' \in [Thread -> Seq(Frame)] /\ stack'[t] = <<>>
      /\ \A u \in Thread : u # t => stack'[u] = stack[u]
  <2>1. <<>> \in Seq(Frame)
    BY EmptySeq
  <2>2. QED
    BY <1>1, <1>2, <2>1 DEF Types
<1>4. /\ thread' \in [Thread -> PullState] /\ \A u \in Thread : u # t => thread'[u] = thread[u]
      /\ thread'[t].page = thread[t].page /\ thread'[t].comp = thread[t].comp
      /\ thread'[t].epoch = thread[t].epoch /\ thread'[t].since = thread[t].since
      /\ thread'[t].pc = "erase" /\ thread'[t].got = shows
  <2>1. thread[t] \in PullState /\ thread[t].pc = "rendering"
    BY TopFrame DEF Returning
  <2> DEFINE r == [thread[t] EXCEPT !.pc = "erase", !.got = shows]
  <2>2. /\ r \in PullState /\ r.page = thread[t].page /\ r.comp = thread[t].comp
        /\ r.epoch = thread[t].epoch /\ r.since = thread[t].since /\ r.pc = "erase" /\ r.got = shows
    BY <2>1 DEF Returning, PullState, PullPc
  <2>3. AfterFreeze["rendering"] = "erase"
    BY DEF AfterFreeze
  <2>4. thread \in [Thread -> PullState]
    BY <1>2 DEF Types
  <2>5. thread' = [thread EXCEPT ![t] = r]
    BY <1>1, <2>1, <2>3, <2>4
  <2> HIDE DEF r
  <2>6. QED
    BY <2>2, <2>4, <2>5
<1>5. Alone(t)
  BY <1>3, <1>4, Returns DEF Alone, editing
<1>6. QED
  BY <1>1, <1>3, <1>4, <1>5

LEMMA OutermostReturns ==
    ASSUME IInv, NEW t \in Thread, NEW c, NEW p, NEW shows, Returning(t, c, p, shows),
           Len(stack[t]) = 1, Return(t, shows)
    PROVE  IInv'
<1>1. Types /\ HintSound /\ HintFresh /\ CursorSound
  BY DEF IInv, Sound
<1>2. /\ hint' = hint /\ Alone(t) /\ stack' \in [Thread -> Seq(Frame)] /\ stack'[t] = <<>>
      /\ thread' \in [Thread -> PullState]
      /\ thread'[t].page = thread[t].page /\ thread'[t].comp = thread[t].comp
      /\ thread'[t].epoch = thread[t].epoch
  BY ReturnsToRequest
<1>3. Types'
  <2>1. /\ UNCHANGED <<model, settled, late, edit, edits, epoch, inflight, slipped>>
        /\ cursor' \in [Comp -> Thread \cup {Nobody}]
    BY Returns
  <2>2. cache' \in [Comp -> [Page -> Cached]]
    BY DEF Returning
  <2>3. QED
    BY <1>1, <1>2, <2>1, <2>2 DEF Types
<1>4. HintSound' /\ HintFresh'
  <2>1. hint' = hint
    BY <1>2
  <2>2. QED
    BY <1>1, <2>1, Returns DEF HintSound, HintFresh, Fresh
<1>5. \A d \in Comp : cursor'[d] # t
  <2>1. ASSUME NEW d \in Comp, cursor'[d] = t PROVE FALSE
    <3>1. d # c /\ cursor[d] = t
      BY <2>1, Returns
    <3>2. PICK i \in DOMAIN stack[t] : stack[t][i].comp = d
      BY <1>1, <3>1 DEF CursorSound
    <3>3. DOMAIN stack[t] = 1 .. 1 /\ Top(t) = stack[t][1]
      BY TopFrame DEF Returning
    <3>4. QED
      BY <3>1, <3>2, <3>3 DEF Returning
  <2>2. QED
    BY <2>1
<1>6. DOMAIN <<>> = {}
  OBVIOUS
<1>7. OwnCalls(t)
  BY <1>2, <1>5, <1>6 DEF OwnCalls
<1>8. QED
  BY <1>2, <1>3, <1>4, <1>7, FreezeKeeps DEF Returning

\* ... or to the render that reads it, which keeps it as its hint.
LEMMA ReturnsToRender ==
    ASSUME IInv, NEW t \in Thread, NEW c, NEW p, NEW shows, Returning(t, c, p, shows),
           Len(stack[t]) > 1, Return(t, shows)
    PROVE  \E f \in Frame, g \in Frame, h \in Hinted :
               /\ f = stack[t][2] /\ f.at = "pulling" /\ cursor[f.comp] = t
               /\ f.comp = c + 1 /\ f.comp - 1 = c /\ f.comp # c /\ f.comp > 1 /\ f.comp \in Comp
               /\ f.epoch <= epoch[f.comp] /\ f.epoch >= 1
               /\ f.prod \in Nat /\ f.prod <= epoch[c] /\ f.prod <= stack[t][1].epoch
               /\ stack[t][1].epoch <= epoch[c]
               /\ g.comp = f.comp /\ g.at = "stamp" /\ g.epoch = f.epoch
               /\ g.own = f.own /\ g.input = shows
               /\ stack' \in [Thread -> Seq(Frame)]
               /\ DOMAIN stack'[t] = 1 .. Len(stack[t]) - 1 /\ stack'[t][1] = g
               /\ \A i \in 2 .. Len(stack[t]) - 1 : stack'[t][i] = stack[t][i + 1]
               /\ h.page = p /\ h.shows = shows /\ h.observed = f.prod
               /\ hint' \in [Comp -> Hinted] /\ hint'[f.comp] = h
               /\ \A d \in Comp : d # f.comp => hint'[d] = hint[d]
               /\ thread' = thread /\ Alone(t)
<1>1. PICK s, f : s = stack[t] /\ f = stack[t][2]
  OBVIOUS
<1>2. /\ stack' = [stack EXCEPT ![t] = <<[f EXCEPT !.at = "stamp", !.input = shows]>> \o SubSeq(s, 3, Len(s))]
      /\ hint' = [hint EXCEPT ![f.comp] = [page |-> p, shows |-> shows, observed |-> f.prod]]
      /\ thread' = thread
  <2>1. Len(stack[t]) # 1
    BY TopFrame DEF Returning
  <2>2. QED
    BY <1>1, <2>1 DEF Return, Returning
<1>3. /\ s \in Seq(Frame) /\ Len(s) \in Nat \ {0} /\ DOMAIN s = 1 .. Len(s) /\ Len(s) > 1
      /\ 1 \in DOMAIN s /\ 2 \in DOMAIN s /\ f = s[2] /\ s[1] = Top(t) /\ s[1].comp = c
      /\ s[1].at # "enter" /\ s[1] \in Frame
  <2>1. /\ s \in Seq(Frame) /\ Len(s) \in Nat \ {0} /\ DOMAIN s = 1 .. Len(s) /\ 1 \in DOMAIN s
        /\ s[1] = Top(t) /\ s[1] \in Frame
    BY <1>1, TopFrame DEF Returning
  <2>2. 2 \in DOMAIN s
    BY <1>1, <2>1
  <2>3. QED
    BY <1>1, <2>1, <2>2 DEF Returning
<1>4. \A i \in DOMAIN s :
          /\ FrameOK(t, i) /\ s[i] \in Frame /\ i \in Nat \ {0} /\ s[i].comp = c + (i - 1)
          /\ (i > 1 => s[i].at = "pulling" /\ cursor[s[i].comp] = t)
  BY <1>1, TopFrame DEF Returning
<1>5. /\ f \in Frame /\ f.comp = c + 1 /\ f.comp - 1 = c /\ f.comp # c /\ f.comp > 1 /\ f.comp \in Comp
      /\ f.at = "pulling" /\ cursor[f.comp] = t
      /\ f.epoch <= epoch[f.comp] /\ f.epoch >= 1
      /\ f.prod \in Nat /\ f.prod <= epoch[c] /\ f.prod <= s[1].epoch
      /\ s[1].epoch <= epoch[c]
  <2>1. /\ FrameOK(t, 2) /\ f \in Frame /\ f.at = "pulling" /\ cursor[f.comp] = t
        /\ f.comp = c + (2 - 1) /\ FrameOK(t, 1)
    BY <1>3, <1>4
  <2>2. c \in Nat \ {0}
    BY Returns
  <2>3. f.comp = c + 1 /\ f.comp - 1 = c /\ f.comp # c /\ f.comp > 1
    BY <2>1, <2>2
  <2>4. f.comp \in Comp /\ f.prod \in Nat
    BY <2>1 DEF Frame
  <2>5. /\ f.epoch <= epoch[f.comp] /\ f.epoch >= 1 /\ f.prod <= epoch[f.comp - 1]
        /\ f.prod <= stack[t][2 - 1].epoch
    BY <1>1, <1>3, <2>1 DEF FrameOK
  <2>6. s[1].epoch <= epoch[c]
    BY <1>1, <1>3, <2>1 DEF FrameOK
  <2>7. 2 - 1 = 1
    OBVIOUS
  <2>8. QED
    BY <1>1, <2>1, <2>3, <2>4, <2>5, <2>6, <2>7
<1>6. PICK g \in Frame : /\ g = [f EXCEPT !.at = "stamp", !.input = shows]
                         /\ g.comp = f.comp /\ g.at = "stamp" /\ g.epoch = f.epoch
                         /\ g.own = f.own /\ g.input = shows
  <2>1. shows \in Seq(Version)
    BY DEF Returning
  <2>2. [f EXCEPT !.at = "stamp", !.input = shows] \in Frame
    BY <1>5, <2>1 DEF Frame
  <2>3. QED
    BY <1>5, <2>2 DEF Frame
<1>7. /\ stack' \in [Thread -> Seq(Frame)] /\ \A u \in Thread : u # t => stack'[u] = stack[u]
      /\ DOMAIN stack'[t] = 1 .. Len(s) - 1 /\ stack'[t][1] = g
      /\ \A i \in 2 .. Len(s) - 1 : stack'[t][i] = s[i + 1]
  <2> DEFINE v == <<g>> \o SubSeq(s, 3, Len(s))
  <2>1. /\ v \in Seq(Frame) /\ DOMAIN v = 1 .. Len(s) - 1 /\ v[1] = g
        /\ \A i \in 2 .. Len(s) - 1 : v[i] = s[i + 1]
    BY <1>3, CallPopped
  <2>2. stack' = [stack EXCEPT ![t] = v] /\ stack \in [Thread -> Seq(Frame)]
    BY <1>2, <1>6 DEF IInv, Sound, Types
  <2> HIDE DEF v
  <2>3. QED
    BY <2>1, <2>2
<1>8. PICK h \in Hinted :
           /\ h = [page |-> p, shows |-> shows, observed |-> f.prod]
           /\ h.page = p /\ h.shows = shows /\ h.observed = f.prod
  <2>1. p \in Page
    BY Returns
  <2>2. shows \in Seq(Version) /\ f.prod \in Nat
    BY <1>5 DEF Returning
  <2> DEFINE r == [page |-> p, shows |-> shows, observed |-> f.prod]
  <2>3. r \in Hinted
    BY <2>1, <2>2 DEF Hinted
  <2>4. r.page = p /\ r.shows = shows /\ r.observed = f.prod
    OBVIOUS
  <2>5. r = [page |-> p, shows |-> shows, observed |-> f.prod]
    OBVIOUS
  <2> HIDE DEF r
  <2>6. QED
    BY <2>3, <2>4, <2>5
<1>9. /\ hint' \in [Comp -> Hinted]
       /\ hint'[f.comp] = h /\ \A d \in Comp : d # f.comp => hint'[d] = hint[d]
  <2>1. hint' = [hint EXCEPT ![f.comp] = h]
        /\ hint \in [Comp -> Hinted]
    BY <1>2, <1>8 DEF IInv, Sound, Types
  <2>2. QED
    BY <1>5, <1>8, <2>1
<1>10. Alone(t)
  BY <1>2, <1>7, Returns DEF Alone, editing
<1>11. /\ f = stack[t][2] /\ f.at = "pulling" /\ cursor[f.comp] = t /\ f \in Frame
       /\ f.comp = c + 1 /\ f.comp - 1 = c /\ f.comp # c /\ f.comp > 1 /\ f.comp \in Comp
       /\ f.epoch <= epoch[f.comp] /\ f.epoch >= 1
       /\ f.prod \in Nat /\ f.prod <= epoch[c] /\ f.prod <= stack[t][1].epoch
       /\ stack[t][1].epoch <= epoch[c]
  BY <1>1, <1>3, <1>5
<1>12. /\ DOMAIN stack'[t] = 1 .. Len(stack[t]) - 1 /\ stack'[t][1] = g
       /\ stack' \in [Thread -> Seq(Frame)]
       /\ \A i \in 2 .. Len(stack[t]) - 1 : stack'[t][i] = stack[t][i + 1]
  BY <1>1, <1>7
<1>13. thread' = thread
  BY <1>2
<1> USE <1>11
<1> WITNESS f \in Frame, g \in Frame, h \in Hinted
<1>14. QED
  BY <1>6, <1>8, <1>9, <1>10, <1>11, <1>12, <1>13

LEMMA InnermostReturns ==
    ASSUME IInv, NEW t \in Thread, NEW c, NEW p, NEW shows, Returning(t, c, p, shows),
           Len(stack[t]) > 1, Return(t, shows)
    PROVE  IInv'
<1>1. PICK s : s = stack[t]
  OBVIOUS
<1>2. PICK f \in Frame, g \in Frame, h \in Hinted :
          /\ f = s[2] /\ f.at = "pulling" /\ cursor[f.comp] = t
          /\ f.comp = c + 1 /\ f.comp - 1 = c /\ f.comp # c /\ f.comp > 1 /\ f.comp \in Comp
          /\ f.epoch <= epoch[f.comp] /\ f.epoch >= 1
          /\ f.prod \in Nat /\ f.prod <= epoch[c] /\ f.prod <= s[1].epoch
          /\ s[1].epoch <= epoch[c]
          /\ g.comp = f.comp /\ g.at = "stamp" /\ g.epoch = f.epoch
          /\ g.own = f.own /\ g.input = shows
          /\ stack' \in [Thread -> Seq(Frame)]
          /\ DOMAIN stack'[t] = 1 .. Len(s) - 1 /\ stack'[t][1] = g
          /\ \A i \in 2 .. Len(s) - 1 : stack'[t][i] = s[i + 1]
          /\ h.page = p /\ h.shows = shows /\ h.observed = f.prod
          /\ hint' \in [Comp -> Hinted] /\ hint'[f.comp] = h
          /\ \A d \in Comp : d # f.comp => hint'[d] = hint[d]
          /\ thread' = thread /\ Alone(t)
  BY <1>1, ReturnsToRender
<1>3. /\ s \in Seq(Frame) /\ Len(s) \in Nat \ {0} /\ DOMAIN s = 1 .. Len(s) /\ Len(s) > 1
      /\ 1 \in DOMAIN s /\ 2 \in DOMAIN s /\ f = s[2] /\ s[1] = Top(t) /\ s[1].comp = c
      /\ s[1].at # "enter" /\ s[1] \in Frame
  <2>1. /\ s \in Seq(Frame) /\ Len(s) \in Nat \ {0} /\ DOMAIN s = 1 .. Len(s) /\ 1 \in DOMAIN s
        /\ s[1] = Top(t) /\ s[1] \in Frame
    BY <1>1, TopFrame DEF Returning
  <2>2. 2 \in DOMAIN s
    BY <1>1, <2>1
  <2>3. f = s[2] /\ s[1].comp = c /\ s[1].at # "enter"
    BY <1>2, <2>1 DEF Returning
  <2>4. QED
    BY <1>1, <2>1, <2>2, <2>3
<1>4. \A i \in DOMAIN s :
          /\ FrameOK(t, i) /\ s[i] \in Frame /\ i \in Nat \ {0} /\ s[i].comp = c + (i - 1)
          /\ (i > 1 => s[i].at = "pulling" /\ cursor[s[i].comp] = t)
  BY <1>1, TopFrame DEF Returning
<1>5. /\ 1 \in 1 .. Len(s) - 1
      /\ \A i \in 1 .. Len(s) - 1 : i = 1 \/ i \in 2 .. Len(s) - 1
      /\ \A i \in 2 .. Len(s) - 1 : i + 1 \in DOMAIN s /\ i + 1 > 1 /\ i > 1 /\ i \in Nat /\ i # 1
      /\ \A j \in DOMAIN s : j # 1 => j - 1 \in 1 .. Len(s) - 1
      /\ \A j \in DOMAIN s : j # 1 /\ j # 2 => j - 1 \in 2 .. Len(s) - 1 /\ (j - 1) + 1 = j
  BY <1>3
<1>6. ASSUME NEW i \in 1 .. Len(s) - 1 PROVE FrameOK(t, i)'
  <2>1. CASE i = 1
    <3>1. ~(1 > 1) /\ g.comp = g.comp + (1 - 1) /\ Len(g.input) = g.comp - 1
      BY <1>2, Returns DEF Returning
    <3>2. cursor'[g.comp] = t /\ g.epoch <= epoch[g.comp] /\ g.epoch >= 1 /\ epoch' = epoch
      BY <1>2, Returns
    <3>3. QED
      BY <1>2, <2>1, <3>1, <3>2 DEF FrameOK
  <2>2. CASE i \in 2 .. Len(s) - 1
    <3>1. /\ i + 1 \in DOMAIN s /\ i > 1 /\ i \in Nat /\ stack'[t][i] = s[i + 1] /\ FrameOK(t, i + 1)
          /\ s[i + 1].at = "pulling" /\ cursor[s[i + 1].comp] = t /\ i + 1 > 1
          /\ s[i + 1].comp = c + ((i + 1) - 1) /\ s[i + 1] \in Frame
      BY <1>4, <1>2, <1>5, <2>2
    <3>2. s[i + 1].comp = g.comp + (i - 1) /\ s[i + 1].comp # c /\ s[i + 1].comp \in Comp
      <4>1. \A m \in Nat : m + ((i + 1) - 1) = (m + 1) + (i - 1) /\ m + ((i + 1) - 1) # m
        BY <3>1
      <4>2. c \in Nat
        BY Returns
      <4>3. QED
        BY <1>2, <3>1, <4>1, <4>2 DEF Frame
    <3>3. cursor'[s[i + 1].comp] = t /\ epoch' = epoch
      BY <3>1, <3>2, Returns
    <3>4. stack'[t][i - 1].at # "enter" => s[i + 1].prod <= stack'[t][i - 1].epoch
      <4>1. (i + 1) - 1 = i /\ i \in DOMAIN s
        BY <1>3, <2>2
      <4>2. s[i].at # "enter" => s[i + 1].prod <= s[i].epoch
        BY <1>1, <3>1, <4>1 DEF FrameOK
      <4>3. CASE i = 2
        <5>1. stack'[t][i - 1] = g /\ s[i] = f /\ f.at # "enter" /\ g.epoch = f.epoch
          BY <1>3, <1>2, <4>3
        <5>2. QED
          BY <4>2, <5>1
      <4>4. CASE i # 2
        <5>1. i - 1 \in 2 .. Len(s) - 1 /\ (i - 1) + 1 = i
          BY <1>3, <2>2, <4>4
        <5>2. QED
          BY <1>2, <4>2, <5>1
      <4>5. QED
        BY <4>3, <4>4
    <3>5. QED
      BY <1>1, <1>2, <3>1, <3>2, <3>3, <3>4 DEF FrameOK
  <2>3. QED
    BY <1>5, <2>1, <2>2
<1>7. ASSUME NEW j \in 1 .. Len(s) - 1, Live(stack[t][j], thread[t].page)'
       PROVE  j + 1 \in DOMAIN s /\ Live(s[j + 1], p)
  <2>1. thread'[t].page = p /\ epoch' = epoch
    BY <1>2, Returns DEF Returning
  <2>2. CASE j = 1
    <3>1. stack'[t][j] = g /\ j + 1 = 2
      BY <1>2, <2>2
    <3>2. g.epoch = epoch[g.comp] /\ Stable(g.comp, p)
      BY <1>7, <2>1, <3>1, Returns DEF Live
    <3>3. Live(f, p)
      BY <1>2, <3>2 DEF Live
    <3>4. QED
      BY <1>3, <3>1, <3>3
  <2>3. CASE j \in 2 .. Len(s) - 1
    <3>1. stack'[t][j] = s[j + 1] /\ j + 1 \in DOMAIN s
      BY <1>2, <1>5, <2>3
    <3>2. QED
      BY <1>7, <2>1, <3>1, Returns DEF Live
  <2>4. QED
    BY <1>5, <2>2, <2>3
<1>8. ASSUME NEW i \in 1 .. Len(s) - 1, LiveFrom(t, i)' PROVE Holding(stack[t][i], thread[t].page)'
  <2>1. PICK j \in 1 .. Len(s) - 1 : i <= j /\ Live(stack[t][j], thread[t].page)'
    BY <1>2, <1>8 DEF LiveFrom
  <2>2. /\ j + 1 \in DOMAIN s /\ Live(s[j + 1], p) /\ i + 1 <= j + 1 /\ 1 <= j + 1
        /\ i + 1 \in DOMAIN s
    BY <1>3, <1>7, <2>1
  <2>3. LiveFrom(t, i + 1) /\ LiveFrom(t, 1)
    BY <1>1, <2>2 DEF LiveFrom, Returning
  <2>4. Holding(s[i + 1], p)
    BY <1>1, <2>2, <2>3 DEF IInv, FrameFresh, Returning
  <2>5. thread'[t].page = p /\ model' = model
    <3>1. model' = model
      BY Returns
    <3>2. QED
      BY <1>2, <3>1 DEF Returning
  <2>6. CASE i = 1
    <3>1. 1 + 1 = 2 /\ stack'[t][i] = g
      BY <1>2, <2>6
    <3>2. g.own = model[g.comp][p]
      BY <1>3, <1>2, <2>4, <2>6, <3>1 DEF Holding
    <3>3. g.input = Fresh(g.comp - 1, p)'
      BY <1>2, <2>3, <2>5 DEF Returning, Fresh
    <3>4. QED
      BY <1>2, <2>5, <3>1, <3>2, <3>3 DEF Holding
  <2>7. CASE i \in 2 .. Len(s) - 1
    <3>1. stack'[t][i] = s[i + 1] /\ s[i + 1].at = "pulling"
      BY <1>4, <1>2, <1>5, <2>7
    <3>2. QED
      BY <2>4, <2>5, <3>1 DEF Holding
  <2>8. QED
    BY <1>5, <2>6, <2>7
<1>9. ASSUME NEW d \in Comp, cursor'[d] = t
       PROVE  \E i \in DOMAIN stack'[t] : stack'[t][i].comp = d /\ stack'[t][i].at # "enter"
  <2>1. d # c /\ cursor[d] = t
    BY <1>9, Returns
  <2>2. PICK j \in DOMAIN s : s[j].comp = d /\ s[j].at # "enter"
    BY <1>1, <2>1 DEF IInv, Sound, CursorSound
  <2>3. j # 1
    BY <1>3, <2>1, <2>2
  <2>4. CASE j = 2
    <3>1. stack'[t][1].comp = d /\ stack'[t][1].at # "enter"
      BY <1>3, <1>2, <2>2, <2>4
    <3>2. QED
      BY <1>2, <1>5, <3>1
  <2>5. CASE j # 2
    <3>1. j - 1 \in 2 .. Len(s) - 1 /\ (j - 1) + 1 = j /\ j - 1 \in 1 .. Len(s) - 1
      BY <1>5, <2>3, <2>5
    <3>2. stack'[t][j - 1] = s[j]
      BY <1>2, <3>1
    <3>3. QED
      BY <1>2, <2>2, <3>1, <3>2
  <2>6. QED
    BY <2>4, <2>5
<1>10. OwnCalls(t)
  <2>1. thread' = thread /\ thread[t].pc = "rendering"
    BY <1>2, TopFrame DEF Returning
  <2>2. QED
    BY <1>2, <1>6, <1>8, <1>9, <2>1 DEF OwnCalls
<1>11. Types'
  <2>1. /\ UNCHANGED <<model, settled, late, edit, edits, epoch, inflight, slipped>>
        /\ cursor' \in [Comp -> Thread \cup {Nobody}]
    BY Returns
  <2>2. cache' \in [Comp -> [Page -> Cached]]
    BY DEF Returning
  <2>3. Types
    BY DEF IInv, Sound
  <2>4. QED
    BY <1>2, <2>1, <2>2, <2>3 DEF Types
<1>12. HintSound'
  <2>1. h.page \in Page => f.comp > 1 /\ Len(h.shows) = f.comp - 1 /\ h.observed <= epoch[f.comp - 1]
    BY <1>2 DEF Returning
  <2>2. epoch' = epoch
    BY Returns
  <2>3. QED
    BY <1>2, <2>1, <2>2 DEF IInv, Sound, HintSound
<1>13. HintFresh'
  <2>1. ASSUME h.observed = epoch[f.comp - 1], Stable(f.comp - 1, h.page)
        PROVE  h.shows = Fresh(f.comp - 1, h.page)
    <3>1. s[1].epoch = epoch[c]
      <4>1. s[1].epoch \in Nat /\ epoch[c] \in Nat
        BY <1>3, Returns DEF IInv, Sound, Types, Frame
      <4>2. QED
        BY <1>2, <2>1, <4>1
    <3>2. Live(s[1], p)
      BY <1>3, <1>2, <2>1, <3>1 DEF Live
    <3>3. LiveFrom(t, 1)
      <4>1. p = thread[t].page /\ 1 <= 1
        BY DEF Returning
      <4>2. QED
        BY <1>1, <1>3, <3>2, <4>1, LiveHere
    <3>4. QED
      BY <1>2, <3>3 DEF Returning
  <2>2. UNCHANGED <<model, epoch>> /\ HintFresh
    BY Returns DEF IInv
  <2>3. ASSUME NEW d \in Comp, hint'[d].page \in Page, hint'[d].observed = epoch[d - 1],
               Stable(d - 1, hint[d].page)'
        PROVE  hint'[d].shows = Fresh(d - 1, hint'[d].page)
    <3>1. Stable(d - 1, hint'[d].page)
      BY <2>3, Returns
    <3>2. CASE d = f.comp
      BY <1>2, <2>1, <2>3, <3>1, <3>2
    <3>3. CASE d # f.comp
      BY <1>2, <2>2, <2>3, <3>1, <3>3 DEF HintFresh
    <3>4. QED
      BY <3>2, <3>3
  <2>4. QED
    BY <2>2, <2>3 DEF HintFresh, Fresh
<1>14. QED
  BY <1>3, <1>10, <1>2, <1>11, <1>12, <1>13, FreezeKeeps DEF Returning

LEMMA ReturnKeeps ==
    ASSUME IInv, NEW t \in Thread, NEW c, NEW p, NEW shows, Returning(t, c, p, shows), Return(t, shows)
    PROVE  IInv'
<1>1. Len(stack[t]) = 1 \/ Len(stack[t]) > 1
  <2>1. Len(stack[t]) \in Nat \ {0}
    BY TopFrame DEF Returning
  <2>2. \A n \in Nat \ {0} : n = 1 \/ n > 1
    OBVIOUS
  <2>3. QED
    BY <2>1, <2>2
<1>2. QED
  BY <1>1, OutermostReturns, InnermostReturns

\* A current page is returned: a live call is served nothing but what is fresh.
LEMMA HitReturns ==
    ASSUME IInv, NEW t \in Thread, FreezeHit(t)
    PROVE  LET c == Top(t).comp
               p == thread[t].page
           IN  Returning(t, c, p, cache[c][p].shows) /\ Return(t, cache[c][p].shows)
<1>1. PICK f, c, p : f = Top(t) /\ c = Top(t).comp /\ p = thread[t].page
  OBVIOUS
<1>2. /\ stack[t] # <<>> /\ f.at = "lookup" /\ Current(cache[c][p], f.epoch)
      /\ cursor' = [cursor EXCEPT ![c] = Nobody]
      /\ Return(t, cache[c][p].shows)
      /\ UNCHANGED <<editing, epoch, cache, inflight, slipped>>
  BY <1>1 DEF FreezeHit, In, caching
<1>3. /\ c \in Comp /\ p \in Page /\ f = stack[t][1] /\ 1 \in DOMAIN stack[t] /\ f.comp = c
      /\ Len(stack[t]) \in Nat \ {0}
  BY <1>1, <1>2, TopFrame
<1>4. /\ cache \in [Comp -> [Page -> Cached]] /\ CacheSound /\ CacheFresh
  BY DEF IInv, Sound, Types
<1>5. cache[c][p].shows \in Seq(Version) /\ Len(cache[c][p].shows) = c
  BY <1>2, <1>3, <1>4 DEF Cached, CacheSound, Current
<1>6. LiveFrom(t, 1) => cache[c][p].shows = Fresh(c, p)
  <2>1. LiveFrom(t, 1) => Holding(f, p)
    BY <1>1, <1>3, InHand
  <2>2. QED
    BY <1>2, <1>3, <2>1 DEF Holding
<1>7. CacheSound' /\ CacheFresh'
  BY <1>2, <1>4 DEF editing, CacheSound, CacheFresh, Stable, Reached, Touched, ReadsCurrent, Fresh
<1>8. Returning(t, c, p, cache[c][p].shows)
  BY <1>1, <1>2, <1>4, <1>5, <1>6, <1>7 DEF Returning
<1>9. QED
  BY <1>1, <1>2, <1>8

LEMMA FreezeHitKeeps ==
    ASSUME IInv, NEW t \in Thread, FreezeHit(t)
    PROVE  IInv'
BY HitReturns, ReturnKeeps

\* A rendered page is stamped with the epoch from before its render: if that is still
\* the component's epoch, the render was live and the page is fresh.
LEMMA StampReturns ==
    ASSUME IInv, NEW t \in Thread, FreezeStamp(t)
    PROVE  LET shows == Append(Top(t).input, Top(t).own)
           IN  Returning(t, Top(t).comp, thread[t].page, shows) /\ Return(t, shows)
<1>1. PICK f, c, p, shows : /\ f = Top(t) /\ c = Top(t).comp /\ p = thread[t].page
                            /\ shows = Append(f.input, f.own)
  OBVIOUS
<1>2. /\ stack[t] # <<>> /\ f.at = "stamp" /\ f.comp = c
      /\ cache' = (IF cache[c][p].present
                   THEN [cache EXCEPT ![c][p] = Frozen(f.epoch, shows)] ELSE cache)
      /\ cursor' = [cursor EXCEPT ![c] = Nobody]
      /\ Return(t, shows)
      /\ UNCHANGED <<editing, epoch, inflight, slipped>>
  BY <1>1 DEF FreezeStamp, In
<1>3. /\ c \in Comp /\ c \in Nat \ {0} /\ p \in Page /\ f = stack[t][1] /\ 1 \in DOMAIN stack[t]
      /\ f.own \in Version /\ f.input \in Seq(Version) /\ f.epoch \in Nat
      /\ Len(stack[t]) \in Nat \ {0} /\ FrameOK(t, 1) /\ epoch[c] \in Nat
  BY <1>1, <1>2, TopFrame
<1>4. /\ cache \in [Comp -> [Page -> Cached]] /\ CacheSound /\ CacheFresh /\ Types
  BY DEF IInv, Sound, Types
<1>5. f.epoch \in 1 .. epoch[c] /\ Len(f.input) = c - 1
  BY <1>2, <1>3 DEF FrameOK
<1>6. shows \in Seq(Version) /\ Len(shows) = c
  <2>1. shows \in Seq(Version) /\ Len(shows) = Len(f.input) + 1
    BY <1>1, <1>3, AppendProperties
  <2>2. QED
    BY <1>3, <1>5, <2>1
<1>7. LiveFrom(t, 1) => shows = Fresh(c, p)
  <2>1. SUFFICES ASSUME LiveFrom(t, 1) PROVE shows = Fresh(c, p)
    OBVIOUS
  <2>2. Holding(f, p)
    BY <1>1, <1>3, <2>1, InHand
  <2>3. f.own = model[c][p] /\ f.input = Fresh(c - 1, p)
    BY <1>2, <2>2 DEF Holding
  <2>4. QED
    BY <1>1, <1>3, <1>4, <2>3, FreshExtends
<1>8. /\ cache' \in [Comp -> [Page -> Cached]] /\ \A d \in Comp : d # c => cache'[d] = cache[d]
      /\ CacheSound' /\ CacheFresh'
  <2>1. UNCHANGED <<model, edit, late, epoch>>
    BY <1>2 DEF editing
  <2>2. CASE ~cache[c][p].present
    <3>1. cache' = cache
      BY <1>2, <2>2
    <3>2. QED
      BY <1>4, <2>1, <3>1 DEF CacheSound, CacheFresh, Stable, Reached, Touched, ReadsCurrent, Fresh
  <2>3. CASE cache[c][p].present
    <3>1. PICK page \in Cached : /\ page = Frozen(f.epoch, shows)
                                 /\ page.present /\ page.valid /\ page.stamp = f.epoch /\ page.shows = shows
      <4>1. Frozen(f.epoch, shows) \in Cached
        BY <1>3, <1>6 DEF Frozen, Cached
      <4>2. QED
        BY <4>1 DEF Frozen
    <3>2. cache' = [cache EXCEPT ![c][p] = page]
      BY <1>2, <2>3, <3>1
    <3>3. /\ cache' \in [Comp -> [Page -> Cached]] /\ cache'[c][p] = page
          /\ \A d \in Comp : d # c => cache'[d] = cache[d]
          /\ \A q \in Page : q # p => cache'[c][q] = cache[c][q]
      BY <1>3, <1>4, <3>2
    <3>4. CacheSound'
      <4>1. ASSUME NEW d \in Comp, NEW q \in Page
            PROVE  IF cache'[d][q].valid
                   THEN cache'[d][q].present /\ cache'[d][q].stamp \in 1 .. epoch[d] /\ Len(cache'[d][q].shows) = d
                   ELSE cache'[d][q].stamp = 0 /\ cache'[d][q].shows = <<>>
        <5>1. CASE d = c /\ q = p
          BY <1>5, <1>6, <3>1, <3>3, <5>1
        <5>2. CASE ~(d = c /\ q = p)
          <6>1. cache'[d][q] = cache[d][q]
            BY <3>3, <5>2
          <6>2. QED
            BY <1>4, <6>1 DEF CacheSound
        <5>3. QED
          BY <5>1, <5>2
      <4>2. QED
        BY <2>1, <4>1 DEF CacheSound
    <3>5. CacheFresh'
      <4>1. ASSUME NEW d \in Comp, NEW q \in Page, Stable(d, q)', ReadsCurrent(d, q)'
            PROVE  cache'[d][q].shows = Fresh(d, q)
        <5>1. Stable(d, q)
          BY <2>1, <4>1 DEF Stable, Reached, Touched
        <5>2. CASE d = c /\ q = p
          <6>1. f.epoch = epoch[c]
            BY <2>1, <3>1, <3>3, <4>1, <5>2 DEF ReadsCurrent
          <6>2. Live(f, p)
            BY <1>2, <5>1, <5>2, <6>1 DEF Live
          <6>3. LiveFrom(t, 1)
            BY <1>1, <1>3, <6>2 DEF LiveFrom
          <6>4. QED
            BY <1>7, <3>1, <3>3, <5>2, <6>3
        <5>3. CASE ~(d = c /\ q = p)
          <6>1. cache'[d][q] = cache[d][q]
            BY <3>3, <5>3
          <6>2. ReadsCurrent(d, q)
            BY <2>1, <4>1, <6>1 DEF ReadsCurrent
          <6>3. QED
            BY <1>4, <5>1, <6>1, <6>2 DEF CacheFresh
        <5>4. QED
          BY <5>2, <5>3
      <4>2. QED
        BY <2>1, <4>1 DEF CacheFresh, Fresh
    <3>6. QED
      BY <3>3, <3>4, <3>5
  <2>4. QED
    BY <2>2, <2>3
<1>9. Returning(t, c, p, shows)
  <2>1. Top(t).at # "enter"
    BY <1>1, <1>2
  <2>2. QED
    BY <1>1, <1>2, <1>6, <1>7, <1>8, <2>1 DEF Returning
<1>10. QED
  BY <1>1, <1>2, <1>9

LEMMA FreezeStampKeeps ==
    ASSUME IInv, NEW t \in Thread, FreezeStamp(t)
    PROVE  IInv'
BY StampReturns, ReturnKeeps

-----------------------------------------------------------------------------
(***************************************************************************)
(* The theorems                                                            *)
(***************************************************************************)
LEMMA NextKeeps == IInv /\ [Next]_vars => IInv'
<1> SUFFICES ASSUME IInv, [Next]_vars PROVE IInv'
  OBVIOUS
<1>1. CASE MainThread
  BY <1>1, EditBeginKeeps, EditBumpKeeps, PruneKeeps DEF MainThread
<1>2. ASSUME NEW t \in Thread, ThreadStep(t) PROVE IInv'
  <2>1. ~RunNode(t) /\ ~PullBound(t)
    BY OnlyPullers
  <2>2. CASE Freeze(t)
    BY <2>1, <2>2, FreezeEnterKeeps, FreezeHitKeeps, FreezeMissKeeps, PullHeldKeeps,
       PullProducerKeeps, FreezeStampKeeps DEF Freeze
  <2>3. CASE ServeRequest(t)
    BY <2>3, RequestKeeps, ClaimKeeps, EraseKeeps DEF ServeRequest
  <2>4. CASE Pull(t)
    BY <2>4, RequestKeeps DEF Pull
  <2>5. QED
    BY <1>2, <2>1, <2>2, <2>3, <2>4 DEF ThreadStep
<1>3. CASE UNCHANGED vars
  <2>1. /\ UNCHANGED <<model, settled, late, edit, edits, epoch, cache, cursor, hint, inflight,
                       thread, stack, slipped>>
    BY <1>3 DEF vars, editing, caching
  <2>2. /\ CacheSound' /\ HintSound' /\ StackSound' /\ CursorSound'
        /\ CacheFresh' /\ HintFresh' /\ FrameFresh'
    BY <2>1, AudioUntouched
  <2>3. Types' /\ InflightSound' /\ ThreadSound'
    BY <2>1 DEF IInv, Sound, Types, InflightSound, ThreadSound
  <2>4. QED
    BY <2>2, <2>3 DEF IInv, Sound
<1>4. QED
  BY <1>1, <1>2, <1>3 DEF Next

LEMMA WellFormed ==
    ASSUME IInv
    PROVE  TypeOK
<1>1. Types /\ CacheSound /\ HintSound /\ InflightSound /\ ThreadSound /\ StackSound
  BY DEF IInv, Sound
<1>2. ASSUME NEW s \in Seq(Version), NEW n \in Nat, Len(s) = n PROVE s \in Shows(n)
  BY <1>2, LenProperties, ElementOfSeq DEF Shows, Version
<1>3. \/ edit = NoEdit
      \/ /\ edit.path # <<>> /\ edit.path \in Seq(Comp)
         /\ edit.range \in Ranges /\ edit.whole \in BOOLEAN
  BY <1>1 DEF Types
<1>4. ASSUME NEW c \in Comp, NEW p \in Page
      PROVE  cache[c][p] \in {NoPage, Placeholder} \cup
                 {Frozen(stamp, shows) : stamp \in 1 .. epoch[c], shows \in Shows(c)}
  <2>1. cache[c][p] \in Cached
    BY <1>1 DEF Types
  <2>2. CASE cache[c][p].valid
    <3>1. /\ cache[c][p].present /\ cache[c][p].stamp \in 1 .. epoch[c]
          /\ cache[c][p].shows \in Seq(Version) /\ Len(cache[c][p].shows) = c
      BY <1>1, <2>1, <2>2 DEF CacheSound, Cached
    <3>2. cache[c][p].shows \in Shows(c)
      BY <1>2, <3>1, HeightAssumption DEF Comp
    <3>3. cache[c][p] = Frozen(cache[c][p].stamp, cache[c][p].shows)
      BY <2>1, <2>2, <3>1 DEF Cached, Frozen
    <3>4. QED
      BY <3>1, <3>2, <3>3
  <2>3. CASE ~cache[c][p].valid
    <3>1. cache[c][p].stamp = 0 /\ cache[c][p].shows = <<>>
      BY <1>1, <2>3 DEF CacheSound
    <3>2. CASE cache[c][p].present
      <4>1. Placeholder = [present |-> TRUE, valid |-> FALSE, stamp |-> 0, shows |-> <<>>]
        <5>1. <<>> \in Seq(Version)
          BY EmptySeq
        <5>2. Placeholder \in Cached /\ Placeholder.present /\ ~Placeholder.valid
              /\ Placeholder.stamp = 0 /\ Placeholder.shows = <<>>
          BY <5>1 DEF NoPage, Placeholder, Cached
        <5>3. QED
          BY <5>2 DEF Cached
      <4>2. cache[c][p] = [present |-> TRUE, valid |-> FALSE, stamp |-> 0, shows |-> <<>>]
        BY <2>1, <2>3, <3>1, <3>2 DEF Cached
      <4>3. QED
        BY <4>1, <4>2
    <3>3. CASE ~cache[c][p].present
      BY <2>1, <2>3, <3>1, <3>3 DEF Cached, NoPage
    <3>4. QED
      BY <3>2, <3>3
  <2>4. QED
    BY <2>2, <2>3
<1>5. ASSUME NEW c \in Comp, NEW p \in Page
      PROVE  inflight[c][p] \in {NoEntry} \cup [epoch : 1 .. epoch[c], owner : Thread]
  <2>1. inflight[c][p] \in [epoch : Nat, owner : Thread \cup {Nobody}]
    BY <1>1 DEF Types
  <2>2. QED
    BY <1>1, <2>1 DEF InflightSound
<1>6. ASSUME NEW c \in Comp, hint[c].page \in Page PROVE hint[c].shows \in Shows(c - 1)
  <2>1. hint[c].shows \in Seq(Version) /\ Len(hint[c].shows) = c - 1 /\ c - 1 \in Nat
    BY <1>1, <1>6, HeightAssumption DEF Types, Hinted, HintSound, Comp
  <2>2. QED
    BY <1>2, <2>1
<1>7. ASSUME NEW t \in Thread
      PROVE  /\ thread[t].pc \in Pc
             /\ \A i \in DOMAIN stack[t] : cursor[stack[t][i].comp] = t <=> stack[t][i].at # "enter"
  <2>1. thread[t].pc \in Pc
    BY <1>1 DEF Types, PullState, PullPc, Pc
  <2>2. \A i \in DOMAIN stack[t] : FrameOK(t, i)
    BY <1>1 DEF StackSound
  <2>3. QED
    BY <2>1, <2>2 DEF FrameOK
<1>8. QED
  BY <1>1, <1>3, <1>4, <1>5, <1>6, <1>7 DEF TypeOK, Types, Version

THEOREM FreshInductive == PullersOnly /\ Spec => []IInv
<1>1. PullersOnly /\ Init => IInv
  BY InitSound
<1>2. IInv /\ [Next]_vars => IInv'
  BY NextKeeps
<1>3. QED
  BY <1>1, <1>2, PTL DEF Spec

\* Stamps the component has had, audio of as many settings as stand behind the page, and
\* of every component in its freezePage a thread that holds the component's mutex.
THEOREM PagesAreWellFormed == PullersOnly /\ Spec => []TypeOK
<1>1. IInv => TypeOK
  BY WellFormed
<1>2. QED
  BY <1>1, FreshInductive, PTL

\* A page that reads current shows the model as it is now, where no bump of the edit
\* under way is still to come and none came late, after one downstream of it: a chain of
\* any height, edits bumped in any order, any number of threads calling requestPage(),
\* pages pruned while they are rendered.
THEOREM CurrentPagesAreFresh == PullersOnly /\ Spec => []CurrentIsFresh
<1>1. IInv => CurrentIsFresh
  BY DEF IInv, CacheFresh, Stable, InOrder, CurrentIsFresh
<1>2. QED
  BY <1>1, FreshInductive, PTL

-----------------------------------------------------------------------------
(***************************************************************************)
(* Walks that bump from the deepest up                                     *)
(***************************************************************************)
DeepestFirstOnly == \A c \in Comp : Walks[c] \subseteq {Path(c)}

NothingLate ==
    /\ DeepestFirstOnly /\ late = {}
    /\ \/ edit = NoEdit
       \/ \E k \in Comp : edit.path = Path(k) /\ edit # NoEdit

LEMMA BumpsInOrder ==
    ASSUME NothingLate, EditBump
    PROVE  NothingLate'
<1>1. PICK k \in Comp : edit.path = Path(k) /\ edit # NoEdit
  BY DEF NothingLate, EditBump
<1>2. /\ Head(Path(k)) = k /\ Path(k) # <<>> /\ Len(Path(k)) = Height - k + 1
      /\ (k < Height => Tail(Path(k)) = Path(k + 1)) /\ DOMAIN Path(k) = 1 .. Height - k + 1
  BY PathFrom
<1>3. k \in Nat /\ 1 <= k /\ k <= Height /\ Height \in Nat
  BY HeightAssumption DEF Comp
<1>4. PICK rest : rest = Tail(Path(k))
  OBVIOUS
<1>5. /\ late' = Overtaken(k, rest)
      /\ edit' = IF rest = <<>> THEN NoEdit ELSE [edit EXCEPT !.path = rest]
  BY <1>1, <1>2, <1>4 DEF EditBump
<1>6. CASE k = Height
  <2>1. k + 1 .. Height = {}
    BY <1>3, <1>6
  <2>2. late' = {}
    BY <1>5, <2>1 DEF Overtaken, NothingLate
  <2>3. rest = <<>>
    <3>1. Height - k + 1 = 1
      BY <1>3, <1>6
    <3>2. Path(k) \in Seq(Nat)
      BY <1>3, IsASeq DEF Path
    <3>3. rest \in Seq(Nat) /\ Len(rest) = Len(Path(k)) - 1
      BY <1>2, <1>4, <3>2, TailOf
    <3>4. Len(rest) = 0
      BY <1>2, <3>1, <3>3
    <3>5. QED
      BY <3>3, <3>4, EmptySeq
  <2>4. QED
    BY <1>5, <2>2, <2>3 DEF NothingLate, DeepestFirstOnly
<1>7. CASE k # Height
  <2>1. k < Height /\ k + 1 \in Comp
    BY <1>3, <1>7 DEF Comp
  <2>2. rest = Path(k + 1) /\ rest # <<>>
    BY <1>2, <1>4, <2>1, PathFrom
  <2>3. \A d \in k + 1 .. Height : \E i \in DOMAIN rest : rest[i] = d
    <3>1. TAKE d \in k + 1 .. Height
    <3>2. d - k \in 1 .. Height - (k + 1) + 1 /\ (k + 1) + (d - k) - 1 = d
      BY <1>3
    <3>3. d - k \in DOMAIN rest /\ rest[d - k] = d
      BY <2>1, <2>2, <3>2, PathFrom
    <3>4. QED
      BY <3>3
  <2>4. late' = {}
    BY <1>5, <2>3 DEF Overtaken, NothingLate
  <2>5. edit' # NoEdit /\ edit'.path = Path(k + 1)
    <3>1. edit' = [edit EXCEPT !.path = rest]
      BY <1>5, <2>2
    <3>2. edit'.path = rest \/ edit' = edit
      BY <3>1
    <3>3. QED
      BY <2>2, <3>1, <3>2 DEF NoEdit
  <2>6. QED
    BY <2>1, <2>4, <2>5 DEF NothingLate, DeepestFirstOnly
<1>8. QED
  BY <1>6, <1>7

\* Where every walk bumps from the edited component up to the root, no bump is late and
\* the properties above except nothing: for a track with neither an aux tap nor a send
\* between an edit and the root, the containment walk of sobject.cpp is such a walk.
THEOREM InOrderWalks == DeepestFirstOnly /\ Spec => [](late = {})
<1>1. DeepestFirstOnly /\ Init => NothingLate
  BY DEF Init, NothingLate
<1>2. NothingLate /\ [Next]_vars => NothingLate'
  <2>1. SUFFICES ASSUME NothingLate, [Next]_vars PROVE NothingLate'
    OBVIOUS
  <2>2. ASSUME NEW c \in Comp, NEW range, NEW whole, NEW walk \in Walks[c],
               EditBegin(c, range, whole, walk)
        PROVE  NothingLate'
    <3>1. walk = Path(c) /\ Path(c) # <<>>
      BY <2>1, PathFrom DEF NothingLate, DeepestFirstOnly
    <3>2. edit'.path = Path(c) /\ late' = {} /\ edit' # NoEdit
      BY <2>1, <2>2, <3>1 DEF EditBegin, NothingLate, NoEdit
    <3>3. QED
      BY <2>1, <3>2 DEF NothingLate, DeepestFirstOnly
  <2>3. ASSUME UNCHANGED editing PROVE NothingLate'
    BY <2>1, <2>3 DEF editing, NothingLate, DeepestFirstOnly
  <2>4. ASSUME NEW t \in Thread, ThreadStep(t) PROVE UNCHANGED editing
    BY <2>4 DEF ThreadStep, Freeze, FreezeEnter, FreezeHit, FreezeMiss, PullHeld, PullBound,
        PullProducer, FreezeStamp, ServeRequest, RequestFast, RequestAttach, RequestClaim,
        RequestErase, RequestDeliver, Pull, Request, Answer, RunNode, Demand, Plan, NodeFreeze,
        VerifyInput, RetryBind, RetryCheck, RetryDrop, RetryFreeze, SelfTest, SelfProbe,
        SelfRestale, Complete
  <2>5. ASSUME NEW c \in Comp, NEW p \in Page, Prune(c, p) PROVE UNCHANGED editing
    BY <2>5 DEF Prune
  <2>6. QED
    BY <2>1, <2>2, <2>3, <2>4, <2>5, BumpsInOrder DEF Next, MainThread, vars
<1>3. NothingLate => late = {}
  BY DEF NothingLate
<1>4. QED
  BY <1>1, <1>2, <1>3, PTL DEF Spec

=============================================================================
