----------------------- MODULE MidiOutSchedulerProofs -----------------------
(***************************************************************************)
(* The MIDI sender's safety for every ring size, panic length, clock and   *)
(* number of messages.  The inductive invariant has four parts: Control    *)
(* (which program counters go together), Order (where a message may lie    *)
(* relative to a later one), Cut (what a flush in any of its stages has    *)
(* left behind) and Books (every message in one place).                    *)
(*                                                                         *)
(* What an action does to the messages is one of nine Movements; Order and *)
(* Books are proved of those.                                              *)
(***************************************************************************)
EXTENDS MidiOutScheduler, SequenceTheorems, FiniteSetTheorems, TLAPS

-----------------------------------------------------------------------------
(***************************************************************************)
(* Sequences of messages                                                   *)
(***************************************************************************)
Distinct(s) == \A i, j \in DOMAIN s : s[i].id = s[j].id => i = j

\* Every position of a concatenation is one of the left or of the right part.
LEMMA Concat ==
    ASSUME NEW S, NEW s \in Seq(S), NEW t \in Seq(S)
    PROVE  /\ s \o t \in Seq(S) /\ Len(s \o t) = Len(s) + Len(t)
           /\ DOMAIN s \subseteq DOMAIN (s \o t)
           /\ \A i \in DOMAIN s : (s \o t)[i] = s[i]
           /\ \A i \in DOMAIN t : /\ Len(s) + i \in DOMAIN (s \o t)
                                  /\ (s \o t)[Len(s) + i] = t[i]
           /\ \A k \in DOMAIN (s \o t) :
                  \/ k \in DOMAIN s
                  \/ k - Len(s) \in DOMAIN t /\ (s \o t)[k] = t[k - Len(s)]
<1>1. s \o t \in Seq(S) /\ Len(s \o t) = Len(s) + Len(t)
      /\ \A i \in 1 .. Len(s) + Len(t) :
             (s \o t)[i] = IF i <= Len(s) THEN s[i] ELSE t[i - Len(s)]
  BY ConcatProperties
<1>2. DOMAIN s = 1 .. Len(s) /\ DOMAIN t = 1 .. Len(t) /\ DOMAIN (s \o t) = 1 .. Len(s \o t)
      /\ Len(s) \in Nat /\ Len(t) \in Nat
  BY <1>1, LenProperties
<1>3. QED
  BY <1>1, <1>2

LEMMA IdsOfConcat ==
    ASSUME NEW S, NEW s \in Seq(S), NEW t \in Seq(S)
    PROVE  /\ Ids(s \o t) = Ids(s) \cup Ids(t)
           /\ Distinct(s) /\ Distinct(t) /\ Ids(s) \cap Ids(t) = {} => Distinct(s \o t)
<1> DEFINE u == s \o t
<1>1. /\ DOMAIN s \subseteq DOMAIN u
      /\ \A i \in DOMAIN s : u[i] = s[i]
      /\ \A i \in DOMAIN t : Len(s) + i \in DOMAIN u /\ u[Len(s) + i] = t[i]
      /\ \A k \in DOMAIN u :
            k \in DOMAIN s \/ (k - Len(s) \in DOMAIN t /\ u[k] = t[k - Len(s)])
      /\ DOMAIN u \subseteq Int /\ Len(s) \in Int
  BY Concat, LenProperties
<1> HIDE DEF u
<1>2. Ids(u) = Ids(s) \cup Ids(t)
  <2>1. ASSUME NEW k \in DOMAIN u PROVE u[k].id \in Ids(s) \cup Ids(t)
    BY <1>1 DEF Ids
  <2>2. ASSUME NEW i \in DOMAIN s PROVE s[i].id \in Ids(u)
    BY <1>1 DEF Ids
  <2>3. ASSUME NEW i \in DOMAIN t PROVE t[i].id \in Ids(u)
    BY <1>1 DEF Ids
  <2>4. QED
    BY <2>1, <2>2, <2>3 DEF Ids
<1>3. ASSUME Distinct(s), Distinct(t), Ids(s) \cap Ids(t) = {},
             NEW i \in DOMAIN u, NEW j \in DOMAIN u, u[i].id = u[j].id
      PROVE  i = j
  <2>1. CASE i \in DOMAIN s /\ j \in DOMAIN s
    BY <1>1, <1>3, <2>1 DEF Distinct
  <2>2. CASE i \in DOMAIN s /\ j \notin DOMAIN s
    <3>1. u[i].id \in Ids(s) /\ u[j].id \in Ids(t)
      BY <1>1, <2>2 DEF Ids
    <3>2. QED
      BY <1>3, <3>1
  <2>3. CASE i \notin DOMAIN s /\ j \in DOMAIN s
    <3>1. u[i].id \in Ids(t) /\ u[j].id \in Ids(s)
      BY <1>1, <2>3 DEF Ids
    <3>2. QED
      BY <1>3, <3>1
  <2>4. CASE i \notin DOMAIN s /\ j \notin DOMAIN s
    <3>1. i - Len(s) = j - Len(s)
      BY <1>1, <1>3, <2>4 DEF Distinct
    <3>2. QED
      BY <1>1, <3>1
  <2>5. QED
    BY <2>1, <2>2, <2>3, <2>4
<1>4. QED
  BY <1>2, <1>3 DEF Distinct, u

LEMMA IdsOfAppend ==
    ASSUME NEW S, NEW s \in Seq(S), NEW m \in S
    PROVE  /\ Ids(Append(s, m)) = Ids(s) \cup {m.id}
           /\ Distinct(s) /\ m.id \notin Ids(s) => Distinct(Append(s, m))
<1>1. Append(s, m) \in Seq(S) /\ Len(Append(s, m)) = Len(s) + 1
      /\ \A i \in 1 .. Len(s) : Append(s, m)[i] = s[i]
      /\ Append(s, m)[Len(s) + 1] = m
  BY AppendProperties
<1>2. DOMAIN s = 1 .. Len(s) /\ DOMAIN Append(s, m) = 1 .. Len(s) + 1 /\ Len(s) \in Nat
  BY <1>1, LenProperties
<1>3. \A i \in DOMAIN Append(s, m) : i \in DOMAIN s \/ i = Len(s) + 1
  BY <1>2
<1>4. QED
  BY <1>1, <1>2, <1>3 DEF Ids, Distinct

LEMMA EmptyIds == Ids(<<>>) = {} /\ Distinct(<<>>)
BY DEF Ids, Distinct

\* Messages with different ids can be counted by their ids.
LEMMA DistinctCounts ==
    ASSUME NEW S, NEW s \in Seq(S), Distinct(s)
    PROVE  Cardinality(Ids(s)) = Len(s)
<1> DEFINE f == [i \in 1 .. Len(s) |-> s[i].id]
<1>1. DOMAIN s = 1 .. Len(s) /\ Len(s) \in Nat
  BY LenProperties
<1>2. IsFiniteSet(1 .. Len(s)) /\ Cardinality(1 .. Len(s)) = Len(s)
  BY <1>1, FS_Interval
<1>3. f \in Bijection(1 .. Len(s), Ids(s))
  <2>1. f \in [1 .. Len(s) -> Ids(s)]
    BY <1>1 DEF Ids
  <2>2. \A i, j \in 1 .. Len(s) : f[i] = f[j] => i = j
    BY <1>1 DEF Distinct
  <2>3. \A x \in Ids(s) : \E i \in 1 .. Len(s) : f[i] = x
    BY <1>1 DEF Ids
  <2>4. QED
    BY <2>1, <2>2, <2>3 DEF Bijection, Injection, Surjection, IsInjective
<1>4. QED
  BY <1>2, <1>3, FS_Bijection DEF ExistsBijection

-----------------------------------------------------------------------------
(***************************************************************************)
(* The inductive invariant                                                 *)
(***************************************************************************)
\* TypeOK, its bounds included, and what keeps the bounds.
Types ==
    /\ ring \in Seq(Message) /\ Len(ring) < RingSlots
    /\ imm \in Seq(Message) /\ Len(imm) < ImmediateSlots
    /\ pending \in Seq(Message)
    /\ sent \in Seq(Message)
    /\ idle \in BOOLEAN /\ discard \in BOOLEAN /\ stopping \in BOOLEAN
    /\ running \in BOOLEAN /\ woken \in BOOLEAN /\ stamped \in BOOLEAN
    /\ sender \in SenderPc
    /\ main \in [pc : MainPc, left : 0 .. PanicMessages, ids : SUBSET (1 .. MaxMessages)]
    /\ device \in {"free", "wake"}
    /\ now \in 0 .. MaxTime
    /\ accepted \in 0 .. MaxMessages /\ accepted + main.left <= MaxMessages
    /\ gone \subseteq 1 .. MaxMessages
    /\ flushFrom \in 0 .. accepted /\ horizon \in 0 .. accepted
    /\ promised \subseteq 1 .. MaxMessages

Control ==
    /\ main.pc = "panicSend" => main.left > 0
    /\ main.pc # "free" => running
    /\ sender # "off" => running
    /\ running /\ main.pc \notin {"stopWake", "join"} => sender # "off" /\ ~stopping
    /\ sender = "off" => pending = <<>>
    /\ idle => sender \in {"off", "top", "snapshot", "busy", "wait"}
    /\ sender \in {"settle", "wait"} => Len(pending) <= RingSlots

\* A sender past its look at a ring is being woken for what was pushed since.
Woken ==
    /\ sender \in {"send", "settle", "wait"} =>
           (ring # <<>> => woken \/ main.pc \in {"wake", "panicWake"})
    /\ sender \in {"check", "drop", "dropClear", "drain", "send", "settle", "wait"} =>
           (imm # <<>> => woken \/ device = "wake")

Order ==
    /\ \A i \in DOMAIN imm : imm[i].kind = "thru"
    /\ \A i \in DOMAIN ring : ring[i].id <= accepted
    /\ \A i \in DOMAIN pending : pending[i].id <= accepted
    /\ \A i \in DOMAIN sent : sent[i].id <= accepted
    /\ \A i, j \in DOMAIN ring : i < j => ring[i].id < ring[j].id
    /\ \A i, j \in DOMAIN pending : i < j => Before(pending[i], pending[j])
    /\ \A i \in DOMAIN pending, j \in DOMAIN ring : pending[i].id < ring[j].id
    /\ \A i \in DOMAIN sent : sent[i].kind # "thru" =>
           \A j \in DOMAIN ring : sent[i].id < ring[j].id
    /\ \A i \in DOMAIN sent : sent[i].kind # "thru" =>
           \A j \in DOMAIN pending : sent[i].due = pending[j].due => sent[i].id < pending[j].id
    /\ SameInstantInOrder

\* What may still be sent is younger than the horizon, except while the sender is
\* about to throw it away; and a flush that finds the sender idle finds nothing left.
Cut ==
    /\ sender # "drop" => \A i \in DOMAIN pending : pending[i].id > horizon
    /\ sender \notin {"drop", "off"} => \A i \in DOMAIN ring : ring[i].id > horizon
    /\ main.pc \in {"flushWake", "flushPoll"} /\ ~discard /\ idle =>
           ring = <<>> /\ pending = <<>>

Books ==
    /\ Distinct(ring) /\ Distinct(imm) /\ Distinct(pending) /\ Distinct(sent)
    /\ Ids(ring) \cap Ids(imm) = {} /\ Ids(ring) \cap Ids(pending) = {}
    /\ Ids(ring) \cap Ids(sent) = {} /\ Ids(imm) \cap Ids(pending) = {}
    /\ Ids(imm) \cap Ids(sent) = {} /\ Ids(pending) \cap Ids(sent) = {}
    /\ (Ids(ring) \cup Ids(imm) \cup Ids(pending) \cup Ids(sent)) \cap gone = {}
    /\ Ids(ring) \cup Ids(imm) \cup Ids(pending) \cup Ids(sent) \cup gone = 1 .. accepted

IInv == Types /\ Control /\ Woken /\ Order /\ Cut /\ Books

LEMMA InitSound == Init => IInv
<1> SUFFICES ASSUME Init PROVE IInv
  OBVIOUS
<1>1. Types
  <2>1. <<>> \in Seq(Message) /\ Len(<<>>) = 0
    OBVIOUS
  <2>2. 0 < RingSlots /\ 0 < ImmediateSlots /\ 0 \in 0 .. PanicMessages
        /\ 0 \in 0 .. MaxTime /\ 0 \in 0 .. MaxMessages /\ 0 + 0 <= MaxMessages
    BY SlotsAssumption, PanicAssumption, TimeAssumption, BoundAssumption
  <2>3. stamped \in BOOLEAN
    BY FlagsAssumption DEF Init
  <2>4. main \in [pc : MainPc, left : 0 .. PanicMessages, ids : SUBSET (1 .. MaxMessages)]
        /\ main.left = 0
    BY <2>2 DEF Init, Caller, MainPc
  <2>5. /\ ring \in Seq(Message) /\ Len(ring) < RingSlots
        /\ imm \in Seq(Message) /\ Len(imm) < ImmediateSlots
        /\ pending \in Seq(Message) /\ sent \in Seq(Message)
    BY <2>1, <2>2 DEF Init
  <2>6. /\ accepted \in 0 .. MaxMessages /\ accepted + main.left <= MaxMessages
        /\ flushFrom \in 0 .. accepted /\ horizon \in 0 .. accepted /\ now \in 0 .. MaxTime
    BY <2>2, <2>4 DEF Init
  <2>7. QED
    BY <2>3, <2>4, <2>5, <2>6 DEF Init, Types, SenderPc
<1>2. Control /\ Woken /\ Cut
  BY SlotsAssumption DEF Init, Control, Woken, Cut, Caller
<1>3. Order
  BY DEF Init, Order, SameInstantInOrder
<1>4. Books
  BY EmptyIds DEF Init, Books
<1>5. QED
  BY <1>1, <1>2, <1>3, <1>4 DEF IInv

-----------------------------------------------------------------------------
(***************************************************************************)
(* The movements of messages                                               *)
(***************************************************************************)
Still == UNCHANGED <<ring, imm, pending, sent, gone, accepted>>

Pushed(m) ==
    /\ m \in Message /\ m.id = accepted + 1
    /\ ring' = Append(ring, m) /\ accepted' = accepted + 1
    /\ UNCHANGED <<imm, pending, sent, gone>>

ThruPushed(m) ==
    /\ m \in Message /\ m.id = accepted + 1 /\ m.kind = "thru"
    /\ imm' = Append(imm, m) /\ accepted' = accepted + 1
    /\ UNCHANGED <<ring, pending, sent, gone>>

RingCleared ==
    /\ ring' = <<>> /\ gone' = gone \cup Ids(ring)
    /\ UNCHANGED <<imm, pending, sent, accepted>>

PendingCleared ==
    /\ pending' = <<>> /\ gone' = gone \cup Ids(pending)
    /\ UNCHANGED <<ring, imm, sent, accepted>>

ThruSent ==
    /\ sent' = sent \o imm /\ imm' = <<>>
    /\ UNCHANGED <<ring, pending, gone, accepted>>

Dropped ==
    /\ ring' = <<>> /\ pending' = <<>> /\ gone' = gone \cup Ids(pending \o ring)
    /\ UNCHANGED <<imm, sent, accepted>>

Merged ==
    /\ pending' \in Sorted(pending \o ring) /\ ring' = <<>>
    /\ UNCHANGED <<imm, sent, gone, accepted>>

\* n messages are kept, the first d of them are sent.
Dispatched(n, d) ==
    /\ n \in 0 .. Len(pending) /\ d \in 0 .. n
    /\ sent' \in Seq(Message) /\ Len(sent') = Len(sent) + d
    /\ \A i \in 1 .. Len(sent) : sent'[i] = sent[i]
    /\ \A i \in 1 .. d : sent'[Len(sent) + i] = pending[i]
    /\ pending' \in Seq(Message) /\ Len(pending') = n - d
    /\ \A i \in 1 .. n - d : pending'[i] = pending[d + i]
    /\ gone' = gone \cup (Ids(pending) \ {pending[i].id : i \in 1 .. n})
    /\ UNCHANGED <<ring, imm, accepted>>

Movement ==
    \/ Still
    \/ \E m \in Message : Pushed(m) \/ ThruPushed(m)
    \/ RingCleared \/ PendingCleared \/ ThruSent \/ Dropped \/ Merged
    \/ \E n, d \in Nat : Dispatched(n, d)
    \/ PanicInline

LEMMA UptoIsPrefix ==
    ASSUME NEW S, NEW s \in Seq(S), NEW n \in Nat
    PROVE  /\ Upto(s, n) \in Seq(S)
           /\ Len(Upto(s, n)) = IF n < Len(s) THEN n ELSE Len(s)
           /\ \A i \in 1 .. Len(Upto(s, n)) : Upto(s, n)[i] = s[i]
<1> DEFINE k == IF n < Len(s) THEN n ELSE Len(s)
<1>1. Len(s) \in Nat /\ k \in 0 .. Len(s)
  BY LenProperties
<1>2. \A i \in 1 .. k : s[i] \in S
  BY <1>1, ElementOfSeq
<1>3. Upto(s, n) = SubSeq(s, 1, k)
  BY DEF Upto
<1>4. SubSeq(s, 1, k) \in Seq(S) /\ Len(SubSeq(s, 1, k)) = k
      /\ \A i \in 1 .. k : SubSeq(s, 1, k)[i] = s[i]
  BY <1>1, <1>2, SubSeqProperties
<1>5. QED
  BY <1>3, <1>4

LEMMA RestAfter ==
    ASSUME NEW S, NEW s \in Seq(S), NEW d \in 0 .. Len(s)
    PROVE  /\ SubSeq(s, 1, d) \in Seq(S) /\ Len(SubSeq(s, 1, d)) = d
           /\ \A i \in 1 .. d : SubSeq(s, 1, d)[i] = s[i]
           /\ SubSeq(s, d + 1, Len(s)) \in Seq(S) /\ Len(SubSeq(s, d + 1, Len(s))) = Len(s) - d
           /\ \A i \in 1 .. Len(s) - d : SubSeq(s, d + 1, Len(s))[i] = s[d + i]
<1>1. Len(s) \in Nat
  BY LenProperties
<1>2. \A i \in 1 .. Len(s) : s[i] \in S
  BY ElementOfSeq
<1>3. /\ SubSeq(s, 1, d) \in Seq(S) /\ Len(SubSeq(s, 1, d)) = d
      /\ \A i \in 1 .. d : SubSeq(s, 1, d)[i] = s[i]
  BY <1>1, <1>2, SubSeqProperties
<1>4. /\ SubSeq(s, d + 1, Len(s)) \in Seq(S) /\ Len(SubSeq(s, d + 1, Len(s))) = Len(s) - d
      /\ \A i \in 1 .. Len(s) - d : SubSeq(s, d + 1, Len(s))[i] = s[d + i]
  BY <1>1, <1>2, SubSeqProperties
<1>5. QED
  BY <1>3, <1>4

LEMMA SendDispatches ==
    ASSUME IInv, Send
    PROVE  \E n, d \in Nat : Dispatched(n, d) /\ n <= RingSlots
<1> DEFINE kept == Upto(pending, RingSlots)
           n    == Len(kept)
           d    == IF stamped THEN Len(kept)
                              ELSE Cardinality({i \in DOMAIN kept : kept[i].due <= now})
<1>1. RingSlots \in Nat /\ pending \in Seq(Message) /\ sent \in Seq(Message)
      /\ Len(pending) \in Nat /\ Len(sent) \in Nat
  BY SlotsAssumption, LenProperties DEF IInv, Types
<1>2. kept \in Seq(Message) /\ n \in 0 .. Len(pending) /\ n <= RingSlots
      /\ \A i \in 1 .. n : kept[i] = pending[i]
  BY <1>1, UptoIsPrefix
<1>3. DOMAIN kept = 1 .. n
  BY <1>2, LenProperties
<1>4. d \in 0 .. n
  <2>1. {i \in DOMAIN kept : kept[i].due <= now} \in SUBSET (1 .. n)
    BY <1>3
  <2>2. IsFiniteSet(1 .. n) /\ Cardinality(1 .. n) = n
    <3>1. \A k \in Nat : IsFiniteSet(1 .. k) /\ Cardinality(1 .. k) = k
      BY FS_Interval
    <3>2. n \in Nat
      BY <1>1, <1>2
    <3>3. QED
      BY <3>1, <3>2
  <2>3. Cardinality({i \in DOMAIN kept : kept[i].due <= now}) \in 0 .. n
    BY <1>2, <2>1, <2>2, FS_Subset, FS_CardinalityType
  <2>4. QED
    BY <1>2, <2>3
<1>5. sent' = sent \o SubSeq(kept, 1, d) /\ pending' = SubSeq(kept, d + 1, n)
      /\ gone' = gone \cup (Ids(pending) \ Ids(kept))
      /\ UNCHANGED <<ring, imm, accepted>>
  BY DEF Send
<1> HIDE DEF d, kept
<1>6. /\ SubSeq(kept, 1, d) \in Seq(Message) /\ Len(SubSeq(kept, 1, d)) = d
      /\ \A i \in 1 .. d : SubSeq(kept, 1, d)[i] = kept[i]
      /\ pending' \in Seq(Message) /\ Len(pending') = n - d
      /\ \A i \in 1 .. n - d : pending'[i] = kept[d + i]
  BY <1>2, <1>4, <1>5, RestAfter
<1>7. /\ sent' \in Seq(Message) /\ Len(sent') = Len(sent) + d
      /\ \A i \in 1 .. Len(sent) : sent'[i] = sent[i]
      /\ \A i \in 1 .. d : sent'[Len(sent) + i] = kept[i]
  <2> DEFINE t == SubSeq(kept, 1, d)
  <2>1. t \in Seq(Message) /\ Len(t) = d /\ DOMAIN t = 1 .. d /\ DOMAIN sent = 1 .. Len(sent)
    BY <1>1, <1>6, LenProperties
  <2>2. sent' = sent \o t /\ \A i \in 1 .. d : t[i] = kept[i]
    BY <1>5, <1>6
  <2> HIDE DEF t
  <2>3. QED
    BY <1>1, <2>1, <2>2, Concat
<1>8. Ids(kept) = {pending[i].id : i \in 1 .. n}
  BY <1>2, <1>3 DEF Ids
<1>9. Dispatched(n, d)
  <2>1. \A i \in 1 .. d : i \in 1 .. n
    BY <1>2, <1>4
  <2>2. \A i \in 1 .. n - d : d + i \in 1 .. n
    BY <1>2, <1>4
  <2>3. gone' = gone \cup (Ids(pending) \ {pending[i].id : i \in 1 .. n})
    BY <1>5, <1>8
  <2>4. \A i \in 1 .. d : sent'[Len(sent) + i] = pending[i]
    BY <1>2, <1>7, <2>1
  <2>5. \A i \in 1 .. n - d : pending'[i] = pending[d + i]
    BY <1>2, <1>6, <2>2
  <2>6. QED
    BY <1>2, <1>4, <1>5, <1>6, <1>7, <2>3, <2>4, <2>5 DEF Dispatched
<1>10. n \in Nat /\ d \in Nat
  BY <1>2, <1>4
<1>11. QED
  BY <1>2, <1>9, <1>10

\* The three calls that put a message into a ring have room for it and an id left.
LEMMA Pushes ==
    ASSUME IInv, PanicSend \/ \E due \in 0 .. MaxDue : Enqueue(due)
    PROVE  RingHasRoom /\ \E m \in Message : Pushed(m)
<1>1. accepted \in Nat /\ MaxMessages \in Nat /\ MaxDue \in Nat /\ main.left \in Nat
      /\ accepted + main.left <= MaxMessages /\ (main.pc = "panicSend" => main.left > 0)
  BY BoundAssumption, TimeAssumption, PanicAssumption DEF IInv, Types, Control
<1>2. accepted + 1 <= MaxMessages
  BY <1>1 DEF PanicSend, Enqueue, Within
<1>3. PICK due \in 0 .. MaxDue, kind \in {"pump", "panic"} : Push(due, kind)
  BY <1>1 DEF PanicSend, Enqueue
<1> DEFINE m == [id |-> accepted + 1, due |-> due, kind |-> kind]
<1>4. m \in Message /\ m.id = accepted + 1
  BY <1>1, <1>2, <1>3 DEF Message, Kind
<1>5. Pushed(m)
  BY <1>3, <1>4 DEF PanicSend, Enqueue, Push, Pushed
<1>6. QED
  BY <1>4, <1>5 DEF PanicSend, Enqueue

LEMMA ThruPushes ==
    ASSUME IInv, ThruPush
    PROVE  \E m \in Message : ThruPushed(m)
<1>1. accepted \in Nat /\ MaxMessages \in Nat /\ MaxDue \in Nat /\ main.left \in Nat
  BY BoundAssumption, TimeAssumption, PanicAssumption DEF IInv, Types
<1>2. accepted + 1 <= MaxMessages
  BY <1>1 DEF ThruPush, Within
<1> DEFINE m == [id |-> accepted + 1, due |-> 0, kind |-> "thru"]
<1>3. m \in Message /\ m.id = accepted + 1 /\ m.kind = "thru"
  BY <1>1, <1>2 DEF Message, Kind
<1>4. ThruPushed(m)
  BY <1>3 DEF ThruPush, ThruPushed
<1>5. QED
  BY <1>3, <1>4

\* Every step of the system moves messages in one of these ways.
LEMMA StepsMove ==
    ASSUME IInv, [Next]_vars
    PROVE  Movement
<1>2. CASE UNCHANGED vars
  BY <1>2 DEF vars, rings, books, Still, Movement
<1>3. CASE Sender
  <2>1. CASE Exit
    BY <2>1 DEF Exit, PendingCleared, Movement
  <2>2. CASE Go \/ Snapshot \/ MarkBusy \/ CheckDiscard \/ DropClear \/ Settle \/ WaitOver
    BY <2>2 DEF Go, Snapshot, MarkBusy, CheckDiscard, DropClear, Settle, WaitOver, rings, books,
                Still, Movement
  <2>3. CASE DrainImmediate
    BY <2>3 DEF DrainImmediate, ThruSent, Movement
  <2>4. CASE Drop
    BY <2>4 DEF Drop, Dropped, Movement
  <2>5. CASE Drain
    BY <2>5 DEF Drain, Merged, Movement, books
  <2>6. CASE Send
    BY <2>6, SendDispatches DEF Movement
  <2>7. QED
    BY <1>3, <2>1, <2>2, <2>3, <2>4, <2>5, <2>6 DEF Sender
<1>4. CASE Continue
  <2>1. CASE PanicSend
    BY <2>1, Pushes DEF Movement
  <2>2. CASE \E from, to \in MainPc : Wake(from, to)
    BY <2>2 DEF Wake, rings, books, Still, Movement
  <2>3. CASE FlushReturn \/ FlushTimeout \/ PanicRefused \/ PanicSawIdle \/ PanicPollAgain
             \/ PanicReturn \/ PanicTimeout \/ StopJoined
    BY <2>3 DEF FlushReturn, FlushTimeout, PanicRefused, PanicSawIdle, PanicPollAgain,
                PanicReturn, PanicTimeout, StopJoined, rings, books, Still, Movement
  <2>4. CASE PanicWake
    BY <2>4 DEF PanicWake, Wake, rings, books, Still, Movement
  <2>5. QED
    BY <1>4, <2>1, <2>2, <2>3, <2>4 DEF Continue, MainPc
<1>5. CASE Call
  <2>1. CASE \E due \in 0 .. MaxDue : Enqueue(due)
    BY <2>1, Pushes DEF Movement
  <2>2. CASE \E messages \in {0, PanicMessages} : FlushBegin(messages)
    BY <2>2 DEF FlushBegin, rings, Still, Movement
  <2>3. CASE StopBegin
    BY <2>3 DEF StopBegin, rings, books, Still, Movement
  <2>4. CASE FlushInline \/ Start
    BY <2>4 DEF FlushInline, Start, RingCleared, Movement
  <2>5. CASE PanicInline
    BY <2>5 DEF Movement
  <2>6. QED
    BY <1>5, <2>1, <2>2, <2>3, <2>4, <2>5 DEF Call
<1>6. CASE Device
  <2>1. CASE ThruPush
    BY <2>1, ThruPushes DEF Movement
  <2>2. CASE ThruWake
    BY <2>2 DEF ThruWake, rings, books, Still, Movement
  <2>3. QED
    BY <1>6, <2>1, <2>2 DEF Device
<1>7. CASE Tick
  BY <1>7 DEF Tick, rings, books, Still, Movement
<1>8. QED
  BY <1>2, <1>3, <1>4, <1>5, <1>6, <1>7 DEF Next

\* The bytes of a panic without a sender.
PanicBytes == [i \in 1 .. PanicMessages |-> [id |-> accepted + i, due |-> 0, kind |-> "panic"]]

LEMMA PanicBytesAre ==
    ASSUME IInv, PanicInline
    PROVE  /\ PanicBytes \in Seq(Message) /\ Len(PanicBytes) = PanicMessages
           /\ DOMAIN PanicBytes = 1 .. PanicMessages
           /\ \A i \in 1 .. PanicMessages :
                  PanicBytes[i].id = accepted + i /\ PanicBytes[i].kind = "panic"
           /\ Ids(PanicBytes) = accepted + 1 .. accepted + PanicMessages
           /\ Distinct(PanicBytes)
           /\ accepted \in Nat /\ PanicMessages \in Nat
           /\ accepted + PanicMessages <= MaxMessages
           /\ pending = <<>> /\ sender = "off"
           /\ sent' = sent \o PanicBytes
<1>1. accepted \in Nat /\ PanicMessages \in Nat /\ MaxMessages \in Nat /\ MaxDue \in Nat
      /\ main.left \in Nat
  BY PanicAssumption, BoundAssumption, TimeAssumption DEF IInv, Types
<1>2. accepted + PanicMessages <= MaxMessages
  BY <1>1 DEF PanicInline, Within
<1>3. \A i \in 1 .. PanicMessages : PanicBytes[i] \in Message
                                    /\ PanicBytes[i].id = accepted + i
                                    /\ PanicBytes[i].kind = "panic"
  BY <1>1, <1>2 DEF PanicBytes, Message, Kind
<1>4. PanicBytes \in Seq(Message) /\ Len(PanicBytes) = PanicMessages
  BY <1>1, <1>3, IsASeq DEF PanicBytes
<1>5. DOMAIN PanicBytes = 1 .. PanicMessages
  BY DEF PanicBytes
<1>6. Ids(PanicBytes) = accepted + 1 .. accepted + PanicMessages
  <2>1. ASSUME NEW n \in accepted + 1 .. accepted + PanicMessages
        PROVE  n \in Ids(PanicBytes)
    <3>1. n - accepted \in 1 .. PanicMessages /\ accepted + (n - accepted) = n
      BY <1>1
    <3>2. QED
      BY <1>3, <1>5, <3>1 DEF Ids
  <2>2. Ids(PanicBytes) \subseteq accepted + 1 .. accepted + PanicMessages
    BY <1>1, <1>3, <1>5 DEF Ids
  <2>3. QED
    BY <2>1, <2>2
<1>7. Distinct(PanicBytes)
  BY <1>1, <1>3, <1>5 DEF Distinct
<1>8. ~running /\ sender = "off" /\ pending = <<>>
  BY DEF PanicInline, IInv, Control
<1>9. sent' = sent \o PanicBytes
  BY DEF PanicInline, PanicBytes
<1>10. QED
  BY <1>1, <1>2, <1>3, <1>4, <1>5, <1>6, <1>7, <1>8, <1>9

\* The merged list: the same messages, strictly in order, so each of them once.
LEMMA SortedList ==
    ASSUME NEW s \in Seq(Message), NEW t \in Sorted(s)
    PROVE  /\ t \in Seq(Message) /\ DOMAIN t = DOMAIN s
           /\ Ids(t) = Ids(s)
           /\ \A i \in DOMAIN t : \E k \in DOMAIN s : t[i] = s[k]
           /\ \A i, j \in DOMAIN t : i < j => Before(t[i], t[j])
           /\ Distinct(s) => Distinct(t)
<1>1. DOMAIN s = 1 .. Len(s) /\ Len(s) \in Nat /\ \A k \in DOMAIN s : s[k] \in Message
  BY LenProperties, ElementOfSeq
<1>2. /\ t \in [DOMAIN s -> {s[i] : i \in DOMAIN s}]
      /\ {t[i] : i \in DOMAIN s} = {s[i] : i \in DOMAIN s}
      /\ \A i, j \in DOMAIN t : i < j => Before(t[i], t[j])
  BY DEF Sorted, Rearranged
<1>3. DOMAIN t = DOMAIN s
  BY <1>2
<1>4. \A i \in DOMAIN t : \E k \in DOMAIN s : t[i] = s[k]
  BY <1>2
<1>5. t \in Seq(Message)
  <2>1. \A i \in 1 .. Len(s) : t[i] \in Message
    BY <1>1, <1>3, <1>4
  <2>2. t = [i \in 1 .. Len(s) |-> t[i]]
    BY <1>1, <1>2
  <2>3. QED
    BY <1>1, <2>1, <2>2, IsASeq
<1>6. Ids(t) = Ids(s)
  <2>1. Ids(t) \subseteq Ids(s)
    BY <1>4 DEF Ids
  <2>2. \A k \in DOMAIN s : \E i \in DOMAIN t : t[i] = s[k]
    BY <1>2, <1>3
  <2>3. Ids(s) \subseteq Ids(t)
    BY <2>2 DEF Ids
  <2>4. QED
    BY <2>1, <2>3
<1>7. ASSUME Distinct(s), NEW i \in DOMAIN t, NEW j \in DOMAIN t, t[i].id = t[j].id
      PROVE  i = j
  <2>1. PICK k \in DOMAIN s : t[i] = s[k]
    BY <1>4
  <2>2. PICK l \in DOMAIN s : t[j] = s[l]
    BY <1>4
  <2>3. t[i] = t[j]
    BY <1>7, <2>1, <2>2 DEF Distinct
  <2>4. t[i].due \in Nat /\ t[i].id \in Nat
    BY <1>1, <2>1, BoundAssumption, TimeAssumption DEF Message
  <2>5. ~Before(t[i], t[i])
    BY <2>4 DEF Before
  <2>6. i \in Int /\ j \in Int
    BY <1>1, <1>3
  <2>7. QED
    BY <1>2, <2>3, <2>5, <2>6
<1>8. QED
  BY <1>2, <1>3, <1>4, <1>5, <1>6, <1>7 DEF Distinct

LEMMA IdsAreBounded ==
    ASSUME NEW s \in Seq(Message)
    PROVE  Ids(s) \subseteq 1 .. MaxMessages
<1>1. \A i \in DOMAIN s : s[i] \in Message
  BY ElementOfSeq, LenProperties
<1>2. \A m \in Message : m.id \in 1 .. MaxMessages
  BY DEF Message
<1>3. QED
  BY <1>1, <1>2 DEF Ids

LEMMA MovedTypes ==
    ASSUME IInv, Movement
    PROVE  /\ ring' \in Seq(Message) /\ imm' \in Seq(Message)
           /\ pending' \in Seq(Message) /\ sent' \in Seq(Message)
           /\ accepted' \in 0 .. MaxMessages /\ accepted <= accepted'
           /\ gone' \subseteq 1 .. MaxMessages
<1>1. /\ ring \in Seq(Message) /\ imm \in Seq(Message)
      /\ pending \in Seq(Message) /\ sent \in Seq(Message) /\ <<>> \in Seq(Message)
      /\ pending \o ring \in Seq(Message) /\ sent \o imm \in Seq(Message)
  BY Concat DEF IInv, Types
<1>2. accepted \in 0 .. MaxMessages /\ gone \subseteq 1 .. MaxMessages /\ MaxMessages \in Nat
  BY BoundAssumption DEF IInv, Types
<1>3. ring' \in Seq(Message)
  <2>1. \A m \in Message : Append(ring, m) \in Seq(Message)
    BY <1>1, AppendProperties
  <2>2. ring' = ring \/ ring' = <<>> \/ \E m \in Message : ring' = Append(ring, m)
    BY DEF Movement, Still, Pushed, ThruPushed, RingCleared, PendingCleared, ThruSent, Dropped,
           Merged, Dispatched, PanicInline
  <2>3. QED
    BY <1>1, <2>1, <2>2
<1>4. imm' \in Seq(Message)
  <2>1. \A m \in Message : Append(imm, m) \in Seq(Message)
    BY <1>1, AppendProperties
  <2>2. imm' = imm \/ imm' = <<>> \/ \E m \in Message : imm' = Append(imm, m)
    BY DEF Movement, Still, Pushed, ThruPushed, RingCleared, PendingCleared, ThruSent, Dropped,
           Merged, Dispatched, PanicInline
  <2>3. QED
    BY <1>1, <2>1, <2>2
<1>5. pending' \in Seq(Message)
  <2>1. pending' = pending \/ pending' = <<>> \/ pending' \in Seq(Message)
        \/ pending' \in Sorted(pending \o ring)
    BY DEF Movement, Still, Pushed, ThruPushed, RingCleared, PendingCleared, ThruSent, Dropped,
           Merged, Dispatched, PanicInline
  <2>2. QED
    BY <1>1, <2>1, SortedList
<1>6. sent' \in Seq(Message)
  <2>1. CASE PanicInline
    <3>1. PanicBytes \in Seq(Message) /\ sent' = sent \o PanicBytes
      BY <2>1, PanicBytesAre
    <3>2. QED
      BY <1>1, <3>1, Concat
  <2>2. CASE ~PanicInline
    <3>1. sent' = sent \/ sent' = sent \o imm \/ sent' \in Seq(Message)
      BY <2>2 DEF Movement, Still, Pushed, ThruPushed, RingCleared, PendingCleared, ThruSent,
                  Dropped, Merged, Dispatched
    <3>2. QED
      BY <1>1, <3>1
  <2>3. QED
    BY <2>1, <2>2
<1>7. accepted' \in 0 .. MaxMessages /\ accepted <= accepted'
  <2>1. CASE PanicInline
    <3>1. accepted' = accepted + PanicMessages
      BY <2>1 DEF PanicInline
    <3>2. QED
      BY <1>2, <2>1, <3>1, PanicBytesAre
  <2>2. CASE ~PanicInline
    <3>1. accepted' = accepted
          \/ \E m \in Message : accepted' = accepted + 1 /\ m.id = accepted + 1
      BY <2>2 DEF Movement, Still, Pushed, ThruPushed, RingCleared, PendingCleared, ThruSent,
                  Dropped, Merged, Dispatched
    <3>2. \A m \in Message : m.id \in 1 .. MaxMessages
      BY DEF Message
    <3>3. QED
      BY <1>2, <3>1, <3>2
  <2>3. QED
    BY <2>1, <2>2
<1>8. gone' \subseteq 1 .. MaxMessages
  <2>1. gone' \subseteq gone \cup Ids(ring) \cup Ids(pending) \cup Ids(pending \o ring)
    BY DEF Movement, Still, Pushed, ThruPushed, RingCleared, PendingCleared, ThruSent, Dropped,
           Merged, Dispatched, PanicInline
  <2>2. Ids(ring) \subseteq 1 .. MaxMessages /\ Ids(pending) \subseteq 1 .. MaxMessages
        /\ Ids(pending \o ring) \subseteq 1 .. MaxMessages
    BY <1>1, IdsAreBounded
  <2>3. QED
    BY <1>2, <2>1, <2>2
<1>9. QED
  BY <1>3, <1>4, <1>5, <1>6, <1>7, <1>8

-----------------------------------------------------------------------------
(***************************************************************************)
(* Types, control and the wake-ups                                         *)
(***************************************************************************)
LEMMA TypesKept == IInv /\ [Next]_vars => Types'
<1> SUFFICES ASSUME IInv, [Next]_vars PROVE Types'
  OBVIOUS
<1>1. Types
  BY DEF IInv
<1>2. /\ ring' \in Seq(Message) /\ imm' \in Seq(Message)
      /\ pending' \in Seq(Message) /\ sent' \in Seq(Message)
      /\ accepted' \in 0 .. MaxMessages /\ accepted <= accepted'
      /\ gone' \subseteq 1 .. MaxMessages
  BY StepsMove, MovedTypes
<1>3. MaxMessages \in Nat /\ PanicMessages \in Nat \ {0} /\ RingSlots \in Nat \ {0}
      /\ ImmediateSlots \in Nat \ {0} /\ MaxTime \in Nat /\ accepted \in Nat
      /\ main.left \in Nat /\ Len(<<>>) = 0
  BY <1>1, BoundAssumption, PanicAssumption, SlotsAssumption, TimeAssumption DEF Types
<1>4. Len(ring') < RingSlots /\ Len(imm') < ImmediateSlots
  <2>1. \A m \in Message : /\ Len(Append(ring, m)) = Len(ring) + 1
                           /\ Len(Append(imm, m)) = Len(imm) + 1
    BY <1>1, AppendProperties DEF Types
  <2>2. Len(ring) \in Nat /\ Len(imm) \in Nat /\ Len(ring) < RingSlots /\ Len(imm) < ImmediateSlots
    BY <1>1, LenProperties DEF Types
  <2>3. /\ \/ ring' = ring
           \/ ring' = <<>>
           \/ RingHasRoom /\ (\E m \in Message : ring' = Append(ring, m))
        /\ \/ imm' = imm
           \/ imm' = <<>>
           \/ Len(imm) + 1 < ImmediateSlots /\ (\E m \in Message : imm' = Append(imm, m))
    <3>1. CASE Sender
      BY <3>1 DEF Sender, Exit, Go, Snapshot, MarkBusy, DrainImmediate, CheckDiscard, Drop,
                  DropClear, Drain, Send, Settle, WaitOver, rings
    <3>2. CASE Continue
      <4>1. CASE PanicSend
        BY <4>1, Pushes DEF Pushed
      <4>2. CASE ~PanicSend
        BY <3>2, <4>2 DEF Continue, Wake, FlushReturn, FlushTimeout, PanicRefused, PanicWake,
              PanicSawIdle, PanicPollAgain, PanicReturn, PanicTimeout, StopJoined, rings
      <4>3. QED
        BY <4>1, <4>2
    <3>3. CASE Call
      <4>1. CASE \E due \in 0 .. MaxDue : Enqueue(due)
        BY <4>1, Pushes DEF Pushed
      <4>2. QED
        BY <3>3, <4>1 DEF Call, FlushBegin, FlushInline, PanicInline, StopBegin, Start, rings
    <3>4. CASE Device
      <4>1. CASE ThruPush
        BY <4>1, ThruPushes DEF ThruPush, ThruPushed
      <4>2. QED
        BY <3>4, <4>1 DEF Device, ThruWake, rings
    <3>5. CASE Tick \/ UNCHANGED vars
      BY <3>5 DEF Tick, vars, rings
    <3>6. QED
      BY <3>1, <3>2, <3>3, <3>4, <3>5 DEF Next
  <2>4. QED
    BY <1>3, <2>1, <2>2, <2>3 DEF RingHasRoom
<1>6. /\ idle' \in BOOLEAN /\ discard' \in BOOLEAN /\ stopping' \in BOOLEAN
      /\ running' \in BOOLEAN /\ woken' \in BOOLEAN /\ stamped' \in BOOLEAN
      /\ sender' \in SenderPc /\ device' \in {"free", "wake"} /\ now' \in 0 .. MaxTime
  <2>0. /\ idle \in BOOLEAN /\ discard \in BOOLEAN /\ stopping \in BOOLEAN
        /\ running \in BOOLEAN /\ woken \in BOOLEAN /\ stamped \in BOOLEAN
        /\ sender \in SenderPc /\ device \in {"free", "wake"} /\ now \in 0 .. MaxTime
    BY <1>1 DEF Types
  <2>1. CASE Sender
    <3>1. UNCHANGED <<stopping, running, stamped, device, now>>
      BY <2>1 DEF Sender, Exit, Go, Snapshot, MarkBusy, DrainImmediate, CheckDiscard, Drop,
                  DropClear, Drain, Send, Settle, WaitOver, flags
    <3>2. sender' \in SenderPc
      BY <2>1 DEF Sender, SenderStep, SenderPc, Exit, Go, Snapshot, MarkBusy, DrainImmediate,
                  CheckDiscard, Drop, DropClear, Drain, Send, Settle, WaitOver
    <3>3. idle' \in BOOLEAN /\ discard' \in BOOLEAN /\ woken' \in BOOLEAN
      BY <2>0, <2>1 DEF Sender, Exit, Go, Snapshot, MarkBusy, DrainImmediate, CheckDiscard, Drop,
                        DropClear, Drain, Send, Settle, WaitOver, flags
    <3>4. QED
      BY <2>0, <3>1, <3>2, <3>3
  <2>2. CASE Continue
    <3>1. UNCHANGED <<idle, discard, stopping, stamped, sender, device, now>>
      BY <2>2 DEF Continue, Wake, FlushReturn, FlushTimeout, PanicSend, PanicRefused, PanicWake,
                  PanicSawIdle, PanicPollAgain, PanicReturn, PanicTimeout, StopJoined, flags
    <3>2. running' \in BOOLEAN /\ woken' \in BOOLEAN
      BY <2>0, <2>2 DEF Continue, Wake, FlushReturn, FlushTimeout, PanicSend, PanicRefused,
                  PanicWake, PanicSawIdle, PanicPollAgain, PanicReturn, PanicTimeout, StopJoined,
                  flags
    <3>3. QED
      BY <2>0, <3>1, <3>2
  <2>3. CASE Call
    <3>1. UNCHANGED <<idle, discard, stopping, running, woken, sender>> \/ Start \/ StopBegin
          \/ (discard' = TRUE /\ UNCHANGED <<idle, stopping, running, woken, sender>>)
      BY <2>3 DEF Call, Enqueue, FlushBegin, FlushInline, PanicInline, flags
    <3>2. UNCHANGED <<stamped, device, now>>
      BY <2>3 DEF Call, Enqueue, FlushBegin, FlushInline, PanicInline, StopBegin, Start
    <3>3. CASE Start
      BY <2>0, <3>2, <3>3 DEF Start, SenderPc
    <3>4. CASE StopBegin
      BY <2>0, <3>2, <3>4 DEF StopBegin
    <3>5. QED
      BY <2>0, <3>1, <3>2, <3>3, <3>4
  <2>4. CASE Device
    BY <1>1, <2>4 DEF Device, Types, ThruPush, ThruWake, flags
  <2>5. CASE Tick
    BY <1>1, <1>3, <2>5 DEF Tick, Types, flags
  <2>6. CASE UNCHANGED vars
    BY <1>1, <2>6 DEF vars, Types, flags
  <2>7. QED
    BY <2>1, <2>2, <2>3, <2>4, <2>5, <2>6 DEF Next
<1>7. /\ main' \in [pc : MainPc, left : 0 .. PanicMessages, ids : SUBSET (1 .. MaxMessages)]
      /\ accepted' + main'.left <= MaxMessages
      /\ promised' \subseteq 1 .. MaxMessages
  <2> DEFINE Callers == [pc : MainPc, left : 0 .. PanicMessages, ids : SUBSET (1 .. MaxMessages)]
  <2>0. /\ main \in Callers /\ accepted + main.left <= MaxMessages
        /\ promised \subseteq 1 .. MaxMessages /\ accepted \in Nat
        /\ (main.pc = "panicSend" => main.left > 0)
        /\ Caller \in Callers /\ Caller.left = 0
    BY <1>1, <1>3 DEF Types, Caller, MainPc, IInv, Control
  <2>1. CASE Continue
    <3>1. CASE PanicSend
      <4>1. accepted' = accepted + 1 /\ promised' = promised
            /\ main' = [main EXCEPT !.pc = "panicWake", !.left = @ - 1, !.ids = @ \cup {accepted + 1}]
            /\ main.left > 0
        BY <2>0, <3>1 DEF PanicSend, Push
      <4>2. accepted + 1 \in 1 .. MaxMessages /\ main.left - 1 \in 0 .. PanicMessages
        BY <1>3, <2>0, <4>1
      <4>3. main.ids \cup {accepted + 1} \in SUBSET (1 .. MaxMessages)
        BY <2>0, <4>2
      <4>4. main' \in Callers /\ main'.left = main.left - 1
        BY <2>0, <4>1, <4>2, <4>3 DEF MainPc
      <4>5. QED
        BY <1>3, <2>0, <4>1, <4>4
    <3>2. CASE PanicReturn
      <4>1. accepted' = accepted /\ promised' = promised \cup main.ids /\ main' = Caller
        BY <3>2 DEF PanicReturn
      <4>2. main.ids \subseteq 1 .. MaxMessages
        BY <2>0
      <4>3. promised' \subseteq 1 .. MaxMessages
        BY <2>0, <4>1, <4>2
      <4>4. accepted' + main'.left <= MaxMessages
        BY <1>3, <2>0, <4>1
      <4>5. QED
        BY <2>0, <4>1, <4>3, <4>4
    <3>3. CASE PanicRefused
      <4>1. accepted' = accepted /\ promised' = promised /\ main.left > 0
            /\ main' = [main EXCEPT !.pc = IF main.left = 1 THEN "panicPoll" ELSE "panicSend",
                                    !.left = @ - 1]
        BY <2>0, <3>3 DEF PanicRefused, books
      <4>2. main.left - 1 \in 0 .. PanicMessages
        BY <1>3, <2>0, <4>1
      <4>3. main' \in Callers /\ main'.left = main.left - 1
        BY <2>0, <4>1, <4>2 DEF MainPc
      <4>4. QED
        BY <1>3, <2>0, <4>1, <4>3
    <3>4. CASE ~PanicSend /\ ~PanicReturn /\ ~PanicRefused
      <4>1. accepted' = accepted /\ promised' = promised
            /\ (main' = Caller \/ \E pc \in MainPc : main' = [main EXCEPT !.pc = pc])
        BY <2>1, <3>4 DEF Continue, Wake, FlushReturn, FlushTimeout, AfterFlush, PanicWake,
              PanicSawIdle, PanicPollAgain, PanicTimeout, StopJoined, books, MainPc
      <4>2. QED
        BY <1>3, <2>0, <4>1
    <3>5. QED
      BY <3>1, <3>2, <3>3, <3>4
  <2>2. CASE Call
    <3>1. CASE \E due \in 0 .. MaxDue : Enqueue(due)
      <4>1. accepted' = accepted + 1 /\ promised' = promised /\ accepted + 1 + main.left <= MaxMessages
            /\ main' = [main EXCEPT !.pc = "wake"]
        BY <3>1 DEF Enqueue, Push, Within
      <4>2. QED
        BY <1>3, <2>0, <4>1 DEF MainPc
    <3>2. CASE \E messages \in {0, PanicMessages} : FlushBegin(messages)
      <4>1. PICK messages \in {0, PanicMessages} : FlushBegin(messages)
        BY <3>2
      <4>2. accepted' = accepted /\ promised' = promised
            /\ main' = [Caller EXCEPT !.pc = "flushWake", !.left = messages]
            /\ accepted + messages + main.left <= MaxMessages
        BY <4>1 DEF FlushBegin, Within
      <4>3. messages \in 0 .. PanicMessages /\ messages <= messages + main.left
        BY <1>3
      <4>4. main' \in Callers /\ main'.left = messages
        BY <4>2, <4>3 DEF MainPc, Caller
      <4>5. QED
        BY <1>3, <2>0, <4>2, <4>3, <4>4
    <3>3. CASE PanicInline
      <4>1. Ids(PanicBytes) \subseteq 1 .. MaxMessages
        BY <3>3, PanicBytesAre, IdsAreBounded
      <4>2. accepted' = accepted + PanicMessages /\ main' = main
            /\ accepted + PanicMessages + main.left <= MaxMessages
            /\ promised' = promised \cup Ids(PanicBytes)
        BY <3>3 DEF PanicInline, PanicBytes, Within
      <4>3. QED
        BY <1>3, <2>0, <4>1, <4>2
    <3>4. CASE StopBegin
      BY <2>0, <1>3, <3>4 DEF StopBegin, books, MainPc, Caller
    <3>5. CASE FlushInline \/ Start
      BY <2>0, <3>5 DEF FlushInline, Start
    <3>6. QED
      BY <2>2, <3>1, <3>2, <3>3, <3>4, <3>5 DEF Call
  <2>3. CASE Device
    <3>1. CASE ThruPush
      <4>1. accepted' = accepted + 1 /\ promised' = promised /\ main' = main
            /\ accepted + 1 + main.left <= MaxMessages
        BY <3>1 DEF ThruPush, Within
      <4>2. QED
        BY <1>3, <2>0, <4>1
    <3>2. QED
      BY <2>0, <2>3, <3>1 DEF Device, ThruWake, books
  <2>4. CASE Sender \/ Tick \/ UNCHANGED vars
    BY <1>1, <2>4 DEF Sender, Types, Exit, Go, Snapshot, MarkBusy, DrainImmediate, CheckDiscard,
                      Drop, DropClear, Drain, Send, Settle, WaitOver, Tick, vars, books
  <2>5. QED
    BY <2>1, <2>2, <2>3, <2>4 DEF Next
<1>8. flushFrom' \in 0 .. accepted' /\ horizon' \in 0 .. accepted'
  <2>1. flushFrom \in 0 .. accepted /\ horizon \in 0 .. accepted /\ accepted' \in Nat
    BY <1>1, <1>2 DEF Types
  <2>2. flushFrom' \in {flushFrom, 0, accepted}
        /\ horizon' \in {horizon, flushFrom, accepted}
    <3>1. CASE Sender
      BY <3>1 DEF Sender, Exit, Go, Snapshot, MarkBusy, DrainImmediate, CheckDiscard, Drop,
                  DropClear, Drain, Send, Settle, WaitOver, books, Larger
    <3>2. CASE Continue
      BY <3>2 DEF Continue, Wake, FlushReturn, FlushTimeout, PanicSend, PanicRefused, PanicWake,
                  PanicSawIdle, PanicPollAgain, PanicReturn, PanicTimeout, StopJoined, books,
                  Larger
    <3>3. CASE Call \/ Device
      BY <3>3 DEF Call, Device, Enqueue, FlushBegin, FlushInline, PanicInline, StopBegin, Start,
                  ThruPush, ThruWake, books
    <3>4. CASE Tick \/ UNCHANGED vars
      BY <3>4 DEF Tick, vars, books
    <3>5. QED
      BY <3>1, <3>2, <3>3, <3>4 DEF Next
  <2>3. QED
    BY <1>2, <1>3, <2>1, <2>2
<1>9. QED
  BY <1>2, <1>4, <1>6, <1>7, <1>8 DEF Types

\* Who is where: the caller of a stop is the only one that ends the sender, and a sender
\* that calls itself idle is between two passes.
LEMMA ControlKept == IInv /\ [Next]_vars => Control'
<1> SUFFICES ASSUME IInv, [Next]_vars PROVE Control'
  OBVIOUS
<1>1. Control
  BY DEF IInv
<1>2. main \in [pc : MainPc, left : 0 .. PanicMessages, ids : SUBSET (1 .. MaxMessages)]
      /\ main.left \in Nat /\ sender \in SenderPc /\ Len(<<>>) = 0 /\ RingSlots \in Nat
  BY PanicAssumption, SlotsAssumption DEF IInv, Types
<1>3. CASE Sender
  <2>1. CASE Send
    <3>1. PICK n \in Nat, d \in Nat : Dispatched(n, d) /\ n <= RingSlots
      BY <2>1, SendDispatches
    <3>2. Len(pending') <= RingSlots
      BY <1>2, <3>1 DEF Dispatched
    <3>3. QED
      BY <1>1, <2>1, <3>2 DEF Send, SenderStep, flags, Control
  <2>2. CASE ~Send
    BY <1>1, <1>2, <1>3, <2>2 DEF Sender, SenderStep, Exit, Go, Snapshot, MarkBusy,
          DrainImmediate, CheckDiscard, Drop, DropClear, Drain, Settle, WaitOver,
          rings, flags, books, Control, Settle
  <2>3. QED
    BY <2>1, <2>2
<1>4. CASE Continue
  <2>1. UNCHANGED <<pending, sender, idle, stopping>>
    BY <1>4 DEF Continue, Wake, FlushReturn, FlushTimeout, PanicSend, PanicRefused, PanicWake,
          PanicSawIdle, PanicPollAgain, PanicReturn, PanicTimeout, StopJoined, rings, flags
  <2>2. CASE StopJoined
    BY <1>1, <2>1, <2>2 DEF StopJoined, Control, Caller
  <2>3. CASE ~StopJoined
    <3>1. running' = running
      BY <1>4, <2>3 DEF Continue, Wake, FlushReturn, FlushTimeout, PanicSend, PanicRefused,
            PanicWake, PanicSawIdle, PanicPollAgain, PanicReturn, PanicTimeout, flags
    <3>2. /\ main.pc # "free"
          /\ main.pc \in {"stopWake", "join"} <=> main'.pc \in {"stopWake", "join"}
          /\ main'.pc = "panicSend" => main'.left > 0
      <4>1. CASE Wake("wake", "free") \/ Wake("flushWake", "flushPoll") \/ Wake("stopWake", "join")
        BY <1>2, <4>1 DEF Wake
      <4>2. CASE PanicWake
        BY <1>2, <4>2 DEF PanicWake, Wake
      <4>3. CASE FlushReturn \/ FlushTimeout
        BY <1>2, <4>3 DEF FlushReturn, FlushTimeout, AfterFlush, Caller
      <4>4. CASE PanicSend
        BY <1>2, <4>4 DEF PanicSend
      <4>5. CASE PanicRefused
        <5>1. main.left > 0
          BY <1>1, <4>5 DEF PanicRefused, Control
        <5>2. QED
          BY <1>2, <4>5, <5>1 DEF PanicRefused
      <4>6. CASE PanicSawIdle \/ PanicPollAgain \/ PanicReturn \/ PanicTimeout
        BY <1>2, <4>6 DEF PanicSawIdle, PanicPollAgain, PanicReturn, PanicTimeout, Caller
      <4>7. QED
        BY <1>4, <2>3, <4>1, <4>2, <4>3, <4>4, <4>5, <4>6 DEF Continue
    <3>3. QED
      BY <1>1, <2>1, <3>1, <3>2 DEF Control
  <2>4. QED
    BY <2>2, <2>3
<1>5. CASE Call
  <2>1. CASE \E due \in 0 .. MaxDue : Enqueue(due)
    BY <1>1, <1>2, <2>1 DEF Enqueue, flags, Control
  <2>2. CASE \E messages \in {0, PanicMessages} : FlushBegin(messages)
    BY <1>1, <1>2, <2>2 DEF FlushBegin, rings, Control, Caller
  <2>3. CASE FlushInline \/ PanicInline
    BY <1>1, <1>2, <2>3 DEF FlushInline, PanicInline, flags, Control
  <2>4. CASE StopBegin
    BY <1>1, <1>2, <2>4 DEF StopBegin, rings, Control, Caller
  <2>5. CASE Start
    BY <1>1, <1>2, <2>5 DEF Start, Control
  <2>6. QED
    BY <1>5, <2>1, <2>2, <2>3, <2>4, <2>5 DEF Call
<1>6. CASE Device \/ Tick \/ UNCHANGED vars
  BY <1>1, <1>6 DEF Device, ThruPush, ThruWake, Tick, vars, rings, flags, Control
<1>7. QED
  BY <1>3, <1>4, <1>5, <1>6 DEF Next

\* The snapshot of the wake counter is older than the look at the rings, so a push the
\* look has missed is followed by a wake-up the snapshot has not seen.
LEMMA WokenKept == IInv /\ [Next]_vars => Woken'
<1> SUFFICES ASSUME IInv, [Next]_vars PROVE Woken'
  OBVIOUS
<1>1. Woken
  BY DEF IInv
<1>2. main \in [pc : MainPc, left : 0 .. PanicMessages, ids : SUBSET (1 .. MaxMessages)]
  BY DEF IInv, Types
<1>3. CASE Sender
  BY <1>1, <1>3 DEF Sender, SenderStep, Exit, Go, Snapshot, MarkBusy, DrainImmediate,
        CheckDiscard, Drop, DropClear, Drain, Send, Settle, WaitOver, rings, flags, Woken
<1>4. CASE Continue
  <2>1. UNCHANGED <<imm, sender, device>>
    BY <1>4 DEF Continue, Wake, FlushReturn, FlushTimeout, PanicSend, PanicRefused, PanicWake,
          PanicSawIdle, PanicPollAgain, PanicReturn, PanicTimeout, StopJoined, rings
  <2>2. woken' = TRUE \/ woken' = woken
    BY <1>4 DEF Continue, Wake, FlushReturn, FlushTimeout, PanicSend, PanicRefused, PanicWake,
          PanicSawIdle, PanicPollAgain, PanicReturn, PanicTimeout, StopJoined, flags
  <2>3. woken' = TRUE \/ main'.pc = "panicWake"
        \/ (main.pc \notin {"wake", "panicWake"} /\ ring' = ring)
    BY <1>2, <1>4 DEF Continue, Wake, FlushReturn, FlushTimeout, PanicSend, PanicRefused,
          PanicWake, PanicSawIdle, PanicPollAgain, PanicReturn, PanicTimeout, StopJoined, rings
  <2>4. QED
    BY <1>1, <2>1, <2>2, <2>3 DEF Woken
<1>5. CASE Call
  <2>1. CASE \E due \in 0 .. MaxDue : Enqueue(due)
    BY <1>1, <1>2, <2>1 DEF Enqueue, flags, Woken
  <2>2. CASE Start
    BY <2>2 DEF Start, Woken
  <2>3. CASE \E messages \in {0, PanicMessages} : FlushBegin(messages)
    BY <1>1, <2>3 DEF FlushBegin, rings, Woken
  <2>4. CASE FlushInline \/ PanicInline \/ StopBegin
    BY <1>1, <2>4 DEF FlushInline, PanicInline, StopBegin, rings, flags, Woken
  <2>5. QED
    BY <1>5, <2>1, <2>2, <2>3, <2>4 DEF Call
<1>6. CASE Device \/ Tick \/ UNCHANGED vars
  BY <1>1, <1>6 DEF Device, ThruPush, ThruWake, Tick, vars, rings, flags, Woken
<1>7. QED
  BY <1>3, <1>4, <1>5, <1>6 DEF Next

-----------------------------------------------------------------------------
(***************************************************************************)
(* The order of messages and the cut of a flush                            *)
(***************************************************************************)
\* What the numbering of the messages amounts to.
LEMMA MessageNumbers ==
    ASSUME IInv
    PROVE  /\ accepted \in Nat /\ horizon \in Nat /\ flushFrom \in Nat /\ horizon <= accepted
           /\ flushFrom <= accepted
           /\ \A i \in DOMAIN ring : ring[i].id \in Nat /\ ring[i].due \in Nat
           /\ \A i \in DOMAIN pending : pending[i].id \in Nat /\ pending[i].due \in Nat
           /\ \A i \in DOMAIN sent : sent[i].id \in Nat /\ sent[i].due \in Nat
           /\ \A i \in DOMAIN imm : imm[i].id \in Nat
           /\ DOMAIN ring = 1 .. Len(ring) /\ Len(ring) \in Nat
           /\ DOMAIN pending = 1 .. Len(pending) /\ Len(pending) \in Nat
           /\ DOMAIN sent = 1 .. Len(sent) /\ Len(sent) \in Nat
           /\ DOMAIN imm = 1 .. Len(imm) /\ Len(imm) \in Nat
<1>1. /\ ring \in Seq(Message) /\ pending \in Seq(Message) /\ sent \in Seq(Message)
      /\ imm \in Seq(Message)
  BY DEF IInv, Types
<1>2. \A m \in Message : m.id \in Nat /\ m.due \in Nat
  BY BoundAssumption, TimeAssumption DEF Message
<1>3. \A s \in Seq(Message) : DOMAIN s = 1 .. Len(s) /\ Len(s) \in Nat
                              /\ \A i \in DOMAIN s : s[i] \in Message
  BY LenProperties, ElementOfSeq
<1>4. accepted \in Nat /\ horizon \in 0 .. accepted /\ flushFrom \in 0 .. accepted
  BY BoundAssumption DEF IInv, Types
<1>5. QED
  BY <1>1, <1>2, <1>3, <1>4

\* Where an element of a sequence that got longer comes from.
LEMMA Appended ==
    ASSUME NEW s \in Seq(Message), NEW m \in Message
    PROVE  /\ DOMAIN Append(s, m) = 1 .. Len(s) + 1 /\ Len(s) \in Nat /\ DOMAIN s = 1 .. Len(s)
           /\ \A i \in DOMAIN s : Append(s, m)[i] = s[i]
           /\ Append(s, m)[Len(s) + 1] = m
BY AppendProperties, LenProperties

\* The order survives a push: a message is the youngest when it is pushed.
LEMMA OrderPushed ==
    ASSUME IInv, NEW m \in Message, Pushed(m)
    PROVE  Order'
<1>1. ring' = Append(ring, m) /\ accepted' = accepted + 1 /\ UNCHANGED <<imm, pending, sent>>
      /\ m.id = accepted + 1 /\ ring \in Seq(Message)
  BY DEF Pushed, IInv, Types
<1>2. /\ DOMAIN ring' = 1 .. Len(ring) + 1
      /\ \A i \in DOMAIN ring : ring'[i] = ring[i]
      /\ ring'[Len(ring) + 1] = m
  BY <1>1, Appended
<1>3. \A i \in DOMAIN ring' : i \in DOMAIN ring \/ (i = Len(ring) + 1 /\ ring'[i].id = accepted + 1)
  BY <1>1, <1>2, MessageNumbers
<1>4. \A i, j \in DOMAIN ring' : i < j => i \in DOMAIN ring
  BY <1>2, MessageNumbers
<1>5. Order
  BY DEF IInv
<1>6. /\ \A i \in DOMAIN imm' : imm'[i].kind = "thru"
      /\ \A i \in DOMAIN ring' : ring'[i].id <= accepted'
      /\ \A i \in DOMAIN pending' : pending'[i].id <= accepted'
      /\ \A i \in DOMAIN sent' : sent'[i].id <= accepted'
  BY <1>1, <1>2, <1>3, <1>5, MessageNumbers DEF Order
<1>7. \A i, j \in DOMAIN ring' : i < j => ring'[i].id < ring'[j].id
  BY <1>2, <1>3, <1>4, <1>5, MessageNumbers DEF Order
<1>8. \A i \in DOMAIN pending', j \in DOMAIN ring' : pending'[i].id < ring'[j].id
  BY <1>1, <1>2, <1>3, <1>5, MessageNumbers DEF Order
<1>9. \A i \in DOMAIN sent' : sent'[i].kind # "thru" =>
          \A j \in DOMAIN ring' : sent'[i].id < ring'[j].id
  BY <1>1, <1>2, <1>3, <1>5, MessageNumbers DEF Order
<1>10. QED
  BY <1>1, <1>5, <1>6, <1>7, <1>8, <1>9 DEF Order, SameInstantInOrder

\* It survives the merge of ring and list: what comes from the ring is younger than
\* everything in the list and everything sent.
LEMMA OrderMerged ==
    ASSUME IInv, Merged
    PROVE  Order'
<1> DEFINE u == pending \o ring
<1>1. pending \in Seq(Message) /\ ring \in Seq(Message) /\ Order
  BY DEF IInv, Types
<1>2. u \in Seq(Message)
      /\ \A k \in DOMAIN u : \/ k \in DOMAIN pending /\ u[k] = pending[k]
                             \/ k - Len(pending) \in DOMAIN ring /\ u[k] = ring[k - Len(pending)]
  BY <1>1, Concat
<1>3. pending' \in Sorted(u) /\ ring' = <<>> /\ UNCHANGED <<imm, sent, accepted>>
  BY DEF Merged
<1>4. /\ \A i \in DOMAIN pending' : \E k \in DOMAIN u : pending'[i] = u[k]
      /\ \A i, j \in DOMAIN pending' : i < j => Before(pending'[i], pending'[j])
  BY <1>2, <1>3, SortedList
<1> HIDE DEF u
<1>5. \A i \in DOMAIN pending' : \/ \E k \in DOMAIN pending : pending'[i] = pending[k]
                                 \/ \E k \in DOMAIN ring : pending'[i] = ring[k]
  BY <1>2, <1>4
<1>6. \A i \in DOMAIN sent : sent[i].kind # "thru" =>
          \A j \in DOMAIN pending' :
              sent[i].due = pending'[j].due => sent[i].id < pending'[j].id
  BY <1>1, <1>5 DEF Order
<1>7. \A i \in DOMAIN pending' : pending'[i].id <= accepted
  BY <1>1, <1>5 DEF Order
<1>8. QED
  BY <1>1, <1>3, <1>4, <1>6, <1>7 DEF Order, SameInstantInOrder

\* It survives a dispatch: the list is in order, so what is left of it at an instant is
\* younger than what was sent of that instant.
LEMMA OrderDispatched ==
    ASSUME IInv, NEW n \in Nat, NEW d \in Nat, Dispatched(n, d)
    PROVE  Order'
<1>1. Order /\ n \in 0 .. Len(pending) /\ d \in 0 .. n /\ UNCHANGED <<ring, imm, accepted>>
  BY DEF Dispatched, IInv
<1>2. /\ DOMAIN sent' = 1 .. Len(sent) + d
      /\ \A i \in 1 .. Len(sent) : sent'[i] = sent[i]
      /\ \A i \in 1 .. d : sent'[Len(sent) + i] = pending[i]
      /\ DOMAIN pending' = 1 .. n - d
      /\ \A i \in 1 .. n - d : pending'[i] = pending[d + i]
  BY LenProperties DEF Dispatched
<1>3. \A i \in DOMAIN sent' : \/ i \in DOMAIN sent /\ sent'[i] = sent[i]
                              \/ /\ i > Len(sent) /\ i - Len(sent) \in 1 .. d
                                 /\ i - Len(sent) \in DOMAIN pending
                                 /\ sent'[i] = pending[i - Len(sent)]
  <2>1. SUFFICES ASSUME NEW i \in DOMAIN sent', i \notin DOMAIN sent
                 PROVE  /\ i > Len(sent) /\ i - Len(sent) \in 1 .. d
                        /\ i - Len(sent) \in DOMAIN pending
                        /\ sent'[i] = pending[i - Len(sent)]
    BY <1>2, MessageNumbers
  <2>2. i > Len(sent) /\ i - Len(sent) \in 1 .. d
    BY <1>1, <1>2, <2>1, MessageNumbers
  <2>3. Len(sent) + (i - Len(sent)) = i
    BY <1>2, <2>1, MessageNumbers
  <2>4. sent'[i] = pending[i - Len(sent)]
    BY <1>2, <2>2, <2>3
  <2>5. QED
    BY <1>1, <2>2, <2>4, MessageNumbers
<1>4. \A i \in DOMAIN pending' : d + i \in DOMAIN pending /\ pending'[i] = pending[d + i]
  BY <1>1, <1>2, MessageNumbers
<1>5. \A k, l \in DOMAIN pending : k < l /\ pending[k].due = pending[l].due =>
          pending[k].id < pending[l].id
  <2>1. SUFFICES ASSUME NEW k \in DOMAIN pending, NEW l \in DOMAIN pending, k < l,
                        pending[k].due = pending[l].due
                 PROVE  pending[k].id < pending[l].id
    OBVIOUS
  <2>2. Before(pending[k], pending[l])
    BY <1>1, <2>1 DEF Order
  <2>3. pending[k].due \in Nat /\ pending[l].due \in Nat
    BY MessageNumbers
  <2>4. QED
    BY <2>1, <2>2, <2>3 DEF Before
<1>6. \A i, j \in DOMAIN pending' : i < j => Before(pending'[i], pending'[j])
  BY <1>1, <1>2, <1>4, MessageNumbers DEF Order
<1>7. \A i \in DOMAIN sent' : sent'[i].kind # "thru" =>
          \A j \in DOMAIN pending' : sent'[i].due = pending'[j].due => sent'[i].id < pending'[j].id
  <2>1. SUFFICES ASSUME NEW i \in DOMAIN sent', sent'[i].kind # "thru", NEW j \in DOMAIN pending',
                        sent'[i].due = pending'[j].due
                 PROVE  sent'[i].id < pending'[j].id
    OBVIOUS
  <2>2. CASE i \in DOMAIN sent /\ sent'[i] = sent[i]
    BY <1>1, <1>4, <2>1, <2>2 DEF Order
  <2>3. CASE i - Len(sent) \in 1 .. d /\ i - Len(sent) \in DOMAIN pending
             /\ sent'[i] = pending[i - Len(sent)]
    <3>1. i - Len(sent) < d + j
      BY <1>1, <1>2, <2>1, <2>3, MessageNumbers
    <3>2. QED
      BY <1>4, <1>5, <2>1, <2>3, <3>1
  <2>4. QED
    BY <1>3, <2>1, <2>2, <2>3
<1>8. SameInstantInOrder'
  <2>1. SUFFICES ASSUME NEW i \in DOMAIN sent', NEW j \in DOMAIN sent', i < j,
                        sent'[i].kind # "thru", sent'[j].kind # "thru",
                        sent'[i].due = sent'[j].due
                 PROVE  sent'[i].id < sent'[j].id
    BY DEF SameInstantInOrder
  <2>2. i \in Nat /\ j \in Nat
    BY <1>1, <1>2, MessageNumbers
  <2>3. CASE i \in DOMAIN sent /\ j \in DOMAIN sent
    <3>1. SameInstantInOrder /\ sent'[i] = sent[i] /\ sent'[j] = sent[j]
      BY <1>1, <1>3, <2>3 DEF Order
    <3>2. QED
      BY <2>1, <2>3, <3>1 DEF SameInstantInOrder
  <2>4. CASE i \in DOMAIN sent /\ j \notin DOMAIN sent
    <3>1. sent'[i] = sent[i] /\ j - Len(sent) \in DOMAIN pending
          /\ sent'[j] = pending[j - Len(sent)]
      BY <1>2, <1>3, <2>4, MessageNumbers
    <3>2. QED
      BY <1>1, <2>1, <2>4, <3>1 DEF Order
  <2>5. CASE i \notin DOMAIN sent /\ j \notin DOMAIN sent
    <3>1. i - Len(sent) < j - Len(sent)
      BY <2>1, <2>2, MessageNumbers
    <3>2. QED
      BY <1>3, <1>5, <2>1, <2>5, <3>1
  <2>6. CASE i \notin DOMAIN sent /\ j \in DOMAIN sent
    BY <1>3, <2>1, <2>2, <2>6, MessageNumbers
  <2>7. QED
    BY <2>3, <2>4, <2>5, <2>6
<1>9. \A i \in DOMAIN sent' : sent'[i].id <= accepted'
                              /\ (sent'[i].kind # "thru" =>
                                     \A j \in DOMAIN ring' : sent'[i].id < ring'[j].id)
  BY <1>1, <1>3 DEF Order
<1>10. \A i \in DOMAIN pending' : pending'[i].id <= accepted'
                                  /\ \A j \in DOMAIN ring' : pending'[i].id < ring'[j].id
  BY <1>1, <1>4 DEF Order
<1>11. QED
  BY <1>1, <1>6, <1>7, <1>8, <1>9, <1>10 DEF Order

\* What goes out beside the list is a MIDI-thru, which is in nobody's order, or a panic
\* without a sender, when list and ring are given up.
LEMMA OrderSentAside ==
    ASSUME IInv, NEW t \in Seq(Message), sent' = sent \o t,
           \/ /\ \A i \in DOMAIN t : t[i].kind = "thru" /\ t[i].id <= accepted
              /\ UNCHANGED <<ring, pending, accepted>>
           \/ /\ \A i \in DOMAIN t : t[i].id > accepted /\ t[i].id <= accepted'
              /\ \A i, j \in DOMAIN t : i < j => t[i].id < t[j].id
              /\ ring' = <<>> /\ pending' = <<>> /\ accepted' \in Nat /\ accepted <= accepted',
           \A i \in DOMAIN imm' : imm'[i].kind = "thru"
    PROVE  Order'
<1>1. Order /\ sent \in Seq(Message)
  BY DEF IInv, Types
<1>2. /\ \A k \in DOMAIN sent' :
             \/ k \in DOMAIN sent /\ sent'[k] = sent[k]
             \/ /\ k \notin DOMAIN sent /\ k - Len(sent) \in DOMAIN t
                /\ sent'[k] = t[k - Len(sent)]
      /\ DOMAIN sent' \subseteq Nat
      /\ \A k, l \in DOMAIN sent' : k < l /\ l \in DOMAIN sent => k \in DOMAIN sent
  <2> DEFINE u == sent \o t
  <2>1. /\ u \in Seq(Message)
        /\ \A i \in DOMAIN sent : u[i] = sent[i]
        /\ \A k \in DOMAIN u : \/ k \in DOMAIN sent
                               \/ k - Len(sent) \in DOMAIN t /\ u[k] = t[k - Len(sent)]
    BY <1>1, Concat
  <2>2. DOMAIN u \subseteq Nat /\ \A k \in DOMAIN u : k >= 1
    BY <2>1, LenProperties
  <2>3. DOMAIN sent = 1 .. Len(sent) /\ Len(sent) \in Nat
    BY <1>1, LenProperties
  <2> HIDE DEF u
  <2>4. sent' = u
    BY DEF u
  <2>5. QED
    BY <2>1, <2>2, <2>3, <2>4
<1>3. \A i \in DOMAIN t : t[i].id \in Nat /\ t[i].due \in Nat /\ i \in Nat
  <2>1. \A i \in DOMAIN t : t[i] \in Message /\ i \in Nat
    BY ElementOfSeq, LenProperties
  <2>2. QED
    BY <2>1, BoundAssumption, TimeAssumption DEF Message
<1>4. CASE /\ \A i \in DOMAIN t : t[i].kind = "thru" /\ t[i].id <= accepted
           /\ UNCHANGED <<ring, pending, accepted>>
  <2>1. \A k \in DOMAIN sent' : sent'[k].kind # "thru" => k \in DOMAIN sent /\ sent'[k] = sent[k]
    BY <1>2, <1>4
  <2>2. \A k \in DOMAIN sent' : sent'[k].id <= accepted'
    BY <1>1, <1>2, <1>4 DEF Order
  <2>3. SameInstantInOrder'
    <3>1. SUFFICES ASSUME NEW i \in DOMAIN sent', NEW j \in DOMAIN sent', i < j,
                          sent'[i].kind # "thru", sent'[j].kind # "thru",
                          sent'[i].due = sent'[j].due
                   PROVE  sent'[i].id < sent'[j].id
      BY DEF SameInstantInOrder
    <3>2. /\ i \in DOMAIN sent /\ sent'[i] = sent[i]
          /\ j \in DOMAIN sent /\ sent'[j] = sent[j]
      BY <2>1, <3>1
    <3>3. QED
      BY <1>1, <3>1, <3>2 DEF Order, SameInstantInOrder
  <2>4. QED
    BY <1>1, <1>4, <2>1, <2>2, <2>3 DEF Order
<1>5. CASE /\ \A i \in DOMAIN t : t[i].id > accepted /\ t[i].id <= accepted'
           /\ \A i, j \in DOMAIN t : i < j => t[i].id < t[j].id
           /\ ring' = <<>> /\ pending' = <<>> /\ accepted' \in Nat /\ accepted <= accepted'
  <2>1. \A k \in DOMAIN sent' : sent'[k].id <= accepted'
    BY <1>1, <1>2, <1>3, <1>5, MessageNumbers DEF Order
  <2>2. SameInstantInOrder'
    <3>1. SUFFICES ASSUME NEW i \in DOMAIN sent', NEW j \in DOMAIN sent', i < j,
                          sent'[i].kind # "thru", sent'[j].kind # "thru",
                          sent'[i].due = sent'[j].due
                   PROVE  sent'[i].id < sent'[j].id
      BY DEF SameInstantInOrder
    <3>2. CASE i \in DOMAIN sent /\ j \in DOMAIN sent
      <4>1. SameInstantInOrder /\ sent'[i] = sent[i] /\ sent'[j] = sent[j]
        BY <1>1, <1>2, <3>2 DEF Order
      <4>2. QED
        BY <3>1, <3>2, <4>1 DEF SameInstantInOrder
    <3>3. CASE i \in DOMAIN sent /\ j \notin DOMAIN sent
      <4>1. sent'[i].id <= accepted /\ sent'[i].id \in Nat
        BY <1>1, <1>2, <3>3, MessageNumbers DEF Order
      <4>2. sent'[j].id > accepted /\ sent'[j].id \in Nat
        BY <1>2, <1>3, <1>5, <3>3
      <4>3. accepted \in Nat
        BY MessageNumbers
      <4>4. QED
        BY <4>1, <4>2, <4>3
    <3>4. CASE i \notin DOMAIN sent
      <4>1. /\ i - Len(sent) \in DOMAIN t /\ sent'[i] = t[i - Len(sent)]
            /\ j - Len(sent) \in DOMAIN t /\ sent'[j] = t[j - Len(sent)]
        BY <1>2, <3>1, <3>4
      <4>2. i - Len(sent) < j - Len(sent)
        BY <1>2, <3>1, MessageNumbers
      <4>3. QED
        BY <1>5, <4>1, <4>2
    <3>5. QED
      BY <3>2, <3>3, <3>4
  <2>3. QED
    BY <1>5, <2>1, <2>2 DEF Order
<1>6. QED
  BY <1>4, <1>5

LEMMA OrderKept ==
    ASSUME IInv, Movement
    PROVE  Order'
<1>1. Order /\ imm \in Seq(Message)
  BY DEF IInv, Types
<1>2. CASE Still
  BY <1>1, <1>2 DEF Still, Order, SameInstantInOrder
<1>3. ASSUME NEW m \in Message, ThruPushed(m) PROVE Order'
  <2>1. imm' = Append(imm, m) /\ m.kind = "thru" /\ accepted' = accepted + 1
        /\ UNCHANGED <<ring, pending, sent>>
    BY <1>3 DEF ThruPushed
  <2>2. \A i \in DOMAIN imm' : imm'[i].kind = "thru"
    <3>1. /\ DOMAIN imm' = 1 .. Len(imm) + 1 /\ Len(imm) \in Nat /\ DOMAIN imm = 1 .. Len(imm)
          /\ \A i \in DOMAIN imm : imm'[i] = imm[i]
          /\ imm'[Len(imm) + 1] = m
      BY <1>1, <2>1, Appended
    <3>2. QED
      BY <1>1, <2>1, <3>1 DEF Order
  <2>3. /\ \A i \in DOMAIN ring' : ring'[i].id <= accepted'
        /\ \A i \in DOMAIN pending' : pending'[i].id <= accepted'
        /\ \A i \in DOMAIN sent' : sent'[i].id <= accepted'
    BY <1>1, <2>1, MessageNumbers DEF Order
  <2>4. QED
    BY <1>1, <2>1, <2>2, <2>3 DEF Order, SameInstantInOrder
<1>4. CASE RingCleared
  BY <1>1, <1>4 DEF RingCleared, Order, SameInstantInOrder
<1>5. CASE PendingCleared
  BY <1>1, <1>5 DEF PendingCleared, Order, SameInstantInOrder
<1>6. CASE Dropped
  BY <1>1, <1>6 DEF Dropped, Order, SameInstantInOrder
<1>7. CASE ThruSent
  <2>1. \A i \in DOMAIN imm : imm[i].kind = "thru" /\ imm[i].id <= accepted
    <3>1. \A i \in DOMAIN imm : imm[i].id \in Ids(imm)
      BY DEF Ids
    <3>2. Ids(imm) \subseteq 1 .. accepted
      BY DEF IInv, Books
    <3>3. QED
      BY <1>1, <3>1, <3>2 DEF Order
  <2>2. QED
    BY <1>1, <1>7, <2>1, OrderSentAside DEF ThruSent
<1>8. CASE PanicInline
  <2>1. /\ PanicBytes \in Seq(Message) /\ sent' = sent \o PanicBytes /\ pending = <<>>
        /\ DOMAIN PanicBytes = 1 .. PanicMessages /\ PanicMessages \in Nat /\ accepted \in Nat
        /\ \A i \in 1 .. PanicMessages : PanicBytes[i].id = accepted + i
    BY <1>8, PanicBytesAre
  <2>2. accepted' = accepted + PanicMessages /\ ring' = <<>> /\ UNCHANGED <<pending, imm>>
    BY <1>8 DEF PanicInline
  <2>3. \A i \in DOMAIN PanicBytes : PanicBytes[i].id > accepted /\ PanicBytes[i].id <= accepted'
    BY <2>1, <2>2
  <2>4. \A i, j \in DOMAIN PanicBytes : i < j => PanicBytes[i].id < PanicBytes[j].id
    BY <2>1
  <2>5. \A i \in DOMAIN imm' : imm'[i].kind = "thru"
    BY <1>1, <2>2 DEF Order
  <2>6. accepted' \in Nat /\ accepted <= accepted'
    BY <2>1, <2>2
  <2>7. QED
    BY <2>1, <2>2, <2>3, <2>4, <2>5, <2>6, OrderSentAside
<1>9. QED
  BY <1>2, <1>3, <1>4, <1>5, <1>6, <1>7, <1>8, OrderPushed, OrderMerged, OrderDispatched
     DEF Movement

-----------------------------------------------------------------------------
(***************************************************************************)
(* Where a flush cuts                                                      *)
(***************************************************************************)
\* What may still be sent is younger than n.
Young(s, n) == \A i \in DOMAIN s : s[i].id > n

LEMMA YoungLists ==
    ASSUME NEW s \in Seq(Message), NEW t \in Seq(Message), NEW n
    PROVE  /\ Young(<<>>, n)
           /\ \A m \in Message : Young(s, n) /\ m.id > n => Young(Append(s, m), n)
           /\ Young(s, n) /\ Young(t, n) => Young(s \o t, n)
           /\ \A u \in Sorted(s) : Young(s, n) => Young(u, n)
<1>1. Young(<<>>, n)
  BY DEF Young
<1>2. \A m \in Message : Young(s, n) /\ m.id > n => Young(Append(s, m), n)
  BY Appended DEF Young
<1>3. Young(s, n) /\ Young(t, n) => Young(s \o t, n)
  <2>1. ASSUME Young(s, n), Young(t, n), NEW k \in DOMAIN (s \o t)
        PROVE  (s \o t)[k].id > n
    <3>1. \/ k \in DOMAIN s /\ (s \o t)[k] = s[k]
          \/ k - Len(s) \in DOMAIN t /\ (s \o t)[k] = t[k - Len(s)]
      BY Concat
    <3>2. QED
      BY <2>1, <3>1 DEF Young
  <2>2. QED
    BY <2>1 DEF Young
<1>4. \A u \in Sorted(s) : Young(s, n) => Young(u, n)
  BY SortedList DEF Young
<1>5. QED
  BY <1>1, <1>2, <1>3, <1>4

LEMMA CutKept == IInv /\ [Next]_vars => Cut'
<1> SUFFICES ASSUME IInv, [Next]_vars PROVE Cut'
  OBVIOUS
<1> DEFINE Listed  == sender # "drop" => Young(pending, horizon)
           Ringed  == sender \notin {"drop", "off"} => Young(ring, horizon)
           Flushed == main.pc \in {"flushWake", "flushPoll"} /\ ~discard /\ idle =>
                          ring = <<>> /\ pending = <<>>
<1>1. Listed /\ Ringed /\ Flushed
  BY DEF IInv, Cut, Young
<1>2. SUFFICES Listed' /\ Ringed' /\ Flushed'
  BY DEF Cut, Young
<1>3. /\ ring \in Seq(Message) /\ pending \in Seq(Message)
      /\ accepted \in Nat /\ horizon \in Nat /\ horizon <= accepted
      /\ \A n : Young(<<>>, n)
      /\ main \in [pc : MainPc, left : 0 .. PanicMessages, ids : SUBSET (1 .. MaxMessages)]
  BY BoundAssumption, YoungLists DEF IInv, Types
<1>4. Control
  BY DEF IInv
<1>5. CASE Sender
  <2>1. main' = main
    BY <1>5 DEF Sender, Exit, Go, Snapshot, MarkBusy, DrainImmediate, CheckDiscard, Drop,
                DropClear, Drain, Send, Settle, WaitOver
  <2>2. CASE Exit
    BY <1>1, <1>3, <1>4, <2>1, <2>2 DEF Exit, SenderStep, Control
  <2>3. CASE Go \/ Snapshot \/ MarkBusy \/ DrainImmediate \/ WaitOver
    BY <1>1, <2>1, <2>3 DEF Go, Snapshot, MarkBusy, DrainImmediate, WaitOver, SenderStep,
                            rings, flags, books
  <2>4. CASE CheckDiscard
    BY <1>1, <1>4, <2>1, <2>4 DEF CheckDiscard, rings, flags, Control
  <2>5. CASE Drop
    BY <1>3, <2>5 DEF Drop
  <2>6. CASE DropClear
    BY <1>1, <1>4, <2>6 DEF DropClear, SenderStep, rings, books, Control
  <2>7. CASE Drain
    <3>1. Young(pending, horizon) /\ Young(ring, horizon) /\ ~idle
      BY <1>1, <1>4, <2>7 DEF Drain, SenderStep, Control
    <3>2. pending \o ring \in Seq(Message) /\ Young(pending \o ring, horizon)
      BY <1>3, <3>1, Concat, YoungLists
    <3>3. Young(pending', horizon)
      BY <1>3, <2>7, <3>2, YoungLists DEF Drain
    <3>4. ring' = <<>> /\ horizon' = horizon /\ ~idle'
      BY <2>7, <3>1 DEF Drain, books, flags
    <3>5. QED
      BY <1>3, <3>3, <3>4
  <2>8. CASE Send
    <3>1. PICK n \in Nat, d \in Nat : Dispatched(n, d)
      BY <2>8, SendDispatches
    <3>2. Young(pending, horizon) /\ Young(ring, horizon) /\ ~idle
      BY <1>1, <1>4, <2>8 DEF Send, SenderStep, Control
    <3>3. \A k \in DOMAIN pending' : \E i \in DOMAIN pending : pending'[k] = pending[i]
      <4>1. Len(pending) \in Nat /\ DOMAIN pending = 1 .. Len(pending)
            /\ DOMAIN pending' = 1 .. n - d
        BY <1>3, <3>1, LenProperties DEF Dispatched
      <4>2. \A k \in 1 .. n - d : d + k \in DOMAIN pending /\ pending'[k] = pending[d + k]
        BY <3>1, <4>1 DEF Dispatched
      <4>3. QED
        BY <4>1, <4>2
    <3>4. horizon' = horizon /\ ring' = ring /\ idle' = idle
      BY <2>8 DEF Send, flags
    <3>5. QED
      BY <3>2, <3>3, <3>4 DEF Young
  <2>9. CASE Settle
    BY <1>1, <2>9 DEF Settle, SenderStep, rings, books
  <2>10. QED
    BY <1>5, <2>2, <2>3, <2>4, <2>5, <2>6, <2>7, <2>8, <2>9 DEF Sender
<1>6. CASE Continue
  <2>1. UNCHANGED <<pending, sender, idle, discard>>
    BY <1>6 DEF Continue, Wake, FlushReturn, FlushTimeout, PanicSend, PanicRefused, PanicWake,
          PanicSawIdle, PanicPollAgain, PanicReturn, PanicTimeout, StopJoined, rings, flags
  <2>2. CASE FlushReturn
    <3>1. ring = <<>> /\ pending = <<>>
      BY <1>1, <2>2 DEF FlushReturn
    <3>2. ring' = <<>> /\ pending' = <<>>
      BY <2>2, <3>1 DEF FlushReturn, rings
    <3>3. QED
      BY <1>3, <3>2
  <2>3. CASE PanicSend
    <3>1. PICK m \in Message : Pushed(m)
      BY <2>3, Pushes
    <3>2. m.id > horizon /\ ring' = Append(ring, m)
      BY <1>3, <3>1 DEF Pushed
    <3>3. horizon' = horizon /\ main'.pc = "panicWake"
      BY <1>3, <2>3 DEF PanicSend
    <3>4. QED
      BY <1>1, <1>3, <2>1, <3>2, <3>3, YoungLists
  <2>4. CASE StopJoined
    BY <1>3, <1>4, <2>4 DEF StopJoined, Control, Caller, rings
  <2>5. CASE ~FlushReturn /\ ~PanicSend /\ ~StopJoined
    <3>1. UNCHANGED <<ring, horizon>>
      BY <1>6, <2>5 DEF Continue, Wake, FlushTimeout, PanicRefused, PanicWake,
            PanicSawIdle, PanicPollAgain, PanicReturn, PanicTimeout, rings, books
    <3>2. main'.pc \in {"flushWake", "flushPoll"} => main.pc \in {"flushWake", "flushPoll"}
      <4>1. CASE Wake("wake", "free") \/ Wake("flushWake", "flushPoll") \/ Wake("stopWake", "join")
        BY <1>3, <4>1 DEF Wake
      <4>2. CASE PanicWake
        BY <1>3, <4>2 DEF PanicWake, Wake
      <4>3. CASE FlushTimeout
        BY <1>3, <4>3 DEF FlushTimeout
      <4>4. CASE PanicRefused
        BY <1>3, <4>4 DEF PanicRefused
      <4>5. CASE PanicSawIdle \/ PanicPollAgain
        BY <1>3, <4>5 DEF PanicSawIdle, PanicPollAgain
      <4>6. CASE PanicReturn \/ PanicTimeout
        BY <4>6 DEF PanicReturn, PanicTimeout, Caller
      <4>7. QED
        BY <1>6, <2>5, <4>1, <4>2, <4>3, <4>4, <4>5, <4>6 DEF Continue
    <3>3. QED
      BY <1>1, <2>1, <3>1, <3>2
  <2>6. QED
    BY <2>2, <2>3, <2>4, <2>5
<1>7. CASE Call
  <2>1. CASE \E due \in 0 .. MaxDue : Enqueue(due)
    <3>1. PICK m \in Message : Pushed(m)
      BY <2>1, Pushes
    <3>2. m.id > horizon /\ ring' = Append(ring, m)
      BY <1>3, <3>1 DEF Pushed
    <3>3. UNCHANGED <<pending, sender, horizon>> /\ main'.pc = "wake"
      BY <1>3, <2>1 DEF Enqueue
    <3>4. QED
      BY <1>1, <1>3, <3>2, <3>3, YoungLists
  <2>2. CASE \E messages \in {0, PanicMessages} : FlushBegin(messages)
    BY <1>1, <2>2 DEF FlushBegin, rings
  <2>3. CASE FlushInline \/ PanicInline
    BY <1>1, <1>3, <1>4, <2>3 DEF FlushInline, PanicInline, flags
  <2>4. CASE StopBegin
    BY <1>1, <1>3, <2>4 DEF StopBegin, rings, books, Caller
  <2>5. CASE Start
    BY <1>1, <1>3, <1>4, <2>5 DEF Start, Control
  <2>6. QED
    BY <1>7, <2>1, <2>2, <2>3, <2>4, <2>5 DEF Call
<1>8. CASE Device \/ Tick \/ UNCHANGED vars
  BY <1>1, <1>8 DEF Device, ThruPush, ThruWake, Tick, vars, rings, flags, books
<1>9. QED
  BY <1>5, <1>6, <1>7, <1>8 DEF Next

-----------------------------------------------------------------------------
(***************************************************************************)
(* One place for every message                                             *)
(***************************************************************************)
\* A pass sends the first messages of its list, keeps the next and drops the rest.
LEMMA DispatchedIds ==
    ASSUME NEW n \in Nat, NEW d \in Nat, Dispatched(n, d),
           pending \in Seq(Message), sent \in Seq(Message),
           Distinct(pending), Distinct(sent), Ids(pending) \cap Ids(sent) = {}
    PROVE  /\ Ids(pending') \cup Ids(sent') \cup gone' = Ids(pending) \cup Ids(sent) \cup gone
           /\ Ids(sent') \subseteq Ids(pending) \cup Ids(sent)
           /\ Ids(pending') \subseteq Ids(pending)
           /\ Ids(pending') \cap Ids(sent') = {}
           /\ gone' = gone \cup (Ids(pending) \ (Ids(pending') \cup Ids(sent')))
           /\ Distinct(pending') /\ Distinct(sent')
<1>1. /\ DOMAIN pending = 1 .. Len(pending) /\ Len(pending) \in Nat
      /\ DOMAIN sent = 1 .. Len(sent) /\ Len(sent) \in Nat
      /\ DOMAIN pending' = 1 .. n - d /\ DOMAIN sent' = 1 .. Len(sent) + d
      /\ n \in 0 .. Len(pending) /\ d \in 0 .. n
  BY LenProperties DEF Dispatched
<1>2. /\ \A i \in 1 .. Len(sent) : sent'[i] = sent[i]
      /\ \A i \in 1 .. d : sent'[Len(sent) + i] = pending[i]
      /\ \A i \in 1 .. n - d : pending'[i] = pending[d + i]
      /\ gone' = gone \cup (Ids(pending) \ {pending[i].id : i \in 1 .. n})
  BY DEF Dispatched
<1> DEFINE A == {pending[i].id : i \in 1 .. d}
           B == {pending[i].id : i \in d + 1 .. n}
           C == {pending[i].id : i \in 1 .. n}
<1>3. Ids(sent') = Ids(sent) \cup A
  <2>1. ASSUME NEW k \in DOMAIN sent' PROVE sent'[k].id \in Ids(sent) \cup A
    <3>1. CASE k \in 1 .. Len(sent)
      BY <1>1, <1>2, <3>1 DEF Ids
    <3>2. CASE k \notin 1 .. Len(sent)
      <4>1. k - Len(sent) \in 1 .. d /\ k = Len(sent) + (k - Len(sent))
        BY <1>1, <2>1, <3>2
      <4>2. QED
        BY <1>2, <4>1
    <3>3. QED
      BY <3>1, <3>2
  <2>2. ASSUME NEW k \in DOMAIN sent PROVE sent[k].id \in Ids(sent')
    <3>1. k \in DOMAIN sent' /\ sent'[k] = sent[k]
      BY <1>1, <1>2
    <3>2. QED
      BY <3>1 DEF Ids
  <2>3. ASSUME NEW i \in 1 .. d PROVE pending[i].id \in Ids(sent')
    <3>1. Len(sent) + i \in DOMAIN sent' /\ sent'[Len(sent) + i] = pending[i]
      BY <1>1, <1>2
    <3>2. QED
      BY <3>1 DEF Ids
  <2>4. Ids(sent') \subseteq Ids(sent) \cup A
    <3>1. Ids(sent') = {sent'[k].id : k \in DOMAIN sent'}
      BY DEF Ids
    <3>2. QED
      BY <2>1, <3>1
  <2>5. Ids(sent) \subseteq Ids(sent')
    <3>1. Ids(sent) = {sent[k].id : k \in DOMAIN sent}
      BY DEF Ids
    <3>2. QED
      BY <2>2, <3>1
  <2>6. A \subseteq Ids(sent')
    BY <2>3
  <2>7. QED
    BY <2>4, <2>5, <2>6
<1>4. Ids(pending') = B
  <2>1. ASSUME NEW k \in DOMAIN pending' PROVE pending'[k].id \in B
    BY <1>1, <1>2
  <2>2. ASSUME NEW i \in d + 1 .. n PROVE pending[i].id \in Ids(pending')
    <3>1. i - d \in DOMAIN pending' /\ pending'[i - d] = pending[i]
      BY <1>1, <1>2
    <3>2. QED
      BY <3>1 DEF Ids
  <2>3. QED
    BY <2>1, <2>2 DEF Ids
<1>5. C = A \cup B /\ C \subseteq Ids(pending)
  <2>1. 1 .. n = (1 .. d) \cup (d + 1 .. n) /\ 1 .. n \subseteq DOMAIN pending
    BY <1>1
  <2>2. QED
    BY <2>1 DEF Ids
<1>6. A \cap B = {}
  <2>1. ASSUME NEW i \in 1 .. d, NEW j \in d + 1 .. n, pending[i].id = pending[j].id
        PROVE  FALSE
    <3>1. i \in DOMAIN pending /\ j \in DOMAIN pending /\ i # j
      BY <1>1
    <3>2. QED
      BY <2>1, <3>1 DEF Distinct
  <2>2. QED
    BY <2>1
<1>7. Distinct(pending')
  <2>1. ASSUME NEW i \in DOMAIN pending', NEW j \in DOMAIN pending', pending'[i].id = pending'[j].id
        PROVE  i = j
    <3>1. /\ d + i \in DOMAIN pending /\ pending'[i] = pending[d + i]
          /\ d + j \in DOMAIN pending /\ pending'[j] = pending[d + j]
          /\ i \in Int /\ j \in Int
      BY <1>1, <1>2
    <3>2. d + i = d + j
      BY <2>1, <3>1 DEF Distinct
    <3>3. QED
      BY <1>1, <3>1, <3>2
  <2>2. QED
    BY <2>1 DEF Distinct
<1>8. Distinct(sent')
  <2>1. ASSUME NEW i \in DOMAIN sent', NEW j \in DOMAIN sent', sent'[i].id = sent'[j].id
        PROVE  i = j
    <3>1. \A k \in DOMAIN sent' :
             \/ k \in DOMAIN sent /\ sent'[k] = sent[k]
             \/ k - Len(sent) \in DOMAIN pending /\ sent'[k] = pending[k - Len(sent)]
      <4>1. ASSUME NEW k \in DOMAIN sent', k \notin DOMAIN sent
            PROVE  k - Len(sent) \in DOMAIN pending /\ sent'[k] = pending[k - Len(sent)]
        <5>1. k - Len(sent) \in 1 .. d /\ k = Len(sent) + (k - Len(sent))
          BY <1>1, <4>1
        <5>2. QED
          BY <1>1, <1>2, <5>1
      <4>2. QED
        BY <1>1, <1>2, <4>1
    <3>2. CASE /\ i \in DOMAIN sent /\ sent'[i] = sent[i]
               /\ j \in DOMAIN sent /\ sent'[j] = sent[j]
      BY <2>1, <3>2 DEF Distinct
    <3>3. CASE /\ i \in DOMAIN sent /\ sent'[i] = sent[i]
               /\ j - Len(sent) \in DOMAIN pending /\ sent'[j] = pending[j - Len(sent)]
      <4>1. sent'[i].id \in Ids(sent) /\ sent'[j].id \in Ids(pending)
        BY <3>3 DEF Ids
      <4>2. QED
        BY <2>1, <4>1
    <3>4. CASE /\ i - Len(sent) \in DOMAIN pending /\ sent'[i] = pending[i - Len(sent)]
               /\ j \in DOMAIN sent /\ sent'[j] = sent[j]
      <4>1. sent'[j].id \in Ids(sent) /\ sent'[i].id \in Ids(pending)
        BY <3>4 DEF Ids
      <4>2. QED
        BY <2>1, <4>1
    <3>5. CASE /\ i - Len(sent) \in DOMAIN pending /\ sent'[i] = pending[i - Len(sent)]
               /\ j - Len(sent) \in DOMAIN pending /\ sent'[j] = pending[j - Len(sent)]
      <4>1. i - Len(sent) = j - Len(sent)
        BY <2>1, <3>5 DEF Distinct
      <4>2. QED
        BY <1>1, <4>1
    <3>6. QED
      BY <3>1, <3>2, <3>3, <3>4, <3>5
  <2>2. QED
    BY <2>1 DEF Distinct
<1> HIDE DEF A, B, C
<1>9. gone' = gone \cup (Ids(pending) \ C)
  BY <1>2 DEF C
<1>10. QED
  BY <1>3, <1>4, <1>5, <1>6, <1>7, <1>8, <1>9

LEMMA BooksKept ==
    ASSUME IInv, Movement
    PROVE  Books'
<1>1. /\ ring \in Seq(Message) /\ imm \in Seq(Message)
      /\ pending \in Seq(Message) /\ sent \in Seq(Message) /\ accepted \in Nat
  BY BoundAssumption DEF IInv, Types
<1>2. Books
  BY DEF IInv
<1>3. Ids(<<>>) = {} /\ Distinct(<<>>)
  BY EmptyIds
<1>4. accepted + 1 \notin 1 .. accepted
      /\ 1 .. (accepted + 1) = (1 .. accepted) \cup {accepted + 1}
  BY <1>1
<1>5. CASE Still
  BY <1>2, <1>5 DEF Still, Books
<1>6. ASSUME NEW m \in Message, Pushed(m) PROVE Books'
  <2>1. m.id = accepted + 1 /\ ring' = Append(ring, m) /\ accepted' = accepted + 1
        /\ UNCHANGED <<imm, pending, sent, gone>>
    BY <1>6 DEF Pushed
  <2>2. Ids(ring') = Ids(ring) \cup {accepted + 1}
        /\ (Distinct(ring) /\ accepted + 1 \notin Ids(ring) => Distinct(ring'))
    BY <1>1, <2>1, IdsOfAppend
  <2>3. QED
    BY <1>2, <1>4, <2>1, <2>2 DEF Books
<1>7. ASSUME NEW m \in Message, ThruPushed(m) PROVE Books'
  <2>1. m.id = accepted + 1 /\ imm' = Append(imm, m) /\ accepted' = accepted + 1
        /\ UNCHANGED <<ring, pending, sent, gone>>
    BY <1>7 DEF ThruPushed
  <2>2. Ids(imm') = Ids(imm) \cup {accepted + 1}
        /\ (Distinct(imm) /\ accepted + 1 \notin Ids(imm) => Distinct(imm'))
    BY <1>1, <2>1, IdsOfAppend
  <2>3. QED
    BY <1>2, <1>4, <2>1, <2>2 DEF Books
<1>8. CASE RingCleared
  BY <1>2, <1>3, <1>8 DEF RingCleared, Books
<1>9. CASE PendingCleared
  BY <1>2, <1>3, <1>9 DEF PendingCleared, Books
<1>10. CASE ThruSent
  <2>1. Ids(sent') = Ids(sent) \cup Ids(imm)
        /\ (Distinct(sent) /\ Distinct(imm) /\ Ids(sent) \cap Ids(imm) = {} => Distinct(sent'))
    BY <1>1, <1>10, IdsOfConcat DEF ThruSent
  <2>2. imm' = <<>> /\ UNCHANGED <<ring, pending, gone, accepted>>
    BY <1>10 DEF ThruSent
  <2>3. QED
    BY <1>2, <1>3, <2>1, <2>2 DEF Books
<1>11. CASE Dropped
  <2>1. Ids(pending \o ring) = Ids(pending) \cup Ids(ring)
    BY <1>1, IdsOfConcat
  <2>2. QED
    BY <1>2, <1>3, <1>11, <2>1 DEF Dropped, Books
<1>12. CASE Merged
  <2>1. /\ pending \o ring \in Seq(Message)
        /\ Ids(pending \o ring) = Ids(pending) \cup Ids(ring)
        /\ Distinct(pending \o ring)
    BY <1>1, <1>2, Concat, IdsOfConcat DEF Books
  <2>2. Ids(pending') = Ids(pending) \cup Ids(ring) /\ Distinct(pending')
    BY <1>12, <2>1, SortedList DEF Merged
  <2>3. ring' = <<>> /\ UNCHANGED <<imm, sent, gone, accepted>>
    BY <1>12 DEF Merged
  <2>4. QED
    BY <1>2, <1>3, <2>2, <2>3 DEF Books
<1>13. ASSUME NEW n \in Nat, NEW d \in Nat, Dispatched(n, d) PROVE Books'
  <2>1. UNCHANGED <<ring, imm, accepted>>
    BY <1>13 DEF Dispatched
  <2>2. Distinct(pending) /\ Distinct(sent) /\ Ids(pending) \cap Ids(sent) = {}
    BY <1>2 DEF Books
  <2>3. /\ Ids(pending') \cup Ids(sent') \cup gone' = Ids(pending) \cup Ids(sent) \cup gone
        /\ Ids(sent') \subseteq Ids(pending) \cup Ids(sent)
        /\ Ids(pending') \subseteq Ids(pending)
        /\ Ids(pending') \cap Ids(sent') = {}
        /\ gone' = gone \cup (Ids(pending) \ (Ids(pending') \cup Ids(sent')))
        /\ Distinct(pending') /\ Distinct(sent')
    BY <1>1, <1>13, <2>2, DispatchedIds
  <2>4. QED
    BY <1>2, <2>1, <2>3 DEF Books
<1>14. CASE PanicInline
  <2>1. /\ PanicBytes \in Seq(Message) /\ sent' = sent \o PanicBytes /\ pending = <<>>
        /\ Ids(PanicBytes) = accepted + 1 .. accepted + PanicMessages
        /\ Distinct(PanicBytes) /\ PanicMessages \in Nat
    BY <1>14, PanicBytesAre
  <2>2. /\ accepted' = accepted + PanicMessages /\ ring' = <<>> /\ gone' = gone \cup Ids(ring)
        /\ UNCHANGED <<pending, imm>>
    BY <1>14 DEF PanicInline
  <2>3. /\ (1 .. accepted) \cap Ids(PanicBytes) = {}
        /\ 1 .. accepted' = (1 .. accepted) \cup Ids(PanicBytes)
    BY <1>1, <2>1, <2>2
  <2>4. Ids(sent') = Ids(sent) \cup Ids(PanicBytes)
        /\ (Distinct(sent) /\ Ids(sent) \cap Ids(PanicBytes) = {} => Distinct(sent'))
    <3>1. \A t \in Seq(Message) :
             /\ Ids(sent \o t) = Ids(sent) \cup Ids(t)
             /\ Distinct(sent) /\ Distinct(t) /\ Ids(sent) \cap Ids(t) = {} => Distinct(sent \o t)
      BY <1>1, IdsOfConcat
    <3>2. QED
      BY <2>1, <3>1
  <2>5. QED
    BY <1>2, <1>3, <2>2, <2>3, <2>4 DEF Books
<1>15. QED
  BY <1>5, <1>6, <1>7, <1>8, <1>9, <1>10, <1>11, <1>12, <1>13, <1>14 DEF Movement

LEMMA NextSound == IInv /\ [Next]_vars => IInv'
<1> SUFFICES ASSUME IInv, [Next]_vars PROVE IInv'
  OBVIOUS
<1>1. Movement
  BY StepsMove
<1>2. Order' /\ Books'
  BY <1>1, OrderKept, BooksKept
<1>3. Types' /\ Control' /\ Woken' /\ Cut'
  BY TypesKept, ControlKept, WokenKept, CutKept
<1>4. QED
  BY <1>2, <1>3 DEF IInv

-----------------------------------------------------------------------------
(***************************************************************************)
(* The theorems                                                            *)
(***************************************************************************)
LEMMA Inductive == Spec => []IInv
BY InitSound, NextSound, PTL DEF Spec

\* Every variable keeps its type, and the rings and the list their bounds: a push never
\* overtakes the consumer's end of a ring, and a pass leaves at most kRingSlots pending.
THEOREM TypeCorrect == Spec => []TypeOK
<1>1. IInv => TypeOK
  BY DEF IInv, Types, Control, TypeOK
<1>2. QED
  BY <1>1, Inductive, PTL

\* Whatever the two producers, the sender, the flushes, panics and stops do and in which
\* order, an accepted message is in one place, once, or was dropped on purpose.
THEOREM NothingLostOrDoubled == Spec => []Accounted
<1>1. ASSUME IInv PROVE Accounted
  <2>1. /\ ring \in Seq(Message) /\ imm \in Seq(Message)
        /\ pending \in Seq(Message) /\ sent \in Seq(Message)
    BY <1>1 DEF IInv, Types
  <2>2. Books
    BY <1>1 DEF IInv
  <2> DEFINE a == ring \o imm
             b == a \o pending
  <2>3. a \in Seq(Message) /\ Ids(a) = Ids(ring) \cup Ids(imm) /\ Distinct(a)
    BY <2>1, <2>2, Concat, IdsOfConcat DEF Books
  <2> HIDE DEF a
  <2>4. b \in Seq(Message) /\ Ids(b) = Ids(ring) \cup Ids(imm) \cup Ids(pending) /\ Distinct(b)
    <3>1. Ids(a) \cap Ids(pending) = {} /\ Distinct(pending)
      BY <2>2, <2>3 DEF Books
    <3>2. QED
      BY <2>1, <2>3, <3>1, Concat, IdsOfConcat
  <2> HIDE DEF b
  <2>5. /\ b \o sent \in Seq(Message) /\ Distinct(b \o sent)
        /\ Ids(b \o sent) = Ids(ring) \cup Ids(imm) \cup Ids(pending) \cup Ids(sent)
    <3>1. Ids(b) \cap Ids(sent) = {} /\ Distinct(sent)
      BY <2>2, <2>4 DEF Books
    <3>2. QED
      BY <2>1, <2>4, <3>1, Concat, IdsOfConcat
  <2>6. Everywhere = b \o sent
    BY DEF Everywhere, a, b
  <2>7. Cardinality(Ids(b \o sent)) = Len(b \o sent)
    BY <2>5, DistinctCounts
  <2>8. QED
    BY <2>2, <2>5, <2>6, <2>7 DEF Accounted, Books
<1>2. QED
  BY <1>1, Inductive, PTL

\* The sender's sleep: no message waits in a ring behind a snapshot of the wake counter
\* that already counts its wake().
THEOREM NoWakeupIsLost == Spec => []NoLostWakeup
<1>1. IInv => NoLostWakeup
  BY DEF IInv, Woken, NoLostWakeup
<1>2. QED
  BY <1>1, Inductive, PTL

\* The stable sort and the order of the passes keep messages of one instant in the order
\* the pump enqueued them.
THEOREM InstantsKeepTheirOrder == Spec => []SameInstantInOrder
<1>1. IInv => SameInstantInOrder
  BY DEF IInv, Order
<1>2. QED
  BY <1>1, Inductive, PTL

\* flush(), panic() and stop(): nothing queued before the call leaves after the pass that
\* honours it, or after the call's return.
THEOREM FlushedStaysUnsent == Spec => NothingEscapes
<1>1. ASSUME IInv, [Next]_vars,
             NEW i \in Len(sent) + 1 .. Len(sent'), sent'[i].kind # "thru"
      PROVE  sent'[i].id > horizon
  <2>1. Movement
    BY <1>1, StepsMove
  <2>2. sent \in Seq(Message) /\ imm \in Seq(Message) /\ Len(sent) \in Nat
        /\ accepted \in Nat /\ horizon \in Nat /\ horizon <= accepted
        /\ DOMAIN sent = 1 .. Len(sent)
    BY <1>1, LenProperties, BoundAssumption DEF IInv, Types
  <2>3. ASSUME NEW t \in Seq(Message), sent' = sent \o t
        PROVE  i - Len(sent) \in DOMAIN t /\ sent'[i] = t[i - Len(sent)]
    <3>1. Len(sent') = Len(sent) + Len(t) /\ DOMAIN t = 1 .. Len(t) /\ Len(t) \in Nat
      BY <2>2, <2>3, Concat, LenProperties
    <3>2. i - Len(sent) \in DOMAIN t /\ Len(sent) + (i - Len(sent)) = i
      BY <1>1, <2>2, <3>1
    <3>3. \A k \in DOMAIN t : (sent \o t)[Len(sent) + k] = t[k]
      BY <2>2, <2>3, Concat
    <3>4. QED
      BY <2>3, <3>2, <3>3
  <2>4. CASE ThruSent
    <3>1. i - Len(sent) \in DOMAIN imm /\ sent'[i] = imm[i - Len(sent)]
      BY <2>2, <2>3, <2>4 DEF ThruSent
    <3>2. QED
      BY <1>1, <3>1 DEF IInv, Order
  <2>5. CASE PanicInline
    <3>1. /\ PanicBytes \in Seq(Message) /\ sent' = sent \o PanicBytes
          /\ DOMAIN PanicBytes = 1 .. PanicMessages /\ PanicMessages \in Nat
          /\ \A k \in 1 .. PanicMessages : PanicBytes[k].id = accepted + k
      BY <1>1, <2>5, PanicBytesAre
    <3>2. i - Len(sent) \in 1 .. PanicMessages /\ sent'[i].id = accepted + (i - Len(sent))
      BY <2>3, <3>1
    <3>3. QED
      BY <2>2, <3>1, <3>2
  <2>6. CASE Send
    <3>1. PICK n \in Nat, d \in Nat : Dispatched(n, d)
      BY <1>1, <2>6, SendDispatches
    <3>2. /\ Len(sent') = Len(sent) + d /\ n \in 0 .. Len(pending) /\ d \in 0 .. n
          /\ \A k \in 1 .. d : sent'[Len(sent) + k] = pending[k]
          /\ DOMAIN pending = 1 .. Len(pending) /\ Len(pending) \in Nat
      BY <1>1, <3>1, LenProperties DEF Dispatched, IInv, Types
    <3>3. i - Len(sent) \in 1 .. d /\ Len(sent) + (i - Len(sent)) = i
      BY <1>1, <2>2, <3>2
    <3>4. i - Len(sent) \in DOMAIN pending /\ sent'[i] = pending[i - Len(sent)]
      BY <3>2, <3>3
    <3>5. \A k \in DOMAIN pending : pending[k].id > horizon
      BY <1>1, <2>6 DEF IInv, Cut, Send, SenderStep
    <3>6. QED
      BY <3>4, <3>5
  <2>7. CASE ~ThruSent /\ ~PanicInline /\ ~Send
    <3>1. sent' = sent
      <4>1. CASE Sender
        BY <2>7, <4>1 DEF Sender, Exit, Go, Snapshot, MarkBusy, DrainImmediate, CheckDiscard,
              Drop, DropClear, Drain, Settle, WaitOver, books, ThruSent
      <4>2. CASE Continue
        BY <4>2 DEF Continue, Wake, FlushReturn, FlushTimeout, PanicSend, PanicRefused, PanicWake,
              PanicSawIdle, PanicPollAgain, PanicReturn, PanicTimeout, StopJoined, books
      <4>3. CASE Call \/ Device
        BY <2>7, <4>3 DEF Call, Device, Enqueue, FlushBegin, FlushInline, StopBegin, Start,
              ThruPush, ThruWake, books
      <4>4. CASE Tick \/ UNCHANGED vars
        BY <4>4 DEF Tick, vars, books
      <4>5. QED
        BY <1>1, <4>1, <4>2, <4>3, <4>4 DEF Next
    <3>2. QED
      BY <1>1, <2>2, <3>1
  <2>8. QED
    BY <2>4, <2>5, <2>6, <2>7
<1>2. IInv /\ [Next]_vars =>
          [\A i \in Len(sent) + 1 .. Len(sent') :
              sent'[i].kind # "thru" => sent'[i].id > horizon]_vars
  BY <1>1
<1>3. QED
  BY <1>2, Inductive, PTL DEF Spec, NothingEscapes

=============================================================================
