-------------------------- MODULE MidiOutScheduler --------------------------
(***************************************************************************)
(* The MIDI sender of tw/devices/midi_out_scheduler.cc: one thread that    *)
(* puts messages on the wire at their due time, fed by two single-producer *)
(* rings without a lock.                                                   *)
(*                                                                         *)
(*   main    the app's pump: enqueue, and the control calls flush, panic,  *)
(*           stop and start, all on one thread                             *)
(*   device  the MIDI input thread: sendImmediate (MIDI-thru)              *)
(*   sender  threadMain, a loop of passes                                  *)
(*                                                                         *)
(* The threads meet in atomics only, so an action is one access of an      *)
(* atomic another thread reads or writes, with the private work around it. *)
(* A push refused by a full ring or a stopped scheduler changes nothing    *)
(* but a counter and is no action.                                         *)
(***************************************************************************)
EXTENDS Integers, Sequences, FiniteSets

CONSTANTS
    RingSlots,       \* kRingSlots; one slot of a ring stays unused
    ImmediateSlots,  \* kImmediateSlots
    PanicMessages,   \* what one panic enqueues: two messages a channel
    MaxDue,          \* due times are 0..MaxDue, 0 = at once
    MaxTime,         \* bound: the host clock stops there
    MaxMessages,     \* bound: messages ever accepted
    Stamping,        \* the backends: which answers supportsTimestamps() may give
    Timeouts         \* may flush and panic give up after kDrainWaitMs?

ASSUME SlotsAssumption == RingSlots \in Nat \ {0} /\ ImmediateSlots \in Nat \ {0}
ASSUME PanicAssumption == PanicMessages \in Nat \ {0}
ASSUME TimeAssumption  == MaxDue \in Nat /\ MaxTime \in Nat /\ MaxDue <= MaxTime
ASSUME BoundAssumption == MaxMessages \in Nat
ASSUME FlagsAssumption == Stamping \subseteq BOOLEAN /\ Timeouts \in BOOLEAN

VARIABLES
    ring,        \* the pump's ring between tail_ and head_
    imm,         \* the immediate ring
    pending,     \* the sender's private list
    idle, discard, stopping, running,
    woken,       \* wakeSeq_ # seen: a wake() since the sender's snapshot
    stamped,     \* does the backend time the messages itself?
    sender, main, device,
    now,         \* the host clock
    accepted,    \* messages accepted so far: a message's id is its number
    sent,        \* what the backend was handed, in order
    gone,        \* ids dropped on purpose: flushed, stopped, over the cap
    flushFrom,   \* messages accepted when flush() was last called
    horizon,     \* messages up to this id are promised never to be sent
    promised     \* ids panic() has reported as sent

rings == <<ring, imm, pending>>
flags == <<idle, discard, stopping, running, woken>>
books == <<accepted, sent, gone, flushFrom, horizon, promised>>
vars  == <<rings, flags, stamped, sender, main, device, now, books>>

Kind    == {"pump", "panic", "thru"}
Message == [id : 1 .. MaxMessages, due : 0 .. MaxDue, kind : Kind]

Ids(s) == {s[i].id : i \in DOMAIN s}
Larger(a, b) == IF a > b THEN a ELSE b
UptoAll(s, n) == s
Upto(s, n) == SubSeq(s, 1, IF n < Len(s) THEN n ELSE Len(s))

Caller == [pc |-> "free", left |-> 0, ids |-> {}]

\* The bound on messages, with what a panic under way has still to send set aside.
Within(n) == accepted + n + main.left <= MaxMessages

Init ==
    /\ ring = <<>> /\ imm = <<>> /\ pending = <<>>
    /\ idle = TRUE /\ discard = FALSE /\ stopping = FALSE
    /\ running = FALSE /\ woken = FALSE
    /\ stamped \in Stamping
    /\ sender = "off" /\ main = Caller /\ device = "free"
    /\ now = 0
    /\ accepted = 0 /\ sent = <<>> /\ gone = {}
    /\ flushFrom = 0 /\ horizon = 0 /\ promised = {}

(***************************************************************************)
(* The caller's side: enqueue                                              *)
(***************************************************************************)
RingHasRoom == Len(ring) + 1 < RingSlots

Push(due, kind) ==
    /\ accepted' = accepted + 1
    /\ ring' = Append(ring, [id |-> accepted + 1, due |-> due, kind |-> kind])

Enqueue(due) ==
    /\ main.pc = "free"
    /\ running
    /\ RingHasRoom
    /\ Within(1)
    /\ Push(due, "pump")
    /\ main' = [main EXCEPT !.pc = "wake"]
    /\ UNCHANGED <<imm, pending, flags, stamped, sender, device, now,
                   sent, gone, flushFrom, horizon, promised>>

\* wake(), the last thing every call below does after its store.
Wake(from, to) ==
    /\ main.pc = from
    /\ main' = [main EXCEPT !.pc = to]
    /\ woken' = TRUE
    /\ UNCHANGED <<rings, idle, discard, stopping, running, stamped, sender,
                   device, now, books>>

(***************************************************************************)
(* flush and panic                                                         *)
(***************************************************************************)
\* With no sender the caller owns both ends of the ring.
FlushInline ==
    /\ main.pc = "free"
    /\ ~running
    /\ ring' = <<>>
    /\ gone' = gone \cup Ids(ring)
    /\ UNCHANGED <<imm, pending, flags, stamped, sender, main, device, now,
                   accepted, sent, flushFrom, horizon, promised>>

\* For panic(), which flushes first, `messages` follow; for a bare flush() none do.
FlushBegin(messages) ==
    /\ main.pc = "free"
    /\ running
    /\ Within(messages)
    /\ discard' = TRUE
    /\ flushFrom' = accepted
    /\ main' = [Caller EXCEPT !.pc = "flushWake", !.left = messages]
    /\ UNCHANGED <<rings, idle, stopping, running, woken, stamped, sender, device,
                   now, accepted, sent, gone, horizon, promised>>

AfterFlush == IF main.left > 0 THEN [main EXCEPT !.pc = "panicSend"] ELSE Caller

\* One round of the polling loop finds the flag cleared and the sender idle.
FlushReturn ==
    /\ main.pc = "flushPoll"
    /\ ~discard
    /\ idle
    /\ main' = AfterFlush
    /\ horizon' = Larger(horizon, flushFrom)
    /\ flushFrom' = 0
    /\ UNCHANGED <<rings, flags, stamped, sender, device, now, accepted, sent, gone,
                   promised>>

FlushTimeout ==
    /\ Timeouts
    /\ main.pc = "flushPoll"
    /\ main' = AfterFlush
    /\ UNCHANGED <<rings, flags, stamped, sender, device, now, books>>

\* panic() without a sender writes to the backend itself.
PanicInline ==
    /\ main.pc = "free"
    /\ ~running
    /\ Within(PanicMessages)
    /\ LET bytes == [i \in 1 .. PanicMessages |->
                        [id |-> accepted + i, due |-> 0, kind |-> "panic"]]
       IN  /\ sent' = sent \o bytes
           /\ promised' = promised \cup Ids(bytes)
    /\ accepted' = accepted + PanicMessages
    /\ ring' = <<>>
    /\ gone' = gone \cup Ids(ring)
    /\ UNCHANGED <<imm, pending, flags, stamped, sender, main, device, now,
                   flushFrom, horizon>>

PanicSend ==
    /\ main.pc = "panicSend"
    /\ RingHasRoom
    /\ Push(0, "panic")
    /\ main' = [main EXCEPT !.pc = "panicWake", !.left = @ - 1, !.ids = @ \cup {accepted + 1}]
    /\ UNCHANGED <<imm, pending, flags, stamped, sender, device, now,
                   sent, gone, flushFrom, horizon, promised>>

\* enqueue() refuses and panic() ignores it.
PanicRefused ==
    /\ main.pc = "panicSend"
    /\ ~RingHasRoom
    /\ main' = [main EXCEPT !.pc = IF main.left = 1 THEN "panicPoll" ELSE "panicSend",
                            !.left = @ - 1]
    /\ UNCHANGED <<rings, flags, stamped, sender, device, now, books>>

PanicWake == Wake("panicWake", IF main.left = 0 THEN "panicPoll" ELSE "panicSend")

\* The loop reads idle_ first, then the ring's two ends.
PanicSawIdle ==
    /\ main.pc = "panicPoll"
    /\ idle
    /\ main' = [main EXCEPT !.pc = "panicRecheck"]
    /\ UNCHANGED <<rings, flags, stamped, sender, device, now, books>>

PanicPollAgain ==
    /\ main.pc = "panicRecheck"
    /\ ring # <<>>
    /\ main' = [main EXCEPT !.pc = "panicPoll"]
    /\ UNCHANGED <<rings, flags, stamped, sender, device, now, books>>

PanicReturn ==
    /\ main.pc = "panicRecheck"
    /\ ring = <<>>
    /\ main' = Caller
    /\ promised' = promised \cup main.ids
    /\ UNCHANGED <<rings, flags, stamped, sender, device, now,
                   accepted, sent, gone, flushFrom, horizon>>

PanicTimeout ==
    /\ Timeouts
    /\ main.pc = "panicPoll"
    /\ main' = Caller
    /\ UNCHANGED <<rings, flags, stamped, sender, device, now, books>>

(***************************************************************************)
(* stop and start                                                          *)
(***************************************************************************)
StopBegin ==
    /\ main.pc = "free"
    /\ running
    /\ stopping' = TRUE
    /\ main' = [Caller EXCEPT !.pc = "stopWake"]
    /\ UNCHANGED <<rings, idle, discard, running, woken, stamped, sender, device,
                   now, books>>

StopJoined ==
    /\ main.pc = "join"
    /\ sender = "off"
    /\ running' = FALSE
    /\ main' = Caller
    /\ horizon' = accepted
    /\ UNCHANGED <<rings, idle, discard, stopping, woken, stamped, sender, device, now,
                   accepted, sent, gone, flushFrom, promised>>

\* "A restart must not inherit the previous run's queue": the pump's ring is
\* emptied, the immediate ring is not.
Start ==
    /\ main.pc = "free"
    /\ ~running
    /\ ring' = <<>>
    /\ gone' = gone \cup Ids(ring)
    /\ running' = TRUE
    /\ stopping' = FALSE
    /\ discard' = FALSE
    /\ idle' = TRUE
    /\ sender' = "top"
    /\ UNCHANGED <<imm, pending, woken, stamped, main, device, now,
                   accepted, sent, flushFrom, horizon, promised>>

(***************************************************************************)
(* The device thread: sendImmediate                                        *)
(***************************************************************************)
ThruPush ==
    /\ device = "free"
    /\ running
    /\ Len(imm) + 1 < ImmediateSlots
    /\ Within(1)
    /\ accepted' = accepted + 1
    /\ imm' = Append(imm, [id |-> accepted + 1, due |-> 0, kind |-> "thru"])
    /\ device' = "wake"
    /\ UNCHANGED <<ring, pending, flags, stamped, sender, main, now,
                   sent, gone, flushFrom, horizon, promised>>

ThruWake ==
    /\ device = "wake"
    /\ device' = "free"
    /\ woken' = TRUE
    /\ UNCHANGED <<rings, idle, discard, stopping, running, stamped, sender, main,
                   now, books>>

(***************************************************************************)
(* The sender's pass                                                       *)
(***************************************************************************)
SenderStep(from, to) == sender = from /\ sender' = to

Exit ==
    /\ SenderStep("top", "off")
    /\ stopping
    /\ idle' = TRUE
    /\ pending' = <<>>
    /\ gone' = gone \cup Ids(pending)
    /\ UNCHANGED <<ring, imm, discard, stopping, running, woken, stamped, main,
                   device, now, accepted, sent, flushFrom, horizon, promised>>

Go ==
    /\ SenderStep("top", "snapshot")
    /\ ~stopping
    /\ UNCHANGED <<rings, flags, stamped, main, device, now, books>>

\* "Snapshot the wake counter BEFORE looking at the ring."
Snapshot ==
    /\ SenderStep("snapshot", "busy")
    /\ woken' = FALSE
    /\ UNCHANGED <<rings, idle, discard, stopping, running, stamped, main, device,
                   now, books>>

MarkBusy ==
    /\ SenderStep("busy", "thru")
    /\ idle' = FALSE
    /\ UNCHANGED <<rings, discard, stopping, running, woken, stamped, main, device,
                   now, books>>

DrainImmediate ==
    /\ SenderStep("thru", "check")
    /\ sent' = sent \o imm
    /\ imm' = <<>>
    /\ UNCHANGED <<ring, pending, flags, stamped, main, device, now,
                   accepted, gone, flushFrom, horizon, promised>>

\* A pass that finds the flag raised is the one that honours the flush.
CheckDiscard ==
    /\ sender = "check"
    /\ sender' = IF discard THEN "drop" ELSE "drain"
    /\ horizon' = IF discard THEN Larger(horizon, flushFrom) ELSE horizon
    /\ UNCHANGED <<rings, flags, stamped, main, device, now,
                   accepted, sent, gone, flushFrom, promised>>

\* drainRing is one step: between its read of head_ and its store of tail_ only
\* the producer could see a difference, and there it either pushes or polls, never
\* both (a poll needs idle_, which is down).  Here it drains into a list that is
\* cleared,
DropPendingOnly ==
    /\ SenderStep("drop", "dropClear")
    /\ pending' = <<>>
    /\ gone' = gone \cup Ids(pending)
    /\ UNCHANGED <<ring, imm, flags, stamped, main, device, now,
                   accepted, sent, flushFrom, horizon, promised>>

Drop ==
    /\ SenderStep("drop", "dropClear")
    /\ ring' = <<>>
    /\ pending' = <<>>
    /\ gone' = gone \cup Ids(pending \o ring)
    /\ UNCHANGED <<imm, flags, stamped, main, device, now,
                   accepted, sent, flushFrom, horizon, promised>>

DropClearForgotten ==
    /\ SenderStep("dropClear", "drain")
    /\ UNCHANGED <<rings, flags, stamped, main, device, now, books>>

DropClear ==
    /\ SenderStep("dropClear", "drain")
    /\ discard' = FALSE
    /\ UNCHANGED <<rings, idle, stopping, running, woken, stamped, main, device,
                   now, books>>

\* here into the list, sorted by due time, messages of one instant as enqueued.
Rearranged(s) ==
    {t \in [DOMAIN s -> {s[i] : i \in DOMAIN s}] :
        {t[i] : i \in DOMAIN s} = {s[i] : i \in DOMAIN s}}

SortedUnstably(s) ==
    {t \in Rearranged(s) : \A i, j \in DOMAIN t : i < j =>
        t[i].due < t[j].due \/ (t[i].due = t[j].due /\ t[i].id > t[j].id)}

Before(a, b) == a.due < b.due \/ (a.due = b.due /\ a.id < b.id)

\* As a set, of one element: no two messages have the same id.
Sorted(s) == {t \in Rearranged(s) : \A i, j \in DOMAIN t : i < j => Before(t[i], t[j])}

DrainThenSnapshot ==
    /\ SenderStep("drain", "send")
    /\ pending' \in Sorted(pending \o ring)
    /\ ring' = <<>>
    /\ woken' = FALSE
    /\ UNCHANGED <<imm, idle, discard, stopping, running, stamped, main, device, now, books>>

DrainKeepingTail ==
    /\ SenderStep("drain", "send")
    /\ pending' \in Sorted(pending \o ring)
    /\ UNCHANGED <<ring, imm, flags, stamped, main, device, now, books>>

Drain ==
    /\ SenderStep("drain", "send")
    /\ pending' \in Sorted(pending \o ring)
    /\ ring' = <<>>
    /\ UNCHANGED <<imm, flags, stamped, main, device, now, books>>

\* Cap the list, drop the furthest future, read the clock and send what is due.
Send ==
    /\ SenderStep("send", "settle")
    /\ LET kept == Upto(pending, RingSlots)
           \* the list is in due order, so what is due is a prefix of it
           due  == IF stamped THEN Len(kept)
                              ELSE Cardinality({i \in DOMAIN kept : kept[i].due <= now})
       IN  /\ sent' = sent \o SubSeq(kept, 1, due)
           /\ pending' = SubSeq(kept, due + 1, Len(kept))
           /\ gone' = gone \cup (Ids(pending) \ Ids(kept))
    /\ UNCHANGED <<ring, imm, flags, stamped, main, device, now,
                   accepted, flushFrom, horizon, promised>>

Settle ==
    /\ SenderStep("settle", "wait")
    /\ idle' = (pending = <<>> /\ ring = <<>> /\ imm = <<>>)
    /\ UNCHANGED <<rings, discard, stopping, running, woken, stamped, main, device,
                   now, books>>

WaitOverWithoutDeadline ==
    /\ SenderStep("wait", "top")
    /\ woken \/ stopping \/ discard \/ pending = <<>>
    /\ UNCHANGED <<rings, flags, stamped, main, device, now, books>>

\* waitUntil: the predicate, or the deadline.  With nothing pending the deadline
\* is the 5 ms idle poll, which may pass at any time.
WaitOver ==
    /\ SenderStep("wait", "top")
    /\ \/ woken \/ stopping \/ discard
       \/ pending = <<>>
       \/ pending # <<>> /\ Head(pending).due <= now
    /\ UNCHANGED <<rings, flags, stamped, main, device, now, books>>

Tick ==
    /\ now < MaxTime
    /\ now' = now + 1
    /\ UNCHANGED <<rings, flags, stamped, sender, main, device, books>>

(***************************************************************************)
(* The specification                                                       *)
(***************************************************************************)
Sender ==
    \/ Exit \/ Go \/ Snapshot \/ MarkBusy \/ DrainImmediate \/ CheckDiscard
    \/ Drop \/ DropClear \/ Drain \/ Send \/ Settle \/ WaitOver

\* A call under way goes on ...
Continue ==
    \/ Wake("wake", "free") \/ Wake("flushWake", "flushPoll") \/ Wake("stopWake", "join")
    \/ FlushReturn \/ FlushTimeout
    \/ PanicSend \/ PanicRefused \/ PanicWake
    \/ PanicSawIdle \/ PanicPollAgain \/ PanicReturn \/ PanicTimeout
    \/ StopJoined

\* ... or the caller makes a new one.
Call ==
    \/ \E due \in 0 .. MaxDue : Enqueue(due)
    \/ \E messages \in {0, PanicMessages} : FlushBegin(messages)
    \/ FlushInline \/ PanicInline
    \/ StopBegin \/ Start

Device == ThruPush \/ ThruWake

Next == Sender \/ Continue \/ Call \/ Device \/ Tick

Spec == Init /\ [][Next]_vars

\* Threads run and the clock advances; nobody has to call anything.  flush() and
\* panic() look once a millisecond, the sender sleeps five when it has nothing
\* pending: a round of the poll meets the idle sender sooner or later (SF).
Fairness ==
    /\ WF_vars(Sender)
    /\ WF_vars(Tick)
    /\ WF_vars(ThruWake)
    /\ WF_vars(Continue)
    /\ SF_vars(FlushReturn)
    /\ SF_vars(PanicSawIdle)
    /\ SF_vars(PanicReturn)

FairSpec == Spec /\ Fairness

(***************************************************************************)
(* What the scheduler guarantees                                           *)
(***************************************************************************)
SenderPc == {"off", "top", "snapshot", "busy", "thru", "check", "drop",
             "dropClear", "drain", "send", "settle", "wait"}
MainPc == {"free", "wake", "flushWake", "flushPoll", "panicSend", "panicWake",
           "panicPoll", "panicRecheck", "stopWake", "join"}

\* Types, and the bounds the rings and the list are held to.
TypeOK ==
    /\ ring \in Seq(Message) /\ Len(ring) < RingSlots
    /\ imm \in Seq(Message) /\ Len(imm) < ImmediateSlots
    /\ pending \in Seq(Message)
    /\ sender \in {"settle", "wait"} => Len(pending) <= RingSlots
    /\ <<idle, discard, stopping, running, woken, stamped>> \in BOOLEAN \X BOOLEAN \X
            BOOLEAN \X BOOLEAN \X BOOLEAN \X BOOLEAN
    /\ sender \in SenderPc /\ (sender # "off" => running)
    /\ main \in [pc : MainPc, left : 0 .. PanicMessages,
                 ids : SUBSET (1 .. MaxMessages)]
    /\ device \in {"free", "wake"}
    /\ now \in 0 .. MaxTime
    /\ accepted \in 0 .. MaxMessages
    /\ sent \in Seq(Message)
    /\ gone \subseteq 1 .. MaxMessages
    /\ flushFrom \in 0 .. accepted /\ horizon \in 0 .. accepted
    /\ promised \subseteq 1 .. MaxMessages

\* A message accepted by a ring is in exactly one place, once: queued, sent, or
\* dropped at one of the places that drop on purpose.  Two rings, a half-published
\* drain, a discard, a cap and a stop lie between enqueue() and the wire.
Everywhere == ring \o imm \o pending \o sent

Accounted ==
    /\ Ids(Everywhere) \cup gone = 1 .. accepted
    /\ Ids(Everywhere) \cap gone = {}
    /\ Cardinality(Ids(Everywhere)) = Len(Everywhere)

\* "taking the snapshot after the drain would swallow exactly that message's
\* wakeup": a sender asleep on a message it has not seen is being woken.
NoLostWakeup ==
    sender = "wait" =>
        /\ ring # <<>> => woken \/ main.pc \in {"wake", "panicWake"}
        /\ imm # <<>> => woken \/ device = "wake"

\* Two messages due at the same instant reach the wire in the order the pump
\* produced them, also when a pass took one and a later pass the other.
SameInstantInOrder ==
    \A i, j \in DOMAIN sent :
        (/\ i < j
         /\ sent[i].kind # "thru" /\ sent[j].kind # "thru"
         /\ sent[i].due = sent[j].due) => sent[i].id < sent[j].id

\* flush() discards the queued future: from the pass that honours it, and from its
\* return at the latest, nothing queued before the call reaches the wire.  Nor does
\* anything queued before a stop, in a later run.
NothingEscapes ==
    [][\A i \in Len(sent) + 1 .. Len(sent') :
          sent'[i].kind # "thru" => sent'[i].id > horizon]_vars

\* panic(): "the call returns once the bytes have left for the backend".
PanicDelivers == promised \subseteq Ids(sent)

\* Every call returns, by itself and not only by giving up after kDrainWaitMs.
CallsReturn == main.pc # "free" ~> main.pc = "free"

\* While the sender runs nothing stays queued for ever.
EverythingLeaves ==
    \A m \in 1 .. MaxMessages :
        m \in Ids(ring \o imm \o pending) ~> m \notin Ids(ring \o imm \o pending) \/ ~running

=============================================================================
