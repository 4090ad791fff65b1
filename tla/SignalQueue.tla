---------------------------- MODULE SignalQueue ----------------------------
(***************************************************************************)
(* How Pion's events reach the script: queue_signal, called on Pion's      *)
(* threads and, from inside create_offer, on the script's own; _poll,      *)
(* which emits; and _close, which empties the queue.  The handlers that    *)
(* emit_signal runs may call poll, close, create_offer and initialize      *)
(* again, so the script's thread has a call stack of program points:       *)
(*   poll          "track", "test", "lock", "pop", "emit"                  *)
(*   close         "join", "drain"                                         *)
(*   queue_signal  "qlock", "qpush"                                        *)
(* Signals are numbered in the order in which they enter the queue.        *)
(*                                                                         *)
(* Assumed of Pion, as the code does: pionClosePeerConnection returns when *)
(* no callback is running, and none starts until a new connection is made. *)
(* A pionCreatePeerConnection that fails either closes the connection Pion *)
(* had in that way or keeps it; in the second case callbacks go on while   *)
(* the object has no connection, and _close empties the queue beside them. *)
(***************************************************************************)
EXTENDS Integers, Sequences

CONSTANTS
  Callbacks,    \* Pion's threads
  MaxSignals,   \* bound: how many signals are ever queued
  MaxDepth      \* bound: how deep calls from handlers nest

\* The values of the mutex tell the threads apart.
ASSUME CallbacksAssumption == Callbacks \cap {"free", "script"} = {}

VARIABLES
  signal_queue,         \* the queue
  mutex_signal_queue,   \* its mutex: "free" or the thread that holds it
  queued,               \* how many signals have entered the queue
  emitted,              \* the signals handed to emit_signal, in order
  dropped,              \* the signals _close threw away
  stack,                \* the script's thread
  pc,                   \* each of Pion's threads: "idle", "lock", "push"
  pionWebrtc,           \* the object's connection: "valid" or "Invalid"
  open,                 \* whether Pion has a connection and makes callbacks
  raced,                \* history: _close emptied the queue during a push
  crashed               \* and the program did not survive it

queue == <<signal_queue, queued, emitted, dropped>>
pion == <<pionWebrtc, open>>
outcome == <<raced, crashed>>
vars == <<queue, mutex_signal_queue, stack, pc, pion, outcome>>

Init ==
  /\ signal_queue = <<>>
  /\ mutex_signal_queue = "free"
  /\ queued = 0
  /\ emitted = <<>>
  /\ dropped = <<>>
  /\ stack = <<>>
  /\ pc = [c \in Callbacks |-> "idle"]
  /\ pionWebrtc = "valid"
  /\ open = TRUE
  /\ raced = FALSE
  /\ crashed = FALSE

At(point) == stack # <<>> /\ stack[Len(stack)] = point
Goto(point) == stack' = [stack EXCEPT ![Len(stack)] = point]
Call(point) == stack' = Append(stack, point)
Return == stack' = SubSeq(stack, 1, Len(stack) - 1)

\* Where the script's own code runs: between calls, and in a handler.
InScript == stack = <<>> \/ ((At("track") \/ At("emit")) /\ Len(stack) < MaxDepth)

Lock(self) == mutex_signal_queue = "free" /\ mutex_signal_queue' = self

\* push and unlock.
Push(self) ==
  /\ mutex_signal_queue = self
  /\ queued' = queued + 1
  /\ signal_queue' = Append(signal_queue, queued + 1)
  /\ mutex_signal_queue' = "free"
  /\ UNCHANGED <<emitted, dropped>>

-----------------------------------------------------------------------------
(* Pion's threads *)

\* The signals that are on their way into the queue.
Coming == {c \in Callbacks : pc[c] # "idle"}
          \cup {<<"script", i>> : i \in {i \in DOMAIN stack : stack[i] \in {"qlock", "qpush"}}}

CallbackStart(c) ==
  /\ open /\ pc[c] = "idle"
  /\ pc' = [pc EXCEPT ![c] = "lock"]
  /\ UNCHANGED <<queue, mutex_signal_queue, stack, pion, outcome>>

CallbackLock(c) ==
  /\ pc[c] = "lock" /\ Lock(c)
  /\ pc' = [pc EXCEPT ![c] = "push"]
  /\ UNCHANGED <<queue, stack, pion, outcome>>

\* _close empties the queue, without the lock, while a callback pushes to it.
Overlap == At("drain") /\ \E c \in Callbacks : pc[c] = "push"

\* The push of a callback.  In a race with _close what it pushed may be lost.
CallbackPush(c) ==
  /\ pc[c] = "push"
  /\ \/ Push(c)
     \/ /\ Overlap
        /\ queued' = queued + 1 /\ mutex_signal_queue' = "free"
        /\ UNCHANGED <<signal_queue, emitted, dropped>>
  /\ pc' = [pc EXCEPT ![c] = "idle"]
  /\ raced' = (raced \/ Overlap)
  /\ UNCHANGED <<stack, pion, crashed>>

-----------------------------------------------------------------------------
(* The script's thread *)

CallPoll ==
  /\ InScript /\ pionWebrtc # "Invalid" /\ Call("track")
  /\ UNCHANGED <<queue, mutex_signal_queue, pc, pion, outcome>>

\* emit_track_data_signal is done.
PollTrack ==
  /\ At("track") /\ Goto("test")
  /\ UNCHANGED <<queue, mutex_signal_queue, pc, pion, outcome>>

\* Seeded fault: the last signal stays in the queue.
PollTestLeavesOne ==
  /\ At("test")
  /\ IF Len(signal_queue) <= 1 THEN Return ELSE Goto("lock")
  /\ UNCHANGED <<queue, mutex_signal_queue, pc, pion, outcome>>

\* while (!signal_queue.empty()), without the lock.
PollTest ==
  /\ At("test")
  /\ IF signal_queue = <<>> THEN Return ELSE Goto("lock")
  /\ UNCHANGED <<queue, mutex_signal_queue, pc, pion, outcome>>

PollLock ==
  /\ At("lock") /\ Lock("script") /\ Goto("pop")
  /\ UNCHANGED <<queue, pc, pion, outcome>>

\* Seeded fault: the unlock is missing.
PollPopKeepsLock ==
  /\ At("pop") /\ signal_queue # <<>>
  /\ emitted' = Append(emitted, Head(signal_queue))
  /\ signal_queue' = Tail(signal_queue)
  /\ Goto("emit")
  /\ UNCHANGED <<queued, dropped, mutex_signal_queue, pc, pion, outcome>>

\* Seeded fault: front() without pop().
PollPopOnlyFront ==
  /\ At("pop") /\ signal_queue # <<>>
  /\ emitted' = Append(emitted, Head(signal_queue))
  /\ mutex_signal_queue' = "free"
  /\ Goto("emit")
  /\ UNCHANGED <<signal_queue, queued, dropped, pc, pion, outcome>>

\* Seeded fault: the newest signal is taken.
PollPopNewest ==
  /\ At("pop") /\ signal_queue # <<>>
  /\ emitted' = Append(emitted, signal_queue[Len(signal_queue)])
  /\ signal_queue' = SubSeq(signal_queue, 1, Len(signal_queue) - 1)
  /\ mutex_signal_queue' = "free"
  /\ Goto("emit")
  /\ UNCHANGED <<queued, dropped, pc, pion, outcome>>

\* front, pop, unlock, and on to Signal::emit.  (Of an empty queue, which has
\* no front, NoPopOfEmpty says that it does not get here.)
PollPop ==
  /\ At("pop") /\ signal_queue # <<>>
  /\ emitted' = Append(emitted, Head(signal_queue))
  /\ signal_queue' = Tail(signal_queue)
  /\ mutex_signal_queue' = "free"
  /\ Goto("emit")
  /\ UNCHANGED <<queued, dropped, pc, pion, outcome>>

\* Seeded fault: the queue is not tested again after a handler has run.
HandlerReturnsToLock ==
  /\ At("emit") /\ Goto("lock")
  /\ UNCHANGED <<queue, mutex_signal_queue, pc, pion, outcome>>

HandlerReturns ==
  /\ At("emit") /\ Goto("test")
  /\ UNCHANGED <<queue, mutex_signal_queue, pc, pion, outcome>>

\* create_offer, whose local description Pion reports before it returns.
CallCreateOffer ==
  /\ InScript /\ pionWebrtc # "Invalid" /\ open /\ Call("qlock")
  /\ UNCHANGED <<queue, mutex_signal_queue, pc, pion, outcome>>

QueueLock ==
  /\ At("qlock") /\ Lock("script") /\ Goto("qpush")
  /\ UNCHANGED <<queue, pc, pion, outcome>>

QueuePush ==
  /\ At("qpush") /\ Push("script") /\ Return
  /\ UNCHANGED <<pc, pion, outcome>>

\* initialize, of a new object, after close, or while a connection is open.
CallInitialize ==
  /\ InScript
  /\ pionWebrtc' = "valid" /\ open' = TRUE
  /\ UNCHANGED <<queue, mutex_signal_queue, stack, pc, outcome>>

\* pionCreatePeerConnection fails, and keeps or closes what Pion had.
CallInitializeFails ==
  /\ InScript
  /\ pionWebrtc' = "Invalid"
  /\ \/ UNCHANGED open
     \/ open' = FALSE /\ \A c \in Callbacks : pc[c] = "idle"
  /\ UNCHANGED <<queue, mutex_signal_queue, stack, pc, outcome>>

\* Seeded fault: the queue is emptied before Pion is closed.
CallCloseDrainsFirst ==
  /\ InScript /\ Call("drain")
  /\ open' = (open /\ pionWebrtc = "Invalid")
  /\ UNCHANGED <<queue, mutex_signal_queue, pc, pionWebrtc, outcome>>

\* Pion is closed only when the object has a connection.
CallClose ==
  /\ InScript
  /\ IF pionWebrtc # "Invalid"
       THEN Call("join") /\ open' = FALSE
       ELSE Call("drain") /\ UNCHANGED open
  /\ UNCHANGED <<queue, mutex_signal_queue, pc, pionWebrtc, outcome>>

\* pionClosePeerConnection returns.
CloseJoin ==
  /\ At("join") /\ \A c \in Callbacks : pc[c] = "idle"
  /\ Goto("drain")
  /\ UNCHANGED <<queue, mutex_signal_queue, pc, pion, outcome>>

\* while (!signal_queue.empty()) signal_queue.pop(), without the lock.  During
\* a push it may see the queue empty that is not, or crash.
CloseDrain ==
  /\ At("drain")
  /\ raced' = (raced \/ Overlap)
  /\ \/ /\ signal_queue = <<>> \/ Overlap
        /\ Return /\ UNCHANGED <<signal_queue, dropped, crashed>>
     \/ /\ signal_queue # <<>>
        /\ dropped' = Append(dropped, Head(signal_queue))
        /\ signal_queue' = Tail(signal_queue)
        /\ UNCHANGED <<stack, crashed>>
     \/ /\ Overlap /\ crashed' = TRUE
        /\ UNCHANGED <<signal_queue, dropped, stack>>
  /\ UNCHANGED <<queued, emitted, mutex_signal_queue, pc, pion>>

ScriptStep ==
  \/ PollTrack \/ PollTest \/ PollLock \/ PollPop \/ HandlerReturns
  \/ QueueLock \/ QueuePush
  \/ CloseJoin \/ CloseDrain

Next ==
  /\ ~crashed
  /\ \/ \E c \in Callbacks : CallbackStart(c) \/ CallbackLock(c) \/ CallbackPush(c)
     \/ ScriptStep
     \/ CallPoll \/ CallCreateOffer \/ CallInitialize \/ CallInitializeFails \/ CallClose

\* Calls and handlers return, callbacks that have begun go on, and the game
\* polls again and again, whatever else it calls in between.
Fairness ==
  /\ WF_vars(~crashed /\ ScriptStep)
  /\ \A c \in Callbacks :
       SF_vars(~crashed /\ CallbackLock(c)) /\ WF_vars(~crashed /\ CallbackPush(c))
  /\ SF_vars(~crashed /\ stack = <<>> /\ CallPoll)

Spec == Init /\ [][Next]_vars /\ Fairness

-----------------------------------------------------------------------------
Points == {"track", "test", "lock", "pop", "emit", "join", "drain", "qlock", "qpush"}

\* The types, and who has the mutex: a thread holds it exactly while it is
\* between its lock and its unlock, so no two threads ever change the queue at
\* once and no path leaves it locked.
TypeOK ==
  /\ signal_queue \in Seq(Nat)
  /\ mutex_signal_queue \in {"free", "script"} \cup Callbacks
  /\ mutex_signal_queue = "script" <=> At("pop") \/ At("qpush")
  /\ \A c \in Callbacks : mutex_signal_queue = c <=> pc[c] = "push"
  /\ queued \in Nat
  /\ emitted \in Seq(Nat)
  /\ dropped \in Seq(Nat)
  /\ stack \in Seq(Points)
  /\ pc \in [Callbacks -> {"idle", "lock", "push"}]
  /\ pionWebrtc \in {"valid", "Invalid"}
  /\ open \in BOOLEAN
  /\ raced \in BOOLEAN /\ crashed \in BOOLEAN

Elements(s) == {s[i] : i \in DOMAIN s}

\* A failed initialize has left Pion a connection that the object has not.
LeftOpen == pionWebrtc = "Invalid" /\ open

\* No signal is lost, duplicated or emitted after it was dropped, whatever the
\* handlers call: each is in the queue, emitted, or dropped by _close.  (Unless
\* a close raced with a push: see DrainUndisturbed.)
ExactlyOnce ==
  ~raced =>
    /\ Len(signal_queue) + Len(emitted) + Len(dropped) = queued
    /\ Elements(signal_queue) \cup Elements(emitted) \cup Elements(dropped) = 1 .. queued

\* Signals are emitted in the order in which they were queued, also when a
\* handler polls while an outer poll has not finished.
EmittedInOrder ==
  ~raced => \A i, j \in DOMAIN emitted : i < j => emitted[i] < emitted[j]

\* The test of the queue and the use of its front are separate, the first
\* without the lock; the queue is never empty when its front is read.
NoPopOfEmpty == ~raced /\ At("pop") => signal_queue # <<>>

\* The script's thread never waits for a mutex it holds itself.
NoSelfLock == At("lock") \/ At("qlock") => mutex_signal_queue # "script"

\* _close touches the queue only while no one else does, unless a failed
\* initialize has left Pion a connection: then _close does not wait for the
\* callbacks of that connection, since it closes Pion only for a valid
\* pionWebrtc.
DrainUndisturbed ==
  At("drain") /\ ~LeftOpen =>
    mutex_signal_queue = "free" /\ \A c \in Callbacks : pc[c] = "idle"

\* What is queued is eventually emitted or dropped, in an object that has a
\* connection again and again: without one _poll refuses, and what a failed
\* initialize left in the queue stays there until the next close.
EventuallyHandled ==
  \A i \in 1 .. MaxSignals :
    i \in Elements(signal_queue)
      ~> \/ i \in Elements(emitted) \cup Elements(dropped)
         \/ raced
         \/ [](pionWebrtc = "Invalid")

\* _close returns, also when it is called from a handler while callbacks are
\* waiting for the mutex (or crashes in the race DrainUndisturbed leaves).
CloseReturns == At("join") \/ At("drain") ~> ~(At("join") \/ At("drain")) \/ raced
=============================================================================
