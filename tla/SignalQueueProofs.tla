------------------------- MODULE SignalQueueProofs -------------------------
(***************************************************************************)
(* Proofs about SignalQueue, for any number of Pion's threads, signals and *)
(* nested calls.                                                           *)
(***************************************************************************)
EXTENDS SignalQueue, SequenceTheorems, TLAPS

-----------------------------------------------------------------------------
(* The queue and where its signals go *)

QueueTypes ==
  /\ queued \in Nat
  /\ signal_queue \in Seq(Nat) /\ emitted \in Seq(Nat) /\ dropped \in Seq(Nat)
  /\ raced \in BOOLEAN /\ crashed \in BOOLEAN

\* How many signals have left the queue.
Past == queued - Len(signal_queue)

\* Until a close races with a push: the queue holds the latest signals, in order; the earlier ones were emitted,
\* in order, or dropped.
QueueInv ==
  /\ queued \in Nat
  /\ signal_queue \in Seq(Nat) /\ emitted \in Seq(Nat) /\ dropped \in Seq(Nat)
  /\ Past = Len(emitted) + Len(dropped)
  /\ \A i \in DOMAIN signal_queue : signal_queue[i] = Past + i
  /\ \A i, j \in DOMAIN emitted : i < j => emitted[i] < emitted[j]
  /\ Elements(emitted) \cup Elements(dropped) = 1 .. Past

LEMMA Appended ==
  ASSUME NEW s \in Seq(Nat), NEW x \in Nat, NEW t, t = Append(s, x)
  PROVE  /\ t \in Seq(Nat) /\ Len(t) = Len(s) + 1 /\ DOMAIN t = 1 .. Len(s) + 1
         /\ \A i \in 1 .. Len(s) : t[i] = s[i]
         /\ t[Len(s) + 1] = x
  OBVIOUS

LEMMA ElementsOfAppend ==
  ASSUME NEW s \in Seq(Nat), NEW x \in Nat, NEW t, t = Append(s, x)
  PROVE  Elements(t) = Elements(s) \cup {x}
<1>1. /\ DOMAIN t = 1 .. Len(s) + 1 /\ DOMAIN s = 1 .. Len(s) /\ Len(s) \in Nat
      /\ \A i \in 1 .. Len(s) : t[i] = s[i]
      /\ t[Len(s) + 1] = x
  BY Appended
<1>2. ASSUME NEW e \in Elements(t) PROVE e \in Elements(s) \cup {x}
  <2>1. PICK i \in 1 .. Len(s) + 1 : e = t[i]
    BY <1>1, <1>2 DEF Elements
  <2>. QED
    BY <1>1, <2>1 DEF Elements
<1>3. ASSUME NEW i \in 1 .. Len(s) PROVE s[i] \in Elements(t)
  BY <1>1, <1>3 DEF Elements
<1>4. x \in Elements(t)
  BY <1>1 DEF Elements
<1>. QED
  BY <1>1, <1>2, <1>3, <1>4 DEF Elements

LEMMA PushKeepsQueueInv ==
  ASSUME QueueInv, NEW self, Push(self)
  PROVE  QueueInv'
<1>1. /\ queued' = queued + 1 /\ signal_queue' = Append(signal_queue, queued + 1)
      /\ UNCHANGED <<emitted, dropped>>
  BY DEF Push
<1>2. /\ signal_queue \in Seq(Nat) /\ queued + 1 \in Nat /\ queued \in Nat
      /\ Len(signal_queue) \in Nat /\ DOMAIN signal_queue = 1 .. Len(signal_queue)
  BY DEF QueueInv
<1>3. /\ signal_queue' \in Seq(Nat) /\ Len(signal_queue') = Len(signal_queue) + 1
      /\ DOMAIN signal_queue' = 1 .. Len(signal_queue) + 1
      /\ \A i \in 1 .. Len(signal_queue) : signal_queue'[i] = signal_queue[i]
      /\ signal_queue'[Len(signal_queue) + 1] = queued + 1
  BY <1>1, <1>2, Appended
<1>4. Past' = Past
  BY <1>1, <1>2, <1>3 DEF Past
<1>5. \A i \in DOMAIN signal_queue' : signal_queue'[i] = Past + i
  <2>1. signal_queue'[Len(signal_queue) + 1] = Past + (Len(signal_queue) + 1)
    BY <1>2, <1>3 DEF Past
  <2>2. \A i \in 1 .. Len(signal_queue) : signal_queue'[i] = Past + i
    BY <1>2, <1>3 DEF QueueInv
  <2>. QED
    BY <1>2, <1>3, <2>1, <2>2
<1>6. Elements(emitted') \cup Elements(dropped') = 1 .. Past'
  BY <1>1, <1>4 DEF QueueInv
<1>. QED
  BY <1>1, <1>2, <1>3, <1>4, <1>5, <1>6 DEF QueueInv

\* The front of a queue that is not empty is the number after those that left.
LEMMA FrontIsNext ==
  ASSUME QueueInv, signal_queue # <<>>,
         signal_queue' = Tail(signal_queue), queued' = queued
  PROVE  /\ Past \in Nat /\ Past' = Past + 1 /\ Head(signal_queue) = Past + 1
         /\ signal_queue' \in Seq(Nat)
         /\ \A i \in DOMAIN signal_queue' : signal_queue'[i] = Past' + i
<1>1. signal_queue \in Seq(Nat) /\ Len(signal_queue) \in Nat /\ Len(signal_queue) > 0
  BY DEF QueueInv
<1>2. Past \in Nat
  BY DEF QueueInv
<1>3. /\ Len(signal_queue') = Len(signal_queue) - 1 /\ signal_queue' \in Seq(Nat)
      /\ \A i \in 1 .. Len(signal_queue) - 1 : signal_queue'[i] = signal_queue[i + 1]
  BY <1>1
<1>4. Past' = Past + 1
  BY <1>1, <1>3 DEF Past, QueueInv
<1>5. Head(signal_queue) = Past + 1
  BY <1>1 DEF QueueInv
<1>. QED
  BY <1>1, <1>2, <1>3, <1>4, <1>5, SMTT(30) DEF QueueInv

LEMMA EmitKeepsQueueInv ==
  ASSUME QueueInv, signal_queue # <<>>, emitted' = Append(emitted, Head(signal_queue)),
         signal_queue' = Tail(signal_queue), UNCHANGED <<queued, dropped>>
  PROVE  QueueInv'
<1>1. /\ Past \in Nat /\ Past' = Past + 1 /\ Head(signal_queue) = Past + 1
      /\ signal_queue' \in Seq(Nat)
      /\ \A i \in DOMAIN signal_queue' : signal_queue'[i] = Past' + i
  BY FrontIsNext
<1>2. /\ emitted \in Seq(Nat) /\ Past + 1 \in Nat /\ emitted' = Append(emitted, Past + 1)
      /\ Len(emitted) \in Nat /\ DOMAIN emitted = 1 .. Len(emitted)
      /\ dropped \in Seq(Nat) /\ Len(dropped) \in Nat
  BY <1>1 DEF QueueInv
<1>3. /\ emitted' \in Seq(Nat) /\ Len(emitted') = Len(emitted) + 1
      /\ DOMAIN emitted' = 1 .. Len(emitted) + 1
      /\ \A i \in 1 .. Len(emitted) : emitted'[i] = emitted[i]
      /\ emitted'[Len(emitted) + 1] = Past + 1
  BY <1>2, Appended
<1>4. \A i, j \in DOMAIN emitted' : i < j => emitted'[i] < emitted'[j]
  <2>1. \A i \in 1 .. Len(emitted) : emitted[i] \in 1 .. Past
    BY <1>2 DEF QueueInv, Elements
  <2>2. \A i, j \in 1 .. Len(emitted) : i < j => emitted[i] < emitted[j]
    BY <1>2 DEF QueueInv
  <2>. QED
    BY <1>1, <1>2, <1>3, <2>1, <2>2
<1>5. Elements(emitted') \cup Elements(dropped) = 1 .. Past + 1
  <2>1. Elements(emitted') = Elements(emitted) \cup {Past + 1}
    BY <1>2, ElementsOfAppend
  <2>2. Elements(emitted) \cup Elements(dropped) = 1 .. Past
    BY DEF QueueInv
  <2>. QED
    BY <1>1, <2>1, <2>2
<1>6. Past' = Len(emitted') + Len(dropped')
  BY <1>1, <1>2, <1>3 DEF QueueInv
<1>7. Elements(emitted') \cup Elements(dropped') = 1 .. Past'
  BY <1>1, <1>5
<1>8. queued' \in Nat /\ dropped' \in Seq(Nat)
  BY DEF QueueInv
<1>. QED
  BY <1>1, <1>3, <1>4, <1>6, <1>7, <1>8 DEF QueueInv

LEMMA DropKeepsQueueInv ==
  ASSUME QueueInv, signal_queue # <<>>, dropped' = Append(dropped, Head(signal_queue)),
         signal_queue' = Tail(signal_queue), UNCHANGED <<queued, emitted>>
  PROVE  QueueInv'
<1>1. /\ Past \in Nat /\ Past' = Past + 1 /\ Head(signal_queue) = Past + 1
      /\ signal_queue' \in Seq(Nat)
      /\ \A i \in DOMAIN signal_queue' : signal_queue'[i] = Past' + i
  BY FrontIsNext
<1>2. /\ dropped \in Seq(Nat) /\ Past + 1 \in Nat /\ dropped' = Append(dropped, Past + 1)
      /\ emitted \in Seq(Nat) /\ Len(emitted) \in Nat /\ Len(dropped) \in Nat
  BY <1>1 DEF QueueInv
<1>3. dropped' \in Seq(Nat) /\ Len(dropped') = Len(dropped) + 1
  BY <1>2, Appended
<1>4. Elements(emitted) \cup Elements(dropped') = 1 .. Past + 1
  <2>1. Elements(dropped') = Elements(dropped) \cup {Past + 1}
    BY <1>2, ElementsOfAppend
  <2>2. Elements(emitted) \cup Elements(dropped) = 1 .. Past
    BY DEF QueueInv
  <2>. QED
    BY <1>1, <2>1, <2>2
<1>5. Past' = Len(emitted') + Len(dropped')
  BY <1>1, <1>2, <1>3 DEF QueueInv
<1>6. Elements(emitted') \cup Elements(dropped') = 1 .. Past'
  BY <1>1, <1>4
<1>7. /\ queued' \in Nat /\ emitted' \in Seq(Nat)
      /\ \A i, j \in DOMAIN emitted' : i < j => emitted'[i] < emitted'[j]
  BY DEF QueueInv
<1>. QED
  BY <1>1, <1>3, <1>5, <1>6, <1>7 DEF QueueInv

LEMMA UntouchedQueue ==
  ASSUME QueueInv, UNCHANGED queue
  PROVE  QueueInv'
<1>. UNCHANGED <<signal_queue, queued, emitted, dropped>>
  BY DEF queue
<1>. QED
  BY DEF QueueInv, Past, Elements

-----------------------------------------------------------------------------
(* The script's call stack *)

\* A call that has not returned waits for a handler, but for the innermost.
StackInv ==
  /\ stack \in Seq(Points)
  /\ \A i \in 1 .. Len(stack) - 1 : stack[i] \in {"track", "emit"}

LEMMA GotoMoves ==
  ASSUME StackInv, stack # <<>>, NEW point \in Points, Goto(point)
  PROVE  /\ StackInv'
         /\ \A q : At(q)' <=> q = point
<1>1. stack \in Seq(Points) /\ Len(stack) \in Nat /\ Len(stack) > 0
  BY DEF StackInv
<1>2. /\ stack' \in Seq(Points) /\ Len(stack') = Len(stack)
      /\ stack'[Len(stack)] = point
      /\ \A i \in 1 .. Len(stack) - 1 : stack'[i] = stack[i]
  BY <1>1 DEF Goto
<1>3. stack' # <<>>
  BY <1>1, <1>2
<1>. QED
  BY <1>1, <1>2, <1>3 DEF StackInv, At

LEMMA CallMoves ==
  ASSUME StackInv, InScript, NEW point \in Points, Call(point)
  PROVE  /\ StackInv'
         /\ \A q : At(q)' <=> q = point
<1>1. stack \in Seq(Points) /\ Len(stack) \in Nat
  BY DEF StackInv
<1>2. /\ stack' \in Seq(Points) /\ Len(stack') = Len(stack) + 1
      /\ stack'[Len(stack) + 1] = point
      /\ \A i \in 1 .. Len(stack) : stack'[i] = stack[i]
  BY <1>1 DEF Call
<1>3. stack' # <<>>
  BY <1>1, <1>2
<1>4. Len(stack) > 0 => stack[Len(stack)] \in {"track", "emit"}
  BY <1>1 DEF InScript, At
<1>. QED
  BY <1>1, <1>2, <1>3, <1>4 DEF StackInv, At

LEMMA ReturnMoves ==
  ASSUME StackInv, stack # <<>>, Return
  PROVE  /\ StackInv'
         /\ \A q : At(q)' => q \in {"track", "emit"}
<1>1. stack \in Seq(Points) /\ Len(stack) \in Nat /\ Len(stack) > 0
  BY DEF StackInv
<1>2. \A i \in 1 .. Len(stack) - 1 : stack[i] \in Points
  BY <1>1
<1>3. /\ stack' \in Seq(Points) /\ Len(stack') = Len(stack) - 1
      /\ \A i \in 1 .. Len(stack) - 1 : stack'[i] = stack[i]
  <2>. DEFINE n == Len(stack) - 1
  <2>1. n \in Nat /\ stack' = SubSeq(stack, 1, n)
    BY <1>1 DEF Return
  <2>. HIDE DEF n
  <2>2. /\ SubSeq(stack, 1, n) \in Seq(Points)
        /\ Len(SubSeq(stack, 1, n)) = IF 1 <= n THEN n - 1 + 1 ELSE 0
        /\ \A i \in 1 .. n - 1 + 1 : SubSeq(stack, 1, n)[i] = stack[1 + i - 1]
    BY <1>2, <2>1, SubSeqProperties DEF n
  <2>3. Len(stack') = n /\ \A i \in 1 .. n : stack'[i] = stack[i]
    BY <2>1, <2>2
  <2>. QED
    BY <2>1, <2>2, <2>3 DEF n
<1>. QED
  BY <1>1, <1>3 DEF StackInv, At

-----------------------------------------------------------------------------
(* The threads and the mutex *)

\* Who holds the mutex, what the script's thread may rely on between its test
\* of the queue and its use, and that nobody calls back while close drains,
\* unless a failed initialize has left Pion a connection.
ThreadInv ==
  /\ mutex_signal_queue \in {"free", "script"} \cup Callbacks
  /\ mutex_signal_queue = "script" <=> At("pop") \/ At("qpush")
  /\ \A c \in Callbacks : mutex_signal_queue = c <=> pc[c] = "push"
  /\ pc \in [Callbacks -> {"idle", "lock", "push"}]
  /\ pionWebrtc \in {"valid", "Invalid"}
  /\ open \in BOOLEAN
  /\ At("lock") \/ At("pop") => signal_queue # <<>>
  /\ At("join") => ~open
  /\ At("drain") => ~open \/ pionWebrtc = "Invalid"
  /\ ~open => At("join") \/ \A c \in Callbacks : pc[c] = "idle"

\* The inductive invariant.
IInv == QueueTypes /\ (~raced => QueueInv) /\ StackInv /\ ThreadInv

LEMMA InitEstablishesIInv == Init => IInv
<1>. SUFFICES ASSUME Init PROVE IInv
  OBVIOUS
<1>1. \A S : <<>> \in Seq(S)
  OBVIOUS
<1>2. QueueInv
  <2>1. /\ signal_queue = <<>> /\ emitted = <<>> /\ dropped = <<>> /\ queued = 0
        /\ Len(<<>>) = 0 /\ DOMAIN <<>> = {}
    BY DEF Init
  <2>2. Past = 0
    <3>1. Len(signal_queue) = 0
      BY <2>1
    <3>2. queued = 0
      BY <2>1
    <3>. QED
      BY <3>1, <3>2, SMT DEF Past
  <2>3. Elements(<<>>) = {}
    BY <2>1 DEF Elements
  <2>4. Elements(emitted) \cup Elements(dropped) = 1 .. Past
    BY <2>1, <2>2, <2>3
  <2>. QED
    BY <1>1, <2>1, <2>2, <2>4 DEF QueueInv
<1>3. StackInv
  BY <1>1 DEF Init, StackInv
<1>4. \A q : ~At(q)
  BY DEF Init, At
<1>5. ThreadInv
  BY <1>4, CallbacksAssumption DEF Init, ThreadInv
<1>6. QueueTypes
  BY <1>1 DEF Init, QueueTypes
<1>. QED
  BY <1>2, <1>3, <1>5, <1>6 DEF IInv

\* What a step that only moves a thread has to leave alone.
LEMMA UntouchedTypes ==
  ASSUME QueueTypes, UNCHANGED queue, raced' \in BOOLEAN, crashed' \in BOOLEAN
  PROVE  QueueTypes'
<1>. UNCHANGED <<signal_queue, queued, emitted, dropped>>
  BY DEF queue
<1>. QED
  BY DEF QueueTypes

LEMMA PushKeepsTypes ==
  ASSUME QueueTypes, NEW self, Push(self), raced' \in BOOLEAN, crashed' = crashed
  PROVE  QueueTypes' /\ signal_queue' # <<>>
<1>1. /\ queued' = queued + 1 /\ signal_queue' = Append(signal_queue, queued + 1)
      /\ UNCHANGED <<emitted, dropped>>
  BY DEF Push
<1>2. queued + 1 \in Nat /\ signal_queue \in Seq(Nat) /\ Len(signal_queue) \in Nat
  BY DEF QueueTypes
<1>3. signal_queue' \in Seq(Nat) /\ Len(signal_queue') = Len(signal_queue) + 1
  BY <1>1, <1>2, Appended
<1>4. signal_queue' # <<>>
  BY <1>2, <1>3
<1>. QED
  BY <1>1, <1>2, <1>3, <1>4 DEF QueueTypes

\* A step that changes neither the queue nor where the script's thread is.
LEMMA StackStays ==
  ASSUME StackInv, stack' = stack
  PROVE  StackInv' /\ \A q : At(q)' <=> At(q)
  BY DEF StackInv, At

LEMMA CallbackKeepsIInv ==
  ASSUME IInv, NEW c \in Callbacks,
         CallbackStart(c) \/ CallbackLock(c) \/ CallbackPush(c)
  PROVE  IInv'
<1>. USE DEF IInv
<1>1. stack' = stack /\ open' = open /\ pionWebrtc' = pionWebrtc /\ crashed' = crashed
  BY DEF CallbackStart, CallbackLock, CallbackPush, pion, outcome
<1>2. StackInv' /\ \A q : At(q)' <=> At(q)
  BY <1>1, StackStays
<1>3. CASE CallbackStart(c)
  <2>1. UNCHANGED queue /\ raced' = raced
    BY <1>3 DEF CallbackStart, outcome
  <2>2. QueueTypes' /\ (~raced' => QueueInv')
    BY <1>1, <2>1, UntouchedQueue, UntouchedTypes DEF QueueTypes
  <2>3. /\ pc' = [pc EXCEPT ![c] = "lock"] /\ pc[c] = "idle" /\ open
        /\ UNCHANGED <<mutex_signal_queue, signal_queue>>
    BY <1>3 DEF CallbackStart, queue
  <2>4. ThreadInv'
    BY <1>1, <1>2, <2>3 DEF ThreadInv
  <2>. QED
    BY <1>2, <2>2, <2>4
<1>4. CASE CallbackLock(c)
  <2>1. UNCHANGED queue /\ raced' = raced
    BY <1>4 DEF CallbackLock, outcome
  <2>2. QueueTypes' /\ (~raced' => QueueInv')
    BY <1>1, <2>1, UntouchedQueue, UntouchedTypes DEF QueueTypes
  <2>3. /\ pc' = [pc EXCEPT ![c] = "push"] /\ pc[c] = "lock"
        /\ mutex_signal_queue = "free" /\ mutex_signal_queue' = c
        /\ signal_queue' = signal_queue
    BY <1>4 DEF CallbackLock, Lock, queue
  <2>4. ThreadInv'
    BY <1>1, <1>2, <2>3, CallbacksAssumption DEF ThreadInv
  <2>. QED
    BY <1>2, <2>2, <2>4
<1>5. CASE CallbackPush(c)
  <2>1. /\ pc' = [pc EXCEPT ![c] = "idle"] /\ pc[c] = "push"
        /\ raced' = (raced \/ Overlap) /\ mutex_signal_queue' = "free"
        /\ Push(c) \/ ( /\ Overlap /\ queued' = queued + 1
                        /\ UNCHANGED <<signal_queue, emitted, dropped>>)
    BY <1>5 DEF CallbackPush, Push
  <2>2. raced' \in BOOLEAN
    BY <2>1 DEF QueueTypes, Overlap
  <2>3. QueueTypes' /\ (signal_queue # <<>> => signal_queue' # <<>>)
    <3>1. CASE Push(c)
      BY <1>1, <2>2, <3>1, PushKeepsTypes
    <3>2. CASE queued' = queued + 1 /\ UNCHANGED <<signal_queue, emitted, dropped>>
      BY <1>1, <2>2, <3>2 DEF QueueTypes
    <3>. QED
      BY <2>1, <3>1, <3>2
  <2>4. ~raced' => QueueInv'
    BY <2>1, PushKeepsQueueInv
  <2>5. mutex_signal_queue = c
    BY <2>1 DEF ThreadInv
  <2>6. ThreadInv'
    BY <1>1, <1>2, <2>1, <2>3, <2>5, CallbacksAssumption DEF ThreadInv
  <2>. QED
    BY <1>2, <2>3, <2>4, <2>6
<1>. QED
  BY <1>3, <1>4, <1>5

\* The script's steps that neither lock nor touch the queue.
LEMMA MovesKeepIInv ==
  ASSUME IInv, UNCHANGED <<queue, mutex_signal_queue, pc, raced>>, crashed' \in BOOLEAN,
         open' \in BOOLEAN, pionWebrtc' \in {"valid", "Invalid"},
         StackInv',
         ~(At("pop") \/ At("qpush")), ~(At("pop") \/ At("qpush"))',
         At("lock")' => signal_queue # <<>>,
         At("join")' => ~open',
         At("drain")' => ~open' \/ pionWebrtc' = "Invalid",
         ~open' => At("join")' \/ \A c \in Callbacks : pc[c] = "idle"
  PROVE  IInv'
<1>1. QueueTypes' /\ (~raced' => QueueInv')
  BY UntouchedQueue, UntouchedTypes DEF IInv, QueueTypes
<1>2. UNCHANGED <<signal_queue, mutex_signal_queue, pc>>
  BY DEF queue
<1>3. ThreadInv'
  BY <1>2 DEF IInv, ThreadInv
<1>. QED
  BY <1>1, <1>3 DEF IInv

LEMMA AtOne ==
  ASSUME NEW q, At(q)
  PROVE  stack # <<>> /\ \A r : At(r) <=> r = q
  BY DEF At

LEMMA InScriptIsOutside ==
  ASSUME InScript
  PROVE  \A q : At(q) => q \in {"track", "emit"}
  BY DEF InScript, At

LEMMA PollTestKeepsIInv == ASSUME IInv, PollTest PROVE IInv'
<1>1. /\ At("test") /\ stack # <<>> /\ ~At("pop") /\ ~At("qpush") /\ ~At("join")
      /\ UNCHANGED <<queue, mutex_signal_queue, pc, open, pionWebrtc, raced, crashed>>
      /\ StackInv /\ open \in BOOLEAN /\ crashed \in BOOLEAN
      /\ pionWebrtc \in {"valid", "Invalid"}
      /\ ~open => \A c \in Callbacks : pc[c] = "idle"
  BY AtOne DEF PollTest, IInv, ThreadInv, QueueTypes, pion, outcome
<1>2. CASE signal_queue = <<>>
  <2>1. Return
    BY <1>2 DEF PollTest
  <2>2. StackInv' /\ \A q : At(q)' => q \in {"track", "emit"}
    BY <1>1, <2>1, ReturnMoves
  <2>. QED
    BY <1>1, <2>2, MovesKeepIInv
<1>3. CASE signal_queue # <<>>
  <2>1. Goto("lock")
    BY <1>3 DEF PollTest
  <2>2. StackInv' /\ \A q : At(q)' <=> q = "lock"
    BY <1>1, <2>1, GotoMoves DEF Points
  <2>. QED
    BY <1>1, <1>3, <2>2, MovesKeepIInv
<1>. QED
  BY <1>2, <1>3

LEMMA GotoKeepsIInv ==
  ASSUME IInv, PollTrack \/ HandlerReturns \/ CloseJoin
  PROVE  IInv'
<1>1. /\ UNCHANGED <<queue, mutex_signal_queue, pc, open, pionWebrtc, raced, crashed>>
      /\ StackInv /\ open \in BOOLEAN /\ crashed \in BOOLEAN
      /\ pionWebrtc \in {"valid", "Invalid"}
  BY DEF PollTrack, HandlerReturns, CloseJoin, IInv, ThreadInv, QueueTypes, pion, outcome
<1>2. CASE PollTrack \/ HandlerReturns
  <2>1. stack # <<>> /\ Goto("test") /\ ~At("pop") /\ ~At("qpush") /\ ~At("join")
    BY <1>2, AtOne DEF PollTrack, HandlerReturns
  <2>2. StackInv' /\ \A q : At(q)' <=> q = "test"
    BY <1>1, <2>1, GotoMoves DEF Points
  <2>3. ~open => \A c \in Callbacks : pc[c] = "idle"
    BY <2>1 DEF IInv, ThreadInv
  <2>. QED
    BY <1>1, <2>1, <2>2, <2>3, MovesKeepIInv
<1>3. CASE CloseJoin
  <2>1. /\ stack # <<>> /\ Goto("drain") /\ ~At("pop") /\ ~At("qpush")
        /\ At("join") /\ \A c \in Callbacks : pc[c] = "idle"
    BY <1>3, AtOne DEF CloseJoin
  <2>2. StackInv' /\ \A q : At(q)' <=> q = "drain"
    BY <1>1, <2>1, GotoMoves DEF Points
  <2>3. ~open'
    BY <1>1, <2>1 DEF IInv, ThreadInv
  <2>. QED
    BY <1>1, <2>1, <2>2, <2>3, MovesKeepIInv
<1>. QED
  BY <1>2, <1>3

LEMMA CallKeepsIInv ==
  ASSUME IInv,
         CallPoll \/ CallCreateOffer \/ CallInitialize \/ CallInitializeFails \/ CallClose
  PROVE  IInv'
<1>1. /\ UNCHANGED <<queue, mutex_signal_queue, pc, raced, crashed>> /\ InScript
      /\ StackInv /\ open \in BOOLEAN /\ crashed \in BOOLEAN
      /\ pionWebrtc \in {"valid", "Invalid"}
      /\ ~At("pop") /\ ~At("qpush") /\ ~At("lock") /\ ~At("join") /\ ~At("drain")
      /\ ~open => \A c \in Callbacks : pc[c] = "idle"
  <2>1. InScript /\ UNCHANGED <<queue, mutex_signal_queue, pc, raced, crashed>>
    BY DEF CallPoll, CallCreateOffer, CallInitialize, CallInitializeFails, CallClose, outcome
  <2>2. ~At("pop") /\ ~At("qpush") /\ ~At("lock") /\ ~At("join") /\ ~At("drain")
    BY <2>1, InScriptIsOutside
  <2>. QED
    BY <2>1, <2>2 DEF IInv, ThreadInv, QueueTypes
<1>2. CASE CallPoll \/ CallCreateOffer
  <2>1. open' = open /\ pionWebrtc' = pionWebrtc /\ (Call("track") \/ Call("qlock"))
    BY <1>2 DEF CallPoll, CallCreateOffer, pion
  <2>2. StackInv' /\ \A q : At(q)' => q \in {"track", "qlock"}
    BY <1>1, <2>1, CallMoves DEF Points
  <2>. QED
    BY <1>1, <2>1, <2>2, MovesKeepIInv
<1>3. CASE CallInitialize \/ CallInitializeFails
  <2>1. /\ stack' = stack /\ open' \in BOOLEAN /\ pionWebrtc' \in {"valid", "Invalid"}
        /\ ~open' => \A c \in Callbacks : pc[c] = "idle"
    BY <1>1, <1>3 DEF CallInitialize, CallInitializeFails
  <2>2. StackInv' /\ \A q : At(q)' <=> At(q)
    BY <1>1, <2>1, StackStays
  <2>3. ~(At("pop") \/ At("qpush") \/ At("lock") \/ At("join") \/ At("drain"))'
    BY <1>1, <2>2
  <2>. QED
    BY <1>1, <2>1, <2>2, <2>3, MovesKeepIInv
<1>4. CASE CallClose
  <2>1. pionWebrtc' = pionWebrtc
    BY <1>4 DEF CallClose
  <2>2. CASE pionWebrtc # "Invalid"
    <3>1. open' = FALSE /\ Call("join")
      BY <1>4, <2>2 DEF CallClose
    <3>2. StackInv' /\ \A q : At(q)' <=> q = "join"
      BY <1>1, <3>1, CallMoves DEF Points
    <3>3. /\ ~(At("pop") \/ At("qpush"))' /\ ~At("lock")' /\ ~At("drain")' /\ At("join")'
      BY <3>2
    <3>4. open' \in BOOLEAN /\ ~open'
      BY <3>1
    <3>. QED
      BY <1>1, <2>1, <3>2, <3>3, <3>4, MovesKeepIInv
  <2>3. CASE pionWebrtc = "Invalid"
    <3>1. open' = open /\ Call("drain")
      BY <1>4, <2>3 DEF CallClose
    <3>2. StackInv' /\ \A q : At(q)' <=> q = "drain"
      BY <1>1, <3>1, CallMoves DEF Points
    <3>3. ~(At("pop") \/ At("qpush"))' /\ ~At("lock")' /\ ~At("join")'
      BY <3>2
    <3>. QED
      BY <1>1, <2>1, <2>3, <3>1, <3>2, <3>3, MovesKeepIInv
  <2>. QED
    BY <2>2, <2>3
<1>. QED
  BY <1>2, <1>3, <1>4

LEMMA LockKeepsIInv == ASSUME IInv, PollLock \/ QueueLock PROVE IInv'
<1>1. /\ UNCHANGED <<queue, signal_queue, pc, open, pionWebrtc, raced, crashed>> /\ StackInv
      /\ mutex_signal_queue = "free" /\ mutex_signal_queue' = "script"
  BY DEF PollLock, QueueLock, Lock, IInv, queue, pion, outcome
<1>2. QueueTypes' /\ (~raced' => QueueInv')
  BY <1>1, UntouchedQueue, UntouchedTypes DEF IInv, QueueTypes
<1>3. CASE PollLock
  <2>1. At("lock") /\ ~At("join") /\ stack # <<>> /\ Goto("pop")
    BY <1>3, AtOne DEF PollLock
  <2>2. StackInv' /\ \A q : At(q)' <=> q = "pop"
    BY <1>1, <2>1, GotoMoves DEF Points
  <2>3. ThreadInv'
    BY <1>1, <2>1, <2>2, CallbacksAssumption DEF IInv, ThreadInv
  <2>. QED
    BY <1>2, <2>2, <2>3 DEF IInv
<1>4. CASE QueueLock
  <2>1. At("qlock") /\ ~At("join") /\ stack # <<>> /\ Goto("qpush")
    BY <1>4, AtOne DEF QueueLock
  <2>2. StackInv' /\ \A q : At(q)' <=> q = "qpush"
    BY <1>1, <2>1, GotoMoves DEF Points
  <2>3. ThreadInv'
    BY <1>1, <2>1, <2>2, CallbacksAssumption DEF IInv, ThreadInv
  <2>. QED
    BY <1>2, <2>2, <2>3 DEF IInv
<1>. QED
  BY <1>3, <1>4

LEMMA PollPopKeepsIInv == ASSUME IInv, PollPop PROVE IInv'
<1>1. /\ At("pop") /\ ~At("join") /\ stack # <<>> /\ Goto("emit") /\ StackInv
      /\ UNCHANGED <<pc, open, pionWebrtc, raced, crashed>>
      /\ mutex_signal_queue' = "free"
  BY AtOne DEF PollPop, IInv, pion, outcome
<1>2. StackInv' /\ \A q : At(q)' <=> q = "emit"
  BY <1>1, GotoMoves DEF Points
<1>3. QueueTypes'
  <2>1. /\ signal_queue \in Seq(Nat) /\ signal_queue # <<>> /\ emitted \in Seq(Nat)
        /\ emitted' = Append(emitted, Head(signal_queue))
        /\ signal_queue' = Tail(signal_queue) /\ UNCHANGED <<queued, dropped>>
    BY DEF PollPop, IInv, QueueTypes
  <2>2. Head(signal_queue) \in Nat /\ Tail(signal_queue) \in Seq(Nat)
    BY <2>1
  <2>3. emitted' \in Seq(Nat)
    BY <2>1, <2>2, Appended
  <2>. QED
    BY <1>1, <2>1, <2>2, <2>3 DEF IInv, QueueTypes
<1>4. ~raced' => QueueInv'
  BY <1>1, EmitKeepsQueueInv DEF PollPop, IInv
<1>5. mutex_signal_queue = "script"
  BY <1>1 DEF IInv, ThreadInv
<1>6. ThreadInv'
  BY <1>1, <1>2, <1>5, CallbacksAssumption DEF IInv, ThreadInv
<1>. QED
  BY <1>2, <1>3, <1>4, <1>6 DEF IInv

LEMMA QueuePushKeepsIInv == ASSUME IInv, QueuePush PROVE IInv'
<1>1. /\ At("qpush") /\ ~At("join") /\ stack # <<>> /\ Return /\ StackInv
      /\ UNCHANGED <<pc, open, pionWebrtc, raced, crashed>>
      /\ mutex_signal_queue' = "free" /\ mutex_signal_queue = "script" /\ Push("script")
  BY AtOne DEF QueuePush, Push, IInv, pion, outcome
<1>2. StackInv' /\ \A q : At(q)' => q \in {"track", "emit"}
  BY <1>1, ReturnMoves
<1>3. QueueTypes' /\ (~raced' => QueueInv')
  BY <1>1, PushKeepsQueueInv, PushKeepsTypes DEF IInv, QueueTypes
<1>4. ThreadInv'
  BY <1>1, <1>2, CallbacksAssumption DEF IInv, ThreadInv
<1>. QED
  BY <1>2, <1>3, <1>4 DEF IInv

LEMMA CloseDrainKeepsIInv == ASSUME IInv, CloseDrain PROVE IInv'
<1>1. /\ At("drain") /\ stack # <<>> /\ StackInv
      /\ ~At("pop") /\ ~At("qpush") /\ ~At("lock") /\ ~At("join")
      /\ UNCHANGED <<queued, emitted, mutex_signal_queue, pc, open, pionWebrtc>>
      /\ raced' = (raced \/ Overlap) /\ crashed' \in BOOLEAN /\ raced' \in BOOLEAN
      /\ ~open => \A c \in Callbacks : pc[c] = "idle"
  <2>1. /\ At("drain") /\ raced' = (raced \/ Overlap)
        /\ UNCHANGED <<queued, emitted, mutex_signal_queue, pc, open, pionWebrtc>>
    BY DEF CloseDrain, pion
  <2>2. stack # <<>> /\ ~At("pop") /\ ~At("qpush") /\ ~At("lock") /\ ~At("join")
    BY <2>1, AtOne
  <2>3. crashed' \in BOOLEAN /\ raced' \in BOOLEAN
    <3>1. crashed \in BOOLEAN /\ raced \in BOOLEAN
      BY DEF IInv, QueueTypes
    <3>2. crashed' = crashed \/ crashed' = TRUE
      BY DEF CloseDrain
    <3>3. raced' \in BOOLEAN
      BY <2>1, <3>1 DEF Overlap
    <3>. QED
      BY <3>1, <3>2, <3>3
  <2>. QED
    BY <2>1, <2>2, <2>3 DEF IInv, ThreadInv
<1>2. ASSUME UNCHANGED <<signal_queue, dropped>>
      PROVE  QueueTypes' /\ (~raced' => QueueInv')
  BY <1>1, <1>2, UntouchedQueue, UntouchedTypes DEF IInv, queue
<1>3. CASE Return /\ UNCHANGED <<signal_queue, dropped>>
  <2>1. StackInv' /\ \A q : At(q)' => q \in {"track", "emit"}
    BY <1>1, <1>3, ReturnMoves
  <2>2. ThreadInv'
    BY <1>1, <1>3, <2>1 DEF IInv, ThreadInv
  <2>. QED
    BY <1>2, <1>3, <2>1, <2>2 DEF IInv
<1>4. CASE /\ signal_queue # <<>> /\ stack' = stack
           /\ dropped' = Append(dropped, Head(signal_queue))
           /\ signal_queue' = Tail(signal_queue)
  <2>1. StackInv' /\ \A q : At(q)' <=> At(q)
    BY <1>1, <1>4, StackStays
  <2>2. QueueTypes'
    <3>1. signal_queue \in Seq(Nat) /\ dropped \in Seq(Nat)
      BY DEF IInv, QueueTypes
    <3>2. Head(signal_queue) \in Nat /\ Tail(signal_queue) \in Seq(Nat)
      BY <1>4, <3>1
    <3>3. dropped' \in Seq(Nat)
      BY <1>4, <3>1, <3>2, Appended
    <3>. QED
      BY <1>1, <1>4, <3>2, <3>3 DEF IInv, QueueTypes
  <2>3. ~raced' => QueueInv'
    BY <1>1, <1>4, DropKeepsQueueInv DEF IInv
  <2>4. ThreadInv'
    BY <1>1, <2>1 DEF IInv, ThreadInv
  <2>. QED
    BY <2>1, <2>2, <2>3, <2>4 DEF IInv
<1>5. CASE UNCHANGED <<signal_queue, dropped, stack>>
  <2>1. StackInv' /\ \A q : At(q)' <=> At(q)
    BY <1>1, <1>5, StackStays
  <2>2. ThreadInv'
    BY <1>1, <2>1 DEF IInv, ThreadInv
  <2>. QED
    BY <1>2, <1>5, <2>1, <2>2 DEF IInv
<1>. QED
  BY <1>3, <1>4, <1>5 DEF CloseDrain

LEMMA NextKeepsIInv == IInv /\ [Next]_vars => IInv'
<1>. SUFFICES ASSUME IInv, [Next]_vars PROVE IInv'
  OBVIOUS
<1>1. CASE Next
  BY <1>1, CallbackKeepsIInv, PollTestKeepsIInv, GotoKeepsIInv, CallKeepsIInv, LockKeepsIInv,
     PollPopKeepsIInv, QueuePushKeepsIInv, CloseDrainKeepsIInv
  DEF Next, ScriptStep
<1>2. CASE UNCHANGED vars
  <2>1. UNCHANGED <<queue, signal_queue, mutex_signal_queue, stack, pc, open, pionWebrtc,
                    raced, crashed>>
    BY <1>2 DEF vars, queue, pion, outcome
  <2>2. QueueTypes' /\ (~raced' => QueueInv')
    BY <2>1, UntouchedQueue, UntouchedTypes DEF IInv, QueueTypes
  <2>3. StackInv' /\ ThreadInv'
    BY <2>1 DEF IInv, StackInv, ThreadInv, At
  <2>. QED
    BY <2>2, <2>3 DEF IInv
<1>. QED
  BY <1>1, <1>2

\* The inductive invariant, of which the next theorems are consequences: the
\* signals in the queue, the calls on the script's stack and the mutex agree in
\* every reachable state.
THEOREM IInvAlways == Spec => []IInv
  BY InitEstablishesIInv, NextKeepsIInv, PTL DEF Spec

-----------------------------------------------------------------------------
(* What the runs check *)

\* The queue and its mutex have their types, and a thread holds the mutex of
\* queue_signal and _poll exactly between its lock and its unlock.
THEOREM TypeCorrect == Spec => []TypeOK
<1>1. IInv => TypeOK
  BY DEF IInv, QueueTypes, StackInv, ThreadInv, TypeOK
<1>. QED
  BY <1>1, IInvAlways, PTL

\* Whatever handlers call, each signal that entered queue_signal is in the
\* queue, was emitted by _poll, or was dropped by _close, once, as long as no
\* _close has raced with a push (which DrainsAlone confines).
THEOREM NothingLost == Spec => []ExactlyOnce
<1>1. ASSUME IInv, ~raced PROVE ExactlyOnce
  <2>1. /\ queued \in Nat /\ signal_queue \in Seq(Nat) /\ emitted \in Seq(Nat)
        /\ dropped \in Seq(Nat) /\ Past = Len(emitted) + Len(dropped)
        /\ Elements(emitted) \cup Elements(dropped) = 1 .. Past
        /\ \A i \in 1 .. Len(signal_queue) : signal_queue[i] = Past + i
    BY <1>1 DEF IInv, QueueInv
  <2>2. Len(signal_queue) \in Nat /\ Len(emitted) \in Nat /\ Len(dropped) \in Nat
    BY <2>1
  <2>3. Past \in Nat /\ Past + Len(signal_queue) = queued
    BY <2>1, <2>2 DEF Past
  <2>4. Elements(signal_queue) = (Past + 1) .. queued
    <3>1. DOMAIN signal_queue = 1 .. Len(signal_queue)
      BY <2>1
    <3>2. ASSUME NEW e \in Elements(signal_queue) PROVE e \in (Past + 1) .. queued
      BY <2>1, <2>2, <2>3, <3>1, <3>2 DEF Elements
    <3>3. ASSUME NEW e \in (Past + 1) .. queued PROVE e \in Elements(signal_queue)
      <4>1. e - Past \in 1 .. Len(signal_queue) /\ Past + (e - Past) = e
        BY <2>1, <2>2, <2>3, <3>3
      <4>2. signal_queue[e - Past] = e
        BY <2>1, <4>1
      <4>. QED
        BY <3>1, <4>1, <4>2 DEF Elements
    <3>. QED
      BY <3>2, <3>3
  <2>5. Len(signal_queue) + Len(emitted) + Len(dropped) = queued
    BY <2>1, <2>2, <2>3
  <2>6. (Past + 1) .. queued \cup 1 .. Past = 1 .. queued
    BY <2>1, <2>2, <2>3
  <2>7. Elements(signal_queue) \cup Elements(emitted) \cup Elements(dropped) = 1 .. queued
    BY <2>1, <2>4, <2>6
  <2>. QED
    BY <2>5, <2>7 DEF ExactlyOnce
<1>2. IInv => ExactlyOnce
  BY <1>1 DEF ExactlyOnce
<1>. QED
  BY <1>2, IInvAlways, PTL

\* _poll emits signals in the order in which queue_signal queued them, however
\* deep polls are nested in handlers.
THEOREM Ordered == Spec => []EmittedInOrder
<1>1. IInv => EmittedInOrder
  BY DEF IInv, QueueInv, EmittedInOrder
<1>. QED
  BY <1>1, IInvAlways, PTL

\* _poll's unlocked test of the queue still holds when it pops.
THEOREM PopsASignal == Spec => []NoPopOfEmpty
<1>1. IInv => NoPopOfEmpty
  BY DEF IInv, ThreadInv, NoPopOfEmpty
<1>. QED
  BY <1>1, IInvAlways, PTL

\* The script's thread never waits for the mutex it holds, also when a handler
\* of a poll calls poll, close or create_offer.
THEOREM NeverWaitsForItself == Spec => []NoSelfLock
<1>1. IInv => NoSelfLock
  BY AtOne DEF IInv, ThreadInv, NoSelfLock
<1>. QED
  BY <1>1, IInvAlways, PTL

\* While _close empties the queue without the lock, no callback is running:
\* always when it has closed a connection, and also after a failed initialize
\* that has left Pion none.
THEOREM DrainsAlone == Spec => []DrainUndisturbed
<1>1. ASSUME IInv PROVE DrainUndisturbed
  <2>1. ASSUME At("drain"), ~LeftOpen
        PROVE  mutex_signal_queue = "free" /\ \A c \in Callbacks : pc[c] = "idle"
    <3>1. ~At("pop") /\ ~At("qpush") /\ ~At("join") /\ ~open
      BY <1>1, <2>1, AtOne DEF IInv, ThreadInv, LeftOpen
    <3>. QED
      BY <1>1, <3>1 DEF IInv, ThreadInv
  <2>. QED
    BY <2>1 DEF DrainUndisturbed
<1>. QED
  BY <1>1, IInvAlways, PTL

\* Only a _close after a failed initialize that left Pion a connection can race
\* with a push: the premise ~raced of the theorems above is lost nowhere else.
THEOREM RaceOnlyWhenLeftOpen == Spec => [][raced' => raced \/ LeftOpen]_vars
<1>1. IInv /\ [Next]_vars => [raced' => raced \/ LeftOpen]_vars
  <2>. SUFFICES ASSUME IInv, Next, raced', ~raced PROVE LeftOpen
    BY DEF vars, outcome
  <2>1. Overlap
    BY DEF Next, ScriptStep, CallbackStart, CallbackLock, CallbackPush, PollTrack, PollTest,
       PollLock, PollPop, HandlerReturns, QueueLock, QueuePush, CloseJoin, CloseDrain,
       CallPoll, CallCreateOffer, CallInitialize, CallInitializeFails, CallClose, outcome
  <2>2. PICK c \in Callbacks : At("drain") /\ pc[c] = "push" /\ ~At("join")
    BY <2>1, AtOne DEF Overlap
  <2>. QED
    BY <2>2 DEF IInv, ThreadInv, LeftOpen
<1>. QED
  BY <1>1, IInvAlways, PTL DEF Spec
=============================================================================
