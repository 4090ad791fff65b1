--------------------------- MODULE CircularBuffer ---------------------------
(***************************************************************************)
(* A CircularBuffer object under any sequence of calls, the loops of       *)
(* add(Span) and getSome() taken one iteration at a time: a call in        *)
(* progress has elements of its span left (pending) or elements left to    *)
(* fetch (want).  The class is sequential: the next call starts when the   *)
(* last one has returned (its owners hold a lock around every call).       *)
(***************************************************************************)
EXTENDS CircularBufferOps

CONSTANTS
  Spans,    \* the spans handed to add(Span)
  Counts    \* the counts handed to getSome(count)

ASSUME SpansAssumption == Spans \subseteq Seq(T)
ASSUME CountsAssumption == Counts \subseteq Nat

VARIABLES
  cb,       \* the object
  pending,  \* the part of its span that add(Span) has still to add
  want,     \* how many elements getSome() has still to fetch
  out       \* what get() or getSome() returned last (so far)

vars == <<cb, pending, want, out>>

Init ==
  /\ cb = NewRing
  /\ pending = <<>>
  /\ want = 0
  /\ out = <<>>

Idle == pending = <<>> /\ want = 0

AddItem(x) ==
  /\ Idle
  /\ cb' = Add(cb, x)
  /\ UNCHANGED <<pending, want, out>>

AddSpan(s) ==
  /\ Idle
  /\ pending' = s
  /\ UNCHANGED <<cb, want, out>>

AddSpanNext ==
  /\ pending # <<>>
  /\ cb' = Add(cb, Head(pending))
  /\ pending' = Tail(pending)
  /\ UNCHANGED <<want, out>>

Get ==
  /\ Idle
  /\ IF IsEmpty(cb)
       THEN out' = <<>> /\ UNCHANGED cb
       ELSE out' = <<Front(cb)>> /\ cb' = Pop(cb)
  /\ UNCHANGED <<pending, want>>

\* Seeded fault: the test for enough elements is off by one.
GetSomeOneShort(n) ==
  /\ Idle
  /\ out' = <<>>
  /\ want' = IF Size(cb) + 1 < n THEN 0 ELSE n
  /\ UNCHANGED <<cb, pending>>

GetSome(n) ==
  /\ Idle
  /\ out' = <<>>
  /\ want' = IF Size(cb) < n THEN 0 ELSE n
  /\ UNCHANGED <<cb, pending>>

GetSomeNext ==
  /\ want > 0
  /\ out' = Append(out, Front(cb))
  /\ cb' = Pop(cb)
  /\ want' = IF IsEmpty(cb') THEN 0 ELSE want - 1
  /\ UNCHANGED pending

ClearAll ==
  /\ Idle
  /\ cb' = Clear(cb)
  /\ UNCHANGED <<pending, want, out>>

Next ==
  \/ \E x \in T : AddItem(x)
  \/ \E s \in Spans : AddSpan(s)
  \/ AddSpanNext
  \/ Get
  \/ \E n \in Counts : GetSome(n)
  \/ GetSomeNext
  \/ ClearAll

Spec == Init /\ [][Next]_vars

-----------------------------------------------------------------------------
\* The object's fields and the state of the call in progress have their types;
\* at most one bulk call is in progress and it never asks for more elements
\* than there are.
TypeOK ==
  /\ cb \in Ring
  /\ pending \in Seq(T)
  /\ want \in 0 .. Size(cb)
  /\ out \in Seq(T)
  /\ want = 0 \/ pending = <<>>

\* "full" is what tells a full buffer from an empty one when the positions
\* meet; set anywhere else it makes size(), isEmpty() and the eviction in
\* add() contradict each other (CircularBuffer.hpp:24-29, 71, 95, 103).
FullWhereTheyMeet == cb.full => cb.write_pos = cb.read_pos

\* What the object holds and has returned, with a bulk call in progress
\* counted as done.
Queue ==
  INSTANCE LossyQueue WITH
    contents <- Keep(Rest(Contents(cb), want) \o pending),
    out <- out \o SubSeq(Contents(cb), 1, want)

\* Index arithmetic, the wrap-around, eviction and both loops together
\* implement the lossy FIFO queue: nothing but the oldest elements is ever
\* lost, nothing is returned twice or out of order, getSome() returns all it
\* was asked for or nothing, add(span) keeps the newest SIZE elements.
ImplementsLossyQueue == Queue!Spec
=============================================================================
