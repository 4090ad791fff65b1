--------------------------- MODULE LossyQueueOps ---------------------------
(***************************************************************************)
(* What a caller of CircularBuffer<T, SIZE> (src/CircularBuffer.hpp) may   *)
(* rely on, on plain sequences, oldest element first: a FIFO queue of at   *)
(* most SIZE elements that forgets its oldest elements when it overflows.  *)
(***************************************************************************)
EXTENDS Integers, Sequences

CONSTANT SIZE     \* template argument of CircularBuffer: its capacity

ASSUME SizeAssumption == SIZE \in Nat \ {0}

\* Seeded fault: one element too many.
KeepOneMore(s) ==
  IF Len(s) <= SIZE + 1 THEN s ELSE SubSeq(s, Len(s) - SIZE, Len(s))

\* The newest SIZE elements of s, all of s when it has no more than that.
Keep(s) ==
  IF Len(s) <= SIZE THEN s ELSE SubSeq(s, Len(s) - SIZE + 1, Len(s))

\* s without its first n elements.
Rest(s, n) == SubSeq(s, n + 1, Len(s))
=============================================================================
