----------------------------- MODULE LossyQueue -----------------------------
(***************************************************************************)
(* The abstract specification of CircularBuffer: every operation in one    *)
(* step on the sequence of elements held.  "out" is what the last          *)
(* retrieving operation returned: <<x>> or <<>> for get(), the vector for  *)
(* getSome().                                                              *)
(***************************************************************************)
EXTENDS LossyQueueOps

CONSTANTS
  T,        \* the elements
  Spans,    \* the spans a caller hands to add(Span)
  Counts    \* the counts a caller asks getSome() for

VARIABLES contents, out

vars == <<contents, out>>

Init == contents = <<>> /\ out = <<>>

AddItem(x) == UNCHANGED out /\ contents' = Keep(Append(contents, x))

AddSpan(s) == contents' = Keep(contents \o s) /\ UNCHANGED out

Get ==
  /\ out' = IF contents = <<>> THEN <<>> ELSE <<Head(contents)>>
  /\ contents' = IF contents = <<>> THEN <<>> ELSE Tail(contents)

\* All n elements, or none.
GetSome(n) ==
  IF Len(contents) < n
    THEN out' = <<>> /\ UNCHANGED contents
    ELSE out' = SubSeq(contents, 1, n) /\ contents' = Rest(contents, n)

Clear == contents' = <<>> /\ UNCHANGED out

Next ==
  \/ \E x \in T : AddItem(x)
  \/ \E s \in Spans : AddSpan(s)
  \/ Get
  \/ \E n \in Counts : GetSome(n)
  \/ Clear

Spec == Init /\ [][Next]_vars
=============================================================================
