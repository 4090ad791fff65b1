------------------------- MODULE CircularBufferOps -------------------------
(***************************************************************************)
(* The class template CircularBuffer<T, SIZE> of src/CircularBuffer.hpp as *)
(* operators on a value cb, a record with the class's four fields.  The    *)
(* modules that hold such a buffer (CircularBuffer, TrackAudio) use these. *)
(***************************************************************************)
EXTENDS LossyQueueOps

CONSTANTS
  T,        \* the elements
  Blank     \* a default-constructed T, what the vector is filled with

ASSUME BlankAssumption == Blank \in T

Slots == 0 .. SIZE - 1

Ring == [buffer : [Slots -> T], write_pos : Slots, read_pos : Slots, full : BOOLEAN]

NewRing ==
  [buffer |-> [s \in Slots |-> Blank], write_pos |-> 0, read_pos |-> 0, full |-> FALSE]

\* The slots keep their content.
Clear(cb) == [buffer |-> cb.buffer, write_pos |-> 0, read_pos |-> 0, full |-> FALSE]

\* The slot n places after p.
Ahead(p, n) == (p + n) % SIZE

\* Seeded fault: the tail stays where it is when the buffer overflows.
PushBackKeepsTail(cb) ==
  LET w == Ahead(cb.write_pos, 1)
  IN  [buffer |-> cb.buffer, write_pos |-> w, read_pos |-> cb.read_pos,
       full |-> (w = cb.read_pos)]

\* push_back(): claims the slot at write_pos, whose old content it leaves in
\* place (the caller assigns through the reference it gets), and drops the
\* oldest element if the buffer was full.
PushBack(cb) ==
  LET w == Ahead(cb.write_pos, 1)
      r == IF cb.full THEN Ahead(cb.read_pos, 1) ELSE cb.read_pos
  IN  [buffer |-> cb.buffer, write_pos |-> w, read_pos |-> r, full |-> (w = r)]

\* add(item), and push_back() = item.
Add(cb, item) ==
  LET p == PushBack(cb)
  IN  [buffer |-> [cb.buffer EXCEPT ![cb.write_pos] = item],
       write_pos |-> p.write_pos, read_pos |-> p.read_pos, full |-> p.full]

\* Seeded fault: a full buffer looks empty.
IsEmptyWhereTheyMeet(cb) == cb.write_pos = cb.read_pos

IsEmpty(cb) == ~cb.full /\ cb.write_pos = cb.read_pos

\* Seeded fault: the wrapped case forgets the buffer's length.
SizeUnwrapped(cb) ==
  IF cb.full THEN SIZE
  ELSE IF cb.write_pos >= cb.read_pos
    THEN cb.write_pos - cb.read_pos ELSE cb.read_pos - cb.write_pos

Size(cb) ==
  IF cb.full THEN SIZE
  ELSE IF cb.write_pos >= cb.read_pos
    THEN cb.write_pos - cb.read_pos ELSE SIZE + cb.write_pos - cb.read_pos

Front(cb) == cb.buffer[cb.read_pos]

\* Seeded fault: taking an element does not reset "full".
PopStaysFull(cb) == [cb EXCEPT !.read_pos = Ahead(@, 1)]

\* get() on a buffer that is not empty, its element being Front(cb).
Pop(cb) ==
  [buffer |-> cb.buffer, write_pos |-> cb.write_pos,
   read_pos |-> Ahead(cb.read_pos, 1), full |-> FALSE]

\* The elements held, oldest first.
Contents(cb) == [i \in 1 .. Size(cb) |-> cb.buffer[Ahead(cb.read_pos, i - 1)]]
=============================================================================
