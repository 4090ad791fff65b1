------------------------ MODULE CircularBufferProofs ------------------------
(***************************************************************************)
(* Theorems about CircularBuffer, for every capacity, element type, span   *)
(* and count: its type invariant, the meaning of its "full" flag, and that *)
(* it implements the lossy queue.  The lemmas say what each operator on    *)
(* the ring does to the sequence of elements it holds.                     *)
(***************************************************************************)
EXTENDS CircularBuffer, SequenceTheorems, TLAPS

WellFormed(r) == r \in Ring /\ (r.full => r.write_pos = r.read_pos)

-----------------------------------------------------------------------------
(* What Keep and Rest do to a sequence *)

LEMMA KeepShort ==
  ASSUME NEW s, Len(s) <= SIZE
  PROVE  Keep(s) = s
  BY DEF Keep

LEMMA RestIsSeq ==
  ASSUME NEW S, NEW s \in Seq(S), NEW n \in 0 .. Len(s)
  PROVE  Rest(s, n) \in Seq(S) /\ Len(Rest(s, n)) = Len(s) - n
<1>1. CASE n = Len(s)
  BY <1>1 DEF Rest
<1>2. CASE n # Len(s)
  BY <1>2 DEF Rest
<1>. QED
  BY <1>1, <1>2

LEMMA RestNone ==
  ASSUME NEW S, NEW s \in Seq(S)
  PROVE  Rest(s, 0) = s
  BY SubSeqFull DEF Rest

LEMMA KeepIsSeq ==
  ASSUME NEW S, NEW s \in Seq(S)
  PROVE  /\ Keep(s) \in Seq(S)
         /\ Len(Keep(s)) = IF Len(s) <= SIZE THEN Len(s) ELSE SIZE
<1>1. CASE Len(s) <= SIZE
  BY <1>1, KeepShort
<1>2. CASE ~(Len(s) <= SIZE)
  <2>1. Len(s) - SIZE \in 0 .. Len(s) /\ Len(s) - (Len(s) - SIZE) = SIZE
    BY <1>2, SizeAssumption
  <2>2. Keep(s) = Rest(s, Len(s) - SIZE)
    BY <1>2 DEF Keep, Rest
  <2>. QED
    BY <1>2, <2>1, <2>2, RestIsSeq
<1>. QED
  BY <1>1, <1>2

\* Every sequence is its first n elements followed by the rest.
LEMMA FirstAndRest ==
  ASSUME NEW S, NEW s \in Seq(S), NEW n \in 0 .. Len(s)
  PROVE  SubSeq(s, 1, n) \in Seq(S) /\ SubSeq(s, 1, n) \o Rest(s, n) = s
<1>1. SubSeq(s, 1, n) \in Seq(S)
  OBVIOUS
<1>2. 1 \in 1 .. Len(s) + 1 /\ n \in 1 - 1 .. Len(s) /\ Len(s) \in n .. Len(s)
  OBVIOUS
<1>3. SubSeq(s, 1, n) \o SubSeq(s, n + 1, Len(s)) = SubSeq(s, 1, Len(s))
  BY <1>2, ConcatAdjacentSubSeq
<1>. QED
  BY <1>1, <1>3, SubSeqFull DEF Rest

\* What comes before SIZE or more elements is forgotten.
LEMMA KeepSuffix ==
  ASSUME NEW S, NEW p \in Seq(S), NEW u \in Seq(S), Len(u) >= SIZE
  PROVE  Keep(p \o u) = Keep(u)
<1>1. p \o u \in Seq(S) /\ Len(p \o u) = Len(p) + Len(u)
  BY ConcatProperties
<1>2. Len(p) \in Nat /\ Len(u) \in Nat /\ SIZE \in Nat /\ SIZE > 0
  BY LenProperties, SizeAssumption
<1>3. Keep(u) = SubSeq(u, Len(u) - SIZE + 1, Len(u))
  <2>1. CASE Len(u) = SIZE
    BY <1>2, <2>1, SubSeqFull DEF Keep
  <2>2. CASE Len(u) > SIZE
    BY <1>2, <2>2 DEF Keep
  <2>. QED
    BY <1>2, <2>1, <2>2
<1>4. Keep(p \o u) = SubSeq(p \o u, Len(p) + Len(u) - SIZE + 1, Len(p) + Len(u))
  <2>1. CASE Len(p \o u) = SIZE
    <3>1. Len(p) + Len(u) - SIZE + 1 = 1
      BY <1>1, <1>2, <2>1
    <3>. QED
      BY <1>1, <1>2, <2>1, <3>1, SubSeqFull DEF Keep
  <2>2. CASE Len(p \o u) > SIZE
    BY <1>1, <1>2, <2>2, SMTT(30) DEF Keep
  <2>. QED
    BY <1>1, <1>2, <2>1, <2>2
<1>5. /\ Len(p) + Len(u) - SIZE + 1 \in Len(p) + 1 .. Len(p) + Len(u)
      /\ Len(p) + Len(u) \in Len(p) + 1 .. Len(p) + Len(u)
      /\ (Len(p) + Len(u) - SIZE + 1) - Len(p) = Len(u) - SIZE + 1
      /\ (Len(p) + Len(u)) - Len(p) = Len(u)
  BY <1>2
<1>6. PICK m, n : m = Len(p) + Len(u) - SIZE + 1 /\ n = Len(p) + Len(u)
  OBVIOUS
<1>7. /\ m \in Len(p) + 1 .. Len(p) + Len(u)
      /\ n \in Len(p) + 1 .. Len(p) + Len(u)
      /\ m - Len(p) = Len(u) - SIZE + 1
      /\ n - Len(p) = Len(u)
  BY <1>5, <1>6
<1>8. SubSeq(p \o u, m, n) = SubSeq(u, m - Len(p), n - Len(p))
  BY <1>7, SubSeqOfConcat2
<1>. QED
  BY <1>3, <1>4, <1>6, <1>7, <1>8

LEMMA KeepMiddle ==
  ASSUME NEW S, NEW p \in Seq(S), NEW k \in Seq(S), NEW t \in Seq(S), Len(k) = SIZE
  PROVE  Keep(k \o t) = Keep((p \o k) \o t)
<1>1. (p \o k) \o t = p \o (k \o t)
  BY ConcatAssociative, SMTT(30)
<1>2. PICK u : u = k \o t
  OBVIOUS
<1>3. u \in Seq(S) /\ Len(u) >= SIZE
  BY <1>2, ConcatProperties, LenProperties, SizeAssumption
<1>4. Keep(p \o u) = Keep(u)
  BY <1>3, KeepSuffix
<1>. QED
  BY <1>1, <1>2, <1>4

\* Forgetting old elements early does not change which are kept in the end.
LEMMA KeepKeep ==
  ASSUME NEW S, NEW s \in Seq(S), NEW t \in Seq(S)
  PROVE  Keep(Keep(s) \o t) = Keep(s \o t)
<1>1. CASE Len(s) <= SIZE
  BY <1>1, KeepShort
<1>2. CASE ~(Len(s) <= SIZE)
  <2>1. PICK n : n = Len(s) - SIZE
    OBVIOUS
  <2>2. n \in 0 .. Len(s)
    BY <1>2, <2>1, SizeAssumption
  <2>3. PICK p, k : p = SubSeq(s, 1, n) /\ k = Keep(s)
    OBVIOUS
  <2>4. k = Rest(s, n) /\ Len(k) = SIZE /\ k \in Seq(S)
    BY <1>2, <2>1, <2>3, KeepIsSeq DEF Keep, Rest
  <2>5. p \in Seq(S) /\ s = p \o k
    BY <2>2, <2>3, <2>4, FirstAndRest
  <2>6. p \in Seq(S) /\ k \in Seq(S) /\ Len(k) = SIZE
    BY <2>4, <2>5
  <2>7. Keep(k \o t) = Keep((p \o k) \o t)
    BY <2>6, KeepMiddle, ZenonT(30)
  <2>. QED
    BY <2>3, <2>5, <2>7
<1>. QED
  BY <1>1, <1>2

\* Taking the first element, and then n - 1 more, is taking the first n.
LEMMA FirstOfFirst ==
  ASSUME NEW S, NEW s \in Seq(S), NEW n \in 1 .. Len(s)
  PROVE  /\ Rest(Tail(s), n - 1) = Rest(s, n)
         /\ <<Head(s)>> \o SubSeq(Tail(s), 1, n - 1) = SubSeq(s, 1, n)
<1>1. /\ Len(s) \in Nat /\ s # <<>>
      /\ 1 \in 1 .. Len(s) /\ 1 + 1 = 2 /\ Head(s) = s[1]
  OBVIOUS
<1>2. PICK e, t : e = Head(s) /\ t = Tail(s)
  OBVIOUS
<1>3. /\ e \in S /\ t \in Seq(S) /\ Len(t) = Len(s) - 1
      /\ <<e>> \in Seq(S) /\ Len(<<e>>) = 1
      /\ s = <<e>> \o t
  <2>1. SubSeq(s, 1, Len(s)) = <<s[1]>> \o SubSeq(s, 1 + 1, Len(s))
    BY <1>1, SubSeqRecursiveFirst
  <2>2. SubSeq(s, 1 + 1, Len(s)) = t
    BY <1>1, <1>2, TailIsSubSeq
  <2>. QED
    BY <1>1, <1>2, <2>1, <2>2, SubSeqFull, HeadTailProperties
<1>4. Rest(t, n - 1) = Rest(s, n)
  <2>1. CASE n = Len(s)
    BY <1>1, <1>3, <2>1, SubSeqEmpty DEF Rest
  <2>2. CASE n < Len(s)
    <3>1. /\ n + 1 \in Len(<<e>>) + 1 .. Len(<<e>>) + Len(t)
          /\ Len(s) \in Len(<<e>>) + 1 .. Len(<<e>>) + Len(t)
          /\ n + 1 - Len(<<e>>) = n - 1 + 1
          /\ Len(s) - Len(<<e>>) = Len(t)
      BY <1>1, <1>3, <2>2
    <3>2. PICK u : u = <<e>> /\ u \in Seq(S)
      BY <1>3
    <3>3. SubSeq(u \o t, n + 1, Len(s)) = SubSeq(t, n + 1 - Len(u), Len(s) - Len(u))
      BY <1>3, <3>1, <3>2, SubSeqOfConcat2
    <3>. QED
      BY <1>3, <3>1, <3>2, <3>3 DEF Rest
  <2>. QED
    BY <1>1, <2>1, <2>2
<1>5. SubSeq(t, 1, n - 1) = SubSeq(s, 2, n)
  <2>1. CASE n = 1
    BY <1>1, <2>1, SubSeqEmpty
  <2>2. CASE n > 1
    <3>1. PICK u : u = <<e>> /\ u \in Seq(S) /\ Len(u) = 1
      BY <1>3
    <3>2. /\ 2 \in Len(u) + 1 .. Len(u) + Len(t)
          /\ n \in Len(u) + 1 .. Len(u) + Len(t)
          /\ 2 - Len(u) = 1
          /\ n - Len(u) = n - 1
      BY <1>1, <1>3, <2>2, <3>1
    <3>3. SubSeq(u \o t, 2, n) = SubSeq(t, 2 - Len(u), n - Len(u))
      BY <1>3, <3>1, <3>2, SubSeqOfConcat2
    <3>. QED
      BY <1>3, <3>1, <3>2, <3>3
  <2>. QED
    BY <1>1, <2>1, <2>2
<1>6. SubSeq(s, 1, n) = <<s[1]>> \o SubSeq(s, 1 + 1, n)
  BY <1>1, SubSeqRecursiveFirst
<1>. QED
  BY <1>1, <1>2, <1>4, <1>5, <1>6

-----------------------------------------------------------------------------
(* Slot arithmetic *)

LEMMA AheadWraps ==
  ASSUME NEW p \in Slots, NEW n \in 0 .. SIZE
  PROVE  /\ Ahead(p, n) \in Slots
         /\ Ahead(p, n) = IF p + n < SIZE THEN p + n ELSE p + n - SIZE
  BY SizeAssumption DEF Slots, Ahead

LEMMA AheadZero ==
  ASSUME NEW p \in Slots
  PROVE  Ahead(p, 0) = p
  BY SizeAssumption DEF Slots, Ahead

LEMMA AheadAround ==
  ASSUME NEW p \in Slots
  PROVE  Ahead(p, SIZE) = p
  BY SizeAssumption DEF Slots, Ahead

LEMMA AheadNext ==
  ASSUME NEW p \in Slots, NEW n \in 1 .. SIZE
  PROVE  Ahead(Ahead(p, 1), n - 1) = Ahead(p, n)
<1>1. /\ Ahead(p, 1) \in Slots
      /\ Ahead(p, 1) = IF p + 1 < SIZE THEN p + 1 ELSE p + 1 - SIZE
  BY AheadWraps, SizeAssumption
<1>2. Ahead(p, n) = IF p + n < SIZE THEN p + n ELSE p + n - SIZE
  BY AheadWraps, SizeAssumption
<1>3. PICK q \in Slots : q = Ahead(p, 1)
  BY <1>1
<1>4. Ahead(q, n - 1) = IF q + (n - 1) < SIZE THEN q + (n - 1) ELSE q + (n - 1) - SIZE
  BY AheadWraps, SizeAssumption
<1>. QED
  BY <1>1, <1>2, <1>3, <1>4, SizeAssumption DEF Slots

LEMMA AheadDiffers ==
  ASSUME NEW p \in Slots, NEW m \in 0 .. SIZE - 1, NEW n \in 0 .. SIZE - 1, m # n
  PROVE  Ahead(p, m) # Ahead(p, n)
<1>1. Ahead(p, m) = IF p + m < SIZE THEN p + m ELSE p + m - SIZE
  BY AheadWraps, SizeAssumption
<1>2. Ahead(p, n) = IF p + n < SIZE THEN p + n ELSE p + n - SIZE
  BY AheadWraps, SizeAssumption
<1>. QED
  BY <1>1, <1>2, SizeAssumption DEF Slots

LEMMA SizeBounds ==
  ASSUME NEW r, WellFormed(r)
  PROVE  /\ Size(r) \in 0 .. SIZE
         /\ Size(r) = 0 <=> IsEmpty(r)
         /\ Size(r) = SIZE <=> r.full
         /\ Size(r) < SIZE => r.write_pos = Ahead(r.read_pos, Size(r))
<1>1. /\ r.write_pos \in Slots
      /\ r.read_pos \in Slots
      /\ r.full \in BOOLEAN
      /\ r.full => r.write_pos = r.read_pos
  BY DEF WellFormed, Ring
<1>2. Size(r) \in 0 .. SIZE
  BY <1>1, SizeAssumption DEF Size, Slots
<1>3. Ahead(r.read_pos, Size(r)) = IF r.read_pos + Size(r) < SIZE
                                     THEN r.read_pos + Size(r)
                                     ELSE r.read_pos + Size(r) - SIZE
  BY <1>1, <1>2, AheadWraps
<1>. QED
  BY <1>1, <1>2, <1>3, SizeAssumption DEF Size, IsEmpty, Slots

LEMMA ContentsOfRing ==
  ASSUME NEW r, WellFormed(r)
  PROVE  /\ Contents(r) \in Seq(T)
         /\ Len(Contents(r)) = Size(r)
         /\ \A i \in 1 .. Size(r) :
              /\ Ahead(r.read_pos, i - 1) \in Slots
              /\ Contents(r)[i] = r.buffer[Ahead(r.read_pos, i - 1)]
<1>1. Size(r) \in Nat /\ Size(r) <= SIZE
  BY SizeBounds, SizeAssumption
<1>2. ASSUME NEW i \in 1 .. Size(r)
      PROVE  /\ Ahead(r.read_pos, i - 1) \in Slots
             /\ r.buffer[Ahead(r.read_pos, i - 1)] \in T
  <2>1. r.read_pos \in Slots /\ i - 1 \in 0 .. SIZE
    BY <1>1, SizeAssumption DEF WellFormed, Ring
  <2>2. Ahead(r.read_pos, i - 1) \in Slots
    BY <2>1, AheadWraps
  <2>. QED
    BY <2>2 DEF WellFormed, Ring
<1>. QED
  BY <1>1, <1>2 DEF Contents

-----------------------------------------------------------------------------
(* What the operators do to the elements held *)

LEMMA NewRingIsEmpty ==
  WellFormed(NewRing) /\ Size(NewRing) = 0 /\ Contents(NewRing) = <<>>
<1>1. WellFormed(NewRing) /\ Size(NewRing) = 0
  BY SizeAssumption, BlankAssumption DEF WellFormed, NewRing, Ring, Slots, Size
<1>. QED
  BY <1>1, ContentsOfRing, EmptySeq

LEMMA ClearEmpties ==
  ASSUME NEW r, WellFormed(r)
  PROVE  WellFormed(Clear(r)) /\ Size(Clear(r)) = 0 /\ Contents(Clear(r)) = <<>>
<1>1. WellFormed(Clear(r)) /\ Size(Clear(r)) = 0
  BY SizeAssumption DEF WellFormed, Clear, Ring, Slots, Size
<1>. QED
  BY <1>1, ContentsOfRing, EmptySeq

\* get() removes the oldest element and no other.
LEMMA PopRemovesOldest ==
  ASSUME NEW r, WellFormed(r), ~IsEmpty(r)
  PROVE  /\ WellFormed(Pop(r))
         /\ Size(Pop(r)) = Size(r) - 1
         /\ Contents(r) # <<>>
         /\ Front(r) = Head(Contents(r))
         /\ Contents(Pop(r)) = Tail(Contents(r))
<1>. DEFINE p == Pop(r)
<1>1. /\ r \in Ring
      /\ r.write_pos \in Slots
      /\ r.read_pos \in Slots
      /\ r.full \in BOOLEAN
      /\ r.full => r.write_pos = r.read_pos
  BY DEF WellFormed, Ring
<1>2. /\ Ahead(r.read_pos, 1) \in Slots
      /\ Ahead(r.read_pos, 1) = IF r.read_pos + 1 < SIZE THEN r.read_pos + 1
                                                       ELSE r.read_pos + 1 - SIZE
  BY <1>1, AheadWraps, SizeAssumption
<1>3. /\ p.buffer = r.buffer
      /\ p.write_pos = r.write_pos
      /\ p.read_pos = Ahead(r.read_pos, 1)
      /\ p.full = FALSE
      /\ WellFormed(p)
  BY <1>1, <1>2 DEF Pop, WellFormed, Ring
<1>4. Size(r) \in 1 .. SIZE /\ Size(p) = Size(r) - 1
  BY <1>1, <1>2, <1>3, SizeBounds, SizeAssumption DEF Size, Slots, IsEmpty
<1>5. Ahead(r.read_pos, 0) = r.read_pos
  BY <1>1, AheadWraps, SizeAssumption DEF Slots
<1>6. Contents(r) \in Seq(T) /\ Len(Contents(r)) = Size(r) /\ Contents(r)[1] = Front(r)
  BY <1>4, <1>5, ContentsOfRing, SizeAssumption DEF Front
<1>7. ASSUME NEW i \in 1 .. Size(p)
      PROVE  Contents(p)[i] = Contents(r)[i + 1]
  <2>1. Ahead(p.read_pos, i - 1) = Ahead(r.read_pos, i)
    BY <1>1, <1>3, <1>4, AheadNext, SizeAssumption
  <2>2. i + 1 \in 1 .. Size(r) /\ (i + 1) - 1 = i
    BY <1>4, SizeAssumption
  <2>. QED
    BY <1>3, <2>1, <2>2, ContentsOfRing
<1>8. Contents(p) \in Seq(T) /\ Len(Contents(p)) = Size(r) - 1
  BY <1>3, <1>4, ContentsOfRing
<1>9. Contents(p) = Tail(Contents(r))
  BY <1>4, <1>6, <1>7, <1>8, SizeAssumption
<1>. QED
  BY <1>3, <1>4, <1>6, <1>9

\* The fields after add().
LEMMA AddFields ==
  ASSUME NEW r, WellFormed(r), NEW x \in T
  PROVE  /\ Add(r, x).buffer = [r.buffer EXCEPT ![r.write_pos] = x]
         /\ Add(r, x).write_pos = Ahead(r.write_pos, 1)
         /\ Add(r, x).read_pos = IF r.full THEN Ahead(r.read_pos, 1) ELSE r.read_pos
         /\ Add(r, x).full <=> Add(r, x).write_pos = Add(r, x).read_pos
         /\ WellFormed(Add(r, x))
<1>1. Ahead(r.write_pos, 1) \in Slots /\ Ahead(r.read_pos, 1) \in Slots
  BY AheadWraps, SizeAssumption DEF WellFormed, Ring
<1>. QED
  BY <1>1 DEF Add, PushBack, WellFormed, Ring

\* add() to a buffer with room appends the element.
LEMMA AddWithRoom ==
  ASSUME NEW r, WellFormed(r), ~r.full, NEW x \in T
  PROVE  Contents(Add(r, x)) = Append(Contents(r), x)
<1>. DEFINE n == Size(r)
<1>1. /\ r.buffer \in [Slots -> T]
      /\ r.write_pos \in Slots
      /\ r.read_pos \in Slots
      /\ r.full \in BOOLEAN
  BY DEF WellFormed, Ring
<1>2. n \in Nat /\ n < SIZE /\ r.write_pos = Ahead(r.read_pos, n)
  BY <1>1, SizeBounds, SizeAssumption
<1>3. PICK a : a = Add(r, x)
  OBVIOUS
<1>4. /\ WellFormed(a)
      /\ a.buffer = [r.buffer EXCEPT ![r.write_pos] = x]
      /\ a.write_pos = Ahead(r.write_pos, 1)
      /\ a.read_pos = r.read_pos
      /\ a.full <=> a.write_pos = a.read_pos
  BY <1>3, AddFields
<1>5. a.write_pos = IF r.write_pos + 1 < SIZE THEN r.write_pos + 1
                                               ELSE r.write_pos + 1 - SIZE
  BY <1>1, <1>4, AheadWraps, SizeAssumption
<1>6. Size(a) = n + 1
  <2>1. n = IF r.write_pos >= r.read_pos THEN r.write_pos - r.read_pos
                                         ELSE SIZE + r.write_pos - r.read_pos
    BY <1>1 DEF Size
  <2>2. CASE a.write_pos = r.read_pos
    <3>1. Size(a) = SIZE
      BY <1>4, <2>2 DEF Size
    <3>. QED
      BY <1>1, <1>2, <1>5, <2>1, <2>2, <3>1, SizeAssumption DEF Slots
  <2>3. CASE a.write_pos # r.read_pos
    <3>1. Size(a) = IF a.write_pos >= r.read_pos THEN a.write_pos - r.read_pos
                                                 ELSE SIZE + a.write_pos - r.read_pos
      BY <1>4, <2>3 DEF Size
    <3>2. r.write_pos \in 0 .. SIZE - 1 /\ r.read_pos \in 0 .. SIZE - 1
      BY <1>1 DEF Slots
    <3>3. CASE r.write_pos + 1 < SIZE
      BY <1>5, <2>1, <2>3, <3>1, <3>2, <3>3, SizeAssumption
    <3>4. CASE ~(r.write_pos + 1 < SIZE)
      BY <1>5, <2>1, <2>3, <3>1, <3>2, <3>4, SizeAssumption
    <3>. QED
      BY <3>3, <3>4
  <2>. QED
    BY <2>2, <2>3
<1>. HIDE DEF n
<1>7. /\ Contents(r) \in Seq(T) /\ Len(Contents(r)) = n
      /\ Contents(a) \in Seq(T) /\ Len(Contents(a)) = n + 1
      /\ \A i \in 1 .. n + 1 : Contents(a)[i] = a.buffer[Ahead(r.read_pos, i - 1)]
  <2>1. Contents(r) \in Seq(T) /\ Len(Contents(r)) = n
    BY ContentsOfRing DEF n
  <2>2. /\ Contents(a) \in Seq(T) /\ Len(Contents(a)) = Size(a)
        /\ \A i \in 1 .. Size(a) : Contents(a)[i] = a.buffer[Ahead(a.read_pos, i - 1)]
    BY <1>4, ContentsOfRing
  <2>. QED
    BY <1>4, <1>6, <2>1, <2>2
<1>8. ASSUME NEW i \in 1 .. n
      PROVE  Contents(a)[i] = Contents(r)[i]
  <2>1. /\ i - 1 \in 0 .. SIZE - 1 /\ n \in 0 .. SIZE - 1 /\ i - 1 # n
        /\ i \in 1 .. Size(a)
    BY <1>2, <1>6, SizeAssumption
  <2>2. Ahead(r.read_pos, i - 1) # r.write_pos
    BY <1>1, <1>2, <2>1, AheadDiffers
  <2>3. Contents(a)[i] = a.buffer[Ahead(r.read_pos, i - 1)]
    BY <1>2, <1>7
  <2>4. /\ Contents(r)[i] = r.buffer[Ahead(r.read_pos, i - 1)]
        /\ Ahead(r.read_pos, i - 1) \in Slots
    BY ContentsOfRing DEF n
  <2>. QED
    BY <1>1, <1>4, <2>2, <2>3, <2>4
<1>9. Contents(a)[n + 1] = x
  <2>1. n + 1 \in 1 .. n + 1 /\ (n + 1) - 1 = n
    BY <1>2
  <2>2. Contents(a)[n + 1] = a.buffer[Ahead(r.read_pos, n)]
    BY <1>7, <2>1
  <2>. QED
    BY <1>1, <1>2, <1>4, <2>2
<1>10. Contents(a) = Append(Contents(r), x)
  BY <1>2, <1>7, <1>8, <1>9
<1>. QED
  BY <1>3, <1>10

\* add() to a full buffer appends the element and forgets the oldest.
LEMMA AddWhenFull ==
  ASSUME NEW r, WellFormed(r), r.full, NEW x \in T
  PROVE  Contents(Add(r, x)) = Append(Tail(Contents(r)), x)
<1>1. /\ r.buffer \in [Slots -> T]
      /\ r.write_pos \in Slots
      /\ r.read_pos = r.write_pos
  BY DEF WellFormed, Ring
<1>2. Size(r) = SIZE /\ SIZE \in Nat /\ SIZE > 0
  BY SizeAssumption DEF Size
<1>3. PICK a : a = Add(r, x)
  OBVIOUS
<1>4. /\ WellFormed(a)
      /\ a.buffer = [r.buffer EXCEPT ![r.write_pos] = x]
      /\ a.write_pos = Ahead(r.read_pos, 1)
      /\ a.read_pos = Ahead(r.read_pos, 1)
      /\ a.full
  BY <1>1, <1>3, AddFields
<1>5. Size(a) = SIZE
  BY <1>4 DEF Size
<1>6. /\ Contents(r) \in Seq(T) /\ Len(Contents(r)) = SIZE
      /\ Contents(a) \in Seq(T) /\ Len(Contents(a)) = SIZE
      /\ \A i \in 1 .. SIZE : Contents(a)[i] = a.buffer[Ahead(a.read_pos, i - 1)]
  BY <1>2, <1>4, <1>5, ContentsOfRing
<1>7. ASSUME NEW i \in 1 .. SIZE - 1
      PROVE  Contents(a)[i] = Contents(r)[i + 1]
  <2>1. /\ i \in 1 .. SIZE /\ i \in 0 .. SIZE - 1 /\ 0 \in 0 .. SIZE - 1 /\ i # 0
        /\ i + 1 \in 1 .. SIZE /\ (i + 1) - 1 = i
    BY <1>2
  <2>2. Ahead(a.read_pos, i - 1) = Ahead(r.read_pos, i)
    BY <1>1, <1>4, <2>1, AheadNext
  <2>3. Ahead(r.read_pos, i) # r.read_pos
    BY <1>1, <2>1, AheadDiffers, AheadZero
  <2>4. Contents(a)[i] = a.buffer[Ahead(r.read_pos, i)]
    BY <1>6, <2>1, <2>2
  <2>5. /\ Contents(r)[i + 1] = r.buffer[Ahead(r.read_pos, i)]
        /\ Ahead(r.read_pos, i) \in Slots
    BY <1>2, <2>1, ContentsOfRing
  <2>. QED
    BY <1>1, <1>4, <2>3, <2>4, <2>5
<1>8. Contents(a)[SIZE] = x
  <2>1. SIZE \in 1 .. SIZE
    BY <1>2
  <2>2. Ahead(a.read_pos, SIZE - 1) = r.write_pos
    BY <1>1, <1>4, <2>1, AheadNext, AheadAround
  <2>3. Contents(a)[SIZE] = a.buffer[Ahead(a.read_pos, SIZE - 1)]
    BY <1>6, <2>1
  <2>. QED
    BY <1>1, <1>4, <2>2, <2>3
<1>9. Contents(a) = Append(Tail(Contents(r)), x)
  <2>1. PICK t : t = Tail(Contents(r))
    OBVIOUS
  <2>2. /\ t \in Seq(T) /\ Len(t) = SIZE - 1
        /\ \A i \in 1 .. SIZE - 1 : t[i] = Contents(r)[i + 1]
    BY <1>2, <1>6, <2>1
  <2>3. Contents(a) = Append(t, x)
    BY <1>2, <1>6, <1>7, <1>8, <2>2
  <2>. QED
    BY <2>1, <2>3
<1>. QED
  BY <1>3, <1>9

\* In both cases: the newest SIZE elements.
LEMMA AddAppends ==
  ASSUME NEW r, WellFormed(r), NEW x \in T
  PROVE  /\ WellFormed(Add(r, x))
         /\ Contents(Add(r, x)) = Keep(Append(Contents(r), x))
<1>1. WellFormed(Add(r, x))
  BY AddFields
<1>2. PICK c : c = Contents(r)
  OBVIOUS
<1>3. c \in Seq(T) /\ Len(c) = Size(r) /\ Len(Append(c, x)) = Len(c) + 1
  BY <1>2, ContentsOfRing
<1>4. r.full \in BOOLEAN /\ Size(r) \in 0 .. SIZE /\ (Size(r) = SIZE <=> r.full)
  BY SizeBounds DEF WellFormed, Ring
<1>5. CASE ~r.full
  <2>1. Len(Append(c, x)) <= SIZE
    BY <1>3, <1>4, <1>5, SizeAssumption
  <2>. QED
    BY <1>1, <1>2, <1>5, <2>1, AddWithRoom DEF Keep
<1>6. CASE r.full
  <2>1. Len(Append(c, x)) = SIZE + 1
    BY <1>3, <1>4, <1>6, SizeAssumption
  <2>2. SubSeq(Append(c, x), 2, SIZE + 1) = Append(Tail(c), x)
    BY <1>3, <1>4, <1>6, <2>1, SizeAssumption
  <2>3. Keep(Append(c, x)) = Append(Tail(c), x)
    BY <2>1, <2>2, SizeAssumption DEF Keep
  <2>. QED
    BY <1>1, <1>2, <1>6, <2>3, AddWhenFull
<1>. QED
  BY <1>4, <1>5, <1>6

-----------------------------------------------------------------------------
(* The type invariant.  Inductive together with FullWhereTheyMeet: without  *)
(* it size() after get() is not what it was less one, and a getSome() in    *)
(* progress could want more than there is.                                  *)

IInv == TypeOK /\ FullWhereTheyMeet

LEMMA InitEstablishesIInv == Init => IInv
<1>. SUFFICES ASSUME Init PROVE IInv
  OBVIOUS
<1>1. WellFormed(NewRing) /\ Size(NewRing) = 0
  BY NewRingIsEmpty
<1>. QED
  BY <1>1 DEF Init, IInv, TypeOK, FullWhereTheyMeet, WellFormed

\* A ring that is still well formed and large enough keeps the invariant.
LEMMA IInvFromRing ==
  ASSUME WellFormed(cb)', (pending \in Seq(T))', (want \in 0 .. Size(cb))',
         (out \in Seq(T))', (want = 0 \/ pending = <<>>)'
  PROVE  IInv'
  BY DEF IInv, TypeOK, FullWhereTheyMeet, WellFormed

LEMMA StepKeepsIInv == IInv /\ [Next]_vars => IInv'
<1>. SUFFICES ASSUME IInv, [Next]_vars PROVE IInv'
  OBVIOUS
<1>1. /\ WellFormed(cb)
      /\ pending \in Seq(T)
      /\ want \in 0 .. Size(cb)
      /\ out \in Seq(T)
      /\ want = 0 \/ pending = <<>>
  BY DEF IInv, TypeOK, FullWhereTheyMeet, WellFormed
<1>2. Size(cb) \in Nat /\ (Size(cb) = 0 <=> IsEmpty(cb))
  BY <1>1, SizeBounds, SizeAssumption
<1>3. ASSUME WellFormed(cb)' PROVE (0 \in 0 .. Size(cb))'
  <2>1. PICK r : r = cb'
    OBVIOUS
  <2>2. Size(r) \in 0 .. SIZE
    BY <1>3, <2>1, SizeBounds DEF WellFormed
  <2>. QED
    BY <2>1, <2>2, SizeAssumption
<1>4. ASSUME NEW x \in T, AddItem(x) PROVE IInv'
  <2>1. WellFormed(cb)'
    BY <1>1, <1>4, AddAppends DEF AddItem, WellFormed
  <2>. QED
    BY <1>1, <1>3, <1>4, <2>1, IInvFromRing DEF AddItem, Idle
<1>5. ASSUME NEW s \in Spans, AddSpan(s) PROVE IInv'
  <2>1. s \in Seq(T)
    BY SpansAssumption
  <2>. QED
    BY <1>1, <1>5, <2>1 DEF AddSpan, Idle, IInv, TypeOK, FullWhereTheyMeet
<1>6. ASSUME AddSpanNext PROVE IInv'
  <2>1. Head(pending) \in T /\ Tail(pending) \in Seq(T) /\ want = 0
    BY <1>1, <1>6 DEF AddSpanNext
  <2>2. WellFormed(cb)'
    BY <1>1, <1>6, <2>1, AddAppends DEF AddSpanNext, WellFormed
  <2>. QED
    BY <1>1, <1>3, <1>6, <2>1, <2>2, IInvFromRing DEF AddSpanNext
<1>7. ASSUME Get PROVE IInv'
  <2>1. CASE IsEmpty(cb)
    BY <1>1, <1>7, <2>1 DEF Get, IInv, TypeOK, FullWhereTheyMeet
  <2>2. CASE ~IsEmpty(cb)
    <3>1. WellFormed(cb)'
      BY <1>1, <1>7, <2>2, PopRemovesOldest DEF Get, WellFormed
    <3>2. Front(cb) \in T
      BY <1>1, <2>2, PopRemovesOldest, ContentsOfRing, HeadTailProperties
    <3>3. (out \in Seq(T))'
      <4>1. out' = <<Front(cb)>>
        BY <1>7, <2>2 DEF Get
      <4>. QED
        BY <3>2, <4>1
    <3>4. (want \in 0 .. Size(cb))' /\ (want = 0 \/ pending = <<>>)' /\ (pending \in Seq(T))'
      BY <1>1, <1>3, <1>7, <3>1 DEF Get, Idle
    <3>. QED
      BY <3>1, <3>3, <3>4, IInvFromRing
  <2>. QED
    BY <2>1, <2>2
<1>8. ASSUME NEW n \in Counts, GetSome(n) PROVE IInv'
  <2>1. n \in Nat
    BY CountsAssumption
  <2>2. (want \in 0 .. Size(cb))'
    BY <1>2, <1>8, <2>1 DEF GetSome
  <2>. QED
    BY <1>1, <1>8, <2>2 DEF GetSome, Idle, IInv, TypeOK, FullWhereTheyMeet
<1>9. ASSUME GetSomeNext PROVE IInv'
  <2>1. ~IsEmpty(cb) /\ pending = <<>>
    BY <1>1, <1>2, <1>9 DEF GetSomeNext
  <2>2. WellFormed(cb)' /\ Size(cb)' = Size(cb) - 1
    BY <1>1, <1>9, <2>1, PopRemovesOldest DEF GetSomeNext, WellFormed
  <2>3. Front(cb) \in T
    BY <1>1, <2>1, PopRemovesOldest, ContentsOfRing, HeadTailProperties
  <2>4. want' = 0 \/ want' = want - 1
    BY <1>9 DEF GetSomeNext
  <2>5. (want \in 0 .. Size(cb))'
    BY <1>1, <1>2, <1>9, <2>2, <2>4 DEF GetSomeNext
  <2>. QED
    BY <1>1, <1>9, <2>1, <2>2, <2>3, <2>5, IInvFromRing DEF GetSomeNext
<1>10. ASSUME ClearAll PROVE IInv'
  <2>1. WellFormed(cb)'
    BY <1>1, <1>10, ClearEmpties DEF ClearAll, WellFormed
  <2>. QED
    BY <1>1, <1>3, <1>10, <2>1, IInvFromRing DEF ClearAll, Idle
<1>11. CASE UNCHANGED vars
  BY <1>11 DEF vars, IInv, TypeOK, FullWhereTheyMeet
<1>. QED
  BY <1>4, <1>5, <1>6, <1>7, <1>8, <1>9, <1>10, <1>11 DEF Next

\* The inductive invariant, of which the next two theorems are parts, holds in
\* every reachable state.
THEOREM IInvAlways == Spec => []IInv
  BY InitEstablishesIInv, StepKeepsIInv, PTL DEF Spec

\* In every reachable state the fields have their types and a bulk call in
\* progress asks for no more elements than the buffer has.
THEOREM TypeCorrect == Spec => []TypeOK
<1>1. IInv => TypeOK
  BY DEF IInv
<1>. QED
  BY <1>1, IInvAlways, PTL

\* "full" is only ever set while the two positions are equal.
THEOREM FullFlagCorrect == Spec => []FullWhereTheyMeet
<1>1. IInv => FullWhereTheyMeet
  BY DEF IInv
<1>. QED
  BY <1>1, IInvAlways, PTL

-----------------------------------------------------------------------------
(* Refinement: every step of the ring is a step of the lossy queue or      *)
(* leaves what it stands for unchanged.                                    *)

Held == Keep(Rest(Contents(cb), want) \o pending)
Returned == out \o SubSeq(Contents(cb), 1, want)

\* Between calls the queue is the elements in the ring, and no more.
LEMMA IdleMeans ==
  ASSUME NEW r, WellFormed(r), NEW o \in Seq(T)
  PROVE  /\ Keep(Rest(Contents(r), 0) \o <<>>) = Contents(r)
         /\ o \o SubSeq(Contents(r), 1, 0) = o
<1>1. Contents(r) \in Seq(T) /\ Len(Contents(r)) <= SIZE
  BY ContentsOfRing, SizeBounds, SizeAssumption
<1>2. Rest(Contents(r), 0) \o <<>> = Contents(r)
  BY <1>1, RestNone, ConcatEmptySeq
<1>3. SubSeq(Contents(r), 1, 0) = <<>>
  BY SubSeqEmpty
<1>. QED
  BY <1>1, <1>2, <1>3, KeepShort, ConcatEmptySeq

LEMMA InitRefines == Init => Queue!Init
<1>. SUFFICES ASSUME Init PROVE Held = <<>> /\ Returned = <<>>
  BY DEF Queue!Init, Held, Returned
<1>1. WellFormed(NewRing) /\ Contents(NewRing) = <<>> /\ <<>> \in Seq(T)
  BY NewRingIsEmpty
<1>. QED
  BY <1>1, IdleMeans DEF Init, Held, Returned

\* The abstract operations, in terms of what the ring stands for.
LEMMA AbstractAddItem ==
  ASSUME NEW x \in T, Held' = Keep(Append(Held, x)), Returned' = Returned
  PROVE  Queue!Next
  BY DEF Queue!Next, Queue!AddItem, Queue!Keep, Keep, Held, Returned

LEMMA AbstractAddSpan ==
  ASSUME NEW s \in Spans, Held' = Keep(Held \o s), Returned' = Returned
  PROVE  Queue!Next
  BY DEF Queue!Next, Queue!AddSpan, Queue!Keep, Keep, Held, Returned

LEMMA AbstractGet ==
  ASSUME Returned' = IF Held = <<>> THEN <<>> ELSE <<Head(Held)>>,
         Held' = IF Held = <<>> THEN <<>> ELSE Tail(Held)
  PROVE  Queue!Next
  BY DEF Queue!Next, Queue!Get, Held, Returned

LEMMA AbstractGetSome ==
  ASSUME NEW n \in Counts,
         IF Len(Held) < n
           THEN Returned' = <<>> /\ Held' = Held
           ELSE Returned' = SubSeq(Held, 1, n) /\ Held' = Rest(Held, n)
  PROVE  Queue!Next
  BY DEF Queue!Next, Queue!GetSome, Queue!Rest, Rest, Held, Returned

LEMMA AbstractClear ==
  ASSUME Held' = <<>>, Returned' = Returned
  PROVE  Queue!Next
  BY DEF Queue!Next, Queue!Clear, Held, Returned

LEMMA StepRefines == IInv /\ [Next]_vars => [Queue!Next]_Queue!vars
<1>. SUFFICES ASSUME IInv, [Next]_vars
              PROVE  Queue!Next \/ (Held' = Held /\ Returned' = Returned)
  BY DEF Queue!vars, Held, Returned
<1>. DEFINE c == Contents(cb)
<1>1. /\ WellFormed(cb)
      /\ pending \in Seq(T)
      /\ want \in 0 .. Size(cb)
      /\ out \in Seq(T)
      /\ want = 0 \/ pending = <<>>
  BY DEF IInv, TypeOK, FullWhereTheyMeet, WellFormed
<1>2. c \in Seq(T) /\ Len(c) = Size(cb) /\ Len(c) <= SIZE /\ (c = <<>> <=> IsEmpty(cb))
  BY <1>1, ContentsOfRing, SizeBounds, SizeAssumption
<1>3. ASSUME Idle PROVE Held = c /\ Returned = out
  BY <1>1, <1>3, IdleMeans DEF Idle, Held, Returned
<1>4. ASSUME Idle' PROVE Held' = Contents(cb') /\ Returned' = out'
  <2>1. WellFormed(cb') /\ out' \in Seq(T)
    BY StepKeepsIInv DEF IInv, TypeOK, FullWhereTheyMeet, WellFormed
  <2>. QED
    BY <1>4, <2>1, IdleMeans DEF Idle, Held, Returned
<1>5. ASSUME NEW x \in T, AddItem(x) PROVE Queue!Next
  <2>1. Idle /\ Idle' /\ cb' = Add(cb, x) /\ out' = out
    BY <1>5 DEF AddItem, Idle
  <2>2. Contents(cb') = Keep(Append(c, x))
    BY <1>1, <2>1, AddAppends
  <2>. QED
    BY <1>3, <1>4, <2>1, <2>2, AbstractAddItem
<1>6. ASSUME NEW s \in Spans, AddSpan(s) PROVE Queue!Next
  <2>1. Idle /\ pending' = s /\ cb' = cb /\ want' = 0 /\ out' = out
    BY <1>6 DEF AddSpan, Idle
  <2>2. Held' = Keep(c \o s)
    BY <1>2, <2>1, RestNone DEF Held
  <2>3. Returned' = Returned
    BY <2>1 DEF Returned, Idle
  <2>. QED
    BY <1>3, <2>1, <2>2, <2>3, AbstractAddSpan
<1>7. ASSUME AddSpanNext PROVE Held' = Held /\ Returned' = Returned
  <2>1. PICK x \in T, rest \in Seq(T) :
           /\ x = Head(pending) /\ rest = Tail(pending) /\ pending = <<x>> \o rest
           /\ cb' = Add(cb, x) /\ pending' = rest
           /\ want = 0 /\ want' = 0 /\ out' = out
    <3>1. Head(pending) \in T /\ Tail(pending) \in Seq(T) /\ want = 0 /\ Len(pending) \in Nat
      BY <1>1, <1>7 DEF AddSpanNext
    <3>2. pending = <<Head(pending)>> \o Tail(pending)
      <4>1. SubSeq(pending, 1, Len(pending)) = <<pending[1]>> \o SubSeq(pending, 2, Len(pending))
        <5>1. 1 \in 1 .. Len(pending) /\ Len(pending) \in 1 .. Len(pending) /\ 1 + 1 = 2
          BY <1>1, <1>7 DEF AddSpanNext
        <5>. QED
          BY <1>1, <5>1, SubSeqRecursiveFirst
      <4>. QED
        BY <1>1, <1>7, <4>1, SubSeqFull, TailIsSubSeq DEF AddSpanNext
    <3>. QED
      BY <1>7, <3>1, <3>2 DEF AddSpanNext
  <2>2. Contents(cb') = Keep(Append(c, x)) /\ WellFormed(cb')
    BY <1>1, <2>1, AddAppends
  <2>3. Append(c, x) \in Seq(T)
    BY <1>2, <2>1
  <2>4. Held = Keep(c \o (<<x>> \o rest))
    BY <1>2, <2>1, RestNone DEF Held
  <2>5. c \o (<<x>> \o rest) = Append(c, x) \o rest
    <3>1. <<x>> \in Seq(T) /\ Append(c, x) = c \o <<x>>
      BY <1>2, <2>1, AppendIsConcat
    <3>2. PICK y \in Seq(T) : y = <<x>>
      BY <3>1
    <3>3. PICK d \in Seq(T) : d = c
      BY <1>2
    <3>4. (d \o y) \o rest = d \o (y \o rest)
      BY ConcatAssociative
    <3>. QED
      BY <3>1, <3>2, <3>3, <3>4
  <2>6. Held' = Keep(Keep(Append(c, x)) \o rest)
    <3>1. Contents(cb') \in Seq(T)
      BY <2>2, ContentsOfRing
    <3>. QED
      BY <2>1, <2>2, <3>1, RestNone DEF Held
  <2>7. Held' = Held
    <3>1. PICK d \in Seq(T) : d = Append(c, x)
      BY <2>3
    <3>2. Keep(Keep(d) \o rest) = Keep(d \o rest)
      BY KeepKeep
    <3>. QED
      BY <2>4, <2>5, <2>6, <3>1, <3>2
  <2>8. Returned' = Returned
    BY <2>1, SubSeqEmpty DEF Returned
  <2>. QED
    BY <2>7, <2>8
<1>8. ASSUME Get PROVE Queue!Next
  <2>1. Idle /\ Idle'
    BY <1>8 DEF Get, Idle
  <2>2. CASE IsEmpty(cb)
    BY <1>2, <1>3, <1>4, <1>8, <2>1, <2>2, AbstractGet DEF Get
  <2>3. CASE ~IsEmpty(cb)
    <3>1. out' = <<Head(c)>> /\ Contents(cb') = Tail(c) /\ c # <<>>
      BY <1>1, <1>8, <2>3, PopRemovesOldest DEF Get
    <3>. QED
      BY <1>3, <1>4, <2>1, <3>1, AbstractGet
  <2>. QED
    BY <2>2, <2>3
<1>9. ASSUME NEW n \in Counts, GetSome(n) PROVE Queue!Next
  <2>1. /\ Idle /\ n \in Nat
        /\ out' = <<>> /\ cb' = cb /\ pending' = <<>>
        /\ want' = IF Len(c) < n THEN 0 ELSE n
    BY <1>2, <1>9, CountsAssumption DEF GetSome, Idle
  <2>2. CASE Len(c) < n
    BY <1>3, <1>4, <2>1, <2>2, AbstractGetSome DEF Idle
  <2>3. CASE ~(Len(c) < n)
    <3>1. n \in 0 .. Len(c)
      BY <1>2, <2>1, <2>3
    <3>2. PICK q : q = Rest(c, n)
      OBVIOUS
    <3>3. q \in Seq(T) /\ Len(q) <= SIZE
      BY <1>2, <3>1, <3>2, RestIsSeq, SizeAssumption
    <3>4. Held' = q
      BY <2>1, <2>3, <3>2, <3>3, ConcatEmptySeq, KeepShort DEF Held
    <3>5. PICK f : f = SubSeq(c, 1, n)
      OBVIOUS
    <3>6. Returned' = f
      BY <1>2, <2>1, <2>3, <3>1, <3>5, FirstAndRest, ConcatEmptySeq DEF Returned
    <3>. QED
      BY <1>3, <2>1, <2>3, <3>2, <3>4, <3>5, <3>6, AbstractGetSome
  <2>. QED
    BY <2>2, <2>3
<1>10. ASSUME GetSomeNext PROVE Held' = Held /\ Returned' = Returned
  <2>1. /\ pending = <<>> /\ pending' = <<>> /\ ~IsEmpty(cb)
        /\ want \in 1 .. Len(c)
        /\ out' = Append(out, Front(cb)) /\ cb' = Pop(cb)
    BY <1>1, <1>2, <1>10, SizeBounds DEF GetSomeNext
  <2>2. /\ Contents(cb') = Tail(c) /\ c # <<>> /\ Front(cb) = Head(c)
        /\ Size(cb') = Size(cb) - 1 /\ WellFormed(cb')
    BY <1>1, <2>1, PopRemovesOldest
  <2>3. want' = want - 1
    BY <1>1, <1>2, <1>10, <2>1, <2>2, SizeBounds DEF GetSomeNext
  <2>4. /\ Rest(Tail(c), want - 1) = Rest(c, want)
        /\ <<Head(c)>> \o SubSeq(Tail(c), 1, want - 1) = SubSeq(c, 1, want)
    BY <1>2, <2>1, FirstOfFirst
  <2>5. Held' = Held
    BY <2>1, <2>2, <2>3, <2>4 DEF Held
  <2>6. Returned' = Returned
    <3>1. PICK e, t : e = <<Head(c)>> /\ t = SubSeq(Tail(c), 1, want - 1)
      OBVIOUS
    <3>2. e \in Seq(T) /\ t \in Seq(T) /\ Append(out, Head(c)) = out \o e
      <4>1. Head(c) \in T /\ Tail(c) \in Seq(T) /\ want - 1 \in 0 .. Len(Tail(c))
        BY <1>2, <2>1, <2>2, HeadTailProperties
      <4>. QED
        BY <1>1, <3>1, <4>1, AppendIsConcat, FirstAndRest
    <3>3. (out \o e) \o t = out \o (e \o t)
      BY <1>1, <3>2, ConcatAssociative, SMTT(30)
    <3>4. Returned' = (out \o e) \o t
      BY <2>1, <2>2, <2>3, <3>1, <3>2 DEF Returned
    <3>5. Returned = out \o (e \o t)
      BY <2>4, <3>1 DEF Returned
    <3>. QED
      BY <3>3, <3>4, <3>5
  <2>. QED
    BY <2>5, <2>6
<1>11. ASSUME ClearAll PROVE Queue!Next
  <2>1. Idle /\ Idle' /\ cb' = Clear(cb) /\ out' = out
    BY <1>11 DEF ClearAll, Idle
  <2>2. Contents(cb') = <<>>
    BY <1>1, <2>1, ClearEmpties
  <2>. QED
    BY <1>3, <1>4, <2>1, <2>2, AbstractClear
<1>12. CASE UNCHANGED vars
  BY <1>12 DEF vars, Held, Returned
<1>. QED
  BY <1>5, <1>6, <1>7, <1>8, <1>9, <1>10, <1>11, <1>12 DEF Next

\* The ring implements the lossy queue for every capacity, element type and
\* calling program.
THEOREM Implementation == Spec => ImplementsLossyQueue
<1>1. Init => Queue!Init
  BY InitRefines
<1>2. IInv /\ [Next]_vars => [Queue!Next]_Queue!vars
  BY StepRefines
<1>. QED
  BY <1>1, <1>2, IInvAlways, PTL DEF Spec, ImplementsLossyQueue, Queue!Spec
=============================================================================
