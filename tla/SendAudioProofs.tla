-------------------------- MODULE SendAudioProofs --------------------------
(***************************************************************************)
(* Theorems about SendAudio for any number of callers, any buffer capacity,*)
(* frame length and chunk sizes.                                           *)
(***************************************************************************)
EXTENDS SendAudio, SequenceTheorems, FiniteSetTheorems, TLAPS

-----------------------------------------------------------------------------
(* What one operation does to the buffer *)

LEMMA RestIsSeq ==
  ASSUME NEW S, NEW s \in Seq(S), NEW n \in 0 .. Len(s)
  PROVE  Rest(s, n) \in Seq(S) /\ Len(Rest(s, n)) = Len(s) - n
<1>1. CASE n = Len(s)
  BY <1>1 DEF Rest
<1>2. CASE n # Len(s)
  BY <1>2 DEF Rest
<1>. QED
  BY <1>1, <1>2

LEMMA KeepIsSeq ==
  ASSUME NEW S, NEW s \in Seq(S)
  PROVE  /\ Keep(s) \in Seq(S)
         /\ Len(Keep(s)) = IF Len(s) <= SIZE THEN Len(s) ELSE SIZE
<1>1. CASE Len(s) <= SIZE
  BY <1>1 DEF Keep
<1>2. CASE ~(Len(s) <= SIZE)
  <2>1. Len(s) - SIZE \in 0 .. Len(s) /\ Len(s) - (Len(s) - SIZE) = SIZE
    BY <1>2, SizeAssumption
  <2>2. Keep(s) = Rest(s, Len(s) - SIZE)
    BY <1>2 DEF Keep, Rest
  <2>. QED
    BY <1>2, <2>1, <2>2, RestIsSeq
<1>. QED
  BY <1>1, <1>2

LEMMA SamplesIsSeq ==
  ASSUME NEW n \in Nat, fed \in Nat
  PROVE  Samples(n) \in Seq(Nat) /\ Len(Samples(n)) = n
  BY DEF Samples

LEMMA Fed ==
  ASSUME NEW s \in Seq(Nat), NEW n \in Nat, fed \in Nat
  PROVE  /\ Keep(s \o Samples(n)) \in Seq(Nat)
         /\ Len(Keep(s \o Samples(n))) = IF Len(s) + n <= SIZE THEN Len(s) + n ELSE SIZE
<1>1. PICK c : c = Samples(n)
  OBVIOUS
<1>2. c \in Seq(Nat) /\ Len(c) = n
  BY <1>1, SamplesIsSeq
<1>3. s \o c \in Seq(Nat) /\ Len(s \o c) = Len(s) + n
  BY <1>2, ConcatProperties
<1>4. PICK u \in Seq(Nat) : u = s \o c
  BY <1>3
<1>. QED
  BY <1>1, <1>3, <1>4, KeepIsSeq

LEMMA Got ==
  ASSUME NEW s \in Seq(Nat)
  PROVE  /\ GetSome(s, FRAME).items \in Seq(Nat)
         /\ GetSome(s, FRAME).left \in Seq(Nat)
         /\ Len(GetSome(s, FRAME).left) = IF Len(s) < FRAME THEN Len(s) ELSE Len(s) - FRAME
         /\ GetSome(s, FRAME).items = <<>> <=> Len(s) < FRAME
<1>1. FRAME \in Nat /\ FRAME > 0
  BY FrameAssumption, SizeAssumption
<1>2. CASE Len(s) < FRAME
  BY <1>2 DEF GetSome
<1>3. CASE ~(Len(s) < FRAME)
  <2>1. FRAME \in 0 .. Len(s)
    BY <1>1, <1>3
  <2>2. Rest(s, FRAME) \in Seq(Nat) /\ Len(Rest(s, FRAME)) = Len(s) - FRAME
    BY <2>1, RestIsSeq
  <2>3. PICK f : f = SubSeq(s, 1, FRAME)
    OBVIOUS
  <2>4. f \in Seq(Nat) /\ Len(f) = FRAME
    BY <1>1, <2>1, <2>3
  <2>5. GetSome(s, FRAME) = [items |-> f, left |-> Rest(s, FRAME)]
    BY <1>3, <2>3 DEF GetSome
  <2>6. f # <<>>
    BY <1>1, <2>4
  <2>. QED
    BY <1>3, <2>2, <2>4, <2>5, <2>6
<1>. QED
  BY <1>2, <1>3

-----------------------------------------------------------------------------
(* The type invariant is inductive as it stands. *)

LEMMA TypeOKStep == TypeOK /\ [Next]_vars => TypeOK'
<1>. SUFFICES ASSUME TypeOK, [Next]_vars PROVE TypeOK'
  OBVIOUS
<1>. USE DEF TypeOK
<1>0. FRAME \in Nat /\ SIZE \in Nat
  BY FrameAssumption, SizeAssumption
<1>8. ASSUME UNCHANGED encoder
      PROVE  m_encoder' = m_encoder /\ creating' = creating /\ crashed' = crashed
  BY <1>8 DEF encoder
<1>1. ASSUME NEW t \in Threads, NEW n \in Chunks, SendAudioPacket(t, n) PROVE TypeOK'
  <2>1. n \in Nat
    BY ChunksAssumption
  <2>2. PICK k : k = Keep(input_data \o Samples(n))
    OBVIOUS
  <2>3. k \in Seq(Nat) /\ Len(k) <= SIZE /\ Len(k) \in 0 .. SIZE
    <3>1. /\ k \in Seq(Nat)
          /\ Len(k) = IF Len(input_data) + n <= SIZE THEN Len(input_data) + n ELSE SIZE
      BY <2>1, <2>2, Fed
    <3>. QED
      BY <1>0, <2>1, <3>1
  <2>. QED
    BY <1>1, <1>8, <2>1, <2>2, <2>3 DEF SendAudioPacket
<1>2. ASSUME NEW t \in Threads, TakeFrame(t) PROVE TypeOK'
  <2>1. PICK g : g = GetSome(input_data, FRAME)
    OBVIOUS
  <2>2. g.items \in Seq(Nat) /\ g.left \in Seq(Nat) /\ Len(g.left) \in 0 .. SIZE
    BY <1>0, <2>1, Got, SMTT(30)
  <2>. QED
    BY <1>2, <1>8, <2>1, <2>2 DEF TakeFrame
<1>3. ASSUME NEW t \in Threads, Encode(t) PROVE TypeOK'
  BY <1>3 DEF Encode
<1>4. ASSUME NEW t \in Threads, Transmit(t) PROVE TypeOK'
  <2>1. PICK r : r = [by |-> t, pcm |-> pcm_data[t]]
    OBVIOUS
  <2>2. wire' \in Seq([by : Threads, pcm : Seq(Nat)])
    <3>1. PICK R : R = [by : Threads, pcm : Seq(Nat)]
      OBVIOUS
    <3>2. r \in R /\ wire \in Seq(R)
      BY <2>1, <3>1
    <3>3. Append(wire, r) \in Seq(R)
      BY <3>2, AppendProperties
    <3>4. wire' = wire \/ wire' = Append(wire, r)
      BY <1>4, <2>1 DEF Transmit
    <3>. QED
      BY <3>1, <3>2, <3>3, <3>4
  <2>3. <<>> \in Seq(Nat)
    BY EmptySeq
  <2>. QED
    BY <1>4, <1>8, <2>2, <2>3 DEF Transmit
<1>5. ASSUME NEW t \in Threads, Return(t) PROVE TypeOK'
  BY <1>5, <1>8 DEF Return
<1>9. ASSUME InitEncoder PROVE TypeOK'
  BY <1>9 DEF InitEncoder
<1>6. ASSUME CreatePc PROVE TypeOK'
  <2>1. <<>> \in Seq(Nat) /\ Len(<<>>) = 0
    BY EmptySeq
  <2>2. input_data' \in Seq(Nat) /\ Len(input_data') <= SIZE
    <3>1. CASE input_data' = <<>>
      BY <1>0, <2>1, <3>1
    <3>2. CASE input_data' = input_data
      BY <3>2
    <3>. QED
      BY <1>6, <3>1, <3>2, Zenon DEF CreatePc
  <2>3. /\ creating' = FALSE
        /\ UNCHANGED <<fed, pc, input_data_size, pcm_data, encoded_data, wire, m_encoder,
                       crashed>>
    BY <1>6 DEF CreatePc
  <2>. QED
    BY <2>2, <2>3
<1>7. CASE UNCHANGED vars
  BY <1>7 DEF vars
<1>. QED
  BY <1>1, <1>2, <1>3, <1>4, <1>5, <1>6, <1>7, <1>9 DEF Next, Step

LEMMA InitHasType == Init => TypeOK
<1>. SUFFICES ASSUME Init PROVE TypeOK
  OBVIOUS
<1>1. \A S : <<>> \in Seq(S) /\ Len(<<>>) = 0
  BY EmptySeq
<1>2. input_data \in Seq(Nat) /\ Len(input_data) <= SIZE /\ fed \in Nat
  BY <1>1, SizeAssumption DEF Init
<1>3. /\ pc \in [Threads -> {"idle", "loop", "encode", "send"}]
      /\ input_data_size \in [Threads -> 0 .. SIZE]
  BY SizeAssumption DEF Init
<1>4. /\ pcm_data \in [Threads -> Seq(Nat)]
      /\ encoded_data \in [Threads -> {"packet", "garbage", "none"}]
      /\ wire \in Seq([by : Threads, pcm : Seq(Nat)])
  BY <1>1 DEF Init
<1>5. m_encoder \in {"none", "ready"} /\ creating \in BOOLEAN /\ crashed \in BOOLEAN
  BY DEF Init
<1>. QED
  BY <1>2, <1>3, <1>4, <1>5 DEF TypeOK

\* In every reachable state the variables have their types, and the buffer
\* holds no more than its capacity.
THEOREM TypeCorrect == Spec => []TypeOK
  BY InitHasType, TypeOKStep, PTL DEF Spec

-----------------------------------------------------------------------------
(* The bound on the backlog.  It is inductive because every caller that    *)
(* could still leave samples behind is counted in Draining.                *)

LEMMA CallersFinite ==
  ASSUME NEW D \in SUBSET Threads
  PROVE  /\ IsFiniteSet(D)
         /\ Cardinality(D) \in Nat
         /\ MaxChunk * Cardinality(D) \in Nat
<1>1. IsFiniteSet(D) /\ Cardinality(D) \in Nat
  BY ThreadsAssumption, FS_Subset, FS_CardinalityType
<1>. QED
  BY <1>1, ChunksAssumption

LEMMA OneMoreCaller ==
  ASSUME NEW D \in SUBSET Threads, NEW t \in Threads, t \notin D
  PROVE  MaxChunk * Cardinality(D \cup {t}) = MaxChunk * Cardinality(D) + MaxChunk
<1>1. IsFiniteSet(D) /\ Cardinality(D) \in Nat /\ MaxChunk \in Nat
  BY CallersFinite, ChunksAssumption
<1>2. Cardinality(D \cup {t}) = Cardinality(D) + 1
  BY <1>1, FS_AddElement
<1>3. ASSUME NEW c \in Nat PROVE MaxChunk * (c + 1) = MaxChunk * c + MaxChunk
  BY <1>1
<1>. QED
  BY <1>1, <1>2, <1>3

BInv == TypeOK /\ BacklogBounded

LEMMA BInvStep == BInv /\ [Next]_vars => BInv'
<1>. SUFFICES ASSUME TypeOK, BacklogBounded, TypeOK', [Next]_vars
              PROVE  BacklogBounded'
  BY TypeOKStep DEF BInv
<1>0. /\ FRAME \in Nat /\ FRAME > 0 /\ SIZE \in Nat /\ MaxChunk \in Nat
      /\ Len(input_data) \in Nat /\ Len(input_data)' \in Nat
      /\ pc \in [Threads -> {"idle", "loop", "encode", "send"}]
      /\ input_data_size \in [Threads -> 0 .. SIZE]
  BY FrameAssumption, SizeAssumption, ChunksAssumption DEF TypeOK
<1>1. /\ Draining \in SUBSET Threads /\ Draining' \in SUBSET Threads
      /\ MaxChunk * Cardinality(Draining) \in Nat
      /\ MaxChunk * Cardinality(Draining)' \in Nat
  <2>1. Draining \in SUBSET Threads /\ Draining' \in SUBSET Threads
    BY DEF Draining
  <2>2. ASSUME NEW D \in SUBSET Threads PROVE MaxChunk * Cardinality(D) \in Nat
    BY CallersFinite
  <2>. QED
    BY <2>1, <2>2
<1>2. CASE Len(input_data)' < FRAME
  BY <1>0, <1>1, <1>2 DEF BacklogBounded
<1>3. ASSUME Draining' = Draining, Len(input_data)' <= Len(input_data)
      PROVE  BacklogBounded'
  BY <1>0, <1>1, <1>3 DEF BacklogBounded
<1>4. ASSUME NEW t \in Threads, NEW n \in Chunks, SendAudioPacket(t, n),
             Len(input_data)' >= FRAME
      PROVE  BacklogBounded'
  <2>1. n \in Nat /\ n <= MaxChunk
    BY ChunksAssumption
  <2>2. Len(input_data)' <= Len(input_data) + n
    BY <1>0, <1>4, <2>1, Fed DEF SendAudioPacket, TypeOK
  <2>3. t \notin Draining /\ Draining' = Draining \cup {t}
    BY <1>0, <1>4 DEF SendAudioPacket, Draining
  <2>4. MaxChunk * Cardinality(Draining)' = MaxChunk * Cardinality(Draining) + MaxChunk
    BY <1>1, <2>3, OneMoreCaller
  <2>. QED
    BY <1>0, <1>1, <2>1, <2>2, <2>4 DEF BacklogBounded
<1>5. ASSUME NEW t \in Threads, TakeFrame(t), Len(input_data)' >= FRAME
      PROVE  BacklogBounded'
  <2>1. Len(input_data)' <= Len(input_data)
    BY <1>0, <1>5, Got DEF TakeFrame, TypeOK
  <2>2. pc'[t] \in {"loop", "encode"} /\ input_data_size'[t] >= FRAME
    BY <1>0, <1>5 DEF TakeFrame
  <2>3. Draining' = Draining
    BY <1>0, <1>5, <2>2 DEF TakeFrame, Draining
  <2>. QED
    BY <1>3, <2>1, <2>3
<1>6. ASSUME NEW t \in Threads, Encode(t) \/ Transmit(t) \/ Return(t)
      PROVE  BacklogBounded'
  <2>1. input_data' = input_data /\ input_data_size' = input_data_size
    BY <1>6 DEF Encode, Transmit, Return
  <2>2. CASE Encode(t) \/ Transmit(t)
    <3>1. pc[t] # "idle" /\ pc'[t] # "idle" /\ \A u \in Threads \ {t} : pc'[u] = pc[u]
      BY <1>0, <2>2 DEF Encode, Transmit
    <3>2. Draining' = Draining
      BY <2>1, <3>1 DEF Draining
    <3>. QED
      BY <1>0, <1>3, <2>1, <3>2
  <2>3. CASE Return(t)
    <3>1. /\ ~(input_data_size[t] >= FRAME)
          /\ \A u \in Threads \ {t} : pc'[u] = pc[u]
      BY <1>0, <2>3 DEF Return
    <3>2. Draining' = Draining
      BY <2>1, <3>1 DEF Draining
    <3>. QED
      BY <1>0, <1>3, <2>1, <3>2
  <2>. QED
    BY <1>6, <2>2, <2>3
<1>7. ASSUME InitEncoder \/ CreatePc PROVE BacklogBounded'
  <2>1. CASE input_data' = <<>>
    BY <1>0, <1>2, <2>1
  <2>2. CASE input_data' = input_data
    <3>1. Draining' = Draining
      BY <1>7 DEF InitEncoder, CreatePc, Draining
    <3>. QED
      BY <1>0, <1>3, <2>2, <3>1
  <2>. QED
    BY <1>7, <2>1, <2>2 DEF InitEncoder, CreatePc
<1>8. CASE UNCHANGED vars
  BY <1>0, <1>3, <1>8 DEF vars, Draining
<1>. QED
  BY <1>0, <1>2, <1>4, <1>5, <1>6, <1>7, <1>8 DEF Next, Step

\* The samples waiting are never more than an incomplete frame and one chunk
\* for each caller that will look at the buffer again.
THEOREM Backlog == Spec => []BacklogBounded
<1>1. Init => BInv
  <2>. SUFFICES ASSUME Init PROVE BInv
    OBVIOUS
  <2>1. TypeOK
    BY InitHasType
  <2>2. Draining \in SUBSET Threads
    BY DEF Draining
  <2>3. MaxChunk * Cardinality(Draining) \in Nat
    BY <2>2, CallersFinite
  <2>. QED
    BY <2>1, <2>3, FrameAssumption, SizeAssumption DEF Init, BInv, BacklogBounded
<1>2. BInv => BacklogBounded
  BY DEF BInv
<1>. QED
  BY <1>1, <1>2, BInvStep, PTL DEF Spec

\* When no call is in progress less than a frame is waiting.
THEOREM Drained == Spec => []DrainedAtRest
<1>1. TypeOK /\ BacklogBounded => DrainedAtRest
  <2>. SUFFICES ASSUME TypeOK, BacklogBounded, \A t \in Threads : pc[t] = "idle"
                PROVE  Len(input_data) < FRAME
    BY DEF DrainedAtRest
  <2>1. Draining = {}
    BY DEF Draining
  <2>2. Cardinality(Draining) = 0
    BY <2>1, FS_EmptySet
  <2>. QED
    BY <2>2, FrameAssumption, SizeAssumption, ChunksAssumption
       DEF BacklogBounded, TypeOK
<1>. QED
  BY <1>1, TypeCorrect, Backlog, PTL

\* With room for an incomplete frame and a chunk of every caller no sample is
\* ever overwritten before it is taken.
THEOREM NoOverwrite == ASSUME Headroom PROVE Spec => NothingOverwritten
<1>1. ASSUME TypeOK, BacklogBounded, [Next]_vars, fed' > fed
      PROVE  Len(input_data') = Len(input_data) + (fed' - fed)
  <2>0. /\ FRAME \in Nat /\ SIZE \in Nat /\ MaxChunk \in Nat
        /\ Len(input_data) \in Nat /\ fed \in Nat /\ input_data \in Seq(Nat)
    BY <1>1, FrameAssumption, SizeAssumption, ChunksAssumption DEF TypeOK
  <2>1. PICK t \in Threads, n \in Chunks : SendAudioPacket(t, n)
    <3>1. ASSUME NEW t \in Threads, Step(t) PROVE fed' = fed
      BY <3>1 DEF Step, TakeFrame, Encode, Transmit, Return
    <3>2. (InitEncoder \/ CreatePc \/ UNCHANGED vars) => fed' = fed
      BY DEF InitEncoder, CreatePc, vars
    <3>3. ~(fed' = fed)
      BY <1>1, <2>0
    <3>. QED
      BY <1>1, <3>1, <3>2, <3>3 DEF Next
  <2>2. n \in Nat /\ n <= MaxChunk
    BY ChunksAssumption
  <2>3. Draining \in SUBSET (Threads \ {t})
    BY <2>1 DEF SendAudioPacket, Draining
  <2>4. MaxChunk * Cardinality(Draining \cup {t}) <= MaxChunk * Cardinality(Threads)
    <3>1. /\ Draining \cup {t} \in SUBSET Threads
          /\ Cardinality(Draining \cup {t}) \in Nat /\ Cardinality(Threads) \in Nat
      BY <2>3, CallersFinite, ThreadsAssumption, FS_CardinalityType
    <3>2. Cardinality(Draining \cup {t}) <= Cardinality(Threads)
      BY <3>1, ThreadsAssumption, FS_Subset
    <3>3. ASSUME NEW c \in Nat, NEW d \in Nat, c <= d PROVE MaxChunk * c <= MaxChunk * d
      BY <2>0, <3>3
    <3>. QED
      BY <3>1, <3>2, <3>3
  <2>5. MaxChunk * Cardinality(Draining \cup {t}) = MaxChunk * Cardinality(Draining) + MaxChunk
    BY <2>3, OneMoreCaller
  <2>6. Len(input_data) + n <= SIZE
    <3>1. /\ MaxChunk * Cardinality(Draining) \in Nat
          /\ MaxChunk * Cardinality(Threads) \in Nat
      BY <2>3, CallersFinite
    <3>. QED
      BY <1>1, <2>0, <2>2, <2>4, <2>5, <3>1, Headroom DEF Headroom, BacklogBounded
  <2>7. Len(input_data') = Len(input_data) + n /\ fed' = fed + n
    BY <2>0, <2>1, <2>2, <2>6, Fed DEF SendAudioPacket
  <2>. QED
    BY <2>0, <2>2, <2>7
<1>2. TypeOK /\ BacklogBounded /\ [Next]_vars
        => [fed' > fed => Len(input_data') = Len(input_data) + (fed' - fed)]_vars
  BY <1>1
<1>. QED
  BY <1>2, TypeCorrect, Backlog, PTL DEF Spec, NothingOverwritten

-----------------------------------------------------------------------------
(* Where the samples are.  Those up to Taken have left the buffer, which   *)
(* holds all later ones; frames in a caller's hands or on the wire are     *)
(* whole, of samples up to Taken, and no two of them share one.            *)

Taken == fed - Len(input_data)

FrameUpTo(f, n) ==
  /\ Len(f) = FRAME /\ f[1] \in Nat /\ f[1] + FRAME <= n + 1
  /\ \A i \in 1 .. FRAME : f[i] = f[1] + i - 1

Apart(f, g) == f[1] + FRAME <= g[1] \/ g[1] + FRAME <= f[1]

BufferInv ==
  /\ Taken \in Nat
  /\ \A i \in 1 .. Len(input_data) : input_data[i] = Taken + i

FramesInv ==
  /\ \A t \in InFlight : FrameUpTo(pcm_data[t], Taken)
  /\ \A w \in 1 .. Len(wire) : FrameUpTo(wire[w].pcm, Taken)
  /\ \A t, u \in InFlight : t # u => Apart(pcm_data[t], pcm_data[u])
  /\ \A w \in 1 .. Len(wire), t \in InFlight : Apart(wire[w].pcm, pcm_data[t])
  /\ \A v, w \in 1 .. Len(wire) : v # w => Apart(wire[v].pcm, wire[w].pcm)

OrderInv ==
  /\ \A i, j \in 1 .. Len(wire) :
       i < j /\ wire[i].by = wire[j].by => wire[i].pcm[1] < wire[j].pcm[1]
  /\ \A i \in 1 .. Len(wire), t \in InFlight :
       wire[i].by = t => wire[i].pcm[1] < pcm_data[t][1]

SInv == TypeOK /\ BufferInv /\ FramesInv /\ OrderInv

\* Steps that only add samples or throw some away.
LEMMA SameFrames ==
  ASSUME SInv, TypeOK', BufferInv', Taken' >= Taken,
         InFlight' = InFlight, wire' = wire,
         \A t \in InFlight : pcm_data'[t] = pcm_data[t]
  PROVE  SInv'
<1>1. /\ \A f : FrameUpTo(f, Taken) => FrameUpTo(f, Taken')
      /\ FRAME \in Nat
  BY FrameAssumption, SizeAssumption DEF SInv, BufferInv, FrameUpTo
<1>2. FramesInv'
  BY <1>1 DEF SInv, FramesInv, Apart
<1>3. OrderInv'
  BY DEF SInv, OrderInv
<1>. QED
  BY <1>2, <1>3 DEF SInv

\* The buffer holds the latest samples, also after an overflow.
LEMMA FedInOrder ==
  ASSUME NEW s \in Seq(Nat), NEW n \in Nat, fed \in Nat, Len(s) <= fed,
         \A i \in 1 .. Len(s) : s[i] = fed - Len(s) + i,
         NEW k, k = Keep(s \o Samples(n))
  PROVE  \A i \in 1 .. Len(k) : k[i] = fed + n - Len(k) + i
<1>1. PICK c : c = Samples(n)
  OBVIOUS
<1>2. c \in Seq(Nat) /\ Len(c) = n /\ \A i \in 1 .. n : c[i] = fed + i
  BY <1>1, SamplesIsSeq DEF Samples
<1>3. PICK u : u = s \o c
  OBVIOUS
<1>4. /\ u \in Seq(Nat) /\ Len(u) = Len(s) + n
      /\ \A i \in 1 .. Len(s) : u[i] = s[i]
      /\ \A i \in 1 .. n : u[Len(s) + i] = c[i]
  <2>1. u \in Seq(Nat) /\ Len(u) = Len(s) + n
    BY <1>2, <1>3, ConcatProperties
  <2>2. \A i \in 1 .. Len(s) : u[i] = s[i]
    BY <1>2, <1>3
  <2>3. \A i \in 1 .. n : u[Len(s) + i] = c[i]
    BY <1>2, <1>3
  <2>. QED
    BY <2>1, <2>2, <2>3
<1>5. ASSUME NEW i \in 1 .. Len(u) PROVE u[i] = fed + n - Len(u) + i
  <2>1. CASE i <= Len(s)
    BY <1>4, <2>1
  <2>2. CASE ~(i <= Len(s))
    <3>1. PICK j \in 1 .. n : i = Len(s) + j
      <4>1. i - Len(s) \in 1 .. n /\ i = Len(s) + (i - Len(s))
        BY <1>4, <2>2
      <4>. QED
        BY <4>1
    <3>2. u[i] = fed + j
      BY <1>2, <1>4, <3>1
    <3>. QED
      BY <1>4, <3>1, <3>2
  <2>. QED
    BY <2>1, <2>2
<1>6. SIZE \in Nat /\ Len(u) \in Nat
  BY <1>4, SizeAssumption
<1>7. CASE Len(u) <= SIZE
  BY <1>1, <1>3, <1>5, <1>7 DEF Keep
<1>8. CASE ~(Len(u) <= SIZE)
  <2>1. k = SubSeq(u, Len(u) - SIZE + 1, Len(u))
    BY <1>1, <1>3, <1>8 DEF Keep
  <2>2. Len(k) = SIZE /\ \A i \in 1 .. SIZE : k[i] = u[Len(u) - SIZE + i]
    BY <1>4, <1>6, <1>8, <2>1
  <2>3. ASSUME NEW i \in 1 .. Len(k) PROVE k[i] = fed + n - Len(k) + i
    <3>1. i \in 1 .. SIZE /\ Len(k) = SIZE /\ k[i] = u[Len(u) - SIZE + i]
      BY <2>2
    <3>2. Len(u) - SIZE + i \in 1 .. Len(u)
      BY <1>6, <1>8, <3>1
    <3>3. u[Len(u) - SIZE + i] = fed + n - Len(u) + (Len(u) - SIZE + i)
      BY <1>5, <3>2
    <3>. QED
      BY <1>6, <3>1, <3>3
  <2>. QED
    BY <2>3
<1>. QED
  BY <1>7, <1>8

LEMMA SendAudioPacketKeepsSInv ==
  ASSUME SInv, TypeOK', NEW t \in Threads, NEW n \in Chunks, SendAudioPacket(t, n)
  PROVE  SInv'
<1>1. /\ n \in Nat /\ fed \in Nat /\ fed' = fed + n /\ input_data \in Seq(Nat)
      /\ Len(input_data) \in Nat /\ SIZE \in Nat /\ Taken \in Nat
      /\ pc[t] = "idle" /\ pc' = [pc EXCEPT ![t] = "loop"]
      /\ wire' = wire /\ pcm_data' = pcm_data
  BY ChunksAssumption, SizeAssumption DEF SInv, BufferInv, TypeOK, SendAudioPacket
<1>2. PICK k : k = input_data'
  OBVIOUS
<1>3. k = Keep(input_data \o Samples(n))
  BY <1>2 DEF SendAudioPacket
<1>4. Len(k) = IF Len(input_data) + n <= SIZE THEN Len(input_data) + n ELSE SIZE
  BY <1>1, <1>3, Fed
<1>5. Len(input_data) <= fed /\ \A i \in 1 .. Len(input_data) : input_data[i] = fed - Len(input_data) + i
  BY <1>1 DEF SInv, BufferInv, Taken
<1>6. \A i \in 1 .. Len(k) : k[i] = fed + n - Len(k) + i
  BY <1>1, <1>3, <1>5, FedInOrder
<1>7. Taken' = fed + n - Len(k)
  BY <1>1, <1>2 DEF Taken
<1>8. Taken' >= Taken /\ Taken' \in Nat
  <2>1. Len(input_data) <= SIZE /\ Taken = fed - Len(input_data)
    BY DEF SInv, TypeOK, Taken
  <2>2. CASE Len(input_data) + n <= SIZE
    BY <1>1, <1>4, <1>7, <2>1, <2>2
  <2>3. CASE ~(Len(input_data) + n <= SIZE)
    BY <1>1, <1>4, <1>5, <1>7, <2>1, <2>3
  <2>. QED
    BY <2>2, <2>3
<1>9. BufferInv'
  BY <1>2, <1>6, <1>7, <1>8 DEF BufferInv
<1>10. InFlight' = InFlight
  BY <1>1 DEF InFlight, SInv, TypeOK
<1>. QED
  BY <1>1, <1>8, <1>9, <1>10, SameFrames

LEMMA TakeFrameKeepsSInv ==
  ASSUME SInv, TypeOK', NEW t \in Threads, TakeFrame(t)
  PROVE  SInv'
<1>0. /\ FRAME \in Nat /\ FRAME > 0 /\ input_data \in Seq(Nat) /\ Len(input_data) \in Nat
      /\ fed \in Nat /\ fed' = fed /\ Taken \in Nat /\ wire' = wire
      /\ pc[t] = "loop" /\ t \notin InFlight
      /\ pc \in [Threads -> {"idle", "loop", "encode", "send"}]
      /\ pcm_data \in [Threads -> Seq(Nat)]
  BY FrameAssumption, SizeAssumption DEF SInv, BufferInv, TypeOK, TakeFrame, InFlight
<1>1. CASE Len(input_data) < FRAME
  <2>1. GetSome(input_data, FRAME) = [items |-> <<>>, left |-> input_data]
    BY <1>1 DEF GetSome
  <2>2. /\ input_data' = input_data /\ pc' = [pc EXCEPT ![t] = "loop"]
        /\ pcm_data' = [pcm_data EXCEPT ![t] = <<>>]
    BY <2>1 DEF TakeFrame
  <2>3. InFlight' = InFlight /\ \A u \in InFlight : pcm_data'[u] = pcm_data[u]
    BY <1>0, <2>2 DEF InFlight
  <2>4. Taken' = Taken /\ BufferInv'
    BY <1>0, <2>2 DEF Taken, BufferInv, SInv
  <2>. QED
    BY <1>0, <2>3, <2>4, SameFrames
<1>2. CASE ~(Len(input_data) < FRAME)
  <2>. DEFINE f == SubSeq(input_data, 1, FRAME)
              k == Rest(input_data, FRAME)
  <2>1. GetSome(input_data, FRAME) = [items |-> f, left |-> k]
    BY <1>2 DEF GetSome
  <2>2. /\ f \in Seq(Nat) /\ Len(f) = FRAME
        /\ \A i \in 1 .. FRAME : f[i] = input_data[i]
    BY <1>0, <1>2
  <2>3. /\ k \in Seq(Nat) /\ Len(k) = Len(input_data) - FRAME
        /\ \A i \in 1 .. Len(input_data) - FRAME : k[i] = input_data[FRAME + i]
    <3>1. FRAME \in 0 .. Len(input_data)
      BY <1>0, <1>2
    <3>2. k \in Seq(Nat) /\ Len(k) = Len(input_data) - FRAME
      BY <3>1, <1>0, RestIsSeq
    <3>3. \A i \in 1 .. Len(input_data) - FRAME : k[i] = input_data[FRAME + i]
      BY <1>0, <1>2 DEF Rest
    <3>. QED
      BY <3>2, <3>3
  <2>. HIDE DEF f, k
  <2>4. /\ input_data' = k /\ pc' = [pc EXCEPT ![t] = "encode"]
        /\ pcm_data' = [pcm_data EXCEPT ![t] = f]
    <3>1. f # <<>>
      BY <1>0, <2>2
    <3>. QED
      BY <2>1, <3>1 DEF TakeFrame
  <2>5. Taken' = Taken + FRAME
    <3>1. Taken' = fed - (Len(input_data) - FRAME)
      BY <1>0, <2>3, <2>4 DEF Taken
    <3>2. fed - (Len(input_data) - FRAME) = fed - Len(input_data) + FRAME
      BY <1>0
    <3>. QED
      BY <3>1, <3>2 DEF Taken
  <2>0. \A i \in 1 .. Len(input_data) : input_data[i] = Taken + i
    BY DEF BufferInv, SInv
  <2>6. BufferInv'
    <3>1. ASSUME NEW i \in 1 .. Len(k) PROVE k[i] = Taken + FRAME + i
      <4>1. FRAME + i \in 1 .. Len(input_data) /\ i \in 1 .. Len(input_data) - FRAME
        BY <1>0, <1>2, <2>3
      <4>2. k[i] = Taken + (FRAME + i)
        BY <2>0, <2>3, <4>1
      <4>. QED
        BY <1>0, <4>2
    <3>2. Taken + FRAME \in Nat
      BY <1>0
    <3>. QED
      BY <2>4, <2>5, <3>1, <3>2 DEF BufferInv
  <2>7. f[1] = Taken + 1 /\ FrameUpTo(f, Taken')
    <3>1. ASSUME NEW i \in 1 .. FRAME PROVE f[i] = Taken + i
      <4>1. i \in 1 .. Len(input_data)
        BY <1>0, <1>2
      <4>. QED
        BY <2>0, <2>2, <4>1
    <3>2. f[1] = Taken + 1
      BY <1>0, <3>1
    <3>3. \A i \in 1 .. FRAME : f[i] = f[1] + i - 1
      BY <1>0, <3>1, <3>2
    <3>4. f[1] \in Nat /\ f[1] + FRAME <= Taken' + 1
      BY <1>0, <2>5, <3>2
    <3>. QED
      BY <2>2, <3>2, <3>3, <3>4 DEF FrameUpTo
  <2>8. InFlight' = InFlight \cup {t} /\ pcm_data'[t] = f
        /\ \A u \in InFlight : pcm_data'[u] = pcm_data[u]
    BY <1>0, <2>4 DEF InFlight
  <2>9. \A g : FrameUpTo(g, Taken) =>
          /\ FrameUpTo(g, Taken') /\ g[1] < f[1] /\ Apart(g, f) /\ Apart(f, g)
    BY <1>0, <2>5, <2>7 DEF FrameUpTo, Apart
  <2>10. FramesInv'
    <3>1. \A u \in InFlight' : FrameUpTo(pcm_data'[u], Taken')
      BY <2>7, <2>8, <2>9 DEF SInv, FramesInv
    <3>2. \A w \in 1 .. Len(wire') : FrameUpTo(wire'[w].pcm, Taken')
      BY <1>0, <2>9 DEF SInv, FramesInv
    <3>3. \A u, v \in InFlight' : u # v => Apart(pcm_data'[u], pcm_data'[v])
      BY <2>8, <2>9 DEF SInv, FramesInv
    <3>4. \A w \in 1 .. Len(wire'), u \in InFlight' : Apart(wire'[w].pcm, pcm_data'[u])
      BY <1>0, <2>8, <2>9 DEF SInv, FramesInv
    <3>5. \A v, w \in 1 .. Len(wire') : v # w => Apart(wire'[v].pcm, wire'[w].pcm)
      BY <1>0 DEF SInv, FramesInv
    <3>. QED
      BY <3>1, <3>2, <3>3, <3>4, <3>5 DEF FramesInv, Apart
  <2>11. OrderInv'
    <3>1. \A i \in 1 .. Len(wire) : wire[i].pcm[1] < f[1]
      BY <2>9 DEF SInv, FramesInv
    <3>. QED
      BY <1>0, <2>8, <3>1 DEF SInv, OrderInv
  <2>. QED
    BY <2>6, <2>10, <2>11 DEF SInv
<1>. QED
  BY <1>1, <1>2

LEMMA TransmitKeepsSInv ==
  ASSUME SInv, TypeOK', NEW t \in Threads, Transmit(t)
  PROVE  SInv'
<1>0. /\ input_data' = input_data /\ fed' = fed /\ t \in InFlight
      /\ pc' = [pc EXCEPT ![t] = "loop"] /\ pcm_data' = [pcm_data EXCEPT ![t] = <<>>]
      /\ pc \in [Threads -> {"idle", "loop", "encode", "send"}]
      /\ pcm_data \in [Threads -> Seq(Nat)]
      /\ wire \in Seq([by : Threads, pcm : Seq(Nat)]) /\ Len(wire) \in Nat
  BY DEF SInv, TypeOK, Transmit, InFlight
<1>1. Taken' = Taken /\ BufferInv'
  BY <1>0 DEF Taken, BufferInv, SInv
<1>2. InFlight' = InFlight \ {t} /\ \A u \in InFlight' : pcm_data'[u] = pcm_data[u]
  BY <1>0 DEF InFlight
<1>3. CASE wire' = wire
  <2>1. FramesInv' /\ OrderInv'
    BY <1>1, <1>2, <1>3 DEF SInv, FramesInv, OrderInv, Apart
  <2>. QED
    BY <1>1, <2>1 DEF SInv
<1>4. CASE wire' # wire
  <2>. DEFINE r == [by |-> t, pcm |-> pcm_data[t]]
              n == Len(wire) + 1
  <2>1. wire' = Append(wire, r)
    BY <1>4 DEF Transmit
  <2>2. r \in [by : Threads, pcm : Seq(Nat)] /\ r.by = t /\ r.pcm = pcm_data[t]
    BY <1>0
  <2>. HIDE DEF r
  <2>3. Len(wire') = n /\ wire'[n] = r /\ \A w \in 1 .. Len(wire) : wire'[w] = wire[w]
    BY <1>0, <2>1, <2>2
  <2>4. \A w \in 1 .. n : w = n \/ w \in 1 .. Len(wire)
    BY <1>0
  <2>8. /\ wire'[n].pcm = pcm_data[t] /\ wire'[n].by = t
        /\ \A u \in InFlight' : u \in InFlight /\ u # t /\ pcm_data'[u] = pcm_data[u]
    BY <1>2, <2>2, <2>3
  <2>5. n \in Nat /\ \A w \in 1 .. Len(wire) : w # n
    BY <1>0
  <2>. HIDE DEF n
  <2>6. FramesInv'
    <3>1. \A u \in InFlight' : FrameUpTo(pcm_data'[u], Taken')
      BY <1>1, <1>2 DEF SInv, FramesInv
    <3>2. \A w \in 1 .. n : FrameUpTo(wire'[w].pcm, Taken')
      BY <1>0, <1>1, <2>2, <2>3, <2>4 DEF SInv, FramesInv
    <3>3. \A u, v \in InFlight' : u # v => Apart(pcm_data'[u], pcm_data'[v])
      BY <1>2 DEF SInv, FramesInv
    <3>4. \A w \in 1 .. n, u \in InFlight' : Apart(wire'[w].pcm, pcm_data'[u])
      <4>1. \A u \in InFlight' : Apart(wire'[n].pcm, pcm_data'[u])
        BY <1>0, <2>8 DEF SInv, FramesInv
      <4>2. \A w \in 1 .. Len(wire), u \in InFlight' : Apart(wire'[w].pcm, pcm_data'[u])
        BY <2>3, <2>8 DEF SInv, FramesInv
      <4>. QED
        BY <2>4, <4>1, <4>2
    <3>5. \A v, w \in 1 .. n : v # w => Apart(wire'[v].pcm, wire'[w].pcm)
      <4>1. \A v, w \in 1 .. Len(wire) : v # w => Apart(wire'[v].pcm, wire'[w].pcm)
        BY <2>3 DEF SInv, FramesInv
      <4>2. \A v \in 1 .. Len(wire) : Apart(wire'[v].pcm, wire'[n].pcm)
        BY <1>0, <2>3, <2>8 DEF SInv, FramesInv
      <4>3. \A v \in 1 .. Len(wire) : Apart(wire'[n].pcm, wire'[v].pcm)
        BY <4>2 DEF Apart
      <4>. QED
        BY <2>4, <4>1, <4>2, <4>3
    <3>. QED
      BY <2>3, <3>1, <3>2, <3>3, <3>4, <3>5 DEF FramesInv, Apart
  <2>7. OrderInv'
    <3>1. \A i, j \in 1 .. n :
            i < j /\ wire'[i].by = wire'[j].by => wire'[i].pcm[1] < wire'[j].pcm[1]
      <4>1. \A i, j \in 1 .. n : i < j => i \in 1 .. Len(wire)
        BY <1>0 DEF n
      <4>2. \A i \in 1 .. Len(wire) : wire'[i].by = t => wire'[i].pcm[1] < wire'[n].pcm[1]
        <5>1. \A i \in 1 .. Len(wire) : wire[i].by = t => wire[i].pcm[1] < pcm_data[t][1]
          BY <1>0 DEF SInv, OrderInv
        <5>. QED
          BY <2>3, <2>8, <5>1
      <4>3. \A i, j \in 1 .. Len(wire) :
              i < j /\ wire'[i].by = wire'[j].by => wire'[i].pcm[1] < wire'[j].pcm[1]
        BY <2>3 DEF SInv, OrderInv
      <4>. QED
        BY <2>4, <2>8, <4>1, <4>2, <4>3
    <3>2. \A i \in 1 .. n, u \in InFlight' :
            wire'[i].by = u => wire'[i].pcm[1] < pcm_data'[u][1]
      <4>1. \A i \in 1 .. Len(wire), u \in InFlight' :
              wire'[i].by = u => wire'[i].pcm[1] < pcm_data'[u][1]
        BY <2>3, <2>8 DEF SInv, OrderInv
      <4>. QED
        BY <2>4, <2>8, <4>1
    <3>. QED
      BY <2>3, <3>1, <3>2 DEF OrderInv
  <2>. QED
    BY <1>1, <2>6, <2>7 DEF SInv
<1>. QED
  BY <1>3, <1>4

LEMMA SInvStep == SInv /\ [Next]_vars => SInv'
<1>. SUFFICES ASSUME SInv, [Next]_vars PROVE SInv'
  OBVIOUS
<1>1. TypeOK'
  BY TypeOKStep DEF SInv
<1>2. ASSUME input_data' = input_data, fed' = fed, pcm_data' = pcm_data, wire' = wire,
             InFlight' = InFlight
      PROVE  SInv'
  <2>1. Taken' = Taken /\ BufferInv' /\ Taken \in Nat
    BY <1>2 DEF Taken, BufferInv, SInv
  <2>2. Taken' >= Taken
    BY <2>1
  <2>. QED
    BY <1>1, <1>2, <2>1, <2>2, SameFrames
<1>3. ASSUME NEW t \in Threads, Encode(t) \/ Return(t) PROVE SInv'
  <2>1. InFlight' = InFlight
    BY <1>3 DEF Encode, Return, InFlight, SInv, TypeOK
  <2>. QED
    BY <1>2, <1>3, <2>1 DEF Encode, Return
<1>6. CASE InitEncoder \/ (CreatePc /\ input_data' = input_data)
  BY <1>2, <1>6 DEF InitEncoder, CreatePc, InFlight
<1>4. CASE CreatePc /\ input_data' = <<>>
  <2>1. /\ input_data' = <<>> /\ fed' = fed /\ pcm_data' = pcm_data /\ wire' = wire
        /\ fed \in Nat /\ Len(input_data) \in Nat /\ InFlight' = InFlight
    BY <1>4 DEF CreatePc, SInv, TypeOK, InFlight
  <2>2. Taken' = fed /\ Taken' >= Taken
    BY <2>1 DEF Taken
  <2>3. BufferInv'
    BY <2>1, <2>2 DEF BufferInv
  <2>. QED
    BY <1>1, <2>1, <2>2, <2>3, SameFrames
<1>5. CASE UNCHANGED vars
  BY <1>2, <1>5 DEF vars, InFlight
<1>. QED
  <2>1. CreatePc => input_data' = input_data \/ input_data' = <<>>
    BY DEF CreatePc
  <2>. QED
    BY <1>1, <1>3, <1>4, <1>5, <1>6, <2>1, SendAudioPacketKeepsSInv, TakeFrameKeepsSInv,
       TransmitKeepsSInv
    DEF Next, Step

LEMMA InitEstablishesSInv == Init => SInv
<1>. SUFFICES ASSUME Init PROVE SInv
  OBVIOUS
<1>1. TypeOK /\ InFlight = {}
  BY InitHasType DEF Init, InFlight
<1>2. Len(input_data) = 0 /\ Len(wire) = 0 /\ fed = 0
  BY DEF Init
<1>3. Taken = 0
  BY <1>2, SMT DEF Taken
<1>4. BufferInv
  BY <1>2, <1>3 DEF BufferInv
<1>. QED
  BY <1>1, <1>2, <1>4 DEF SInv, FramesInv, OrderInv

\* In every reachable state each sample fed is in at most one place.
THEOREM SInvAlways == Spec => []SInv
  BY InitEstablishesSInv, SInvStep, PTL DEF Spec

\* What is handed to encodeFloat is a whole frame of consecutive samples,
\* whatever other callers and _create_pc do after the test of the size.
THEOREM FramesWhole == Spec => []WholeFrames
<1>1. SInv => WholeFrames
  BY DEF SInv, FramesInv, FrameUpTo, WholeFrames
<1>. QED
  BY <1>1, SInvAlways, PTL

\* No sample reaches the wire twice, or two callers of send_audio_packet, or
\* a caller while it is still in the buffer.
THEOREM SentOnce == Spec => []NoSampleTwice
<1>1. ASSUME SInv PROVE NoSampleTwice
  <2>. DEFINE Sent == {<<"wire", w>> : w \in DOMAIN wire}
              Held == {<<"call", t>> : t \in InFlight}
              First(f) == IF f[1] = "wire" THEN wire[f[2]].pcm[1] ELSE pcm_data[f[2]][1]
  <2>0. /\ DOMAIN wire = 1 .. Len(wire) /\ DOMAIN input_data = 1 .. Len(input_data)
        /\ Taken \in Nat /\ FRAME \in Nat
    BY <1>1, FrameAssumption, SizeAssumption DEF SInv, TypeOK, BufferInv
  <2>1. ASSUME NEW f \in Sent \cup Held
        PROVE  /\ First(f) \in Nat /\ First(f) + FRAME <= Taken + 1
               /\ \/ \E w \in 1 .. Len(wire) : f = <<"wire", w>> /\ First(f) = wire[w].pcm[1]
                  \/ \E t \in InFlight : f = <<"call", t>> /\ First(f) = pcm_data[t][1]
    <3>1. CASE f \in Sent
      <4>1. PICK w \in 1 .. Len(wire) : f = <<"wire", w>>
        BY <2>0, <3>1
      <4>2. First(f) = wire[w].pcm[1] /\ FrameUpTo(wire[w].pcm, Taken)
        BY <1>1, <4>1 DEF SInv, FramesInv
      <4>. QED
        BY <4>1, <4>2 DEF FrameUpTo
    <3>2. CASE f \in Held
      <4>1. PICK t \in InFlight : f = <<"call", t>>
        BY <3>2
      <4>2. First(f) = pcm_data[t][1] /\ FrameUpTo(pcm_data[t], Taken)
        BY <1>1, <4>1 DEF SInv, FramesInv
      <4>. QED
        BY <4>1, <4>2 DEF FrameUpTo
    <3>. QED
      BY <3>1, <3>2
  <2>. HIDE DEF First
  <2>2. ASSUME NEW f \in Sent \cup Held, NEW g \in Sent \cup Held, f # g
        PROVE  First(f) + FRAME <= First(g) \/ First(g) + FRAME <= First(f)
    <3>1. CASE \E v, w \in 1 .. Len(wire) :
                 /\ f = <<"wire", v>> /\ First(f) = wire[v].pcm[1]
                 /\ g = <<"wire", w>> /\ First(g) = wire[w].pcm[1]
      BY <1>1, <2>2, <3>1 DEF SInv, FramesInv, Apart
    <3>2. CASE \E w \in 1 .. Len(wire), t \in InFlight :
                 First(f) = wire[w].pcm[1] /\ First(g) = pcm_data[t][1]
      BY <1>1, <3>2 DEF SInv, FramesInv, Apart
    <3>3. CASE \E w \in 1 .. Len(wire), t \in InFlight :
                 First(g) = wire[w].pcm[1] /\ First(f) = pcm_data[t][1]
      BY <1>1, <3>3 DEF SInv, FramesInv, Apart
    <3>4. CASE \E t, u \in InFlight :
                 /\ f = <<"call", t>> /\ First(f) = pcm_data[t][1]
                 /\ g = <<"call", u>> /\ First(g) = pcm_data[u][1]
      BY <1>1, <2>2, <3>4 DEF SInv, FramesInv, Apart
    <3>. QED
      BY <2>1, <3>1, <3>2, <3>3, <3>4
  <2>3. ASSUME NEW f \in Sent \cup Held, NEW i \in DOMAIN input_data
        PROVE  First(f) + FRAME <= input_data[i]
    <3>1. input_data[i] = Taken + i /\ i >= 1 /\ i \in Nat
      BY <1>1, <2>0 DEF SInv, BufferInv
    <3>. QED
      BY <2>0, <2>1, <3>1
  <2>. QED
    BY <2>2, <2>3 DEF NoSampleTwice, First
<1>. QED
  BY <1>1, SInvAlways, PTL

\* A caller of send_audio_packet has its packets sent in their order.
THEOREM CallersInOrder == Spec => []InOrderPerCaller
<1>1. ASSUME SInv PROVE InOrderPerCaller
  <2>1. DOMAIN wire = 1 .. Len(wire)
    BY <1>1 DEF SInv, TypeOK
  <2>. QED
    BY <1>1, <2>1 DEF SInv, OrderInv, InOrderPerCaller
<1>. QED
  BY <1>1, SInvAlways, PTL
=============================================================================
