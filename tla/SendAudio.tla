----------------------------- MODULE SendAudio -----------------------------
(***************************************************************************)
(* WebRTCLibPeerConnection::send_audio_packet, called by several threads   *)
(* at once, and _create_pc on another, which makes a new encoder and       *)
(* clears the same buffer.  Samples are numbered in the order in which     *)
(* they enter input_data, which is used here through its abstract          *)
(* specification (LossyQueueOps; CircularBuffer implements it).            *)
(* input_data_lock makes each use of input_data one step; everything a     *)
(* caller does between two uses runs unlocked.  What overlaps in the one   *)
(* encoder is a data race, any of whose outcomes may follow, a crash among *)
(* them.                                                                   *)
(***************************************************************************)
EXTENDS LossyQueueOps, FiniteSets

CONSTANTS
  Threads,    \* the threads that call send_audio_packet
  FRAME,      \* samples per encoded frame, 960 in the code
  Chunks,     \* the sizes of the arrays passed in
  MaxChunk    \* the largest of them

ASSUME ThreadsAssumption == IsFiniteSet(Threads)
ASSUME FrameAssumption == FRAME \in 1 .. SIZE
ASSUME ChunksAssumption == MaxChunk \in Nat /\ Chunks \subseteq 0 .. MaxChunk

VARIABLES
  input_data,         \* the samples in the ring buffer, oldest first
  fed,                \* how many samples have ever been passed in
  pc,                 \* where each caller is
  input_data_size,    \* each caller's copy of input_data.size()
  pcm_data,           \* the frame each caller has taken, <<>> for none
  encoded_data,       \* what encodeFloat left in encoded_data
  wire,               \* the packets handed to Pion, in order
  m_encoder,          \* the Opus encoder, shared by all
  creating,           \* whether _create_pc has made it and is not done
  crashed             \* an encoding without an encoder, or a race that ended so

vars == <<input_data, fed, pc, input_data_size, pcm_data, encoded_data, wire,
          m_encoder, creating, crashed>>

\* What only _create_pc and the encoder change.
encoder == <<m_encoder, creating, crashed>>

Init ==
  /\ input_data = <<>>
  /\ fed = 0
  /\ pc = [t \in Threads |-> "idle"]
  /\ input_data_size = [t \in Threads |-> 0]
  /\ pcm_data = [t \in Threads |-> <<>>]
  /\ encoded_data = [t \in Threads |-> "none"]
  /\ wire = <<>>
  /\ m_encoder = "none"
  /\ creating = FALSE
  /\ crashed = FALSE

Samples(n) == [i \in 1 .. n |-> fed + i]

\* Seeded fault: the size is read before the samples are added.
SendAudioPacketReadsEarly(t, n) ==
  /\ pc[t] = "idle"
  /\ input_data' = Keep(input_data \o Samples(n))
  /\ fed' = fed + n
  /\ input_data_size' = [input_data_size EXCEPT ![t] = Len(input_data)]
  /\ pc' = [pc EXCEPT ![t] = "loop"]
  /\ UNCHANGED <<pcm_data, encoded_data, wire, encoder>>

\* The first locked region: add the samples, note the size.
SendAudioPacket(t, n) ==
  /\ pc[t] = "idle"
  /\ input_data' = Keep(input_data \o Samples(n))
  /\ fed' = fed + n
  /\ input_data_size' = [input_data_size EXCEPT ![t] = Len(input_data')]
  /\ pc' = [pc EXCEPT ![t] = "loop"]
  /\ UNCHANGED <<pcm_data, encoded_data, wire, encoder>>

\* Seeded faults: a short frame when there are fewer than n; the items copied
\* and not removed; the newest items; nothing if there are exactly n.
GetSomeShort(s, n) ==
  LET k == IF Len(s) < n THEN Len(s) ELSE n
  IN  [items |-> SubSeq(s, 1, k), left |-> Rest(s, k)]

GetSomeCopies(s, n) ==
  [items |-> IF Len(s) < n THEN <<>> ELSE SubSeq(s, 1, n), left |-> s]

GetSomeNewest(s, n) ==
  IF Len(s) < n
    THEN [items |-> <<>>, left |-> s]
    ELSE [items |-> Rest(s, Len(s) - n), left |-> SubSeq(s, 1, Len(s) - n)]

GetSomeMoreThan(s, n) ==
  IF Len(s) <= n
    THEN [items |-> <<>>, left |-> s]
    ELSE [items |-> SubSeq(s, 1, n), left |-> Rest(s, n)]

\* What getSome(n) returns and what it leaves.
GetSome(s, n) ==
  IF Len(s) < n
    THEN [items |-> <<>>, left |-> s]
    ELSE [items |-> SubSeq(s, 1, n), left |-> Rest(s, n)]

\* The locked region of the loop.  The caller's copy of the size may be out
\* of date: another caller, or _create_pc, may have emptied the buffer since.
\* getSome then returns nothing and the loop's test sees the new size.
TakeFrame(t) ==
  /\ pc[t] = "loop" /\ input_data_size[t] >= FRAME
  /\ LET got == GetSome(input_data, FRAME)
     IN  /\ pcm_data' = [pcm_data EXCEPT ![t] = got.items]
         /\ input_data' = got.left
         /\ pc' = [pc EXCEPT ![t] = IF got.items = <<>> THEN "loop" ELSE "encode"]
  /\ input_data_size' = [input_data_size EXCEPT ![t] = Len(input_data')]
  /\ UNCHANGED <<fed, encoded_data, wire, encoder>>

\* encodeFloat, without a lock.  A failed encoding leaves the 4000 bytes the
\* vector was sized to.  Without an encoder it crashes, and it may if another
\* caller is in the encoder too.
Encode(t) ==
  /\ pc[t] = "encode"
  /\ \E result \in {"packet", "garbage", "none"} :
       encoded_data' = [encoded_data EXCEPT ![t] = result]
  /\ pc' = [pc EXCEPT ![t] = "send"]
  /\ \/ m_encoder = "none" /\ crashed' = TRUE
     \/ m_encoder = "ready" /\ crashed' \in {FALSE, \E u \in Threads \ {t} : pc[u] = "encode"}
  /\ UNCHANGED <<input_data, fed, input_data_size, pcm_data, wire, m_encoder, creating>>

\* pionSendTrackDataPacket, unless there is nothing to send; both vectors go
\* out of scope.
Transmit(t) ==
  /\ pc[t] = "send"
  /\ wire' = IF encoded_data[t] = "none" THEN wire
             ELSE Append(wire, [by |-> t, pcm |-> pcm_data[t]])
  /\ pcm_data' = [pcm_data EXCEPT ![t] = <<>>]
  /\ encoded_data' = [encoded_data EXCEPT ![t] = "none"]
  /\ pc' = [pc EXCEPT ![t] = "loop"]
  /\ UNCHANGED <<input_data, fed, input_data_size, encoder>>

\* Seeded fault: the call ends whatever is left.
ReturnEarly(t) ==
  /\ pc[t] = "loop"
  /\ pc' = [pc EXCEPT ![t] = "idle"]
  /\ UNCHANGED <<input_data, fed, input_data_size, pcm_data, encoded_data, wire, encoder>>

\* The loop's test fails.
Return(t) ==
  /\ pc[t] = "loop" /\ input_data_size[t] < FRAME
  /\ pc' = [pc EXCEPT ![t] = "idle"]
  /\ UNCHANGED <<input_data, fed, input_data_size, pcm_data, encoded_data, wire, encoder>>

\* _create_pc re-creates the encoder (Opus takes its 48000 Hz), which a caller
\* in encodeFloat may not survive.
InitEncoder ==
  /\ ~creating
  /\ creating' = TRUE
  /\ m_encoder' = "ready"
  /\ crashed' \in {FALSE, \E t \in Threads : pc[t] = "encode"}
  /\ UNCHANGED <<input_data, fed, pc, input_data_size, pcm_data, encoded_data, wire>>

\* The end of _create_pc: the buffer is cleared if there is a connection.
CreatePc ==
  /\ creating
  /\ input_data' \in {input_data, <<>>}
  /\ creating' = FALSE
  /\ UNCHANGED <<fed, pc, input_data_size, pcm_data, encoded_data, wire, m_encoder, crashed>>

Step(t) == TakeFrame(t) \/ Encode(t) \/ Transmit(t) \/ Return(t)

Next ==
  /\ ~crashed
  /\ \/ \E t \in Threads, n \in Chunks : SendAudioPacket(t, n)
     \/ \E t \in Threads : Step(t)
     \/ InitEncoder \/ CreatePc

Spec == Init /\ [][Next]_vars

\* A call that has started goes on.  Nothing makes a thread start one.
FairSpec == Spec /\ \A t \in Threads : WF_vars(~crashed /\ Step(t))

-----------------------------------------------------------------------------
\* The types; the buffer never outgrows its capacity.
TypeOK ==
  /\ input_data \in Seq(Nat) /\ Len(input_data) <= SIZE
  /\ fed \in Nat
  /\ pc \in [Threads -> {"idle", "loop", "encode", "send"}]
  /\ input_data_size \in [Threads -> 0 .. SIZE]
  /\ pcm_data \in [Threads -> Seq(Nat)]
  /\ encoded_data \in [Threads -> {"packet", "garbage", "none"}]
  /\ wire \in Seq([by : Threads, pcm : Seq(Nat)])
  /\ m_encoder \in {"none", "ready"}
  /\ creating \in BOOLEAN
  /\ crashed \in BOOLEAN

\* The frames taken so far that are in a caller's hands or on the wire.
InFlight == {t \in Threads : pc[t] \in {"encode", "send"}}

\* What is encoded is always FRAME samples that followed one another in the
\* input, whichever samples are overwritten, cleared or taken by another
\* caller between the test of the size and the taking.
WholeFrames ==
  \A t \in InFlight :
    /\ Len(pcm_data[t]) = FRAME
    /\ \A i \in 1 .. FRAME : pcm_data[t][i] = pcm_data[t][1] + i - 1

\* No sample is sent twice, or taken by two callers, or taken and still there.
NoSampleTwice ==
  LET Sent == {<<"wire", w>> : w \in DOMAIN wire}
      Held == {<<"call", t>> : t \in InFlight}
      First(f) == IF f[1] = "wire" THEN wire[f[2]].pcm[1] ELSE pcm_data[f[2]][1]
  IN  /\ \A f, g \in Sent \cup Held :
           f # g => First(f) + FRAME <= First(g) \/ First(g) + FRAME <= First(f)
      /\ \A f \in Sent \cup Held, i \in DOMAIN input_data :
           input_data[i] < First(f) \/ First(f) + FRAME <= input_data[i]

\* A caller's packets leave in the order of their samples.  (Packets of two
\* callers may overtake each other: encoding and sending run unlocked.)
InOrderPerCaller ==
  /\ \A i, j \in DOMAIN wire :
       i < j /\ wire[i].by = wire[j].by => wire[i].pcm[1] < wire[j].pcm[1]
  /\ \A i \in DOMAIN wire, t \in InFlight :
       wire[i].by = t => wire[i].pcm[1] < pcm_data[t][1]

\* When no call is in progress less than a frame is waiting: the last caller
\* out cannot miss what another one added while both were at work.
DrainedAtRest ==
  (\A t \in Threads : pc[t] = "idle") => Len(input_data) < FRAME

\* The callers that will look at the buffer again before they return.
Draining == {t \in Threads : pc[t] # "idle" /\ input_data_size[t] >= FRAME}

\* The backlog is never more than an incomplete frame and one chunk for each
\* caller at work.
BacklogBounded == Len(input_data) <= FRAME - 1 + MaxChunk * Cardinality(Draining)

\* With room for an incomplete frame and a chunk of every caller, no sample is
\* ever overwritten.
Headroom == FRAME - 1 + MaxChunk * Cardinality(Threads) <= SIZE

NothingOverwritten ==
  [][fed' > fed => Len(input_data') = Len(input_data) + (fed' - fed)]_vars

\* Once the feeding stops every call returns, unless the encoder crashes.
CallsReturn == \A t \in Threads : pc[t] # "idle" ~> pc[t] = "idle" \/ crashed
=============================================================================
