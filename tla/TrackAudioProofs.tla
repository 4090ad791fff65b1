-------------------------- MODULE TrackAudioProofs --------------------------
(***************************************************************************)
(* Theorems about TrackAudio, for any number of tracks and packets, any    *)
(* capacity of the ring and any length of a frame.  What the operations of *)
(* the ring do to its contents is taken from CircularBufferProofs.         *)
(***************************************************************************)
EXTENDS TrackAudio, TLAPS

-----------------------------------------------------------------------------
(* The ring of TrackAudioData *)

WellFormed(r) == r \in Ring!Ring /\ (r.full => r.write_pos = r.read_pos)

\* The module of CircularBuffer's proofs, about this ring.
Buffer ==
  INSTANCE CircularBufferProofs WITH
    T <- TrackAudioData, Blank <- [ssrc |-> NoTrack, pcmData |-> NoFrame],
    Spans <- {}, Counts <- {}, cb <- audio_buffer, pending <- <<>>, want <- 0,
    out <- audio_frame

LEMMA NoFrameIsFrame ==
  NoFrame \in PcmDataFloat /\ [ssrc |-> NoTrack, pcmData |-> NoFrame] \in TrackAudioData
  BY BoundAssumption DEF NoFrame, PcmDataFloat, TrackAudioData

LEMMA NoCalls == {} \subseteq Seq(TrackAudioData) /\ {} \subseteq Nat
  OBVIOUS

LEMMA SameRing == \A r : WellFormed(r) <=> Buffer!WellFormed(r)
  BY DEF WellFormed, Buffer!WellFormed, Ring!Ring, Buffer!Ring, Ring!Slots, Buffer!Slots

LEMMA SameContents ==
  \A r : Ring!Contents(r) = Buffer!Contents(r) /\ Ring!Size(r) = Buffer!Size(r)
  BY DEF Ring!Contents, Buffer!Contents, Ring!Size, Buffer!Size, Ring!Ahead, Buffer!Ahead

LEMMA NewRingIsEmpty == WellFormed(Ring!NewRing) /\ Ring!Contents(Ring!NewRing) = <<>>
<1>1. Ring!NewRing = Buffer!NewRing
  BY DEF Ring!NewRing, Buffer!NewRing, Ring!Slots, Buffer!Slots
<1>. QED
  BY <1>1, SameRing, SameContents, Buffer!NewRingIsEmpty, NoFrameIsFrame, NoCalls,
     SizeAssumption

LEMMA AddAppends ==
  ASSUME NEW r, WellFormed(r), NEW x \in TrackAudioData
  PROVE  /\ WellFormed(Ring!Add(r, x))
         /\ Ring!Contents(Ring!Add(r, x)) = Keep(Append(Ring!Contents(r), x))
         /\ r.buffer[r.write_pos] \in TrackAudioData
<1>1. Ring!Add(r, x) = Buffer!Add(r, x)
  BY DEF Ring!Add, Buffer!Add, Ring!PushBack, Buffer!PushBack, Ring!Ahead, Buffer!Ahead
<1>2. \A s : Keep(s) = Buffer!Keep(s)
  BY DEF Keep, Buffer!Keep
<1>3. r.buffer[r.write_pos] \in TrackAudioData
  BY DEF WellFormed, Ring!Ring
<1>4. /\ Buffer!WellFormed(Buffer!Add(r, x))
      /\ Buffer!Contents(Buffer!Add(r, x)) = Buffer!Keep(Append(Buffer!Contents(r), x))
  BY SameRing, Buffer!AddAppends, NoFrameIsFrame, NoCalls, SizeAssumption
<1>. QED
  BY <1>1, <1>2, <1>3, <1>4, SameRing, SameContents

LEMMA PopRemovesOldest ==
  ASSUME NEW r, WellFormed(r), ~Ring!IsEmpty(r)
  PROVE  /\ WellFormed(Ring!Pop(r))
         /\ Ring!Contents(r) # <<>>
         /\ Ring!Front(r) = Head(Ring!Contents(r))
         /\ Ring!Contents(Ring!Pop(r)) = Tail(Ring!Contents(r))
<1>1. /\ Ring!Pop(r) = Buffer!Pop(r) /\ Ring!Front(r) = Buffer!Front(r)
      /\ Ring!IsEmpty(r) <=> Buffer!IsEmpty(r)
  BY DEF Ring!Pop, Buffer!Pop, Ring!Front, Buffer!Front, Ring!IsEmpty, Buffer!IsEmpty,
         Ring!Ahead, Buffer!Ahead
<1>2. /\ Buffer!WellFormed(Buffer!Pop(r)) /\ Buffer!Contents(r) # <<>>
      /\ Buffer!Front(r) = Head(Buffer!Contents(r))
      /\ Buffer!Contents(Buffer!Pop(r)) = Tail(Buffer!Contents(r))
  BY <1>1, SameRing, Buffer!PopRemovesOldest, NoFrameIsFrame, NoCalls, SizeAssumption
<1>. QED
  BY <1>1, <1>2, SameRing, SameContents

LEMMA ContentsOfRing ==
  ASSUME NEW r, WellFormed(r)
  PROVE  /\ Ring!Contents(r) \in Seq(TrackAudioData)
         /\ Len(Ring!Contents(r)) <= SIZE
         /\ Ring!Contents(r) = <<>> <=> Ring!IsEmpty(r)
<1>1. Ring!IsEmpty(r) <=> Buffer!IsEmpty(r)
  BY DEF Ring!IsEmpty, Buffer!IsEmpty
<1>2. /\ Buffer!Contents(r) \in Seq(TrackAudioData)
      /\ Len(Buffer!Contents(r)) = Buffer!Size(r)
  BY SameRing, Buffer!ContentsOfRing, NoFrameIsFrame, NoCalls, SizeAssumption
<1>3. Buffer!Size(r) \in 0 .. SIZE /\ (Buffer!Size(r) = 0 <=> Buffer!IsEmpty(r))
  BY SameRing, Buffer!SizeBounds, NoFrameIsFrame, NoCalls, SizeAssumption
<1>. QED
  BY <1>1, <1>2, <1>3, SameContents, SizeAssumption

-----------------------------------------------------------------------------
(* What emit_track_data_signal makes of a frame.                            *)

\* Whatever the channels of the packet, each vector is of two samples that
\* decodeFloat wrote.
LEMMA VectorsAreArrays ==
  ASSUME NEW frame \in PcmDataFloat
  PROVE  Vectors(frame) \in PackedVector2Array
<1>1. FrameSize \in Nat
  BY FrameAssumption
<1>2. ASSUME NEW n \in 1 .. 2 * FrameSize PROVE Interleaved(frame)[n] \in Samples
  <2>1. (n + 1) \div 2 \in 1 .. FrameSize
    BY <1>1
  <2>. QED
    BY <2>1 DEF Interleaved, Samples
<1>. DEFINE left(j) == IF frame.channels = 1 THEN j ELSE 2 * j - 1
            right(j) == IF frame.channels = 1 THEN left(j) ELSE left(j) + 1
<1>3. ASSUME NEW j \in 1 .. FrameSize
      PROVE  left(j) \in 1 .. 2 * FrameSize /\ right(j) \in 1 .. 2 * FrameSize
  BY <1>1
<1>. HIDE DEF left, right
<1>4. \A j \in 1 .. FrameSize :
         [x |-> Interleaved(frame)[left(j)], y |-> Interleaved(frame)[right(j)]]
           \in [x : Samples, y : Samples]
  BY <1>2, <1>3
<1>5. Vectors(frame) =
        [j \in 1 .. FrameSize |->
           [x |-> Interleaved(frame)[left(j)], y |-> Interleaved(frame)[right(j)]]]
  BY DEF Vectors, left, right
<1>. QED
  BY <1>4, <1>5 DEF PackedVector2Array

-----------------------------------------------------------------------------
(* Type correctness.  Inductive together with what emit_track_data_signal   *)
(* relies on, that there is a frame when it emits, with the meaning of the  *)
(* ring's "full", and with what the samples of the signals are of.          *)

FrameTaken == polling => audio_frame # <<>>

SignalsHeard ==
  /\ DOMAIN godot_data = DOMAIN emitted
  /\ \A i \in DOMAIN emitted : godot_data[i] = Vectors(emitted[i].pcmData)

TypeInv == TypeOK /\ WellFormed(audio_buffer) /\ FrameTaken /\ SignalsHeard

LEMMA InitEstablishesTypeInv == Init => TypeInv
<1>. SUFFICES ASSUME Init PROVE TypeInv
  OBVIOUS
<1>1. WellFormed(audio_buffer) /\ audio_buffer \in Ring!Ring
  BY NewRingIsEmpty DEF Init, WellFormed
<1>2. /\ audio_frame \in Seq(TrackAudioData) /\ emitted \in Seq(TrackAudioData)
      /\ Len(audio_frame) <= 1 /\ godot_data \in Seq(PackedVector2Array)
      /\ announced \in Tracks \cup {NoTrack} /\ godot_data = <<>> /\ emitted = <<>>
  BY DEF Init
<1>3. packets \in 0 .. MaxPackets /\ decoded_frame \in PcmDataFloat
  BY BoundAssumption, NoFrameIsFrame DEF Init
<1>4. opus_decoder \in [handle : {"none", "ready"}, channels : {0, 2}]
  BY DEF Init
<1>5. /\ pc \in [Tracks -> {"idle", "push"}]
      /\ polling \in BOOLEAN /\ crashed \in BOOLEAN /\ raced \in BOOLEAN
  BY DEF Init
<1>6. FrameTaken /\ SignalsHeard
  BY <1>2 DEF Init, FrameTaken, SignalsHeard
<1>. QED
  BY <1>1, <1>2, <1>3, <1>4, <1>5, <1>6 DEF TypeInv, TypeOK

LEMMA OnRemoteTrackKeepsType ==
  ASSUME TypeInv, NEW s \in Tracks, OnRemoteTrack(s)
  PROVE  TypeInv'
<1>1. opus_decoder' \in [handle : {"none", "ready"}, channels : {0, 2}]
  BY DEF OnRemoteTrack, DecoderInit
<1>2. /\ crashed' \in BOOLEAN /\ raced' \in BOOLEAN
      /\ announced' \in Tracks \cup {NoTrack}
  BY DEF OnRemoteTrack, TypeInv, TypeOK
<1>. QED
  BY <1>1, <1>2 DEF OnRemoteTrack, TypeInv, TypeOK, WellFormed, FrameTaken, SignalsHeard

\* What a decoding leaves behind; the numbers of the packets only grow.
LEMMA OnTrackDataDecodes ==
  ASSUME TypeInv, NEW s \in Tracks, NEW chan \in 1 .. 2, NEW decodes \in BOOLEAN,
         OnTrackData(s, chan, decodes)
  PROVE  /\ packets' \in 1 .. MaxPackets /\ packets' = packets + 1
         /\ decoded_frame' \in PcmDataFloat
         /\ pc' \in [Tracks -> {"idle", "push"}]
         /\ \/ /\ pc' = [pc EXCEPT ![s] = "push"]
               /\ decoded_frame'.id = packets' /\ decoded_frame'.from = s
            \/ pc' = [pc EXCEPT ![s] = "idle"]
<1>. DEFINE ok == /\ chan <= opus_decoder.channels /\ opus_decoder.handle = "ready"
                  /\ decodes
<1>1. packets' \in 1 .. MaxPackets /\ packets' = packets + 1
  BY BoundAssumption DEF OnTrackData, TypeInv, TypeOK
<1>2. pc' \in [Tracks -> {"idle", "push"}]
  BY DEF OnTrackData, TypeInv, TypeOK
<1>3. CASE ok
  <2>1. /\ decoded_frame' = [id |-> packets', from |-> s, channels |-> chan]
        /\ pc' = [pc EXCEPT ![s] = "push"]
    BY <1>3 DEF OnTrackData
  <2>2. decoded_frame' \in PcmDataFloat
    BY <1>1, <2>1, BoundAssumption DEF PcmDataFloat
  <2>. QED
    BY <1>1, <1>2, <2>1, <2>2
<1>4. CASE ~ok
  <2>1. /\ decoded_frame' = [decoded_frame EXCEPT !.id = 0]
        /\ pc' = [pc EXCEPT ![s] = "idle"]
    BY <1>4 DEF OnTrackData
  <2>2. decoded_frame' \in PcmDataFloat
    <3>1. decoded_frame \in PcmDataFloat /\ 0 \in 0 .. MaxPackets
      BY BoundAssumption DEF TypeInv, TypeOK
    <3>. QED
      BY <2>1, <3>1 DEF PcmDataFloat
  <2>. QED
    BY <1>1, <1>2, <2>1, <2>2
<1>. QED
  BY <1>3, <1>4

LEMMA OnTrackDataKeepsType ==
  ASSUME TypeInv, NEW s \in Tracks, NEW chan \in 1 .. 2, NEW decodes \in BOOLEAN,
         OnTrackData(s, chan, decodes)
  PROVE  TypeInv'
<1>1. packets' \in 0 .. MaxPackets /\ decoded_frame' \in PcmDataFloat
      /\ pc' \in [Tracks -> {"idle", "push"}]
  BY OnTrackDataDecodes, BoundAssumption
<1>2. crashed' \in BOOLEAN /\ raced' \in BOOLEAN
      /\ UNCHANGED <<audio_buffer, opus_decoder, polling, audio_frame, announced,
                     emitted, godot_data>>
  BY DEF OnTrackData, TypeInv, TypeOK
<1>. QED
  BY <1>1, <1>2 DEF TypeInv, TypeOK, WellFormed, FrameTaken, SignalsHeard

LEMMA OnTrackDataRaceKeepsType ==
  ASSUME TypeInv, NEW s \in Tracks, NEW chan \in 1 .. 2, OnTrackDataRace(s, chan)
  PROVE  TypeInv'
<1>1. packets' \in 0 .. MaxPackets
  BY BoundAssumption DEF OnTrackDataRace, TypeInv, TypeOK
<1>2. decoded_frame' \in PcmDataFloat
  BY BoundAssumption DEF OnTrackDataRace, PcmDataFloat, NoFrame
<1>3. crashed' \in BOOLEAN /\ raced' \in BOOLEAN /\ pc' \in [Tracks -> {"idle", "push"}]
      /\ UNCHANGED <<audio_buffer, opus_decoder, polling, audio_frame, announced,
                     emitted, godot_data>>
  BY DEF OnTrackDataRace, TypeInv, TypeOK
<1>. QED
  BY <1>1, <1>2, <1>3 DEF TypeInv, TypeOK, WellFormed, FrameTaken, SignalsHeard

\* The frame a callback pushes, and what the ring holds then.
LEMMA PushFramePushes ==
  ASSUME TypeInv, NEW s \in Tracks, PushFrame(s)
  PROVE  /\ [ssrc |-> s, pcmData |-> decoded_frame] \in TrackAudioData
         /\ WellFormed(audio_buffer)'
         /\ Ring!Contents(audio_buffer)' =
              Keep(Append(Ring!Contents(audio_buffer),
                          [ssrc |-> s, pcmData |-> decoded_frame]))
         /\ decoded_frame' \in PcmDataFloat
<1>1. PICK x \in TrackAudioData : x = [ssrc |-> s, pcmData |-> decoded_frame]
  BY DEF TypeInv, TypeOK, TrackAudioData
<1>2. audio_buffer' = Ring!Add(audio_buffer, x)
  BY <1>1 DEF PushFrame
<1>3. decoded_frame' \in PcmDataFloat
  BY AddAppends, <1>1 DEF PushFrame, TypeInv, TrackAudioData
<1>4. /\ WellFormed(Ring!Add(audio_buffer, x))
      /\ Ring!Contents(Ring!Add(audio_buffer, x)) = Keep(Append(Ring!Contents(audio_buffer), x))
  BY AddAppends DEF TypeInv
<1>. QED
  BY <1>1, <1>2, <1>3, <1>4

LEMMA PushFrameKeepsType ==
  ASSUME TypeInv, NEW s \in Tracks, PushFrame(s)
  PROVE  TypeInv'
<1>1. WellFormed(audio_buffer)' /\ decoded_frame' \in PcmDataFloat
  BY PushFramePushes
<1>. QED
  BY <1>1 DEF PushFrame, TypeInv, TypeOK, WellFormed, FrameTaken, SignalsHeard

\* The frame emit_track_data_signal takes, and what the ring holds then.
LEMMA PollTakes ==
  ASSUME TypeInv, Poll
  PROVE  /\ WellFormed(audio_buffer)'
         /\ \/ /\ Ring!Contents(audio_buffer) = <<>>
               /\ audio_frame' = <<>> /\ polling' = FALSE
               /\ Ring!Contents(audio_buffer)' = <<>>
            \/ /\ Ring!Contents(audio_buffer) # <<>>
               /\ audio_frame' = <<Head(Ring!Contents(audio_buffer))>> /\ polling' = TRUE
               /\ Ring!Contents(audio_buffer)' = Tail(Ring!Contents(audio_buffer))
<1>1. WellFormed(audio_buffer)
  BY DEF TypeInv
<1>2. CASE Ring!IsEmpty(audio_buffer)
  BY <1>1, <1>2, ContentsOfRing DEF Poll
<1>3. CASE ~Ring!IsEmpty(audio_buffer)
  <2>1. audio_buffer' = Ring!Pop(audio_buffer) /\ audio_frame' = <<Ring!Front(audio_buffer)>>
        /\ polling' = (audio_frame' # <<>>)
    BY <1>3 DEF Poll
  <2>2. \A x : <<x>> # <<>>
    OBVIOUS
  <2>3. polling' = TRUE
    BY <2>1, <2>2
  <2>. QED
    BY <1>1, <1>3, <2>1, <2>3, PopRemovesOldest
<1>. QED
  BY <1>2, <1>3

LEMMA PollKeepsType == ASSUME TypeInv, Poll PROVE TypeInv'
<1>1. PICK c \in Seq(TrackAudioData) : c = Ring!Contents(audio_buffer)
  BY ContentsOfRing DEF TypeInv
<1>2. audio_frame' \in Seq(TrackAudioData) /\ Len(audio_frame') <= 1
  <2>1. CASE c = <<>>
    BY <1>1, <2>1, PollTakes
  <2>2. CASE c # <<>>
    <3>1. audio_frame' = <<Head(c)>>
      BY <1>1, <2>2, PollTakes
    <3>2. Head(c) \in TrackAudioData
      BY <2>2
    <3>. QED
      BY <3>1, <3>2
  <2>. QED
    BY <2>1, <2>2
<1>3. WellFormed(audio_buffer)' /\ polling' \in BOOLEAN
  BY PollTakes
<1>4. FrameTaken'
  BY DEF Poll, FrameTaken
<1>. QED
  BY <1>2, <1>3, <1>4 DEF Poll, TypeInv, TypeOK, WellFormed, SignalsHeard

LEMMA EmitKeepsType == ASSUME TypeInv, EmitTrackData PROVE TypeInv'
<1>1. audio_frame \in Seq(TrackAudioData) /\ emitted \in Seq(TrackAudioData)
      /\ audio_frame # <<>> /\ godot_data \in Seq(PackedVector2Array)
  BY DEF TypeInv, TypeOK, FrameTaken, EmitTrackData
<1>2. PICK frame \in TrackAudioData : frame = audio_frame[1]
  BY <1>1
<1>3. Vectors(frame.pcmData) \in PackedVector2Array
  BY VectorsAreArrays DEF TrackAudioData
<1>4. emitted' \in Seq(TrackAudioData) /\ godot_data' \in Seq(PackedVector2Array)
  BY <1>1, <1>2, <1>3 DEF EmitTrackData
<1>5. SignalsHeard'
  <2>1. /\ emitted' = Append(emitted, frame)
        /\ godot_data' = Append(godot_data, Vectors(frame.pcmData))
    BY <1>2 DEF EmitTrackData
  <2>2. /\ DOMAIN godot_data = DOMAIN emitted
        /\ \A i \in DOMAIN emitted : godot_data[i] = Vectors(emitted[i].pcmData)
    BY DEF TypeInv, SignalsHeard
  <2>3. Len(godot_data) = Len(emitted)
    BY <1>1, <2>2
  <2>4. PICK e \in Seq(TrackAudioData), g \in Seq(PackedVector2Array) :
           e = emitted' /\ g = godot_data'
    BY <1>4
  <2>5. DOMAIN g = DOMAIN e /\ \A i \in DOMAIN e :
           \/ i \in DOMAIN emitted /\ e[i] = emitted[i] /\ g[i] = godot_data[i]
           \/ e[i] = frame /\ g[i] = Vectors(frame.pcmData)
    BY <1>1, <1>3, <2>1, <2>3, <2>4
  <2>. QED
    BY <2>2, <2>4, <2>5 DEF SignalsHeard
<1>. QED
  BY <1>4, <1>5 DEF EmitTrackData, TypeInv, TypeOK, WellFormed, FrameTaken, SignalsHeard

LEMMA NextKeepsType == TypeInv /\ [Next]_vars => TypeInv'
<1>. SUFFICES ASSUME TypeInv, [Next]_vars PROVE TypeInv'
  OBVIOUS
<1>1. CASE UNCHANGED vars
  BY <1>1 DEF vars, TypeInv, TypeOK, WellFormed, FrameTaken, SignalsHeard
<1>. QED
  BY <1>1, OnRemoteTrackKeepsType, OnTrackDataKeepsType, OnTrackDataRaceKeepsType,
     PushFrameKeepsType, PollKeepsType, EmitKeepsType
  DEF Next, Callback

\* The ring's fields are those of a ring, and emit_track_data_signal has the frame
\* that it took, whatever callbacks run meanwhile.
THEOREM TypeInvAlways == Spec => []TypeInv
  BY InitEstablishesTypeInv, NextKeepsType, PTL DEF Spec

\* The ring, the decoder and what is emitted keep their types, however the
\* callbacks interleave; a decoder, once Decoder::init made it, has two
\* channels.
THEOREM TypeCorrect == Spec => []TypeOK
<1>1. TypeInv => TypeOK
  BY DEF TypeInv
<1>. QED
  BY <1>1, TypeInvAlways, PTL

-----------------------------------------------------------------------------
(* The decoder: it is what the last onRemoteTrack made.                     *)

DecoderOfLast ==
  /\ announced = NoTrack => opus_decoder.channels = 0
  /\ announced # NoTrack => opus_decoder = DecoderInit(announced)

DecoderInv == NoNullDecode /\ DecoderOfLast

LEMMA NextKeepsDecoder == TypeInv /\ DecoderInv /\ [Next]_vars => DecoderInv'
<1>. SUFFICES ASSUME TypeInv, DecoderInv, [Next]_vars PROVE DecoderInv'
  OBVIOUS
<1>1. ASSUME NEW s \in Tracks, OnRemoteTrack(s) PROVE DecoderInv'
  <2>1. announced' = s /\ announced' # NoTrack /\ opus_decoder' = DecoderInit(s)
    BY <1>1, TracksAssumption DEF OnRemoteTrack
  <2>2. crashed' => raced'
    BY <1>1 DEF OnRemoteTrack
  <2>3. DecoderOfLast'
    BY <2>1 DEF DecoderOfLast, DecoderInit
  <2>. QED
    BY <2>2, <2>3 DEF DecoderInv, NoNullDecode
\* A packet of one channel or two is accepted only after some onRemoteTrack,
\* and finds no decoder only if Opus refused that one's track.
<1>2. ASSUME NEW s \in Tracks, NEW chan \in 1 .. 2, NEW decodes \in BOOLEAN,
             OnTrackData(s, chan, decodes)
      PROVE  DecoderInv'
  <2>1. /\ crashed' = (chan <= opus_decoder.channels /\ opus_decoder.handle = "none")
        /\ opus_decoder' = opus_decoder /\ announced' = announced
    BY <1>2 DEF OnTrackData
  <2>2. ASSUME crashed' PROVE announced # NoTrack
    <3>1. chan <= opus_decoder.channels
      BY <2>1, <2>2, Zenon
    <3>2. opus_decoder.channels # 0
      BY <3>1 DEF TypeInv, TypeOK
    <3>. QED
      BY <3>2 DEF DecoderInv, DecoderOfLast
  <2>3. ASSUME crashed' PROVE announced \in Tracks \ Opus
    <3>1. announced \in Tracks /\ opus_decoder = DecoderInit(announced)
      BY <2>2, <2>3 DEF DecoderInv, DecoderOfLast, TypeInv, TypeOK
    <3>2. opus_decoder.handle = "none"
      BY <2>1, <2>3
    <3>. QED
      BY <3>1, <3>2 DEF DecoderInit
  <2>. QED
    BY <2>1, <2>3 DEF DecoderInv, NoNullDecode, DecoderOfLast, DecoderInit
<1>3. ASSUME NEW s \in Tracks, NEW chan \in 1 .. 2, OnTrackDataRace(s, chan)
      PROVE  DecoderInv'
  BY <1>3 DEF OnTrackDataRace, DecoderInv, NoNullDecode, DecoderOfLast, DecoderInit
<1>4. ASSUME NEW s \in Tracks, PushFrame(s) PROVE DecoderInv'
  BY <1>4 DEF PushFrame, DecoderInv, NoNullDecode, DecoderOfLast, DecoderInit
<1>5. ASSUME Poll PROVE DecoderInv'
  BY <1>5 DEF Poll, DecoderInv, NoNullDecode, DecoderOfLast, DecoderInit
<1>6. ASSUME EmitTrackData PROVE DecoderInv'
  BY <1>6 DEF EmitTrackData, DecoderInv, NoNullDecode, DecoderOfLast, DecoderInit
<1>7. CASE UNCHANGED vars
  BY <1>7 DEF vars, DecoderInv, NoNullDecode, DecoderOfLast, DecoderInit
<1>. QED
  BY <1>1, <1>2, <1>3, <1>4, <1>5, <1>6, <1>7 DEF Next, Callback

\* Whichever tracks Opus refuses: as long as no callbacks overlap, decodeFloat
\* runs without a decoder only when the last track announced is one of those,
\* however packets and calls of onRemoteTrack follow one another.
THEOREM OnlyRefusedTracksCrash == Spec => []NoNullDecode
<1>1. Init => DecoderInv
  BY DEF Init, DecoderInv, NoNullDecode, DecoderOfLast
<1>2. DecoderInv => NoNullDecode
  BY DEF DecoderInv
<1>. QED
  BY <1>1, <1>2, NextKeepsDecoder, TypeInvAlways, PTL DEF Spec

-----------------------------------------------------------------------------
(* The ring, with the callbacks and the poll around it, is the lossy queue. *)

LEMMA InitRefines == Init => Queue!Init
  BY NewRingIsEmpty DEF Init, Queue!Init

LEMMA NextRefines == TypeInv /\ [Next]_vars => [Queue!Next]_Queue!vars
<1>. SUFFICES ASSUME TypeInv, [Next]_vars
              PROVE  \/ Queue!Next
                     \/ /\ Ring!Contents(audio_buffer)' = Ring!Contents(audio_buffer)
                        /\ audio_frame' = audio_frame
  BY DEF Queue!vars
<1>1. ASSUME NEW s \in Tracks, PushFrame(s) PROVE Queue!Next
  <2>1. PICK x \in [ssrc : Tracks, pcmData : PcmDataFloat] :
           Ring!Contents(audio_buffer)' = Keep(Append(Ring!Contents(audio_buffer), x))
    BY <1>1, PushFramePushes DEF TypeInv, TypeOK
  <2>2. audio_frame' = audio_frame
    BY <1>1 DEF PushFrame
  <2>. QED
    BY <2>1, <2>2 DEF Queue!Next, Queue!AddItem, Queue!Keep, Keep
<1>2. ASSUME Poll PROVE Queue!Next
  BY <1>2, PollTakes DEF Queue!Next, Queue!Get
<1>3. CASE audio_buffer' = audio_buffer /\ audio_frame' = audio_frame
  BY <1>3
<1>4. ASSUME NEW s \in Tracks,
             \/ OnRemoteTrack(s)
             \/ \E chan \in 1 .. 2, decodes \in BOOLEAN : OnTrackData(s, chan, decodes)
             \/ \E chan \in 1 .. 2 : OnTrackDataRace(s, chan)
      PROVE  audio_buffer' = audio_buffer /\ audio_frame' = audio_frame
  BY <1>4 DEF OnRemoteTrack, OnTrackData, OnTrackDataRace
<1>5. EmitTrackData => audio_buffer' = audio_buffer /\ audio_frame' = audio_frame
  BY DEF EmitTrackData
<1>6. UNCHANGED vars => audio_buffer' = audio_buffer /\ audio_frame' = audio_frame
  BY DEF vars
<1>. QED
  BY <1>1, <1>2, <1>3, <1>4, <1>5, <1>6 DEF Next, Callback

\* However the callbacks of the tracks interleave, and with races too,
\* audio_buffer is a FIFO queue of what they pushed that forgets only its
\* oldest frames, and emit_track_data_signal takes its oldest.
THEOREM Implementation == Spec => ImplementsLossyQueue
  BY InitRefines, NextRefines, TypeInvAlways, PTL DEF Spec, ImplementsLossyQueue, Queue!Spec

-----------------------------------------------------------------------------
(* What is emitted.  A frame is on its way in decoded_frame, in the ring,   *)
(* in audio_frame and among those emitted; as long as no two callbacks      *)
(* overlap, at most one callback has a frame in decoded_frame, the newest.  *)

\* Frames of packets, under their own tracks, in the order of the packets.
Faithful(s) ==
  /\ \A i \in DOMAIN s : s[i].pcmData.id > 0 /\ s[i].ssrc = s[i].pcmData.from
  /\ \A i, j \in DOMAIN s : i < j => s[i].pcmData.id < s[j].pcmData.id

\* All of s is older than all of t.
Before(s, t) ==
  \A i \in DOMAIN s, j \in DOMAIN t : s[i].pcmData.id < t[j].pcmData.id

\* All of s is of packets up to the n-th.
UpTo(s, n) == \A i \in DOMAIN s : s[i].pcmData.id <= n

\* The frame emit_track_data_signal has taken and not emitted yet.
Taken == IF polling THEN audio_frame ELSE <<>>

\* emitted, taken and buffered one after the other.
Ordered(e, t, b, n) ==
  /\ Faithful(e) /\ Faithful(t) /\ Faithful(b)
  /\ Before(e, t) /\ Before(e, b) /\ Before(t, b)
  /\ UpTo(e, n) /\ UpTo(t, n) /\ UpTo(b, n)

\* Only s's callback has a frame to push, that of the last packet.
OnlyPusher(s) ==
  /\ decoded_frame.id = packets /\ packets > 0 /\ decoded_frame.from = s
  /\ \A r \in Tracks \ {s} : pc[r] = "idle"

\* The last packet that may have left decoded_frame.
LastPushed == IF \E s \in Tracks : pc[s] = "push" THEN packets - 1 ELSE packets

OrderInv ==
  /\ Ordered(emitted, Taken, Ring!Contents(audio_buffer), LastPushed)
  /\ \A s \in Tracks : pc[s] = "push" => OnlyPusher(s)

EmittedInv == ~raced => OrderInv

LEMMA FrameNumbers == \A x \in TrackAudioData : x.pcmData.id \in Nat
  BY BoundAssumption DEF TrackAudioData, PcmDataFloat

LEMMA OrderedLater ==
  ASSUME NEW e \in Seq(TrackAudioData), NEW t \in Seq(TrackAudioData),
         NEW b \in Seq(TrackAudioData), NEW n \in Int, NEW m \in Int,
         Ordered(e, t, b, n), n <= m
  PROVE  Ordered(e, t, b, m)
<1>1. \A s \in Seq(TrackAudioData) : \A i \in DOMAIN s : s[i].pcmData.id \in Nat
  BY FrameNumbers
<1>2. \A s \in Seq(TrackAudioData) : UpTo(s, n) => UpTo(s, m)
  BY <1>1 DEF UpTo
<1>. QED
  BY <1>2 DEF Ordered

\* The ring forgets its oldest frame when a new one is pushed.
LEMMA OrderedDrop ==
  ASSUME NEW e \in Seq(TrackAudioData), NEW t \in Seq(TrackAudioData),
         NEW b \in Seq(TrackAudioData), b # <<>>, NEW n \in Int, Ordered(e, t, b, n)
  PROVE  Ordered(e, t, Tail(b), n)
<1>1. PICK d \in Seq(TrackAudioData) : d = Tail(b)
  <2>1. Tail(b) \in Seq(TrackAudioData)
    OBVIOUS
  <2>. QED
    BY <2>1
<1>2. ASSUME NEW i \in DOMAIN d
      PROVE  i + 1 \in DOMAIN b /\ d[i] = b[i + 1]
  BY <1>1
<1>3. \A i, j \in DOMAIN d : i < j => i + 1 < j + 1
  OBVIOUS
<1>4. Faithful(d)
  BY <1>2, <1>3 DEF Ordered, Faithful
<1>5. Before(e, d) /\ Before(t, d) /\ UpTo(d, n)
  BY <1>2 DEF Ordered, Before, UpTo
<1>. QED
  BY <1>1, <1>4, <1>5 DEF Ordered

LEMMA FaithfulAppend ==
  ASSUME NEW s \in Seq(TrackAudioData), NEW x \in TrackAudioData, Faithful(s),
         x.pcmData.id > 0, x.ssrc = x.pcmData.from,
         \A i \in DOMAIN s : s[i].pcmData.id < x.pcmData.id
  PROVE  Faithful(Append(s, x))
<1>1. PICK a : a = Append(s, x)
  OBVIOUS
<1>2. /\ DOMAIN a = 1 .. Len(s) + 1 /\ a[Len(s) + 1] = x
      /\ DOMAIN s = 1 .. Len(s) /\ Len(s) \in Nat
      /\ \A i \in 1 .. Len(s) : a[i] = s[i]
  BY <1>1
<1>3. \A i \in DOMAIN a : a[i].pcmData.id > 0 /\ a[i].ssrc = a[i].pcmData.from
  BY <1>2 DEF Faithful
<1>4. ASSUME NEW i \in DOMAIN a, NEW j \in DOMAIN a, i < j
      PROVE  a[i].pcmData.id < a[j].pcmData.id
  <2>1. i \in 1 .. Len(s) /\ (j \in 1 .. Len(s) \/ j = Len(s) + 1)
    BY <1>2, <1>4
  <2>. QED
    BY <1>2, <1>4, <2>1 DEF Faithful
<1>. QED
  BY <1>1, <1>3, <1>4 DEF Faithful

\* A frame younger than all there are is pushed.
LEMMA OrderedPush ==
  ASSUME NEW e \in Seq(TrackAudioData), NEW t \in Seq(TrackAudioData),
         NEW b \in Seq(TrackAudioData), NEW n \in Int, Ordered(e, t, b, n),
         NEW x \in TrackAudioData, x.pcmData.id > 0, x.ssrc = x.pcmData.from,
         x.pcmData.id = n + 1
  PROVE  Ordered(e, t, Append(b, x), n + 1)
<1>1. Ordered(e, t, b, n + 1)
  BY OrderedLater
<1>2. \A s \in Seq(TrackAudioData) : \A i \in DOMAIN s : s[i].pcmData.id \in Nat
  BY FrameNumbers
<1>3. ASSUME NEW s \in Seq(TrackAudioData), UpTo(s, n)
      PROVE  \A i \in DOMAIN s : s[i].pcmData.id < x.pcmData.id
  BY <1>2, <1>3 DEF UpTo
<1>4. Faithful(Append(b, x))
  BY <1>3, FaithfulAppend DEF Ordered
<1>5. PICK a : a = Append(b, x)
  OBVIOUS
<1>6. \A i \in DOMAIN a : (i \in DOMAIN b /\ a[i] = b[i]) \/ a[i] = x
  BY <1>5
<1>7. Before(e, a) /\ Before(t, a) /\ UpTo(a, n + 1)
  <2>1. (\A i \in DOMAIN e : e[i].pcmData.id < x.pcmData.id)
        /\ (\A i \in DOMAIN t : t[i].pcmData.id < x.pcmData.id)
    BY <1>3 DEF Ordered
  <2>2. x.pcmData.id <= n + 1
    OBVIOUS
  <2>. QED
    BY <1>1, <1>6, <2>1, <2>2 DEF Ordered, Before, UpTo
<1>. QED
  BY <1>1, <1>4, <1>5, <1>7 DEF Ordered

\* emit_track_data_signal takes the oldest frame.
LEMMA OrderedTake ==
  ASSUME NEW e \in Seq(TrackAudioData), NEW b \in Seq(TrackAudioData), b # <<>>,
         NEW n \in Int, Ordered(e, <<>>, b, n)
  PROVE  Ordered(e, <<Head(b)>>, Tail(b), n)
<1>1. Ordered(e, <<>>, Tail(b), n)
  <2>1. <<>> \in Seq(TrackAudioData)
    OBVIOUS
  <2>. QED
    BY <2>1, OrderedDrop
<1>2. PICK d, t : d = Tail(b) /\ t = <<Head(b)>>
  OBVIOUS
<1>3. /\ 1 \in DOMAIN b /\ DOMAIN t = {1} /\ t[1] = b[1]
      /\ \A i \in DOMAIN d : i + 1 \in DOMAIN b /\ d[i] = b[i + 1] /\ 1 < i + 1
  BY <1>2
<1>4. Faithful(t) /\ Before(e, t) /\ Before(t, d) /\ UpTo(t, n)
  <2>1. Faithful(b) /\ Before(e, b) /\ UpTo(b, n)
    BY DEF Ordered
  <2>2. Faithful(t)
    BY <1>3, <2>1 DEF Faithful
  <2>3. Before(e, t) /\ UpTo(t, n)
    BY <1>3, <2>1 DEF Before, UpTo
  <2>4. Before(t, d)
    BY <1>3, <2>1 DEF Faithful, Before
  <2>. QED
    BY <2>2, <2>3, <2>4
<1>. QED
  BY <1>1, <1>2, <1>4 DEF Ordered

\* It emits the frame it has taken.
LEMMA OrderedEmit ==
  ASSUME NEW e \in Seq(TrackAudioData), NEW x \in TrackAudioData,
         NEW b \in Seq(TrackAudioData), NEW n \in Int, Ordered(e, <<x>>, b, n)
  PROVE  Ordered(Append(e, x), <<>>, b, n)
<1>1. PICK t : t = <<x>>
  OBVIOUS
<1>2. DOMAIN t = {1} /\ t[1] = x
  BY <1>1
<1>3. /\ x.pcmData.id > 0 /\ x.ssrc = x.pcmData.from /\ x.pcmData.id <= n
      /\ \A i \in DOMAIN e : e[i].pcmData.id < x.pcmData.id
      /\ \A i \in DOMAIN b : x.pcmData.id < b[i].pcmData.id
  BY <1>1, <1>2 DEF Ordered, Faithful, Before, UpTo
<1>4. Faithful(Append(e, x))
  BY <1>3, FaithfulAppend DEF Ordered
<1>5. PICK a : a = Append(e, x)
  OBVIOUS
<1>6. \A i \in DOMAIN a : (i \in DOMAIN e /\ a[i] = e[i]) \/ a[i] = x
  BY <1>5
<1>7. Before(a, b) /\ UpTo(a, n)
  BY <1>3, <1>6 DEF Ordered, Before, UpTo
<1>8. Faithful(<<>>) /\ Before(a, <<>>) /\ Before(<<>>, b) /\ UpTo(<<>>, n)
  BY DEF Faithful, Before, UpTo
<1>. QED
  BY <1>4, <1>5, <1>7, <1>8 DEF Ordered

LEMMA SequencesOfFrames ==
  ASSUME TypeInv
  PROVE  /\ emitted \in Seq(TrackAudioData) /\ Taken \in Seq(TrackAudioData)
         /\ Ring!Contents(audio_buffer) \in Seq(TrackAudioData)
         /\ packets \in Nat /\ LastPushed \in Int
<1>1. packets \in Nat
  BY BoundAssumption DEF TypeInv, TypeOK
<1>. QED
  BY <1>1, ContentsOfRing DEF TypeInv, TypeOK, Taken, LastPushed

LEMMA InitEstablishesOrder == Init => EmittedInv
<1>. SUFFICES ASSUME Init PROVE OrderInv
  BY DEF EmittedInv
<1>1. emitted = <<>> /\ Taken = <<>> /\ Ring!Contents(audio_buffer) = <<>>
  BY NewRingIsEmpty DEF Init, Taken
<1>2. \A n : Ordered(<<>>, <<>>, <<>>, n)
  BY DEF Ordered, Faithful, Before, UpTo
<1>3. \A s \in Tracks : pc[s] # "push"
  BY DEF Init
<1>. QED
  BY <1>1, <1>2, <1>3 DEF OrderInv

\* Nothing of the frames' way changes.
LEMMA OrderUnchanged ==
  ASSUME EmittedInv, raced => raced',
         UNCHANGED <<audio_buffer, decoded_frame, packets, pc, polling, audio_frame, emitted>>
  PROVE  EmittedInv'
  BY DEF EmittedInv, OrderInv, OnlyPusher, Taken, LastPushed

\* A callback that overlaps no other starts when none is pushing.
LEMMA OnTrackDataKeepsOrder ==
  ASSUME TypeInv, EmittedInv, NEW s \in Tracks, NEW chan \in 1 .. 2, NEW decodes \in BOOLEAN,
         OnTrackData(s, chan, decodes)
  PROVE  EmittedInv'
<1>. SUFFICES ASSUME ~raced' PROVE OrderInv'
  BY DEF EmittedInv
<1>1. /\ ~raced /\ ~Racing(s) /\ pc[s] = "idle"
      /\ UNCHANGED <<audio_buffer, polling, audio_frame, emitted>>
  BY DEF OnTrackData
<1>2. pc \in [Tracks -> {"idle", "push"}]
  BY DEF TypeInv, TypeOK
<1>3. \A r \in Tracks : pc[r] = "idle"
  BY <1>1, <1>2 DEF Racing
<1>4. LastPushed = packets /\ packets \in Nat
  BY <1>3, SequencesOfFrames DEF LastPushed
<1>5. Ordered(emitted, Taken, Ring!Contents(audio_buffer), packets)
  BY <1>1, <1>4 DEF EmittedInv, OrderInv
<1>6. Taken' = Taken /\ Ring!Contents(audio_buffer)' = Ring!Contents(audio_buffer)
      /\ emitted' = emitted
  BY <1>1 DEF Taken
<1>7. CASE pc' = [pc EXCEPT ![s] = "push"] /\ decoded_frame'.id = packets'
           /\ decoded_frame'.from = s
  <2>1. packets' = packets + 1 /\ packets' > 0
    BY <1>4, OnTrackDataDecodes
  <2>2. pc'[s] = "push" /\ \A r \in Tracks \ {s} : pc'[r] = "idle"
    BY <1>2, <1>3, <1>7
  <2>3. LastPushed' = packets
    BY <1>4, <2>1, <2>2 DEF LastPushed
  <2>4. \A r \in Tracks : pc'[r] = "push" => r = s
    BY <2>2
  <2>5. OnlyPusher(s)'
    BY <1>7, <2>1, <2>2 DEF OnlyPusher
  <2>. QED
    BY <1>5, <1>6, <2>3, <2>4, <2>5 DEF OrderInv
<1>8. CASE pc' = [pc EXCEPT ![s] = "idle"]
  <2>1. packets' = packets + 1
    BY OnTrackDataDecodes
  <2>2. \A r \in Tracks : pc'[r] = "idle"
    BY <1>2, <1>3, <1>8
  <2>3. LastPushed' = packets + 1
    BY <2>1, <2>2 DEF LastPushed
  <2>4. Ordered(emitted, Taken, Ring!Contents(audio_buffer), packets + 1)
    BY <1>4, <1>5, SequencesOfFrames, OrderedLater
  <2>. QED
    BY <1>6, <2>2, <2>3, <2>4 DEF OrderInv
<1>. QED
  BY <1>7, <1>8, OnTrackDataDecodes

LEMMA PushFrameKeepsOrder ==
  ASSUME TypeInv, EmittedInv, NEW s \in Tracks, PushFrame(s)
  PROVE  EmittedInv'
<1>. SUFFICES ASSUME ~raced' PROVE OrderInv'
  BY DEF EmittedInv
<1>. DEFINE c == Ring!Contents(audio_buffer)
<1>1. /\ ~raced /\ pc[s] = "push" /\ pc' = [pc EXCEPT ![s] = "idle"]
      /\ UNCHANGED <<packets, polling, audio_frame, emitted>>
  BY DEF PushFrame
<1>2. OrderInv /\ OnlyPusher(s)
  BY <1>1 DEF EmittedInv, OrderInv
<1>3. PICK x \in TrackAudioData :
         /\ x = [ssrc |-> s, pcmData |-> decoded_frame]
         /\ Ring!Contents(audio_buffer)' = Keep(Append(c, x))
  BY PushFramePushes
<1>4. x.pcmData.id = packets /\ x.pcmData.id > 0 /\ x.ssrc = x.pcmData.from
  BY <1>2, <1>3 DEF OnlyPusher
<1>5. LastPushed = packets - 1 /\ packets \in Nat
  BY <1>1, SequencesOfFrames DEF LastPushed
<1>6. \A r \in Tracks : pc'[r] = "idle"
  BY <1>1, <1>2 DEF OnlyPusher, TypeInv, TypeOK
<1>7. LastPushed' = packets
  BY <1>1, <1>6 DEF LastPushed
<1>8. c \in Seq(TrackAudioData) /\ Len(c) <= SIZE
  BY ContentsOfRing DEF TypeInv
<1>. HIDE DEF c
<1>9. \A b \in Seq(TrackAudioData) :
         Ordered(emitted, Taken, b, packets - 1)
           => Ordered(emitted, Taken, Append(b, x), packets)
  <2>. SUFFICES ASSUME NEW b \in Seq(TrackAudioData),
                       Ordered(emitted, Taken, b, packets - 1)
                PROVE  Ordered(emitted, Taken, Append(b, x), packets)
    OBVIOUS
  <2>1. PICK n \in Int : n = packets - 1 /\ n + 1 = packets
    BY <1>5
  <2>2. emitted \in Seq(TrackAudioData) /\ Taken \in Seq(TrackAudioData)
    BY SequencesOfFrames
  <2>3. x.pcmData.id = n + 1
    BY <1>4, <2>1
  <2>. QED
    BY <1>4, <2>1, <2>2, <2>3, OrderedPush
<1>10. Ordered(emitted, Taken, c, packets - 1)
  BY <1>2, <1>5 DEF OrderInv, c
<1>11. Ordered(emitted, Taken, Keep(Append(c, x)), packets)
  <2>1. CASE Len(c) < SIZE
    <3>1. Keep(Append(c, x)) = Append(c, x)
      BY <1>8, <2>1, SizeAssumption DEF Keep
    <3>. QED
      BY <1>8, <1>9, <1>10, <3>1
  <2>2. CASE Len(c) = SIZE
    <3>1. c # <<>> /\ Tail(c) \in Seq(TrackAudioData)
      BY <1>8, <2>2, SizeAssumption
    <3>2. Keep(Append(c, x)) = Append(Tail(c), x)
      <4>1. Len(Append(c, x)) = SIZE + 1
        BY <1>8, <2>2
      <4>2. Keep(Append(c, x)) = SubSeq(Append(c, x), 2, SIZE + 1)
        BY <4>1, SizeAssumption DEF Keep
      <4>3. SubSeq(Append(c, x), 2, SIZE + 1) = Append(Tail(c), x)
        BY <1>8, <2>2, <3>1, SizeAssumption
      <4>. QED
        BY <4>2, <4>3
    <3>3. Ordered(emitted, Taken, Tail(c), packets - 1)
      BY <1>5, <1>8, <1>10, <3>1, SequencesOfFrames, OrderedDrop
    <3>. QED
      BY <1>9, <3>1, <3>2, <3>3
  <2>. QED
    BY <1>8, <2>1, <2>2, SizeAssumption
<1>12. Taken' = Taken /\ emitted' = emitted
  BY <1>1 DEF Taken
<1>. QED
  BY <1>3, <1>6, <1>7, <1>11, <1>12 DEF OrderInv

LEMMA PollKeepsOrder == ASSUME TypeInv, EmittedInv, Poll PROVE EmittedInv'
<1>. SUFFICES ASSUME ~raced' PROVE OrderInv'
  BY DEF EmittedInv
<1>1. /\ ~raced /\ Taken = <<>>
      /\ UNCHANGED <<decoded_frame, packets, pc, emitted>>
  BY DEF Poll, Taken
<1>2. OrderInv
  BY <1>1 DEF EmittedInv
<1>3. PICK c \in Seq(TrackAudioData) : c = Ring!Contents(audio_buffer)
  BY SequencesOfFrames
<1>4. LastPushed' = LastPushed
  BY <1>1 DEF LastPushed
<1>5. \A s \in Tracks : pc'[s] = "push" => OnlyPusher(s)'
  BY <1>1, <1>2 DEF OrderInv, OnlyPusher
<1>6. Ordered(emitted, <<>>, c, LastPushed)
  BY <1>1, <1>2, <1>3 DEF OrderInv
<1>7. CASE c = <<>>
  <2>1. Taken' = <<>> /\ Ring!Contents(audio_buffer)' = <<>>
    BY <1>3, <1>7, PollTakes DEF Taken
  <2>. QED
    BY <1>1, <1>4, <1>5, <1>6, <1>7, <2>1 DEF OrderInv
<1>8. CASE c # <<>>
  <2>1. Taken' = <<Head(c)>> /\ Ring!Contents(audio_buffer)' = Tail(c)
    BY <1>3, <1>8, PollTakes DEF Taken
  <2>2. Ordered(emitted, <<Head(c)>>, Tail(c), LastPushed)
    BY <1>6, <1>8, SequencesOfFrames, OrderedTake
  <2>. QED
    BY <1>1, <1>4, <1>5, <2>1, <2>2 DEF OrderInv
<1>. QED
  BY <1>7, <1>8

LEMMA EmitKeepsOrder == ASSUME TypeInv, EmittedInv, EmitTrackData PROVE EmittedInv'
<1>. SUFFICES ASSUME ~raced' PROVE OrderInv'
  BY DEF EmittedInv
<1>1. /\ ~raced /\ Taken = audio_frame /\ Taken' = <<>>
      /\ emitted' = Append(emitted, audio_frame[1])
      /\ UNCHANGED <<audio_buffer, decoded_frame, packets, pc>>
  BY DEF EmitTrackData, Taken
<1>2. OrderInv
  BY <1>1 DEF EmittedInv
<1>3. /\ audio_frame \in Seq(TrackAudioData) /\ Len(audio_frame) <= 1
      /\ audio_frame # <<>>
  BY DEF TypeInv, TypeOK, FrameTaken, EmitTrackData
<1>4. PICK x \in TrackAudioData : audio_frame = <<x>> /\ x = audio_frame[1]
  BY <1>3
<1>5. LastPushed' = LastPushed
  BY <1>1 DEF LastPushed
<1>6. \A s \in Tracks : pc'[s] = "push" => OnlyPusher(s)'
  BY <1>1, <1>2 DEF OrderInv, OnlyPusher
<1>7. Ordered(Append(emitted, x), <<>>, Ring!Contents(audio_buffer), LastPushed)
  BY <1>1, <1>2, <1>4, SequencesOfFrames, OrderedEmit DEF OrderInv
<1>. QED
  BY <1>1, <1>4, <1>5, <1>6, <1>7 DEF OrderInv

LEMMA NextKeepsOrder == TypeInv /\ EmittedInv /\ [Next]_vars => EmittedInv'
<1>. SUFFICES ASSUME TypeInv, EmittedInv, [Next]_vars PROVE EmittedInv'
  OBVIOUS
<1>1. ASSUME NEW s \in Tracks, OnRemoteTrack(s) PROVE EmittedInv'
  BY <1>1, OrderUnchanged DEF OnRemoteTrack
<1>2. ASSUME NEW s \in Tracks, NEW chan \in 1 .. 2, OnTrackDataRace(s, chan)
      PROVE  EmittedInv'
  BY <1>2 DEF OnTrackDataRace, EmittedInv
<1>3. CASE UNCHANGED vars
  BY <1>3, OrderUnchanged DEF vars
<1>. QED
  BY <1>1, <1>2, <1>3, OnTrackDataKeepsOrder, PushFrameKeepsOrder, PollKeepsOrder,
     EmitKeepsOrder
  DEF Next, Callback

\* The loop that fills godot_data takes each vector of a packet of two
\* channels from one sample of each, for frames of any length.
LEMMA VectorsOfTwoChannels ==
  ASSUME NEW frame \in PcmDataFloat, frame.channels = 2, NEW t \in 1 .. FrameSize
  PROVE  Vectors(frame)[t] =
           [x |-> [of |-> frame, at |-> t, side |-> "left"],
            y |-> [of |-> frame, at |-> t, side |-> "right"]]
<1>1. /\ FrameSize \in Nat /\ t \in Nat
      /\ 2 * t - 1 \in 1 .. 2 * FrameSize /\ 2 * t \in 1 .. 2 * FrameSize
      /\ 2 * t - 1 + 1 = 2 * t
  BY FrameAssumption
<1>2. /\ (2 * t) \div 2 = t /\ (2 * t + 1) \div 2 = t
      /\ (2 * t - 1) % 2 = 1 /\ (2 * t) % 2 = 0
  BY <1>1
<1>3. PICK m \in 1 .. 2 * FrameSize, n \in 1 .. 2 * FrameSize :
         /\ m = 2 * t - 1 /\ n = 2 * t /\ m + 1 = n
         /\ (m + 1) \div 2 = t /\ (n + 1) \div 2 = t /\ m % 2 = 1 /\ n % 2 = 0
  BY <1>1, <1>2
<1>4. /\ Interleaved(frame)[m] = [of |-> frame, at |-> t, side |-> "left"]
      /\ Interleaved(frame)[n] = [of |-> frame, at |-> t, side |-> "right"]
  BY <1>3 DEF Interleaved
<1>5. Vectors(frame)[t] = [x |-> Interleaved(frame)[m], y |-> Interleaved(frame)[n]]
  BY <1>3 DEF Vectors
<1>. QED
  BY <1>4, <1>5

\* As long as no two tracks' callbacks overlap, what track_data_received tells
\* is what was decoded, under its own track, in the order of the packets and
\* each frame once, although swap() hands emitted frames back to the decoder
\* and the ring forgets some; and a packet of two channels is heard whole.
THEOREM FaithfulSignals == Spec => []EmittedFaithfully
<1>1. TypeInv /\ EmittedInv => EmittedFaithfully
  <2>. SUFFICES ASSUME TypeInv, EmittedInv, ~raced, NEW i \in DOMAIN emitted
                PROVE  /\ emitted[i].pcmData.id > 0
                       /\ emitted[i].ssrc = emitted[i].pcmData.from
                       /\ \A j \in 1 .. i - 1 : emitted[j].pcmData.id < emitted[i].pcmData.id
                       /\ emitted[i].pcmData.channels = 2 =>
                            \A t \in 1 .. FrameSize :
                              godot_data[i][t] =
                                [x |-> [of |-> emitted[i].pcmData, at |-> t, side |-> "left"],
                                 y |-> [of |-> emitted[i].pcmData, at |-> t, side |-> "right"]]
    BY DEF EmittedFaithfully
  <2>0. godot_data[i] = Vectors(emitted[i].pcmData)
    BY DEF TypeInv, SignalsHeard
  <2>1. Faithful(emitted)
    BY DEF EmittedInv, OrderInv, Ordered
  <2>2. emitted \in Seq(TrackAudioData) /\ i \in 1 .. Len(emitted)
    BY SequencesOfFrames
  <2>3. emitted[i].pcmData \in PcmDataFloat
    <3>1. emitted[i] \in TrackAudioData
      BY <2>2
    <3>. QED
      BY <3>1 DEF TrackAudioData
  <2>4. \A j \in 1 .. i - 1 : j \in DOMAIN emitted /\ j < i
    BY <2>2
  <2>5. \A j \in 1 .. i - 1 : emitted[j].pcmData.id < emitted[i].pcmData.id
    BY <2>1, <2>4 DEF Faithful
  <2>. QED
    BY <2>0, <2>1, <2>3, <2>5, VectorsOfTwoChannels DEF Faithful
<1>. QED
  BY <1>1, InitEstablishesOrder, NextKeepsOrder, TypeInvAlways, PTL DEF Spec
=============================================================================
