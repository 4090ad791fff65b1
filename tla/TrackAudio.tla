----------------------------- MODULE TrackAudio -----------------------------
(***************************************************************************)
(* The receiving half of WebRTCLibPeerConnection: onRemoteTrack and        *)
(* onTrackData, called by Pion on a thread of each remote track, and       *)
(* emit_track_data_signal, called by _poll on the script's thread.  The    *)
(* callbacks share one Opus decoder and one decoded_frame, unlocked: what  *)
(* callbacks of two tracks do there at once is a data race, any of whose   *)
(* outcomes may follow, a crash among them.  audio_buffer_lock makes each  *)
(* use of audio_buffer one step.                                           *)
(* A decoded frame is named by the packet it came from: its number, its    *)
(* track and its channels; number 0 is a buffer that holds no frame.  Its  *)
(* samples are FrameSize pairs, left before right, for a packet of either  *)
(* number of channels: the decoder is made with two.                       *)
(***************************************************************************)
EXTENDS LossyQueueOps

CONSTANTS
  Tracks,       \* the synchronisation sources (ssrc) of the remote tracks
  Opus,         \* those whose sample rate opus_decoder_create accepts
  NoTrack,      \* the ssrc of a slot never written
  FrameSize,    \* samples of a frame, for each channel
  MaxPackets    \* bound: how many packets Pion ever delivers

ASSUME TracksAssumption == NoTrack \notin Tracks /\ Opus \subseteq Tracks
ASSUME BoundAssumption == MaxPackets \in Nat
ASSUME FrameAssumption == FrameSize \in Nat

PcmDataFloat ==
  [id : 0 .. MaxPackets, from : Tracks \cup {NoTrack}, channels : 0 .. 2]

NoFrame == [id |-> 0, from |-> NoTrack, channels |-> 0]

\* A sample of a frame: when it is heard, and from which channel.
Samples == [of : PcmDataFloat, at : 1 .. FrameSize, side : {"left", "right"}]

PackedVector2Array == [1 .. FrameSize -> [x : Samples, y : Samples]]

TrackAudioData == [ssrc : Tracks \cup {NoTrack}, pcmData : PcmDataFloat]

Ring ==
  INSTANCE CircularBufferOps WITH
    T <- TrackAudioData, Blank <- [ssrc |-> NoTrack, pcmData |-> NoFrame]

VARIABLES
  audio_buffer,     \* the ring, a record of CircularBufferOps
  decoded_frame,    \* what the last decoding, or swap, left
  opus_decoder,     \* its handle and m_channels
  packets,          \* how many packets were delivered
  pc,               \* where each track's callback is
  polling,          \* whether emit_track_data_signal has a frame to emit
  audio_frame,      \* the frame it took last, <<>> if none was there
  announced,        \* history: the track of the last onRemoteTrack, if any
  emitted,          \* the frames of the signals track_data_received, in order
  godot_data,       \* the samples each of these signals carried
  crashed,          \* a decoding without a decoder, or a race that ended so
  raced             \* history: callbacks have overlapped in the decoder

vars == <<audio_buffer, decoded_frame, opus_decoder, packets, pc, polling,
          audio_frame, announced, emitted, godot_data, crashed, raced>>

Init ==
  /\ audio_buffer = Ring!NewRing
  /\ decoded_frame = NoFrame
  /\ opus_decoder = [handle |-> "none", channels |-> 0]
  /\ packets = 0
  /\ pc = [s \in Tracks |-> "idle"]
  /\ polling = FALSE
  /\ audio_frame = <<>>
  /\ announced = NoTrack
  /\ emitted = <<>>
  /\ godot_data = <<>>
  /\ crashed = FALSE
  /\ raced = FALSE

\* Seeded fault: the new decoder is destroyed with the old one.
DecoderInitClosesLate(s) ==
  [handle |-> IF s \in Opus /\ opus_decoder.handle = "none" THEN "ready" ELSE "none",
   channels |-> 2]

\* Seeded fault: the decoder gets the channels of the track.
DecoderInitMono(s) == [handle |-> IF s \in Opus THEN "ready" ELSE "none", channels |-> 1]

\* Decoder::init(sample_rate, 2).  m_channels is set before the decoder is
\* known to exist.
DecoderInit(s) == [handle |-> IF s \in Opus THEN "ready" ELSE "none", channels |-> 2]

\* A callback of s may have overlapped the decoding of another track's.
Racing(s) == \E r \in Tracks \ {s} : pc[r] = "push"

OnRemoteTrack(s) ==
  /\ ~crashed /\ pc[s] = "idle"
  /\ opus_decoder' = DecoderInit(s)
  /\ announced' = s
  /\ crashed' \in IF Racing(s) THEN BOOLEAN ELSE {FALSE}
  /\ raced' = (raced \/ Racing(s))
  /\ UNCHANGED <<audio_buffer, decoded_frame, packets, pc, polling, audio_frame,
                 emitted, godot_data>>

\* onTrackData up to the lock: decodeFloat refuses a packet with more channels
\* than m_channels, then decodes into decoded_frame, whose samples are lost if
\* it fails; a failure ends the call.
OnTrackData(s, chan, decodes) ==
  /\ ~crashed /\ pc[s] = "idle" /\ packets < MaxPackets
  /\ packets' = packets + 1
  /\ LET accepted == chan <= opus_decoder.channels
         ok == accepted /\ opus_decoder.handle = "ready" /\ decodes
     IN  /\ crashed' = (accepted /\ opus_decoder.handle = "none")
         /\ decoded_frame' = IF ok THEN [id |-> packets', from |-> s, channels |-> chan]
                             ELSE [decoded_frame EXCEPT !.id = 0]
         /\ pc' = [pc EXCEPT ![s] = IF ok THEN "push" ELSE "idle"]
  /\ raced' = (raced \/ Racing(s))
  /\ UNCHANGED <<audio_buffer, opus_decoder, polling, audio_frame, announced,
                 emitted, godot_data>>

\* Two decodings at once in the one decoder and the one decoded_frame: a
\* frame of no packet, or a crash.
OnTrackDataRace(s, chan) ==
  /\ ~crashed /\ pc[s] = "idle" /\ packets < MaxPackets /\ Racing(s)
  /\ packets' = packets + 1
  /\ decoded_frame' = [NoFrame EXCEPT !.channels = chan]
  /\ crashed' \in BOOLEAN
  /\ pc' = [pc EXCEPT ![s] = "push"]
  /\ raced' = TRUE
  /\ UNCHANGED <<audio_buffer, opus_decoder, polling, audio_frame, announced,
                 emitted, godot_data>>

\* The locked region of onTrackData.  swap() leaves the old frame of the slot
\* in decoded_frame.
PushFrame(s) ==
  /\ ~crashed /\ pc[s] = "push"
  /\ audio_buffer' = Ring!Add(audio_buffer, [ssrc |-> s, pcmData |-> decoded_frame])
  /\ decoded_frame' = audio_buffer.buffer[audio_buffer.write_pos].pcmData
  /\ pc' = [pc EXCEPT ![s] = "idle"]
  /\ UNCHANGED <<opus_decoder, packets, polling, audio_frame, announced, emitted,
                 godot_data, crashed, raced>>

\* Seeded fault: the frame is left in the buffer.
PollLeavesFrame ==
  /\ ~crashed /\ ~polling
  /\ audio_frame' = IF Ring!IsEmpty(audio_buffer) THEN <<>>
                    ELSE <<Ring!Front(audio_buffer)>>
  /\ polling' = (audio_frame' # <<>>)
  /\ UNCHANGED <<audio_buffer, decoded_frame, opus_decoder, packets, pc, announced,
                 emitted, godot_data, crashed, raced>>

\* The locked region of emit_track_data_signal.
Poll ==
  /\ ~crashed /\ ~polling
  /\ IF Ring!IsEmpty(audio_buffer)
       THEN audio_frame' = <<>> /\ UNCHANGED audio_buffer
       ELSE /\ audio_frame' = <<Ring!Front(audio_buffer)>>
            /\ audio_buffer' = Ring!Pop(audio_buffer)
  /\ polling' = (audio_frame' # <<>>)
  /\ UNCHANGED <<decoded_frame, opus_decoder, packets, pc, announced, emitted,
                 godot_data, crashed, raced>>

\* What decodeFloat leaves in data: the samples of a frame, interleaved.
Interleaved(pcmData) ==
  [n \in 1 .. 2 * FrameSize |->
     [of |-> pcmData, at |-> (n + 1) \div 2, side |-> IF n % 2 = 1 THEN "left" ELSE "right"]]

\* Seeded fault: the step over the right sample is forgotten.
VectorsOverlap(pcmData) ==
  [j \in 1 .. FrameSize |-> [x |-> Interleaved(pcmData)[j], y |-> Interleaved(pcmData)[j + 1]]]

\* The loop that fills godot_data: one sample a vector for a packet of one
\* channel, two for one of two.
Vectors(pcmData) ==
  LET data == Interleaved(pcmData)
      Left(j) == IF pcmData.channels = 1 THEN j ELSE 2 * j - 1
      Right(j) == IF pcmData.channels = 1 THEN Left(j) ELSE Left(j) + 1
  IN  [j \in 1 .. FrameSize |-> [x |-> data[Left(j)], y |-> data[Right(j)]]]

\* Its loop and its emit_signal, unlocked.
EmitTrackData ==
  /\ ~crashed /\ polling
  /\ emitted' = Append(emitted, audio_frame[1])
  /\ godot_data' = Append(godot_data, Vectors(audio_frame[1].pcmData))
  /\ polling' = FALSE
  /\ UNCHANGED <<audio_buffer, decoded_frame, opus_decoder, packets, pc, audio_frame,
                 announced, crashed, raced>>

Callback(s) ==
  \/ OnRemoteTrack(s)
  \/ \E chan \in 1 .. 2, decodes \in BOOLEAN : OnTrackData(s, chan, decodes)
  \/ \E chan \in 1 .. 2 : OnTrackDataRace(s, chan)
  \/ PushFrame(s)

Next == (\E s \in Tracks : Callback(s)) \/ Poll \/ EmitTrackData

\* The game polls the connection in every frame, and a callback that has
\* decoded a frame goes on to push it; Pion owes nobody a packet.
Spec ==
  /\ Init /\ [][Next]_vars
  /\ WF_vars(Poll) /\ WF_vars(EmitTrackData)
  /\ \A s \in Tracks : WF_vars(PushFrame(s))

-----------------------------------------------------------------------------
\* The types; a decoder, once made, always has the two channels decodeFloat
\* compares every packet's with.
TypeOK ==
  /\ audio_buffer \in Ring!Ring
  /\ decoded_frame \in PcmDataFloat
  /\ opus_decoder \in [handle : {"none", "ready"}, channels : {0, 2}]
  /\ packets \in 0 .. MaxPackets
  /\ pc \in [Tracks -> {"idle", "push"}]
  /\ polling \in BOOLEAN
  /\ audio_frame \in Seq(TrackAudioData) /\ Len(audio_frame) <= 1
  /\ announced \in Tracks \cup {NoTrack}
  /\ emitted \in Seq(TrackAudioData)
  /\ godot_data \in Seq(PackedVector2Array)
  /\ crashed \in BOOLEAN
  /\ raced \in BOOLEAN

\* As long as no two tracks' callbacks overlap: every signal carries a frame
\* that was decoded, under the track it came on, in the order of the packets,
\* and no frame twice, although frames that were emitted come back into
\* decoded_frame through swap().  A packet of two channels is heard whole, each
\* side from its own channel and in time.
EmittedFaithfully ==
  ~raced =>
    \A i \in DOMAIN emitted :
      LET frame == emitted[i].pcmData
      IN  /\ frame.id > 0
          /\ emitted[i].ssrc = frame.from
          /\ \A j \in 1 .. i - 1 : emitted[j].pcmData.id < frame.id
          /\ frame.channels = 2 =>
               \A t \in 1 .. FrameSize :
                 godot_data[i][t] =
                   [x |-> [of |-> frame, at |-> t, side |-> "left"],
                    y |-> [of |-> frame, at |-> t, side |-> "right"]]

\* Only a track whose sample rate Opus refuses leaves packets without a decoder,
\* and only until the next track it takes: as long as no callbacks overlap, a
\* crash comes after an onRemoteTrack of such a track with none of another
\* since, whatever was announced before and however the packets mix.
NoNullDecode == crashed /\ ~raced => announced \in Tracks \ Opus

\* However the callbacks of several tracks interleave, audio_buffer is a FIFO
\* queue of what they pushed that forgets only its oldest frames.
Queue ==
  INSTANCE LossyQueue WITH
    T <- [ssrc : Tracks, pcmData : PcmDataFloat], Spans <- {}, Counts <- {},
    contents <- Ring!Contents(audio_buffer), out <- audio_frame

ImplementsLossyQueue == Queue!Spec

\* Once Pion delivers no more, polling empties the buffer, one frame a call.
EventuallyDrained == <>[](crashed \/ Ring!Size(audio_buffer) = 0)
=============================================================================
