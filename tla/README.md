# A TLA+ model of godot-webrtc-plugin

The plugin gives Godot scripts WebRTC through Pion's C library. It is small,
but three kinds of threads meet in one object: the script's thread, the
threads that feed audio, and Pion's own threads, which call back. This
directory models what happens where they meet, checks it with TLC on small
instances, and proves the central results with TLAPS for all of them. Paths
below are relative to the root of the repository; `PeerConnection.cpp` is
short for `src/WebRTCLibPeerConnection.cpp`.

## Inventory

| Component | State | Operations | What is hard | What makes it correct |
|---|---|---|---|---|
| `CircularBuffer` (`src/CircularBuffer.hpp`) | `buffer`, `write_pos`, `read_pos`, `full` | `add`, `add(Span)`, `push_back`, `get`, `getSome`, `clear` | positions that meet mean full or empty; wrap-around; overflow | it is a FIFO queue that forgets only its oldest elements; `getSome` is all or nothing |
| Sending audio (`send_audio_packet`, `OpusEncoder.cpp`) | `input_data`, a ring of 48000 samples, and its lock; the encoder | add samples; take, encode and send frames of 960 | callers on several threads; a size used after the unlock; `_create_pc` clears the ring and replaces the encoder under callers that are in it; overflow; encoding and sending unlocked | whole frames of consecutive samples, none twice, none left behind, calls return |
| Receiving audio (`onRemoteTrack`, `onTrackData`, `emit_track_data_signal`, `OpusDecoder.cpp`) | `opus_decoder`, `decoded_frame`, `audio_buffer` (16 frames) and its lock | re-create the decoder; decode and push; get and emit | failing decodings; frames recycled by `swap`; tracks racing; a track of a sample rate Opus refuses leaves no decoder | what is emitted was decoded, once, in order, under its track |
| Signal queue (`queue_signal`, `_poll`, `_close`) | `signal_queue`, `mutex_signal_queue` | queue, emit, drop | emptiness tested unlocked; handlers that poll, close, create offers or initialise; draining unlocked; a failed initialisation after which `_poll` and `_close` see no connection | each signal emitted or dropped exactly once, in order; nobody waits for himself |
| Connection lifecycle (`_init`, `_initialize`, `_create_pc`, `_close`, destructor) | `pionWebrtc`, `g_context`, the callbacks, Pion's one connection | create, re-create, close, delete | several objects share one global and one Pion connection; callbacks outlive objects; failures half-way | a callback reaches the object whose connection it belongs to, or none |
| Signalling (`_create_offer`, `_set_local_description`, `_set_remote_description`, `onLocalDescription`, state getters) | Pion's signalling state, descriptions in `signal_queue` | create an offer, take a description, announce one | the announced type is always `"offer"`; ignored calls; crossing offers; closed reported as `DISCONNECTED`; descriptions of a connection that is gone | the two peers end stable, with an offer and its answer; nothing of a closed connection is announced |
| ICE configuration (`parse_url`, `url_decode`, `IceServer`, `_parse_ice_server`) | `rtc::Configuration` | parse, hand to Pion | where a host ends; escapes; ports modulo 2^16; exceptions; pointers into a growing vector | what reaches Pion is what was configured |
| Data channels (`src/WebRTCLibDataChannel.cpp`) | `channel`, `packet_queue`, `current_packet`, `write_mode` | create, bind, `queue_packet`, get, put | a test before the lock; a pointer into `current_packet`; sends that do nothing | packets once and in order, pointers valid until the next get |
| Registration (`src/init_*.cpp`, `src/net/`) | a registered interface | forwarders | - | - |
| `WavWriter`, `utils.hpp` | a file; none | unused; log formatting | - | - |

Interactions: the script calls the object's methods and receives its signals
from inside `_poll`; Pion's threads call `onLocalDescription`, `onRemoteTrack`
and `onTrackDataCallback`, which reach the object through the global
`g_context`; audio threads call `send_audio_packet`. What they share is
`signal_queue`, `input_data` and `audio_buffer`, each with a mutex of its own,
and, without one, the encoder, the decoder and `decoded_frame`.

## Plan

In the order of importance:

1. The ring: `LossyQueueOps`, `LossyQueue` (what a ring promises),
   `CircularBufferOps`, `CircularBuffer` (the ring), with the refinement checked
   and proved (`CircularBufferProofs`).
2. `SendAudio`, which uses the ring through its abstract specification, with
   `SendAudioProofs`.
3. `TrackAudio`, which uses the ring itself (`CircularBufferOps`), with the
   conversion of samples to vectors; `TrackAudioProofs`.
4. `SignalQueue`, with `SignalQueueProofs`.
5. `Lifecycle`, with `LifecycleProofs`.
6. `PacketChannel` (abstract) and `DataChannel`, with `DataChannelProofs`.
7. `IceConfig` and `UrlDecode`, down to the characters of hosts and ports, with
   `IceConfigProofs`.
8. `Signalling`: two peers exchanging descriptions, with `SignallingProofs`.

All of it is done. Every invariant and every refinement that a run checks is a
theorem too; what could still be proved is how `EventuallyDrained` and the other
liveness properties follow from fairness, once the prover can do that.

## Modules

### The ring buffer

`CircularBufferOps` has the class's four fields as a record and an operator for
each member function. `CircularBuffer` puts an object under every sequence of
calls. The loops of `add(Span)` and `getSome()` run one iteration a step
(`AddSpanNext`, `GetSomeNext`), so that the evictions in the middle of a span
and the loop's own test of `isEmpty()` are states of the model. The class is
not thread-safe; its owners lock around each call, so a call starts when the
last one has returned. `LossyQueue` is the same interface on a plain sequence,
in one step a call. The refinement mapping counts a call in progress as done:
what is left of its span is already in the queue, what is still to be fetched
is already out.

### Sending audio

`SendAudio` has a program counter for each thread in `send_audio_packet`. An
action is a locked region or what runs between two of them:
`SendAudioPacket` (add, note the size), `TakeFrame` (getSome, note the size
again), `Encode`, `Transmit`, `Return`. Samples are numbered as they enter, so a frame
is a run of numbers and order, loss and duplication are visible. `_create_pc` is two
actions, at any moment: `InitEncoder` destroys the encoder and makes another,
`CreatePc` clears the ring. `Encode` leaves a packet, or the 4000 stale bytes that a
failed encoding leaves in the vector (`OpusEncoder.cpp:158`) and that are sent all the same,
or nothing; before the first `_create_pc` there is no encoder (`crashed`), and with another caller in the
encoder, or when `InitEncoder` destroys it under a caller, a crash is a further outcome. The ring is used through
`LossyQueueOps`, which is sound because `CircularBuffer` implements it.

### Receiving audio

`TrackAudio` names a decoded frame by its packet (number, track, channels), and
number 0 is a buffer without a decoded frame. `swap()` is modelled as it is: the slot's old frame goes
back into `decoded_frame`. `DecoderInit` closes the old decoder, sets the
channels, and has a decoder only if Opus accepts the sample rate (`Opus` is the set of tracks
for which it does, since `onRemoteTrack` looks neither at the kind nor at the rate of a track).
`OnTrackData` refuses too many channels, needs a decoder (`crashed` otherwise) and may fail.
With two tracks the decodings race: `OnTrackDataRace` and `OnRemoteTrack` then
have any outcome, a crash included, and the history variable `raced` remembers
that callbacks overlapped; `announced` remembers the last `onRemoteTrack`. `Poll` and
`EmitTrackData` are the two halves of `emit_track_data_signal`. `Interleaved` is what the decoder
leaves for a frame, left and right in turn, `Vectors` the loop that makes stereo vectors of it, by
the channels of the packet, and `godot_data` what each signal carried.

### The signal queue

`SignalQueue` gives the script's thread a stack of program points, because
handlers run inside `emit` and may call `poll`, `close`, `create_offer` and
`initialize` again. The tests of `signal_queue.empty()` are steps of their own, without
the lock. `CloseDrain` pops one signal a step, without the lock, as the code does.
`pionWebrtc` is what the object knows and `open` what Pion has: `CallInitialize` comes at any time,
and `CallInitializeFails` leaves `pionWebrtc` invalid, while Pion keeps its connection or closes
it. Then `_poll` refuses (line 811), and `_close` goes past `pionClosePeerConnection`
to the draining (line 835). If Pion kept the connection (`LeftOpen`), a push and a drain
can meet in the queue without the lock: a data race (`Overlap`), out of which the push may be lost, the
drain may find nothing, or the program may crash, and which the history variable `raced` remembers.
External, and assumed: `pionClosePeerConnection` returns when no callback runs,
and no callback starts until `initialize` has made a new connection; a
`pionCreatePeerConnection` that fails closes in the same way, or keeps what there was.

### Lifecycle

`Lifecycle` has the global `g_context`, Pion's one connection and several
objects. A callback takes `g_context` when it enters and works on that object
until it leaves. `New` and `Initialize` lead through `SetContext` to
`CreatePc` or `CreatePcFails`; `Close` stands for `_close` called by the script
or by the destructor, and waits in `Join` for running callbacks only if
`pionWebrtc` is not `PionErrorCodeInvalid`. `Return` resets neither `g_context`
nor `pionWebrtc`, as in the code. An initialisation whose configuration does
not parse changes nothing and is left out. What Pion does with an old connection
when it cannot make a new one is not in this repository: it is the constant
`FailedCreateCloses`.

### Data channels

`DataChannel` is one object: its creation from the script's options, or by the
script itself, unbound; the write mode and `put_packet`; and Pion's
`queue_packet` against the script's `get_packet`, whose emptiness test, lock and
pop are three steps. The pointer that `get_packet` gives away is a variable, which
says in which storage it points. `PacketChannel` is the queue that packets
go through. In this version `queue_packet` has no caller, for the registration
is commented out (`src/WebRTCLibDataChannel.cpp:84-101`): the receiving side is
checked as a class under the calls it is written for.

### ICE configuration

`IceConfig` is one call of `_initialize`, a step for each element of the array and
each URL in it, then for each `push_back` into `server_urls`. A vector is its block of memory, capacity and
items; a pointer to a string's characters is a block and an index, and dangles
if the vector has moved and the string keeps its characters in its object (`Fits`; every URL handed
to Pion ends in `?transport=...`, and only a string with room for 22 characters, libc++'s, keeps the
shortest of them).

A URL is its scheme and the characters of the parts it was put together from: slashes, a user, the host's
name, the service, and what comes after. The code sees them as one `Text` and cuts it again as the
regular expression at line 207 does: up to two slashes (`AfterSlashes`), whatever stands before an `@`
(`Authority`), a `Host` up to the next `:`, `/`, `?` or `#`, and a `Service` after a colon up to one of the
last three. Whether the code finds the parts again is what the properties ask.
What the URL was meant to name is kept beside it: host, port, and whether the host is an IPv6 address.
`UrlDecode` is `utils::url_decode` as a function on character codes. A URL that is refused throws
(`UrlThrows`), through `_initialize`: no host, no known scheme, a service that is no number or
a number that is no `unsigned long` (`MaxULong`). `Names` says which URLs have their parts in the places
that RFC 3986 gives them, with a host that is a name or an IPv4 address; every URL of a
configuration is assumed to be one of them or of an IPv6 address. A host may have a 0 in it from `%00`,
at which Pion's C string ends (`CString`).

### Signalling

`Signalling` is two games with a connection each. Descriptions are opaque: who made
them, on which connection, whether they are an offer or an answer, and to which
offer. The descriptions Pion has made wait in `described` for its callback
(`OnLocalDescription`), which queues them as `"offer"` whatever they are; `Poll` emits one,
and its handler does what Godot's documentation asks: it calls
`set_local_description`, which the code ignores, and sends the description. `wire` is the
way to the other game, which gives it to `set_remote_description`. `Initialize` and
`Close` happen at any time: a close waits for callbacks and empties the queue, a
re-initialisation leaves the queue alone and lets late callbacks come. Where Pion cannot make
a connection (`InitializeFails`), it closes the old one, or keeps it: then `Close` no longer reaches it
(line 835), the callbacks it owes still come, and `left_open` remembers it. External,
and assumed of Pion: it sees what a description is from the description itself (the code
passes no type), answers an offer by itself, and refuses what its state does not allow.
ICE candidates are inside the descriptions, so `add_ice_candidate`, which does
nothing, is not there.

## Runs

| Run | Instance | Shows |
|---|---|---|
| `circular_buffer` | 3 slots, 3 values, spans of 0 to 5, counts 0 to 4 | `TypeOK`, `FullWhereTheyMeet`, `ImplementsLossyQueue` |
| `send_audio_overflow` | 2 threads, frame 2, ring 4, chunks of 1 and 3, 7 samples | `TypeOK`, `WholeFrames`, `NoSampleTwice`, `InOrderPerCaller`, `DrainedAtRest`, `CallsReturn` with overflow, clearing and encoders replaced |
| `send_audio_headroom` | the same, ring 7, 9 samples | `BacklogBounded`, `NothingOverwritten` where the ring has room for a frame less one and a chunk per thread |
| `track_audio` | a track Opus takes and one it refuses, 2 slots, 4 packets, frames of 2 samples a side | `TypeOK`, `EmittedFaithfully`, `NoNullDecode`: only packets after the announcement of the refused track meet no decoder; `ImplementsLossyQueue` despite the races; `EventuallyDrained` |
| `lifecycle_closes` | 3 objects, 2 callbacks, a failed creation closes the connection | `TypeOK`, `ContextAlive`, `QuietAfterClose`, `CallbacksFindContext` |
| `lifecycle_keeps` | 2 objects, 1 callback, it leaves the connection | `ContextAlive` is violated |
| `data_channel` | 2 threads, 3 packets, 2 puts | `BufferStable`, `NoPopOfEmpty`, `ImplementsChannel`, no deadlock |
| `ice_config` | arrays of up to 3 servers, up to 5 URLs; one URL with any host of up to 3 characters, any of them escaped, or up to 4 unescaped; one URL with any mix of slashes, user, port, path, query and fragment; vectors that double | `PointersAlive`, `ToldAsConfigured`, `NamesTaken` |
| `ice_config_port` | the same with ports 65535 and 65537 | `PortsAsConfigured` is violated |
| `ice_config_ipv6` | the same with port 80 and IPv6 addresses | `IPv6LiteralsTaken` is violated |
| `signalling` | 2 games, 3 offers, 2 connections each, one of which may be refused a connection | `TypeOK`, `NegotiationCompletes`, `NothingOfClosed` |
| `signal_queue` | 2 callback threads, 4 signals, calls 4 deep, initialisations that fail | `TypeOK`, `ExactlyOnce`, `EmittedInOrder`, `NoPopOfEmpty`, `NoSelfLock`, `DrainUndisturbed`, `EventuallyHandled`, `CloseReturns`, no deadlock |

Bounds. Three slots are the least in which the positions can be apart in both
directions and full and empty; a span of five overwrites a part of itself. With
frames of two samples and chunks of one and three a call takes no, one or two
frames and leaves a remainder. 7 samples overflow a ring of 4, and two callers
each have frames in flight. Four packets go twice around a ring of two slots, so recycled
frames come back. Four signals let a nested poll take one between two of the
outer. With three objects one can be closed, one deleted and one bound while a
callback runs. Five URLs make the doubling vector full, grow and fill
again. The alphabet of hosts contains `%`, the digits that encode it and
a letter that is no digit; hosts of three characters hold an escape, four unescaped a `%`
before what is no escape or at the end. Three offers are two that cross and one after
starting over, for which each game has its second connection; the games are alike, so it is enough
that one of them is `Unlucky`. `MaxULong` is 999999 and not 2^64 - 1, so that a longer number is
still a number of TLC; `ShortString` is libc++'s 22, which holds the shortest URL. `MaxFed`, `MaxPackets`,
`MaxSignals`, `MaxDepth`, `MaxPuts`, `MaxOffers` and `MaxConnections` are the only counters
cut off; the runs with a cut that lets the system stop have `CHECK_DEADLOCK FALSE`.

Definitions marked "Seeded fault" are single mistakes put in the place of the
definition they precede; each property of each run is violated by one.

Fairness. `SendAudio`: a call that has begun goes on (threads are scheduled);
nothing makes a thread call. `TrackAudio`: the game polls, and a callback that has
decoded pushes; nothing makes Pion deliver a packet. `SignalQueue`: the script's calls and
handlers return, a callback that waits for the mutex gets it if it is free
again and again (strong fairness: `std::mutex` does not starve for ever in
practice), and the game polls again and again, as Godot's documentation of
`WebRTCPeerConnection` asks. Nothing makes it initialise again after a failure: what is queued
then stays queued, and `EventuallyHandled` says nothing of an object that never has a connection again. `Signalling`: Pion makes its callbacks, games poll, and what
a script sends arrives; nothing makes anyone offer, close, start over or connect.

### Where the code and its text disagree

- `lifecycle_keeps`. "Binding this should be fine as long as we call close when
  going out of scope" (`PeerConnection.cpp:876`). A failed re-initialisation
  writes `PionErrorCodeInvalid` over the valid `pionWebrtc` (line 958), and
  `_close` then closes nothing (line 835). If Pion kept the old connection, its
  callbacks go on into a deleted object. With `FailedCreateCloses` the comment is
  right, for any number of objects.
- `ice_config_port`. A port that is none is refused with "Invalid ICE server port
  in URL" (`PeerConnection.cpp:276`), except that 65537 becomes port 1 (line 273).
- `ice_config_ipv6`. "IPv6 literal", says `PeerConnection.cpp:260` of a host in brackets,
  and takes them off. The expression at line 207 ends a host at its first colon, so
  no IPv6 address gets there: `stun:[::1]` is refused, `stun:[2:4::5]` is taken for host
  `[2`, port 4.

Seen while modelling, but contradicted by no text of the repository, and
therefore only in the list of hazards: `put_packet` in binary mode (the default)
returns OK and sends nothing; the options of a channel are checked and dropped; a
failed encoding sends the buffer it left; two offers that cross are refused by both
ends while both scripts see OK; a mono packet's frame is played left and right in turn;
`PointersAlive` needs a vector that doubles (libstdc++, libc++), one that grows by half would move while
pointers into it are kept, which matters to strings of 22 characters; a track whose rate Opus refuses, a video
track for one, leaves no decoder, and its next packet crashes the program (`NoNullDecode`); after a failed
initialisation the queue is neither emitted nor, until the next close, dropped, and that close may race with
callbacks; a `%00` in a host ends the URL that Pion is told.

## Proofs

`CircularBufferProofs`, for every capacity, element type, set of spans and set of counts,
begins with what `Keep` and `Rest` do to sequences, for instance that keeping the newest
elements of what was kept is keeping the newest of all (`KeepKeep`). Then:

- `TypeCorrect`, `FullFlagCorrect`: from the inductive invariant `IInv`, which
  is `TypeOK` and `FullWhereTheyMeet` together. `FullWhereTheyMeet` is inductive by itself,
  `TypeOK` is not: the bound of `want` by `Size` needs to know that `full` implies equal
  positions, or taking an element could change the size by more than one.
- `Implementation`: `Spec => ImplementsLossyQueue`. The operators are first
  shown to act on `Contents` as the queue does (a push is `Keep(Append(..))`, a
  pop is `Tail`); then each action maps to an action of the queue or a stutter:
  `AddSpan` and `GetSome` take effect when they start, their iterations stutter.

`SendAudioProofs`, for any finite set of threads, frame, capacity and chunk sizes:

- `TypeCorrect`: with the buffer within its capacity.
- `Backlog`: `BacklogBounded` is inductive once each caller's noted size is known
  to be a size, and counts the callers that will look again; a caller leaves that set
  only in the step that leaves less than a frame.
- `Drained`: `BacklogBounded` where nobody is at work.
- `NoOverwrite`: assuming `Headroom`, no step that adds samples overwrites any.
  With the code's 960 and 48000 two callers have it up to arrays of 23520 samples.
- `FramesWhole` (`WholeFrames`), `SentOnce` (`NoSampleTwice`), `CallersInOrder`
  (`InOrderPerCaller`), from `SInv`: the buffer holds exactly the samples after the first
  `Taken`, and every frame in hand or sent is whole, of samples up to `Taken`, and apart
  from every other. None of the three is inductive, for a new frame is only
  known to be new by where the buffer begins.

`TrackAudioProofs`, for any ring, tracks, packets and frame size:

- `TypeCorrect`, from `TypeInv`, whether or not Opus accepts a track's sample rate.
- `OnlyRefusedTracksCrash` (`NoNullDecode`), whichever tracks Opus refuses: until callbacks overlap,
  the decoder is the one that the last announcement left (`DecoderInv`), so that a packet meets none only
  after the announcement of a refused track.
- `Implementation`: `Spec => ImplementsLossyQueue`. The record `audio_buffer` is mapped to
  the ring of `CircularBufferProofs`, whose lemmas about `push_back` and `get` on
  `Contents` carry over by INSTANCE; the rest of each action, races in the decoder
  included, stutters.
- `FaithfulSignals` (`EmittedFaithfully`), from `OrderInv`: the numbers of the frames
  increase along what was emitted, the frame that `poll` has taken, the contents of the
  ring and the last one pushed; every frame on that way was decoded and is marked with the
  track it is of; and while a callback is about to push, it is the only one, with the
  newest frame in `decoded_frame`. That `decoded_frame` is newer than the ring holds only
  between decoding and push, for `swap` puts an old frame back, so the
  property itself is not inductive. That `godot_data` has the frame's samples, left and right, is
  `VectorsOfTwoChannels`, about the loop that makes vectors, for any length of a frame.

`SignalQueueProofs`, for any callback threads, number of signals and depth of calls:

- `TypeCorrect`, `NothingLost` (`ExactlyOnce`), `Ordered` (`EmittedInOrder`), `PopsASignal`
  (`NoPopOfEmpty`), `NeverWaitsForItself` (`NoSelfLock`), `DrainsAlone` (`DrainUndisturbed`), from
  `IInv == QueueInv /\ StackInv /\ ThreadInv`: the queue holds the latest signals, in order, and no
  other; below its top the script's stack has only calls that are inside an emission, so
  that no call waits under another with the mutex or with a test it has not used yet; the
  mutex belongs to whoever the program points say. The first four hold until a close has raced
  with a push, and `DrainsAlone` but in an object that is `LeftOpen`.
- `RaceOnlyWhenLeftOpen`: no step begins such a race but in an object that is `LeftOpen`, which only a failed
  initialisation that leaves Pion its connection makes of it.

`DataChannelProofs`, for any threads and numbers of packets and puts:

- `BufferStays` (`BufferStable`), `PopsAPacket` (`NoPopOfEmpty`) and `Implementation`
  (`Spec => ImplementsChannel`), where a push and a pop map to the channel's two
  actions and everything else stutters. That the pop maps to a fetch rests on `NoPopOfEmpty`,
  and that on the script's thread being the only one that pops.
- `CStringEndsAtNul`: what is sent of a text is its longest prefix without a 0 byte.

`IceConfigProofs`, for any configurations, of any number of servers, URLs and
characters:

- `DecodeUndoesEncode`: `url_decode(Encoded(s, escaped)) = s` for every string of bytes
  and every choice of characters to escape; `DecodeKeepsPlain`: a string
  without an escape in it is left alone. Both go backwards through the string: what the loop makes
  from the code of a character on is that character and what it makes from the next one's
  on (`DecodesOne`).
- `ParsedInOrder`: `ParseInv` says that `iceServers` is what `IceServer` makes of
  the configured URLs up to the next one. The place of a URL among all URLs is that in its
  server's list and the server's offset (`AreOffsets`), the recursion in
  `FlattenSeq` put as a fact about neighbours (`OffsetsExist`).
- `PointersStayAlive` (`PointersAlive`) and `PionToldAsConfigured` (`ToldAsConfigured`), from
  `TellsInv`, assuming `GrowsEnough`: a full vector at least doubles, as those of libstdc++
  and libc++ do. `MemoryInv` says why that is enough: the vector is full of blanks when the
  first string is pushed, moves then, and has room for all others, so every pointer kept is
  into the block it has now. Pion reads through these pointers, so the second
  theorem rests on the first. That host, port and transport are the ones the URL names is
  `PlainIsTold`: the regular expression's cuts give back the parts of a text that has them in their
  places (`SlashesSkipped`, `UserSkipped`, `HostFound`, `ServiceFound`, all from what the first place of a
  character is, `FirstIs`), and a port below 2^16 is not changed by its conversion.
- `NamesAlwaysTaken` (`NamesTaken`), from `ParseInv`, `RefusedInv`, the same cuts and the two theorems
  about decoding. It needs no `GrowsEnough`.

`SignallingProofs`, for any numbers of offers and connections:

- `TypeCorrect` and `ClosedIsForgotten` (`NothingOfClosed`), from `IInv`: what waits for a
  callback or in the queue is of a connection later than the last closed one, or of one that a failed
  initialisation left to Pion (`left_open`).

`LifecycleProofs`, for any objects and callbacks, under `FailedCreateCloses`:

- `TypeCorrect`, `NoDanglingContext` (`ContextAlive`), `ClosedIsQuiet`
  (`QuietAfterClose`) and `ContextFound` (`CallbacksFindContext`), all from `IInv`.
  None is inductive by itself: that an object may be freed rests on its
  callbacks having left, which rests on `_close` having waited, which it does only
  if `pionWebrtc` says so. `IInv` therefore adds that callbacks only run on
  an object that can be called (`Callable`) and that no callback runs, and no
  connection is left, at the points of the script's call after the wait.

The assumptions are those named in the modules: sizes are positive, a frame fits
the ring, chunk sizes are bounded, the threads are finitely many, there are two peers,
callbacks are no names of the script's thread; for `IceConfig`, that the configurations are
sequences of servers and URLs of bytes (`ConfigsAssumption`), that an `unsigned long` holds a port
(`PortAssumption`) and that each URL that is not of an IPv6 address is put together from its parts
(`TextAssumption`, by `Names`, which `MCConfigs` satisfies). `TextAssumption` says nothing of what
the code makes of such a text.

Functions defined by recursion (`FlattenSeq`, `url_decode`, `Encoded`) are reasoned about through sets of numbers: the library's induction theorem
takes an operator, which the provers cannot find, but that the natural numbers are well-founded
is a theorem without one. `LeastNat` takes from it that a set of numbers has a least one, and
`NatInduces` that a set with 0 and each successor has them all; the set
is defined in the proof. That a recursive function exists at all, which a CHOOSE does not
promise, is proved the same way (`FlatExists`, `DecodingExists`, `EncodingExists`).

Only model-checked: liveness (`CallsReturn`, `EventuallyDrained`, `EventuallyHandled`, `CloseReturns`,
`NegotiationCompletes`: fairness and ENABLED are beyond the prover), and the three properties that the
code violates. No module declares a RECURSIVE operator.

## Not modelled

- The forwarding tables of `src/net` and `src/init_*.cpp` (no state), the template
  machinery of `Span`, logging, build files.
- `WavWriter`, the int16 twins `encode` and `decode` and those constructors of
  `IceServer` that take a host: nothing calls them.
- `add_ice_candidate` and `onIceCandidate` change nothing; the gathering state is a table
  of what Pion says. `GetConnectionState` and `GetSignalingState` are modelled as far as
  `create_offer` and the properties look at them.
- Of parsing, the values of credentials in a URL (overwritten at once), and services with the spaces or the
  sign that `std::stoul` accepts before a number; of a query only the transports it names.
- What is external: the contents of packets, what overlapping calls do inside Opus
  beyond the results above, what Pion makes of an answer to another offer, whether it keeps
  a connection when it cannot make another (a constant), ICE itself.

The hazards list in `PROJECT.json` names what each omission leaves open.
