---------------------------- MODULE DataChannel ----------------------------
(***************************************************************************)
(* A WebRTCLibDataChannel: its creation, queue_packet on threads of Pion,   *)
(* and the calls of the script.  In this version nothing registers         *)
(* queue_packet with Pion (bind_channel has the registration commented     *)
(* out); the class is modelled under the calls it is written for.          *)
(*   A packet is its number and whether it is a string.  The storage of    *)
(* current_packet.first is one object, which the pointer that get_packet   *)
(* gives the script refers to; a packet in the queue is another, freed     *)
(* when it is popped.  What the script puts is a sequence of bytes, 0 the  *)
(* byte that ends a C string.                                              *)
(***************************************************************************)
EXTENDS Integers, SequencesExt

CONSTANTS
  Callbacks,    \* Pion's threads
  MaxPackets,   \* bound: how many packets ever arrive
  Payloads,     \* what the script puts
  MaxPuts       \* bound: how many of the script's puts are sent

\* The values of the mutex tell the threads apart.
ASSUME CallbacksAssumption == Callbacks \cap {"free", "script"} = {}
ASSUME BoundAssumption == MaxPackets \in Nat

Packets == [id : 1 .. MaxPackets, string : BOOLEAN]
NoObject == -1
Unbound == 0
Bound == 1
NoPacket == [id |-> 0, string |-> FALSE]

VARIABLES
  channel,      \* NoObject before there is one, Unbound for channel = 0
  negotiated,
  write_mode,
  sent,         \* what Pion was given to send
  packet_queue,
  current_packet,
  mutex,        \* "free" or the thread that holds it
  arrived,      \* how many packets have come
  message,      \* what each of Pion's threads is queueing, NoPacket for nothing
  pc,           \* the script's call of get_packet: "idle", "lock", "pop"
  r_buffer,     \* what the script's pointer refers to: "none", "current", "queued"
  r_packet      \* the packet the script was given with the pointer

object == <<channel, negotiated, write_mode, sent>>
receiving == <<packet_queue, mutex, arrived, message>>
reading == <<pc, r_buffer, r_packet, current_packet>>
script == <<reading, object>>
vars == <<object, receiving, reading>>

Init ==
  /\ channel = NoObject
  /\ negotiated = FALSE
  /\ write_mode = "binary"
  /\ sent = <<>>
  /\ packet_queue = <<>>
  /\ current_packet = NoPacket
  /\ mutex = "free"
  /\ arrived = 0
  /\ message = [c \in Callbacks |-> NoPacket]
  /\ pc = "idle"
  /\ r_buffer = "none"
  /\ r_packet = NoPacket

-----------------------------------------------------------------------------
(* Creation *)

\* The members of the script's dictionary that matter; an absent negotiated is
\* false, and of the other three only whether they are there.
ChannelConfigs ==
  [negotiated : BOOLEAN, id : BOOLEAN, maxPacketLifeTime : BOOLEAN, maxRetransmits : BOOLEAN]

ParseChannelConfig(config) ==
  /\ config.negotiated = config.id
  /\ ~(config.maxPacketLifeTime /\ config.maxRetransmits)

BindChannel(channel_id, p_negotiated) ==
  /\ channel_id # 0
  /\ channel' = Bound /\ negotiated' = p_negotiated
  /\ UNCHANGED <<write_mode, sent, receiving, reading>>

\* The other outcome, no object, changes nothing.  Pion may refuse with 0.
CreateDataChannel(config, channel_id) ==
  /\ channel = NoObject
  /\ ParseChannelConfig(config)
  /\ BindChannel(channel_id, config.negotiated)

\* The class is registered: a script may make an object of its own.
NewUnbound ==
  /\ channel = NoObject
  /\ channel' = Unbound
  /\ UNCHANGED <<negotiated, write_mode, sent, receiving, reading>>

-----------------------------------------------------------------------------
(* Sending *)

\* A mode that is neither is refused.
SetWriteMode(mode) ==
  /\ channel # NoObject /\ pc = "idle" /\ mode \in {"text", "binary"}
  /\ write_mode' = mode
  /\ UNCHANGED <<channel, negotiated, sent, receiving, reading>>

\* strncpy, and the C string Pion reads, end at the first 0.
CString(bytes) ==
  LET nul == SelectInSeq(bytes, LAMBDA b : b = 0)
  IN  IF nul = 0 THEN bytes ELSE SubSeq(bytes, 1, nul - 1)

\* An unbound channel fails the call.  In binary mode nothing is sent, and the
\* call returns OK all the same.
PutPacket(bytes) ==
  /\ channel = Bound /\ pc = "idle" /\ Len(sent) < MaxPuts
  /\ sent' = IF write_mode = "text" THEN Append(sent, CString(bytes)) ELSE sent
  /\ UNCHANGED <<channel, negotiated, write_mode, receiving, reading>>

-----------------------------------------------------------------------------
(* queue_packet *)

\* A thread of Pion calls queue_packet; in this version none does.
QueuePacket(c, string) ==
  /\ channel = Bound
  /\ message[c] = NoPacket /\ arrived < MaxPackets
  /\ arrived' = arrived + 1
  /\ message' = [message EXCEPT ![c] = [id |-> arrived + 1, string |-> string]]
  /\ UNCHANGED <<packet_queue, mutex, script>>

QueueLock(c) ==
  /\ message[c] # NoPacket /\ mutex = "free"
  /\ mutex' = c
  /\ UNCHANGED <<packet_queue, arrived, message, script>>

QueuePush(c) ==
  /\ mutex = c
  /\ packet_queue' = Append(packet_queue, message[c])
  /\ message' = [message EXCEPT ![c] = NoPacket]
  /\ mutex' = "free"
  /\ UNCHANGED <<arrived, script>>

-----------------------------------------------------------------------------
(* The script.  Its buffer is gone when it calls get_packet or close.      *)

\* Seeded fault: the test is the wrong way round.
GetPacketInverted ==
  /\ channel # NoObject /\ pc = "idle"
  /\ pc' = IF packet_queue # <<>> THEN "idle" ELSE "lock"
  /\ r_buffer' = "none"
  /\ UNCHANGED <<object, receiving, r_packet, current_packet>>

\* The test for a packet, without the lock.
GetPacket ==
  /\ channel # NoObject /\ pc = "idle"
  /\ pc' = IF packet_queue = <<>> THEN "idle" ELSE "lock"
  /\ r_buffer' = "none"
  /\ UNCHANGED <<object, receiving, r_packet, current_packet>>

GetLock ==
  /\ pc = "lock" /\ mutex = "free"
  /\ mutex' = "script" /\ pc' = "pop"
  /\ UNCHANGED <<object, packet_queue, arrived, message, r_buffer, r_packet, current_packet>>

\* Seeded faults: a pointer to the packet in the queue; the flag of the packet
\* before.
GetPopQueued ==
  /\ pc = "pop" /\ packet_queue # <<>>
  /\ current_packet' = Head(packet_queue)
  /\ r_buffer' = "queued" /\ r_packet' = Head(packet_queue)
  /\ packet_queue' = Tail(packet_queue)
  /\ mutex' = "free" /\ pc' = "idle"
  /\ UNCHANGED <<object, arrived, message>>

GetPopStaleFlag ==
  /\ pc = "pop" /\ packet_queue # <<>>
  /\ current_packet' = [Head(packet_queue) EXCEPT !.string = current_packet.string]
  /\ r_buffer' = "current" /\ r_packet' = Head(packet_queue)
  /\ packet_queue' = Tail(packet_queue)
  /\ mutex' = "free" /\ pc' = "idle"
  /\ UNCHANGED <<object, arrived, message>>

GetPop ==
  /\ pc = "pop" /\ packet_queue # <<>>
  /\ current_packet' = Head(packet_queue)
  /\ r_buffer' = "current" /\ r_packet' = Head(packet_queue)
  /\ packet_queue' = Tail(packet_queue)
  /\ mutex' = "free" /\ pc' = "idle"
  /\ UNCHANGED <<object, arrived, message>>

\* _close does nothing to the channel.
Close ==
  /\ channel # NoObject /\ pc = "idle" /\ r_buffer' = "none"
  /\ UNCHANGED <<object, receiving, pc, r_packet, current_packet>>

Next ==
  \/ \E config \in ChannelConfigs, channel_id \in {0, 1} : CreateDataChannel(config, channel_id)
  \/ NewUnbound
  \/ \E mode \in {"text", "binary"} : SetWriteMode(mode)
  \/ \E bytes \in Payloads : PutPacket(bytes)
  \/ \E c \in Callbacks :
       (\E string \in BOOLEAN : QueuePacket(c, string)) \/ QueueLock(c) \/ QueuePush(c)
  \/ GetPacket \/ GetLock \/ GetPop \/ Close

Spec == Init /\ [][Next]_vars

-----------------------------------------------------------------------------
\* The buffer get_packet returned holds the packet it was given for until the
\* next get_packet or close ("buffer will be gone at next get_packet or close",
\* WebRTCLibDataChannel.cpp:236), whatever is queued meanwhile, and
\* was_string_packet speaks of that packet.
BufferStable == r_buffer # "none" => r_buffer = "current" /\ current_packet = r_packet

\* The queue is tested without the lock and its front used under it; it is not
\* empty then.
NoPopOfEmpty == pc = "pop" => packet_queue # <<>>

Channel ==
  INSTANCE PacketChannel WITH
    waiting <- packet_queue,
    fetched <- IF current_packet = NoPacket THEN <<>> ELSE <<current_packet>>

\* Packets are fetched once each, in the order in which they were queued, as
\* strings if they are.
ImplementsChannel == Channel!Spec
=============================================================================
