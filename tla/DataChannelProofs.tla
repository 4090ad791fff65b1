------------------------- MODULE DataChannelProofs -------------------------
(***************************************************************************)
(* Proofs about DataChannel, for any number of Pion's threads and packets. *)
(***************************************************************************)
EXTENDS DataChannel, WellFoundedInduction, TLAPS

\* The types of the receiving side.
TypeInv ==
  /\ packet_queue \in Seq(Packets)
  /\ message \in [Callbacks -> Packets \cup {NoPacket}]
  /\ arrived \in Nat
  /\ current_packet \in Packets \cup {NoPacket}

\* The inductive invariant: who has the mutex, and what get_packet may rely on
\* between its test of the queue and its use.
IInv ==
  /\ TypeInv
  /\ \A c \in Callbacks : mutex = c => message[c] # NoPacket
  /\ mutex = "script" <=> pc = "pop"
  /\ pc \in {"lock", "pop"} => packet_queue # <<>>
  /\ BufferStable

LEMMA NoPacketIsNone == NoPacket \notin Packets
  BY DEF NoPacket, Packets

LEMMA InitEstablishesIInv == Init => IInv
<1>. SUFFICES ASSUME Init PROVE IInv
  OBVIOUS
<1>1. <<>> \in Seq(Packets)
  OBVIOUS
<1>. QED
  BY <1>1, CallbacksAssumption DEF Init, IInv, TypeInv, BufferStable

\* What leaves the receiving and the reading side alone keeps the invariant.
LEMMA UntouchedKeepsIInv ==
  ASSUME IInv, UNCHANGED <<receiving, reading>>
  PROVE  IInv'
  BY DEF IInv, TypeInv, BufferStable, receiving, reading

LEMMA QueuePacketKeepsIInv ==
  ASSUME IInv, NEW c \in Callbacks, NEW string \in BOOLEAN, QueuePacket(c, string)
  PROVE  IInv'
<1>. DEFINE packet == [id |-> arrived + 1, string |-> string]
<1>1. /\ message' = [message EXCEPT ![c] = packet] /\ arrived' = arrived + 1
      /\ arrived < MaxPackets /\ message[c] = NoPacket
      /\ UNCHANGED <<packet_queue, mutex, reading>>
  BY DEF QueuePacket, script
<1>2. packet \in Packets
  BY <1>1, BoundAssumption DEF IInv, TypeInv, Packets
<1>. HIDE DEF packet
<1>3. TypeInv'
  BY <1>1, <1>2 DEF IInv, TypeInv, reading
<1>4. packet # NoPacket
  BY <1>2, NoPacketIsNone
<1>5. \A d \in Callbacks : mutex' = d => message'[d] # NoPacket
  BY <1>1, <1>4 DEF IInv, TypeInv
<1>. QED
  BY <1>1, <1>3, <1>5 DEF IInv, BufferStable, reading

LEMMA QueueLockKeepsIInv ==
  ASSUME IInv, NEW c \in Callbacks, QueueLock(c)
  PROVE  IInv'
<1>1. /\ message[c] # NoPacket /\ mutex = "free" /\ mutex' = c
      /\ UNCHANGED <<packet_queue, arrived, message, reading>>
  BY DEF QueueLock, script
<1>2. UNCHANGED <<pc, r_buffer, r_packet, current_packet>>
  BY <1>1 DEF reading
<1>3. TypeInv' /\ BufferStable'
  BY <1>1, <1>2 DEF IInv, TypeInv, BufferStable
<1>4. mutex' # "script" /\ pc # "pop"
  BY <1>1, CallbacksAssumption DEF IInv
<1>. QED
  BY <1>1, <1>2, <1>3, <1>4 DEF IInv

LEMMA QueuePushKeepsIInv ==
  ASSUME IInv, NEW c \in Callbacks, QueuePush(c)
  PROVE  IInv' /\ message[c] \in Packets
<1>1. /\ mutex = c /\ mutex' = "free"
      /\ packet_queue' = Append(packet_queue, message[c])
      /\ message' = [message EXCEPT ![c] = NoPacket]
      /\ UNCHANGED <<arrived, pc, r_buffer, r_packet, current_packet>>
  BY DEF QueuePush, script, reading
<1>2. message[c] \in Packets /\ packet_queue \in Seq(Packets)
  BY <1>1 DEF IInv, TypeInv
<1>3. packet_queue' \in Seq(Packets) /\ packet_queue' # <<>>
  BY <1>1, <1>2
<1>4. TypeInv'
  BY <1>1, <1>3 DEF IInv, TypeInv
<1>5. mutex' # "script" /\ pc # "pop" /\ \A d \in Callbacks : mutex' # d
  BY <1>1, CallbacksAssumption DEF IInv
<1>. QED
  BY <1>1, <1>2, <1>3, <1>4, <1>5 DEF IInv, BufferStable

LEMMA ReadingKeepsIInv ==
  ASSUME IInv, GetPacket \/ GetLock \/ Close
  PROVE  IInv'
<1>1. CASE GetPacket
  <2>1. mutex' = mutex /\ packet_queue' = packet_queue /\ TypeInv'
    BY <1>1 DEF GetPacket, IInv, TypeInv, receiving
  <2>2. mutex # "script" /\ pc' # "pop" /\ (pc' = "lock" => packet_queue # <<>>)
    BY <1>1 DEF GetPacket, IInv
  <2>. QED
    BY <1>1, <2>1, <2>2 DEF GetPacket, IInv, BufferStable, receiving
<1>2. CASE GetLock
  BY <1>2, CallbacksAssumption DEF GetLock, IInv, TypeInv, BufferStable
<1>3. CASE Close
  BY <1>3 DEF Close, IInv, TypeInv, BufferStable, receiving
<1>. QED
  BY <1>1, <1>2, <1>3

LEMMA GetPopKeepsIInv == ASSUME IInv, GetPop PROVE IInv'
<1>1. packet_queue \in Seq(Packets) /\ packet_queue # <<>>
  BY DEF IInv, TypeInv, GetPop
<1>2. Head(packet_queue) \in Packets /\ Tail(packet_queue) \in Seq(Packets)
  BY <1>1
<1>3. TypeInv'
  BY <1>2 DEF IInv, TypeInv, GetPop
<1>. QED
  BY <1>3, CallbacksAssumption DEF IInv, GetPop, BufferStable

\* The script's calls that only send, or make the channel.
Sending ==
  \/ \E config \in ChannelConfigs, channel_id \in {0, 1} : CreateDataChannel(config, channel_id)
  \/ NewUnbound
  \/ \E mode \in {"text", "binary"} : SetWriteMode(mode)
  \/ \E bytes \in Payloads : PutPacket(bytes)

LEMMA SendingTouchesNothing == Sending => UNCHANGED <<receiving, reading>>
  BY DEF Sending, CreateDataChannel, BindChannel, NewUnbound, SetWriteMode, PutPacket

LEMMA NextKeepsIInv == IInv /\ [Next]_vars => IInv'
<1>. SUFFICES ASSUME IInv, [Next]_vars PROVE IInv'
  OBVIOUS
<1>1. CASE Sending
  BY <1>1, SendingTouchesNothing, UntouchedKeepsIInv
<1>2. CASE UNCHANGED vars
  BY <1>2, UntouchedKeepsIInv DEF vars
<1>. QED
  BY <1>1, <1>2, QueuePacketKeepsIInv, QueueLockKeepsIInv, QueuePushKeepsIInv,
     ReadingKeepsIInv, GetPopKeepsIInv
  DEF Next, Sending

\* The mutex belongs to whoever is between taking and releasing it, and the queue
\* that get_packet found full is not empty before it has taken its packet.
THEOREM IInvAlways == Spec => []IInv
  BY InitEstablishesIInv, NextKeepsIInv, PTL DEF Spec

-----------------------------------------------------------------------------
(* What the runs check *)

\* The buffer get_packet returned, and was_string_packet, stay those of the
\* packet they were given for until the next get_packet or close.
THEOREM BufferStays == Spec => []BufferStable
<1>1. IInv => BufferStable
  BY DEF IInv
<1>. QED
  BY <1>1, IInvAlways, PTL

\* get_packet's unlocked test of the queue still holds when it pops.
THEOREM PopsAPacket == Spec => []NoPopOfEmpty
<1>1. IInv => NoPopOfEmpty
  BY DEF IInv, NoPopOfEmpty
<1>. QED
  BY <1>1, IInvAlways, PTL

-----------------------------------------------------------------------------
(* Sending *)

LEMMA LeastNat ==
  ASSUME NEW S \in SUBSET Nat, S # {}
  PROVE  \E m \in S : \A k \in S : m <= k
<1>. DEFINE R == OpToRel(<, Nat)
<1>1. IsWellFoundedOn(R, Nat)
  BY NatLessThanWellFounded
<1>2. \A x, y \in Nat : x < y => <<x, y>> \in R
  BY DEF OpToRel
<1>. HIDE DEF R
<1>3. PICK m \in S : \A k \in S : ~ (<<k, m>> \in R)
  BY <1>1, WFMin
<1>4. \A k \in S : k \in Nat
  OBVIOUS
<1>5. \A k \in S : ~(k < m)
  BY <1>2, <1>3, <1>4
<1>. QED
  BY <1>4, <1>5

\* What strncpy copies and Pion reads of a put, for any bytes: those before the
\* first 0, all if there is none.
THEOREM CStringEndsAtNul ==
  ASSUME NEW S, NEW bytes \in Seq(S)
  PROVE  LET text == CString(bytes)
         IN  /\ text \in Seq(S) /\ Len(text) <= Len(bytes)
             /\ \A i \in DOMAIN text : text[i] = bytes[i] /\ bytes[i] # 0
             /\ Len(text) < Len(bytes) => bytes[Len(text) + 1] = 0
<1>. DEFINE I == {i \in 1 .. Len(bytes) : bytes[i] = 0}
<1>1. SelectInSeq(bytes, LAMBDA b : b = 0) = IF I # {} THEN Min(I) ELSE 0
  BY DEF SelectInSeq
<1>2. CASE I = {}
  <2>1. CString(bytes) = bytes
    BY <1>1, <1>2 DEF CString
  <2>. QED
    BY <1>2, <2>1
<1>3. CASE I # {}
  <2>1. I \in SUBSET Nat
    OBVIOUS
  <2>2. PICK m \in I : Min(I) = m /\ \A k \in I : m <= k
    <3>. HIDE DEF I
    <3>1. \E m \in I : \A k \in I : m <= k
      BY <1>3, <2>1, LeastNat
    <3>. QED
      BY <3>1 DEF Min
  <2>3. m \in 1 .. Len(bytes) /\ bytes[m] = 0 /\ \A i \in 1 .. m - 1 : bytes[i] # 0
    BY <2>2
  <2>4. CString(bytes) = SubSeq(bytes, 1, m - 1)
    <3>1. SelectInSeq(bytes, LAMBDA b : b = 0) = m
      BY <1>1, <1>3, <2>2
    <3>. QED
      BY <2>3, <3>1 DEF CString
  <2>. QED
    BY <2>3, <2>4
<1>. QED
  BY <1>2, <1>3

-----------------------------------------------------------------------------
(* The refinement *)

LEMMA InitImplements == Init => Channel!Init
  BY DEF Init, Channel!Init

\* A step is an arrival, a fetch, or neither.
LEMMA StepImplements == IInv /\ [Next]_vars => [Channel!Next]_(Channel!vars)
<1>. SUFFICES ASSUME IInv, [Next]_vars PROVE [Channel!Next]_(Channel!vars)
  OBVIOUS
<1>1. ASSUME packet_queue' = packet_queue, current_packet' = current_packet
      PROVE  UNCHANGED Channel!vars
  BY <1>1 DEF Channel!vars
<1>2. ASSUME NEW c \in Callbacks, QueuePush(c) PROVE Channel!Next
  <2>1. message[c] \in Packets
    BY <1>2, QueuePushKeepsIInv
  <2>2. packet_queue' = Append(packet_queue, message[c]) /\ current_packet' = current_packet
    BY <1>2 DEF QueuePush, script, reading
  <2>. QED
    BY <2>1, <2>2 DEF Channel!Next, Channel!Arrive
<1>3. CASE GetPop
  <2>1. packet_queue \in Seq(Packets) /\ packet_queue # <<>>
    BY <1>3 DEF IInv, TypeInv, GetPop
  <2>2. Head(packet_queue) \in Packets
    BY <2>1
  <2>3. current_packet' = Head(packet_queue) /\ current_packet' # NoPacket
    BY <1>3, <2>2, NoPacketIsNone DEF GetPop
  <2>4. packet_queue' = Tail(packet_queue)
    BY <1>3 DEF GetPop
  <2>. QED
    BY <2>1, <2>3, <2>4 DEF Channel!Next, Channel!Fetch, NoPacket
<1>4. CASE \E c \in Callbacks : (\E string \in BOOLEAN : QueuePacket(c, string)) \/ QueueLock(c)
  BY <1>1, <1>4 DEF QueuePacket, QueueLock, script, reading
<1>5. CASE Sending
  BY <1>1, <1>5, SendingTouchesNothing DEF receiving, reading
<1>6. CASE GetPacket \/ GetLock \/ Close \/ UNCHANGED vars
  BY <1>1, <1>6 DEF GetPacket, GetLock, Close, vars, receiving, reading
<1>. QED
  BY <1>2, <1>3, <1>4, <1>5, <1>6 DEF Next, Sending

\* queue_packet and get_packet, with their locks and the unlocked test, are a
\* queue whose packets are fetched once each, in order.
THEOREM Implementation == Spec => ImplementsChannel
<1>1. Spec => Channel!Spec
  BY InitImplements, StepImplements, IInvAlways, PTL DEF Spec, Channel!Spec
<1>. QED
  BY <1>1 DEF ImplementsChannel
=============================================================================
