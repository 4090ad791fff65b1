---------------------------- MODULE MCSendAudio ----------------------------
(***************************************************************************)
(* SendAudio on small instances.  MaxFed bounds the number of samples ever *)
(* passed in, and with it the length of the wire's history.                *)
(***************************************************************************)
EXTENDS SendAudio

CONSTANT MaxFed

BoundedFeed == \E t \in Threads, n \in Chunks : fed + n <= MaxFed /\ SendAudioPacket(t, n)

MCNext ==
  /\ ~crashed
  /\ \/ BoundedFeed
     \/ \E t \in Threads : Step(t)
     \/ InitEncoder \/ CreatePc

MCSpec == Init /\ [][MCNext]_vars /\ \A t \in Threads : WF_vars(~crashed /\ Step(t))

\* The instance meets the condition under which nothing is overwritten.
ASSUME Headroom \/ MaxFed > SIZE
=============================================================================
