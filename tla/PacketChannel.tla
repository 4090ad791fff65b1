--------------------------- MODULE PacketChannel ---------------------------
(***************************************************************************)
(* The abstract specification of a data channel's receiving side: packets  *)
(* that arrive are fetched once each, in order, as the text or the bytes   *)
(* they are.  get_packet either fetches the oldest one or finds none.      *)
(***************************************************************************)
EXTENDS Integers, Sequences

CONSTANT Packets

VARIABLES
  waiting,      \* the packets that arrived and were not fetched
  fetched       \* the last packet fetched, <<>> before the first

vars == <<waiting, fetched>>

Init == waiting = <<>> /\ fetched = <<>>

Arrive(p) == waiting' = Append(waiting, p) /\ UNCHANGED fetched

Fetch ==
  /\ waiting # <<>>
  /\ fetched' = <<Head(waiting)>>
  /\ waiting' = Tail(waiting)

Next == (\E p \in Packets : Arrive(p)) \/ Fetch

Spec == Init /\ [][Next]_vars
=============================================================================
