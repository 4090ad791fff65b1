-------------------------- MODULE MCCircularBuffer --------------------------
(***************************************************************************)
(* CircularBuffer on a small instance: spans shorter than, as long as and  *)
(* longer than the buffer, and counts on both sides of its size.           *)
(***************************************************************************)
EXTENDS CircularBuffer

CONSTANTS blank, a, b

MCT == {blank, a, b}
MCSpans == {<<>>, <<a, b>>, <<b, a, b>>, <<a, a, b, a, b>>}
MCCounts == 0 .. SIZE + 1
=============================================================================
