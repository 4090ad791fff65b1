--------------------------- MODULE MCDataChannel ---------------------------
(* Two threads of Pion, three packets; two puts, one of them with a 0 inside. *)
EXTENDS DataChannel

MCPayloads == {<<1, 2>>, <<3, 0, 4>>}
=============================================================================
