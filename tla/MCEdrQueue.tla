----------------------------- MODULE MCEdrQueue -----------------------------
(* Three kinds of packet: a small one, a small urgent one, a large urgent one. *)
EXTENDS EdrQueue

CONSTANTS small, urgent, large

MCPackets == {small, urgent, large}
MCUrgent  == {urgent, large}
MCSize    == [p \in MCPackets |-> IF p = large THEN 2 ELSE 1]
=============================================================================
