------------------------------- MODULE MCIdr -------------------------------
(* Host agent with a short queue, for TLC. *)
EXTENDS Idr
=============================================================================
