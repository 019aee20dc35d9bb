------------------------------ MODULE MCBacnet ------------------------------
(* A power meter that notifies and a pump that is only read.                  *)
EXTENDS Bacnet

MCBindings == <<"meter", "pump">>
=============================================================================
