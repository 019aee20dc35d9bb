------------------------------ MODULE MCFleet -------------------------------
(* Two addresses, three names, a proxy that comes and goes.                  *)
EXTENDS Fleet

MCFirstName == [ip \in Ips |-> IF ip = "i" THEN "x" ELSE "y"]
=============================================================================
