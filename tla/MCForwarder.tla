----------------------------- MODULE MCForwarder -----------------------------
(* A device, a link that needs it, and two events in two scopes.            *)
EXTENDS Forwarder

MCTableOrder == <<"devices", "topology", "events">>
MCRows   == {"d", "l", "e1", "e2"}
MCTable  == [r \in MCRows |-> CASE r = "d" -> "devices" [] r = "l" -> "topology" [] OTHER -> "events"]
MCScope  == [r \in MCRows |-> IF r = "e2" THEN "B" ELSE "A"]
MCEnds   == [r \in MCRows |-> IF r = "l" THEN {"d"} ELSE {}]
MCLimit  == [t \in {"devices", "topology", "events"} |-> 1]
=============================================================================
