------------------------------ MODULE MCPoller ------------------------------
(* Two switches, two sockets, one heavy tier: with responders of their own,   *)
(* behind one endpoint with the sockets pooled, and behind one endpoint the   *)
(* second of them discovered too late for the sockets to be pooled.           *)
EXTENDS Poller

Fleet(startup, endpoints, mode) ==
  [startup |-> startup, mode |-> mode,
   endpoint |-> [t \in Targets |-> IF t = "a" THEN endpoints[1] ELSE endpoints[2]]]

MCLayouts ==
  {Fleet({"a", "b"}, <<1, 2>>, "heartbeat"), Fleet({"a", "b"}, <<1, 1>>, "rewalk")}
    \cup {Fleet({"a"}, <<1, 1>>, m) : m \in {"oneshot", "heartbeat"}}
MCRewalk  == {Fleet({"a", "b"}, <<1, 2>>, "rewalk")}
MCHash    == [t \in Targets |-> 0]
MCType    == [t \in Targets |-> "switch"]
MCHeavy   == <<"topology">>
=============================================================================
