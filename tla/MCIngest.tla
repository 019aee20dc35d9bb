------------------------------ MODULE MCIngest ------------------------------
(* Packet 1 is an event, 2 a metric and 3 an energy reading of one device, 4 a packet *)
(* that fails validation; IngestDropsOnlySeen has two events of one source instead.   *)
EXTENDS Ingest

MCEventSources == [p \in {1} |-> "s1"]
MCDeviceOf     == [p \in {2, 3, 4} |-> "d1"]

TwoEvents == [p \in {1, 2} |-> "s1"]
NoDevices == [p \in {} |-> "d1"]
=============================================================================
