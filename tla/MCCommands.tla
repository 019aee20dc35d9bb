----------------------------- MODULE MCCommands -----------------------------
(* One collector, all the fields and a fault; or several collectors, the     *)
(* fields that can be written, and none.                                     *)
EXTENDS Commands

\* All the supported names of the instance are aliases of one OID.
MCOid == [f \in Supported |-> CHOOSE o \in Oids : TRUE]

MCPlans == {[edrs |-> {CHOOSE e \in Edrs : TRUE}, fields |-> Fields, faults |-> 1],
            [edrs |-> Edrs, fields |-> Supported, faults |-> 0]}
=============================================================================
