---------------------------- MODULE MCInventory ----------------------------
(* Two boxes that hand over a name, two that exchange theirs, one that is    *)
(* renamed, and one whose row is wiped; a host with an agent that is         *)
(* renamed; and, on its own, a host that exchanges its name with a box.      *)
EXTENDS Inventory
FirstName_  == 1 :> 1 @@ 2 :> 2 @@ 3 :> 4
Handover    == [boxes |-> {1, 2}, kinds |-> {"uptime"}, renames |-> << 1 :> 3 @@ 2 :> 1 >>, wipes |-> 0]
Exchange    == [boxes |-> {1, 2}, kinds |-> {"uptime"}, renames |-> << 1 :> 2 @@ 2 :> 1 >>, wipes |-> 0]
Renamed     == [boxes |-> {1}, kinds |-> {"uptime", "threshold"}, renames |-> << 1 :> 3 >>, wipes |-> 0]
Wiped       == [boxes |-> {1}, kinds |-> Kinds, renames |-> << >>, wipes |-> 1]
Host        == [boxes |-> {3}, kinds |-> {"uptime", "threshold"}, renames |-> << 3 :> 3 >>, wipes |-> 0]
HostSwaps   == [boxes |-> {1, 3}, kinds |-> {"uptime"}, renames |-> << 1 :> 4 @@ 3 :> 1 >>, wipes |-> 0]
Plans_      == {Handover, Exchange, Renamed, Wiped, Host}
HostPlans   == {HostSwaps}
=============================================================================
