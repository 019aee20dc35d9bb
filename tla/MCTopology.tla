----------------------------- MODULE MCTopology -----------------------------
(* A triangle of three devices: the hub knows two of them and their link,    *)
(* which both report; the third registers late.  And two networks with links *)
(* between them: the tree of the second leads through a device of the first. *)
EXTENDS Topology

L(a, p, b, q) == [layer |-> "network", src |-> a, sport |-> p, dst |-> b, dport |-> q]

MCLinks  == {L(2, 0, 1, 0), L(2, 1, 3, 0), L(1, 1, 3, 1)}
MCStored == {L(2, 0, 1, 0)}
MCLoose  == {{<<1, 0>>, <<2, 0>>}}
MCForm   == 1 :> "name" @@ 2 :> "index" @@ 3 :> "none"
MCNetOf  == [d \in Devices |-> "n"]
MCTypeOf == 1 :> "switch" @@ 2 :> "switch" @@ 3 :> "server"
MCHostTiers == [d \in Devices |-> {}]
MCModelTiers == [d \in Devices |-> {}]

TwoLinks  == {L(2, 0, 1, 0), L(3, 0, 1, 1), L(4, 0, 1, 2), L(1, 2, 4, 0), L(4, 1, 3, 1)}
TwoStored == TwoLinks \ {L(4, 1, 3, 1)}
TwoForm   == [d \in 1 .. 4 |-> "none"]
TwoNetOf  == [d \in 1 .. 4 |-> IF d <= 2 THEN "n" ELSE "m"]
TwoTypeOf == [d \in 1 .. 4 |-> IF d = 4 THEN "server" ELSE "switch"]
=============================================================================
