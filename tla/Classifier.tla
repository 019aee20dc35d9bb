----------------------------- MODULE Classifier -----------------------------
(***************************************************************************)
(* The role of a device (store/classifier.go): its type, or for a switch   *)
(* the fabric tier that its name, its model and its neighbours speak for.  *)
(***************************************************************************)
EXTENDS Integers, FiniteSets, FiniteSetsExt

CONSTANTS
  TypeOf,      \* device_type of each device
  HostTiers,   \* tiers whose patterns match the name of the device
  ModelTiers   \* tiers whose substrings occur in its model and description

\* roleOrder, the first tier winning a tie.
TierOrder == <<"core", "spine", "leaf", "distribution", "access">>
Tiers     == {TierOrder[i] : i \in 1 .. 5}
Rank(t)   == CHOOSE i \in 1 .. 5 : TierOrder[i] = t

ASSUME ClassifierAssumption ==
  /\ HostTiers \in [DOMAIN TypeOf -> SUBSET Tiers]
  /\ ModelTiers \in [DOMAIN TypeOf -> SUBSET Tiers]

wHost == 3
wModel == 2
wNeighbor == 3

\* What the neighbours speak for.  A neighbour of another network has no type
\* here and counts in the total only.
NeighbourScore(t, nbs, ids) ==
  LET Count(types) == Cardinality({n \in nbs \cap ids : TypeOf[n] \in types})
      total     == Cardinality(nbs)
      switches  == Count({"switch"})
      servers   == Count({"server"})
      endpoints == Count({"workstation", "ap"})
      uplinkers == Count({"router", "firewall", "load_balancer"})
      Vote(tier, w, holds) == IF total > 0 /\ t = tier /\ holds THEN w ELSE 0
  IN  Vote("spine", wNeighbor, 100 * switches > 85 * total)
      + Vote("leaf", wNeighbor, 2 * servers > total)
      + Vote("access", wNeighbor, 2 * endpoints > total)
      + Vote("spine", 2, total >= 16 /\ 10 * switches > 7 * total)
      + Vote("access", 2, total <= 4)
      + Vote("leaf", 2, switches >= 2 /\ servers >= 4)
      + Vote("core", 2, uplinkers >= 1 /\ switches >= 1)

Score(d, nbs, ids) ==
  [t \in Tiers |-> (IF t \in HostTiers[d] THEN wHost ELSE 0)
                   + (IF t \in ModelTiers[d] THEN wModel ELSE 0)
                   + NeighbourScore(t, nbs, ids)]

First(S) == CHOOSE t \in S : \A u \in S : Rank(t) <= Rank(u)

\* classifySwitch: the tier with the highest score, that of the name on a tie;
\* none below a confidence of 0.4, the threshold of a suggestion.
Tier(d, score) ==
  LET sum  == MapThenSumSet(LAMBDA t : score[t], Tiers)
      tops == {t \in Tiers : \A u \in Tiers : score[u] <= score[t]}
      best == First(tops)
  IN  IF sum = 0 \/ 10 * score[best] < 4 * sum THEN TypeOf[d]
      ELSE IF HostTiers[d] # {} /\ First(HostTiers[d]) \in tops THEN First(HostTiers[d])
      ELSE best

ClassifySwitch(d, nbs, ids) == CHOOSE r \in {Tier(d, s) : s \in {Score(d, nbs, ids)}} : TRUE

\* A type that is not a switch is its own role, a router an edge router; what
\* cannot be told keeps its type.
RoleOf(d, nbs, ids) ==
  CASE TypeOf[d] = "switch" -> ClassifySwitch(d, nbs, ids)
    [] TypeOf[d] = "router" -> "edge_router"
    [] OTHER                -> TypeOf[d]
=============================================================================
