------------------------------- MODULE Links --------------------------------
(***************************************************************************)
(* The link table of the hub (topology_links): the collector reports the   *)
(* links of its topology file again and again (fwEDR/main.go), the hub     *)
(* stores a link once it knows both devices (WriteTopologyLink), and the   *)
(* traps that both ends of a cut cable send, in any order and on any       *)
(* worker, turn it off and on (handleLinkTrap).                            *)
(*                                                                         *)
(* A link is a directed report of its source; the same cable may be        *)
(* reported by either end or by both.  Ports are counted from 0 in the     *)
(* reports; a trap carries the ifIndex, counted from 1.                    *)
(***************************************************************************)
EXTENDS Integers, FiniteSets

CONSTANTS
  Devices,    \* devices of the tenant, in the order of their row ids
  Links,      \* reports: layer, src, sport, dst, dport
  Form,       \* how a device's traps name a port: "name", "index" or "none"
  Early,      \* devices the hub knows from the beginning
  Stored,     \* links it has stored before
  Loose,      \* ends of the cables that are cut and mended
  ChannelCap, \* capacity of the collector's packet channel
  NWorkers,   \* number of workers of the hub's pipeline
  Warmup,     \* warmupCycles: reports of the first cycles
  Reassert,   \* reassertEvery: afterwards one cycle in so many reports
  MaxFaults   \* bound: cables cut or mended, statements that fail

Layers == {"network", "management", "power", "cooling"}
Port   == 0 .. 9
Key(l) == <<l.layer, l.src, l.sport, l.dst>>

\* The two ends of the cable a report is about, and the devices at its ends.
Ends(l)    == {<<l.src, l.sport>>, <<l.dst, l.dport>>}
Pair(l)    == {l.src, l.dst}
Cables     == {Ends(l) : l \in {m \in Links : m.layer = "network"}}
Between(c) == {e[1] : e \in c}

\* A port belongs to one cable, as CorrelateLinkByPort says.
ASSUME LinksAssumption ==
  /\ IsFiniteSet(Devices) /\ Devices \subseteq Nat \ {0}
  /\ IsFiniteSet(Links)
  /\ Links \subseteq [layer : Layers, src : Devices, sport : Port, dst : Devices, dport : Port]
  /\ \A l, m \in Links : Key(l) = Key(m) => l = m
  /\ Form \in [Devices -> {"name", "index", "none"}]
  /\ Early \subseteq Devices /\ ChannelCap \in Nat \ {0}
  /\ Loose \subseteq Cables
  /\ \A c, d \in Cables : c \cap d # {} => c = d
  /\ Stored \subseteq {l \in Links : Pair(l) \subseteq Early}
  /\ Warmup \in Nat \ {0} /\ Reassert \in Nat \ {0}
  /\ NWorkers \in Nat \ {0} /\ MaxFaults \in Nat

VARIABLES
  known,     \* devices the hub has a row for
  cycle,     \* cycles of the reporting loop, counted modulo Reassert after the warm-up
  sent,      \* reports on their way to the hub
  linkRows,  \* links stored
  off,       \* those with is_active FALSE
  relation,  \* relation of each link
  cut,       \* cables that are cut
  traps,     \* link traps on their way
  jobs,      \* link traps the workers are at, with the row and the step
  untold,    \* history: changes of is_active less the events made of them
  reported,  \* history: cables that were cut or mended
  faults

link == <<cycle, sent, off, cut, traps, jobs, untold, reported>>

Fault == faults < MaxFaults /\ faults' = faults + 1

-----------------------------------------------------------------------------
(* Reports (the reporting loop of fwEDR/main.go, WriteTopologyLink).       *)

\* The hub gets a registration of the device (see Discovery).
Register(d) ==
  /\ d \notin known
  /\ known' = known \cup {d}
  /\ UNCHANGED <<link, linkRows, relation, faults>>

ReportsMut == cycle < Warmup

Reports == cycle < Warmup \/ cycle % Reassert = 0

NextCycle == IF cycle + 1 < Warmup + Reassert THEN cycle + 1 ELSE cycle + 1 - Reassert

\* One turn of the loop: every link is offered to the channel, and dropped when
\* it is full.
EmitTopologyLinks ==
  /\ Reports
  /\ \E S \in SUBSET Links : sent' = sent \cup S /\ Cardinality(sent') <= ChannelCap
  /\ cycle' = NextCycle
  /\ UNCHANGED <<known, linkRows, relation, off, cut, traps, jobs, untold, reported, faults>>

SkipCycle ==
  /\ ~Reports
  /\ cycle' = NextCycle
  /\ UNCHANGED <<known, linkRows, relation, sent, off, cut, traps, jobs, untold, reported, faults>>

UpsertLinksMut(l) ==
  /\ linkRows' = linkRows \cup {l}
  /\ relation' = [relation EXCEPT ![l] = IF l \in linkRows THEN @ ELSE "peer"]
  /\ off' = off \ {l}

\* INSERT ... ON CONFLICT: a new link is a peer and active; what the table
\* holds of a known one is kept.
UpsertLinks(l) ==
  /\ linkRows' = linkRows \cup {l}
  /\ relation' = [relation EXCEPT ![l] = IF l \in linkRows THEN @ ELSE "peer"]
  /\ off' = off

\* A link whose ends are not both known is dropped without a word.
WriteTopologyLink(l) ==
  /\ l \in sent
  /\ sent' = sent \ {l}
  /\ IF Pair(l) \subseteq known THEN UpsertLinks(l) ELSE UNCHANGED <<linkRows, relation, off>>
  /\ UNCHANGED <<known, cycle, cut, traps, jobs, untold, reported, faults>>

WriteTopologyLinkFails(l) ==
  /\ l \in sent /\ Pair(l) \subseteq known /\ Fault
  /\ sent' = sent \ {l}
  /\ UNCHANGED <<known, linkRows, relation, cycle, off, cut, traps, jobs, untold, reported>>

-----------------------------------------------------------------------------
(* Traps (handleLinkTrap, CorrelateLinkByPort, SetLinkActive).             *)

\* A cable is cut or mended: each end sends a trap, which UDP may lose.
Flap(c) ==
  /\ Fault
  /\ cut' = IF c \in cut THEN cut \ {c} ELSE cut \cup {c}
  /\ reported' = reported \cup {c}
  /\ \E S \in SUBSET c :
       traps' = traps \cup {[dev |-> e[1], port |-> e[2], down |-> c \notin cut, nr |-> faults] : e \in S}
  /\ UNCHANGED <<known, linkRows, relation, cycle, sent, off, jobs, untold>>

\* The IF-MIB counts ports from 1.
IfIndex(t) == t.port + 1

PortCandidatesMut(t) ==
  CASE Form[t.dev] = "name"  -> {t.port}
    [] Form[t.dev] = "index" -> {IfIndex(t)}
    [] OTHER                 -> {}

\* The ports a trap may mean: the digits at the end of ifName, which count from 0,
\* or ifIndex - 1.
PortCandidates(t) ==
  CASE Form[t.dev] = "name"  -> {t.port}
    [] Form[t.dev] = "index" -> {IfIndex(t) - 1}
    [] OTHER                 -> {}

\* The rows of the network layer with such a port at that device.
CorrelateLinkByPort(t) ==
  {l \in linkRows : l.layer = "network" /\ \E p \in PortCandidates(t) : <<t.dev, p>> \in Ends(l)}

\* A free worker looks a trap up; the first row found is taken.
Correlate(t) ==
  /\ t \in traps /\ t.dev \in known /\ Cardinality(jobs) < NWorkers
  /\ traps' = traps \ {t}
  /\ \E l \in CorrelateLinkByPort(t) : jobs' = jobs \cup {[trap |-> t, row |-> l, step |-> "set"]}
  /\ UNCHANGED <<known, linkRows, relation, cycle, sent, off, cut, untold, reported, faults>>

\* The device or its link is unknown, or the lookup fails: the trap is stored as a
\* plain event, which says nothing of a link.
PlainEvent(t) ==
  /\ t \in traps /\ Cardinality(jobs) < NWorkers
  /\ \/ (t.dev \notin known \/ CorrelateLinkByPort(t) = {}) /\ UNCHANGED faults
     \/ Fault
  /\ traps' = traps \ {t}
  /\ UNCHANGED <<known, linkRows, relation, cycle, sent, off, cut, jobs, untold, reported>>

\* UPDATE ... WHERE is_active <> desired: the rows of both directions between
\* the two devices, and of every cable between them.
SetLinkActive(l, down) ==
  {m \in linkRows : m.layer = l.layer /\ Pair(m) = Pair(l) /\ ((m \in off) # down)}

\* One event for a statement that changed something.
SetActive(j) ==
  /\ j.step = "set"
  /\ LET hit == SetLinkActive(j.row, j.trap.down) IN
       /\ off' = IF j.trap.down THEN off \cup hit ELSE off \ hit
       /\ jobs' = (jobs \ {j}) \cup (IF hit = {} THEN {} ELSE {[j EXCEPT !.step = "tell"]})
  /\ untold' = untold + (IF off' # off THEN 1 ELSE 0)
  /\ UNCHANGED <<known, linkRows, relation, cycle, sent, cut, traps, reported, faults>>

SetActiveFails(j) ==
  /\ j.step = "set" /\ Fault
  /\ jobs' = jobs \ {j}
  /\ UNCHANGED <<known, linkRows, relation, cycle, sent, off, cut, traps, untold, reported>>

\* The insert of the event, whose failure is logged and no more.
WriteLinkEvent(j) ==
  /\ j.step = "tell"
  /\ untold' = untold - 1
  /\ jobs' = jobs \ {j}
  /\ UNCHANGED <<known, linkRows, relation, cycle, sent, off, cut, traps, reported, faults>>

-----------------------------------------------------------------------------
\* The hub was stopped with some cables cut and their links off.
LinksInit ==
  /\ cut \in SUBSET Loose /\ reported = cut
  /\ off = {l \in Stored : l.layer = "network" /\ \E c \in cut : Between(c) = Pair(l)}
  /\ known = Early /\ cycle = 0 /\ sent = {} /\ linkRows = Stored
  /\ relation = [l \in Links |-> "peer"]
  /\ traps = {} /\ jobs = {} /\ untold = 0 /\ faults = 0

Reporting == EmitTopologyLinks \/ SkipCycle

Working ==
  \/ \E t \in traps : Correlate(t) \/ PlainEvent(t)
  \/ \E j \in jobs : SetActive(j) \/ SetActiveFails(j) \/ WriteLinkEvent(j)

LinksNext ==
  \/ \E d \in Devices : Register(d)
  \/ Reporting
  \/ \E l \in Links : WriteTopologyLink(l) \/ WriteTopologyLinkFails(l)
  \/ \E c \in Loose : Flap(c)
  \/ Working

LinksTypeOK ==
  /\ known \subseteq Devices /\ cycle \in 0 .. (Warmup + Reassert)
  /\ sent \subseteq Links /\ linkRows \subseteq Links /\ off \subseteq linkRows
  /\ \A l \in linkRows : Pair(l) \subseteq known
  /\ relation \in [Links -> {"peer", "uplink", "downlink"}]
  /\ cut \subseteq Cables /\ reported \subseteq Cables
  /\ traps \subseteq [dev : Devices, port : Port, down : BOOLEAN, nr : 0 .. MaxFaults]
  /\ \A j \in jobs : j.row \in linkRows /\ j.step \in {"set", "tell"}
  /\ Cardinality(jobs) <= NWorkers /\ untold \in Int /\ faults \in 0 .. MaxFaults

-----------------------------------------------------------------------------
(* Properties.                                                             *)

\* handleLinkTrap's promise of one event per transition: two workers, the traps
\* of both ends and of parallel cables never make an event for a statement that
\* changed nothing, nor miss one that did.
OneEventPerTurn == untold = Cardinality({j \in jobs : j.step = "tell"})

\* A link is off only when a cable between its two devices was really cut, never
\* because its neighbour on the next port was (portCandidates).
OnlyCutIsOff == \A l \in off : \E c \in reported : Between(c) = Pair(l)

\* A report of the topology file never turns a broken link back on: only a
\* linkUp for the two devices does (UpsertLinks leaves is_active alone).
OnlyTrapTurnsOn ==
  [][\A l \in off \ off' : \E j \in jobs :
       j.step = "set" /\ ~j.trap.down /\ Pair(j.row) = Pair(l)]_<<off, jobs>>

\* The two directions of a link are on or off together.
NeverHalfStale ==
  \A l, m \in linkRows : l.layer = m.layer /\ Pair(l) = Pair(m) => (l \in off <=> m \in off)

\* Every link of the file between two devices the hub knows is stored in the end,
\* however late they registered and however many reports were dropped.
EveryLinkStored == []<>(\A l \in Links : Pair(l) \subseteq known => l \in linkRows)
=============================================================================
