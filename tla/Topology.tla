------------------------------ MODULE Topology ------------------------------
(***************************************************************************)
(* The hub's topology runner (fwDCS/main.go, store/hierarchy.go) on the    *)
(* link table that Links keeps: now and again, for every network, it reads *)
(* the devices and the links, builds a spanning tree breadth first, writes *)
(* it in three statements that are not one transaction, and classifies the *)
(* devices.  Reports and traps change the table meanwhile.                 *)
(***************************************************************************)
EXTENDS Links, Classifier, SequencesExt

CONSTANTS
  NetOf,      \* network of each device
  Root,       \* topology.root: the device of the hint, 0 without one
  Admins      \* devices whose role an operator overrides

ASSUME TopologyAssumption ==
  /\ DOMAIN NetOf = Devices /\ Root \in Nat /\ Admins \subseteq Devices
  /\ TypeOf \in [Devices -> STRING]

VARIABLES
  run,        \* the runner: its step, network, networks left, devices and result
  role,       \* device_role of each device
  overridden, \* role_overridden
  fresh       \* history: networks whose last run is on the devices and links there
              \* are, and has not failed

tvars == <<run, role, overridden, fresh>>
topologyVars == <<known, linkRows, relation, link, faults, tvars>>

Nets       == {NetOf[d] : d \in Devices}
InNet(n)   == {d \in known : NetOf[d] = n}
NetRows(n) == {l \in linkRows : NetOf[l.src] = n}

-----------------------------------------------------------------------------
(* The tree (RecomputeHierarchy).                                          *)

\* The links of the network layer that devices of the network report, as pairs
\* in both directions.
Graph(n) ==
  LET ls == {l \in NetRows(n) : l.layer = "network" /\ l.src # l.dst}
  IN  {<<l.src, l.dst>> : l \in ls} \cup {<<l.dst, l.src>> : l \in ls}

Neighbours(g, d) == {e[2] : e \in {f \in g : f[1] = d}}
Degree(g, d)     == Cardinality(Neighbours(g, d))

HighestDegreeUnvisited(g, left) ==
  CHOOSE d \in left : \A e \in left :
    Degree(g, d) > Degree(g, e) \/ (Degree(g, d) = Degree(g, e) /\ d <= e)

\* The devices of a set in the order of their ids: sort.Strings.
InOrder(S) == [k \in 1 .. Cardinality(S) |-> CHOOSE d \in S : Cardinality({e \in S : e <= d}) = k]

\* bfs on [queue, parent]: the head's neighbours that have no parent yet are
\* given it as theirs, and a new root is taken when the queue is empty.
Hang(parent, S, p) == [d \in DOMAIN parent \cup S |-> IF d \in S THEN p ELSE parent[d]]

BfsRoot(s, root) == [queue |-> <<root>>, parent |-> Hang(s.parent, {root}, 0)]

BfsVisitMut(g, s) ==
  LET cur == Head(s.queue)
      new == {n \in Neighbours(g, cur) : n \notin DOMAIN s.parent \/ n \in Range(Tail(s.queue))}
  IN  [queue |-> Tail(s.queue) \o InOrder(new), parent |-> Hang(s.parent, new, cur)]

BfsVisit(g, s) ==
  LET cur == Head(s.queue)
      new == Neighbours(g, cur) \ DOMAIN s.parent
  IN  [queue |-> Tail(s.queue) \o InOrder(new), parent |-> Hang(s.parent, new, cur)]

BfsStep(g, ids, s) ==
  LET left == ids \ DOMAIN s.parent IN
  IF s.queue # <<>> THEN BfsVisit(g, s)
  ELSE IF left = {} THEN s
  ELSE BfsRoot(s, HighestDegreeUnvisited(g, left))

\* The only state after so many steps; every device is a root or is visited once.
Bfs(g, ids) ==
  LET none  == [queue |-> <<>>, parent |-> [d \in {} |-> 0]]
      first == IF Root \in ids THEN BfsRoot(none, Root) ELSE none
      after[k \in 0 .. 2 * Cardinality(Devices)] ==
        IF k = 0 THEN {first} ELSE {BfsStep(g, ids, s) : s \in after[k - 1]}
  IN  (CHOOSE s \in after[2 * Cardinality(Devices)] : TRUE).parent

\* Child and parent of the tree's edges, for the children of the network.
TreeEdges(parent, ids) == {<<d, parent[d]>> : d \in {e \in ids : parent[e] # 0}}

-----------------------------------------------------------------------------
(* The runner.                                                             *)

Stopped == [step |-> "idle"]

\* The networks of the devices there are; none known means none to do.
StartRun ==
  /\ run = Stopped /\ known # {}
  /\ run' = [step |-> "net", left |-> {NetOf[d] : d \in known}]
  /\ UNCHANGED <<known, linkRows, relation, link, faults, role, overridden, fresh>>

NextNet(left) == IF left = {} THEN Stopped ELSE [step |-> "net", left |-> left]

\* Query of the devices.
LoadDevices ==
  /\ run.step = "net"
  /\ \E n \in run.left :
       /\ run' = [step |-> "edges", left |-> run.left \ {n}, net |-> n, ids |-> InNet(n)]
       /\ fresh' = fresh \cup {n}
  /\ UNCHANGED <<known, linkRows, relation, link, faults, role, overridden>>

\* Query of the edges, and the tree in memory.
LoadEdges ==
  /\ run.step = "edges"
  /\ \E g \in {Graph(run.net)} : \E parent \in {Bfs(g, run.ids)} :
       run' = [step |-> "reset", left |-> run.left, net |-> run.net, ids |-> run.ids,
               tree |-> TreeEdges(parent, run.ids)]
  /\ UNCHANGED <<known, linkRows, relation, link, faults, role, overridden, fresh>>

Relate(S, r) == relation' = [l \in Links |-> IF l \in S THEN r ELSE relation[l]]

\* All links of the network become peers.
ResetRelation ==
  /\ run.step = "reset"
  /\ Relate(NetRows(run.net), "peer")
  /\ run' = [run EXCEPT !.step = "up"]
  /\ UNCHANGED <<known, linkRows, link, faults, role, overridden, fresh>>

\* Then the child's reports of tree edges become uplinks, whatever their layer.
MarkUplinks ==
  /\ run.step = "up"
  /\ Relate({l \in linkRows : <<l.src, l.dst>> \in run.tree}, "uplink")
  /\ run' = [run EXCEPT !.step = "down"]
  /\ UNCHANGED <<known, linkRows, link, faults, role, overridden, fresh>>

\* And the parent's become downlinks.
MarkDownlinks ==
  /\ run.step = "down"
  /\ Relate({l \in linkRows : <<l.dst, l.src>> \in run.tree}, "downlink")
  /\ run' = [step |-> "classify", left |-> run.left, net |-> run.net]
  /\ UNCHANGED <<known, linkRows, link, faults, role, overridden, fresh>>

\* ClassifyRoles: two queries, taken together, ...
LoadRoles ==
  /\ run.step = "classify"
  /\ \E g \in {Graph(run.net)} : \E ids \in {InNet(run.net)} :
       run' = [step |-> "roles", left |-> run.left, net |-> run.net,
               roles |-> [d \in ids |-> RoleOf(d, Neighbours(g, d), ids)]]
  /\ UNCHANGED <<known, linkRows, relation, link, faults, role, overridden, fresh>>

\* ... and an update that leaves overridden rows alone.
Assignable(d) == d \in DOMAIN run.roles /\ d \notin overridden

PersistRoles ==
  /\ run.step = "roles"
  /\ role' = [d \in Devices |-> IF Assignable(d) THEN run.roles[d] ELSE role[d]]
  /\ run' = NextNet(run.left)
  /\ UNCHANGED <<known, linkRows, relation, link, faults, overridden, fresh>>

AfterFailureMut == [run EXCEPT !.step = "stuck"]

\* A statement fails: the runner goes on with the next network; what it has
\* written of this one stays.
AfterFailure == NextNet(run.left)

RunFails ==
  /\ run # Stopped /\ run.step # "net" /\ Fault
  /\ run' = AfterFailure
  /\ fresh' = fresh \ {run.net}
  /\ UNCHANGED <<known, linkRows, relation, link, role, overridden>>

\* The query for the networks fails: nothing is done this time.
StartFails ==
  /\ run.step = "net" /\ Fault
  /\ run' = Stopped
  /\ UNCHANGED <<known, linkRows, relation, link, role, overridden, fresh>>

\* An operator sets the role of a device.
Override(d) ==
  /\ d \in known \ overridden /\ Fault
  /\ overridden' = overridden \cup {d}
  /\ role' = [role EXCEPT ![d] = "admin"]
  /\ UNCHANGED <<known, linkRows, relation, link, run, fresh>>

-----------------------------------------------------------------------------
TopologyInit ==
  /\ LinksInit
  /\ run = Stopped /\ role = [d \in Devices |-> "none"] /\ overridden = {}
  /\ fresh = {}

Runner ==
  StartRun \/ LoadDevices \/ LoadEdges \/ ResetRelation \/ MarkUplinks \/ MarkDownlinks
  \/ LoadRoles \/ PersistRoles

\* A network is no longer fresh when a device or a link is added to it.
Notice ==
  /\ fresh' = {n \in fresh : InNet(n)' = InNet(n) /\ NetRows(n)' = NetRows(n)}
  /\ UNCHANGED <<run, role, overridden>>

TopologyNext ==
  \/ LinksNext /\ Notice
  \/ Runner
  \/ RunFails \/ StartFails
  \/ \E d \in Admins : Override(d)

TopologySpec == TopologyInit /\ [][TopologyNext]_topologyVars

\* Timers fire and statements return.  The channel has room again and again, so a
\* link that is reported for ever gets through.
TopologyFairSpec ==
  /\ TopologySpec
  /\ WF_topologyVars(Reporting /\ Notice)
  /\ WF_topologyVars(Runner)
  /\ WF_topologyVars(Working /\ Notice)
  /\ \A l \in Links \ Stored : SF_topologyVars(EmitTopologyLinks /\ l \in sent' /\ Notice)
  /\ \A l \in Links : WF_topologyVars(WriteTopologyLink(l) /\ Notice)

-----------------------------------------------------------------------------
(* Properties.                                                             *)

\* The state is well formed.
TopologyTypeOK ==
  /\ LinksTypeOK
  /\ run.step \in {"idle", "net", "edges", "reset", "up", "down", "classify", "roles"}
  /\ overridden \subseteq Admins
  /\ fresh \subseteq Nets

\* The state is well formed; every change of a link's state has one event; and a
\* link is off only when one of the cables between its devices was cut.
LinkStateTrue == TopologyTypeOK /\ OneEventPerTurn /\ OnlyCutIsOff

\* What the relations say of a network: children and their parents.
Marked(n) ==
  {<<l.src, l.dst>> : l \in {m \in linkRows : NetOf[m.src] = n /\ relation[m] = "uplink"}}
  \cup {<<l.dst, l.src>> : l \in {m \in linkRows : NetOf[m.dst] = n /\ relation[m] = "downlink"}}

\* Distance in a graph by its definition: the least number of edges.
Ball(g, d) ==
  LET within[k \in 0 .. Cardinality(Devices)] ==
        IF k = 0 THEN {d} ELSE within[k - 1] \cup UNION {Neighbours(g, e) : e \in within[k - 1]}
  IN  within
Reach(g, d)   == Ball(g, d)[Cardinality(Devices)]
Dist(g, d, e) == Min({k \in 0 .. Cardinality(Devices) : e \in Ball(g, d)[k]})

\* The relations are a forest of shortest paths: in each part of the network one
\* device without a parent, the configured root or one with the most neighbours,
\* and every other device one step behind its only parent.
IsShortestPathTree(n) ==
  LET g == Graph(n)
      t == Marked(n)
      Parents(d) == {e[2] : e \in {f \in t : f[1] = d}}
      Part(d)    == Reach(g, d) \cap InNet(n)
      Roots(d)   == {r \in Part(d) : Parents(r) = {}}
  IN  /\ t \subseteq g
      /\ \A d \in InNet(n) :
           \E r \in Part(d) :
             /\ Roots(d) = {r}
             /\ IF Root \in Part(d) THEN r = Root ELSE \A e \in Part(d) : Degree(g, r) >= Degree(g, e)
             /\ d # r => \E p \in Devices : Parents(d) = {p} /\ Dist(g, r, d) = Dist(g, r, p) + 1

\* A run of the network ended, on the devices and links there are.
Current(n) == n \in fresh /\ ~(run.step \notin {"idle", "net"} /\ run.net = n)

\* Devices of the network have links to one device of another network, so that its
\* tree may lead through that device.
Crossed(n) == \E e, f \in Graph(n) : e[1] # f[1] /\ e[2] = f[2] /\ NetOf[e[2]] # n

\* Whenever a run has ended and nothing was added since it read the tables, the
\* relations are a tree of shortest paths and the roles those that the neighbours
\* of each device now speak for, through failed runs, traps, reports, and the runs of
\* other networks it has links to.  Only the tree of a network that is crossed may be
\* another: a downlink may be a row of the other network, which only that one resets.
\* The tree in memory hangs devices of the network only, and a role an operator set is
\* kept, also when it is set between the queries and the update.
RunnerResult ==
  /\ run.step \in {"reset", "up", "down"} => run.tree \subseteq run.ids \X Devices
  /\ \A d \in overridden : role[d] = "admin"
  /\ \A n \in Nets : Current(n) =>
       /\ Crossed(n) \/ IsShortestPathTree(n)
       /\ \A d \in InNet(n) \ overridden :
            role[d] = RoleOf(d, Neighbours(Graph(n), d), InNet(n))

\* A run that failed half way, or that read the tables before the last link came,
\* is made good: again and again the tree and the roles of all networks are current.
CatchesUp == []<>(\A n \in Nets : InNet(n) # {} => Current(n))

\* "a settled tree produces zero updated rows": a run on relations that are already
\* the tree it has computed updates no link.
SettledTreeQuiet ==
  [][run.step \in {"reset", "up", "down"} /\ Marked(run.net) = run.tree => relation' = relation]_relation
=============================================================================
