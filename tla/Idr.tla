-------------------------------- MODULE Idr --------------------------------
(***************************************************************************)
(* The host agent (fwIDR): a collection loop that pushes packets into a    *)
(* persistent queue, and a publisher that pops them one at a time and      *)
(* sends them on a client stream, with the hub's end of that stream        *)
(* (PushStream).  Nothing on the stream is acknowledged before it is       *)
(* closed: a packet Send took may be in a transport buffer, in the hub's   *)
(* buffer or in the hub's pipeline.                                        *)
(*                                                                         *)
(* The agent's collectors leave the severity of a packet empty, so a full  *)
(* queue refuses every packet and the eviction branch of Push is dead.     *)
(* Dialling does not block: it fails only on a broken TLS configuration,   *)
(* and then the agent never gets further; the reconnect loop has no pause  *)
(* for a hub that does not answer.                                         *)
(***************************************************************************)
EXTENDS Integers, Sequences, FiniteSets, SequencesExt

CONSTANTS
  NPackets,    \* bound: packets collected
  QueueCap,    \* entries that make LeafInuse reach max_bytes
  FlushAt,     \* packets PushStream hands on together (256)
  MaxWire,     \* bound: packets in transport buffers
  MaxBreaks,   \* bound: streams that break
  MaxOutages,  \* bound: times the hub goes away
  MaxRejects,  \* bound: submissions a full pipeline refuses
  MaxStops,    \* bound: stops and crashes of the agent
  MaxCorrupt   \* bound: damaged entries

Readings == 1..NPackets
None    == 0
Bounds  == {"breaks", "outages", "rejects", "stops", "corrupt"}

ASSUME IdrAssumption ==
  /\ NPackets \in Nat /\ QueueCap \in Nat /\ FlushAt \in Nat \ {0} /\ MaxWire \in Nat
  /\ MaxBreaks \in Nat /\ MaxOutages \in Nat /\ MaxRejects \in Nat /\ MaxStops \in Nat
  /\ MaxCorrupt \in Nat

VARIABLES
  made,    \* packets collected so far
  q,       \* bbolt bucket: entries in key order
  damaged, \* entries whose bytes no longer decode
  pc,      \* publisher: "connect", "open", "drain", "send", "off"
  held,    \* packet popped and not yet sent
  stream,  \* "none", "up", or "broken": not yet noticed by the publisher
  wire,    \* packets Send took that the hub has not received
  buf,     \* PushStream's buffer
  done,    \* packets in the hub's pipeline
  lost,    \* history: packets that are nowhere any more, with the place they were in
  hub,     \* the hub answers
  stopping,\* ctx is done
  left     \* how much of each bound is left

idrVars == <<made, q, damaged, pc, held, stream, wire, buf, done, lost, hub, stopping, left>>

hubSide == <<stream, wire, buf, done>>

Use(bound) == left[bound] > 0 /\ left' = [left EXCEPT ![bound] = @ - 1]

Gone(ps, place) == {<<p, place>> : p \in ps}

-----------------------------------------------------------------------------
(* Queue                                                                   *)

Full == Len(q) >= QueueCap

\* The packets Push refuses.
Refused(p) == IF Full THEN {p} ELSE {}

Push(p) == q' = IF Full THEN q ELSE Append(q, p)

Collect ==
  /\ ~stopping /\ pc # "off" /\ made < NPackets
  /\ made' = made + 1
  /\ Push(made + 1)
  /\ lost' = lost \cup Gone(Refused(made + 1), "queue")
  /\ UNCHANGED <<damaged, pc, held, hubSide, hub, stopping, left>>

PopMut ==
  /\ pc = "drain" /\ ~stopping /\ q # <<>>
  /\ Head(q) \notin damaged
  /\ held' = Head(q) /\ pc' = "send"
  /\ UNCHANGED <<made, q, damaged, hubSide, lost, hub, stopping, left>>

\* An entry damaged on disk: the error Unmarshal returns rolls back the
\* transaction, the Delete in it included, and the loop tries the same entry again.
Pop ==
  /\ pc = "drain" /\ ~stopping /\ q # <<>>
  /\ Head(q) \notin damaged
  /\ q' = Tail(q) /\ held' = Head(q) /\ pc' = "send"
  /\ UNCHANGED <<made, damaged, hubSide, lost, hub, stopping, left>>

Damage ==
  /\ \E i \in DOMAIN q : damaged' = damaged \cup {q[i]}
  /\ Use("corrupt")
  /\ UNCHANGED <<made, q, pc, held, hubSide, lost, hub, stopping>>

-----------------------------------------------------------------------------
(* Publisher                                                               *)

Connect ==
  /\ pc = "connect" /\ ~stopping
  /\ pc' = "open"
  /\ UNCHANGED <<made, q, damaged, held, hubSide, lost, hub, stopping, left>>

OpenStream ==
  /\ pc = "open" /\ hub /\ ~stopping
  /\ pc' = "drain" /\ stream' = "up"
  /\ UNCHANGED <<made, q, damaged, held, wire, buf, done, lost, hub, stopping, left>>

OpenFailsMut ==
  /\ pc = "open" /\ (~hub \/ stopping)
  /\ pc' = "drain"
  /\ UNCHANGED <<made, q, damaged, held, hubSide, lost, hub, stopping, left>>

OpenFails ==
  /\ pc = "open" /\ (~hub \/ stopping)
  /\ pc' = "connect"
  /\ UNCHANGED <<made, q, damaged, held, hubSide, lost, hub, stopping, left>>

Send ==
  /\ pc = "send" /\ stream = "up" /\ Len(wire) < MaxWire
  /\ wire' = Append(wire, held) /\ held' = None /\ pc' = "drain"
  /\ UNCHANGED <<made, q, damaged, stream, buf, done, lost, hub, stopping, left>>

SendFailsMut ==
  /\ pc = "send" /\ stream = "broken"
  /\ held' = None /\ pc' = "connect" /\ stream' = "none"
  /\ UNCHANGED <<made, q, damaged, wire, buf, done, lost, hub, stopping, left>>

\* The packet goes back to the tail of a queue the collectors may have filled.
SendFails ==
  /\ pc = "send" /\ stream = "broken"
  /\ Push(held) /\ lost' = lost \cup Gone(Refused(held), "requeue")
  /\ held' = None /\ pc' = "connect" /\ stream' = "none"
  /\ UNCHANGED <<made, damaged, wire, buf, done, hub, stopping, left>>

-----------------------------------------------------------------------------
(* The hub's PushStream                                                    *)

\* Submit: taken by the pipeline or, when it is full, dropped: no one tells the agent.
Submit(ps, others, budget) ==
  \/ done' = done \cup ps /\ lost' = lost \cup others /\ left' = budget
  \/ /\ ps # {} /\ budget["rejects"] > 0
     /\ done' = done /\ lost' = lost \cup others \cup Gone(ps, "pipeline")
     /\ left' = [budget EXCEPT !["rejects"] = @ - 1]

\* The stream ends: what the transport held is gone, and a hub that is there
\* submits PushStream's buffer when Recv fails.
EndStream(bound, others) ==
  /\ left[bound] > 0
  /\ wire' = <<>> /\ buf' = <<>>
  /\ Submit(ToSet(buf), others \cup Gone(ToSet(wire), "wire"), [left EXCEPT ![bound] = @ - 1])

Broken == IF stream = "up" THEN "broken" ELSE stream

Receive ==
  /\ stream = "up" /\ hub /\ wire # <<>>
  /\ wire' = Tail(wire)
  /\ LET b == Append(buf, Head(wire))
     IN  IF Len(b) < FlushAt THEN buf' = b /\ UNCHANGED <<done, lost, left>>
         ELSE buf' = <<>> /\ Submit(ToSet(b), {}, left)
  /\ UNCHANGED <<made, q, damaged, pc, held, stream, hub, stopping>>

StreamBreaks ==
  /\ stream = "up" /\ hub /\ EndStream("breaks", {})
  /\ stream' = "broken"
  /\ UNCHANGED <<made, q, damaged, pc, held, hub, stopping>>

HubFails ==
  /\ hub /\ Use("outages")
  /\ hub' = FALSE
  /\ stream' = Broken /\ wire' = <<>> /\ buf' = <<>>
  /\ lost' = lost \cup Gone(ToSet(wire), "wire") \cup Gone(ToSet(buf), "hub")
  /\ UNCHANGED <<made, q, damaged, pc, held, done, stopping>>

HubReturns ==
  /\ ~hub /\ hub' = TRUE
  /\ UNCHANGED <<made, q, damaged, pc, held, hubSide, lost, stopping, left>>

-----------------------------------------------------------------------------
(* The process                                                             *)

\* SIGTERM cancels the context the stream was opened with: the stream ends at
\* once, before CloseAndRecv, and what it still held is not delivered.
Cancel ==
  /\ ~stopping /\ pc # "off" /\ EndStream("stops", {})
  /\ stopping' = TRUE /\ stream' = Broken
  /\ UNCHANGED <<made, q, damaged, pc, held, hub>>

\* drain and Run see ctx done; the queue is closed after both goroutines ended.
Exit ==
  /\ stopping /\ pc \in {"connect", "drain"}
  /\ pc' = "off" /\ stream' = "none"
  /\ UNCHANGED <<made, q, damaged, held, wire, buf, done, lost, hub, stopping, left>>

Kill ==
  /\ pc # "off" /\ EndStream("stops", Gone({held} \ {None}, "held"))
  /\ pc' = "off" /\ held' = None /\ stream' = "none"
  /\ UNCHANGED <<made, q, damaged, hub, stopping>>

Restart ==
  /\ pc = "off"
  /\ pc' = "connect" /\ stopping' = FALSE
  /\ UNCHANGED <<made, q, damaged, held, hubSide, lost, hub, left>>

-----------------------------------------------------------------------------
IdrInit ==
  /\ made = 0 /\ q = <<>> /\ damaged = {} /\ pc = "connect" /\ held = None
  /\ stream = "none" /\ wire = <<>> /\ buf = <<>> /\ done = {} /\ lost = {}
  /\ hub \in BOOLEAN /\ stopping = FALSE
  /\ left = [b \in Bounds |-> CASE b = "breaks"  -> MaxBreaks
                              [] b = "outages" -> MaxOutages
                              [] b = "rejects" -> MaxRejects
                              [] b = "stops"   -> MaxStops
                              [] b = "corrupt" -> MaxCorrupt]

Publisher == Connect \/ OpenStream \/ OpenFails \/ Pop \/ Send \/ SendFails \/ Exit

IdrNext ==
  \/ Collect \/ Publisher \/ Receive \/ Damage
  \/ StreamBreaks \/ HubFails \/ HubReturns \/ Cancel \/ Kill \/ Restart

IdrSpec == IdrInit /\ [][IdrNext]_idrVars

(***************************************************************************)
(* Both goroutines run, the hub comes back, and a supervisor restarts an   *)
(* agent that ended.                                                       *)
(***************************************************************************)
IdrFairSpec ==
  /\ IdrSpec
  /\ WF_idrVars(Publisher) /\ WF_idrVars(Receive) /\ WF_idrVars(HubReturns) /\ WF_idrVars(Restart)

-----------------------------------------------------------------------------
(* Properties                                                              *)

Queued   == ToSet(q)
LostOnes == {l[1] : l \in lost}
Places   == <<Queued, {held} \ {None}, ToSet(wire), ToSet(buf), done, LostOnes>>

\* Type correctness of the agent and the hub's end of the stream.
IdrTypeOK ==
  /\ made \in 0..NPackets
  /\ q \in Seq(Readings) /\ Len(q) <= QueueCap /\ damaged \subseteq Readings
  /\ pc \in {"connect", "open", "drain", "send", "off"}
  /\ held \in Readings \cup {None} /\ (held # None) = (pc = "send")
  /\ stream \in {"none", "up", "broken"} /\ (stream # "none" => pc \in {"drain", "send"})
  /\ wire \in Seq(Readings) /\ Len(wire) <= MaxWire
  /\ buf \in Seq(Readings) /\ Len(buf) < FlushAt /\ (wire \o buf # <<>> => stream = "up")
  /\ done \subseteq Readings
  /\ lost \subseteq Readings \X {"queue", "requeue", "wire", "pipeline", "hub", "held"}
  /\ hub \in BOOLEAN /\ stopping \in BOOLEAN
  /\ left \in [Bounds -> Nat]

\* Through send failures, requeues, broken streams, hub outages, stops and crashes a
\* packet is in one place only: it is never sent twice, and when it is lost the
\* place it was lost from is one of the six the code has.
InOnePlace ==
  /\ UNION ToSet(Places) = 1..made
  /\ \A i, j \in DOMAIN Places : i # j => Places[i] \cap Places[j] = {}
  /\ \A s \in {q, wire, buf} : Len(s) = Cardinality(ToSet(s))
  /\ Cardinality(lost) = Cardinality(LostOnes)

\* The agent's and the hub's state is well formed, and holds every packet once.
PacketsAccounted == IdrTypeOK /\ InOnePlace

\* While the hub is away nothing leaves the disk: an outage costs what was in
\* flight when it began and at most the one packet popped for the broken
\* stream, and that one only when the queue was full again.
OutageKeepsQueue ==
  [][ (~hub /\ ~hub' /\ pc' # "off") =>
        (Queued \cup ({held} \ {None})) \subseteq
           (Queued' \cup ({held'} \ {None}) \cup {l[1] : l \in {x \in lost' : x[2] = "requeue"}}) ]_idrVars

\* Whatever breaks, a queued packet is taken in the end, unless an entry is damaged.
QueueDrains ==
  \A p \in Readings : p \in Queued ~> (p \notin Queued \/ damaged # {})

\* A damaged entry at the head does not stay there (queue.go 116).
DamagedEntryLeaves ==
  \A p \in Readings : (q # <<>> /\ Head(q) = p /\ p \in damaged) ~> (p \notin Queued)
=============================================================================
