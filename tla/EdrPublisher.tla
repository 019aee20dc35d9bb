---------------------------- MODULE EdrPublisher ----------------------------
(***************************************************************************)
(* From a collected packet to the hub, inside one collector process: the   *)
(* fan-in goroutine of fwEDR/main.go batches packets into the persistent   *)
(* queue, the publisher (fwEDR/internal/publisher) pops batches and ships  *)
(* up to MaxInFlight of them at once with BatchPush, requeues the ones     *)
(* that fail, and closes the collection gate (fwEDR/internal/health) while *)
(* the hub is unreachable.  The process may be stopped or killed at any    *)
(* moment and started again on the same queue file.                        *)
(*                                                                         *)
(* Packets are numbered in the order they are collected.  The queue is the *)
(* atomic one that EdrQueue implements, with packets of one byte each, so  *)
(* that the byte limit is a number of packets.                             *)
(***************************************************************************)
EXTENDS Integers, Sequences, FiniteSets, SequencesExt

CONSTANTS
  NPackets,     \* bound: packets collected in a behaviour
  Urgent,       \* the packets of severity critical or major: traps
  BatchSize,    \* publisher.batch_size, for the fan-in and for the drain
  MaxInFlight,  \* publisher.max_in_flight
  QueueCap,     \* queue.max_bytes, in packets
  DownAfter,    \* publisher.dcs_down_after
  MaxPolls,     \* polls that can be under way at once
  MaxAttempts,  \* tries of a flush before it drops (50 in the code)
  MaxRejects,   \* bound: batches the hub turns away because it is full
  MaxFlaps,     \* bound: times the hub goes down
  MaxStops      \* bound: times the process ends

ASSUME PublisherAssumption ==
  /\ NPackets \in Nat /\ Urgent \subseteq 1..NPackets
  /\ BatchSize \in Nat \ {0} /\ MaxInFlight \in Nat \ {0}
  /\ QueueCap \in Nat \ {0} /\ DownAfter \in Nat \ {0}
  /\ MaxPolls \in Nat \ {0} /\ MaxAttempts \in Nat \ {0}
  /\ MaxRejects \in Nat /\ MaxFlaps \in Nat /\ MaxStops \in Nat

Slots == 1..MaxInFlight

VARIABLES
  collected,   \* packets collected so far: 1..collected
  polls,       \* SNMP polls that passed the gate and have not emitted yet
  pktCh,       \* the fan-in channel
  buf,         \* the fan-in goroutine's buffer
  faninPc,     \* "select", "flush" or "done"
  attempts,    \* failed attempts of the flush under way
  q,           \* the queue on disk
  drainPc,     \* "connect", "loop", "parked", "held", "wait" or "done"
  held,        \* the batch popped and not yet handed to a sender
  sends,       \* per in-flight slot: its batch and where sendBatch is
  failStreak,  \* Publisher.failStreak, saturating at DownAfter
  dcsDown,     \* Gate.dcsDown
  proc,        \* "run", "cancelled" (ctx done) or "dead"
  dcsUp,       \* the hub is reachable
  delivered,   \* packets the hub's ingest channel has taken
  lost,        \* history: <<packet, cause>> of packets the program let go
  rejects, flaps, stops \* how often the environment has interfered

edr    == <<pktCh, buf, faninPc, attempts, drainPc, held, sends, failStreak, dcsDown>>
budget == <<rejects, flaps, stops>>
vars   == <<collected, polls, q, proc, dcsUp, delivered, lost, edr, budget>>

Idle == [st |-> "idle", batch |-> <<>>]

Alive == proc # "dead"

-----------------------------------------------------------------------------
(* The queue, as its callers see it.                                       *)

\* PushBatch succeeds when every packet that finds the queue full is urgent.
Fits(s, batch) ==
  \A i \in DOMAIN batch : i > QueueCap - Len(s) => batch[i] \in Urgent

ExcessMut(s, batch) == 0

Excess(s, batch) ==
  IF Len(s) + Len(batch) > QueueCap THEN Len(s) + Len(batch) - QueueCap ELSE 0

\* Each urgent packet that finds the queue full replaces the oldest packet.
Pushed(s, batch) ==
  SubSeq(s \o batch, Excess(s, batch) + 1, Len(s) + Len(batch))

Evicted(s, batch) == ToSet(SubSeq(s \o batch, 1, Excess(s, batch)))

\* A PushBatch whose error the caller drops.
PushOrLose(batch, cause) ==
  IF Fits(q, batch)
  THEN /\ q' = Pushed(q, batch)
       /\ lost' = lost \cup (Evicted(q, batch) \X {"evicted"})
  ELSE /\ lost' = lost \cup (ToSet(batch) \X {cause})
       /\ UNCHANGED q

-----------------------------------------------------------------------------
(* Collection.  A poll reads the gate when it starts; its packet comes     *)
(* later.  A trap is not gated.                                            *)

StartPoll ==
  /\ Alive /\ proc = "run" /\ ~dcsDown /\ polls < MaxPolls
  /\ collected + polls < NPackets
  /\ polls' = polls + 1
  /\ UNCHANGED <<collected, q, proc, dcsUp, delivered, lost, edr, budget>>

Emit ==
  /\ collected' = collected + 1
  /\ pktCh' = Append(pktCh, collected + 1)
  /\ UNCHANGED <<q, proc, dcsUp, delivered, lost, budget,
                 buf, faninPc, attempts, drainPc, held, sends, failStreak, dcsDown>>

EmitPoll ==
  /\ Alive /\ polls > 0
  /\ collected + 1 \in (1..NPackets) \ Urgent
  /\ polls' = polls - 1
  /\ Emit

EmitTrap ==
  /\ Alive /\ proc = "run"
  /\ collected + 1 \in Urgent
  /\ UNCHANGED polls
  /\ Emit

-----------------------------------------------------------------------------
(* The fan-in goroutine of main.go.                                        *)

FaninReceive ==
  /\ Alive /\ faninPc = "select" /\ pktCh # <<>>
  /\ buf' = Append(buf, Head(pktCh))
  /\ pktCh' = Tail(pktCh)
  /\ faninPc' = IF Len(buf') >= BatchSize THEN "flush" ELSE "select"
  /\ attempts' = 0
  /\ UNCHANGED <<collected, polls, q, proc, dcsUp, delivered, lost, budget,
                 drainPc, held, sends, failStreak, dcsDown>>

\* The ticker, or the default branch once ctx is done and the channel is empty.
FaninTick ==
  /\ Alive /\ faninPc = "select" /\ buf # <<>>
  /\ proc = "run" \/ pktCh = <<>>
  /\ faninPc' = "flush" /\ attempts' = 0
  /\ UNCHANGED <<collected, polls, q, proc, dcsUp, delivered, lost, budget, pktCh, buf,
                 drainPc, held, sends, failStreak, dcsDown>>

FaninFlushOk ==
  /\ Alive /\ faninPc = "flush" /\ Fits(q, buf)
  /\ PushOrLose(buf, "flush")
  /\ buf' = <<>> /\ faninPc' = "select"
  /\ UNCHANGED <<collected, polls, proc, dcsUp, delivered, budget, pktCh, attempts,
                 drainPc, held, sends, failStreak, dcsDown>>

FaninFlushRetry ==
  /\ Alive /\ faninPc = "flush" /\ ~Fits(q, buf) /\ attempts + 1 < MaxAttempts
  /\ attempts' = attempts + 1
  /\ UNCHANGED <<collected, polls, q, proc, dcsUp, delivered, lost, budget, pktCh, buf,
                 faninPc, drainPc, held, sends, failStreak, dcsDown>>

FaninFlushDrop ==
  /\ Alive /\ faninPc = "flush" /\ ~Fits(q, buf) /\ attempts + 1 = MaxAttempts
  /\ PushOrLose(buf, "flush")
  /\ buf' = <<>> /\ faninPc' = "select"
  /\ UNCHANGED <<collected, polls, proc, dcsUp, delivered, budget, pktCh, attempts,
                 drainPc, held, sends, failStreak, dcsDown>>

FaninDone ==
  /\ proc = "cancelled" /\ faninPc = "select" /\ buf = <<>> /\ pktCh = <<>>
  /\ faninPc' = "done"
  /\ UNCHANGED <<collected, polls, q, proc, dcsUp, delivered, lost, budget, pktCh, buf,
                 attempts, drainPc, held, sends, failStreak, dcsDown>>

-----------------------------------------------------------------------------
(* recordResult: the streak and the gate change together, under healthMu.  *)

RecordResultMut(ok) ==
  IF ok THEN /\ dcsDown' = FALSE /\ UNCHANGED failStreak
        ELSE /\ failStreak' = IF failStreak < DownAfter THEN failStreak + 1 ELSE failStreak
             /\ dcsDown' = (dcsDown \/ failStreak' >= DownAfter)

RecordResult(ok) ==
  IF ok THEN /\ failStreak' = 0
             /\ dcsDown' = FALSE
        ELSE /\ failStreak' = IF failStreak < DownAfter THEN failStreak + 1 ELSE failStreak
             /\ dcsDown' = (dcsDown \/ failStreak' >= DownAfter)

-----------------------------------------------------------------------------
(* Publisher.Run and drain.                                                *)

\* grpc.DialContext does not block: an unreachable hub shows up in the RPCs.
Connect ==
  /\ Alive /\ drainPc = "connect"
  /\ drainPc' = IF proc = "run" THEN "loop" ELSE "done"
  /\ UNCHANGED <<collected, polls, q, proc, dcsUp, delivered, lost, budget, pktCh, buf,
                 faninPc, attempts, held, sends, failStreak, dcsDown>>

Park ==
  /\ proc = "run" /\ drainPc = "loop" /\ dcsDown
  /\ drainPc' = "parked"
  /\ UNCHANGED <<collected, polls, q, proc, dcsUp, delivered, lost, budget, pktCh, buf,
                 faninPc, attempts, held, sends, failStreak, dcsDown>>

\* An empty BatchPush, whose outcome feeds the gate.
ProbeMut ==
  /\ Alive /\ drainPc = "parked"
  /\ drainPc' = "loop"
  /\ UNCHANGED <<collected, polls, q, proc, dcsUp, delivered, lost, budget, pktCh, buf,
                 faninPc, attempts, held, sends, failStreak, dcsDown>>

Probe ==
  /\ Alive /\ drainPc = "parked"
  /\ RecordResult(dcsUp /\ proc = "run")
  /\ drainPc' = "loop"
  /\ UNCHANGED <<collected, polls, q, proc, dcsUp, delivered, lost, budget, pktCh, buf,
                 faninPc, attempts, held, sends>>

Pop ==
  /\ proc = "run" /\ drainPc = "loop" /\ ~dcsDown /\ q # <<>>
  /\ LET n == IF Len(q) < BatchSize THEN Len(q) ELSE BatchSize IN
       /\ held' = SubSeq(q, 1, n)
       /\ q' = SubSeq(q, n + 1, Len(q))
  /\ drainPc' = "held"
  /\ UNCHANGED <<collected, polls, proc, dcsUp, delivered, lost, budget, pktCh, buf,
                 faninPc, attempts, sends, failStreak, dcsDown>>

\* inFlight <- struct{}{}, then the goroutine that sends.
Dispatch(s) ==
  /\ Alive /\ drainPc = "held"
  /\ sends[s] = Idle /\ \A r \in 1..(s - 1) : sends[r] # Idle
  /\ sends' = [sends EXCEPT ![s] = [st |-> "rpc", batch |-> held]]
  /\ held' = <<>> /\ drainPc' = "loop"
  /\ UNCHANGED <<collected, polls, q, proc, dcsUp, delivered, lost, budget, pktCh, buf,
                 faninPc, attempts, failStreak, dcsDown>>

\* ctx is done while the drain waits for a slot: the batch goes back.
RequeueHeldMut ==
  /\ proc = "cancelled" /\ drainPc = "held"
  /\ held' = <<>> /\ drainPc' = "wait"
  /\ UNCHANGED <<collected, polls, proc, dcsUp, delivered, budget, pktCh, buf, q, lost,
                 faninPc, attempts, sends, failStreak, dcsDown>>

RequeueHeld ==
  /\ proc = "cancelled" /\ drainPc = "held"
  /\ PushOrLose(held, "full")
  /\ held' = <<>> /\ drainPc' = "wait"
  /\ UNCHANGED <<collected, polls, proc, dcsUp, delivered, budget, pktCh, buf,
                 faninPc, attempts, sends, failStreak, dcsDown>>

\* ctx is done at the head of the loop or while parked or idle: wg.Wait.
DrainStop ==
  /\ proc = "cancelled" /\ drainPc \in {"loop", "parked"}
  /\ drainPc' = "wait"
  /\ UNCHANGED <<collected, polls, q, proc, dcsUp, delivered, lost, budget, pktCh, buf,
                 faninPc, attempts, held, sends, failStreak, dcsDown>>

DrainReturn ==
  /\ proc = "cancelled" /\ drainPc = "wait" /\ \A s \in Slots : sends[s] = Idle
  /\ drainPc' = "done"
  /\ UNCHANGED <<collected, polls, q, proc, dcsUp, delivered, lost, budget, pktCh, buf,
                 faninPc, attempts, held, sends, failStreak, dcsDown>>

-----------------------------------------------------------------------------
(* sendBatch, one goroutine per slot.                                      *)

\* BatchPush returns without error: the hub took the batch, or its channel was
\* full and the response says so, which sendBatch only logs.
RpcAccepted(s) ==
  /\ proc = "run" /\ sends[s].st = "rpc" /\ dcsUp
  /\ delivered' = delivered \cup ToSet(sends[s].batch)
  /\ sends' = [sends EXCEPT ![s].st = "ok"]
  /\ UNCHANGED <<collected, polls, q, proc, dcsUp, lost, budget, pktCh, buf,
                 faninPc, attempts, drainPc, held, failStreak, dcsDown>>

RpcRejected(s) ==
  /\ proc = "run" /\ sends[s].st = "rpc" /\ dcsUp /\ rejects < MaxRejects
  /\ rejects' = rejects + 1
  /\ lost' = lost \cup (ToSet(sends[s].batch) \X {"rejected"})
  /\ sends' = [sends EXCEPT ![s].st = "ok"]
  /\ UNCHANGED <<collected, polls, q, proc, dcsUp, delivered, flaps, stops, pktCh, buf,
                 faninPc, attempts, drainPc, held, failStreak, dcsDown>>

\* The connection breaks, the 30 s run out or ctx is done; the hub may have
\* taken the batch all the same.
RpcFailed(s) ==
  /\ Alive /\ sends[s].st = "rpc" /\ (~dcsUp \/ proc = "cancelled")
  /\ \/ UNCHANGED delivered
     \/ delivered' = delivered \cup ToSet(sends[s].batch)
  /\ sends' = [sends EXCEPT ![s].st = "err"]
  /\ UNCHANGED <<collected, polls, q, proc, dcsUp, lost, budget, pktCh, buf,
                 faninPc, attempts, drainPc, held, failStreak, dcsDown>>

\* recordResult comes first, on either outcome.
SendOk(s) ==
  /\ Alive /\ sends[s].st = "ok"
  /\ RecordResult(TRUE)
  /\ sends' = [sends EXCEPT ![s] = Idle]
  /\ UNCHANGED <<collected, polls, q, proc, dcsUp, delivered, lost, budget, pktCh, buf,
                 faninPc, attempts, drainPc, held>>

SendFailed(s) ==
  /\ Alive /\ sends[s].st = "err"
  /\ RecordResult(FALSE)
  /\ sends' = [sends EXCEPT ![s].st = "requeue"]
  /\ UNCHANGED <<collected, polls, q, proc, dcsUp, delivered, lost, budget, pktCh, buf,
                 faninPc, attempts, drainPc, held>>

RequeueMut(s) ==
  /\ Alive /\ sends[s].st = "requeue"
  /\ PushOrLose(Tail(sends[s].batch), "full")
  /\ sends' = [sends EXCEPT ![s] = Idle]
  /\ UNCHANGED <<collected, polls, proc, dcsUp, delivered, budget, pktCh, buf,
                 faninPc, attempts, drainPc, held, failStreak, dcsDown>>

Requeue(s) ==
  /\ Alive /\ sends[s].st = "requeue"
  /\ PushOrLose(sends[s].batch, "full")
  /\ sends' = [sends EXCEPT ![s] = Idle]
  /\ UNCHANGED <<collected, polls, proc, dcsUp, delivered, budget, pktCh, buf,
                 faninPc, attempts, drainPc, held, failStreak, dcsDown>>

-----------------------------------------------------------------------------
(* The life of the process, and of the hub.                                *)

Cancel ==
  /\ proc = "run" /\ stops < MaxStops
  /\ proc' = "cancelled"
  /\ UNCHANGED <<collected, polls, q, dcsUp, delivered, lost, edr, budget>>

\* Packets that only this process's memory holds.
InMemory ==
  (ToSet(pktCh) \cup ToSet(buf) \cup ToSet(held)
     \cup UNION {ToSet(sends[s].batch) : s \in {r \in Slots : sends[r].st # "ok"}})
  \ delivered

\* Packets that were on disk and have been popped.
Popped ==
  ToSet(held) \cup UNION {ToSet(sends[s].batch) : s \in {r \in Slots : sends[r].st # "ok"}}

Die(cause) ==
  /\ proc' = "dead" /\ stops' = stops + 1
  /\ lost' = lost \cup ((InMemory \ Popped) \X {"memory"})
                  \cup ((Popped \ delivered) \X {cause})
  /\ pktCh' = <<>> /\ buf' = <<>> /\ held' = <<>> /\ polls' = 0
  /\ sends' = [s \in Slots |-> Idle]
  /\ faninPc' = "done" /\ drainPc' = "done" /\ attempts' = 0
  /\ failStreak' = 0 /\ dcsDown' = FALSE
  /\ UNCHANGED <<collected, q, dcsUp, delivered, rejects, flaps>>

\* main returns once the poller has drained, or after 6 s: it waits neither for
\* the publisher nor for the fan-in goroutine.
Exit == proc = "cancelled" /\ Die("stop")

Crash == Alive /\ stops < MaxStops /\ Die("crash")

\* run(): the queue file is opened again, everything else starts empty.
Restart ==
  /\ proc = "dead"
  /\ proc' = "run"
  /\ faninPc' = "select" /\ drainPc' = "connect"
  /\ UNCHANGED <<collected, polls, q, dcsUp, delivered, lost, budget, pktCh, buf, attempts,
                 held, sends, failStreak, dcsDown>>

DcsFails ==
  /\ dcsUp /\ flaps < MaxFlaps
  /\ dcsUp' = FALSE /\ flaps' = flaps + 1
  /\ UNCHANGED <<collected, polls, q, proc, delivered, lost, edr, rejects, stops>>

DcsReturns ==
  /\ ~dcsUp
  /\ dcsUp' = TRUE
  /\ UNCHANGED <<collected, polls, q, proc, delivered, lost, edr, budget>>

Init ==
  /\ collected = 0 /\ polls = 0
  /\ pktCh = <<>> /\ buf = <<>> /\ faninPc = "done" /\ attempts = 0
  /\ q = <<>> /\ drainPc = "done" /\ held = <<>>
  /\ sends = [s \in Slots |-> Idle]
  /\ failStreak = 0 /\ dcsDown = FALSE
  /\ proc = "dead" /\ dcsUp \in BOOLEAN
  /\ delivered = {} /\ lost = {}
  /\ rejects = 0 /\ flaps = 0 /\ stops = 0

Fanin == \/ FaninReceive \/ FaninTick \/ FaninFlushOk \/ FaninFlushRetry \/ FaninFlushDrop
         \/ FaninDone

Drain == \/ Connect \/ Park \/ Probe \/ Pop \/ (\E s \in Slots : Dispatch(s)) \/ RequeueHeld
         \/ DrainStop \/ DrainReturn

Send(s) == \/ RpcAccepted(s) \/ RpcRejected(s) \/ RpcFailed(s) \/ SendOk(s) \/ SendFailed(s)
           \/ Requeue(s)

Next ==
  \/ StartPoll \/ EmitPoll \/ EmitTrap
  \/ Fanin \/ Drain \/ (\E s \in Slots : Send(s))
  \/ Cancel \/ Exit \/ Crash \/ Restart
  \/ DcsFails \/ DcsReturns

Spec == Init /\ [][Next]_vars

\* Goroutines that can run do run; an RPC ends (30 s deadline); the service
\* manager starts a collector that has stopped.
FairSpec ==
  /\ Spec
  /\ WF_vars(Fanin) /\ WF_vars(Drain) /\ WF_vars(Restart) /\ WF_vars(Exit)
  /\ \A s \in Slots : WF_vars(Send(s))

-----------------------------------------------------------------------------
(* Properties.                                                             *)

Ids == 1..NPackets

\* Type invariant; the queue holds no more than its limit (max_bytes of Open).
TypeOK ==
  /\ collected \in 0..NPackets /\ polls \in 0..MaxPolls
  /\ pktCh \in Seq(Ids) /\ buf \in Seq(Ids) /\ q \in Seq(Ids) /\ held \in Seq(Ids)
  /\ Len(q) <= QueueCap
  /\ faninPc \in {"select", "flush", "done"}
  /\ attempts \in 0..MaxAttempts
  /\ drainPc \in {"connect", "loop", "parked", "held", "wait", "done"}
  /\ sends \in [Slots -> [st : {"idle", "rpc", "ok", "err", "requeue"}, batch : Seq(Ids)]]
  /\ failStreak \in 0..DownAfter /\ dcsDown \in BOOLEAN
  /\ proc \in {"run", "cancelled", "dead"} /\ dcsUp \in BOOLEAN
  /\ delivered \subseteq Ids
  /\ lost \subseteq Ids \X {"evicted", "full", "flush", "rejected", "memory", "stop", "crash"}

\* Where the collector still holds packet p.
Places(p) ==
  Cardinality({i \in DOMAIN pktCh : pktCh[i] = p}) + Cardinality({i \in DOMAIN buf : buf[i] = p})
  + Cardinality({i \in DOMAIN q : q[i] = p}) + Cardinality({i \in DOMAIN held : held[i] = p})
  + Cardinality({s \in Slots : sends[s].st # "ok" /\ p \in ToSet(sends[s].batch)})

Gone == {l[1] : l \in lost}

\* No packet is silently lost or doubled inside the collector (fan-in flush,
\* PopBatch, dispatch, sendBatch's requeue, shutdown, restart): a collected
\* packet is in exactly one place until the hub has it or one of the places
\* where the code lets go of packets has let go of it.
InOnePlace ==
  \A p \in 1..collected :
    /\ Places(p) <= 1
    /\ Places(p) = 0 => p \in delivered \/ p \in Gone

\* recordResult, called by the probe and by every sender in any order, never
\* leaves the gate and the failure streak in disagreement: collection is
\* paused exactly while the last DownAfter outcomes were failures.
GateMatchesStreak == dcsDown <=> failStreak >= DownAfter

\* The queue file survives outages of the hub, however the failures and the
\* late answers of parallel senders interleave: a backlog the queue has room for is
\* kept, and only the end of the process or a hub that turns a batch away makes
\* the collector let go of a packet.
OutageLosesNothing ==
  collected <= QueueCap =>
    \A l \in lost : l[2] \in {"memory", "stop", "crash", "rejected"}

\* Both: a packet is in one place until it is delivered, and is let go of only where
\* the code says so, never by an outage alone.
NothingVanishes == InOnePlace /\ OutageLosesNothing

\* A hub that comes back for good gets everything that was not given up, also
\* what was requeued or left on disk by an earlier process.
BacklogDrains ==
  <>[]dcsUp => []<>(\A p \in 1..collected : p \in delivered \/ p \in Gone)

\* A closed gate opens again once the hub is back for good, whatever the order
\* of the probe and the last senders' outcomes.
CollectionResumes == <>[]dcsUp => []<>(~dcsDown)

\* Submit's "EDR will requeue and retry": a packet the hub turned away is kept.
RejectedIsRetried == \A l \in lost : l[2] # "rejected"
=============================================================================
