# A TLA+ verification of the DCIM data reader

The repository is a telemetry system for data centres. Collectors (`fwEDR`) read
devices over SNMP, gNMI, BACnet and Redfish and ship what they read over gRPC to a
hub (`fwDCS`), which stores it in TimescaleDB and pushes it on to an Aggregator over
HTTP. A host agent (`fwIDR`) ships its machine's readings to the same hub. In the
other direction, edits made in the Aggregator's UI travel through the hub to the
collectors, which write them to the devices and report the outcome back.

This directory models the way of a packet from a device to the Aggregator, the
inventory and topology the hub builds from it, and the command path; checks the models
with TLC; and proves the safety properties of all of them with TLAPS for every value of
their constants.
`PROJECT.json` lists the components, the runs, the mapping from definitions to source
lines, the hazards and the theorems.

## Inventory

| Component | State | Operations | Hard parts |
|---|---|---|---|
| EDR queue (`fwEDR/internal/queue`) | bbolt bucket, bucket sequence, `usedBytes` | `Open`, `PushBatch`, `PopBatch`, eviction, `Close` | rollback of a full batch, crash inside a transaction, a byte counter kept by hand |
| EDR publisher, gate, fan-in (`publisher`, `health`, `main.go`) | fan-in buffer, popped batch, in-flight senders, failure streak, gate | flush with retries, drain, probe, `sendBatch`, requeue, stop | parallel senders, packets off disk before they are sent, gate against late answers |
| EDR poller, breaker, limiters (`poller`, `snmp`) | sessions, breakers, semaphores, pause | tiered polls, `AddTarget`, health ticks, shutdown | a lock held while waiting for semaphores, sessions shared by devices, site-wide pause |
| EDR discovery (`discovery`, `main.go`) | `targets.json`, known names, walkers | load, sweep, save, register, rediscover | devices that are down or renamed in a sweep, names against addresses |
| EDR gNMI (`gnmi`) | proxy or direct streams | proxy, fallback, backoff, probe | two ways to one device |
| EDR BACnet (`bacnet`) | sockets, subscriptions, last alarm of each object | read loop, COV listener, renewal | two goroutines, one alarm record, late datagrams |
| EDR trap receiver, Redfish, threshold poller | none shared | feed the same fan-in | |
| DCS gRPC service and ingest pipeline (`api/grpc`, `ingest`) | channel, depth counter, row buffers, Redis keys, tables | `Submit`, worker loop, `IsDuplicate`, flush, shutdown | workers that reorder, three Redis calls that are not one, errors that are only logged |
| DCS inventory and cache (`ingest/worker.go`, `ingest/cache.go`, `store/timescale.go`) | device rows, LRU list with expiry | lookup, register, `Get`, `Put`, flush | update then insert by racing workers, stale entries, names that move between boxes |
| DCS link state (`ingest/worker.go`, `store/timescale.go`) | topology links | reports, traps | traps of both ends, reordered by workers, against repeated reports |
| DCS hierarchy and classifier (`store/hierarchy.go`, `store/classifier.go`) | relation of each link, role of each device | spanning tree, scores | several statements, no transaction |
| DCS forwarder, telemetry (`forwarder/forwarder.go`, `store/forward.go`) | a cursor per table, idle gates | read a page, POST in chunks, advance | ties at a page's end, late commits, one chunk of several failing |
| Command plane (`forwarder/uicommands.go`, `store/commands.go`, `api/rest`, `fwEDR/internal/command`) | `device_commands`, two cursors, the runner's batch, the device | pull, upsert, apply, ack, report | replays, lost acks, an edit that overtakes the one being applied, crashes between the steps |
| IDR agent (`fwIDR`) | a queue like the EDR's, one stream | collect, push, send | a stream that acknowledges nothing before it is closed |
| Retention, migrations, configuration, generated protocol code, tools | | | tables, SQL, I/O: not modelled |

Components interact through the fan-in channel and the queue file (collectors to
publisher), the `BatchPush` call and the agent's stream (to `Submit`), the gate
(publisher to poller), the socket limiter (discovery and poller), the target list
(discovery to poller, gNMI and BACnet), Redis and the database (workers, topology
runner, forwarder and REST handlers), and HTTP (forwarder to Aggregator, runner to hub).

What makes each correct: a packet is neither lost nor doubled inside a process and is
let go only at the points the code names; the queue is a FIFO through any failure; the
gate never stays shut; every device is asked again and again; every device that is up
is announced; what was accepted is stored or its loss is visible; a row is of one box;
link state follows the cables and the tree the links; a device field only moves
forward and each edit ends in an outcome the Aggregator learns.

## Modules

| Module | Models | Notes |
|---|---|---|
| `AtomicFifo` | what `PushBatch` and `PopBatch` promise | the abstract specification of the queue |
| `EdrQueue` | `queue.go` | one action per step of a transaction; bbolt's bucket (external) is a function from keys to packets |
| `EdrPublisher` | `publisher.go`, `gate.go`, the fan-in and the shutdown of `main.go` | uses the queue at `AtomicFifo`'s grain |
| `Poller` | `poller.go`, `snmp/limit.go`, `snmp/client.go`, the tiers of `snmp/metrics.go` | |
| `Discovery` | `discovery/*.go`, targets and rediscovery of `main.go` | devices and network are external |
| `Gnmi` | `gnmi/manager.go`, `RunStream` of `gnmi/client.go` | |
| `Fleet` | `Discovery` and `Gnmi` composed | `startGNMIAfterDiscovery`; a restart ends both |
| `Bacnet` | `bacnet/manager.go`, `bacnet/client.go` | devices and UDP are external |
| `Idr` | `fwIDR`, and `PushStream` of `server.go` | |
| `Ingest` | `worker.go` loop and `Submit`, `dedup.go`, `server.go` | a packet is an event, a metric row or an energy row |
| `Inventory` | `lookupOrRegister`, `resolveDeviceID`, `cache.go`, `UpsertDevice` and the writes that use the row | |
| `Links` | topology reports of `main.go`, `UpsertLinks`, `handleLinkTrap` and the link updates of `timescale.go` | |
| `Classifier` | `classifier.go` | pure operators |
| `Topology` | `Links`, `Classifier` and the topology runner composed | `hierarchy.go`, the runner of `main.go` |
| `Forwarder` | `forwarder.go`, `store/forward.go`, the event hook of `timescale.go` and `main.go` | one network; the Aggregator is external |
| `Commands` | `uicommands.go`, `store/commands.go`, `rest/commands.go`, `command/*.go` | the Aggregator is external |
| `QueueProofs` | | theorems about `EdrQueue` and `Idr`, the two queues |
| `PublisherProofs` | | theorems about `EdrPublisher` |
| `CollectorProofs` | | theorems about `Bacnet` and `Fleet` |
| `HubProofs` | | theorems about `Inventory` and `Topology` |
| `PollerProofs`, `IngestProofs`, `ForwarderProofs`, `CommandsProofs` | | theorems about the module of that name |
| `MC*` | | instances for TLC |

**EdrQueue.** `disk` and `seqNo` are the committed bucket; `tx` is the transaction
under way with its own copy (`db`, `seq`, `used`), and `CommitPush`/`CommitPop` publish
it. `PushFull` is the `ErrFull` return that rolls back. `Crash` may fall anywhere;
`Open` seeds `usedBytes` from `LeafInuse`, which is 0 for a bucket bbolt keeps inline
(at most `InlineLimit` bytes) and counts per-entry overhead otherwise. `Evictable` is
what `evictOldestNonCritical` really picks: the stored bytes are protobuf, decoding
them as JSON fails, and the first entry goes. `upto` and `slack` are history.

**EdrPublisher.** Packets are numbered as they are collected. `StartPoll` reads the
gate, `EmitPoll` comes later, `EmitTrap` is not gated. `Fanin*` is the fan-in goroutine
(50 retries in the code, `MaxAttempts` here); the channel is taken to be larger than
the packets of a behaviour. `Pop` removes a batch from the file, `Dispatch` hands it to
one of `MaxInFlight` senders, whose call can be accepted, answered with "rejected"
(the hub's channel is full), or fail with or without the hub having taken it.
`RecordResult` is the streak and the gate under their mutex. `Exit` is `run`
returning, which waits for the poller only, so it may come at any time after `Cancel`.
`lost` records what the program let go of and where.

**Ingest.** `Submit` is the non-blocking send and, as a second step, the counter's
increment (`CountUp`). A worker's program counter follows `workerLoop`; `SetNX`,
`GetNonce`, `SetNonce` are the three Redis calls of `IsDuplicate`, each of which may
fail (`RedisFails`: the packet is let through). The keys live an hour and a day:
`PktExpires` and `NonceExpires` may come between any two steps, since nothing in the code
bounds how long a worker waits for the database. `FlushTo` is `flush()` with its two
writes. `Invalid`, `Unregistered` and `RowDropped` are the three ways a packet is dropped
before that: validation, an energy packet whose device no metric packet has registered
yet (`processEnergy` and `lookupOrRegister`, without any error), and a statement that fails. `DepthModulus` stands for 2^32. A packet's number is also its nonce, since
the collector draws nonces in the order it makes packets.

**Forwarder.** A row is an identity with a version and a stamp (`updated_at` or `ts`);
`Commit` is any worker's write, whose stamp may be up to `MaxLate` behind the clock: an
event, metric or energy reading has its collector's time, and `updated_at` is the time
its transaction began. `NotifyEvent` is the hook after an event's commit, a send that
gives way to a pending one. `Tick`, `Wake` and `Debounced` are the branches of `Run`;
`PollTable` and `SkipTable` walk the tables with their gates, and the second disjunct
of `PollTable` is `GetForwarderCursor` answering an error with the zero time. `Build`
adds the devices the page refers to as they are at that moment and splits the push by
scope into a chunk of devices with their readings and a chunk of links and events (the
code splits both further by size). The posts of the scopes interleave; `PostRetry` and
`PostFails` may or may not have had their effect. `Advance` writes one cursor per step
and ignores errors. `top` and `late` are history. Networks are pushed one after the
other with cursors and gates of their own, so one is enough. An event whose device the
hub does not know yet is left out by `EventsSince`; the model's events have theirs.

**Commands.** `plan` fixes the collectors that poll, the fields that are edited and how
many faults there are. The n-th edit has the value n and a cursor is a number of edits, so
"newer" is "greater". `BeginPull` to `InsertCommands` are the steps of
`pullUICommands` with both cursors' saves before the insert, as in the code;
`BeginPullUnread` is `GetForwarderCursor` answering an error with the zero time. `Pull`,
`Apply*`, `AckArrives`, `MarkCommand` are the runner's tick and the hub's handler; the
time stamp is taken when the statement starts and the row becomes visible when it
commits, so that acks of several collectors may be stamped in one order and committed in
the other, or share a stamp. A report is a page of the oldest finished rows after the
cursor (200 in the code, `ReportLimit` here), rows of one stamp in any order. `Oid` maps
field names to what is written: several names may be aliases of one OID, with rows of
their own. `device` keeps each write with its name and collector. `top` and `late` are
history: the latest stamp of a committed outcome, and the rows committed at or before it.

**Poller.** `w` holds the program counter and locals of each `runTarget`; who holds a
session's lock, a heavy slot or a socket is read off the program counters. A session is
an object: `closeConn` takes it out of the map first and closes it under its lock, and a
walker that looked it up before still uses it. `Layouts` are the fleets to start with:
the responder of each device, which of them were known when the poller was made (that
alone decides whether sessions are pooled) and what the intervals make of `runTarget`.
`FastFails` and `HeavyCollected` follow the error paths of `pollSNMP`; a heavy tier
reports no error whatever failed, so the heavy breaker only opens on failed dials.
Breakers are keyed by a device's identity, which is fixed here.

**Discovery, Gnmi, Fleet.** `LoadTargets` is the choice of configuration, file or sweep
(also forced, with `--rediscover`); `Probe` takes one address; `SweepDone` saves what was
found, however little; `ResweepDone` adds the names it has not seen. `hours` is
`interval_hours`, `Rediscovers` the condition under which the loop is started: 0, which is
the default and what the shipped configurations say, is no rediscovery. The walkers' part is only what tells the hub of a device
and renames it. `Evaluate`, `Proxy*` and the fallback's actions are the loop of
`Manager.Run`; the manager gets the targets of the start and is not told of others.

**Bacnet.** `th` is the state of the two goroutines. `Decide` is `alarmChanged` under its
mutex; the metric before it and the event after it are sends of their own that wait for
the channel. `net` holds the datagrams on the way or in a socket's buffer: any of them
may be lost or read late. A retried request has the id of the first attempt, as in
`sendAndDecode`; `NextInvoke` draws an id that no datagram in flight carries, which is
what a counter of 256 values gives. The renewal ticker is a goroutine of its own.

**Idr.** `wire` and `buf` are what the stream's transport and `PushStream`'s buffer hold.
`Pop` deletes in a transaction, `Damage` is a file whose entry cannot be decoded. The
severity of the agent's packets is never set, so the eviction branch is dead code; the
dial does not block, so the backoff of `Run` is never reached for a hub that is away.

**Inventory.** A box is a device, or a host with an agent, whose packets carry no
management address (`Addressless`); a row is its entry in `devices` and carries the box and
the name. `Update` is left out for a packet without an address, as in the code
(`timescale.go` 174), and `Insert` then keeps the address of a row it finds (`Keeps`). `Get`, `PutId`, `Update`, `Insert` and `Again` are the steps of
`lookupOrRegister` and `UpsertDevice`, which other workers and renames interleave with.
`plan` fixes which renames and wipes a behaviour has. `strays` and `early` are history.

**Links, Classifier, Topology.** A link is a row of `topology_links` with its layer and
ports; `off` are the rows with `is_active` false. `Flap` cuts or mends a cable and queues
the traps of both ends, which workers take in any order. `IfIndex` is what the receiver
makes of a trap: the varbind's OID is fixed, so only the first port's trap has an index.
`RecomputeHierarchy` is cut into its queries and statements (`LoadDevices` to
`MarkDownlinks`), `ClassifyRoles` into reading and writing; `Bfs` is the code's queue with
its order of roots and neighbours, `BfsStep` iterated over the devices. `fresh` is
history: the networks nothing was added to since a run read them. A link may cross
networks: a run's tree hangs the network's own devices, under parents of any network.

## Runs

Passing runs:

* `edr_queue`: three kinds of packets (small, small urgent, large urgent), limit 3
  bytes, batches of 2, 6 sequence numbers, crash and reopen anywhere. Eviction,
  rollback in mid-batch and a reopen below and above the inline limit all occur.
  `IsAtomicFifo` is the refinement: the committed bucket in key order is an
  `AtomicFifo`. `KeysNeverReused`: no committed packet is overwritten or overtaken.
  `Accounting`: the byte counter stays within the error `Open` started it with, so it
  does not drift. `EntriesBounded`: the limit bounds the backlog.
* `edr_publisher`: two senders, a queue that fills, an outage, a rejection and a stop or
  crash. `NothingVanishes`: a packet is in exactly one of channel, buffer, queue, popped
  batch and senders until it is delivered or let go of at a named place, and an outage
  alone lets go of none. `GateMatchesStreak`: gate and streak never disagree.
  `BacklogDrains`, `CollectionResumes`.
* `poller`: two devices, two sockets of which discovery may take one, one heavy tier,
  breakers that open on the first miss, one fault; the devices with a responder each,
  behind one with pooled sessions, and behind one with the second device found later.
  `SessionsSafe`: a session is used by one poll at a time and not pulled from under it,
  and heavy polls never fill the sockets. `HeartbeatGoesOn`: no order of locks, semaphores,
  breakers, pauses and outages leaves a walker waiting for ever.
* `fleet`: two addresses, two names, one change of a device, one loss (a probe, a
  registration, or a restart), one outage of the proxy, with rediscovery and without.
  `EveryDeviceAnnounced`: with its three exceptions, the seed being down, a name that was
  another device's, and, without rediscovery, a device the start did not find (`Missed`).
  `StreamsSound`: one feed per device, targets of the start only. `StreamsGoOn`.
* `bacnet`: a meter that notifies and a pump that is only read, two changes of an alarm,
  a retry, one fault. `OncePerEdge`: raises and clears, sent or about to be, always
  differ by the alarm recorded last. `AlarmKnown`: the record is the device's in the
  end, since the loop corrects what a late notification left.
* `idr`: 4 packets, a queue of 2, a stream of 2, one break, outage, refusal, damaged
  entry and stop each. `PacketsAccounted`, `OutageKeepsQueue`, `QueueDrains`.
* `ingest`: an event, a metric and an energy row of one device, a packet that fails
  validation, two workers, a channel of one batch, three packets sent with repeats and in
  any order, keys that expire at any time, one Redis and one database error, a shutdown.
  `Accounted`: every acceptance is held or decided exactly once, the depth counter agrees
  with the channel once all have counted, and without a database error a settled row is
  stored unless it was invalid or an energy reading that came before its device's first
  metric was settled. `EventStoredOnce`: once in each window of its Redis key.
  `AllSettles`.
* `inventory`: two boxes that hand over a name, two that exchange theirs, one that is
  renamed, one whose row is wiped, and a host with an agent that is renamed; two workers,
  a cache of one entry.
  `RowsSound`: a second row for a box only when it was renamed before its first was
  inserted, or carries no address and was renamed at all, or its row was taken over. `NoStrays`: nothing is stored under the row of another box, unless
  a name came from the one to the other, at once or through boxes between. `Converges`:
  names and cache agree with the boxes in the end, but for boxes whose names the unique
  index refuses for ever (`Blocked`).
* `topology`: a triangle of three devices, one of which registers late, one loose cable
  that may already be cut, two workers, one fault. `LinkStateTrue`, `OnlyTrapTurnsOn`,
  `EveryLinkStored`; `RunnerResult`: whenever a run has ended and nothing was added
  since it read, the relations are a shortest-path tree and the roles what the
  neighbours speak for; `CatchesUp`.
* `forwarder`: a device, a link that needs it, two events of two scopes, pages of one
  row, three commits at any moment, stamps one behind the clock, and one failed
  post, failed statement or restart. `CursorsSafe`: a cursor passes a row only when
  the Aggregator has its newest version, unless the row was committed at or before a
  stamp that had been given out. `WakeCovers`: coalescing and draining lose no wake,
  also of the second event, which a push of the first may not see: only an event that
  was due and that a full page left out may wait unsignalled, for the next tick.
  `EventuallySent`: idle gates, failures and restarts only delay a row.
* `commands`: two plans. One collector, three fields of which two are names of one OID and
  one has no write path, and a fault anywhere; or two collectors that apply the same rows,
  the two names, and no fault. Two edits, two attempts, reports of one outcome.
  `TableSound`: one pending row per field, and no outcome behind the up cursor that was not
  reported, unless it was committed late, which with two collectors does occur.
  `DeviceNeverRegresses`: what a collector writes under one name only gets newer, and what
  waits is as new as all that was written under its name. `FinishedStaysFinished`,
  `PendingSettles`, and `OutcomesGetReported` through late acks and full pages. Several
  collectors with faults are left to the proofs.

One run ends in a violation of what the repository says of its code:

* `poller_heavy`: a device that is walked again and again, a liveness breaker that opens
  on two misses. Two breakers per device keep "a flapping heavy walk from ever silencing
  the liveness heartbeat" (`poller.go` 849-852), but they share the session. A heavy tier
  reports no error (`metrics.go` 85-199), so the client that its deadline closed (645-647)
  stays in the session, and the next FAST poll fails on it. That failure counts, the client
  is dropped, and the heavy tier that follows opens a new one to run into its deadline
  with. Heavy walks that are always too slow open the liveness breaker of a device that answers every poll.

### Other disagreements

These configurations are not part of the regular runs; TLC finds each violated
(`tlc -config X.cfg M`).

| Configuration | Module | The code says | It does |
|---|---|---|---|
| `EdrUrgentNotEvicted` | `MCEdrQueue` | "On overflow, criticals evict oldest non-criticals" (`queue.go` 87) | the oldest entry goes, whatever it is (238-242) |
| `EdrRejectedIsRetried` | `EdrPublisher` | "EDR will requeue and retry" (`worker.go` 92) | a rejected batch is only logged (`publisher.go` 276-281) |
| `IngestDropsOnlySeen` | `MCIngest` | "returns true if this packet was already seen" (`dedup.go` 23) | an event overtaken by a later one is dropped too (42-43) |
| `CommandsNothingLost` | `MCCommands` | "the cursor only advances on success, so nothing is lost" (`uicommands.go` 86) | it is saved before the insert (211-233) |
| `CommandsConfigEventsTrue` | `MCCommands` | a config event "for an applied UI edit" (`store/commands.go` 168) | also for one that overwrote a pulled row and was not written (108-112) |
| `TopologySettled` | `MCTopology` | "a settled tree produces zero updated rows" (`hierarchy.go` 184) | the reset (168) sets every tree link aside first, so each is marked again |
| `FleetOneWalker` | `MCFleet` | "Idempotent — duplicates are ignored" (`poller.go` 436-439) | a renamed device gets a second walker |
| `IdrDamaged` | `MCIdr` | "Corrupted entry — delete and report" (`fwIDR` `queue.go` 116) | the error `Pop` returns rolls the deletion back, and the publisher tries again without a pause (`publisher.go` 116-118): nothing behind the entry is sent |
| `PollerInventoried` | `MCPoller` | a walk that succeeds "was inventoried" (`poller.go` 404-407) | a heavy tier that failed counts as done |

Two more are no disagreements, and too large to go with the runs they belong to; TLC finds
no violation. `TopologyBackbone` (`MCTopology`) checks `RunnerResult` for two networks of
two devices with links between them, of which one is `Crossed`. `InventoryHosts`
(`MCInventory`) checks the properties of `inventory` for a host with an agent and a box that
exchange their names.

The models show more of the same kind:

* Queue and publisher: `usedBytes` after a reopen is not the payload (`queue.go` 38); a
  crash loses a batch that was on disk and is popped (`queue.go` 2 against
  `publisher.go` 222), and so does an orderly stop (`publisher.go` 245 against `main.go`
  441-451); a requeue can find the queue full (`publisher.go` 259 and 270).
* Ingest: a source's nonce can go back (`dedup.go` 38-45 with two workers) and expires
  after a day, so an event that is sent again when its hour is over may be stored a second
  time; energy readings of a device that no metric has registered yet are dropped without
  a trace (`worker.go` 166-169, 452-454); the reported
  depth can wrap for a moment (`worker.go` 88-89 and 132).
* Forwarder: an event stored after a younger one was forwarded, or that shares the last
  stamp of a full page, is behind the cursor for good (`forwarder.go` 365-367 against
  724-726 and `forward.go` 534), which `CursorsSafe` excepts.
* Commands: with two collectors, which the pull allows (`store/commands.go` 74-80 is not
  scoped), a late failure turns an applied row into a failed one (122-128), a batch pulled
  before an edit may be written after it, and an ack that commits out of stamp order, or
  shares the stamp at the end of a full page, is never reported (146-149): `late` in
  `OutcomesReported`. Names of one OID have rows of their own (`apply.go` 38-101): when
  name=1 fails, sysname=2 is written and name=1 is tried again, the old value is back, with
  one collector and no replay. `DeviceNeverRegresses` therefore speaks of one name.
* gNMI: devices found after the start are never streamed, though the manager's comment
  speaks of all of them (`manager.go` 20).
* BACnet: a clear can be sent before its raise, for the lock is gone before the event is
  sent (`manager.go` 335-336); readings of a pass carry the time it began, so the clear a pass finds can be
  stamped before the raise a notification announced during it.
* IDR: what was on the stream when it breaks is lost, though `queue.go` 2 says that
  packets survive; an entry pushed back goes behind younger ones.
* Inventory: a box renamed before or while its first row is inserted gets two rows, and
  two boxes that exchange names never get them (the unique index refuses both updates);
  `INSERT ... ON CONFLICT` takes over the row of a box that had the name before. A
  worker may hold an id while its row changes hands, so a reading can end under a box
  that never had a name in common with its sender: a packet of box 1 finds the row box 2
  left behind with the name, box 2 takes the row along to its new name, and box 3, the
  next to have that name, takes the row over before the packet is written. It takes three
  boxes, so no small run meets it; the proof did, and `NoStrays` says `Linked` for it.
  "This makes renaming a device update the existing row instead of inserting a duplicate"
  (`timescale.go` 166-170) is so of packets with a management address only: the agent's
  have none, so a renamed host gets a second row. Its first keeps the old name, and
  refuses it to a box that is given that name later.
* Discovery: with `interval_hours` 0, the default (`config.go` 96) and shipped
  (`edr.yaml` 37, `edr.prod.yaml` 33), a device that the sweep of the start missed is not
  looked for until a restart.
* Topology: parallel cables between two devices go on and off together; traps that
  workers reorder leave a link off that is on; the two directions of a link can differ
  (`NeverHalfStale`, `timescale.go` 852-854); between the statements of a run the tree
  is gone for every reader. Links may cross networks (`timescale.go` 987-991), and a run
  reads and resets the rows whose source is in its network (`hierarchy.go` 70-76, 168-174)
  but marks those of a child and its parent wherever they are (186-202). So when two
  devices of a network link to one device of another, its tree may lead through that
  device, and the run marks a row of the other network as a downlink, which only the
  other's run resets: when the tree changes, the old mark stays and a device has two
  parents until then. This is `Crossed` in `RunnerResult`.

**Bounds.** Counters of environment events (`MaxFlaps`, `MaxStops`, `MaxRejects`,
`MaxRedisErrs`, `MaxDbErrs`, `MaxFaults`, `MaxChanges`, `MaxToggles`, `MaxLosses`, `MaxOutages`) allow
each kind of failure at each step at least once. Two senders, workers, goroutines
or collectors are what a race needs: none of the code's steps involves three. Batches
of 2 have a first and a last packet that fare differently; queues and buffers of 1 to 3
are filled, overflowed and emptied. Pages of one row make every second row of a table
wait behind a full page. Three devices are the least with a tree that has a choice and
a link outside it. In the inventory three boxes are more than a handover or an
exchange involves; each plan has the boxes and kinds of packet that its question needs, and
`Names` has one name more than the boxes. Breakers open and the gate closes on one miss instead of several: the
count before that changes nothing but the counter, `PublisherGate` and
`PollerSessionsSafe` hold for every threshold, and `poller_heavy` has one of two. `MaxSeq`, `NPackets`, `MaxSends`, `MaxEdits` end the
behaviour and are long enough for a fill, an overflow, a restart and a drain. `Ids` of
the inventory stands for a sequence that never ends: a row id is used again only when no
row, cache entry or worker refers to it, and `InventoryAssumption` asks for more of them
than can be referred to at a time, so that an insert never finds none.

`LinksAssumption` lets a port hold one cable, as `CorrelateLinkByPort` does ("a (device,
port) pair belongs to exactly one network link", `timescale.go` 760-762).
`FleetAssumption` makes the resolver's devices the addresses of the targets.

**Deadlock** is off where an idle or stopped program has nothing to do once the bounded
environment is done: everywhere but in `EdrQueue`, `Forwarder` and `Commands`, which
check it.

**Fairness.** Goroutines run (the Go scheduler), tickers fire, calls end by their
deadlines, and a service is restarted. In particular: `EdrPublisher`: fan-in, drain and
senders, an RPC's end (30 s), `Exit` after `Cancel` (6 s), the restart; nothing is
assumed of polls, outages, stops or crashes, and `BacklogDrains` and
`CollectionResumes` are about hubs that come back for good. `Ingest`: a worker's loop
and ticker, a handler's `Submit`. `Poller`: strong fairness of a walker, since Go's
mutexes and channels serve their waiters in turn; cooldowns, the pause and an outage
of the hub end. `Fleet`: a sweep that has begun ends, the next begins
where rediscovery is configured, walkers go on, the manager's loop runs. `Bacnet`:
strong fairness of both goroutines, which wait for one channel; nothing is assumed of
renewals or of datagrams, whose losses are bounded. `Idr`: publisher and receiver run,
the hub returns, the agent is restarted. `Inventory`: workers run, every box goes on
sending, cache entries expire. `Topology`: reports, runner and workers go on, and a link
that is reported again and again finds room in the channel again and again.
`Forwarder`: the loop's goroutine, its ticker, a post's end (30 s), a hook's return.
`Commands`: the forwarder's and runners' tickers. Faults are bounded and never forced.

**Mutants.** Every property has a `...Mut` operator beside the definition it replaces:
a dropped reset, a missing guard, an off-by-one, a save left out. With it the same
run finds the property violated.

## Proofs

Every safety invariant and action property that a run checks is a theorem, for all
values of the constants that meet the modules' assumptions. Few of them are inductive as they stand; each proof strengthens
them to an invariant (which TLC checked on the run's instance before it was proved),
shows that `Init` implies it and that each action keeps it, one lemma per action or group
of actions, and derives the property.

A proof module extends the module it is about; in it the assumptions on the constants hold
as that module's `ASSUME`, which TLC evaluates on the module's run, and nothing else is
assumed. `QueueProofs`, `CollectorProofs` and `HubProofs` extend two modules that share no
name, whence `IdrSpec`, `FleetSpec` and `TopologySpec` beside the `Spec` of the other.

**Queue** (`QueueProofs`; packets of at least one byte, any limit, batch size,
overhead and inline limit). `Accounting`, `EntriesBounded` and `KeysNeverReused` say
nothing of a transaction's own copy, which a commit makes the state. `IInv` adds

* `Sound`: the keys of a bucket are an interval that ends at the sequence, and the
  history gives each its size, hence payload is at least the number of entries;
* `PushInv`: the copy of a push is sound, its counter is within the same error, and its
  old keys hold the committed packets;
* `PopInv`: the copy of a pop is a suffix of the bucket, and what was freed is the
  difference of the payloads.

A push stops at `used >= MaxBytes`, and the counter undercounts by at most
`InlineLimit`, whence the bound. `QueueIsAtomicFifo` is the refinement: with `RInv`,
which says that a push has filed a prefix of its batch and evicted at most one packet for
each urgent one of it, and how far a pop has come, `CommitPushRefines` and `CommitPopRefines` show that a commit is one
push or pop of `AtomicFifo`, and `StepRefines` that every other step is a call, its
rejection or a stutter.

**Publisher** (`PublisherProofs`). `TypeOK` with `GateMatchesStreak` is inductive.
`NothingVanishes` counts the places a packet is in; the induction is over sets instead:
`Distinct` (no queue, buffer or batch holds a packet twice), `InPlaces` (the sets of
packets in each place are disjoint and with what was delivered or let go make up what
was collected) and `HeldInHand` (a popped batch is in hand only while the drain of a
living process waits for a sender). The counts follow.

**Poller** (`PollerProofs`; any fleets, limits and thresholds). `SessionsSafe` counts the
holders of a session, of the heavy slots and of the sockets; the induction needs that
walkers past the lock hold different sessions (`Exclusive`), that both semaphores are
within their caps (`SlotsBounded`), and, for the breakers' counters, that a breaker is
open once its failures reach the threshold (`Streaks`) and a poll runs only while its
breaker is closed (`Admitted`).

**BACnet** (`CollectorProofs`; any devices, retries and losses, at least one binding).
`OncePerEdge` needs that a clear or raise decided but unsent is counted with the
goroutine that decided it (`Balanced`), that no plant device is subscribed or heard from
(`PlantSilent`), that a request is sent again only while attempts are left, and that
there is at most one answer in flight for the waiting request and one for every fault
(`InFlight`), so that an invoke id that is not in use can be drawn.

**Agent** (`QueueProofs`). `PacketsAccounted` is shown from a partition of the packets
made into queue, hand, wire, buffer, done and lost. The type invariant alone is not
inductive: that an agent that has ended left nothing on a stream needs `UpIsLive`, a
stream that takes packets has a hub at its end and an agent that is not stopping.
`OutageKeepsQueue` is an action property.

**Ingest** (`IngestProofs`; finitely many workers, any sizes and any width of the
counter). `Accounted` counts occurrences in the channel, batches and buffers, so its
lemmas are about the cardinality of index sets under `Append`, `Tail` and flushes.
`EventStoredOnce` needs `Claimed`: while Redis has answered, each copy of an event that is
stored or in a worker's hands past `SET NX` has a claim of its own, the key that is there
or one that expired. The row part of `Accounted` needs `Known`: a metric row that is
stored or buffered has its device registered, so a worker that does not find the device
of an energy packet has met it before any metric packet of the device was settled.

**Forwarder** (`ForwarderProofs`; finitely many rows, any tables, scopes, page limits,
attempts and lateness; each table is queried once, and a link with a scope has both its
devices there, which is when `buildPayloads` places it). `OnlyLateSkipped` is about the
cursors; whether moving them is safe was decided by the queries, several steps of other
actors earlier. `IInv` follows a page from the query to the cursor:

* `Ties`: two rows of a table share a stamp only when both count as late;
* `Covered`: an unsent row in order, at or before a stamp of the page, is in the page
  with its newest version. A commit keeps this because its stamp is beyond all stamps
  given out, or the row is late;
* `Copies`: a row has one version in the page and one in the chunks, no older than what
  the Aggregator has, so posting, also twice, never takes it back;
* `LinksLast`: the devices of a link are with the Aggregator or in an earlier chunk of
  the same scope, so a link that is posted is not turned away;
* `Carried`: until a post fails, what the page holds was sent or is still in a chunk;
  hence all of it was sent when the cursors move.

`WakeCovers` needs the same invariant: an event that was not due was sent, one that was
due and not read was left out by the page (`behind`, a history variable), and an event
never changes after it was read. `BehindPolled`: a page that left rows out had rows, so
`recordPoll` does not let the next tick skip the table.

**Inventory** (`HubProofs`; any boxes, names, plans, finitely many workers, any cache).
`NoStrays` speaks of what was written; what decides it is an id that a worker found
several steps before, or that lay in the cache. `Traces` says where every id leads: names
carried by rows and packets are owned (`NamesOwned`), and a row that a cache entry or a
worker still refers to belongs to a box linked with the name's owners or the packet's
box (`EntriesOk`, `WorkersOk`). Links between boxes only grow, which is why renames and
takeovers keep it. `RowsSound` needs, of a box that was not renamed too early and shares
no name and has an address (`Lone`), that it keeps a row under some name it had, and that no worker is about
to insert another once it was renamed (`RowKept`): its `UPDATE` finds the row. The bound
on cached interfaces of rows that are gone (`GoneBounded`) is why a fresh id always exists.

**Links** (`HubProofs`; any devices, cables, number of workers, faults). `LinkStateTrue`
needs that traps name an end of a cable that was cut or mended and that a worker's row
is a report of that cable (`TrapsReported`): the ports of a cable are its own, so what
`CorrelateLinkByPort` finds is not the neighbour's link; and that a trap is with one worker
at most (`TrapsOnce`), so that the event it owes is counted once. `OnlyTrapTurnsOn` holds
of every step by itself.

**Runner** (`HubProofs`; any devices, networks, root, roles and overrides, faults).
Links may cross networks in any way; of a network that is `Crossed` only the roles are
claimed (see above). The proof has four parts.

* *The search.* `BfsStep` keeps `Search`, which gives each device met a level and the root
  of its part: devices hang from their parents one level up (`Hung`); the queue holds one
  part in the order of levels, which differ by one at most (`Ordered`); the neighbours of a
  visited device are met and one level down at most (`Visited`); a root is the configured
  one or none that was left had more neighbours (`Chosen`). `Todo`, twice the devices not
  met plus the queue, falls with each step, whence all is done after `2 * |Devices|` of
  them (`BfsFinds`).
* *Distances.* The devices within k steps of a root are those of its part of level k or
  less (`BallOfRoot`), so the level is the distance; what a device reaches after
  `|Devices|` steps is closed under links, because each step before adds a device
  (`ReachClosed`), so it is its part (`ReachIsPart`). `TreeSpans` puts the two together.
* *The runner.* `RunnerInv`: for a network that nothing was added to since its run read the
  tables, how far the run is with its tree, its relations and its roles (`Progress`), and
  that the others' relations are their trees' (`Settled`, `SettledMarks`) and their roles
  current. A report keeps the relation of a stored link (`LinksKeep`), and a failed run is
  no longer claimed.
* *Other networks.* `TreeCrosses`: no search begins with a foreign device, so one that is
  a parent was met from another device of the network than the one that hangs from it, and
  both have a link to it. Hence only crossed networks have foreign parents in memory
  (`CrossTree`) or downlinks on rows of others (`CrossMarks`), and what another run does to
  the rows of a network is a downlink of its own (`ForeignDown`), which no tree within the
  network contains.

The numbers of steps are gone through by `UpTo`, an induction up to a bound that comes from
the library's `WFMin`, and the equations of the recursive functions by `BfsSteps` and
`BallSteps`. For the provers' sake the model lists neighbours by rank (`InOrder`) rather
than with `SortSeq`.

**Fleet** (`CollectorProofs`; any addresses, names, targets, bounds). `StreamsSound` needs
`ManagedAreTargets`, the manager is made after the targets and never told of others, and
`DirectOnlyInFallback`, direct streams are open only while the proxy is away or just back.

**Commands** (`CommandsProofs`; any fields, aliases, collectors, pages, attempts and
bounds). `TableSound` needs that an outcome up to the time the forwarder has read to is
reported, in its hands or late (`Covered`), that no cursor and no outcome is ahead of the
latest stamp committed (`Behind`), and that of the rows of one stamp all are late
(`Ties`): a page holds the oldest rows, so one it leaves out below its last stamp has that
stamp. `OneCollectorInOrder` says that `late` stays empty with one collector, since
an ack then has a stamp after all others (`InOrder`). `DeviceNeverRegresses` needs that all
values in rows, batches and devices come from edits an answer covered (`ValuesGiven`),
that a batch has one value of a field, no older than what its collector has written under
that name (`BatchNewest`), and that a pending row is no older than all that was written
under its name or is held (`RowsNewest`).

An insert upserts a list of commands one by one and a pull picks the oldest rows one by
one; both are recursive functions of the model. What they compute is proved from their
defining equations by an induction written out: `Least` (a non-empty set of naturals has
a least element) comes from the library's `WFMin`, `Induction` over a set of naturals and
`Greatest` follow from it, and `InsertedSteps` and its like state what holds after n
commands. This needs no theorem with an operator as a parameter.

**Only model-checked.** Every liveness property, which the prover does not reach.

## Plan

1. `chunkPayload`, `lastTailFull` and `splitDevice` as functions, against what they must
   keep: every row once, every chunk within the budget or a single item.
2. A run of `Topology` with rows of the two directions of a link, which differ in state.
3. What a crossed network's relations still keep: stale marks that the other's next run
   takes away.

## Not modelled

Redfish and threshold pollers read each device on their own and keep no state between
reads; what becomes of their packets is in `EdrPublisher`, `Ingest` and `Inventory`. The
wire codecs (BACnet, gNMI paths, SNMP values), the identification of vendors, the
topology file's format and the OID tables are conversions of data that no property here
tells apart. Retention, migrations, configuration, generated code, the launcher of
simulator processes and the manual tools hold no state of the protocol, or only I/O.
