------------------------------- MODULE Ingest -------------------------------
(***************************************************************************)
(* The hub's ingest pipeline (fwDCS/internal/ingest, api/grpc/server.go):  *)
(* BatchPush hands a batch to a bounded channel without blocking, workers  *)
(* take batches from it, run events through the Redis deduper and write    *)
(* them one at a time, and collect metric and energy rows in a buffer of   *)
(* their own that is flushed when full or on a tick.  Several workers, a   *)
(* collector that sends the same packet again or in another order, packets *)
(* that fail validation or come before their device is registered, Redis   *)
(* keys that expire, Redis and database errors, and a shutdown are all in  *)
(* the model.                                                              *)
(*                                                                         *)
(* A packet is a number; the collector's signer draws nonces in the order  *)
(* packets are made, so the number is the nonce too.                       *)
(***************************************************************************)
EXTENDS Integers, Sequences, FiniteSets, FiniteSetsExt

CONSTANTS
  NPackets,     \* packets 1..NPackets
  EventSources, \* source of each event packet; the others are rows
  Energy,       \* row packets of kind "energy"
  Malformed,    \* packets without an id, a source or a name
  DeviceOf,     \* device of each row packet
  Workers,
  ChannelSize,
  BufferRows,
  DepthModulus, \* 2^32 in the code
  MaxBatch,     \* bound: packets of one BatchPush
  MaxSends,     \* bound: packets sent, repeats counted
  MaxRedisErrs, \* bound: Redis calls that fail
  MaxDbErrs,    \* bound: database writes that fail
  MaxStops      \* bound: shutdowns (0 or 1)

Packets == 1..NPackets
Events  == DOMAIN EventSources
Sources == {EventSources[p] : p \in Events}
Rows    == Packets \ Events
Devices == {DeviceOf[p] : p \in Rows}

ASSUME IngestAssumption ==
  /\ NPackets \in Nat /\ Events \subseteq Packets /\ Energy \subseteq Rows
  /\ Malformed \subseteq Packets /\ DOMAIN DeviceOf = Rows
  /\ Workers # {} /\ IsFiniteSet(Workers)
  /\ ChannelSize \in Nat \ {0} /\ BufferRows \in Nat \ {0}
  /\ DepthModulus \in Nat /\ DepthModulus > ChannelSize
  /\ MaxBatch \in Nat /\ MaxSends \in Nat /\ MaxRedisErrs \in Nat /\ MaxDbErrs \in Nat
  /\ MaxStops \in Nat

VARIABLES
  ch,        \* Pipeline.ch: batches waiting for a worker
  depth,     \* Pipeline.queueDepth, a uint32
  counting,  \* Submit calls between the send and the Add(1)
  wk,        \* per worker: pc, the rest of its batch, its row buffers
  seen,      \* Redis pkt:<id> keys that have not expired
  nonce,     \* Redis nonce:<source> keys, 0 when there is none
  events,    \* rows of the events table per packet
  metrics,   \* packets with a row in metrics or energy
  devices,   \* devices with a row in devices
  stopping,  \* ctx is done
  offers,    \* history: times each packet was sent and accepted
  settled,   \* history: times each packet's fate was decided
  written,   \* history: events whose write was attempted
  refused,   \* history: events dropped by the nonce check before any write
  lapses,    \* history: times each event's pkt:<id> key has expired
  early,     \* history: energy packets met before any other row of their device was settled
  redisErrs, dbErrs \* how often Redis and the database have failed

store   == <<seen, nonce, events, metrics, devices>>
history == <<offers, settled, written, refused, lapses, early>>
vars    == <<ch, depth, counting, wk, stopping, store, history, redisErrs, dbErrs>>

Elems(s) == {s[i] : i \in DOMAIN s}

Count(s, p) == Cardinality({i \in DOMAIN s : s[i] = p})

\* Batches a collector may send: any packets in any order, none twice.
Batches ==
  {b \in UNION {[1..n -> Packets] : n \in 1..MaxBatch} :
     \A i, j \in DOMAIN b : i # j => b[i] # b[j]}

-----------------------------------------------------------------------------
(* Submit, called by BatchPush, Push and PushStream.                       *)

Submit(b) ==
  /\ MapThenSumSet(LAMBDA p : offers[p], Packets) + Len(b) <= MaxSends
  /\ Len(ch) < ChannelSize
  /\ ch' = Append(ch, b)
  /\ counting' = counting + 1
  /\ offers' = [p \in Packets |-> IF p \in Elems(b) THEN offers[p] + 1 ELSE offers[p]]
  /\ UNCHANGED <<depth, wk, stopping, store, settled, written, refused, lapses, early,
                 redisErrs, dbErrs>>

\* queueDepth.Add(1) comes after the send: a worker may have been faster.
CountUp ==
  /\ counting > 0
  /\ counting' = counting - 1
  /\ depth' = (depth + 1) % DepthModulus
  /\ UNCHANGED <<ch, wk, stopping, store, history, redisErrs, dbErrs>>

-----------------------------------------------------------------------------
(* workerLoop                                                              *)

Pkt(w) == Head(wk[w].batch)

\* The packet is done with: on to the next one of the batch.
Advance(s) ==
  [s EXCEPT !.batch = Tail(@), !.pc = IF Len(s.batch) = 1 THEN "select" ELSE "packet"]

Settle(S) == settled' = [p \in Packets |-> IF p \in S THEN settled[p] + 1 ELSE settled[p]]

Take(w) ==
  /\ wk[w].pc = "select" /\ ch # <<>>
  /\ ch' = Tail(ch)
  /\ depth' = (depth + DepthModulus - 1) % DepthModulus
  /\ wk' = [wk EXCEPT ![w].batch = Head(ch), ![w].pc = "packet"]
  /\ UNCHANGED <<counting, stopping, store, history, redisErrs, dbErrs>>

FlushToMut(w, pc, batch) ==
  /\ wk' = [wk EXCEPT ![w] = [pc |-> pc, batch |-> batch, rows |-> <<>>, erows |-> <<>>]]
  /\ metrics' = metrics \cup Elems(wk[w].rows)
  /\ settled' = [p \in Packets |-> settled[p] + Count(wk[w].rows, p) + Count(wk[w].erows, p)]
  /\ UNCHANGED dbErrs

\* flush(): metric rows, then energy rows; each batch is all or nothing, and an
\* error is only logged.
FlushTo(w, pc, batch) ==
  LET rows == wk[w].rows
      ers  == wk[w].erows
  IN  /\ wk' = [wk EXCEPT ![w] = [pc |-> pc, batch |-> batch, rows |-> <<>>, erows |-> <<>>]]
      /\ \E failed \in SUBSET {r \in {rows, ers} : r # <<>>} :
           /\ dbErrs + Cardinality(failed) <= MaxDbErrs
           /\ dbErrs' = dbErrs + Cardinality(failed)
           /\ metrics' = metrics \cup UNION {Elems(r) : r \in {rows, ers} \ failed}
      /\ settled' = [p \in Packets |-> settled[p] + Count(rows, p) + Count(ers, p)]

TickMut(w) ==
  /\ wk[w].pc = "select" /\ Len(wk[w].rows) >= BufferRows
  /\ FlushTo(w, "select", <<>>)
  /\ UNCHANGED <<ch, depth, counting, stopping, seen, nonce, events, devices,
                 offers, written, refused, lapses, early, redisErrs>>

Tick(w) ==
  /\ wk[w].pc = "select" /\ (wk[w].rows # <<>> \/ wk[w].erows # <<>>)
  /\ FlushTo(w, "select", <<>>)
  /\ UNCHANGED <<ch, depth, counting, stopping, seen, nonce, events, devices,
                 offers, written, refused, lapses, early, redisErrs>>

\* ctx.Done: the worker flushes its own rows and leaves; what is still in the
\* channel stays there.
WorkerStop(w) ==
  /\ wk[w].pc = "select" /\ stopping
  /\ FlushTo(w, "done", <<>>)
  /\ UNCHANGED <<ch, depth, counting, stopping, seen, nonce, events, devices,
                 offers, written, refused, lapses, early, redisErrs>>

Full(s) == Len(s) >= BufferRows

\* The packet in hand is dropped.
Drop(w) == wk' = [wk EXCEPT ![w] = Advance(@)] /\ Settle({Pkt(w)})

\* No id, no source or no name: dropped before anything is looked at.
Invalid(w) ==
  /\ wk[w].pc = "packet" /\ Pkt(w) \in Malformed
  /\ Drop(w)
  /\ UNCHANGED <<ch, depth, counting, stopping, store,
                 offers, written, refused, lapses, early, redisErrs, dbErrs>>

\* A metric or energy packet becomes a row, and a full buffer is flushed.  A metric
\* packet registers its device on first sight, an energy packet finds it registered.
Row(w) ==
  LET p    == Pkt(w)
      next == Advance(wk[w])
      rows  == IF p \in Energy THEN wk[w].rows ELSE Append(wk[w].rows, p)
      erows == IF p \in Energy THEN Append(wk[w].erows, p) ELSE wk[w].erows
      full  == Full(IF p \in Energy THEN erows ELSE rows)
  IN  /\ wk[w].pc = "packet" /\ p \in Rows \ Malformed
      /\ p \in Energy \/ stopping => DeviceOf[p] \in devices
      /\ devices' = devices \cup {DeviceOf[p]}
      /\ wk' = [wk EXCEPT ![w] = [next EXCEPT !.rows = rows, !.erows = erows,
                                   !.pc = IF full THEN "flush" ELSE @]]
      /\ UNCHANGED <<ch, depth, counting, stopping, seen, nonce, events, metrics, history,
                     redisErrs, dbErrs>>

\* Other rows of the same device, which register it.
Registrars(p) == {q \in Rows \ (Energy \cup Malformed) : DeviceOf[q] = DeviceOf[p]}

\* An energy packet does not register its device: it is dropped, and nothing has failed.
Unregistered(w) ==
  LET p == Pkt(w) IN
  /\ wk[w].pc = "packet" /\ p \in Energy \ Malformed /\ ~stopping
  /\ DeviceOf[p] \notin devices
  /\ Drop(w)
  /\ early' = IF \A q \in Registrars(p) : settled[q] = 0 THEN early \cup {p} ELSE early
  /\ UNCHANGED <<ch, depth, counting, stopping, store, offers, written, refused, lapses,
                 redisErrs, dbErrs>>

\* A statement that fails while the device is looked up or registered costs the packet;
\* a metric packet may have registered its device before.
RowDropped(w) ==
  LET p == Pkt(w) IN
  /\ wk[w].pc = "packet" /\ p \in Rows \ Malformed
  /\ dbErrs < MaxDbErrs \/ stopping
  /\ dbErrs' = IF stopping THEN dbErrs ELSE dbErrs + 1
  /\ Drop(w)
  /\ devices' \in {devices, IF p \in Energy THEN devices ELSE devices \cup {DeviceOf[p]}}
  /\ UNCHANGED <<ch, depth, counting, stopping, seen, nonce, events, metrics,
                 offers, written, refused, lapses, early, redisErrs>>

FullFlush(w) ==
  /\ wk[w].pc = "flush"
  /\ FlushTo(w, IF wk[w].batch = <<>> THEN "select" ELSE "packet", wk[w].batch)
  /\ UNCHANGED <<ch, depth, counting, stopping, seen, nonce, events, devices,
                 offers, written, refused, lapses, early, redisErrs>>

-----------------------------------------------------------------------------
(* IsDuplicate.  Three Redis calls, each of which may fail: an error lets  *)
(* the packet through.  Calls made after ctx is done fail.  Both keys have *)
(* a time to live, an hour and a day, and may be gone before any step.     *)

RedisFails(w, pcs) ==
  /\ wk[w].pc \in pcs /\ (wk[w].pc = "packet" => Pkt(w) \in Events \ Malformed)
  /\ redisErrs < MaxRedisErrs \/ stopping
  /\ redisErrs' = IF stopping THEN redisErrs ELSE redisErrs + 1
  /\ wk' = [wk EXCEPT ![w].pc = "write"]
  /\ UNCHANGED <<ch, depth, counting, stopping, store, history, dbErrs>>

\* Layer 1, SET NX with an hour to live: one atomic step that tells the first sender
\* from the rest.
ClaimMut(p) == UNCHANGED seen

Claim(p) == seen' = seen \cup {p}

SetNX(w) ==
  LET p == Pkt(w) IN
  /\ wk[w].pc = "packet" /\ p \in Events \ Malformed /\ ~stopping
  /\ IF p \in seen
     THEN /\ wk' = [wk EXCEPT ![w] = Advance(@)]
          /\ Settle({p})
          /\ UNCHANGED seen
     ELSE /\ Claim(p)
          /\ wk' = [wk EXCEPT ![w].pc = "nonce"]
          /\ UNCHANGED settled
  /\ UNCHANGED <<ch, depth, counting, stopping, nonce, events, metrics, devices,
                 offers, written, refused, lapses, early, redisErrs, dbErrs>>

\* Layer 2, GET: a nonce at or below the source's last one is a replay.
GetNonce(w) ==
  LET p == Pkt(w) IN
  /\ wk[w].pc = "nonce" /\ ~stopping
  /\ IF p <= nonce[EventSources[p]]
     THEN /\ wk' = [wk EXCEPT ![w] = Advance(@)]
          /\ Settle({p})
          /\ refused' = IF p \in written THEN refused ELSE refused \cup {p}
     ELSE /\ wk' = [wk EXCEPT ![w].pc = "setnonce"]
          /\ UNCHANGED <<settled, refused>>
  /\ UNCHANGED <<ch, depth, counting, stopping, store, offers, written, lapses, early,
                 redisErrs, dbErrs>>

\* SET, some time after the GET.
SetNonce(w) ==
  LET p == Pkt(w) IN
  /\ wk[w].pc = "setnonce" /\ ~stopping
  /\ nonce' = [nonce EXCEPT ![EventSources[p]] = p]
  /\ wk' = [wk EXCEPT ![w].pc = "write"]
  /\ UNCHANGED <<ch, depth, counting, stopping, seen, events, metrics, devices, history,
                 redisErrs, dbErrs>>

\* WriteEvent; an error is only logged, and the packet's key stays in Redis.
WriteEvent(w) ==
  LET p == Pkt(w) IN
  /\ wk[w].pc = "write"
  /\ \/ /\ ~stopping
        /\ events' = [events EXCEPT ![p] = @ + 1]
        /\ UNCHANGED dbErrs
     \/ /\ dbErrs < MaxDbErrs \/ stopping
        /\ dbErrs' = IF stopping THEN dbErrs ELSE dbErrs + 1
        /\ UNCHANGED events
  /\ wk' = [wk EXCEPT ![w] = Advance(@)]
  /\ Settle({p})
  /\ written' = written \cup {p}
  /\ UNCHANGED <<ch, depth, counting, stopping, seen, nonce, metrics, devices,
                 offers, refused, lapses, early, redisErrs>>

\* The hour of a pkt:<id> key is over: the next sender is the first again.
PktExpires(p) ==
  /\ p \in seen
  /\ seen' = seen \ {p}
  /\ lapses' = [lapses EXCEPT ![p] = @ + 1]
  /\ UNCHANGED <<ch, depth, counting, wk, stopping, nonce, events, metrics, devices,
                 offers, settled, written, refused, early, redisErrs, dbErrs>>

\* A day without a SET: GET finds no nonce, which counts as 0.
NonceExpires(s) ==
  /\ nonce[s] > 0
  /\ nonce' = [nonce EXCEPT ![s] = 0]
  /\ UNCHANGED <<ch, depth, counting, wk, stopping, seen, events, metrics, devices,
                 history, redisErrs, dbErrs>>

-----------------------------------------------------------------------------
\* SIGTERM: ctx is done; the gRPC server still finishes the calls it has.
Shutdown ==
  /\ ~stopping /\ MaxStops > 0
  /\ stopping' = TRUE
  /\ UNCHANGED <<ch, depth, counting, wk, store, history, redisErrs, dbErrs>>

Init ==
  /\ ch = <<>> /\ depth = 0 /\ counting = 0
  /\ wk = [w \in Workers |-> [pc |-> "select", batch |-> <<>>, rows |-> <<>>, erows |-> <<>>]]
  /\ seen = {} /\ nonce = [s \in Sources |-> 0]
  /\ events = [p \in Events |-> 0] /\ metrics = {}
  /\ devices \in SUBSET Devices
  /\ stopping = FALSE
  /\ offers = [p \in Packets |-> 0] /\ settled = [p \in Packets |-> 0]
  /\ written = {} /\ refused = {}
  /\ lapses = [p \in Events |-> 0] /\ early = {}
  /\ redisErrs = 0 /\ dbErrs = 0

Work(w) ==
  \/ Take(w) \/ Tick(w) \/ WorkerStop(w)
  \/ Invalid(w) \/ Row(w) \/ Unregistered(w) \/ RowDropped(w) \/ FullFlush(w)
  \/ SetNX(w) \/ GetNonce(w) \/ SetNonce(w) \/ WriteEvent(w)
  \/ RedisFails(w, {"packet", "nonce", "setnonce"})

Next ==
  \/ \E b \in Batches : Submit(b)
  \/ CountUp
  \/ \E w \in Workers : Work(w)
  \/ \E p \in Events : PktExpires(p)
  \/ \E s \in Sources : NonceExpires(s)
  \/ Shutdown

Spec == Init /\ [][Next]_vars

\* Worker goroutines and RPC handlers run; the flush ticker ticks.
FairSpec == Spec /\ WF_vars(CountUp) /\ \A w \in Workers : WF_vars(Work(w))

-----------------------------------------------------------------------------
(* Properties.                                                             *)

TypeOK ==
  /\ ch \in Seq(Batches) /\ Len(ch) <= ChannelSize
  /\ depth \in 0..(DepthModulus - 1) /\ counting \in Nat
  /\ wk \in [Workers -> [pc    : {"select", "packet", "flush", "nonce", "setnonce", "write", "done"},
                         batch : Seq(Packets),
                         rows  : Seq(Rows \ Energy),
                         erows : Seq(Energy)]]
  /\ \A w \in Workers :
       /\ Len(wk[w].batch) <= MaxBatch
       /\ Len(wk[w].rows) <= BufferRows /\ Len(wk[w].erows) <= BufferRows
  /\ seen \subseteq Events /\ nonce \in [Sources -> 0..NPackets]
  /\ events \in [Events -> Nat] /\ metrics \subseteq Rows /\ devices \subseteq Devices
  /\ stopping \in BOOLEAN
  /\ offers \in [Packets -> Nat] /\ settled \in [Packets -> Nat]
  /\ lapses \in [Events -> Nat] /\ early \subseteq Energy

\* Places of packet p in a sequence of at most n packets that each worker has.
Spots(seqs, n, p) ==
  {x \in Workers \X (1..n) : x[2] \in DOMAIN seqs[x[1]] /\ seqs[x[1]][x[2]] = p}

Held(p) ==
  Cardinality({i \in DOMAIN ch : p \in Elems(ch[i])})
  + Cardinality(Spots([w \in Workers |-> wk[w].batch], MaxBatch, p))
  + Cardinality(Spots([w \in Workers |-> wk[w].rows], BufferRows, p))
  + Cardinality(Spots([w \in Workers |-> wk[w].erows], BufferRows, p))

\* Channel, worker batches, row buffers and flushes neither lose nor double an
\* accepted packet: each acceptance by Submit is still held or has had its fate
\* decided exactly once, through errors and shutdown.
AcceptedAccounted == \A p \in Packets : offers[p] = Held(p) + settled[p]

\* The uint32 depth, decremented by a worker possibly before the handler has
\* counted the batch, never drifts: it always equals the channel length but for
\* the handlers that have not counted yet.
DepthAgrees == (depth + counting) % DepthModulus = Len(ch)

\* "Layer 1 - packet ID dedup (1-hour window)": however often an event is sent and
\* whichever workers handle it at once, it is stored at most once in each window, as long
\* as Redis answers.  A window ends when the key of SetNX expires, so an event is stored
\* at most once more than its key has expired; the nonce check may refuse it even then,
\* but not always (GetNonce and SetNonce are two calls, and the nonce expires too).
EventStoredOnce ==
  redisErrs = 0 => \A p \in Events : events[p] <= 1 + lapses[p]

\* No flush forgets a row and none is lost between workers that register a device and
\* workers that look it up: while the database has not failed and nothing stops, a settled
\* row packet is stored, unless it failed validation or was an energy packet that was met
\* before any metric packet of its device had been settled.
RowsStored ==
  dbErrs = 0 /\ ~stopping =>
    \A p \in Rows \ Malformed : settled[p] > 0 => p \in metrics \cup early

\* What the pipeline accepted is accounted for, in number, in the depth it reports
\* and in the tables.
Accounted == TypeOK /\ AcceptedAccounted /\ DepthAgrees /\ RowsStored

\* Everything accepted is decided in the end unless the hub stops: no batch is
\* left in the channel and no row waits in a buffer for ever.
AllSettles == []<>(stopping \/ \A p \in Packets : offers[p] = settled[p])

\* IsDuplicate "returns true if this packet was already seen".
DropsOnlySeen == refused = {}
=============================================================================
