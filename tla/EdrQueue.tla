------------------------------ MODULE EdrQueue ------------------------------
(***************************************************************************)
(* The persistent FIFO of the collector (fwEDR/internal/queue/queue.go): a *)
(* bbolt bucket of packets under increasing sequence keys, a soft byte     *)
(* limit, and an in-memory byte counter that is seeded when the file is    *)
(* opened and then kept by hand.  Operations run one at a time (q.mu), in  *)
(* one bbolt transaction each; the transaction is modelled entry by entry, *)
(* so that a crash can fall inside it and a full queue can roll it back.   *)
(***************************************************************************)
EXTENDS Integers, Sequences, FiniteSets

CONSTANTS
  Packets,       \* packet contents
  Size,          \* marshalled size of each packet
  Urgent,        \* packets whose severity is critical or major
  MaxBytes,      \* the soft limit of Open
  EntryOverhead, \* bytes bbolt adds to an entry on a leaf page
  InlineLimit,   \* largest bucket bbolt keeps inline in its parent
  MaxBatch,      \* bound: packets of one PushBatch, n of one PopBatch
  MaxSeq         \* bound: sequence numbers the bucket hands out

ASSUME QueueAssumption ==
  /\ Size \in [Packets -> Nat \ {0}]
  /\ Urgent \subseteq Packets
  /\ MaxBytes \in Nat \ {0}
  /\ EntryOverhead \in Nat
  /\ InlineLimit \in Nat
  /\ MaxBatch \in Nat \ {0}
  /\ MaxSeq \in Nat

VARIABLES
  disk,      \* committed bucket: key -> packet
  seqNo,     \* committed bucket sequence
  usedBytes, \* Queue.usedBytes
  up,        \* the database is open
  tx,        \* the transaction under way
  upto,      \* history: upto[k] = bytes ever committed under keys 1..k
  slack      \* history: usedBytes minus payload when the file was opened

vars == <<disk, seqNo, usedBytes, up, tx, upto, slack>>

NoTx == [op |-> "none"]

Batches == UNION {[1..n -> Packets] : n \in 1..MaxBatch}

-----------------------------------------------------------------------------
(* The bucket.                                                             *)

\* c.First(): the least key.
First(db) == CHOOSE k \in DOMAIN db : \A j \in DOMAIN db : k <= j

\* b.Put(key, data): a key that is already there is overwritten.
Put(db, key, pkt) ==
  [k \in DOMAIN db \cup {key} |-> IF k = key THEN pkt ELSE db[k]]

\* b.Delete(key)
Delete(db, key) == [k \in DOMAIN db \ {key} |-> db[k]]

\* Payload bytes of a bucket whose keys end at seq, from the history u.
Payload(db, seq, u) ==
  IF DOMAIN db = {} THEN 0 ELSE u[seq] - u[First(db) - 1]

\* Bucket.Stats().LeafInuse: an inline bucket has no leaf page of its own.
LeafInuse(db, seq, u) ==
  LET inuse == Payload(db, seq, u) + EntryOverhead * Cardinality(DOMAIN db)
  IN  IF inuse <= InlineLimit THEN 0 ELSE inuse

-----------------------------------------------------------------------------
(* PushBatch                                                               *)

BeginPush(batch) ==
  /\ up
  /\ tx = NoTx
  /\ seqNo + Len(batch) <= MaxSeq
  /\ tx' = [op |-> "push", db |-> disk, seq |-> seqNo, used |-> usedBytes,
            upto |-> upto, batch |-> batch, todo |-> batch]
  /\ UNCHANGED <<disk, seqNo, usedBytes, up, upto, slack>>

InsertKeyMut(t, db, used) ==
  LET pkt == Head(t.todo)
      key == IF t.seq = 0 THEN 1 ELSE t.seq
  IN  [t EXCEPT !.db = Put(db, key, pkt), !.seq = key, !.used = used + Size[pkt],
                !.upto = [k \in 0..key |-> IF k = key THEN t.upto[t.seq] + Size[pkt] ELSE t.upto[k]],
                !.todo = Tail(@)]

\* NextSequence, Put, used += len.
Insert(t, db, used) ==
  LET pkt == Head(t.todo)
      key == t.seq + 1
  IN  [op |-> "push", db |-> Put(db, key, pkt), seq |-> key,
       used |-> used + Size[pkt],
       upto |-> [k \in 0..key |-> IF k = key THEN t.upto[t.seq] + Size[pkt]
                                             ELSE t.upto[k]],
       batch |-> t.batch, todo |-> Tail(t.todo)]

PutEntry ==
  /\ tx.op = "push" /\ tx.todo # <<>>
  /\ tx.used < MaxBytes
  /\ tx' = Insert(tx, tx.db, tx.used)
  /\ UNCHANGED <<disk, seqNo, usedBytes, up, upto, slack>>

\* evictOldestNonCritical: the stored value is a protobuf message, which
\* json.Unmarshal rejects, so the severity read is always "" and the first
\* entry is the one deleted, whatever its severity.
Evictable(db) == {First(db)}

EvictAndPut ==
  /\ tx.op = "push" /\ tx.todo # <<>>
  /\ tx.used >= MaxBytes
  /\ Head(tx.todo) \in Urgent
  /\ DOMAIN tx.db # {}
  /\ \E k \in Evictable(tx.db) :
       tx' = Insert(tx, Delete(tx.db, k), tx.used - Size[tx.db[k]])
  /\ UNCHANGED <<disk, seqNo, usedBytes, up, upto, slack>>

\* ErrFull rolls the whole transaction back.
PushFullMut ==
  /\ tx.op = "push" /\ tx.todo # <<>>
  /\ tx.used >= MaxBytes
  /\ Head(tx.todo) \notin Urgent \/ DOMAIN tx.db = {}
  /\ tx' = NoTx
  /\ disk' = tx.db /\ seqNo' = tx.seq /\ upto' = tx.upto
  /\ UNCHANGED <<usedBytes, up, slack>>

PushFull ==
  /\ tx.op = "push" /\ tx.todo # <<>>
  /\ tx.used >= MaxBytes
  /\ Head(tx.todo) \notin Urgent \/ DOMAIN tx.db = {}
  /\ tx' = NoTx
  /\ UNCHANGED <<disk, seqNo, usedBytes, up, upto, slack>>

\* The counter is assigned only after the transaction has committed.
CommitPushSeqMut ==
  /\ tx.op = "push" /\ tx.todo = <<>>
  /\ disk' = tx.db /\ upto' = tx.upto
  /\ usedBytes' = tx.used
  /\ tx' = NoTx
  /\ UNCHANGED <<seqNo, up, slack>>

CommitPushMut ==
  /\ tx.op = "push" /\ tx.todo = <<>>
  /\ disk' = tx.db /\ seqNo' = tx.seq /\ upto' = tx.upto
  /\ tx' = NoTx
  /\ UNCHANGED <<usedBytes, up, slack>>

CommitPush ==
  /\ tx.op = "push" /\ tx.todo = <<>>
  /\ disk' = tx.db /\ seqNo' = tx.seq /\ upto' = tx.upto
  /\ usedBytes' = tx.used
  /\ tx' = NoTx
  /\ UNCHANGED <<up, slack>>

-----------------------------------------------------------------------------
(* PopBatch                                                                *)

BeginPop(n) ==
  /\ up
  /\ tx = NoTx
  /\ tx' = [op |-> "pop", db |-> disk, n |-> n, out |-> 0, freed |-> 0]
  /\ UNCHANGED <<disk, seqNo, usedBytes, up, upto, slack>>

\* One more entry from the head, copied and deleted.
TakeEntry ==
  /\ tx.op = "pop"
  /\ tx.out < tx.n /\ DOMAIN tx.db # {}
  /\ LET k == First(tx.db) IN
       tx' = [op |-> "pop", db |-> Delete(tx.db, k), n |-> tx.n,
              out |-> tx.out + 1, freed |-> tx.freed + Size[tx.db[k]]]
  /\ UNCHANGED <<disk, seqNo, usedBytes, up, upto, slack>>

PopEmpty ==
  /\ tx.op = "pop"
  /\ tx.out = 0 /\ DOMAIN tx.db = {}
  /\ tx' = NoTx
  /\ UNCHANGED <<disk, seqNo, usedBytes, up, upto, slack>>

\* usedBytes -= freed, clamped at 0.
ReleaseMut(used, freed) == used - freed + 1

Release(used, freed) == IF used - freed < 0 THEN 0 ELSE used - freed

CommitPop ==
  /\ tx.op = "pop"
  /\ tx.out > 0 /\ (tx.out = tx.n \/ DOMAIN tx.db = {})
  /\ disk' = tx.db
  /\ usedBytes' = Release(usedBytes, tx.freed)
  /\ tx' = NoTx
  /\ UNCHANGED <<seqNo, up, upto, slack>>

-----------------------------------------------------------------------------
(* Open, Close and the death of the process.  bbolt's own file is the only *)
(* thing that survives.                                                    *)

Open ==
  /\ ~up
  /\ up' = TRUE
  /\ usedBytes' = LeafInuse(disk, seqNo, upto)
  /\ slack' = usedBytes' - Payload(disk, seqNo, upto)
  /\ UNCHANGED <<disk, seqNo, tx, upto>>

Close ==
  /\ up /\ tx = NoTx
  /\ up' = FALSE
  /\ UNCHANGED <<disk, seqNo, usedBytes, tx, upto, slack>>

Crash ==
  /\ up
  /\ up' = FALSE /\ tx' = NoTx
  /\ UNCHANGED <<disk, seqNo, usedBytes, upto, slack>>

Init ==
  /\ disk = [k \in {} |-> 0]
  /\ seqNo = 0
  /\ usedBytes = 0
  /\ up = FALSE
  /\ tx = NoTx
  /\ upto = [k \in {0} |-> 0]
  /\ slack = 0

Next ==
  \/ \E batch \in Batches : BeginPush(batch)
  \/ PutEntry \/ EvictAndPut \/ PushFull \/ CommitPush
  \/ \E n \in 1..MaxBatch : BeginPop(n)
  \/ TakeEntry \/ PopEmpty \/ CommitPop
  \/ Open \/ Close \/ Crash

Spec == Init /\ [][Next]_vars

-----------------------------------------------------------------------------
(* Properties.                                                             *)

IsBucket(db) == /\ DOMAIN db \subseteq Nat \ {0}
                /\ db \in [DOMAIN db -> Packets]

IsPushTx(t) ==
  /\ t.op = "push"
  /\ t = [op |-> "push", db |-> t.db, seq |-> t.seq, used |-> t.used,
          upto |-> t.upto, batch |-> t.batch, todo |-> t.todo]
  /\ IsBucket(t.db)
  /\ t.seq \in Nat /\ t.used \in Int
  /\ t.upto \in [0..t.seq -> Nat]
  /\ t.batch \in Seq(Packets) /\ t.todo \in Seq(Packets)

IsPopTx(t) ==
  /\ t.op = "pop"
  /\ t = [op |-> "pop", db |-> t.db, n |-> t.n, out |-> t.out, freed |-> t.freed]
  /\ IsBucket(t.db)
  /\ t.n \in Nat /\ t.out \in Nat /\ t.freed \in Nat

\* Type invariant: what the Queue struct, its file and a transaction hold.
TypeOK ==
  /\ IsBucket(disk)
  /\ seqNo \in Nat
  /\ usedBytes \in Int
  /\ up \in BOOLEAN
  /\ tx = NoTx \/ IsPushTx(tx) \/ IsPopTx(tx)
  /\ upto \in [0..seqNo -> Nat]
  /\ slack \in Int

\* A bucket with no holes: keys run up to the sequence, and the history adds up.
Sound(db, seq, u) ==
  /\ \E lo \in 1..(seq + 1) : DOMAIN db = lo..seq
  /\ \A k \in DOMAIN db : u[k] = u[k - 1] + Size[db[k]]
  /\ \A i, j \in 0..seq : i <= j => u[j] - u[i] >= j - i

\* The counter is off by no more than it was at Open, in either direction.
Within(used, payload) ==
  /\ slack <= used - payload
  /\ used - payload <= 0 \/ used - payload <= slack

\* The hand-kept usedBytes never drifts (PushBatch, PopBatch, eviction and
\* rollback): its distance from the payload on disk stays between what Open
\* left it at and zero, and Open undercounts by at most an inline bucket.
Accounting ==
  up => /\ Within(usedBytes, Payload(disk, seqNo, upto))
        /\ slack >= -InlineLimit

\* The soft limit of Open bounds the backlog: with packets of at least one
\* byte, whatever mix of pushes, evictions, pops and restarts, the bucket
\* never holds more than MaxBytes + InlineLimit entries.
EntriesBounded == Cardinality(DOMAIN disk) <= MaxBytes + InlineLimit

\* NextSequence hands out keys nobody holds, across rollbacks and restarts: no
\* step overwrites a committed packet or files one behind an older one.
KeysNeverReused ==
  [][/\ \A k \in DOMAIN disk \cap DOMAIN disk' : disk'[k] = disk[k]
     /\ \A k \in DOMAIN disk' \ DOMAIN disk : k > seqNo]_vars

\* PushBatch and PopBatch are atomic for their callers, through ErrFull
\* rollbacks and crashes inside a transaction: the committed bucket, read in
\* key order, behaves as an AtomicFifo called with the transaction's batch.
Fifo == INSTANCE AtomicFifo WITH
          q <- [i \in 1..Cardinality(DOMAIN disk) |->
                  disk[seqNo - Cardinality(DOMAIN disk) + i]],
          call <- IF tx.op = "push" THEN tx.batch ELSE <<>>

IsAtomicFifo == Fifo!Spec

\* The comments of PushBatch and evictOldestNonCritical: a critical or major
\* packet is never the one evicted to make room.
UrgentNotEvicted ==
  [][EvictAndPut => \A k \in DOMAIN tx.db : tx.db[k] \in Urgent => k \in DOMAIN tx'.db]_vars

-----------------------------------------------------------------------------
(* The inductive invariant.  A transaction's own copy obeys what the        *)
(* committed state obeys, and a pop knows what it has freed so far.         *)

PushInv ==
  tx.op = "push" =>
    /\ up
    /\ Sound(tx.db, tx.seq, tx.upto)
    /\ Within(tx.used, Payload(tx.db, tx.seq, tx.upto))
    /\ Cardinality(DOMAIN tx.db) <= MaxBytes + InlineLimit
    /\ tx.seq >= seqNo
    /\ \A k \in DOMAIN tx.db : k <= seqNo => k \in DOMAIN disk /\ tx.db[k] = disk[k]

PopInv ==
  tx.op = "pop" =>
    /\ up
    /\ Sound(tx.db, seqNo, upto)
    /\ tx.freed = Payload(disk, seqNo, upto) - Payload(tx.db, seqNo, upto)
    /\ \A k \in DOMAIN tx.db : k \in DOMAIN disk /\ tx.db[k] = disk[k]

IInv ==
  /\ TypeOK
  /\ Sound(disk, seqNo, upto)
  /\ Accounting
  /\ EntriesBounded
  /\ PushInv
  /\ PopInv
=============================================================================
