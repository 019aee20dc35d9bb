---------------------------- MODULE QueueProofs -----------------------------
(***************************************************************************)
(* Proofs about the two queues on disk.                                    *)
(*                                                                         *)
(* The collector's (EdrQueue), for every set of packets, every size        *)
(* function, every limit and every batch length.  The bucket never has a   *)
(* hole, so its payload is a difference of two history values; the lemmas  *)
(* say what a Put at the next key and a Delete of the first key do to such *)
(* a bucket, and the invariant follows action by action.                   *)
(*                                                                         *)
(* The host agent's, with its publisher and stream (Idr), for every number *)
(* of packets, queue limit, flush size and number of failures: a packet is *)
(* in exactly one of the six places the code has for it, and an outage of  *)
(* the hub leaves what is on disk on disk.                                 *)
(***************************************************************************)
EXTENDS EdrQueue, Idr, FiniteSetTheorems, SequenceTheorems, TLAPS

-----------------------------------------------------------------------------
(* The bucket.                                                             *)

\* The cursor's First on a bucket whose keys are lo..hi.
LEMMA FirstOfInterval ==
  ASSUME NEW lo \in Nat, NEW hi \in Nat, lo <= hi, NEW db, DOMAIN db = lo..hi
  PROVE  First(db) = lo
<1>1. lo \in DOMAIN db /\ \A j \in DOMAIN db : lo <= j
  OBVIOUS
<1>2. \A k \in DOMAIN db : (\A j \in DOMAIN db : k <= j) => k = lo
  OBVIOUS
<1>3. QED
  BY <1>1, <1>2 DEF First

\* How many entries a bucket whose keys are lo..hi holds.
LEMMA CardOfInterval ==
  ASSUME NEW lo \in Nat, NEW hi \in Nat, lo <= hi + 1
  PROVE  Cardinality(lo..hi) = hi - lo + 1
BY FS_Interval

\* A bucket without holes holds at most as many packets as payload bytes, since
\* no packet is empty.
LEMMA CountAtMostPayload ==
  ASSUME NEW db, NEW seq \in Nat, NEW u \in [0..seq -> Nat], Sound(db, seq, u)
  PROVE  /\ Payload(db, seq, u) \in Nat
         /\ Cardinality(DOMAIN db) \in Nat
         /\ Cardinality(DOMAIN db) <= Payload(db, seq, u)
<1>1. PICK lo \in 1..(seq + 1) : DOMAIN db = lo..seq
  BY DEF Sound
<1>2. Cardinality(DOMAIN db) = seq - lo + 1
  BY <1>1, CardOfInterval
<1>3. CASE lo = seq + 1
  BY <1>1, <1>2, <1>3 DEF Payload
<1>4. CASE lo <= seq
  <2>1. First(db) = lo
    BY <1>1, <1>4, FirstOfInterval
  <2>2. Payload(db, seq, u) = u[seq] - u[lo - 1]
    BY <1>1, <1>4, <2>1 DEF Payload
  <2>3. u[seq] - u[lo - 1] >= seq - (lo - 1)
    BY <1>1, <1>4 DEF Sound
  <2>4. QED
    BY <1>2, <2>2, <2>3
<1>5. QED
  BY <1>3, <1>4

\* Such a bucket has one key more after a Put at the next one.
LEMMA PutCounts ==
  ASSUME NEW db, NEW seq \in Nat, NEW u, Sound(db, seq, u), NEW pkt
  PROVE  Cardinality(DOMAIN Put(db, seq + 1, pkt)) = Cardinality(DOMAIN db) + 1
<1>1. PICK lo \in 1..(seq + 1) : DOMAIN db = lo..seq
  BY DEF Sound
<1>2. DOMAIN Put(db, seq + 1, pkt) = lo..(seq + 1)
  BY <1>1 DEF Put
<1>3. lo \in Int /\ seq \in Int /\ seq + 1 \in Int
  BY <1>1
<1>4. Cardinality(lo..seq) = IF lo > seq THEN 0 ELSE seq - lo + 1
  BY <1>3, FS_Interval
<1>5. Cardinality(lo..(seq + 1)) = IF lo > seq + 1 THEN 0 ELSE seq + 1 - lo + 1
  BY <1>3, FS_Interval
<1>6. QED
  BY <1>1, <1>2, <1>4, <1>5

\* b.Put at the next sequence number: the bucket stays without holes and its
\* payload and its length grow by the new packet.
LEMMA SoundPut ==
  ASSUME NEW db, IsBucket(db), NEW seq \in Nat, NEW u \in [0..seq -> Nat],
         Sound(db, seq, u), NEW pkt \in Packets,
         NEW nu, nu = [k \in 0..(seq + 1) |->
                         IF k = seq + 1 THEN u[seq] + Size[pkt] ELSE u[k]]
  PROVE  /\ IsBucket(Put(db, seq + 1, pkt))
         /\ nu \in [0..(seq + 1) -> Nat]
         /\ Sound(Put(db, seq + 1, pkt), seq + 1, nu)
         /\ Payload(Put(db, seq + 1, pkt), seq + 1, nu)
              = Payload(db, seq, u) + Size[pkt]
         /\ Cardinality(DOMAIN Put(db, seq + 1, pkt)) = Cardinality(DOMAIN db) + 1
<1> DEFINE ndb == Put(db, seq + 1, pkt)
<1>1. PICK lo \in 1..(seq + 1) : DOMAIN db = lo..seq
  BY DEF Sound
<1>2. DOMAIN ndb = lo..(seq + 1)
  BY <1>1 DEF Put
<1>3. /\ ndb[seq + 1] = pkt
      /\ \A k \in DOMAIN db : ndb[k] = db[k]
  BY <1>1 DEF Put
<1>4. IsBucket(ndb)
  BY <1>1, <1>2, <1>3 DEF IsBucket, Put
<1>5. Size[pkt] \in Nat \ {0}
  BY QueueAssumption
<1>6. nu \in [0..(seq + 1) -> Nat]
  BY <1>5
<1>7. /\ nu[seq + 1] = u[seq] + Size[pkt]
      /\ \A k \in 0..seq : nu[k] = u[k]
  OBVIOUS
<1>8. \A k \in DOMAIN ndb : nu[k] = nu[k - 1] + Size[ndb[k]]
  <2> SUFFICES ASSUME NEW k \in lo..(seq + 1)
               PROVE  nu[k] = nu[k - 1] + Size[ndb[k]]
    BY <1>2
  <2>1. CASE k = seq + 1
    BY <2>1, <1>3, <1>7
  <2>2. CASE k <= seq
    <3>1. k \in DOMAIN db /\ k \in 0..seq /\ k - 1 \in 0..seq
      BY <2>2, <1>1
    <3>2. u[k] = u[k - 1] + Size[db[k]]
      BY <3>1 DEF Sound
    <3>3. QED
      BY <3>1, <3>2, <1>3, <1>7
  <2>3. QED
    BY <2>1, <2>2
<1>9. \A i, j \in 0..(seq + 1) : i <= j => nu[j] - nu[i] >= j - i
  <2> SUFFICES ASSUME NEW i \in 0..(seq + 1), NEW j \in 0..(seq + 1), i <= j
               PROVE  nu[j] - nu[i] >= j - i
    OBVIOUS
  <2>1. CASE j <= seq
    BY <2>1, <1>7 DEF Sound
  <2>2. CASE j = seq + 1 /\ i = seq + 1
    BY <2>2, <1>6
  <2>3. CASE j = seq + 1 /\ i <= seq
    <3>1. u[seq] - u[i] >= seq - i
      BY <2>3 DEF Sound
    <3>2. nu[j] = u[seq] + Size[pkt] /\ nu[i] = u[i]
      BY <2>3, <1>7
    <3>3. QED
      BY <3>1, <3>2, <2>3, <1>5
  <2>4. QED
    BY <2>1, <2>2, <2>3
<1>10. Sound(ndb, seq + 1, nu)
  <2>1. lo \in 1..((seq + 1) + 1)
    OBVIOUS
  <2> HIDE DEF ndb
  <2>2. QED
    BY <2>1, <1>2, <1>8, <1>9 DEF Sound
<1>11. Cardinality(DOMAIN ndb) = Cardinality(DOMAIN db) + 1
  BY <1>1, <1>2, CardOfInterval
<1>12. Payload(ndb, seq + 1, nu) = Payload(db, seq, u) + Size[pkt]
  <2>1. First(ndb) = lo
    BY <1>2, FirstOfInterval
  <2>2. Payload(ndb, seq + 1, nu) = (u[seq] + Size[pkt]) - u[lo - 1]
    <3> HIDE DEF ndb
    <3>1. lo \in DOMAIN ndb
      BY <1>2
    <3>2. Payload(ndb, seq + 1, nu) = nu[seq + 1] - nu[lo - 1]
      BY <2>1, <3>1 DEF Payload
    <3>3. lo - 1 \in 0..seq
      OBVIOUS
    <3>4. nu[seq + 1] = u[seq] + Size[pkt] /\ nu[lo - 1] = u[lo - 1]
      BY <3>3, <1>7
    <3>5. QED
      BY <3>2, <3>4
  <2>3. CASE lo = seq + 1
    BY <2>2, <2>3, <1>1, <1>5 DEF Payload
  <2>4. CASE lo <= seq
    <3>1. First(db) = lo
      BY <1>1, <2>4, FirstOfInterval
    <3>2. lo \in DOMAIN db
      BY <1>1, <2>4
    <3>3. Payload(db, seq, u) = u[seq] - u[lo - 1]
      BY <3>1, <3>2 DEF Payload
    <3>4. QED
      BY <3>3, <2>2, <1>5
  <2>5. QED
    BY <2>3, <2>4
<1>13. QED
  BY <1>4, <1>6, <1>10, <1>11, <1>12

\* b.Delete of the first key, by a pop or an eviction.
LEMMA SoundDelete ==
  ASSUME NEW db, IsBucket(db), NEW seq \in Nat, NEW u \in [0..seq -> Nat],
         Sound(db, seq, u), DOMAIN db # {}
  PROVE  /\ IsBucket(Delete(db, First(db)))
         /\ Sound(Delete(db, First(db)), seq, u)
         /\ First(db) \in DOMAIN db
         /\ db[First(db)] \in Packets
         /\ Payload(Delete(db, First(db)), seq, u)
              = Payload(db, seq, u) - Size[db[First(db)]]
         /\ Cardinality(DOMAIN Delete(db, First(db))) = Cardinality(DOMAIN db) - 1
<1>1. PICK lo \in 1..(seq + 1) : DOMAIN db = lo..seq
  BY DEF Sound
<1>2. lo <= seq
  BY <1>1
<1>3. First(db) = lo
  BY <1>1, <1>2, FirstOfInterval
<1> DEFINE ndb == Delete(db, lo)
<1>4. DOMAIN ndb = (lo + 1)..seq
  BY <1>1, <1>2 DEF Delete
<1>5. \A k \in DOMAIN ndb : k \in DOMAIN db /\ ndb[k] = db[k]
  BY DEF Delete
<1>6. IsBucket(ndb)
  BY <1>1, <1>4, <1>5 DEF IsBucket, Delete
<1>7. Sound(ndb, seq, u)
  <2>1. lo + 1 \in 1..(seq + 1)
    BY <1>2
  <2>2. \A k \in DOMAIN ndb : u[k] = u[k - 1] + Size[ndb[k]]
    BY <1>5 DEF Sound
  <2>3. QED
    BY <2>1, <2>2, <1>4 DEF Sound
<1>8. lo \in DOMAIN db /\ db[lo] \in Packets
  BY <1>1, <1>2 DEF IsBucket
<1>9. Cardinality(DOMAIN ndb) = Cardinality(DOMAIN db) - 1
  BY <1>1, <1>2, <1>4, CardOfInterval
<1>10. Payload(ndb, seq, u) = Payload(db, seq, u) - Size[db[lo]]
  <2>1. Payload(db, seq, u) = u[seq] - u[lo - 1]
    BY <1>1, <1>2, <1>3 DEF Payload
  <2>2. u[lo] = u[lo - 1] + Size[db[lo]]
    BY <1>8 DEF Sound
  <2>3. Size[db[lo]] \in Nat
    BY <1>8, QueueAssumption
  <2>4. CASE lo = seq
    BY <2>1, <2>2, <2>3, <2>4, <1>4 DEF Payload
  <2>5. CASE lo < seq
    <3>1. First(ndb) = lo + 1
      BY <1>4, <2>5, FirstOfInterval
    <3>2. Payload(ndb, seq, u) = u[seq] - u[lo]
      BY SMTT(30), <3>1, <1>4, <2>5 DEF Payload
    <3>3. QED
      BY <3>2, <2>1, <2>2, <2>3
  <2>6. QED
    BY <1>2, <2>4, <2>5
<1>11. QED
  BY <1>3, <1>6, <1>7, <1>8, <1>9, <1>10

-----------------------------------------------------------------------------
(* The invariant.                                                          *)

\* Used wherever a step leaves the committed state alone.
Committed == <<disk, seqNo, usedBytes, up, upto, slack>>

\* The empty file that Init starts from.
LEMMA InitIInv == Init => IInv
<1> SUFFICES ASSUME Init PROVE IInv
  OBVIOUS
<1>1. DOMAIN disk = {} /\ seqNo = 0 /\ upto = [k \in {0} |-> 0] /\ tx = NoTx /\ ~up
  BY DEF Init
<1>2. 0..0 = {0} /\ 1..0 = {}
  OBVIOUS
<1>3. TypeOK
  BY <1>1, <1>2 DEF Init, TypeOK, IsBucket
<1>4. Sound(disk, seqNo, upto)
  BY <1>1, <1>2 DEF Sound
<1>5. EntriesBounded
  BY <1>1, FS_EmptySet, QueueAssumption DEF EntriesBounded
<1>6. QED
  BY <1>1, <1>3, <1>4, <1>5 DEF IInv, Accounting, PushInv, PopInv, NoTx

\* A step of a transaction touches nothing committed: what remains to be shown
\* is that the transaction's own copy is in order.
LEMMA TxStep ==
  ASSUME IInv, UNCHANGED Committed,
         tx' = NoTx \/ IsPushTx(tx)' \/ IsPopTx(tx)',
         PushInv', PopInv'
  PROVE  IInv'
BY DEF IInv, TypeOK, IsBucket, Sound, Accounting, Within, Payload, EntriesBounded,
       Committed, First

\* NextSequence, Put and the counter's increment, on a copy db that holds one
\* entry less than the bound allows.
LEMMA InsertStep ==
  ASSUME IInv, tx.op = "push", tx.todo # <<>>, UNCHANGED Committed,
         NEW db, NEW used \in Int,
         IsBucket(db), Sound(db, tx.seq, tx.upto),
         Within(used, Payload(db, tx.seq, tx.upto)),
         Cardinality(DOMAIN db) + 1 <= MaxBytes + InlineLimit,
         \A k \in DOMAIN db : k <= seqNo => k \in DOMAIN disk /\ db[k] = disk[k],
         tx' = Insert(tx, db, used)
  PROVE  IInv'
<1> DEFINE pkt == Head(tx.todo)
           key == tx.seq + 1
           nu  == [k \in 0..key |-> IF k = key THEN tx.upto[tx.seq] + Size[pkt]
                                               ELSE tx.upto[k]]
           ndb == Put(db, key, pkt)
<1>1. IsPushTx(tx) /\ up /\ tx.seq >= seqNo
  BY DEF IInv, TypeOK, NoTx, IsPopTx, PushInv
<1>2. /\ tx.seq \in Nat /\ tx.upto \in [0..tx.seq -> Nat] /\ seqNo \in Nat /\ slack \in Int
      /\ tx.todo \in Seq(Packets) /\ tx.batch \in Seq(Packets)
  BY <1>1 DEF IsPushTx, IInv, TypeOK
<1>3. pkt \in Packets /\ Tail(tx.todo) \in Seq(Packets)
  BY <1>2
<1>4. Size[pkt] \in Nat
  BY <1>3, QueueAssumption
<1>5. /\ IsBucket(ndb)
      /\ nu \in [0..key -> Nat]
      /\ Sound(ndb, key, nu)
      /\ Payload(ndb, key, nu) = Payload(db, tx.seq, tx.upto) + Size[pkt]
      /\ Cardinality(DOMAIN ndb) = Cardinality(DOMAIN db) + 1
  <2> HIDE DEF pkt
  <2>1. QED
    BY ZenonT(30), <1>2, <1>3, SoundPut
<1>6. /\ tx'.op = "push" /\ tx'.db = ndb /\ tx'.seq = key /\ tx'.used = used + Size[pkt]
      /\ tx'.upto = nu /\ tx'.todo = Tail(tx.todo) /\ tx'.batch = tx.batch
      /\ tx' = [op |-> "push", db |-> tx'.db, seq |-> tx'.seq, used |-> tx'.used,
                upto |-> tx'.upto, batch |-> tx'.batch, todo |-> tx'.todo]
  BY DEF Insert
<1>7. \A k \in DOMAIN ndb : k <= seqNo => k \in DOMAIN disk /\ ndb[k] = disk[k]
  <2> SUFFICES ASSUME NEW k \in DOMAIN ndb, k <= seqNo
               PROVE  k \in DOMAIN disk /\ ndb[k] = disk[k]
    OBVIOUS
  <2>1. k # key
    BY <1>1, <1>2
  <2>2. k \in DOMAIN db /\ ndb[k] = db[k]
    BY <2>1 DEF Put
  <2>3. QED
    BY <2>2
<1>8. Payload(db, tx.seq, tx.upto) \in Nat
  BY <1>2, CountAtMostPayload
<1> HIDE DEF pkt, nu, ndb
<1>9. (slack <= (used + Size[pkt]) - Payload(ndb, key, nu)) /\
      (\/ (used + Size[pkt]) - Payload(ndb, key, nu) <= 0
       \/ (used + Size[pkt]) - Payload(ndb, key, nu) <= slack)
  BY <1>2, <1>4, <1>5, <1>8 DEF Within
<1>10. IsPushTx(tx)'
  BY SMTT(30), <1>2, <1>3, <1>4, <1>5, <1>6 DEF IsPushTx, IsBucket
<1>11. UNCHANGED <<disk, seqNo, up, slack>>
  BY DEF Committed
<1>13. PushInv'
  <2>1. Sound(tx.db, tx.seq, tx.upto)'
    BY <1>5, <1>6 DEF Sound
  <2>2. /\ slack' <= tx'.used - Payload(tx'.db, tx'.seq, tx'.upto)
        /\ \/ tx'.used - Payload(tx'.db, tx'.seq, tx'.upto) <= 0
           \/ tx'.used - Payload(tx'.db, tx'.seq, tx'.upto) <= slack'
    BY <1>6, <1>9, <1>11
  <2>3. Within(tx.used, Payload(tx.db, tx.seq, tx.upto))'
    BY <2>2 DEF Within, Payload, First
  <2>4. tx'.seq >= seqNo'
    BY <1>1, <1>2, <1>6, <1>11
  <2>5. QED
    BY <2>1, <2>3, <2>4, <1>1, <1>5, <1>6, <1>7, <1>11 DEF PushInv
<1>14. PopInv'
  BY <1>6 DEF PopInv
<1>15. QED
  BY <1>10, <1>13, <1>14, TxStep

\* A transaction that ends without a commit.
LEMMA Rollback ==
  ASSUME IInv, tx' = NoTx, UNCHANGED Committed
  PROVE  IInv'
BY TxStep DEF PushInv, PopInv, NoTx

\* Init, every action and stuttering keep the invariant.
LEMMA NextIInv == IInv /\ [Next]_vars => IInv'
<1> SUFFICES ASSUME IInv, [Next]_vars PROVE IInv'
  OBVIOUS
<1> USE DEF IInv
<1>1. ASSUME NEW batch \in Batches, BeginPush(batch) PROVE IInv'
  <2>1. UNCHANGED Committed /\ up /\ tx.op = "none"
    BY <1>1 DEF BeginPush, Committed, NoTx
  <2>2. batch \in Seq(Packets)
    BY QueueAssumption DEF Batches
  <2>3. /\ tx'.op = "push" /\ tx'.db = disk /\ tx'.seq = seqNo /\ tx'.used = usedBytes
        /\ tx'.upto = upto /\ tx'.todo = batch /\ tx'.batch = batch
        /\ tx' = [op |-> "push", db |-> tx'.db, seq |-> tx'.seq, used |-> tx'.used,
                  upto |-> tx'.upto, batch |-> tx'.batch, todo |-> tx'.todo]
    BY <1>1 DEF BeginPush
  <2>4. IsPushTx(tx)'
    BY <2>2, <2>3 DEF IsPushTx, TypeOK, IsBucket
  <2>5. PushInv'
    BY <2>1, <2>3 DEF PushInv, Accounting, EntriesBounded, Sound, Within, Payload, First,
                      Committed, TypeOK
  <2>6. PopInv'
    BY <2>3 DEF PopInv
  <2>7. QED
    BY <2>1, <2>4, <2>5, <2>6, TxStep
<1>2. ASSUME PutEntry PROVE IInv'
  <2>1. UNCHANGED Committed /\ IsPushTx(tx) /\ tx.op = "push"
    BY <1>2 DEF PutEntry, Committed, TypeOK, NoTx, IsPopTx
  <2>2. tx.seq \in Nat /\ tx.upto \in [0..tx.seq -> Nat] /\ tx.used \in Int /\ slack \in Int
    BY <2>1 DEF IsPushTx, TypeOK
  <2>3. /\ Sound(tx.db, tx.seq, tx.upto) /\ Within(tx.used, Payload(tx.db, tx.seq, tx.upto))
        /\ \A k \in DOMAIN tx.db : k <= seqNo => k \in DOMAIN disk /\ tx.db[k] = disk[k]
    BY <2>1 DEF PushInv
  <2>4. slack >= -InlineLimit
    BY <2>1 DEF PushInv, Accounting
  <2>5. Cardinality(DOMAIN tx.db) + 1 <= MaxBytes + InlineLimit
    <3>1. /\ Cardinality(DOMAIN tx.db) <= Payload(tx.db, tx.seq, tx.upto)
          /\ Cardinality(DOMAIN tx.db) \in Nat /\ Payload(tx.db, tx.seq, tx.upto) \in Nat
      BY <2>2, <2>3, CountAtMostPayload
    <3>2. slack <= tx.used - Payload(tx.db, tx.seq, tx.upto)
      BY <2>3 DEF Within
    <3>3. tx.used < MaxBytes
      BY <1>2 DEF PutEntry
    <3>4. QED
      BY <3>1, <3>2, <3>3, <2>2, <2>4, QueueAssumption
  <2>6. tx.todo # <<>> /\ tx' = Insert(tx, tx.db, tx.used)
    BY <1>2 DEF PutEntry
  <2>7. IsBucket(tx.db)
    BY <2>1 DEF IsPushTx
  <2>8. QED
    BY <2>1, <2>2, <2>3, <2>5, <2>6, <2>7, InsertStep
<1>3. ASSUME EvictAndPut PROVE IInv'
  <2> DEFINE k0 == First(tx.db)
             db == Delete(tx.db, k0)
  <2>1. UNCHANGED Committed /\ IsPushTx(tx) /\ tx.op = "push" /\ tx.todo # <<>>
    BY <1>3 DEF EvictAndPut, Committed, TypeOK, NoTx, IsPopTx
  <2>2. /\ tx.seq \in Nat /\ tx.upto \in [0..tx.seq -> Nat] /\ tx.used \in Int
        /\ slack \in Int /\ IsBucket(tx.db)
    BY <2>1 DEF IsPushTx, TypeOK
  <2>3. /\ Sound(tx.db, tx.seq, tx.upto) /\ Within(tx.used, Payload(tx.db, tx.seq, tx.upto))
        /\ Cardinality(DOMAIN tx.db) <= MaxBytes + InlineLimit
        /\ \A k \in DOMAIN tx.db : k <= seqNo => k \in DOMAIN disk /\ tx.db[k] = disk[k]
    BY <2>1 DEF PushInv
  <2>4. DOMAIN tx.db # {} /\ tx' = Insert(tx, db, tx.used - Size[tx.db[k0]])
    BY <1>3 DEF EvictAndPut, Evictable
  <2>5. /\ IsBucket(db)
        /\ Sound(db, tx.seq, tx.upto)
        /\ tx.db[k0] \in Packets
        /\ Payload(db, tx.seq, tx.upto)
             = Payload(tx.db, tx.seq, tx.upto) - Size[tx.db[k0]]
        /\ Cardinality(DOMAIN db) = Cardinality(DOMAIN tx.db) - 1
    BY <2>2, <2>3, <2>4, SoundDelete
  <2>6. Size[tx.db[k0]] \in Nat
    BY <2>5, QueueAssumption
  <2>7. Payload(tx.db, tx.seq, tx.upto) \in Nat /\ Cardinality(DOMAIN tx.db) \in Nat
    BY <2>2, <2>3, CountAtMostPayload
  <2>8. \A k \in DOMAIN db : k <= seqNo => k \in DOMAIN disk /\ db[k] = disk[k]
    BY <2>3 DEF Delete
  <2> HIDE DEF db, k0
  <2>9. Within(tx.used - Size[tx.db[k0]], Payload(db, tx.seq, tx.upto))
    BY <2>2, <2>3, <2>5, <2>6, <2>7 DEF Within
  <2>10. Cardinality(DOMAIN db) + 1 <= MaxBytes + InlineLimit
    BY <2>3, <2>5, <2>7
  <2>11. tx.used - Size[tx.db[k0]] \in Int
    BY <2>2, <2>6
  <2>12. QED
    BY <2>1, <2>4, <2>5, <2>8, <2>9, <2>10, <2>11, InsertStep
<1>4. ASSUME PushFull PROVE IInv'
  BY <1>4, Rollback DEF PushFull, Committed
<1>5. ASSUME CommitPush PROVE IInv'
  <2>1. IsPushTx(tx) /\ tx.op = "push"
    BY <1>5 DEF CommitPush, TypeOK, NoTx, IsPopTx
  <2>2. /\ disk' = tx.db /\ seqNo' = tx.seq /\ upto' = tx.upto /\ usedBytes' = tx.used
        /\ tx' = NoTx /\ up' = up /\ slack' = slack
    BY <1>5 DEF CommitPush
  <2>3. TypeOK'
    BY <2>1, <2>2 DEF TypeOK, IsPushTx, IsBucket
  <2>4. Sound(disk, seqNo, upto)'
    BY <2>1, <2>2 DEF PushInv, Sound
  <2>5. Within(usedBytes, Payload(disk, seqNo, upto))'
    BY <2>1, <2>2 DEF PushInv, Within, Payload, First
  <2>6. EntriesBounded'
    BY <2>1, <2>2 DEF PushInv, EntriesBounded
  <2>7. Accounting'
    BY <2>1, <2>2, <2>5 DEF Accounting, PushInv
  <2>8. PushInv' /\ PopInv'
    BY <2>2 DEF PushInv, PopInv, NoTx
  <2>9. QED
    BY <2>3, <2>4, <2>6, <2>7, <2>8
<1>6. ASSUME NEW n \in 1..MaxBatch, BeginPop(n) PROVE IInv'
  <2>1. UNCHANGED Committed /\ up
    BY <1>6 DEF BeginPop, Committed
  <2>2. /\ tx'.op = "pop" /\ tx'.db = disk /\ tx'.n = n /\ tx'.out = 0 /\ tx'.freed = 0
        /\ tx' = [op |-> "pop", db |-> tx'.db, n |-> tx'.n, out |-> tx'.out,
                  freed |-> tx'.freed]
    BY <1>6 DEF BeginPop
  <2>3. n \in Nat
    BY QueueAssumption
  <2>4. IsPopTx(tx)'
    BY <2>2, <2>3 DEF IsPopTx, TypeOK, IsBucket
  <2>5. Payload(disk, seqNo, upto) \in Nat
    BY CountAtMostPayload DEF TypeOK
  <2>6. PopInv'
    <3>1. Payload(tx.db, seqNo, upto)' = Payload(disk, seqNo, upto)
      BY <2>1, <2>2 DEF Payload, First, Committed
    <3>2. Payload(disk, seqNo, upto)' = Payload(disk, seqNo, upto)
      BY <2>1 DEF Payload, First, Committed
    <3>3. Sound(tx.db, seqNo, upto)'
      BY <2>1, <2>2 DEF Sound, Committed
    <3>4. QED
      BY <2>1, <2>2, <2>5, <3>1, <3>2, <3>3 DEF PopInv, Committed
  <2>7. PushInv'
    BY <2>2 DEF PushInv
  <2>8. QED
    BY <2>1, <2>4, <2>6, <2>7, TxStep
<1>7. ASSUME TakeEntry PROVE IInv'
  <2> DEFINE k0 == First(tx.db)
             db == Delete(tx.db, k0)
  <2>1. UNCHANGED Committed /\ IsPopTx(tx) /\ tx.op = "pop" /\ DOMAIN tx.db # {}
    BY <1>7 DEF TakeEntry, Committed, TypeOK, NoTx, IsPushTx
  <2>2. /\ up /\ Sound(tx.db, seqNo, upto)
        /\ tx.freed = Payload(disk, seqNo, upto) - Payload(tx.db, seqNo, upto)
        /\ \A k \in DOMAIN tx.db : k \in DOMAIN disk /\ tx.db[k] = disk[k]
    BY <2>1 DEF PopInv
  <2>3. /\ IsBucket(db)
        /\ Sound(db, seqNo, upto)
        /\ tx.db[k0] \in Packets
        /\ Payload(db, seqNo, upto) = Payload(tx.db, seqNo, upto) - Size[tx.db[k0]]
    BY <2>1, <2>2, SoundDelete DEF IsPopTx, TypeOK
  <2>4. Size[tx.db[k0]] \in Nat
    BY <2>3, QueueAssumption
  <2>5. Payload(disk, seqNo, upto) \in Nat /\ Payload(tx.db, seqNo, upto) \in Nat
    BY <2>2, CountAtMostPayload DEF TypeOK
  <2>6. \A k \in DOMAIN db : k \in DOMAIN disk /\ db[k] = disk[k]
    BY <2>2 DEF Delete
  <2>7. tx' = [op |-> "pop", db |-> db, n |-> tx.n, out |-> tx.out + 1,
               freed |-> tx.freed + Size[tx.db[k0]]]
    BY <1>7 DEF TakeEntry
  <2> HIDE DEF db, k0
  <2>8. /\ tx'.op = "pop" /\ tx'.db = db /\ tx'.n = tx.n /\ tx'.out = tx.out + 1
        /\ tx'.freed = tx.freed + Size[tx.db[k0]]
        /\ tx' = [op |-> "pop", db |-> tx'.db, n |-> tx'.n, out |-> tx'.out,
                  freed |-> tx'.freed]
    BY <2>7
  <2>9. IsPopTx(tx)'
    BY <2>1, <2>3, <2>4, <2>8 DEF IsPopTx, IsBucket
  <2>10. tx'.freed = Payload(disk, seqNo, upto) - Payload(db, seqNo, upto)
    BY <2>2, <2>3, <2>4, <2>5, <2>8
  <2>11. PopInv'
    <3>1. Payload(tx.db, seqNo, upto)' = Payload(db, seqNo, upto)
      BY <2>1, <2>8 DEF Payload, First, Committed
    <3>2. Payload(disk, seqNo, upto)' = Payload(disk, seqNo, upto)
      BY <2>1 DEF Payload, First, Committed
    <3>3. Sound(tx.db, seqNo, upto)'
      BY <2>1, <2>3, <2>8 DEF Sound, Committed
    <3>4. QED
      BY <2>1, <2>2, <2>6, <2>8, <2>10, <3>1, <3>2, <3>3 DEF PopInv, Committed
  <2>12. PushInv'
    BY <2>8 DEF PushInv
  <2>13. QED
    BY <2>1, <2>9, <2>11, <2>12, TxStep
<1>8. ASSUME PopEmpty PROVE IInv'
  BY <1>8, Rollback DEF PopEmpty, Committed
<1>9. ASSUME CommitPop PROVE IInv'
  <2>1. IsPopTx(tx) /\ tx.op = "pop"
    BY <1>9 DEF CommitPop, TypeOK, NoTx, IsPushTx
  <2>2. /\ disk' = tx.db /\ usedBytes' = Release(usedBytes, tx.freed)
        /\ tx' = NoTx /\ up' = up /\ slack' = slack /\ seqNo' = seqNo /\ upto' = upto
    BY <1>9 DEF CommitPop
  <2>3. /\ up /\ Sound(tx.db, seqNo, upto)
        /\ tx.freed = Payload(disk, seqNo, upto) - Payload(tx.db, seqNo, upto)
        /\ Within(usedBytes, Payload(disk, seqNo, upto)) /\ slack >= -InlineLimit
        /\ \A k \in DOMAIN tx.db : k \in DOMAIN disk
    BY <2>1 DEF PopInv, Accounting
  <2>4. /\ Payload(disk, seqNo, upto) \in Nat /\ Payload(tx.db, seqNo, upto) \in Nat
        /\ usedBytes \in Int /\ slack \in Int /\ tx.freed \in Nat
    BY <2>1, <2>3, CountAtMostPayload DEF TypeOK, IsPopTx
  <2>5. Release(usedBytes, tx.freed) \in Int
    BY <2>4 DEF Release
  <2>6. Within(Release(usedBytes, tx.freed), Payload(tx.db, seqNo, upto))
    BY <2>3, <2>4 DEF Within, Release
  <2>7. TypeOK'
    BY <2>1, <2>2, <2>5 DEF TypeOK, IsPopTx, IsBucket
  <2>8. Sound(disk, seqNo, upto)'
    BY <2>2, <2>3 DEF Sound
  <2>9. Accounting'
    BY <2>2, <2>3, <2>6 DEF Accounting, Within, Payload, First
  <2>10. EntriesBounded'
    <3>1. DOMAIN tx.db \subseteq DOMAIN disk
      BY <2>3
    <3>2. PICK lo \in 1..(seqNo + 1) : DOMAIN disk = lo..seqNo
      BY DEF Sound
    <3>3. IsFiniteSet(DOMAIN disk)
      BY <3>2, FS_Interval DEF TypeOK
    <3>4. /\ Cardinality(DOMAIN tx.db) <= Cardinality(DOMAIN disk)
          /\ Cardinality(DOMAIN tx.db) \in Nat /\ Cardinality(DOMAIN disk) \in Nat
      BY <3>1, <3>3, FS_Subset, FS_CardinalityType
    <3>5. QED
      BY <3>4, <2>2, QueueAssumption DEF EntriesBounded
  <2>11. PushInv' /\ PopInv'
    BY <2>2 DEF PushInv, PopInv, NoTx
  <2>12. QED
    BY <2>7, <2>8, <2>9, <2>10, <2>11
<1>10. ASSUME Open PROVE IInv'
  <2>1. /\ ~up /\ up' = TRUE /\ UNCHANGED <<disk, seqNo, tx, upto>>
        /\ usedBytes' = LeafInuse(disk, seqNo, upto)
        /\ slack' = usedBytes' - Payload(disk, seqNo, upto)
    BY <1>10 DEF Open
  <2>2. tx = NoTx
    BY <2>1 DEF TypeOK, PushInv, PopInv, IsPushTx, IsPopTx
  <2>3. /\ Payload(disk, seqNo, upto) \in Nat /\ Cardinality(DOMAIN disk) \in Nat
    BY CountAtMostPayload DEF TypeOK
  <2>4. EntryOverhead * Cardinality(DOMAIN disk) \in Nat
    BY <2>3, QueueAssumption
  <2>5. usedBytes' \in Int /\ slack' \in Int /\ slack' >= -InlineLimit
    BY <2>1, <2>3, <2>4, QueueAssumption DEF LeafInuse
  <2>6. Within(usedBytes, Payload(disk, seqNo, upto))'
    BY <2>1, <2>3, <2>5 DEF Within, Payload, First
  <2>7. TypeOK'
    BY <2>1, <2>2, <2>5 DEF TypeOK, IsBucket
  <2>8. Sound(disk, seqNo, upto)'
    BY <2>1 DEF Sound
  <2>9. Accounting' /\ EntriesBounded'
    BY <2>1, <2>5, <2>6 DEF Accounting, EntriesBounded
  <2>10. PushInv' /\ PopInv'
    BY <2>1, <2>2 DEF PushInv, PopInv, NoTx
  <2>11. QED
    BY <2>7, <2>8, <2>9, <2>10
<1>11. ASSUME Close \/ Crash PROVE IInv'
  <2>1. /\ ~up' /\ up' \in BOOLEAN /\ tx' = NoTx
        /\ UNCHANGED <<disk, seqNo, usedBytes, upto, slack>>
    BY <1>11 DEF Close, Crash
  <2>2. TypeOK'
    BY <2>1 DEF TypeOK, IsBucket
  <2>3. Sound(disk, seqNo, upto)' /\ Accounting' /\ EntriesBounded'
    BY <2>1 DEF Sound, Accounting, EntriesBounded
  <2>4. PushInv' /\ PopInv'
    BY <2>1 DEF PushInv, PopInv, NoTx
  <2>5. QED
    BY <2>2, <2>3, <2>4
<1>12. ASSUME UNCHANGED vars PROVE IInv'
  <2>1. UNCHANGED Committed /\ tx' = tx
    BY <1>12 DEF vars, Committed
  <2>2. /\ tx' = NoTx \/ IsPushTx(tx)' \/ IsPopTx(tx)'
    BY <2>1 DEF TypeOK, IsPushTx, IsPopTx, IsBucket
  <2>3. PushInv'
    BY <2>1 DEF PushInv, Sound, Within, Payload, First, Committed
  <2>4. PopInv'
    <3>1. /\ Payload(tx.db, seqNo, upto)' = Payload(tx.db, seqNo, upto)
          /\ Payload(disk, seqNo, upto)' = Payload(disk, seqNo, upto)
      BY <2>1 DEF Payload, First, Committed
    <3>2. Sound(tx.db, seqNo, upto)' = Sound(tx.db, seqNo, upto)
      BY <2>1 DEF Sound, Committed
    <3>3. QED
      BY <2>1, <3>1, <3>2 DEF PopInv, Committed
  <2>5. QED
    BY <2>1, <2>2, <2>3, <2>4, TxStep
<1>13. QED
  BY <1>1, <1>2, <1>3, <1>4, <1>5, <1>6, <1>7, <1>8, <1>9, <1>10, <1>11, <1>12 DEF Next

\* The inductive invariant holds in every reachable state.
THEOREM QueueInvariant == Spec => []IInv
BY InitIInv, NextIInv, PTL DEF Spec

\* Type correctness of the queue, its file and its transactions.
THEOREM QueueTypeOK == Spec => []TypeOK
BY QueueInvariant, PTL DEF IInv

\* The byte counter kept by PushBatch, PopBatch and eviction never drifts from
\* the payload on disk by more than Open left between them.
THEOREM QueueAccounting == Spec => []Accounting
BY QueueInvariant, PTL DEF IInv

\* The soft limit bounds the backlog, across evictions and restarts.
THEOREM QueueBounded == Spec => []EntriesBounded
BY QueueInvariant, PTL DEF IInv

\* No committed packet is ever overwritten or overtaken by a reused key.
THEOREM QueueKeysNeverReused == Spec => KeysNeverReused
<1> DEFINE Kept == /\ \A k \in DOMAIN disk \cap DOMAIN disk' : disk'[k] = disk[k]
                   /\ \A k \in DOMAIN disk' \ DOMAIN disk : k > seqNo
<1>1. IInv /\ [Next]_vars => [Kept]_vars
  <2> SUFFICES ASSUME IInv, Next PROVE Kept
    OBVIOUS
  <2>1. CASE disk' = disk
    BY <2>1
  <2>2. CASE CommitPush
    <3>1. tx.op = "push" /\ disk' = tx.db /\ IsPushTx(tx)
      BY <2>2 DEF CommitPush, IInv, TypeOK, NoTx, IsPopTx
    <3>2. \A k \in DOMAIN tx.db : k \in Nat
      BY <3>1 DEF IsPushTx, IsBucket
    <3>3. \A k \in DOMAIN tx.db : k <= seqNo => k \in DOMAIN disk /\ tx.db[k] = disk[k]
      BY <3>1 DEF IInv, PushInv
    <3>4. PICK lo \in 1..(seqNo + 1) : DOMAIN disk = lo..seqNo
      BY DEF IInv, Sound
    <3>5. seqNo \in Nat
      BY DEF IInv, TypeOK
    <3>6. QED
      BY <3>1, <3>2, <3>3, <3>4, <3>5
  <2>3. CASE CommitPop
    BY <2>3 DEF CommitPop, IInv, PopInv
  <2>4. QED
    BY <2>1, <2>2, <2>3 DEF Next, BeginPush, PutEntry, EvictAndPut, PushFull, BeginPop,
       TakeEntry, PopEmpty, Open, Close, Crash
<1>2. QED
  BY <1>1, QueueInvariant, PTL DEF Spec, KeysNeverReused

-----------------------------------------------------------------------------
(* The refinement.  Between its first and its last step a transaction is a *)
(* stutter of AtomicFifo; what it has done so far is written down here, so *)
(* that the commit can be recognised as one abstract operation.            *)

\* How many packets of its batch a push has put.
Filed(t) == Len(t.batch) - Len(t.todo)

\* Where the urgent ones among the first m packets of a batch are.
UrgentIn(batch, m) == {i \in 1..m : batch[i] \in Urgent}

\* A push has put a prefix of its batch behind the committed keys, and has evicted at
\* most one packet for each urgent one of that prefix.
PushDone(t) ==
  /\ t.batch \in Batches
  /\ Filed(t) \in 0..Len(t.batch)
  /\ \A i \in 1..Len(t.todo) : t.todo[i] = t.batch[Filed(t) + i]
  /\ t.seq = seqNo + Filed(t)
  /\ \A i \in 1..Filed(t) : seqNo + i \in DOMAIN t.db => t.db[seqNo + i] = t.batch[i]
  /\ Cardinality(DOMAIN t.db) <= Cardinality(DOMAIN disk) + Filed(t)
  /\ Cardinality(DOMAIN disk) + Filed(t) - Cardinality(DOMAIN t.db)
       <= Cardinality(UrgentIn(t.batch, Filed(t)))

\* A pop has taken as many packets as it counts.
PopDone(t) ==
  /\ t.n \in 1..MaxBatch /\ t.out <= t.n
  /\ t.out = Cardinality(DOMAIN disk) - Cardinality(DOMAIN t.db)

RInv == (tx.op = "push" => PushDone(tx)) /\ (tx.op = "pop" => PopDone(tx))

\* One more packet of the batch adds at most itself to the urgent ones.
LEMMA UrgentGrows ==
  ASSUME NEW batch, NEW m \in Nat
  PROVE  /\ Cardinality(UrgentIn(batch, 0)) = 0
         /\ Cardinality(UrgentIn(batch, m)) \in Nat
         /\ Cardinality(UrgentIn(batch, m + 1)) \in Nat
         /\ Cardinality(UrgentIn(batch, m)) <= Cardinality(UrgentIn(batch, m + 1))
         /\ batch[m + 1] \in Urgent =>
              Cardinality(UrgentIn(batch, m + 1)) = Cardinality(UrgentIn(batch, m)) + 1
<1>1. \A n \in Nat : IsFiniteSet(UrgentIn(batch, n))
  <2> SUFFICES ASSUME NEW n \in Nat PROVE IsFiniteSet(UrgentIn(batch, n))
    OBVIOUS
  <2>1. IsFiniteSet(1..n) /\ UrgentIn(batch, n) \subseteq 1..n
    BY FS_Interval DEF UrgentIn
  <2>2. QED
    BY <2>1, FS_Subset
<1>2. UrgentIn(batch, 0) = {}
  BY DEF UrgentIn
<1>3. IsFiniteSet(UrgentIn(batch, m)) /\ IsFiniteSet(UrgentIn(batch, m + 1))
  BY <1>1
<1>4. /\ Cardinality(UrgentIn(batch, 0)) = 0 /\ Cardinality(UrgentIn(batch, m)) \in Nat
      /\ Cardinality(UrgentIn(batch, m + 1)) \in Nat
  BY <1>2, <1>3, FS_EmptySet, FS_CardinalityType
<1>5. CASE batch[m + 1] \in Urgent
  <2>1. UrgentIn(batch, m + 1) = UrgentIn(batch, m) \cup {m + 1} /\ m + 1 \notin UrgentIn(batch, m)
    BY <1>5 DEF UrgentIn
  <2>2. Cardinality(UrgentIn(batch, m + 1)) = Cardinality(UrgentIn(batch, m)) + 1
    BY <1>3, <2>1, FS_AddElement
  <2>3. QED
    BY <1>4, <2>2
<1>6. CASE batch[m + 1] \notin Urgent
  <2>1. UrgentIn(batch, m + 1) = UrgentIn(batch, m)
    BY <1>6 DEF UrgentIn
  <2>2. QED
    BY <1>6, <1>4, <2>1
<1>7. QED
  BY <1>5, <1>6

\* Insert puts the next packet of the batch; it may have cost one eviction if that
\* packet is urgent.
LEMMA InsertDone ==
  ASSUME IInv, RInv, tx.op = "push", tx.todo # <<>>, UNCHANGED <<disk, seqNo>>,
         NEW db, NEW used,
         IsBucket(db), Sound(db, tx.seq, tx.upto),
         \A k \in DOMAIN db : k \in DOMAIN tx.db /\ db[k] = tx.db[k],
         \/ Cardinality(DOMAIN db) = Cardinality(DOMAIN tx.db)
         \/ /\ Head(tx.todo) \in Urgent
            /\ Cardinality(DOMAIN db) = Cardinality(DOMAIN tx.db) - 1,
         tx' = Insert(tx, db, used)
  PROVE  RInv'
<1> DEFINE m   == Filed(tx)
           b   == Len(tx.batch)
           t   == Len(tx.todo)
           pkt == Head(tx.todo)
           ndb == Put(db, tx.seq + 1, pkt)
<1>1. IsPushTx(tx) /\ PushDone(tx)
  BY DEF IInv, TypeOK, NoTx, IsPopTx, RInv
<1>2. /\ tx.seq \in Nat /\ seqNo \in Nat /\ tx.todo \in Seq(Packets) /\ tx.batch \in Seq(Packets)
      /\ tx.upto \in [0..tx.seq -> Nat] /\ Sound(tx.db, tx.seq, tx.upto)
      /\ Len(tx.todo) \in Nat /\ Len(tx.todo) > 0 /\ Len(tx.batch) \in Nat
  BY <1>1 DEF IsPushTx, IInv, TypeOK, PushInv
<1>3. /\ m \in Nat /\ b \in Nat /\ t \in Nat /\ t > 0 /\ m < b /\ m = b - t
      /\ tx.seq = seqNo + m
  <2>1. m \in 0..b /\ tx.seq = seqNo + m
    BY <1>1 DEF PushDone
  <2>2. m = b - t
    BY DEF Filed
  <2>3. t \in Nat /\ t > 0 /\ b \in Nat
    BY <1>2
  <2> HIDE DEF m, b, t
  <2>4. m \in Nat /\ m < b
    BY <2>1, <2>2, <2>3
  <2>5. QED
    BY <2>1, <2>2, <2>3, <2>4
<1> HIDE DEF m, b, t
<1>4. pkt = tx.batch[m + 1] /\ pkt \in Packets
  <2>1. pkt = tx.todo[1] /\ 1 \in 1..Len(tx.todo) /\ pkt \in Packets
    BY <1>2
  <2>2. QED
    BY <1>1, <2>1 DEF PushDone, m
<1>5. /\ tx'.op = "push" /\ tx'.db = ndb /\ tx'.seq = tx.seq + 1 /\ tx'.batch = tx.batch
      /\ tx'.todo = Tail(tx.todo)
  BY DEF Insert
<1>6. /\ Len(Tail(tx.todo)) = Len(tx.todo) - 1
      /\ \A i \in 1..Len(Tail(tx.todo)) : Tail(tx.todo)[i] = tx.todo[i + 1]
  BY <1>2
<1>7. Filed(tx)' = m + 1
  <2>1. Filed(tx)' = b - (t - 1)
    BY <1>5, <1>6 DEF Filed, b, t
  <2>2. b - (t - 1) = m + 1
    BY <1>3
  <2>3. QED
    BY <2>1, <2>2
<1>8. Cardinality(DOMAIN ndb) = Cardinality(DOMAIN db) + 1
  BY <1>2, PutCounts
<1>9. /\ Cardinality(DOMAIN db) \in Nat /\ Cardinality(DOMAIN tx.db) \in Nat
      /\ Cardinality(DOMAIN disk) \in Nat
  BY <1>2, CountAtMostPayload DEF IInv, TypeOK
<1>10. \A i \in 1..(m + 1) : seqNo + i \in DOMAIN ndb => ndb[seqNo + i] = tx.batch[i]
  <2> SUFFICES ASSUME NEW i \in 1..(m + 1), seqNo + i \in DOMAIN ndb
               PROVE  ndb[seqNo + i] = tx.batch[i]
    OBVIOUS
  <2>1. CASE i = m + 1
    <3>1. seqNo + i = tx.seq + 1
      BY <2>1, <1>2, <1>3
    <3>2. ndb[tx.seq + 1] = pkt
      BY DEF Put
    <3>3. QED
      BY <2>1, <3>1, <3>2, <1>4
  <2>2. CASE i # m + 1
    <3>1. i \in 1..m /\ seqNo + i # tx.seq + 1
      BY <2>2, <1>2, <1>3
    <3>2. seqNo + i \in DOMAIN db /\ ndb[seqNo + i] = db[seqNo + i]
      BY <3>1 DEF Put
    <3>3. QED
      BY <3>1, <3>2, <1>1 DEF PushDone, m
  <2>3. QED
    BY <2>1, <2>2
<1>11. \A i \in 1..Len(Tail(tx.todo)) : Tail(tx.todo)[i] = tx.batch[(m + 1) + i]
  <2> SUFFICES ASSUME NEW i \in 1..Len(Tail(tx.todo))
               PROVE  Tail(tx.todo)[i] = tx.batch[(m + 1) + i]
    OBVIOUS
  <2>1. i + 1 \in 1..Len(tx.todo) /\ m + (i + 1) = (m + 1) + i
    <3>1. i \in 1..(t - 1)
      BY <1>6 DEF t
    <3>2. i + 1 \in 1..t /\ m + (i + 1) = (m + 1) + i
      BY <3>1, <1>3
    <3>3. QED
      BY <3>2 DEF t
  <2>2. tx.todo[i + 1] = tx.batch[m + (i + 1)]
    BY <2>1, <1>1 DEF PushDone, m
  <2>3. QED
    BY <2>1, <2>2, <1>6
<1>12. /\ Cardinality(DOMAIN ndb) <= Cardinality(DOMAIN disk) + (m + 1)
       /\ Cardinality(DOMAIN disk) + (m + 1) - Cardinality(DOMAIN ndb)
            <= Cardinality(UrgentIn(tx.batch, m + 1))
  <2> DEFINE d == Cardinality(DOMAIN disk)
             o == Cardinality(DOMAIN tx.db)
             c == Cardinality(DOMAIN db)
             n == Cardinality(DOMAIN ndb)
             u == Cardinality(UrgentIn(tx.batch, m))
             v == Cardinality(UrgentIn(tx.batch, m + 1))
  <2>1. o <= d + m /\ d + m - o <= u
    BY <1>1 DEF PushDone, m
  <2>2. u \in Nat /\ v \in Nat /\ u <= v /\ (pkt \in Urgent => v = u + 1)
    BY <1>3, <1>4, UrgentGrows
  <2>3. c = o \/ (pkt \in Urgent /\ c = o - 1)
    OBVIOUS
  <2>4. n = c + 1
    BY <1>8
  <2>5. d \in Nat /\ o \in Nat /\ c \in Nat /\ m \in Nat
    BY <1>3, <1>9
  <2> HIDE DEF d, o, c, n, u, v
  <2>6. n <= d + (m + 1) /\ d + (m + 1) - n <= v
    BY <2>1, <2>2, <2>3, <2>4, <2>5
  <2>7. QED
    BY <2>6 DEF d, o, c, n, u, v
<1>13. tx.batch \in Batches /\ m + 1 \in 0..Len(tx.batch) /\ tx.seq + 1 = seqNo + (m + 1)
  <2>1. tx.batch \in Batches
    BY <1>1 DEF PushDone
  <2>2. m + 1 \in 0..b /\ tx.seq + 1 = seqNo + (m + 1)
    BY <1>2, <1>3
  <2>3. QED
    BY <2>1, <2>2 DEF b
<1> HIDE DEF ndb
<1>14. PushDone(tx)'
  BY ZenonT(30), <1>5, <1>7, <1>10, <1>11, <1>12, <1>13 DEF PushDone, Filed, UrgentIn
<1>15. QED
  BY <1>5, <1>14 DEF RInv

LEMMA InitRInv == Init => RInv
BY DEF Init, RInv, NoTx

\* A transaction that has ended, or has not changed anything, satisfies RInv.
LEMMA EndRInv == ASSUME tx' = NoTx PROVE RInv'
BY DEF RInv, NoTx

\* Every step keeps what is known of the transaction under way.
LEMMA NextRInv == IInv /\ RInv /\ [Next]_vars => RInv'
<1> SUFFICES ASSUME IInv, RInv, [Next]_vars PROVE RInv'
  OBVIOUS
<1>1. ASSUME NEW batch \in Batches, BeginPush(batch) PROVE RInv'
  <2>1. /\ tx'.op = "push" /\ tx'.db = disk /\ tx'.seq = seqNo
        /\ tx'.todo = batch /\ tx'.batch = batch /\ UNCHANGED <<disk, seqNo>>
    BY <1>1 DEF BeginPush
  <2>2. PICK n \in 1..MaxBatch : batch \in [1..n -> Packets]
    BY DEF Batches
  <2>3. Len(batch) = n /\ n \in Nat
    BY <2>2, QueueAssumption
  <2>4. Len(batch) - Len(batch) = 0 /\ seqNo = seqNo + 0 /\ \A i \in 1..Len(batch) : 0 + i = i
    BY <2>3 DEF IInv, TypeOK
  <2>5. Cardinality(DOMAIN disk) \in Nat /\ Cardinality(UrgentIn(batch, 0)) = 0
    BY CountAtMostPayload, UrgentGrows DEF IInv, TypeOK
  <2>6. PushDone(tx)'
    BY <2>1, <2>3, <2>4, <2>5 DEF PushDone, Filed, UrgentIn
  <2>7. QED
    BY <2>1, <2>6 DEF RInv
<1>2. ASSUME PutEntry PROVE RInv'
  <2>1. /\ tx.op = "push" /\ tx.todo # <<>> /\ UNCHANGED <<disk, seqNo>>
        /\ tx' = Insert(tx, tx.db, tx.used)
    BY <1>2 DEF PutEntry
  <2>2. IsBucket(tx.db) /\ Sound(tx.db, tx.seq, tx.upto)
    BY <2>1 DEF IInv, TypeOK, NoTx, IsPopTx, IsPushTx, PushInv
  <2>3. QED
    BY <2>1, <2>2, InsertDone
<1>3. ASSUME EvictAndPut PROVE RInv'
  <2> DEFINE k0 == First(tx.db)
             db == Delete(tx.db, k0)
  <2>1. /\ tx.op = "push" /\ tx.todo # <<>> /\ UNCHANGED <<disk, seqNo>>
        /\ Head(tx.todo) \in Urgent /\ DOMAIN tx.db # {}
        /\ tx' = Insert(tx, db, tx.used - Size[tx.db[k0]])
    BY <1>3 DEF EvictAndPut, Evictable
  <2>2. /\ IsBucket(tx.db) /\ Sound(tx.db, tx.seq, tx.upto)
        /\ tx.seq \in Nat /\ tx.upto \in [0..tx.seq -> Nat]
    BY <2>1 DEF IInv, TypeOK, NoTx, IsPopTx, IsPushTx, PushInv
  <2>3. /\ IsBucket(db) /\ Sound(db, tx.seq, tx.upto)
        /\ Cardinality(DOMAIN db) = Cardinality(DOMAIN tx.db) - 1
    BY <2>1, <2>2, SoundDelete
  <2>4. \A k \in DOMAIN db : k \in DOMAIN tx.db /\ db[k] = tx.db[k]
    BY DEF Delete
  <2> HIDE DEF db
  <2>5. QED
    BY <2>1, <2>3, <2>4, InsertDone
<1>4. ASSUME PushFull \/ CommitPush \/ PopEmpty \/ CommitPop \/ Close \/ Crash PROVE RInv'
  BY <1>4, EndRInv DEF PushFull, CommitPush, PopEmpty, CommitPop, Close, Crash
<1>5. ASSUME NEW n \in 1..MaxBatch, BeginPop(n) PROVE RInv'
  <2>1. /\ tx'.op = "pop" /\ tx'.db = disk /\ tx'.n = n /\ tx'.out = 0
        /\ UNCHANGED disk
    BY <1>5 DEF BeginPop
  <2>2. Cardinality(DOMAIN disk) \in Nat /\ 0 <= n
    BY CountAtMostPayload, QueueAssumption DEF IInv, TypeOK
  <2>3. PopDone(tx)'
    BY <2>1, <2>2 DEF PopDone
  <2>4. QED
    BY <2>1, <2>3 DEF RInv
<1>6. ASSUME TakeEntry PROVE RInv'
  <2> DEFINE k0 == First(tx.db)
             db == Delete(tx.db, k0)
  <2>1. /\ tx.op = "pop" /\ DOMAIN tx.db # {} /\ UNCHANGED disk /\ tx.out < tx.n
        /\ tx'.op = "pop" /\ tx'.db = db /\ tx'.n = tx.n /\ tx'.out = tx.out + 1
    BY <1>6 DEF TakeEntry
  <2>2. IsPopTx(tx) /\ Sound(tx.db, seqNo, upto) /\ PopDone(tx)
    BY <2>1 DEF IInv, TypeOK, NoTx, IsPushTx, PopInv, RInv
  <2>3. Cardinality(DOMAIN db) = Cardinality(DOMAIN tx.db) - 1
    BY <2>1, <2>2, SoundDelete DEF IsPopTx, IInv, TypeOK
  <2>4. Cardinality(DOMAIN tx.db) \in Nat /\ Cardinality(DOMAIN disk) \in Nat
    BY <2>2, CountAtMostPayload DEF IInv, TypeOK
  <2>5. tx.n \in Nat /\ tx.out \in Nat
    BY <2>2 DEF IsPopTx
  <2> HIDE DEF db
  <2>6. PopDone(tx)'
    BY <2>1, <2>2, <2>3, <2>4, <2>5 DEF PopDone
  <2>7. QED
    BY <2>1, <2>6 DEF RInv
<1>7. ASSUME Open \/ UNCHANGED vars PROVE RInv'
  <2>1. UNCHANGED <<tx, disk, seqNo>>
    BY <1>7 DEF Open, vars
  <2>2. QED
    BY <2>1 DEF RInv, PushDone, PopDone, Filed, UrgentIn
<1>8. QED
  BY <1>1, <1>2, <1>3, <1>4, <1>5, <1>6, <1>7 DEF Next

\* A bucket in key order, and the queue and the call that Fifo maps to.
InOrder(db, seq) ==
  [i \in 1..Cardinality(DOMAIN db) |-> db[seq - Cardinality(DOMAIN db) + i]]
Queue  == InOrder(disk, seqNo)
Called == IF tx.op = "push" THEN tx.batch ELSE <<>>

\* Key and position: the keys of a bucket without holes end at the sequence.
LEMMA InOrderType ==
  ASSUME NEW db, NEW seq \in Nat, NEW u, IsBucket(db), Sound(db, seq, u)
  PROVE  /\ Cardinality(DOMAIN db) \in 0..seq
         /\ DOMAIN db = (seq - Cardinality(DOMAIN db) + 1)..seq
         /\ InOrder(db, seq) \in Seq(Packets)
         /\ Len(InOrder(db, seq)) = Cardinality(DOMAIN db)
<1>1. db \in [DOMAIN db -> Packets]
  BY DEF IsBucket
<1>2. PICK lo \in 1..(seq + 1) : DOMAIN db = lo..seq
  BY DEF Sound
<1>3. Cardinality(DOMAIN db) = seq - lo + 1
  BY <1>2, CardOfInterval
<1> DEFINE c == Cardinality(DOMAIN db)
<1>4. c \in 0..seq /\ c \in Nat /\ lo = seq - c + 1
  BY <1>1, <1>3
<1> HIDE DEF c
<1>5. \A i \in 1..c : db[seq - c + i] \in Packets
  <2> SUFFICES ASSUME NEW i \in 1..c PROVE db[seq - c + i] \in Packets
    OBVIOUS
  <2>1. seq - c + i \in lo..seq
    BY <1>1, <1>4
  <2>2. QED
    BY <2>1, <1>1, <1>2
<1> DEFINE r == InOrder(db, seq)
<1>6. r = [i \in 1..c |-> db[seq - c + i]]
  BY DEF InOrder, c
<1> HIDE DEF r
<1>7. r \in [1..c -> Packets]
  BY <1>5, <1>6
<1>8. r \in Seq(Packets) /\ Len(r) = c
  BY <1>4, <1>7
<1>9. QED
  BY <1>2, <1>4, <1>8 DEF c, r

\* A sequence that agrees with another one from the e-th element on is that one without
\* its first e elements.
LEMMA DropIs ==
  ASSUME NEW s \in Seq(Packets), NEW e \in 0..Len(s), NEW r \in Seq(Packets),
         Len(r) = Len(s) - e, \A i \in 1..Len(r) : r[i] = s[e + i]
  PROVE  r = SubSeq(s, e + 1, Len(s))
<1> DEFINE n == Len(s)
           d == SubSeq(s, e + 1, n)
<1>1. n \in Nat /\ e \in Nat /\ e <= n
  OBVIOUS
<1>2. \A i \in (e + 1)..n : s[i] \in Packets
  OBVIOUS
<1>3. /\ d \in Seq(Packets)
      /\ Len(d) = IF e + 1 <= n THEN n - (e + 1) + 1 ELSE 0
      /\ \A i \in 1..(n - (e + 1) + 1) : d[i] = s[(e + 1) + i - 1]
  BY <1>1, <1>2, SubSeqProperties
<1> HIDE DEF d, n
<1>4. Len(d) = n - e
  BY <1>1, <1>3
<1>5. \A i \in 1..(n - e) : d[i] = s[e + i]
  <2> SUFFICES ASSUME NEW i \in 1..(n - e) PROVE d[i] = s[e + i]
    OBVIOUS
  <2>1. i \in 1..(n - (e + 1) + 1) /\ (e + 1) + i - 1 = e + i
    BY <1>1
  <2>2. QED
    BY <1>3, <2>1
<1>6. Len(r) = Len(d) /\ \A i \in 1..Len(r) : r[i] = d[i]
  BY <1>4, <1>5 DEF n
<1>7. r = d
  BY <1>3, <1>6, SeqEqual
<1>8. QED
  BY <1>7 DEF d, n

\* The commit of a push is one PushBatch: the batch behind the queue, less what was
\* evicted from its head.
LEMMA CommitPushRefines ==
  ASSUME IInv, RInv, CommitPush
  PROVE  Fifo!PushBatch
<1> DEFINE c == Cardinality(DOMAIN disk)
           b == Len(tx.batch)
           n == Cardinality(DOMAIN tx.db)
           e == c + b - n
           s == Queue \o tx.batch
<1>1. /\ tx.op = "push" /\ tx.todo = <<>> /\ disk' = tx.db /\ seqNo' = tx.seq /\ tx' = NoTx
  BY DEF CommitPush
<1>2. IsPushTx(tx) /\ PushDone(tx) /\ PushInv
  BY <1>1 DEF IInv, TypeOK, NoTx, IsPopTx, RInv
<1>3. tx.batch \in Seq(Packets) /\ b \in Nat /\ tx.batch # <<>>
  <2>1. PICK k \in 1..MaxBatch : tx.batch \in [1..k -> Packets]
    BY <1>2 DEF PushDone, Batches
  <2>2. QED
    BY <2>1, QueueAssumption
<1>4. Filed(tx) = b
  <2>1. Len(tx.todo) = 0
    BY <1>1
  <2>2. QED
    BY <1>3, <2>1 DEF Filed
<1>5. /\ seqNo' = seqNo + b
      /\ \A i \in 1..b : seqNo + i \in DOMAIN tx.db => tx.db[seqNo + i] = tx.batch[i]
      /\ n <= c + b
      /\ c + b - n <= Cardinality(UrgentIn(tx.batch, b))
  BY <1>1, <1>2, <1>4 DEF PushDone
<1>6. seqNo \in Nat /\ c \in 0..seqNo /\ Queue \in Seq(Packets) /\ Len(Queue) = c
  BY InOrderType DEF IInv, TypeOK, Queue
<1>7. /\ n \in 0..seqNo' /\ DOMAIN tx.db = (seqNo' - n + 1)..seqNo'
      /\ Queue' \in Seq(Packets) /\ Len(Queue') = n
  <2>1. tx.seq \in Nat /\ IsBucket(tx.db) /\ Sound(tx.db, tx.seq, tx.upto)
    BY <1>1, <1>2 DEF IsPushTx, PushInv
  <2>2. Queue' = InOrder(tx.db, tx.seq)
    BY <1>1 DEF Queue, InOrder
  <2>3. QED
    BY <1>1, <2>1, <2>2, InOrderType
<1>8. s \in Seq(Packets) /\ Len(s) = c + b
  <2>1. Len(s) = Len(Queue) + Len(tx.batch) /\ s \in Seq(Packets)
    BY <1>3, <1>6, ConcatProperties
  <2>2. QED
    BY <1>6, <2>1
<1>9. /\ \A i \in 1..c : s[i] = disk[seqNo - c + i]
      /\ \A i \in (c + 1)..(c + b) : s[i] = tx.batch[i - c]
  <2>1. \A i \in 1..(c + b) : s[i] = IF i <= c THEN Queue[i] ELSE tx.batch[i - c]
    BY <1>3, <1>6, ConcatProperties
  <2>2. \A i \in 1..c : Queue[i] = disk[seqNo - c + i]
    BY DEF Queue, InOrder
  <2>3. QED
    BY <1>3, <1>6, <2>1, <2>2
<1>10. \A i \in 1..n : Queue'[i] = tx.db[seqNo' - n + i]
  BY <1>1 DEF Queue, InOrder
<1> HIDE DEF c, n, s, b
<1>11. e \in 0..(c + b) /\ n = (c + b) - e
  BY <1>3, <1>5, <1>6, <1>7
<1>12. \A i \in 1..n : Queue'[i] = s[e + i]
  <2> SUFFICES ASSUME NEW i \in 1..n PROVE Queue'[i] = s[e + i]
    OBVIOUS
  <2>1. PICK k \in Nat : k = seqNo' - n + i
    BY <1>3, <1>5, <1>6, <1>7
  <2>2. k \in DOMAIN tx.db
    BY <1>3, <1>5, <1>6, <1>7, <2>1
  <2>3. CASE e + i <= c
    <3>1. e + i \in 1..c /\ k = seqNo - c + (e + i) /\ k <= seqNo
      BY <1>3, <1>5, <1>6, <1>7, <1>11, <2>1, <2>3
    <3>2. tx.db[k] = disk[k]
      BY <1>1, <1>2, <2>2, <3>1 DEF PushInv
    <3>3. QED
      BY <1>9, <1>10, <2>1, <3>1, <3>2
  <2>4. CASE e + i > c
    <3>1. e + i \in (c + 1)..(c + b) /\ k = seqNo + ((e + i) - c) /\ (e + i) - c \in 1..b
      BY <1>3, <1>5, <1>6, <1>7, <1>11, <2>1, <2>4
    <3>2. tx.db[k] = tx.batch[(e + i) - c]
      BY <1>5, <2>2, <3>1
    <3>3. QED
      BY <1>9, <1>10, <2>1, <3>1, <3>2
  <2>5. QED
    BY <1>6, <1>11, <2>3, <2>4
<1>13. Queue' = SubSeq(s, e + 1, Len(s))
  <2>1. /\ s \in Seq(Packets) /\ e \in 0..Len(s) /\ Queue' \in Seq(Packets)
        /\ Len(Queue') = Len(s) - e /\ \A i \in 1..Len(Queue') : Queue'[i] = s[e + i]
    BY <1>7, <1>8, <1>11, <1>12 DEF n
  <2> HIDE DEF e
  <2>2. QED
    BY <2>1, DropIs
<1>14. e \in 0..Cardinality({i \in DOMAIN tx.batch : tx.batch[i] \in Urgent})
  <2>1. UrgentIn(tx.batch, b) = {i \in DOMAIN tx.batch : tx.batch[i] \in Urgent}
    BY <1>3 DEF UrgentIn, b
  <2>2. Cardinality(UrgentIn(tx.batch, b)) \in Nat
    BY <1>3, UrgentGrows
  <2>3. QED
    BY <1>5, <1>11, <2>1, <2>2
<1>15. Called = tx.batch /\ Called' = <<>>
  BY <1>1 DEF Called, NoTx
<1> HIDE DEF e
<1>16. /\ Called # <<>> /\ Called' = <<>>
       /\ \E evicted \in 0..Cardinality({i \in DOMAIN Called : Called[i] \in Urgent}) :
            Queue' = SubSeq(Queue \o Called, evicted + 1, Len(Queue \o Called))
  BY <1>3, <1>13, <1>14, <1>15 DEF s
<1>17. ASSUME NEW S PROVE Fifo!Cardinality(S) = Cardinality(S)
  BY Zenon DEF Fifo!Cardinality, Cardinality
<1>18. QED
  BY <1>16, <1>17 DEF Fifo!PushBatch, Fifo!Drop, Queue, InOrder, Called

\* The commit of a pop is one PopBatch of as many packets as it took.
LEMMA CommitPopRefines ==
  ASSUME IInv, RInv, CommitPop
  PROVE  \E n \in 1..MaxBatch : Fifo!PopBatch(n)
<1> DEFINE c == Cardinality(DOMAIN disk)
           n == Cardinality(DOMAIN tx.db)
           e == tx.out
<1>1. /\ tx.op = "pop" /\ tx.out > 0 /\ disk' = tx.db /\ seqNo' = seqNo /\ tx' = NoTx
  BY DEF CommitPop
<1>2. IsPopTx(tx) /\ PopDone(tx) /\ PopInv
  BY <1>1 DEF IInv, TypeOK, NoTx, IsPushTx, RInv
<1>3. seqNo \in Nat /\ c \in 0..seqNo /\ Queue \in Seq(Packets) /\ Len(Queue) = c
  BY InOrderType DEF IInv, TypeOK, Queue
<1>4. /\ n \in 0..seqNo /\ DOMAIN tx.db = (seqNo - n + 1)..seqNo
      /\ Queue' \in Seq(Packets) /\ Len(Queue') = n
  <2>1. IsBucket(tx.db) /\ Sound(tx.db, seqNo, upto)
    BY <1>1, <1>2 DEF IsPopTx, PopInv
  <2>2. Queue' = InOrder(tx.db, seqNo)
    BY <1>1 DEF Queue, InOrder
  <2>3. QED
    BY <1>3, <2>1, <2>2, InOrderType
<1>5. e \in 1..MaxBatch /\ e = c - n
  BY <1>1, <1>2, QueueAssumption DEF PopDone, IsPopTx
<1>6. /\ \A i \in 1..c : Queue[i] = disk[seqNo - c + i]
      /\ \A i \in 1..n : Queue'[i] = tx.db[seqNo - n + i]
  BY <1>1 DEF Queue, InOrder
<1> HIDE DEF c, n, e
<1>7. e \in 0..c /\ n = c - e /\ c > 0
  BY <1>3, <1>4, <1>5, QueueAssumption
<1>8. \A i \in 1..n : Queue'[i] = Queue[e + i]
  <2> SUFFICES ASSUME NEW i \in 1..n PROVE Queue'[i] = Queue[e + i]
    OBVIOUS
  <2>1. PICK k \in Nat : k = seqNo - n + i
    BY <1>3, <1>4
  <2>2. k \in DOMAIN tx.db /\ e + i \in 1..c /\ k = seqNo - c + (e + i)
    BY <1>3, <1>4, <1>7, <2>1
  <2>3. tx.db[k] = disk[k]
    BY <1>1, <1>2, <2>2 DEF PopInv
  <2>4. QED
    BY <1>6, <2>1, <2>2, <2>3
<1>9. Queue' = SubSeq(Queue, e + 1, Len(Queue))
  <2>1. /\ e \in 0..Len(Queue) /\ Len(Queue') = Len(Queue) - e
        /\ \A i \in 1..Len(Queue') : Queue'[i] = Queue[e + i]
    BY <1>3, <1>4, <1>7, <1>8
  <2>2. QED
    BY <1>3, <1>4, <2>1, DropIs
<1>10. Queue # <<>> /\ Called = <<>> /\ Called' = <<>>
  BY <1>1, <1>3, <1>7 DEF Called, NoTx
<1>11. PICK w \in 1..MaxBatch : w = e
  BY <1>5
<1>12. Fifo!PopBatch(w)
  BY <1>9, <1>10, <1>11 DEF Fifo!PopBatch, Fifo!Drop, Queue, InOrder, Called
<1>13. QED
  BY <1>12

\* Every step is a step of AtomicFifo or leaves its state alone.
LEMMA StepRefines ==
  ASSUME IInv, RInv, [Next]_vars
  PROVE  Fifo!Next \/ (Queue' = Queue /\ Called' = Called)
<1>1. ASSUME NEW batch \in Batches, BeginPush(batch) PROVE Fifo!Next
  <2>1. Queue' = Queue /\ Called = <<>> /\ Called' = batch
    BY <1>1 DEF BeginPush, Queue, InOrder, Called, NoTx
  <2>2. Fifo!Call(batch)
    BY <2>1 DEF Fifo!Call, Queue, InOrder, Called
  <2>3. QED
    BY <2>2 DEF Fifo!Next, Batches
<1>2. ASSUME PutEntry \/ EvictAndPut PROVE Queue' = Queue /\ Called' = Called
  BY <1>2 DEF PutEntry, EvictAndPut, Insert, Queue, InOrder, Called
<1>3. ASSUME PushFull \/ (tx.op = "push" /\ Crash) PROVE Fifo!Next
  <2>1. /\ tx.op = "push" /\ tx' = NoTx /\ UNCHANGED <<disk, seqNo>>
    BY <1>3 DEF PushFull, Crash
  <2>2. tx.batch # <<>>
    <3>1. PICK k \in 1..MaxBatch : tx.batch \in [1..k -> Packets]
      BY <2>1 DEF RInv, PushDone, Batches
    <3>2. QED
      BY <3>1, QueueAssumption
  <2>3. Queue' = Queue /\ Called # <<>> /\ Called' = <<>>
    BY <2>1, <2>2 DEF Queue, InOrder, Called, NoTx
  <2>4. QED
    BY <2>3 DEF Fifo!Next, Fifo!PushFails, Queue, InOrder, Called
<1>4. ASSUME CommitPush PROVE Fifo!Next
  BY <1>4, CommitPushRefines DEF Fifo!Next
<1>5. ASSUME NEW n \in 1..MaxBatch, BeginPop(n) PROVE Queue' = Queue /\ Called' = Called
  BY <1>5 DEF BeginPop, Queue, InOrder, Called, NoTx
<1>6. ASSUME TakeEntry \/ PopEmpty PROVE Queue' = Queue /\ Called' = Called
  BY <1>6 DEF TakeEntry, PopEmpty, Queue, InOrder, Called, NoTx
<1>7. ASSUME CommitPop PROVE Fifo!Next
  BY <1>7, CommitPopRefines DEF Fifo!Next
<1>8. ASSUME Open \/ Close \/ (tx.op # "push" /\ Crash) \/ UNCHANGED vars
      PROVE  Queue' = Queue /\ Called' = Called
  BY <1>8 DEF Open, Close, Crash, vars, Queue, InOrder, Called, NoTx
<1>9. QED
  BY <1>1, <1>2, <1>3, <1>4, <1>5, <1>6, <1>7, <1>8 DEF Next

\* PushBatch and PopBatch are atomic for their callers, through evictions, ErrFull
\* rollbacks and crashes inside a transaction, for every limit and batch length: the
\* committed bucket in key order is a queue that takes a batch whole or not at all,
\* gives from its head, and loses at most one old packet for each urgent new one.
THEOREM QueueIsAtomicFifo == Spec => IsAtomicFifo
<1>1. Init => Fifo!Init
  <2> SUFFICES ASSUME Init PROVE Fifo!Init
    OBVIOUS
  <2>1. Cardinality(DOMAIN disk) = 0 /\ tx.op = "none"
    BY FS_EmptySet DEF Init, NoTx
  <2>2. Queue = <<>> /\ Called = <<>>
    BY <2>1 DEF Queue, InOrder, Called
  <2>3. QED
    BY <2>2 DEF Fifo!Init, Queue, InOrder, Called
<1>2. IInv /\ RInv /\ [Next]_vars => [Fifo!Next]_<<Queue, Called>>
  BY StepRefines
<1>3. Spec => []RInv
  BY InitRInv, NextRInv, QueueInvariant, PTL DEF Spec
<1>4. Spec => Fifo!Init /\ [][Fifo!Next]_<<Queue, Called>>
  BY <1>1, <1>2, <1>3, QueueInvariant, PTL DEF Spec
<1>5. QED
  BY <1>4, PTL DEF IsAtomicFifo, Fifo!Spec, Queue, InOrder, Called

-----------------------------------------------------------------------------
(* The host agent.  PacketsAccounted counts: it compares lengths with      *)
(* cardinalities.  The inductive invariant says the same without counting  *)
(* (no sequence holds a packet twice, no packet has two losses), and the   *)
(* counts are derived from it at the end.                                  *)
(*                                                                         *)
(* Sequences that hold nothing twice.                                      *)

\* No two positions hold the same.
NoDup(s) == \A i, j \in DOMAIN s : s[i] = s[j] => i = j

\* The empty sequence.
LEMMA EmptyElems == ToSet(<<>>) = {} /\ NoDup(<<>>)
BY DEF ToSet, NoDup

\* The elements of a sequence over S are in S.
LEMMA ElemsTyped ==
  ASSUME NEW S, NEW s \in Seq(S)
  PROVE  ToSet(s) \in SUBSET S
BY DEF ToSet

\* A new element at the end.
LEMMA AppendElems ==
  ASSUME NEW S, NEW s \in Seq(S), NEW e \in S
  PROVE  /\ Append(s, e) \in Seq(S) /\ Len(Append(s, e)) = Len(s) + 1
         /\ ToSet(Append(s, e)) = ToSet(s) \cup {e}
         /\ NoDup(s) /\ e \notin ToSet(s) => NoDup(Append(s, e))
<1> DEFINE t == Append(s, e)
<1>1. /\ t \in Seq(S) /\ Len(t) = Len(s) + 1 /\ Len(s) \in Nat
      /\ DOMAIN s = 1..Len(s) /\ DOMAIN t = 1..(Len(s) + 1)
      /\ \A i \in 1..Len(s) : t[i] = s[i]
      /\ t[Len(s) + 1] = e
  BY AppendProperties, LenProperties
<1> HIDE DEF t
<1>2. \A i \in DOMAIN t : i \in DOMAIN s \/ i = Len(s) + 1
  BY <1>1
<1>3. ToSet(t) = ToSet(s) \cup {e}
  <2>1. \A x \in ToSet(t) : x \in ToSet(s) \cup {e}
    BY <1>1, <1>2 DEF ToSet
  <2>2. \A x \in ToSet(s) : x \in ToSet(t)
    BY <1>1 DEF ToSet
  <2>3. e \in ToSet(t)
    BY <1>1 DEF ToSet
  <2>4. QED
    BY <2>1, <2>2, <2>3
<1>4. ASSUME NoDup(s), e \notin ToSet(s) PROVE NoDup(t)
  <2>1. \A i \in DOMAIN s : s[i] # e
    BY <1>4 DEF ToSet
  <2>2. QED
    BY <1>1, <1>2, <1>4, <2>1 DEF NoDup
<1>5. QED
  BY <1>1, <1>3, <1>4 DEF t

\* Without its head, a sequence has the other elements.
LEMMA TailElems ==
  ASSUME NEW S, NEW s \in Seq(S), s # <<>>, NoDup(s)
  PROVE  /\ Tail(s) \in Seq(S) /\ Len(Tail(s)) = Len(s) - 1
         /\ Head(s) \in S /\ Head(s) \in ToSet(s)
         /\ ToSet(Tail(s)) = ToSet(s) \ {Head(s)}
         /\ NoDup(Tail(s))
<1> DEFINE t == Tail(s)
           h == Head(s)
<1>1. /\ t \in Seq(S) /\ Len(t) = Len(s) - 1 /\ Len(s) \in Nat /\ Len(s) > 0
      /\ DOMAIN s = 1..Len(s) /\ DOMAIN t = 1..(Len(s) - 1)
      /\ \A i \in 1..(Len(s) - 1) : t[i] = s[i + 1]
      /\ h = s[1] /\ h \in S
  BY HeadTailProperties, LenProperties, EmptySeq
<1> HIDE DEF t, h
<1>2. \A i \in DOMAIN s : i = 1 \/ (i - 1 \in DOMAIN t /\ t[i - 1] = s[i])
  BY <1>1
<1>3. \A i \in DOMAIN t : i + 1 \in DOMAIN s /\ t[i] = s[i + 1] /\ i + 1 # 1
  BY <1>1
<1>4. 1 \in DOMAIN s
  BY <1>1
<1>5. ToSet(t) = ToSet(s) \ {h}
  <2>1. \A x \in ToSet(t) : x \in ToSet(s) /\ x # h
    BY <1>1, <1>3, <1>4 DEF ToSet, NoDup
  <2>2. \A x \in ToSet(s) : x = h \/ x \in ToSet(t)
    BY <1>1, <1>2 DEF ToSet
  <2>3. QED
    BY <2>1, <2>2
<1>6. NoDup(t)
  <2> SUFFICES ASSUME NEW i \in DOMAIN t, NEW j \in DOMAIN t, t[i] = t[j] PROVE i = j
    BY DEF NoDup
  <2>1. i + 1 = j + 1
    BY <1>3 DEF NoDup
  <2>2. QED
    BY <1>1, <2>1
<1>7. h \in ToSet(s)
  BY <1>1, <1>4 DEF ToSet
<1>8. QED
  BY <1>1, <1>5, <1>6, <1>7 DEF t, h

\* A sequence without duplicates is as long as it has elements.
LEMMA NoDupCardinality ==
  ASSUME NEW S, NEW s \in Seq(S), NoDup(s)
  PROVE  Len(s) = Cardinality(ToSet(s))
<1> DEFINE f == [i \in 1..Len(s) |-> s[i]]
<1>1. Len(s) \in Nat /\ DOMAIN s = 1..Len(s)
  BY LenProperties
<1>2. f \in Bijection(1..Len(s), ToSet(s))
  BY <1>1 DEF NoDup, ToSet, Bijection, Injection, Surjection, IsInjective
<1> HIDE DEF f
<1>3. IsFiniteSet(1..Len(s)) /\ Cardinality(1..Len(s)) = Len(s)
  <2>1. PICK n \in Nat : n = Len(s)
    BY <1>1
  <2>2. IsFiniteSet(1..n) /\ Cardinality(1..n) = IF 1 > n THEN 0 ELSE n - 1 + 1
    BY FS_Interval, 1 \in Int, n \in Int
  <2>3. QED
    BY <2>1, <2>2
<1>4. ExistsBijection(1..Len(s), ToSet(s))
  BY <1>2 DEF ExistsBijection
<1>5. QED
  BY <1>3, <1>4, FS_Bijection

-----------------------------------------------------------------------------
LossPlaces == {"queue", "requeue", "wire", "pipeline", "hub", "held"}

Firsts(L)  == {l[1] : l \in L}
OneLoss(L) == \A l, m \in L : l[1] = m[1] => l = m
Hand       == {held} \ {None}

\* No packet is in two of the six sets.
Apart(Q, H, W, B, D, L) ==
  /\ \A p \in Q : p \notin H /\ p \notin W /\ p \notin B /\ p \notin D /\ p \notin L
  /\ \A p \in H : p \notin W /\ p \notin B /\ p \notin D /\ p \notin L
  /\ \A p \in W : p \notin B /\ p \notin D /\ p \notin L
  /\ \A p \in B : p \notin D /\ p \notin L
  /\ \A p \in D : p \notin L

\* The places hold what was collected, and hold it once.
Partition(n, Q, H, W, B, D, L) ==
  Apart(Q, H, W, B, D, L) /\ Q \cup H \cup W \cup B \cup D \cup L = 1..n

\* A stream that still takes packets has a hub at its end and a context that is not done.
UpIsLive == stream = "up" => hub /\ ~stopping

AgentIInv ==
  /\ IdrTypeOK /\ UpIsLive
  /\ Partition(made, Queued, Hand, ToSet(wire), ToSet(buf), done, Firsts(lost))
  /\ NoDup(q) /\ NoDup(wire) /\ NoDup(buf)
  /\ OneLoss(lost)

-----------------------------------------------------------------------------
(* Losses.                                                                 *)

LEMMA GoneAdds ==
  ASSUME NEW L \in SUBSET (Readings \X LossPlaces), OneLoss(L),
         NEW ps \in SUBSET Readings, ps \cap Firsts(L) = {}, NEW place \in LossPlaces
  PROVE  /\ L \cup Gone(ps, place) \in SUBSET (Readings \X LossPlaces)
         /\ OneLoss(L \cup Gone(ps, place))
         /\ Firsts(L \cup Gone(ps, place)) = Firsts(L) \cup ps
<1> DEFINE G == Gone(ps, place)
<1>1. \A g \in G : g \in Readings \X LossPlaces /\ g[1] \in ps /\ g = <<g[1], place>>
  BY DEF Gone
<1>2. \A p \in ps : <<p, place>> \in G /\ <<p, place>>[1] = p
  BY DEF Gone
<1>3. \A l \in L : l[1] \in Firsts(L)
  BY DEF Firsts
<1> HIDE DEF G
<1>4. OneLoss(L \cup G)
  <2> SUFFICES ASSUME NEW l \in L \cup G, NEW m \in L \cup G, l[1] = m[1] PROVE l = m
    BY DEF OneLoss
  <2>1. CASE l \in L /\ m \in L
    BY <2>1 DEF OneLoss
  <2>2. CASE l \in G /\ m \in G
    <3>1. l = <<l[1], place>> /\ m = <<m[1], place>>
      BY <1>1, <2>2
    <3>2. <<l[1], place>> = <<m[1], place>>
      OBVIOUS
    <3>3. QED
      BY <3>1, <3>2, Zenon
  <2>3. CASE (l \in L /\ m \in G) \/ (l \in G /\ m \in L)
    BY <1>1, <1>3, <2>3
  <2>4. QED
    BY <2>1, <2>2, <2>3
<1>5. Firsts(L \cup G) = Firsts(L) \cup ps
  <2>1. \A x \in Firsts(L \cup G) : x \in Firsts(L) \cup ps
    BY <1>1 DEF Firsts
  <2>2. \A x \in Firsts(L) : x \in Firsts(L \cup G)
    BY DEF Firsts
  <2>3. \A x \in ps : x \in Firsts(L \cup G)
    BY <1>2 DEF Firsts
  <2>4. QED
    BY <2>1, <2>2, <2>3
<1>6. QED
  BY <1>1, <1>4, <1>5 DEF G

LEMMA LossesCounted ==
  ASSUME NEW L \in SUBSET (Readings \X LossPlaces), OneLoss(L)
  PROVE  Cardinality(L) = Cardinality(Firsts(L))
<1> DEFINE f == [l \in L |-> l[1]]
<1>1. f \in Bijection(L, Firsts(L))
  BY DEF OneLoss, Firsts, Bijection, Injection, Surjection, IsInjective
<1>2. IsFiniteSet(L)
  <2>1. IsFiniteSet(Readings)
    BY IdrAssumption, FS_Interval DEF Readings
  <2>2. IsFiniteSet(LossPlaces)
    <3> DEFINE A == {"queue"} \cup {"requeue"}
               B == (A \cup {"wire"}) \cup {"pipeline"}
    <3>1. IsFiniteSet(A)
      BY FS_Singleton, FS_AddElement
    <3> HIDE DEF A
    <3>2. IsFiniteSet(A \cup {"wire"})
      BY <3>1, FS_AddElement
    <3>3. IsFiniteSet(B)
      BY <3>2, FS_AddElement
    <3> HIDE DEF B
    <3>4. IsFiniteSet(B \cup {"hub"})
      BY <3>3, FS_AddElement
    <3>5. IsFiniteSet((B \cup {"hub"}) \cup {"held"})
      BY <3>4, FS_AddElement
    <3>6. LossPlaces = (B \cup {"hub"}) \cup {"held"}
      BY DEF LossPlaces, A, B
    <3>7. QED
      BY <3>5, <3>6
  <2>3. IsFiniteSet(Readings \X LossPlaces)
    BY <2>1, <2>2, FS_Product
  <2>4. QED
    BY <2>3, FS_Subset
<1>3. QED
  BY <1>1, <1>2, FS_Bijection DEF ExistsBijection

-----------------------------------------------------------------------------
(* The invariant, group of actions by group of actions.                    *)

\* What the steps below use of the invariant.
LEMMA Facts ==
  ASSUME AgentIInv
  PROVE  /\ q \in Seq(Readings) /\ wire \in Seq(Readings) /\ buf \in Seq(Readings)
         /\ Queued \in SUBSET Readings /\ ToSet(wire) \in SUBSET Readings
         /\ ToSet(buf) \in SUBSET Readings /\ Hand \in SUBSET Readings
         /\ done \in SUBSET Readings
         /\ lost \in SUBSET (Readings \X LossPlaces) /\ OneLoss(lost)
         /\ left \in [Bounds -> Nat]
         /\ Apart(Queued, Hand, ToSet(wire), ToSet(buf), done, Firsts(lost))
<1>1. q \in Seq(Readings) /\ wire \in Seq(Readings) /\ buf \in Seq(Readings)
  BY DEF AgentIInv, IdrTypeOK
<1>2. QED
  BY <1>1, ElemsTyped DEF AgentIInv, IdrTypeOK, Hand, Queued, LossPlaces, Partition

LEMMA InitInv == IdrInit => AgentIInv
<1> SUFFICES ASSUME IdrInit PROVE AgentIInv
  OBVIOUS
<1>1. IdrTypeOK
  <2>1. left \in [Bounds -> Nat]
    BY IdrAssumption DEF IdrInit, Bounds
  <2>2. hub \in BOOLEAN /\ stopping \in BOOLEAN
    BY Zenon DEF IdrInit
  <2>3. /\ q \in Seq(Readings) /\ Len(q) <= QueueCap
        /\ wire \in Seq(Readings) /\ Len(wire) <= MaxWire
        /\ buf \in Seq(Readings) /\ Len(buf) < FlushAt
        /\ wire \o buf = <<>>
    <3>1. q = <<>> /\ wire = <<>> /\ buf = <<>>
      BY DEF IdrInit
    <3>2. QED
      BY <3>1, IdrAssumption
  <2>4. made \in 0..NPackets
    BY IdrAssumption DEF IdrInit
  <2>5. QED
    BY <2>1, <2>2, <2>3, <2>4 DEF IdrInit, IdrTypeOK
<1>2. Queued = {} /\ Hand = {} /\ ToSet(wire) = {} /\ ToSet(buf) = {} /\ Firsts(lost) = {}
  BY EmptyElems DEF IdrInit, Queued, Hand, Firsts
<1>3. NoDup(q) /\ NoDup(wire) /\ NoDup(buf) /\ OneLoss(lost)
  BY EmptyElems DEF IdrInit, OneLoss
<1>4. Partition(made, Queued, Hand, ToSet(wire), ToSet(buf), done, Firsts(lost))
  BY <1>2 DEF Partition, Apart, IdrInit
<1>5. QED
  BY <1>1, <1>3, <1>4 DEF AgentIInv, IdrInit, UpIsLive

\* Steps that move no packet.
LEMMA QuietInv ==
  ASSUME AgentIInv,
         Connect \/ OpenStream \/ OpenFails \/ Exit \/ Restart \/ HubReturns \/ Damage
  PROVE  AgentIInv'
<1>1. UNCHANGED <<made, q, held, wire, buf, done, lost>>
  BY DEF Connect, OpenStream, OpenFails, Exit, Restart, HubReturns, Damage, hubSide
<1>2. IdrTypeOK'
  <2>1. CASE Connect \/ OpenStream \/ OpenFails
    BY <1>1, <2>1 DEF AgentIInv, IdrTypeOK, Connect, OpenStream, OpenFails, hubSide
  <2>4. CASE Exit \/ Restart
    BY <1>1, <2>4 DEF AgentIInv, IdrTypeOK, UpIsLive, Exit, Restart, hubSide
  <2>5. CASE HubReturns
    BY <1>1, <2>5 DEF AgentIInv, IdrTypeOK, HubReturns, hubSide
  <2>2. CASE Damage
    <3>1. left' \in [Bounds -> Nat]
      <4>1. left \in [Bounds -> Nat]
        BY DEF AgentIInv, IdrTypeOK
      <4>2. left["corrupt"] > 0 /\ left' = [left EXCEPT !["corrupt"] = @ - 1]
        BY <2>2 DEF Damage, Use
      <4>3. left["corrupt"] - 1 \in Nat
        BY <4>1, <4>2 DEF Bounds
      <4>4. QED
        BY <4>1, <4>2, <4>3
    <3>2. damaged' \subseteq Readings
      BY <2>2 DEF Damage, AgentIInv, IdrTypeOK
    <3>3. QED
      BY <2>2, <3>1, <3>2 DEF Damage, AgentIInv, IdrTypeOK, hubSide
  <2>3. QED
    BY <2>1, <2>2, <2>4, <2>5
<1>3. UpIsLive'
  BY DEF AgentIInv, UpIsLive,
         Connect, OpenStream, OpenFails, Exit, Restart, HubReturns, Damage, hubSide
<1>4. QED
  BY <1>1, <1>2, <1>3 DEF AgentIInv, Queued, Hand

\* A packet pushed into the queue, or refused by it.
LEMMA PushKeeps ==
  ASSUME AgentIInv, NEW p \in Readings, NEW place \in LossPlaces,
         Push(p), lost' = lost \cup Gone(Refused(p), place),
         p \notin Queued, p \notin Firsts(lost)
  PROVE  /\ q' \in Seq(Readings) /\ Len(q') <= QueueCap /\ NoDup(q')
         /\ lost' \in SUBSET (Readings \X LossPlaces) /\ OneLoss(lost')
         /\ \/ Queued' = Queued \cup {p} /\ Firsts(lost') = Firsts(lost)
            \/ Queued' = Queued /\ Firsts(lost') = Firsts(lost) \cup {p}
<1>1. /\ q \in Seq(Readings) /\ Len(q) \in Nat /\ Len(q) <= QueueCap /\ NoDup(q)
      /\ QueueCap \in Nat
  BY IdrAssumption, LenProperties DEF AgentIInv, IdrTypeOK
<1>2. CASE Full
  <2>1. q' = q /\ Refused(p) = {p}
    BY <1>2 DEF Push, Refused
  <2>2. /\ lost' \in SUBSET (Readings \X LossPlaces) /\ OneLoss(lost')
        /\ Firsts(lost') = Firsts(lost) \cup {p}
    <3>1. {p} \in SUBSET Readings /\ {p} \cap Firsts(lost) = {}
      OBVIOUS
    <3>2. lost' = lost \cup Gone({p}, place)
      BY <2>1
    <3>3. lost \in SUBSET (Readings \X LossPlaces) /\ OneLoss(lost)
      BY Facts
    <3> DEFINE M == lost \cup Gone({p}, place)
    <3>4. /\ M \in SUBSET (Readings \X LossPlaces) /\ OneLoss(M)
          /\ Firsts(M) = Firsts(lost) \cup {p}
      BY <3>1, <3>3, GoneAdds
    <3>5. QED
      BY <3>2, <3>4
  <2>3. QED
    BY <1>1, <2>1, <2>2 DEF Queued
<1>3. CASE ~Full
  <2>1. q' = Append(q, p) /\ Refused(p) = {} /\ Len(q) < QueueCap
    BY <1>1, <1>3 DEF Push, Refused, Full
  <2>2. lost' = lost
    BY <2>1 DEF Gone
  <2>3. /\ q' \in Seq(Readings) /\ Len(q') = Len(q) + 1 /\ NoDup(q')
        /\ Queued' = Queued \cup {p}
    BY <1>1, <2>1, AppendElems DEF Queued
  <2>4. Len(q') <= QueueCap
    BY <1>1, <2>1, <2>3
  <2>5. lost' \in SUBSET (Readings \X LossPlaces) /\ OneLoss(lost')
    BY <2>2, Facts
  <2>6. QED
    BY <2>2, <2>3, <2>4, <2>5
<1>4. QED
  BY <1>2, <1>3

LEMMA CollectInv == ASSUME AgentIInv, Collect PROVE AgentIInv'
<1> DEFINE p == made + 1
<1>1. made \in Nat /\ p \in Readings /\ made' = p /\ made' \in 0..NPackets
  BY IdrAssumption DEF Collect, AgentIInv, IdrTypeOK, Readings
<1>2. p \notin 1..made
  BY <1>1
<1>3. p \notin Queued /\ p \notin Firsts(lost)
  BY <1>2 DEF AgentIInv, Partition
<1>4. Push(p) /\ lost' = lost \cup Gone(Refused(p), "queue") /\ "queue" \in LossPlaces
  BY DEF Collect, LossPlaces
<1>5. 1..made' = (1..made) \cup {p}
  BY <1>1
<1>6. UNCHANGED <<damaged, pc, held, stream, wire, buf, done, hub, stopping, left>>
  BY DEF Collect, hubSide
<1> HIDE DEF p
<1>7. /\ q' \in Seq(Readings) /\ Len(q') <= QueueCap /\ NoDup(q')
      /\ lost' \in SUBSET (Readings \X LossPlaces) /\ OneLoss(lost')
      /\ \/ Queued' = Queued \cup {p} /\ Firsts(lost') = Firsts(lost)
         \/ Queued' = Queued /\ Firsts(lost') = Firsts(lost) \cup {p}
  BY <1>1, <1>3, <1>4, PushKeeps
<1>8. IdrTypeOK'
  BY <1>1, <1>6, <1>7 DEF AgentIInv, IdrTypeOK, LossPlaces
<1>9. Partition(made, Queued, Hand, ToSet(wire), ToSet(buf), done, Firsts(lost))'
  <2>1. Partition(made, Queued, Hand, ToSet(wire), ToSet(buf), done, Firsts(lost))
    BY DEF AgentIInv
  <2>2. Hand' = Hand /\ ToSet(wire') = ToSet(wire) /\ ToSet(buf') = ToSet(buf) /\ done' = done
    BY <1>6 DEF Hand
  <2>3. QED
    BY <1>2, <1>5, <1>7, <2>1, <2>2 DEF Partition, Apart
<1>10. QED
  BY <1>6, <1>7, <1>8, <1>9 DEF AgentIInv, UpIsLive

\* The publisher takes a packet off the queue, sends it, or gives it back.
LEMMA AgentPopInv == ASSUME AgentIInv, Pop PROVE AgentIInv'
<1> DEFINE h == Head(q)
<1>1. q \in Seq(Readings) /\ q # <<>> /\ NoDup(q) /\ Len(q) \in Nat /\ Len(q) <= QueueCap
  BY LenProperties DEF Pop, AgentIInv, IdrTypeOK
<1>2. /\ q' \in Seq(Readings) /\ Len(q') = Len(q) - 1 /\ NoDup(q')
      /\ h \in Readings /\ h \in Queued /\ Queued' = Queued \ {h}
  BY <1>1, TailElems DEF Pop, Queued
<1>3. held' = h /\ pc = "drain" /\ pc' = "send"
  BY DEF Pop
<1> HIDE DEF h
<1>4. Hand = {} /\ Hand' = {h}
  BY <1>2, <1>3 DEF Hand, AgentIInv, IdrTypeOK, Readings, None
<1>5. UNCHANGED <<made, damaged, stream, wire, buf, done, lost, hub, stopping, left>>
  BY DEF Pop, hubSide
<1>6. IdrTypeOK'
  <2>1. Len(q') <= QueueCap
    BY <1>1, <1>2, IdrAssumption
  <2>2. h # None
    BY <1>2 DEF Readings, None
  <2>3. QED
    BY <1>2, <1>3, <1>5, <2>1, <2>2 DEF AgentIInv, IdrTypeOK
<1>7. Partition(made, Queued, Hand, ToSet(wire), ToSet(buf), done, Firsts(lost))'
  BY <1>2, <1>4, <1>5 DEF AgentIInv, Partition, Apart
<1>8. QED
  BY <1>2, <1>5, <1>6, <1>7 DEF AgentIInv, UpIsLive

LEMMA SendInv == ASSUME AgentIInv, Send PROVE AgentIInv'
<1>1. held \in Readings /\ held # None /\ Hand = {held}
  BY DEF Send, AgentIInv, IdrTypeOK, Hand
<1>2. held \notin ToSet(wire)
  BY <1>1 DEF AgentIInv, Partition, Apart
<1>3. wire \in Seq(Readings) /\ NoDup(wire) /\ Len(wire) \in Nat /\ Len(wire) < MaxWire
  BY LenProperties DEF Send, AgentIInv, IdrTypeOK
<1>4. /\ wire' \in Seq(Readings) /\ Len(wire') = Len(wire) + 1 /\ NoDup(wire')
      /\ ToSet(wire') = ToSet(wire) \cup {held}
  BY <1>1, <1>2, <1>3, AppendElems DEF Send
<1>5. held' = None /\ Hand' = {} /\ pc' = "drain" /\ stream = "up"
  BY DEF Send, Hand
<1>6. UNCHANGED <<made, q, damaged, stream, buf, done, lost, hub, stopping, left>>
  BY DEF Send
<1>7. IdrTypeOK'
  <2>1. Len(wire') <= MaxWire
    BY <1>3, <1>4, IdrAssumption
  <2>2. QED
    BY <1>4, <1>5, <1>6, <2>1 DEF AgentIInv, IdrTypeOK
<1>8. Partition(made, Queued, Hand, ToSet(wire), ToSet(buf), done, Firsts(lost))'
  <2>1. Queued' = Queued
    BY <1>6 DEF Queued
  <2>2. QED
    BY <1>1, <1>4, <1>5, <1>6, <2>1 DEF AgentIInv, Partition, Apart
<1>9. QED
  BY <1>4, <1>6, <1>7, <1>8 DEF AgentIInv, UpIsLive

LEMMA SendFailsInv == ASSUME AgentIInv, SendFails PROVE AgentIInv'
<1>1. held \in Readings /\ held # None /\ Hand = {held}
  BY DEF SendFails, AgentIInv, IdrTypeOK, Hand
<1>2. held \notin Queued /\ held \notin Firsts(lost)
  BY <1>1 DEF AgentIInv, Partition, Apart
<1>3. Push(held) /\ lost' = lost \cup Gone(Refused(held), "requeue") /\ "requeue" \in LossPlaces
  BY DEF SendFails, LossPlaces
<1>4. /\ q' \in Seq(Readings) /\ Len(q') <= QueueCap /\ NoDup(q')
      /\ lost' \in SUBSET (Readings \X LossPlaces) /\ OneLoss(lost')
      /\ \/ Queued' = Queued \cup {held} /\ Firsts(lost') = Firsts(lost)
         \/ Queued' = Queued /\ Firsts(lost') = Firsts(lost) \cup {held}
  BY <1>1, <1>2, <1>3, PushKeeps
<1>5. held' = None /\ Hand' = {} /\ pc' = "connect" /\ stream = "broken" /\ stream' = "none"
  BY DEF SendFails, Hand
<1>6. UNCHANGED <<made, damaged, wire, buf, done, hub, stopping, left>>
  BY DEF SendFails
<1>7. IdrTypeOK'
  BY <1>4, <1>5, <1>6 DEF AgentIInv, IdrTypeOK, LossPlaces
<1>8. Partition(made, Queued, Hand, ToSet(wire), ToSet(buf), done, Firsts(lost))'
  BY <1>1, <1>4, <1>5, <1>6 DEF AgentIInv, Partition, Apart
<1>9. QED
  BY <1>4, <1>5, <1>6, <1>7, <1>8 DEF AgentIInv, UpIsLive

-----------------------------------------------------------------------------
(* The hub's end of the stream.                                            *)

LEMMA SubmitKeeps ==
  ASSUME NEW ps \in SUBSET Readings, NEW others, NEW budget \in [Bounds -> Nat],
         done \in SUBSET Readings, Submit(ps, others, budget),
         lost \cup others \in SUBSET (Readings \X LossPlaces), OneLoss(lost \cup others),
         ps \cap Firsts(lost \cup others) = {}
  PROVE  /\ left' \in [Bounds -> Nat] /\ done' \in SUBSET Readings
         /\ lost' \in SUBSET (Readings \X LossPlaces) /\ OneLoss(lost')
         /\ \/ done' = done \cup ps /\ Firsts(lost') = Firsts(lost \cup others)
            \/ done' = done /\ Firsts(lost') = Firsts(lost \cup others) \cup ps
<1> DEFINE L == lost \cup others
           M == L \cup Gone(ps, "pipeline")
<1>1. CASE done' = done \cup ps /\ lost' = L /\ left' = budget
  BY <1>1
<1>2. CASE /\ budget["rejects"] > 0 /\ done' = done /\ lost' = M
           /\ left' = [budget EXCEPT !["rejects"] = @ - 1]
  <2>1. left' \in [Bounds -> Nat]
    BY <1>2 DEF Bounds
  <2>2. M \in SUBSET (Readings \X LossPlaces) /\ OneLoss(M) /\ Firsts(M) = Firsts(L) \cup ps
    <3>1. "pipeline" \in LossPlaces
      BY DEF LossPlaces
    <3> HIDE DEF L
    <3>2. QED
      BY <3>1, GoneAdds DEF L
  <2>3. QED
    BY <1>2, <2>1, <2>2
<1>3. QED
  BY <1>1, <1>2 DEF Submit

\* The stream ends: the transport's packets are lost, PushStream's buffer is submitted.
LEMMA EndStreamKeeps ==
  ASSUME AgentIInv, NEW bound \in Bounds, NEW H \in SUBSET Hand, EndStream(bound, Gone(H, "held"))
  PROVE  /\ wire' = <<>> /\ buf' = <<>>
         /\ left' \in [Bounds -> Nat] /\ done' \in SUBSET Readings
         /\ lost' \in SUBSET (Readings \X LossPlaces) /\ OneLoss(lost')
         /\ \/ /\ done' = done \cup ToSet(buf)
               /\ Firsts(lost') = Firsts(lost) \cup H \cup ToSet(wire)
            \/ /\ done' = done
               /\ Firsts(lost') = Firsts(lost) \cup H \cup ToSet(wire) \cup ToSet(buf)
<1> DEFINE W == ToSet(wire)
           B == ToSet(buf)
           L1 == lost \cup Gone(H, "held")
           others == Gone(H, "held") \cup Gone(W, "wire")
           L2 == L1 \cup Gone(W, "wire")
           budget == [left EXCEPT ![bound] = @ - 1]
<1>1. /\ W \in SUBSET Readings /\ B \in SUBSET Readings /\ Hand \in SUBSET Readings
      /\ done \in SUBSET Readings
      /\ lost \in SUBSET (Readings \X LossPlaces) /\ OneLoss(lost)
      /\ left \in [Bounds -> Nat]
  BY Facts
<1>2. Apart(Queued, Hand, W, B, done, Firsts(lost))
  BY Facts
<1>3. H \cap Firsts(lost) = {} /\ W \cap (Firsts(lost) \cup H) = {}
      /\ B \cap (Firsts(lost) \cup H \cup W) = {}
  BY <1>2 DEF Apart
<1>4. budget \in [Bounds -> Nat]
  BY <1>1 DEF EndStream
<1>5. "held" \in LossPlaces /\ "wire" \in LossPlaces
  BY DEF LossPlaces
<1>6. wire' = <<>> /\ buf' = <<>> /\ Submit(B, others, budget)
  BY DEF EndStream
<1> HIDE DEF W, B, budget
<1>7. /\ L1 \in SUBSET (Readings \X LossPlaces) /\ OneLoss(L1)
      /\ Firsts(L1) = Firsts(lost) \cup H
  BY <1>1, <1>3, <1>5, GoneAdds
<1> HIDE DEF L1
<1>8. /\ L2 \in SUBSET (Readings \X LossPlaces) /\ OneLoss(L2)
      /\ Firsts(L2) = Firsts(lost) \cup H \cup W
  <2>1. W \cap Firsts(L1) = {}
    BY <1>3, <1>7
  <2>2. /\ L2 \in SUBSET (Readings \X LossPlaces) /\ OneLoss(L2)
        /\ Firsts(L2) = Firsts(L1) \cup W
    <3>1. PICK place \in LossPlaces : place = "wire"
      BY <1>5
    <3>2. /\ L1 \cup Gone(W, place) \in SUBSET (Readings \X LossPlaces)
          /\ OneLoss(L1 \cup Gone(W, place))
          /\ Firsts(L1 \cup Gone(W, place)) = Firsts(L1) \cup W
      BY ONLY <1>1, <1>7, <2>1, <3>1, GoneAdds
    <3>3. QED
      BY <3>1, <3>2
  <2>3. QED
    BY <1>7, <2>2
<1>9. L2 = lost \cup others
  BY DEF L1
<1> HIDE DEF L2, others
<1>10. /\ lost \cup others \in SUBSET (Readings \X LossPlaces) /\ OneLoss(lost \cup others)
       /\ Firsts(lost \cup others) = Firsts(lost) \cup H \cup W
  BY <1>8, <1>9
<1>11. B \cap Firsts(lost \cup others) = {}
  BY <1>3, <1>10
<1>12. /\ left' \in [Bounds -> Nat] /\ done' \in SUBSET Readings
       /\ lost' \in SUBSET (Readings \X LossPlaces) /\ OneLoss(lost')
       /\ \/ done' = done \cup B /\ Firsts(lost') = Firsts(lost \cup others)
          \/ done' = done /\ Firsts(lost') = Firsts(lost \cup others) \cup B
  BY <1>1, <1>4, <1>6, <1>10, <1>11, SubmitKeeps
<1>13. QED
  BY <1>6, <1>10, <1>12 DEF W, B

\* The type of a state whose stream has ended.
LEMMA EndedTypes == <<>> \in Seq(Readings) /\ Len(<<>>) <= MaxWire /\ Len(<<>>) < FlushAt
                    /\ <<>> \o <<>> = <<>>
BY IdrAssumption

LEMMA BreakInv == ASSUME AgentIInv, StreamBreaks \/ Cancel PROVE AgentIInv'
<1>1. PICK bound \in Bounds : EndStream(bound, {})
  BY DEF StreamBreaks, Cancel, Bounds
<1>2. {} = Gone({}, "held") /\ {} \in SUBSET Hand
  BY DEF Gone
<1>3. EndStream(bound, Gone({}, "held"))
  BY <1>1, <1>2
<1>4. /\ wire' = <<>> /\ buf' = <<>>
      /\ left' \in [Bounds -> Nat] /\ done' \in SUBSET Readings
      /\ lost' \in SUBSET (Readings \X LossPlaces) /\ OneLoss(lost')
      /\ \/ /\ done' = done \cup ToSet(buf)
            /\ Firsts(lost') = Firsts(lost) \cup {} \cup ToSet(wire)
         \/ /\ done' = done
            /\ Firsts(lost') = Firsts(lost) \cup {} \cup ToSet(wire) \cup ToSet(buf)
  BY <1>2, <1>3, EndStreamKeeps
<1>5. UNCHANGED <<made, q, damaged, pc, held, hub>>
  BY DEF StreamBreaks, Cancel
<1>6. /\ stopping' \in BOOLEAN
      /\ stream' \in {"none", "broken"} /\ (stream' # "none" => stream # "none")
  BY DEF StreamBreaks, Cancel, Broken, AgentIInv, IdrTypeOK
<1>7. IdrTypeOK'
  BY <1>4, <1>5, <1>6, EndedTypes DEF AgentIInv, IdrTypeOK, LossPlaces
<1>8. ToSet(wire') = {} /\ ToSet(buf') = {} /\ NoDup(wire') /\ NoDup(buf')
  BY <1>4, EmptyElems
<1>9. Partition(made, Queued, Hand, ToSet(wire), ToSet(buf), done, Firsts(lost))'
  <2>1. Queued' = Queued /\ Hand' = Hand
    BY <1>5 DEF Queued, Hand
  <2>2. QED
    BY <1>4, <1>5, <1>8, <2>1 DEF AgentIInv, Partition, Apart
<1>10. QED
  BY <1>4, <1>5, <1>6, <1>7, <1>8, <1>9 DEF AgentIInv, UpIsLive

LEMMA CrashInv == ASSUME AgentIInv, Kill PROVE AgentIInv'
<1>1. EndStream("stops", Gone(Hand, "held")) /\ "stops" \in Bounds
  BY DEF Kill, Hand, Bounds
<1>2. /\ wire' = <<>> /\ buf' = <<>>
      /\ left' \in [Bounds -> Nat] /\ done' \in SUBSET Readings
      /\ lost' \in SUBSET (Readings \X LossPlaces) /\ OneLoss(lost')
      /\ \/ /\ done' = done \cup ToSet(buf)
            /\ Firsts(lost') = Firsts(lost) \cup Hand \cup ToSet(wire)
         \/ /\ done' = done
            /\ Firsts(lost') = Firsts(lost) \cup Hand \cup ToSet(wire) \cup ToSet(buf)
  <2>1. Hand \in SUBSET Hand
    OBVIOUS
  <2>2. QED
    BY <1>1, <2>1, EndStreamKeeps
<1>3. UNCHANGED <<made, q, damaged, hub, stopping>>
  BY DEF Kill
<1>4. pc' = "off" /\ held' = None /\ Hand' = {} /\ stream' = "none"
  BY DEF Kill, Hand
<1>5. IdrTypeOK'
  BY <1>2, <1>3, <1>4, EndedTypes DEF AgentIInv, IdrTypeOK, LossPlaces
<1>6. ToSet(wire') = {} /\ ToSet(buf') = {} /\ NoDup(wire') /\ NoDup(buf')
  BY <1>2, EmptyElems
<1>7. Partition(made, Queued, Hand, ToSet(wire), ToSet(buf), done, Firsts(lost))'
  <2>1. Queued' = Queued
    BY <1>3 DEF Queued
  <2>2. QED
    BY <1>2, <1>3, <1>4, <1>6, <2>1 DEF AgentIInv, Partition, Apart
<1>8. QED
  BY <1>2, <1>3, <1>4, <1>5, <1>6, <1>7 DEF AgentIInv, UpIsLive

LEMMA HubFailsInv == ASSUME AgentIInv, HubFails PROVE AgentIInv'
<1> DEFINE W == ToSet(wire)
           B == ToSet(buf)
           L == lost \cup Gone(W, "wire")
           M == L \cup Gone(B, "hub")
<1>1. /\ W \in SUBSET Readings /\ B \in SUBSET Readings
      /\ lost \in SUBSET (Readings \X LossPlaces) /\ OneLoss(lost)
      /\ left \in [Bounds -> Nat]
  BY Facts
<1>2. W \cap Firsts(lost) = {} /\ B \cap (Firsts(lost) \cup W) = {}
  BY Facts DEF Apart
<1>3. "wire" \in LossPlaces /\ "hub" \in LossPlaces
  BY DEF LossPlaces
<1>4. /\ lost' = M /\ wire' = <<>> /\ buf' = <<>> /\ stream' = Broken /\ hub' = FALSE
      /\ UNCHANGED <<made, q, damaged, pc, held, done, stopping>>
  BY DEF HubFails
<1>5. left' \in [Bounds -> Nat]
  BY <1>1 DEF HubFails, Use, Bounds
<1> HIDE DEF W, B
<1>6. /\ L \in SUBSET (Readings \X LossPlaces) /\ OneLoss(L) /\ Firsts(L) = Firsts(lost) \cup W
  BY <1>1, <1>2, <1>3, GoneAdds
<1>7. B \cap Firsts(L) = {}
  BY <1>2, <1>6
<1> HIDE DEF L
<1>8. /\ M \in SUBSET (Readings \X LossPlaces) /\ OneLoss(M) /\ Firsts(M) = Firsts(L) \cup B
  <2>1. PICK place \in LossPlaces : place = "hub"
    BY <1>3
  <2>2. PICK K : K = L
    OBVIOUS
  <2>3. K \in SUBSET (Readings \X LossPlaces) /\ OneLoss(K) /\ B \cap Firsts(K) = {}
    BY <1>6, <1>7, <2>2
  <2>4. /\ K \cup Gone(B, place) \in SUBSET (Readings \X LossPlaces)
        /\ OneLoss(K \cup Gone(B, place)) /\ Firsts(K \cup Gone(B, place)) = Firsts(K) \cup B
    BY ONLY <1>1, <2>3, <2>1, GoneAdds
  <2>5. M = K \cup Gone(B, place)
    BY <2>1, <2>2
  <2> HIDE DEF M
  <2>6. QED
    BY <2>2, <2>4, <2>5
<1>9. /\ lost' \in SUBSET (Readings \X LossPlaces) /\ OneLoss(lost')
      /\ Firsts(lost') = Firsts(lost) \cup W \cup B
  BY <1>4, <1>6, <1>8
<1> HIDE DEF M
<1>10. stream' \in {"none", "broken"} /\ (stream' # "none" => stream # "none")
  BY <1>4 DEF Broken, AgentIInv, IdrTypeOK
<1>11. IdrTypeOK'
  BY <1>4, <1>5, <1>9, <1>10, EndedTypes DEF AgentIInv, IdrTypeOK, LossPlaces
<1>12. ToSet(wire') = {} /\ ToSet(buf') = {} /\ NoDup(wire') /\ NoDup(buf')
  BY <1>4, EmptyElems
<1>13. Partition(made, Queued, Hand, ToSet(wire), ToSet(buf), done, Firsts(lost))'
  <2>1. Queued' = Queued /\ Hand' = Hand
    BY <1>4 DEF Queued, Hand
  <2>2. QED
    BY <1>4, <1>9, <1>12, <2>1 DEF AgentIInv, Partition, Apart, W, B
<1>14. QED
  BY <1>4, <1>9, <1>10, <1>11, <1>12, <1>13 DEF AgentIInv, UpIsLive

\* PushStream takes a packet and hands its buffer on when it is full.
LEMMA ReceiveInv == ASSUME AgentIInv, Receive PROVE AgentIInv'
<1> DEFINE h == Head(wire)
           b == Append(buf, h)
<1>1. /\ wire \in Seq(Readings) /\ wire # <<>> /\ NoDup(wire)
      /\ Len(wire) \in Nat /\ Len(wire) <= MaxWire
      /\ buf \in Seq(Readings) /\ NoDup(buf) /\ Len(buf) \in Nat
  BY LenProperties DEF Receive, AgentIInv, IdrTypeOK
<1>2. /\ wire' \in Seq(Readings) /\ Len(wire') = Len(wire) - 1 /\ NoDup(wire')
      /\ h \in Readings /\ h \in ToSet(wire) /\ ToSet(wire') = ToSet(wire) \ {h}
  BY <1>1, TailElems DEF Receive
<1>3. /\ stream = "up"
      /\ UNCHANGED <<made, q, damaged, pc, held, stream, hub, stopping>>
  BY DEF Receive
<1>4. \/ Len(b) < FlushAt /\ buf' = b /\ UNCHANGED <<done, lost, left>>
      \/ buf' = <<>> /\ Submit(ToSet(b), {}, left)
  BY DEF Receive
<1> HIDE DEF h
<1>5. h \notin ToSet(buf)
  BY <1>2, Facts DEF Apart
<1>6. b \in Seq(Readings) /\ NoDup(b) /\ ToSet(b) = ToSet(buf) \cup {h}
  BY <1>1, <1>2, <1>5, AppendElems
<1> HIDE DEF b
<1>7. Len(wire') <= MaxWire
  BY <1>1, <1>2, IdrAssumption
<1>8. Queued' = Queued /\ Hand' = Hand
  BY <1>3 DEF Queued, Hand
<1>9. CASE Len(b) < FlushAt /\ buf' = b /\ UNCHANGED <<done, lost, left>>
  <2>1. IdrTypeOK'
    BY <1>2, <1>3, <1>6, <1>7, <1>9 DEF AgentIInv, IdrTypeOK
  <2>2. ToSet(buf') = ToSet(buf) \cup {h}
    BY <1>6, <1>9
  <2>3. Partition(made, Queued, Hand, ToSet(wire), ToSet(buf), done, Firsts(lost))'
    BY <1>2, <1>3, <1>8, <1>9, <2>2 DEF AgentIInv, Partition, Apart
  <2>4. QED
    BY <1>2, <1>3, <1>6, <1>9, <2>1, <2>3 DEF AgentIInv, UpIsLive
<1>10. CASE buf' = <<>> /\ Submit(ToSet(b), {}, left)
  <2> DEFINE ps == ToSet(b)
  <2>1. ps \in SUBSET Readings /\ ps = ToSet(buf) \cup {h}
    BY <1>6, ElemsTyped
  <2>2. /\ lost \cup {} = lost /\ lost \in SUBSET (Readings \X LossPlaces) /\ OneLoss(lost)
        /\ left \in [Bounds -> Nat] /\ done \in SUBSET Readings
    BY Facts
  <2>3. ps \cap Firsts(lost) = {}
    BY <1>2, <2>1, Facts DEF Apart
  <2>4. Submit(ps, {}, left)
    BY <1>10
  <2> HIDE DEF ps
  <2>5. /\ left' \in [Bounds -> Nat] /\ done' \in SUBSET Readings
        /\ lost' \in SUBSET (Readings \X LossPlaces) /\ OneLoss(lost')
        /\ \/ done' = done \cup ps /\ Firsts(lost') = Firsts(lost \cup {})
           \/ done' = done /\ Firsts(lost') = Firsts(lost \cup {}) \cup ps
    <3>1. /\ lost \cup {} \in SUBSET (Readings \X LossPlaces) /\ OneLoss(lost \cup {})
          /\ ps \cap Firsts(lost \cup {}) = {}
      BY <2>2, <2>3
    <3>2. QED
      BY <2>1, <2>2, <2>4, <3>1, SubmitKeeps
  <2>6. ToSet(buf') = {} /\ NoDup(buf')
    BY <1>10, EmptyElems
  <2>7. IdrTypeOK'
    BY <1>2, <1>3, <1>7, <1>10, <2>5, EndedTypes DEF AgentIInv, IdrTypeOK, LossPlaces
  <2>8. Partition(made, Queued, Hand, ToSet(wire), ToSet(buf), done, Firsts(lost))'
    BY <1>2, <1>3, <1>8, <2>1, <2>2, <2>5, <2>6 DEF AgentIInv, Partition, Apart
  <2>9. QED
    BY <1>2, <1>3, <2>5, <2>6, <2>7, <2>8 DEF AgentIInv, UpIsLive
<1>11. QED
  BY <1>4, <1>9, <1>10

-----------------------------------------------------------------------------
(* The theorems.                                                           *)

LEMMA NextInv == ASSUME AgentIInv, [IdrNext]_idrVars PROVE AgentIInv'
<1>1. CASE Collect
  BY <1>1, CollectInv
<1>2. CASE Publisher
  BY <1>2, QuietInv, AgentPopInv, SendInv, SendFailsInv DEF Publisher
<1>3. CASE Receive
  BY <1>3, ReceiveInv
<1>4. CASE StreamBreaks \/ Cancel
  BY <1>4, BreakInv
<1>5. CASE HubFails
  BY <1>5, HubFailsInv
<1>6. CASE Kill
  BY <1>6, CrashInv
<1>7. CASE Damage \/ HubReturns \/ Restart
  BY <1>7, QuietInv
<1>8. CASE UNCHANGED idrVars
  BY <1>8 DEF idrVars, AgentIInv, IdrTypeOK, UpIsLive, Queued, Hand
<1>9. QED
  BY <1>1, <1>2, <1>3, <1>4, <1>5, <1>6, <1>7, <1>8 DEF IdrNext

\* The six places partition the packets made, and none holds a packet twice, in every
\* reachable state of the agent, its stream and PushStream.
THEOREM IdrInvariant == IdrSpec => []AgentIInv
<1>1. IdrInit => AgentIInv
  BY InitInv
<1>2. AgentIInv /\ [IdrNext]_idrVars => AgentIInv'
  BY NextInv
<1>3. QED
  BY <1>1, <1>2, PTL DEF IdrSpec

\* The elements of a tuple of six.
LEMMA SixElems == \A a, b, c, d, e, f : ToSet(<<a, b, c, d, e, f>>) = {a, b, c, d, e, f}
<1> SUFFICES ASSUME NEW a, NEW b, NEW c, NEW d, NEW e, NEW f
             PROVE  ToSet(<<a, b, c, d, e, f>>) = {a, b, c, d, e, f}
  OBVIOUS
<1> DEFINE t == <<a, b, c, d, e, f>>
<1>1. DOMAIN t = {1, 2, 3, 4, 5, 6}
  OBVIOUS
<1>2. t[1] = a /\ t[2] = b /\ t[3] = c /\ t[4] = d /\ t[5] = e /\ t[6] = f
  OBVIOUS
<1> HIDE DEF t
<1>3. {t[i] : i \in DOMAIN t} = {a, b, c, d, e, f}
  BY <1>1, <1>2
<1>4. QED
  BY <1>3 DEF ToSet, t

\* The counts of InOnePlace follow from the absence of duplicates.
LEMMA CountsFollow == ASSUME AgentIInv PROVE PacketsAccounted
<1>1. Apart(Queued, Hand, ToSet(wire), ToSet(buf), done, Firsts(lost))
  BY Facts
<1>2. Places = <<Queued, Hand, ToSet(wire), ToSet(buf), done, Firsts(lost)>>
  BY DEF Places, LostOnes, Firsts, Hand
<1>3. UNION ToSet(Places) = 1..made
  <2>1. ToSet(Places) = {Queued, Hand, ToSet(wire), ToSet(buf), done, Firsts(lost)}
    BY <1>2, SixElems
  <2>2. UNION ToSet(Places) = Queued \cup Hand \cup ToSet(wire) \cup ToSet(buf) \cup done \cup Firsts(lost)
    BY <2>1
  <2>3. QED
    BY <2>2 DEF AgentIInv, Partition
<1>4. \A i, j \in DOMAIN Places : i # j => Places[i] \cap Places[j] = {}
  BY <1>1, <1>2 DEF Apart
<1>5. \A s \in {q, wire, buf} : Len(s) = Cardinality(ToSet(s))
  BY NoDupCardinality, Facts DEF AgentIInv
<1>6. Cardinality(lost) = Cardinality(LostOnes)
  BY LossesCounted, Facts DEF LostOnes, Firsts
<1>7. QED
  BY <1>3, <1>4, <1>5, <1>6 DEF PacketsAccounted, InOnePlace, AgentIInv

\* Through requeues, broken streams, outages, stops and crashes a packet of the host
\* agent is in one of the queue, the publisher's hand, the transport, PushStream's
\* buffer, the pipeline and the losses, and in only one of them.
THEOREM IdrPacketsAccounted == IdrSpec => []PacketsAccounted
<1>1. AgentIInv => PacketsAccounted
  BY CountsFollow
<1>2. QED
  BY <1>1, IdrInvariant, PTL

-----------------------------------------------------------------------------
(* An outage.                                                              *)

KeepsQueue ==
  (~hub /\ ~hub' /\ pc' # "off") =>
    (Queued \cup Hand) \subseteq
       (Queued' \cup Hand' \cup {l[1] : l \in {x \in lost' : x[2] = "requeue"}})

\* A push keeps what is queued.
LEMMA PushKeepsQueued ==
  ASSUME AgentIInv, NEW p \in Readings, Push(p)
  PROVE  Queued \subseteq Queued' /\ (p \in Queued' \/ Full)
<1>1. q \in Seq(Readings)
  BY DEF AgentIInv, IdrTypeOK
<1>2. CASE Full
  BY <1>2 DEF Push, Queued
<1>3. CASE ~Full
  BY <1>1, <1>3, AppendElems DEF Push, Queued
<1>4. QED
  BY <1>2, <1>3

LEMMA OutageStep == ASSUME AgentIInv, [IdrNext]_idrVars PROVE KeepsQueue
<1> SUFFICES ASSUME ~hub, ~hub', pc' # "off"
             PROVE  \A x \in Queued \cup Hand :
                      \/ x \in Queued' \cup Hand'
                      \/ \E l \in lost' : l[2] = "requeue" /\ l[1] = x
  BY DEF KeepsQueue
<1>1. CASE Collect
  <2>1. made + 1 \in Readings /\ Push(made + 1) /\ Hand' = Hand
    BY <1>1, IdrAssumption DEF Collect, AgentIInv, IdrTypeOK, Readings, Hand
  <2>2. QED
    BY <2>1, PushKeepsQueued
<1>2. CASE Pop
  <2>1. q \in Seq(Readings) /\ q # <<>> /\ NoDup(q)
    BY <1>2 DEF Pop, AgentIInv, IdrTypeOK
  <2>2. Head(q) \in Readings /\ Queued' = Queued \ {Head(q)}
    BY <1>2, <2>1, TailElems DEF Pop, Queued
  <2>3. Hand = {} /\ Hand' = {Head(q)}
    BY <1>2, <2>2 DEF Hand, Pop, AgentIInv, IdrTypeOK, Readings, None
  <2>4. QED
    BY <2>2, <2>3
<1>3. CASE SendFails
  <2>1. held \in Readings /\ Hand = {held} /\ Push(held)
    BY <1>3 DEF SendFails, AgentIInv, IdrTypeOK, Hand
  <2>2. Queued \subseteq Queued' /\ (held \in Queued' \/ Full)
    BY <2>1, PushKeepsQueued
  <2>3. ASSUME Full PROVE \E l \in lost' : l[2] = "requeue" /\ l[1] = held
    <3>1. <<held, "requeue">> \in lost'
      BY <1>3, <2>3 DEF SendFails, Refused, Gone
    <3>2. <<held, "requeue">>[2] = "requeue" /\ <<held, "requeue">>[1] = held
      OBVIOUS
    <3>3. QED
      BY <3>1, <3>2
  <2>4. QED
    BY <2>1, <2>2, <2>3
<1>4. CASE UNCHANGED <<q, held>>
  BY <1>4 DEF Queued, Hand
<1>5. ~Send
  BY DEF Send, AgentIInv, UpIsLive
<1>6. ASSUME ~Collect, ~Pop, ~SendFails PROVE UNCHANGED <<q, held>>
  BY <1>5, <1>6 DEF IdrNext, Publisher, Connect, OpenStream, OpenFails, Exit, Receive, Damage,
       StreamBreaks, HubFails, HubReturns, Cancel, Kill, Restart, idrVars
<1>7. QED
  BY <1>1, <1>2, <1>3, <1>4, <1>6

\* While the hub is away the disk keeps its packets: what a step takes off the queue is
\* in the publisher's hand, and what leaves the hand is queued again or, when the queue
\* is full, lost as a requeue.
THEOREM IdrOutageKeepsQueue == IdrSpec => OutageKeepsQueue
<1>1. AgentIInv /\ [IdrNext]_idrVars => [KeepsQueue]_idrVars
  BY OutageStep
<1>2. KeepsQueue =>
        ((~hub /\ ~hub' /\ pc' # "off") =>
           (Queued \cup ({held} \ {None})) \subseteq
              (Queued' \cup ({held'} \ {None}) \cup {l[1] : l \in {x \in lost' : x[2] = "requeue"}}))
  BY DEF KeepsQueue, Hand
<1>3. QED
  BY <1>1, <1>2, IdrInvariant, PTL DEF IdrSpec, OutageKeepsQueue
=============================================================================
