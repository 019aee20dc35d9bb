---------------------------- MODULE IngestProofs ----------------------------
(***************************************************************************)
(* Proofs about the hub's ingest pipeline, for every number of packets,    *)
(* workers, channel and buffer sizes and every width of the depth counter: *)
(* what Submit accepted is held or settled exactly once, the reported      *)
(* depth agrees with the channel, settled rows are stored but for the      *)
(* packets the code turns away, and an event is stored once in each window *)
(* of its Redis key as long as Redis answers.                              *)
(***************************************************************************)
EXTENDS Ingest, SequenceTheorems, FiniteSetTheorems, TLAPS

-----------------------------------------------------------------------------
(* Counting.                                                               *)

One(b) == IF b THEN 1 ELSE 0

LEMMA IndexSet ==
  ASSUME NEW n \in Nat, NEW A \in SUBSET (1..n)
  PROVE  IsFiniteSet(A) /\ Cardinality(A) \in Nat
<1>1. IsFiniteSet(1..n)
  BY FS_Interval
<1>2. IsFiniteSet(A)
  BY <1>1, FS_Subset
<1>3. QED
  BY <1>2, FS_CardinalityType

\* The indices of A moved down by one.
LEMMA ShiftCardinality ==
  ASSUME NEW n \in Nat, n > 0, NEW A \in SUBSET (1..n)
  PROVE  /\ Cardinality(A) \in Nat
         /\ Cardinality({i \in 1..(n - 1) : i + 1 \in A}) \in Nat
         /\ Cardinality(A) = Cardinality({i \in 1..(n - 1) : i + 1 \in A}) + One(1 \in A)
<1> DEFINE B == {i \in 1..(n - 1) : i + 1 \in A}
           f == [i \in A \ {1} |-> i - 1]
<1>1. IsFiniteSet(A)
  BY IndexSet
<1>2. Cardinality(A \ {1}) = IF 1 \in A THEN Cardinality(A) - 1 ELSE Cardinality(A)
  BY <1>1, FS_RemoveElement
<1>3. IsFiniteSet(A \ {1})
  BY <1>1, FS_RemoveElement
<1>4. f \in Bijection(A \ {1}, B)
  <2>1. f \in [A \ {1} -> B]
    OBVIOUS
  <2>2. \A i, j \in A \ {1} : f[i] = f[j] => i = j
    OBVIOUS
  <2>3. \A k \in B : k + 1 \in A \ {1} /\ f[k + 1] = k
    OBVIOUS
  <2>4. QED
    BY <2>1, <2>2, <2>3 DEF Bijection, Injection, Surjection, IsInjective
<1>5. Cardinality(B) = Cardinality(A \ {1})
  BY <1>3, <1>4, FS_Bijection DEF ExistsBijection
<1>6. Cardinality(A) \in Nat /\ Cardinality(A \ {1}) \in Nat
  BY <1>1, <1>3, FS_CardinalityType
<1>7. QED
  BY <1>2, <1>5, <1>6 DEF One

\* A last index more.
LEMMA GrowCardinality ==
  ASSUME NEW n \in Nat, NEW A \in SUBSET (1..n), NEW B \in SUBSET (1..(n + 1)),
         \A i \in 1..n : (i \in A) = (i \in B)
  PROVE  /\ Cardinality(A) \in Nat
         /\ Cardinality(B) = Cardinality(A) + One(n + 1 \in B)
<1>1. IsFiniteSet(A) /\ Cardinality(A) \in Nat
  BY IndexSet
<1>4. \A i \in B : i \in 1..n \/ i = n + 1
  OBVIOUS
<1>5. \A i \in A : i \in 1..n /\ i # n + 1
  OBVIOUS
<1>2. CASE n + 1 \in B
  <2>1. B = A \cup {n + 1} /\ n + 1 \notin A
    <3>1. \A i \in B : i \in A \cup {n + 1}
      BY <1>4
    <3>2. \A i \in A : i \in B
      BY <1>5
    <3>3. QED
      BY <1>2, <1>5, <3>1, <3>2
  <2>2. QED
    BY <1>1, <1>2, <2>1, FS_AddElement DEF One
<1>3. CASE n + 1 \notin B
  <2>1. B = A
    <3>1. \A i \in B : i \in A
      BY <1>3, <1>4
    <3>2. \A i \in A : i \in B
      BY <1>5
    <3>3. QED
      BY <3>1, <3>2
  <2>2. QED
    BY <1>1, <1>3, <2>1 DEF One
<1>6. QED
  BY <1>2, <1>3

LEMMA CountEmpty == ASSUME NEW p PROVE Count(<<>>, p) = 0
<1>1. {i \in DOMAIN <<>> : <<>>[i] = p} = {}
  OBVIOUS
<1>2. QED
  BY <1>1, FS_EmptySet DEF Count

LEMMA CountAppend ==
  ASSUME NEW S, NEW s \in Seq(S), NEW e \in S, NEW p
  PROVE  Count(s, p) \in Nat /\ Count(Append(s, e), p) = Count(s, p) + One(e = p)
<1> DEFINE n == Len(s)
           t == Append(s, e)
           A == {i \in DOMAIN s : s[i] = p}
           B == {i \in DOMAIN t : t[i] = p}
<1>1. /\ n \in Nat /\ DOMAIN s = 1..n /\ DOMAIN t = 1..(n + 1)
      /\ \A i \in 1..n : t[i] = s[i]
      /\ t[n + 1] = e
  BY AppendProperties, LenProperties
<1> HIDE DEF n, t
<1>2. /\ A \in SUBSET (1..n) /\ B \in SUBSET (1..(n + 1))
      /\ \A i \in 1..n : (i \in A) = (i \in B)
      /\ (n + 1 \in B) = (e = p)
  BY <1>1
<1> HIDE DEF A, B
<1>3. Cardinality(A) \in Nat /\ Cardinality(B) = Cardinality(A) + One(n + 1 \in B)
  BY <1>1, <1>2, GrowCardinality
<1>4. One(n + 1 \in B) = One(e = p)
  BY <1>2
<1>5. QED
  BY <1>3, <1>4 DEF Count, A, B, t

LEMMA CountTail ==
  ASSUME NEW S, NEW s \in Seq(S), s # <<>>, NEW p
  PROVE  /\ Count(s, p) \in Nat /\ Count(Tail(s), p) \in Nat
         /\ Count(s, p) = Count(Tail(s), p) + One(Head(s) = p)
<1> DEFINE n == Len(s)
           t == Tail(s)
           h == Head(s)
           A == {i \in DOMAIN s : s[i] = p}
           B == {i \in DOMAIN t : t[i] = p}
<1>1. /\ n \in Nat /\ n > 0 /\ DOMAIN s = 1..n /\ DOMAIN t = 1..(n - 1)
      /\ \A i \in 1..(n - 1) : t[i] = s[i + 1]
      /\ h = s[1]
  BY HeadTailProperties, LenProperties, EmptySeq
<1> HIDE DEF n, t, h
<1>2. A \in SUBSET (1..n) /\ B = {i \in 1..(n - 1) : i + 1 \in A} /\ (1 \in A) = (h = p)
  BY <1>1
<1> HIDE DEF A, B
<1>3. /\ Cardinality(A) \in Nat /\ Cardinality(B) \in Nat
      /\ Cardinality(A) = Cardinality(B) + One(1 \in A)
  BY <1>1, <1>2, ShiftCardinality
<1>4. One(1 \in A) = One(h = p)
  BY <1>2
<1>5. QED
  BY <1>3, <1>4 DEF Count, A, B, t, h

LEMMA CountPositive ==
  ASSUME NEW S, NEW s \in Seq(S), NEW p
  PROVE  Count(s, p) \in Nat /\ (Count(s, p) > 0 => p \in Elems(s))
<1> DEFINE A == {i \in DOMAIN s : s[i] = p}
<1>1. Len(s) \in Nat /\ DOMAIN s = 1..Len(s)
  BY LenProperties
<1>2. IsFiniteSet(A)
  BY <1>1, IndexSet
<1>3. Cardinality(A) \in Nat /\ (Cardinality(A) > 0 => A # {})
  BY <1>2, FS_CardinalityType, FS_EmptySet
<1>4. A # {} => p \in Elems(s)
  BY DEF Elems
<1>5. QED
  BY <1>3, <1>4 DEF Count

\* A batch holds a packet at most once.
LEMMA CountBatch ==
  ASSUME NEW b \in Batches, NEW p
  PROVE  /\ b \in Seq(Packets) /\ b # <<>> /\ Len(b) <= MaxBatch
         /\ Count(b, p) = One(p \in Elems(b))
<1>1. PICK n \in 1..MaxBatch : b \in [1..n -> Packets]
  BY DEF Batches
<1>2. n \in Nat /\ n > 0 /\ n <= MaxBatch
  BY IngestAssumption
<1>3. b \in Seq(Packets) /\ Len(b) = n /\ b # <<>>
  BY <1>1, <1>2
<1>4. \A i, j \in DOMAIN b : b[i] = b[j] => i = j
  BY DEF Batches
<1> DEFINE A == {i \in DOMAIN b : b[i] = p}
<1>5. CASE p \in Elems(b)
  <2>1. PICK k \in DOMAIN b : b[k] = p
    BY <1>5 DEF Elems
  <2>2. A = {k}
    BY <1>4, <2>1
  <2>3. QED
    BY <1>2, <1>3, <1>5, <2>2, FS_Singleton DEF Count, One
<1>6. CASE p \notin Elems(b)
  <2>1. A = {}
    BY <1>6 DEF Elems
  <2>2. QED
    BY <1>2, <1>3, <1>6, <2>1, FS_EmptySet DEF Count, One
<1>7. QED
  BY <1>5, <1>6

Others(f, n, w, p) == Cardinality({x \in Spots(f, n, p) : x[1] # w})

\* The places of p in the workers' sequences are those of one worker and of the others.
LEMMA SpotsOf ==
  ASSUME NEW seqs, NEW n \in Nat, NEW w \in Workers, NEW S, seqs[w] \in Seq(S),
         Len(seqs[w]) <= n, NEW p
  PROVE  /\ Others(seqs, n, w, p) \in Nat
         /\ Cardinality(Spots(seqs, n, p)) = Count(seqs[w], p) + Others(seqs, n, w, p)
<1> DEFINE all  == Spots(seqs, n, p)
           rest == {x \in all : x[1] # w}
           mine == {x \in all : x[1] = w}
           A    == {i \in DOMAIN seqs[w] : seqs[w][i] = p}
           f    == [i \in A |-> <<w, i>>]
<1>1. Len(seqs[w]) \in Nat /\ DOMAIN seqs[w] = 1..Len(seqs[w])
  BY LenProperties
<1>2. IsFiniteSet(all)
  <2>4. IsFiniteSet(1..n) /\ IsFiniteSet(Workers)
    BY IngestAssumption, FS_Interval
  <2>1. IsFiniteSet(Workers \X (1..n))
    BY <2>4, FS_Product
  <2>2. all \subseteq Workers \X (1..n)
    BY DEF Spots
  <2>3. QED
    BY <2>1, <2>2, FS_Subset
<1>3. IsFiniteSet(rest) /\ IsFiniteSet(mine) /\ IsFiniteSet(A)
  <2>1. IsFiniteSet(A)
    BY <1>1, IndexSet
  <2>2. rest \in SUBSET all /\ mine \in SUBSET all
    OBVIOUS
  <2>3. QED
    BY <1>2, <2>1, <2>2, FS_Subset
<1>4. A \subseteq 1..n
  BY <1>1
<1>5. f \in Bijection(A, mine)
  <2>1. \A i \in A : <<w, i>> \in mine
    BY <1>1, <1>4 DEF Spots
  <2>2. \A x \in mine : x[2] \in A /\ x = <<w, x[2]>>
    BY DEF Spots
  <2>3. \A i, j \in A : <<w, i>> = <<w, j>> => i = j
    OBVIOUS
  <2> HIDE DEF A, mine
  <2>4. f \in [A -> mine] /\ (\A i, j \in A : f[i] = f[j] => i = j) /\ \A x \in mine : \E i \in A : f[i] = x
    BY <2>1, <2>2, <2>3
  <2>5. QED
    BY <2>4 DEF Bijection, Injection, Surjection, IsInjective
<1>6. Cardinality(mine) = Cardinality(A)
  BY <1>3, <1>5, FS_Bijection DEF ExistsBijection
<1>7. all = mine \cup rest /\ mine \cap rest = {}
  OBVIOUS
<1>8. /\ Cardinality(rest) \in Nat /\ Cardinality(mine) \in Nat /\ Cardinality({}) = 0
      /\ Cardinality(all) = Cardinality(mine) + Cardinality(rest) - Cardinality(mine \cap rest)
  <2> HIDE DEF all, mine, rest
  <2>1. Cardinality(mine \cup rest) = Cardinality(mine) + Cardinality(rest) - Cardinality(mine \cap rest)
    BY <1>3, FS_Union
  <2>2. QED
    BY <1>3, <1>7, <2>1, FS_CardinalityType, FS_EmptySet
<1> HIDE DEF A, mine, rest, all
<1>9. Cardinality(all) = Cardinality(A) + Cardinality(rest)
  <2>1. Cardinality(mine \cap rest) = 0
    BY <1>7, <1>8
  <2>2. QED
    BY <1>6, <1>8, <2>1
<1>10. QED
  BY <1>8, <1>9 DEF Count, Others, A, rest, all

-----------------------------------------------------------------------------
(* Arithmetic modulo the width of the depth counter.                       *)

LEMMA Euclid ==
  ASSUME NEW M \in Nat, M > 0, NEW a \in Int
  PROVE  a = M * (a \div M) + (a % M) /\ a % M \in 0..(M - 1) /\ a \div M \in Int
OBVIOUS

LEMMA RemainderUnique ==
  ASSUME NEW M \in Nat, M > 0, NEW a \in Int, NEW k \in Int, NEW r \in 0..(M - 1), a = M * k + r
  PROVE  a % M = r
<1> DEFINE k2 == a \div M
           r2 == a % M
<1>1. a = M * k2 + r2 /\ r2 \in 0..(M - 1) /\ k2 \in Int
  BY Euclid
<1> HIDE DEF k2, r2
<1> DEFINE e == k - k2
           d == r2 - r
<1>2. M * e = d /\ e \in Int /\ d \in Int /\ d < M /\ d > -M
  BY <1>1
<1> HIDE DEF e, d
<1>3. ~(e >= 1)
  <2>1. e >= 1 => M * e >= M
    BY <1>2
  <2>2. QED
    BY <1>2, <2>1
<1>4. ~(e <= -1)
  <2>1. e <= -1 => M * e <= -M
    BY <1>2
  <2>2. QED
    BY <1>2, <2>1
<1>5. e = 0
  BY <1>2, <1>3, <1>4
<1>6. d = 0
  BY <1>2, <1>5
<1>7. QED
  BY <1>1, <1>6 DEF d, r2

LEMMA AddModulus ==
  ASSUME NEW M \in Nat, M > 0, NEW a \in Int
  PROVE  (a + M) % M = a % M
<1> DEFINE k == a \div M
           r == a % M
<1>1. a = M * k + r /\ r \in 0..(M - 1) /\ k \in Int
  BY Euclid
<1> HIDE DEF k, r
<1>2. a + M = M * (k + 1) + r /\ k + 1 \in Int /\ a + M \in Int
  BY <1>1
<1>3. QED
  BY <1>1, <1>2, RemainderUnique DEF r

LEMMA NextRemainder ==
  ASSUME NEW M \in Nat, M > 0, NEW a \in Int
  PROVE  /\ a % M < M - 1 => (a + 1) % M = (a % M) + 1
         /\ a % M = M - 1 => (a + 1) % M = 0
<1> DEFINE k == a \div M
           r == a % M
<1>1. a = M * k + r /\ r \in 0..(M - 1) /\ k \in Int /\ a + 1 \in Int
  BY Euclid
<1> HIDE DEF k, r
<1>2. ASSUME r < M - 1 PROVE (a + 1) % M = r + 1
  <2>1. a + 1 = M * k + (r + 1) /\ r + 1 \in 0..(M - 1)
    BY <1>1, <1>2
  <2>2. QED
    BY <1>1, <2>1, RemainderUnique
<1>3. ASSUME r = M - 1 PROVE (a + 1) % M = 0
  <2>1. a + 1 = M * (k + 1) + 0 /\ k + 1 \in Int /\ 0 \in 0..(M - 1)
    BY <1>1, <1>3
  <2>2. QED
    BY <1>1, <2>1, RemainderUnique
<1>4. QED
  BY <1>2, <1>3 DEF r

LEMMA SmallRemainder ==
  ASSUME NEW M \in Nat, M > 0, NEW a \in 0..(M - 1)
  PROVE  a % M = a
<1>1. a = M * 0 + a /\ a \in Int
  OBVIOUS
<1>2. QED
  BY <1>1, RemainderUnique

\* Add(1) and Add(^uint32(0)) on a counter d that lacks c.
LEMMA DepthUp ==
  ASSUME NEW M \in Nat, M > 0, NEW d \in 0..(M - 1), NEW c \in Int
  PROVE  (d + 1) % M \in 0..(M - 1) /\ (((d + 1) % M) + (c - 1)) % M = (d + c) % M
<1>1. d % M = d
  BY SmallRemainder
<1>2. CASE d < M - 1
  <2>1. (d + 1) % M = d + 1
    BY <1>1, <1>2, NextRemainder
  <2>2. (d + 1) + (c - 1) = d + c
    OBVIOUS
  <2>3. QED
    BY <1>2, <2>1, <2>2
<1>3. CASE d = M - 1
  <2>1. (d + 1) % M = 0
    BY <1>1, <1>3, NextRemainder
  <2>2. 0 + (c - 1) \in Int /\ (0 + (c - 1)) + M = d + c
    BY <1>3
  <2>3. (d + c) % M = (0 + (c - 1)) % M
    BY <2>2, AddModulus
  <2>4. QED
    BY <2>1, <2>3
<1>4. QED
  BY <1>2, <1>3

LEMMA DepthDown ==
  ASSUME NEW M \in Nat, M > 0, NEW d \in 0..(M - 1), NEW c \in Int, (d + c) % M > 0
  PROVE  /\ (d + M - 1) % M \in 0..(M - 1)
         /\ (((d + M - 1) % M) + c) % M = ((d + c) % M) - 1
<1> DEFINE a == d + c - 1
<1>1. a \in Int /\ a + 1 = d + c /\ a % M \in 0..(M - 1)
  BY Euclid
<1>2. a % M = ((d + c) % M) - 1
  <2> HIDE DEF a
  <2>1. ~(a % M = M - 1)
    <3>1. a % M = M - 1 => (a + 1) % M = 0
      BY <1>1, NextRemainder
    <3>2. (a + 1) % M > 0
      BY <1>1
    <3>3. QED
      BY <3>1, <3>2
  <2>2. a % M < M - 1
    BY <1>1, <2>1
  <2>3. (a + 1) % M = (a % M) + 1
    BY <1>1, <2>2, NextRemainder
  <2>4. QED
    BY <1>1, <2>3
<1>3. CASE d > 0
  <2>1. d - 1 \in 0..(M - 1) /\ (d - 1) + M = d + M - 1
    BY <1>3
  <2>2. (d + M - 1) % M = d - 1
    BY <2>1, AddModulus, SmallRemainder
  <2>3. (d - 1) + c = a
    OBVIOUS
  <2>4. QED
    BY <1>2, <2>1, <2>2, <2>3
<1>4. CASE d = 0
  <2>1. M - 1 \in 0..(M - 1) /\ d + M - 1 = M - 1
    BY <1>4
  <2>2. (d + M - 1) % M = M - 1
    BY <2>1, SmallRemainder
  <2>3. (M - 1) + c = a + M
    BY <1>4
  <2>4. ((M - 1) + c) % M = a % M
    BY <1>1, <2>3, AddModulus
  <2>5. QED
    BY <1>2, <2>1, <2>2, <2>4
<1>5. QED
  BY <1>3, <1>4

-----------------------------------------------------------------------------
(* The inductive invariant.                                                *)

Pcs        == {"select", "packet", "flush", "nonce", "setnonce", "write", "done"}
WorkerType == [pc : Pcs, batch : Seq(Packets),
               rows : Seq(Rows \ Energy), erows : Seq(Energy)]

Deduping == {"nonce", "setnonce", "write"}

\* A worker between two steps: it has a packet in hand where its loop body has one,
\* and there is room in its buffers but at the flush of a full one.
WorkerOK(s) ==
  /\ s \in WorkerType
  /\ Len(s.batch) <= MaxBatch
  /\ Len(s.rows) <= BufferRows /\ Len(s.erows) <= BufferRows
  /\ s.pc \in Deduping \cup {"packet"} => s.batch # <<>>
  /\ s.pc \in {"select", "done"} => s.batch = <<>>
  /\ s.pc \in Deduping => Head(s.batch) \in Events
  /\ s.pc # "flush" => Len(s.rows) < BufferRows /\ Len(s.erows) < BufferRows

Handles(s, p) == s.pc \in Deduping /\ Head(s.batch) = p

Handlers(k, p) == {w \in Workers : Handles(k[w], p)}

\* While Redis has answered, each time an event is stored or is in a worker's hands past
\* SET NX has a claim of its own: the key that is there, or one that has expired.
Claimed ==
  redisErrs = 0 /\ ~stopping =>
    \A p \in Events :
      events[p] + Cardinality(Handlers(wk, p)) <= lapses[p] + One(p \in seen)

\* A metric row that is stored or waits in a buffer has a registered device.
Known ==
  \A q \in Rows \ Energy :
    q \in metrics \/ (\E w \in Workers : q \in Elems(wk[w].rows)) => DeviceOf[q] \in devices

Base ==
  /\ TypeOK
  /\ \A w \in Workers : WorkerOK(wk[w])
  /\ redisErrs \in Nat /\ dbErrs \in Nat

IInv ==
  /\ Base /\ AcceptedAccounted /\ DepthAgrees /\ RowsStored
  /\ Claimed /\ EventStoredOnce /\ Known

-----------------------------------------------------------------------------
(* What the worker has of a packet.                                        *)

Own(s, p) == Count(s.batch, p) + Count(s.rows, p) + Count(s.erows, p)

InChannel(c, p) == Cardinality({i \in DOMAIN c : p \in Elems(c[i])})

LEMMA OwnNat == ASSUME NEW s, WorkerOK(s), NEW p PROVE Own(s, p) \in Nat
BY CountPositive DEF Own, WorkerOK, WorkerType

LEMMA InChannelNat == ASSUME NEW S, NEW c \in Seq(S), NEW p PROVE InChannel(c, p) \in Nat
<1>1. Len(c) \in Nat /\ DOMAIN c = 1..Len(c)
  BY LenProperties
<1>2. QED
  BY <1>1, IndexSet DEF InChannel

\* The packet in hand is done with.
LEMMA AdvanceKeeps ==
  ASSUME NEW s, WorkerOK(s), s.pc \in Deduping \cup {"packet"}
  PROVE  /\ WorkerOK(Advance(s)) /\ Advance(s).pc \notin Deduping
         /\ Head(s.batch) \in Packets /\ Advance(s).rows = s.rows
         /\ \A p : Own(s, p) = Own(Advance(s), p) + One(Head(s.batch) = p)
<1> DEFINE t == Advance(s)
<1>1. /\ s.batch \in Seq(Packets) /\ s.batch # <<>> /\ Len(s.batch) <= MaxBatch
      /\ s.pc # "flush" /\ s \in WorkerType
  BY DEF WorkerOK, WorkerType, Deduping
<1>2. /\ Tail(s.batch) \in Seq(Packets) /\ Len(Tail(s.batch)) = Len(s.batch) - 1
      /\ Len(s.batch) \in Nat /\ Len(s.batch) > 0 /\ Head(s.batch) \in Packets
  BY <1>1, HeadTailProperties, LenProperties, EmptySeq
<1>3. /\ t.batch = Tail(s.batch) /\ t.rows = s.rows /\ t.erows = s.erows
      /\ t.pc = IF Len(s.batch) = 1 THEN "select" ELSE "packet"
      /\ t \in WorkerType
  BY <1>1, <1>2 DEF Advance, WorkerType, Pcs
<1> HIDE DEF t
<1>10. t.batch \in Seq(Packets) /\ (t.batch = <<>> <=> Len(s.batch) = 1)
  <2>1. t.batch \in Seq(Packets) /\ Len(t.batch) = Len(s.batch) - 1
    BY <1>2, <1>3
  <2>2. t.batch = <<>> <=> Len(t.batch) = 0
    BY <2>1, EmptySeq
  <2>3. QED
    BY <1>2, <2>1, <2>2
<1>4. t.pc = "select" => t.batch = <<>>
  BY <1>3, <1>10
<1>5. t.pc = "packet" => t.batch # <<>>
  BY <1>3, <1>10
<1>6. Len(t.batch) <= MaxBatch
  BY <1>1, <1>2, <1>3, IngestAssumption
<1>7. WorkerOK(t) /\ t.pc \notin Deduping
  BY <1>1, <1>3, <1>4, <1>5, <1>6 DEF WorkerOK, Deduping
<1>8. ASSUME NEW p PROVE Own(s, p) = Own(t, p) + One(Head(s.batch) = p)
  <2>1. /\ Count(s.batch, p) \in Nat /\ Count(t.batch, p) \in Nat
        /\ Count(s.batch, p) = Count(t.batch, p) + One(Head(s.batch) = p)
    BY <1>1, <1>3, CountTail
  <2>2. Count(s.rows, p) \in Nat /\ Count(s.erows, p) \in Nat
    BY <1>1, CountPositive DEF WorkerType
  <2>3. QED
    BY <1>3, <2>1, <2>2 DEF Own, One
<1>9. QED
  BY <1>2, <1>3, <1>7, <1>8 DEF t

\* The packets held, of a channel c and workers k.
HeldIn(c, k, p) ==
  InChannel(c, p)
  + Cardinality(Spots([v \in Workers |-> k[v].batch], MaxBatch, p))
  + Cardinality(Spots([v \in Workers |-> k[v].rows], BufferRows, p))
  + Cardinality(Spots([v \in Workers |-> k[v].erows], BufferRows, p))

\* The places of p in what the workers other than w hold.
Spare(k, w, p) ==
  Others([v \in Workers |-> k[v].batch], MaxBatch, w, p)
  + Others([v \in Workers |-> k[v].rows], BufferRows, w, p)
  + Others([v \in Workers |-> k[v].erows], BufferRows, w, p)

LEMMA HeldSplit ==
  ASSUME NEW c \in Seq(Batches), NEW k, NEW w \in Workers, WorkerOK(k[w]), NEW p
  PROVE  /\ HeldIn(c, k, p) = InChannel(c, p) + Own(k[w], p) + Spare(k, w, p)
         /\ InChannel(c, p) \in Nat /\ Own(k[w], p) \in Nat /\ Spare(k, w, p) \in Nat
<1> DEFINE b == [v \in Workers |-> k[v].batch]
           m == [v \in Workers |-> k[v].rows]
           e == [v \in Workers |-> k[v].erows]
           rb == Others(b, MaxBatch, w, p)
           rm == Others(m, BufferRows, w, p)
           re == Others(e, BufferRows, w, p)
           A == Count(k[w].batch, p)
           B == Count(k[w].rows, p)
           C == Count(k[w].erows, p)
           X == InChannel(c, p)
<1>1. MaxBatch \in Nat /\ BufferRows \in Nat
  BY IngestAssumption
<1>2. Cardinality(Spots(b, MaxBatch, p)) = A + rb /\ rb \in Nat
  <2>1. b[w] \in Seq(Packets) /\ Len(b[w]) <= MaxBatch /\ b[w] = k[w].batch
    BY DEF WorkerOK, WorkerType
  <2> HIDE DEF b
  <2>2. QED
    BY <1>1, <2>1, SpotsOf
<1>3. Cardinality(Spots(m, BufferRows, p)) = B + rm /\ rm \in Nat
  <2>1. /\ m[w] \in Seq(Rows \ Energy) /\ Len(m[w]) <= BufferRows
        /\ m[w] = k[w].rows
    BY DEF WorkerOK, WorkerType
  <2> HIDE DEF m
  <2>2. QED
    BY <1>1, <2>1, SpotsOf
<1>4. Cardinality(Spots(e, BufferRows, p)) = C + re /\ re \in Nat
  <2>1. e[w] \in Seq(Energy) /\ Len(e[w]) <= BufferRows /\ e[w] = k[w].erows
    BY DEF WorkerOK, WorkerType
  <2> HIDE DEF e
  <2>2. QED
    BY <1>1, <2>1, SpotsOf
<1>5. A \in Nat /\ B \in Nat /\ C \in Nat /\ Own(k[w], p) = A + B + C
  BY CountPositive DEF WorkerOK, WorkerType, Own
<1>6. X \in Nat
  BY InChannelNat
<1>7. /\ HeldIn(c, k, p) = X + Cardinality(Spots(b, MaxBatch, p))
                   + Cardinality(Spots(m, BufferRows, p)) + Cardinality(Spots(e, BufferRows, p))
      /\ Spare(k, w, p) = rb + rm + re
  BY DEF HeldIn, Spare
<1> HIDE DEF b, m, e, rb, rm, re, A, B, C, X
<1>8. HeldIn(c, k, p) = X + (A + rb) + (B + rm) + (C + re)
  BY <1>2, <1>3, <1>4, <1>7
<1>9. /\ HeldIn(c, k, p) = X + (A + B + C) + (rb + rm + re)
      /\ A + B + C \in Nat /\ rb + rm + re \in Nat
  BY <1>2, <1>3, <1>4, <1>5, <1>6, <1>8
<1>10. QED
  BY <1>5, <1>6, <1>7, <1>9 DEF X

LEMMA SpareSame ==
  ASSUME NEW k, NEW k2, NEW w, \A v \in Workers \ {w} : k2[v] = k[v], NEW p
  PROVE  Spare(k2, w, p) = Spare(k, w, p)
BY DEF Spare, Others, Spots

-----------------------------------------------------------------------------
(* Steps of a worker.                                                      *)

WorkersOK == wk \in [Workers -> WorkerType] /\ \A v \in Workers : WorkerOK(wk[v])

LEMMA BaseFacts ==
  ASSUME Base
  PROVE  /\ WorkersOK
         /\ settled \in [Packets -> Nat] /\ offers \in [Packets -> Nat]
         /\ ch \in Seq(Batches)
BY DEF Base, TypeOK, WorkersOK, WorkerType, Pcs

\* Worker w goes to s, the others stay where they are.
Goes(w, s) == wk'[w] = s /\ \A v \in Workers \ {w} : wk'[v] = wk[v]

LEMMA ExceptGoes ==
  ASSUME Base, NEW w \in Workers, NEW s \in WorkerType, wk' = [wk EXCEPT ![w] = s]
  PROVE  wk' \in [Workers -> WorkerType] /\ Goes(w, s)
BY BaseFacts DEF WorkersOK, Goes

LEMMA WorkerStep ==
  ASSUME IInv, NEW w \in Workers, NEW s, WorkerOK(s),
         wk' \in [Workers -> WorkerType], Goes(w, s),
         ch' = ch, offers' = offers, settled' \in [Packets -> Nat],
         \A p \in Packets : Own(wk[w], p) + settled[p] = Own(s, p) + settled'[p]
  PROVE  WorkersOK' /\ AcceptedAccounted'
<1>1. Base /\ WorkersOK /\ settled \in [Packets -> Nat] /\ ch' \in Seq(Batches)
  BY BaseFacts DEF IInv
<1>2. WorkersOK'
  BY <1>1 DEF WorkersOK, Goes
<1>3. ASSUME NEW p \in Packets PROVE offers'[p] = Held(p)' + settled'[p]
  <2>1. PICK r \in Nat : /\ Held(p) = InChannel(ch, p) + Own(wk[w], p) + r
                         /\ Held(p)' = InChannel(ch', p) + Own(s, p) + r
    <3>1. /\ wk'[w] = s /\ WorkerOK(wk[w]) /\ WorkerOK(wk'[w])
          /\ \A v \in Workers \ {w} : wk'[v] = wk[v]
          /\ ch \in Seq(Batches)
      BY <1>1 DEF WorkersOK, Goes
    <3>2. /\ HeldIn(ch, wk, p) = InChannel(ch, p) + Own(wk[w], p) + Spare(wk, w, p)
          /\ HeldIn(ch', wk', p) = InChannel(ch', p) + Own(wk'[w], p) + Spare(wk', w, p)
          /\ Spare(wk, w, p) \in Nat
      <4>1. ch \in Seq(Batches) /\ ch' \in Seq(Batches) /\ WorkerOK(wk[w]) /\ WorkerOK(wk'[w])
        BY <1>1, <3>1
      <4>2. QED
        BY <4>1, HeldSplit, ZenonT(30)
    <3>3. Spare(wk', w, p) = Spare(wk, w, p)
      BY <3>1, SpareSame
    <3>4. Held(p) = HeldIn(ch, wk, p) /\ Held(p)' = HeldIn(ch', wk', p)
      BY DEF Held, HeldIn, InChannel
    <3>5. QED
      BY <3>1, <3>2, <3>3, <3>4
  <2>2. offers[p] = Held(p) + settled[p]
    BY DEF IInv, AcceptedAccounted
  <2>3. /\ InChannel(ch', p) = InChannel(ch, p) /\ InChannel(ch, p) \in Nat
        /\ Own(wk[w], p) \in Nat /\ Own(s, p) \in Nat
        /\ settled[p] \in Nat /\ settled'[p] \in Nat
    BY <1>1, InChannelNat, OwnNat DEF WorkersOK
  <2>4. QED
    <3> DEFINE C == InChannel(ch, p)
               O == Own(wk[w], p)
               O2 == Own(s, p)
               H == Held(p)
               H2 == Held(p)'
    <3>1. H = C + O + r /\ H2 = C + O2 + r
      BY <2>1, <2>3
    <3>2. C \in Nat /\ O \in Nat /\ O2 \in Nat /\ O + settled[p] = O2 + settled'[p]
      BY <2>3
    <3>3. offers'[p] = H + settled[p]
      BY <2>2
    <3> HIDE DEF C, O, O2, H, H2
    <3>4. offers'[p] = H2 + settled'[p]
      BY <2>3, <3>1, <3>2, <3>3
    <3>5. QED
      BY <3>4 DEF H2
<1>4. QED
  BY <1>2, <1>3 DEF AcceptedAccounted

\* No step but Row and the flushes touches the row buffers.
BuffersSame == \A v \in Workers : wk'[v].rows = wk[v].rows

LEMMA SettleOne ==
  ASSUME settled \in [Packets -> Nat], NEW x \in Packets, Settle({x})
  PROVE  /\ settled' \in [Packets -> Nat]
         /\ \A p \in Packets : settled'[p] = settled[p] + One(x = p)
BY DEF Settle, One

\* The packet in hand is settled and the worker goes on to the next one.
LEMMA AdvanceStep ==
  ASSUME IInv, NEW w \in Workers, wk[w].pc \in Deduping \cup {"packet"},
         wk' = [wk EXCEPT ![w] = Advance(@)], Settle({Pkt(w)}), ch' = ch, offers' = offers
  PROVE  /\ WorkersOK' /\ AcceptedAccounted' /\ settled' \in [Packets -> Nat]
         /\ wk' = [wk EXCEPT ![w] = Advance(wk[w])] /\ Advance(wk[w]).pc \notin Deduping
         /\ \A p \in Packets : p # Pkt(w) => settled'[p] = settled[p]
         /\ BuffersSame
<1>1. WorkersOK /\ settled \in [Packets -> Nat]
  BY BaseFacts DEF IInv
<1>2. /\ WorkerOK(Advance(wk[w])) /\ Advance(wk[w]).pc \notin Deduping /\ Pkt(w) \in Packets
      /\ Advance(wk[w]).rows = wk[w].rows
      /\ \A p : Own(wk[w], p) = Own(Advance(wk[w]), p) + One(Pkt(w) = p)
  BY <1>1, AdvanceKeeps DEF WorkersOK, Pkt
<1>3. /\ settled' \in [Packets -> Nat]
      /\ \A p \in Packets : settled'[p] = settled[p] + One(Pkt(w) = p)
  BY <1>1, <1>2, SettleOne
<1>4. wk' = [wk EXCEPT ![w] = Advance(wk[w])]
  BY <1>1 DEF WorkersOK
<1>5. \A p \in Packets : Own(Advance(wk[w]), p) \in Nat
  BY <1>2, OwnNat
<1>6. ASSUME NEW p \in Packets
      PROVE  Own(wk[w], p) + settled[p] = Own(Advance(wk[w]), p) + settled'[p]
  <2> DEFINE O == Own(Advance(wk[w]), p)
             x == One(Pkt(w) = p)
  <2>1. O \in Nat /\ x \in Nat /\ Own(wk[w], p) = O + x /\ settled'[p] = settled[p] + x /\ settled[p] \in Nat
    BY <1>1, <1>2, <1>3, <1>5 DEF One
  <2> HIDE DEF O, x
  <2>2. QED
    BY <2>1 DEF O
<1>7. \A p \in Packets : p # Pkt(w) => settled'[p] = settled[p]
  BY <1>1, <1>3 DEF One
<1>8. WorkersOK' /\ AcceptedAccounted'
  <2>1. wk' \in [Workers -> WorkerType] /\ Goes(w, Advance(wk[w]))
    BY <1>2, <1>4, ExceptGoes DEF WorkerOK, IInv
  <2>2. QED
    BY <1>2, <1>3, <1>6, <2>1, WorkerStep
<1>10. BuffersSame
  BY <1>1, <1>2, <1>4 DEF BuffersSame, WorkersOK
<1>9. QED
  BY <1>2, <1>3, <1>4, <1>7, <1>8, <1>10

LEMMA HandlersFinite ==
  ASSUME NEW k, NEW p
  PROVE  IsFiniteSet(Handlers(k, p)) /\ Cardinality(Handlers(k, p)) \in Nat
<1>1. IsFiniteSet(Workers) /\ Handlers(k, p) \in SUBSET Workers
  BY IngestAssumption DEF Handlers
<1>2. QED
  BY <1>1, FS_Subset, FS_CardinalityType

LEMMA FewerHandlers ==
  ASSUME NEW k, NEW l, NEW p, Handlers(l, p) \subseteq Handlers(k, p)
  PROVE  Cardinality(Handlers(l, p)) <= Cardinality(Handlers(k, p))
BY HandlersFinite, FS_Subset

\* A step that puts no further event into a worker's hands.
LEMMA ClaimsKept ==
  ASSUME IInv, NEW w \in Workers, NEW s, wk' = [wk EXCEPT ![w] = s],
         \A p : Handles(s, p) => Handles(wk[w], p),
         UNCHANGED <<seen, events, lapses, stopping, redisErrs>>
  PROVE  Claimed' /\ EventStoredOnce'
<1>1. wk'[w] = s /\ \A v \in Workers \ {w} : wk'[v] = wk[v]
  BY BaseFacts DEF IInv, WorkersOK
<1>2. \A p : Handlers(wk', p) \subseteq Handlers(wk, p)
  BY <1>1 DEF Handlers
<1>3. Claimed'
  <2> SUFFICES ASSUME redisErrs = 0, ~stopping, NEW p \in Events
               PROVE  events[p] + Cardinality(Handlers(wk', p)) <= lapses[p] + One(p \in seen)
    BY DEF Claimed
  <2>1. PICK m, n \in Nat : m = Cardinality(Handlers(wk, p)) /\ n = Cardinality(Handlers(wk', p))
    BY HandlersFinite
  <2>2. n <= m
    BY <1>2, <2>1, FewerHandlers
  <2>3. events[p] + m <= lapses[p] + One(p \in seen)
    BY <2>1 DEF IInv, Claimed
  <2>4. events[p] \in Nat /\ lapses[p] \in Nat /\ One(p \in seen) \in Nat
    BY DEF IInv, Base, TypeOK, One
  <2>5. QED
    BY <2>1, <2>2, <2>3, <2>4
<1>4. QED
  BY <1>3 DEF IInv, EventStoredOnce

\* A row packet that is settled is stored, or was turned away, or something failed.
LEMMA RowsKept ==
  ASSUME IInv, metrics \subseteq metrics', early \subseteq early',
         dbErrs' = 0 /\ ~stopping' => dbErrs = 0 /\ ~stopping,
         dbErrs' = 0 /\ ~stopping' =>
           \A p \in Rows \ Malformed : settled'[p] = settled[p] \/ p \in metrics' \cup early'
  PROVE  RowsStored'
BY DEF IInv, RowsStored

\* A step that adds no metric row to a buffer or to the table.
LEMMA KnownKept ==
  ASSUME IInv, devices \subseteq devices', metrics' = metrics, BuffersSame
  PROVE  Known'
BY DEF IInv, Known, BuffersSame

\* Take: the batch moves from the channel to the worker.
LEMMA TakeKeeps ==
  ASSUME IInv, NEW w \in Workers, Take(w)
  PROVE  /\ WorkersOK' /\ AcceptedAccounted' /\ ch' \in Seq(Batches) /\ Len(ch') = Len(ch) - 1
         /\ BuffersSame
<1> DEFINE b == Head(ch)
           s == [wk[w] EXCEPT !.batch = b, !.pc = "packet"]
<1>1. Base /\ WorkersOK /\ settled \in [Packets -> Nat] /\ ch \in Seq(Batches) /\ ch # <<>>
  BY BaseFacts DEF IInv, Take
<1>2. /\ b \in Batches /\ ch' = Tail(ch) /\ ch' \in Seq(Batches) /\ Len(ch') = Len(ch) - 1
      /\ Len(ch) \in Nat /\ Len(ch) > 0
      /\ DOMAIN ch = 1..Len(ch) /\ DOMAIN ch' = 1..(Len(ch) - 1)
      /\ b = ch[1] /\ \A i \in 1..(Len(ch) - 1) : ch'[i] = ch[i + 1]
  BY <1>1, HeadTailProperties, LenProperties, EmptySeq DEF Take
<1>3. /\ WorkerOK(wk[w]) /\ wk[w].pc = "select" /\ wk[w].batch = <<>>
      /\ wk[w] \in WorkerType
  BY <1>1 DEF WorkersOK, WorkerOK, Take
<1>4. wk' = [wk EXCEPT ![w] = s]
  BY <1>1, <1>3 DEF Take, WorkersOK, WorkerType
<1> HIDE DEF b
<1>5. \A p : b \in Seq(Packets) /\ b # <<>> /\ Len(b) <= MaxBatch /\ Count(b, p) = One(p \in Elems(b))
  BY <1>2, CountBatch
<1>6. /\ s.batch = b /\ s.pc = "packet" /\ s.rows = wk[w].rows /\ s.erows = wk[w].erows
      /\ s \in WorkerType
  BY <1>3, <1>5 DEF WorkerType, Pcs
<1> HIDE DEF s
<1>7. WorkerOK(s)
  BY <1>3, <1>5, <1>6 DEF WorkerOK, Deduping
<1>8. WorkersOK'
  BY <1>1, <1>4, <1>7 DEF WorkersOK, WorkerOK
<1>9. ASSUME NEW p \in Packets PROVE offers'[p] = Held(p)' + settled'[p]
  <2> DEFINE A == {i \in DOMAIN ch : p \in Elems(ch[i])}
             B == {i \in DOMAIN ch' : p \in Elems(ch'[i])}
  <2>1. PICK r \in Nat : /\ Held(p) = InChannel(ch, p) + Own(wk[w], p) + r
                         /\ Held(p)' = InChannel(ch', p) + Own(s, p) + r
    <3>1. /\ wk'[w] = s /\ WorkerOK(wk[w]) /\ WorkerOK(wk'[w])
          /\ \A v \in Workers \ {w} : wk'[v] = wk[v]
      BY <1>1, <1>4, <1>7 DEF WorkersOK
    <3>2. /\ HeldIn(ch, wk, p) = InChannel(ch, p) + Own(wk[w], p) + Spare(wk, w, p)
          /\ HeldIn(ch', wk', p) = InChannel(ch', p) + Own(wk'[w], p) + Spare(wk', w, p)
          /\ Spare(wk, w, p) \in Nat
      <4>1. ch \in Seq(Batches) /\ ch' \in Seq(Batches) /\ WorkerOK(wk[w]) /\ WorkerOK(wk'[w])
        BY <1>1, <1>2, <3>1
      <4>2. QED
        BY <4>1, HeldSplit, ZenonT(30)
    <3>3. Spare(wk', w, p) = Spare(wk, w, p)
      BY <3>1, SpareSame
    <3>4. Held(p) = HeldIn(ch, wk, p) /\ Held(p)' = HeldIn(ch', wk', p)
      BY DEF Held, HeldIn, InChannel
    <3>5. QED
      BY <3>1, <3>2, <3>3, <3>4
  <2>2. A \in SUBSET (1..Len(ch)) /\ B = {i \in 1..(Len(ch) - 1) : i + 1 \in A}
        /\ (1 \in A) = (p \in Elems(b))
    BY <1>2
  <2> HIDE DEF A, B
  <2>3. /\ Cardinality(A) \in Nat /\ Cardinality(B) \in Nat
        /\ Cardinality(A) = Cardinality(B) + One(1 \in A)
    BY <1>2, <2>2, ShiftCardinality
  <2>4. /\ InChannel(ch, p) = Cardinality(A) /\ InChannel(ch', p) = Cardinality(B)
        /\ One(1 \in A) = One(p \in Elems(b))
    BY <2>2 DEF InChannel, A, B
  <2>5. /\ Own(wk[w], p) \in Nat /\ Own(s, p) = Own(wk[w], p) + One(p \in Elems(b))
        /\ One(p \in Elems(b)) \in Nat
    <3>1. Count(wk[w].batch, p) = 0 /\ Count(s.batch, p) = One(p \in Elems(b))
      BY <1>3, <1>5, <1>6, CountEmpty
    <3>2. Count(wk[w].rows, p) \in Nat /\ Count(wk[w].erows, p) \in Nat
      BY <1>3, CountPositive DEF WorkerType
    <3>3. QED
      BY <1>6, <3>1, <3>2 DEF Own, One
  <2>6. offers[p] = Held(p) + settled[p] /\ offers' = offers /\ settled' = settled /\ settled[p] \in Nat
    BY <1>1 DEF IInv, AcceptedAccounted, Take, history
  <2>7. QED
    <3> DEFINE C == Cardinality(A)
               D == Cardinality(B)
               x == One(p \in Elems(b))
               O == Own(wk[w], p)
               O2 == Own(s, p)
               H == Held(p)
               H2 == Held(p)'
    <3>1. H = C + O + r /\ H2 = D + O2 + r /\ C = D + x /\ O2 = O + x
      BY <2>1, <2>3, <2>4, <2>5
    <3>2. C \in Nat /\ D \in Nat /\ x \in Nat /\ O \in Nat
      BY <2>3, <2>5
    <3>3. offers'[p] = H + settled'[p] /\ settled'[p] \in Nat
      BY <2>6
    <3> HIDE DEF C, D, x, O, O2, H, H2
    <3>4. H = H2
      BY <3>1, <3>2
    <3>5. QED
      BY <3>3, <3>4 DEF H2
<1>11. BuffersSame
  BY <1>1, <1>4, <1>6 DEF BuffersSame, WorkersOK
<1>10. QED
  BY <1>2, <1>8, <1>9, <1>11 DEF AcceptedAccounted

\* flush(): the rows of both buffers are settled, and stored unless a write failed.
LEMMA FlushKeeps ==
  ASSUME IInv, NEW w \in Workers, NEW pc \in {"select", "done", "packet"},
         NEW batch \in Seq(Packets), batch = wk[w].batch,
         (pc = "packet") = (batch # <<>>), FlushTo(w, pc, batch),
         ch' = ch, offers' = offers,
         UNCHANGED <<stopping, seen, events, devices, lapses, early, redisErrs>>
  PROVE  /\ WorkersOK' /\ AcceptedAccounted' /\ RowsStored' /\ Claimed' /\ EventStoredOnce'
         /\ Known'
         /\ settled' \in [Packets -> Nat] /\ dbErrs' \in Nat /\ metrics' \subseteq Rows
<1> DEFINE s == [pc |-> pc, batch |-> batch, rows |-> <<>>, erows |-> <<>>]
           rows == wk[w].rows
           ers == wk[w].erows
<1>1. /\ Base /\ WorkersOK /\ settled \in [Packets -> Nat] /\ WorkerOK(wk[w]) /\ dbErrs \in Nat
      /\ metrics \subseteq Rows
  BY BaseFacts DEF IInv, WorkersOK, Base, TypeOK
<1>2. rows \in Seq(Rows \ Energy) /\ ers \in Seq(Energy) /\ Len(batch) <= MaxBatch
  BY <1>1 DEF WorkerOK, WorkerType
<1>3. wk' = [wk EXCEPT ![w] = s]
  BY DEF FlushTo
<1>4. s \in WorkerType /\ s.pc = pc /\ s.batch = batch /\ s.rows = <<>> /\ s.erows = <<>>
  BY DEF WorkerType, Pcs
<1>5. WorkerOK(s) /\ \A p : ~Handles(s, p)
  <2>1. Len(<<>>) < BufferRows /\ Len(<<>>) <= BufferRows
    BY IngestAssumption
  <2> HIDE DEF s
  <2>2. QED
    BY <1>2, <1>4, <2>1 DEF WorkerOK, Deduping, Handles
<1> HIDE DEF s, rows, ers
<1>6. \A p : Count(rows, p) \in Nat /\ Count(ers, p) \in Nat /\ Count(batch, p) \in Nat
  BY <1>2, CountPositive
<1>7. settled' = [p \in Packets |-> settled[p] + Count(rows, p) + Count(ers, p)]
  BY DEF FlushTo, rows, ers
<1>8. settled' \in [Packets -> Nat]
  <2>1. \A p \in Packets : settled[p] + Count(rows, p) + Count(ers, p) \in Nat
    BY <1>1, <1>6
  <2>2. QED
    BY <1>7, <2>1
<1>9. ASSUME NEW p \in Packets PROVE Own(wk[w], p) + settled[p] = Own(s, p) + settled'[p]
  <2> DEFINE x == Count(rows, p)
             y == Count(ers, p)
             z == Count(batch, p)
  <2>1. x \in Nat /\ y \in Nat /\ z \in Nat /\ settled[p] \in Nat
        /\ settled'[p] = settled[p] + x + y
    BY <1>1, <1>6, <1>7
  <2>2. Own(wk[w], p) = z + x + y
    BY DEF Own, rows, ers
  <2>3. Own(s, p) = z + 0 + 0
    BY <1>4, CountEmpty DEF Own
  <2> HIDE DEF x, y, z
  <2>4. QED
    BY <2>1, <2>2, <2>3
<1>10. WorkersOK' /\ AcceptedAccounted'
  <2>1. wk' \in [Workers -> WorkerType] /\ Goes(w, s)
    BY <1>1, <1>3, <1>4, ExceptGoes
  <2>2. QED
    BY <1>5, <1>8, <1>9, <2>1, WorkerStep
<1>11. Claimed' /\ EventStoredOnce'
  BY <1>3, <1>5, ClaimsKept
<1>12. PICK failed \in SUBSET {r \in {rows, ers} : r # <<>>} :
         /\ dbErrs' = dbErrs + Cardinality(failed)
         /\ metrics' = metrics \cup UNION {Elems(r) : r \in {rows, ers} \ failed}
  BY DEF FlushTo, rows, ers
<1>13. IsFiniteSet(failed) /\ Cardinality(failed) \in Nat /\ (Cardinality(failed) = 0 => failed = {})
  <2>1. IsFiniteSet({rows} \cup {ers})
    BY FS_Singleton, FS_AddElement
  <2>2. failed \in SUBSET ({rows} \cup {ers})
    OBVIOUS
  <2>3. IsFiniteSet(failed)
    BY <2>1, <2>2, FS_Subset
  <2>4. QED
    BY <2>3, FS_CardinalityType, FS_EmptySet
<1>14. dbErrs' \in Nat /\ (dbErrs' = 0 => dbErrs = 0 /\ failed = {})
  BY <1>1, <1>12, <1>13
<1>15. /\ Elems(rows) \subseteq Rows \ Energy /\ Elems(ers) \subseteq Energy /\ Energy \subseteq Rows
       /\ \A p : Count(rows, p) > 0 => p \in Elems(rows)
       /\ \A p : Count(ers, p) > 0 => p \in Elems(ers)
  BY <1>2, CountPositive, IngestAssumption DEF Elems
<1>16. metrics' \subseteq Rows
  BY <1>1, <1>12, <1>15
<1>17. RowsStored'
  <2>1. ASSUME dbErrs' = 0, NEW p \in Rows, settled'[p] # settled[p] PROVE p \in metrics'
    <3>5. p \in Packets
      BY DEF Rows
    <3>1. Count(rows, p) > 0 \/ Count(ers, p) > 0
      BY <1>1, <1>6, <1>7, <2>1, <3>5
    <3>2. p \in Elems(rows) \cup Elems(ers)
      BY <1>15, <3>1
    <3>3. failed = {}
      BY <1>14, <2>1
    <3>4. QED
      BY <1>12, <3>2, <3>3
  <2>2. metrics \subseteq metrics'
    BY <1>12
  <2>3. QED
    BY <1>14, <2>1, <2>2, RowsKept
<1>19. Known'
  <2> SUFFICES ASSUME NEW q \in Rows \ Energy,
                      q \in metrics' \/ \E v \in Workers : q \in Elems(wk'[v].rows)
               PROVE  DeviceOf[q] \in devices
    BY DEF Known
  <2>1. wk'[w].rows = <<>> /\ Elems(<<>>) = {} /\ \A v \in Workers \ {w} : wk'[v] = wk[v]
    BY <1>1, <1>3, <1>4 DEF WorkersOK, Elems
  <2>2. metrics' \subseteq metrics \cup Elems(rows) \cup Elems(ers)
    BY <1>12
  <2>3. q \notin Elems(ers)
    BY <1>15
  <2>4. q \in metrics \/ \E v \in Workers : q \in Elems(wk[v].rows)
    BY <2>1, <2>2, <2>3 DEF rows
  <2>5. QED
    BY <2>4 DEF IInv, Known
<1>18. QED
  BY <1>8, <1>10, <1>11, <1>14, <1>16, <1>17, <1>19

-----------------------------------------------------------------------------
(* The actions.                                                            *)

\* The rest of the type invariant, for a step that changes only the workers, the
\* histories and the counters of failures.
LEMMA BaseKept ==
  ASSUME Base, WorkersOK', settled' \in [Packets -> Nat],
         UNCHANGED <<ch, depth, counting, stopping, offers>>,
         seen' \subseteq Events, nonce' \in [Sources -> 0..NPackets],
         events' \in [Events -> Nat], metrics' \subseteq Rows,
         devices' \subseteq Devices, lapses' \in [Events -> Nat], early' \subseteq Energy,
         redisErrs' \in Nat, dbErrs' \in Nat
  PROVE  Base'
<1>1. /\ wk' \in [Workers -> WorkerType]
      /\ \A w \in Workers : WorkerOK(wk'[w])
  BY DEF WorkersOK
<1>2. \A w \in Workers : /\ Len(wk'[w].batch) <= MaxBatch
                         /\ Len(wk'[w].rows) <= BufferRows /\ Len(wk'[w].erows) <= BufferRows
  BY <1>1 DEF WorkerOK
<1>3. TypeOK'
  BY <1>1, <1>2 DEF Base, TypeOK, WorkerType, Pcs
<1>4. QED
  BY <1>1, <1>3 DEF Base

LEMMA StoreTypes ==
  ASSUME IInv
  PROVE  /\ seen \subseteq Events /\ nonce \in [Sources -> 0..NPackets]
         /\ events \in [Events -> Nat] /\ metrics \subseteq Rows
         /\ devices \subseteq Devices /\ lapses \in [Events -> Nat] /\ early \subseteq Energy
         /\ redisErrs \in Nat /\ dbErrs \in Nat
BY DEF IInv, Base, TypeOK

LEMMA DepthSame ==
  ASSUME IInv, UNCHANGED <<ch, depth, counting>>
  PROVE  DepthAgrees'
BY DEF IInv, DepthAgrees

\* The three places that flush.
LEMMA FlushInv ==
  ASSUME IInv, NEW w \in Workers, Tick(w) \/ WorkerStop(w) \/ FullFlush(w)
  PROVE  IInv'
<1>1. /\ WorkersOK /\ wk[w].batch \in Seq(Packets)
      /\ wk[w].pc = "select" => wk[w].batch = <<>>
  BY BaseFacts DEF IInv, WorkersOK, WorkerOK, WorkerType
<1>2. \E pc \in {"select", "done", "packet"} :
        (pc = "packet") = (wk[w].batch # <<>>) /\ FlushTo(w, pc, wk[w].batch)
  <2>1. CASE Tick(w) \/ WorkerStop(w)
    BY <1>1, <2>1 DEF Tick, WorkerStop
  <2>2. CASE FullFlush(w)
    <3>1. CASE wk[w].batch = <<>>
      BY <2>2, <3>1 DEF FullFlush
    <3>2. CASE wk[w].batch # <<>>
      BY <2>2, <3>2 DEF FullFlush
    <3>3. QED
      BY <3>1, <3>2
  <2>3. QED
    BY <2>1, <2>2
<1>3. UNCHANGED <<ch, depth, counting, stopping, seen, nonce, events, devices, offers, written, refused,
                  lapses, early, redisErrs>>
  BY DEF Tick, WorkerStop, FullFlush
<1>4. /\ WorkersOK' /\ AcceptedAccounted' /\ RowsStored' /\ Claimed' /\ EventStoredOnce'
      /\ Known'
      /\ settled' \in [Packets -> Nat] /\ dbErrs' \in Nat /\ metrics' \subseteq Rows
  <2>1. PICK pc \in {"select", "done", "packet"} :
          (pc = "packet") = (wk[w].batch # <<>>) /\ FlushTo(w, pc, wk[w].batch)
    BY <1>2
  <2>2. PICK batch : batch = wk[w].batch
    OBVIOUS
  <2>3. batch \in Seq(Packets) /\ (pc = "packet") = (batch # <<>>) /\ FlushTo(w, pc, batch)
    BY <1>1, <2>1, <2>2
  <2>4. ch' = ch /\ offers' = offers /\ UNCHANGED <<stopping, seen, events, devices, lapses, early, redisErrs>>
    BY <1>3
  <2>5. QED
    BY <2>2, <2>3, <2>4, FlushKeeps
<1>5. Base'
  BY <1>3, <1>4, StoreTypes, BaseKept DEF IInv
<1>6. QED
  BY <1>3, <1>4, <1>5, DepthSame DEF IInv

LEMMA TakeInv == ASSUME IInv, NEW w \in Workers, Take(w) PROVE IInv'
<1>1. /\ WorkersOK' /\ AcceptedAccounted' /\ ch' \in Seq(Batches) /\ Len(ch') = Len(ch) - 1
      /\ BuffersSame
  BY TakeKeeps
<1>2. /\ ch \in Seq(Batches) /\ Len(ch) \in Nat /\ Len(ch) <= ChannelSize /\ Len(ch) > 0
      /\ depth \in 0..(DepthModulus - 1) /\ counting \in Nat
      /\ (depth + counting) % DepthModulus = Len(ch)
      /\ DepthModulus \in Nat /\ DepthModulus > 0 /\ ChannelSize \in Nat
  <2>1. ch \in Seq(Batches) /\ Len(ch) <= ChannelSize /\ ch # <<>>
    BY DEF IInv, Base, TypeOK, Take
  <2>2. Len(ch) \in Nat /\ Len(ch) # 0
    BY <2>1, LenProperties, EmptySeq
  <2>3. depth \in 0..(DepthModulus - 1) /\ counting \in Nat
    BY DEF IInv, Base, TypeOK
  <2>4. (depth + counting) % DepthModulus = Len(ch)
    BY DEF IInv, DepthAgrees
  <2>5. QED
    BY <2>1, <2>2, <2>3, <2>4, IngestAssumption
<1>3. /\ depth' \in 0..(DepthModulus - 1)
      /\ (depth' + counting) % DepthModulus = Len(ch) - 1
  <2>1. depth' = (depth + DepthModulus - 1) % DepthModulus
    BY DEF Take
  <2>2. counting \in Int /\ (depth + counting) % DepthModulus > 0
    BY <1>2
  <2>3. /\ (depth + DepthModulus - 1) % DepthModulus \in 0..(DepthModulus - 1)
        /\ (((depth + DepthModulus - 1) % DepthModulus) + counting) % DepthModulus
             = ((depth + counting) % DepthModulus) - 1
    BY <1>2, <2>2, DepthDown
  <2>4. QED
    BY <1>2, <2>1, <2>3
<1>4. UNCHANGED <<counting, stopping, store, history, redisErrs, dbErrs>>
  BY DEF Take
<1>5. DepthAgrees'
  BY <1>1, <1>3, <1>4 DEF DepthAgrees
<1>6. Len(ch') <= ChannelSize
  BY <1>1, <1>2
<1>7. Base'
  <2>1. /\ wk' \in [Workers -> WorkerType]
        /\ \A v \in Workers : WorkerOK(wk'[v])
    BY <1>1 DEF WorkersOK
  <2>2. \A v \in Workers : /\ Len(wk'[v].batch) <= MaxBatch
                           /\ Len(wk'[v].rows) <= BufferRows /\ Len(wk'[v].erows) <= BufferRows
    BY <2>1 DEF WorkerOK
  <2>3. TypeOK'
    BY <1>1, <1>3, <1>4, <1>6, <2>1, <2>2 DEF IInv, Base, TypeOK, WorkerType, Pcs, store, history
  <2>4. QED
    BY <1>4, <2>1, <2>3 DEF IInv, Base
<1>8. Claimed' /\ EventStoredOnce'
  <2> DEFINE s == [wk[w] EXCEPT !.batch = Head(ch), !.pc = "packet"]
  <2>1. wk[w] \in WorkerType /\ wk \in [Workers -> WorkerType]
    BY BaseFacts DEF IInv, WorkersOK
  <2>2. wk' = [wk EXCEPT ![w] = s] /\ s.pc = "packet"
    BY <2>1 DEF Take, WorkerType
  <2> HIDE DEF s
  <2>3. \A p : ~Handles(s, p)
    BY <2>2 DEF Handles, Deduping
  <2>4. UNCHANGED <<seen, events, lapses, stopping, redisErrs>>
    BY <1>4 DEF store, history
  <2>5. QED
    BY <2>2, <2>3, <2>4, ClaimsKept
<1>9. RowsStored'
  BY <1>4 DEF IInv, RowsStored, store, history
<1>11. Known'
  <2>1. metrics' = metrics /\ devices' = devices
    BY <1>4 DEF store
  <2>2. QED
    BY <1>1, <2>1, KnownKept
<1>10. QED
  BY <1>1, <1>5, <1>7, <1>8, <1>9, <1>11 DEF IInv

\* What Row makes of worker s: the packet becomes a row of one of the two buffers.
RowsOf(s)  == IF Head(s.batch) \in Energy THEN s.rows ELSE Append(s.rows, Head(s.batch))
ErowsOf(s) == IF Head(s.batch) \in Energy THEN Append(s.erows, Head(s.batch)) ELSE s.erows
Filled(s)  == Full(IF Head(s.batch) \in Energy THEN ErowsOf(s) ELSE RowsOf(s))
Filed(s)   == [Advance(s) EXCEPT !.rows = RowsOf(s), !.erows = ErowsOf(s),
                                 !.pc = IF Filled(s) THEN "flush" ELSE @]

LEMMA RowKeeps ==
  ASSUME NEW s, WorkerOK(s), s.pc = "packet", Head(s.batch) \notin Events
  PROVE  /\ WorkerOK(Filed(s)) /\ Filed(s).pc \notin Deduping
         /\ \A p : Own(s, p) = Own(Filed(s), p)
         /\ Elems(Filed(s).rows) \subseteq Elems(s.rows) \cup ({Head(s.batch)} \ Energy)
<1> DEFINE h == Head(s.batch)
           a == Advance(s)
           R == Rows \ Energy
           rows == RowsOf(s)
           erows == ErowsOf(s)
           full == Filled(s)
           t == Filed(s)
<1>1. /\ WorkerOK(a) /\ a.pc \notin Deduping /\ h \in Packets
      /\ \A p : Own(s, p) = Own(a, p) + One(h = p)
  BY AdvanceKeeps
<1>2. s \in WorkerType /\ a.rows = s.rows /\ a.erows = s.erows
  BY DEF WorkerOK, Advance, WorkerType
<1>3. /\ s.rows \in Seq(R) /\ Len(s.rows) \in Nat /\ Len(s.rows) < BufferRows
      /\ s.erows \in Seq(Energy) /\ Len(s.erows) \in Nat /\ Len(s.erows) < BufferRows
      /\ BufferRows \in Nat
  BY <1>2, LenProperties, IngestAssumption DEF WorkerOK, WorkerType
<1>4. a \in WorkerType /\ a.batch \in Seq(Packets)
  BY <1>1 DEF WorkerOK, WorkerType
<1>10. t = [a EXCEPT !.rows = rows, !.erows = erows, !.pc = IF full THEN "flush" ELSE @]
  BY DEF Filed
<1>11. h \in Energy => /\ rows = s.rows /\ erows = Append(s.erows, h)
                       /\ full <=> Len(erows) >= BufferRows
  BY DEF RowsOf, ErowsOf, Filled, Full
<1>12. h \notin Energy => /\ rows = Append(s.rows, h) /\ erows = s.erows
                          /\ full <=> Len(rows) >= BufferRows
  BY DEF RowsOf, ErowsOf, Filled, Full
<1> HIDE DEF a, rows, erows, full, t
<1>13. h \notin Events
  OBVIOUS
<1> HIDE DEF h
<1>5. /\ rows \in Seq(R) /\ Len(rows) <= BufferRows /\ (~full => Len(rows) < BufferRows)
      /\ erows \in Seq(Energy) /\ Len(erows) <= BufferRows /\ (~full => Len(erows) < BufferRows)
  <2>1. CASE h \in Energy
    <3>1. erows \in Seq(Energy) /\ Len(erows) = Len(s.erows) + 1
      <4>1. s.erows \in Seq(Energy)
        BY <1>3
      <4>2. Append(s.erows, h) \in Seq(Energy) /\ Len(Append(s.erows, h)) = Len(s.erows) + 1
        BY <2>1, <4>1, AppendProperties
      <4>3. QED
        BY <1>11, <2>1, <4>2
    <3>2. QED
      BY <1>3, <1>11, <2>1, <3>1
  <2>2. CASE h \notin Energy
    <3>1. h \in R
      BY <1>1, <1>13, <2>2 DEF Rows
    <3>2. rows \in Seq(R) /\ Len(rows) = Len(s.rows) + 1
      <4> HIDE DEF R
      <4>1. s.rows \in Seq(R)
        BY <1>3
      <4>2. Append(s.rows, h) \in Seq(R) /\ Len(Append(s.rows, h)) = Len(s.rows) + 1
        BY <3>1, <4>1, AppendProperties
      <4>3. QED
        BY <1>12, <2>2, <4>2
    <3>3. QED
      BY <1>3, <1>12, <2>2, <3>2
  <2>3. QED
    BY <2>1, <2>2
<1>6. /\ t.batch = a.batch /\ t.rows = rows /\ t.erows = erows
      /\ t.pc = (IF full THEN "flush" ELSE a.pc) /\ t \in WorkerType
  BY <1>4, <1>5, <1>10 DEF WorkerType, Pcs
<1>7. WorkerOK(t) /\ t.pc \notin Deduping
  BY <1>1, <1>5, <1>6 DEF WorkerOK, Deduping
<1>8. ASSUME NEW p PROVE Own(s, p) = Own(t, p)
  <2> DEFINE x == One(h = p)
             A == Count(a.batch, p)
             B == Count(s.rows, p)
             C == Count(s.erows, p)
  <2>1. A \in Nat /\ B \in Nat /\ C \in Nat /\ x \in Nat
    BY <1>3, <1>4, CountPositive DEF One
  <2>2. Own(s, p) = (A + B + C) + x
    BY <1>1, <1>2 DEF Own
  <2>3. \/ Count(rows, p) = B + x /\ Count(erows, p) = C
        \/ Count(rows, p) = B /\ Count(erows, p) = C + x
    <3>1. CASE h \in Energy
      <4>1. rows = s.rows /\ erows = Append(s.erows, h)
        BY <1>11, <3>1
      <4>2. Count(Append(s.erows, h), p) = C + x
        BY <1>3, <3>1, CountAppend
      <4>3. QED
        BY <4>1, <4>2
    <3>2. CASE h \notin Energy
      <4>1. rows = Append(s.rows, h) /\ erows = s.erows /\ h \in R
        BY <1>1, <1>12, <1>13, <3>2 DEF Rows
      <4>2. Count(Append(s.rows, h), p) = B + x
        BY <1>3, <4>1, CountAppend
      <4>3. QED
        BY <4>1, <4>2
    <3>3. QED
      BY <3>1, <3>2
  <2>4. Own(t, p) = A + Count(rows, p) + Count(erows, p)
    BY <1>6 DEF Own
  <2> HIDE DEF x, A, B, C
  <2>5. QED
    BY <2>1, <2>2, <2>3, <2>4
<1>14. Elems(t.rows) \subseteq Elems(s.rows) \cup ({h} \ Energy)
  <2>1. CASE h \in Energy
    BY <1>6, <1>11, <2>1
  <2>2. CASE h \notin Energy
    <3>1. rows = Append(s.rows, h) /\ h \in R
      BY <1>1, <1>12, <1>13, <2>2 DEF Rows
    <3> HIDE DEF R
    <3>2. /\ DOMAIN rows = 1..(Len(s.rows) + 1) /\ DOMAIN s.rows = 1..Len(s.rows)
          /\ rows[Len(s.rows) + 1] = h /\ \A i \in 1..Len(s.rows) : rows[i] = s.rows[i]
      BY <1>3, <3>1, AppendProperties, LenProperties
    <3>3. \A i \in DOMAIN rows : rows[i] = h \/ (i \in DOMAIN s.rows /\ rows[i] = s.rows[i])
      BY <1>3, <3>2
    <3>4. QED
      BY <1>6, <2>2, <3>3 DEF Elems
  <2>3. QED
    BY <2>1, <2>2
<1>9. QED
  BY <1>7, <1>8, <1>14 DEF t, h

LEMMA RowInv == ASSUME IInv, NEW w \in Workers, Row(w) PROVE IInv'
<1> DEFINE s == wk[w]
           h == Head(s.batch)
           t == Filed(s)
<1>1. Base /\ WorkersOK /\ settled \in [Packets -> Nat] /\ WorkerOK(s)
  BY BaseFacts DEF IInv, WorkersOK
<1>2. /\ s.pc = "packet" /\ h \notin Events /\ wk' = [wk EXCEPT ![w] = t]
      /\ h \in Rows /\ devices' = devices \cup {DeviceOf[h]}
  BY DEF Row, Pkt, Filed, Filled, RowsOf, ErowsOf, Rows
<1>3. UNCHANGED <<ch, depth, counting, stopping, seen, nonce, events, metrics,
                  offers, settled, lapses, early, redisErrs, dbErrs>>
  BY DEF Row, history
<1>4. /\ WorkerOK(t) /\ t.pc \notin Deduping /\ \A p : Own(s, p) = Own(t, p)
      /\ Elems(t.rows) \subseteq Elems(s.rows) \cup ({h} \ Energy)
  BY <1>1, <1>2, RowKeeps
<1> HIDE DEF t
<1>5. wk' \in [Workers -> WorkerType] /\ Goes(w, t)
  BY <1>1, <1>2, <1>4, ExceptGoes DEF WorkerOK
<1>6. WorkersOK' /\ AcceptedAccounted'
  <2>1. \A p \in Packets : Own(wk[w], p) + settled[p] = Own(t, p) + settled'[p]
    BY <1>3, <1>4
  <2>2. ch' = ch /\ offers' = offers /\ settled' \in [Packets -> Nat]
    BY <1>1, <1>3
  <2>3. QED
    BY <1>4, <1>5, <2>1, <2>2, WorkerStep
<1>7. Claimed' /\ EventStoredOnce'
  <2>1. \A p : ~Handles(t, p)
    BY <1>4 DEF Handles
  <2>2. QED
    BY <1>2, <1>3, <2>1, ClaimsKept
<1>8. Base'
  <2>1. devices' \subseteq Devices
    BY <1>2, StoreTypes DEF Devices
  <2>2. QED
    BY <1>1, <1>3, <1>6, <2>1, StoreTypes, BaseKept
<1>9. RowsStored'
  BY <1>3 DEF IInv, RowsStored
<1>11. Known'
  <2> SUFFICES ASSUME NEW q \in Rows \ Energy,
                      q \in metrics \/ \E v \in Workers : q \in Elems(wk'[v].rows)
               PROVE  DeviceOf[q] \in devices'
    BY <1>3 DEF Known
  <2>1. q = h \/ q \in metrics \/ \E v \in Workers : q \in Elems(wk[v].rows)
    BY <1>4, <1>5 DEF Goes
  <2>2. QED
    BY <1>2, <2>1 DEF IInv, Known
<1>10. QED
  BY <1>3, <1>6, <1>7, <1>8, <1>9, <1>11, DepthSame DEF IInv

\* The three ways a packet is dropped before the deduper and the tables.
LEMMA DropKeeps ==
  ASSUME IInv, NEW w \in Workers, wk[w].pc = "packet", Drop(w),
         UNCHANGED <<ch, depth, counting, stopping, seen, nonce, events, metrics, offers,
                     lapses, redisErrs>>,
         dbErrs' \in Nat, devices \subseteq devices', devices' \subseteq Devices,
         early' \subseteq Energy
  PROVE  /\ Base' /\ AcceptedAccounted' /\ DepthAgrees' /\ Claimed' /\ EventStoredOnce' /\ Known'
         /\ \A p \in Packets : p # Pkt(w) => settled'[p] = settled[p]
<1>1. Base /\ WorkersOK /\ WorkerOK(wk[w])
  BY BaseFacts DEF IInv, WorkersOK, Base
<1>2. wk' = [wk EXCEPT ![w] = Advance(@)] /\ Settle({Pkt(w)})
  BY DEF Drop
<1>3. /\ WorkersOK' /\ AcceptedAccounted' /\ settled' \in [Packets -> Nat]
      /\ wk' = [wk EXCEPT ![w] = Advance(wk[w])] /\ Advance(wk[w]).pc \notin Deduping
      /\ \A p \in Packets : p # Pkt(w) => settled'[p] = settled[p]
      /\ BuffersSame
  BY <1>2, AdvanceStep
<1>4. Claimed' /\ EventStoredOnce'
  <2>1. \A p : ~Handles(Advance(wk[w]), p)
    BY <1>3 DEF Handles
  <2>2. QED
    BY <1>3, <2>1, ClaimsKept
<1>5. Base'
  BY <1>1, <1>3, StoreTypes, BaseKept
<1>6. Known'
  BY <1>3, KnownKept
<1>7. QED
  BY <1>3, <1>4, <1>5, <1>6, DepthSame

LEMMA InvalidInv == ASSUME IInv, NEW w \in Workers, Invalid(w) PROVE IInv'
<1>1. /\ wk[w].pc = "packet" /\ Drop(w) /\ Pkt(w) \in Malformed
      /\ UNCHANGED <<ch, depth, counting, stopping, seen, nonce, events, metrics, devices, offers,
                     lapses, early, redisErrs, dbErrs>>
  BY DEF Invalid, store
<1>2. devices \subseteq Devices /\ early \subseteq Energy /\ dbErrs \in Nat
  BY StoreTypes
<1>3. /\ Base' /\ AcceptedAccounted' /\ DepthAgrees' /\ Claimed' /\ EventStoredOnce' /\ Known'
      /\ \A p \in Packets : p # Pkt(w) => settled'[p] = settled[p]
  BY <1>1, <1>2, DropKeeps
<1>4. RowsStored'
  <2>1. \A p \in Rows \ Malformed : settled'[p] = settled[p]
    BY <1>1, <1>3 DEF Rows
  <2>2. QED
    BY <1>1, <2>1, RowsKept
<1>5. QED
  BY <1>3, <1>4 DEF IInv

\* An energy packet whose device is not registered: had a metric packet of the device
\* been settled, its row would be stored and the device known.
LEMMA UnregisteredInv == ASSUME IInv, NEW w \in Workers, Unregistered(w) PROVE IInv'
<1> DEFINE h == Pkt(w)
<1>1. /\ wk[w].pc = "packet" /\ Drop(w) /\ h \in Energy \ Malformed /\ ~stopping
      /\ DeviceOf[h] \notin devices
      /\ early' = IF \A q \in Registrars(h) : settled[q] = 0 THEN early \cup {h} ELSE early
      /\ UNCHANGED <<ch, depth, counting, stopping, seen, nonce, events, metrics, devices, offers,
                     lapses, redisErrs, dbErrs>>
  BY DEF Unregistered, store
<1> HIDE DEF h
<1>2. /\ devices \subseteq Devices /\ early \subseteq Energy /\ dbErrs \in Nat
      /\ settled \in [Packets -> Nat]
  BY StoreTypes, BaseFacts DEF IInv
<1>3. early' \subseteq Energy /\ early \subseteq early'
  BY <1>1, <1>2
<1>4. /\ Base' /\ AcceptedAccounted' /\ DepthAgrees' /\ Claimed' /\ EventStoredOnce' /\ Known'
      /\ \A p \in Packets : p # h => settled'[p] = settled[p]
  BY <1>1, <1>2, <1>3, DropKeeps DEF h
<1>5. dbErrs = 0 => h \in early'
  <2> SUFFICES ASSUME dbErrs = 0, NEW q \in Registrars(h), settled[q] # 0 PROVE FALSE
    BY <1>1
  <2>1. q \in Rows \ (Energy \cup Malformed) /\ DeviceOf[q] = DeviceOf[h] /\ q \in Packets
    BY DEF Registrars, Rows
  <2>2. settled[q] > 0
    BY <1>2, <2>1
  <2>3. q \in metrics \cup early
    BY <1>1, <2>1, <2>2 DEF IInv, RowsStored
  <2>4. q \in metrics
    BY <1>2, <2>1, <2>3
  <2>5. DeviceOf[q] \in devices
    BY <2>1, <2>4 DEF IInv, Known
  <2>6. QED
    BY <1>1, <2>1, <2>5
<1>6. RowsStored'
  <2>1. dbErrs' = 0 => \A p \in Rows \ Malformed : settled'[p] = settled[p] \/ p \in early'
    BY <1>1, <1>4, <1>5 DEF Rows
  <2>2. QED
    BY <1>1, <1>3, <2>1, RowsKept
<1>7. QED
  BY <1>4, <1>6 DEF IInv

LEMMA RowDroppedInv == ASSUME IInv, NEW w \in Workers, RowDropped(w) PROVE IInv'
<1>1. /\ wk[w].pc = "packet" /\ Drop(w) /\ Pkt(w) \in Rows
      /\ dbErrs' = (IF stopping THEN dbErrs ELSE dbErrs + 1)
      /\ devices' \in {devices, devices \cup {DeviceOf[Pkt(w)]}}
      /\ UNCHANGED <<ch, depth, counting, stopping, seen, nonce, events, metrics, offers,
                     lapses, early, redisErrs>>
  BY DEF RowDropped
<1>2. /\ devices \subseteq Devices /\ early \subseteq Energy /\ dbErrs \in Nat
      /\ DeviceOf[Pkt(w)] \in Devices
  BY <1>1, StoreTypes DEF Devices
<1>3. dbErrs' \in Nat /\ ~(dbErrs' = 0 /\ ~stopping')
  BY <1>1, <1>2
<1>4. devices \subseteq devices' /\ devices' \subseteq Devices
  BY <1>1, <1>2
<1>5. /\ Base' /\ AcceptedAccounted' /\ DepthAgrees' /\ Claimed' /\ EventStoredOnce' /\ Known'
  BY <1>1, <1>2, <1>3, <1>4, DropKeeps
<1>6. RowsStored'
  BY <1>3 DEF RowsStored
<1>7. QED
  BY <1>5, <1>6 DEF IInv

-----------------------------------------------------------------------------
(* The deduper.                                                            *)

\* Worker w keeps its batch and goes to another step of the deduper.
LEMMA DedupGoes ==
  ASSUME IInv, NEW w \in Workers, NEW pc \in Deduping,
         wk[w].pc \in Deduping \cup {"packet"}, Pkt(w) \in Events,
         wk' = [wk EXCEPT ![w].pc = pc], ch' = ch, offers' = offers, settled' = settled
  PROVE  /\ WorkersOK' /\ AcceptedAccounted'
         /\ \A v \in Workers \ {w} : wk'[v] = wk[v]
         /\ \A p : Handles(wk'[w], p) <=> Pkt(w) = p
         /\ wk' = [wk EXCEPT ![w] = [wk[w] EXCEPT !.pc = pc]]
         /\ \A p : Handles([wk[w] EXCEPT !.pc = pc], p) <=> Pkt(w) = p
         /\ BuffersSame
<1> DEFINE s == [wk[w] EXCEPT !.pc = pc]
<1>1. Base /\ WorkersOK /\ WorkerOK(wk[w]) /\ wk[w] \in WorkerType /\ settled \in [Packets -> Nat]
  BY BaseFacts DEF IInv, WorkersOK
<1>2. wk' = [wk EXCEPT ![w] = s]
  BY <1>1 DEF WorkersOK
<1>3. /\ s \in WorkerType /\ s.pc = pc /\ s.batch = wk[w].batch
      /\ s.rows = wk[w].rows /\ s.erows = wk[w].erows
  BY <1>1 DEF WorkerType, Pcs, Deduping
<1> HIDE DEF s
<1>4. WorkerOK(s)
  BY <1>1, <1>3 DEF WorkerOK, Deduping, Pkt
<1>5. wk' \in [Workers -> WorkerType] /\ Goes(w, s)
  BY <1>1, <1>2, <1>3, ExceptGoes
<1>6. WorkersOK' /\ AcceptedAccounted'
  <2>1. \A p \in Packets : Own(wk[w], p) + settled[p] = Own(s, p) + settled'[p]
    BY <1>3 DEF Own
  <2>2. settled' \in [Packets -> Nat]
    BY <1>1
  <2>3. QED
    BY <1>4, <1>5, <2>1, <2>2, WorkerStep
<1>7. \A p : Handles(s, p) <=> Pkt(w) = p
  BY <1>3 DEF Handles, Pkt
<1>9. BuffersSame
  BY <1>3, <1>5 DEF Goes, BuffersSame
<1>8. QED
  BY <1>2, <1>5, <1>6, <1>7, <1>9 DEF Goes, s

\* Nothing a deduper step does can lose a row.
LEMMA RowsSame ==
  ASSUME IInv, metrics' = metrics, early' = early, devices' = devices, BuffersSame,
         dbErrs' = 0 => dbErrs = 0, stopping' = stopping,
         \A p \in Rows : settled'[p] = settled[p]
  PROVE  RowsStored' /\ Known'
<1>1. RowsStored'
  BY DEF IInv, RowsStored
<1>2. QED
  BY <1>1, KnownKept

LEMMA SetNXInv == ASSUME IInv, NEW w \in Workers, SetNX(w) PROVE IInv'
<1> DEFINE p == Pkt(w)
<1>1. Base /\ WorkersOK /\ settled \in [Packets -> Nat] /\ events \in [Events -> Nat]
  BY BaseFacts DEF IInv, WorkersOK, Base, TypeOK
<1>2. /\ wk[w].pc = "packet" /\ p \in Events /\ ~stopping
      /\ UNCHANGED <<ch, depth, counting, stopping, nonce, events, metrics, devices,
                     offers, written, refused, lapses, early, redisErrs, dbErrs>>
  BY DEF SetNX
<1>5. \A x : ~Handles(wk[w], x)
  BY <1>2 DEF Handles, Deduping
<1>3. CASE p \in seen
  <2>1. wk' = [wk EXCEPT ![w] = Advance(@)] /\ Settle({p}) /\ UNCHANGED seen
    BY <1>3 DEF SetNX
  <2>2. /\ WorkersOK' /\ AcceptedAccounted' /\ settled' \in [Packets -> Nat]
        /\ wk' = [wk EXCEPT ![w] = Advance(wk[w])] /\ Advance(wk[w]).pc \notin Deduping
        /\ \A x \in Packets : x # p => settled'[x] = settled[x]
        /\ BuffersSame
    BY <1>2, <2>1, AdvanceStep
  <2>3. Claimed' /\ EventStoredOnce'
    <3>1. \A x : ~Handles(Advance(wk[w]), x)
      BY <2>2 DEF Handles
    <3>2. QED
      BY <1>2, <2>1, <2>2, <3>1, ClaimsKept
  <2>4. RowsStored' /\ Known'
    BY <1>2, <2>2, RowsSame DEF Rows
  <2>5. Base'
    BY <1>1, <1>2, <2>1, <2>2, StoreTypes, BaseKept
  <2>6. QED
    BY <1>2, <2>2, <2>3, <2>4, <2>5, DepthSame DEF IInv
<1>4. CASE p \notin seen
  <2>1. seen' = seen \cup {p} /\ wk' = [wk EXCEPT ![w].pc = "nonce"] /\ settled' = settled
    BY <1>4 DEF SetNX, Claim
  <2>2. /\ WorkersOK' /\ AcceptedAccounted'
        /\ \A v \in Workers \ {w} : wk'[v] = wk[v]
        /\ \A x : Handles(wk'[w], x) <=> p = x
        /\ BuffersSame
    <3>1. "nonce" \in Deduping
      BY DEF Deduping
    <3>2. QED
      BY <1>2, <2>1, <3>1, DedupGoes
  <2>3. Claimed'
    <3> SUFFICES ASSUME redisErrs = 0, NEW x \in Events
                 PROVE  events[x] + Cardinality(Handlers(wk', x)) <= lapses[x] + One(x \in seen')
      BY <1>2 DEF Claimed
    <3>1. /\ events[x] \in Nat /\ lapses[x] \in Nat
          /\ events[x] + Cardinality(Handlers(wk, x)) <= lapses[x] + One(x \in seen)
          /\ IsFiniteSet(Handlers(wk, x)) /\ Cardinality(Handlers(wk, x)) \in Nat
      BY <1>2, StoreTypes, HandlersFinite DEF IInv, Claimed
    <3>2. CASE x = p
      <4>1. Handlers(wk', x) \subseteq Handlers(wk, x) \cup {w}
        BY <2>2 DEF Handlers
      <4>2. /\ Cardinality(Handlers(wk, x) \cup {w}) <= Cardinality(Handlers(wk, x)) + 1
            /\ IsFiniteSet(Handlers(wk, x) \cup {w})
            /\ Cardinality(Handlers(wk, x) \cup {w}) \in Nat
        <5> DEFINE H == Handlers(wk, x)
        <5>1. IsFiniteSet(H) /\ Cardinality(H) \in Nat
          BY <3>1
        <5> HIDE DEF H
        <5>2. /\ IsFiniteSet(H \cup {w})
              /\ Cardinality(H \cup {w}) = IF w \in H THEN Cardinality(H) ELSE Cardinality(H) + 1
          BY <5>1, FS_AddElement
        <5>3. QED
          BY <5>1, <5>2 DEF H
      <4>3. Cardinality(Handlers(wk', x)) <= Cardinality(Handlers(wk, x) \cup {w})
        BY <4>1, <4>2, FS_Subset
      <4>4. One(x \in seen) = 0 /\ One(x \in seen') = 1
        BY <1>4, <2>1, <3>2 DEF One
      <4>5. Cardinality(Handlers(wk', x)) \in Nat
        BY HandlersFinite
      <4>6. QED
        BY <3>1, <4>2, <4>3, <4>4, <4>5
    <3> HIDE DEF p
    <3>3. CASE x # p
      <4>1. Handlers(wk', x) = Handlers(wk, x)
        BY <2>2, <3>3, <1>5 DEF Handlers
      <4>2. One(x \in seen') = One(x \in seen)
        BY <2>1, <3>3 DEF One
      <4>3. QED
        BY <3>1, <4>1, <4>2
    <3>4. QED
      BY <3>2, <3>3
  <2>4. EventStoredOnce'
    BY <1>2 DEF IInv, EventStoredOnce
  <2>5. RowsStored' /\ Known'
    BY <1>2, <2>1, <2>2, RowsSame
  <2>6. Base'
    BY <1>1, <1>2, <2>1, <2>2, StoreTypes, BaseKept
  <2>7. QED
    BY <1>2, <2>2, <2>3, <2>4, <2>5, <2>6, DepthSame DEF IInv
<1>6. QED
  BY <1>3, <1>4

LEMMA GetNonceInv == ASSUME IInv, NEW w \in Workers, GetNonce(w) PROVE IInv'
<1> DEFINE p == Pkt(w)
<1>1. Base /\ WorkersOK /\ WorkerOK(wk[w])
  BY BaseFacts DEF IInv, WorkersOK
<1>2. /\ wk[w].pc = "nonce" /\ ~stopping /\ wk[w].pc \in Deduping
      /\ UNCHANGED <<ch, depth, counting, stopping, seen, nonce, events, metrics, devices,
                     offers, lapses, early, redisErrs, dbErrs>>
  BY DEF GetNonce, store, Deduping
<1>3. p \in Events
  BY <1>1, <1>2 DEF WorkerOK, Pkt
<1>4. CASE wk' = [wk EXCEPT ![w] = Advance(@)] /\ Settle({p})
  <2>1. /\ WorkersOK' /\ AcceptedAccounted' /\ settled' \in [Packets -> Nat]
        /\ wk' = [wk EXCEPT ![w] = Advance(wk[w])] /\ Advance(wk[w]).pc \notin Deduping
        /\ \A x \in Packets : x # p => settled'[x] = settled[x]
        /\ BuffersSame
    BY <1>2, <1>4, AdvanceStep
  <2>2. Claimed' /\ EventStoredOnce'
    <3>1. \A x : ~Handles(Advance(wk[w]), x)
      BY <2>1 DEF Handles
    <3>2. QED
      BY <1>2, <2>1, <3>1, ClaimsKept
  <2>3. RowsStored' /\ Known'
    BY <1>2, <1>3, <2>1, RowsSame DEF Rows
  <2>4. Base'
    BY <1>1, <1>2, <2>1, StoreTypes, BaseKept
  <2>5. QED
    BY <1>2, <2>1, <2>2, <2>3, <2>4, DepthSame DEF IInv
<1>5. CASE wk' = [wk EXCEPT ![w].pc = "setnonce"] /\ settled' = settled
  <2>1. "setnonce" \in Deduping
    BY DEF Deduping
  <2>2. /\ WorkersOK' /\ AcceptedAccounted'
        /\ wk' = [wk EXCEPT ![w] = [wk[w] EXCEPT !.pc = "setnonce"]]
        /\ \A x : Handles([wk[w] EXCEPT !.pc = "setnonce"], x) <=> p = x
        /\ BuffersSame
    BY <1>2, <1>3, <1>5, <2>1, DedupGoes
  <2>3. Claimed' /\ EventStoredOnce'
    <3>1. \A x : Handles([wk[w] EXCEPT !.pc = "setnonce"], x) => Handles(wk[w], x)
      BY <1>2, <2>2 DEF Handles, Pkt
    <3>2. QED
      BY <1>2, <2>2, <3>1, ClaimsKept
  <2>4. RowsStored' /\ Known'
    BY <1>2, <1>5, <2>2, RowsSame
  <2>5. Base'
    BY <1>1, <1>2, <1>5, <2>2, StoreTypes, BaseFacts, BaseKept
  <2>6. QED
    BY <1>2, <2>2, <2>3, <2>4, <2>5, DepthSame DEF IInv
<1>6. QED
  BY <1>4, <1>5 DEF GetNonce

LEMMA SetNonceInv == ASSUME IInv, NEW w \in Workers, SetNonce(w) PROVE IInv'
<1> DEFINE p == Pkt(w)
<1>1. Base /\ WorkersOK /\ WorkerOK(wk[w]) /\ settled \in [Packets -> Nat]
  BY BaseFacts DEF IInv, WorkersOK
<1>2. /\ wk[w].pc = "setnonce" /\ ~stopping /\ wk[w].pc \in Deduping
      /\ nonce' = [nonce EXCEPT ![EventSources[p]] = p]
      /\ wk' = [wk EXCEPT ![w].pc = "write"]
      /\ UNCHANGED <<ch, depth, counting, stopping, seen, events, metrics, devices,
                     offers, settled, lapses, early, redisErrs, dbErrs>>
  BY DEF SetNonce, history, Deduping
<1>3. p \in Events
  BY <1>1, <1>2 DEF WorkerOK, Pkt
<1>4. nonce' \in [Sources -> 0..NPackets]
  <2>1. nonce \in [Sources -> 0..NPackets]
    BY StoreTypes
  <2>2. p \in 0..NPackets
    <3>1. p \in Packets
      BY <1>3, IngestAssumption
    <3> HIDE DEF p
    <3>2. QED
      BY <3>1, IngestAssumption DEF Packets
  <2>3. QED
    BY <1>2, <2>1, <2>2
<1>5. "write" \in Deduping
  BY DEF Deduping
<1>6. /\ WorkersOK' /\ AcceptedAccounted'
      /\ wk' = [wk EXCEPT ![w] = [wk[w] EXCEPT !.pc = "write"]]
      /\ \A x : Handles([wk[w] EXCEPT !.pc = "write"], x) <=> p = x
      /\ BuffersSame
  BY <1>2, <1>3, <1>5, DedupGoes
<1>7. Claimed' /\ EventStoredOnce'
  <2>1. \A x : Handles([wk[w] EXCEPT !.pc = "write"], x) => Handles(wk[w], x)
    BY <1>2, <1>6 DEF Handles, Pkt
  <2>2. QED
    BY <1>2, <1>6, <2>1, ClaimsKept
<1>8. RowsStored' /\ Known'
  BY <1>2, <1>6, RowsSame DEF Rows
<1>9. Base'
  BY <1>1, <1>2, <1>4, <1>6, StoreTypes, BaseKept
<1>10. QED
  BY <1>2, <1>6, <1>7, <1>8, <1>9, DepthSame DEF IInv

\* A Redis call that fails lets the packet through; from then on nothing is claimed.
LEMMA RedisFailsInv ==
  ASSUME IInv, NEW w \in Workers, RedisFails(w, {"packet", "nonce", "setnonce"})
  PROVE  IInv'
<1>1. /\ Base /\ WorkersOK /\ WorkerOK(wk[w]) /\ settled \in [Packets -> Nat]
      /\ redisErrs \in Nat
  BY BaseFacts DEF IInv, WorkersOK, Base
<1>2. /\ wk[w].pc \in Deduping \cup {"packet"} /\ (wk[w].pc = "packet" => Pkt(w) \in Events)
      /\ redisErrs' = (IF stopping THEN redisErrs ELSE redisErrs + 1)
      /\ wk' = [wk EXCEPT ![w].pc = "write"]
      /\ UNCHANGED <<ch, depth, counting, stopping, seen, nonce, events, metrics, devices,
                     offers, settled, lapses, early, dbErrs>>
  BY DEF RedisFails, Deduping, store, history
<1>3. Pkt(w) \in Events /\ "write" \in Deduping
  BY <1>1, <1>2 DEF WorkerOK, Pkt, Deduping
<1>4. WorkersOK' /\ AcceptedAccounted' /\ BuffersSame
  BY <1>2, <1>3, DedupGoes
<1>5. redisErrs' \in Nat /\ (redisErrs' = 0 => stopping' /\ redisErrs = 0)
  BY <1>1, <1>2
<1>6. Claimed'
  BY <1>5 DEF Claimed
<1>7. EventStoredOnce'
  BY <1>2, <1>5 DEF IInv, EventStoredOnce
<1>8. RowsStored' /\ Known'
  BY <1>2, <1>4, RowsSame DEF Rows
<1>9. Base'
  BY <1>1, <1>2, <1>4, <1>5, StoreTypes, BaseKept
<1>10. QED
  BY <1>2, <1>4, <1>6, <1>7, <1>8, <1>9, DepthSame DEF IInv

LEMMA WriteEventInv == ASSUME IInv, NEW w \in Workers, WriteEvent(w) PROVE IInv'
<1> DEFINE p == Pkt(w)
<1>1. /\ Base /\ WorkersOK /\ WorkerOK(wk[w]) /\ events \in [Events -> Nat] /\ dbErrs \in Nat
  BY BaseFacts DEF IInv, WorkersOK, Base, TypeOK
<1>2. /\ wk[w].pc = "write" /\ wk[w].pc \in Deduping
      /\ wk' = [wk EXCEPT ![w] = Advance(@)] /\ Settle({p})
      /\ UNCHANGED <<ch, depth, counting, stopping, seen, nonce, metrics, devices, offers,
                     lapses, early, redisErrs>>
  BY DEF WriteEvent, Deduping
<1>3. p \in Events /\ Handles(wk[w], p)
  BY <1>1, <1>2 DEF WorkerOK, Pkt, Handles
<1>4. /\ WorkersOK' /\ AcceptedAccounted' /\ settled' \in [Packets -> Nat]
      /\ wk' = [wk EXCEPT ![w] = Advance(wk[w])] /\ Advance(wk[w]).pc \notin Deduping
      /\ \A x \in Packets : x # p => settled'[x] = settled[x]
      /\ BuffersSame
  BY <1>2, AdvanceStep
<1>5. \/ ~stopping /\ events' = [events EXCEPT ![p] = @ + 1] /\ dbErrs' = dbErrs
      \/ events' = events /\ dbErrs' = (IF stopping THEN dbErrs ELSE dbErrs + 1)
  BY DEF WriteEvent
<1>6. dbErrs' \in Nat /\ (dbErrs' = 0 => dbErrs = 0) /\ events' \in [Events -> Nat]
  BY <1>1, <1>3, <1>5
<1>7. \A x : ~Handles(Advance(wk[w]), x)
  BY <1>4 DEF Handles
<1>8. Claimed' /\ EventStoredOnce'
  <2>1. CASE events' = events
    BY <1>2, <1>4, <1>7, <2>1, ClaimsKept
  <2>2. CASE ~stopping /\ events' = [events EXCEPT ![p] = @ + 1]
    <3>1. wk'[w] = Advance(wk[w]) /\ \A v \in Workers \ {w} : wk'[v] = wk[v]
      BY <1>1, <1>4 DEF WorkersOK
    <3>2. /\ Handlers(wk', p) = Handlers(wk, p) \ {w} /\ w \in Handlers(wk, p)
          /\ \A x : Handlers(wk', x) \subseteq Handlers(wk, x)
      BY <1>3, <1>7, <3>1 DEF Handlers
    <3>3. ASSUME redisErrs = 0, NEW x \in Events
          PROVE  events'[x] + Cardinality(Handlers(wk', x)) <= lapses[x] + One(x \in seen)
      <4>1. /\ events[x] \in Nat /\ lapses[x] \in Nat /\ One(x \in seen) \in Nat
            /\ events[x] + Cardinality(Handlers(wk, x)) <= lapses[x] + One(x \in seen)
            /\ Cardinality(Handlers(wk, x)) \in Nat /\ Cardinality(Handlers(wk', x)) \in Nat
            /\ IsFiniteSet(Handlers(wk, x))
        BY <2>2, <3>3, StoreTypes, HandlersFinite DEF IInv, Claimed, One
      <4>2. CASE x = p
        <5>1. events'[x] = events[x] + 1
          BY <1>1, <1>3, <2>2, <4>2
        <5>2. Cardinality(Handlers(wk', x)) = Cardinality(Handlers(wk, x)) - 1
          BY <3>2, <4>1, <4>2, FS_RemoveElement
        <5>3. QED
          BY <4>1, <5>1, <5>2
      <4>3. CASE x # p
        <5>1. events'[x] = events[x]
          BY <1>1, <1>3, <2>2, <4>3
        <5>2. Cardinality(Handlers(wk', x)) <= Cardinality(Handlers(wk, x))
          BY <3>2, FewerHandlers
        <5>3. QED
          BY <4>1, <5>1, <5>2
      <4>4. QED
        BY <4>2, <4>3
    <3>4. Claimed'
      BY <1>2, <3>3 DEF Claimed
    <3>5. EventStoredOnce'
      <4> SUFFICES ASSUME redisErrs = 0, NEW x \in Events PROVE events'[x] <= 1 + lapses[x]
        BY <1>2 DEF EventStoredOnce
      <4>1. /\ events'[x] + Cardinality(Handlers(wk', x)) <= lapses[x] + One(x \in seen)
            /\ Cardinality(Handlers(wk', x)) \in Nat /\ events'[x] \in Nat /\ lapses[x] \in Nat
        BY <1>6, <3>3, StoreTypes, HandlersFinite
      <4>2. One(x \in seen) \in {0, 1}
        BY DEF One
      <4>3. QED
        BY <4>1, <4>2
    <3>6. QED
      BY <3>4, <3>5
  <2>3. QED
    BY <1>5, <2>1, <2>2
<1>9. RowsStored' /\ Known'
  <2>1. \A x \in Rows : settled'[x] = settled[x]
    BY <1>3, <1>4 DEF Rows
  <2>2. QED
    BY <1>2, <1>4, <1>6, <2>1, RowsSame
<1>10. Base'
  BY <1>1, <1>2, <1>4, <1>6, StoreTypes, BaseKept
<1>11. QED
  BY <1>2, <1>4, <1>8, <1>9, <1>10, DepthSame DEF IInv

\* The hour of a key is over: what was claimed with it counts for the expired ones.
LEMMA PktExpiresInv == ASSUME IInv, NEW p \in Events, PktExpires(p) PROVE IInv'
<1>1. /\ p \in seen /\ seen' = seen \ {p} /\ lapses' = [lapses EXCEPT ![p] = @ + 1]
      /\ UNCHANGED <<ch, depth, counting, wk, stopping, nonce, events, metrics, devices,
                     offers, settled, early, redisErrs, dbErrs>>
  BY DEF PktExpires
<1>2. lapses \in [Events -> Nat] /\ events \in [Events -> Nat] /\ lapses' \in [Events -> Nat]
  BY <1>1, StoreTypes
<1>3. \A x \in Events : lapses'[x] + One(x \in seen') = lapses[x] + One(x \in seen)
  BY <1>1, <1>2 DEF One
<1>4. Claimed'
  BY <1>1, <1>3 DEF IInv, Claimed, Handlers
<1>5. EventStoredOnce'
  <2>1. \A x \in Events : lapses[x] <= lapses'[x]
    BY <1>1, <1>2
  <2>2. QED
    BY <1>1, <1>2, <2>1 DEF IInv, EventStoredOnce
<1>6. Base'
  BY <1>1, <1>2 DEF IInv, Base, TypeOK
<1>7. AcceptedAccounted' /\ DepthAgrees' /\ RowsStored' /\ Known'
  BY <1>1 DEF IInv, AcceptedAccounted, Held, DepthAgrees, RowsStored, Known
<1>8. QED
  BY <1>4, <1>5, <1>6, <1>7 DEF IInv

LEMMA NonceExpiresInv == ASSUME IInv, NEW s \in Sources, NonceExpires(s) PROVE IInv'
<1>1. /\ nonce' = [nonce EXCEPT ![s] = 0]
      /\ UNCHANGED <<ch, depth, counting, wk, stopping, seen, events, metrics, devices,
                     offers, settled, lapses, early, redisErrs, dbErrs>>
  BY DEF NonceExpires, history
<1>2. nonce' \in [Sources -> 0..NPackets]
  BY <1>1, StoreTypes, IngestAssumption
<1>3. Base'
  BY <1>1, <1>2 DEF IInv, Base, TypeOK
<1>4. QED
  BY <1>1, <1>3 DEF IInv, AcceptedAccounted, Held, DepthAgrees, RowsStored, Known,
                    Claimed, Handlers, EventStoredOnce

-----------------------------------------------------------------------------
(* Submit and the rest.                                                    *)

LEMMA SubmitInv == ASSUME IInv, NEW b \in Batches, Submit(b) PROVE IInv'
<1>1. /\ Base /\ WorkersOK /\ settled \in [Packets -> Nat] /\ offers \in [Packets -> Nat]
      /\ ch \in Seq(Batches) /\ counting \in Nat
      /\ depth \in 0..(DepthModulus - 1)
  BY BaseFacts DEF IInv, Base, TypeOK
<1>2. /\ Len(ch) < ChannelSize /\ ch' = Append(ch, b) /\ counting' = counting + 1
      /\ offers' = [p \in Packets |-> IF p \in Elems(b) THEN offers[p] + 1 ELSE offers[p]]
      /\ UNCHANGED <<depth, wk, stopping, seen, nonce, events, metrics, devices, settled,
                     lapses, early, redisErrs, dbErrs>>
  BY DEF Submit, store
<1>3. /\ Len(ch) \in Nat /\ ch' \in Seq(Batches) /\ Len(ch') = Len(ch) + 1
      /\ DOMAIN ch = 1..Len(ch) /\ DOMAIN ch' = 1..(Len(ch) + 1)
      /\ ch'[Len(ch) + 1] = b /\ \A i \in 1..Len(ch) : ch'[i] = ch[i]
  BY <1>1, <1>2, AppendProperties, LenProperties
<1>4. /\ offers' \in [Packets -> Nat]
      /\ \A p \in Packets : offers'[p] = offers[p] + One(p \in Elems(b))
  BY <1>1, <1>2 DEF One
<1>5. ChannelSize \in Nat /\ DepthModulus \in Nat /\ DepthModulus > ChannelSize
  BY IngestAssumption
<1>6. Base'
  <2>1. Len(ch') <= ChannelSize
    BY <1>2, <1>3, <1>5
  <2>2. counting' \in Nat
    BY <1>1, <1>2
  <2>3. TypeOK'
    BY <1>2, <1>3, <1>4, <2>1, <2>2 DEF Base, IInv, TypeOK
  <2>4. QED
    BY <1>2, <2>3 DEF IInv, Base
<1>7. DepthAgrees'
  <2> DEFINE a == depth + counting
             M == DepthModulus
  <2>1. a \in Int /\ M \in Nat /\ M > 0 /\ a % M = Len(ch)
    BY <1>1, <1>5 DEF IInv, DepthAgrees
  <2>2. a % M < M - 1
    BY <1>2, <1>3, <1>5, <2>1
  <2>3. (a + 1) % M = (a % M) + 1
    BY <2>1, <2>2, NextRemainder
  <2>4. depth' + counting' = a + 1
    BY <1>1, <1>2
  <2> HIDE DEF a
  <2>5. (depth' + counting') % M = Len(ch')
    BY <1>3, <2>1, <2>3, <2>4
  <2>6. QED
    BY <2>5 DEF DepthAgrees
<1>8. ASSUME NEW p \in Packets PROVE offers'[p] = Held(p)' + settled'[p]
  <2> DEFINE n == Len(ch)
             A == {i \in DOMAIN ch : p \in Elems(ch[i])}
             B == {i \in DOMAIN ch' : p \in Elems(ch'[i])}
             x == One(p \in Elems(b))
  <2>1. /\ A \in SUBSET (1..n) /\ B \in SUBSET (1..(n + 1)) /\ n \in Nat
        /\ \A i \in 1..n : (i \in A) = (i \in B)
        /\ (n + 1 \in B) = (p \in Elems(b))
    BY <1>3
  <2> HIDE DEF A, B, n
  <2>2. Cardinality(A) \in Nat /\ Cardinality(B) = Cardinality(A) + One(n + 1 \in B)
    BY <2>1, GrowCardinality
  <2>3. One(n + 1 \in B) = x /\ x \in Nat
    BY <2>1 DEF One
  <2> DEFINE U == Cardinality(Spots([v \in Workers |-> wk[v].batch], MaxBatch, p))
             V == Cardinality(Spots([v \in Workers |-> wk[v].rows], BufferRows, p))
             W == Cardinality(Spots([v \in Workers |-> wk[v].erows], BufferRows, p))
             C == Cardinality(A)
             D == Cardinality(B)
             H == Held(p)
             H2 == Held(p)'
  <2>4. H = C + U + V + W /\ H2 = D + U + V + W
    BY <1>2 DEF Held, A, B
  <2>5. U \in Nat /\ V \in Nat /\ W \in Nat
    <3>1. \A f, n1 : n1 \in Nat => Cardinality(Spots(f, n1, p)) \in Nat
      <4> SUFFICES ASSUME NEW f, NEW n1 \in Nat PROVE Cardinality(Spots(f, n1, p)) \in Nat
        OBVIOUS
      <4>1. IsFiniteSet(1..n1) /\ IsFiniteSet(Workers)
        BY FS_Interval, IngestAssumption
      <4>2. IsFiniteSet(Workers \X (1..n1))
        BY <4>1, FS_Product
      <4>3. IsFiniteSet(Spots(f, n1, p))
        BY <4>2, FS_Subset DEF Spots
      <4>4. QED
        BY <4>3, FS_CardinalityType
    <3>2. MaxBatch \in Nat /\ BufferRows \in Nat
      BY IngestAssumption
    <3>3. QED
      BY <3>1, <3>2
  <2>6. offers[p] = H + settled[p] /\ offers'[p] = offers[p] + x /\ settled'[p] = settled[p] /\ settled[p] \in Nat
    BY <1>1, <1>2, <1>4 DEF IInv, AcceptedAccounted
  <2>7. C \in Nat /\ D = C + x /\ x \in Nat
    BY <2>2, <2>3
  <2> HIDE DEF x, U, V, W, C, D, H, H2
  <2>8. offers'[p] = H2 + settled'[p]
    BY <2>4, <2>5, <2>6, <2>7
  <2>9. QED
    BY <2>8 DEF H2
<1>9. AcceptedAccounted'
  BY <1>8 DEF AcceptedAccounted
<1>10. RowsStored' /\ Claimed' /\ EventStoredOnce' /\ Known'
  BY <1>2 DEF IInv, RowsStored, Claimed, Handlers, EventStoredOnce, Known
<1>11. QED
  BY <1>6, <1>7, <1>9, <1>10 DEF IInv

LEMMA CountUpInv == ASSUME IInv, CountUp PROVE IInv'
<1>1. depth \in 0..(DepthModulus - 1) /\ counting \in Nat
  BY DEF IInv, Base, TypeOK
<1>2. /\ counting > 0 /\ counting' = counting - 1 /\ depth' = (depth + 1) % DepthModulus
      /\ UNCHANGED <<ch, wk, stopping, store, history, redisErrs, dbErrs>>
  BY DEF CountUp
<1>3. counting \in Int /\ DepthModulus \in Nat /\ DepthModulus > 0
  BY <1>1, IngestAssumption
<1>4. /\ depth' \in 0..(DepthModulus - 1)
      /\ (depth' + counting') % DepthModulus = (depth + counting) % DepthModulus
  <2>1. /\ (depth + 1) % DepthModulus \in 0..(DepthModulus - 1)
        /\ (((depth + 1) % DepthModulus) + (counting - 1)) % DepthModulus
             = (depth + counting) % DepthModulus
    BY <1>1, <1>3, DepthUp
  <2>2. QED
    BY <1>2, <2>1
<1>5. DepthAgrees'
  BY <1>2, <1>4 DEF IInv, DepthAgrees
<1>6. Base'
  <2>1. counting' \in Nat
    BY <1>1, <1>2
  <2>2. TypeOK'
    BY <1>2, <1>4, <2>1 DEF IInv, Base, TypeOK, store, history
  <2>3. QED
    BY <1>2, <2>2 DEF IInv, Base
<1>7. AcceptedAccounted' /\ RowsStored' /\ Claimed' /\ EventStoredOnce' /\ Known'
  BY <1>2 DEF IInv, AcceptedAccounted, Held, RowsStored, Claimed, Handlers, EventStoredOnce, Known,
              store, history
<1>8. QED
  BY <1>5, <1>6, <1>7 DEF IInv

LEMMA ShutdownInv == ASSUME IInv, Shutdown PROVE IInv'
<1>1. /\ stopping' = TRUE
      /\ UNCHANGED <<ch, depth, counting, wk, store, history, redisErrs, dbErrs>>
  BY DEF Shutdown
<1>2. Base'
  BY <1>1 DEF IInv, Base, TypeOK, store, history
<1>3. AcceptedAccounted' /\ DepthAgrees' /\ EventStoredOnce' /\ Known'
  BY <1>1 DEF IInv, AcceptedAccounted, Held, DepthAgrees, EventStoredOnce, Known, store, history
<1>4. RowsStored' /\ Claimed'
  BY <1>1 DEF RowsStored, Claimed
<1>5. QED
  BY <1>2, <1>3, <1>4 DEF IInv

LEMMA InitInv == Init => IInv
<1> SUFFICES ASSUME Init PROVE IInv
  OBVIOUS
<1> DEFINE s == [pc |-> "select", batch |-> <<>>, rows |-> <<>>, erows |-> <<>>]
<1>1. s \in WorkerType /\ s.pc = "select" /\ s.batch = <<>> /\ s.rows = <<>> /\ s.erows = <<>>
  BY DEF WorkerType, Pcs
<1>2. WorkerOK(s)
  <2>1. Len(<<>>) < BufferRows /\ Len(<<>>) <= BufferRows /\ Len(<<>>) <= MaxBatch
    BY IngestAssumption
  <2> HIDE DEF s
  <2>2. QED
    BY <1>1, <2>1 DEF WorkerOK, Deduping
<1>3. wk = [w \in Workers |-> s]
  BY DEF Init
<1> HIDE DEF s
<1>4. wk \in [Workers -> WorkerType] /\ \A w \in Workers : wk[w] = s /\ WorkerOK(wk[w])
  BY <1>1, <1>2, <1>3
<1>5. Base
  <2>1. ch \in Seq(Batches) /\ Len(ch) <= ChannelSize
    BY IngestAssumption DEF Init
  <2>2. depth \in 0..(DepthModulus - 1) /\ counting \in Nat
    BY IngestAssumption DEF Init
  <2>3. nonce \in [Sources -> 0..NPackets]
    BY IngestAssumption DEF Init
  <2>4. \A w \in Workers : /\ Len(wk[w].batch) <= MaxBatch
                           /\ Len(wk[w].rows) <= BufferRows /\ Len(wk[w].erows) <= BufferRows
    BY <1>4 DEF WorkerOK
  <2>5. QED
    BY <1>4, <2>1, <2>2, <2>3, <2>4 DEF Init, Base, TypeOK, WorkerType, Pcs
<1>6. AcceptedAccounted
  <2> SUFFICES ASSUME NEW p \in Packets PROVE offers[p] = Held(p) + settled[p]
    BY DEF AcceptedAccounted
  <2>1. \A f, n : (\A w \in Workers : f[w] = <<>>) => Spots(f, n, p) = {}
    BY DEF Spots
  <2>2. /\ Spots([w \in Workers |-> wk[w].batch], MaxBatch, p) = {}
        /\ Spots([w \in Workers |-> wk[w].rows], BufferRows, p) = {}
        /\ Spots([w \in Workers |-> wk[w].erows], BufferRows, p) = {}
    BY <1>1, <1>4, <2>1
  <2>3. {i \in DOMAIN ch : p \in Elems(ch[i])} = {}
    BY DEF Init
  <2>4. Cardinality({}) = 0
    BY FS_EmptySet
  <2>5. Held(p) = 0
    <3>1. Held(p) = Cardinality({}) + Cardinality({}) + Cardinality({}) + Cardinality({})
      BY <2>2, <2>3, Zenon DEF Held
    <3>2. QED
      BY <2>4, <3>1
  <2>6. QED
    BY <2>5 DEF Init
<1>7. DepthAgrees
  <2>1. 0 \in 0..(DepthModulus - 1) /\ DepthModulus \in Nat /\ DepthModulus > 0
    BY IngestAssumption
  <2>2. (0 + 0) % DepthModulus = 0
    BY <2>1, SmallRemainder
  <2>3. QED
    BY <2>2 DEF DepthAgrees, Init
<1>8. RowsStored /\ EventStoredOnce
  BY DEF Init, RowsStored, EventStoredOnce, Rows
<1>9. Claimed
  <2>1. \A p : Handlers(wk, p) = {}
    BY <1>1, <1>4 DEF Handlers, Handles, Deduping
  <2>2. Cardinality({}) = 0
    BY FS_EmptySet
  <2>3. \A p \in Events : events[p] = 0 /\ lapses[p] = 0 /\ One(p \in seen) = 0
    BY DEF Init, One
  <2>4. QED
    BY <2>1, <2>2, <2>3 DEF Claimed
<1>11. Known
  BY <1>1, <1>4 DEF Known, Init, Elems
<1>10. QED
  BY <1>5, <1>6, <1>7, <1>8, <1>9, <1>11 DEF IInv

-----------------------------------------------------------------------------
(* The theorems.                                                           *)

LEMMA NextInv == ASSUME IInv, [Next]_vars PROVE IInv'
<1>1. CASE \E b \in Batches : Submit(b)
  BY <1>1, SubmitInv
<1>2. CASE CountUp
  BY <1>2, CountUpInv
<1>3. CASE \E w \in Workers : Work(w)
  <2>1. PICK w \in Workers : Work(w)
    BY <1>3
  <2>2. CASE Take(w)
    BY <2>2, TakeInv
  <2>3. CASE Tick(w) \/ WorkerStop(w) \/ FullFlush(w)
    BY <2>3, FlushInv
  <2>4. CASE Invalid(w) \/ Row(w) \/ Unregistered(w) \/ RowDropped(w)
    BY <2>4, InvalidInv, RowInv, UnregisteredInv, RowDroppedInv
  <2>5. CASE SetNX(w) \/ GetNonce(w) \/ SetNonce(w) \/ WriteEvent(w)
    BY <2>5, SetNXInv, GetNonceInv, SetNonceInv, WriteEventInv
  <2>6. CASE RedisFails(w, {"packet", "nonce", "setnonce"})
    BY <2>6, RedisFailsInv
  <2>7. QED
    BY <2>1, <2>2, <2>3, <2>4, <2>5, <2>6 DEF Work
<1>4. CASE Shutdown
  BY <1>4, ShutdownInv
<1>7. CASE \E p \in Events : PktExpires(p)
  BY <1>7, PktExpiresInv
<1>8. CASE \E s \in Sources : NonceExpires(s)
  BY <1>8, NonceExpiresInv
<1>5. CASE UNCHANGED vars
  BY <1>5 DEF vars, store, history, IInv, Base, TypeOK, AcceptedAccounted, Held, DepthAgrees,
              RowsStored, Claimed, Handlers, EventStoredOnce, Known
<1>6. QED
  BY <1>1, <1>2, <1>3, <1>4, <1>5, <1>7, <1>8 DEF Next

\* The inductive invariant of the pipeline holds in every reachable state.
THEOREM IngestInvariant == Spec => []IInv
<1>1. Init => IInv
  BY InitInv
<1>2. IInv /\ [Next]_vars => IInv'
  BY NextInv
<1>3. QED
  BY <1>1, <1>2, PTL DEF Spec

\* Whatever fails and however the workers interleave, each packet Submit accepted is held
\* or settled exactly once, queueDepth agrees with the channel but for handlers that have
\* not counted yet, and without database errors a settled row is stored, unless its packet
\* failed validation or was an energy packet that came before its device was registered.
THEOREM IngestAccounted == Spec => []Accounted
<1>1. IInv => Accounted
  BY DEF IInv, Base, Accounted
<1>2. QED
  BY <1>1, IngestInvariant, PTL

\* As long as no Redis call has failed an event is stored at most once in each window of
\* its key, however often it is sent and whichever workers have it at the same time.
THEOREM IngestEventStoredOnce == Spec => []EventStoredOnce
<1>1. IInv => EventStoredOnce
  BY DEF IInv
<1>2. QED
  BY <1>1, IngestInvariant, PTL

=============================================================================
