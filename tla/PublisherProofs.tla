-------------------------- MODULE PublisherProofs ---------------------------
(***************************************************************************)
(* Proofs about the collector's publisher, for every number of packets,    *)
(* batch size, number of senders, queue limit and number of failures: its  *)
(* type invariant, which bounds the queue, the agreement of the collection *)
(* gate with the failure streak, and that no packet vanishes.              *)
(***************************************************************************)
EXTENDS EdrPublisher, SequenceTheorems, FiniteSetTheorems, TLAPS

-----------------------------------------------------------------------------
(* Sequences that hold nothing twice.                                      *)

\* No two positions hold the same.
NoDup(s) == \A i, j \in DOMAIN s : s[i] = s[j] => i = j

\* The empty sequence.
LEMMA EmptyElems == ToSet(<<>>) = {} /\ NoDup(<<>>)
BY DEF ToSet, NoDup

\* A new element at the end.
LEMMA AppendElems ==
  ASSUME NEW S, NEW s \in Seq(S), NEW e \in S
  PROVE  /\ Append(s, e) \in Seq(S) /\ Len(Append(s, e)) = Len(s) + 1
         /\ ToSet(Append(s, e)) = ToSet(s) \cup {e}
         /\ NoDup(s) /\ e \notin ToSet(s) => NoDup(Append(s, e))
<1> DEFINE t == Append(s, e)
<1>1. /\ t \in Seq(S) /\ Len(t) = Len(s) + 1 /\ Len(s) \in Nat
      /\ DOMAIN s = 1..Len(s) /\ DOMAIN t = 1..(Len(s) + 1)
      /\ \A i \in 1..Len(s) : t[i] = s[i]
      /\ t[Len(s) + 1] = e
  BY AppendProperties, LenProperties
<1> HIDE DEF t
<1>2. \A i \in DOMAIN t : i \in DOMAIN s \/ i = Len(s) + 1
  BY <1>1
<1>3. ToSet(t) = ToSet(s) \cup {e}
  <2>1. \A x \in ToSet(t) : x \in ToSet(s) \cup {e}
    BY <1>1, <1>2 DEF ToSet
  <2>2. \A x \in ToSet(s) : x \in ToSet(t)
    BY <1>1 DEF ToSet
  <2>3. e \in ToSet(t)
    BY <1>1 DEF ToSet
  <2>4. QED
    BY <2>1, <2>2, <2>3
<1>4. ASSUME NoDup(s), e \notin ToSet(s) PROVE NoDup(t)
  <2>1. \A i \in DOMAIN s : s[i] # e
    BY <1>4 DEF ToSet
  <2>2. QED
    BY <1>1, <1>2, <1>4, <2>1 DEF NoDup
<1>5. QED
  BY <1>1, <1>3, <1>4 DEF t

\* Without its head, a sequence has the other elements.
LEMMA TailElems ==
  ASSUME NEW S, NEW s \in Seq(S), s # <<>>, NoDup(s)
  PROVE  /\ Tail(s) \in Seq(S) /\ Len(Tail(s)) = Len(s) - 1
         /\ Head(s) \in S /\ Head(s) \in ToSet(s)
         /\ ToSet(Tail(s)) = ToSet(s) \ {Head(s)}
         /\ NoDup(Tail(s))
<1> DEFINE t == Tail(s)
           h == Head(s)
<1>1. /\ t \in Seq(S) /\ Len(t) = Len(s) - 1 /\ Len(s) \in Nat /\ Len(s) > 0
      /\ DOMAIN s = 1..Len(s) /\ DOMAIN t = 1..(Len(s) - 1)
      /\ \A i \in 1..(Len(s) - 1) : t[i] = s[i + 1]
      /\ h = s[1] /\ h \in S
  BY HeadTailProperties, LenProperties, EmptySeq
<1> HIDE DEF t, h
<1>2. \A i \in DOMAIN s : i = 1 \/ (i - 1 \in DOMAIN t /\ t[i - 1] = s[i])
  BY <1>1
<1>3. \A i \in DOMAIN t : i + 1 \in DOMAIN s /\ t[i] = s[i + 1] /\ i + 1 # 1
  BY <1>1
<1>4. 1 \in DOMAIN s
  BY <1>1
<1>5. ToSet(t) = ToSet(s) \ {h}
  <2>1. \A x \in ToSet(t) : x \in ToSet(s) /\ x # h
    BY <1>1, <1>3, <1>4 DEF ToSet, NoDup
  <2>2. \A x \in ToSet(s) : x = h \/ x \in ToSet(t)
    BY <1>1, <1>2 DEF ToSet
  <2>3. QED
    BY <2>1, <2>2
<1>6. NoDup(t)
  <2> SUFFICES ASSUME NEW i \in DOMAIN t, NEW j \in DOMAIN t, t[i] = t[j] PROVE i = j
    BY DEF NoDup
  <2>1. i + 1 = j + 1
    BY <1>3 DEF NoDup
  <2>2. QED
    BY <1>1, <2>1
<1>7. h \in ToSet(s)
  BY <1>1, <1>4 DEF ToSet
<1>8. QED
  BY <1>1, <1>5, <1>6, <1>7 DEF t, h

\* A sequence without duplicates is as long as it has elements.
LEMMA NoDupCardinality ==
  ASSUME NEW S, NEW s \in Seq(S), NoDup(s)
  PROVE  Len(s) = Cardinality(ToSet(s))
<1> DEFINE f == [i \in 1..Len(s) |-> s[i]]
<1>1. Len(s) \in Nat /\ DOMAIN s = 1..Len(s)
  BY LenProperties
<1>2. f \in Bijection(1..Len(s), ToSet(s))
  BY <1>1 DEF NoDup, ToSet, Bijection, Injection, Surjection, IsInjective
<1> HIDE DEF f
<1>3. IsFiniteSet(1..Len(s)) /\ Cardinality(1..Len(s)) = Len(s)
  <2>1. PICK n \in Nat : n = Len(s)
    BY <1>1
  <2>2. IsFiniteSet(1..n) /\ Cardinality(1..n) = IF 1 > n THEN 0 ELSE n - 1 + 1
    BY FS_Interval, 1 \in Int, n \in Int
  <2>3. QED
    BY <2>1, <2>2
<1>4. ExistsBijection(1..Len(s), ToSet(s))
  BY <1>2 DEF ExistsBijection
<1>5. QED
  BY <1>3, <1>4, FS_Bijection

\* One sequence behind another.
LEMMA ConcatElems ==
  ASSUME NEW S, NEW s \in Seq(S), NEW t \in Seq(S)
  PROVE  /\ s \o t \in Seq(S) /\ Len(s \o t) = Len(s) + Len(t)
         /\ ToSet(s \o t) = ToSet(s) \cup ToSet(t)
         /\ NoDup(s) /\ NoDup(t) /\ ToSet(s) \cap ToSet(t) = {} => NoDup(s \o t)
<1> DEFINE r == s \o t
           m == Len(s)
           n == Len(t)
<1>1. /\ r \in Seq(S) /\ Len(r) = m + n
      /\ \A i \in 1..(m + n) : r[i] = IF i <= m THEN s[i] ELSE t[i - m]
  BY ConcatProperties
<1>2. /\ m \in Nat /\ n \in Nat /\ DOMAIN s = 1..m /\ DOMAIN t = 1..n
      /\ DOMAIN r = 1..(m + n)
  BY <1>1, LenProperties
<1> HIDE DEF r, m, n
<1>3. \A i \in DOMAIN r : \/ i \in DOMAIN s /\ r[i] = s[i]
                          \/ i - m \in DOMAIN t /\ r[i] = t[i - m]
  BY <1>1, <1>2
<1>4. /\ \A i \in DOMAIN s : i \in DOMAIN r /\ r[i] = s[i]
      /\ \A i \in DOMAIN t : i + m \in DOMAIN r /\ r[i + m] = t[i]
  <2>1. \A i \in DOMAIN s : i \in DOMAIN r /\ r[i] = s[i]
    BY <1>1, <1>2
  <2>2. ASSUME NEW i \in DOMAIN t PROVE i + m \in DOMAIN r /\ r[i + m] = t[i]
    <3>1. i + m \in 1..(m + n) /\ ~(i + m <= m) /\ (i + m) - m = i
      BY <1>2
    <3>2. QED
      BY <1>1, <1>2, <3>1
  <2>3. QED
    BY <2>1, <2>2
<1>5. ToSet(r) = ToSet(s) \cup ToSet(t)
  <2>1. \A x \in ToSet(r) : x \in ToSet(s) \cup ToSet(t)
    BY <1>3 DEF ToSet
  <2>2. \A x \in ToSet(s) \cup ToSet(t) : x \in ToSet(r)
    BY <1>4 DEF ToSet
  <2>3. QED
    BY <2>1, <2>2
<1>6. ASSUME NoDup(s), NoDup(t), ToSet(s) \cap ToSet(t) = {} PROVE NoDup(r)
  <2>1. \A i \in DOMAIN s, j \in DOMAIN t : s[i] # t[j]
    BY <1>6 DEF ToSet
  <2> SUFFICES ASSUME NEW i \in DOMAIN r, NEW j \in DOMAIN r, r[i] = r[j] PROVE i = j
    BY DEF NoDup
  <2>2. CASE i \in DOMAIN s /\ r[i] = s[i] /\ j \in DOMAIN s /\ r[j] = s[j]
    BY <1>6, <2>2 DEF NoDup
  <2>3. CASE i - m \in DOMAIN t /\ r[i] = t[i - m] /\ j - m \in DOMAIN t /\ r[j] = t[j - m]
    <3>1. i - m = j - m
      BY <1>6, <2>3 DEF NoDup
    <3>2. QED
      BY <1>2, <3>1
  <2>4. QED
    BY <1>3, <2>1, <2>2, <2>3
<1>7. QED
  BY <1>1, <1>5, <1>6 DEF r, m, n

\* A sequence cut in two behind its n-th element.
LEMMA CutElems ==
  ASSUME NEW S, NEW s \in Seq(S), NEW n \in 0..Len(s)
  PROVE  LET a == SubSeq(s, 1, n)
             b == SubSeq(s, n + 1, Len(s))
         IN  /\ a \in Seq(S) /\ b \in Seq(S)
             /\ Len(a) = n /\ Len(b) = Len(s) - n
             /\ ToSet(a) \cup ToSet(b) = ToSet(s)
             /\ NoDup(s) => NoDup(a) /\ NoDup(b) /\ ToSet(a) \cap ToSet(b) = {}
<1> DEFINE a == SubSeq(s, 1, n)
           b == SubSeq(s, n + 1, Len(s))
           l == Len(s)
<1>1. l \in Nat /\ n \in Nat /\ n <= l /\ DOMAIN s = 1..l /\ \A i \in 1..l : s[i] \in S
  BY LenProperties
<1>2. /\ a \in Seq(S) /\ Len(a) = (IF 1 <= n THEN n - 1 + 1 ELSE 0)
      /\ \A i \in 1..(n - 1 + 1) : a[i] = s[1 + i - 1]
  <2>1. \A i \in 1..n : s[i] \in S
    BY <1>1
  <2>2. QED
    BY <1>1, <2>1, SubSeqProperties
<1>3. /\ b \in Seq(S) /\ Len(b) = (IF n + 1 <= l THEN l - (n + 1) + 1 ELSE 0)
      /\ \A i \in 1..(l - (n + 1) + 1) : b[i] = s[(n + 1) + i - 1]
  <2>1. \A i \in (n + 1)..l : s[i] \in S
    BY <1>1
  <2>2. n + 1 \in Int /\ l \in Int
    BY <1>1
  <2>3. QED
    BY <2>1, <2>2, SubSeqProperties
<1> HIDE DEF a, b, l
<1>4. Len(a) = n /\ Len(b) = l - n
  BY <1>1, <1>2, <1>3
<1>5. DOMAIN a = 1..n /\ DOMAIN b = 1..(l - n)
  BY <1>2, <1>3, <1>4, LenProperties
<1>6. \A i \in DOMAIN a : i \in DOMAIN s /\ i <= n /\ a[i] = s[i]
  <2> SUFFICES ASSUME NEW i \in 1..n PROVE i \in 1..l /\ i <= n /\ a[i] = s[i]
    BY <1>1, <1>5
  <2>1. i \in 1..(n - 1 + 1) /\ 1 + i - 1 = i
    BY <1>1
  <2>2. QED
    BY <1>1, <1>2, <2>1
<1>7. \A i \in DOMAIN b : n + i \in DOMAIN s /\ n + i > n /\ b[i] = s[n + i]
  <2> SUFFICES ASSUME NEW i \in 1..(l - n) PROVE n + i \in 1..l /\ n + i > n /\ b[i] = s[n + i]
    BY <1>1, <1>5
  <2>1. i \in 1..(l - (n + 1) + 1) /\ (n + 1) + i - 1 = n + i
    BY <1>1
  <2>2. QED
    BY <1>1, <1>3, <2>1
<1>8. ToSet(a) \cup ToSet(b) = ToSet(s)
  <2>1. \A x \in ToSet(a) \cup ToSet(b) : x \in ToSet(s)
    BY <1>6, <1>7 DEF ToSet
  <2>2. ASSUME NEW i \in DOMAIN s PROVE s[i] \in ToSet(a) \cup ToSet(b)
    <3>1. CASE i <= n
      <4>1. i \in DOMAIN a /\ a[i] = s[i]
        BY <1>1, <1>5, <1>6, <3>1
      <4>2. QED
        BY <4>1 DEF ToSet
    <3>2. CASE i > n
      <4>1. i - n \in DOMAIN b /\ n + (i - n) = i
        BY <1>1, <1>5, <3>2
      <4>2. b[i - n] = s[i]
        BY <4>1, <1>7
      <4>3. QED
        BY <4>1, <4>2 DEF ToSet
    <3>3. QED
      BY <1>1, <3>1, <3>2
  <2>3. QED
    BY <2>1, <2>2 DEF ToSet
<1>9. ASSUME NoDup(s) PROVE NoDup(a) /\ NoDup(b) /\ ToSet(a) \cap ToSet(b) = {}
  <2>1. NoDup(a)
    BY <1>6, <1>9 DEF NoDup
  <2>2. NoDup(b)
    <3> SUFFICES ASSUME NEW i \in DOMAIN b, NEW j \in DOMAIN b, b[i] = b[j] PROVE i = j
      BY DEF NoDup
    <3>1. n + i = n + j
      BY <1>7, <1>9 DEF NoDup
    <3>2. QED
      BY <1>1, <1>5, <3>1
  <2>3. \A i \in DOMAIN a, j \in DOMAIN b : a[i] # b[j]
    <3> SUFFICES ASSUME NEW i \in DOMAIN a, NEW j \in DOMAIN b, a[i] = b[j] PROVE FALSE
      OBVIOUS
    <3>1. i = n + j
      BY <1>6, <1>7, <1>9 DEF NoDup
    <3>2. QED
      BY <1>1, <1>5, <1>6, <1>7, <3>1
  <2>4. QED
    BY <2>1, <2>2, <2>3 DEF ToSet
<1>10. QED
  BY <1>2, <1>3, <1>4, <1>8, <1>9 DEF a, b, l

-----------------------------------------------------------------------------
(* The queue operators.                                                    *)

\* What a successful PushBatch leaves in the queue fits its limit.
LEMMA PushedFits ==
  ASSUME NEW s \in Seq(Ids), NEW batch \in Seq(Ids), Len(s) <= QueueCap
  PROVE  /\ Pushed(s, batch) \in Seq(Ids)
         /\ Len(Pushed(s, batch)) <= QueueCap
         /\ Evicted(s, batch) \subseteq Ids
<1> DEFINE n == Len(s) + Len(batch)
           x == Excess(s, batch)
           t == s \o batch
<1>1. n \in Nat /\ x \in 0..n /\ n - x <= QueueCap
  BY PublisherAssumption DEF Excess
<1>2. t \in Seq(Ids) /\ Len(t) = n
  BY ConcatProperties
<1>3. \A i \in 1..n : t[i] \in Ids
  BY <1>2
<1> HIDE DEF n, x, t
<1>4. /\ SubSeq(t, x + 1, n) \in Seq(Ids)
      /\ Len(SubSeq(t, x + 1, n)) = IF x + 1 <= n THEN n - (x + 1) + 1 ELSE 0
  <2>1. x + 1 \in Int /\ n \in Int /\ \A i \in (x + 1)..n : t[i] \in Ids
    BY <1>1, <1>3
  <2>2. QED
    BY <2>1, SubSeqProperties
<1>5. SubSeq(t, 1, x) \in Seq(Ids)
  <2>1. 1 \in Int /\ x \in Int /\ \A i \in 1..x : t[i] \in Ids
    BY <1>1, <1>3
  <2>2. QED
    BY <2>1, SubSeqProperties
<1>6. ToSet(SubSeq(t, 1, x)) \subseteq Ids
  BY <1>5 DEF ToSet
<1>7. Len(SubSeq(t, x + 1, n)) <= QueueCap
  BY <1>1, <1>4, PublisherAssumption
<1>8. QED
  BY <1>4, <1>6, <1>7 DEF Pushed, Evicted, n, x, t

Causes == {"evicted", "full", "flush", "rejected", "memory", "stop", "crash"}

\* PushBatch on the queue, or the loss of the batch: either keeps the types.
LEMMA PushOrLoseTypes ==
  ASSUME TypeOK, NEW batch \in Seq(Ids), NEW cause \in Causes, PushOrLose(batch, cause)
  PROVE  q' \in Seq(Ids) /\ Len(q') <= QueueCap /\ lost' \subseteq Ids \X Causes
<1>1. q \in Seq(Ids) /\ Len(q) <= QueueCap /\ lost \subseteq Ids \X Causes
  BY DEF TypeOK, Causes
<1>2. CASE Fits(q, batch)
  <2>1. q' = Pushed(q, batch) /\ lost' = lost \cup (Evicted(q, batch) \X {"evicted"})
    BY <1>2 DEF PushOrLose
  <2>2. QED
    BY <1>1, <2>1, PushedFits DEF Causes
<1>3. CASE ~Fits(q, batch)
  <2>1. q' = q /\ lost' = lost \cup (ToSet(batch) \X {cause})
    BY <1>3 DEF PushOrLose
  <2>2. ToSet(batch) \subseteq Ids
    BY DEF ToSet
  <2>3. QED
    BY <1>1, <2>1, <2>2
<1>4. QED
  BY <1>2, <1>3

\* recordResult keeps the streak in range and in step with the gate.
LEMMA RecordResultKeeps ==
  ASSUME TypeOK, GateMatchesStreak, NEW ok \in BOOLEAN, RecordResult(ok)
  PROVE  failStreak' \in 0..DownAfter /\ dcsDown' \in BOOLEAN /\ GateMatchesStreak'
<1>1. failStreak \in 0..DownAfter /\ DownAfter \in Nat /\ DownAfter > 0 /\ dcsDown \in BOOLEAN
  BY PublisherAssumption DEF TypeOK
<1>2. CASE ok
  <2>1. failStreak' = 0 /\ dcsDown' = FALSE
    BY <1>2 DEF RecordResult
  <2>2. failStreak' \in 0..DownAfter /\ ~(failStreak' >= DownAfter)
    BY <1>1, <2>1
  <2>3. QED
    BY <2>1, <2>2, Zenon DEF GateMatchesStreak
<1>3. CASE ~ok
  <2>1. /\ failStreak' = IF failStreak < DownAfter THEN failStreak + 1 ELSE failStreak
        /\ dcsDown' = (dcsDown \/ failStreak' >= DownAfter)
    BY <1>3, Zenon DEF RecordResult
  <2>2. failStreak' \in 0..DownAfter /\ (failStreak >= DownAfter => failStreak' >= DownAfter)
    <3>1. failStreak' = IF failStreak < DownAfter THEN failStreak + 1 ELSE failStreak
      BY <2>1, Zenon
    <3>2. QED
      BY <1>1, <3>1
  <2>3. dcsDown' \in BOOLEAN
    BY <2>1, Zenon
  <2>4. dcsDown => failStreak' >= DownAfter
    BY <2>2, Zenon DEF GateMatchesStreak
  <2>5. GateMatchesStreak'
    BY <2>1, <2>4, Zenon DEF GateMatchesStreak
  <2>6. QED
    BY <2>2, <2>3, <2>5
<1>4. QED
  BY <1>2, <1>3

-----------------------------------------------------------------------------
(* The invariant, group of actions by group of actions.                    *)

Inv == TypeOK /\ GateMatchesStreak

LEMMA InitInv == Init => Inv
<1> SUFFICES ASSUME Init PROVE Inv
  OBVIOUS
<1>1. TypeOK
  <2>1. <<>> \in Seq(Ids) /\ Len(<<>>) <= QueueCap
    BY PublisherAssumption
  <2>2. sends \in [Slots -> [st : {"idle", "rpc", "ok", "err", "requeue"}, batch : Seq(Ids)]]
    BY <2>1 DEF Init, Idle
  <2>3. dcsUp \in BOOLEAN /\ dcsDown \in BOOLEAN
    BY Zenon DEF Init
  <2>4. /\ collected \in 0..NPackets /\ polls \in 0..MaxPolls /\ attempts \in 0..MaxAttempts
        /\ failStreak \in 0..DownAfter
    BY PublisherAssumption DEF Init
  <2>5. QED
    BY <2>1, <2>2, <2>3, <2>4 DEF Init, TypeOK
<1>2. dcsDown = FALSE /\ ~(failStreak >= DownAfter)
  BY PublisherAssumption DEF Init
<1>3. QED
  BY <1>1, <1>2, Zenon DEF Inv, GateMatchesStreak

\* Polls and traps.
LEMMA CollectInv ==
  ASSUME Inv, StartPoll \/ EmitPoll \/ EmitTrap
  PROVE  Inv'
<1>1. CASE StartPoll
  BY <1>1, PublisherAssumption DEF Inv, TypeOK, GateMatchesStreak, StartPoll, edr, budget
<1>2. CASE EmitPoll \/ EmitTrap
  <2>1. collected + 1 \in Ids /\ polls' \in 0..MaxPolls /\ Emit
    BY <1>2, PublisherAssumption DEF EmitPoll, EmitTrap, Inv, TypeOK, Ids
  <2>2. collected' \in 0..NPackets /\ pktCh' \in Seq(Ids)
    BY <2>1, PublisherAssumption, AppendProperties DEF Emit, Inv, TypeOK, Ids
  <2>3. QED
    BY <2>1, <2>2 DEF Emit, Inv, TypeOK, GateMatchesStreak, budget
<1>3. QED
  BY <1>1, <1>2

\* The fan-in goroutine.
LEMMA FaninInv == ASSUME Inv, Fanin PROVE Inv'
<1>1. CASE FaninReceive
  <2>1. Head(pktCh) \in Ids /\ Tail(pktCh) \in Seq(Ids)
    BY <1>1, HeadTailProperties DEF FaninReceive, Inv, TypeOK
  <2>2. buf' \in Seq(Ids) /\ pktCh' \in Seq(Ids)
    BY <1>1, <2>1, AppendProperties DEF FaninReceive, Inv, TypeOK
  <2>3. QED
    BY <1>1, <2>2, PublisherAssumption DEF FaninReceive, Inv, TypeOK, GateMatchesStreak, budget
<1>2. CASE FaninTick
  BY <1>2, PublisherAssumption DEF FaninTick, Inv, TypeOK, GateMatchesStreak, budget
<1>3. CASE FaninFlushOk \/ FaninFlushDrop
  <2>1. PushOrLose(buf, "flush") /\ buf' = <<>>
    BY <1>3 DEF FaninFlushOk, FaninFlushDrop
  <2>2. q' \in Seq(Ids) /\ Len(q') <= QueueCap /\ lost' \subseteq Ids \X Causes
    <3>1. buf \in Seq(Ids) /\ "flush" \in Causes
      BY DEF Inv, TypeOK, Causes
    <3>2. QED
      BY <2>1, <3>1, PushOrLoseTypes DEF Inv
  <2>3. QED
    BY <1>3, <2>1, <2>2
       DEF FaninFlushOk, FaninFlushDrop, Inv, TypeOK, GateMatchesStreak, budget, Causes
<1>4. CASE FaninFlushRetry
  BY <1>4, PublisherAssumption DEF FaninFlushRetry, Inv, TypeOK, GateMatchesStreak, budget
<1>5. CASE FaninDone
  BY <1>5 DEF FaninDone, Inv, TypeOK, GateMatchesStreak, budget
<1>6. QED
  BY <1>1, <1>2, <1>3, <1>4, <1>5 DEF Fanin

\* The drain loop.
LEMMA DrainInv == ASSUME Inv, Drain PROVE Inv'
<1>1. CASE Connect \/ Park \/ DrainStop \/ DrainReturn
  BY <1>1 DEF Connect, Park, DrainStop, DrainReturn, Inv, TypeOK, GateMatchesStreak, budget
<1>2. CASE Probe
  <2>1. failStreak' \in 0..DownAfter /\ dcsDown' \in BOOLEAN /\ GateMatchesStreak'
    <3>1. (dcsUp /\ proc = "run") \in BOOLEAN
      OBVIOUS
    <3>2. QED
      BY <1>2, <3>1, RecordResultKeeps DEF Probe, Inv
  <2>2. QED
    BY <1>2, <2>1 DEF Probe, Inv, TypeOK, budget
<1>3. CASE Pop
  <2> DEFINE n == IF Len(q) < BatchSize THEN Len(q) ELSE BatchSize
  <2>1. q \in Seq(Ids) /\ Len(q) <= QueueCap
    BY DEF Inv, TypeOK
  <2>2. n \in 0..Len(q)
    BY <2>1, PublisherAssumption
  <2>3. held' = SubSeq(q, 1, n) /\ q' = SubSeq(q, n + 1, Len(q))
    BY <1>3 DEF Pop
  <2> HIDE DEF n
  <2>4. held' \in Seq(Ids)
    <3>1. 1 \in Int /\ n \in Int /\ \A i \in 1..n : q[i] \in Ids
      BY <2>1, <2>2
    <3>2. QED
      BY <2>3, <3>1, SubSeqProperties
  <2>5. q' \in Seq(Ids) /\ Len(q') <= QueueCap
    <3>1. n + 1 \in Int /\ Len(q) \in Int /\ \A i \in (n + 1)..Len(q) : q[i] \in Ids
      BY <2>1, <2>2
    <3>2. /\ SubSeq(q, n + 1, Len(q)) \in Seq(Ids)
          /\ Len(SubSeq(q, n + 1, Len(q))) = IF n + 1 <= Len(q) THEN Len(q) - (n + 1) + 1 ELSE 0
      BY <3>1, SubSeqProperties
    <3>3. QED
      BY <2>1, <2>2, <2>3, <3>2, PublisherAssumption
  <2>6. QED
    BY <1>3, <2>4, <2>5 DEF Pop, Inv, TypeOK, GateMatchesStreak, budget
<1>4. CASE \E s \in Slots : Dispatch(s)
  <2>1. PICK s \in Slots : Dispatch(s)
    BY <1>4
  <2>2. [st |-> "rpc", batch |-> held]
           \in [st : {"idle", "rpc", "ok", "err", "requeue"}, batch : Seq(Ids)]
    BY DEF Inv, TypeOK
  <2>3. QED
    BY <2>1, <2>2 DEF Dispatch, Inv, TypeOK, GateMatchesStreak, budget
<1>5. CASE RequeueHeld
  <2>1. q' \in Seq(Ids) /\ Len(q') <= QueueCap /\ lost' \subseteq Ids \X Causes
    <3>1. held \in Seq(Ids) /\ "full" \in Causes
      BY DEF Inv, TypeOK, Causes
    <3>2. QED
      BY <1>5, <3>1, PushOrLoseTypes DEF RequeueHeld, Inv
  <2>2. QED
    BY <1>5, <2>1 DEF RequeueHeld, Inv, TypeOK, GateMatchesStreak, budget, Causes
<1>6. QED
  BY <1>1, <1>2, <1>3, <1>4, <1>5 DEF Drain

\* One sender.
LEMMA SendInv == ASSUME Inv, NEW s \in Slots, Send(s) PROVE Inv'
<1>1. sends[s].batch \in Seq(Ids) /\ ToSet(sends[s].batch) \subseteq Ids
  BY DEF Inv, TypeOK, ToSet
<1>2. Idle \in [st : {"idle", "rpc", "ok", "err", "requeue"}, batch : Seq(Ids)]
  BY DEF Idle
<1>3. CASE RpcAccepted(s) \/ RpcFailed(s)
  <2>1. delivered' \subseteq Ids
    BY <1>1, <1>3 DEF RpcAccepted, RpcFailed, Inv, TypeOK
  <2>2. PICK st \in {"ok", "err"} : sends' = [sends EXCEPT ![s].st = st]
    BY <1>3 DEF RpcAccepted, RpcFailed
  <2>3. sends' \in [Slots -> [st : {"idle", "rpc", "ok", "err", "requeue"}, batch : Seq(Ids)]]
    BY <2>2 DEF Inv, TypeOK
  <2>4. UNCHANGED <<collected, polls, q, proc, dcsUp, lost, pktCh, buf, faninPc, attempts,
                    drainPc, held, failStreak, dcsDown>>
    BY <1>3, Zenon DEF RpcAccepted, RpcFailed
  <2>5. QED
    BY <2>1, <2>3, <2>4 DEF Inv, TypeOK, GateMatchesStreak
<1>4. CASE RpcRejected(s)
  BY <1>1, <1>4 DEF RpcRejected, Inv, TypeOK, GateMatchesStreak
<1>5. CASE SendOk(s) \/ SendFailed(s)
  <2>1. failStreak' \in 0..DownAfter /\ dcsDown' \in BOOLEAN /\ GateMatchesStreak'
    BY <1>5, RecordResultKeeps DEF SendOk, SendFailed, Inv
  <2>2. QED
    BY ZenonT(30), <1>2, <1>5, <2>1 DEF SendOk, SendFailed, Inv, TypeOK, budget
<1>6. CASE Requeue(s)
  <2>1. q' \in Seq(Ids) /\ Len(q') <= QueueCap /\ lost' \subseteq Ids \X Causes
    <3>1. "full" \in Causes
      BY DEF Causes
    <3>2. QED
      BY <1>1, <1>6, <3>1, PushOrLoseTypes DEF Requeue, Inv
  <2>2. QED
    BY <1>2, <1>6, <2>1 DEF Requeue, Inv, TypeOK, GateMatchesStreak, budget, Causes
<1>7. QED
  BY <1>3, <1>4, <1>5, <1>6 DEF Send

\* The process and the hub.
LEMMA LifeInv ==
  ASSUME Inv, Cancel \/ Exit \/ Crash \/ Restart \/ DcsFails \/ DcsReturns
  PROVE  Inv'
<1>1. CASE Cancel \/ Restart \/ DcsFails \/ DcsReturns
  <2>1. /\ UNCHANGED <<collected, polls, q, delivered, lost, pktCh, buf, attempts, held, sends,
                       failStreak, dcsDown>>
        /\ UNCHANGED <<faninPc, drainPc>> \/ (faninPc' = "select" /\ drainPc' = "connect")
        /\ UNCHANGED proc \/ proc' = "cancelled" \/ proc' = "run"
    BY <1>1, Zenon DEF Cancel, Restart, DcsFails, DcsReturns, edr
  <2>2. UNCHANGED dcsUp \/ dcsUp' = TRUE \/ dcsUp' = FALSE
    BY <1>1, Zenon DEF Cancel, Restart, DcsFails, DcsReturns
  <2>3. dcsUp' \in BOOLEAN
    BY <2>2, Zenon DEF Inv, TypeOK
  <2>4. QED
    BY <2>1, <2>3 DEF Inv, TypeOK, GateMatchesStreak
<1>2. CASE Exit \/ Crash
  <2>1. PICK cause \in {"stop", "crash"} : Die(cause)
    BY <1>2 DEF Exit, Crash
  <2>2. InMemory \subseteq Ids /\ Popped \subseteq Ids
    BY DEF InMemory, Popped, ToSet, Inv, TypeOK
  <2>3. lost' \subseteq Ids \X Causes
    BY <2>1, <2>2 DEF Die, Inv, TypeOK, Causes
  <2>4. Idle \in [st : {"idle", "rpc", "ok", "err", "requeue"}, batch : Seq(Ids)]
    BY DEF Idle
  <2>5. dcsDown' = FALSE /\ ~(failStreak' >= DownAfter)
    BY <2>1, PublisherAssumption DEF Die
  <2>6. TypeOK'
    <3>1. sends' \in [Slots -> [st : {"idle", "rpc", "ok", "err", "requeue"}, batch : Seq(Ids)]]
      BY <2>1, <2>4 DEF Die
    <3>2. /\ pktCh' = <<>> /\ buf' = <<>> /\ held' = <<>> /\ polls' = 0 /\ attempts' = 0
          /\ faninPc' = "done" /\ drainPc' = "done" /\ proc' = "dead" /\ failStreak' = 0
          /\ UNCHANGED <<collected, q, dcsUp, delivered>>
      BY <2>1 DEF Die
    <3>3. 0 \in 0..MaxPolls /\ 0 \in 0..MaxAttempts /\ 0 \in 0..DownAfter /\ <<>> \in Seq(Ids)
      BY PublisherAssumption
    <3>4. dcsDown' \in BOOLEAN
      BY <2>5, Zenon
    <3>5. QED
      BY <2>3, <3>1, <3>2, <3>3, <3>4 DEF Inv, TypeOK, Causes
  <2>7. QED
    BY <2>5, <2>6, Zenon DEF Inv, GateMatchesStreak
<1>3. QED
  BY <1>1, <1>2

\* Every step keeps the invariant.
LEMMA NextInv == Inv /\ [Next]_vars => Inv'
<1>1. CASE UNCHANGED vars
  BY <1>1 DEF vars, edr, budget, Inv, TypeOK, GateMatchesStreak
<1>2. ASSUME Inv, Next PROVE Inv'
  BY <1>2, CollectInv, FaninInv, DrainInv, SendInv, LifeInv DEF Next
<1>3. QED
  BY <1>1, <1>2

-----------------------------------------------------------------------------
\* The publisher's state is well formed in every reachable state, and the queue
\* never holds more than max_bytes allows, whatever fan-in, requeues of failed
\* batches, evictions, crashes and restarts do (PushBatch, sendBatch, drain).
THEOREM PublisherTypeOK == Spec => []TypeOK
BY InitInv, NextInv, PTL DEF Spec, Inv

\* The gate is closed exactly while the last DownAfter outcomes were failures,
\* for any number of concurrent senders and a probe (recordResult).
THEOREM PublisherGate == Spec => []GateMatchesStreak
BY InitInv, NextInv, PTL DEF Spec, Inv

-----------------------------------------------------------------------------
(* The places of a packet.  InOnePlace counts; the inductive invariant says *)
(* the same with sets: the places are apart and together hold everything    *)
(* collected that the hub has not got and the code has not let go of.       *)

\* What each sender is responsible for.
InFlight == [s \in Slots |-> IF sends[s].st = "ok" THEN {} ELSE ToSet(sends[s].batch)]

\* C, B, Q, H: channel, buffer, queue and popped batch; L: per sender; D, G: delivered
\* and let go of; n: packets collected.
Placed(n, C, B, Q, H, L, D, G) ==
  /\ \A p \in C : p \in 1..n /\ p \notin B /\ p \notin Q /\ p \notin H
  /\ \A p \in B : p \in 1..n /\ p \notin Q /\ p \notin H
  /\ \A p \in Q : p \in 1..n /\ p \notin H
  /\ \A p \in H : p \in 1..n
  /\ \A s \in Slots : \A p \in L[s] :
       p \in 1..n /\ p \notin C /\ p \notin B /\ p \notin Q /\ p \notin H
  /\ \A s, r \in Slots : s # r => \A p \in L[s] : p \notin L[r]
  /\ \A p \in 1..n : \/ p \in C \/ p \in B \/ p \in Q \/ p \in H
                     \/ (\E s \in Slots : p \in L[s])
                     \/ p \in D \/ p \in G

InPlaces ==
  Placed(collected, ToSet(pktCh), ToSet(buf), ToSet(q), ToSet(held), InFlight, delivered, Gone)

Distinct ==
  /\ NoDup(pktCh) /\ NoDup(buf) /\ NoDup(q) /\ NoDup(held)
  /\ \A s \in Slots : NoDup(sends[s].batch)

\* A popped batch is in hand only while the drain of a living process waits for a sender.
HeldInHand == /\ drainPc # "held" => held = <<>>
              /\ proc = "dead" => drainPc # "held"

IInv == Inv /\ Distinct /\ HeldInHand /\ InPlaces /\ OutageLosesNothing

\* Packets added to the losses are gone.
Firsts(ls) == {l[1] : l \in ls}

LEMMA FirstsAdd ==
  ASSUME NEW ls, NEW E, NEW c
  PROVE  Firsts(ls \cup (E \X {c})) = Firsts(ls) \cup E
<1>1. \A e \in E : <<e, c>> \in E \X {c} /\ <<e, c>>[1] = e
  OBVIOUS
<1>2. \A l \in E \X {c} : l[1] \in E
  OBVIOUS
<1>3. QED
  BY <1>1, <1>2 DEF Firsts

\* PushBatch moves the batch into the queue or lets go of some of both.
LEMMA PushPlaces ==
  ASSUME q \in Seq(Ids), Len(q) <= QueueCap, NoDup(q),
         NEW batch \in Seq(Ids), NoDup(batch), NEW cause,
         ToSet(q) \cap ToSet(batch) = {}, PushOrLose(batch, cause)
  PROVE  /\ NoDup(q')
         /\ ToSet(q') \subseteq ToSet(q) \cup ToSet(batch)
         /\ ToSet(q) \cup ToSet(batch) \subseteq ToSet(q') \cup Gone'
         /\ Gone \subseteq Gone'
<1>0. Gone = Firsts(lost) /\ Gone' = Firsts(lost')
  BY DEF Gone, Firsts
<1>1. CASE Fits(q, batch)
  <2> DEFINE t == q \o batch
             x == Excess(q, batch)
             a == SubSeq(t, 1, x)
             b == SubSeq(t, x + 1, Len(t))
  <2>1. /\ t \in Seq(Ids) /\ Len(t) = Len(q) + Len(batch)
        /\ ToSet(t) = ToSet(q) \cup ToSet(batch) /\ NoDup(t)
    BY ConcatElems
  <2>2. x \in 0..Len(t)
    <3>1. Len(q) \in Nat /\ Len(batch) \in Nat /\ QueueCap \in Nat
      BY PublisherAssumption
    <3>2. x \in 0..(Len(q) + Len(batch))
      BY <3>1 DEF Excess
    <3>3. QED
      BY <2>1, <3>2
  <2>3. q' = b /\ lost' = lost \cup (ToSet(a) \X {"evicted"})
    BY <1>1, <2>1 DEF PushOrLose, Pushed, Evicted
  <2> HIDE DEF t, x
  <2>4. ToSet(a) \cup ToSet(b) = ToSet(t) /\ NoDup(b)
    BY <2>1, <2>2, CutElems
  <2>5. Gone' = Gone \cup ToSet(a)
    BY <1>0, <2>3, FirstsAdd
  <2> HIDE DEF a, b
  <2>6. QED
    BY <2>1, <2>3, <2>4, <2>5
<1>2. CASE ~Fits(q, batch)
  <2>1. q' = q /\ lost' = lost \cup (ToSet(batch) \X {cause})
    BY <1>2 DEF PushOrLose
  <2>2. Gone' = Gone \cup ToSet(batch)
    BY <1>0, <2>1, FirstsAdd
  <2>3. QED
    BY <2>1, <2>2
<1>3. QED
  BY <1>1, <1>2

\* As long as everything collected fits the queue, so does every batch: queue and batch
\* hold different packets, hence no more than were collected.
LEMMA RoomForAll ==
  ASSUME NEW n \in Nat, n <= QueueCap, NEW s \in Seq(Ids), NEW batch \in Seq(Ids),
         NoDup(s), NoDup(batch), ToSet(s) \cap ToSet(batch) = {},
         ToSet(s) \cup ToSet(batch) \subseteq 1..n
  PROVE  Fits(s, batch) /\ Evicted(s, batch) = {}
<1> DEFINE t == s \o batch
<1>1. /\ t \in Seq(Ids) /\ Len(t) = Len(s) + Len(batch) /\ NoDup(t)
      /\ ToSet(t) \subseteq 1..n
  BY ConcatElems
<1> HIDE DEF t
<1>2. Len(t) = Cardinality(ToSet(t))
  BY <1>1, NoDupCardinality
<1>3. IsFiniteSet(1..n) /\ Cardinality(1..n) = n
  BY FS_Interval
<1>4. Cardinality(ToSet(t)) <= Cardinality(1..n)
  BY <1>1, <1>3, FS_Subset
<1>5. Len(s) + Len(batch) <= QueueCap /\ Len(s) \in Nat /\ Len(batch) \in Nat /\ QueueCap \in Nat
  BY <1>1, <1>2, <1>3, <1>4, PublisherAssumption
<1>6. \A i \in DOMAIN batch : ~(i > QueueCap - Len(s))
  <2>1. DOMAIN batch = 1..Len(batch)
    OBVIOUS
  <2>2. QED
    BY <1>5, <2>1
<1>7. Excess(s, batch) = 0
  BY <1>5 DEF Excess
<1>8. ToSet(SubSeq(s \o batch, 1, 0)) = {}
  <2>1. SubSeq(t, 1, 0) = <<>>
    BY <1>1
  <2>2. QED
    BY <2>1, EmptyElems DEF t
<1>9. QED
  BY <1>6, <1>7, <1>8 DEF Fits, Evicted

\* The same, for a push of a batch from another place: nothing is lost then.
LEMMA PushKeepsAll ==
  ASSUME IInv, NEW batch \in Seq(Ids), NoDup(batch), NEW cause, PushOrLose(batch, cause),
         \A p \in ToSet(batch) : p \in 1..collected /\ p \notin ToSet(q)
  PROVE  /\ NoDup(q')
         /\ \A p \in ToSet(q') : p \in ToSet(q) \/ p \in ToSet(batch)
         /\ \A p \in ToSet(q) : p \in ToSet(q') \/ p \in Gone'
         /\ \A p \in ToSet(batch) : p \in ToSet(q') \/ p \in Gone'
         /\ \A p \in Gone : p \in Gone'
         /\ collected <= QueueCap => lost' = lost
<1>1. q \in Seq(Ids) /\ Len(q) <= QueueCap /\ NoDup(q) /\ collected \in Nat
  BY PublisherAssumption DEF IInv, Inv, TypeOK, Distinct
<1>2. ToSet(q) \cap ToSet(batch) = {}
  OBVIOUS
<1>3. ToSet(q) \cup ToSet(batch) \subseteq 1..collected
  BY DEF IInv, InPlaces, Placed
<1>4. ASSUME collected <= QueueCap PROVE lost' = lost
  <2>1. Fits(q, batch) /\ Evicted(q, batch) = {}
    BY <1>1, <1>2, <1>3, <1>4, RoomForAll
  <2>2. lost' = lost \cup ({} \X {"evicted"})
    BY <2>1 DEF PushOrLose
  <2>3. QED
    BY <2>2
<1>5. QED
  BY <1>1, <1>2, <1>4, PushPlaces

\* A step that moves no packet.
LEMMA QuietIInv ==
  ASSUME IInv, Inv', HeldInHand',
         UNCHANGED <<collected, pktCh, buf, q, held, delivered, lost>>,
         InFlight' = InFlight, \A s \in Slots : NoDup(sends'[s].batch)
  PROVE  IInv'
<1>1. Distinct'
  BY DEF IInv, Distinct
<1>2. Gone' = Gone
  BY DEF Gone
<1>3. InPlaces'
  BY <1>2 DEF IInv, InPlaces, Placed
<1>4. OutageLosesNothing'
  BY DEF IInv, OutageLosesNothing
<1>5. QED
  BY <1>1, <1>3, <1>4 DEF IInv

\* A step that leaves the senders alone.
LEMMA SameSends == ASSUME IInv, UNCHANGED sends
                   PROVE InFlight' = InFlight /\ \A s \in Slots : NoDup(sends'[s].batch)
BY DEF IInv, Distinct, InFlight

LEMMA InitIInv == Init => IInv
<1> SUFFICES ASSUME Init PROVE IInv
  OBVIOUS
<1>1. Inv
  BY InitInv
<1>2. /\ pktCh = <<>> /\ buf = <<>> /\ q = <<>> /\ held = <<>> /\ collected = 0
      /\ drainPc = "done" /\ \A s \in Slots : sends[s] = Idle
      /\ lost = {}
  BY DEF Init
<1>3. Distinct /\ HeldInHand
  BY <1>2, EmptyElems DEF Distinct, HeldInHand, Idle
<1>4. \A s \in Slots : InFlight[s] = {}
  BY <1>2, EmptyElems DEF InFlight, Idle
<1>5. InPlaces
  BY <1>2, <1>4, EmptyElems DEF InPlaces, Placed
<1>6. OutageLosesNothing
  BY <1>2 DEF OutageLosesNothing
<1>7. QED
  BY <1>1, <1>3, <1>5, <1>6 DEF IInv

\* Polls and traps: the next number goes to the channel.
LEMMA CollectIInv ==
  ASSUME IInv, Inv', StartPoll \/ EmitPoll \/ EmitTrap
  PROVE  IInv'
<1>1. CASE StartPoll
  <2>1. UNCHANGED <<collected, pktCh, buf, q, held, delivered, lost, sends, drainPc, proc>>
    BY <1>1 DEF StartPoll, edr
  <2>2. HeldInHand'
    BY <2>1 DEF IInv, HeldInHand
  <2>3. QED
    BY <2>1, <2>2, SameSends, QuietIInv
<1>2. CASE EmitPoll \/ EmitTrap
  <2> DEFINE p == collected + 1
  <2>1. Emit /\ p \in Ids
    BY <1>2, PublisherAssumption DEF EmitPoll, EmitTrap, Ids
  <2>2. /\ collected' = p /\ pktCh' = Append(pktCh, p)
        /\ UNCHANGED <<buf, q, held, delivered, lost, sends, drainPc, proc>>
    BY <2>1 DEF Emit
  <2>3. collected \in Nat /\ pktCh \in Seq(Ids)
    BY PublisherAssumption DEF IInv, Inv, TypeOK
  <2>4. p \notin 1..collected /\ 1..p = (1..collected) \cup {p}
    BY <2>3
  <2>5. p \notin ToSet(pktCh)
    BY <2>4 DEF IInv, InPlaces, Placed
  <2>6. ToSet(pktCh') = ToSet(pktCh) \cup {p} /\ NoDup(pktCh')
    BY <2>1, <2>2, <2>3, <2>5, AppendElems DEF IInv, Distinct
  <2> HIDE DEF p
  <2>7. InFlight' = InFlight /\ Gone' = Gone
    BY <2>2 DEF InFlight, Gone
  <2>8. Distinct' /\ HeldInHand'
    BY <2>2, <2>6 DEF IInv, Distinct, HeldInHand
  <2>9. InPlaces'
    BY <2>2, <2>4, <2>6, <2>7 DEF IInv, InPlaces, Placed
  <2>10. OutageLosesNothing'
    <3>1. collected' <= QueueCap => collected <= QueueCap
      BY <2>2, <2>3, PublisherAssumption DEF p
    <3>2. QED
      BY <2>2, <3>1 DEF IInv, OutageLosesNothing
  <2>11. QED
    BY <2>8, <2>9, <2>10 DEF IInv
<1>3. QED
  BY <1>1, <1>2

\* The fan-in goroutine moves packets from the channel to its buffer and from there to
\* the queue.
LEMMA FaninIInv == ASSUME IInv, Inv', Fanin PROVE IInv'
<1>1. CASE FaninReceive
  <2> DEFINE h == Head(pktCh)
  <2>1. /\ pktCh # <<>> /\ pktCh' = Tail(pktCh) /\ buf' = Append(buf, h)
        /\ UNCHANGED <<collected, q, held, delivered, lost, sends, drainPc, proc>>
    BY <1>1 DEF FaninReceive
  <2>2. pktCh \in Seq(Ids) /\ buf \in Seq(Ids) /\ NoDup(pktCh) /\ NoDup(buf)
    BY DEF IInv, Inv, TypeOK, Distinct
  <2>3. /\ h \in Ids /\ h \in ToSet(pktCh) /\ ToSet(pktCh') = ToSet(pktCh) \ {h}
        /\ NoDup(pktCh')
    BY <2>1, <2>2, TailElems
  <2>4. h \notin ToSet(buf)
    BY <2>3 DEF IInv, InPlaces, Placed
  <2>5. ToSet(buf') = ToSet(buf) \cup {h} /\ NoDup(buf')
    BY <2>1, <2>2, <2>3, <2>4, AppendElems
  <2> HIDE DEF h
  <2>6. InFlight' = InFlight /\ Gone' = Gone
    BY <2>1 DEF InFlight, Gone
  <2>7. Distinct' /\ HeldInHand'
    BY <2>1, <2>3, <2>5 DEF IInv, Distinct, HeldInHand
  <2>8. InPlaces'
    BY <2>1, <2>3, <2>5, <2>6 DEF IInv, InPlaces, Placed
  <2>9. OutageLosesNothing'
    BY <2>1 DEF IInv, OutageLosesNothing
  <2>10. QED
    BY <2>7, <2>8, <2>9 DEF IInv
<1>2. CASE FaninTick \/ FaninFlushRetry \/ FaninDone
  <2>1. UNCHANGED <<collected, pktCh, buf, q, held, delivered, lost, sends, drainPc, proc>>
    BY <1>2 DEF FaninTick, FaninFlushRetry, FaninDone
  <2>2. HeldInHand'
    BY <2>1 DEF IInv, HeldInHand
  <2>3. QED
    BY <2>1, <2>2, SameSends, QuietIInv
<1>3. CASE FaninFlushOk \/ FaninFlushDrop
  <2>1. /\ PushOrLose(buf, "flush") /\ buf' = <<>>
        /\ UNCHANGED <<collected, pktCh, held, delivered, sends, drainPc, proc>>
    BY <1>3 DEF FaninFlushOk, FaninFlushDrop
  <2>2. /\ buf \in Seq(Ids) /\ NoDup(buf)
        /\ \A p \in ToSet(buf) : p \in 1..collected /\ p \notin ToSet(q)
    BY DEF IInv, Inv, TypeOK, Distinct, InPlaces, Placed
  <2>3. /\ NoDup(q')
        /\ \A p \in ToSet(q') : p \in ToSet(q) \/ p \in ToSet(buf)
        /\ \A p \in ToSet(q) : p \in ToSet(q') \/ p \in Gone'
        /\ \A p \in ToSet(buf) : p \in ToSet(q') \/ p \in Gone'
        /\ \A p \in Gone : p \in Gone'
        /\ collected <= QueueCap => lost' = lost
    BY <2>1, <2>2, PushKeepsAll
  <2>4. InFlight' = InFlight /\ ToSet(buf') = {} /\ NoDup(buf')
    BY <2>1, EmptyElems DEF InFlight
  <2>5. Distinct' /\ HeldInHand'
    BY <2>1, <2>3, <2>4 DEF IInv, Distinct, HeldInHand
  <2>6. InPlaces'
    BY <2>1, <2>3, <2>4 DEF IInv, InPlaces, Placed
  <2>7. OutageLosesNothing'
    BY <2>1, <2>3 DEF IInv, OutageLosesNothing
  <2>8. QED
    BY <2>5, <2>6, <2>7 DEF IInv
<1>4. QED
  BY <1>1, <1>2, <1>3 DEF Fanin

\* The drain loop moves packets from the queue to its hand and on to a sender, or back.
LEMMA DrainIInv == ASSUME IInv, Inv', Drain PROVE IInv'
<1>1. CASE Connect \/ Park \/ DrainStop \/ DrainReturn \/ Probe
  <2>1. UNCHANGED <<collected, pktCh, buf, q, held, delivered, lost, sends>>
    BY <1>1 DEF Connect, Park, DrainStop, DrainReturn, Probe
  <2>2. drainPc # "held" /\ drainPc' # "held"
    BY <1>1 DEF Connect, Park, DrainStop, DrainReturn, Probe
  <2>3. HeldInHand'
    BY <2>1, <2>2 DEF IInv, HeldInHand
  <2>4. QED
    BY <2>1, <2>3, SameSends, QuietIInv
<1>2. CASE Pop
  <2> DEFINE n == IF Len(q) < BatchSize THEN Len(q) ELSE BatchSize
  <2>1. q \in Seq(Ids) /\ NoDup(q)
    BY DEF IInv, Inv, TypeOK, Distinct
  <2>2. n \in 0..Len(q)
    BY <2>1, PublisherAssumption
  <2>3. held' = SubSeq(q, 1, n) /\ q' = SubSeq(q, n + 1, Len(q))
    BY <1>2 DEF Pop
  <2> HIDE DEF n
  <2>4. /\ ToSet(held') \cup ToSet(q') = ToSet(q) /\ NoDup(held') /\ NoDup(q')
        /\ ToSet(held') \cap ToSet(q') = {}
    BY <2>1, <2>2, <2>3, CutElems
  <2>5. /\ drainPc' = "held" /\ held = <<>>
        /\ proc' # "dead" /\ UNCHANGED <<collected, pktCh, buf, delivered, lost, sends>>
    BY <1>2 DEF Pop, IInv, HeldInHand
  <2>6. InFlight' = InFlight /\ Gone' = Gone
    BY <2>5 DEF InFlight, Gone
  <2>7. Distinct' /\ HeldInHand'
    BY <2>4, <2>5 DEF IInv, Distinct, HeldInHand
  <2>8. ToSet(held) = {}
    BY <2>5, EmptyElems
  <2>9. InPlaces'
    <3>1. /\ \A p \in ToSet(held') : p \in ToSet(q) /\ p \notin ToSet(q')
          /\ \A p \in ToSet(q') : p \in ToSet(q)
          /\ \A p \in ToSet(q) : p \in ToSet(q') \/ p \in ToSet(held')
      BY <2>4
    <3>2. QED
      BY <2>5, <2>6, <2>8, <3>1 DEF IInv, InPlaces, Placed
  <2>10. OutageLosesNothing'
    BY <2>5 DEF IInv, OutageLosesNothing
  <2>11. QED
    BY <2>7, <2>9, <2>10 DEF IInv
<1>3. CASE \E s \in Slots : Dispatch(s)
  <2>1. PICK s \in Slots : Dispatch(s)
    BY <1>3
  <2>2. /\ sends[s] = Idle /\ sends' = [sends EXCEPT ![s] = [st |-> "rpc", batch |-> held]]
        /\ held' = <<>> /\ drainPc' = "loop"
        /\ UNCHANGED <<collected, pktCh, buf, q, delivered, lost>>
    BY <2>1 DEF Dispatch
  <2>3. sends \in [Slots -> [st : {"idle", "rpc", "ok", "err", "requeue"}, batch : Seq(Ids)]]
    BY DEF IInv, Inv, TypeOK
  <2>4. /\ \A r \in Slots : r # s => InFlight'[r] = InFlight[r]
        /\ InFlight'[s] = ToSet(held)
    BY <2>2, <2>3 DEF InFlight
  <2>5. InFlight[s] = {} /\ ToSet(held') = {} /\ NoDup(held') /\ Gone' = Gone
    BY <2>2, EmptyElems DEF InFlight, Idle, Gone
  <2>6. \A r \in Slots : NoDup(sends'[r].batch)
    BY <2>2, <2>3 DEF IInv, Distinct
  <2>7. Distinct' /\ HeldInHand'
    BY <2>2, <2>5, <2>6 DEF IInv, Distinct, HeldInHand
  <2>8. InPlaces'
    BY <2>2, <2>4, <2>5 DEF IInv, InPlaces, Placed
  <2>9. OutageLosesNothing'
    BY <2>2 DEF IInv, OutageLosesNothing
  <2>10. QED
    BY <2>7, <2>8, <2>9 DEF IInv
<1>4. CASE RequeueHeld
  <2>1. /\ PushOrLose(held, "full") /\ held' = <<>> /\ drainPc' = "wait"
        /\ UNCHANGED <<collected, pktCh, buf, delivered, sends>>
    BY <1>4 DEF RequeueHeld
  <2>2. /\ held \in Seq(Ids) /\ NoDup(held)
        /\ \A p \in ToSet(held) : p \in 1..collected /\ p \notin ToSet(q)
    BY DEF IInv, Inv, TypeOK, Distinct, InPlaces, Placed
  <2>3. /\ NoDup(q')
        /\ \A p \in ToSet(q') : p \in ToSet(q) \/ p \in ToSet(held)
        /\ \A p \in ToSet(q) : p \in ToSet(q') \/ p \in Gone'
        /\ \A p \in ToSet(held) : p \in ToSet(q') \/ p \in Gone'
        /\ \A p \in Gone : p \in Gone'
        /\ collected <= QueueCap => lost' = lost
    BY <2>1, <2>2, PushKeepsAll
  <2>4. InFlight' = InFlight /\ ToSet(held') = {} /\ NoDup(held')
    BY <2>1, EmptyElems DEF InFlight
  <2>5. Distinct' /\ HeldInHand'
    BY <2>1, <2>3, <2>4 DEF IInv, Distinct, HeldInHand
  <2>6. InPlaces'
    BY <2>1, <2>3, <2>4 DEF IInv, InPlaces, Placed
  <2>7. OutageLosesNothing'
    BY <2>1, <2>3 DEF IInv, OutageLosesNothing
  <2>8. QED
    BY <2>5, <2>6, <2>7 DEF IInv
<1>5. QED
  BY <1>1, <1>2, <1>3, <1>4 DEF Drain

\* One sender.
LEMMA SendIInv == ASSUME IInv, Inv', NEW s \in Slots, Send(s) PROVE IInv'
<1>1. sends \in [Slots -> [st : {"idle", "rpc", "ok", "err", "requeue"}, batch : Seq(Ids)]]
  BY DEF IInv, Inv, TypeOK
<1>2. sends[s].batch \in Seq(Ids) /\ NoDup(sends[s].batch)
  BY <1>1 DEF IInv, Distinct
<1> DEFINE F == ToSet(sends[s].batch)
<1>3. CASE RpcAccepted(s) \/ RpcRejected(s)
  <2>1. /\ sends[s].st = "rpc" /\ sends' = [sends EXCEPT ![s].st = "ok"]
        /\ UNCHANGED <<collected, pktCh, buf, q, held, drainPc, proc>>
        /\ \/ delivered' = delivered \cup F /\ lost' = lost
           \/ delivered' = delivered /\ lost' = lost \cup (F \X {"rejected"})
    BY <1>3 DEF RpcAccepted, RpcRejected
  <2>2. /\ \A r \in Slots : r # s => InFlight'[r] = InFlight[r]
        /\ InFlight'[s] = {} /\ InFlight[s] = F
    BY <1>1, <2>1 DEF InFlight
  <2>3. \A r \in Slots : NoDup(sends'[r].batch)
    BY <1>1, <2>1 DEF IInv, Distinct
  <2>4. Firsts(lost \cup (F \X {"rejected"})) = Firsts(lost) \cup F
    BY FirstsAdd
  <2>5. Gone = Firsts(lost) /\ Gone' = Firsts(lost')
    BY DEF Gone, Firsts
  <2> HIDE DEF F
  <2>6. /\ \A p \in F : p \in delivered' \/ p \in Gone'
        /\ \A p \in delivered : p \in delivered'
        /\ \A p \in Gone : p \in Gone'
    BY <2>1, <2>4, <2>5
  <2>7. Distinct' /\ HeldInHand'
    BY <2>1, <2>3 DEF IInv, Distinct, HeldInHand
  <2>8. InPlaces'
    BY <2>1, <2>2, <2>6 DEF IInv, InPlaces, Placed
  <2>9. OutageLosesNothing'
    <3>1. \A l \in lost' : l \in lost \/ l[2] = "rejected"
      BY <2>1
    <3>2. QED
      BY <2>1, <3>1 DEF IInv, OutageLosesNothing
  <2>10. QED
    BY <2>7, <2>8, <2>9 DEF IInv
<1>4. CASE RpcFailed(s)
  <2>1. /\ sends[s].st = "rpc" /\ sends' = [sends EXCEPT ![s].st = "err"]
        /\ UNCHANGED <<collected, pktCh, buf, q, held, drainPc, proc, lost>>
        /\ delivered \subseteq delivered'
    BY <1>4 DEF RpcFailed
  <2>2. /\ InFlight' = InFlight /\ \A r \in Slots : NoDup(sends'[r].batch)
    BY <1>1, <2>1 DEF InFlight, IInv, Distinct
  <2>3. Distinct' /\ HeldInHand' /\ Gone' = Gone
    BY <2>1, <2>2 DEF IInv, Distinct, HeldInHand, Gone
  <2>4. InPlaces'
    BY <2>1, <2>2, <2>3 DEF IInv, InPlaces, Placed
  <2>5. OutageLosesNothing'
    BY <2>1 DEF IInv, OutageLosesNothing
  <2>6. QED
    BY <2>3, <2>4, <2>5 DEF IInv
<1>5. CASE SendOk(s) \/ SendFailed(s)
  <2>1. /\ \/ sends[s].st = "ok" /\ sends' = [sends EXCEPT ![s] = Idle]
           \/ sends[s].st = "err" /\ sends' = [sends EXCEPT ![s].st = "requeue"]
        /\ UNCHANGED <<collected, pktCh, buf, q, held, drainPc, proc, lost, delivered>>
    BY <1>5 DEF SendOk, SendFailed
  <2>2. InFlight' = InFlight
    <3>1. \A r \in Slots : r # s => sends'[r] = sends[r]
      BY <1>1, <2>1
    <3>2. /\ sends[s].st = "ok" => sends'[s].st # "ok" /\ sends'[s].batch = <<>>
          /\ sends[s].st # "ok" => sends'[s].st # "ok" /\ sends'[s].batch = sends[s].batch
      BY <1>1, <2>1 DEF Idle
    <3>3. \A r \in Slots : InFlight'[r] = InFlight[r]
      BY <3>1, <3>2, EmptyElems DEF InFlight
    <3>4. QED
      BY <3>3 DEF InFlight
  <2>3. \A r \in Slots : NoDup(sends'[r].batch)
    BY SMTT(30), <1>1, <2>1, EmptyElems DEF IInv, Distinct, Idle
  <2>4. HeldInHand'
    BY <2>1 DEF IInv, HeldInHand
  <2>5. QED
    BY <2>1, <2>2, <2>3, <2>4, QuietIInv
<1>6. CASE Requeue(s)
  <2>1. /\ sends[s].st = "requeue" /\ PushOrLose(sends[s].batch, "full")
        /\ sends' = [sends EXCEPT ![s] = Idle]
        /\ UNCHANGED <<collected, pktCh, buf, held, drainPc, proc, delivered>>
    BY <1>6 DEF Requeue
  <2>2. /\ \A r \in Slots : r # s => InFlight'[r] = InFlight[r]
        /\ InFlight'[s] = {} /\ InFlight[s] = F
    BY <1>1, <2>1, EmptyElems DEF InFlight, Idle
  <2>3. \A r \in Slots : NoDup(sends'[r].batch)
    BY <1>1, <2>1, EmptyElems DEF IInv, Distinct, Idle
  <2>4. \A p \in F : p \in 1..collected /\ p \notin ToSet(q)
    BY <2>2 DEF IInv, InPlaces, Placed
  <2>5. /\ NoDup(q')
        /\ \A p \in ToSet(q') : p \in ToSet(q) \/ p \in F
        /\ \A p \in ToSet(q) : p \in ToSet(q') \/ p \in Gone'
        /\ \A p \in F : p \in ToSet(q') \/ p \in Gone'
        /\ \A p \in Gone : p \in Gone'
        /\ collected <= QueueCap => lost' = lost
    BY <1>2, <2>1, <2>4, PushKeepsAll
  <2> HIDE DEF F
  <2>6. Distinct' /\ HeldInHand'
    BY <2>1, <2>3, <2>5 DEF IInv, Distinct, HeldInHand
  <2>7. InPlaces'
    BY <2>1, <2>2, <2>5 DEF IInv, InPlaces, Placed
  <2>8. OutageLosesNothing'
    BY <2>1, <2>5 DEF IInv, OutageLosesNothing
  <2>9. QED
    BY <2>6, <2>7, <2>8 DEF IInv
<1>7. QED
  BY <1>3, <1>4, <1>5, <1>6 DEF Send

\* What is let go of when the process ends is what only its memory held.
LEMMA DieIInv ==
  ASSUME IInv, Inv', NEW cause \in {"stop", "crash"}, Die(cause)
  PROVE  IInv'
<1>1. /\ pktCh' = <<>> /\ buf' = <<>> /\ held' = <<>> /\ drainPc' = "done"
      /\ sends' = [s \in Slots |-> Idle] /\ UNCHANGED <<collected, q, delivered>>
      /\ lost' = (lost \cup ((InMemory \ Popped) \X {"memory"}))
                   \cup ((Popped \ delivered) \X {cause})
  BY DEF Die
<1>2. /\ Gone = Firsts(lost) /\ Gone' = Firsts(lost')
  BY DEF Gone, Firsts
<1>3. Gone' = Gone \cup (InMemory \ Popped) \cup (Popped \ delivered)
  <2> DEFINE M == InMemory \ Popped
             O == Popped \ delivered
  <2>1. Firsts(lost \cup (M \X {"memory"})) = Firsts(lost) \cup M
    BY FirstsAdd
  <2>2. Firsts((lost \cup (M \X {"memory"})) \cup (O \X {cause}))
          = Firsts(lost \cup (M \X {"memory"})) \cup O
    BY ZenonT(30), FirstsAdd
  <2>3. QED
    BY <1>1, <1>2, <2>1, <2>2
<1>4. /\ \A s \in Slots : InFlight'[s] = {} /\ NoDup(sends'[s].batch)
      /\ ToSet(<<>>) = {} /\ NoDup(<<>>)
  BY <1>1, EmptyElems DEF InFlight, Idle
<1>5. /\ \A p \in ToSet(pktCh) : p \in InMemory \/ p \in delivered
      /\ \A p \in ToSet(buf) : p \in InMemory \/ p \in delivered
      /\ \A p \in ToSet(held) : p \in Popped
      /\ \A s \in Slots : \A p \in InFlight[s] : p \in Popped
  BY DEF InMemory, Popped, InFlight
<1>6. /\ \A p \in ToSet(pktCh) \cup ToSet(buf) \cup ToSet(held) : p \in delivered \/ p \in Gone'
      /\ \A s \in Slots : \A p \in InFlight[s] : p \in delivered \/ p \in Gone'
      /\ \A p \in Gone : p \in Gone'
  BY <1>3, <1>5
<1>7. Distinct' /\ HeldInHand'
  BY <1>1, <1>4 DEF IInv, Distinct, HeldInHand
<1>8. InPlaces'
  <2>1. /\ ToSet(pktCh') = {} /\ ToSet(buf') = {} /\ ToSet(held') = {} /\ ToSet(q') = ToSet(q)
        /\ collected' = collected /\ delivered' = delivered
    BY <1>1, <1>4
  <2>2. /\ \A p \in ToSet(q) : p \in 1..collected
        /\ \A p \in 1..collected : \/ p \in ToSet(pktCh) \/ p \in ToSet(buf) \/ p \in ToSet(q)
                                   \/ p \in ToSet(held) \/ (\E s \in Slots : p \in InFlight[s])
                                   \/ p \in delivered \/ p \in Gone
    BY DEF IInv, InPlaces, Placed
  <2>3. \A p \in 1..collected : p \in ToSet(q) \/ p \in delivered \/ p \in Gone'
    BY <1>6, <2>2
  <2>4. QED
    BY <1>4, <2>1, <2>2, <2>3 DEF InPlaces, Placed
<1>9. OutageLosesNothing'
  <2>1. \A l \in lost' : l \in lost \/ l[2] \in {"memory", "stop", "crash"}
    BY <1>1
  <2>2. QED
    BY <1>1, <2>1 DEF IInv, OutageLosesNothing
<1>10. QED
  BY <1>7, <1>8, <1>9 DEF IInv

\* The process and the hub.
LEMMA LifeIInv ==
  ASSUME IInv, Inv', Cancel \/ Exit \/ Crash \/ Restart \/ DcsFails \/ DcsReturns
  PROVE  IInv'
<1>1. CASE Cancel \/ DcsFails \/ DcsReturns
  <2>1. /\ UNCHANGED <<collected, pktCh, buf, q, held, delivered, lost, sends, drainPc>>
        /\ proc' = "dead" => proc = "dead"
    BY <1>1 DEF Cancel, DcsFails, DcsReturns, edr
  <2>2. HeldInHand'
    BY <2>1 DEF IInv, HeldInHand
  <2>3. QED
    BY <2>1, <2>2, SameSends, QuietIInv
<1>2. CASE Restart
  <2>1. /\ UNCHANGED <<collected, pktCh, buf, q, held, delivered, lost, sends>>
        /\ proc = "dead" /\ drainPc' = "connect"
    BY <1>2 DEF Restart
  <2>2. HeldInHand'
    BY <2>1 DEF IInv, HeldInHand
  <2>3. QED
    BY <2>1, <2>2, SameSends, QuietIInv
<1>3. CASE Exit \/ Crash
  BY <1>3, DieIInv DEF Exit, Crash
<1>4. QED
  BY <1>1, <1>2, <1>3

\* Every step keeps the packets in their places.
LEMMA NextIInv == IInv /\ [Next]_vars => IInv'
<1> SUFFICES ASSUME IInv, [Next]_vars PROVE IInv'
  OBVIOUS
<1>1. Inv'
  BY NextInv DEF IInv
<1>2. CASE UNCHANGED vars
  <2>1. UNCHANGED <<collected, pktCh, buf, q, held, delivered, lost, sends, drainPc, proc>>
    BY <1>2 DEF vars, edr
  <2>2. HeldInHand'
    BY <2>1 DEF IInv, HeldInHand
  <2>3. QED
    BY <1>1, <2>1, <2>2, SameSends, QuietIInv
<1>3. CASE Next
  BY <1>1, <1>3, CollectIInv, FaninIInv, DrainIInv, SendIInv, LifeIInv DEF Next
<1>4. QED
  BY <1>2, <1>3

\* How often a sequence without duplicates holds p.
LEMMA SpotCount ==
  ASSUME NEW s \in Seq(Ids), NoDup(s), NEW p
  PROVE  Cardinality({i \in DOMAIN s : s[i] = p}) = IF p \in ToSet(s) THEN 1 ELSE 0
<1> DEFINE I == {i \in DOMAIN s : s[i] = p}
<1>1. CASE p \in ToSet(s)
  <2>1. PICK k \in DOMAIN s : s[k] = p
    BY <1>1 DEF ToSet
  <2>2. I = {k}
    BY <2>1 DEF NoDup
  <2> HIDE DEF I
  <2>3. Cardinality(I) = 1
    BY <2>2, FS_Singleton
  <2>4. QED
    BY <1>1, <2>3 DEF I
<1>2. CASE p \notin ToSet(s)
  <2>1. I = {}
    BY <1>2 DEF ToSet
  <2> HIDE DEF I
  <2>2. Cardinality(I) = 0
    BY <2>1, FS_EmptySet
  <2>3. QED
    BY <1>2, <2>2 DEF I
<1>3. QED
  BY <1>1, <1>2

\* How many senders have p.
LEMMA SlotCount ==
  ASSUME IInv, NEW p
  PROVE  LET R == {s \in Slots : sends[s].st # "ok" /\ p \in ToSet(sends[s].batch)}
         IN  Cardinality(R) = IF \E s \in Slots : p \in InFlight[s] THEN 1 ELSE 0
<1> DEFINE R == {s \in Slots : sends[s].st # "ok" /\ p \in ToSet(sends[s].batch)}
<1>1. R = {s \in Slots : p \in InFlight[s]}
  BY DEF InFlight
<1> HIDE DEF R
<1>2. CASE \E s \in Slots : p \in InFlight[s]
  <2>1. PICK s \in Slots : p \in InFlight[s]
    BY <1>2
  <2>2. \A r \in Slots : r # s => p \notin InFlight[r]
    BY <2>1 DEF IInv, InPlaces, Placed
  <2>3. R = {s}
    BY <1>1, <2>1, <2>2
  <2>4. Cardinality(R) = 1
    BY <2>3, FS_Singleton
  <2>5. QED
    BY <1>2, <2>4 DEF R
<1>3. CASE ~\E s \in Slots : p \in InFlight[s]
  <2>1. R = {}
    BY <1>1, <1>3
  <2>2. Cardinality(R) = 0
    BY <2>1, FS_EmptySet
  <2>3. QED
    BY <1>3, <2>2 DEF R
<1>4. QED
  BY <1>2, <1>3

\* Places that are apart add up to one.
LEMMA PlacesAddUp == IInv => InOnePlace
<1> SUFFICES ASSUME IInv, NEW p \in 1..collected
             PROVE  /\ Places(p) <= 1
                    /\ Places(p) = 0 => p \in delivered \/ p \in Gone
  BY DEF InOnePlace
<1> DEFINE c == Cardinality({i \in DOMAIN pktCh : pktCh[i] = p})
           b == Cardinality({i \in DOMAIN buf : buf[i] = p})
           k == Cardinality({i \in DOMAIN q : q[i] = p})
           h == Cardinality({i \in DOMAIN held : held[i] = p})
           f == Cardinality({s \in Slots : sends[s].st # "ok" /\ p \in ToSet(sends[s].batch)})
           F == \E s \in Slots : p \in InFlight[s]
<1>1. /\ pktCh \in Seq(Ids) /\ buf \in Seq(Ids) /\ q \in Seq(Ids) /\ held \in Seq(Ids)
      /\ NoDup(pktCh) /\ NoDup(buf) /\ NoDup(q) /\ NoDup(held)
  BY DEF IInv, Inv, TypeOK, Distinct
<1>2. /\ c = (IF p \in ToSet(pktCh) THEN 1 ELSE 0) /\ b = (IF p \in ToSet(buf) THEN 1 ELSE 0)
      /\ k = (IF p \in ToSet(q) THEN 1 ELSE 0) /\ h = (IF p \in ToSet(held) THEN 1 ELSE 0)
  BY <1>1, SpotCount
<1>3. f = IF F THEN 1 ELSE 0
  BY SlotCount
<1>4. /\ p \in ToSet(pktCh) => p \notin ToSet(buf) /\ p \notin ToSet(q) /\ p \notin ToSet(held)
      /\ p \in ToSet(buf) => p \notin ToSet(q) /\ p \notin ToSet(held)
      /\ p \in ToSet(q) => p \notin ToSet(held)
      /\ F => /\ p \notin ToSet(pktCh) /\ p \notin ToSet(buf) /\ p \notin ToSet(q)
              /\ p \notin ToSet(held)
      /\ \/ p \in ToSet(pktCh) \/ p \in ToSet(buf) \/ p \in ToSet(q) \/ p \in ToSet(held) \/ F
         \/ p \in delivered \/ p \in Gone
  BY DEF IInv, InPlaces, Placed
<1>5. Places(p) = c + b + k + h + f
  BY DEF Places
<1> HIDE DEF c, b, k, h, f, F
<1>6. QED
  BY <1>2, <1>3, <1>4, <1>5

\* A packet is in exactly one place of the collector until the hub has it or the code has
\* let go of it, for any number of packets and senders, through requeues, evictions,
\* rejections, stops and crashes; and while what was collected fits the queue, an outage of
\* the hub alone costs nothing, however the answers of the senders interleave.
THEOREM PublisherNothingVanishes == Spec => []NothingVanishes
<1>1. Spec => []IInv
  BY InitIInv, NextIInv, PTL DEF Spec
<1>2. IInv => NothingVanishes
  BY PlacesAddUp DEF NothingVanishes, IInv
<1>3. QED
  BY <1>1, <1>2, PTL
=============================================================================
