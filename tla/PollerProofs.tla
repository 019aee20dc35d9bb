---------------------------- MODULE PollerProofs ----------------------------
(***************************************************************************)
(* Proofs about the SNMP poller, for any fleet, caps, thresholds, tiers    *)
(* and faults: sessions are used by one poll at a time and never pulled    *)
(* from under it, and the caps on sockets hold.                            *)
(***************************************************************************)
EXTENDS Poller, FiniteSetTheorems, TLAPS

-----------------------------------------------------------------------------
(* The inductive invariant.                                                *)

WalkerType == [pc : Pcs, tier : 1..Len(Tiers), ok : BOOLEAN, part : BOOLEAN, beat : BOOLEAN,
               conn : {NoConn} \cup Conns]

Holding == {"heavy", "socket", "collect"}
Busy    == {"lock"} \cup Holding

\* A walker has a session from getConn to the end of the poll, and while it frees it.
WalkersTyped ==
  /\ w \in [Targets -> WalkerType]
  /\ \A t \in Targets : w[t].conn = NoConn <=> w[t].pc \notin Busy \cup {"free"}

\* Two walkers that hold a session's lock hold different ones.
Exclusive ==
  \A t, u \in Targets : t # u /\ w[t].pc \in Holding /\ w[u].pc \in Holding => w[t].conn # w[u].conn

RestTyped ==
  /\ fleet \in Layouts
  /\ conns \in [Keys -> {NoConn} \cup Conns] /\ cl \in [Conns -> {"none", "open", "dead", "cut"}]
  /\ paused \in BOOLEAN /\ dcsDown \in BOOLEAN
  /\ others \in 0..MaxOthers /\ main \in {"run", "drain", "close"}
  /\ closing \subseteq Keys /\ faults \in 0..MaxFaults

\* The two semaphores.
SlotsBounded ==
  /\ Cardinality(SocketHolders) + others <= SocketCap
  /\ Cardinality(HeavyHolders) <= HeavyCap

\* A breaker opens when its failures reach the threshold.
Streaks ==
  /\ live \in [Targets -> [fails : 0..FastThreshold, open : BOOLEAN, own : BOOLEAN]]
  /\ heavy \in [Targets -> [fails : 0..HeavyThreshold, open : BOOLEAN, own : BOOLEAN]]
  /\ \A t \in Targets : /\ live[t].fails >= FastThreshold => live[t].open
                        /\ heavy[t].fails >= HeavyThreshold => heavy[t].open

\* A poll runs only while its breaker is closed.
Admitted == \A t \in Targets : w[t].pc \in Busy => ~Breaker(t).open

IInv ==
  WalkersTyped /\ Exclusive /\ RestTyped /\ SlotsBounded /\ Streaks /\ Admitted /\ SessionNotPulled

-----------------------------------------------------------------------------
(* Constants and operators.                                                *)

LEMMA CapsPositive ==
  /\ SocketCap \in Nat \ {0} /\ HeavyCap \in Nat \ {0}
  /\ SocketCap > 1 => HeavyCap < SocketCap
<1>1. SocketCap \in Nat \ {0}
  BY PollerAssumption DEF SocketCap
<1>2. QED
  BY <1>1 DEF HeavyCap

LEMMA TiersCounted == Len(Tiers) \in Nat \ {0}
<1>1. HeavyTiers \in Seq({"medium", "topology", "slow", "environment", "server_health"})
  BY PollerAssumption
<1>2. Len(<<"fast">> \o HeavyTiers) = 1 + Len(HeavyTiers) /\ Len(HeavyTiers) \in Nat
  BY <1>1
<1>3. QED
  BY <1>2 DEF Tiers

LEMMA ConnsPositive == Conns \subseteq Nat \ {0} /\ NoConn \notin Conns
<1>1. Cardinality(Targets) \in Nat
  BY PollerAssumption, FS_CardinalityType
<1>2. QED
  BY <1>1 DEF Conns, NoConn

LEMMA AtMostOne ==
  ASSUME NEW S, \A x, y \in S : x = y
  PROVE  IsFiniteSet(S) /\ Cardinality(S) <= 1
<1>1. CASE S = {}
  BY <1>1, FS_EmptySet
<1>2. CASE S # {}
  <2>1. PICK x \in S : TRUE
    BY <1>2
  <2>2. S = {x}
    BY <2>1
  <2>3. IsFiniteSet({x}) /\ Cardinality({x}) = 1
    BY FS_Singleton
  <2>4. QED
    BY <2>2, <2>3
<1>3. QED
  BY <1>1, <1>2

LEMMA AddOne ==
  ASSUME NEW S, IsFiniteSet(S), NEW x
  PROVE  /\ IsFiniteSet(S \cup {x}) /\ Cardinality(S) \in Nat /\ Cardinality(S \cup {x}) \in Nat
         /\ Cardinality(S \cup {x}) <= Cardinality(S) + 1
<1>1. IsFiniteSet(S \cup {x}) /\ Cardinality(S \cup {x}) = IF x \in S THEN Cardinality(S) ELSE Cardinality(S) + 1
  BY FS_AddElement
<1>2. Cardinality(S) \in Nat
  BY FS_CardinalityType
<1>3. QED
  BY <1>1, <1>2

LEMMA WalkerTyped ==
  ASSUME NEW pc \in Pcs
  PROVE  Walker(pc) \in WalkerType /\ Walker(pc).pc = pc /\ Walker(pc).conn = NoConn
<1>1. 1 \in 1..Len(Tiers)
  BY TiersCounted
<1>2. QED
  BY <1>1 DEF Walker, WalkerType

\* A poll that is over leaves the session and goes to the next tier, to the end of the
\* walk, or to sleep.
LEMMA AfterPollTyped ==
  ASSUME NEW r \in WalkerType, NEW ok \in BOOLEAN, NEW part \in BOOLEAN
  PROVE  /\ AfterPoll(r, ok, part) \in WalkerType
         /\ AfterPoll(r, ok, part).pc \in {"gate", "release", "sleep"}
         /\ AfterPoll(r, ok, part).conn = NoConn
<1> DEFINE walked == IF r.tier = 1 THEN [r EXCEPT !.ok = ok] ELSE [r EXCEPT !.part = r.part \/ part]
           last   == r.beat \/ r.tier = Len(Tiers)
           next   == [walked EXCEPT !.pc = "gate", !.tier = walked.tier + 1, !.conn = NoConn]
           done   == [Walker("release") EXCEPT !.part = walked.part]
           sleep  == [Walker("sleep") EXCEPT !.beat = r.beat \/ (Mode = "heartbeat" /\ walked.ok)]
<1>1. walked \in WalkerType /\ walked.tier = r.tier
  <2>1. (r.part \/ part) \in BOOLEAN
    BY Zenon
  <2>2. QED
    BY <2>1 DEF WalkerType
<1>2. AfterPoll(r, ok, part) = IF ~last THEN next ELSE IF Mode = "oneshot" /\ walked.ok THEN done ELSE sleep
  BY DEF AfterPoll
<1>3. ~last => next \in WalkerType /\ next.pc = "gate" /\ next.conn = NoConn
  <2>1. SUFFICES ASSUME ~last PROVE next \in WalkerType /\ next.pc = "gate" /\ next.conn = NoConn
    OBVIOUS
  <2>2. walked.tier + 1 \in 1..Len(Tiers)
    BY <1>1, <2>1, TiersCounted DEF WalkerType
  <2>3. NoConn \in {NoConn} \cup Conns /\ "gate" \in Pcs
    BY DEF Pcs
  <2> HIDE DEF walked
  <2>4. QED
    BY <1>1, <2>2, <2>3 DEF WalkerType
<1>4. done \in WalkerType /\ done.pc = "release" /\ done.conn = NoConn
  <2>1. Walker("release") \in WalkerType /\ Walker("release").pc = "release" /\ Walker("release").conn = NoConn
    BY WalkerTyped DEF Pcs
  <2>2. walked.part \in BOOLEAN
    BY <1>1 DEF WalkerType
  <2>3. QED
    BY <2>1, <2>2 DEF WalkerType
<1>5. sleep \in WalkerType /\ sleep.pc = "sleep" /\ sleep.conn = NoConn
  <2>1. Walker("sleep") \in WalkerType /\ Walker("sleep").pc = "sleep" /\ Walker("sleep").conn = NoConn
    BY WalkerTyped DEF Pcs
  <2>2. (r.beat \/ (Mode = "heartbeat" /\ walked.ok)) \in BOOLEAN
    BY Zenon
  <2>3. QED
    BY <2>1, <2>2 DEF WalkerType
<1>6. QED
  BY <1>2, <1>3, <1>4, <1>5

-----------------------------------------------------------------------------
(* Steps of one walker.                                                    *)

LEMMA SlotsFinite ==
  ASSUME NEW S \in SUBSET Targets, NEW T \in SUBSET S
  PROVE  /\ IsFiniteSet(S) /\ Cardinality(S) \in Nat /\ Cardinality(T) \in Nat
         /\ Cardinality(T) <= Cardinality(S)
  BY PollerAssumption, FS_Subset, FS_CardinalityType

\* Outside the session's lock.
LEMMA MoveOut ==
  ASSUME IInv, NEW t \in Targets, NEW r \in WalkerType, w' = [w EXCEPT ![t] = r], r.pc \notin Holding,
         r.conn = NoConn <=> r.pc \notin Busy \cup {"free"}, others' = others
  PROVE  /\ WalkersTyped' /\ Exclusive' /\ SlotsBounded' /\ w'[t] = r
         /\ \A u \in Targets : u # t => w'[u] = w[u]
<1>1. /\ w \in [Targets -> WalkerType] /\ w' \in [Targets -> WalkerType] /\ w'[t] = r
      /\ \A u \in Targets : u # t => w'[u] = w[u]
  BY DEF IInv, WalkersTyped
<1>2. WalkersTyped' /\ Exclusive'
  BY <1>1 DEF IInv, WalkersTyped, Exclusive
<1>3. SocketHolders' \subseteq SocketHolders /\ HeavyHolders' \subseteq HeavyHolders
  BY <1>1 DEF SocketHolders, HeavyHolders, IsFast, Holding
<1>4. /\ Cardinality(SocketHolders) \in Nat /\ Cardinality(SocketHolders') \in Nat
      /\ Cardinality(SocketHolders') <= Cardinality(SocketHolders)
      /\ Cardinality(HeavyHolders) \in Nat /\ Cardinality(HeavyHolders') \in Nat
      /\ Cardinality(HeavyHolders') <= Cardinality(HeavyHolders)
  <2>1. SocketHolders \in SUBSET Targets /\ HeavyHolders \in SUBSET Targets
    BY DEF SocketHolders, HeavyHolders
  <2>2. QED
    BY <1>3, <2>1, SlotsFinite
<1>5. others \in Nat
  BY PollerAssumption DEF IInv, RestTyped
<1>6. SlotsBounded'
  BY <1>4, <1>5, CapsPositive DEF IInv, SlotsBounded
<1>7. QED
  BY <1>1, <1>2, <1>6

\* Into the lock, or from one semaphore to the next.
LEMMA MoveIn ==
  ASSUME IInv, NEW t \in Targets, NEW p \in Holding, w' = [w EXCEPT ![t].pc = p], w[t].pc \in Busy,
         w[t].pc \in Holding \/ Unlocked(w[t].conn)
  PROVE  /\ WalkersTyped' /\ Exclusive' /\ w'[t] = [w[t] EXCEPT !.pc = p]
         /\ w'[t].pc = p /\ w'[t].tier = w[t].tier /\ w'[t].conn = w[t].conn
         /\ \A u \in Targets : u # t => w'[u] = w[u]
<1> DEFINE r == [w[t] EXCEPT !.pc = p]
<1>1. w \in [Targets -> WalkerType] /\ w[t] \in WalkerType /\ w[t].conn # NoConn
  BY DEF IInv, WalkersTyped
<1>2. r \in WalkerType /\ r.pc = p /\ r.tier = w[t].tier /\ r.conn = w[t].conn
  BY <1>1 DEF WalkerType, Pcs, Holding
<1>3. w' = [w EXCEPT ![t] = r]
  OBVIOUS
<1> HIDE DEF r
<1>4. w' \in [Targets -> WalkerType] /\ w'[t] = r /\ \A u \in Targets : u # t => w'[u] = w[u]
  BY <1>1, <1>2, <1>3
<1>5. WalkersTyped'
  BY <1>1, <1>2, <1>4 DEF IInv, WalkersTyped, Busy
<1>6. Exclusive'
  BY <1>2, <1>4 DEF IInv, Exclusive, Unlocked, Holders, Holding
<1>7. QED
  BY <1>2, <1>4, <1>5, <1>6 DEF r

-----------------------------------------------------------------------------
(* Breakers and sessions.                                                  *)

\* What a walker records in its breaker: a success, or one more failure of a poll that
\* was admitted.
Failed(t, b) == \E own \in BOOLEAN : b = RecordFailure(Breaker(t), Threshold(t), own)

LEMMA BreakerSet ==
  ASSUME IInv, NEW t \in Targets, w[t].pc \in Busy, NEW b, b = Closed \/ Failed(t, b), SetBreaker(t, b)
  PROVE  Streaks' /\ \A u \in Targets : u # t => live'[u] = live[u] /\ heavy'[u] = heavy[u]
<1>1. /\ live \in [Targets -> [fails : 0..FastThreshold, open : BOOLEAN, own : BOOLEAN]]
      /\ heavy \in [Targets -> [fails : 0..HeavyThreshold, open : BOOLEAN, own : BOOLEAN]]
      /\ FastThreshold \in Nat \ {0} /\ HeavyThreshold \in Nat \ {0}
  BY PollerAssumption DEF IInv, Streaks
<1>2. CASE IsFast(t)
  <2>1. live' = [live EXCEPT ![t] = b] /\ heavy' = heavy /\ ~live[t].open
    BY <1>2 DEF SetBreaker, IInv, Admitted, Breaker
  <2>2. live[t].fails \in 0..(FastThreshold - 1)
    BY <1>1, <2>1 DEF IInv, Streaks
  <2>3. b \in [fails : 0..FastThreshold, open : BOOLEAN, own : BOOLEAN] /\ (b.fails >= FastThreshold => b.open)
    <3>1. CASE b = Closed
      BY <1>1, <3>1 DEF Closed
    <3>2. CASE Failed(t, b)
      <4>1. PICK o \in BOOLEAN : b = RecordFailure(live[t], FastThreshold, o)
        BY <1>2, <3>2 DEF Failed, Breaker, Threshold
      <4>2. (live[t].own \/ o) \in BOOLEAN
        BY Zenon
      <4>3. PICK own \in BOOLEAN : b = [fails |-> live[t].fails + 1, open |-> live[t].fails + 1 >= FastThreshold, own |-> own]
        BY <4>1, <4>2 DEF RecordFailure
      <4>4. live[t].fails + 1 \in 0..FastThreshold /\ (live[t].fails + 1 >= FastThreshold) \in BOOLEAN
        BY <1>1, <2>2
      <4>5. QED
        BY <4>3, <4>4
    <3>3. QED
      BY <3>1, <3>2
  <2>4. QED
    BY <1>1, <2>1, <2>3 DEF IInv, Streaks
<1>3. CASE ~IsFast(t)
  <2>1. heavy' = [heavy EXCEPT ![t] = b] /\ live' = live /\ ~heavy[t].open
    BY <1>3 DEF SetBreaker, IInv, Admitted, Breaker
  <2>2. heavy[t].fails \in 0..(HeavyThreshold - 1)
    BY <1>1, <2>1 DEF IInv, Streaks
  <2>3. b \in [fails : 0..HeavyThreshold, open : BOOLEAN, own : BOOLEAN] /\ (b.fails >= HeavyThreshold => b.open)
    <3>1. CASE b = Closed
      BY <1>1, <3>1 DEF Closed
    <3>2. CASE Failed(t, b)
      <4>1. PICK o \in BOOLEAN : b = RecordFailure(heavy[t], HeavyThreshold, o)
        BY <1>3, <3>2 DEF Failed, Breaker, Threshold
      <4>2. (heavy[t].own \/ o) \in BOOLEAN
        BY Zenon
      <4>3. PICK own \in BOOLEAN : b = [fails |-> heavy[t].fails + 1, open |-> heavy[t].fails + 1 >= HeavyThreshold, own |-> own]
        BY <4>1, <4>2 DEF RecordFailure
      <4>4. heavy[t].fails + 1 \in 0..HeavyThreshold /\ (heavy[t].fails + 1 >= HeavyThreshold) \in BOOLEAN
        BY <1>1, <2>2
      <4>5. QED
        BY <4>3, <4>4
    <3>3. QED
      BY <3>1, <3>2
  <2>4. QED
    BY <1>1, <2>1, <2>3 DEF IInv, Streaks
<1>4. QED
  BY <1>2, <1>3

\* There is a session to make: at most one per key and one per other walker is in use.
LEMMA FreshIsFree ==
  ASSUME IInv, NEW t \in Targets, w[t].conn = NoConn
  PROVE  Fresh \in Conns /\ ~Referenced(Fresh)
<1> DEFINE n == Cardinality(Targets)
           A == {conns[k] : k \in Keys}
           others1 == Targets \ {t}
           B == {w[u].conn : u \in others1}
<1>1. IsFiniteSet(Targets) /\ n \in Nat
  BY PollerAssumption, FS_CardinalityType
<1>2. IsFiniteSet(A) /\ Cardinality(A) <= n
  <2>1. IsFiniteSet(Keys) /\ Cardinality(Keys) <= n
    <3>1. [u \in Targets |-> Key(u)] \in Surjection(Targets, Keys)
      BY DEF Surjection, Keys
    <3>2. QED
      BY <1>1, <3>1, FS_Surjection
  <2>2. [k \in Keys |-> conns[k]] \in Surjection(Keys, A)
    BY DEF Surjection
  <2>3. IsFiniteSet(A) /\ Cardinality(A) <= Cardinality(Keys)
    BY <2>1, <2>2, FS_Surjection
  <2>4. Cardinality(A) \in Nat /\ Cardinality(Keys) \in Nat
    BY <2>1, <2>3, FS_CardinalityType
  <2>5. QED
    BY <1>1, <2>1, <2>3, <2>4
<1>3. IsFiniteSet(B) /\ Cardinality(B) <= n - 1
  <2>1. IsFiniteSet(others1) /\ Cardinality(others1) = n - 1
    BY <1>1, FS_RemoveElement
  <2>2. [u \in others1 |-> w[u].conn] \in Surjection(others1, B)
    BY DEF Surjection
  <2>3. IsFiniteSet(B) /\ Cardinality(B) <= Cardinality(others1)
    BY <2>1, <2>2, FS_Surjection
  <2>4. QED
    BY <2>1, <2>3
<1>4. IsFiniteSet(A \cup B) /\ Cardinality(A \cup B) < 2 * n
  <2>1. /\ IsFiniteSet(A \cup B) /\ IsFiniteSet(A \cap B)
        /\ Cardinality(A \cup B) = Cardinality(A) + Cardinality(B) - Cardinality(A \cap B)
    BY <1>2, <1>3, FS_Union, FS_Subset
  <2>2. Cardinality(A) \in Nat /\ Cardinality(B) \in Nat /\ Cardinality(A \cap B) \in Nat
    BY <1>2, <1>3, <2>1, FS_CardinalityType
  <2>3. QED
    BY <1>1, <1>2, <1>3, <2>1, <2>2
<1>5. IsFiniteSet(Conns) /\ Cardinality(Conns) = 2 * n
  <2>1. 2 * n \in Nat
    BY <1>1
  <2>2. Cardinality(1..(2 * n)) = 2 * n /\ IsFiniteSet(1..(2 * n))
    BY <2>1, FS_Interval
  <2>3. QED
    BY <2>2 DEF Conns
<1>6. ~(Conns \subseteq A \cup B)
  <2>1. SUFFICES ASSUME Conns \subseteq A \cup B PROVE FALSE
    OBVIOUS
  <2>2. Cardinality(Conns) <= Cardinality(A \cup B)
    BY <1>4, <2>1, FS_Subset
  <2>3. Cardinality(A \cup B) \in Nat
    BY <1>4, FS_CardinalityType
  <2>4. QED
    BY <1>1, <1>4, <1>5, <2>2, <2>3
<1>7. \E c \in Conns : ~Referenced(c)
  BY <1>6, ConnsPositive DEF Referenced
<1>8. QED
  BY <1>7 DEF Fresh

-----------------------------------------------------------------------------
(* Initial states and actions.                                             *)

LEMMA InitIInv == Init => IInv
<1> SUFFICES ASSUME Init PROVE IInv
  OBVIOUS
<1>1. w \in [Targets -> WalkerType] /\ \A t \in Targets : w[t].pc \in {"sleep", "off"} /\ w[t].conn = NoConn
  <2>1. \A pc \in {"sleep", "off"} : Walker(pc) \in WalkerType /\ Walker(pc).pc = pc /\ Walker(pc).conn = NoConn
    BY WalkerTyped DEF Pcs
  <2>2. w = [t \in Targets |-> Walker(IF t \in Startup THEN "sleep" ELSE "off")]
    BY DEF Init
  <2>3. QED
    BY <2>1, <2>2
<1>2. WalkersTyped /\ Exclusive /\ Admitted /\ SessionNotPulled
  BY <1>1 DEF WalkersTyped, Exclusive, Admitted, SessionNotPulled, Holding, Busy
<1>3. RestTyped
  <2>1. others \in 0..MaxOthers /\ faults \in 0..MaxFaults
    BY PollerAssumption DEF Init
  <2>2. paused \in BOOLEAN /\ dcsDown \in BOOLEAN
    BY Zenon DEF Init
  <2>3. QED
    BY <2>1, <2>2 DEF Init, RestTyped
<1>4. SlotsBounded
  <2>1. SocketHolders = {} /\ HeavyHolders = {} /\ others = 0
    BY <1>1 DEF Init, SocketHolders, HeavyHolders
  <2>2. QED
    BY <2>1, FS_EmptySet, CapsPositive DEF SlotsBounded
<1>5. Streaks
  BY PollerAssumption DEF Init, Closed, Streaks
<1>6. QED
  BY <1>2, <1>3, <1>4, <1>5 DEF IInv

LEMMA SameKeys ==
  ASSUME fleet' = fleet
  PROVE  Keys' = Keys /\ \A t : Key(t)' = Key(t)
  BY DEF Keys, Key, Endpoint, PoolSize, Pooled, Startup

\* Breakers, health monitor, gate and discovery: no walker and no session changes.
LEMMA AroundIInv ==
  ASSUME IInv,
         \/ \E t \in Targets : CooldownOver(t)
         \/ HealthTick \/ PauseOver \/ GateCloses \/ GateOpens \/ OtherAcquires \/ OtherReleases
  PROVE  IInv'
<1>1. /\ w' = w /\ fleet' = fleet /\ conns' = conns /\ cl' = cl /\ main' = main /\ closing' = closing
  BY DEF CooldownOver, HealthTick, PauseOver, GateCloses, GateOpens, OtherAcquires, OtherReleases
<1>2. WalkersTyped' /\ Exclusive' /\ SessionNotPulled'
  BY <1>1 DEF IInv, WalkersTyped, Exclusive, SessionNotPulled
<1>3. RestTyped'
  <2>1. paused' \in BOOLEAN /\ dcsDown' \in BOOLEAN
    BY Zenon DEF IInv, RestTyped, CooldownOver, HealthTick, PauseOver, GateCloses, GateOpens, OtherAcquires, OtherReleases
  <2>2. others' = others \/ (others < MaxOthers /\ others' = others + 1) \/ (others > 0 /\ others' = others - 1)
    BY DEF CooldownOver, HealthTick, PauseOver, GateCloses, GateOpens, OtherAcquires, OtherReleases
  <2>3. faults' = faults \/ (faults < MaxFaults /\ faults' = faults + 1)
    BY DEF CooldownOver, HealthTick, PauseOver, GateCloses, GateOpens, OtherAcquires, OtherReleases, Fault
  <2>4. others' \in 0..MaxOthers /\ faults' \in 0..MaxFaults
    BY <2>2, <2>3, PollerAssumption DEF IInv, RestTyped
  <2>5. QED
    BY <1>1, <2>1, <2>4, SameKeys DEF IInv, RestTyped
<1>4. SlotsBounded'
  <2>1. SocketHolders' = SocketHolders /\ HeavyHolders' = HeavyHolders
    BY <1>1 DEF SocketHolders, HeavyHolders, IsFast
  <2>2. Cardinality(SocketHolders) \in Nat
    BY SlotsFinite DEF SocketHolders
  <2>3. \/ others' <= others
        \/ Cardinality(SocketHolders) + others < SocketCap /\ others' = others + 1
    <3>1. CASE OtherAcquires
      BY <2>2, <3>1, CapsPositive, PollerAssumption DEF IInv, RestTyped, OtherAcquires, SocketsFull
    <3>2. CASE ~OtherAcquires
      <4>1. others' = others \/ others' = others - 1
        BY <3>2 DEF CooldownOver, HealthTick, PauseOver, GateCloses, GateOpens, OtherReleases
      <4>2. QED
        BY <4>1, PollerAssumption DEF IInv, RestTyped
    <3>3. QED
      BY <3>1, <3>2
  <2>4. others \in Nat /\ others' \in Nat
    BY <1>3, PollerAssumption DEF IInv, RestTyped
  <2>5. QED
    BY <2>1, <2>2, <2>3, <2>4, CapsPositive DEF IInv, SlotsBounded
<1>5. Streaks' /\ Admitted'
  <2>1. CASE \E t \in Targets : CooldownOver(t)
    <3>1. PICK t \in Targets : CooldownOver(t)
      BY <2>1
    <3>2. Closed.fails = 0 /\ Closed.open = FALSE /\ \A n \in Nat : Closed \in [fails : 0..n, open : BOOLEAN, own : BOOLEAN]
      BY DEF Closed
    <3>3. Streaks'
      <4>1. FastThreshold \in Nat \ {0} /\ HeavyThreshold \in Nat \ {0}
        BY PollerAssumption
      <4>2. CASE live' = [live EXCEPT ![t] = Closed] /\ heavy' = heavy
        BY <3>2, <4>1, <4>2 DEF IInv, Streaks
      <4>3. CASE heavy' = [heavy EXCEPT ![t] = Closed] /\ live' = live
        BY <3>2, <4>1, <4>3 DEF IInv, Streaks
      <4>4. QED
        BY <3>1, <4>2, <4>3 DEF CooldownOver
    <3>4. Admitted'
      BY <1>1, <3>1, <3>2 DEF IInv, Streaks, Admitted, CooldownOver, Breaker, IsFast
    <3>5. QED
      BY <3>3, <3>4
  <2>2. CASE live' = live /\ heavy' = heavy
    BY <1>1, <2>2 DEF IInv, Streaks, Admitted, Breaker, IsFast
  <2>3. QED
    BY <2>1, <2>2 DEF HealthTick, PauseOver, GateCloses, GateOpens, OtherAcquires, OtherReleases
<1>6. QED
  BY <1>2, <1>3, <1>4, <1>5 DEF IInv

\* The end of Run: a session is closed under its lock.
LEMMA ShutdownIInv ==
  ASSUME IInv, Cancel \/ DrainOver \/ \E k \in Keys : CloseConn(k)
  PROVE  IInv'
<1>1. /\ w' = w /\ fleet' = fleet /\ conns' = conns /\ live' = live /\ heavy' = heavy
      /\ paused' = paused /\ dcsDown' = dcsDown /\ others' = others /\ faults' = faults
  BY DEF Cancel, DrainOver, CloseConn
<1>2. WalkersTyped' /\ Exclusive' /\ SlotsBounded' /\ Streaks' /\ Admitted'
  BY <1>1 DEF IInv, WalkersTyped, Exclusive, SlotsBounded, SocketHolders, HeavyHolders, IsFast, Streaks, Admitted,
              Breaker
<1>3. /\ cl' \in [Conns -> {"none", "open", "dead", "cut"}]
      /\ \A t \in Targets : w[t].pc = "collect" => cl'[w[t].conn] = cl[w[t].conn]
  <2>1. CASE cl' = cl
    BY <2>1 DEF IInv, RestTyped
  <2>2. CASE \E k \in Keys : conns[k] # NoConn /\ Unlocked(conns[k]) /\ cl' = [cl EXCEPT ![conns[k]] = "none"]
    BY <2>2 DEF IInv, RestTyped, Unlocked, Holders, Conns
  <2>3. QED
    BY <2>1, <2>2 DEF Cancel, DrainOver, CloseConn
<1>4. main' \in {"run", "drain", "close"} /\ closing' \subseteq Keys
  BY DEF Cancel, DrainOver, CloseConn, IInv, RestTyped
<1>5. RestTyped'
  BY <1>1, <1>3, <1>4, SameKeys DEF IInv, RestTyped
<1>6. SessionNotPulled'
  BY <1>1, <1>3 DEF IInv, SessionNotPulled
<1>7. QED
  BY <1>2, <1>5, <1>6 DEF IInv

\* The rest of the state of a step of a walker that touches no breaker.
LEMMA WalkerRest ==
  ASSUME IInv, NEW t \in Targets, \A u \in Targets : u # t => w'[u] = w[u],
         live' = live, heavy' = heavy,
         w'[t].pc \in Busy => ~Breaker(t).open /\ w'[t].tier = w[t].tier
  PROVE  Streaks' /\ Admitted'
<1>1. Streaks'
  BY DEF IInv, Streaks
<1>2. Admitted'
  BY DEF IInv, Admitted, Breaker, IsFast
<1>3. QED
  BY <1>1, <1>2

\* Between polls: the end of a walk, the release of its session, a new device.
LEMMA BetweenIInv ==
  ASSUME IInv, NEW t \in Targets, Quit(t) \/ Release(t) \/ Free(t) \/ AddTarget(t)
  PROVE  IInv'
<1>1. /\ fleet' = fleet /\ live' = live /\ heavy' = heavy /\ main' = main /\ closing' = closing
      /\ paused' = paused /\ dcsDown' = dcsDown /\ others' = others /\ faults' = faults
      /\ w[t].pc \in {"sleep", "release", "free", "off"} /\ w[t] \in WalkerType
  BY DEF Quit, Release, Free, AddTarget, IInv, WalkersTyped
<1>2. \A pc \in Pcs : Walker(pc) \in WalkerType /\ Walker(pc).pc = pc /\ Walker(pc).conn = NoConn
  BY WalkerTyped
<1>3. conns' \in [Keys -> {NoConn} \cup Conns]
  BY DEF Quit, Release, Free, AddTarget, IInv, RestTyped
<1>4. \E r \in WalkerType : /\ w' = [w EXCEPT ![t] = r] /\ r.pc \notin Busy
                            /\ r.conn = NoConn <=> r.pc \notin Busy \cup {"free"}
  <2>1. CASE \E pc \in {"release", "end"} : w' = [w EXCEPT ![t] = Walker(pc)]
    BY <1>2, <2>1 DEF Pcs, Busy, Holding
  <2>2. CASE Release(t)
    <3>1. CASE w' = [w EXCEPT ![t] = Walker("end")]
      BY <2>1, <3>1
    <3>2. CASE w' # [w EXCEPT ![t] = Walker("end")]
      <4> DEFINE r == [Walker("free") EXCEPT !.conn = conns[Key(t)]]
      <4>1. w' = [w EXCEPT ![t] = r] /\ conns[Key(t)] # NoConn
        BY <2>2, <3>2 DEF Release
      <4>2. conns[Key(t)] \in Conns
        BY <4>1 DEF IInv, RestTyped, Keys
      <4>3. r \in WalkerType /\ r.pc = "free" /\ r.conn = conns[Key(t)]
        BY <1>2, <4>2 DEF WalkerType, Pcs
      <4>4. QED
        BY <4>1, <4>3 DEF Busy, Holding
    <3>3. QED
      BY <3>1, <3>2
  <2>3. CASE AddTarget(t)
    <3> DEFINE r == [w[t] EXCEPT !.pc = "sleep"]
    <3>1. w' = [w EXCEPT ![t] = r] /\ w[t].pc = "off"
      BY <2>3 DEF AddTarget
    <3>2. r \in WalkerType /\ r.pc = "sleep" /\ r.conn = w[t].conn
      BY <1>1 DEF WalkerType, Pcs
    <3>3. w[t].conn = NoConn
      BY <3>1 DEF IInv, WalkersTyped, Busy, Holding
    <3>4. QED
      BY <3>1, <3>2, <3>3 DEF Busy, Holding
  <2>4. QED
    BY <2>1, <2>2, <2>3 DEF Quit, Free
<1>5. PICK r \in WalkerType : /\ w' = [w EXCEPT ![t] = r] /\ r.pc \notin Busy
                              /\ r.conn = NoConn <=> r.pc \notin Busy \cup {"free"}
  BY <1>4
<1>6. /\ WalkersTyped' /\ Exclusive' /\ SlotsBounded' /\ w'[t] = r
      /\ \A u \in Targets : u # t => w'[u] = w[u]
  BY <1>1, <1>5, MoveOut DEF Busy
<1>7. Streaks' /\ Admitted'
  BY <1>1, <1>5, <1>6, WalkerRest
<1>8. /\ cl' \in [Conns -> {"none", "open", "dead", "cut"}]
      /\ \A u \in Targets : w[u].pc = "collect" => cl'[w[u].conn] = cl[w[u].conn]
  <2>1. CASE cl' = cl
    BY <2>1 DEF IInv, RestTyped
  <2>2. CASE Free(t)
    <3>1. w[t].conn \in Conns /\ Unlocked(w[t].conn) /\ cl' = [cl EXCEPT ![w[t].conn] = "none"]
      BY <2>2 DEF Free, IInv, WalkersTyped, WalkerType
    <3>2. QED
      BY <3>1 DEF IInv, RestTyped, Unlocked, Holders
  <2>3. QED
    BY <2>1, <2>2 DEF Quit, Release, AddTarget
<1>9. RestTyped'
  BY <1>1, <1>3, <1>8, SameKeys DEF IInv, RestTyped
<1>10. SessionNotPulled'
  BY <1>5, <1>6, <1>8 DEF IInv, SessionNotPulled, Busy, Holding
<1>11. QED
  BY <1>6, <1>7, <1>9, <1>10 DEF IInv

\* A poll turned away or given up.
LEMMA TurnedAwayIInv ==
  ASSUME IInv, NEW t \in Targets, Skip(t) \/ GiveUp(t)
  PROVE  IInv'
<1>1. /\ fleet' = fleet /\ live' = live /\ heavy' = heavy /\ main' = main /\ closing' = closing
      /\ paused' = paused /\ dcsDown' = dcsDown /\ others' = others /\ faults' = faults
      /\ conns' = conns /\ cl' = cl /\ w[t] \in WalkerType /\ Return(t, FALSE)
  BY DEF Skip, GiveUp, IInv, WalkersTyped
<1>2. PICK r \in WalkerType : w' = [w EXCEPT ![t] = r] /\ r.pc \in {"gate", "release", "sleep"} /\ r.conn = NoConn
  <2>1. FALSE \in BOOLEAN /\ (~FALSE) \in BOOLEAN
    BY Zenon
  <2>2. QED
    BY <1>1, <2>1, AfterPollTyped DEF Return
<1>3. /\ WalkersTyped' /\ Exclusive' /\ SlotsBounded' /\ w'[t] = r
      /\ \A u \in Targets : u # t => w'[u] = w[u]
  BY <1>1, <1>2, MoveOut DEF Busy, Holding
<1>4. Streaks' /\ Admitted'
  BY <1>1, <1>2, <1>3, WalkerRest DEF Busy, Holding
<1>5. RestTyped' /\ SessionNotPulled'
  BY <1>1, <1>2, <1>3, SameKeys DEF IInv, RestTyped, SessionNotPulled
<1>6. QED
  BY <1>3, <1>4, <1>5 DEF IInv

\* getConn: a session made for this poll is no other walker's.
LEMMA AdmitIInv ==
  ASSUME IInv, NEW t \in Targets, Admit(t)
  PROVE  IInv'
<1>1. /\ fleet' = fleet /\ live' = live /\ heavy' = heavy /\ main' = main /\ closing' = closing
      /\ paused' = paused /\ dcsDown' = dcsDown /\ others' = others /\ faults' = faults
      /\ w[t].pc \in {"gate", "sleep"} /\ ~Breaker(t).open
  BY DEF Admit, AtGate, Skips
<1>2. w[t] \in WalkerType /\ w[t].conn = NoConn /\ Key(t) \in Keys
  BY <1>1 DEF IInv, WalkersTyped, Busy, Holding, Keys
<1>3. PICK c \in Conns :
        /\ conns' = [conns EXCEPT ![Key(t)] = c]
        /\ w' = [w EXCEPT ![t].pc = "lock", ![t].conn = c]
        /\ cl' = cl \/ (~Referenced(c) /\ cl' = [cl EXCEPT ![c] = "none"])
  <2>1. CASE conns[Key(t)] = NoConn
    BY <1>2, <2>1, FreshIsFree DEF Admit
  <2>2. CASE conns[Key(t)] # NoConn
    <3>1. conns[Key(t)] \in Conns
      BY <1>2, <2>2 DEF IInv, RestTyped
    <3>2. QED
      BY <2>2, <3>1 DEF Admit
  <2>3. QED
    BY <2>1, <2>2
<1> DEFINE r == [w[t] EXCEPT !.pc = "lock", !.conn = c]
<1>4. r \in WalkerType /\ r.pc = "lock" /\ r.conn = c /\ r.tier = w[t].tier /\ c # NoConn
  BY <1>2, ConnsPositive DEF WalkerType, Pcs
<1>5. w' = [w EXCEPT ![t] = r]
  BY <1>3
<1>6. /\ WalkersTyped' /\ Exclusive' /\ SlotsBounded' /\ w'[t] = r
      /\ \A u \in Targets : u # t => w'[u] = w[u]
  BY <1>1, <1>4, <1>5, MoveOut DEF Busy, Holding
<1>7. Streaks' /\ Admitted'
  BY <1>1, <1>4, <1>6, WalkerRest
<1>8. /\ cl' \in [Conns -> {"none", "open", "dead", "cut"}]
      /\ \A u \in Targets : w[u].pc = "collect" => cl'[w[u].conn] = cl[w[u].conn]
  <2>1. cl \in [Conns -> {"none", "open", "dead", "cut"}]
    BY DEF IInv, RestTyped
  <2>2. CASE cl' = cl
    BY <2>1, <2>2
  <2>3. CASE ~Referenced(c) /\ cl' = [cl EXCEPT ![c] = "none"]
    <3>1. \A u \in Targets : w[u].conn # c
      BY <2>3 DEF Referenced
    <3>2. \A u \in Targets : w[u].pc = "collect" => w[u].conn \in Conns
      BY DEF IInv, WalkersTyped, WalkerType, Busy, Holding
    <3>3. QED
      BY <2>1, <2>3, <3>1, <3>2
  <2>4. QED
    BY <1>3, <2>2, <2>3
<1>9. RestTyped'
  BY <1>1, <1>3, <1>8, SameKeys DEF IInv, RestTyped
<1>10. SessionNotPulled'
  <2>1. w'[t].pc = "lock"
    BY <1>4, <1>6
  <2>2. QED
    BY ZenonT(30), <1>6, <1>8, <2>1 DEF IInv, SessionNotPulled
<1>11. QED
  BY <1>6, <1>7, <1>9, <1>10 DEF IInv

\* The lock of the session and the semaphore of the heavy tiers.
LEMMA LockIInv ==
  ASSUME IInv, NEW t \in Targets, Lock(t) \/ TakeHeavy(t)
  PROVE  IInv'
<1>1. /\ fleet' = fleet /\ live' = live /\ heavy' = heavy /\ main' = main /\ closing' = closing
      /\ paused' = paused /\ dcsDown' = dcsDown /\ others' = others /\ faults' = faults
      /\ conns' = conns /\ cl' = cl
  BY DEF Lock, TakeHeavy
<1>2. PICK p \in {"socket", "heavy"} :
        /\ w' = [w EXCEPT ![t].pc = p]
        /\ \/ w[t].pc = "lock" /\ Unlocked(w[t].conn) /\ (p = "socket" <=> IsFast(t))
           \/ w[t].pc = "heavy" /\ p = "socket" /\ Cardinality(HeavyHolders) < HeavyCap
  BY DEF Lock, TakeHeavy
<1>3. /\ WalkersTyped' /\ Exclusive'
      /\ w'[t].pc = p /\ w'[t].tier = w[t].tier /\ w'[t].conn = w[t].conn
      /\ \A u \in Targets : u # t => w'[u] = w[u]
  BY <1>2, MoveIn DEF Holding, Busy
<1>4. SlotsBounded'
  <2>1. SocketHolders' = SocketHolders
    BY <1>2, <1>3 DEF SocketHolders
  <2>2. /\ HeavyHolders' \subseteq HeavyHolders \cup {t}
        /\ w[t].pc = "lock" => HeavyHolders' = HeavyHolders
    BY <1>2, <1>3 DEF HeavyHolders, IsFast
  <2>3. /\ IsFiniteSet(HeavyHolders) /\ Cardinality(HeavyHolders) \in Nat
        /\ IsFiniteSet(HeavyHolders') /\ Cardinality(HeavyHolders') \in Nat
    BY SlotsFinite DEF HeavyHolders
  <2>4. CASE w[t].pc = "lock"
    BY <1>1, <2>1, <2>2, <2>4 DEF IInv, SlotsBounded
  <2>5. CASE w[t].pc = "heavy"
    <3>1. Cardinality(HeavyHolders) < HeavyCap
      BY <1>2, <2>5
    <3>2. IsFiniteSet(HeavyHolders \cup {t}) /\ Cardinality(HeavyHolders \cup {t}) <= Cardinality(HeavyHolders) + 1
      BY <2>3, AddOne
    <3>3. Cardinality(HeavyHolders') <= Cardinality(HeavyHolders \cup {t}) /\ Cardinality(HeavyHolders \cup {t}) \in Nat
      BY <2>2, <3>2, FS_Subset, FS_CardinalityType
    <3>4. Cardinality(HeavyHolders') <= HeavyCap
      BY <2>3, <3>1, <3>2, <3>3, CapsPositive
    <3>5. QED
      BY <1>1, <2>1, <3>4 DEF IInv, SlotsBounded
  <2>6. QED
    BY <1>2, <2>4, <2>5
<1>5. Streaks' /\ Admitted'
  <2>1. ~Breaker(t).open
    BY <1>2 DEF IInv, Admitted, Busy, Holding
  <2>2. QED
    BY <1>1, <1>3, <2>1, WalkerRest
<1>6. RestTyped' /\ SessionNotPulled'
  BY <1>1, <1>2, <1>3, SameKeys DEF IInv, RestTyped, SessionNotPulled
<1>7. QED
  BY <1>3, <1>4, <1>5, <1>6 DEF IInv

\* A poll that ends: its walker leaves the session, whose client it may have closed,
\* and counts the outcome in its breaker, or does not.
LEMMA PollOver ==
  ASSUME IInv, NEW t \in Targets, w[t].pc \in Holding, NEW ok \in BOOLEAN, NEW part \in BOOLEAN,
         w' = [w EXCEPT ![t] = AfterPoll(w[t], ok, part)],
         \/ live' = live /\ heavy' = heavy
         \/ SetBreaker(t, Closed)
         \/ \E own \in BOOLEAN : SetBreaker(t, RecordFailure(Breaker(t), Threshold(t), own)),
         cl' = cl \/ \E v \in {"none", "dead", "cut"} : cl' = [cl EXCEPT ![w[t].conn] = v],
         faults' = faults \/ Fault,
         fleet' = fleet, conns' = conns, paused' = paused, dcsDown' = dcsDown,
         others' = others, main' = main, closing' = closing
  PROVE  IInv'
<1>1. w[t] \in WalkerType /\ w[t].conn \in Conns
  BY DEF IInv, WalkersTyped, WalkerType, Busy
<1>2. PICK r \in WalkerType : w' = [w EXCEPT ![t] = r] /\ r.pc \in {"gate", "release", "sleep"} /\ r.conn = NoConn
  BY <1>1, AfterPollTyped
<1>3. /\ WalkersTyped' /\ Exclusive' /\ SlotsBounded' /\ w'[t] = r
      /\ \A u \in Targets : u # t => w'[u] = w[u]
  <2>1. r.pc \notin Holding /\ (r.conn = NoConn <=> r.pc \notin Busy \cup {"free"})
    BY <1>2 DEF Busy, Holding
  <2>2. QED
    BY <1>2, <2>1, MoveOut
<1>4. Streaks' /\ \A u \in Targets : u # t => live'[u] = live[u] /\ heavy'[u] = heavy[u]
  <2>1. CASE live' = live /\ heavy' = heavy
    BY <2>1 DEF IInv, Streaks
  <2>2. CASE SetBreaker(t, Closed)
    BY <2>2, BreakerSet DEF Busy
  <2>3. CASE \E own \in BOOLEAN : SetBreaker(t, RecordFailure(Breaker(t), Threshold(t), own))
    <3>1. PICK b : SetBreaker(t, b) /\ Failed(t, b)
      BY <2>3 DEF Failed
    <3>2. QED
      BY <3>1, BreakerSet DEF Busy
  <2>4. QED
    BY <2>1, <2>2, <2>3
<1>5. Admitted'
  BY <1>2, <1>3, <1>4 DEF IInv, Admitted, Breaker, IsFast, Busy, Holding
<1>6. /\ cl' \in [Conns -> {"none", "open", "dead", "cut"}]
      /\ \A u \in Targets : u # t /\ w[u].pc = "collect" => cl'[w[u].conn] = cl[w[u].conn]
  <2>1. cl \in [Conns -> {"none", "open", "dead", "cut"}]
    BY DEF IInv, RestTyped
  <2>2. \A u \in Targets : u # t /\ w[u].pc = "collect" => w[u].conn \in Conns /\ w[u].conn # w[t].conn
    BY DEF IInv, WalkersTyped, WalkerType, Exclusive, Busy, Holding
  <2>3. CASE cl' = cl
    BY <2>1, <2>3
  <2>4. CASE \E v \in {"none", "dead", "cut"} : cl' = [cl EXCEPT ![w[t].conn] = v]
    BY <1>1, <2>1, <2>2, <2>4
  <2>5. QED
    BY <2>3, <2>4
<1>7. faults' \in 0..MaxFaults
  BY PollerAssumption DEF IInv, RestTyped, Fault
<1>8. RestTyped'
  BY <1>6, <1>7, SameKeys DEF IInv, RestTyped
<1>9. SessionNotPulled'
  BY <1>2, <1>3, <1>6 DEF IInv, SessionNotPulled
<1>10. QED
  BY <1>3, <1>4, <1>5, <1>8, <1>9 DEF IInv

LEMMA CollectIInv ==
  ASSUME IInv, NEW t \in Targets, FastOk(t) \/ FastFails(t) \/ HeavyCollected(t)
  PROVE  IInv'
<1>1. w[t].pc = "collect" /\ w[t].pc \in Holding
  BY DEF FastOk, FastFails, HeavyCollected, Holding
<1>2. \A ok \in BOOLEAN : ok \in BOOLEAN /\ (~ok) \in BOOLEAN
  BY Zenon
<1>3. Stop \in BOOLEAN /\ (~Stop) \in BOOLEAN
  BY Zenon DEF Stop
<1>4. CASE FastOk(t)
  <2>1. PICK ok \in BOOLEAN : w' = [w EXCEPT ![t] = AfterPoll(w[t], ok, ~ok)]
    BY <1>3, <1>4 DEF FastOk, Return
  <2>2. /\ SetBreaker(t, Closed)
        /\ cl' = cl \/ cl' = [cl EXCEPT ![w[t].conn] = "dead"]
        /\ faults' = faults \/ Fault
        /\ UNCHANGED <<fleet, conns, paused, dcsDown, others, main, closing>>
    BY <1>4 DEF FastOk
  <2>3. QED
    BY <1>1, <1>2, <2>1, <2>2, PollOver
<1>5. CASE FastFails(t)
  <2>1. w' = [w EXCEPT ![t] = AfterPoll(w[t], FALSE, ~FALSE)]
    BY <1>5 DEF FastFails, Return
  <2>2. /\ \/ live' = live /\ heavy' = heavy
           \/ \E own \in BOOLEAN : SetBreaker(t, RecordFailure(Breaker(t), Threshold(t), own))
        /\ cl' = cl \/ cl' = [cl EXCEPT ![w[t].conn] = "none"]
        /\ faults' = faults \/ Fault
        /\ UNCHANGED <<fleet, conns, paused, dcsDown, others, main, closing>>
    BY <1>5 DEF FastFails
  <2>3. QED
    BY <1>1, <1>2, <2>1, <2>2, PollOver
<1>6. CASE HeavyCollected(t)
  <2>1. PICK ok \in BOOLEAN, part \in BOOLEAN : w' = [w EXCEPT ![t] = AfterPoll(w[t], ok, part)]
    BY <1>2, <1>3, <1>6 DEF HeavyCollected, Return, ReturnPart
  <2>2. /\ SetBreaker(t, Closed)
        /\ cl' = cl \/ cl' = [cl EXCEPT ![w[t].conn] = "cut"]
        /\ faults' = faults \/ Fault
        /\ UNCHANGED <<fleet, conns, paused, dcsDown, others, main, closing>>
    BY <1>6 DEF HeavyCollected
  <2>3. QED
    BY <1>1, <2>1, <2>2, PollOver
<1>7. QED
  BY <1>4, <1>5, <1>6

\* AcquireSocket: into the walk, or a failed connection.
LEMMA TakeSocketIInv ==
  ASSUME IInv, NEW t \in Targets, TakeSocket(t)
  PROVE  IInv'
<1>1. w[t].pc = "socket" /\ w[t].pc \in Holding /\ w[t].pc \in Busy /\ ~SocketsFull
  BY DEF TakeSocket, Holding, Busy
<1>2. UNCHANGED <<fleet, conns, paused, dcsDown, others, main, closing>>
  BY DEF TakeSocket
<1>3. CASE /\ Fault /\ SetBreaker(t, RecordFailure(Breaker(t), Threshold(t), TRUE))
           /\ Return(t, FALSE) /\ cl' = cl
  <2>1. w' = [w EXCEPT ![t] = AfterPoll(w[t], FALSE, ~FALSE)] /\ FALSE \in BOOLEAN /\ (~FALSE) \in BOOLEAN
    BY <1>3, Zenon DEF Return
  <2>2. QED
    BY <1>1, <1>2, <1>3, <2>1, PollOver
<1>4. CASE /\ w' = [w EXCEPT ![t].pc = "collect"]
           /\ cl' = IF cl[w[t].conn] = "none" THEN [cl EXCEPT ![w[t].conn] = "open"] ELSE cl
           /\ UNCHANGED <<live, heavy, faults>>
  <2>1. /\ WalkersTyped' /\ Exclusive'
        /\ w'[t].pc = "collect" /\ w'[t].tier = w[t].tier /\ w'[t].conn = w[t].conn
        /\ \A u \in Targets : u # t => w'[u] = w[u]
    BY <1>1, <1>4, MoveIn DEF Holding
  <2>2. SlotsBounded'
    <3>1. SocketHolders' = SocketHolders \cup {t} /\ HeavyHolders' = HeavyHolders
      BY <1>1, <2>1 DEF SocketHolders, HeavyHolders, IsFast
    <3>2. IsFiniteSet(SocketHolders)
      BY SlotsFinite DEF SocketHolders
    <3>3. /\ Cardinality(SocketHolders) \in Nat /\ Cardinality(SocketHolders') \in Nat
          /\ Cardinality(SocketHolders') <= Cardinality(SocketHolders) + 1
      BY <3>1, <3>2, AddOne
    <3>4. others \in Nat /\ others' = others /\ Cardinality(SocketHolders) + others < SocketCap
      BY <1>1, <1>2, <3>3, CapsPositive, PollerAssumption DEF IInv, RestTyped, SocketsFull
    <3>5. QED
      BY <3>1, <3>3, <3>4, CapsPositive DEF IInv, SlotsBounded
  <2>3. Streaks' /\ Admitted'
    <3>1. ~Breaker(t).open
      BY <1>1 DEF IInv, Admitted
    <3>2. QED
      BY <1>4, <2>1, <3>1, WalkerRest
  <2>4. /\ cl' \in [Conns -> {"none", "open", "dead", "cut"}] /\ cl'[w[t].conn] # "none"
        /\ \A c \in Conns : cl[c] # "none" => cl'[c] # "none"
    <3>1. w[t].conn \in Conns
      BY <1>1 DEF IInv, WalkersTyped, WalkerType
    <3>2. QED
      BY <1>4, <3>1 DEF IInv, RestTyped
  <2>5. RestTyped'
    BY <1>2, <1>4, <2>4, SameKeys DEF IInv, RestTyped
  <2>6. SessionNotPulled'
    <3>1. \A u \in Targets : w[u].pc = "collect" => w[u].conn \in Conns
      BY DEF IInv, WalkersTyped, WalkerType, Busy, Holding
    <3>2. QED
      BY <2>1, <2>4, <3>1 DEF IInv, SessionNotPulled
  <2>7. QED
    BY <2>1, <2>2, <2>3, <2>5, <2>6 DEF IInv
<1>5. QED
  BY <1>3, <1>4 DEF TakeSocket

LEMMA NextIInv == IInv /\ [Next]_vars => IInv'
<1> SUFFICES ASSUME IInv, [Next]_vars PROVE IInv'
  OBVIOUS
<1>1. CASE UNCHANGED vars
  BY <1>1 DEF vars, IInv, WalkersTyped, Exclusive, RestTyped, SlotsBounded, Streaks, Admitted, SessionNotPulled,
              SocketHolders, HeavyHolders, IsFast, Breaker, Keys, Key, Endpoint, PoolSize, Pooled, Startup
<1>2. CASE \E t \in Targets : Walk(t) \/ AddTarget(t)
  BY <1>2, BetweenIInv, TurnedAwayIInv, AdmitIInv, LockIInv, TakeSocketIInv, CollectIInv DEF Walk, Poll
<1>3. CASE \/ \E t \in Targets : CooldownOver(t)
           \/ HealthTick \/ PauseOver \/ GateCloses \/ GateOpens \/ OtherAcquires \/ OtherReleases
  BY <1>3, AroundIInv
<1>4. CASE Cancel \/ DrainOver \/ \E k \in Keys : CloseConn(k)
  BY <1>4, ShutdownIInv
<1>5. QED
  BY <1>1, <1>2, <1>3, <1>4 DEF Next

-----------------------------------------------------------------------------
(* The theorems.                                                           *)

LEMMA PollerIInv == Spec => []IInv
  BY InitIInv, NextIInv, PTL DEF Spec

LEMMA IInvSafe == IInv => SessionsSafe
<1> SUFFICES ASSUME IInv PROVE SessionsSafe
  OBVIOUS
<1>1. \A c \in Conns : Cardinality(Holders(c)) <= 1
  <2>1. SUFFICES ASSUME NEW c \in Conns PROVE Cardinality(Holders(c)) <= 1
    OBVIOUS
  <2>2. \A t, u \in Holders(c) : t = u
    BY DEF IInv, Exclusive, Holders, Holding
  <2>3. QED
    BY <2>2, AtMostOne
<1>2. \A t \in Targets :
        /\ w[t].pc \in Pcs /\ w[t].tier \in 1..Len(Tiers)
        /\ w[t].conn = NoConn <=> w[t].pc \notin {"lock", "heavy", "socket", "collect", "free"}
  BY DEF IInv, WalkersTyped, WalkerType, Busy, Holding
<1>3. TypeOK
  BY <1>1, <1>2 DEF IInv, TypeOK, RestTyped, SlotsBounded, Streaks
<1>4. FastSlotKept
  <2>1. SUFFICES ASSUME SocketCap > 1 PROVE Cardinality({t \in SocketHolders : ~IsFast(t)}) < SocketCap
    BY DEF FastSlotKept
  <2> DEFINE S == {t \in SocketHolders : ~IsFast(t)}
  <2>2. S \subseteq HeavyHolders /\ HeavyHolders \subseteq Targets
    BY DEF SocketHolders, HeavyHolders
  <2>3. Cardinality(S) <= Cardinality(HeavyHolders) /\ Cardinality(S) \in Nat /\ Cardinality(HeavyHolders) \in Nat
    BY <2>2, SlotsFinite
  <2>4. QED
    BY <2>1, <2>3, CapsPositive DEF IInv, SlotsBounded
<1>5. QED
  BY <1>3, <1>4 DEF SessionsSafe, IInv

\* For any fleet, however its devices share endpoints and come late: a session is used
\* by one poll at a time and its client is not closed under the poll (getConn, closeConn,
\* closeConns), the sockets stay within the cap that discovery shares, and heavy polls
\* never hold all of them (heavySem).
THEOREM PollerSessionsSafe == Spec => []SessionsSafe
  BY PollerIInv, IInvSafe, PTL
=============================================================================
