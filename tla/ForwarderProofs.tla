--------------------------- MODULE ForwarderProofs ---------------------------
(***************************************************************************)
(* Proofs about the forwarder, for every set of rows, tables, scopes, page *)
(* limits and bounds: no cursor passes a row in order that the Aggregator  *)
(* does not have, and until a fault no wake is lost.                       *)
(***************************************************************************)
EXTENDS Forwarder, SequencesExt, SequenceTheorems, FiniteSetTheorems, FunctionTheorems,
        WellFoundedInduction, TLAPS

-----------------------------------------------------------------------------
(* Sequences that hold nothing twice.                                      *)

\* No two positions hold the same.
NoDup(s) == \A i, j \in DOMAIN s : s[i] = s[j] => i = j

\* The empty sequence.
LEMMA EmptyElems == ToSet(<<>>) = {} /\ NoDup(<<>>)
BY DEF ToSet, NoDup

\* Without its head, a sequence has the other elements.
LEMMA TailElems ==
  ASSUME NEW S, NEW s \in Seq(S), s # <<>>, NoDup(s)
  PROVE  /\ Tail(s) \in Seq(S) /\ Len(Tail(s)) = Len(s) - 1
         /\ Head(s) \in S /\ Head(s) \in ToSet(s)
         /\ ToSet(Tail(s)) = ToSet(s) \ {Head(s)}
         /\ NoDup(Tail(s))
<1> DEFINE t == Tail(s)
           h == Head(s)
<1>1. /\ t \in Seq(S) /\ Len(t) = Len(s) - 1 /\ Len(s) \in Nat /\ Len(s) > 0
      /\ DOMAIN s = 1..Len(s) /\ DOMAIN t = 1..(Len(s) - 1)
      /\ \A i \in 1..(Len(s) - 1) : t[i] = s[i + 1]
      /\ h = s[1] /\ h \in S
  BY HeadTailProperties, LenProperties, EmptySeq
<1> HIDE DEF t, h
<1>2. \A i \in DOMAIN s : i = 1 \/ (i - 1 \in DOMAIN t /\ t[i - 1] = s[i])
  BY <1>1
<1>3. \A i \in DOMAIN t : i + 1 \in DOMAIN s /\ t[i] = s[i + 1] /\ i + 1 # 1
  BY <1>1
<1>4. 1 \in DOMAIN s
  BY <1>1
<1>5. ToSet(t) = ToSet(s) \ {h}
  <2>1. \A x \in ToSet(t) : x \in ToSet(s) /\ x # h
    BY <1>1, <1>3, <1>4 DEF ToSet, NoDup
  <2>2. \A x \in ToSet(s) : x = h \/ x \in ToSet(t)
    BY <1>1, <1>2 DEF ToSet
  <2>3. QED
    BY <2>1, <2>2
<1>6. NoDup(t)
  <2> SUFFICES ASSUME NEW i \in DOMAIN t, NEW j \in DOMAIN t, t[i] = t[j] PROVE i = j
    BY DEF NoDup
  <2>1. i + 1 = j + 1
    BY <1>3 DEF NoDup
  <2>2. QED
    BY <1>1, <2>1
<1>7. h \in ToSet(s)
  BY <1>1, <1>4 DEF ToSet
<1>8. QED
  BY <1>1, <1>5, <1>6, <1>7 DEF t, h

-----------------------------------------------------------------------------
\* What is in the chunks that are still to be posted.
Queued == {v \in Versions : \E s \in Scopes : \E i \in DOMAIN posts[s].chunks : v \in posts[s].chunks[i]}

\* A row has one version in a set of copies.
OneEach(vs) == \A v, w \in vs : v.row = w.row => v = w

\* A row's version, its stamp and the Aggregator's copy belong together.
Stamped ==
  /\ hooks <= clock
  /\ \A r \in Rows :
       /\ ver[r] <= clock /\ got[r] <= ver[r]
       /\ ver[r] > 0 <=> stamp[r] > 0
       /\ stamp[r] <= top[Table[r]]
       /\ Table[r] \notin Mutable => ver[r] <= 1

\* The devices a row refers to are there before it.
EndsThere == \A r \in Rows : ver[r] > 0 => \A d \in Ends[r] : ver[d] > 0

\* Two rows of a table have the same stamp only when both count as late.
Ties ==
  \A r, q \in Rows :
    r # q /\ Table[r] = Table[q] /\ stamp[r] = stamp[q] /\ stamp[r] > 0 => r \in late

\* What was read is no newer than the table, nor older than what was sent.
Copies ==
  /\ OneEach(fwd.page)
  /\ \A v \in fwd.page : /\ v.ver <= ver[v.row] /\ v.stamp <= top[Table[v.row]]
                         /\ fwd.pc = "poll" => got[v.row] <= v.ver
  /\ OneEach(Queued)
  /\ \A v \in Queued : got[v.row] <= v.ver /\ v.ver <= ver[v.row]

\* An unsent row in order at or before a stamp of the page is in the page, as it is.
Covered ==
  \A v \in fwd.page : \A r \in Sendable \ late :
    Table[r] = Table[v.row] /\ stamp[r] <= v.stamp /\ Unsent(r) =>
      \E w \in fwd.page : w.row = r /\ w.ver = ver[r]

\* A link is posted when its devices are with the Aggregator or in an earlier chunk.
LinksLast ==
  \A s \in Scopes : \A i \in DOMAIN posts[s].chunks : \A v \in posts[s].chunks[i] :
    Table[v.row] = "topology" =>
      \A d \in Ends[v.row] :
        \/ got[d] > 0
        \/ \E j \in DOMAIN posts[s].chunks : j < i /\ \E w \in posts[s].chunks[j] : w.row = d

\* Until a post fails, what the page holds was sent or is still to be posted.
Carried ==
  fwd.pc \in {"post", "advance"} /\ ~fwd.failed =>
    \A v \in fwd.page : v.row \in Sendable =>
      \/ v.ver <= got[v.row]
      \/ \E i \in DOMAIN posts[Scope[v.row]].chunks : v \in posts[Scope[v.row]].chunks[i]

\* The phases of a push.
Phases ==
  /\ fwd.pc \in {"select", "debounce"} => fwd.page = {}
  /\ fwd.pc # "post" => \A s \in Scopes : posts[s].chunks = <<>>
  /\ fwd.pc = "advance" => ~fwd.failed
  /\ fwd.failed => faults > 0
  /\ NoDup(fwd.todo)
  /\ fwd.pc = "poll" => \A v \in fwd.page : Table[v.row] \notin ToSet(fwd.todo)

\* A page that left rows out had rows: recordPoll has the next tick read on.
BehindPolled == \A r \in behind : gates[Table[r]].skipLeft = 0

IInv ==
  /\ TypeOK /\ Stamped /\ EndsThere /\ Ties /\ Copies /\ Covered
  /\ LinksLast /\ Carried /\ Phases /\ OnlyLateSkipped /\ WakeCovers
  /\ BehindPolled

-----------------------------------------------------------------------------
(* What the operators of a push return.                                    *)

\* A fault is counted.
LEMMA FaultIs ==
  ASSUME TypeOK, Fault
  PROVE  faults' \in 0..MaxFaults /\ faults <= faults' /\ faults' > 0
<1>1. faults \in 0..MaxFaults /\ faults < MaxFaults /\ faults' = faults + 1 /\ MaxFaults \in Nat
  BY ForwarderAssumption DEF TypeOK, Fault
<1>2. QED
  BY <1>1

\* Read takes one copy of each row, with the version and the stamp it has now.
LEMMA ReadIs ==
  ASSUME TypeOK, Stamped, NEW S \in SUBSET Rows, \A r \in S : ver[r] > 0
  PROVE  /\ Read(S) \in SUBSET Versions /\ OneEach(Read(S))
         /\ \A v \in Read(S) : v.row \in S /\ v.ver = ver[v.row] /\ v.stamp = stamp[v.row]
         /\ \A r \in S : \E v \in Read(S) : v.row = r /\ v.ver = ver[r]
         /\ IsFiniteSet(Read(S)) /\ Cardinality(Read(S)) = Cardinality(S)
<1> DEFINE Of(r) == [row |-> r, ver |-> ver[r], stamp |-> stamp[r]]
           f == [r \in S |-> Of(r)]
<1>1. \A r \in S : ver[r] \in 1..MaxClock /\ stamp[r] \in 1..MaxClock
  BY DEF TypeOK, Stamped
<1>2. \A v \in Read(S) : \E r \in S : v = Of(r)
  BY DEF Read
<1>3. \A r \in S : Of(r) \in Read(S)
  BY DEF Read
<1>4. f \in Bijection(S, Read(S))
  <2>1. f \in [S -> Read(S)]
    BY <1>3
  <2>2. \A r, q \in S : f[r] = f[q] => r = q
    <3> SUFFICES ASSUME NEW r \in S, NEW q \in S, f[r] = f[q] PROVE r = q
      OBVIOUS
    <3>1. Of(r).row = Of(q).row
      OBVIOUS
    <3>2. QED
      BY <3>1
  <2>3. \A v \in Read(S) : \E r \in S : f[r] = v
    BY <1>2
  <2>4. QED
    BY <2>1, <2>2, <2>3 DEF Bijection, Injection, Surjection, IsInjective
<1>5. IsFiniteSet(S)
  BY FS_Subset, ForwarderAssumption
<1>6. IsFiniteSet(Read(S)) /\ Cardinality(Read(S)) = Cardinality(S)
  BY <1>4, <1>5, FS_Bijection DEF ExistsBijection
<1>7. Read(S) \in SUBSET Versions
  BY <1>1, <1>2 DEF Versions
<1>8. OneEach(Read(S))
  BY <1>2 DEF OneEach
<1>9. \A v \in Read(S) : v.row \in S /\ v.ver = ver[v.row] /\ v.stamp = stamp[v.row]
  BY <1>2
<1>10. \A r \in S : \E v \in Read(S) : v.row = r /\ v.ver = ver[r]
  <2> TAKE r \in S
  <2>1. Of(r).row = r /\ Of(r).ver = ver[r]
    OBVIOUS
  <2> HIDE DEF Of
  <2>2. QED
    BY <1>3, <2>1
<1>11. QED
  BY <1>6, <1>7, <1>8, <1>9, <1>10

\* What Pages gives: rows of the table after c, oldest first, cut at the limit.
LEMMA PagesAre ==
  ASSUME IInv, NEW t \in Tables, NEW c \in Nat, NEW S \in Pages(t, c)
  PROVE  /\ S \in SUBSET Rows
         /\ \A r \in S : Table[r] = t /\ stamp[r] > c /\ ver[r] > 0
         /\ Cardinality(S) \in Nat /\ Cardinality(S) <= Limit[t]
         /\ \A q \in Due(t, c) \ S : \A r \in S : stamp[r] <= stamp[q]
         /\ Due(t, c) \ S # {} => S # {}
<1> DEFINE due == Due(t, c)
           n == IF Cardinality(due) < Limit[t] THEN Cardinality(due) ELSE Limit[t]
<1>1. /\ S \in SUBSET due /\ Cardinality(S) = n
      /\ \A r \in S, q \in due \ S : stamp[r] <= stamp[q]
  BY DEF Pages
<1>2. \A r \in due : r \in Rows /\ Table[r] = t /\ stamp[r] > c /\ ver[r] > 0
  BY DEF Due, IInv, TypeOK, Stamped
<1>3. IsFiniteSet(due) /\ IsFiniteSet(S)
  <2>1. due \in SUBSET Rows
    BY <1>2
  <2>2. QED
    BY <1>1, <2>1, FS_Subset, ForwarderAssumption
<1>4. Cardinality(due) \in Nat /\ Cardinality(S) \in Nat /\ Limit[t] \in Nat \ {0}
  BY <1>3, FS_CardinalityType, ForwarderAssumption
<1> HIDE DEF due
<1>5. Cardinality(S) <= Limit[t]
  BY <1>1, <1>4
<1>6. ASSUME S = {} PROVE due = {}
  <2>1. Cardinality(S) = 0
    BY <1>3, <1>6, FS_EmptySet
  <2>2. Cardinality(due) = 0
    BY <1>1, <1>4, <2>1
  <2>3. QED
    BY <1>3, <2>2, FS_EmptySet
<1>7. QED
  BY <1>1, <1>2, <1>4, <1>5, <1>6 DEF due

\* The Aggregator's copies only grow, up to what is in the tables, and a posted
\* copy arrives unless it is a link without its devices.
LEMMA IngestIs ==
  ASSUME IInv, NEW chunk \in SUBSET Queued, Ingest(chunk)
  PROVE  /\ got' \in [Rows -> 0..MaxClock]
         /\ \A r \in Rows : got[r] <= got'[r] /\ got'[r] <= ver[r]
         /\ \A v \in Queued : got'[v.row] <= v.ver
         /\ \A v \in chunk : (Table[v.row] = "topology" => \A d \in Ends[v.row] : got[d] > 0)
                               => got'[v.row] = v.ver
<1> DEFINE Vs(r) == {v \in chunk : v.row = r /\ (Table[r] = "topology" => \A d \in Ends[r] : got[d] > 0)}
<1>1. got' = [r \in Rows |-> IF Vs(r) = {} THEN got[r] ELSE Max({v.ver : v \in Vs(r)})]
  BY DEF Ingest
<1>2. \A v \in Queued : v \in Versions /\ v.row \in Rows /\ v.ver \in 1..MaxClock
  BY DEF Queued, Versions
<1>3. ASSUME NEW r \in Rows, NEW v \in Vs(r) PROVE got'[r] = v.ver
  <2>1. \A w \in Vs(r) : w = v
    BY <1>3 DEF IInv, Copies, OneEach
  <2>2. {w.ver : w \in Vs(r)} = {v.ver}
    BY <1>3, <2>1
  <2>3. v.ver \in Nat
    BY <1>2
  <2>4. Max({v.ver}) = v.ver
    BY <2>3 DEF Max
  <2>5. QED
    BY <1>1, <1>3, <2>2, <2>4
<1>4. \A r \in Rows : Vs(r) = {} => got'[r] = got[r]
  BY <1>1
<1>5. \A r \in Rows : \A v \in Vs(r) : v \in Queued /\ v.row = r
  OBVIOUS
<1>6. \A v \in Queued : got[v.row] <= v.ver /\ v.ver <= ver[v.row]
  BY DEF IInv, Copies
<1>7. /\ \A r \in Rows : got[r] \in 0..MaxClock /\ ver[r] \in 0..MaxClock /\ got[r] <= ver[r]
      /\ MaxClock \in Nat
  BY ForwarderAssumption DEF IInv, TypeOK, Stamped
<1>8. \A r \in Rows : got'[r] \in 0..MaxClock /\ got[r] <= got'[r] /\ got'[r] <= ver[r]
  <2> SUFFICES ASSUME NEW r \in Rows
               PROVE  got'[r] \in 0..MaxClock /\ got[r] <= got'[r] /\ got'[r] <= ver[r]
    OBVIOUS
  <2> HIDE DEF Vs
  <2>1. CASE Vs(r) = {}
    BY <1>4, <1>7, <2>1
  <2>2. CASE Vs(r) # {}
    <3>1. PICK v \in Vs(r) : TRUE
      BY <2>2
    <3>2. got'[r] = v.ver /\ v \in Queued /\ v.row = r
      BY <1>3, <1>5
    <3>3. QED
      BY <1>2, <1>6, <1>7, <3>2
  <2>3. QED
    BY <2>1, <2>2
<1>9. got' \in [Rows -> 0..MaxClock]
  BY <1>1, <1>8
<1>10. ASSUME NEW v \in Queued PROVE got'[v.row] <= v.ver
  <2>1. CASE Vs(v.row) = {}
    BY <1>2, <1>4, <1>6, <2>1
  <2>2. CASE Vs(v.row) # {}
    <3>1. PICK w \in Vs(v.row) : TRUE
      BY <2>2
    <3>2. got'[v.row] = w.ver /\ w = v
      BY <1>2, <1>3, <3>1 DEF IInv, Copies, OneEach
    <3>3. QED
      BY <1>2, <3>2
  <2>3. QED
    BY <2>1, <2>2
<1>11. \A v \in chunk : (Table[v.row] = "topology" => \A d \in Ends[v.row] : got[d] > 0)
                          => got'[v.row] = v.ver
  BY <1>2, <1>3
<1>12. QED
  BY <1>8, <1>9, <1>10, <1>11

-----------------------------------------------------------------------------
(* The ingest side.                                                        *)

\* The chunks to post are sets of copies, all of them queued.
LEMMA ChunkTyped ==
  ASSUME TypeOK, NEW s \in Scopes
  PROVE  /\ posts[s].chunks \in Seq(SUBSET Versions)
         /\ \A i \in DOMAIN posts[s].chunks :
              /\ posts[s].chunks[i] \in SUBSET Versions
              /\ posts[s].chunks[i] \in SUBSET Queued
<1>1. posts[s].chunks \in Seq(SUBSET Versions)
  BY DEF TypeOK
<1>2. \A i \in DOMAIN posts[s].chunks : posts[s].chunks[i] \in SUBSET Versions
  BY <1>1
<1>3. QED
  BY <1>1, <1>2 DEF Queued

LEMMA CommitInv ==
  ASSUME IInv, NEW r \in Rows, Commit(r)
  PROVE  IInv'
<1> DEFINE t == Table[r]
<1>1. PICK s \in (clock + 1 - MaxLate)..(clock + 1) :
        /\ s > 0
        /\ stamp' = [stamp EXCEPT ![r] = s]
        /\ top' = [top EXCEPT ![t] = IF s > @ THEN s ELSE @]
        /\ late' = IF s > top[t] THEN late \ {r}
                   ELSE late \cup {r} \cup {q \in Rows : Table[q] = t /\ stamp[q] = s}
  BY DEF Commit
<1>2. /\ clock < MaxClock /\ (ver[r] = 0 \/ t \in Mutable)
      /\ \A d \in Ends[r] : ver[d] > 0
      /\ ver' = [ver EXCEPT ![r] = @ + 1] /\ clock' = clock + 1
      /\ hooks' = IF t = "events" THEN hooks + 1 ELSE hooks
      /\ UNCHANGED <<cursor, gates, behind, notify, fwd, posts, got, faults>>
  BY DEF Commit
<1>3. /\ t \in Tables /\ MaxClock \in Nat /\ MaxLate \in Nat
      /\ \A q \in Rows : Table[q] \in Tables /\ Ends[q] \in SUBSET Rows
  BY ForwarderAssumption DEF Devices
<1>4. /\ stamp \in [Rows -> 0..MaxClock] /\ ver \in [Rows -> 0..MaxClock] /\ clock \in 0..MaxClock
      /\ top \in [Tables -> 0..MaxClock] /\ cursor \in [Tables -> 0..MaxClock]
      /\ late \subseteq Rows /\ hooks \in 0..MaxClock /\ got \in [Rows -> 0..MaxClock]
      /\ \A u \in Tables : cursor[u] <= top[u] /\ top[u] <= clock
      /\ \A q \in Rows : /\ ver[q] <= clock /\ got[q] <= ver[q]
                         /\ ver[q] > 0 <=> stamp[q] > 0
                         /\ stamp[q] <= top[Table[q]]
                         /\ Table[q] \notin Mutable => ver[q] <= 1
      /\ hooks <= clock
  BY DEF IInv, TypeOK, Stamped
<1>5. /\ s \in 1..MaxClock /\ s <= clock + 1
      /\ ver'[r] = ver[r] + 1 /\ stamp'[r] = s
      /\ \A q \in Rows : q # r => ver'[q] = ver[q] /\ stamp'[q] = stamp[q]
      /\ \A q \in Rows : ver[q] <= ver'[q] /\ ver'[q] \in 0..MaxClock /\ stamp'[q] \in 0..MaxClock
  BY <1>1, <1>2, <1>3, <1>4
<1>6. /\ \A u \in Tables : u # t => top'[u] = top[u]
      /\ top'[t] = IF s > top[t] THEN s ELSE top[t]
      /\ \A u \in Tables : /\ top[u] <= top'[u] /\ top'[u] \in 0..MaxClock
                           /\ cursor[u] <= top'[u] /\ top'[u] <= clock'
      /\ s <= top'[t]
  BY <1>1, <1>2, <1>3, <1>4, <1>5
<1>7. /\ late' \subseteq Rows
      /\ \A q \in Rows : q # r /\ q \in late => q \in late'
      /\ s <= top[t] => r \in late'
      /\ \A q \in Rows : s <= top[t] /\ Table[q] = t /\ stamp[q] = s => q \in late'
  BY <1>1, <1>3, <1>4, <1>5
<1>8. TypeOK'
  <2>1. /\ stamp' \in [Rows -> 0..MaxClock] /\ ver' \in [Rows -> 0..MaxClock]
        /\ top' \in [Tables -> 0..MaxClock] /\ clock' \in 0..MaxClock /\ hooks' \in 0..MaxClock
    BY <1>1, <1>2, <1>3, <1>4, <1>5, <1>6
  <2>2. QED
    BY <1>2, <1>6, <1>7, <2>1 DEF IInv, TypeOK
<1>9. Stamped'
  <2>1. hooks' <= clock'
    BY <1>2, <1>4
  <2>2. ASSUME NEW q \in Rows
        PROVE  /\ ver'[q] <= clock' /\ got[q] <= ver'[q]
               /\ ver'[q] > 0 <=> stamp'[q] > 0
               /\ stamp'[q] <= top'[Table[q]]
               /\ Table[q] \notin Mutable => ver'[q] <= 1
    <3>1. CASE q = r
      BY <1>2, <1>3, <1>4, <1>5, <1>6, <3>1
    <3>2. CASE q # r
      BY <1>2, <1>3, <1>4, <1>5, <1>6, <3>2
    <3>3. QED
      BY <3>1, <3>2
  <2>3. QED
    BY <1>2, <2>1, <2>2 DEF Stamped
<1>10. EndsThere'
  <2> SUFFICES ASSUME NEW q \in Rows, ver'[q] > 0, NEW d \in Ends[q]
               PROVE  ver'[d] > 0
    BY DEF EndsThere
  <2>1. d \in Rows /\ ver[d] > 0
    BY <1>2, <1>3, <1>4, <1>5 DEF IInv, EndsThere
  <2>2. QED
    BY <1>4, <1>5, <2>1
<1>11. Ties'
  <2> SUFFICES ASSUME NEW p \in Rows, NEW q \in Rows, p # q, Table[p] = Table[q],
                      stamp'[p] = stamp'[q], stamp'[p] > 0
               PROVE  p \in late'
    BY DEF Ties
  <2>1. CASE p = r
    BY <1>3, <1>4, <1>5, <1>6, <1>7, <2>1
  <2>2. CASE q = r
    BY <1>3, <1>4, <1>5, <1>6, <1>7, <2>2
  <2>3. CASE p # r /\ q # r
    BY <1>5, <1>7, <2>3 DEF IInv, Ties
  <2>4. QED
    BY <2>1, <2>2, <2>3
<1>12. Copies'
  <2>1. Queued' = Queued
    BY <1>2 DEF Queued
  <2>2. \A v \in fwd.page : v \in Versions /\ v.row \in Rows /\ v.ver \in Nat /\ v.stamp \in Nat
    BY DEF IInv, TypeOK, Versions
  <2>3. \A v \in Queued : v.row \in Rows /\ v.ver \in Nat
    BY DEF Queued, Versions
  <2>4. \A v \in fwd.page : v.ver <= ver'[v.row] /\ v.stamp <= top'[Table[v.row]]
    BY <1>3, <1>4, <1>5, <1>6, <2>2 DEF IInv, Copies
  <2>5. \A v \in Queued : v.ver <= ver'[v.row]
    BY <1>4, <1>5, <2>3 DEF IInv, Copies
  <2>6. QED
    BY <1>2, <2>1, <2>4, <2>5 DEF IInv, Copies, OneEach
<1>13. Covered'
  <2> SUFFICES ASSUME NEW v \in fwd.page, NEW q \in Sendable, q \notin late',
                      Table[q] = Table[v.row], stamp'[q] <= v.stamp, got[q] < ver'[q]
               PROVE  \E w \in fwd.page : w.row = q /\ w.ver = ver'[q]
    BY <1>2 DEF Covered, Unsent, Sendable
  <2>1. q \in Rows /\ v.row \in Rows /\ v.stamp \in Nat /\ v.stamp <= top[Table[v.row]]
    BY SMTT(30) DEF IInv, TypeOK, Versions, Copies, Sendable
  <2>2. q # r
    BY <1>3, <1>4, <1>5, <1>6, <1>7, <2>1
  <2>3. q \notin late /\ stamp'[q] = stamp[q] /\ ver'[q] = ver[q]
    BY <1>5, <1>7, <2>1, <2>2
  <2>4. QED
    BY <2>3 DEF IInv, Covered, Unsent
<1>14. LinksLast' /\ Carried' /\ Phases' /\ BehindPolled'
  BY <1>2 DEF IInv, LinksLast, Carried, Phases, Sendable, BehindPolled
<1>15. OnlyLateSkipped'
  <2> SUFFICES ASSUME NEW q \in Sendable, stamp'[q] <= cursor[Table[q]], got[q] < ver'[q]
               PROVE  q \in late'
    BY <1>2 DEF OnlyLateSkipped, Unsent, Sendable
  <2>1. q \in Rows
    BY DEF Sendable
  <2>2. CASE q = r
    BY <1>3, <1>4, <1>5, <1>7, <2>2
  <2>3. CASE q # r
    BY <1>5, <1>7, <2>1, <2>3 DEF IInv, OnlyLateSkipped, Unsent
  <2>4. QED
    BY <2>2, <2>3
<1>16. WakeCovers'
  <2> SUFFICES ASSUME faults = 0, NEW p \in Sendable, p \notin late', Table[p] = "events",
                      got[p] < ver'[p]
               PROVE  \/ hooks' > 0 \/ notify \/ fwd.pc = "debounce"
                      \/ fwd.force /\ fwd.pc = "poll" /\ \E i \in DOMAIN fwd.todo : fwd.todo[i] = "events"
                      \/ \E v \in fwd.page : v.row = p
                      \/ p \in behind /\ gates["events"].skipLeft = 0
    BY <1>2 DEF WakeCovers, Unsent, Sendable
  <2>1. p \in Rows
    BY DEF Sendable
  <2>2. CASE p = r
    BY <1>2, <1>4, <2>2
  <2>3. CASE p # r
    <3>1. p \notin late /\ ver'[p] = ver[p]
      BY <1>5, <1>7, <2>1, <2>3
    <3>2. hooks > 0 => hooks' > 0
      BY <1>2, <1>4
    <3>3. QED
      BY <3>1, <3>2 DEF IInv, WakeCovers, Unsent
  <2>4. QED
    BY <2>2, <2>3
<1>17. QED
  BY <1>8, <1>9, <1>10, <1>11, <1>12, <1>13, <1>14, <1>15, <1>16 DEF IInv

-----------------------------------------------------------------------------
(* Run.                                                                    *)

\* The push is over or given up: the loop waits again.
LEMMA IdleInv ==
  ASSUME IInv, UNCHANGED <<db, cursor, behind, got>>, fwd' = Idle,
         gates' = gates \/ (\A t \in Tables : gates'[t].skipLeft = 0),
         \A s \in Scopes : posts'[s] = NoPost \/ (posts'[s] = posts[s] /\ posts[s].chunks = <<>>),
         DOMAIN posts' = Scopes /\ posts' = [s \in Scopes |-> posts'[s]],
         gates' \in [Tables -> [misses : 0..MaxIdleSkips, skipLeft : 0..MaxIdleSkips]],
         hooks' \in 0..MaxClock, hooks' <= clock, notify' \in BOOLEAN, faults' \in 0..MaxFaults,
         WakeCovers'
  PROVE  IInv'
<1>1. /\ Idle.page = {} /\ Idle.pc = "select" /\ Idle.todo = <<>> /\ Idle.failed = FALSE
      /\ Idle \in [pc : {"select", "debounce", "poll", "post", "advance"}, force : BOOLEAN,
                   todo : Seq(Tables), page : SUBSET Versions, failed : BOOLEAN]
  BY DEF Idle
<1>2. \A s \in Scopes : /\ posts'[s] \in [chunks : Seq(SUBSET Versions), tries : 0..Attempts - 1]
                        /\ posts'[s].chunks = <<>>
  <2>1. NoPost \in [chunks : Seq(SUBSET Versions), tries : 0..Attempts - 1] /\ NoPost.chunks = <<>>
    BY ForwarderAssumption DEF NoPost
  <2>2. \A s \in Scopes : posts[s] \in [chunks : Seq(SUBSET Versions), tries : 0..Attempts - 1]
    BY DEF IInv, TypeOK
  <2>3. QED
    BY <2>1, <2>2
<1>3. posts' \in [Scopes -> [chunks : Seq(SUBSET Versions), tries : 0..Attempts - 1]]
  BY <1>2
<1>4. Queued' = {}
  <2>1. \A s \in Scopes : DOMAIN posts'[s].chunks = {}
    BY <1>2
  <2>2. QED
    BY <2>1 DEF Queued
<1>5. TypeOK'
  <2>1. \A t \in Tables : Cardinality({v \in {} : Table[v.row] = t}) <= Limit[t]
    <3>1. \A t \in Tables : {v \in {} : Table[v.row] = t} = {}
      OBVIOUS
    <3>2. Cardinality({}) = 0
      BY FS_EmptySet
    <3>3. QED
      BY <3>1, <3>2, ForwarderAssumption
  <2>2. QED
    BY <1>1, <1>3, <2>1 DEF IInv, TypeOK, db
<1>6. Stamped' /\ EndsThere' /\ Ties' /\ BehindPolled'
  <2>1. \A r \in behind : Table[r] \in Tables
    BY ForwarderAssumption DEF IInv, TypeOK
  <2>2. QED
    BY <2>1 DEF IInv, Stamped, EndsThere, Ties, BehindPolled, db
<1>7. Copies' /\ Covered' /\ Carried'
  BY <1>1, <1>4 DEF Copies, OneEach, Covered, Carried
<1>8. LinksLast'
  <2>1. \A s \in Scopes : DOMAIN posts'[s].chunks = {}
    BY <1>2
  <2>2. QED
    BY <2>1 DEF LinksLast
<1>9. Phases'
  BY <1>1, <1>2, EmptyElems DEF Phases
<1>10. OnlyLateSkipped'
  BY DEF IInv, OnlyLateSkipped, Unsent, Sendable, db
<1>11. QED
  BY <1>5, <1>6, <1>7, <1>8, <1>9, <1>10 DEF IInv

LEMMA NotifyEventInv ==
  ASSUME IInv, NotifyEvent
  PROVE  IInv'
<1>1. /\ hooks > 0 /\ hooks' = hooks - 1 /\ notify' = TRUE
      /\ UNCHANGED <<db, cursor, gates, behind, fwd, posts, got, faults>>
  BY DEF NotifyEvent
<1>2. hooks' \in 0..MaxClock /\ hooks' <= clock
  BY <1>1, ForwarderAssumption DEF IInv, TypeOK, Stamped
<1>3. TypeOK'
  BY <1>1, <1>2 DEF IInv, TypeOK, db
<1>4. Stamped' /\ EndsThere' /\ Ties' /\ BehindPolled'
  BY <1>1, <1>2 DEF IInv, Stamped, EndsThere, Ties, BehindPolled, db
<1>5. Queued' = Queued
  BY <1>1 DEF Queued
<1>6. Copies' /\ Covered' /\ LinksLast' /\ Carried' /\ Phases' /\ OnlyLateSkipped'
  BY <1>1, <1>5 DEF IInv, Copies, OneEach, Covered, LinksLast, Carried, Phases, OnlyLateSkipped,
                    Unsent, Sendable, db
<1>7. WakeCovers'
  BY <1>1 DEF WakeCovers
<1>8. QED
  BY <1>3, <1>4, <1>6, <1>7 DEF IInv

\* A push starts: every table is to be read.
LEMMA StartPushInv ==
  ASSUME IInv, NEW force \in BOOLEAN, StartPush(force), fwd.pc \in {"select", "debounce"},
         notify' \in BOOLEAN, UNCHANGED <<db, cursor, gates, behind, hooks, posts, got, faults>>,
         force \/ (fwd.pc = "select" /\ notify' = notify)
  PROVE  IInv'
<1>1. /\ fwd'.page = {} /\ fwd'.pc = "poll" /\ fwd'.todo = TableOrder /\ ~fwd'.failed
      /\ fwd'.force = force
      /\ fwd' \in [pc : {"select", "debounce", "poll", "post", "advance"}, force : BOOLEAN,
                   todo : Seq(Tables), page : SUBSET Versions, failed : BOOLEAN]
  BY ForwarderAssumption DEF StartPush, Idle
<1>2. fwd.page = {}
  BY DEF IInv, Phases
<1>3. TypeOK'
  BY <1>1, <1>2 DEF IInv, TypeOK, db
<1>4. Stamped' /\ EndsThere' /\ Ties' /\ BehindPolled'
  BY DEF IInv, Stamped, EndsThere, Ties, BehindPolled, db
<1>5. Queued' = Queued
  BY DEF Queued
<1>6. Copies' /\ Covered' /\ LinksLast' /\ Carried' /\ OnlyLateSkipped'
  BY <1>1, <1>5 DEF IInv, Copies, OneEach, Covered, LinksLast, Carried, OnlyLateSkipped,
                    Unsent, Sendable, db
<1>7. Phases'
  <2>1. NoDup(TableOrder)
    BY ForwarderAssumption DEF NoDup
  <2>2. QED
    BY <1>1, <2>1 DEF IInv, Phases
<1>8. WakeCovers'
  <2>1. CASE force
    <3>1. \E i \in DOMAIN TableOrder : TableOrder[i] = "events"
      BY ForwarderAssumption DEF Tables
    <3>2. QED
      BY <1>1, <2>1, <3>1 DEF WakeCovers
  <2>2. CASE fwd.pc = "select" /\ notify' = notify
    BY <1>1, <1>2, <2>2 DEF IInv, WakeCovers, Unsent, Sendable, db
  <2>3. QED
    BY <2>1, <2>2
<1>9. QED
  BY <1>3, <1>4, <1>6, <1>7, <1>8 DEF IInv

LEMMA TickInv ==
  ASSUME IInv, Tick
  PROVE  IInv'
<1>1. notify' \in BOOLEAN
  BY DEF Tick, IInv, TypeOK
<1>2. QED
  BY <1>1, StartPushInv DEF Tick

LEMMA WakeInv ==
  ASSUME IInv, Wake
  PROVE  IInv'
<1>1. /\ fwd.pc = "select" /\ notify' = FALSE
      /\ UNCHANGED <<db, cursor, gates, behind, hooks, posts, got, faults>>
  BY DEF Wake
<1>2. /\ fwd'.page = {} /\ fwd'.pc = "debounce" /\ fwd'.todo = <<>> /\ ~fwd'.failed
      /\ fwd' \in [pc : {"select", "debounce", "poll", "post", "advance"}, force : BOOLEAN,
                   todo : Seq(Tables), page : SUBSET Versions, failed : BOOLEAN]
  <2>1. fwd' = [pc |-> "debounce", force |-> FALSE, todo |-> <<>>, page |-> {}, failed |-> FALSE]
    BY DEF Wake, Idle
  <2>2. <<>> \in Seq(Tables) /\ {} \in SUBSET Versions
    OBVIOUS
  <2>3. QED
    BY <2>1, <2>2
<1>3. fwd.page = {}
  BY <1>1 DEF IInv, Phases
<1>4. TypeOK'
  BY <1>1, <1>2, <1>3 DEF IInv, TypeOK, db
<1>5. Stamped' /\ EndsThere' /\ Ties' /\ BehindPolled'
  BY <1>1 DEF IInv, Stamped, EndsThere, Ties, BehindPolled, db
<1>6. Queued' = Queued
  BY <1>1 DEF Queued
<1>7. Copies' /\ Covered' /\ LinksLast' /\ Carried' /\ OnlyLateSkipped'
  BY <1>1, <1>2, <1>6 DEF IInv, Copies, OneEach, Covered, LinksLast, Carried, OnlyLateSkipped,
                    Unsent, Sendable, db
<1>8. Phases'
  BY <1>1, <1>2, EmptyElems DEF IInv, Phases
<1>9. WakeCovers'
  BY <1>2 DEF WakeCovers
<1>10. QED
  BY <1>4, <1>5, <1>7, <1>8, <1>9 DEF IInv

LEMMA DebouncedInv ==
  ASSUME IInv, Debounced
  PROVE  IInv'
BY StartPushInv DEF Debounced

-----------------------------------------------------------------------------
(* pushNetwork: the queries.                                               *)

\* A page of the table at the head of the list, behind a cursor or from the start.
LEMMA QueryInv ==
  ASSUME IInv, NEW t \in Tables, t = Head(fwd.todo), fwd.pc = "poll", fwd.todo # <<>>,
         NEW c \in Nat, c = cursor[t] \/ (c = 0 /\ faults' > 0), Query(t, c),
         faults' \in 0..MaxFaults, faults <= faults',
         UNCHANGED <<db, cursor, hooks, notify, posts, got>>
  PROVE  IInv'
<1>1. PICK S \in Pages(t, c) :
        /\ fwd' = [fwd EXCEPT !.todo = Tail(@), !.page = @ \cup Read(S)]
        /\ gates' = [gates EXCEPT ![t] = RecordPoll(@, S # {})]
        /\ behind' = {r \in behind : Table[r] # t} \cup (Due(t, c) \ S)
  BY DEF Query
<1> DEFINE new == Read(S)
<1>2. /\ S \in SUBSET Rows
      /\ \A r \in S : Table[r] = t /\ stamp[r] > c /\ ver[r] > 0
      /\ Cardinality(S) \in Nat /\ Cardinality(S) <= Limit[t]
      /\ \A q \in Due(t, c) \ S : \A r \in S : stamp[r] <= stamp[q]
      /\ Due(t, c) \ S # {} => S # {}
  BY PagesAre
<1>3. /\ new \in SUBSET Versions /\ OneEach(new)
      /\ \A v \in new : v.row \in S /\ v.ver = ver[v.row] /\ v.stamp = stamp[v.row]
      /\ \A r \in S : \E v \in new : v.row = r /\ v.ver = ver[r]
      /\ IsFiniteSet(new) /\ Cardinality(new) = Cardinality(S)
  BY <1>2, ReadIs DEF IInv
<1> HIDE DEF new
<1>4. /\ fwd.todo \in Seq(Tables) /\ NoDup(fwd.todo) /\ fwd.page \in SUBSET Versions
      /\ fwd.failed \in BOOLEAN /\ fwd.force \in BOOLEAN
      /\ \A v \in fwd.page : Table[v.row] \notin ToSet(fwd.todo)
  BY DEF IInv, TypeOK, Phases
<1>5. /\ Tail(fwd.todo) \in Seq(Tables) /\ NoDup(Tail(fwd.todo))
      /\ ToSet(Tail(fwd.todo)) = ToSet(fwd.todo) \ {t} /\ t \in ToSet(fwd.todo)
  BY <1>4, TailElems
<1>6. /\ fwd'.todo = Tail(fwd.todo) /\ fwd'.page = fwd.page \cup new /\ fwd'.pc = "poll"
      /\ fwd'.failed = fwd.failed /\ fwd'.force = fwd.force
      /\ fwd' \in [pc : {"select", "debounce", "poll", "post", "advance"}, force : BOOLEAN,
                   todo : Seq(Tables), page : SUBSET Versions, failed : BOOLEAN]
  <2>1. fwd.page \cup new \in SUBSET Versions
    BY <1>3, <1>4
  <2>2. fwd' = [fwd EXCEPT !.todo = Tail(fwd.todo), !.page = fwd.page \cup new]
    BY <1>1 DEF new
  <2>3. fwd \in [pc : {"select", "debounce", "poll", "post", "advance"}, force : BOOLEAN,
                   todo : Seq(Tables), page : SUBSET Versions, failed : BOOLEAN]
    BY DEF IInv, TypeOK
  <2>4. QED
    BY <1>5, <2>1, <2>2, <2>3
<1>7. \A v \in fwd.page : v.row \in Rows /\ Table[v.row] # t
  BY <1>4, <1>5 DEF Versions
<1>8. gates' \in [Tables -> [misses : 0..MaxIdleSkips, skipLeft : 0..MaxIdleSkips]]
  <2>1. gates[t] \in [misses : 0..MaxIdleSkips, skipLeft : 0..MaxIdleSkips]
    BY DEF IInv, TypeOK
  <2>2. RecordPoll(gates[t], S # {}) \in [misses : 0..MaxIdleSkips, skipLeft : 0..MaxIdleSkips]
    BY SMTT(30), <2>1, ForwarderAssumption DEF RecordPoll
  <2>3. QED
    BY <1>1, <2>2 DEF IInv, TypeOK
<1>9. \A u \in Tables : Cardinality({v \in fwd'.page : Table[v.row] = u}) <= Limit[u]
  <2> SUFFICES ASSUME NEW u \in Tables
               PROVE  Cardinality({v \in fwd'.page : Table[v.row] = u}) <= Limit[u]
    OBVIOUS
  <2>1. CASE u = t
    <3>1. {v \in fwd'.page : Table[v.row] = t} = new
      BY <1>2, <1>3, <1>6, <1>7
    <3>2. QED
      BY <1>2, <1>3, <2>1, <3>1
  <2>2. CASE u # t
    <3>1. {v \in fwd'.page : Table[v.row] = u} = {v \in fwd.page : Table[v.row] = u}
      BY <1>2, <1>3, <1>6, <2>2
    <3>2. QED
      BY <3>1 DEF IInv, TypeOK
  <2>3. QED
    BY <2>1, <2>2
<1>11. /\ Stamped' /\ EndsThere' /\ Ties'
       /\ behind' \in SUBSET Rows /\ BehindPolled'
  <2>1. behind \in SUBSET Rows /\ Due(t, c) \in SUBSET Rows /\ gates \in [Tables -> [misses : 0..MaxIdleSkips, skipLeft : 0..MaxIdleSkips]]
    BY DEF IInv, TypeOK, Due
  <2>2. \A r \in behind : Table[r] # t => gates'[Table[r]].skipLeft = 0
    BY <1>1, <2>1, ForwarderAssumption DEF IInv, BehindPolled
  <2>3. S # {} => gates'[t].skipLeft = 0
    BY <1>1, <2>1 DEF RecordPoll
  <2>4. \A r \in Due(t, c) \ S : Table[r] = t /\ gates'[t].skipLeft = 0
    BY <1>2, <2>3 DEF Due
  <2>5. BehindPolled'
    BY <1>1, <2>2, <2>4 DEF BehindPolled
  <2>6. Stamped' /\ EndsThere' /\ Ties'
    BY DEF IInv, Stamped, EndsThere, Ties, db
  <2>7. QED
    BY <1>1, <2>1, <2>5, <2>6
<1>10. TypeOK'
  BY <1>6, <1>8, <1>9, <1>11 DEF IInv, TypeOK, db
<1>12. Copies'
  <2>1. Queued' = Queued
    BY DEF Queued
  <2>2. OneEach(fwd'.page)
    <3> SUFFICES ASSUME NEW v \in fwd'.page, NEW w \in fwd'.page, v.row = w.row
                 PROVE  v = w
      BY DEF OneEach
    <3>1. CASE v \in new /\ w \in new
      BY <1>3, <3>1 DEF OneEach
    <3>2. CASE v \in fwd.page /\ w \in fwd.page
      BY <3>2 DEF IInv, Copies, OneEach
    <3>3. QED
      BY <1>2, <1>3, <1>6, <1>7, <3>1, <3>2
  <2>3. \A v \in new : /\ v.ver <= ver[v.row] /\ v.stamp <= top[Table[v.row]] /\ got[v.row] <= v.ver
    <3>1. \A r \in Rows : /\ got[r] <= ver[r] /\ ver[r] \in Nat /\ stamp[r] <= top[Table[r]]
      BY DEF IInv, TypeOK, Stamped
    <3>2. QED
      BY <1>2, <1>3, <3>1
  <2>4. \A v \in fwd'.page : /\ v.ver <= ver[v.row] /\ v.stamp <= top[Table[v.row]] /\ got[v.row] <= v.ver
    BY <1>6, <2>3 DEF IInv, Copies
  <2>5. QED
    BY <2>1, <2>2, <2>4 DEF IInv, Copies, db
<1>13. \A q \in Sendable \ late : Table[q] = t /\ Unsent(q) /\ q \notin S => stamp[q] > c
  <2> SUFFICES ASSUME NEW q \in Sendable, q \notin late, Table[q] = t, got[q] < ver[q], q \notin S
               PROVE  stamp[q] > c
    BY DEF Unsent
  <2>1. q \in Rows
    BY DEF Sendable
  <2>2. stamp[q] > 0 /\ stamp[q] \in Nat
    BY <2>1 DEF IInv, TypeOK, Stamped
  <2>3. CASE c = cursor[t]
    BY <2>2, <2>3 DEF IInv, OnlyLateSkipped, Unsent
  <2>4. CASE c = 0
    BY <2>2, <2>4
  <2>5. QED
    BY <2>3, <2>4
<1>14. Covered'
  <2> SUFFICES ASSUME NEW v \in fwd'.page, NEW q \in Sendable, q \notin late,
                      Table[q] = Table[v.row], stamp[q] <= v.stamp, Unsent(q)
               PROVE  \E w \in fwd'.page : w.row = q /\ w.ver = ver[q]
    BY DEF Covered, Unsent, Sendable, db
  <2>1. q \in Rows
    BY DEF Sendable
  <2>2. CASE v \in fwd.page
    BY <1>6, <2>2 DEF IInv, Covered
  <2>3. CASE v \in new /\ q \in S
    BY <1>3, <1>6, <2>3
  <2>4. CASE v \in new /\ q \notin S
    <3>1. v.row \in S /\ v.stamp = stamp[v.row] /\ Table[v.row] = t /\ v.row \in Rows /\ v.row # q
      BY <1>2, <1>3, <2>4
    <3>2. stamp[q] > c
      BY <1>13, <2>4, <3>1
    <3>3. stamp[v.row] <= stamp[q]
      <4>1. q \in Due(t, c) \ S
        BY <2>1, <2>4, <3>1, <3>2 DEF Due
      <4>2. QED
        BY <1>2, <3>1, <4>1
    <3>4. stamp[q] = stamp[v.row] /\ stamp[q] > 0
      <4>1. stamp[q] \in Nat /\ stamp[v.row] \in Nat
        BY SMTT(30), <2>1, <3>1 DEF IInv, TypeOK
      <4>2. QED
        BY <3>1, <3>2, <3>3, <4>1
    <3>5. q \in late
      BY <2>1, <3>1, <3>4 DEF IInv, Ties
    <3>6. QED
      BY <3>5
  <2>5. QED
    BY <1>6, <2>2, <2>3, <2>4
<1>15. LinksLast' /\ Carried' /\ OnlyLateSkipped'
  BY <1>6 DEF IInv, LinksLast, Carried, OnlyLateSkipped, Unsent, Sendable, db
<1>16. Phases'
  <2>1. \A v \in fwd'.page : Table[v.row] \notin ToSet(fwd'.todo)
    BY <1>2, <1>3, <1>4, <1>5, <1>6
  <2>2. fwd'.failed => faults' > 0
    BY <1>6 DEF IInv, TypeOK, Phases
  <2>3. QED
    BY <1>5, <1>6, <2>1, <2>2 DEF IInv, Phases
<1>17. WakeCovers'
  <2> SUFFICES ASSUME faults' = 0, NEW r \in Sendable, r \notin late, Table[r] = "events", Unsent(r)
               PROVE  \/ hooks > 0 \/ notify
                      \/ fwd.force /\ \E i \in DOMAIN fwd'.todo : fwd'.todo[i] = "events"
                      \/ \E v \in fwd'.page : v.row = r
                      \/ r \in behind' /\ gates'["events"].skipLeft = 0
    BY <1>6 DEF WakeCovers, Unsent, Sendable, db
  <2>1. faults = 0 /\ c = cursor[t]
    BY DEF IInv, TypeOK
  <2>2. \/ hooks > 0 \/ notify
        \/ fwd.force /\ "events" \in ToSet(fwd.todo)
        \/ \E v \in fwd.page : v.row = r
        \/ r \in behind /\ gates["events"].skipLeft = 0
    BY <2>1 DEF IInv, WakeCovers, ToSet
  <2>3. CASE fwd.force /\ "events" \in ToSet(fwd.todo) /\ t # "events"
    <3>1. "events" \in ToSet(fwd'.todo)
      BY <1>5, <1>6, <2>3
    <3>2. QED
      BY <2>3, <3>1 DEF ToSet
  <2>4. CASE t = "events" /\ r \in S
    BY <1>3, <1>6, <2>4
  <2>5. CASE t = "events" /\ r \notin S
    <3>1. r \in Rows /\ stamp[r] > c
      BY <1>13, <2>5 DEF Sendable
    <3>2. r \in Due(t, c) \ S
      BY <2>5, <3>1 DEF Due
    <3>3. r \in behind'
      BY <1>1, <3>2
    <3>4. QED
      BY <1>11, <3>3 DEF BehindPolled
  <2>6. CASE t # "events" /\ r \in behind
    <3>1. r \in behind'
      BY <1>1, <2>6
    <3>2. QED
      BY <1>11, <3>1 DEF BehindPolled
  <2>7. QED
    BY <1>6, <2>2, <2>3, <2>4, <2>5, <2>6
<1>18. QED
  BY <1>10, <1>11, <1>12, <1>14, <1>15, <1>16, <1>17 DEF IInv

LEMMA PollTableInv ==
  ASSUME IInv, PollTable
  PROVE  IInv'
<1> DEFINE t == Head(fwd.todo)
<1>1. t \in Tables /\ fwd.pc = "poll" /\ fwd.todo # <<>>
  <2>1. fwd.pc = "poll" /\ fwd.todo # <<>> /\ fwd.todo \in Seq(Tables)
    BY DEF PollTable, IInv, TypeOK
  <2>2. QED
    BY <2>1, HeadTailProperties
<1>2. cursor[t] \in Nat /\ faults \in 0..MaxFaults /\ MaxFaults \in Nat
  BY <1>1, ForwarderAssumption DEF IInv, TypeOK
<1>3. UNCHANGED <<db, cursor, hooks, notify, posts, got>>
  BY DEF PollTable
<1>4. CASE Query(t, cursor[t]) /\ UNCHANGED faults
  <2>1. PICK u \in Tables, c \in Nat : u = t /\ c = cursor[t]
    BY <1>1, <1>2
  <2>2. Query(u, c)
    BY <1>4, <2>1
  <2> HIDE DEF t
  <2>3. QED
    BY <1>1, <1>2, <1>3, <1>4, <2>1, <2>2, QueryInv DEF t
<1>5. CASE Query(t, 0) /\ Fault
  <2>1. PICK u \in Tables : u = t
    BY <1>1
  <2>2. Query(u, 0)
    BY <1>5, <2>1
  <2>3. faults' \in 0..MaxFaults /\ faults' > 0 /\ faults <= faults'
    BY <1>2, <1>5 DEF Fault
  <2>4. QED
    BY <1>1, <1>2, <1>3, <2>1, <2>2, <2>3, QueryInv
<1>6. QED
  BY <1>4, <1>5 DEF PollTable

LEMMA SkipTableInv ==
  ASSUME IInv, SkipTable
  PROVE  IInv'
<1> DEFINE t == Head(fwd.todo)
<1>1. /\ fwd.pc = "poll" /\ fwd.todo # <<>> /\ ~fwd.force /\ gates[t].skipLeft # 0
      /\ fwd' = [fwd EXCEPT !.todo = Tail(@)]
      /\ gates' = [gates EXCEPT ![t].skipLeft = @ - 1]
      /\ UNCHANGED <<db, cursor, behind, hooks, notify, posts, got, faults>>
  BY DEF SkipTable, ShouldPoll
<1>2. /\ fwd.todo \in Seq(Tables) /\ NoDup(fwd.todo)
      /\ fwd \in [pc : {"select", "debounce", "poll", "post", "advance"}, force : BOOLEAN,
                  todo : Seq(Tables), page : SUBSET Versions, failed : BOOLEAN]
  BY DEF IInv, TypeOK, Phases
<1>3. /\ t \in Tables /\ Tail(fwd.todo) \in Seq(Tables) /\ NoDup(Tail(fwd.todo))
      /\ ToSet(Tail(fwd.todo)) \in SUBSET ToSet(fwd.todo)
  BY <1>1, <1>2, TailElems
<1>4. /\ fwd'.todo = Tail(fwd.todo) /\ fwd'.page = fwd.page /\ fwd'.pc = fwd.pc
      /\ fwd'.failed = fwd.failed /\ fwd'.force = fwd.force
      /\ fwd' \in [pc : {"select", "debounce", "poll", "post", "advance"}, force : BOOLEAN,
                   todo : Seq(Tables), page : SUBSET Versions, failed : BOOLEAN]
  BY <1>1, <1>2, <1>3
<1>5. gates' \in [Tables -> [misses : 0..MaxIdleSkips, skipLeft : 0..MaxIdleSkips]]
  <2>1. /\ gates \in [Tables -> [misses : 0..MaxIdleSkips, skipLeft : 0..MaxIdleSkips]]
        /\ MaxIdleSkips \in Nat
    BY ForwarderAssumption DEF IInv, TypeOK
  <2>2. gates[t].skipLeft - 1 \in 0..MaxIdleSkips
    BY <1>1, <1>3, <2>1
  <2>3. QED
    BY <1>1, <1>3, <2>1, <2>2
<1>6. TypeOK'
  BY <1>1, <1>4, <1>5 DEF IInv, TypeOK, db
<1>7. Stamped' /\ EndsThere' /\ Ties' /\ BehindPolled'
  <2>1. \A r \in behind : Table[r] \in Tables /\ Table[r] # t /\ gates[Table[r]].skipLeft = 0
    BY <1>1, ForwarderAssumption DEF IInv, TypeOK, BehindPolled
  <2>2. \A r \in behind : gates'[Table[r]] = gates[Table[r]]
    BY <1>1, <2>1 DEF IInv, TypeOK
  <2>3. BehindPolled'
    BY <1>1, <2>1, <2>2 DEF BehindPolled
  <2>4. QED
    BY <1>1, <2>3 DEF IInv, Stamped, EndsThere, Ties, db
<1>8. Queued' = Queued
  BY <1>1 DEF Queued
<1>9. Copies' /\ Covered' /\ LinksLast' /\ Carried' /\ OnlyLateSkipped'
  BY <1>1, <1>4, <1>8 DEF IInv, Copies, OneEach, Covered, LinksLast, Carried, OnlyLateSkipped,
                          Unsent, Sendable, db
<1>10. Phases'
  BY <1>1, <1>3, <1>4 DEF IInv, Phases
<1>11. WakeCovers'
  <2>1. \A r \in Sendable : Table[r] = "events" /\ r \in behind => gates'["events"].skipLeft = 0
    BY <1>1, <1>7 DEF BehindPolled
  <2>2. QED
    BY <1>1, <1>4, <2>1 DEF IInv, WakeCovers, Unsent, Sendable, db
<1>12. QED
  BY <1>6, <1>7, <1>9, <1>10, <1>11 DEF IInv

LEMMA QueryFailsInv ==
  ASSUME IInv, QueryFails
  PROVE  IInv'
<1>1. /\ fwd.pc = "poll" /\ fwd' = Idle /\ Fault
      /\ UNCHANGED <<db, cursor, gates, behind, hooks, notify, posts, got>>
  BY DEF QueryFails
<1>2. faults' \in 0..MaxFaults /\ faults' > 0
  BY <1>1, FaultIs DEF IInv
<1>3. /\ \A s \in Scopes : posts'[s] = posts[s] /\ posts[s].chunks = <<>>
      /\ DOMAIN posts' = Scopes /\ posts' = [s \in Scopes |-> posts'[s]]
  BY <1>1 DEF IInv, TypeOK, Phases
<1>4. /\ gates' \in [Tables -> [misses : 0..MaxIdleSkips, skipLeft : 0..MaxIdleSkips]]
      /\ hooks' \in 0..MaxClock /\ hooks' <= clock /\ notify' \in BOOLEAN
  BY <1>1 DEF IInv, TypeOK, Stamped
<1>5. WakeCovers'
  BY <1>2 DEF WakeCovers
<1>6. QED
  BY <1>1, <1>2, <1>3, <1>4, <1>5, IdleInv

-----------------------------------------------------------------------------
(* pushNetwork: payloads and posts.                                        *)

\* Hydrate adds the devices the page refers to, once each.
LEMMA HydrateIs ==
  ASSUME IInv, fwd.pc = "poll"
  PROVE  /\ Hydrate(fwd.page) \in SUBSET Versions /\ OneEach(Hydrate(fwd.page))
         /\ fwd.page \in SUBSET Hydrate(fwd.page)
         /\ \A v \in Hydrate(fwd.page) : got[v.row] <= v.ver /\ v.ver <= ver[v.row]
         /\ \A v \in Hydrate(fwd.page) : v \in fwd.page \/ Table[v.row] = "devices"
         /\ \A v \in fwd.page : \A d \in Ends[v.row] :
              Table[d] = "devices" /\ \E w \in Hydrate(fwd.page) : w.row = d
<1> DEFINE here == {v.row : v \in fwd.page}
           ends == UNION {Ends[v.row] : v \in fwd.page}
           D == ends \ here
           new == Read(D)
<1>1. Hydrate(fwd.page) = fwd.page \cup new
  BY DEF Hydrate
<1>2. /\ fwd.page \in SUBSET Versions /\ OneEach(fwd.page)
      /\ \A v \in fwd.page : /\ v.row \in Rows /\ v.ver \in 1..MaxClock /\ v.ver <= ver[v.row]
                             /\ got[v.row] <= v.ver
  BY DEF IInv, TypeOK, Versions, Copies
<1>3. \A r \in Rows : /\ Ends[r] \in SUBSET Rows /\ got[r] <= ver[r] /\ ver[r] \in Nat
                      /\ \A d \in Ends[r] : Table[d] = "devices"
  BY SMTT(30), ForwarderAssumption DEF Devices, IInv, TypeOK, Stamped
<1>4. \A v \in fwd.page : ver[v.row] > 0
  BY <1>2, <1>3
<1>5. /\ D \in SUBSET Rows
      /\ \A r \in D : ver[r] > 0 /\ Table[r] = "devices"
  BY <1>2, <1>3, <1>4 DEF IInv, EndsThere
<1>6. /\ new \in SUBSET Versions /\ OneEach(new)
      /\ \A v \in new : v.row \in D /\ v.ver = ver[v.row]
      /\ \A r \in D : \E v \in new : v.row = r
  <2> HIDE DEF D
  <2>1. QED
    BY <1>5, ReadIs DEF IInv
<1>7. \A v \in new, w \in fwd.page : v.row # w.row
  <2>1. \A w \in fwd.page : w.row \in here
    OBVIOUS
  <2>2. \A r \in D : r \notin here
    <3> HIDE DEF here, ends
    <3>1. QED
      OBVIOUS
  <2> HIDE DEF D, here, new
  <2>3. QED
    BY <1>6, <2>1, <2>2
<1>8. ASSUME NEW v \in fwd.page, NEW d \in Ends[v.row]
      PROVE  d \in D \/ \E w \in fwd.page : w.row = d
  <2>1. d \in here => \E w \in fwd.page : w.row = d
    OBVIOUS
  <2>2. Ends[v.row] \in {Ends[w.row] : w \in fwd.page}
    OBVIOUS
  <2>3. d \in ends
    BY <2>2
  <2> HIDE DEF here, ends
  <2>4. QED
    BY <2>1, <2>3
<1> HIDE DEF new, D
<1>9. OneEach(fwd.page \cup new)
  BY <1>2, <1>6, <1>7 DEF OneEach
<1>10. \A v \in new : got[v.row] <= v.ver /\ v.ver <= ver[v.row] /\ Table[v.row] = "devices"
  BY <1>3, <1>5, <1>6
<1>11. \A v \in fwd.page : \A d \in Ends[v.row] :
         Table[d] = "devices" /\ \E w \in fwd.page \cup new : w.row = d
  BY <1>2, <1>3, <1>6, <1>8
<1>12. QED
  BY <1>1, <1>2, <1>6, <1>9, <1>10, <1>11

\* chunkPayload keeps everything, and devices go before links.
LEMMA ChunksAre ==
  ASSUME NEW payload \in SUBSET Versions
  PROVE  /\ Chunks(payload) \in Seq(SUBSET Versions)
         /\ \A i \in DOMAIN Chunks(payload) : Chunks(payload)[i] \in SUBSET payload
         /\ \A v \in payload : \E i \in DOMAIN Chunks(payload) : v \in Chunks(payload)[i]
         /\ \A i \in DOMAIN Chunks(payload) : \A v \in Chunks(payload)[i], w \in payload :
              Table[v.row] = "topology" /\ Table[w.row] = "devices" =>
                \E j \in DOMAIN Chunks(payload) : j < i /\ w \in Chunks(payload)[j]
<1> DEFINE tail == {v \in payload : Table[v.row] \in {"topology", "events"}}
           head == payload \ tail
           Part(c) == IF c = {} THEN <<>> ELSE <<c>>
           ch == Part(head) \o Part(tail)
<1>1. Chunks(payload) = ch
  BY DEF Chunks
<1>2. /\ payload = head \cup tail /\ head \in SUBSET payload /\ tail \in SUBSET payload
      /\ \A v \in head : Table[v.row] # "topology"
      /\ \A v \in tail : Table[v.row] # "devices"
  OBVIOUS
<1> HIDE DEF head, tail
<1>3. CASE head = {} /\ tail = {}
  <2>1. ch = <<>>
    BY <1>3
  <2>2. QED
    BY <1>1, <1>2, <1>3, <2>1
<1>4. CASE head # {} /\ tail = {}
  <2>1. ch = <<head>>
    BY <1>4
  <2>2. ch \in Seq(SUBSET Versions) /\ DOMAIN ch = {1} /\ ch[1] = head
    <3>1. head \in SUBSET Versions
      BY <1>2
    <3>2. <<head>> \in Seq(SUBSET Versions) /\ Len(<<head>>) = 1 /\ <<head>>[1] = head
      BY <3>1
    <3>3. DOMAIN <<head>> = 1..1
      BY <3>2, LenProperties
    <3> HIDE DEF ch
    <3>4. QED
      BY <2>1, <3>2, <3>3
  <2> HIDE DEF ch
  <2>3. QED
    BY <1>1, <1>2, <1>4, <2>2
<1>5. CASE head = {} /\ tail # {}
  <2>1. ch = <<tail>>
    BY <1>5
  <2>2. ch \in Seq(SUBSET Versions) /\ DOMAIN ch = {1} /\ ch[1] = tail
    <3>1. tail \in SUBSET Versions
      BY <1>2
    <3>2. <<tail>> \in Seq(SUBSET Versions) /\ Len(<<tail>>) = 1 /\ <<tail>>[1] = tail
      BY <3>1
    <3>3. DOMAIN <<tail>> = 1..1
      BY <3>2, LenProperties
    <3> HIDE DEF ch
    <3>4. QED
      BY <2>1, <3>2, <3>3
  <2> HIDE DEF ch
  <2>3. QED
    BY <1>1, <1>2, <1>5, <2>2
<1>6. CASE head # {} /\ tail # {}
  <2>1. ch = <<head>> \o <<tail>>
    BY <1>6
  <2>2. ch \in Seq(SUBSET Versions) /\ DOMAIN ch = {1, 2} /\ ch[1] = head /\ ch[2] = tail
    <3>1. head \in SUBSET Versions /\ tail \in SUBSET Versions
      BY <1>2
    <3>2. /\ <<head>> \in Seq(SUBSET Versions) /\ Len(<<head>>) = 1 /\ <<head>>[1] = head
          /\ <<tail>> \in Seq(SUBSET Versions) /\ Len(<<tail>>) = 1 /\ <<tail>>[1] = tail
      BY <3>1
    <3> HIDE DEF ch
    <3>3. ch \in Seq(SUBSET Versions) /\ Len(ch) = 2
      BY <2>1, <3>2, ConcatProperties
    <3>4. ch[1] = head /\ ch[2] = tail
      <4>1. \A i \in 1..(1 + 1) : ch[i] = IF i <= 1 THEN <<head>>[i] ELSE <<tail>>[i - 1]
        BY <2>1, <3>2, ConcatProperties
      <4>2. ch[2] = <<tail>>[2 - 1] /\ 2 - 1 = 1
        BY <4>1
      <4>3. QED
        BY <3>2, <4>1, <4>2
    <3>5. DOMAIN ch = 1..2
      BY <3>3, LenProperties
    <3>6. QED
      BY <3>3, <3>4, <3>5
  <2> HIDE DEF ch
  <2>3. QED
    BY <1>1, <1>2, <1>6, <2>2
<1>7. QED
  BY <1>3, <1>4, <1>5, <1>6

LEMMA BuildInv ==
  ASSUME IInv, Build
  PROVE  IInv'
<1>1. fwd.pc = "poll" /\ fwd.todo = <<>> /\ UNCHANGED <<db, cursor, gates, behind, hooks, notify, got, faults>>
  BY DEF Build
<1>2. CASE fwd.page = {}
  <2>1. fwd' = Idle /\ posts' = posts
    BY <1>2 DEF Build
  <2>2. /\ \A s \in Scopes : posts'[s] = posts[s] /\ posts[s].chunks = <<>>
        /\ DOMAIN posts' = Scopes /\ posts' = [s \in Scopes |-> posts'[s]]
    BY <1>1, <2>1 DEF IInv, TypeOK, Phases
  <2>3. /\ gates' \in [Tables -> [misses : 0..MaxIdleSkips, skipLeft : 0..MaxIdleSkips]]
        /\ hooks' \in 0..MaxClock /\ hooks' <= clock /\ notify' \in BOOLEAN /\ faults' \in 0..MaxFaults
    BY <1>1 DEF IInv, TypeOK, Stamped
  <2>4. WakeCovers'
    BY <1>1, <1>2 DEF IInv, WakeCovers, Unsent, Sendable, db
  <2>5. QED
    BY <1>1, <2>1, <2>2, <2>3, <2>4, IdleInv
<1>3. CASE fwd.page # {}
  <2> DEFINE all == Hydrate(fwd.page)
             Of(s) == Chunks(Payload(all, s))
  <2>1. /\ fwd' = [fwd EXCEPT !.pc = "post"]
        /\ posts' = [s \in Scopes |-> [NoPost EXCEPT !.chunks = Of(s)]]
    BY <1>3 DEF Build
  <2>2. /\ fwd'.page = fwd.page /\ fwd'.pc = "post" /\ fwd'.todo = fwd.todo
        /\ fwd'.failed = fwd.failed /\ fwd'.force = fwd.force
        /\ fwd' \in [pc : {"select", "debounce", "poll", "post", "advance"}, force : BOOLEAN,
                     todo : Seq(Tables), page : SUBSET Versions, failed : BOOLEAN]
    BY <2>1 DEF IInv, TypeOK
  <2>3. /\ all \in SUBSET Versions /\ OneEach(all) /\ fwd.page \in SUBSET all
        /\ \A v \in all : got[v.row] <= v.ver /\ v.ver <= ver[v.row]
        /\ \A v \in all : v \in fwd.page \/ Table[v.row] = "devices"
        /\ \A v \in fwd.page : \A d \in Ends[v.row] :
             Table[d] = "devices" /\ \E w \in all : w.row = d
    BY <1>1, HydrateIs
  <2> HIDE DEF all
  <2>4. \A s \in Scopes : Payload(all, s) \in SUBSET Versions
    BY <2>3 DEF Payload
  <2>5. ASSUME NEW s \in Scopes
        PROVE  /\ Of(s) \in Seq(SUBSET Versions)
               /\ \A i \in DOMAIN Of(s) : Of(s)[i] \in SUBSET Payload(all, s)
               /\ \A v \in Payload(all, s) : \E i \in DOMAIN Of(s) : v \in Of(s)[i]
               /\ \A i \in DOMAIN Of(s) : \A v \in Of(s)[i], w \in Payload(all, s) :
                    Table[v.row] = "topology" /\ Table[w.row] = "devices" =>
                      \E j \in DOMAIN Of(s) : j < i /\ w \in Of(s)[j]
    BY <2>4, ChunksAre
  <2>6. \A s \in Scopes : posts'[s].chunks = Of(s) /\ posts'[s].tries = 0
    BY <2>1 DEF NoPost
  <2>7. posts' \in [Scopes -> [chunks : Seq(SUBSET Versions), tries : 0..Attempts - 1]]
    BY <2>1, <2>5, ForwarderAssumption DEF NoPost
  <2> HIDE DEF Of
  <2>8. TypeOK'
    BY <1>1, <2>2, <2>7 DEF IInv, TypeOK, db
  <2>9. Stamped' /\ EndsThere' /\ Ties' /\ BehindPolled' /\ OnlyLateSkipped'
    BY <1>1 DEF IInv, Stamped, EndsThere, Ties, BehindPolled, OnlyLateSkipped, Unsent, Sendable, db
  <2>10. Queued' \in SUBSET all
    <3>1. \A s \in Scopes : Payload(all, s) \in SUBSET all
      BY DEF Payload
    <3>2. QED
      BY <2>5, <2>6, <3>1 DEF Queued
  <2>11. Copies' /\ Covered'
    BY <1>1, <2>2, <2>3, <2>10 DEF IInv, Copies, OneEach, Covered, Unsent, Sendable, db
  <2>12. LinksLast'
    <3> SUFFICES ASSUME NEW s \in Scopes, NEW i \in DOMAIN Of(s), NEW v \in Of(s)[i],
                        Table[v.row] = "topology", NEW d \in Ends[v.row]
                 PROVE  \E j \in DOMAIN Of(s) : j < i /\ \E w \in Of(s)[j] : w.row = d
      BY <1>1, <2>6 DEF LinksLast
    <3>1. v \in all /\ Scope[v.row] = s /\ v.row \in Rows
      BY <2>3, <2>5 DEF Payload, Versions
    <3>2. v \in fwd.page
      BY <2>3, <3>1
    <3>3. PICK w \in all : w.row = d /\ Table[d] = "devices"
      BY <2>3, <3>2
    <3>4. Scope[d] = s
      BY <3>1, ForwarderAssumption
    <3>5. w \in Payload(all, s)
      BY <3>3, <3>4 DEF Payload
    <3>6. QED
      BY <2>5, <3>3, <3>5
  <2>13. Carried'
    <3> SUFFICES ASSUME NEW v \in fwd.page, Scope[v.row] \in Scopes
                 PROVE  \E i \in DOMAIN Of(Scope[v.row]) : v \in Of(Scope[v.row])[i]
      BY <2>2, <2>6 DEF Carried, Sendable
    <3>1. v \in Payload(all, Scope[v.row])
      BY <2>3 DEF Payload
    <3>2. QED
      BY <2>5, <3>1
  <2>14. Phases'
    BY <1>1, <2>2 DEF IInv, Phases
  <2>15. WakeCovers'
    BY <1>1, <2>2 DEF IInv, WakeCovers, Unsent, Sendable, db
  <2>16. QED
    BY <2>8, <2>9, <2>11, <2>12, <2>13, <2>14, <2>15 DEF IInv
<1>4. QED
  BY <1>2, <1>3

\* A post of one scope ends: well, badly, or to be tried again.
LEMMA PostInv ==
  ASSUME IInv, NEW s \in Scopes, fwd.pc = "post", posts[s].chunks # <<>>,
         NEW p \in [chunks : Seq(SUBSET Versions), tries : 0..Attempts - 1],
         posts' = [posts EXCEPT ![s] = p],
         NEW failed \in BOOLEAN, fwd' = [fwd EXCEPT !.failed = failed],
         fwd.failed => failed, failed => faults' > 0,
         faults' \in 0..MaxFaults, faults <= faults',
         Ingest(Head(posts[s].chunks)) \/ UNCHANGED got,
         \/ p.chunks = Tail(posts[s].chunks) /\ Ingest(Head(posts[s].chunks))
         \/ p.chunks = posts[s].chunks
         \/ p.chunks = <<>> /\ failed,
         UNCHANGED <<db, cursor, gates, behind, hooks, notify>>
  PROVE  IInv'
<1> DEFINE c == posts[s].chunks
<1>1. /\ c \in Seq(SUBSET Versions) /\ c # <<>>
      /\ \A i \in DOMAIN c : c[i] \in SUBSET Queued
  BY ChunkTyped DEF IInv
<1>2. /\ 1 \in DOMAIN c /\ Head(c) = c[1]
      /\ DOMAIN Tail(c) = 1..(Len(c) - 1) /\ Len(c) \in Nat /\ DOMAIN c = 1..Len(c)
      /\ \A i \in 1..(Len(c) - 1) : Tail(c)[i] = c[i + 1]
  <2> HIDE DEF c
  <2>1. QED
    BY <1>1, HeadTailProperties, LenProperties
<1>3. /\ got' \in [Rows -> 0..MaxClock]
      /\ \A r \in Rows : got[r] <= got'[r] /\ got'[r] <= ver[r]
      /\ \A v \in Queued : got'[v.row] <= v.ver
      /\ Ingest(c[1]) =>
           \A v \in c[1] : (Table[v.row] = "topology" => \A d \in Ends[v.row] : got[d] > 0)
                              => got'[v.row] = v.ver
  <2>1. CASE Ingest(Head(c))
    <3>1. PICK chunk \in SUBSET Queued : chunk = Head(c) /\ chunk = c[1]
      BY <1>1, <1>2
    <3>2. Ingest(chunk)
      BY <2>1, <3>1
    <3>3. QED
      BY <3>1, <3>2, IngestIs
  <2>2. CASE UNCHANGED got /\ ~Ingest(Head(c))
    <3>1. \A r \in Rows : got[r] <= ver[r] /\ got[r] \in 0..MaxClock
      BY DEF IInv, TypeOK, Stamped
    <3>2. \A v \in Queued : got[v.row] <= v.ver
      BY DEF IInv, Copies
    <3>3. ~Ingest(c[1])
      BY <1>2, <2>2
    <3>4. got \in [Rows -> 0..MaxClock]
      BY DEF IInv, TypeOK
    <3>5. \A r \in Rows : got[r] <= got[r]
      BY SMTT(30), <3>1, ForwarderAssumption
    <3>6. QED
      BY <2>2, <3>1, <3>2, <3>3, <3>4, <3>5
  <2>3. QED
    BY <2>1, <2>2
<1>4. /\ fwd'.page = fwd.page /\ fwd'.pc = "post" /\ fwd'.todo = fwd.todo
      /\ fwd'.failed = failed /\ fwd'.force = fwd.force
      /\ fwd' \in [pc : {"select", "debounce", "poll", "post", "advance"}, force : BOOLEAN,
                   todo : Seq(Tables), page : SUBSET Versions, failed : BOOLEAN]
  BY DEF IInv, TypeOK
<1>5. /\ posts'[s] = p /\ \A x \in Scopes : x # s => posts'[x] = posts[x]
      /\ posts' \in [Scopes -> [chunks : Seq(SUBSET Versions), tries : 0..Attempts - 1]]
  BY DEF IInv, TypeOK
<1>6. /\ \A r \in Rows : got[r] \in Nat /\ got'[r] \in Nat /\ ver[r] \in Nat /\ Ends[r] \in SUBSET Rows
      /\ \A v \in Versions : v.row \in Rows /\ v.ver \in Nat /\ v.ver > 0
      /\ \A r \in Rows : \A d \in Ends[r] : Table[d] = "devices"
  <2>1. \A r \in Rows : got[r] \in Nat /\ got'[r] \in Nat /\ ver[r] \in Nat
    BY <1>3, ForwarderAssumption DEF IInv, TypeOK
  <2>2. \A v \in Versions : v.row \in Rows /\ v.ver \in Nat /\ v.ver > 0
    <3>1. \A v \in Versions : v.row \in Rows /\ v.ver \in 1..MaxClock
      BY DEF Versions
    <3>2. MaxClock \in Nat
      BY ForwarderAssumption
    <3>3. QED
      BY <3>1, <3>2
  <2>3. \A r \in Rows : Ends[r] \in SUBSET Devices
    BY ForwarderAssumption
  <2>4. \A r \in Rows : Ends[r] \in SUBSET Rows /\ \A d \in Ends[r] : Table[d] = "devices"
    BY <2>3 DEF Devices
  <2>5. QED
    BY <2>1, <2>2, <2>4
<1>7. \A i \in DOMAIN p.chunks : \E j \in DOMAIN c : p.chunks[i] = c[j]
  <2> HIDE DEF c
  <2>1. CASE p.chunks = c
    BY <2>1
  <2>2. CASE p.chunks = <<>>
    BY <2>2
  <2>3. CASE p.chunks = Tail(c)
    BY SMTT(30), <1>2, <2>3
  <2>4. QED
    BY <2>1, <2>2, <2>3 DEF c
<1>8. Queued' \in SUBSET Queued
  <2> SUFFICES ASSUME NEW v \in Queued' PROVE v \in Queued
    OBVIOUS
  <2>1. PICK x \in Scopes : \E i \in DOMAIN posts'[x].chunks : v \in posts'[x].chunks[i]
    BY DEF Queued
  <2>2. v \in Versions
    BY DEF Queued
  <2>3. CASE x = s
    BY <1>1, <1>5, <1>7, <2>1, <2>3
  <2>4. CASE x # s
    BY <1>5, <2>1, <2>2, <2>4 DEF Queued
  <2>5. QED
    BY <2>3, <2>4
<1>9. TypeOK'
  BY <1>3, <1>4, <1>5 DEF IInv, TypeOK, db
<1>10. Stamped' /\ EndsThere' /\ Ties' /\ BehindPolled'
  BY <1>3 DEF IInv, Stamped, EndsThere, Ties, BehindPolled, db
<1>11. \A r \in Rows : got'[r] < ver[r] => Unsent(r)
  BY <1>3, <1>6 DEF Unsent
<1>12. Copies' /\ OnlyLateSkipped' /\ Covered'
  <2>1. Copies'
    BY <1>3, <1>4, <1>8 DEF IInv, Copies, OneEach, db
  <2>2. OnlyLateSkipped'
    BY <1>11 DEF IInv, OnlyLateSkipped, Unsent, Sendable, db
  <2>3. Covered'
    BY <1>4, <1>11 DEF IInv, Covered, Unsent, Sendable, db
  <2>4. QED
    BY <2>1, <2>2, <2>3
<1>13. ASSUME NEW d \in Rows, got[d] > 0 PROVE got'[d] > 0
  BY <1>3, <1>6, <1>13
<1> HIDE DEF c
<1>14. LinksLast'
  <2> SUFFICES ASSUME NEW x \in Scopes, NEW i \in DOMAIN posts'[x].chunks,
                      NEW v \in posts'[x].chunks[i], Table[v.row] = "topology", NEW d \in Ends[v.row],
                      ~(got'[d] > 0)
               PROVE  \E j \in DOMAIN posts'[x].chunks : j < i /\ \E w \in posts'[x].chunks[j] : w.row = d
    BY DEF LinksLast
  <2>1. v \in Versions
    BY <1>5
  <2>2. d \in Rows /\ Table[d] = "devices" /\ ~(got[d] > 0)
    BY <1>6, <1>13, <2>1
  <2>3. CASE x # s
    BY <1>5, <2>2, <2>3 DEF IInv, LinksLast
  <2>4. ASSUME NEW k \in DOMAIN c, v \in c[k]
        PROVE  \E j \in DOMAIN c : j < k /\ \E w \in c[j] : w.row = d
    BY <2>2, <2>4 DEF IInv, LinksLast, c
  <2>5. CASE x = s /\ p.chunks = c
    BY <1>5, <2>4, <2>5
  <2>6. CASE x = s /\ p.chunks = <<>>
    BY <1>5, <2>6
  <2>7. CASE x = s /\ p.chunks = Tail(c) /\ Ingest(c[1])
    <3>1. i \in 1..(Len(c) - 1) /\ v \in c[i + 1] /\ i + 1 \in DOMAIN c
      BY <1>2, <1>5, <2>7
    <3>2. PICK j \in DOMAIN c : j < i + 1 /\ \E w \in c[j] : w.row = d
      BY <2>4, <3>1
    <3>3. PICK w \in c[j] : w.row = d
      BY <3>2
    <3>4. j # 1
      <4> SUFFICES ASSUME j = 1 PROVE FALSE
        OBVIOUS
      <4>1. w \in c[1] /\ w \in Versions
        BY <1>1, <1>2, <3>3 DEF Queued
      <4>2. got'[d] = w.ver
        BY <1>3, <2>2, <2>7, <3>3, <4>1
      <4>3. QED
        BY <1>6, <4>1, <4>2
    <3>5. j - 1 \in 1..(Len(c) - 1) /\ j - 1 < i /\ Tail(c)[j - 1] = c[j]
      BY SMTT(30), <1>2, <3>1, <3>2, <3>4
    <3>6. posts'[x].chunks = Tail(c) /\ DOMAIN Tail(c) = 1..(Len(c) - 1)
      BY <1>2, <1>5, <2>7
    <3>7. PICK k \in 1..(Len(c) - 1) : k = j - 1 /\ k < i
      BY <3>5
    <3>8. w \in Tail(c)[k]
      BY <3>3, <3>5, <3>7
    <3>9. QED
      BY Zenon, <3>3, <3>6, <3>7, <3>8
  <2>8. QED
    BY <1>2, <2>3, <2>5, <2>6, <2>7 DEF c
<1>15. Carried'
  <2> SUFFICES ASSUME ~failed, NEW v \in fwd.page, Scope[v.row] \in Scopes, ~(v.ver <= got'[v.row])
               PROVE  \E i \in DOMAIN posts'[Scope[v.row]].chunks : v \in posts'[Scope[v.row]].chunks[i]
    BY <1>4 DEF Carried, Sendable
  <2>1. v \in Versions /\ v.row \in Rows /\ v.ver \in Nat
    BY <1>6 DEF IInv, TypeOK
  <2>2. ~(v.ver <= got[v.row])
    BY <1>3, <1>6, <2>1
  <2>3. PICK k \in DOMAIN posts[Scope[v.row]].chunks : v \in posts[Scope[v.row]].chunks[k]
    BY <2>1, <2>2 DEF IInv, Carried, Sendable
  <2>4. CASE Scope[v.row] # s
    BY <1>5, <2>3, <2>4
  <2>5. CASE Scope[v.row] = s /\ p.chunks = c
    BY <1>5, <2>3, <2>5 DEF c
  <2>6. CASE Scope[v.row] = s /\ p.chunks = Tail(c) /\ Ingest(c[1])
    <3>1. k \in DOMAIN c /\ v \in c[k]
      BY <2>3, <2>6 DEF c
    <3>2. k # 1
      <4> SUFFICES ASSUME k = 1 PROVE FALSE
        OBVIOUS
      <4>1. Table[v.row] = "topology" => \A d \in Ends[v.row] : got[d] > 0
        <5> SUFFICES ASSUME Table[v.row] = "topology", NEW d \in Ends[v.row] PROVE got[d] > 0
          OBVIOUS
        <5>1. got[d] > 0 \/ \E j \in DOMAIN c : j < 1
          BY <3>1 DEF IInv, LinksLast, c
        <5>2. QED
          BY <1>2, <5>1
      <4>2. got'[v.row] = v.ver
        BY <1>3, <2>6, <3>1, <4>1
      <4>3. QED
        BY <2>1, <4>2
    <3>3. k - 1 \in 1..(Len(c) - 1) /\ Tail(c)[k - 1] = c[k]
      BY <1>2, <3>1, <3>2
    <3>4. QED
      BY <1>2, <1>5, <2>6, <3>1, <3>3
  <2>7. QED
    BY <1>2, <2>4, <2>5, <2>6 DEF c
<1>16. Phases'
  BY <1>4 DEF IInv, Phases
<1>17. WakeCovers'
  <2>1. faults' = 0 => faults = 0
    BY DEF IInv, TypeOK
  <2>2. QED
    BY <1>4, <1>11, <2>1 DEF IInv, WakeCovers, Unsent, Sendable, db
<1>18. QED
  BY <1>9, <1>10, <1>12, <1>14, <1>15, <1>16, <1>17 DEF IInv

LEMMA PostOkInv ==
  ASSUME IInv, NEW s \in Scopes, PostOk(s)
  PROVE  IInv'
<1>1. /\ fwd.pc = "post" /\ posts[s].chunks # <<>> /\ Ingest(Head(posts[s].chunks))
      /\ posts' = [posts EXCEPT ![s] = [NoPost EXCEPT !.chunks = Tail(posts[s].chunks)]]
      /\ UNCHANGED <<db, cursor, gates, behind, hooks, notify, fwd, faults>>
  BY DEF PostOk
<1> DEFINE c == Tail(posts[s].chunks)
           p == [NoPost EXCEPT !.chunks = c]
<1>2. Tail(posts[s].chunks) \in Seq(SUBSET Versions)
  BY <1>1, ChunkTyped, HeadTailProperties DEF IInv
<1>3. /\ p \in [chunks : Seq(SUBSET Versions), tries : 0..Attempts - 1]
      /\ p.chunks = Tail(posts[s].chunks)
  <2> HIDE DEF c
  <2>1. p = [chunks |-> c, tries |-> 0]
    BY DEF NoPost
  <2>2. 0 \in 0..Attempts - 1
    BY ForwarderAssumption
  <2> HIDE DEF p
  <2>3. QED
    BY <1>2, <2>1, <2>2 DEF c
<1> HIDE DEF p
<1>4. posts' = [posts EXCEPT ![s] = p]
  BY <1>1 DEF p
<1>5. fwd.failed \in BOOLEAN /\ fwd' = [fwd EXCEPT !.failed = fwd.failed]
  BY <1>1 DEF IInv, TypeOK
<1>6. faults' \in 0..MaxFaults /\ faults <= faults' /\ (fwd.failed => faults' > 0)
  BY <1>1 DEF IInv, TypeOK, Phases
<1>7. PICK failed \in BOOLEAN : failed = fwd.failed
  BY <1>5
<1>8. fwd' = [fwd EXCEPT !.failed = failed]
  BY <1>5, <1>7
<1>9. QED
  BY <1>1, <1>3, <1>4, <1>6, <1>7, <1>8, PostInv

LEMMA PostRetryInv ==
  ASSUME IInv, NEW s \in Scopes, PostRetry(s)
  PROVE  IInv'
<1>1. /\ fwd.pc = "post" /\ posts[s].chunks # <<>> /\ posts[s].tries + 1 < Attempts /\ Fault
      /\ Ingest(Head(posts[s].chunks)) \/ UNCHANGED got
      /\ posts' = [posts EXCEPT ![s].tries = @ + 1]
      /\ UNCHANGED <<db, cursor, gates, behind, hooks, notify, fwd>>
  BY DEF PostRetry
<1> DEFINE p == [posts[s] EXCEPT !.tries = @ + 1]
<1>2. posts[s] \in [chunks : Seq(SUBSET Versions), tries : 0..Attempts - 1]
  BY DEF IInv, TypeOK
<1>3. /\ p \in [chunks : Seq(SUBSET Versions), tries : 0..Attempts - 1]
      /\ p.chunks = posts[s].chunks
  <2>1. Attempts \in Nat
    BY ForwarderAssumption
  <2>2. posts[s].tries + 1 \in 0..Attempts - 1
    BY <1>1, <1>2, <2>1
  <2>3. QED
    BY <1>2, <2>2
<1>4. posts' = [posts EXCEPT ![s] = p]
  BY <1>1
<1> HIDE DEF p
<1>5. fwd.failed \in BOOLEAN /\ fwd' = [fwd EXCEPT !.failed = fwd.failed]
  BY <1>1 DEF IInv, TypeOK
<1>6. faults' \in 0..MaxFaults /\ faults <= faults' /\ faults' > 0
  BY <1>1, FaultIs DEF IInv
<1>7. PICK failed \in BOOLEAN : failed = fwd.failed
  BY <1>5
<1>8. fwd' = [fwd EXCEPT !.failed = failed]
  BY <1>5, <1>7
<1>9. QED
  BY <1>1, <1>3, <1>4, <1>6, <1>7, <1>8, PostInv

LEMMA PostFailsInv ==
  ASSUME IInv, NEW s \in Scopes, PostFails(s)
  PROVE  IInv'
<1>1. /\ fwd.pc = "post" /\ posts[s].chunks # <<>> /\ Fault
      /\ Ingest(Head(posts[s].chunks)) \/ UNCHANGED got
      /\ posts' = [posts EXCEPT ![s] = NoPost]
      /\ fwd' = [fwd EXCEPT !.failed = TRUE]
      /\ UNCHANGED <<db, cursor, gates, behind, hooks, notify>>
  BY DEF PostFails
<1>2. NoPost \in [chunks : Seq(SUBSET Versions), tries : 0..Attempts - 1] /\ NoPost.chunks = <<>>
  BY ForwarderAssumption DEF NoPost
<1>3. faults' \in 0..MaxFaults /\ faults <= faults' /\ faults' > 0
  BY <1>1, FaultIs DEF IInv
<1>4. QED
  BY <1>1, <1>2, <1>3, PostInv

LEMMA PostsDoneInv ==
  ASSUME IInv, PostsDone
  PROVE  IInv'
<1>1. /\ fwd.pc = "post" /\ \A s \in Scopes : posts[s].chunks = <<>>
      /\ UNCHANGED <<db, cursor, gates, behind, hooks, notify, posts, got, faults>>
  BY DEF PostsDone
<1>2. CASE fwd.failed
  <2>1. fwd' = Idle
    BY <1>2 DEF PostsDone
  <2>2. /\ \A s \in Scopes : posts'[s] = posts[s]
        /\ DOMAIN posts' = Scopes /\ posts' = [s \in Scopes |-> posts'[s]]
    BY <1>1 DEF IInv, TypeOK
  <2>3. /\ gates' \in [Tables -> [misses : 0..MaxIdleSkips, skipLeft : 0..MaxIdleSkips]]
        /\ hooks' \in 0..MaxClock /\ hooks' <= clock /\ notify' \in BOOLEAN /\ faults' \in 0..MaxFaults
    BY <1>1 DEF IInv, TypeOK, Stamped
  <2>4. WakeCovers'
    <3>1. faults' > 0
      BY <1>1, <1>2 DEF IInv, Phases
    <3>2. QED
      BY <3>1 DEF WakeCovers
  <2>5. QED
    BY <1>1, <2>1, <2>2, <2>3, <2>4, IdleInv
<1>3. CASE ~fwd.failed
  <2>1. fwd' = [fwd EXCEPT !.pc = "advance", !.todo = TableOrder]
    BY <1>3 DEF PostsDone
  <2>2. /\ fwd'.page = fwd.page /\ fwd'.pc = "advance" /\ fwd'.todo = TableOrder
        /\ fwd'.failed = fwd.failed /\ fwd'.force = fwd.force
        /\ fwd' \in [pc : {"select", "debounce", "poll", "post", "advance"}, force : BOOLEAN,
                     todo : Seq(Tables), page : SUBSET Versions, failed : BOOLEAN]
    BY <2>1, ForwarderAssumption DEF IInv, TypeOK
  <2>3. TypeOK'
    BY <1>1, <2>2 DEF IInv, TypeOK, db
  <2>4. Stamped' /\ EndsThere' /\ Ties' /\ BehindPolled' /\ OnlyLateSkipped'
    BY <1>1 DEF IInv, Stamped, EndsThere, Ties, BehindPolled, OnlyLateSkipped, Unsent, Sendable, db
  <2>5. Queued' = Queued
    BY <1>1 DEF Queued
  <2>6. Copies' /\ Covered' /\ LinksLast' /\ Carried'
    BY <1>1, <1>3, <2>2, <2>5 DEF IInv, Copies, OneEach, Covered, LinksLast, Carried,
                                  Unsent, Sendable, db
  <2>7. Phases'
    <3>1. NoDup(TableOrder)
      BY ForwarderAssumption DEF NoDup
    <3>2. QED
      BY <1>1, <1>3, <2>2, <3>1 DEF IInv, Phases
  <2>8. WakeCovers'
    BY <1>1, <2>2 DEF IInv, WakeCovers, Unsent, Sendable, db
  <2>9. QED
    BY <2>3, <2>4, <2>6, <2>7, <2>8 DEF IInv
<1>4. QED
  BY <1>2, <1>3

-----------------------------------------------------------------------------
(* The cursors.                                                            *)

\* A set of stamps has a last one.
LEMMA MaxIn ==
  ASSUME NEW n \in Nat, NEW T \in SUBSET (1..n), T # {}
  PROVE  Max(T) \in T
<1> DEFINE D == {n - x : x \in T}
<1>1. D \in SUBSET Nat /\ D # {}
  <2>1. \A x \in T : n - x \in Nat
    OBVIOUS
  <2>2. \E x \in T : n - x \in D
    OBVIOUS
  <2>3. QED
    BY <2>1, <2>2
<1>2. PICK m \in D : \A y \in D : ~(<<y, m>> \in OpToRel(<, Nat))
  <2> HIDE DEF D
  <2>1. QED
    BY <1>1, WFMin, NatLessThanWellFounded
<1>3. PICK x \in T : m = n - x
  OBVIOUS
<1>4. \A y \in T : y <= x
  <2> SUFFICES ASSUME NEW y \in T PROVE y <= x
    OBVIOUS
  <2>1. n - y \in D
    OBVIOUS
  <2>2. n - y \in Nat /\ m \in Nat
    BY <1>1, <2>1
  <2> HIDE DEF D
  <2>3. ~(n - y < m)
    BY <1>2, <2>1, <2>2 DEF OpToRel
  <2>4. QED
    BY <1>3, <2>3
<1>5. \E z \in T : \A y \in T : z >= y
  BY <1>4
<1>6. QED
  BY <1>5 DEF Max

LEMMA AdvanceInv ==
  ASSUME IInv, Advance
  PROVE  IInv'
<1> DEFINE t == Head(fwd.todo)
<1>1. /\ fwd.pc = "advance" /\ fwd.todo # <<>>
      /\ fwd' = [fwd EXCEPT !.todo = Tail(@)]
      /\ UNCHANGED <<db, gates, behind, hooks, notify, posts, got>>
  BY DEF Advance
<1>2. /\ fwd.todo \in Seq(Tables) /\ NoDup(fwd.todo) /\ fwd.page \in SUBSET Versions
      /\ fwd \in [pc : {"select", "debounce", "poll", "post", "advance"}, force : BOOLEAN,
                  todo : Seq(Tables), page : SUBSET Versions, failed : BOOLEAN]
  BY DEF IInv, TypeOK, Phases
<1>3. t \in Tables /\ Tail(fwd.todo) \in Seq(Tables) /\ NoDup(Tail(fwd.todo))
  BY <1>1, <1>2, TailElems
<1>4. /\ fwd'.todo = Tail(fwd.todo) /\ fwd'.page = fwd.page /\ fwd'.pc = fwd.pc
      /\ fwd'.failed = fwd.failed /\ fwd'.force = fwd.force
      /\ fwd' \in [pc : {"select", "debounce", "poll", "post", "advance"}, force : BOOLEAN,
                   todo : Seq(Tables), page : SUBSET Versions, failed : BOOLEAN]
  BY <1>1, <1>2, <1>3
<1>5. faults' \in 0..MaxFaults /\ faults <= faults'
  <2>1. faults \in 0..MaxFaults /\ MaxFaults \in Nat
    BY ForwarderAssumption DEF IInv, TypeOK
  <2>2. UNCHANGED faults \/ Fault
    BY DEF Advance
  <2>3. QED
    BY <2>1, <2>2 DEF Fault
<1>6. \/ UNCHANGED cursor
      \/ \E v \in fwd.page : Table[v.row] = t /\ cursor' = [cursor EXCEPT ![t] = v.stamp]
  <2>1. CASE UNCHANGED cursor
    BY <2>1
  <2>2. CASE /\ \E v \in fwd.page : Table[v.row] = t
             /\ cursor' = [cursor EXCEPT ![t] = LastStamp(t)]
    <3> DEFINE W == {w \in fwd.page : Table[w.row] = t}
               T == {v.stamp : v \in W}
    <3>1. \A v \in W : v.stamp \in 1..MaxClock
      BY <1>2 DEF Versions
    <3>2. T \in SUBSET (1..MaxClock) /\ T # {}
      BY <2>2, <3>1
    <3>3. MaxClock \in Nat
      BY ForwarderAssumption
    <3>4. Max(T) \in T
      <4> HIDE DEF T
      <4>1. QED
        BY <3>2, <3>3, MaxIn
    <3>5. LastStamp(t) = Max(T)
      BY Zenon DEF LastStamp
    <3>6. PICK v \in W : v.stamp = Max(T)
      BY <3>4
    <3>7. QED
      BY <2>2, <3>5, <3>6
  <2>3. QED
    BY <2>1, <2>2 DEF Advance
<1>7. /\ cursor' \in [Tables -> 0..MaxClock]
      /\ \A u \in Tables : cursor'[u] <= top[u]
      /\ \A u \in Tables : \/ cursor'[u] = cursor[u]
                           \/ \E v \in fwd.page : Table[v.row] = u /\ cursor'[u] = v.stamp
  <2>1. /\ cursor \in [Tables -> 0..MaxClock]
        /\ \A u \in Tables : cursor[u] <= top[u]
    BY DEF IInv, TypeOK
  <2>2. CASE UNCHANGED cursor
    BY <2>1, <2>2
  <2>3. ASSUME NEW v \in fwd.page, Table[v.row] = t, cursor' = [cursor EXCEPT ![t] = v.stamp]
        PROVE  /\ cursor' \in [Tables -> 0..MaxClock]
               /\ \A u \in Tables : cursor'[u] <= top[u]
               /\ \A u \in Tables : \/ cursor'[u] = cursor[u]
                                    \/ \E x \in fwd.page : Table[x.row] = u /\ cursor'[u] = x.stamp
    <3>1. v.stamp \in 0..MaxClock /\ v.stamp <= top[t]
      BY <1>2, <2>3 DEF IInv, Copies, Versions
    <3>2. QED
      BY <1>3, <2>1, <2>3, <3>1
  <2>4. QED
    BY <1>6, <2>2, <2>3
<1>8. TypeOK'
  BY <1>1, <1>4, <1>5, <1>7 DEF IInv, TypeOK, db
<1>9. Stamped' /\ EndsThere' /\ Ties' /\ BehindPolled'
  BY <1>1 DEF IInv, Stamped, EndsThere, Ties, BehindPolled, db
<1>10. Queued' = Queued
  BY <1>1 DEF Queued
<1>11. Copies' /\ Covered' /\ LinksLast' /\ Carried'
  BY <1>1, <1>4, <1>10 DEF IInv, Copies, OneEach, Covered, LinksLast, Carried,
                           Unsent, Sendable, db
<1>12. Phases'
  BY <1>1, <1>3, <1>4, <1>5 DEF IInv, TypeOK, Phases
<1>13. OnlyLateSkipped'
  <2> SUFFICES ASSUME NEW r \in Sendable, stamp[r] <= cursor'[Table[r]], Unsent(r), r \notin late
               PROVE  FALSE
    BY <1>1 DEF OnlyLateSkipped, Unsent, Sendable, db
  <2>1. r \in Rows /\ Table[r] \in Tables /\ Scope[r] \in Scopes
    BY ForwarderAssumption DEF Sendable
  <2>2. cursor'[Table[r]] # cursor[Table[r]]
    BY DEF IInv, OnlyLateSkipped
  <2>3. PICK v \in fwd.page : Table[v.row] = Table[r] /\ cursor'[Table[r]] = v.stamp
    BY <1>7, <2>1, <2>2
  <2>4. PICK w \in fwd.page : w.row = r /\ w.ver = ver[r]
    BY <2>3 DEF IInv, Covered
  <2>5. ~fwd.failed /\ posts[Scope[r]].chunks = <<>>
    BY <1>1, <2>1 DEF IInv, Phases
  <2>6. w.ver <= got[r]
    BY <1>1, <2>4, <2>5 DEF IInv, Carried
  <2>7. QED
    BY <2>1, <2>4, <2>6 DEF Unsent, IInv, TypeOK
<1>14. WakeCovers'
  <2>1. faults' = 0 => faults = 0
    BY <1>5 DEF IInv, TypeOK
  <2>2. QED
    BY <1>1, <1>4, <2>1 DEF IInv, WakeCovers, Unsent, Sendable, db
<1>15. QED
  BY <1>8, <1>9, <1>11, <1>12, <1>13, <1>14 DEF IInv

\* An event of the page has been sent when the push ends: it never changes.
LEMMA PushDoneInv ==
  ASSUME IInv, PushDone
  PROVE  IInv'
<1>1. /\ fwd.pc = "advance" /\ fwd' = Idle
      /\ UNCHANGED <<db, cursor, gates, behind, hooks, notify, posts, got, faults>>
  BY DEF PushDone
<1>2. /\ \A s \in Scopes : posts'[s] = posts[s] /\ posts[s].chunks = <<>>
      /\ DOMAIN posts' = Scopes /\ posts' = [s \in Scopes |-> posts'[s]]
  BY <1>1 DEF IInv, TypeOK, Phases
<1>3. /\ gates' \in [Tables -> [misses : 0..MaxIdleSkips, skipLeft : 0..MaxIdleSkips]]
      /\ hooks' \in 0..MaxClock /\ hooks' <= clock /\ notify' \in BOOLEAN /\ faults' \in 0..MaxFaults
  BY <1>1 DEF IInv, TypeOK, Stamped
<1>4. ASSUME NEW v \in fwd.page, v.row \in Sendable, Table[v.row] = "events"
      PROVE  ~Unsent(v.row)
  <2>1. v.row \in Rows /\ v.ver \in 1..MaxClock /\ Scope[v.row] \in Scopes
    BY <1>4 DEF IInv, TypeOK, Versions, Sendable
  <2>2. v.ver <= got[v.row]
    BY <1>1, <1>2, <1>4, <2>1 DEF IInv, Phases, Carried
  <2>3. ver[v.row] <= 1 /\ ver[v.row] \in Nat /\ got[v.row] \in Nat
    <3>1. "events" \notin Mutable
      BY DEF Mutable
    <3>2. Table[v.row] \notin Mutable => ver[v.row] <= 1
      BY <2>1 DEF IInv, Stamped
    <3>3. ver[v.row] \in 0..MaxClock /\ got[v.row] \in 0..MaxClock
      BY <2>1 DEF IInv, TypeOK
    <3>4. QED
      BY <1>4, <3>1, <3>2, <3>3
  <2>4. QED
    BY <2>1, <2>2, <2>3 DEF Unsent
<1>5. WakeCovers'
  BY <1>1, <1>4 DEF IInv, WakeCovers, Unsent, Sendable, db
<1>6. QED
  BY <1>1, <1>2, <1>3, <1>5, IdleInv

LEMMA RestartInv ==
  ASSUME IInv, Restart
  PROVE  IInv'
<1>1. /\ fwd' = Idle /\ posts' = [s \in Scopes |-> NoPost] /\ UNCHANGED <<db, cursor, behind, got>>
      /\ hooks' = 0 /\ notify' = FALSE /\ Fault
      /\ gates' = [t \in Tables |-> [misses |-> 0, skipLeft |-> 0]]
  BY DEF Restart
<1>2. faults' \in 0..MaxFaults /\ faults' > 0
  BY <1>1, FaultIs DEF IInv
<1>3. /\ gates' \in [Tables -> [misses : 0..MaxIdleSkips, skipLeft : 0..MaxIdleSkips]]
      /\ hooks' \in 0..MaxClock /\ hooks' <= clock
      /\ \A t \in Tables : gates'[t].skipLeft = 0
  BY <1>1, ForwarderAssumption DEF IInv, TypeOK
<1>4. WakeCovers'
  BY <1>2 DEF WakeCovers
<1>5. /\ \A s \in Scopes : posts'[s] = NoPost
      /\ DOMAIN posts' = Scopes /\ posts' = [s \in Scopes |-> posts'[s]]
  BY <1>1
<1>6. QED
  BY <1>1, <1>2, <1>3, <1>4, <1>5, IdleInv

LEMMA InitIInv ==
  ASSUME Init
  PROVE  IInv
<1>1. /\ fwd.page = {} /\ fwd.pc = "select" /\ fwd.todo = <<>> /\ ~fwd.failed
      /\ fwd \in [pc : {"select", "debounce", "poll", "post", "advance"}, force : BOOLEAN,
                  todo : Seq(Tables), page : SUBSET Versions, failed : BOOLEAN]
  BY DEF Init, Idle
<1>2. /\ \A s \in Scopes : posts[s].chunks = <<>> /\ DOMAIN posts[s].chunks = {}
      /\ posts \in [Scopes -> [chunks : Seq(SUBSET Versions), tries : 0..Attempts - 1]]
  <2>1. /\ NoPost \in [chunks : Seq(SUBSET Versions), tries : 0..Attempts - 1]
        /\ NoPost.chunks = <<>> /\ DOMAIN NoPost.chunks = {}
    BY ForwarderAssumption DEF NoPost
  <2>2. QED
    BY <2>1 DEF Init
<1>3. TypeOK
  <2>1. \A t \in Tables : Cardinality({v \in {} : Table[v.row] = t}) <= Limit[t]
    <3>1. \A t \in Tables : {v \in {} : Table[v.row] = t} = {}
      OBVIOUS
    <3>2. Cardinality({}) = 0
      BY FS_EmptySet
    <3>3. QED
      BY <3>1, <3>2, ForwarderAssumption
  <2>2. /\ stamp \in [Rows -> 0..MaxClock] /\ ver \in [Rows -> 0..MaxClock] /\ clock \in 0..MaxClock
        /\ late \subseteq Rows /\ top \in [Tables -> 0..MaxClock] /\ cursor \in [Tables -> 0..MaxClock]
        /\ \A t \in Tables : cursor[t] <= top[t] /\ top[t] <= clock
        /\ behind \subseteq Rows /\ hooks \in 0..MaxClock /\ notify \in BOOLEAN
        /\ got \in [Rows -> 0..MaxClock] /\ faults \in 0..MaxFaults
    <3>1. MaxClock \in Nat /\ MaxFaults \in Nat /\ 0 \in 0..MaxClock /\ 0 \in 0..MaxFaults
      BY ForwarderAssumption
    <3>2. stamp \in [Rows -> 0..MaxClock] /\ ver \in [Rows -> 0..MaxClock] /\ got \in [Rows -> 0..MaxClock]
      BY <3>1 DEF Init
    <3>3. top \in [Tables -> 0..MaxClock] /\ cursor \in [Tables -> 0..MaxClock]
      BY <3>1 DEF Init
    <3>4. \A t \in Tables : cursor[t] <= top[t] /\ top[t] <= clock
      BY DEF Init
    <3>5. QED
      BY <3>1, <3>2, <3>3, <3>4 DEF Init
  <2>3. gates \in [Tables -> [misses : 0..MaxIdleSkips, skipLeft : 0..MaxIdleSkips]]
    BY ForwarderAssumption DEF Init
  <2>4. QED
    BY <1>1, <1>2, <2>1, <2>2, <2>3 DEF TypeOK
<1>4. Stamped /\ EndsThere /\ Ties /\ OnlyLateSkipped /\ WakeCovers /\ BehindPolled
  <2>1. \A r \in Rows : /\ stamp[r] = 0 /\ ver[r] = 0 /\ got[r] = 0
                        /\ Table[r] \in Tables /\ top[Table[r]] = 0
    BY ForwarderAssumption DEF Init
  <2>2. hooks = 0 /\ clock = 0
    BY DEF Init
  <2>3. Stamped
    BY <2>1, <2>2 DEF Stamped
  <2>4. EndsThere /\ Ties
    BY <2>1 DEF EndsThere, Ties
  <2>5. \A r \in Rows : ~Unsent(r)
    BY <2>1 DEF Unsent
  <2>6. BehindPolled
    BY DEF Init, BehindPolled
  <2>7. QED
    BY <2>3, <2>4, <2>5, <2>6 DEF OnlyLateSkipped, WakeCovers, Sendable
<1>5. Queued = {}
  BY <1>2 DEF Queued
<1>6. Copies /\ Covered /\ LinksLast /\ Carried
  BY <1>1, <1>2, <1>5 DEF Copies, OneEach, Covered, LinksLast, Carried
<1>7. Phases
  BY <1>1, <1>2, EmptyElems DEF Phases
<1>8. QED
  BY <1>3, <1>4, <1>6, <1>7 DEF IInv

LEMMA NextIInv ==
  ASSUME IInv, [Next]_vars
  PROVE  IInv'
<1>1. ASSUME NEW r \in Rows, Commit(r) PROVE IInv'
  BY <1>1, CommitInv
<1>2. CASE NotifyEvent \/ Tick \/ Wake \/ Debounced
  BY <1>2, NotifyEventInv, TickInv, WakeInv, DebouncedInv
<1>3. CASE PollTable \/ SkipTable \/ QueryFails \/ Build
  BY <1>3, PollTableInv, SkipTableInv, QueryFailsInv, BuildInv
<1>4. ASSUME NEW s \in Scopes, PostOk(s) \/ PostRetry(s) \/ PostFails(s) PROVE IInv'
  BY <1>4, PostOkInv, PostRetryInv, PostFailsInv
<1>5. CASE PostsDone \/ Advance \/ PushDone \/ Restart
  BY <1>5, PostsDoneInv, AdvanceInv, PushDoneInv, RestartInv
<1>6. CASE UNCHANGED vars
  <2>1. UNCHANGED <<stamp, ver, clock, top, late, cursor, gates, behind, hooks, notify, fwd, posts, got, faults>>
    BY <1>6 DEF vars, db
  <2>2. Queued' = Queued
    BY <2>1 DEF Queued
  <2>3. /\ TypeOK' /\ Stamped' /\ EndsThere' /\ Ties' /\ Copies' /\ Covered' /\ LinksLast'
    <3>1. TypeOK' /\ Stamped'
      BY <2>1 DEF IInv, TypeOK, Stamped
    <3>2. EndsThere' /\ Ties' /\ Copies'
      BY <2>1, <2>2 DEF IInv, EndsThere, Ties, Copies
    <3>3. Covered' /\ LinksLast'
      BY <2>1 DEF IInv, Covered, LinksLast, Unsent, Sendable
    <3>4. QED
      BY <3>1, <3>2, <3>3
  <2>4. Carried' /\ Phases' /\ OnlyLateSkipped' /\ WakeCovers' /\ BehindPolled'
    BY <2>1 DEF IInv, Carried, Phases, OnlyLateSkipped, WakeCovers, BehindPolled, Unsent, Sendable
  <2>5. QED
    BY <2>3, <2>4 DEF IInv
<1>7. QED
  BY <1>1, <1>2, <1>3, <1>4, <1>5, <1>6 DEF Next, Push

LEMMA SpecIInv == Spec => []IInv
<1>1. Init => IInv
  BY InitIInv
<1>2. IInv /\ [Next]_vars => IInv'
  BY NextIInv
<1>3. QED
  BY <1>1, <1>2, PTL DEF Spec

-----------------------------------------------------------------------------
(* The theorems.                                                           *)

\* For every set of rows, tables, scopes and limits the forwarder's state is well
\* formed, and a cursor passes a row in order only when the Aggregator has its
\* newest version: whatever fails, is replayed, changes between the queries and
\* the posts, or restarts (pushNetwork, postChunk, SetForwarderCursor).
THEOREM ForwarderCursorsSafe == Spec => []CursorsSafe
<1>1. IInv => CursorsSafe
  BY DEF IInv, CursorsSafe
<1>2. QED
  BY <1>1, SpecIInv, PTL

\* Until something fails, an unsent event in order always has a hook, a signal or
\* a forced push on its way, is in a page, or was left out by the full page the
\* events were last read with, and the next tick reads them again: coalescing
\* signals in notifyEvent and draining them after the debounce loses no wake.
THEOREM ForwarderWakeCovers == Spec => []WakeCovers
<1>1. IInv => WakeCovers
  BY DEF IInv
<1>2. QED
  BY <1>1, SpecIInv, PTL
=============================================================================
